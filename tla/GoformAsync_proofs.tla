------------------------- MODULE GoformAsync_proofs -------------------------
(***************************************************************************)
(* Proofs, for any number of connections, heap addresses and requests,     *)
(* that the two threads of goform_async.c never touch freed memory, leak   *)
(* no job, keep one job per connection, answer only what is owed, start    *)
(* nothing once the shutdown has begun, and implement RequestService.      *)
(*                                                                         *)
(* None of these is inductive alone.  That a job about to be freed is no   *)
(* one else's (PointersLive) rests on RUNNING being the worker's mark      *)
(* (RunningIsWorkers) and on a pointer being set exactly in the steps that *)
(* use it (PointersSet); that an answer is owed rests on the numbering of  *)
(* requests and on OneJobPerConnection, without which a connection that    *)
(* closes would leave a second job behind that is not canceled.            *)
(***************************************************************************)
EXTENDS GoformAsync, TLAPS

\* What calloc returned and nobody freed holds a job.
AllocatedJobs == \A a \in alloc : heap[a] \in Job

\* A thread's pointer is set exactly while the thread has a job in hand.
PointersSet ==
  /\ wjob = NoAddr <=> wpc \in {"lock", "wait", "exited"}
  /\ mjob = NoAddr <=> mpc \in {"loop", "join", "stopped"}

\* Only the worker's own job is RUNNING on the list.
RunningIsWorkers ==
  \A a \in jobs : heap[a].state = "RUNNING" => WorkerHolds /\ a = wjob

\* The shutdown: main sets stopping, the worker leaves, main is joined.
ShutdownOrder ==
  /\ stopping <=> mpc \in {"join", "stopped"}
  /\ wpc = "exited" => stopping
  /\ mpc = "stopped" => wpc = "exited"

\* The jobs an answer may still come from.
Answering == jobs \cup (IF mpc = "complete" THEN {mjob} ELSE {})

\* Jobs are numbered apart, and none is numbered ahead of nreq.
Numbered ==
  /\ \A a \in Answering : heap[a].req <= nreq
  /\ \A a, b \in Answering : heap[a].req = heap[b].req => a = b

\* A job that is not canceled is owed by a connection that is open.
Owed ==
  \A a \in Answering : ~heap[a].canceled =>
     heap[a].conn \in open /\ heap[a].req \in owed[heap[a].conn]

\* A response is filled before its job is completed.
Filled ==
  /\ \A a \in jobs : heap[a].state = "COMPLETED" => heap[a].done
  /\ wpc = "finish" => heap[wjob].done

\* Only closing a connection cancels its job, and only a canceled job is freed
\* unanswered by the event loop.
CanceledIsClosed ==
  /\ \A a \in jobs : heap[a].canceled => heap[a].conn \notin open
  /\ mpc = "dispose" => heap[mjob].canceled

\* The inductive invariant: memory, answers, and what an open connection waits for.
MemInv == /\ TypeOK /\ AllocatedJobs /\ PointersSet /\ RunningIsWorkers
          /\ ShutdownOrder /\ PointersLive /\ NoLeak
AnswerInv == OneJobPerConnection /\ Numbered /\ Owed /\ Filled /\ AnswersAreOwed
DropInv == CanceledIsClosed /\ StillUnderWay
IInv == MemInv /\ AnswerInv /\ DropInv /\ NoMissedWakeup

---------------------------------------------------------------------------

\* goform_async_init establishes the invariant.
LEMMA InitInv == Init => IInv
<1> SUFFICES ASSUME Init PROVE IInv
  OBVIOUS
<1> USE NoAddrAssumption, BoundsAssumption DEF Init
<1>1. TypeOK
  <2>1. pipe \in Seq(Datagram)
    OBVIOUS
  <2>2. heap \in [Addr -> Job \cup {NoJob}] /\ owed \in [Conn -> SUBSET Req]
    OBVIOUS
  <2>3. /\ wjob \in Addr \cup {NoAddr} /\ mjob \in Addr \cup {NoAddr}
        /\ lost \in 0 .. MaxLost /\ nreq \in 0 .. MaxReq
    OBVIOUS
  <2>4. jobs \subseteq Addr /\ alloc \subseteq Addr /\ open \subseteq Conn /\ isFull \subseteq Conn
    OBVIOUS
  <2>5. stopping \in BOOLEAN /\ pipeUp \in BOOLEAN
    OBVIOUS
  <2>6. QED
    BY <2>1, <2>2, <2>3, <2>4, <2>5, Zenon DEF TypeOK
<1>2. MemInv
  BY <1>1 DEF MemInv, AllocatedJobs, PointersSet, RunningIsWorkers, ShutdownOrder,
              PointersLive, NoLeak, WorkerHolds
<1>3. AnswerInv
  BY DEF AnswerInv, OneJobPerConnection, Numbered, Owed, Filled, Answering, AnswersAreOwed
<1>4. DropInv
  BY DEF DropInv, CanceledIsClosed, StillUnderWay, JobsOf
<1>5. QED
  BY <1>2, <1>3, <1>4 DEF IInv, NoMissedWakeup

\* No step of either thread breaks the memory part, which needs nothing else.
LEMMA MemStep == MemInv /\ [Next]_vars => MemInv'
<1> SUFFICES ASSUME MemInv, [Next]_vars PROVE MemInv'
  OBVIOUS
<1> USE NoAddrAssumption, BoundsAssumption
        DEF MemInv, TypeOK, AllocatedJobs, PointersSet, RunningIsWorkers, ShutdownOrder,
            PointersLive, NoLeak, WorkerHolds, JobState, Req, Job, NoJob,
            vars, listVars, workerVars, mainVars, wakeVars, connVars
<1>1. CASE WorkerWait
  BY <1>1 DEF WorkerWait, Queued
<1>2. CASE SpuriousWakeup
  BY <1>2 DEF SpuriousWakeup
<1>3. CASE WorkerTake
  BY <1>3 DEF WorkerTake, MayTake, FirstQueued, Queued
<1>4. CASE WorkerRun
  <2>1. wjob \in Addr /\ wjob \in alloc /\ heap[wjob] \in Job
    BY <1>4 DEF WorkerRun
  <2>2. /\ heap'[wjob] \in Job /\ heap'[wjob].state = heap[wjob].state
        /\ \A a \in Addr \ {wjob} : heap'[a] = heap[a]
    <3>1. /\ heap'[wjob] = [heap[wjob] EXCEPT !.done = TRUE]
          /\ \A a \in Addr \ {wjob} : heap'[a] = heap[a]
      BY <1>4, <2>1 DEF WorkerRun
    <3>2. QED
      BY <2>1, <3>1
  <2>3. heap' \in [Addr -> Job \cup {NoJob}]
    BY <1>4, <2>1, <2>2 DEF WorkerRun
  <2>4. TypeOK' /\ AllocatedJobs'
    BY <1>4, <2>2, <2>3 DEF WorkerRun
  <2>5. RunningIsWorkers' /\ PointersLive'
    BY <1>4, <2>1, <2>2 DEF WorkerRun
  <2>6. PointersSet' /\ ShutdownOrder' /\ NoLeak'
    BY <1>4 DEF WorkerRun
  <2>7. QED
    BY <2>4, <2>5, <2>6
<1>5. CASE WorkerAbandon
  BY <1>5 DEF WorkerAbandon, Abandoned
<1>6. CASE WorkerPublish
  <2> DEFINE d == [conn |-> heap[wjob].conn, token |-> wjob]
  <2>1. d \in Datagram
    BY <1>6 DEF WorkerPublish, Datagram
  <2>2. pipe' \in Seq(Datagram) /\ lost' \in 0 .. MaxLost
    <3>1. Sent(d)
      BY <1>6 DEF WorkerPublish
    <3> HIDE DEF d
    <3>2. CASE pipe' = Append(pipe, d) /\ lost' = lost
      BY <2>1, <3>2
    <3>3. CASE lost < MaxLost /\ pipe' = pipe /\ lost' = lost + 1
      BY <3>3
    <3>4. QED
      BY <3>1, <3>2, <3>3 DEF Sent
  <2>3. TypeOK' /\ AllocatedJobs'
    <3>1. wjob \in Addr /\ heap[wjob] \in Job
      BY <1>6 DEF WorkerPublish
    <3>2. heap'[wjob] \in Job /\ \A a \in Addr \ {wjob} : heap'[a] = heap[a]
      BY <1>6, <3>1 DEF WorkerPublish
    <3>3. heap' \in [Addr -> Job \cup {NoJob}]
      BY <1>6, <3>1, <3>2 DEF WorkerPublish
    <3>4. QED
      BY <1>6, <2>2, <3>2, <3>3 DEF WorkerPublish
  <2>4. heap'[wjob].state = "COMPLETED" /\ \A a \in Addr \ {wjob} : heap'[a] = heap[a]
    BY <1>6 DEF WorkerPublish
  <2>5. PointersSet' /\ RunningIsWorkers' /\ PointersLive' /\ NoLeak'
    BY <1>6, <2>4 DEF WorkerPublish
  <2>6. QED
    BY <1>6, <2>3, <2>5 DEF WorkerPublish
<1>7. CASE WorkerPublishFails
  BY <1>7 DEF WorkerPublishFails, Abandoned
<1>8. CASE WorkerDispose
  BY <1>8 DEF WorkerDispose
<1>9. CASE WorkerExit
  BY <1>9 DEF WorkerExit, Queued
<1>10. CASE Wakeup
  BY <1>10 DEF Wakeup, Answerable
<1>11. CASE Complete
  BY <1>11 DEF Complete
<1>12. CASE MainDispose
  BY <1>12 DEF MainDispose
<1>13. CASE Joined
  <2>1. pipe' \in Seq(Datagram)
    BY <1>13 DEF Joined
  <2>2. QED
    BY <1>13, <2>1 DEF Joined, StillListed
<1>14. CASE PipeFails
  <2>1. pipe' \in Seq(Datagram)
    BY <1>14 DEF PipeFails
  <2>2. QED
    BY <1>14, <2>1 DEF PipeFails
<1>15. CASE Shutdown
  BY <1>15 DEF Shutdown, Signalled
<1>16. ASSUME NEW c \in Conn, Submit(c) PROVE MemInv'
  BY <1>16 DEF Submit, FreshState, NoJobFor, JobsOf, Signalled
<1>17. ASSUME NEW c \in Conn, SubmitRefused(c) PROVE MemInv'
  BY <1>17 DEF SubmitRefused
<1>18. ASSUME NEW c \in Conn, Close(c) PROVE MemInv'
  <2>1. CASE JobsOf(c) = {}
    BY <1>18, <2>1 DEF Close, NoJobFor, JobsOf
  <2>2. ASSUME NEW a \in jobs, heap' = [heap EXCEPT ![a].canceled = TRUE],
               \/ Cancelable(a) /\ jobs' = jobs \ {a} /\ mjob' = a /\ mpc' = "dispose"
               \/ ~Cancelable(a) /\ UNCHANGED <<jobs, mainVars>>
        PROVE  MemInv'
    <3>1. /\ mpc = "loop"
          /\ UNCHANGED <<alloc, stopping, workerVars, wakeVars, isFull, nreq, owed>>
          /\ open' \subseteq open
      BY <1>18 DEF Close
    <3>2. a \in Addr /\ heap[a] \in Job
      OBVIOUS
    <3>3. /\ heap'[a] = [heap[a] EXCEPT !.canceled = TRUE]
          /\ \A b \in Addr \ {a} : heap'[b] = heap[b]
      BY <2>2, <3>2
    <3>4. heap'[a] \in Job /\ heap'[a].state = heap[a].state
      BY <3>2, <3>3
    <3>5. heap' \in [Addr -> Job \cup {NoJob}]
      BY <2>2, <3>2, <3>4
    <3>6. TypeOK'
      BY <2>2, <3>1, <3>5
    <3>7. AllocatedJobs'
      BY <3>1, <3>3, <3>4
    <3>8. RunningIsWorkers' /\ PointersLive'
      BY <2>2, <3>1, <3>3, <3>4 DEF Cancelable
    <3>9. PointersSet' /\ ShutdownOrder' /\ NoLeak'
      BY <2>2, <3>1
    <3>10. QED
      BY <3>6, <3>7, <3>8, <3>9
  <2>3. CASE JobsOf(c) # {}
    BY <1>18, <2>2, <2>3 DEF Close, NoJobFor, JobsOf
  <2>4. QED
    BY <2>1, <2>3
<1>19. CASE UNCHANGED vars
  BY <1>19
<1>20. QED
  BY <1>1, <1>2, <1>3, <1>4, <1>5, <1>6, <1>7, <1>8, <1>9, <1>10, <1>11, <1>12, <1>13,
     <1>14, <1>15, <1>16, <1>17, <1>18, <1>19 DEF Next, Worker, MainOwn, Terminated

\* No step breaks the numbering of requests and who is owed an answer.
LEMMA AnswerStep == IInv /\ [Next]_vars => AnswerInv'
<1> SUFFICES ASSUME IInv, [Next]_vars PROVE AnswerInv'
  OBVIOUS
<1> USE NoAddrAssumption, BoundsAssumption
        DEF IInv, MemInv, AnswerInv, DropInv, TypeOK, AllocatedJobs, PointersSet,
            RunningIsWorkers, PointersLive, WorkerHolds, JobState, Req, Job, NoJob,
            OneJobPerConnection, Numbered, Owed, Filled, Answering, AnswersAreOwed,
            CanceledIsClosed, vars, listVars, workerVars, mainVars, wakeVars, connVars
<1>1. CASE WorkerWait
  BY <1>1 DEF WorkerWait, Queued
<1>2. CASE SpuriousWakeup
  BY <1>2 DEF SpuriousWakeup
<1>3. CASE WorkerTake
  BY <1>3 DEF WorkerTake, MayTake, FirstQueued, Queued
<1>4. CASE WorkerRun
  BY <1>4 DEF WorkerRun
<1>5. CASE WorkerAbandon
  BY <1>5 DEF WorkerAbandon, Abandoned
<1>6. CASE WorkerPublish
  BY <1>6 DEF WorkerPublish, Abandoned, Sent
<1>7. CASE WorkerPublishFails
  BY <1>7 DEF WorkerPublishFails, Abandoned
<1>8. CASE WorkerDispose
  BY <1>8 DEF WorkerDispose
<1>9. CASE WorkerExit
  BY <1>9 DEF WorkerExit, Queued
<1>10. CASE Wakeup
  BY <1>10 DEF Wakeup, Answerable
<1>11. CASE Complete
  BY <1>11 DEF Complete
<1>12. CASE MainDispose
  BY <1>12 DEF MainDispose
<1>13. CASE Joined
  BY <1>13 DEF Joined, StillListed
<1>14. CASE PipeFails
  BY <1>14 DEF PipeFails
<1>15. CASE Shutdown
  BY <1>15 DEF Shutdown, Signalled
<1>16. ASSUME NEW c \in Conn, Submit(c) PROVE AnswerInv'
  BY <1>16 DEF Submit, FreshState, NoJobFor, JobsOf, Signalled
<1>17. ASSUME NEW c \in Conn, SubmitRefused(c) PROVE AnswerInv'
  BY <1>17 DEF SubmitRefused
<1>18. ASSUME NEW c \in Conn, Close(c) PROVE AnswerInv'
  <2>1. CASE JobsOf(c) = {}
    BY <1>18, <2>1 DEF Close, NoJobFor, JobsOf
  <2>2. CASE JobsOf(c) # {}
    <3>1. PICK a \in jobs : /\ heap[a].conn = c
                            /\ heap' = [heap EXCEPT ![a].canceled = TRUE]
                            /\ \/ jobs' = jobs \ {a}
                               \/ jobs' = jobs
                            /\ mpc' # "complete"
      BY <1>18, <2>2 DEF Close, NoJobFor, JobsOf
    <3>2. \A b \in Addr : /\ heap'[b].conn = heap[b].conn /\ heap'[b].req = heap[b].req
                           /\ heap'[b].done = heap[b].done /\ heap'[b].state = heap[b].state
      BY <3>1
    <3>3. heap'[a].canceled /\ \A b \in Addr \ {a} : heap'[b] = heap[b]
      BY <3>1
    <3>4. open' = open \ {c} /\ UNCHANGED <<owed, nreq, wpc, wjob>>
      BY <1>18 DEF Close
    <3>5. OneJobPerConnection' /\ Numbered' /\ Filled'
      BY <3>1, <3>2, <3>4
    <3>6. Owed'
      BY <3>1, <3>2, <3>3, <3>4
    <3>7. QED
      BY <3>1, <3>5, <3>6
  <2>3. QED
    BY <2>1, <2>2
<1>19. CASE UNCHANGED vars
  BY <1>19
<1>20. QED
  BY <1>1, <1>2, <1>3, <1>4, <1>5, <1>6, <1>7, <1>8, <1>9, <1>10, <1>11, <1>12, <1>13,
     <1>14, <1>15, <1>16, <1>17, <1>18, <1>19 DEF Next, Worker, MainOwn, Terminated

\* No step loses a request of an open connection, or its wakeup.
LEMMA DropStep == IInv /\ [Next]_vars => DropInv'
<1> SUFFICES ASSUME IInv, [Next]_vars PROVE DropInv'
  OBVIOUS
<1> USE NoAddrAssumption, BoundsAssumption
        DEF IInv, MemInv, AnswerInv, DropInv, TypeOK, AllocatedJobs, PointersSet,
            RunningIsWorkers, PointersLive, WorkerHolds, JobState, Req, Job, NoJob,
            OneJobPerConnection, Numbered, Owed, Filled, Answering, AnswersAreOwed,
            CanceledIsClosed, vars, listVars, workerVars, mainVars, wakeVars, connVars,
            StillUnderWay, InProgress, JobsOf
<1>1. CASE WorkerWait
  BY <1>1 DEF WorkerWait, Queued
<1>2. CASE SpuriousWakeup
  BY <1>2 DEF SpuriousWakeup
<1>3. CASE WorkerTake
  BY <1>3 DEF WorkerTake, MayTake, FirstQueued, Queued
<1>4. CASE WorkerRun
  BY <1>4 DEF WorkerRun
<1>5. CASE WorkerAbandon
  BY <1>5 DEF WorkerAbandon, Abandoned
<1>6. CASE WorkerPublish
  <2> DEFINE d == [conn |-> heap[wjob].conn, token |-> wjob]
  <2>1. /\ heap' = [heap EXCEPT ![wjob].state = "COMPLETED"]
        /\ UNCHANGED <<jobs, alloc, stopping, mpc, mjob, open, owed, isFull, pipeUp>>
    BY <1>6 DEF WorkerPublish
  <2>2. \A a \in Addr : /\ heap'[a].conn = heap[a].conn /\ heap'[a].req = heap[a].req
                         /\ heap'[a].canceled = heap[a].canceled
                         /\ a # wjob => heap'[a] = heap[a]
    BY <2>1
  <2>3. CanceledIsClosed'
    BY <2>1, <2>2
  <2>4. ASSUME pipeUp', ~stopping', NEW c \in open, NEW a \in jobs, heap[a].conn = c,
               heap'[a].state = "COMPLETED", lost' = 0
        PROVE  \E i \in 1 .. Len(pipe') : pipe'[i] = [conn |-> c, token |-> a]
    <3>1. pipe' = Append(pipe, d) /\ lost = 0
      BY <1>6, <2>4 DEF WorkerPublish, Sent
    <3>2. d \in Datagram
      BY <1>6 DEF WorkerPublish, Datagram
    <3>3. /\ Len(pipe') = Len(pipe) + 1 /\ Len(pipe) \in Nat
          /\ pipe'[Len(pipe) + 1] = d
          /\ \A i \in 1 .. Len(pipe) : pipe'[i] = pipe[i]
      <4> HIDE DEF d
      <4> QED BY <3>1, <3>2
    <3>4. CASE a = wjob
      BY <2>4, <3>3, <3>4
    <3>5. CASE a # wjob
      <4>1. heap[a].state = "COMPLETED" /\ pipeUp /\ ~stopping
        BY <2>1, <2>2, <2>4, <3>5
      <4>2. PICK i \in 1 .. Len(pipe) : pipe[i] = [conn |-> c, token |-> a]
        BY <2>4, <3>1, <4>1
      <4>3. QED
        BY <3>3, <4>2
    <3>6. QED
      BY <3>4, <3>5
  <2>5. ASSUME pipeUp', ~stopping', NEW c \in open, NEW r \in owed[c]
        PROVE  InProgress(c, r)'
    BY <2>1, <2>2, <2>5
  <2>6. QED
    BY <2>1, <2>2, <2>3, <2>4, <2>5
<1>7. CASE WorkerPublishFails
  BY <1>7 DEF WorkerPublishFails, Abandoned
<1>8. CASE WorkerDispose
  BY <1>8 DEF WorkerDispose
<1>9. CASE WorkerExit
  BY <1>9 DEF WorkerExit, Queued
<1>10. CASE Wakeup
  <2>1. CanceledIsClosed' /\ UNCHANGED <<open, owed, isFull, heap, alloc>>
    BY <1>10 DEF Wakeup
  <2>2. SUFFICES ASSUME pipeUp', ~stopping', NEW c \in open
                 PROVE  /\ \A r \in owed[c] : InProgress(c, r)'
                        /\ c \in isFull => owed[c] # {}
                        /\ \A a \in JobsOf(c)' : heap[a].state = "COMPLETED" /\ lost' = 0 =>
                             \E i \in 1 .. Len(pipe') : pipe'[i] = [conn |-> c, token |-> a]
    BY <2>1
  <2>3. \A r \in owed[c] : InProgress(c, r)'
    BY <1>10, <2>1, <2>2 DEF Wakeup
  <2>4. ASSUME NEW a \in jobs', heap[a].conn = c, heap[a].state = "COMPLETED", lost' = 0
        PROVE  \E i \in 1 .. Len(pipe') : pipe'[i] = [conn |-> c, token |-> a]
    <3>1. PICK i \in 1 .. Len(pipe) : pipe[i] = [conn |-> c, token |-> a]
      BY <1>10, <2>2, <2>4 DEF Wakeup
    <3>2. i # 1
      BY <1>10, <2>4, <3>1 DEF Wakeup, Answerable
    <3>3. i - 1 \in 1 .. Len(pipe') /\ pipe'[i - 1] = pipe[i]
      BY <1>10, <3>1, <3>2 DEF Wakeup
    <3>4. QED
      BY <3>1, <3>3
  <2>5. QED
    BY <1>10, <2>1, <2>2, <2>3, <2>4 DEF Wakeup
<1>11. CASE Complete
  BY <1>11 DEF Complete
<1>12. CASE MainDispose
  BY <1>12 DEF MainDispose
<1>13. CASE Joined
  BY <1>13 DEF Joined, StillListed
<1>14. CASE PipeFails
  BY <1>14 DEF PipeFails
<1>15. CASE Shutdown
  BY <1>15 DEF Shutdown, Signalled
<1>16. ASSUME NEW c \in Conn, Submit(c) PROVE DropInv'
  BY <1>16 DEF Submit, FreshState, NoJobFor, JobsOf, Signalled
<1>17. ASSUME NEW c \in Conn, SubmitRefused(c) PROVE DropInv'
  BY <1>17 DEF SubmitRefused
<1>18. ASSUME NEW c \in Conn, Close(c) PROVE DropInv'
  <2>1. CASE JobsOf(c) = {}
    BY <1>18, <2>1 DEF Close, NoJobFor, JobsOf
  <2>2. CASE JobsOf(c) # {}
    <3>1. PICK a \in jobs : /\ heap[a].conn = c
                            /\ heap' = [heap EXCEPT ![a].canceled = TRUE]
                            /\ \/ jobs' = jobs \ {a}
                               \/ jobs' = jobs
                            /\ mpc = "loop"
                            /\ mpc' = "dispose" => mjob' = a
      BY <1>18, <2>2 DEF Close, NoJobFor, JobsOf
    <3>2. \A b \in Addr : /\ heap'[b].conn = heap[b].conn /\ heap'[b].req = heap[b].req
                           /\ heap'[b].done = heap[b].done /\ heap'[b].state = heap[b].state
      BY <3>1
    <3>3. heap'[a].canceled /\ \A b \in Addr \ {a} : heap'[b] = heap[b]
      BY <3>1
    <3>4. open' = open \ {c} /\ UNCHANGED <<owed, nreq, wpc, wjob>>
      BY <1>18 DEF Close
    <3>5. CanceledIsClosed'
      BY <3>1, <3>2, <3>3, <3>4
    <3>6. ASSUME pipeUp', ~stopping', NEW d \in open', NEW r \in owed[d]
          PROVE  InProgress(d, r)'
      BY <1>18, <3>1, <3>2, <3>3, <3>4, <3>6 DEF Close
    <3>7. UNCHANGED <<pipe, pipeUp, lost, stopping, isFull>> /\ jobs' \subseteq jobs
      BY <1>18, <3>1 DEF Close
    <3>8. QED
      BY <3>2, <3>4, <3>5, <3>6, <3>7
  <2>3. QED
    BY <2>1, <2>2
<1>19. CASE UNCHANGED vars
  BY <1>19
<1>20. QED
  BY <1>1, <1>2, <1>3, <1>4, <1>5, <1>6, <1>7, <1>8, <1>9, <1>10, <1>11, <1>12, <1>13,
     <1>14, <1>15, <1>16, <1>17, <1>18, <1>19 DEF Next, Worker, MainOwn, Terminated

---------------------------------------------------------------------------

\* What queues a job or begins the shutdown signals a worker that sleeps.
LEMMA WakeStep == IInv /\ [Next]_vars => NoMissedWakeup'
<1> SUFFICES ASSUME IInv, [Next]_vars, wpc' = "wait" PROVE Queued' = {} /\ ~stopping'
  BY DEF NoMissedWakeup
<1> USE DEF IInv, MemInv, TypeOK, NoMissedWakeup, Queued, vars, listVars, workerVars, mainVars, wakeVars, connVars
<1>1. CASE Worker \/ SpuriousWakeup
  BY <1>1 DEF Worker, WorkerWait, SpuriousWakeup, WorkerTake, WorkerRun, WorkerAbandon, WorkerPublish,
              WorkerPublishFails, WorkerDispose, WorkerExit
<1>2. CASE MainOwn
  BY <1>2 DEF MainOwn, Wakeup, Complete, MainDispose, Joined
<1>3. ASSUME NEW c \in Conn, Submit(c) \/ SubmitRefused(c) PROVE Queued' = {} /\ ~stopping'
  BY <1>3 DEF Submit, Signalled, SubmitRefused
<1>4. ASSUME NEW c \in Conn, Close(c) PROVE Queued' = {} /\ ~stopping'
  <2>1. wpc = "wait" /\ ~stopping' /\ jobs' \subseteq jobs /\ jobs \subseteq Addr
    BY <1>4 DEF Close, JobsOf, PointersLive
  <2>2. \A a \in jobs : heap'[a].state = heap[a].state
    <3>1. CASE JobsOf(c) = {}
      BY <1>4, <3>1 DEF Close, NoJobFor
    <3>2. CASE JobsOf(c) # {}
      <4>1. PICK b \in jobs : heap' = [heap EXCEPT ![b].canceled = TRUE]
        BY <1>4, <3>2 DEF Close, NoJobFor, JobsOf
      <4>2. heap[b] \in Job
        BY <2>1 DEF AllocatedJobs, PointersLive
      <4>3. heap'[b].state = heap[b].state /\ \A a \in Addr \ {b} : heap'[a] = heap[a]
        BY <2>1, <4>1, <4>2 DEF Job
      <4>4. QED
        BY <2>1, <4>3
    <3>3. QED
      BY <3>1, <3>2
  <2>3. QED
    BY <2>1, <2>2
<1>5. CASE PipeFails \/ Shutdown \/ UNCHANGED vars
  BY <1>5 DEF PipeFails, Shutdown, Signalled
<1>6. QED
  BY <1>1, <1>2, <1>3, <1>4, <1>5 DEF Next, Terminated

THEOREM Invariance == Spec => []IInv
<1>1. IInv /\ [Next]_vars => IInv'
  BY MemStep, AnswerStep, DropStep, WakeStep DEF IInv
<1>2. QED
  BY InitInv, <1>1, PTL DEF Spec

\* Every variable keeps its type, for any number of requests.
THEOREM TypeCorrect == Spec => []TypeOK
<1>1. IInv => TypeOK
  BY DEF IInv, MemInv, AnswerInv, DropInv
<1>2. QED
  BY Invariance, <1>1, PTL

\* Neither thread uses or frees a job that the other one has freed or still
\* uses (dispose_job after the unlock in the worker, in cancel and in wakeup); a
\* job is listed, or in the hands of the thread about to free it, and none is
\* left when goform_async_shutdown returns; a connection has one job.
THEOREM HeapSafeHolds == Spec => []HeapSafe
<1>1. IInv => HeapSafe
  BY DEF IInv, MemInv, AnswerInv, DropInv, HeapSafe
<1>2. QED
  BY Invariance, <1>1, PTL

\* A completion answers an open connection, for a request without an answer,
\* although a wakeup carries a heap address that may have been reused.
THEOREM AnswersOwed == Spec => []AnswersAreOwed
<1>1. IInv => AnswersAreOwed
  BY DEF IInv, MemInv, AnswerInv, DropInv
<1>2. QED
  BY Invariance, <1>1, PTL

\* While the service runs and its wakeup socket works, what an open connection
\* waits for is still under way, and a completed job's wakeup is in the pipe; the
\* worker never sleeps on a queued job or on the shutdown.
THEOREM NothingDropped == Spec => []NoSilentDrop
<1>1. IInv => NoSilentDrop
  BY DEF IInv, DropInv, NoSilentDrop
<1>2. QED
  BY Invariance, <1>1, PTL

\* After stopping is set no queued job starts and the running one leaves the
\* list only through the worker.
THEOREM StopStartsNothingHolds == Spec => StopStartsNothing
<1> DEFINE Quiet ==
      stopping => \A a \in jobs :
        /\ heap[a].state = "QUEUED" => heap'[a].state = "QUEUED"
        /\ heap[a].state = "RUNNING" /\ a \notin jobs' => wjob = a /\ wpc = "finish"
<1>1. IInv /\ [Next]_vars => Quiet
  BY DEF IInv, MemInv, TypeOK, RunningIsWorkers, ShutdownOrder, PointersLive, WorkerHolds,
         vars, listVars, workerVars, mainVars, wakeVars, connVars, Next, Worker, MainOwn,
         Terminated, WorkerWait, SpuriousWakeup, WorkerTake, MayTake, WorkerRun,
         WorkerAbandon, WorkerPublish, WorkerPublishFails, WorkerDispose, WorkerExit, Queued,
         Submit, FreshState, SubmitRefused, Close, Wakeup, Complete, MainDispose, PipeFails, Shutdown, Joined
<1>2. QED
  BY Invariance, <1>1, PTL DEF Spec, StopStartsNothing

\* The steps the worker has left once the shutdown has begun.
StepsLeft == CASE wpc = "exited" -> 0 [] wpc = "lock" -> 1 [] wpc = "dispose" -> 2
               [] wpc = "finish" -> 3 [] wpc = "run" -> 4 [] OTHER -> 5

\* pthread_join in goform_async_shutdown waits for at most four steps of the
\* worker: it is not asleep, each of its steps brings it nearer its end, and no
\* wakeup of another kind brings it back.  It is the part of ShutdownEnds that no
\* fairness is needed for.
JoinShortens == [][stopping => (Worker => StepsLeft' < StepsLeft) /\ StepsLeft' <= StepsLeft]_vars
THEOREM ShutdownIsBounded ==
  Spec => [](stopping => StepsLeft \in 0 .. 4 /\ (StepsLeft = 0 <=> wpc = "exited")) /\ JoinShortens
<1>1. IInv => (stopping => StepsLeft \in 0 .. 4 /\ (StepsLeft = 0 <=> wpc = "exited"))
  BY DEF IInv, MemInv, TypeOK, NoMissedWakeup, StepsLeft
<1>2. IInv /\ [Next]_vars => [stopping => (Worker => StepsLeft' < StepsLeft) /\ StepsLeft' <= StepsLeft]_vars
  <2> SUFFICES ASSUME IInv, [Next]_vars, stopping
               PROVE  (Worker => StepsLeft' < StepsLeft) /\ StepsLeft' <= StepsLeft
    OBVIOUS
  <2>1. mpc \in {"join", "stopped"} /\ wpc # "wait"
    BY DEF IInv, MemInv, ShutdownOrder, NoMissedWakeup
  <2>2. CASE Worker
    <3>1. <<wpc, wpc'>> \in {<<"run", "finish">>, <<"finish", "dispose">>, <<"dispose", "lock">>, <<"lock", "exited">>}
      BY <2>2 DEF Worker, WorkerWait, WorkerTake, MayTake, WorkerRun, WorkerAbandon, WorkerPublish,
                  Abandoned, WorkerPublishFails, WorkerDispose, WorkerExit
    <3>2. QED
      BY <2>2, <3>1 DEF StepsLeft
  <2>3. CASE ~Worker
    <3>1. UNCHANGED wpc
      BY <2>1, <2>3 DEF Next, SpuriousWakeup, MainOwn, Wakeup, Complete, MainDispose, Joined, Submit,
                        SubmitRefused, Close, PipeFails, Shutdown, Terminated, vars, workerVars
    <3>2. StepsLeft' = StepsLeft /\ StepsLeft \in 0 .. 5
      BY <3>1 DEF StepsLeft
    <3>3. QED
      BY <2>3, <3>2
  <2>4. QED
    BY <2>2, <2>3
<1>3. Spec => [](stopping => StepsLeft \in 0 .. 4 /\ (StepsLeft = 0 <=> wpc = "exited"))
  BY Invariance, <1>1, PTL
<1>4. Spec => JoinShortens
  BY Invariance, <1>2, PTL DEF Spec, JoinShortens
<1>5. QED
  BY <1>3, <1>4

---------------------------------------------------------------------------
(* The refinement of RequestService.                                       *)

\* What the mapping needs beside IInv: a job that is canceled and still listed is
\* the worker's, so none in the queue is (the branch of goform_worker_thread for
\* a canceled job in the queue is never taken); a worker that left emptied it.
ServiceInv ==
  /\ \A a \in jobs : heap[a].canceled => heap[a].state = "RUNNING"
  /\ wpc = "exited" => Queued = {}

LEMMA ServiceInvInit == Init => ServiceInv
  BY DEF Init, ServiceInv

LEMMA ServiceInvStep == IInv /\ ServiceInv /\ [Next]_vars => ServiceInv'
<1> SUFFICES ASSUME IInv, ServiceInv, [Next]_vars PROVE ServiceInv'
  OBVIOUS
<1> USE NoAddrAssumption
        DEF IInv, MemInv, AnswerInv, TypeOK, AllocatedJobs, PointersSet, RunningIsWorkers,
            ShutdownOrder, PointersLive, WorkerHolds, JobState, Job, NoJob, ServiceInv, Queued,
            vars, listVars, workerVars, mainVars, wakeVars, connVars
<1>1. CASE WorkerWait \/ SpuriousWakeup
  BY <1>1 DEF WorkerWait, SpuriousWakeup
<1>2. CASE WorkerTake
  BY <1>2 DEF WorkerTake, MayTake, FirstQueued
<1>3. CASE WorkerRun
  BY <1>3 DEF WorkerRun
<1>4. CASE WorkerAbandon
  BY <1>4 DEF WorkerAbandon
<1>5. CASE WorkerPublish
  BY <1>5 DEF WorkerPublish, Abandoned
<1>6. CASE WorkerPublishFails
  BY <1>6 DEF WorkerPublishFails
<1>7. CASE WorkerDispose \/ WorkerExit
  BY <1>7 DEF WorkerDispose, WorkerExit
<1>8. CASE MainOwn
  BY <1>8 DEF MainOwn, Wakeup, Complete, MainDispose, Joined, StillListed
<1>9. CASE PipeFails \/ Shutdown \/ UNCHANGED vars
  BY <1>9 DEF PipeFails, Shutdown, Signalled
<1>10. ASSUME NEW c \in Conn, Submit(c) PROVE ServiceInv'
  BY <1>10 DEF Submit, FreshState, Signalled
<1>11. ASSUME NEW c \in Conn, SubmitRefused(c) PROVE ServiceInv'
  BY <1>11 DEF SubmitRefused
<1>12. ASSUME NEW c \in Conn, Close(c) PROVE ServiceInv'
  BY <1>12 DEF Close, NoJobFor, JobsOf, Cancelable
<1>13. QED
  BY <1>1, <1>2, <1>3, <1>4, <1>5, <1>6, <1>7, <1>8, <1>9, <1>10, <1>11, <1>12
  DEF Next, Worker, Terminated

\* The requests of the abstract service, as the mapping reads them off the list.
Waits == Requests(Queued)
Runs == IF WorkerHolds THEN {Request(wjob)} ELSE {}
Done == Requests(Completed)
view == <<open, nreq, owed, Waits, Runs, Done, pipeUp, stopping>>

\* Two jobs that may still be answered are for two requests.
LEMMA RequestsApart ==
  ASSUME IInv
  PROVE  /\ Queued \subseteq Answering /\ Completed \subseteq Answering
         /\ WorkerHolds => wjob \in Answering
         /\ \A a, b \in Answering : Request(a) = Request(b) => a = b
  BY DEF IInv, MemInv, AnswerInv, Numbered, Answering, Queued, Completed, PointersLive, Request

\* A set of such jobs loses a job and its request together.
LEMMA RequestsWithout ==
  ASSUME IInv, NEW S \in SUBSET Answering, NEW a \in S
  PROVE  Requests(S \ {a}) = Requests(S) \ {Request(a)}
<1>1. \A b \in S : Request(b) = Request(a) => b = a
  BY RequestsApart
<1>2. QED
  BY <1>1 DEF Requests

\* No request changes unless a job changes its state, its place or its request.
LEMMA ViewSame ==
  ASSUME \A a \in Queued \cup Completed \cup {wjob} : Request(a)' = Request(a),
         Queued' = Queued, Completed' = Completed,
         WorkerHolds' <=> WorkerHolds, WorkerHolds => wjob' = wjob
  PROVE  UNCHANGED <<Waits, Runs, Done>>
<1>1. Waits' = Waits /\ Done' = Done
  BY DEF Waits, Done, Requests
<1>2. Runs' = Runs
  BY DEF Runs, Request
<1>3. QED
  BY <1>1, <1>2

LEMMA NextServes == ASSUME IInv, ServiceInv, [Next]_vars PROVE [Service!Next]_view
<1> USE NoAddrAssumption
        DEF vars, listVars, workerVars, mainVars, wakeVars, connVars
<1> DEFINE Keeps == \A a \in Addr : Request(a)' = Request(a)
<1>0. /\ Queued \subseteq Addr /\ Completed \subseteq Addr
      /\ wjob \in Addr \/ ~WorkerHolds
      /\ heap' = heap => Keeps
  BY DEF IInv, MemInv, TypeOK, PointersSet, WorkerHolds, Queued, Completed, Request
<1>1. CASE WorkerWait \/ SpuriousWakeup \/ WorkerDispose \/ UNCHANGED vars
  <2>1. UNCHANGED <<jobs, heap, mpc, mjob, open, nreq, owed, pipeUp, stopping>>
    BY <1>1 DEF WorkerWait, SpuriousWakeup, WorkerDispose
  <2>2. Queued' = Queued /\ Completed' = Completed /\ (WorkerHolds' <=> WorkerHolds) /\ (WorkerHolds => wjob' = wjob)
    BY <1>1, <2>1 DEF WorkerWait, SpuriousWakeup, WorkerDispose, Queued, Completed, WorkerHolds
  <2>3. \A a \in Queued \cup Completed \cup {wjob} : Request(a)' = Request(a)
    BY <2>1 DEF Request
  <2>4. QED
    BY <2>1, <2>2, <2>3, ViewSame DEF view
<1>2. CASE WorkerTake
  <2>1. PICK a \in Addr : /\ FirstQueued(a) /\ heap' = [heap EXCEPT ![a].state = "RUNNING"] /\ wjob' = a
                         /\ jobs' = jobs /\ wpc' = "run"
    BY <1>2 DEF WorkerTake, FirstQueued, Queued, ServiceInv
  <2>2. /\ wpc = "lock" /\ ~stopping
        /\ UNCHANGED <<mpc, mjob, open, nreq, owed, pipeUp, stopping>>
    BY <1>2 DEF WorkerTake, MayTake
  <2>3. a \in Queued /\ heap[a] \in Job /\ a \in jobs
    BY <2>1 DEF FirstQueued, Queued, IInv, MemInv, AllocatedJobs, PointersLive
  <2>4. /\ heap'[a].state = "RUNNING"
        /\ \A b \in Addr : heap'[b].conn = heap[b].conn /\ heap'[b].req = heap[b].req
        /\ \A b \in Addr \ {a} : heap'[b] = heap[b]
    BY <2>1, <2>3 DEF IInv, MemInv, TypeOK, Job
  <2>5. Keeps
    BY <2>4 DEF Request
  <2>6. Queued' = Queued \ {a} /\ Completed' = Completed
    <3>1. heap[a].state = "QUEUED" /\ (mpc = "complete" => mjob # a /\ mjob \in Addr)
      BY <2>3 DEF Queued, IInv, MemInv, PointersLive, TypeOK
    <3>2. jobs \subseteq Addr
      BY DEF IInv, MemInv, TypeOK
    <3>3. QED
      BY <2>1, <2>2, <2>4, <3>1, <3>2 DEF Queued, Completed
  <2>7. Waits' = Waits \ {Request(a)}
    <3>1. Waits' = Requests(Queued \ {a})
      BY <1>0, <2>5, <2>6 DEF Waits, Requests
    <3>2. QED
      BY <2>3, <3>1, RequestsApart, RequestsWithout DEF Waits
  <2>8. Done' = Done /\ Runs = {} /\ Runs' = {Request(a)}
    BY <1>0, <2>1, <2>2, <2>5, <2>6 DEF Done, Requests, Runs, WorkerHolds
  <2>9. Request(a) \in Waits /\ \A p \in Waits : p[2] <= Request(a)[2]
    BY <2>1, <2>3 DEF Waits, Requests, Request, FirstQueued
  <2>10. QED
    BY <2>2, <2>7, <2>8, <2>9 DEF Service!Next, Service!Begin, Waits, Runs, Done
<1>3. CASE WorkerRun
  <2>1. heap' = [heap EXCEPT ![wjob].done = TRUE] /\ wjob \in Addr /\ heap[wjob] \in Job
    BY <1>3 DEF WorkerRun, IInv, MemInv, TypeOK, AllocatedJobs, PointersLive, WorkerHolds
  <2>2. \A b \in Addr : heap'[b].conn = heap[b].conn /\ heap'[b].req = heap[b].req /\ heap'[b].state = heap[b].state
    BY <2>1 DEF IInv, MemInv, TypeOK, Job
  <2>3. UNCHANGED <<jobs, mpc, mjob, wjob, open, nreq, owed, pipeUp, stopping>> /\ WorkerHolds /\ WorkerHolds'
    BY <1>3 DEF WorkerRun, WorkerHolds
  <2>4. Queued' = Queued /\ Completed' = Completed /\ Keeps
    <3>1. jobs \cup (IF mpc = "complete" THEN {mjob} ELSE {}) \subseteq Addr
      BY DEF IInv, MemInv, TypeOK, PointersLive
    <3>2. QED
      BY <2>2, <2>3, <3>1 DEF Queued, Completed, Request
  <2>5. QED
    BY <1>0, <2>1, <2>3, <2>4, ViewSame DEF view
<1>4. CASE WorkerAbandon \/ WorkerPublishFails
  <2>1. /\ wpc = "finish" /\ jobs' = jobs \ {wjob} /\ wpc' = "dispose"
        /\ UNCHANGED <<mpc, mjob, wjob, open, nreq, owed, pipeUp, stopping>>
        /\ heap' = heap \/ heap' = [heap EXCEPT ![wjob].state = "COMPLETED"]
    BY <1>4 DEF WorkerAbandon, WorkerPublishFails
  <2>2. /\ wjob \in Addr /\ wjob \in jobs /\ heap[wjob].state = "RUNNING" /\ heap[wjob] \in Job
        /\ mpc = "complete" => mjob # wjob /\ mjob \in Addr
    BY <2>1 DEF IInv, MemInv, TypeOK, AllocatedJobs, PointersLive, WorkerHolds
  <2>3. /\ \A b \in Addr : heap'[b].conn = heap[b].conn /\ heap'[b].req = heap[b].req
        /\ \A b \in Addr \ {wjob} : heap'[b] = heap[b]
    BY <2>1, <2>2 DEF IInv, MemInv, TypeOK, Job
  <2>4. Queued' = Queued /\ Completed' = Completed /\ Keeps
    <3>1. jobs \subseteq Addr
      BY DEF IInv, MemInv, TypeOK
    <3>2. QED
      BY <2>1, <2>2, <2>3, <3>1 DEF Queued, Completed, Request
  <2>5. Waits' = Waits /\ Done' = Done /\ Runs = {Request(wjob)} /\ Runs' = {}
    BY <1>0, <2>1, <2>4 DEF Waits, Done, Requests, Runs, WorkerHolds
  <2>6. Request(wjob)[1] \notin open \/ ~pipeUp \/ stopping
    <3>1. heap[wjob].canceled => heap[wjob].conn \notin open
      BY <2>2 DEF IInv, DropInv, CanceledIsClosed
    <3>2. QED
      BY <1>4, <3>1 DEF WorkerAbandon, WorkerPublishFails, Abandoned, Request
  <2>7. QED
    BY <2>1, <2>5, <2>6 DEF Service!Next, Service!GiveUp, Waits, Runs, Done
<1>5. CASE WorkerPublish
  <2>1. /\ wpc = "finish" /\ wpc' = "lock" /\ ~Abandoned(wjob) /\ pipeUp
        /\ heap' = [heap EXCEPT ![wjob].state = "COMPLETED"]
        /\ UNCHANGED <<jobs, mpc, mjob, open, nreq, owed, pipeUp, stopping>>
    BY <1>5 DEF WorkerPublish
  <2>2. /\ wjob \in Addr /\ wjob \in jobs /\ heap[wjob].state = "RUNNING" /\ heap[wjob] \in Job
        /\ mpc = "complete" => mjob \in Addr
    BY <2>1 DEF IInv, MemInv, TypeOK, AllocatedJobs, PointersLive, WorkerHolds
  <2>3. /\ \A b \in Addr : heap'[b].conn = heap[b].conn /\ heap'[b].req = heap[b].req
        /\ \A b \in Addr \ {wjob} : heap'[b] = heap[b]
        /\ heap'[wjob].state = "COMPLETED"
    BY <2>1, <2>2 DEF IInv, MemInv, TypeOK, Job
  <2>4. Queued' = Queued /\ Completed' = Completed \cup {wjob} /\ Keeps
    <3>1. jobs \subseteq Addr
      BY DEF IInv, MemInv, TypeOK
    <3>2. QED
      BY <2>1, <2>2, <2>3, <3>1 DEF Queued, Completed, Request
  <2>5. /\ Waits' = Waits /\ Done' = Done \cup {Request(wjob)}
        /\ Runs = {Request(wjob)} /\ Runs' = {}
    BY <1>0, <2>1, <2>2, <2>4 DEF Waits, Done, Requests, Runs, WorkerHolds
  <2>6. Request(wjob)[1] \in open /\ ~stopping
    BY <2>1, <2>2 DEF Abandoned, Request, IInv, AnswerInv, Owed, Answering
  <2>7. QED
    BY <2>1, <2>5, <2>6 DEF Service!Next, Service!Finish, Waits, Runs, Done
<1>6. CASE WorkerExit
  <2>1. /\ stopping /\ wpc = "lock" /\ wpc' = "exited" /\ jobs' = jobs \ Queued
        /\ UNCHANGED <<heap, mpc, mjob, wjob, open, nreq, owed, pipeUp, stopping>>
    BY <1>6 DEF WorkerExit
  <2>2. Queued' = {} /\ Completed' = Completed
    BY <2>1 DEF Queued, Completed
  <2>3. Waits' = {} /\ Done' = Done /\ Runs = {} /\ Runs' = {}
    BY <2>1, <2>2 DEF Waits, Done, Requests, Request, Runs, WorkerHolds
  <2>4. QED
    BY <2>1, <2>3 DEF Service!Next, Service!DropWaiting, Waits, Runs, Done
<1>7. CASE Wakeup \/ MainDispose
  <2>1. UNCHANGED <<heap, wpc, wjob, open, nreq, owed, pipeUp, stopping>>
    BY <1>7 DEF Wakeup, MainDispose
  <2>2. Queued' = Queued /\ Completed' = Completed
    BY <1>7 DEF Wakeup, MainDispose, Answerable, Queued, Completed
  <2>3. QED
    BY <2>1, <2>2, ViewSame DEF view, WorkerHolds, Request
<1>8. CASE Complete
  <2> DEFINE q == Request(mjob)
  <2>1. /\ mpc = "complete" /\ mpc' = "loop" /\ owed' = [owed EXCEPT ![q[1]] = @ \ {q[2]}]
        /\ UNCHANGED <<jobs, heap, wpc, wjob, open, nreq, pipeUp, stopping>>
    BY <1>8 DEF Complete, Request
  <2>2. /\ q[1] \in open /\ q[2] \in owed[q[1]]
        /\ mjob \in Completed /\ mjob \notin jobs
    BY <2>1 DEF IInv, MemInv, AnswerInv, AnswersAreOwed, PointersLive, Completed, Request
  <2>3. Queued' = Queued /\ Completed' = Completed \ {mjob}
    BY <2>1, <2>2 DEF Queued, Completed
  <2>4. Waits' = Waits /\ Runs' = Runs
    BY <2>1, <2>3 DEF Waits, Requests, Request, Runs, WorkerHolds
  <2>5. Done' = Done \ {q}
    <3>1. Done' = Requests(Completed \ {mjob})
      BY <2>1, <2>3 DEF Done, Requests, Request
    <3>2. QED
      BY <2>2, <3>1, RequestsApart, RequestsWithout DEF Done
  <2>6. q \in Done
    BY <2>2 DEF Done, Requests
  <2> HIDE DEF q
  <2>7. Service!Answer
    BY <2>1, <2>2, <2>4, <2>5, <2>6 DEF Service!Answer, Waits, Runs, Done
  <2>8. QED
    BY <2>7 DEF Service!Next
<1>9. CASE Joined
  <2>1. /\ mpc = "join" /\ wpc = "exited" /\ jobs' = {} /\ mpc' = "stopped"
        /\ open' = {} /\ pipeUp' = FALSE
        /\ UNCHANGED <<heap, wpc, wjob, nreq, owed, stopping>>
    BY <1>9 DEF Joined
  <2>2. Queued = {} /\ Queued' = {} /\ Completed' = {} /\ stopping
    BY <2>1 DEF ServiceInv, Queued, Completed, IInv, MemInv, ShutdownOrder
  <2>3. Waits = {} /\ Waits' = {} /\ Done' = {} /\ Runs = {} /\ Runs' = {}
    BY <2>1, <2>2 DEF Waits, Done, Requests, Runs, WorkerHolds
  <2>4. QED
    BY <2>1, <2>2, <2>3 DEF Service!Next, Service!End, Waits, Runs, Done
<1>10. CASE PipeFails \/ Shutdown
  <2>1. /\ UNCHANGED <<jobs, heap, wjob, open, nreq, owed>> /\ mpc = "loop" /\ mpc' # "complete"
        /\ ~stopping
    BY <1>10 DEF PipeFails, Shutdown, IInv, MemInv, ShutdownOrder
  <2>2. Queued' = Queued /\ Completed' = Completed /\ (WorkerHolds' <=> WorkerHolds)
    BY <1>10, <2>1 DEF PipeFails, Shutdown, Signalled, Queued, Completed, WorkerHolds
  <2>3. UNCHANGED <<Waits, Runs, Done>>
    BY <2>1, <2>2, ViewSame DEF Request
  <2>4. CASE PipeFails
    BY <2>1, <2>3, <2>4 DEF PipeFails, Service!Next, Service!LinkFails, Waits, Runs, Done
  <2>5. CASE Shutdown
    BY <2>1, <2>3, <2>5 DEF Shutdown, Service!Next, Service!Close, Waits, Runs, Done
  <2>6. QED
    BY <1>10, <2>4, <2>5
<1>11. ASSUME NEW c \in Conn, SubmitRefused(c) PROVE [Service!Next]_view
  <2>1. /\ c \in open /\ nreq < MaxReq /\ nreq' = nreq + 1 /\ ~stopping
        /\ UNCHANGED <<jobs, heap, mpc, mjob, wpc, wjob, open, owed, pipeUp, stopping>>
    BY <1>11 DEF SubmitRefused, IInv, MemInv, ShutdownOrder
  <2>2. Queued' = Queued /\ Completed' = Completed
    BY <2>1 DEF Queued, Completed
  <2>3. UNCHANGED <<Waits, Runs, Done>>
    BY <2>1, <2>2, ViewSame DEF Request, WorkerHolds
  <2>4. QED
    BY <2>1, <2>3 DEF Service!Next, Service!Refuse, Waits, Runs, Done
<1>12. ASSUME NEW c \in Conn, Submit(c) PROVE [Service!Next]_view
  <2>1. PICK a \in Addr \ alloc :
          /\ heap' = [heap EXCEPT ![a] = [conn |-> c, state |-> "QUEUED", canceled |-> FALSE,
                                          req |-> nreq + 1, done |-> FALSE]]
          /\ jobs' = jobs \cup {a}
    BY <1>12 DEF Submit, FreshState
  <2>2. /\ c \in open /\ nreq < MaxReq /\ nreq' = nreq + 1 /\ mpc = "loop" /\ ~stopping
        /\ owed' = [owed EXCEPT ![c] = @ \cup {nreq + 1}] /\ JobsOf(c) = {}
        /\ UNCHANGED <<mpc, mjob, wjob, open, pipeUp, stopping>>
        /\ WorkerHolds' <=> WorkerHolds
    BY <1>12 DEF Submit, NoJobFor, Signalled, WorkerHolds, IInv, MemInv, ShutdownOrder
  <2>3. /\ a \notin jobs /\ jobs \subseteq Addr
        /\ WorkerHolds => wjob \in jobs /\ heap[wjob].state = "RUNNING"
        /\ a \in DOMAIN heap
    BY DEF IInv, MemInv, TypeOK, PointersLive
  <2>4. heap'[a].state = "QUEUED" /\ Request(a)' = <<c, nreq + 1>> /\ \A b \in jobs : heap'[b] = heap[b]
    BY <2>1, <2>3 DEF Request
  <2>5. Queued' = Queued \cup {a} /\ Completed' = Completed
    BY <2>1, <2>2, <2>3, <2>4 DEF Queued, Completed
  <2>6. Completed \subseteq jobs /\ Queued \subseteq jobs
    BY <2>2 DEF Completed, Queued
  <2>7. Waits' = Waits \cup {<<c, nreq + 1>>}
    <3>1. \A b \in Queued : Request(b)' = Request(b)
      BY <2>4, <2>6 DEF Request
    <3>2. QED
      BY <2>4, <2>5, <3>1 DEF Waits, Requests
  <2>8. Done' = Done /\ Runs' = Runs
    <3>1. \A b \in jobs : Request(b)' = Request(b)
      BY <2>4 DEF Request
    <3>2. Done' = Done
      BY <2>5, <2>6, <3>1 DEF Done, Requests
    <3>3. WorkerHolds => wjob' = wjob /\ Request(wjob)' = Request(wjob)
      BY <2>2, <2>3, <3>1 DEF Request
    <3>4. Runs' = Runs
      BY <2>2, <3>3 DEF Runs
    <3>5. QED
      BY <3>2, <3>4
  <2>9. Service!Of(c, Waits \cup Runs \cup Done) = {}
    BY <2>2, <2>3, <2>6 DEF Service!Of, Waits, Runs, Done, Requests, Request, JobsOf
  <2>10. Service!Accept(c)
    BY <2>2, <2>7, <2>8, <2>9 DEF Service!Accept, Waits, Runs, Done
  <2>11. QED
    BY <2>10 DEF Service!Next
<1>13. ASSUME NEW c \in Conn, Close(c) PROVE [Service!Next]_view
  <2>1. /\ mpc = "loop" /\ c \in open /\ open' = open \ {c}
        /\ UNCHANGED <<wpc, wjob, nreq, owed, pipeUp, stopping>>
    BY <1>13 DEF Close
  <2>2. Completed \subseteq jobs /\ Queued \subseteq jobs /\ jobs \subseteq Addr
    BY <2>1 DEF Completed, Queued, IInv, MemInv, TypeOK
  <2>3. ASSUME Waits' = Waits \ Service!Of(c, Waits), Done' = Done \ Service!Of(c, Done), Runs' = Runs
        PROVE  [Service!Next]_view
    BY <2>1, <2>3 DEF Service!Next, Service!Disconnect, Waits, Runs, Done
  <2>4. CASE JobsOf(c) = {}
    <3>1. UNCHANGED <<heap, jobs, mpc, mjob>>
      BY <1>13, <2>4 DEF Close, NoJobFor
    <3>2. Queued' = Queued /\ Completed' = Completed
      BY <3>1 DEF Queued, Completed
    <3>3. UNCHANGED <<Waits, Runs, Done>>
      BY <2>1, <3>1, <3>2, ViewSame DEF Request, WorkerHolds
    <3>4. Service!Of(c, Waits) = {} /\ Service!Of(c, Done) = {}
      BY <2>2, <2>4 DEF Service!Of, Waits, Done, Requests, Request, JobsOf
    <3>5. QED
      BY <2>3, <3>3, <3>4
  <2>5. CASE JobsOf(c) # {}
    <3>1. PICK a \in JobsOf(c) :
            /\ heap' = [heap EXCEPT ![a].canceled = TRUE]
            /\ \/ Cancelable(a) /\ jobs' = jobs \ {a} /\ mpc' = "dispose"
               \/ ~Cancelable(a) /\ UNCHANGED <<jobs, mpc, mjob>>
      BY <1>13, <2>5 DEF Close, NoJobFor, mainVars
    <3>2. /\ a \in jobs /\ heap[a].conn = c /\ heap[a] \in Job
          /\ \A b \in jobs : heap[b].conn = c => b = a
      BY <3>1 DEF JobsOf, IInv, MemInv, AnswerInv, OneJobPerConnection, AllocatedJobs, PointersLive
    <3>3. \A b \in Addr : /\ heap'[b].conn = heap[b].conn /\ heap'[b].req = heap[b].req
                          /\ heap'[b].state = heap[b].state
      BY <3>1, <3>2 DEF IInv, MemInv, TypeOK, Job
    <3>4. Keeps
      BY <3>3 DEF Request
    <3>5. Runs' = Runs
      BY <1>0, <2>1, <3>4 DEF Runs, WorkerHolds, Request
    <3>6. /\ Queued' = Queued \ {a} /\ Completed' = Completed \ {a}
      BY <2>1, <2>2, <3>1, <3>2, <3>3 DEF Queued, Completed, Cancelable, Job, JobState
    <3>7. /\ Waits' = {Request(b) : b \in Queued \ {a}}
          /\ Done' = {Request(b) : b \in Completed \ {a}}
      BY <1>0, <3>4, <3>6 DEF Waits, Done, Requests
    <3>8. \A b \in jobs : Request(b)[1] = c <=> b = a
      BY <3>2 DEF Request
    <3>9. QED
      BY <2>2, <2>3, <3>5, <3>7, <3>8 DEF Service!Of, Waits, Done, Requests
  <2>6. QED
    BY <2>4, <2>5
<1>14. QED
  BY <1>1, <1>2, <1>3, <1>4, <1>5, <1>6, <1>7, <1>8, <1>9, <1>10, <1>11, <1>12, <1>13
  DEF Next, Worker, MainOwn, Terminated

\* The list of heap-allocated jobs, the worker and the wakeup pipe carry each
\* request out and answer it at most once, in the order and on the connection they
\* should, and give a request up only where the service may (goform_async.c).
THEOREM ImplementsService == Spec => IsService
<1>1. Init => Service!Init
  BY DEF Init, Service!Init, Queued, Completed, Requests, WorkerHolds
<1>2. IInv /\ ServiceInv /\ [Next]_vars => [Service!Next]_view
  BY NextServes
<1>3. Spec => []ServiceInv
  BY ServiceInvInit, ServiceInvStep, Invariance, PTL DEF Spec
<1>4. QED
  BY <1>1, <1>2, <1>3, Invariance, PTL DEF Spec, IsService, Service!Spec, Service!vars, view, Waits, Runs, Done
=============================================================================
