---------------------------- MODULE GoformAsync ----------------------------
(***************************************************************************)
(* The asynchronous request service of src/src/system/goform_async.c: the  *)
(* event-loop ("main") thread accepts requests on HTTP connections and     *)
(* hands each to one background worker thread; the worker publishes a      *)
(* finished job through mongoose's wakeup pipe, and only the main thread   *)
(* answers.  The two threads share a list of heap-allocated jobs under one *)
(* mutex.  A critical section of the code is one action here; what a       *)
(* thread does after pthread_mutex_unlock is a later action of its own, so *)
(* the other thread can come in between.                                   *)
(*                                                                         *)
(* Submit and cancel are modelled as the API allows them (and as           *)
(* tests/goform_async_test.c uses them): a connection may submit again     *)
(* while its first request is pending, and is then refused.                *)
(***************************************************************************)
EXTENDS Naturals, Sequences

CONSTANTS Conn,         \* ids of the HTTP connections (mongoose never reuses one)
          Addr,         \* heap addresses calloc may return for a job
          NoAddr,       \* the NULL pointer
          MaxReq,       \* bound: requests received in one life of the server
          MaxLost,      \* bound: wakeup datagrams send() may drop
          PipeMayFail   \* whether mongoose may lose its wakeup socket

ASSUME NoAddrAssumption == NoAddr \notin Addr
ASSUME BoundsAssumption == MaxReq \in Nat /\ MaxLost \in Nat /\ PipeMayFail \in BOOLEAN

VARIABLES
  jobs,      \* g_async.jobs: addresses on the list; the newest req is its head
  heap,      \* contents of the job structs (garbage once freed)
  alloc,     \* addresses calloc'ed and not yet freed
  stopping,  \* g_async.stopping
  wpc, wjob, \* worker thread: where it is, its local `job`
  mpc, mjob, \* main thread: where it is, its local `job`
  pipe,      \* wakeup datagrams not yet delivered
  pipeUp,    \* mgr->pipe # MG_INVALID_SOCKET
  lost,      \* datagrams dropped by send()
  open,      \* connections not closed
  isFull,    \* c->is_full: mongoose reads nothing from these
  nreq,      \* requests received so far; also the insertion order of jobs
  owed       \* per connection, the requests without an HTTP reply

workerVars == <<wpc, wjob>>
mainVars   == <<mpc, mjob>>
listVars   == <<jobs, heap, alloc>>
wakeVars   == <<pipe, pipeUp, lost>>
connVars   == <<open, isFull, nreq, owed>>
vars == <<jobs, heap, alloc, stopping, wpc, wjob, mpc, mjob,
          pipe, pipeUp, lost, open, isFull, nreq, owed>>

JobState == {"QUEUED", "RUNNING", "COMPLETED"}
Req      == 1 .. MaxReq
\* done: history, job->response was filled by the worker function
Job      == [conn : Conn, state : JobState, canceled : BOOLEAN, req : Req, done : BOOLEAN]
NoJob    == [state |-> "FREE"]
Datagram == [conn : Conn, token : Addr]

TypeOK ==
  /\ jobs \subseteq Addr /\ alloc \subseteq Addr
  /\ heap \in [Addr -> Job \cup {NoJob}]
  /\ stopping \in BOOLEAN
  /\ wpc \in {"lock", "wait", "run", "finish", "dispose", "exited"}
  /\ wjob \in Addr \cup {NoAddr}
  /\ mpc \in {"loop", "complete", "dispose", "join", "stopped"}
  /\ mjob \in Addr \cup {NoAddr}
  /\ pipe \in Seq(Datagram)
  /\ pipeUp \in BOOLEAN
  /\ lost \in 0 .. MaxLost
  /\ open \subseteq Conn /\ isFull \subseteq Conn
  /\ nreq \in 0 .. MaxReq
  /\ owed \in [Conn -> SUBSET Req]

\* goform_async_init succeeded: the worker is about to take the mutex.
Init ==
  /\ jobs = {} /\ alloc = {} /\ heap = [a \in Addr |-> NoJob]
  /\ stopping = FALSE
  /\ wpc = "lock" /\ wjob = NoAddr
  /\ mpc = "loop" /\ mjob = NoAddr
  /\ pipe = <<>> /\ pipeUp = TRUE /\ lost = 0
  /\ open = Conn /\ isFull = {}
  /\ nreq = 0 /\ owed = [c \in Conn |-> {}]

---------------------------------------------------------------------------
(* The list, and the condition variable.                                   *)

JobsOf(c) == {a \in jobs : heap[a].conn = c}

\* mutant: the list is not searched
NoJobFor_Mut(c) == TRUE
\* find_job_locked(NULL, c->id) == NULL
NoJobFor(c) == JobsOf(c) = {}

Queued == {a \in jobs : heap[a].state = "QUEUED"}

\* take_queued_job_locked walks from the head, the job inserted last
FirstQueued(a) == a \in Queued /\ \A b \in Queued : heap[b].req <= heap[a].req

\* mutant: no pthread_cond_signal
Signalled_Mut == wpc
\* pthread_cond_signal: the worker, if it waits, will take the mutex again
Signalled == IF wpc = "wait" THEN "lock" ELSE wpc

---------------------------------------------------------------------------
(* The worker thread.                                                      *)

WorkerWait ==
  /\ wpc = "lock" /\ ~stopping /\ Queued = {}
  /\ wpc' = "wait"
  /\ UNCHANGED <<listVars, stopping, wjob, mainVars, wakeVars, connVars>>

\* pthread_cond_wait may return without a signal
SpuriousWakeup ==
  /\ wpc = "wait"
  /\ wpc' = "lock"
  /\ UNCHANGED <<listVars, stopping, wjob, mainVars, wakeVars, connVars>>

\* mutant: a queued job is preferred to the shutdown
MayTake_Mut == TRUE
MayTake == ~stopping

WorkerTake ==
  /\ wpc = "lock" /\ MayTake
  /\ \E a \in Addr :
       /\ FirstQueued(a)
       /\ heap' = [heap EXCEPT ![a].state = "RUNNING"]
       /\ wjob' = a
       /\ IF heap[a].canceled
            THEN jobs' = jobs \ {a} /\ wpc' = "dispose"
            ELSE jobs' = jobs /\ wpc' = "run"
  /\ UNCHANGED <<alloc, stopping, mainVars, wakeVars, connVars>>

\* job->worker(...) runs outside the mutex; curl's --max-time bounds it
WorkerRun ==
  /\ wpc = "run"
  /\ heap' = [heap EXCEPT ![wjob].done = TRUE]
  /\ wpc' = "finish"
  /\ UNCHANGED <<jobs, alloc, stopping, wjob, mainVars, wakeVars, connVars>>

Abandoned(a) == stopping \/ heap[a].canceled

WorkerAbandon ==
  /\ wpc = "finish" /\ Abandoned(wjob)
  /\ jobs' = jobs \ {wjob}
  /\ wpc' = "dispose"
  /\ UNCHANGED <<heap, alloc, stopping, wjob, mainVars, wakeVars, connVars>>

\* mutant: the worker never wakes the event loop
Sent_Mut(d) == pipe' = pipe /\ lost' = lost
\* mg_wakeup ignores what send() returns: a datagram is queued or gone
Sent(d) == \/ pipe' = Append(pipe, d) /\ lost' = lost
           \/ lost < MaxLost /\ pipe' = pipe /\ lost' = lost + 1

\* state = COMPLETED and mg_wakeup, in one critical section
WorkerPublish ==
  /\ wpc = "finish" /\ ~Abandoned(wjob) /\ pipeUp
  /\ heap' = [heap EXCEPT ![wjob].state = "COMPLETED"]
  /\ Sent([conn |-> heap[wjob].conn, token |-> wjob])
  /\ wpc' = "lock" /\ wjob' = NoAddr
  /\ UNCHANGED <<jobs, alloc, stopping, mainVars, pipeUp, connVars>>

\* mg_wakeup returned false: the job goes, its connection is not told
WorkerPublishFails ==
  /\ wpc = "finish" /\ ~Abandoned(wjob) /\ ~pipeUp
  /\ heap' = [heap EXCEPT ![wjob].state = "COMPLETED"]
  /\ jobs' = jobs \ {wjob}
  /\ wpc' = "dispose"
  /\ UNCHANGED <<alloc, stopping, wjob, mainVars, wakeVars, connVars>>

\* dispose_job after the unlock
WorkerDispose ==
  /\ wpc = "dispose"
  /\ alloc' = alloc \ {wjob}
  /\ wpc' = "lock" /\ wjob' = NoAddr
  /\ UNCHANGED <<jobs, heap, stopping, mainVars, wakeVars, connVars>>

\* stopping: queued jobs are dropped and the thread returns
WorkerExit ==
  /\ wpc = "lock" /\ stopping
  /\ jobs' = jobs \ Queued
  /\ alloc' = alloc \ Queued
  /\ wpc' = "exited"
  /\ UNCHANGED <<heap, stopping, wjob, mainVars, wakeVars, connVars>>

---------------------------------------------------------------------------
(* The main thread: request handlers and mongoose events.                  *)

\* mutant: malloc instead of calloc, and the state is not set
FreshState_Mut == "UNSET"
\* job->state = GOFORM_JOB_QUEUED
FreshState == "QUEUED"

\* A handler calls goform_async_submit and it succeeds.
Submit(c) ==
  /\ mpc = "loop" /\ c \in open /\ nreq < MaxReq
  /\ NoJobFor(c)
  /\ \E a \in Addr \ alloc :
       /\ alloc' = alloc \cup {a}
       /\ heap' = [heap EXCEPT ![a] = [conn |-> c, state |-> FreshState,
                                       canceled |-> FALSE, req |-> nreq + 1, done |-> FALSE]]
       /\ jobs' = jobs \cup {a}
  /\ nreq' = nreq + 1
  /\ owed' = [owed EXCEPT ![c] = @ \cup {nreq + 1}]
  /\ isFull' = isFull \cup {c}
  /\ wpc' = Signalled
  /\ UNCHANGED <<stopping, wjob, mainVars, wakeVars, open>>

\* calloc fails, or the connection has a job: the handler replies 503 at once
SubmitRefused(c) ==
  /\ mpc = "loop" /\ c \in open /\ nreq < MaxReq
  /\ alloc = Addr \/ ~NoJobFor(c)
  /\ nreq' = nreq + 1
  /\ UNCHANGED <<listVars, stopping, workerVars, mainVars, wakeVars, open, isFull, owed>>

\* the token names a job on the list, this connection's, completed, not canceled
Answerable(d) ==
  /\ d.token \in jobs
  /\ heap[d.token].conn = d.conn
  /\ heap[d.token].state = "COMPLETED"
  /\ ~heap[d.token].canceled

\* wufn finds the connection and calls goform_async_handle_wakeup
Wakeup ==
  /\ mpc = "loop" /\ pipe # <<>> /\ pipeUp
  /\ pipe' = Tail(pipe)
  /\ IF Head(pipe).conn \in open /\ Answerable(Head(pipe))
       THEN /\ jobs' = jobs \ {Head(pipe).token}
            /\ mjob' = Head(pipe).token
            /\ mpc' = "complete"
       ELSE UNCHANGED <<jobs, mainVars>>
  /\ UNCHANGED <<heap, alloc, stopping, workerVars, pipeUp, lost, connVars>>

\* after the unlock: completion replies, is_full is cleared, the job freed
Complete ==
  /\ mpc = "complete"
  /\ LET c == heap[mjob].conn
     IN  /\ owed' = [owed EXCEPT ![c] = @ \ {heap[mjob].req}]
         /\ isFull' = isFull \ {c}
  /\ alloc' = alloc \ {mjob}
  /\ mpc' = "loop" /\ mjob' = NoAddr
  /\ UNCHANGED <<jobs, heap, stopping, workerVars, wakeVars, open, nreq>>

\* mutant: cancel frees a job whatever its state
Cancelable_Mut(a) == TRUE
\* cancel unlinks a job the worker does not hold
Cancelable(a) == heap[a].state \in {"QUEUED", "COMPLETED"}

\* The peer is gone: MG_EV_CLOSE calls goform_async_cancel.
Close(c) ==
  /\ mpc = "loop" /\ c \in open
  /\ open' = open \ {c}
  /\ IF NoJobFor(c)
       THEN UNCHANGED <<heap, jobs, mainVars>>
       ELSE \E a \in JobsOf(c) :
              /\ heap' = [heap EXCEPT ![a].canceled = TRUE]
              /\ IF Cancelable(a)
                   THEN jobs' = jobs \ {a} /\ mjob' = a /\ mpc' = "dispose"
                   ELSE UNCHANGED <<jobs, mainVars>>
  /\ UNCHANGED <<alloc, stopping, workerVars, wakeVars, isFull, nreq, owed>>

\* dispose_job after the unlock in goform_async_cancel
MainDispose ==
  /\ mpc = "dispose"
  /\ alloc' = alloc \ {mjob}
  /\ mpc' = "loop" /\ mjob' = NoAddr
  /\ UNCHANGED <<jobs, heap, stopping, workerVars, wakeVars, connVars>>

\* mongoose closes its end of the wakeup socketpair (wufn, MG_EV_CLOSE)
PipeFails ==
  /\ PipeMayFail
  /\ mpc = "loop" /\ pipeUp
  /\ pipeUp' = FALSE /\ pipe' = <<>>
  /\ UNCHANGED <<listVars, stopping, workerVars, mainVars, lost, connVars>>

\* mutant: shutdown sets stopping without a signal
Shutdown_Mut ==
  /\ mpc = "loop"
  /\ stopping' = TRUE
  /\ mpc' = "join"
  /\ UNCHANGED <<listVars, workerVars, mjob, wakeVars, connVars>>
\* goform_async_shutdown up to pthread_join
Shutdown ==
  /\ mpc = "loop"
  /\ stopping' = TRUE
  /\ wpc' = Signalled
  /\ mpc' = "join"
  /\ UNCHANGED <<listVars, wjob, mjob, wakeVars, connVars>>

\* mutant: what is still listed is forgotten
StillListed_Mut == {}
StillListed == jobs

\* The join returns; the rest of the list is freed, then mg_mgr_free closes
\* every connection (cancel does nothing once initialized is 0).
Joined ==
  /\ mpc = "join" /\ wpc = "exited"
  /\ alloc' = alloc \ StillListed
  /\ jobs' = {}
  /\ open' = {} /\ pipe' = <<>> /\ pipeUp' = FALSE
  /\ mpc' = "stopped"
  /\ UNCHANGED <<heap, stopping, workerVars, mjob, lost, isFull, nreq, owed>>

Terminated == mpc = "stopped" /\ UNCHANGED vars

---------------------------------------------------------------------------

Worker == \/ WorkerWait \/ WorkerTake \/ WorkerRun \/ WorkerAbandon
          \/ WorkerPublish \/ WorkerPublishFails \/ WorkerDispose \/ WorkerExit

\* what the event loop does with work it already has
MainOwn == Wakeup \/ Complete \/ MainDispose \/ Joined

Next == \/ Worker \/ SpuriousWakeup
        \/ MainOwn
        \/ \E c \in Conn : Submit(c) \/ SubmitRefused(c) \/ Close(c)
        \/ PipeFails \/ Shutdown \/ Terminated

\* Both threads run: a thread with something to do does it.  Requests,
\* disconnects and the shutdown are the environment's choice.
Fairness == WF_vars(Worker) /\ WF_vars(MainOwn)

Spec == Init /\ [][Next]_vars
FairSpec == Spec /\ Fairness

---------------------------------------------------------------------------
(* Safety.                                                                 *)

\* The worker may use its job: it is live, on the list and RUNNING.
WorkerHolds == wpc \in {"run", "finish"}

\* Every pointer a thread or the list holds is live memory with one owner:
\* the worker's job stays linked and RUNNING while it works outside the mutex,
\* a job about to be freed is off the list and no other thread's.  No use after
\* free, no double free (dispose_job after the unlock in cancel, wakeup, worker).
PointersLive ==
  /\ jobs \subseteq alloc
  /\ WorkerHolds => wjob \in jobs /\ heap[wjob].state = "RUNNING"
  /\ wpc = "dispose" => wjob \in alloc \ jobs
  /\ mpc \in {"complete", "dispose"} => mjob \in alloc \ jobs
  /\ wpc = "dispose" /\ mpc \in {"complete", "dispose"} => wjob # mjob

\* No job is leaked: what is allocated is on the list or in the hands of a
\* thread that is about to free it, and nothing is left after the shutdown.
NoLeak ==
  /\ alloc \ jobs \subseteq {wjob, mjob}
  /\ mpc = "stopped" => alloc = {}

\* At most one job of a connection is on the list at any time, canceled
\* ones included (goform_async_submit refuses a second).
OneJobPerConnection ==
  \A a, b \in jobs : heap[a].conn = heap[b].conn => a = b

\* The heap of jobs, which two threads share while connections close and
\* addresses are reused: nothing is used after it was freed, nothing is
\* forgotten, and cancel and wakeup find the one job that is meant.
HeapSafe == PointersLive /\ NoLeak /\ OneJobPerConnection

\* A completion answers a connection that is still open, for a request that
\* has had no answer, from a job that was not canceled and whose response the
\* worker has filled, although malloc reuses addresses and a token is one.
AnswersAreOwed ==
  mpc = "complete" =>
    /\ heap[mjob].conn \in open
    /\ heap[mjob].req \in owed[heap[mjob].conn]
    /\ heap[mjob].state = "COMPLETED" /\ heap[mjob].done /\ ~heap[mjob].canceled

\* The request r of connection c is still going to be answered.
InProgress(c, r) ==
  \E a \in jobs \cup {mjob} :
     a \in alloc /\ heap[a].conn = c /\ heap[a].req = r /\ ~heap[a].canceled

\* Until the shutdown and while the wakeup socket works, an open connection never waits for a request
\* whose job is gone, and a completed job has its wakeup on the way unless
\* send() dropped a datagram; the connection reads again (is_full) as soon as
\* nothing is owed.
StillUnderWay ==
  pipeUp /\ ~stopping =>
    \A c \in open :
      /\ \A r \in owed[c] : InProgress(c, r)
      /\ c \in isFull => owed[c] # {}
      /\ \A a \in JobsOf(c) :
           heap[a].state = "COMPLETED" /\ lost = 0 =>
             \E i \in 1 .. Len(pipe) : pipe[i] = [conn |-> c, token |-> a]

\* The worker sleeps only while nothing is queued and nobody waits to join it.
NoMissedWakeup == wpc = "wait" => Queued = {} /\ ~stopping

\* No request is forgotten: not by a worker that sleeps, nor by the wakeups.
NoSilentDrop == StillUnderWay /\ NoMissedWakeup

\* Once stopping is set no queued job starts, and the running one is not cut
\* short: it leaves the list only through the worker ("No new work is accepted
\* during shutdown", goform_async.c:101).
StopStartsNothing ==
  [][stopping => \A a \in jobs :
       /\ heap[a].state = "QUEUED" => heap'[a].state = "QUEUED"
       /\ heap[a].state = "RUNNING" /\ a \notin jobs' => wjob = a /\ wpc = "finish"]_vars

(* What the service promises, whatever implements it.                      *)

Request(a) == <<heap[a].conn, heap[a].req>>
Requests(S) == {Request(a) : a \in S}
\* completed jobs: those on the list, and the one whose answer is being sent
Completed == {a \in jobs \cup (IF mpc = "complete" THEN {mjob} ELSE {}) : heap[a].state = "COMPLETED"}

\* The list of jobs, its states and the wakeup pipe are the request service of
\* RequestService: each request is carried out and answered at most once, in the order and on
\* the connection it should be, and given up only where the service may give up.
Service == INSTANCE RequestService WITH
  count <- nreq, waiting <- Requests(Queued), running <- IF WorkerHolds THEN {Request(wjob)} ELSE {},
  ready <- Requests(Completed), linked <- pipeUp, closing <- stopping
IsService == Service!Spec

(* Liveness.                                                               *)

\* Every request is answered or its connection goes away, however the newest
\* are served first, once requests stop arriving (MaxReq); a wakeup that was
\* dropped and a wakeup socket that failed are the two ways not to.
EveryRequestSettled ==
  \A c \in Conn : \A r \in Req :
     r \in owed[c] ~> (r \notin owed[c] \/ c \notin open \/ lost > 0 \/ ~pipeUp)

\* The shutdown ends: pthread_join never waits for a worker that sleeps.
ShutdownEnds == stopping ~> mpc = "stopped"
=============================================================================
