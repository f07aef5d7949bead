-------------------------- MODULE Telemetry_proofs --------------------------
(***************************************************************************)
(* Proofs, for any number of records and restarts and any fragment size,   *)
(* that telemetry.c sends each record in at most one fragment and forgets  *)
(* none, that its worker never sleeps with something to do, that           *)
(* g_sender_active is only up while something is sent, that at most two    *)
(* fragments follow the switch, and that sequence numbers repeat in a life *)
(* of the service only through the snapshot's unlocked increment.          *)
(*                                                                         *)
(* ExactlyOnce needs to know where the worker holds no fragment            *)
(* (EmptyHands: it overwrites `batch` with the next snapshot);             *)
(* LateFragments counts, besides the fragments that started, those the     *)
(* worker's position still allows (ToCome).  SequenceExplained needs that  *)
(* the worker's copy of the number is current until a capture passes it    *)
(* (SeqInv).                                                               *)
(***************************************************************************)
EXTENDS Telemetry, TLAPS

\* Between two fragments the worker has none in its hands.
EmptyHands == wpc \notin {"take", "flag", "send", "flagLog", "sendLog"} => batch = {}

\* The five places of a record are disjoint, and are all of them.
Places ==
  /\ pending \cup batch \cup sent \cup failed \cup gone = Rec
  /\ pending \cap batch = {} /\ pending \cap sent = {} /\ pending \cap failed = {}
  /\ pending \cap gone = {} /\ batch \cap sent = {} /\ batch \cap failed = {}
  /\ batch \cap gone = {} /\ sent \cap failed = {} /\ sent \cap gone = {}
  /\ failed \cap gone = {}

\* Fragments the worker may still start before it looks at the switch again.
ToCome == IF wpc \in {"collect", "stamp", "take", "flag"} THEN 2
          ELSE IF wpc \in {"send", "unflag", "takeLog", "flagLog"} THEN 1 ELSE 0

LateInv == IF enabled THEN late = 0 ELSE late + ToCome <= 2

\* g_stop is raised by telemetry_deinit and never taken back; after it the
\* worker is gone, and so is the buffer.
StopInv ==
  /\ stop <=> mpc \in {"join", "stopped"}
  /\ wpc = "exited" => stop
  /\ mpc = "stopped" => wpc = "exited" /\ pending = {}

\* The records of this life follow the earlier ones, and the snapshot's copy of
\* the number is the number, unless a capture went by.
SeqInv ==
  /\ first <= Len(made)
  /\ SequenceExplained
  /\ wpc = "stamp" /\ ~raced => snapSeq = seq

\* After the switch goes off at most two more fragments start: the snapshot
\* of the cycle under way and the lines captured before.
LateFragments == late <= 2

CoreInv == /\ TypeOK /\ EmptyHands /\ Places /\ LateInv /\ StopInv
        /\ NoMissedWakeup /\ FlagHasASender

IInv == CoreInv /\ SeqInv

---------------------------------------------------------------------------

\* telemetry_init leaves the worker about to start and nothing to send.
LEMMA InitInv == Init => IInv
<1> SUFFICES ASSUME Init PROVE IInv
  OBVIOUS
<1>1. Len(made) = 0 /\ made \in Seq(Nat) /\ Rec = {}
  BY DEF Init, Rec
<1>2. TypeOK
  <2>1. seq \in 0 .. Len(made) /\ snapSeq \in 0 .. Len(made) /\ crashes \in 0 .. MaxCrash
    BY <1>1, BoundsAssumption DEF Init
  <2>2. QED
    BY <1>1, <2>1 DEF Init, TypeOK, WorkerPC
<1>3. EmptyHands /\ Places /\ StopInv
  BY <1>1 DEF Init, EmptyHands, Places, StopInv
<1>4. LateInv /\ NoMissedWakeup /\ FlagHasASender
  BY DEF Init, LateInv, ToCome, NoMissedWakeup, FlagHasASender
<1>5. SeqInv
  BY <1>1 DEF Init, SeqInv, SequenceExplained
<1>6. QED
  BY <1>2, <1>3, <1>4, <1>5 DEF IInv, CoreInv

\* A record is stamped at the end of `made`.
LEMMA Stamped ==
  ASSUME TypeOK, NEW s \in Nat, made' = Append(made, s)
  PROVE  /\ made' \in Seq(Nat)
         /\ Len(made') = Len(made) + 1 /\ Len(made) \in Nat
         /\ Rec' = Rec \cup {Len(made) + 1} /\ Len(made) + 1 \notin Rec
<1>1. made \in Seq(Nat) /\ Len(made) \in Nat
  BY DEF TypeOK
<1>2. made' \in Seq(Nat) /\ Len(made') = Len(made) + 1
  BY <1>1
<1>3. QED
  BY <1>1, <1>2 DEF Rec

\* The body of telemetry_capture_line keeps the sequence number, the places of
\* the records and, when the module is stopped, everything.
LEMMA CapturedStep ==
  ASSUME CoreInv, Captured,
         UNCHANGED <<enabled, active, stop, batch, snapSeq, history, late, first, crashes>>
  PROVE  /\ made' \in Seq(Nat)
         /\ seq' \in 0 .. Len(made') /\ snapSeq \in 0 .. Len(made')
         /\ Places' /\ flush' \in BOOLEAN /\ raced' \in BOOLEAN
         /\ \/ UNCHANGED <<flush, wpc>>
            \/ flush' = TRUE /\ wpc' = Signalled
         /\ mpc = "stopped" => UNCHANGED <<pending, wpc>>
<1>1. CASE enabled /\ ~active /\ mpc # "stopped"
  <2>1. /\ made' = Append(made, seq)
        /\ seq' = seq + 1 /\ pending' = pending \cup {Len(made) + 1}
        /\ \/ UNCHANGED <<flush, wpc>>
           \/ flush' = TRUE /\ wpc' = Signalled
    BY <1>1 DEF Captured, NextSeq
  <2>2. seq \in Nat /\ seq <= Len(made) /\ snapSeq \in 0 .. Len(made) /\ flush \in BOOLEAN /\ Places
    BY DEF CoreInv, TypeOK
  <2>3. /\ made' \in Seq(Nat)
        /\ Len(made') = Len(made) + 1 /\ Len(made) \in Nat
        /\ Rec' = Rec \cup {Len(made) + 1} /\ Len(made) + 1 \notin Rec
    BY <2>1, <2>2, Stamped DEF CoreInv
  <2>4. Places'
    BY <2>1, <2>2, <2>3 DEF Places, history
  <2>5. seq' \in 0 .. Len(made')
    <3> HIDE DEF Places
    <3> QED BY <2>1, <2>2, <2>3
  <2>6. snapSeq \in 0 .. Len(made')
    BY <2>2, <2>3
  <2>7. flush' \in BOOLEAN
    BY <2>1, <2>2
  <2>8. raced' \in BOOLEAN
    BY <1>1, Zenon DEF Captured
  <2>9. QED
    BY <1>1, <2>1, <2>3, <2>4, <2>5, <2>6, <2>7, <2>8
<1>2. CASE ~(enabled /\ ~active /\ mpc # "stopped")
  <2>1. UNCHANGED <<made, seq, pending, flush, wpc, raced>>
    BY <1>2 DEF Captured
  <2>2. QED
    BY <2>1 DEF CoreInv, TypeOK, Places, history, Rec
<1>3. QED
  BY <1>1, <1>2

\* So a captured line keeps the invariant, in whichever thread and caller.
LEMMA CapturedInv ==
  ASSUME CoreInv, Captured,
         UNCHANGED <<enabled, active, stop, batch, snapSeq, history, late, first, crashes>>,
         asking' \in BOOLEAN,
         \/ mpc' = mpc
         \/ mpc = "test" /\ mpc' = "testLog"
  PROVE  CoreInv'
<1> DEFINE quiet == UNCHANGED <<flush, wpc>>
           woken == flush' = TRUE /\ wpc' = Signalled
<1>1. /\ made' \in Seq(Nat)
      /\ seq' \in 0 .. Len(made') /\ snapSeq \in 0 .. Len(made')
      /\ Places' /\ flush' \in BOOLEAN /\ raced' \in BOOLEAN
      /\ quiet \/ woken
      /\ mpc = "stopped" => UNCHANGED <<pending, wpc>>
  BY CapturedStep
<1>2. wpc' \in WorkerPC /\ (wpc' = wpc \/ <<wpc, wpc'>> \in {<<"parked", "top">>, <<"timed", "recheck">>})
  BY <1>1 DEF Signalled, CoreInv, TypeOK, WorkerPC
<1>3. TypeOK'
  <2>1. /\ pending' \subseteq Rec' /\ batch' \subseteq Rec'
        /\ sent' \subseteq Rec' /\ failed' \subseteq Rec' /\ gone' \subseteq Rec'
    BY <1>1 DEF Places
  <2>2. /\ enabled' \in BOOLEAN /\ active' \in BOOLEAN /\ stop' \in BOOLEAN
        /\ mpc' \in {"loop", "test", "testLog", "join", "stopped"}
        /\ late' \in Nat /\ first' \in Nat /\ crashes' \in 0 .. MaxCrash /\ snapSeq' \in 0 .. Len(made')
    BY <1>1 DEF CoreInv, TypeOK
  <2>3. QED
    BY <1>1, <1>2, <2>1, <2>2, Zenon DEF TypeOK
<1>4. EmptyHands' /\ LateInv' /\ StopInv' /\ FlagHasASender'
  BY <1>1, <1>2 DEF CoreInv, EmptyHands, LateInv, ToCome, StopInv, FlagHasASender, Signalled
<1>5. NoMissedWakeup'
  BY <1>1 DEF CoreInv, NoMissedWakeup, Signalled
<1>6. QED
  BY <1>1, <1>3, <1>4, <1>5 DEF CoreInv

\* Every step of the worker, of a capture, of the main thread, and a restart.
LEMMA CoreStep == CoreInv /\ [Next]_vars => CoreInv'
<1> SUFFICES ASSUME CoreInv, [Next]_vars PROVE CoreInv'
  OBVIOUS
<1> USE BoundsAssumption
        DEF CoreInv, TypeOK, EmptyHands, Places, LateInv, ToCome, StopInv, NoMissedWakeup,
            FlagHasASender, WorkerPC, Rec, history, life, vars
<1>1. CASE WorkerTop
  BY <1>1 DEF WorkerTop
<1>2. CASE WorkerCollect
  BY <1>2 DEF WorkerCollect
<1>3. CASE WorkerStamp
  <2>1. /\ made' = Append(made, snapSeq)
        /\ seq' = snapSeq + 1 /\ batch' = {Len(made) + 1} /\ wpc = "stamp" /\ wpc' = "take"
        /\ UNCHANGED <<enabled, active, flush, stop, pending, snapSeq, mpc, asking,
                       history, late, life>>
    BY <1>3 DEF WorkerStamp, NextSeq
  <2>2. /\ made' \in Seq(Nat)
        /\ Len(made') = Len(made) + 1 /\ Len(made) \in Nat
        /\ Rec' = Rec \cup {Len(made) + 1} /\ Len(made) + 1 \notin Rec
    BY <2>1, Stamped
  <2>3. seq' \in 0 .. Len(made') /\ snapSeq' \in 0 .. Len(made')
    BY <2>1, <2>2
  <2>4. Places'
    BY <2>1, <2>2
  <2>5. TypeOK'
    BY <2>1, <2>2, <2>3, <2>4
  <2>6. EmptyHands' /\ LateInv' /\ StopInv' /\ NoMissedWakeup' /\ FlagHasASender'
    BY <2>1
  <2>7. QED
    BY <2>4, <2>5, <2>6
<1>4. CASE WorkerTake
  <2>1. /\ batch' = batch \cup pending /\ pending' = {}
        /\ UNCHANGED <<enabled, active, flush, stop, seq, snapSeq, mpc, asking, made,
                       history, late, life>>
        /\ \/ wpc = "take" /\ wpc' = "flag"
           \/ wpc = "takeLog" /\ pending # {} /\ wpc' = "flagLog"
           \/ wpc = "takeLog" /\ pending = {} /\ wpc' = "rearm"
    BY <1>4 DEF WorkerTake, Emptied
  <2>2. Places'
    BY <2>1
  <2>3. TypeOK'
    BY <2>1
  <2>4. EmptyHands' /\ LateInv' /\ StopInv' /\ NoMissedWakeup' /\ FlagHasASender'
    BY <2>1
  <2>5. QED
    BY <2>2, <2>3, <2>4
<1>5. CASE WorkerFlag
  <2>1. late' \in Nat /\ wpc' \in WorkerPC /\ active' \in BOOLEAN
    BY <1>5 DEF WorkerFlag
  <2>2. LateInv'
    BY <1>5 DEF WorkerFlag
  <2>3. EmptyHands' /\ StopInv' /\ NoMissedWakeup' /\ FlagHasASender'
    BY <1>5 DEF WorkerFlag
  <2>4. QED
    BY <1>5, <2>1, <2>2, <2>3 DEF WorkerFlag
<1>6. CASE WorkerSent
  BY <1>6 DEF WorkerSent
<1>7. CASE WorkerUnflag
  BY <1>7 DEF WorkerUnflag, Unflagged
<1>8. CASE WorkerRearm
  BY <1>8 DEF WorkerRearm
<1>9. CASE WorkerRecheck
  BY <1>9 DEF WorkerRecheck
<1>10. CASE WorkerTimeout
  BY <1>10 DEF WorkerTimeout, Expired
<1>11. CASE CaptureLine
  <2>1. /\ Captured /\ asking' \in BOOLEAN
        /\ \/ mpc' = mpc
           \/ mpc = "test" /\ mpc' = "testLog"
        /\ UNCHANGED <<enabled, active, stop, batch, snapSeq, history, late, first, crashes>>
    BY <1>11 DEF CaptureLine
  <2>2. QED
    BY <2>1, CapturedInv
<1>12. CASE CaptureAt
  <2>1. /\ Captured /\ asking' \in BOOLEAN
        /\ \/ mpc' = mpc
           \/ mpc = "test" /\ mpc' = "testLog"
        /\ UNCHANGED <<enabled, active, stop, batch, snapSeq, history, late, first, crashes>>
    BY <1>12 DEF CaptureAt
  <2>2. QED
    BY <2>1, CapturedInv
<1>13. CASE AskFlush
  <2>1. TypeOK' /\ Places'
    BY <1>13 DEF AskFlush, Signalled
  <2>2. EmptyHands' /\ LateInv' /\ StopInv'
    BY <1>13 DEF AskFlush, Signalled
  <2>3. NoMissedWakeup' /\ FlagHasASender'
    BY <1>13 DEF AskFlush, Signalled
  <2>4. QED
    BY <2>1, <2>2, <2>3
<1>14. CASE TestBegin
  BY <1>14 DEF TestBegin
<1>15. CASE TestLogs
  <2>1. /\ Captured /\ asking' \in BOOLEAN
        /\ \/ mpc' = mpc
           \/ mpc = "test" /\ mpc' = "testLog"
        /\ UNCHANGED <<enabled, active, stop, batch, snapSeq, history, late, first, crashes>>
    BY <1>15 DEF TestLogs
  <2>2. QED
    BY <2>1, CapturedInv
<1>16. CASE TestEnd
  BY <1>16 DEF TestEnd
<1>17. CASE Deinit
  BY <1>17 DEF Deinit, StopSignal, Signalled
<1>18. CASE Joined
  BY <1>18 DEF Joined, Freed
<1>19. CASE Restart
  <2>1. Len(made) \in Nat /\ crashes' \in 0 .. MaxCrash
    BY <1>19 DEF Restart
  <2>2. seq' \in 0 .. Len(made') /\ snapSeq' \in 0 .. Len(made') /\ gone' \subseteq Rec'
    BY <1>19, <2>1 DEF Restart
  <2>3. TypeOK'
    BY <1>19, <2>1, <2>2 DEF Restart
  <2>4. Places'
    BY <1>19 DEF Restart
  <2>5. EmptyHands' /\ LateInv' /\ StopInv' /\ NoMissedWakeup' /\ FlagHasASender'
    BY <1>19 DEF Restart
  <2>6. QED
    BY <2>3, <2>4, <2>5
<1>20. ASSUME NEW on \in BOOLEAN, SaveConfig(on) PROVE CoreInv'
  <2>1. TypeOK'
    BY <1>20 DEF SaveConfig, Signalled
  <2>2. Places' /\ EmptyHands' /\ StopInv' /\ FlagHasASender'
    BY <1>20 DEF SaveConfig, Signalled
  <2>3. LateInv'
    BY <1>20 DEF SaveConfig, Signalled
  <2>4. NoMissedWakeup'
    BY <1>20 DEF SaveConfig, Signalled
  <2>5. QED
    BY <2>1, <2>2, <2>3, <2>4
<1>21. CASE UNCHANGED vars
  <2>1. TypeOK'
    BY <1>21
  <2>2. Places'
    BY <1>21
  <2>3. EmptyHands' /\ LateInv' /\ StopInv' /\ NoMissedWakeup' /\ FlagHasASender'
    BY <1>21
  <2>4. QED
    BY <2>1, <2>2, <2>3
<1>22. QED
  BY <1>1, <1>2, <1>3, <1>4, <1>5, <1>6, <1>7, <1>8, <1>9, <1>10, <1>11, <1>12, <1>13,
     <1>14, <1>15, <1>16, <1>17, <1>18, <1>19, <1>20, <1>21 DEF Next, Worker, MainOwn

\* The last number of a record that follows the others is theirs.
LEMMA Numbered ==
  ASSUME CoreInv, SeqInv, ~raced, made' = Append(made, seq), seq' = seq + 1,
         first' = first, wpc' # "stamp"
  PROVE  SeqInv'
<1>1. /\ made \in Seq(Nat) /\ Len(made) \in Nat /\ seq \in Nat /\ first \in Nat
      /\ first <= Len(made) /\ seq = Len(made) - first
      /\ \A i \in 1 .. Len(made) : i > first => made[i] = i - first - 1
  BY DEF CoreInv, TypeOK, SeqInv, SequenceExplained, Rec
<1>2. /\ Len(made') = Len(made) + 1
      /\ \A i \in 1 .. Len(made) : made'[i] = made[i]
      /\ made'[Len(made) + 1] = seq
  BY <1>1
<1>3. \A i \in 1 .. Len(made') : i > first' => made'[i] = i - first' - 1
  <2> SUFFICES ASSUME NEW i \in 1 .. Len(made'), i > first' PROVE made'[i] = i - first' - 1
    OBVIOUS
  <2>1. CASE i \in 1 .. Len(made)
    BY <1>1, <1>2, <2>1
  <2>2. CASE i = Len(made) + 1
    BY <1>1, <1>2, <2>2
  <2>3. QED
    BY <1>1, <1>2, <2>1, <2>2
<1>4. first' <= Len(made') /\ seq' = Len(made') - first'
  BY <1>1, <1>2
<1>5. QED
  BY <1>3, <1>4 DEF SeqInv, SequenceExplained, Rec

\* Who makes no record changes no number; the snapshot's copy is taken from it.
LEMMA NumbersKept ==
  ASSUME SeqInv, UNCHANGED <<made, seq, first, raced>>,
         wpc' = "stamp" => \/ wpc = "stamp" /\ snapSeq' = snapSeq
                          \/ snapSeq' = seq
  PROVE  SeqInv'
BY DEF SeqInv, SequenceExplained, Rec

\* A captured line takes the next number, or has raced.
LEMMA CapturedNumber ==
  ASSUME CoreInv, SeqInv, Captured, UNCHANGED <<snapSeq, first>>
  PROVE  SeqInv'
<1>1. wpc' # "stamp" \/ wpc = "stamp"
  BY DEF Captured, Signalled
<1>2. CASE UNCHANGED <<made, seq, raced>>
  BY <1>1, <1>2, NumbersKept
<1>3. CASE made' = Append(made, seq) /\ seq' = seq + 1 /\ raced' = (raced \/ wpc = "stamp")
  <2>1. CASE ~raced /\ wpc # "stamp"
    BY <1>1, <1>3, <2>1, Numbered
  <2>2. CASE raced \/ wpc = "stamp"
    <3>1. first' <= Len(made')
      BY <1>3, Stamped DEF CoreInv, TypeOK, SeqInv
    <3>2. raced'
      BY <1>3, <2>2
    <3>3. QED
      BY <3>1, <3>2 DEF SeqInv, SequenceExplained
  <2>3. QED
    BY <2>1, <2>2
<1>4. QED
  BY <1>2, <1>3 DEF Captured, NextSeq

LEMMA SeqStep == CoreInv /\ SeqInv /\ [Next]_vars => SeqInv'
<1> SUFFICES ASSUME CoreInv, SeqInv, [Next]_vars PROVE SeqInv'
  OBVIOUS
<1> USE DEF life
<1>1. CASE WorkerTop \/ WorkerTake \/ WorkerFlag \/ WorkerSent
  BY <1>1, NumbersKept DEF WorkerTop, WorkerTake, WorkerFlag, WorkerSent
<1>2. CASE WorkerUnflag \/ WorkerRearm \/ WorkerRecheck \/ WorkerTimeout
  BY <1>2, NumbersKept DEF WorkerUnflag, WorkerRearm, WorkerRecheck, WorkerTimeout
<1>3. CASE WorkerCollect
  BY <1>3, NumbersKept DEF WorkerCollect
<1>4. CASE WorkerStamp
  <2>1. /\ wpc = "stamp" /\ wpc' = "take" /\ made' = Append(made, snapSeq)
        /\ seq' = snapSeq + 1 /\ first' = first /\ raced' = raced
    BY <1>4 DEF WorkerStamp, NextSeq
  <2>2. CASE ~raced
    <3>1. snapSeq = seq
      BY <2>1, <2>2 DEF SeqInv
    <3>2. QED
      BY <2>1, <2>2, <3>1, Numbered
  <2>3. CASE raced
    <3>1. first' <= Len(made')
      BY <2>1, Stamped DEF CoreInv, TypeOK, SeqInv
    <3>2. QED
      BY <2>1, <2>3, <3>1 DEF SeqInv, SequenceExplained
  <2>4. QED
    BY <2>2, <2>3 DEF CoreInv, TypeOK
<1>5. CASE CaptureLine \/ CaptureAt \/ TestLogs
  BY <1>5, CapturedNumber DEF CaptureLine, CaptureAt, TestLogs
<1>6. CASE AskFlush \/ \E on \in BOOLEAN : SaveConfig(on)
  BY <1>6, NumbersKept DEF AskFlush, SaveConfig, Signalled
<1>7. CASE TestBegin \/ TestEnd \/ Joined
  BY <1>7, NumbersKept DEF TestBegin, TestEnd, Joined
<1>8. CASE Deinit
  BY <1>8, NumbersKept DEF Deinit, StopSignal, Signalled
<1>9. CASE Restart
  <2>1. /\ made' = made /\ seq' = 0 /\ first' = Len(made) /\ wpc' = "top"
        /\ Len(made) \in Nat
    BY <1>9 DEF Restart, CoreInv, TypeOK
  <2>2. QED
    BY <2>1 DEF SeqInv, SequenceExplained, Rec
<1>10. CASE UNCHANGED vars
  BY <1>10, NumbersKept DEF vars
<1>11. QED
  BY <1>1, <1>2, <1>3, <1>4, <1>5, <1>6, <1>7, <1>8, <1>9, <1>10 DEF Next, Worker, MainOwn

LEMMA Step == IInv /\ [Next]_vars => IInv'
  BY CoreStep, SeqStep DEF IInv

---------------------------------------------------------------------------

THEOREM Invariance == Spec => []IInv
  BY InitInv, Step, PTL DEF Spec

\* Every variable keeps its type; no sequence number runs ahead of the records.
THEOREM TypeCorrect == Spec => []TypeOK
<1>1. IInv => TypeOK
  BY DEF IInv, CoreInv
<1>2. QED
  BY Invariance, <1>1, PTL

\* A record is in the buffer, in the fragment being sent, or has one fate; none
\* is sent twice and none is forgotten.
THEOREM SentOnce == Spec => []ExactlyOnce
<1>1. IInv => ExactlyOnce
  <2> SUFFICES ASSUME IInv PROVE ExactlyOnce
    OBVIOUS
  <2> DEFINE place == <<pending, batch, sent, failed, gone>>
  <2>1. /\ place[1] = pending /\ place[2] = batch /\ place[3] = sent
        /\ place[4] = failed /\ place[5] = gone
    OBVIOUS
  <2>2. 1 .. 5 = {1, 2, 3, 4, 5}
    OBVIOUS
  <2> HIDE DEF place
  <2>3. Rec = UNION {place[i] : i \in 1 .. 5}
    BY <2>1, <2>2 DEF IInv, CoreInv, Places
  <2>4. \A i, j \in 1 .. 5 : i # j => place[i] \cap place[j] = {}
    BY <2>1, <2>2 DEF IInv, CoreInv, Places
  <2> USE DEF place
  <2>5. QED
    BY <2>3, <2>4 DEF ExactlyOnce
<1>2. QED
  BY Invariance, <1>1, PTL

\* At most two fragments start after the switch went off.
THEOREM FewLateFragments == Spec => []LateFragments
<1>1. IInv => LateFragments
  BY DEF IInv, CoreInv, TypeOK, LateInv, ToCome, LateFragments
<1>2. QED
  BY Invariance, <1>1, PTL

\* Within one life of the service the records are numbered in the order in which
\* they are made, unless a capture met the snapshot's unlocked g_sequence++.
THEOREM SequenceExplainedHolds == Spec => []SequenceExplained
<1>1. IInv => SequenceExplained
  BY DEF IInv, SeqInv
<1>2. QED
  BY Invariance, <1>1, PTL

\* The worker never sleeps while a condition it waits for is true, lines are
\* dropped (g_sender_active) only while something is being sent, and
\* telemetry_deinit leaves no buffer, no fragment and no worker.
THEOREM WorkerOrderlyHolds == Spec => []WorkerOrderly
<1>1. IInv => CleanStop
  BY DEF IInv, CoreInv, EmptyHands, StopInv, CleanStop
<1>2. IInv => WorkerOrderly
  BY <1>1 DEF IInv, CoreInv, WorkerOrderly
<1>3. QED
  BY Invariance, <1>2, PTL

---------------------------------------------------------------------------
(* How long telemetry_deinit can wait.  DeinitReturns needs fairness; that *)
(* the join has a bound, which no capture can push back, does not.         *)

\* The worker's steps from where it is to its end, once g_stop is set.
StepsLeft ==
  CASE wpc = "exited"              -> 0
    [] wpc = "top"                 -> 1
    [] wpc \in {"rearm", "recheck"} -> 2
    [] wpc = "unflagLog"           -> 3
    [] wpc = "sendLog"             -> 4
    [] wpc = "flagLog"             -> 5
    [] wpc = "takeLog"             -> 6
    [] wpc = "unflag"              -> 7
    [] wpc = "send"                -> 8
    [] wpc = "flag"                -> 9
    [] wpc = "take"                -> 10
    [] wpc = "stamp"               -> 11
    [] wpc = "collect"             -> 12
    [] OTHER                       -> 13

\* The edges of the worker's loop that it takes once g_stop is set.
StoppingEdges ==
  {<<"top", "exited">>, <<"collect", "stamp">>, <<"stamp", "take">>, <<"take", "flag">>,
   <<"flag", "send">>, <<"send", "unflag">>, <<"unflag", "takeLog">>,
   <<"takeLog", "flagLog">>, <<"takeLog", "rearm">>, <<"flagLog", "sendLog">>,
   <<"sendLog", "unflagLog">>, <<"unflagLog", "rearm">>, <<"rearm", "top">>,
   <<"recheck", "top">>}

\* While the service goes down, every step of the worker brings its end nearer,
\* and no capture, flush request or other thread sends it back or round again.
JoinShortens ==
  [][stop /\ stop' => (Worker => StepsLeft' < StepsLeft) /\ StepsLeft' <= StepsLeft]_vars

\* Once g_stop is set the worker is never asleep, ...
LEMMA StopIsHeard == IInv /\ stop => wpc \in WorkerPC \ {"parked", "timed"}
  BY DEF IInv, CoreInv, TypeOK, NoMissedWakeup

\* ... its own steps follow the edges above, ...
LEMMA WorkerGoesDown ==
  ASSUME IInv, stop, Worker
  PROVE  <<wpc, wpc'>> \in StoppingEdges
<1> USE StopIsHeard DEF StoppingEdges
<1>1. CASE WorkerTop
  BY <1>1 DEF WorkerTop
<1>2. CASE WorkerCollect \/ WorkerStamp
  BY <1>2 DEF WorkerCollect, WorkerStamp
<1>3. CASE WorkerTake
  BY <1>3 DEF WorkerTake
<1>4. CASE WorkerFlag \/ WorkerSent \/ WorkerUnflag
  BY <1>4 DEF WorkerFlag, WorkerSent, WorkerUnflag
<1>5. CASE WorkerRearm \/ WorkerRecheck \/ WorkerTimeout
  BY <1>5 DEF WorkerRearm, WorkerRecheck, WorkerTimeout
<1>6. QED
  BY <1>1, <1>2, <1>3, <1>4, <1>5 DEF Worker

\* ... and the others leave it where it is.
LEMMA OthersLeaveIt ==
  ASSUME IInv, stop, stop', [Next]_vars, ~Worker
  PROVE  wpc' = wpc
<1> USE StopIsHeard DEF Signalled
<1>1. CASE CaptureLine \/ CaptureAt \/ TestLogs
  BY <1>1 DEF CaptureLine, CaptureAt, TestLogs, Captured
<1>2. CASE AskFlush \/ \E on \in BOOLEAN : SaveConfig(on)
  BY <1>2 DEF AskFlush, SaveConfig
<1>3. CASE TestBegin \/ TestEnd \/ Joined
  BY <1>3 DEF TestBegin, TestEnd, Joined
<1>4. CASE Deinit
  BY <1>4 DEF Deinit, StopSignal
<1>5. CASE Restart
  BY <1>5 DEF Restart
<1>6. CASE UNCHANGED vars
  BY <1>6 DEF vars
<1>7. QED
  BY <1>1, <1>2, <1>3, <1>4, <1>5, <1>6 DEF Next, MainOwn

\* The join of telemetry_deinit is at most twelve steps of the worker away
\* (two of them a bounded run of curl), and only comes nearer.
THEOREM DeinitIsBounded ==
  Spec => [](stop => StepsLeft \in 0 .. 12 /\ (StepsLeft = 0 <=> wpc = "exited")) /\ JoinShortens
<1>1. IInv => (stop => StepsLeft \in 0 .. 12 /\ (StepsLeft = 0 <=> wpc = "exited"))
  BY StopIsHeard DEF StepsLeft, WorkerPC
<1>2. IInv /\ [Next]_vars =>
        [stop /\ stop' => (Worker => StepsLeft' < StepsLeft) /\ StepsLeft' <= StepsLeft]_vars
  <2> SUFFICES ASSUME IInv, [Next]_vars, stop, stop'
               PROVE  (Worker => StepsLeft' < StepsLeft) /\ StepsLeft' <= StepsLeft
    OBVIOUS
  <2>1. CASE Worker
    <3>1. <<wpc, wpc'>> \in StoppingEdges
      BY <2>1, WorkerGoesDown
    <3>2. StepsLeft' < StepsLeft /\ StepsLeft' <= StepsLeft
      BY <3>1 DEF StoppingEdges, StepsLeft
    <3>3. QED
      BY <3>2
  <2>2. CASE ~Worker
    <3>1. wpc' = wpc
      BY <2>2, OthersLeaveIt
    <3>2. StepsLeft' = StepsLeft /\ StepsLeft \in 0 .. 12
      BY <3>1, <1>1 DEF StepsLeft
    <3>3. QED
      BY <2>2, <3>2
  <2>3. QED
    BY <2>1, <2>2
<1>3. Spec => [](stop => StepsLeft \in 0 .. 12 /\ (StepsLeft = 0 <=> wpc = "exited"))
  BY Invariance, <1>1, PTL
<1>4. Spec => JoinShortens
  BY Invariance, <1>2, PTL DEF Spec, JoinShortens
<1>5. QED
  BY <1>3, <1>4
=============================================================================
