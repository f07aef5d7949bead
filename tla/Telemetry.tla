------------------------------ MODULE Telemetry ------------------------------
(***************************************************************************)
(* The log and telemetry upload of src/src/system/telemetry.c.  One worker *)
(* thread uploads: in every cycle a snapshot fragment (with the log lines  *)
(* captured so far) and then a fragment of the lines captured meanwhile.   *)
(* Any thread captures lines; the event loop ("main") saves the            *)
(* configuration, runs the connection test and ends the module.  All share *)
(* g_lock: a critical section is one action.  g_sequence++ of the snapshot *)
(* is outside the lock, so its read and its write are two actions.         *)
(*                                                                         *)
(* A record is its position in `made`, the history of every record stamped *)
(* with a sequence number since the device booted.  g_status (shown by the *)
(* status API only), the interval's length, the text of records and the    *)
(* four config_set rows behind a save are abstracted; malloc succeeds.     *)
(***************************************************************************)
EXTENDS Naturals, Sequences, FiniteSets

CONSTANTS MaxRec,       \* bound: records captured before cycles stop
          FragLines,    \* log lines that make up TELEMETRY_FRAGMENT_SIZE
          MaxCrash      \* bound: restarts of the service within one boot

ASSUME BoundsAssumption == MaxRec \in Nat /\ FragLines \in Nat \ {0} /\ MaxCrash \in Nat

VARIABLES
  enabled,   \* g_config.enabled (a saved configuration is valid when enabled)
  active,    \* g_sender_active
  flush,     \* g_flush_requested
  stop,      \* g_stop
  pending,   \* g_pending: records waiting in the buffer
  seq,       \* g_sequence
  wpc,       \* where the worker is
  batch,     \* the fragment in the worker's hands
  snapSeq,   \* the worker's copy of g_sequence between the read and the write
  mpc,       \* where the main thread is
  asking,    \* a telemetry_capture_at between its two critical sections
  made,      \* history: the sequence number of every record
  sent, failed, gone,  \* history: what became of records
  late,      \* history: fragments started since enabled became false
  first,     \* history: records made before this life of the service
  raced,     \* history: in this life the snapshot's unlocked ++ met a capture
  crashes    \* history: restarts so far

vars == <<enabled, active, flush, stop, pending, seq, wpc, batch, snapSeq,
          mpc, asking, made, sent, failed, gone, late, first, raced, crashes>>
history == <<sent, failed, gone>>
life == <<first, raced, crashes>>

WorkerPC == {"top", "parked", "collect", "stamp", "take", "flag", "send", "unflag",
             "takeLog", "flagLog", "sendLog", "unflagLog", "rearm", "timed", "recheck",
             "exited"}
Rec == 1 .. Len(made)

TypeOK ==
  /\ enabled \in BOOLEAN /\ active \in BOOLEAN /\ flush \in BOOLEAN /\ stop \in BOOLEAN
  /\ asking \in BOOLEAN
  /\ seq \in 0 .. Len(made) /\ snapSeq \in 0 .. Len(made)
  /\ made \in Seq(Nat)
  /\ pending \subseteq Rec /\ batch \subseteq Rec
  /\ sent \subseteq Rec /\ failed \subseteq Rec /\ gone \subseteq Rec
  /\ wpc \in WorkerPC
  /\ mpc \in {"loop", "test", "testLog", "join", "stopped"}
  /\ late \in Nat /\ first \in Nat /\ raced \in BOOLEAN /\ crashes \in 0 .. MaxCrash

\* telemetry_init has created the worker; g_config was loaded from the database
Init ==
  /\ enabled \in BOOLEAN
  /\ active = FALSE /\ flush = FALSE /\ stop = FALSE
  /\ pending = {} /\ batch = {} /\ seq = 0 /\ snapSeq = 0
  /\ wpc = "top" /\ mpc = "loop" /\ asking = FALSE
  /\ made = <<>> /\ sent = {} /\ failed = {} /\ gone = {}
  /\ late = 0 /\ first = 0 /\ raced = FALSE /\ crashes = 0

\* mutant: an expansion of telemetry_build_record evaluates g_sequence++ twice
NextSeq_Mut(s) == s + 2
\* g_sequence++
NextSeq(s) == s + 1

\* mutant: a pthread_cond_signal that is missing
Signalled_Mut == wpc
\* pthread_cond_signal(&g_ready): only the worker ever waits
Signalled == IF wpc = "parked" THEN "top" ELSE IF wpc = "timed" THEN "recheck" ELSE wpc

---------------------------------------------------------------------------
(* The worker thread (telemetry_worker).                                   *)

Budget == Len(made) < MaxRec

\* top of the loop and the wait for an enabled configuration
WorkerTop ==
  /\ wpc = "top"
  /\ \/ stop /\ wpc' = "exited"
     \/ ~stop /\ ~enabled /\ wpc' = "parked"
     \/ ~stop /\ enabled /\ Budget /\ wpc' = "collect"
  /\ UNCHANGED <<enabled, active, flush, stop, pending, seq, batch, snapSeq,
                 mpc, asking, made, history, late, life>>

\* the getters of collect_minimal_snapshot; then g_sequence is read ...
WorkerCollect ==
  /\ wpc = "collect"
  /\ snapSeq' = seq
  /\ wpc' = "stamp"
  /\ UNCHANGED <<enabled, active, flush, stop, pending, seq, batch,
                 mpc, asking, made, history, late, life>>

\* ... and written, without g_lock
WorkerStamp ==
  /\ wpc = "stamp"
  /\ made' = Append(made, snapSeq)
  /\ seq' = NextSeq(snapSeq)
  /\ batch' = {Len(made) + 1}
  /\ wpc' = "take"
  /\ UNCHANGED <<enabled, active, flush, stop, pending, snapSeq,
                 mpc, asking, history, late, life>>

\* mutant: the buffer is copied and not emptied
Emptied_Mut == pending
Emptied == {}

\* take_pending, for the snapshot's fragment and for send_pending's
WorkerTake ==
  /\ \/ wpc = "take" /\ wpc' = "flag"
     \/ wpc = "takeLog" /\ pending # {} /\ wpc' = "flagLog"
     \/ wpc = "takeLog" /\ pending = {} /\ wpc' = "rearm"
  /\ batch' = batch \cup pending
  /\ pending' = Emptied
  /\ UNCHANGED <<enabled, active, flush, stop, seq, snapSeq,
                 mpc, asking, made, history, late, life>>

\* g_sender_active = 1, and the fragment starts (gzip and curl are forked)
WorkerFlag ==
  /\ \/ wpc = "flag" /\ wpc' = "send"
     \/ wpc = "flagLog" /\ wpc' = "sendLog"
  /\ active' = TRUE
  /\ late' = IF enabled THEN late ELSE late + 1
  /\ UNCHANGED <<enabled, flush, stop, pending, seq, batch, snapSeq,
                 mpc, asking, made, history, life>>

\* send_gzip_fragment returns (curl --max-time 30); a failed fragment is dropped
WorkerSent ==
  /\ \/ wpc = "send" /\ wpc' = "unflag"
     \/ wpc = "sendLog" /\ wpc' = "unflagLog"
  /\ \/ sent' = sent \cup batch /\ failed' = failed
     \/ failed' = failed \cup batch /\ sent' = sent
  /\ batch' = {}
  /\ UNCHANGED <<enabled, active, flush, stop, pending, seq, snapSeq,
                 mpc, asking, made, gone, late, life>>

\* mutant: the flag stays up after the snapshot
Unflagged_Mut == wpc = "unflag" /\ active
Unflagged == FALSE

\* g_sender_active = 0
WorkerUnflag ==
  /\ \/ wpc = "unflag" /\ wpc' = "takeLog"
     \/ wpc = "unflagLog" /\ wpc' = "rearm"
  /\ active' = Unflagged
  /\ UNCHANGED <<enabled, flush, stop, pending, seq, batch, snapSeq,
                 mpc, asking, made, history, late, life>>

\* g_flush_requested = 0, then the condition of the timed wait
WorkerRearm ==
  /\ wpc = "rearm"
  /\ flush' = FALSE
  /\ wpc' = IF ~stop /\ enabled THEN "timed" ELSE "top"
  /\ UNCHANGED <<enabled, active, stop, pending, seq, batch, snapSeq,
                 mpc, asking, made, history, late, life>>

\* the timed wait was signalled: the condition again
WorkerRecheck ==
  /\ wpc = "recheck"
  /\ wpc' = IF ~stop /\ ~flush /\ enabled THEN "timed" ELSE "top"
  /\ UNCHANGED <<enabled, active, flush, stop, pending, seq, batch, snapSeq,
                 mpc, asking, made, history, late, life>>

\* mutant: an untimed wait
Expired_Mut == stop
\* interval_sec has passed
Expired == TRUE
WorkerTimeout ==
  /\ wpc = "timed" /\ Expired
  /\ wpc' = "top"
  /\ UNCHANGED <<enabled, active, flush, stop, pending, seq, batch, snapSeq,
                 mpc, asking, made, history, late, life>>

---------------------------------------------------------------------------
(* Capturing a line: any thread, under g_lock.                             *)

\* the body of telemetry_capture_line (after telemetry_deinit it drops the line)
Captured ==
  IF enabled /\ ~active /\ mpc # "stopped"
    THEN /\ made' = Append(made, seq)
         /\ seq' = NextSeq(seq)
         /\ pending' = pending \cup {Len(made) + 1}
         /\ raced' = (raced \/ wpc = "stamp")
         /\ IF Cardinality(pending) + 1 >= FragLines
              THEN flush' = TRUE /\ wpc' = Signalled
              ELSE UNCHANGED <<flush, wpc>>
    ELSE UNCHANGED <<made, seq, pending, flush, wpc, raced>>

\* a line of service output, or a command of run_command_argv
CaptureLine ==
  /\ Budget
  /\ Captured
  /\ UNCHANGED <<enabled, active, stop, batch, snapSeq, mpc, asking, history, late, first, crashes>>

\* telemetry_capture_at: the line ...
CaptureAt ==
  /\ Budget /\ ~asking
  /\ Captured
  /\ asking' = TRUE
  /\ UNCHANGED <<enabled, active, stop, batch, snapSeq, mpc, history, late, first, crashes>>

\* ... then, in a second critical section, the request to flush
AskFlush ==
  /\ asking
  /\ asking' = FALSE
  /\ flush' = TRUE /\ wpc' = Signalled
  /\ UNCHANGED <<enabled, active, stop, pending, seq, batch, snapSeq,
                 mpc, made, history, late, life>>

---------------------------------------------------------------------------
(* The main thread.                                                        *)

\* telemetry_save_config: the rows are written, g_config replaced.  (When a
\* row cannot be written g_config stays: a stutter here.)
SaveConfig(on) ==
  /\ mpc = "loop"
  /\ enabled' = on
  /\ late' = IF on THEN 0 ELSE late
  /\ wpc' = Signalled
  /\ UNCHANGED <<active, flush, stop, pending, seq, batch, snapSeq,
                 mpc, asking, made, history, life>>

\* telemetry_test: the flag goes up, curl runs ...
TestBegin ==
  /\ mpc = "loop" /\ Budget
  /\ active' = TRUE
  /\ mpc' = "test"
  /\ UNCHANGED <<enabled, flush, stop, pending, seq, wpc, batch, snapSeq,
                 asking, made, history, late, life>>

\* ... run_command_argv captures the command it ran ...
TestLogs ==
  /\ mpc = "test"
  /\ Captured
  /\ mpc' = "testLog"
  /\ UNCHANGED <<enabled, active, stop, batch, snapSeq, asking, history, late, first, crashes>>

\* ... and the flag goes down
TestEnd ==
  /\ mpc = "testLog"
  /\ active' = FALSE
  /\ mpc' = "loop"
  /\ UNCHANGED <<enabled, flush, stop, pending, seq, wpc, batch, snapSeq,
                 asking, made, history, late, life>>

\* mutant: telemetry_deinit leaves the worker asleep
StopSignal_Mut == wpc
StopSignal == Signalled

\* telemetry_deinit up to pthread_join
Deinit ==
  /\ mpc = "loop"
  /\ stop' = TRUE
  /\ wpc' = StopSignal
  /\ mpc' = "join"
  /\ UNCHANGED <<enabled, active, flush, pending, seq, batch, snapSeq,
                 asking, made, history, late, life>>

\* mutant: the buffer is not freed
Freed_Mut == pending
Freed == {}

\* the worker is joined and g_pending freed
Joined ==
  /\ mpc = "join" /\ wpc = "exited"
  /\ gone' = gone \cup (pending \ Freed)
  /\ pending' = Freed
  /\ mpc' = "stopped"
  /\ UNCHANGED <<enabled, active, flush, stop, seq, wpc, batch, snapSeq,
                 asking, made, sent, failed, late, life>>

\* The process dies and is started again in the same boot: its memory is gone,
\* the configuration comes back from the database.
Restart ==
  /\ crashes < MaxCrash
  /\ crashes' = crashes + 1
  /\ gone' = gone \cup pending \cup batch
  /\ pending' = {} /\ batch' = {} /\ seq' = 0 /\ snapSeq' = 0
  /\ active' = FALSE /\ flush' = FALSE /\ stop' = FALSE
  /\ wpc' = "top" /\ mpc' = "loop" /\ asking' = FALSE
  /\ late' = 0 /\ first' = Len(made) /\ raced' = FALSE
  /\ UNCHANGED <<enabled, made, sent, failed>>

---------------------------------------------------------------------------

Worker == \/ WorkerTop \/ WorkerCollect \/ WorkerStamp \/ WorkerTake \/ WorkerFlag
          \/ WorkerSent \/ WorkerUnflag \/ WorkerRearm \/ WorkerRecheck \/ WorkerTimeout

MainOwn == TestLogs \/ TestEnd \/ Joined

Next == \/ Worker \/ MainOwn
        \/ CaptureLine \/ CaptureAt \/ AskFlush
        \/ \E on \in BOOLEAN : SaveConfig(on)
        \/ TestBegin \/ Deinit \/ Restart

\* The worker, a running test or join, and a capture between its two critical
\* sections go on; curl ends.  The timed wait has an absolute deadline, which no
\* number of signals can move: strong fairness.
Fairness == /\ WF_vars(Worker) /\ SF_vars(WorkerTimeout)
            /\ WF_vars(MainOwn) /\ WF_vars(AskFlush)

Spec == Init /\ [][Next]_vars
FairSpec == Spec /\ Fairness

---------------------------------------------------------------------------
(* Safety.                                                                 *)

\* Every record is in exactly one place: the buffer, the fragment being sent,
\* or one of its fates.  No record is sent twice or after its fragment failed
\* ("each fragment is sent only once", design document line 98), and none gets
\* lost between take_pending and the fragment.
ExactlyOnce ==
  LET place == <<pending, batch, sent, failed, gone>>
  IN  /\ Rec = UNION {place[i] : i \in 1 .. 5}
      /\ \A i, j \in 1 .. 5 : i # j => place[i] \cap place[j] = {}

\* A worker that sleeps has nothing to do: no condition of either wait becomes
\* true without a wakeup (pthread_cond_signal under g_lock).
NoMissedWakeup ==
  /\ wpc = "timed" => ~stop /\ ~flush /\ enabled
  /\ wpc = "parked" => ~stop /\ ~enabled

\* g_sender_active, which makes every thread drop its lines, is up only while
\* the worker sends or the connection test runs.
FlagHasASender ==
  active => wpc \in {"send", "unflag", "sendLog", "unflagLog"} \/ mpc \in {"test", "testLog"}

\* When a sequence number can be used twice.  Within one life of the service the
\* records are numbered 0, 1, 2, ... in the order in which they are made, whoever
\* makes them, unless a line was captured between the read and the write of the
\* snapshot's unlocked g_sequence++; every life starts at 0 again.
SequenceExplained ==
  ~raced => /\ seq = Len(made) - first
            /\ \A i \in Rec : i > first => made[i] = i - first - 1

\* After telemetry_deinit nothing is left to send: buffer freed, worker gone.
CleanStop == mpc = "stopped" => pending = {} /\ batch = {} /\ wpc = "exited"

\* The worker's three obligations to the threads that signal it, share its flag
\* or join it: it sleeps through no work, the flag that hides its own output is
\* up only for a sender, and it leaves nothing behind.
WorkerOrderly == NoMissedWakeup /\ FlagHasASender /\ CleanStop

(* Liveness.                                                               *)

\* telemetry_deinit returns: the worker ends its cycle and the join succeeds
\* (unless the process dies first).
DeinitReturns == mpc = "join" ~> mpc # "join"

\* A buffered line does not stay, however often the timed wait is cut short: it is
\* uploaded or dropped with its fragment, unless reporting is switched off (or the
\* bound on cycles is reached).  How long it may stay is another matter: a flush
\* request made during an upload is forgotten by WorkerRearm, and its lines then
\* wait for the interval.
PendingLeaves ==
  \A i \in 1 .. MaxRec + 1 : i \in pending ~> (i \notin pending \/ ~enabled \/ ~Budget)

---------------------------------------------------------------------------
(* What the design document says and the code does not do.                 *)

\* While something is sent, g_sender_active is up: the upload module's own logs must
\* not enter the upload channel again (design document line 78).  The worker and the
\* connection test share the flag, and whoever ends first lowers it for both; the
\* command line of a test that still runs is then captured (TestLogs).
SenderHasFlag == wpc \in {"send", "sendLog"} \/ mpc = "test" => active

\* Once reporting is off no new fragment starts; only the one being sent may finish
\* (design document line 39).  The worker does not look at the switch again between
\* the start of a cycle and its end.
OffStopsFragments == late = 0
=============================================================================
