------------------------------- MODULE Outbox -------------------------------
(***************************************************************************)
(* What the notification queue promises the code that emits events,        *)
(* whatever array, indices and thread implement it: a bounded first-in     *)
(* first-out outbox with one sender.  An accepted job is begun once, in    *)
(* the order of acceptance, and only while the outbox is open; jobs are    *)
(* dropped only after it closed, or with the process.                      *)
(***************************************************************************)
EXTENDS Naturals, Sequences

CONSTANTS Job,        \* what can be accepted
          NoJob,      \* stands for "no job"
          Capacity    \* jobs that may wait

VARIABLES waiting,    \* the accepted jobs not begun yet, oldest first
          current,    \* the job being sent, or NoJob
          open        \* whether jobs are accepted and begun

vars == <<waiting, current, open>>

Init == waiting = <<>> /\ current = NoJob /\ open = FALSE

Accept(j) ==
  /\ open /\ Len(waiting) < Capacity
  /\ waiting' = Append(waiting, j)
  /\ UNCHANGED <<current, open>>

Begin ==
  /\ open /\ current = NoJob /\ waiting # <<>>
  /\ current' = Head(waiting)
  /\ waiting' = Tail(waiting)
  /\ UNCHANGED open

Settle == current # NoJob /\ current' = NoJob /\ UNCHANGED <<waiting, open>>

Open == ~open /\ waiting = <<>> /\ current = NoJob /\ open' = TRUE /\ UNCHANGED <<waiting, current>>

Close == open /\ open' = FALSE /\ UNCHANGED <<waiting, current>>

Drop == ~open /\ waiting' = <<>> /\ UNCHANGED <<current, open>>

\* the process ends with whatever it held
Gone == open' = FALSE /\ waiting' = <<>> /\ current' = NoJob

Next == (\E j \in Job : Accept(j)) \/ Begin \/ Settle \/ Open \/ Close \/ Drop \/ Gone

Spec == Init /\ [][Next]_vars
=============================================================================
