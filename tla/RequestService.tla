--------------------------- MODULE RequestService ---------------------------
(***************************************************************************)
(* What the asynchronous request service promises the HTTP handlers,       *)
(* whatever list, heap addresses, threads and wakeups implement it: a      *)
(* request is refused at once or accepted, carried out at most once, one   *)
(* at a time and the newest first, and answered at most once, after it was *)
(* carried out and on its own connection while that is open.  A request    *)
(* that was accepted is given up only when its connection is gone, the     *)
(* link between the worker and the connections is, or the service closes.  *)
(***************************************************************************)
EXTENDS Naturals

CONSTANTS Conn,    \* the connections
          MaxReq   \* bound: requests received

VARIABLES open,    \* the connections that are open
          count,   \* requests received
          owed,    \* per connection, the requests it has no answer to
          waiting, \* requests not begun, each with its connection
          running, \* the one that is carried out: a set of at most one
          ready,   \* requests carried out whose answer is still to go out
          linked,  \* results reach the connections
          closing  \* no request is begun any more

vars == <<open, count, owed, waiting, running, ready, linked, closing>>

Init ==
  /\ open = Conn /\ count = 0 /\ owed = [c \in Conn |-> {}]
  /\ waiting = {} /\ running = {} /\ ready = {}
  /\ linked = TRUE /\ closing = FALSE

Of(c, S) == {q \in S : q[1] = c}

\* one request of a connection at a time
Accept(c) ==
  /\ ~closing /\ c \in open /\ count < MaxReq
  /\ Of(c, waiting \cup running \cup ready) = {}
  /\ count' = count + 1
  /\ owed' = [owed EXCEPT ![c] = @ \cup {count'}]
  /\ waiting' = waiting \cup {<<c, count'>>}
  /\ UNCHANGED <<open, running, ready, linked, closing>>

Refuse(c) ==
  /\ ~closing /\ c \in open /\ count < MaxReq
  /\ count' = count + 1
  /\ UNCHANGED <<open, owed, waiting, running, ready, linked, closing>>

Begin ==
  /\ ~closing /\ running = {}
  /\ \E q \in waiting :
       /\ \A p \in waiting : p[2] <= q[2]
       /\ waiting' = waiting \ {q} /\ running' = {q}
  /\ UNCHANGED <<open, count, owed, ready, linked, closing>>

Finish ==
  /\ linked /\ ~closing
  /\ \E q \in running : q[1] \in open /\ ready' = ready \cup {q}
  /\ running' = {}
  /\ UNCHANGED <<open, count, owed, waiting, linked, closing>>

GiveUp ==
  /\ \E q \in running : q[1] \notin open \/ ~linked \/ closing
  /\ running' = {}
  /\ UNCHANGED <<open, count, owed, waiting, ready, linked, closing>>

Answer ==
  /\ \E q \in ready :
       /\ q[1] \in open /\ q[2] \in owed[q[1]]
       /\ owed' = [owed EXCEPT ![q[1]] = @ \ {q[2]}]
       /\ ready' = ready \ {q}
  /\ UNCHANGED <<open, count, waiting, running, linked, closing>>

\* the request that is carried out goes on, its result is not kept
Disconnect(c) ==
  /\ c \in open /\ open' = open \ {c}
  /\ waiting' = waiting \ Of(c, waiting) /\ ready' = ready \ Of(c, ready)
  /\ UNCHANGED <<count, owed, running, linked, closing>>

LinkFails == linked /\ linked' = FALSE /\ UNCHANGED <<open, count, owed, waiting, running, ready, closing>>
Close == ~closing /\ closing' = TRUE /\ UNCHANGED <<open, count, owed, waiting, running, ready, linked>>
DropWaiting == closing /\ running = {} /\ waiting' = {} /\ UNCHANGED <<open, count, owed, running, ready, linked, closing>>
End ==
  /\ closing /\ running = {} /\ waiting = {}
  /\ open' = {} /\ ready' = {} /\ linked' = FALSE
  /\ UNCHANGED <<count, owed, waiting, running, closing>>

Next == \/ \E c \in Conn : Accept(c) \/ Refuse(c) \/ Disconnect(c)
        \/ Begin \/ Finish \/ GiveUp \/ Answer
        \/ LinkFails \/ Close \/ DropWaiting \/ End

Spec == Init /\ [][Next]_vars
=============================================================================
