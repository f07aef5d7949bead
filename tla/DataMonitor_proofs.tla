------------------------ MODULE DataMonitor_proofs ------------------------
(***************************************************************************)
(* Type correctness and the safety of DataMonitor, for any cards, changes  *)
(* of oFono, requests and failures.  The liveness property Recovers is     *)
(* checked by TLC only; that the monitor never sleeps on data it owes, the *)
(* part of it that needs no fairness, is proved here.                      *)
(***************************************************************************)
EXTENDS DataMonitor, TLAPS

Messages == [kind : Kinds, slot : Slots \cup {None}]
Calls == [pc : Pcs, why : Whys, slot : Slots \cup {None}]

(* What the next call of a handler says about its purpose and its card.    *)
CallInv ==
  /\ call.pc \in {"slot", "mgr", "netPath", "net", "ctxPath", "ctx"} => call.why = "monitor"
  /\ call.pc \in {"setPath", "set"} => call.why \in {"monitor", "on", "off"}
  /\ call.pc \in {"apnPath", "apnRead", "apnOff", "apnOn"} => call.why \in {"apply", "clear"}
  /\ call.pc \in {"swOff", "swCard", "swVerify"} => call.why = "switch"
  /\ call.pc \in {"net", "ctx", "set", "apnRead", "apnOff", "apnOn", "swOff", "swCard", "swVerify"} => call.slot \in Slots

(* A monitor that does not run has nothing that could start a check.       *)
Quiet ==
  ~running => /\ ~asking /\ ~ctxSub /\ netSub = None /\ ~mgrSub /\ ~timerId
              /\ call.why # "monitor"
              /\ \A i \in DOMAIN queue : queue[i].kind = "dropped"

OffInv == wish = "off" => ~running

(* The card the last DataCard signal in the queue names is the one in use. *)
NoCard(q) == \A i \in DOMAIN q : q[i].kind # "card"
LastIs(q, s) == \A i \in DOMAIN q :
  q[i].kind = "card" /\ (\A k \in DOMAIN q : k > i => q[k].kind # "card") => q[i].slot = s
CardInv ==
  /\ ~mgrSub => NoCard(queue)
  /\ LastIs(queue, card)
  /\ call.pc \in {"slot", "mgr"} => ~mgrSub
  /\ call.pc = "mgr" /\ ~missed => netSub = card

(* A queue that tells of oFono's end tells of its return after it, as long *)
(* as oFono is up; while the name is asked for, it tells of neither.       *)
NoBus(q) == \A i \in DOMAIN q : q[i].kind \notin {"appeared", "vanished"}
Returns(q) ==
  \A i \in DOMAIN q : q[i].kind = "vanished" => \E k \in DOMAIN q : k > i /\ q[k].kind = "appeared"
BusInv == (asking => NoBus(queue)) /\ (running /\ ~asking /\ up => Returns(queue))

(* A monitor beside oFono hears of it, or is about to.                     *)
Hears ==
  running /\ up /\ ~asking =>
    Pending({"appeared"}) \/ (ctxSub /\ (mgrSub \/ call.pc \in {"slot", "mgr"}))

(* What will bring data back: the timer, the first answer about the name,  *)
(* an event that starts a check or the timer, or a check that has not yet  *)
(* looked at the card, or looks at the right one.                          *)
Waking == {"lost", "registered", "card", "appeared"}
Checks ==
  \/ call.pc \in {"slot", "mgr"}
  \/ call.why = "monitor" /\ call.pc \in {"netPath", "ctxPath", "setPath"}
  \/ call.why = "monitor" /\ call.pc \in {"net", "ctx", "set"} /\ call.slot = card
Hope == timerId \/ asking \/ Pending(Waking) \/ Checks
Watched == Owed => Hope

----------------------------------------------------------------------------
(* Sequences of events.                                                    *)

LEMMA AppendFacts ==
  ASSUME NEW q \in Seq(Messages), NEW m \in Messages
  PROVE  /\ Append(q, m) \in Seq(Messages)
         /\ DOMAIN q = 1 .. Len(q) /\ Len(q) \in Nat
         /\ DOMAIN Append(q, m) = 1 .. Len(q) + 1
         /\ \A i \in DOMAIN q : i \in DOMAIN Append(q, m) /\ Append(q, m)[i] = q[i]
         /\ Append(q, m)[Len(q) + 1] = m
         /\ \A i \in DOMAIN Append(q, m) : i \in DOMAIN q \/ i = Len(q) + 1
OBVIOUS

LEMMA TailFacts ==
  ASSUME NEW q \in Seq(Messages), q # <<>>
  PROVE  /\ Tail(q) \in Seq(Messages) /\ Head(q) = q[1] /\ Head(q) \in Messages
         /\ DOMAIN q = 1 .. Len(q) /\ Len(q) \in Nat /\ 1 \in DOMAIN q
         /\ \A i \in DOMAIN Tail(q) : i \in Nat /\ i + 1 \in DOMAIN q /\ Tail(q)[i] = q[i + 1]
         /\ \A i \in DOMAIN q : i = 1 \/ (i - 1 \in DOMAIN Tail(q) /\ q[i] = Tail(q)[i - 1])
OBVIOUS

LEMMA DroppedFacts ==
  ASSUME NEW q \in Seq(Messages), NEW kinds
  PROVE  /\ Dropped(q, kinds) \in Seq(Messages) /\ DOMAIN Dropped(q, kinds) = DOMAIN q
         /\ \A i \in DOMAIN q : Dropped(q, kinds)[i] = IF q[i].kind \in kinds THEN Msg("dropped") ELSE q[i]
<1>1. Msg("dropped") \in Messages
  BY DEF Msg, Messages, Kinds
<1>2. DOMAIN q = 1 .. Len(q) /\ Len(q) \in Nat /\ \A i \in 1 .. Len(q) : q[i] \in Messages
  OBVIOUS
<1>3. DOMAIN Dropped(q, kinds) = 1 .. Len(q)
  BY <1>2 DEF Dropped
<1>4. \A i \in 1 .. Len(q) : Dropped(q, kinds)[i] \in Messages
  BY <1>1, <1>2 DEF Dropped
<1>5. Dropped(q, kinds) = [i \in 1 .. Len(q) |-> Dropped(q, kinds)[i]]
  BY <1>2 DEF Dropped
<1>6. Dropped(q, kinds) \in Seq(Messages)
  BY <1>2, <1>4, <1>5
<1>7. QED
  BY <1>2, <1>3, <1>6 DEF Dropped

LEMMA MsgFacts ==
  /\ \A k \in Kinds : Msg(k) \in Messages /\ Msg(k).kind = k
  /\ \A s \in Slots : CardMsg(s) \in Messages /\ CardMsg(s).kind = "card" /\ CardMsg(s).slot = s
BY DEF Msg, CardMsg, Messages, Kinds

(* The events in the queue are messages, and a card event names a card.    *)
Queues == {q \in Seq(Messages) : \A i \in DOMAIN q : q[i].kind = "card" => q[i].slot \in Slots}

LEMMA EmitTyped ==
  ASSUME queue \in Queues, NEW matched, NEW m \in Messages, m.kind = "card" => m.slot \in Slots, Emit(matched, m)
  PROVE  queue' \in Queues /\ (queue' = queue \/ (matched /\ queue' = Append(queue, m)))
<1>1. CASE matched
  <2>1. queue' = Append(queue, m) /\ queue \in Seq(Messages)
    BY <1>1 DEF Emit, Queues
  <2>2. \A i \in DOMAIN queue' : queue'[i].kind = "card" => queue'[i].slot \in Slots
    BY <2>1, AppendFacts DEF Queues
  <2>3. QED
    BY <1>1, <2>1, <2>2, AppendFacts DEF Queues
<1>2. CASE ~matched
  BY <1>2 DEF Emit
<1>3. QED
  BY <1>1, <1>2

LEMMA TailTyped ==
  ASSUME queue \in Queues, queue # <<>>, NEW kinds
  PROVE  Tail(queue) \in Queues /\ Dropped(Tail(queue), kinds) \in Queues
<1>1. Tail(queue) \in Seq(Messages) /\ \A i \in DOMAIN Tail(queue) : i + 1 \in DOMAIN queue /\ Tail(queue)[i] = queue[i + 1]
  BY TailFacts DEF Queues
<1>2. \A i \in DOMAIN Tail(queue) : Tail(queue)[i].kind = "card" => Tail(queue)[i].slot \in Slots
  BY <1>1 DEF Queues
<1>3. Msg("dropped").kind # "card"
  BY MsgFacts DEF Kinds
<1>4. Dropped(Tail(queue), kinds) \in Seq(Messages) /\ DOMAIN Dropped(Tail(queue), kinds) = DOMAIN Tail(queue)
      /\ \A i \in DOMAIN Tail(queue) : Dropped(Tail(queue), kinds)[i] = IF Tail(queue)[i].kind \in kinds THEN Msg("dropped") ELSE Tail(queue)[i]
  BY <1>1, DroppedFacts
<1>5. \A i \in DOMAIN Tail(queue) :
        Dropped(Tail(queue), kinds)[i].kind = "card" => Dropped(Tail(queue), kinds)[i].slot \in Slots
  BY <1>2, <1>3, <1>4
<1>6. QED
  BY <1>1, <1>2, <1>4, <1>5 DEF Queues

LEMMA DroppedTyped ==
  ASSUME queue \in Queues, NEW kinds
  PROVE  Dropped(queue, kinds) \in Queues
<1>1. queue \in Seq(Messages)
  BY DEF Queues
<1>3. Msg("dropped").kind # "card"
  BY MsgFacts DEF Kinds
<1>4. Dropped(queue, kinds) \in Seq(Messages) /\ DOMAIN Dropped(queue, kinds) = DOMAIN queue
      /\ \A i \in DOMAIN queue : Dropped(queue, kinds)[i] = IF queue[i].kind \in kinds THEN Msg("dropped") ELSE queue[i]
  BY <1>1, DroppedFacts
<1>5. \A i \in DOMAIN queue : Dropped(queue, kinds)[i].kind = "card" => Dropped(queue, kinds)[i].slot \in Slots
  BY <1>3, <1>4 DEF Queues
<1>6. QED
  BY <1>4, <1>5 DEF Queues

----------------------------------------------------------------------------
(* The queue of a step of each action is a queue.                          *)

LEMMA QueueStep ==
  ASSUME TypeOK, CallInv, [Next]_vars
  PROVE  queue' \in Queues
<1>0. queue \in Queues /\ \A k \in Kinds : Msg(k) \in Messages /\ Msg(k).kind = k
  BY MsgFacts DEF TypeOK, Queues, Messages
<1>1. ASSUME \E matched, m : m \in Messages /\ (m.kind = "card" => m.slot \in Slots) /\ Emit(matched, m) PROVE queue' \in Queues
  BY <1>0, <1>1, EmitTyped
<1>2. ASSUME NEW was, EmitLost(was) PROVE queue' \in Queues
  BY <1>0, <1>1, <1>2 DEF EmitLost, Kinds
<1>3. ASSUME NEW s, NEW on, NEW ok, Set(s, on, ok) PROVE queue' \in Queues
  BY <1>0, <1>2, <1>3 DEF Set
<1>4. CASE UNCHANGED queue
  BY <1>0, <1>4
<1>5. ASSUME NEW s \in Slots, Drop(s) \/ Register(s) \/ Deregister(s) \/ SwitchCard(s) PROVE queue' \in Queues
  BY <1>0, <1>1, <1>2, <1>5, MsgFacts DEF Drop, Register, Deregister, SwitchCard, Kinds
<1>6. CASE OfonoStops \/ OfonoStarts \/ NameReply
  BY <1>0, <1>1, <1>6 DEF OfonoStops, OfonoStarts, NameReply, Kinds
<1>7. CASE Events
  BY <1>0, <1>7, TailTyped DEF Events, OnDropped, OnLost, OnRegistered, OnCard, OnAppeared, OnVanished, Deliver
<1>8. CASE SetOn \/ SetOff \/ ApnOff \/ ApnOn
  BY <1>0, <1>3, <1>8, DroppedTyped DEF SetOn, SetOff, ApnOff, ApnOn, Stop, Silence
<1>9. CASE SwitchOff
  BY <1>0, <1>2, <1>9 DEF SwitchOff
<1>10. CASE SwitchSet
  <2>1. call.slot \in Slots
    BY <1>10 DEF SwitchSet, At, CallInv
  <2>2. QED
    BY <1>0, <1>1, <1>10, <2>1, MsgFacts DEF SwitchSet
<1>11. CASE SwitchVerify
  BY <1>0, <1>11, DroppedTyped DEF SwitchVerify, Silence
<1>12. CASE NetPath \/ Net \/ CtxPath \/ Ctx \/ SetPath \/ SubscribeNetwork \/ SubscribeManager \/ ApnPath \/ ApnRead
  BY <1>4, <1>12 DEF NetPath, Net, CtxPath, Ctx, SetPath, SubscribeNetwork, SubscribeManager, ApnPath, ApnRead, Reads
<1>13. CASE TimerFires \/ Requests
  BY <1>4, <1>13 DEF TimerFires, Requests, DataRequest, ApnRequest, SwitchRequest, Enter, Accepted
<1>14. CASE UNCHANGED vars
  BY <1>4, <1>14 DEF vars
<1>15. QED
  BY <1>5, <1>6, <1>7, <1>8, <1>9, <1>10, <1>11, <1>12, <1>13, <1>14 DEF Next, CallStep, Restore, Outside

LEMMA TypeInit == Init => TypeOK
<1> SUFFICES ASSUME Init PROVE TypeOK
  OBVIOUS
<1>1. <<>> \in Seq(Messages) /\ \A i \in DOMAIN <<>> : <<>>[i].kind # "card"
  OBVIOUS
<1>2. TypeOK
  <2>1. call \in [pc : Pcs, why : Whys, slot : Slots \cup {None}]
    BY DEF Init, Idle, Pcs, Whys
  <2>2. /\ queue \in Seq([kind : Kinds, slot : Slots \cup {None}])
        /\ \A i \in DOMAIN queue : queue[i].kind = "card" => queue[i].slot \in Slots
    <3>1. queue = <<>>
      BY DEF Init
    <3>2. QED
      BY <1>1, <3>1 DEF Messages
  <2>3. moves \in 0 .. MaxMoves /\ requests \in 0 .. MaxRequests /\ fails \in 0 .. MaxFail /\ sources \in Nat
    BY BoundsAssumption DEF Init
  <2>4. apn \subseteq Slots /\ asking \in BOOLEAN /\ gaveUp \in BOOLEAN /\ cached \in Slots
    BY SlotsAssumption DEF Init
  <2>5. QED
    BY <2>1, <2>2, <2>3, <2>4 DEF Init, TypeOK
<1>3. QED
  BY <1>2

(* What a call leaves typed: its record, the card cached, the budget.      *)
LEMMA CallTyped ==
  ASSUME TypeOK
  PROVE  /\ call \in Calls /\ Idle \in Calls
         /\ \A pc \in Pcs, s \in Slots : [call EXCEPT !.pc = pc, !.slot = s] \in Calls
         /\ \A pc \in Pcs : [call EXCEPT !.pc = pc] \in Calls
         /\ \A pc \in Pcs, why \in Whys, s \in Slots \cup {None} : [pc |-> pc, why |-> why, slot |-> s] \in Calls
         /\ \A s : (ModemPath(s) \/ ContextPath(s)) => cached' \in Slots /\ fails' \in 0 .. MaxFail
         /\ (Answered \/ Failed) => fails' \in 0 .. MaxFail
         /\ \A s, on, ok : Set(s, on, ok) => fails' \in 0 .. MaxFail
<1>1. call \in Calls /\ Idle \in Calls
  BY DEF TypeOK, Calls, Idle, Pcs, Whys
<1>2. (Answered \/ Failed \/ Failure) => fails' \in 0 .. MaxFail
  BY BoundsAssumption DEF TypeOK, Answered, Failed, Failure
<1>3. \A s : (ModemPath(s) \/ ContextPath(s)) => cached' \in Slots /\ fails' \in 0 .. MaxFail
  BY <1>2 DEF TypeOK, ModemPath, ContextPath
<1>4. \A s, on, ok : Set(s, on, ok) => fails' \in 0 .. MaxFail
  BY <1>2 DEF TypeOK, Set
<1>5. QED
  BY <1>1, <1>2, <1>3, <1>4 DEF Calls

LEMMA SetTyped ==
  ASSUME TypeOK, NEW s, NEW on \in BOOLEAN, NEW ok, Set(s, on, ok)
  PROVE  active' \in [Slots -> BOOLEAN]
BY DEF TypeOK, Set

LEMMA TypeStep == TypeOK /\ CallInv /\ OneTimer /\ [Next]_vars => TypeOK'
<1> SUFFICES ASSUME TypeOK, CallInv, OneTimer, [Next]_vars PROVE TypeOK'
  OBVIOUS
<1>0. /\ queue' \in Seq([kind : Kinds, slot : Slots \cup {None}])
      /\ \A i \in DOMAIN queue' : queue'[i].kind = "card" => queue'[i].slot \in Slots
  BY QueueStep DEF Queues, Messages
<1> USE DEF ofono, subs, timer, history
<1>1. CASE UNCHANGED vars
  BY <1>1 DEF vars, TypeOK
<1>2. ASSUME NEW s \in Slots, Drop(s) \/ Register(s) \/ Deregister(s) \/ SwitchCard(s) PROVE TypeOK'
  <2>1. Move /\ External /\ UNCHANGED <<up, apn>>
    BY <1>2 DEF Drop, Register, Deregister, SwitchCard
  <2>2. moves' \in 0 .. MaxMoves
    BY <2>1, BoundsAssumption DEF Move, TypeOK
  <2>3. reg' \in [Slots -> BOOLEAN] /\ active' \in [Slots -> BOOLEAN]
    BY <1>2 DEF Drop, Register, Deregister, SwitchCard, TypeOK
  <2>4. card' \in Slots /\ missed' \in BOOLEAN
    BY <1>2 DEF Drop, Register, Deregister, SwitchCard, TypeOK, At
  <2>5. QED
    BY <1>0, <2>1, <2>2, <2>3, <2>4 DEF TypeOK, External
<1>3. CASE OfonoStops \/ OfonoStarts \/ NameReply
  <2>1. moves' \in 0 .. MaxMoves /\ asking' \in BOOLEAN /\ up' \in BOOLEAN
    <3>1. CASE OfonoStops \/ OfonoStarts
      <4>1. Move /\ UNCHANGED asking /\ up' \in BOOLEAN
        BY <3>1 DEF OfonoStops, OfonoStarts, External
      <4>2. QED
        BY <4>1, BoundsAssumption DEF Move, TypeOK
    <3>2. CASE NameReply
      BY <3>2 DEF NameReply, TypeOK
    <3>3. QED
      BY <1>3, <3>1, <3>2
  <2>2. reg' \in [Slots -> BOOLEAN] /\ active' \in [Slots -> BOOLEAN]
    BY <1>3 DEF OfonoStops, OfonoStarts, NameReply, TypeOK
  <2>3. UNCHANGED <<card, apn, running, subs, timer, cached, call, history, requests, fails>>
    BY <1>3 DEF OfonoStops, OfonoStarts, NameReply, External
  <2>4. QED
    BY <1>0, <2>1, <2>2, <2>3 DEF TypeOK
<1>4. CASE NetPath \/ Net \/ CtxPath \/ Ctx \/ SetPath \/ ApnPath
  <2>1. call' \in Calls
    <3>1. CASE Net \/ Ctx
      BY <3>1, CallTyped DEF Net, Ctx, Go, Pcs
    <3>2. CASE NetPath \/ CtxPath \/ SetPath
      <4>1. PICK s \in Slots, pc \in {"net", "ctx", "set"} : call' = [call EXCEPT !.pc = pc, !.slot = s]
        BY <3>2 DEF NetPath, CtxPath, SetPath
      <4>2. pc \in Pcs
        BY DEF Pcs
      <4>3. QED
        BY <4>1, <4>2, CallTyped
    <3>3. CASE ApnPath
      <4>1. call' = Idle \/ \E s \in Slots : call' = [call EXCEPT !.pc = "apnRead", !.slot = s]
        BY <3>3 DEF ApnPath
      <4>2. "apnRead" \in Pcs
        BY DEF Pcs
      <4>3. QED
        BY <4>1, <4>2, CallTyped
    <3>4. QED
      BY <1>4, <3>1, <3>2, <3>3
  <2>2. cached' \in Slots /\ fails' \in 0 .. MaxFail
    BY <1>4, CallTyped DEF NetPath, Net, CtxPath, Ctx, SetPath, ApnPath, TypeOK
  <2>3. gaveUp' \in BOOLEAN /\ UNCHANGED missed
    BY <1>4 DEF NetPath, Net, CtxPath, Ctx, SetPath, ApnPath, TypeOK, Tried
  <2>4. Reads
    BY <1>4 DEF NetPath, Net, CtxPath, Ctx, SetPath, ApnPath
  <2>5. QED
    BY <1>0, <2>1, <2>2, <2>3, <2>4 DEF TypeOK, Reads, InCall, Calls
<1>5. CASE OnDropped \/ OnLost \/ OnRegistered \/ OnCard \/ OnAppeared \/ OnVanished \/ TimerFires
  <2>1. call' \in Calls /\ gaveUp' \in BOOLEAN /\ missed' \in BOOLEAN
    <3>1. \A pc \in {"netPath", "slot"} : [pc |-> pc, why |-> "monitor", slot |-> None] \in Calls
      BY DEF Calls, Pcs, Whys
    <3>2. CASE OnDropped \/ OnLost \/ OnVanished
      BY <3>2, CallTyped DEF OnDropped, OnLost, OnVanished, TypeOK
    <3>3. CASE OnAppeared
      BY <3>1, <3>3 DEF OnAppeared, TypeOK
    <3>4. CASE OnRegistered \/ OnCard \/ TimerFires
      BY <3>1, <3>4 DEF OnRegistered, OnCard, TimerFires, Check, TypeOK
    <3>5. QED
      BY <1>5, <3>2, <3>3, <3>4
  <2>2. timerId' \in BOOLEAN
    BY <1>5 DEF OnDropped, OnLost, OnRegistered, OnCard, OnAppeared, OnVanished, TimerFires, TypeOK
  <2>3. netSub' \in Slots \cup {None} /\ ctxSub' \in BOOLEAN /\ mgrSub' \in BOOLEAN
    <3>1. CASE OnCard
      <4>1. queue # <<>> /\ queue \in Seq(Messages) /\ Head(queue).kind = "card"
        BY <3>1 DEF OnCard, Deliver, TypeOK, Messages
      <4>2. Head(queue).slot \in Slots
        BY <4>1, TailFacts DEF TypeOK
      <4>3. QED
        BY <3>1, <4>2 DEF OnCard, TypeOK
    <3>2. CASE OnDropped \/ OnLost \/ OnRegistered \/ OnAppeared \/ OnVanished \/ TimerFires
      BY <3>2 DEF OnDropped, OnLost, OnRegistered, OnAppeared, OnVanished, TimerFires, Unsubscribe, TypeOK
    <3>3. QED
      BY <1>5, <3>1, <3>2
  <2>4. sources' \in Nat
    BY <1>5 DEF OnDropped, OnLost, OnRegistered, OnCard, OnAppeared, OnVanished, TimerFires, Cancelled, TypeOK, OneTimer
  <2>5. Delivered
    BY <1>5 DEF OnDropped, OnLost, OnRegistered, OnCard, OnAppeared, OnVanished, TimerFires
  <2>6. QED
    BY <1>0, <2>1, <2>2, <2>3, <2>4, <2>5 DEF TypeOK, Delivered, Calls
<1>6. CASE SubscribeNetwork \/ SubscribeManager
  <2>1. call' \in Calls
    BY <1>6, CallTyped DEF SubscribeNetwork, SubscribeManager, Go, Check, Pcs, Whys
  <2>2. fails' \in 0 .. MaxFail
    BY <1>6, CallTyped DEF SubscribeNetwork, SubscribeManager, TypeOK
  <2>3. QED
    BY <1>0, <1>6, <2>1, <2>2 DEF TypeOK, SubscribeNetwork, SubscribeManager, InCall, Calls, Check
<1>7. CASE Requests
  <2>1. call' \in Calls
    BY <1>7, CallTyped DEF Requests, DataRequest, ApnRequest, SwitchRequest, Enter, Pcs, Whys
  <2>2. requests' \in 0 .. MaxRequests /\ Accepted
    BY <1>7, BoundsAssumption DEF Requests, DataRequest, ApnRequest, SwitchRequest, Enter, Request, TypeOK
  <2>3. QED
    BY <1>0, <2>1, <2>2 DEF TypeOK, Accepted, Calls
<1>8. CASE SetOn
  <2>1. call' = Idle /\ call' \in Calls
    BY <1>8, CallTyped DEF SetOn, SetRefused
  <2>2. fails' \in 0 .. MaxFail /\ active' \in [Slots -> BOOLEAN]
    BY <1>8, CallTyped, SetTyped DEF SetOn
  <2>3. gaveUp' \in BOOLEAN /\ wish' \in {"on", "off"} /\ running' \in BOOLEAN /\ asking' \in BOOLEAN /\ UNCHANGED <<subs, timer, missed>>
    BY <1>8 DEF SetOn, SetRefused, Tried, Start, TypeOK
  <2>4. QED
    BY <1>0, <1>8, <2>1, <2>2, <2>3 DEF TypeOK, SetOn, InCall, Calls
<1>9. CASE SetOff
  <2>1. call' = Idle /\ call' \in Calls
    BY <1>9, CallTyped DEF SetOff, SetRefused
  <2>2. fails' \in 0 .. MaxFail /\ active' \in [Slots -> BOOLEAN]
    BY <1>9, CallTyped, SetTyped DEF SetOff, TypeOK
  <2>3. gaveUp' \in BOOLEAN /\ wish' \in {"on", "off"} /\ running' \in BOOLEAN /\ asking' \in BOOLEAN /\ UNCHANGED missed
    BY <1>9 DEF SetOff, SetRefused, Tried, Stop, TypeOK
  <2>4. ctxSub' \in BOOLEAN /\ netSub' \in Slots \cup {None} /\ mgrSub' \in BOOLEAN /\ timerId' \in BOOLEAN
    BY <1>9 DEF SetOff, SetRefused, Stop, Silence, Unsubscribe, TypeOK
  <2>5. sources' \in Nat
    <3>1. sources' = sources \/ sources' = Cancelled
      BY <1>9 DEF SetOff, SetRefused, Stop, Silence
    <3>2. QED
      BY <3>1 DEF Cancelled, TypeOK, OneTimer
  <2>6. QED
    BY <1>0, <1>9, <2>1, <2>2, <2>3, <2>4, <2>5 DEF TypeOK, SetOff, InCall, Calls
<1>10. CASE ApnRead \/ ApnOff \/ ApnOn
  <2>1. call' \in Calls /\ fails' \in 0 .. MaxFail
    BY <1>10, CallTyped DEF ApnRead, ApnOff, ApnOn, Go, Pcs
  <2>2. active' \in [Slots -> BOOLEAN]
    BY <1>10, SetTyped DEF ApnRead, ApnOff, ApnOn, TypeOK
  <2>3. call.slot \in Slots
    BY <1>10 DEF ApnRead, ApnOff, ApnOn, At, CallInv
  <2>4. apn' \subseteq Slots
    BY <1>10, <2>3 DEF ApnRead, ApnOff, ApnOn, Apn, TypeOK
  <2>5. UNCHANGED <<up, card, reg, running, asking, subs, timer, cached, history, moves, requests>>
    BY <1>10 DEF ApnRead, ApnOff, ApnOn, InCall
  <2>6. QED
    BY <1>0, <2>1, <2>2, <2>4, <2>5 DEF TypeOK, Calls, subs, timer, history
<1>11. CASE SwitchOff
  <2>1. call' \in Calls /\ fails' \in 0 .. MaxFail
    BY <1>11, CallTyped DEF SwitchOff, Go, Pcs
  <2>2. reg' \in [Slots -> BOOLEAN] /\ active' \in [Slots -> BOOLEAN]
    BY <1>11 DEF SwitchOff, TypeOK
  <2>3. QED
    BY <1>0, <1>11, <2>1, <2>2 DEF TypeOK, SwitchOff, InCall, Calls
<1>12. CASE SwitchSet
  <2>1. call' \in Calls /\ fails' \in 0 .. MaxFail
    BY <1>12, CallTyped DEF SwitchSet, Go, Pcs
  <2>2. card' \in Slots
    BY <1>12 DEF SwitchSet, TypeOK, CallInv, At
  <2>3. QED
    BY <1>0, <1>12, <2>1, <2>2 DEF TypeOK, SwitchSet, Calls
<1>13. CASE SwitchVerify
  <2>1. call' \in Calls /\ fails' \in 0 .. MaxFail
    BY <1>13, CallTyped DEF SwitchVerify
  <2>2. running' \in BOOLEAN /\ asking' \in BOOLEAN /\ gaveUp' \in BOOLEAN /\ timerId' \in BOOLEAN
    BY <1>13 DEF SwitchVerify, Silence, Start, TypeOK
  <2>3. ctxSub' \in BOOLEAN /\ netSub' \in Slots \cup {None} /\ mgrSub' \in BOOLEAN
    BY <1>13 DEF SwitchVerify, Silence, Unsubscribe, TypeOK
  <2>4. sources' \in Nat
    BY <1>13 DEF SwitchVerify, Silence, Cancelled, TypeOK, OneTimer
  <2>5. QED
    BY <1>0, <1>13, <2>1, <2>2, <2>3, <2>4 DEF TypeOK, SwitchVerify, InCall, Calls
<1>14. QED
  BY <1>1, <1>2, <1>3, <1>4, <1>5, <1>6, <1>7, <1>8, <1>9, <1>10, <1>11, <1>12, <1>13
  DEF Next, CallStep, Restore, Events, Outside

----------------------------------------------------------------------------
(* The parts of the inductive invariant.                                   *)

LEMMA CallStepInv == TypeOK /\ CallInv /\ [Next]_vars => CallInv'
<1> SUFFICES ASSUME TypeOK, CallInv, [Next]_vars PROVE CallInv'
  OBVIOUS
<1> USE DEF At
<1>0. call \in Calls
  BY DEF TypeOK, Calls
<1>1. CASE UNCHANGED call
  BY <1>1 DEF CallInv
<1>2. CASE call' = Idle
  BY <1>2 DEF CallInv, Idle
<1>3. CASE Check
  BY <1>3 DEF CallInv, Check
<1>4. CASE NetPath \/ Net \/ CtxPath \/ Ctx
  <2>1. CASE NetPath \/ CtxPath
    BY <1>0, <2>1 DEF NetPath, CtxPath, CallInv, Calls
  <2>2. CASE Net \/ Ctx
    BY <1>0, <1>2, <2>2 DEF Net, Ctx, CallInv, Calls, Go
  <2>3. QED
    BY <1>4, <2>1, <2>2
<1>5. CASE SetPath \/ ApnPath
  BY <1>0, <1>2, <1>5 DEF SetPath, ApnPath, CallInv, Calls
<1>6. CASE SubscribeNetwork \/ ApnRead \/ ApnOff \/ SwitchOff \/ SwitchSet
  BY <1>0, <1>2, <1>6 DEF SubscribeNetwork, ApnRead, ApnOff, SwitchOff, SwitchSet, CallInv, Calls, Go
<1>7. CASE SetOn \/ SetOff \/ ApnOn \/ SwitchVerify
  BY <1>2, <1>7 DEF SetOn, SetOff, SetRefused, ApnOn, SwitchVerify
<1>8. CASE SubscribeManager \/ OnRegistered \/ OnCard \/ TimerFires
  BY <1>3, <1>8 DEF SubscribeManager, OnRegistered, OnCard, TimerFires
<1>9. CASE OnAppeared
  BY <1>9 DEF OnAppeared, CallInv
<1>10. CASE OnDropped \/ OnLost \/ OnVanished \/ NameReply \/ Outside \/ UNCHANGED vars
  BY <1>1, <1>10 DEF OnDropped, OnLost, OnVanished, NameReply, Outside, Drop, Register, Deregister, SwitchCard,
                     OfonoStops, OfonoStarts, External, vars
<1>11. CASE Requests
  BY <1>11 DEF Requests, DataRequest, ApnRequest, SwitchRequest, Enter, CallInv
<1>12. QED
  BY <1>4, <1>5, <1>6, <1>7, <1>8, <1>9, <1>10, <1>11 DEF Next, CallStep, Restore, Events

LEMMA TimerStep == TypeOK /\ OneTimer /\ [Next]_vars => OneTimer'
<1> SUFFICES ASSUME TypeOK, OneTimer, [Next]_vars PROVE OneTimer'
  OBVIOUS
<1> USE DEF timer
<1>1. CASE UNCHANGED timer
  BY <1>1 DEF OneTimer
<1>2. CASE timerId' = FALSE /\ sources' = Cancelled
  BY <1>2 DEF OneTimer, Cancelled
<1>3. CASE OnLost
  BY <1>3 DEF OnLost, OneTimer, Cancelled
<1>4. CASE TimerFires
  BY <1>4 DEF TimerFires, OneTimer, TypeOK
<1>5. CASE SetOff \/ SwitchVerify
  BY <1>1, <1>2, <1>5 DEF SetOff, SetRefused, SwitchVerify, Stop, Silence
<1>6. CASE NetPath \/ Net \/ CtxPath \/ Ctx \/ SetPath \/ SetOn \/ ApnPath \/ ApnRead \/ ApnOff \/ ApnOn
  BY <1>1, <1>6 DEF NetPath, Net, CtxPath, Ctx, SetPath, SetOn, SetRefused, ApnPath, ApnRead, ApnOff, ApnOn, Reads
<1>7. CASE SubscribeNetwork \/ SubscribeManager \/ SwitchOff \/ SwitchSet
  BY <1>1, <1>7 DEF SubscribeNetwork, SubscribeManager, SwitchOff, SwitchSet
<1>8. CASE OnDropped \/ OnRegistered \/ OnCard \/ OnAppeared \/ OnVanished
  BY <1>1, <1>8 DEF OnDropped, OnRegistered, OnCard, OnAppeared, OnVanished
<1>9. CASE NameReply \/ Outside \/ Requests \/ UNCHANGED vars
  BY <1>1, <1>9 DEF NameReply, Outside, Drop, Register, Deregister, SwitchCard, OfonoStops, OfonoStarts, External,
                    Requests, DataRequest, ApnRequest, SwitchRequest, Enter, Accepted, vars
<1>10. QED
  BY <1>3, <1>4, <1>5, <1>6, <1>7, <1>8, <1>9 DEF Next, CallStep, Restore, Events

(* Nothing is queued for a monitor that does not run.                      *)
AllDropped(q) == \A i \in DOMAIN q : q[i].kind = "dropped"

LEMMA QuietEmit ==
  ASSUME TypeOK, Quiet, ~running
  PROVE  /\ \A was : EmitLost(was) => queue' = queue
         /\ \A s, on, ok : Set(s, on, ok) => queue' = queue
         /\ \A s \in Slots : \A m : Emit(netSub = s, m) => queue' = queue
         /\ \A m, b : Emit(mgrSub, m) \/ Emit(running /\ ~asking, m) \/ Emit(mgrSub /\ b, m) => queue' = queue
<1>1. ~ctxSub /\ netSub = None /\ ~mgrSub
  BY DEF Quiet
<1>2. \A was : EmitLost(was) => queue' = queue
  BY <1>1 DEF EmitLost, Emit
<1>3. \A s, on, ok : Set(s, on, ok) => queue' = queue
  BY <1>2 DEF Set
<1>4. \A s \in Slots : \A m : Emit(netSub = s, m) => queue' = queue
  BY <1>1, SlotsAssumption DEF Emit
<1>5. QED
  BY <1>1, <1>2, <1>3, <1>4 DEF Emit

LEMMA QuietStep == TypeOK /\ CallInv /\ OneTimer /\ Quiet /\ [Next]_vars => Quiet'
<1> SUFFICES ASSUME TypeOK, CallInv, OneTimer, Quiet, [Next]_vars, ~running' PROVE Quiet'
  BY DEF Quiet
<1> USE DEF subs, timer, At
<1>a. queue \in Seq(Messages) /\ \A i \in DOMAIN queue : queue[i].kind \in Kinds
  <2>1. queue \in Seq(Messages)
    BY DEF TypeOK, Messages
  <2>2. \A i \in DOMAIN queue : queue[i] \in Messages
    BY <2>1
  <2>3. QED
    BY <2>1, <2>2 DEF Messages
<1>b. Idle.why # "monitor"
  BY DEF Idle
<1>1. CASE running
  <2>1. SetOff /\ Stop /\ call' = Idle
    BY <1>1 DEF Next, CallStep, Restore, Events, Outside, Requests, NetPath, Net, CtxPath, Ctx, SetPath, SetOn, SetOff, SetRefused,
       SubscribeNetwork, SubscribeManager, ApnPath, ApnRead, ApnOff, ApnOn, SwitchOff, SwitchSet, SwitchVerify, Start, Reads,
       OnDropped, OnLost, OnRegistered, OnCard, OnAppeared, OnVanished, TimerFires, Delivered, NameReply,
       DataRequest, ApnRequest, SwitchRequest, Enter, Accepted,
       Drop, Register, Deregister, SwitchCard, OfonoStops, OfonoStarts, External, vars
  <2>2. AllDropped(Dropped(queue, Kinds))
    BY <1>a, DroppedFacts DEF AllDropped, Msg
  <2>3. QED
    BY <1>b, <2>1, <2>2 DEF Quiet, Stop, Silence, Unsubscribe, AllDropped
<1>2. CASE ~running
  <2>0. /\ ~asking /\ ~ctxSub /\ netSub = None /\ ~mgrSub /\ ~timerId /\ call.why # "monitor" /\ AllDropped(queue)
    BY <1>2 DEF Quiet, AllDropped
  <2>1. ASSUME UNCHANGED <<asking, subs, timer, queue>>, call'.why # "monitor" PROVE Quiet'
    BY <2>0, <2>1 DEF Quiet, AllDropped
  <2>2. CASE SetOn \/ ApnOff \/ ApnOn
    <3>1. queue' = queue
      BY <1>2, <2>2, QuietEmit DEF SetOn, ApnOff, ApnOn
    <3>2. call'.why # "monitor"
      BY <1>b, <2>0, <2>2 DEF SetOn, SetRefused, ApnOff, ApnOn, Go, TypeOK
    <3>3. UNCHANGED <<asking, subs, timer>>
      BY <1>2, <2>2 DEF SetOn, SetRefused, ApnOff, ApnOn, Start
    <3>4. QED
      BY <2>1, <3>1, <3>2, <3>3
  <2>3. CASE SetOff \/ SwitchVerify
    <3>1. queue' = queue /\ UNCHANGED <<asking, subs, timer>>
      BY <1>2, <2>3, QuietEmit DEF SetOff, SetRefused, SwitchVerify
    <3>2. QED
      BY <1>b, <2>1, <2>3, <3>1 DEF SetOff, SetRefused, SwitchVerify
  <2>4. CASE SetPath \/ ApnPath \/ ApnRead
    BY <1>b, <2>0, <2>1, <2>4 DEF SetPath, ApnPath, ApnRead, Reads, Go, TypeOK
  <2>5. CASE SwitchOff \/ SwitchSet
    <3>1. queue' = queue
      BY <1>2, <2>5, QuietEmit DEF SwitchOff, SwitchSet
    <3>2. QED
      BY <1>b, <2>0, <2>1, <2>5, <3>1 DEF SwitchOff, SwitchSet, Go, TypeOK
  <2>6. CASE NetPath \/ Net \/ CtxPath \/ Ctx \/ SubscribeNetwork \/ SubscribeManager
    BY <2>0, <2>6 DEF NetPath, Net, CtxPath, Ctx, SubscribeNetwork, SubscribeManager, CallInv
  <2>7. CASE Events
    <3>1. queue # <<>> /\ Head(queue).kind = "dropped"
      <4>1. queue # <<>>
        BY <2>7 DEF Events, OnDropped, OnLost, OnRegistered, OnCard, OnAppeared, OnVanished, Deliver
      <4>2. QED
        BY <1>a, <2>0, <4>1, TailFacts DEF AllDropped
    <3>2. OnDropped
      BY <2>7, <3>1 DEF Events, OnDropped, OnLost, OnRegistered, OnCard, OnAppeared, OnVanished, Deliver
    <3>3. AllDropped(Tail(queue))
      BY <1>a, <2>0, <3>1, TailFacts DEF AllDropped
    <3>4. QED
      BY <2>0, <3>2, <3>3 DEF Quiet, OnDropped, Delivered, AllDropped
  <2>8. CASE TimerFires \/ NameReply
    BY <2>0, <2>8 DEF TimerFires, NameReply, OneTimer, TypeOK
  <2>9. CASE Requests
    BY <2>1, <2>9 DEF Requests, DataRequest, ApnRequest, SwitchRequest, Enter, Accepted
  <2>10. CASE Outside
    <3>1. queue' = queue
      BY <1>2, <2>10, QuietEmit DEF Outside, Drop, Register, Deregister, SwitchCard, OfonoStops, OfonoStarts
    <3>2. External
      BY <2>10 DEF Outside, Drop, Register, Deregister, SwitchCard, OfonoStops, OfonoStarts
    <3>3. QED
      BY <2>0, <2>1, <3>1, <3>2 DEF External
  <2>11. CASE UNCHANGED vars
    BY <2>0, <2>1, <2>11 DEF vars
  <2>12. QED
    BY <2>2, <2>3, <2>4, <2>5, <2>6, <2>7, <2>8, <2>9, <2>10, <2>11 DEF Next, CallStep, Restore
<1>3. QED
  BY <1>1, <1>2

LEMMA OffStep == TypeOK /\ CallInv /\ Quiet /\ OffInv /\ [Next]_vars => OffInv'
<1> SUFFICES ASSUME TypeOK, CallInv, Quiet, OffInv, [Next]_vars PROVE OffInv'
  OBVIOUS
<1> USE DEF history, At
<1>1. CASE UNCHANGED <<running, wish>>
  BY <1>1 DEF OffInv
<1>2. CASE SetOn
  <2>1. CASE call.why = "monitor"
    BY <1>2, <2>1 DEF SetOn, SetRefused, OffInv, Quiet, TypeOK
  <2>2. CASE call.why = "on"
    BY <1>2, <2>2 DEF SetOn, SetRefused, OffInv
  <2>3. QED
    BY <1>2, <2>1, <2>2 DEF SetOn
<1>3. CASE SetOff
  BY <1>3 DEF SetOff, SetRefused, OffInv, Stop
<1>4. CASE SwitchVerify
  BY <1>4 DEF SwitchVerify, OffInv
<1>5. CASE NetPath \/ Net \/ CtxPath \/ Ctx \/ SetPath \/ ApnPath \/ ApnRead \/ ApnOff \/ ApnOn
  BY <1>1, <1>5 DEF NetPath, Net, CtxPath, Ctx, SetPath, ApnPath, ApnRead, ApnOff, ApnOn, Reads
<1>6. CASE SubscribeNetwork \/ SubscribeManager \/ SwitchOff \/ SwitchSet
  BY <1>1, <1>6 DEF SubscribeNetwork, SubscribeManager, SwitchOff, SwitchSet
<1>7. CASE Events \/ TimerFires
  BY <1>1, <1>7 DEF Events, OnDropped, OnLost, OnRegistered, OnCard, OnAppeared, OnVanished, TimerFires, Delivered
<1>8. CASE NameReply \/ Outside \/ Requests \/ UNCHANGED vars
  BY <1>1, <1>8 DEF NameReply, Outside, Drop, Register, Deregister, SwitchCard, OfonoStops, OfonoStarts, External,
                    Requests, DataRequest, ApnRequest, SwitchRequest, Enter, Accepted, vars
<1>9. QED
  BY <1>2, <1>3, <1>4, <1>5, <1>6, <1>7, <1>8 DEF Next, CallStep, Restore

(* Events added, delivered and dropped keep the last card event.           *)
LEMMA CardAppend ==
  ASSUME NEW q \in Seq(Messages), NEW m \in Messages, NEW s
  PROVE  /\ m.kind # "card" => (NoCard(q) => NoCard(Append(q, m))) /\ (LastIs(q, s) => LastIs(Append(q, m), s))
         /\ m.kind = "card" /\ m.slot = s => LastIs(Append(q, m), s)
<1>1. m.kind # "card" => (NoCard(q) => NoCard(Append(q, m)))
  BY AppendFacts DEF NoCard
<1>2. ASSUME m.kind # "card", LastIs(q, s) PROVE LastIs(Append(q, m), s)
  <2>1. SUFFICES ASSUME NEW i \in DOMAIN Append(q, m), Append(q, m)[i].kind = "card",
                        \A k \in DOMAIN Append(q, m) : k > i => Append(q, m)[k].kind # "card"
                 PROVE  Append(q, m)[i].slot = s
    BY DEF LastIs
  <2>2. i \in DOMAIN q /\ Append(q, m)[i] = q[i]
    BY <1>2, <2>1, AppendFacts
  <2>3. \A k \in DOMAIN q : k > i => q[k].kind # "card"
    BY <2>1, AppendFacts
  <2>4. QED
    BY <1>2, <2>1, <2>2, <2>3 DEF LastIs
<1>3. ASSUME m.kind = "card", m.slot = s PROVE LastIs(Append(q, m), s)
  BY <1>3, AppendFacts DEF LastIs
<1>4. QED
  BY <1>1, <1>2, <1>3

LEMMA CardTail ==
  ASSUME NEW q \in Seq(Messages), q # <<>>, NEW s
  PROVE  /\ NoCard(q) => NoCard(Tail(q))
         /\ LastIs(q, s) => LastIs(Tail(q), s)
         /\ LastIs(q, s) /\ Head(q).kind = "card" /\ NoCard(Tail(q)) => Head(q).slot = s
         /\ \A kinds : (\A i \in DOMAIN Tail(q) : Tail(q)[i].kind \notin kinds) /\ Head(q).kind \notin kinds
                     => \A i \in DOMAIN q : q[i].kind \notin kinds
<1>1. NoCard(q) => NoCard(Tail(q))
  BY TailFacts DEF NoCard
<1>2. ASSUME LastIs(q, s) PROVE LastIs(Tail(q), s)
  <2>1. SUFFICES ASSUME NEW i \in DOMAIN Tail(q), Tail(q)[i].kind = "card",
                        \A k \in DOMAIN Tail(q) : k > i => Tail(q)[k].kind # "card"
                 PROVE  Tail(q)[i].slot = s
    BY DEF LastIs
  <2>2. i \in Nat /\ i + 1 \in DOMAIN q /\ Tail(q)[i] = q[i + 1]
    BY TailFacts
  <2>3. \A k \in DOMAIN q : k > i + 1 => q[k].kind # "card"
    <3>1. TAKE k \in DOMAIN q
    <3>2. HAVE k > i + 1
    <3>3. k \in Nat /\ k # 1
      BY <2>2, <3>2, TailFacts
    <3>4. k - 1 \in DOMAIN Tail(q) /\ q[k] = Tail(q)[k - 1]
      BY <3>3, TailFacts
    <3>5. QED
      BY <2>1, <2>2, <3>2, <3>3, <3>4
  <2>4. QED
    BY <1>2, <2>1, <2>2, <2>3 DEF LastIs
<1>3. ASSUME LastIs(q, s), Head(q).kind = "card", NoCard(Tail(q)) PROVE Head(q).slot = s
  <2>1. \A k \in DOMAIN q : k > 1 => q[k].kind # "card"
    <3>1. TAKE k \in DOMAIN q
    <3>2. HAVE k > 1
    <3>3. k - 1 \in DOMAIN Tail(q) /\ q[k] = Tail(q)[k - 1]
      BY <3>2, TailFacts
    <3>4. QED
      BY <1>3, <3>3 DEF NoCard
  <2>2. QED
    BY <1>3, <2>1, TailFacts DEF LastIs
<1>4. ASSUME NEW kinds, \A i \in DOMAIN Tail(q) : Tail(q)[i].kind \notin kinds, Head(q).kind \notin kinds
      PROVE \A i \in DOMAIN q : q[i].kind \notin kinds
  BY <1>4, TailFacts
<1>5. QED
  BY <1>1, <1>2, <1>3, <1>4

LEMMA CardDropped ==
  ASSUME NEW q \in Seq(Messages), NEW kinds, NEW s
  PROVE  /\ "card" \in kinds => NoCard(Dropped(q, kinds)) /\ LastIs(Dropped(q, kinds), s)
         /\ "card" \notin kinds => (NoCard(Dropped(q, kinds)) => NoCard(q)) /\ (NoCard(q) => NoCard(Dropped(q, kinds)))
                                 /\ (LastIs(q, s) => LastIs(Dropped(q, kinds), s))
<1>1. Msg("dropped").kind # "card"
  BY DEF Msg
<1>2. "card" \in kinds => NoCard(Dropped(q, kinds)) /\ LastIs(Dropped(q, kinds), s)
  BY <1>1, DroppedFacts DEF NoCard, LastIs
<1>3. ASSUME "card" \notin kinds, NEW i \in DOMAIN q
      PROVE  /\ Dropped(q, kinds)[i].kind = "card" => q[i].kind = "card"
             /\ q[i].kind = "card" => Dropped(q, kinds)[i] = q[i]
  BY <1>1, <1>3, DroppedFacts
<1>4. DOMAIN Dropped(q, kinds) = DOMAIN q
  BY DroppedFacts
<1>5. ASSUME "card" \notin kinds, NoCard(Dropped(q, kinds)) PROVE NoCard(q)
  <2>1. SUFFICES ASSUME NEW i \in DOMAIN q, q[i].kind = "card" PROVE FALSE
    BY DEF NoCard
  <2>2. Dropped(q, kinds)[i].kind = "card"
    BY <1>3, <1>5, <2>1
  <2>3. QED
    BY <1>4, <1>5, <2>2 DEF NoCard
<1>6. ASSUME "card" \notin kinds, NoCard(q) PROVE NoCard(Dropped(q, kinds))
  <2>1. SUFFICES ASSUME NEW i \in DOMAIN q, Dropped(q, kinds)[i].kind = "card" PROVE FALSE
    BY <1>4 DEF NoCard
  <2>2. q[i].kind = "card"
    BY <1>3, <1>6, <2>1
  <2>3. QED
    BY <1>6, <2>2 DEF NoCard
<1>7. ASSUME "card" \notin kinds, LastIs(q, s) PROVE LastIs(Dropped(q, kinds), s)
  <2>1. SUFFICES ASSUME NEW i \in DOMAIN q, Dropped(q, kinds)[i].kind = "card",
                        \A k \in DOMAIN q : k > i => Dropped(q, kinds)[k].kind # "card"
                 PROVE  Dropped(q, kinds)[i].slot = s
    BY <1>4 DEF LastIs
  <2>2. q[i].kind = "card" /\ Dropped(q, kinds)[i] = q[i]
    BY <1>3, <1>7, <2>1
  <2>3. \A k \in DOMAIN q : k > i => q[k].kind # "card"
    <3>1. TAKE k \in DOMAIN q
    <3>2. HAVE k > i
    <3>3. Dropped(q, kinds)[k].kind # "card"
      BY <2>1, <3>2
    <3>4. q[k].kind = "card" => Dropped(q, kinds)[k] = q[k]
      BY <1>3, <1>7
    <3>5. QED
      BY <3>3, <3>4
  <2>4. QED
    BY <1>7, <2>2, <2>3 DEF LastIs
<1>8. QED
  BY <1>2, <1>5, <1>6, <1>7

(* What a step that adds one event to the queue keeps.                     *)
LEMMA CardEmit ==
  ASSUME TypeOK, CardInv, FollowsCard, NEW matched, NEW k \in Kinds \ {"card"}, Emit(matched, Msg(k)),
         UNCHANGED <<card, mgrSub, netSub, missed>>, call'.pc \in {"slot", "mgr"} => UNCHANGED call
  PROVE  CardInv' /\ FollowsCard'
<1>1. queue \in Seq(Messages) /\ Msg(k) \in Messages /\ Msg(k).kind # "card"
  BY MsgFacts DEF TypeOK, Messages
<1>2. NoCard(queue) => NoCard(queue')
  BY <1>1, CardAppend DEF Emit
<1>3. LastIs(queue, card) => LastIs(queue', card)
  BY <1>1, CardAppend DEF Emit
<1>4. \A i \in DOMAIN queue : i \in DOMAIN queue' /\ queue'[i] = queue[i]
  BY <1>1, AppendFacts DEF Emit
<1>5. FollowsCard'
  BY <1>4 DEF FollowsCard, Pending
<1>6. QED
  BY <1>2, <1>3, <1>5 DEF CardInv

(* What a step that changes the card keeps.                                *)
LEMMA CardChange ==
  ASSUME TypeOK, CardInv, FollowsCard, card' \in Slots, Emit(mgrSub, CardMsg(card')),
         UNCHANGED <<mgrSub, netSub>>, call'.pc \in {"slot", "mgr"} => UNCHANGED call,
         call'.pc = "mgr" => missed'
  PROVE  CardInv' /\ FollowsCard'
<1>1. queue \in Seq(Messages) /\ CardMsg(card') \in Messages /\ CardMsg(card').kind = "card" /\ CardMsg(card').slot = card'
  BY MsgFacts DEF TypeOK, Messages
<1>2. CASE mgrSub
  <2>1. queue' = Append(queue, CardMsg(card'))
    BY <1>2 DEF Emit
  <2>2. LastIs(queue', card')
    BY <1>1, <2>1, CardAppend
  <2>3. Len(queue) + 1 \in DOMAIN queue' /\ queue'[Len(queue) + 1].kind = "card"
    BY <1>1, <2>1, AppendFacts
  <2>4. Pending({"card", "appeared", "vanished"})'
    BY <2>3 DEF Pending
  <2>5. QED
    BY <1>2, <2>2, <2>4 DEF CardInv, FollowsCard
<1>3. CASE ~mgrSub
  <2>1. queue' = queue /\ NoCard(queue)
    BY <1>3 DEF Emit, CardInv
  <2>2. LastIs(queue', card') /\ NoCard(queue')
    BY <2>1 DEF NoCard, LastIs
  <2>3. QED
    BY <1>3, <2>2 DEF CardInv, FollowsCard
<1>4. QED
  BY <1>2, <1>3

LEMMA CardStep ==
  ASSUME TypeOK, CallInv, Quiet, CardInv, FollowsCard, [Next]_vars
  PROVE  CardInv' /\ FollowsCard'
<1> USE DEF subs, history, At
<1>0. queue \in Seq(Messages) /\ call \in Calls
  BY DEF TypeOK, Messages, Calls
<1>1. ASSUME UNCHANGED <<queue, card, mgrSub, netSub, missed>>, call'.pc \in {"slot", "mgr"} => UNCHANGED call
      PROVE  CardInv' /\ FollowsCard'
  BY <1>1 DEF CardInv, FollowsCard, NoCard, LastIs, Pending
<1>2. ASSUME NEW was, EmitLost(was), UNCHANGED <<card, mgrSub, netSub, missed>>, call'.pc \in {"slot", "mgr"} => UNCHANGED call
      PROVE  CardInv' /\ FollowsCard'
  <2>1. Emit(ctxSub /\ was, Msg("lost")) /\ "lost" \in Kinds \ {"card"}
    BY <1>2 DEF EmitLost, Kinds
  <2>2. QED
    BY <1>2, <2>1, CardEmit
<1>3. ASSUME NEW s, NEW on, NEW ok, Set(s, on, ok), UNCHANGED <<card, mgrSub, netSub, missed>>, call'.pc \in {"slot", "mgr"} => UNCHANGED call
      PROVE  CardInv' /\ FollowsCard'
  BY <1>1, <1>2, <1>3 DEF Set
<1>4. ASSUME NEW s \in Slots, Drop(s) \/ Deregister(s) PROVE CardInv' /\ FollowsCard'
  BY <1>2, <1>4 DEF Drop, Deregister, External
<1>5. ASSUME NEW s \in Slots, Register(s) PROVE CardInv' /\ FollowsCard'
  BY <1>5, CardEmit DEF Register, External, Kinds
<1>6. ASSUME NEW s \in Slots, SwitchCard(s) PROVE CardInv' /\ FollowsCard'
  BY <1>6, CardChange DEF SwitchCard, External
<1>7. CASE OfonoStops \/ OfonoStarts
  BY <1>7, CardEmit DEF OfonoStops, OfonoStarts, External, Kinds
<1>8. CASE NameReply
  <2>1. (IF up THEN "appeared" ELSE "vanished") \in Kinds \ {"card"}
    BY DEF Kinds
  <2>2. QED
    BY <1>8, <2>1, CardEmit DEF NameReply, ofono
<1>9. CASE NetPath \/ Net \/ CtxPath \/ Ctx \/ SetPath \/ ApnPath
  <2>1. Reads /\ UNCHANGED missed
    BY <1>9 DEF NetPath, Net, CtxPath, Ctx, SetPath, ApnPath
  <2>2. call'.pc \notin {"slot", "mgr"}
    <3>1. CASE Net \/ Ctx
      BY <1>0, <3>1 DEF Net, Ctx, Go, Idle, Calls
    <3>2. CASE NetPath \/ CtxPath \/ SetPath
      BY <1>0, <3>2 DEF NetPath, CtxPath, SetPath, Calls
    <3>3. CASE ApnPath
      <4>1. call' = Idle \/ \E s \in Slots : call' = [call EXCEPT !.pc = "apnRead", !.slot = s]
        BY <3>3 DEF ApnPath
      <4>2. CASE call' = Idle
        BY <4>2 DEF Idle
      <4>3. ASSUME NEW s \in Slots, call' = [call EXCEPT !.pc = "apnRead", !.slot = s] PROVE call'.pc \notin {"slot", "mgr"}
        BY <1>0, <4>3 DEF Calls
      <4>4. QED
        BY <4>1, <4>2, <4>3
    <3>4. QED
      BY <1>9, <3>1, <3>2, <3>3
  <2>3. QED
    BY <1>1, <2>1, <2>2 DEF Reads, InCall
<1>10. CASE SetOn \/ ApnOff \/ ApnOn
  <2>1. call'.pc \notin {"slot", "mgr"}
    <3>1. call' = Idle \/ call' = [call EXCEPT !.pc = "apnOn"]
      BY <1>10 DEF SetOn, SetRefused, ApnOff, ApnOn, Go
    <3>2. QED
      BY <1>0, <3>1 DEF Idle, Calls
  <2>2. UNCHANGED <<card, mgrSub, netSub, missed>>
    BY <1>10 DEF SetOn, SetRefused, ApnOff, ApnOn, InCall
  <2>3. \E s, on, ok : Set(s, on, ok)
    BY <1>10 DEF SetOn, ApnOff, ApnOn
  <2>4. QED
    BY <1>3, <2>1, <2>2, <2>3
<1>11. ASSUME Silence, call'.pc \notin {"slot", "mgr"} PROVE CardInv' /\ FollowsCard'
  <2>1. NoCard(Dropped(queue, Kinds)) /\ LastIs(Dropped(queue, Kinds), card')
    BY <1>0, CardDropped DEF Kinds
  <2>2. NoCard(queue') /\ LastIs(queue', card') /\ ~mgrSub'
    BY <1>11, <2>1 DEF Silence, Unsubscribe
  <2>3. QED
    BY <1>11, <2>2 DEF CardInv, FollowsCard
<1>12. CASE SetOff
  <2>1. call'.pc \notin {"slot", "mgr"}
    <3>1. call' = Idle
      BY <1>12 DEF SetOff, SetRefused
    <3>2. QED
      BY <3>1 DEF Idle
  <2>2. CASE Stop
    BY <1>11, <2>1, <2>2 DEF Stop
  <2>3. CASE \E ok : Set(call.slot, FALSE, ok) /\ SetRefused(ok)
    BY <1>3, <1>12, <2>1, <2>3 DEF SetOff, SetRefused, InCall
  <2>4. CASE UNCHANGED <<running, asking, subs, timer, queue>> /\ UNCHANGED missed
    BY <1>1, <1>12, <2>1, <2>4 DEF SetOff, InCall
  <2>5. QED
    BY <1>12, <2>2, <2>3, <2>4 DEF SetOff
<1>13. CASE SwitchVerify
  <2>1. call'.pc \notin {"slot", "mgr"}
    BY <1>13 DEF SwitchVerify, Idle
  <2>2. QED
    BY <1>1, <1>11, <1>13, <2>1 DEF SwitchVerify, InCall
<1>14. CASE ApnRead
  BY <1>0, <1>1, <1>14 DEF ApnRead, InCall, Go, Idle, Calls
<1>15. CASE SwitchOff
  <2>1. call'.pc \notin {"slot", "mgr"}
    BY <1>0, <1>15 DEF SwitchOff, Go, Calls
  <2>2. QED
    BY <1>1, <1>2, <1>15, <2>1 DEF SwitchOff, InCall
<1>16. CASE SwitchSet
  <2>1. call'.pc \notin {"slot", "mgr"}
    BY <1>0, <1>16 DEF SwitchSet, Go, Idle, Calls
  <2>2. CASE UNCHANGED <<card, queue>>
    BY <1>1, <1>16, <2>1, <2>2 DEF SwitchSet
  <2>3. CASE card' = call.slot /\ card # call.slot /\ Emit(mgrSub /\ card # call.slot, CardMsg(call.slot))
    <3>1. Emit(mgrSub, CardMsg(card')) /\ card' \in Slots
      BY <1>16, <2>3 DEF Emit, SwitchSet, CallInv
    <3>2. QED
      BY <1>16, <2>1, <3>1, CardChange DEF SwitchSet
  <2>4. QED
    BY <1>16, <2>2, <2>3 DEF SwitchSet, Emit
<1>17. CASE SubscribeNetwork
  <2>1. UNCHANGED <<queue, card, mgrSub>> /\ ~mgrSub
    BY <1>17 DEF SubscribeNetwork, InCall, CardInv
  <2>2. ~missed' => netSub' = card
    BY <1>17 DEF SubscribeNetwork
  <2>3. QED
    BY <2>1, <2>2 DEF CardInv, FollowsCard, NoCard, LastIs
<1>18. CASE SubscribeManager
  <2>1. UNCHANGED <<queue, card, netSub, missed>> /\ ~mgrSub /\ mgrSub' /\ (~missed => netSub = card)
    BY <1>18 DEF SubscribeManager, InCall, CardInv
  <2>2. call'.pc \notin {"slot", "mgr"}
    BY <1>18 DEF SubscribeManager, Check
  <2>3. QED
    BY <2>1, <2>2 DEF CardInv, FollowsCard, LastIs
<1>19. CASE OnDropped \/ OnLost \/ OnRegistered
  <2>1. /\ queue # <<>> /\ queue' = Tail(queue) /\ Head(queue).kind \in {"dropped", "lost", "registered"}
        /\ UNCHANGED <<card, mgrSub, netSub, missed>> /\ call'.pc \notin {"slot", "mgr"}
    BY <1>19 DEF OnDropped, OnLost, OnRegistered, Deliver, Delivered, Check, ofono
  <2>2. (NoCard(queue) => NoCard(queue')) /\ (LastIs(queue, card) => LastIs(queue', card))
    BY <1>0, <2>1, CardTail
  <2>3. Pending({"card", "appeared", "vanished"}) => Pending({"card", "appeared", "vanished"})'
    BY <1>0, <2>1, CardTail DEF Pending
  <2>4. QED
    BY <2>1, <2>2, <2>3 DEF CardInv, FollowsCard
<1>20. CASE OnCard
  <2>1. /\ queue # <<>> /\ queue' = Dropped(Tail(queue), {"registered"}) /\ Head(queue).kind = "card"
        /\ netSub' = Head(queue).slot /\ UNCHANGED <<card, mgrSub>> /\ call'.pc \notin {"slot", "mgr"}
    BY <1>20 DEF OnCard, Deliver, Delivered, Check, ofono
  <2>2. /\ Tail(queue) \in Seq(Messages) /\ (NoCard(queue) => NoCard(Tail(queue))) /\ LastIs(Tail(queue), card)
        /\ (NoCard(Tail(queue)) => Head(queue).slot = card)
    BY <1>0, <2>1, CardTail, TailFacts DEF CardInv
  <2>3. (NoCard(queue') => NoCard(Tail(queue))) /\ (NoCard(Tail(queue)) => NoCard(queue')) /\ LastIs(queue', card)
    <3>1. "card" \notin {"registered"}
      OBVIOUS
    <3>2. QED
      BY <2>1, <2>2, <3>1, CardDropped
  <2>4. ~Pending({"card", "appeared", "vanished"})' => NoCard(queue')
    BY DEF Pending, NoCard
  <2>5. QED
    BY <2>1, <2>2, <2>3, <2>4 DEF CardInv, FollowsCard
<1>21. CASE OnAppeared \/ OnVanished
  <2>1. /\ queue # <<>> /\ queue' = Dropped(Tail(queue), SignalKinds) /\ ~mgrSub' /\ call'.pc # "mgr"
    BY <1>21 DEF OnAppeared, OnVanished, Unsubscribe, Deliver, Delivered
  <2>2. Tail(queue) \in Seq(Messages)
    BY <1>0, <2>1, TailFacts
  <2>3. NoCard(queue') /\ LastIs(queue', card')
    BY <2>1, <2>2, CardDropped DEF SignalKinds
  <2>4. QED
    BY <2>1, <2>3 DEF CardInv, FollowsCard
<1>22. CASE TimerFires \/ Requests
  <2>1. UNCHANGED <<queue, card, mgrSub, netSub, missed>>
    BY <1>22 DEF TimerFires, Delivered, Requests, DataRequest, ApnRequest, SwitchRequest, Enter, Accepted, ofono
  <2>2. call'.pc \notin {"slot", "mgr"}
    BY <1>22 DEF TimerFires, Check, Requests, DataRequest, ApnRequest, SwitchRequest, Enter
  <2>3. QED
    BY <1>1, <2>1, <2>2
<1>23. CASE UNCHANGED vars
  BY <1>1, <1>23 DEF vars, ofono
<1>24. QED
  BY <1>4, <1>5, <1>6, <1>7, <1>8, <1>9, <1>10, <1>12, <1>13, <1>14, <1>15, <1>16, <1>17, <1>18, <1>19, <1>20, <1>21, <1>22, <1>23
  DEF Next, CallStep, Restore, Events, Outside

----------------------------------------------------------------------------
(* What waits in the queue.                                                *)

LEMMA EmitPending ==
  ASSUME queue \in Seq(Messages), NEW matched, NEW m \in Messages, Emit(matched, m), NEW kinds
  PROVE  (Pending(kinds) => Pending(kinds)') /\ (matched /\ m.kind \in kinds => Pending(kinds)')
<1>1. CASE matched
  <2>1. queue' = Append(queue, m)
    BY <1>1 DEF Emit
  <2>2. /\ \A i \in DOMAIN queue : i \in DOMAIN queue' /\ queue'[i] = queue[i]
        /\ Len(queue) + 1 \in DOMAIN queue' /\ queue'[Len(queue) + 1] = m
    BY <2>1, AppendFacts
  <2>3. QED
    BY <2>2 DEF Pending
<1>2. CASE ~matched
  BY <1>2 DEF Emit, Pending
<1>3. QED
  BY <1>1, <1>2

LEMMA TailPending ==
  ASSUME queue \in Seq(Messages), queue # <<>>, NEW dropped, queue' = Tail(queue) \/ queue' = Dropped(Tail(queue), dropped),
         NEW kinds, Head(queue).kind \notin kinds, kinds \cap dropped = {}, Pending(kinds)
  PROVE  Pending(kinds)'
<1>1. PICK i \in DOMAIN queue : queue[i].kind \in kinds
  BY DEF Pending
<1>2. i # 1
  BY <1>1, TailFacts
<1>3. i - 1 \in DOMAIN Tail(queue) /\ Tail(queue)[i - 1] = queue[i] /\ Tail(queue) \in Seq(Messages)
  BY <1>2, TailFacts
<1>4. i - 1 \in DOMAIN queue' /\ queue'[i - 1] = queue[i]
  <2>1. CASE queue' = Tail(queue)
    BY <1>3, <2>1
  <2>2. CASE queue' = Dropped(Tail(queue), dropped)
    <3>1. queue[i].kind \notin dropped
      BY <1>1
    <3>2. DOMAIN Dropped(Tail(queue), dropped) = DOMAIN Tail(queue)
          /\ \A j \in DOMAIN Tail(queue) :
               Dropped(Tail(queue), dropped)[j] = IF Tail(queue)[j].kind \in dropped THEN Msg("dropped") ELSE Tail(queue)[j]
      BY <1>3, DroppedFacts
    <3>3. Dropped(Tail(queue), dropped)[i - 1] = Tail(queue)[i - 1]
      BY <1>3, <3>1, <3>2
    <3>4. QED
      BY <2>2, <1>3, <3>2, <3>3
  <2>3. QED
    BY <2>1, <2>2
<1>5. QED
  BY <1>1, <1>4 DEF Pending

(* oFono's end and return in a queue that grows, shrinks or loses signals. *)
LEMMA BusAppend ==
  ASSUME NEW q \in Seq(Messages), NEW m \in Messages
  PROVE  /\ m.kind \notin {"appeared", "vanished"} => (NoBus(q) => NoBus(Append(q, m))) /\ (Returns(q) => Returns(Append(q, m)))
         /\ m.kind = "appeared" => Returns(Append(q, m))
<1>1. m.kind \notin {"appeared", "vanished"} => (NoBus(q) => NoBus(Append(q, m)))
  BY AppendFacts DEF NoBus
<1>2. m.kind # "vanished" => (Returns(q) => Returns(Append(q, m)))
  BY AppendFacts DEF Returns
<1>3. ASSUME m.kind = "appeared" PROVE Returns(Append(q, m))
  <2>1. SUFFICES ASSUME NEW i \in DOMAIN Append(q, m), Append(q, m)[i].kind = "vanished"
                 PROVE  \E k \in DOMAIN Append(q, m) : k > i /\ Append(q, m)[k].kind = "appeared"
    BY DEF Returns
  <2>2. i \in 1 .. Len(q) /\ Len(q) \in Nat /\ Len(q) + 1 \in DOMAIN Append(q, m) /\ Append(q, m)[Len(q) + 1] = m
    BY <1>3, <2>1, AppendFacts
  <2>3. Len(q) + 1 > i
    BY <2>2
  <2>4. QED
    BY <1>3, <2>2, <2>3
<1>4. QED
  BY <1>1, <1>2, <1>3

LEMMA BusTail ==
  ASSUME NEW q \in Seq(Messages), q # <<>>
  PROVE  (NoBus(q) => NoBus(Tail(q))) /\ (Returns(q) => Returns(Tail(q)))
         /\ (Returns(q) /\ Head(q).kind = "vanished" => \E k \in DOMAIN Tail(q) : Tail(q)[k].kind = "appeared")
<1>1. NoBus(q) => NoBus(Tail(q))
  BY TailFacts DEF NoBus
<1>2. ASSUME Returns(q) PROVE Returns(Tail(q))
  <2>1. SUFFICES ASSUME NEW i \in DOMAIN Tail(q), Tail(q)[i].kind = "vanished"
                 PROVE  \E k \in DOMAIN Tail(q) : k > i /\ Tail(q)[k].kind = "appeared"
    BY DEF Returns
  <2>2. i \in Nat /\ i + 1 \in DOMAIN q /\ q[i + 1].kind = "vanished"
    BY <2>1, TailFacts
  <2>3. PICK k \in DOMAIN q : k > i + 1 /\ q[k].kind = "appeared"
    BY <1>2, <2>2 DEF Returns
  <2>4. k \in Nat /\ k # 1 /\ k - 1 > i
    BY <2>2, <2>3, TailFacts
  <2>5. k - 1 \in DOMAIN Tail(q) /\ Tail(q)[k - 1] = q[k]
    BY <2>4, TailFacts
  <2>6. QED
    BY <2>3, <2>4, <2>5
<1>3. ASSUME Returns(q), Head(q).kind = "vanished" PROVE \E k \in DOMAIN Tail(q) : Tail(q)[k].kind = "appeared"
  <2>1. 1 \in DOMAIN q /\ q[1].kind = "vanished"
    BY <1>3, TailFacts
  <2>2. PICK k \in DOMAIN q : k > 1 /\ q[k].kind = "appeared"
    BY <1>3, <2>1 DEF Returns
  <2>3. k # 1
    BY <2>2
  <2>4. k - 1 \in DOMAIN Tail(q) /\ Tail(q)[k - 1] = q[k]
    BY <2>3, TailFacts
  <2>5. QED
    BY <2>2, <2>4
<1>4. QED
  BY <1>1, <1>2, <1>3

LEMMA BusDropped ==
  ASSUME NEW q \in Seq(Messages), NEW kinds
  PROVE  /\ NoBus(q) => NoBus(Dropped(q, kinds))
         /\ "appeared" \in kinds /\ "vanished" \in kinds => NoBus(Dropped(q, kinds))
         /\ "appeared" \notin kinds /\ Returns(q) => Returns(Dropped(q, kinds))
<1>1. Msg("dropped").kind = "dropped"
  BY DEF Msg
<1>2. NoBus(q) => NoBus(Dropped(q, kinds))
  BY <1>1, DroppedFacts DEF NoBus
<1>3. "appeared" \in kinds /\ "vanished" \in kinds => NoBus(Dropped(q, kinds))
  BY <1>1, DroppedFacts DEF NoBus
<1>4. ASSUME "appeared" \notin kinds, Returns(q) PROVE Returns(Dropped(q, kinds))
  <2>1. DOMAIN Dropped(q, kinds) = DOMAIN q
        /\ \A i \in DOMAIN q : Dropped(q, kinds)[i] = IF q[i].kind \in kinds THEN Msg("dropped") ELSE q[i]
    BY DroppedFacts
  <2>2. SUFFICES ASSUME NEW i \in DOMAIN q, Dropped(q, kinds)[i].kind = "vanished"
                 PROVE  \E k \in DOMAIN q : k > i /\ Dropped(q, kinds)[k].kind = "appeared"
    BY <2>1 DEF Returns
  <2>3. q[i].kind = "vanished"
    BY <1>1, <2>1, <2>2
  <2>4. PICK k \in DOMAIN q : k > i /\ q[k].kind = "appeared"
    BY <1>4, <2>3 DEF Returns
  <2>5. Dropped(q, kinds)[k] = q[k]
    BY <1>4, <2>1, <2>4
  <2>6. QED
    BY <2>4, <2>5
<1>5. QED
  BY <1>2, <1>3, <1>4

(* A call, or a change outside, adds one signal to the queue at most.      *)
Emits == \E matched, m : m \in Messages /\ m.kind \in {"lost", "registered", "card"} /\ Emit(matched, m)

LEMMA CallEmits ==
  ASSUME TypeOK, CallInv
  PROVE  /\ UNCHANGED queue => Emits
         /\ \A was : EmitLost(was) => Emits
         /\ \A s, on, ok : Set(s, on, ok) => Emits
         /\ \A s \in Slots : Drop(s) \/ Register(s) \/ Deregister(s) \/ SwitchCard(s) => Emits
         /\ SwitchOff \/ SwitchSet => Emits
<1>0. /\ Msg("lost") \in Messages /\ Msg("lost").kind = "lost"
      /\ Msg("registered") \in Messages /\ Msg("registered").kind = "registered"
      /\ \A s \in Slots : CardMsg(s) \in Messages /\ CardMsg(s).kind = "card"
  BY MsgFacts DEF Kinds
<1>1. UNCHANGED queue => Emits
  <2>1. UNCHANGED queue => Emit(FALSE, Msg("lost"))
    BY DEF Emit
  <2>2. QED
    BY <1>0, <2>1 DEF Emits
<1>2. \A was : EmitLost(was) => Emits
  BY <1>0 DEF EmitLost, Emits
<1>3. \A s, on, ok : Set(s, on, ok) => Emits
  BY <1>1, <1>2 DEF Set
<1>4. \A s \in Slots : Drop(s) \/ Register(s) \/ Deregister(s) \/ SwitchCard(s) => Emits
  BY <1>0, <1>2 DEF Drop, Register, Deregister, SwitchCard, Emits
<1>5. SwitchOff => Emits
  BY <1>1, <1>2 DEF SwitchOff
<1>6. SwitchSet => Emits
  BY <1>0, <1>1 DEF SwitchSet, Emits, CallInv, At
<1>7. QED
  BY <1>1, <1>2, <1>3, <1>4, <1>5, <1>6

LEMMA BusStep ==
  ASSUME TypeOK, CallInv, Quiet, BusInv, [Next]_vars
  PROVE  BusInv'
<1> USE DEF ofono, At
<1>0. queue \in Seq(Messages)
  BY DEF TypeOK, Messages
<1>1. ASSUME Emits, UNCHANGED <<up, running, asking>> PROVE BusInv'
  <2>1. PICK matched, m : m \in Messages /\ m.kind \in {"lost", "registered", "card"} /\ Emit(matched, m)
    BY <1>1 DEF Emits
  <2>2. queue' = queue \/ queue' = Append(queue, m)
    BY <2>1 DEF Emit
  <2>3. (NoBus(queue) => NoBus(queue')) /\ (Returns(queue) => Returns(queue'))
    BY <1>0, <2>1, <2>2, BusAppend
  <2>4. QED
    BY <1>1, <2>3 DEF BusInv
<1>2. ASSUME UNCHANGED <<up, running, asking, queue>> PROVE BusInv'
  BY <1>2 DEF BusInv
<1>3. ASSUME Silence PROVE BusInv'
  <2>1. NoBus(queue')
    BY <1>0, <1>3, BusDropped DEF Silence, Kinds
  <2>2. Returns(queue')
    BY <2>1 DEF NoBus, Returns
  <2>3. QED
    BY <2>1, <2>2 DEF BusInv
<1>4. CASE Events
  <2>1. /\ queue # <<>> /\ UNCHANGED <<up, running, asking>>
        /\ queue' = Tail(queue) \/ \E kinds \in {{"registered"}, SignalKinds} : queue' = Dropped(Tail(queue), kinds)
    BY <1>4 DEF Events, OnDropped, OnLost, OnRegistered, OnCard, OnAppeared, OnVanished, Deliver, Delivered
  <2>2. Tail(queue) \in Seq(Messages) /\ (NoBus(queue) => NoBus(Tail(queue))) /\ (Returns(queue) => Returns(Tail(queue)))
    BY <1>0, <2>1, BusTail, TailFacts
  <2>3. \A kinds \in {{"registered"}, SignalKinds} : "appeared" \notin kinds
    BY DEF SignalKinds
  <2>4. (NoBus(queue) => NoBus(queue')) /\ (Returns(queue) => Returns(queue'))
    BY <2>1, <2>2, <2>3, BusDropped
  <2>5. QED
    BY <2>1, <2>4 DEF BusInv
<1>5. CASE OfonoStops
  <2>1. ~up' /\ UNCHANGED <<running, asking>> /\ (asking => queue' = queue)
    BY <1>5 DEF OfonoStops, External, Emit
  <2>2. QED
    BY <2>1 DEF BusInv
<1>6. CASE OfonoStarts
  <2>1. UNCHANGED <<running, asking>> /\ (IF running /\ ~asking THEN queue' = Append(queue, Msg("appeared")) ELSE queue' = queue)
    BY <1>6 DEF OfonoStarts, External, Emit
  <2>2. Returns(Append(queue, Msg("appeared")))
    BY <1>0, BusAppend, MsgFacts DEF Kinds
  <2>3. QED
    BY <2>1, <2>2 DEF BusInv
<1>7. CASE NameReply
  <2>1. ~asking' /\ UNCHANGED up /\ (up => queue' = Append(queue, Msg("appeared")))
    BY <1>7 DEF NameReply, Emit
  <2>2. Returns(Append(queue, Msg("appeared")))
    BY <1>0, BusAppend, MsgFacts DEF Kinds
  <2>3. QED
    BY <2>1, <2>2 DEF BusInv
<1>8. CASE SetOn
  <2>1. Emits /\ UNCHANGED up
    BY <1>8, CallEmits DEF SetOn, InCall
  <2>2. CASE UNCHANGED <<running, asking>>
    BY <1>1, <2>1, <2>2
  <2>3. CASE ~running /\ Start
    <3>1. queue' = queue
      BY <1>8, <2>3, QuietEmit DEF SetOn
    <3>2. NoBus(queue)
      BY <2>3 DEF Quiet, NoBus
    <3>3. QED
      BY <2>3, <3>1, <3>2 DEF BusInv, Start
  <2>4. QED
    BY <1>8, <2>2, <2>3 DEF SetOn, SetRefused
<1>9. CASE SetOff
  <2>1. CASE Stop
    BY <1>3, <2>1 DEF Stop
  <2>2. CASE UNCHANGED <<running, asking>> /\ ~Stop
    <3>1. Emits /\ UNCHANGED up
      BY <1>9, <2>2, CallEmits DEF SetOff, InCall
    <3>2. QED
      BY <1>1, <2>2, <3>1
  <2>3. QED
    BY <1>9, <2>1, <2>2 DEF SetOff, SetRefused
<1>10. CASE SwitchVerify
  BY <1>2, <1>3, <1>10 DEF SwitchVerify, InCall
<1>11. CASE ApnOff \/ ApnOn \/ SwitchOff \/ SwitchSet
  <2>1. Emits
    BY <1>11, CallEmits DEF ApnOff, ApnOn
  <2>2. QED
    BY <1>1, <1>11, <2>1 DEF ApnOff, ApnOn, SwitchOff, SwitchSet, InCall
<1>12. CASE NetPath \/ Net \/ CtxPath \/ Ctx \/ SetPath \/ ApnPath \/ ApnRead \/ SubscribeNetwork \/ SubscribeManager
  BY <1>2, <1>12 DEF NetPath, Net, CtxPath, Ctx, SetPath, ApnPath, ApnRead, SubscribeNetwork, SubscribeManager, Reads, InCall
<1>13. ASSUME NEW s \in Slots, Drop(s) \/ Register(s) \/ Deregister(s) \/ SwitchCard(s) PROVE BusInv'
  <2>1. Emits
    BY <1>13, CallEmits
  <2>2. QED
    BY <1>1, <1>13, <2>1 DEF Drop, Register, Deregister, SwitchCard, External
<1>14. CASE TimerFires \/ Requests \/ UNCHANGED vars
  BY <1>2, <1>14 DEF TimerFires, Delivered, Requests, DataRequest, ApnRequest, SwitchRequest, Enter, Accepted, vars
<1>15. QED
  BY <1>4, <1>5, <1>6, <1>7, <1>8, <1>9, <1>10, <1>11, <1>12, <1>13, <1>14 DEF Next, CallStep, Restore, Outside

LEMMA HearsStep ==
  ASSUME TypeOK, CallInv, Quiet, BusInv, Hears, [Next]_vars
  PROVE  Hears'
<1> USE DEF ofono, subs, At
<1>0. queue \in Seq(Messages) /\ call \in Calls
  BY DEF TypeOK, Messages, Calls
<1>1. ASSUME Emits, UNCHANGED <<up, running, asking, ctxSub>>, mgrSub' = mgrSub \/ mgrSub',
             call.pc \in {"slot", "mgr"} => mgrSub' \/ call'.pc \in {"slot", "mgr"}
      PROVE  Hears'
  <2>1. Pending({"appeared"}) => Pending({"appeared"})'
    <3>1. PICK matched, m : m \in Messages /\ Emit(matched, m)
      BY <1>1 DEF Emits
    <3>2. QED
      BY <1>0, <3>1, EmitPending
  <2>2. QED
    BY <1>1, <2>1 DEF Hears
<1>2. ASSUME ~running' \/ ~up' \/ asking' PROVE Hears'
  BY <1>2 DEF Hears
<1>3. ASSUME \E matched : Emit(matched, Msg("appeared")) /\ matched PROVE Hears'
  <2>1. Pending({"appeared"})'
    BY <1>0, <1>3, EmitPending, MsgFacts DEF Kinds
  <2>2. QED
    BY <2>1 DEF Hears
<1>4. CASE OnDropped \/ OnLost \/ OnRegistered \/ OnCard
  <2>1. /\ queue # <<>> /\ UNCHANGED <<up, running, asking, ctxSub, mgrSub>> /\ call.pc = "idle"
        /\ Head(queue).kind \in {"dropped", "lost", "registered", "card"}
        /\ queue' = Tail(queue) \/ queue' = Dropped(Tail(queue), {"registered"})
    BY <1>4 DEF OnDropped, OnLost, OnRegistered, OnCard, Deliver, Delivered
  <2>2. Pending({"appeared"}) => Pending({"appeared"})'
    <3>1. Head(queue).kind \notin {"appeared"} /\ {"appeared"} \cap {"registered"} = {}
      BY <2>1
    <3>2. QED
      BY <1>0, <2>1, <3>1, TailPending
  <2>3. QED
    BY <2>1, <2>2 DEF Hears
<1>5. CASE OnAppeared
  BY <1>5 DEF OnAppeared, Hears
<1>6. CASE OnVanished
  <2>1. /\ queue # <<>> /\ UNCHANGED <<up, running, asking>> /\ Head(queue).kind = "vanished"
        /\ queue' = Dropped(Tail(queue), SignalKinds)
    BY <1>6 DEF OnVanished, Deliver, Delivered
  <2>2. SUFFICES ASSUME up, running, ~asking PROVE Pending({"appeared"})'
    BY <2>1 DEF Hears
  <2>3. PICK k \in DOMAIN Tail(queue) : Tail(queue)[k].kind = "appeared"
    BY <1>0, <2>1, <2>2, BusTail DEF BusInv
  <2>4. k \in DOMAIN queue' /\ queue'[k].kind = "appeared"
    <3>1. Tail(queue) \in Seq(Messages) /\ "appeared" \notin SignalKinds
      BY <1>0, <2>1, TailFacts DEF SignalKinds
    <3>2. DOMAIN Dropped(Tail(queue), SignalKinds) = DOMAIN Tail(queue)
          /\ \A j \in DOMAIN Tail(queue) :
               Dropped(Tail(queue), SignalKinds)[j] = IF Tail(queue)[j].kind \in SignalKinds THEN Msg("dropped") ELSE Tail(queue)[j]
      BY <3>1, DroppedFacts
    <3>3. QED
      BY <2>1, <2>3, <3>1, <3>2
  <2>5. QED
    BY <2>4 DEF Pending
<1>7. CASE OfonoStops
  BY <1>2, <1>7 DEF OfonoStops
<1>8. CASE OfonoStarts
  <2>1. Emit(running /\ ~asking, Msg("appeared")) /\ UNCHANGED <<running, asking>>
    BY <1>8 DEF OfonoStarts, External
  <2>2. QED
    BY <1>2, <1>3, <2>1 DEF Hears
<1>9. CASE NameReply
  <2>1. CASE up
    BY <1>3, <1>9, <2>1 DEF NameReply
  <2>2. CASE ~up
    BY <1>2, <1>9, <2>2 DEF NameReply
  <2>3. QED
    BY <2>1, <2>2
<1>10. CASE SetOn
  <2>1. Emits /\ UNCHANGED <<up, ctxSub, mgrSub>> /\ call.pc = "set"
    BY <1>10, CallEmits DEF SetOn, SetRefused, InCall
  <2>2. QED
    BY <1>1, <1>2, <1>10, <2>1 DEF SetOn, SetRefused, Start
<1>11. CASE SetOff
  <2>1. CASE Stop
    BY <1>2, <2>1 DEF Stop
  <2>2. CASE ~Stop /\ running
    <3>1. UNCHANGED <<up, running, asking, ctxSub, mgrSub>> /\ Emits /\ call.pc = "set"
      BY <1>11, <2>2, CallEmits DEF SetOff, SetRefused, InCall
    <3>2. QED
      BY <1>1, <3>1
  <2>3. CASE ~running
    BY <1>2, <1>11, <2>3 DEF SetOff, SetRefused, Stop
  <2>4. QED
    BY <2>1, <2>2, <2>3
<1>12. CASE SwitchVerify
  <2>1. CASE Start
    BY <1>2, <2>1 DEF Start
  <2>2. CASE UNCHANGED <<running, asking, subs, timer, queue>>
    BY <1>1, <1>12, <2>2, CallEmits DEF SwitchVerify, InCall
  <2>3. QED
    BY <1>12, <2>1, <2>2 DEF SwitchVerify
<1>13. CASE ApnOff \/ ApnOn \/ SwitchOff \/ SwitchSet
  <2>1. Emits
    BY <1>13, CallEmits DEF ApnOff, ApnOn
  <2>2. QED
    BY <1>1, <1>13, <2>1 DEF ApnOff, ApnOn, SwitchOff, SwitchSet, InCall
<1>14. CASE NetPath \/ Net \/ CtxPath \/ Ctx \/ SetPath \/ ApnPath \/ ApnRead
  BY <1>1, <1>14, CallEmits DEF NetPath, Net, CtxPath, Ctx, SetPath, ApnPath, ApnRead, Reads, InCall
<1>15. CASE SubscribeNetwork \/ SubscribeManager
  <2>1. UNCHANGED <<up, running, asking, ctxSub, queue>> /\ (mgrSub' = mgrSub \/ mgrSub') /\ (mgrSub' \/ call'.pc = "mgr")
    BY <1>0, <1>15 DEF SubscribeNetwork, SubscribeManager, InCall, Go, Calls
  <2>2. QED
    BY <1>1, <2>1, CallEmits
<1>16. ASSUME NEW s \in Slots, Drop(s) \/ Register(s) \/ Deregister(s) \/ SwitchCard(s) PROVE Hears'
  <2>1. Emits
    BY <1>16, CallEmits
  <2>2. QED
    BY <1>1, <1>16, <2>1 DEF Drop, Register, Deregister, SwitchCard, External
<1>17. CASE TimerFires \/ Requests \/ UNCHANGED vars
  <2>1. /\ UNCHANGED <<up, running, asking, ctxSub, mgrSub, queue>>
        /\ call.pc = "idle" \/ UNCHANGED call
    BY <1>17 DEF TimerFires, Delivered, Requests, DataRequest, ApnRequest, SwitchRequest, Enter, Request, Accepted, vars
  <2>2. QED
    BY <1>1, <2>1, CallEmits
<1>18. QED
  BY <1>4, <1>5, <1>6, <1>7, <1>8, <1>9, <1>10, <1>11, <1>12, <1>13, <1>14, <1>15, <1>16, <1>17
  DEF Next, CallStep, Restore, Events, Outside

(* What Tried says of a check that did not give up.                        *)
LEMMA TriedKeeps ==
  ASSUME Tried
  PROVE  (~gaveUp' => ~gaveUp) /\ (call.why = "monitor" /\ ~gaveUp' => fails' = fails)
BY Zenon DEF Tried

(* SetProperty(Active, off): the signal of a connection that it ends.      *)
LEMMA SetOffEmits ==
  ASSUME TypeOK, NEW s, NEW ok, Set(s, FALSE, ok)
  PROVE  \E was : EmitLost(was) /\ (active[card] /\ ~active'[card] => was)
<1>1. \/ active' = [active EXCEPT ![s] = FALSE] /\ EmitLost(active[s] /\ ~FALSE)
      \/ UNCHANGED <<active, queue>>
  BY DEF Set
<1>2. CASE active' = [active EXCEPT ![s] = FALSE] /\ EmitLost(active[s] /\ ~FALSE)
  <2>1. active[card] /\ ~active'[card] => active[s] /\ ~FALSE
    BY <1>2 DEF TypeOK
  <2>2. QED
    BY <1>2, <2>1
<1>3. CASE UNCHANGED <<active, queue>>
  <2>1. EmitLost(FALSE)
    BY <1>3 DEF EmitLost, Emit
  <2>2. QED
    BY <1>3, <2>1
<1>4. QED
  BY <1>1, <1>2, <1>3

(* A call that fails although oFono runs ends the check for good; one that *)
(* answers reads the card of now.                                          *)
LEMMA TriedPath ==
  ASSUME TypeOK, call.why = "monitor", Tried, ~gaveUp', up
  PROVE  /\ ~Failed
         /\ \A s : ModemPath(s) \/ ContextPath(s) => s = card
<1>1. fails' = fails /\ fails \in Nat
  BY TriedKeeps, BoundsAssumption DEF TypeOK
<1>2. ~Failure
  BY <1>1 DEF Failure
<1>3. QED
  BY <1>2 DEF Failed, ModemPath, ContextPath

LEMMA WatchStep ==
  ASSUME TypeOK, CallInv, OffInv, FollowsCard, BusInv, Hears, Hears', Watched, [Next]_vars
  PROVE  Watched'
<1> USE DEF ofono, subs, timer, history, At
<1>0. queue \in Seq(Messages) /\ call \in Calls
  BY DEF TypeOK, Messages, Calls
<1>a. Pending({"appeared"}) => Pending(Waking)
  BY DEF Pending, Waking
<1>1. ASSUME Emits, UNCHANGED <<timerId, asking, card>>, Checks => Checks' \/ ~Owed', Owed' => Owed PROVE Watched'
  <2>1. PICK matched, m : m \in Messages /\ Emit(matched, m)
    BY <1>1 DEF Emits
  <2>2. Pending(Waking) => Pending(Waking)'
    BY <1>0, <2>1, EmitPending
  <2>3. QED
    BY <1>1, <2>2 DEF Watched, Hope
<1>2. ASSUME asking' \/ timerId' \/ ~Owed' \/ Checks' PROVE Watched'
  BY <1>2 DEF Watched, Hope
<1>3. ASSUME NEW m \in Messages, m.kind \in Waking, Emit(TRUE, m) PROVE Watched'
  BY <1>0, <1>3, EmitPending DEF Watched, Hope
<1>4. ASSUME NEW matched, NEW m \in Messages, Emit(matched, m), Pending({"appeared"}) PROVE Watched'
  BY <1>0, <1>4, <1>a, EmitPending DEF Watched, Hope
(* the card loses its connection: its signal is heard *)
<1>5. ASSUME NEW was, EmitLost(was), UNCHANGED <<up, running, timerId, asking, card>>, ~Checks \/ UNCHANGED call,
             Owed' /\ ~Owed => was
      PROVE  Watched'
  <2>0. Msg("lost") \in Messages /\ Msg("lost").kind \in Waking /\ Emit(ctxSub /\ was, Msg("lost"))
    BY <1>5, MsgFacts DEF Kinds, Waking, EmitLost
  <2>1. CASE Owed
    <3>1. Emits
      BY <1>5, CallEmits
    <3>2. QED
      BY <1>1, <1>5, <2>1, <3>1 DEF Checks
  <2>2. CASE ~Owed /\ Owed' /\ ~asking
    <3>1. was /\ running /\ up
      BY <1>5, <2>2 DEF Owed
    <3>2. Pending({"appeared"}) \/ ctxSub
      BY <2>2, <3>1 DEF Hears
    <3>3. CASE ctxSub
      BY <1>3, <2>0, <3>1, <3>3 DEF Emit
    <3>4. CASE Pending({"appeared"})
      BY <1>4, <2>0, <3>4
    <3>5. QED
      BY <3>2, <3>3, <3>4
  <2>3. QED
    BY <1>2, <1>5, <2>1, <2>2
(* the card changes: the change is heard *)
<1>6. ASSUME NEW s \in Slots, Emit(mgrSub, CardMsg(s)), UNCHANGED <<up, running, asking>>, call.pc \in {"slot", "mgr"} => UNCHANGED call
      PROVE  Watched'
  <2>0. CardMsg(s) \in Messages /\ CardMsg(s).kind \in Waking
    BY MsgFacts DEF Waking
  <2>1. SUFFICES ASSUME running, up, ~asking PROVE Watched'
    BY <1>2, <1>6 DEF Owed
  <2>2. Pending({"appeared"}) \/ mgrSub \/ call.pc \in {"slot", "mgr"}
    BY <2>1 DEF Hears
  <2>3. CASE mgrSub
    BY <1>3, <1>6, <2>0, <2>3 DEF Emit
  <2>4. CASE Pending({"appeared"})
    BY <1>4, <1>6, <2>0, <2>4
  <2>5. CASE call.pc \in {"slot", "mgr"}
    BY <1>2, <1>6, <2>5 DEF Checks
  <2>6. QED
    BY <2>2, <2>3, <2>4, <2>5
<1>7. ASSUME NEW s \in Slots, Register(s) PROVE Watched'
  <2>0. Msg("registered") \in Messages /\ Msg("registered").kind \in Waking /\ Emit(netSub = s, Msg("registered"))
    BY <1>7, MsgFacts DEF Kinds, Waking, Register
  <2>1. UNCHANGED <<up, running, asking, timerId, card, call, active, wish, gaveUp, missed>>
    BY <1>7 DEF Register, External
  <2>2. CASE Owed
    <3>1. Emits
      BY <1>7, CallEmits
    <3>2. QED
      BY <1>1, <2>1, <2>2, <3>1 DEF Checks
  <2>3. CASE ~Owed /\ Owed' /\ ~asking
    <3>1. s = card /\ running /\ up /\ ~missed
      BY <1>7, <2>1, <2>3 DEF Owed, Register, TypeOK
    <3>2. Pending({"vanished"}) => Pending({"appeared"})
      BY <2>3, <3>1 DEF BusInv, Returns, Pending
    <3>3. CASE Pending({"appeared"})
      BY <1>4, <2>0, <3>3
    <3>4. CASE call.pc \in {"slot", "mgr"}
      BY <1>2, <2>1, <3>4 DEF Checks
    <3>5. CASE Pending({"card"})
      <4>1. Pending(Waking)
        BY <3>5 DEF Pending, Waking
      <4>2. QED
        BY <1>0, <2>0, <4>1, EmitPending DEF Watched, Hope
    <3>6. CASE mgrSub /\ ~Pending({"card", "appeared", "vanished"})
      BY <1>3, <2>0, <3>1, <3>6 DEF FollowsCard, Emit
    <3>7. Pending({"card", "appeared", "vanished"}) => Pending({"card"}) \/ Pending({"appeared"}) \/ Pending({"vanished"})
      BY DEF Pending
    <3>8. QED
      BY <2>3, <3>1, <3>2, <3>3, <3>4, <3>5, <3>6, <3>7 DEF Hears
  <2>4. QED
    BY <1>2, <2>1, <2>2, <2>3
<1>8. ASSUME NEW s \in Slots, Drop(s) \/ Deregister(s) PROVE Watched'
  <2>1. EmitLost(active[s]) /\ UNCHANGED <<up, running, timerId, asking, card, call, wish, gaveUp, missed>>
    BY <1>8 DEF Drop, Deregister, External
  <2>2. Owed' /\ ~Owed => active[s]
    BY <1>8, <2>1 DEF Drop, Deregister, Owed, TypeOK
  <2>3. QED
    BY <1>5, <2>1, <2>2
<1>9. ASSUME NEW s \in Slots, SwitchCard(s) PROVE Watched'
  BY <1>6, <1>9 DEF SwitchCard, External
<1>10. CASE OfonoStops
  BY <1>2, <1>10 DEF OfonoStops, Owed
<1>11. CASE OfonoStarts \/ NameReply
  <2>0. Msg("appeared") \in Messages /\ Msg("appeared").kind \in Waking
    BY MsgFacts DEF Kinds, Waking
  <2>1. CASE OfonoStarts
    <3>1. UNCHANGED <<running, asking>> /\ Emit(running /\ ~asking, Msg("appeared"))
      BY <2>1 DEF OfonoStarts, External
    <3>2. CASE running /\ ~asking
      BY <1>3, <2>0, <3>1, <3>2 DEF Emit
    <3>3. CASE ~running \/ asking
      BY <1>2, <3>1, <3>3 DEF Owed
    <3>4. QED
      BY <3>2, <3>3
  <2>2. CASE NameReply
    <3>1. UNCHANGED up /\ Emit(TRUE, Msg(IF up THEN "appeared" ELSE "vanished"))
      BY <2>2 DEF NameReply
    <3>2. CASE up
      BY <1>3, <2>0, <3>1, <3>2
    <3>3. CASE ~up
      BY <1>2, <3>1, <3>3 DEF Owed
    <3>4. QED
      BY <3>2, <3>3
  <2>3. QED
    BY <1>11, <2>1, <2>2
(* the calls of a check *)
<1>12. CASE NetPath \/ CtxPath \/ (SetPath /\ call.why = "monitor")
  <2>1. SUFFICES ASSUME Owed' PROVE Checks'
    BY <1>2
  <2>2. call.why = "monitor" /\ Tried /\ UNCHANGED <<up, card>>
    BY <1>12 DEF NetPath, CtxPath, SetPath, CallInv, Reads, InCall
  <2>3. PICK s \in Slots, pc \in {"net", "ctx", "set"} :
          (ModemPath(s) \/ ContextPath(s)) /\ call' = [call EXCEPT !.pc = pc, !.slot = s]
    BY <1>12 DEF NetPath, CtxPath, SetPath
  <2>4. s = card
    BY <2>1, <2>2, <2>3, TriedPath DEF Owed
  <2>5. call'.pc \in {"net", "ctx", "set"} /\ call'.why = "monitor" /\ call'.slot = card'
    BY <1>0, <2>2, <2>3, <2>4 DEF Calls
  <2>6. QED
    BY <2>5 DEF Checks
<1>13. CASE SetPath /\ call.why # "monitor"
  <2>1. Reads /\ UNCHANGED <<gaveUp, missed>> /\ ~Checks
    BY <1>13 DEF SetPath, Tried, Checks, TypeOK
  <2>2. QED
    BY <1>1, <2>1, CallEmits DEF Reads, InCall, Owed
<1>14. CASE Net \/ Ctx
  <2>1. call.why = "monitor" /\ call.pc \in {"net", "ctx"} /\ Reads /\ UNCHANGED missed
    BY <1>14 DEF Net, Ctx, CallInv
  <2>2. CASE call' = [call EXCEPT !.pc = "ctxPath"] \/ call' = [call EXCEPT !.pc = "setPath"]
    <3>1. call'.why = "monitor" /\ call'.pc \in {"ctxPath", "setPath"}
      BY <1>0, <2>1, <2>2 DEF Calls
    <3>2. QED
      BY <1>2, <3>1 DEF Checks
  <2>3. CASE Failed /\ Tried
    BY <1>2, <2>1, <2>3, TriedPath DEF Owed, Reads, InCall
  <2>4. CASE call' = Idle /\ (~reg[call.slot] \/ active[call.slot]) /\ (~gaveUp' => ~gaveUp)
    <3>1. UNCHANGED <<up, running, asking, timerId, card, queue, reg, active, wish, missed>>
      BY <2>1 DEF Reads, InCall
    <3>2. Owed' => Owed
      BY <2>4, <3>1 DEF Owed
    <3>3. Checks => ~Owed'
      BY <2>1, <2>4, <3>1 DEF Checks, Owed
    <3>4. QED
      BY <1>1, <3>1, <3>2, <3>3, CallEmits
  <2>5. CASE gaveUp'
    BY <1>2, <2>5 DEF Owed
  <2>6. QED
    BY <1>14, <2>2, <2>3, <2>4, <2>5, TriedKeeps DEF Net, Ctx, Go
<1>15. CASE SetOn
  <2>1. UNCHANGED <<up, card, reg, subs, timer, missed>> /\ call.pc = "set" /\ call.why \in {"monitor", "on"}
    BY <1>15 DEF SetOn, SetRefused, InCall
  <2>2. PICK ok \in BOOLEAN :
          /\ Set(call.slot, TRUE, ok)
          /\ \/ SetRefused(ok)
             \/ ok /\ UNCHANGED gaveUp /\ (running => UNCHANGED <<running, asking>>) /\ (~running => asking')
    BY <1>15 DEF SetOn, Start
  <2>3. CASE asking'
    BY <1>2, <2>3
  <2>4. CASE ~asking' /\ Owed'
    <3>1. UNCHANGED <<running, asking>> /\ (~gaveUp' => ~gaveUp)
      BY <2>2, <2>4, TriedKeeps DEF SetRefused
    <3>2. running /\ wish = "on" /\ ~active[card]
      <4>1. running
        BY <2>4, <3>1 DEF Owed
      <4>2. active[card] => active'[card]
        BY <2>2 DEF Set, TypeOK
      <4>3. QED
        BY <2>1, <2>4, <4>1, <4>2 DEF Owed, OffInv, TypeOK
    <3>3. Owed
      BY <2>1, <2>4, <3>1, <3>2 DEF Owed
    <3>4. ~Checks
      <4>1. SUFFICES ASSUME call.why = "monitor", call.slot = card PROVE FALSE
        BY <2>1 DEF Checks
      <4>2. CASE ok
        BY <2>1, <2>2, <2>4, <4>1, <4>2 DEF Set, Owed, TypeOK
      <4>3. CASE ~ok
        <5>1. Tried
          BY <2>2, <4>3 DEF SetRefused
        <5>2. ~Failed
          BY <2>1, <2>4, <4>1, <5>1, TriedPath DEF Owed
        <5>3. QED
          BY <2>2, <3>3, <4>1, <4>3, <5>2 DEF Set, Failed, Owed
      <4>4. QED
        BY <4>2, <4>3
    <3>5. Emits
      BY <2>2, CallEmits
    <3>6. QED
      BY <1>1, <2>1, <3>1, <3>3, <3>4, <3>5
  <2>5. QED
    BY <1>2, <2>3, <2>4
(* the calls of requests: no check is under way *)
<1>16. CASE SetOff
  <2>1. ~Checks /\ UNCHANGED <<up, card, reg>>
    BY <1>16 DEF SetOff, Checks, InCall
  <2>2. CASE ~running'
    BY <1>2, <2>2 DEF Owed
  <2>3. CASE \E ok : Set(call.slot, FALSE, ok) /\ SetRefused(ok)
    <3>1. UNCHANGED <<running, asking, timer, wish, missed>> /\ (~gaveUp' => ~gaveUp)
      BY <2>3, TriedKeeps DEF SetRefused
    <3>2. PICK was : EmitLost(was) /\ (active[card] /\ ~active'[card] => was)
      BY <2>3, SetOffEmits
    <3>3. Owed' /\ ~Owed => was
      BY <2>1, <3>1, <3>2 DEF Owed
    <3>4. QED
      BY <1>5, <2>1, <3>1, <3>2, <3>3
  <2>4. QED
    BY <1>16, <2>2, <2>3 DEF SetOff, Stop
<1>17. CASE ApnOff
  <2>1. ~Checks /\ UNCHANGED <<up, card, reg, running, asking, timer, wish, gaveUp, missed>>
    BY <1>17 DEF ApnOff, Checks, InCall
  <2>2. PICK was : EmitLost(was) /\ (active[card] /\ ~active'[card] => was)
    BY <1>17, SetOffEmits DEF ApnOff
  <2>3. Owed' /\ ~Owed => was
    BY <2>1, <2>2 DEF Owed
  <2>4. QED
    BY <1>5, <2>1, <2>2, <2>3
<1>18. CASE ApnPath \/ ApnRead \/ ApnOn \/ SwitchOff
  <2>1. ~Checks
    BY <1>18 DEF ApnPath, ApnRead, ApnOn, SwitchOff, Checks
  <2>2. Emits
    BY <1>18, CallEmits DEF ApnPath, ApnRead, ApnOn, Reads
  <2>3. UNCHANGED <<up, card, running, asking, timer, wish, gaveUp, missed>>
    BY <1>18 DEF ApnPath, ApnRead, ApnOn, SwitchOff, Reads, InCall
  <2>4. reg'[card] /\ ~active'[card] => reg[card] /\ ~active[card]
    BY <1>18 DEF ApnPath, ApnRead, ApnOn, SwitchOff, Reads, InCall, Set, TypeOK
  <2>5. QED
    BY <1>1, <2>1, <2>2, <2>3, <2>4 DEF Owed
<1>19. CASE SwitchSet
  <2>1. ~Checks /\ UNCHANGED <<up, reg, active, running, asking, timer, wish, gaveUp, missed>> /\ call.pc \notin {"slot", "mgr"}
    BY <1>19 DEF SwitchSet, Checks
  <2>2. CASE UNCHANGED card
    <3>1. Emits
      BY <1>19, CallEmits
    <3>2. QED
      BY <1>1, <2>1, <2>2, <3>1 DEF Owed
  <2>3. CASE ~UNCHANGED card
    <3>1. call.slot \in Slots /\ Emit(mgrSub, CardMsg(call.slot))
      BY <1>19, <2>3 DEF SwitchSet, CallInv, Emit
    <3>2. QED
      BY <1>6, <2>1, <3>1
  <2>4. QED
    BY <2>2, <2>3
<1>20. CASE SwitchVerify
  <2>1. ~Checks /\ UNCHANGED <<up, card, reg, active, wish, missed>>
    BY <1>20 DEF SwitchVerify, Checks, InCall
  <2>2. CASE Start
    BY <1>2, <2>2 DEF Start
  <2>3. CASE UNCHANGED <<running, asking, subs, timer, queue, gaveUp>>
    BY <1>1, <2>1, <2>3, CallEmits DEF Owed
  <2>4. QED
    BY <1>20, <2>2, <2>3 DEF SwitchVerify
<1>21. CASE SubscribeNetwork \/ SubscribeManager \/ OnRegistered \/ OnCard \/ OnAppeared \/ TimerFires
  <2>1. call'.pc \in {"slot", "mgr"} \/ (call'.why = "monitor" /\ call'.pc = "netPath")
    BY <1>0, <1>21 DEF SubscribeNetwork, SubscribeManager, OnRegistered, OnCard, OnAppeared, TimerFires, Check, Go, Calls
  <2>2. QED
    BY <1>2, <2>1 DEF Checks
<1>22. CASE OnLost
  BY <1>2, <1>22 DEF OnLost
<1>23. CASE OnVanished
  <2>1. ~ctxSub'
    BY <1>23 DEF OnVanished, Unsubscribe
  <2>2. Owed' /\ ~asking' => Pending({"appeared"})'
    BY <2>1 DEF Hears, Owed
  <2>3. Pending({"appeared"})' => Pending(Waking)'
    BY DEF Pending, Waking
  <2>4. QED
    BY <2>2, <2>3 DEF Watched, Hope
<1>24. CASE OnDropped
  <2>1. queue # <<>> /\ queue' = Tail(queue) /\ Head(queue).kind = "dropped" /\ Delivered /\ UNCHANGED <<timer, call, gaveUp, missed>>
    BY <1>24 DEF OnDropped, Deliver
  <2>2. Pending(Waking) => Pending(Waking)'
    <3>1. Head(queue).kind \notin Waking /\ Waking \cap {} = {}
      BY <2>1 DEF Waking
    <3>2. QED
      BY <1>0, <2>1, <3>1, TailPending
  <2>3. QED
    BY <2>1, <2>2 DEF Watched, Hope, Checks, Owed, Delivered
<1>25. CASE Requests \/ UNCHANGED vars
  <2>1. UNCHANGED <<ofono, running, asking, timer, queue, history>> /\ (~Checks \/ UNCHANGED call)
    BY <1>25 DEF Requests, DataRequest, ApnRequest, SwitchRequest, Enter, Request, Accepted, Checks, vars
  <2>2. QED
    BY <1>1, <2>1, CallEmits DEF Owed, Checks
<1>26. QED
  BY <1>7, <1>8, <1>9, <1>10, <1>11, <1>12, <1>13, <1>14, <1>15, <1>16, <1>17, <1>18, <1>19, <1>20, <1>21, <1>22, <1>23, <1>24, <1>25
  DEF Next, CallStep, Restore, Events, Outside

----------------------------------------------------------------------------
(* The inductive invariant.                                                *)

IInv == /\ TypeOK /\ CallInv /\ OneTimer /\ Quiet /\ OffInv /\ CardInv /\ FollowsCard
        /\ BusInv /\ Hears /\ Watched

LEMMA IInvInit == Init => IInv
<1> SUFFICES ASSUME Init PROVE IInv
  OBVIOUS
<1>1. call = Idle /\ queue = <<>> /\ asking = running /\ ~ctxSub /\ netSub = None /\ ~mgrSub /\ timerId = FALSE /\ sources = 0 /\ wish = "on"
  BY DEF Init
<1>2. CallInv
  BY <1>1 DEF CallInv, Idle
<1>3. Quiet
  BY <1>1 DEF Quiet, Idle
<1>4. CardInv /\ FollowsCard
  BY <1>1 DEF CardInv, NoCard, LastIs, FollowsCard, Idle
<1>5. OneTimer /\ OffInv
  BY <1>1 DEF OneTimer, OffInv
<1>6. BusInv /\ Hears
  BY <1>1 DEF BusInv, Hears, NoBus, Returns
<1>7. Watched
  <2>1. running => asking
    BY <1>1
  <2>2. QED
    BY <2>1 DEF Watched, Owed, Hope
<1>8. QED
  BY <1>2, <1>3, <1>4, <1>5, <1>6, <1>7, TypeInit DEF IInv

LEMMA IInvStep == IInv /\ [Next]_vars => IInv'
BY TypeStep, CallStepInv, TimerStep, QuietStep, OffStep, CardStep, BusStep, HearsStep, WatchStep DEF IInv

(* The inductive invariant holds, which is what the theorems below use.    *)
THEOREM Invariance == Spec => []IInv
BY IInvInit, IInvStep, PTL DEF Spec

(* Every variable keeps its type.                                          *)
THEOREM TypeCorrect == Spec => []TypeOK
<1>1. IInv => TypeOK
  BY DEF IInv
<1>2. QED
  BY <1>1, Invariance, PTL

(* The id of the restore timer names the only one there is, and a monitor  *)
(* that owes data and has nothing else under way has it set.               *)
THEOREM RestoreTimerHolds == Spec => []RestoreTimer
<1>1. IInv => RestoreTimer
  <2>1. SUFFICES ASSUME IInv PROVE OneTimer /\ NothingForgotten
    BY DEF RestoreTimer
  <2>2. ASSUME At("idle"), queue = <<>> PROVE ~Checks /\ ~Pending(Waking)
    BY <2>2 DEF At, Checks, Pending
  <2>3. NothingForgotten
    BY <2>1, <2>2 DEF IInv, Watched, Hope, NothingForgotten
  <2>4. QED
    BY <2>1, <2>3 DEF IInv
<1>2. QED
  BY <1>1, Invariance, PTL

(* The monitor listens to the card that carries data.                      *)
THEOREM FollowsCardHolds == Spec => []FollowsCard
<1>1. IInv => FollowsCard
  BY DEF IInv
<1>2. QED
  BY <1>1, Invariance, PTL

(* Who sets Active: a call for the user or the monitor, or an APN request. *)
LEMMA ActiveStep ==
  ASSUME TypeOK, [Next]_vars, NEW s \in Slots, active'[s], ~active[s]
  PROVE  SetOn \/ ApnOn
<1> USE DEF ofono
<1>1. ASSUME NEW x, NEW ok, Set(x, FALSE, ok) PROVE active'[s] => active[s]
  BY <1>1 DEF Set, TypeOK
<1>2. ASSUME Outside \/ SwitchOff PROVE active'[s] => active[s]
  BY <1>2 DEF Outside, Drop, Register, Deregister, SwitchCard, OfonoStops, OfonoStarts, SwitchOff, TypeOK
<1>3. ASSUME SetOff \/ ApnOff PROVE active'[s] => active[s]
  BY <1>1, <1>3 DEF SetOff, ApnOff, TypeOK
<1>4. CASE NetPath \/ Net \/ CtxPath \/ Ctx \/ SetPath \/ ApnPath \/ ApnRead \/ SubscribeNetwork \/ SubscribeManager \/ SwitchSet \/ SwitchVerify
  BY <1>4 DEF NetPath, Net, CtxPath, Ctx, SetPath, ApnPath, ApnRead, SubscribeNetwork, SubscribeManager, SwitchSet, SwitchVerify, Reads
<1>5. CASE Events \/ TimerFires \/ NameReply \/ Requests \/ UNCHANGED vars
  BY <1>5 DEF Events, OnDropped, OnLost, OnRegistered, OnCard, OnAppeared, OnVanished, TimerFires, Delivered, NameReply,
              Requests, DataRequest, ApnRequest, SwitchRequest, Enter, Accepted, vars
<1>6. QED
  BY <1>2, <1>3, <1>4, <1>5 DEF Next, CallStep, Restore

(* Data the user switched off is not switched on by the monitor.           *)
THEOREM OffHolds == Spec => OffSticks
<1>1. IInv /\ [Next]_vars => [wish = "off" => \A s \in Slots : active'[s] => active[s] \/ call.why \in {"on", "apply", "clear"}]_vars
  <2>1. SUFFICES ASSUME IInv, [Next]_vars, wish = "off", NEW s \in Slots, active'[s], ~active[s]
                 PROVE  call.why \in {"on", "apply", "clear"}
    OBVIOUS
  <2>2. SetOn \/ ApnOn
    BY <2>1, ActiveStep DEF IInv
  <2>3. call.why # "monitor"
    BY <2>1 DEF IInv, OffInv, Quiet
  <2>4. QED
    BY <2>1, <2>2, <2>3 DEF IInv, CallInv, SetOn, ApnOn, At
<1>2. QED
  BY <1>1, Invariance, PTL DEF Spec, OffSticks
============================================================================
