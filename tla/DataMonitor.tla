---------------------------- MODULE DataMonitor ----------------------------
(***************************************************************************)
(* The data connection monitor of src/src/system/ofono.c beside oFono: its *)
(* D-Bus subscriptions, the two-second restore timer, the check that turns *)
(* data on again, and the requests that touch the same state (the data     *)
(* switch, the APN templates, the card switch of modem.c).  All of it runs *)
(* in the event loop, one handler at a time, but every D-Bus call waits    *)
(* for oFono while signals queue up: a handler is one action per call.     *)
(*                                                                         *)
(* GLib matches a signal with the subscriptions when it arrives and drops  *)
(* it when its subscription is gone at delivery: ending a subscription     *)
(* turns its signals in the queue into "dropped".  Signals whose handler   *)
(* only prints are not queued.  Abstracted: one internet context per card; the two     *)
(* seconds; network modes.  External: oFono, the cards, the bus.           *)
(***************************************************************************)
EXTENDS Naturals, Sequences

CONSTANTS Slots,       \* the cards: "/ril_0", "/ril_1"
          Default,     \* DEFAULT_MODEM_PATH, also the card of DEFAULT_CONTEXT_PATH
          None,
          MaxMoves,    \* bound: changes of oFono, of the cards or of the network
          MaxRequests, \* bound: requests of the web interface
          MaxFail      \* bound: D-Bus calls that fail although oFono runs

ASSUME SlotsAssumption == Default \in Slots /\ None \notin Slots
ASSUME BoundsAssumption == MaxMoves \in Nat /\ MaxRequests \in Nat /\ MaxFail \in Nat

VARIABLES
  up, card, reg, active, apn,  \* oFono: on the bus, DataCard, and per card Status, Active, APN set
  running,                     \* g_data_monitor_running
  asking,                      \* the name watch waits for its first answer
  ctxSub, netSub, mgrSub,      \* g_context_signal_id, the card of g_network_signal_id, g_manager_signal_id
  queue,                       \* events the loop has to deliver
  timerId, sources,            \* g_restore_timeout_id is set; restore timers that exist
  cached,                      \* g_modem_path
  call,                        \* the handler that runs: its next call, its purpose, its card
  wish,                        \* history: what the user asked for last, and got
  gaveUp,                      \* history: the last check ended for another reason than no network
  missed,                      \* history: the card changed between reading it and subscribing to the change
  moves, requests, fails       \* budgets used

ofono == <<up, card, reg, active, apn>>
subs == <<ctxSub, netSub, mgrSub>>
timer == <<timerId, sources>>
history == <<wish, gaveUp, missed>>
vars == <<ofono, running, asking, subs, queue, timer, cached, call, history, moves, requests, fails>>

Pcs == {"idle", "slot", "mgr", "netPath", "net", "ctxPath", "ctx", "setPath", "set",
        "apnPath", "apnRead", "apnOff", "apnOn", "swOff", "swCard", "swVerify"}
Whys == {"none", "monitor", "on", "off", "apply", "clear", "switch"}
Msg(k) == [kind |-> k, slot |-> None]
CardMsg(s) == [kind |-> "card", slot |-> s]
Kinds == {"dropped", "lost", "registered", "card", "appeared", "vanished"}
Idle == [pc |-> "idle", why |-> "none", slot |-> None]
At(pc) == call.pc = pc
Go(pc) == call' = [call EXCEPT !.pc = pc]

TypeOK ==
  /\ up \in BOOLEAN /\ card \in Slots /\ reg \in [Slots -> BOOLEAN] /\ active \in [Slots -> BOOLEAN]
  /\ apn \subseteq Slots
  /\ running \in BOOLEAN /\ asking \in BOOLEAN
  /\ ctxSub \in BOOLEAN /\ netSub \in Slots \cup {None} /\ mgrSub \in BOOLEAN
  /\ queue \in Seq([kind : Kinds, slot : Slots \cup {None}])
  /\ \A i \in DOMAIN queue : queue[i].kind = "card" => queue[i].slot \in Slots
  /\ timerId \in BOOLEAN /\ sources \in Nat
  /\ cached \in Slots
  /\ call \in [pc : Pcs, why : Whys, slot : Slots \cup {None}]
  /\ wish \in {"on", "off"} /\ gaveUp \in BOOLEAN /\ missed \in BOOLEAN
  /\ moves \in 0 .. MaxMoves /\ requests \in 0 .. MaxRequests /\ fails \in 0 .. MaxFail

\* main starts the monitor whatever the state of data is; without a bus it does not run
Init ==
  /\ up \in BOOLEAN /\ card \in Slots /\ apn \in SUBSET Slots
  /\ reg \in [Slots -> BOOLEAN] /\ active \in [Slots -> BOOLEAN]
  /\ \A s \in Slots : (reg[s] => up) /\ (active[s] => reg[s])
  /\ running \in BOOLEAN /\ asking = running /\ gaveUp = ~running
  /\ ctxSub = FALSE /\ netSub = None /\ mgrSub = FALSE /\ queue = <<>>
  /\ timerId = FALSE /\ sources = 0 /\ cached = Default /\ call = Idle
  /\ wish = "on" /\ missed = FALSE
  /\ moves = 0 /\ requests = 0 /\ fails = 0

---------------------------------------------------------------------------
(* Signals.                                                                *)

Emit(matched, m) == queue' = IF matched THEN Append(queue, m) ELSE queue
Dropped(q, kinds) == [i \in DOMAIN q |-> IF q[i].kind \in kinds THEN Msg("dropped") ELSE q[i]]

\* the context of a card went from active to inactive
EmitLost(was) == Emit(ctxSub /\ was, Msg("lost"))
SignalKinds == {"dropped", "lost", "registered", "card"}

\* unsubscribe_data_monitor_signals
Unsubscribe == ctxSub' = FALSE /\ netSub' = None /\ mgrSub' = FALSE

---------------------------------------------------------------------------
(* oFono, the cards and the network.                                       *)

Move == moves < MaxMoves /\ moves' = moves + 1
External == UNCHANGED <<running, asking, subs, timer, cached, call, wish, gaveUp, requests, fails>>

Drop(s) ==
  /\ Move /\ active[s] /\ active' = [active EXCEPT ![s] = FALSE]
  /\ EmitLost(TRUE)
  /\ External /\ UNCHANGED <<up, card, reg, apn, missed>>
Register(s) ==
  /\ Move /\ up /\ ~reg[s] /\ reg' = [reg EXCEPT ![s] = TRUE]
  /\ Emit(netSub = s, Msg("registered"))
  /\ External /\ UNCHANGED <<up, card, active, apn, missed>>
Deregister(s) ==
  /\ Move /\ reg[s] /\ reg' = [reg EXCEPT ![s] = FALSE] /\ active' = [active EXCEPT ![s] = FALSE]
  /\ EmitLost(active[s])
  /\ External /\ UNCHANGED <<up, card, apn, missed>>
\* another program, or the SIM toolkit, sets DataCard
SwitchCard(s) ==
  /\ Move /\ up /\ s # card /\ card' = s
  /\ Emit(mgrSub, CardMsg(s))
  /\ missed' = (missed \/ At("mgr"))
  /\ External /\ UNCHANGED <<up, reg, active, apn>>
OfonoStops ==
  /\ Move /\ up /\ up' = FALSE
  /\ reg' = [s \in Slots |-> FALSE] /\ active' = [s \in Slots |-> FALSE]
  /\ Emit(running /\ ~asking, Msg("vanished"))
  /\ External /\ UNCHANGED <<card, apn, missed>>
OfonoStarts ==
  /\ Move /\ ~up /\ up' = TRUE
  /\ Emit(running /\ ~asking, Msg("appeared"))
  /\ External /\ UNCHANGED <<card, reg, active, apn, missed>>
\* GetNameOwner is answered: from now on the watch follows the name
NameReply ==
  /\ asking /\ asking' = FALSE
  /\ Emit(TRUE, Msg(IF up THEN "appeared" ELSE "vanished"))
  /\ UNCHANGED <<ofono, running, subs, timer, cached, call, history, moves, requests, fails>>

---------------------------------------------------------------------------
(* D-Bus calls.                                                            *)

Answered == up /\ UNCHANGED fails
Failure == up /\ fails < MaxFail /\ fails' = fails + 1
Failed == Failure \/ (~up /\ UNCHANGED fails)

\* get_current_modem_path: the last card it read when it cannot be read
ModemPath(s) ==
  \/ Answered /\ s = card /\ cached' = card
  \/ Failed /\ s = cached /\ UNCHANGED cached

\* find_internet_context_path: a default when the contexts cannot be read
ContextPath(s) ==
  \/ Answered /\ s = card /\ cached' = card
  \/ Failure /\ s = cached /\ UNCHANGED cached
  \/ Failure /\ s = Default /\ cached' = card
  \/ ~up /\ s = Default /\ UNCHANGED <<cached, fails>>

\* SetProperty(Active, on): oFono turns data on only with a network; an answer may be lost
Set(s, on, ok) ==
  LET Applied == active' = [active EXCEPT ![s] = on] /\ EmitLost(active[s] /\ ~on)
      Possible == on => reg[s]
  IN \/ Answered /\ ok = Possible /\ IF ok THEN Applied ELSE UNCHANGED <<active, queue>>
     \/ Failure /\ ok = FALSE /\ \/ Possible /\ Applied
                                 \/ UNCHANGED <<active, queue>>
     \/ ~up /\ ok = FALSE /\ UNCHANGED <<active, queue, fails>>

\* a D-Bus call of a handler: what it leaves alone
InCall == UNCHANGED <<up, card, moves, requests>>
Reads == InCall /\ UNCHANGED <<reg, active, apn, running, asking, subs, queue, timer, wish>>

---------------------------------------------------------------------------
(* Start and stop of the monitor.                                          *)

\* g_source_remove of the restore timer, when there is one: what is left
Cancelled_Mut == sources - 1
Cancelled == IF timerId THEN sources - 1 ELSE sources

\* ofono_stop_data_monitor, when it runs
Silence_Mut == Unsubscribe /\ queue' = Dropped(queue, Kinds) /\ UNCHANGED timer
Silence == Unsubscribe /\ queue' = Dropped(queue, Kinds) /\ timerId' = FALSE /\ sources' = Cancelled
Stop == running' = FALSE /\ asking' = FALSE /\ Silence

\* ofono_start_data_monitor: the connection the call before it used cannot fail now
Start == running' = TRUE /\ asking' = TRUE

---------------------------------------------------------------------------
(* ofono_check_and_restore_data.                                           *)

Check == call' = [pc |-> "netPath", why |-> "monitor", slot |-> None] /\ gaveUp' = FALSE
\* a call of a check that fails although oFono runs is not made again
Tried == gaveUp' = (gaveUp \/ (call.why = "monitor" /\ fails' # fails))

NetPath ==
  /\ At("netPath") /\ \E s \in Slots : ModemPath(s) /\ call' = [call EXCEPT !.pc = "net", !.slot = s]
  /\ Reads /\ Tried /\ UNCHANGED missed
Net ==
  /\ At("net")
  /\ \/ (Failed \/ (Answered /\ ~reg[call.slot])) /\ call' = Idle
     \/ Answered /\ reg[call.slot] /\ Go("ctxPath")
  /\ Tried /\ Reads /\ UNCHANGED <<cached, missed>>
CtxPath ==
  /\ At("ctxPath") /\ \E s \in Slots : ContextPath(s) /\ call' = [call EXCEPT !.pc = "ctx", !.slot = s]
  /\ Reads /\ Tried /\ UNCHANGED missed
Ctx ==
  /\ At("ctx")
  /\ \/ Failed /\ call' = Idle /\ Tried
     \/ Answered /\ call.slot \notin apn /\ call' = Idle /\ gaveUp' = TRUE
     \/ Answered /\ call.slot \in apn /\ active[call.slot] /\ call' = Idle /\ UNCHANGED gaveUp
     \/ Answered /\ call.slot \in apn /\ ~active[call.slot] /\ Go("setPath") /\ UNCHANGED gaveUp
  /\ Reads /\ UNCHANGED <<cached, missed>>

---------------------------------------------------------------------------
(* Events the loop delivers.                                               *)

Deliver(k) == At("idle") /\ queue # <<>> /\ Head(queue).kind = k
Delivered == UNCHANGED <<ofono, running, asking, cached, wish, moves, requests, fails>>

\* the subscription of the event is gone
OnDropped ==
  /\ Deliver("dropped") /\ queue' = Tail(queue)
  /\ Delivered /\ UNCHANGED <<subs, timer, call, gaveUp, missed>>
\* on_context_property_changed
OnLost ==
  /\ Deliver("lost") /\ queue' = Tail(queue)
  /\ sources' = Cancelled + 1 /\ timerId' = TRUE
  /\ Delivered /\ UNCHANGED <<subs, call, gaveUp, missed>>
\* on_network_property_changed
OnRegistered_Mut ==
  /\ Deliver("registered") /\ queue' = Tail(queue)
  /\ Delivered /\ UNCHANGED <<subs, timer, call, gaveUp, missed>>
OnRegistered ==
  /\ Deliver("registered") /\ queue' = Tail(queue) /\ Check
  /\ Delivered /\ UNCHANGED <<subs, timer, missed>>
\* on_manager_property_changed: follow the card, then check
OnCard_Mut ==
  /\ Deliver("card") /\ queue' = Tail(queue) /\ Check /\ missed' = FALSE
  /\ Delivered /\ UNCHANGED <<subs, timer>>
OnCard ==
  /\ Deliver("card") /\ netSub' = Head(queue).slot
  /\ queue' = Dropped(Tail(queue), {"registered"}) /\ Check /\ missed' = FALSE
  /\ Delivered /\ UNCHANGED <<ctxSub, mgrSub, timer>>
\* on_ofono_monitor_appeared, to the reading of the card
OnAppeared ==
  /\ Deliver("appeared") /\ queue' = Dropped(Tail(queue), SignalKinds)
  /\ ctxSub' = TRUE /\ netSub' = None /\ mgrSub' = FALSE
  /\ call' = [pc |-> "slot", why |-> "monitor", slot |-> None]
  /\ Delivered /\ UNCHANGED <<timer, gaveUp, missed>>
OnVanished ==
  /\ Deliver("vanished") /\ queue' = Dropped(Tail(queue), SignalKinds) /\ Unsubscribe
  /\ Delivered /\ UNCHANGED <<timer, call, gaveUp, missed>>
\* delayed_restore_data
TimerFires ==
  /\ At("idle") /\ sources > 0 /\ sources' = sources - 1 /\ timerId' = FALSE /\ Check
  /\ Delivered /\ UNCHANGED <<subs, queue, missed>>

\* subscribe_data_monitor_signals: the card, then its network signals
SubscribeNetwork ==
  /\ At("slot")
  /\ \E s \in Slots : /\ \/ Answered /\ s = card /\ missed' = FALSE
                         \/ Failed /\ s = Default /\ missed' = (s # card)
                      /\ netSub' = s
  /\ Go("mgr")
  /\ InCall /\ UNCHANGED <<reg, active, apn, running, asking, ctxSub, mgrSub, queue, timer, cached, wish, gaveUp>>
\* the match rule of the Manager is acknowledged, then its subscription
SubscribeManager_Mut ==
  /\ At("mgr") /\ mgrSub' = TRUE /\ call' = Idle /\ gaveUp' = FALSE
  /\ InCall /\ UNCHANGED <<reg, active, apn, running, asking, ctxSub, netSub, queue, timer, cached, wish, missed, fails>>
SubscribeManager ==
  /\ At("mgr") /\ mgrSub' = TRUE /\ Check
  /\ InCall /\ UNCHANGED <<reg, active, apn, running, asking, ctxSub, netSub, queue, timer, cached, wish, missed, fails>>

---------------------------------------------------------------------------
(* Requests.                                                               *)

Request == At("idle") /\ requests < MaxRequests /\ requests' = requests + 1
Accepted == UNCHANGED <<ofono, running, asking, subs, queue, timer, cached, history, moves, fails>>
Enter(pc, why, s) == Request /\ call' = [pc |-> pc, why |-> why, slot |-> s] /\ Accepted

\* handle_data_status
DataRequest(why) == why \in {"on", "off"} /\ Enter("setPath", why, None)
\* apn_apply_template, apn_clear_all
ApnRequest(why) == why \in {"apply", "clear"} /\ Enter("apnPath", why, None)
\* switch_slot(s)
SwitchRequest(s) == Enter("swOff", "switch", s)

\* ofono_set_data_status
SetPath ==
  /\ At("setPath") /\ \E s \in Slots : ContextPath(s) /\ call' = [call EXCEPT !.pc = "set", !.slot = s]
  /\ Reads /\ Tried /\ UNCHANGED missed
SetRefused(ok) == ~ok /\ call' = Idle /\ UNCHANGED <<running, asking, subs, timer, wish, missed>> /\ Tried
SetOn ==
  /\ At("set") /\ call.why \in {"monitor", "on"}
  /\ \E ok \in BOOLEAN :
       /\ Set(call.slot, TRUE, ok)
       /\ \/ SetRefused(ok)
          \/ /\ ok /\ call' = Idle /\ UNCHANGED <<subs, timer, missed>>
             /\ wish' = IF call.why = "on" THEN "on" ELSE wish
             /\ UNCHANGED gaveUp
             /\ IF running THEN UNCHANGED <<running, asking>> ELSE Start
  /\ InCall /\ UNCHANGED <<reg, apn, cached>>
SetOff ==
  /\ At("set") /\ call.why = "off"
  /\ \/ \E ok \in BOOLEAN : Set(call.slot, FALSE, ok) /\ SetRefused(ok)
     \/ /\ Answered /\ active' = [active EXCEPT ![call.slot] = FALSE]
        /\ IF running THEN Stop ELSE UNCHANGED <<running, asking, subs, timer, queue>>
        /\ call' = Idle /\ wish' = "off" /\ UNCHANGED <<gaveUp, missed>>
  /\ InCall /\ UNCHANGED <<reg, apn, cached>>

\* ofono_set_apn_properties for the context found
ApnPath ==
  /\ At("apnPath")
  /\ \/ \E s \in Slots : ModemPath(s) /\ up /\ call' = [call EXCEPT !.pc = "apnRead", !.slot = s]
     \/ Failed /\ call' = Idle /\ UNCHANGED cached
  /\ Reads /\ UNCHANGED <<gaveUp, missed>>
Apn == IF call.why = "apply" THEN apn \cup {call.slot} ELSE apn \ {call.slot}
\* the properties are set one by one, and no failure of theirs is looked at
ApnRead ==
  /\ At("apnRead")
  /\ \/ Answered /\ active[call.slot] /\ Go("apnOff") /\ UNCHANGED apn
     \/ Answered /\ ~active[call.slot] /\ call' = Idle /\ apn' = Apn
     \/ Failed /\ call' = Idle /\ apn' \in {apn, Apn}
  /\ InCall /\ UNCHANGED <<reg, active, running, asking, subs, queue, timer, cached, history>>
ApnOff ==
  /\ At("apnOff") /\ \E ok \in BOOLEAN : Set(call.slot, FALSE, ok)
  /\ apn' \in {apn, Apn} /\ (up /\ fails' = fails => apn' = Apn) /\ Go("apnOn")
  /\ InCall /\ UNCHANGED <<reg, running, asking, subs, timer, cached, history>>
ApnOn ==
  /\ At("apnOn") /\ \E ok \in BOOLEAN : Set(call.slot, TRUE, ok)
  /\ call' = Idle
  /\ InCall /\ UNCHANGED <<reg, apn, running, asking, subs, timer, cached, history>>

Other(s) == CHOOSE o \in Slots : o # s
\* switch_slot: the other card goes off line (the answer is not looked at)
SwitchOff ==
  /\ At("swOff") /\ Go("swCard")
  /\ LET o == Other(call.slot)
     IN \/ /\ Answered /\ reg' = [reg EXCEPT ![o] = FALSE] /\ active' = [active EXCEPT ![o] = FALSE]
           /\ EmitLost(active[o])
        \/ Failed /\ UNCHANGED <<reg, active, queue>>
  /\ InCall /\ UNCHANGED <<apn, running, asking, subs, timer, cached, history>>
\* ofono_set_datacard
SwitchSet ==
  /\ At("swCard")
  /\ \E ok \in BOOLEAN :
       /\ (ok /\ Answered) \/ (~ok /\ Failed)
       /\ IF ok THEN Go("swVerify") ELSE call' = Idle
       /\ \/ /\ up /\ card' = call.slot
             /\ Emit(mgrSub /\ card # call.slot, CardMsg(call.slot))
          \/ ~ok /\ UNCHANGED <<card, queue>>
  /\ UNCHANGED <<up, reg, active, apn, running, asking, subs, timer, cached, history, moves, requests>>
\* get_current_slot, then the monitor is restarted if it runs
SwitchVerify ==
  /\ At("swVerify") /\ call' = Idle
  /\ \/ (Failed \/ (Answered /\ ~running)) /\ UNCHANGED <<running, asking, subs, timer, queue, gaveUp>>
     \/ Answered /\ running /\ Silence /\ Start /\ UNCHANGED gaveUp
  /\ InCall /\ UNCHANGED <<reg, active, apn, cached, wish, missed>>

---------------------------------------------------------------------------
Restore == NetPath \/ Net \/ CtxPath \/ Ctx \/ SetPath \/ SetOn
Events == OnDropped \/ OnLost \/ OnRegistered \/ OnCard \/ OnAppeared \/ OnVanished
CallStep == \/ Restore \/ SubscribeNetwork \/ SubscribeManager \/ SetOff
            \/ ApnPath \/ ApnRead \/ ApnOff \/ ApnOn \/ SwitchOff \/ SwitchSet \/ SwitchVerify
Requests == \/ \E why \in Whys : DataRequest(why) \/ ApnRequest(why)
            \/ \E s \in Slots : SwitchRequest(s)
Outside == \/ \E s \in Slots : Drop(s) \/ Register(s) \/ Deregister(s) \/ SwitchCard(s)
           \/ OfonoStops \/ OfonoStarts
Next == CallStep \/ Events \/ TimerFires \/ NameReply \/ Requests \/ Outside

\* the loop drains the events that are pending and the timers that are due before
\* it serves a request, every call has a timeout, and the bus answers
Fairness == WF_vars(CallStep) /\ WF_vars(Events) /\ WF_vars(TimerFires) /\ WF_vars(NameReply)
Spec == Init /\ [][Next]_vars /\ Fairness

---------------------------------------------------------------------------
(* What the monitor promises.                                              *)

\* Once the user has switched data off, the service does not switch it on: no timer,
\* signal or check that was under way survives the switch.  Only the user's request
\* and an APN that is written under an active context set Active.
OffSticks == [][wish = "off" => \A s \in Slots : active'[s] => active[s] \/ call.why \in {"on", "apply", "clear"}]_vars

\* g_restore_timeout_id names the one restore timer there is, so a stop that cancels
\* it cancels them all.
OneTimer == sources = IF timerId THEN 1 ELSE 0

Pending(kinds) == \E i \in DOMAIN queue : queue[i].kind \in kinds

\* Where no change of the card is waiting to be handled, the registration signals
\* the monitor listens to are those of the card that carries data; but for a card
\* that could not be read, or changed just before its changes were subscribed to.
FollowsCard == mgrSub /\ ~missed /\ ~Pending({"card", "appeared", "vanished"}) => netSub = card

\* Data is owed when the user wants it, the card has a network and no connection, and
\* the last check did not end for want of an APN or of an answer.
Owed ==
  running /\ wish = "on" /\ up /\ reg[card] /\ ~active[card] /\ ~gaveUp /\ ~missed

\* The monitor never goes to sleep on data it owes: once the loop is idle with nothing
\* queued, and oFono's name is known, the restore timer is set.  Whatever oFono, the
\* cards and the network did while a handler waited, a signal or a check came of it.
NothingForgotten == Owed /\ ~asking /\ At("idle") /\ queue = <<>> => timerId

\* The restore timer: one at most, and there when it is all that is left.
RestoreTimer == OneTimer /\ NothingForgotten

\* Data comes back: when the user wants it, oFono has a network from some time on,
\* and the last check did not end for want of an APN or of an answer, it is active
\* again and again.
Recovers ==
  <>[](up /\ reg[card] /\ wish = "on" /\ ~gaveUp /\ ~missed) => []<>active[card]
=============================================================================
