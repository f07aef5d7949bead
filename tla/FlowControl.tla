----------------------------- MODULE FlowControl -----------------------------
(***************************************************************************)
(* The traffic limit of src/src/system/traffic.c: a handler on the event   *)
(* loop ("main") saves the limit and the switch in the database, a         *)
(* detached controller thread reads them every 15 seconds, asks vnstat for *)
(* the total and puts the modem into or out of airplane mode.  The two     *)
(* share the database and is_flow_control_running, without a lock; every   *)
(* config_get/config_set is a sqlite3 process and a step of its own, and   *)
(* so is every D-Bus call that sets the modem online or offline.           *)
(*                                                                         *)
(* vnstat, sqlite3, ofono and pthread_create may fail (at most MaxFail     *)
(* times): a row that cannot be read is its default, 0, and what           *)
(* config_set, set_airplane_mode and pthread_create return is ignored.     *)
(* Where no thread was made, pthread_detach is called on a stale id:       *)
(* nothing comes of it, or the service dies (Crash).                       *)
(***************************************************************************)
EXTENDS Naturals

CONSTANTS Thread,    \* controller threads there may be
          Limits,    \* limits a user may save
          MaxTotal,  \* bound: traffic vnstat counts
          MaxFail,   \* bound: failures of vnstat, sqlite3, ofono and pthread_create
          MaxCrash   \* bound: restarts of the service

ASSUME BoundsAssumption ==
  /\ Limits \subseteq Nat
  /\ MaxTotal \in Nat /\ MaxFail \in Nat /\ MaxCrash \in Nat

VARIABLES
  dbSwitch, dbMuch,  \* rows traffic_switch, traffic_much
  running,           \* is_flow_control_running
  stuck,             \* history: it was set for a controller that could not be created
  pc,                \* where each controller is; "none" when there is no such thread
  conf,              \* each controller's local TrafficConfig
  seen,              \* each controller's local total
  mpc, want,         \* the main thread, and the configuration it is saving
  airplane,          \* the modem is offline
  cut,               \* history: it is so because a controller said so
  total,             \* bytes vnstat has counted
  late,              \* history: cuts by a controller since the switch went off
  fails, crashes     \* history

vars == <<dbSwitch, dbMuch, running, stuck, pc, conf, seen, mpc, want, airplane, cut, late,
          total, fails, crashes>>
db     == <<dbSwitch, dbMuch>>
locals == <<conf, seen>>
modem  == <<airplane, cut, late>>

ControllerPC == {"none", "much", "switch", "decide", "leave", "apply", "sleep"}
Config == [much : Limits \cup {0}, on : BOOLEAN]

TypeOK ==
  /\ dbSwitch \in BOOLEAN /\ dbMuch \in Limits \cup {0}
  /\ running \in BOOLEAN /\ stuck \in BOOLEAN
  /\ pc \in [Thread -> ControllerPC]
  /\ conf \in [Thread -> Config]
  /\ seen \in [Thread -> 0 .. MaxTotal]
  /\ mpc \in {"init", "loop", "saveMuch", "act"}
  /\ want \in Config
  /\ airplane \in BOOLEAN /\ cut \in BOOLEAN /\ late \in 0 .. 2
  /\ total \in 0 .. MaxTotal /\ fails \in 0 .. MaxFail /\ crashes \in 0 .. MaxCrash

NoConfig == [much |-> 0, on |-> FALSE]

\* the service starts, with whatever limit was saved earlier
Init ==
  /\ dbSwitch \in BOOLEAN /\ dbMuch \in Limits \cup {0}
  /\ running = FALSE /\ stuck = FALSE
  /\ pc = [t \in Thread |-> "none"]
  /\ conf = [t \in Thread |-> NoConfig] /\ seen = [t \in Thread |-> 0]
  /\ mpc = "init" /\ want = NoConfig
  /\ airplane = FALSE /\ cut = FALSE /\ late = 0
  /\ total = 0 /\ fails = 0 /\ crashes = 0

Alive(t) == pc[t] # "none"

\* a call that may fail without the caller noticing: `done` is whether it worked
MayFail(done) == \/ done /\ fails' = fails
                 \/ ~done /\ fails < MaxFail /\ fails' = fails + 1

\* set_airplane_mode: who asked is remembered for the properties
SetAirplane(on, byController) ==
  \E done \in BOOLEAN :
    /\ MayFail(done)
    /\ airplane' = IF done THEN on ELSE airplane
    /\ cut' = IF done THEN on /\ byController ELSE cut
    /\ late' = IF done /\ on /\ byController /\ ~dbSwitch /\ late < 2 THEN late + 1 ELSE late

\* mutant: the flag is not looked at
MayStart_Mut == TRUE
MayStart == ~running

\* is_flow_control_running = 1 and pthread_create, whose result is ignored
StartController ==
  \E created \in BOOLEAN :
    /\ MayFail(created)
    /\ running' = TRUE
    /\ stuck' = (stuck \/ ~created)
    /\ IF created THEN \E t \in Thread : ~Alive(t) /\ pc' = [pc EXCEPT ![t] = "much"]
                  ELSE UNCHANGED pc

NoStart == UNCHANGED <<running, stuck, pc>>

---------------------------------------------------------------------------
(* A controller (flow_control_thread_func).                                *)

\* read_traffic_config: first the limit ...
ReadMuch(t) ==
  /\ pc[t] = "much"
  /\ \E done \in BOOLEAN :
       /\ MayFail(done)
       /\ conf' = [conf EXCEPT ![t].much = IF done THEN dbMuch ELSE 0]
  /\ pc' = [pc EXCEPT ![t] = "switch"]
  /\ UNCHANGED <<db, running, stuck, seen, mpc, want, modem, total, crashes>>

\* ... then the switch
ReadSwitch(t) ==
  /\ pc[t] = "switch"
  /\ \E done \in BOOLEAN :
       /\ MayFail(done)
       /\ conf' = [conf EXCEPT ![t].on = done /\ dbSwitch]
  /\ pc' = [pc EXCEPT ![t] = "decide"]
  /\ UNCHANGED <<db, running, stuck, seen, mpc, want, modem, total, crashes>>

\* switched off: leave airplane mode ...
Decide(t) ==
  /\ pc[t] = "decide" /\ ~conf[t].on
  /\ SetAirplane(FALSE, TRUE)
  /\ pc' = [pc EXCEPT ![t] = "leave"]
  /\ UNCHANGED <<db, running, stuck, locals, mpc, want, total, crashes>>

\* mutant: the flag stays up when the thread leaves
LeaveFlag_Mut == running
LeaveFlag == FALSE
\* ... and end
Leave(t) ==
  /\ pc[t] = "leave"
  /\ running' = LeaveFlag
  /\ pc' = [pc EXCEPT ![t] = "none"]
  /\ UNCHANGED <<db, stuck, locals, mpc, want, modem, total, fails, crashes>>

\* mutant: *rx and *tx are not set before vnstat runs
NoTotal_Mut == MaxTotal + 1
\* get_traffic_from_vnstat: a vnstat that fails is a total of 0
NoTotal == 0
Measure(t) ==
  /\ pc[t] = "decide" /\ conf[t].on
  /\ \E done \in BOOLEAN :
       /\ MayFail(done)
       /\ seen' = [seen EXCEPT ![t] = IF done THEN total ELSE NoTotal]
  /\ pc' = [pc EXCEPT ![t] = "apply"]
  /\ UNCHANGED <<db, running, stuck, conf, mpc, want, modem, total, crashes>>

\* mutant: the comparison is strict
OverLimit_Mut(t) == seen[t] > conf[t].much
OverLimit(t) == seen[t] >= conf[t].much

\* over the limit: offline; else online
Apply(t) ==
  /\ pc[t] = "apply"
  /\ SetAirplane(OverLimit(t), TRUE)
  /\ pc' = [pc EXCEPT ![t] = "sleep"]
  /\ UNCHANGED <<db, running, stuck, locals, mpc, want, total, crashes>>

\* mutant: the loop does not read the configuration again
WakeTo_Mut == "decide"
WakeTo == "much"
\* sleep(15)
Wake(t) ==
  /\ pc[t] = "sleep"
  /\ pc' = [pc EXCEPT ![t] = WakeTo]
  /\ UNCHANGED <<db, running, stuck, locals, mpc, want, modem, total, fails, crashes>>

---------------------------------------------------------------------------
(* The main thread.                                                        *)

\* init_traffic: a controller for a switch that was left on
InitTraffic ==
  /\ mpc = "init"
  /\ \/ \E done \in BOOLEAN : MayFail(done) /\ (done => ~dbSwitch \/ running) /\ NoStart
     \/ dbSwitch /\ ~running /\ StartController
  /\ mpc' = "loop"
  /\ UNCHANGED <<db, locals, want, modem, total, crashes>>

\* handle_set_traffic_limit: the row traffic_switch ...
SaveSwitch(c) ==
  /\ mpc = "loop"
  /\ want' = c
  /\ \E done \in BOOLEAN :
       /\ MayFail(done)
       /\ dbSwitch' = IF done THEN c.on ELSE dbSwitch
       /\ late' = IF done /\ c.on THEN 0 ELSE late
  /\ mpc' = "saveMuch"
  /\ UNCHANGED <<dbMuch, running, stuck, pc, locals, airplane, cut, total, crashes>>

\* ... the row traffic_much ...
SaveMuch ==
  /\ mpc = "saveMuch"
  /\ \E done \in BOOLEAN :
       MayFail(done) /\ dbMuch' = IF done THEN want.much ELSE dbMuch
  /\ mpc' = "act"
  /\ UNCHANGED <<dbSwitch, running, stuck, pc, locals, want, modem, total, crashes>>

\* ... and, switched off, the network comes back "at once" ...
ActOff ==
  /\ mpc = "act" /\ ~want.on
  /\ SetAirplane(FALSE, FALSE)
  /\ mpc' = "loop"
  /\ UNCHANGED <<db, running, stuck, pc, locals, want, total, crashes>>

\* ... or, switched on, a controller is started unless one runs
ActOn ==
  /\ mpc = "act" /\ want.on
  /\ \/ MayStart /\ StartController
     \/ ~MayStart /\ NoStart /\ UNCHANGED fails
  /\ mpc' = "loop"
  /\ UNCHANGED <<db, locals, want, modem, total, crashes>>

\* the same handler without parameters deletes vnstat's database
ClearTotal ==
  /\ mpc = "loop" /\ total > 0
  /\ total' = 0
  /\ UNCHANGED <<db, running, stuck, pc, locals, mpc, want, modem, fails, crashes>>

\* the user sets airplane mode by hand (handle_airplane_mode, handlers.c)
SetByUser(on) ==
  /\ mpc = "loop"
  /\ SetAirplane(on, FALSE)
  /\ UNCHANGED <<db, running, stuck, pc, locals, mpc, want, total, crashes>>

---------------------------------------------------------------------------
(* The environment.                                                        *)

Traffic ==
  /\ ~airplane /\ total < MaxTotal
  /\ total' = total + 1
  /\ UNCHANGED <<db, running, stuck, pc, locals, mpc, want, modem, fails, crashes>>

\* the service dies and is started again; modem and database stay as they are
Crash ==
  /\ crashes < MaxCrash
  /\ crashes' = crashes + 1
  /\ running' = FALSE /\ stuck' = FALSE
  /\ pc' = [t \in Thread |-> "none"]
  /\ conf' = [t \in Thread |-> NoConfig] /\ seen' = [t \in Thread |-> 0]
  /\ mpc' = "init" /\ want' = NoConfig
  /\ UNCHANGED <<db, modem, total, fails>>

---------------------------------------------------------------------------

Controller(t) == \/ ReadMuch(t) \/ ReadSwitch(t) \/ Decide(t) \/ Leave(t)
                 \/ Measure(t) \/ Apply(t) \/ Wake(t)

\* a handler that has begun
Handler == InitTraffic \/ SaveMuch \/ ActOff \/ ActOn

Next == \/ \E t \in Thread : Controller(t)
        \/ Handler
        \/ \E c \in [much : Limits, on : BOOLEAN] : SaveSwitch(c)
        \/ ClearTotal
        \/ \E on \in BOOLEAN : SetByUser(on)
        \/ Traffic \/ Crash

\* threads run, and a handler that has begun ends; calls return
Fairness == (\A t \in Thread : WF_vars(Controller(t))) /\ WF_vars(Handler)

Spec == Init /\ [][Next]_vars
FairSpec == Spec /\ Fairness

---------------------------------------------------------------------------
(* Safety.                                                                 *)

\* is_flow_control_running is down only when there is no controller, and up without
\* one only when one could not be created; there are never two, although the flag is
\* written by both threads without a lock.
OneController ==
  /\ running <=> stuck \/ \E t \in Thread : Alive(t)
  /\ \A t, u \in Thread : Alive(t) /\ Alive(u) => ~stuck /\ t = u

\* Once the switch is off a controller cuts the network at most once more: the
\* round under way when the handler wrote the row; the next round reads it.
OneLateCut == late <= 1

\* A cut has somebody to undo it: unless a call failed or the service died, there is a
\* controller that has not yet decided to end, and only such a one leaves the network cut.
CutIsWatched == cut /\ fails + crashes = 0 => \E t \in Thread : Alive(t) /\ pc[t] # "leave"

\* What is promised of a cut by a controller.
CutsAccounted == OneLateCut /\ CutIsWatched

(* Liveness.                                                               *)

\* After the limit is switched off, a cut does not stay: the controller that
\* slept or was about to cut when the user switched off comes round, reads
\* the switch and restores the network (traffic.c:98), if no call fails and the
\* service does not die in between.
OffRestores == ~dbSwitch ~> (~cut \/ dbSwitch \/ fails + crashes > 0)

\* With a controller at work, traffic over the limit is cut off.
ControllerCuts ==
  (\E t \in Thread : Alive(t)) /\ dbSwitch /\ total >= dbMuch
     ~> (airplane \/ ~dbSwitch \/ total < dbMuch \/ \A t \in Thread : ~Alive(t))

---------------------------------------------------------------------------
(* What the README says and the code does not do.                          *)

\* "Set data limits and automatic network cutoff" (README.md:84): a limit that
\* is switched on and exceeded cuts the network off.
LimitEnforced ==
  dbSwitch /\ total >= dbMuch ~> (airplane \/ ~dbSwitch \/ total < dbMuch)
=============================================================================
