------------------------- MODULE FlowControl_proofs -------------------------
(***************************************************************************)
(* Proofs, for any limits, traffic, failures and restarts, that            *)
(* traffic.c never runs two controllers although nothing locks             *)
(* is_flow_control_running, and that a controller cuts the network at most *)
(* once more after the switch row went off.                                *)
(*                                                                         *)
(* OneLateCut is not inductive: a controller that has read "on" is a cut   *)
(* still to come (LateInv), and it is the only one by OneController.  That *)
(* is also why a cut is watched: the controller that ends has just undone  *)
(* whatever cut there was.                                                 *)
(***************************************************************************)
EXTENDS FlowControl, TLAPS

\* The controller has read the switch on and may still cut the network.
MayCut(t) == pc[t] \in {"decide", "apply"} /\ conf[t].on

\* Late cuts are counted while the switch is off, and after one no controller
\* has "on" in its hands.
LateInv ==
  /\ late \in {0, 1}
  /\ dbSwitch => late = 0
  /\ late = 1 => \A t \in Thread : ~MayCut(t)
  /\ \A t \in Thread : pc[t] = "apply" => conf[t].on

IInv == TypeOK /\ OneController /\ LateInv /\ CutIsWatched

---------------------------------------------------------------------------

\* A controller's local configuration before it reads one.
LEMMA NoConfigTypes == NoConfig \in Config
  BY BoundsAssumption DEF NoConfig, Config

\* The service starts with no controller.
LEMMA InitInv == Init => IInv
<1> SUFFICES ASSUME Init PROVE IInv
  OBVIOUS
<1>1. TypeOK
  <2>1. conf \in [Thread -> Config] /\ want \in Config
    BY NoConfigTypes DEF Init
  <2>2. seen \in [Thread -> 0 .. MaxTotal]
    BY BoundsAssumption DEF Init
  <2>3. pc \in [Thread -> ControllerPC]
    BY DEF Init, ControllerPC
  <2>4. late \in 0 .. 2 /\ total \in 0 .. MaxTotal /\ fails \in 0 .. MaxFail /\ crashes \in 0 .. MaxCrash
    BY BoundsAssumption DEF Init
  <2>5. QED
    BY <2>1, <2>2, <2>3, <2>4, Zenon DEF Init, TypeOK
<1>2. OneController
  BY DEF Init, OneController, Alive
<1>3. LateInv
  BY DEF Init, LateInv
<1>4. CutIsWatched
  BY DEF Init, CutIsWatched
<1>5. QED
  BY <1>1, <1>2, <1>3, <1>4 DEF IInv

\* Where nothing failed and nothing died, nothing failed.
LEMMA NoneFailed == \A x, y \in Nat : x + y = 0 => x = 0
  OBVIOUS

\* What set_airplane_mode leaves behind, whoever calls it and whether it works.
LEMMA SetAirplaneTypes ==
  ASSUME TypeOK, NEW on \in BOOLEAN, NEW by \in BOOLEAN, SetAirplane(on, by)
  PROVE  /\ airplane' \in BOOLEAN /\ cut' \in BOOLEAN /\ late' \in 0 .. 2
         /\ fails' \in 0 .. MaxFail
         /\ late' = late \/ (on /\ by /\ ~dbSwitch /\ late' = late + 1)
         /\ fails' = 0 => fails = 0 /\ (cut' => on /\ by)
  BY BoundsAssumption DEF TypeOK, SetAirplane, MayFail

\* A controller that is started is the only one if there was none, and has read
\* nothing; if it cannot be created, the flag is up all the same.
LEMMA StartTypes ==
  ASSUME TypeOK, \A t \in Thread : ~Alive(t), StartController
  PROVE  /\ running' = TRUE /\ stuck' \in BOOLEAN
         /\ pc' \in [Thread -> ControllerPC]
         /\ \/ /\ stuck' = stuck /\ fails' = fails
               /\ \E t \in Thread : pc'[t] = "much" /\ \A u \in Thread \ {t} : pc'[u] = "none"
            \/ /\ stuck' = TRUE /\ fails' = fails + 1
               /\ \A u \in Thread : pc'[u] = "none"
         /\ fails' \in 0 .. MaxFail
         /\ fails' = 0 => \E t \in Thread : pc'[t] = "much"
<1>1. \A u \in Thread : pc[u] = "none"
  BY DEF Alive
<1>2. fails' \in 0 .. MaxFail
  BY BoundsAssumption DEF StartController, MayFail, TypeOK
<1>3. CASE fails' = fails /\ stuck' = stuck /\ \E t \in Thread : pc' = [pc EXCEPT ![t] = "much"]
  <2>1. PICK t \in Thread : pc' = [pc EXCEPT ![t] = "much"]
    BY <1>3
  <2>2. pc'[t] = "much" /\ \A u \in Thread \ {t} : pc'[u] = "none"
    BY <1>1, <2>1 DEF TypeOK
  <2>3. QED
    BY <1>2, <1>3, <2>1, <2>2 DEF StartController, TypeOK, ControllerPC
<1>4. CASE fails' = fails + 1 /\ stuck' = TRUE /\ pc' = pc
  <2>1. fails' # 0
    BY <1>4, BoundsAssumption DEF TypeOK
  <2>2. QED
    BY <1>1, <1>2, <1>4, <2>1 DEF StartController, TypeOK
<1>5. QED
  BY <1>3, <1>4 DEF StartController, MayFail, TypeOK

\* Every step of a controller, of a handler and of the environment.
LEMMA Step == IInv /\ [Next]_vars => IInv'
<1> SUFFICES ASSUME IInv, [Next]_vars PROVE IInv'
  OBVIOUS
<1> USE BoundsAssumption
        DEF IInv, TypeOK, OneController, LateInv, CutIsWatched, MayCut, Alive, Config, ControllerPC, db, locals, modem, vars
<1>1. ASSUME NEW t \in Thread, ReadMuch(t) PROVE IInv'
  BY <1>1 DEF ReadMuch, MayFail
<1>2. ASSUME NEW t \in Thread, ReadSwitch(t) PROVE IInv'
  BY <1>2 DEF ReadSwitch, MayFail
<1>3. ASSUME NEW t \in Thread, Decide(t) PROVE IInv'
  <2>1. /\ airplane' \in BOOLEAN /\ cut' \in BOOLEAN /\ late' = late /\ fails' \in 0 .. MaxFail
        /\ fails' = 0 => fails = 0 /\ ~cut'
    BY <1>3, SetAirplaneTypes DEF Decide
  <2>2. TypeOK' /\ OneController' /\ LateInv'
    BY <1>3, <2>1 DEF Decide
  <2>3. fails' \in Nat /\ crashes' \in Nat
    BY <1>3, <2>1 DEF Decide
  <2>4. (fails + crashes)' = 0 => fails' = 0
    BY <2>3, NoneFailed, Zenon
  <2>5. CutIsWatched'
    BY <2>1, <2>4, Zenon DEF CutIsWatched
  <2>6. QED
    BY <2>2, <2>5
<1>4. ASSUME NEW t \in Thread, Leave(t) PROVE IInv'
  BY <1>4 DEF Leave, LeaveFlag
<1>5. ASSUME NEW t \in Thread, Measure(t) PROVE IInv'
  BY <1>5 DEF Measure, NoTotal, MayFail
<1>6. ASSUME NEW t \in Thread, Apply(t) PROVE IInv'
  <2>1. OverLimit(t) \in BOOLEAN
    BY DEF OverLimit
  <2>2. /\ airplane' \in BOOLEAN /\ cut' \in BOOLEAN /\ late' \in 0 .. 2
        /\ fails' \in 0 .. MaxFail
        /\ late' = late \/ (~dbSwitch /\ late' = late + 1)
        /\ fails' = 0 => fails = 0
    BY <1>6, <2>1, SetAirplaneTypes DEF Apply
  <2>3. TypeOK' /\ OneController'
    BY <1>6, <2>2 DEF Apply
  <2>4. MayCut(t) /\ pc'[t] = "sleep" /\ \A u \in Thread : u # t => pc'[u] = "none"
    BY <1>6 DEF Apply
  <2>5. late = 0
    BY <2>4
  <2>6. LateInv'
    BY <1>6, <2>2, <2>4, <2>5 DEF Apply
  <2>7. QED
    BY <2>3, <2>4, <2>6
<1>7. ASSUME NEW t \in Thread, Wake(t) PROVE IInv'
  BY <1>7 DEF Wake, WakeTo
<1>8. CASE InitTraffic
  <2>1. CASE NoStart
    BY <1>8, <2>1 DEF InitTraffic, NoStart, MayFail, StartController
  <2>2. CASE ~running /\ StartController
    <3>1. TypeOK'
      BY <1>8, <2>2, StartTypes DEF InitTraffic, MayFail
    <3>2. OneController'
      BY <2>2, StartTypes
    <3>3. LateInv'
      BY <1>8, <2>2, StartTypes DEF InitTraffic
    <3>4. fails' \in Nat /\ crashes' \in Nat
      BY <1>8, <3>1 DEF InitTraffic
    <3>5. (fails + crashes)' = 0 => fails' = 0
      BY <3>4, NoneFailed, Zenon
    <3>6. fails' = 0 => \E t \in Thread : pc'[t] = "much"
      BY <2>2, StartTypes
    <3>7. CutIsWatched'
      BY <3>5, <3>6 DEF CutIsWatched
    <3>8. QED
      BY <3>1, <3>2, <3>3, <3>7
  <2>3. QED
    BY <1>8, <2>1, <2>2 DEF InitTraffic
<1>9. CASE SaveMuch
  BY <1>9 DEF SaveMuch, MayFail
<1>10. CASE ActOff
  <2>1. /\ airplane' \in BOOLEAN /\ cut' \in BOOLEAN /\ late' = late /\ fails' \in 0 .. MaxFail
        /\ fails' = 0 => fails = 0 /\ ~cut'
    BY <1>10, SetAirplaneTypes DEF ActOff
  <2>2. TypeOK' /\ OneController' /\ LateInv'
    BY <1>10, <2>1 DEF ActOff
  <2>3. fails' \in Nat /\ crashes' \in Nat
    BY <1>10, <2>1 DEF ActOff
  <2>4. (fails + crashes)' = 0 => fails' = 0
    BY <2>3, NoneFailed, Zenon
  <2>5. CutIsWatched'
    BY <2>1, <2>4, Zenon DEF CutIsWatched
  <2>6. QED
    BY <2>2, <2>5
<1>11. CASE ActOn
  <2>1. CASE NoStart
    BY <1>11, <2>1 DEF ActOn, NoStart, MayFail, StartController
  <2>2. CASE ~running /\ StartController
    <3>1. TypeOK'
      BY <1>11, <2>2, StartTypes DEF ActOn
    <3>2. OneController'
      BY <2>2, StartTypes
    <3>3. LateInv'
      BY <1>11, <2>2, StartTypes DEF ActOn
    <3>4. fails' \in Nat /\ crashes' \in Nat
      BY <1>11, <3>1 DEF ActOn
    <3>5. (fails + crashes)' = 0 => fails' = 0
      BY <3>4, NoneFailed, Zenon
    <3>6. fails' = 0 => \E t \in Thread : pc'[t] = "much"
      BY <2>2, StartTypes
    <3>7. CutIsWatched'
      BY <3>5, <3>6 DEF CutIsWatched
    <3>8. QED
      BY <3>1, <3>2, <3>3, <3>7
  <2>3. QED
    BY <1>11, <2>1, <2>2 DEF ActOn, MayStart
<1>12. CASE ClearTotal
  BY <1>12 DEF ClearTotal
<1>13. CASE Traffic
  BY <1>13 DEF Traffic
<1>14. CASE Crash
  <2>1. conf' \in [Thread -> Config] /\ want' \in Config
    BY <1>14, NoConfigTypes DEF Crash
  <2>2. seen' \in [Thread -> 0 .. MaxTotal] /\ crashes' \in 0 .. MaxCrash
    BY <1>14 DEF Crash
  <2>3. pc' \in [Thread -> ControllerPC]
    BY <1>14 DEF Crash
  <2>4. TypeOK'
    BY <1>14, <2>1, <2>2, <2>3 DEF Crash
  <2>5. QED
    BY <1>14, <2>4 DEF Crash
<1>15. ASSUME NEW c \in [much : Limits, on : BOOLEAN], SaveSwitch(c) PROVE IInv'
  BY <1>15 DEF SaveSwitch, MayFail
<1>16. ASSUME NEW on \in BOOLEAN, SetByUser(on) PROVE IInv'
  <2>1. /\ airplane' \in BOOLEAN /\ cut' \in BOOLEAN /\ late' = late /\ fails' \in 0 .. MaxFail
        /\ fails' = 0 => fails = 0 /\ ~cut'
    BY <1>16, SetAirplaneTypes DEF SetByUser
  <2>2. TypeOK' /\ OneController' /\ LateInv'
    BY <1>16, <2>1 DEF SetByUser
  <2>3. fails' \in Nat /\ crashes' \in Nat
    BY <1>16, <2>1 DEF SetByUser
  <2>4. (fails + crashes)' = 0 => fails' = 0
    BY <2>3, NoneFailed, Zenon
  <2>5. CutIsWatched'
    BY <2>1, <2>4, Zenon DEF CutIsWatched
  <2>6. QED
    BY <2>2, <2>5
<1>17. CASE UNCHANGED vars
  BY <1>17
<1>18. QED
  BY <1>1, <1>2, <1>3, <1>4, <1>5, <1>6, <1>7, <1>8, <1>9, <1>10, <1>11, <1>12, <1>13, <1>14, <1>15, <1>16, <1>17 DEF Next, Controller, Handler

THEOREM Invariance == Spec => []IInv
  BY InitInv, Step, PTL DEF Spec

\* Every variable keeps its type.
THEOREM TypeCorrect == Spec => []TypeOK
<1>1. IInv => TypeOK
  BY DEF IInv
<1>2. QED
  BY Invariance, <1>1, PTL

\* is_flow_control_running says whether the one controller exists, unless one could not
\* be created: then the flag stays up without one until the service is restarted.
THEOREM OneControllerHolds == Spec => []OneController
<1>1. IInv => OneController
  BY DEF IInv
<1>2. QED
  BY Invariance, <1>1, PTL

\* After the switch row went off a controller cuts the network at most once, and a
\* cut is left behind by a failed call or a crash only.
THEOREM CutsAccountedHolds == Spec => []CutsAccounted
<1>1. IInv => CutsAccounted
  BY DEF IInv, LateInv, OneLateCut, CutsAccounted
<1>2. QED
  BY Invariance, <1>1, PTL
=============================================================================
