---------------------- MODULE NotificationMonitor_proofs ----------------------
(***************************************************************************)
(* What the polling monitor promises after all.  An alarm may be false     *)
(* (OnlyWhenCrossed fails), but every alarm is the difference of two       *)
(* readings that were taken.  It can be false in three ways: the unit of   *)
(* the older reading after an edit of the rule, a vnstat that failed and   *)
(* counted as no traffic, and a client list cut short by a failing         *)
(* collector.  Every other alarm of a state is true of the device.         *)
(***************************************************************************)
EXTENDS NotificationMonitor, TLAPS

\* the units a source may have been read in: no share of a limit there is not
KeptIn(s, d) == {u \in IF s \in {"signal", "traffic"} THEN Units(s) ELSE {"state"} :
                   s = "traffic" /\ u = "percent" => d.limit > 0}

(* An alarm is the event of two readings: one of a report of the device as   *)
(* it was when the source was last read, one of a report of the device as the *)
(* poll found it.                                                             *)
Explains(a, unit, was, is) ==
  LET s == SourceOf[a.event]
  IN Fires(a.event, a.rule, Reading(s, unit, was), Reading(s, a.rule.unit, is))
AlarmsExplained ==
  \A a \in alarms :
    \E unit \in KeptIn(SourceOf[a.event], a.before), was \in Reports(a.before), is \in Reports(a.now) :
      a.rule.unit \in KeptIn(SourceOf[a.event], a.now) /\ Explains(a, unit, was, is)

(* Alarms of an interface, an address, a link or the network type are true of *)
(* the device, and alarms of the clients where no collector's failure passes  *)
(* for fewer clients.                                                         *)
StateAlarmsTrue ==
  \A a \in alarms :
    a.event \notin {"signal", "traffic"} /\ SourceOf[a.event] \notin Lossy \cap {"clients"}
      => Explains(a, "state", a.before, a.now)

(* So are all alarms of sources that lose nothing, if the units are kept.     *)
OthersJustified == \A a \in alarms : SourceOf[a.event] \notin Lossy => Justified(a)

(* The rules of the two thresholds are given in these units, when there are any. *)
UnitsAre(signal, traffic) ==
  /\ rules["signal"] # NoRule => rules["signal"].unit = signal
  /\ rules["traffic"] # NoRule => rules["traffic"].unit = traffic
---------------------------------------------------------------------------
(* Lemmas about the operators.                                             *)

LEMMA EventSources == \A e \in Events : SourceOf[e] \in Sources /\ (SourceOf[e] \in {"signal", "traffic"} => SourceOf[e] = e)
BY DEF Events, SourceOf, Sources

LEMMA UnitOfRule == ASSUME NEW e \in Events, NEW r \in Rules(e) PROVE r.unit \in Units(e)
BY DEF Rules

(* Only the signal and the traffic have a unit.                               *)
LEMMA StateReading ==
  ASSUME NEW s \in Sources \ {"signal", "traffic"}, NEW u, NEW w, NEW d
  PROVE  Reading(s, u, d) = Reading(s, w, d)
BY DEF Reading, Sources

(* Only the clients and the traffic can be reported smaller than they are.    *)
LEMMA FaithfulReport ==
  ASSUME NEW s \in Sources, s \notin Lossy \cap {"clients", "traffic"}, NEW u, NEW d, NEW r \in Reports(d)
  PROVE  Reading(s, u, r) = Reading(s, u, d)
<1>1. PICK n \in Counted(d), c \in Listed(d) :
        r = [up |-> d.up, addr |-> d.addr, clients |-> c, type |-> d.type, level |-> d.level,
             used |-> n, limit |-> d.limit]
  BY DEF Reports
<1>2. CASE s = "clients"
  BY <1>1, <1>2 DEF Reading, Listed
<1>3. CASE s = "traffic"
  BY <1>1, <1>3 DEF Reading, Counted
<1>4. CASE s \notin {"clients", "traffic"}
  BY <1>1, <1>4 DEF Reading, Sources
<1>5. QED
  BY <1>2, <1>3, <1>4

RulesOK ==
  /\ rules = [e \in Events |-> rules[e]]
  /\ \A e \in Events : rules[e] # NoRule => rules[e] \in Rules(e)

(* What a poll reads for an event it reads in the unit of the event's rule,   *)
(* and the device can be read in it.                                          *)
LEMMA WantedUnit ==
  ASSUME RulesOK, NEW s \in Sources, Wanted(s)
  PROVE  IF s \in {"signal", "traffic"} THEN rules[s] # NoRule /\ Unit(s) = rules[s].unit /\ Unit(s) \in KeptIn(s, device)
                                        ELSE "state" \in KeptIn(s, device)
<1>1. CASE s \in {"signal", "traffic"}
  <2>1. s \in Events /\ rules[s] # NoRule
    BY <1>1, EventSources DEF Wanted, Events, SourceOf
  <2>2. rules[s].unit \in Units(s)
    BY <2>1, UnitOfRule DEF RulesOK
  <2>3. s = "traffic" /\ rules[s].unit = "percent" => device.limit > 0
    BY <1>1 DEF Wanted
  <2>4. QED
    BY <1>1, <2>1, <2>2, <2>3 DEF Unit, KeptIn
<1>2. CASE s \notin {"signal", "traffic"}
  BY <1>2 DEF KeptIn
<1>3. QED
  BY <1>1, <1>2

LEMMA EventUnit ==
  ASSUME RulesOK, NEW e \in Events, rules[e] # NoRule, NEW d
  PROVE  Reading(SourceOf[e], Unit(SourceOf[e]), d) = Reading(SourceOf[e], rules[e].unit, d)
<1>1. CASE SourceOf[e] \in {"signal", "traffic"}
  BY <1>1, EventSources DEF Unit
<1>2. CASE SourceOf[e] \notin {"signal", "traffic"}
  BY <1>2, EventSources, StateReading
<1>3. QED
  BY <1>1, <1>2

---------------------------------------------------------------------------
(* The steps.                                                              *)

LEMMA RulesInit == Init => RulesOK
<1> SUFFICES ASSUME Init PROVE RulesOK
  OBVIOUS
<1>1. rules \in [Events -> {NoRule}]
  BY DEF Init
<1>2. QED
  BY <1>1 DEF RulesOK

LEMMA RulesStep == ASSUME RulesOK, [Next]_vars PROVE RulesOK'
<1>1. CASE UNCHANGED rules
  BY <1>1 DEF RulesOK
<1>2. CASE \E e \in Events : AddRule(e)
  <2>1. PICK e \in Events : \E r \in Rules(e) : rules' = [rules EXCEPT ![e] = r]
    BY <1>2 DEF AddRule
  <2>2. PICK r \in Rules(e) : rules' = [rules EXCEPT ![e] = r]
    BY <2>1
  <2>3. \A f \in Events : rules'[f] = IF f = e THEN r ELSE rules[f]
    BY <2>2 DEF RulesOK
  <2>4. QED
    BY <2>2, <2>3 DEF RulesOK
<1>3. CASE \E e \in Events : DeleteRule(e)
  <2>1. PICK e \in Events : rules' = [rules EXCEPT ![e] = NoRule]
    BY <1>3 DEF DeleteRule
  <2>2. \A f \in Events : rules'[f] = IF f = e THEN NoRule ELSE rules[f]
    BY <2>1 DEF RulesOK
  <2>3. QED
    BY <2>1, <2>2 DEF RulesOK
<1>4. CASE \E e, new \in Events : UpdateRule(e, new)
  <2>1. PICK e, new \in Events : \E r \in Rules(new) : rules' = [rules EXCEPT ![e] = NoRule, ![new] = r]
    BY <1>4 DEF UpdateRule
  <2>2. PICK r \in Rules(new) : rules' = [rules EXCEPT ![e] = NoRule, ![new] = r]
    BY <2>1
  <2>3. \A f \in Events : rules'[f] = IF f = new THEN r ELSE IF f = e THEN NoRule ELSE rules[f]
    BY <2>2 DEF RulesOK
  <2>4. QED
    BY <2>2, <2>3 DEF RulesOK
<1>5. QED
  BY <1>1, <1>2, <1>3, <1>4 DEF Next, Poll, DeviceChanges, Restart, vars

(* A poll: what it counts, what it reads, and the two readings of an alarm.   *)
LEMMA PollReads ==
  ASSUME RulesOK, Poll
  PROVE  \E reported \in Reports(device) :
           /\ \A s \in Sources :
                \/ last'[s] = last[s] /\ seen'[s] = seen[s]
                \/ /\ Wanted(s) /\ seen'[s] = device
                   /\ last'[s] = Reading(s, Unit(s), reported)
           /\ \A a \in alarms' : \E e \in Events :
                /\ a = Alarm(e) /\ rules[e] # NoRule
                /\ Wanted(SourceOf[e]) /\ last[SourceOf[e]] # NoReading
                /\ Fires(e, rules[e], last[SourceOf[e]], Reading(SourceOf[e], rules[e].unit, reported))
<1>2. PICK ok \in SUBSET Sources, reported \in Reports(device) :
       LET Read == {s \in ok : Wanted(s)}
           Now(s) == Reading(s, Unit(s), reported)
           Due(e) == rules[e] # NoRule /\ SourceOf[e] \in Read /\ last[SourceOf[e]] # NoReading
           Fired == {e \in Events : Due(e) /\ Fires(e, rules[e], last[SourceOf[e]], Now(SourceOf[e]))}
       IN /\ last' = [s \in Sources |-> IF s \in Read THEN Now(s) ELSE last[s]]
          /\ seen' = [s \in Sources |-> IF s \in Read THEN device ELSE seen[s]]
          /\ \E accepted \in SUBSET Fired : alarms' = {Alarm(e) : e \in accepted}
  BY DEF Poll
<1> DEFINE Read == {s \in ok : Wanted(s)}
           Now(s) == Reading(s, Unit(s), reported)
           Fired == {e \in Events : /\ rules[e] # NoRule /\ SourceOf[e] \in Read /\ last[SourceOf[e]] # NoReading
                                    /\ Fires(e, rules[e], last[SourceOf[e]], Now(SourceOf[e]))}
<1>3. /\ last' = [s \in Sources |-> IF s \in Read THEN Now(s) ELSE last[s]]
      /\ seen' = [s \in Sources |-> IF s \in Read THEN device ELSE seen[s]]
  BY <1>2
<1>4. \A s \in Sources :
        \/ last'[s] = last[s] /\ seen'[s] = seen[s]
        \/ Wanted(s) /\ seen'[s] = device /\ last'[s] = Reading(s, Unit(s), reported)
  BY <1>3
<1>5. PICK accepted \in SUBSET Fired : alarms' = {Alarm(e) : e \in accepted}
  BY <1>2
<1>6. ASSUME NEW a \in alarms'
      PROVE  \E e \in Events :
                /\ a = Alarm(e) /\ rules[e] # NoRule
                /\ Wanted(SourceOf[e]) /\ last[SourceOf[e]] # NoReading
                /\ Fires(e, rules[e], last[SourceOf[e]], Reading(SourceOf[e], rules[e].unit, reported))
  <2>1. PICK e \in accepted : a = Alarm(e)
    BY <1>5
  <2>2. e \in Fired
    BY <1>5
  <2>3. e \in Events /\ rules[e] # NoRule
    BY <2>2
  <2>4. Wanted(SourceOf[e]) /\ last[SourceOf[e]] # NoReading
    BY <2>2
  <2>5. Fires(e, rules[e], last[SourceOf[e]], Reading(SourceOf[e], Unit(SourceOf[e]), reported))
    BY <2>2
  <2>6. Fires(e, rules[e], last[SourceOf[e]], Reading(SourceOf[e], rules[e].unit, reported))
    BY <2>3, <2>5, EventUnit
  <2>7. QED
    BY <2>1, <2>3, <2>4, <2>6
<1>7. QED
  BY <1>4, <1>6

LEMMA AlarmFields ==
  ASSUME NEW e PROVE /\ Alarm(e).event = e /\ Alarm(e).rule = rules[e]
                     /\ Alarm(e).before = seen[SourceOf[e]] /\ Alarm(e).now = device
BY DEF Alarm

(* Only a poll reads, and only a poll alarms.                                 *)
LEMMA Others ==
  ASSUME Next, ~Poll
  PROVE  alarms' = {} /\ \A s \in Sources : last'[s] = NoReading \/ (last'[s] = last[s] /\ seen'[s] = seen[s])
<1>1. CASE Restart
  BY <1>1 DEF Restart
<1>2. CASE UNCHANGED <<last, seen>> /\ alarms' = {}
  BY <1>2
<1>3. QED
  BY <1>1, <1>2 DEF Next, DeviceChanges, AddRule, UpdateRule, DeleteRule, Edited

---------------------------------------------------------------------------
(* Every alarm is explained.                                               *)

(* The last reading of a source was taken of the device in `seen`.            *)
LastRead ==
  \A s \in Sources : last[s] # NoReading =>
    \E unit \in KeptIn(s, seen[s]), was \in Reports(seen[s]) : last[s] = Reading(s, unit, was)

IInv == RulesOK /\ LastRead /\ AlarmsExplained /\ StateAlarmsTrue

LEMMA LastReadStep == ASSUME RulesOK, LastRead, [Next]_vars PROVE LastRead'
<1> SUFFICES ASSUME NEW s \in Sources, last'[s] # NoReading
             PROVE  \E unit \in KeptIn(s, seen'[s]), was \in Reports(seen'[s]) : last'[s] = Reading(s, unit, was)
  BY DEF LastRead
<1>1. CASE last'[s] = last[s] /\ seen'[s] = seen[s]
  BY <1>1 DEF LastRead
<1>2. CASE Poll /\ ~(last'[s] = last[s] /\ seen'[s] = seen[s])
  <2>1. PICK reported \in Reports(device) :
          Wanted(s) /\ seen'[s] = device /\ last'[s] = Reading(s, Unit(s), reported)
    BY <1>2, PollReads
  <2>2. CASE s \in {"signal", "traffic"}
    BY <2>1, <2>2, WantedUnit
  <2>3. CASE s \notin {"signal", "traffic"}
    <3>1. last'[s] = Reading(s, "state", reported)
      BY <2>1, <2>3, StateReading
    <3>2. "state" \in KeptIn(s, device)
      BY <2>1, <2>3, WantedUnit
    <3>3. QED
      BY <2>1, <3>1, <3>2
  <2>4. QED
    BY <2>2, <2>3
<1>3. CASE UNCHANGED vars
  BY <1>1, <1>3 DEF vars
<1>4. QED
  BY <1>1, <1>2, <1>3, Others

LEMMA AlarmsStep == ASSUME RulesOK, LastRead, Poll PROVE AlarmsExplained' /\ StateAlarmsTrue'
<1>1. PICK reported \in Reports(device) :
        \A a \in alarms' : \E e \in Events :
          /\ a = Alarm(e) /\ rules[e] # NoRule
          /\ Wanted(SourceOf[e]) /\ last[SourceOf[e]] # NoReading
          /\ Fires(e, rules[e], last[SourceOf[e]], Reading(SourceOf[e], rules[e].unit, reported))
  BY PollReads
<1>2. ASSUME NEW a \in alarms'
      PROVE  /\ \E unit \in KeptIn(SourceOf[a.event], a.before), was \in Reports(a.before), is \in Reports(a.now) :
                  a.rule.unit \in KeptIn(SourceOf[a.event], a.now) /\ Explains(a, unit, was, is)
             /\ a.event \notin {"signal", "traffic"} /\ SourceOf[a.event] \notin Lossy \cap {"clients"}
                  => Explains(a, "state", a.before, a.now)
  <2>1. PICK e \in Events :
          /\ a = Alarm(e) /\ rules[e] # NoRule
          /\ Wanted(SourceOf[e]) /\ last[SourceOf[e]] # NoReading
          /\ Fires(e, rules[e], last[SourceOf[e]], Reading(SourceOf[e], rules[e].unit, reported))
    BY <1>1
  <2>2. a.event = e /\ a.rule = rules[e] /\ a.before = seen[SourceOf[e]] /\ a.now = device
    BY <2>1, AlarmFields
  <2>3. PICK unit \in KeptIn(SourceOf[e], seen[SourceOf[e]]), was \in Reports(seen[SourceOf[e]]) :
          last[SourceOf[e]] = Reading(SourceOf[e], unit, was)
    BY <2>1, EventSources DEF LastRead
  <2>4. Explains(a, unit, was, reported)
    BY <2>1, <2>2, <2>3 DEF Explains
  <2>5. rules[e].unit \in KeptIn(SourceOf[e], device)
    <3>1. rules[e].unit \in Units(e)
      BY <2>1, UnitOfRule DEF RulesOK
    <3>2. CASE SourceOf[e] \in {"signal", "traffic"}
      BY <2>1, <3>2, EventSources, WantedUnit
    <3>3. CASE SourceOf[e] \notin {"signal", "traffic"}
      <4>1. e \notin {"signal", "traffic"}
        BY <3>3 DEF SourceOf
      <4>2. rules[e].unit = "state"
        BY <3>1, <4>1 DEF Units
      <4>3. QED
        BY <3>3, <4>2 DEF KeptIn
    <3>4. QED
      BY <3>2, <3>3
  <2>6. ASSUME e \notin {"signal", "traffic"}, SourceOf[e] \notin Lossy \cap {"clients"}
        PROVE  Explains(a, "state", a.before, a.now)
    <3>1. SourceOf[e] \in Sources \ {"signal", "traffic"}
      BY <2>6, EventSources DEF SourceOf, Events
    <3>2. /\ Reading(SourceOf[e], unit, was) = Reading(SourceOf[e], unit, a.before)
          /\ Reading(SourceOf[e], a.rule.unit, reported) = Reading(SourceOf[e], a.rule.unit, a.now)
      BY <2>2, <2>3, <2>6, <3>1, FaithfulReport
    <3>3. Reading(SourceOf[e], unit, a.before) = Reading(SourceOf[e], "state", a.before)
      BY <3>1, StateReading
    <3>4. QED
      BY <2>2, <2>4, <3>2, <3>3 DEF Explains
  <2>7. QED
    BY <2>2, <2>3, <2>4, <2>5, <2>6
<1>3. QED
  BY <1>2 DEF AlarmsExplained, StateAlarmsTrue

(* The inductive invariant: the rules have units of their own events, each    *)
(* source was read of the device that `seen` remembers, and the alarms        *)
(* follow from the two.                                                       *)
THEOREM Invariance == Spec => []IInv
<1>1. Init => IInv
  <2> SUFFICES ASSUME Init PROVE IInv
    OBVIOUS
  <2>1. alarms = {} /\ \A s \in Sources : last[s] = NoReading
    BY DEF Init
  <2>2. QED
    BY <2>1, RulesInit DEF IInv, LastRead, AlarmsExplained, StateAlarmsTrue
<1>2. IInv /\ [Next]_vars => IInv'
  <2> SUFFICES ASSUME IInv, [Next]_vars PROVE IInv'
    OBVIOUS
  <2>1. RulesOK' /\ LastRead'
    BY RulesStep, LastReadStep DEF IInv
  <2>2. AlarmsExplained' /\ StateAlarmsTrue'
    <3>1. CASE Poll
      BY <3>1, AlarmsStep DEF IInv
    <3>2. CASE UNCHANGED vars
      BY <3>2 DEF IInv, AlarmsExplained, StateAlarmsTrue, vars
    <3>3. CASE Next /\ ~Poll
      BY <3>3, Others DEF AlarmsExplained, StateAlarmsTrue
    <3>4. QED
      BY <3>1, <3>2, <3>3
  <2>3. QED
    BY <2>1, <2>2 DEF IInv
<1>3. QED
  BY <1>1, <1>2, PTL DEF Spec

(* Every alarm follows from two readings that were taken of the device it     *)
(* names, after the last restart, the later in the unit of the rule.          *)
THEOREM AlarmsHold == Spec => []AlarmsExplained
<1>1. IInv => AlarmsExplained
  BY DEF IInv
<1>2. QED
  BY <1>1, Invariance, PTL

(* Alarms of states are true, whatever fails or is edited between the polls,  *)
(* but for a client list cut short by a failing collector.                    *)
THEOREM StateAlarmsHold == Spec => []StateAlarmsTrue
<1>1. IInv => StateAlarmsTrue
  BY DEF IInv
<1>2. QED
  BY <1>1, Invariance, PTL

---------------------------------------------------------------------------
(* Where the units stay as they are, alarms of what is reported faithfully    *)
(* are true.                                                                  *)

UnitFor(s, signal, traffic) == CASE s = "signal" -> signal [] s = "traffic" -> traffic [] OTHER -> "state"
SteadyRead(signal, traffic) ==
  \A s \in Sources \ Lossy : last[s] # NoReading => last[s] = Reading(s, UnitFor(s, signal, traffic), seen[s])

LEMMA SteadyUnit ==
  ASSUME RulesOK, NEW signal, NEW traffic, UnitsAre(signal, traffic), NEW s \in Sources, Wanted(s), NEW d
  PROVE  Reading(s, Unit(s), d) = Reading(s, UnitFor(s, signal, traffic), d)
<1>1. CASE s \in {"signal", "traffic"}
  BY <1>1, WantedUnit DEF UnitFor, UnitsAre
<1>2. CASE s \notin {"signal", "traffic"}
  BY <1>2, StateReading
<1>3. QED
  BY <1>1, <1>2

LEMMA SteadyStep ==
  ASSUME NEW signal, NEW traffic, RulesOK, UnitsAre(signal, traffic),
         SteadyRead(signal, traffic), OthersJustified, [Next]_vars
  PROVE  SteadyRead(signal, traffic)' /\ OthersJustified'
<1>1. CASE UNCHANGED vars
  BY <1>1 DEF SteadyRead, OthersJustified, Justified, vars
<1>2. CASE Next /\ ~Poll
  BY <1>2, Others DEF SteadyRead, OthersJustified
<1>3. CASE Poll
  <2>1. PICK reported \in Reports(device) :
           /\ \A s \in Sources :
                \/ last'[s] = last[s] /\ seen'[s] = seen[s]
                \/ /\ Wanted(s) /\ seen'[s] = device
                   /\ last'[s] = Reading(s, Unit(s), reported)
           /\ \A a \in alarms' : \E e \in Events :
                /\ a = Alarm(e) /\ rules[e] # NoRule
                /\ Wanted(SourceOf[e]) /\ last[SourceOf[e]] # NoReading
                /\ Fires(e, rules[e], last[SourceOf[e]], Reading(SourceOf[e], rules[e].unit, reported))
    BY <1>3, PollReads
  <2>2. \A s \in Sources \ Lossy : \A u : Reading(s, u, reported) = Reading(s, u, device)
    BY FaithfulReport
  <2>3. ASSUME NEW s \in Sources \ Lossy, last'[s] # NoReading
        PROVE  last'[s] = Reading(s, UnitFor(s, signal, traffic), seen'[s])
    <3>1. CASE last'[s] = last[s] /\ seen'[s] = seen[s]
      BY <2>3, <3>1 DEF SteadyRead
    <3>2. CASE Wanted(s) /\ seen'[s] = device /\ last'[s] = Reading(s, Unit(s), reported)
      BY <2>2, <3>2, SteadyUnit
    <3>3. QED
      BY <2>1, <3>1, <3>2
  <2>4. ASSUME NEW a \in alarms', SourceOf[a.event] \notin Lossy
        PROVE  LET Was(d) == Reading(SourceOf[a.event], a.rule.unit, d)
               IN Fires(a.event, a.rule, Was(a.before), Was(a.now))
    <3>1. PICK e \in Events :
            /\ a = Alarm(e) /\ rules[e] # NoRule
            /\ Wanted(SourceOf[e]) /\ last[SourceOf[e]] # NoReading
            /\ Fires(e, rules[e], last[SourceOf[e]], Reading(SourceOf[e], rules[e].unit, reported))
      BY <2>1
    <3>2. a.event = e /\ a.rule = rules[e] /\ a.before = seen[SourceOf[e]] /\ a.now = device
      BY <3>1, AlarmFields
    <3>3. SourceOf[e] \in Sources \ Lossy
      BY <2>4, <3>2, EventSources
    <3>4. last[SourceOf[e]] = Reading(SourceOf[e], UnitFor(SourceOf[e], signal, traffic), a.before)
      BY <3>1, <3>2, <3>3 DEF SteadyRead
    <3>5. Reading(SourceOf[e], UnitFor(SourceOf[e], signal, traffic), a.before)
            = Reading(SourceOf[e], rules[e].unit, a.before)
      BY <3>1, <3>3, EventUnit, SteadyUnit
    <3>6. Reading(SourceOf[e], rules[e].unit, reported) = Reading(SourceOf[e], rules[e].unit, a.now)
      BY <2>2, <3>2, <3>3
    <3>7. QED
      BY <3>1, <3>2, <3>4, <3>5, <3>6
  <2>5. QED
    BY <2>3, <2>4 DEF SteadyRead, OthersJustified, Justified
<1>4. QED
  BY <1>1, <1>2, <1>3

(* The three ways an alarm can be false are the only ones: as long as the two *)
(* thresholds keep their units, an item whose source cannot lose notifies     *)
(* only when its threshold was crossed or its state changed ...               *)
THEOREM OnlyUnitsMislead ==
  ASSUME NEW CONSTANT signal, NEW CONSTANT traffic
  PROVE  Spec /\ []UnitsAre(signal, traffic) => []OthersJustified
<1> DEFINE Steady == RulesOK /\ SteadyRead(signal, traffic) /\ OthersJustified
           Kept == UnitsAre(signal, traffic)
<1>1. Init => Steady
  <2> SUFFICES ASSUME Init PROVE Steady
    OBVIOUS
  <2>1. alarms = {} /\ \A s \in Sources : last[s] = NoReading
    BY DEF Init
  <2>2. QED
    BY <2>1, RulesInit DEF SteadyRead, OthersJustified
<1>2. Steady /\ Kept /\ [Next]_vars => Steady'
  BY RulesStep, SteadyStep
<1>3. Steady => OthersJustified
  OBVIOUS
<1> HIDE DEF Steady, Kept
<1>4. QED
  <2>1. Spec /\ []Kept => []OthersJustified
    BY <1>1, <1>2, <1>3, PTL DEF Spec
  <2>2. QED
    BY <2>1 DEF Kept

(* ... and where no source loses anything, every item does.                   *)
THEOREM OnlyLossMisleads ==
  ASSUME Lossy = {}, NEW CONSTANT signal, NEW CONSTANT traffic
  PROVE  Spec /\ []UnitsAre(signal, traffic) => []OnlyWhenCrossed
<1> DEFINE Kept == UnitsAre(signal, traffic)
<1>1. OthersJustified => OnlyWhenCrossed
  BY DEF OthersJustified, OnlyWhenCrossed
<1>2. Spec /\ []Kept => []OthersJustified
  BY OnlyUnitsMislead
<1> HIDE DEF Kept
<1>3. Spec /\ []Kept => []OnlyWhenCrossed
  BY <1>1, <1>2, PTL
<1>4. QED
  BY <1>3 DEF Kept
=============================================================================
