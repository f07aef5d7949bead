------------------------ MODULE NotificationMonitor ------------------------
(***************************************************************************)
(* The polling monitor of src/src/system/notification_monitor.c: every 30  *)
(* seconds the event loop reads what the rules ask for, compares it with   *)
(* the last reading and emits an event when it changed or crossed the      *)
(* threshold.  Between two polls rules come, change and go, readings fail  *)
(* and the service restarts.  The queue, the cooldowns and the webhook are *)
(* module Notification; here an event of a rule is accepted or not.        *)
(***************************************************************************)
EXTENDS Integers

CONSTANTS Macs,       \* WiFi clients
          Addrs,      \* addresses the interfaces may have
          Types,      \* network types
          Top,        \* bound: signal level and traffic used, 0 .. Top
          NoRule, NoReading,
          Lossy          \* the sources, of "traffic" and "clients", that need not
                         \* fail when a command does, but then say less than there is

VARIABLES
  rules,   \* the rule of each event, or NoRule (g_rules by type)
  device,  \* what there is to read
  last,    \* the g_ variables: per source its last reading, in the rule's unit
  seen,    \* history: the device as it was at that reading
  alarms   \* events the last poll emitted and notification_emit accepted

vars == <<rules, device, last, seen, alarms>>

Sources == {"interfaces", "clients", "signal", "traffic", "type"}
SourceOf == [interface |-> "interfaces", ip |-> "interfaces", rj45 |-> "interfaces", status |-> "interfaces",
             clients |-> "clients", signal |-> "signal", traffic |-> "traffic", type |-> "type"]
Events == DOMAIN SourceOf

Units(e) == CASE e = "signal" -> {"percent", "dbm"} [] e = "traffic" -> {"percent", "bytes"} [] OTHER -> {"state"}
\* one threshold per unit: half of Top in each of them
Threshold == [percent |-> 50, dbm |-> -100, bytes |-> Top \div 2, state |-> 0]
Rules(e) == {[unit |-> u, threshold |-> Threshold[u]] : u \in Units(e)}

Device == [up : SUBSET {"eth0", "data0"}, addr : Addrs, clients : SUBSET Macs, type : Types,
           level : 0 .. Top, used : 0 .. Top, limit : {0, Top}]

Init ==
  /\ rules \in [Events -> {NoRule}] /\ device \in Device
  /\ last = [s \in Sources |-> NoReading] /\ seen = last /\ alarms = {}

---------------------------------------------------------------------------
(* Readings.                                                               *)

\* the level of the signal or the traffic used, in the unit of a rule
InUnit(unit, level, limit) ==
  CASE unit = "dbm" -> (40 * level) \div Top - 120
    [] unit = "percent" -> (100 * level) \div limit
    [] OTHER -> level

\* one that cannot be expressed in the rule's unit is no reading
Wanted(s) ==
  /\ \E e \in Events : SourceOf[e] = s /\ rules[e] # NoRule
  /\ s = "traffic" => rules["traffic"].unit = "bytes" \/ device.limit > 0

\* what a source says of the device it was reported
Reading(s, unit, d) ==
  CASE s = "interfaces" -> [up |-> d.up, addr |-> d.addr]
    [] s = "clients" -> d.clients
    [] s = "signal" -> InUnit(unit, d.level, Top)
    [] s = "traffic" -> InUnit(unit, d.used, d.limit)
    [] s = "type" -> d.type
Unit(s) == IF s \in Events /\ rules[s] # NoRule THEN rules[s].unit ELSE "state"

\* a vnstat that fails counts as no traffic at all
Counted(d) == IF "traffic" \in Lossy THEN {d.used, 0} ELSE {d.used}
\* a failing /proc/net/arp, ip neigh or brctl leaves out the clients that only it lists;
\* so may the telemetry worker, whose snapshot reads into the same static buffers
Listed(d) == IF "clients" \in Lossy THEN SUBSET d.clients ELSE {d.clients}
\* what may be reported of a device
Reports(d) ==
  {[up |-> d.up, addr |-> d.addr, clients |-> c, type |-> d.type, level |-> d.level,
    used |-> n, limit |-> d.limit] : n \in Counted(d), c \in Listed(d)}

\* notification_threshold_crossed
Crossed(before, now, threshold, rising) ==
  IF rising THEN before < threshold /\ now >= threshold ELSE before >= threshold /\ now < threshold

Fires(e, rule, before, now) ==
  CASE e = "interface" -> before.up # now.up
    [] e = "ip" -> before.addr # now.addr
    [] e = "rj45" -> ("eth0" \in before.up) # ("eth0" \in now.up)
    [] e = "status" -> ("data0" \in before.up) # ("data0" \in now.up)
    [] e = "signal" -> Crossed(before, now, rule.threshold, FALSE)
    [] e = "traffic" -> Crossed(before, now, rule.threshold, TRUE)
    [] OTHER -> before # now

Alarm(e) == [event |-> e, rule |-> rules[e], before |-> seen[SourceOf[e]], now |-> device]

\* notification_maintenance; a source whose reading fails is passed over, and an
\* event is refused by its cooldown, a full queue or a webhook that is off
Poll ==
  /\ \E ok \in SUBSET Sources, reported \in Reports(device) :
       LET Read == {s \in ok : Wanted(s)}
           Now(s) == Reading(s, Unit(s), reported)
           Due(e) == rules[e] # NoRule /\ SourceOf[e] \in Read /\ last[SourceOf[e]] # NoReading
           Fired == {e \in Events : Due(e) /\ Fires(e, rules[e], last[SourceOf[e]], Now(SourceOf[e]))}
       IN /\ last' = [s \in Sources |-> IF s \in Read THEN Now(s) ELSE last[s]]
          /\ seen' = [s \in Sources |-> IF s \in Read THEN device ELSE seen[s]]
          /\ \E accepted \in SUBSET Fired : alarms' = {Alarm(e) : e \in accepted}
  /\ UNCHANGED <<rules, device>>

---------------------------------------------------------------------------
(* Rules, the device and restarts.                                         *)

Edited == alarms' = {} /\ UNCHANGED <<device, last, seen>>
AddRule(e) == rules[e] = NoRule /\ \E r \in Rules(e) : rules' = [rules EXCEPT ![e] = r] /\ Edited
\* an edit may give the rule to another event
UpdateRule(e, new) ==
  /\ rules[e] # NoRule /\ (new # e => rules[new] = NoRule)
  /\ \E r \in Rules(new) : rules' = [rules EXCEPT ![e] = NoRule, ![new] = r]
  /\ Edited
DeleteRule(e) == rules[e] # NoRule /\ rules' = [rules EXCEPT ![e] = NoRule] /\ Edited

DeviceChanges == \E d \in Device : d # device /\ device' = d /\ alarms' = {} /\ UNCHANGED <<rules, last, seen>>
Restart == last' = [s \in Sources |-> NoReading] /\ seen' = last' /\ alarms' = {} /\ UNCHANGED <<rules, device>>

Next ==
  \/ Poll \/ DeviceChanges \/ Restart
  \/ \E e \in Events : AddRule(e) \/ DeleteRule(e) \/ \E new \in Events : UpdateRule(e, new)

Spec == Init /\ [][Next]_vars

---------------------------------------------------------------------------
\* The event is true of the device: its state changed or its threshold was crossed
\* since the last reading, both seen in the unit of the rule that notifies (a share of
\* the traffic limit, when there was one).
Justified(a) ==
  LET Was(d) == Reading(SourceOf[a.event], a.rule.unit, d)
  IN \/ a.event = "traffic" /\ a.rule.unit = "percent" /\ a.before.limit = 0
     \/ Fires(a.event, a.rule, Was(a.before), Was(a.now))

\* A listed item notifies only when its state changed or its threshold was crossed
\* since the last reading.
OnlyWhenCrossed == \A a \in alarms : Justified(a)
=============================================================================
