-------------------------- MODULE Ipv6Proxy_proofs --------------------------
(***************************************************************************)
(* Type correctness and the safety of Ipv6Proxy, for any number of ports,    *)
(* rules, processes, failures and crashes; and a bound on the steps of a     *)
(* call (StepsLeft), which is why every call ends.                           *)
(***************************************************************************)
EXTENDS Ipv6Proxy, TLAPS

CallRec == [pc : CallPCs, todo : Seq(Rows), nat : BOOLEAN, pid : Procs \cup {None},
            at : Nat \ {0}, next : {"return", "start", "exit"}]

(* Where the handler is decides what is set.                                 *)
CallInv ==
  /\ phase = "down" => call = NoCall /\ table = <<>> /\ ~running
  /\ phase # "serve" => native = "unset"
  /\ call.pc = "listen" => phase = "boot"
  /\ call.pc \in {"start", "rule", "wait", "drop"} => ~running
  /\ call.pc = "release" \/ (call.pc \in {"idle", "listen", "start"} /\ ~running) => table = <<>>
  /\ call.pc \in {"wait", "drop"} => call.pid \in Procs /\ call.todo # <<>> /\ Proxied(Head(call.todo))
  /\ call.pc = "kill" => call.at \in DOMAIN table

----------------------------------------------------------------------------

LEMMA CallTypes ==
  ASSUME TypeOK
  PROVE  /\ call \in CallRec /\ NoCall \in CallRec /\ Return \in CallRec
         /\ \A next \in {"return", "start", "exit"} : Sweep(next) \in CallRec
         /\ \A pc \in CallPCs : Goto(pc) \in CallRec
         /\ call.todo # <<>> => NextRule \in CallRec
<1>1. call \in CallRec
  BY DEF TypeOK, CallRec
<1>2. <<>> \in Seq(Rows) /\ 1 \in Nat \ {0}
  OBVIOUS
<1>3. NoCall \in CallRec
  BY <1>2 DEF NoCall, CallRec, CallPCs
<1>4. Return \in CallRec /\ \A next \in {"return", "start", "exit"} : Sweep(next) \in CallRec
  BY <1>3 DEF Return, Sweep, CallRec, CallPCs
<1>5. \A pc \in CallPCs : Goto(pc) \in CallRec
  BY <1>1 DEF Goto, CallRec
<1>6. call.todo # <<>> => NextRule \in CallRec
  <2>1. call.todo \in Seq(Rows)
    BY <1>1 DEF CallRec
  <2>2. call.todo # <<>> => Tail(call.todo) \in Seq(Rows)
    BY <2>1
  <2>3. QED
    BY <1>1, <2>2 DEF NextRule, CallRec, CallPCs
<1>7. QED
  BY <1>1, <1>3, <1>4, <1>5, <1>6

(* What a call in progress says about its first rule.                        *)
LEMMA HeadTypes ==
  ASSUME TypeOK, call.todo # <<>>
  PROVE  Head(call.todo) \in Rows /\ (Proxied(Head(call.todo)) => Head(call.todo).port \in Ports)
<1>1. call.todo \in Seq(Rows)
  BY DEF TypeOK
<1>2. Head(call.todo) \in Rows
  BY <1>1
<1>3. QED
  BY <1>2, ProxyAssumption DEF Proxied, Conflict, NativeRule

LEMMA TableTypes ==
  ASSUME TypeOK
  PROVE  Len(table) \in Nat /\ DOMAIN table = 1 .. Len(table)
         /\ \A i \in DOMAIN table : table[i] \in Entries /\ table[i].port \in Ports
                                    /\ table[i].pid \in Procs /\ table[i].owned \in BOOLEAN
<1>1. table \in Seq(Entries)
  BY DEF TypeOK
<1>2. \A i \in DOMAIN table : table[i] \in Entries
  BY <1>1
<1>3. QED
  BY <1>1, <1>2 DEF Entries

LEMMA ListedTypes == ASSUME TypeOK PROVE Listed \in Seq(Rows)
<1>1. rules \in Seq(Rows) /\ Len(rules) \in Nat /\ MaxRules \in Nat
  BY ProxyAssumption DEF TypeOK
<1>2. QED
  BY <1>1 DEF Listed

LEMMA WantedTypes == ASSUME NEW rows \in Seq(Rows) PROVE Wanted(rows) \subseteq AllPorts
<1>1. \A i \in DOMAIN rows : rows[i] \in Rows
  OBVIOUS
<1>2. QED
  BY <1>1, ProxyAssumption DEF Wanted, Range, AllPorts

LEMMA ProcTypes ==
  ASSUME TypeOK, NEW p \in Procs
  PROVE  /\ proc[p] \in Processes /\ Dead \in Processes /\ Bystander \in Processes
         /\ Exited(proc[p]) \in Processes /\ Orphaned(proc[p]) \in Processes
         /\ \A port \in AllPorts : Child(port) \in Processes
<1>1. proc[p] \in Processes
  BY DEF TypeOK
<1>2. Dead \in Processes
  BY DEF Dead, Processes, ProcStates, AllPorts
<1>3. Bystander \in Processes
  BY <1>2 DEF Bystander, Processes, ProcStates
<1>4. Exited(proc[p]) \in Processes /\ Orphaned(proc[p]) \in Processes
  BY <1>1, <1>2 DEF Exited, Orphaned, Processes, ProcStates
<1>5. \A port \in AllPorts : Child(port) \in Processes
  BY DEF Child, Processes, ProcStates
<1>6. QED
  BY <1>1, <1>2, <1>3, <1>4, <1>5

LEMMA TypeInit == Init => TypeOK
<1> SUFFICES ASSUME Init PROVE TypeOK
  OBVIOUS
<1>1. \A r \in Rows : <<r>> \in Seq(Rows)
  OBVIOUS
<1>2. NoCall \in CallRec
  BY DEF NoCall, CallRec, CallPCs
<1>3. Dead \in Processes
  BY DEF Dead, Processes, ProcStates, AllPorts
<1>4. <<>> \in Seq(Entries) /\ <<>> \in Seq(Rows)
  OBVIOUS
<1>6. rules \in Seq(Rows)
  BY <1>1, <1>4 DEF Init
<1>5. QED
  BY <1>2, <1>3, <1>4, <1>6, ProxyAssumption DEF Init, TypeOK, CallRec, AllPorts

LEMMA TypeStep == TypeOK /\ CallInv /\ [Next]_vars => TypeOK'
<1> SUFFICES ASSUME TypeOK, CallInv, [Next]_vars PROVE TypeOK'
  OBVIOUS
<1> USE DEF memory, database, firewall
<1>1. CASE UNCHANGED vars
  BY <1>1 DEF vars, TypeOK
<1>2. CASE Boot \/ ListenFails \/ StartRequest \/ StopRequest \/ RestartRequest \/ Terminate
  <2>1. call' \in CallRec
    BY <1>2, CallTypes DEF Boot, ListenFails, StartRequest, StopRequest, RestartRequest, Terminate, CallPCs
  <2>2. phase' \in {"down", "boot", "serve"} /\ UNCHANGED <<memory, database, firewall, proc, fails, crashes>>
    BY <1>2 DEF Boot, ListenFails, StartRequest, StopRequest, RestartRequest, Terminate, TypeOK
  <2>3. QED
    BY <2>1, <2>2 DEF TypeOK, CallRec
<1>3. CASE Listen
  <2>1. call' \in CallRec
    BY <1>3, CallTypes DEF Listen
  <2>2. fw' \subseteq AllPorts
    BY <1>3 DEF Listen, TypeOK, AllPorts
  <2>3. native' \in {"unset", "shared", "owned"} /\ phase' \in {"down", "boot", "serve"}
    BY <1>3 DEF Listen, TypeOK
  <2>4. fails' \in Nat
    BY <1>3 DEF Listen, Works, Fail, TypeOK
  <2>5. UNCHANGED <<auto, rules, table, running, asked, stale, proc, crashes>>
    BY <1>3 DEF Listen
  <2>6. QED
    BY <2>1, <2>2, <2>3, <2>4, <2>5 DEF TypeOK, CallRec
<1>4. CASE SetConfig
  BY <1>4 DEF SetConfig, TypeOK
<1>5. CASE RuleAdd \/ RuleUpdate \/ RuleDelete
  <2>1. rules' \in Seq(Rows)
    <3>1. rules \in Seq(Rows) /\ Len(rules) \in Nat
      BY DEF TypeOK
    <3>2. CASE RuleAdd
      BY <3>1, <3>2 DEF RuleAdd, EditRules
    <3>3. CASE RuleUpdate
      BY <3>1, <3>3 DEF RuleUpdate, EditRules
    <3>4. CASE RuleDelete
      <4>1. PICK i \in DOMAIN rules : EditRules(SubSeq(rules, 1, i - 1) \o SubSeq(rules, i + 1, Len(rules)))
        BY <3>4 DEF RuleDelete
      <4>2. SubSeq(rules, 1, i - 1) \in Seq(Rows) /\ SubSeq(rules, i + 1, Len(rules)) \in Seq(Rows)
        BY <3>1
      <4>3. QED
        BY <4>1, <4>2 DEF EditRules
    <3>5. QED
      BY <1>5, <3>2, <3>3, <3>4
  <2>2. UNCHANGED <<phase, auto, memory, call, firewall, proc, fails, crashes>>
    BY <1>5 DEF RuleAdd, RuleUpdate, RuleDelete, EditRules
  <2>3. QED
    BY <2>1, <2>2 DEF TypeOK
<1>6. CASE BeginStart
  <2>1. PICK rows \in {Listed, <<>>} :
          /\ IF rows = Listed THEN Works ELSE Fail
          /\ asked' = Wanted(rows) /\ table' = <<>>
          /\ call' = IF rows = <<>> THEN Return ELSE [NoCall EXCEPT !.pc = "rule", !.todo = rows]
    BY <1>6 DEF BeginStart
  <2>2. rows \in Seq(Rows)
    <3>1. <<>> \in Seq(Rows)
      OBVIOUS
    <3>2. QED
      BY <3>1, ListedTypes
  <2>3. call' \in CallRec
    <3>1. [NoCall EXCEPT !.pc = "rule", !.todo = rows] \in CallRec
      <4>1. NoCall \in CallRec /\ "rule" \in CallPCs
        BY CallTypes DEF CallPCs
      <4>2. QED
        BY <2>2, <4>1 DEF CallRec
    <3>2. QED
      BY <2>1, <3>1, CallTypes
  <2>4. asked' \subseteq AllPorts /\ table' \in Seq(Entries) /\ fails' \in Nat
    BY <2>1, <2>2, WantedTypes DEF Works, Fail, TypeOK
  <2>5. QED
    BY <1>6, <2>3, <2>4 DEF BeginStart, TypeOK, CallRec
<1>7. CASE SkipRule \/ RefuseRule \/ ForkFails \/ ChildNotReady
  <2>1. call' \in CallRec
    <3>1. CASE SkipRule
      <4>1. call.todo # <<>> /\ NextRule \in CallRec /\ Head(call.todo).enabled \in BOOLEAN
        BY <3>1, CallTypes, HeadTypes, ProxyAssumption DEF SkipRule
      <4>2. QED
        BY <3>1, <4>1 DEF SkipRule, CallRec
    <3>2. CASE RefuseRule \/ ForkFails \/ ChildNotReady
      BY <3>2, CallTypes DEF RefuseRule, ForkFails, ChildNotReady, StartupFailed, CallPCs
    <3>3. QED
      BY <1>7, <3>1, <3>2
  <2>2. UNCHANGED <<phase, memory, database, firewall, proc, crashes>> /\ fails' \in Nat
    BY <1>7 DEF SkipRule, RefuseRule, ForkFails, ChildNotReady, Works, Fail, TypeOK
  <2>3. QED
    BY <2>1, <2>2 DEF TypeOK, CallRec
<1>8. CASE ForkRule
  <2>1. PICK p \in Procs :
          /\ call.todo # <<>> /\ Proxied(Head(call.todo))
          /\ proc' = [proc EXCEPT ![p] = Child(Head(call.todo).port)]
          /\ call' = [call EXCEPT !.pc = "wait", !.pid = p]
    BY <1>8 DEF ForkRule
  <2>2. Child(Head(call.todo).port) \in Processes
    BY <2>1, HeadTypes, ProcTypes DEF AllPorts
  <2>3. call' \in CallRec
    <3>1. call \in CallRec /\ "wait" \in CallPCs /\ p \in Procs \cup {None}
      BY <2>1, CallTypes DEF CallPCs
    <3>2. QED
      BY <2>1, <3>1 DEF CallRec
  <2>4. QED
    BY <1>8, <2>1, <2>2, <2>3 DEF ForkRule, TypeOK, CallRec
<1>9. CASE ChildReady
  <2>1. call.pid \in Procs /\ call.todo # <<>> /\ Head(call.todo).port \in Ports
    BY <1>9, HeadTypes DEF ChildReady, At, CallInv
  <2>2. \A owned \in BOOLEAN : Append(table, Entry(Head(call.todo).port, owned)) \in Seq(Entries)
    BY <2>1 DEF TypeOK, Entry, Entries
  <2>3. table' \in Seq(Entries)
    BY <1>9, <2>2 DEF ChildReady, AddedHere
  <2>6. fw' \subseteq AllPorts /\ fails' \in Nat
    <3>1. fw \subseteq AllPorts /\ Head(call.todo).port \in AllPorts /\ fails \in Nat
      BY <2>1 DEF TypeOK, AllPorts
    <3>2. fw' = fw \cup {Head(call.todo).port} \/ fw' = fw
      BY <1>9 DEF ChildReady
    <3>3. fails' = fails \/ fails' = fails + 1
      BY <1>9 DEF ChildReady, Works, Fail
    <3>4. QED
      BY <3>1, <3>2, <3>3
  <2>4. call' \in CallRec
    BY <1>9, <2>1, CallTypes DEF ChildReady
  <2>5. QED
    BY <1>9, <2>3, <2>4, <2>6 DEF ChildReady, TypeOK, CallRec
<1>10. CASE DropChild
  <2>1. call' \in CallRec
    BY <1>10, CallTypes DEF DropChild, StartupFailed
  <2>2. proc' \in [Procs -> Processes]
    BY <1>10, ProcTypes DEF DropChild, TypeOK
  <2>3. QED
    BY <1>10, <2>1, <2>2 DEF DropChild, TypeOK, CallRec
<1>11. CASE EndStart
  <2>1. call' \in CallRec /\ running' \in BOOLEAN
    BY <1>11, CallTypes DEF EndStart, TypeOK
  <2>2. QED
    BY <1>11, <2>1 DEF EndStart, TypeOK, CallRec
<1>12. CASE RemoveRule
  <2>1. call' \in CallRec
    BY <1>12, CallTypes DEF RemoveRule, CallPCs
  <2>2. table[call.at].port \in Ports
    <3>1. call.at \in 1 .. Len(table)
      BY <1>12, CallTypes, TableTypes DEF RemoveRule, More, CallRec
    <3>2. QED
      BY <3>1, TableTypes
  <2>3. fw' \subseteq AllPorts /\ stale' \subseteq AllPorts /\ fails' \in Nat
    BY <1>12, <2>2 DEF RemoveRule, Works, Fail, TypeOK, AllPorts
  <2>4. QED
    BY <1>12, <2>1, <2>3 DEF RemoveRule, TypeOK, CallRec
<1>13. CASE KillListener
  <2>1. call' \in CallRec
    <3>1. call \in CallRec /\ call.at + 1 \in Nat \ {0}
      BY CallTypes DEF CallRec
    <3>2. QED
      BY <1>13, <3>1 DEF KillListener, CallRec, CallPCs
  <2>2. table[call.at].pid \in Procs
    BY <1>13, TableTypes DEF KillListener, At, CallInv
  <2>3. proc' \in [Procs -> Processes]
    BY <1>13, <2>2, ProcTypes DEF KillListener, TypeOK
  <2>4. QED
    BY <1>13, <2>1, <2>3 DEF KillListener, TypeOK, CallRec
<1>14. CASE EndSweep
  <2>1. call' \in CallRec
    <3>1. call.next \in {"return", "start", "exit"}
      BY DEF TypeOK
    <3>2. \A pc \in CallPCs : [NoCall EXCEPT !.pc = pc] \in CallRec
      BY CallTypes DEF CallRec
    <3>3. AfterSweep \in CallRec
      BY <3>1, <3>2, CallTypes DEF AfterSweep, CallPCs
    <3>4. QED
      BY <1>14, <3>3 DEF EndSweep
  <2>2. table' = <<>> /\ running' = FALSE /\ asked' = {} /\ UNCHANGED <<phase, native, database, firewall, proc, fails, crashes>>
    BY <1>14 DEF EndSweep, Cleared
  <2>3. <<>> \in Seq(Entries)
    OBVIOUS
  <2>4. QED
    BY <2>1, <2>2, <2>3 DEF TypeOK, CallRec
<1>15. CASE Release \/ Crash
  <2>1. call' \in CallRec /\ proc' \in [Procs -> Processes]
    BY <1>15, CallTypes, ProcTypes DEF Release, Crash, Gone
  <2>2. OwnedPorts \subseteq AllPorts
    BY TableTypes DEF OwnedPorts, AllPorts
  <2>3. fw' \subseteq AllPorts /\ stale' \subseteq AllPorts /\ fails' \in Nat /\ crashes' \in Nat
    BY <1>15, <2>2 DEF Release, Crash, Works, Fail, TypeOK, AllPorts
  <2>4. phase' = "down" /\ table' = <<>> /\ running' = FALSE /\ native' = "unset" /\ asked' = {} /\ UNCHANGED database
    BY <1>15 DEF Release, Crash, Gone
  <2>5. <<>> \in Seq(Entries)
    OBVIOUS
  <2>6. QED
    BY <2>1, <2>3, <2>4, <2>5 DEF TypeOK, CallRec
<1>16. CASE (\E p \in Procs : ChildStep(p)) \/ ListenerFails \/ OtherForks \/ OtherEnds
  <2>1. proc' \in [Procs -> Processes]
    <3>1. proc \in [Procs -> Processes]
      BY DEF TypeOK
    <3>2. \A p \in Procs : \A st \in ProcStates, b \in BOOLEAN :
            /\ [proc[p] EXCEPT !.st = st] \in Processes
            /\ [proc[p] EXCEPT !.st = st, !.ready = b] \in Processes
            /\ [proc[p] EXCEPT !.told = FALSE] \in Processes
      BY <3>1 DEF Processes
    <3>3. CASE \E p \in Procs : ChildStep(p)
      <4>1. PICK p \in Procs : ChildStep(p)
        BY <3>3
      <4>2. \E q \in Processes : proc' = [proc EXCEPT ![p] = q]
        <5>1. CASE Arm(p)
          BY <5>1, <3>2 DEF Arm, ProcStates
        <5>2. CASE CheckParent(p)
          BY <5>2, <3>2, ProcTypes DEF CheckParent, ProcStates
        <5>3. CASE Bind(p)
          BY <5>3, <3>2, ProcTypes DEF Bind, ProcStates
        <5>4. CASE TermDelivered(p)
          <6>1. [proc[p] EXCEPT !.told = FALSE] \in Processes /\ Exited(proc[p]) \in Processes
            <7>1. proc[p] \in Processes
              BY <3>1
            <7>2. QED
              BY <7>1, ProcTypes DEF Processes
          <6>2. proc' = [proc EXCEPT ![p] = [proc[p] EXCEPT !.told = FALSE]] \/ proc' = [proc EXCEPT ![p] = Exited(proc[p])]
            BY <5>4 DEF TermDelivered
          <6>3. QED
            BY <6>1, <6>2
        <5>5. QED
          BY <4>1, <5>1, <5>2, <5>3, <5>4 DEF ChildStep
      <4>3. QED
        BY <3>1, <4>2
    <3>4. CASE ListenerFails \/ OtherForks \/ OtherEnds
      BY <3>1, <3>4, ProcTypes DEF ListenerFails, OtherForks, OtherEnds
    <3>5. QED
      BY <1>16, <3>3, <3>4
  <2>2. UNCHANGED <<phase, memory, database, firewall, call, crashes>> /\ fails' \in Nat
    BY <1>16 DEF ChildStep, ListenerFails, OtherForks, OtherEnds, Fail, TypeOK
  <2>3. QED
    BY <2>1, <2>2 DEF TypeOK
<1>17. QED
  BY <1>1, <1>2, <1>3, <1>4, <1>5, <1>6, <1>7, <1>8, <1>9, <1>10, <1>11, <1>12, <1>13, <1>14, <1>15, <1>16
     DEF Next, CallStep
----------------------------------------------------------------------------

LEMMA CallInit == Init => CallInv
  BY DEF Init, CallInv, NoCall

LEMMA CallStepInv == TypeOK /\ CallInv /\ [Next]_vars => CallInv'
<1> SUFFICES ASSUME TypeOK, CallInv, [Next]_vars PROVE CallInv'
  OBVIOUS
<1> USE DEF memory, database, firewall, At, Idle, Goto
<1>t. call \in CallRec /\ phase \in {"down", "boot", "serve"}
  BY CallTypes DEF TypeOK
<1>s. \A next \in {"return", "start", "exit"} : Sweep(next).pc = "sweep"
  BY DEF Sweep, NoCall
<1>1. CASE UNCHANGED vars
  BY <1>1 DEF vars, CallInv
<1>2. CASE Boot
  BY <1>2, <1>t DEF Boot, CallInv, NoCall, CallRec
<1>17. CASE Listen
  BY <1>17, <1>t DEF Listen, CallInv, NoCall
<1>18. CASE ListenFails
  BY <1>18, <1>s DEF ListenFails, CallInv, NoCall
<1>3. CASE StartRequest
  BY <1>3, <1>t DEF StartRequest, CallInv, CallRec
<1>19. CASE StopRequest \/ Terminate
  BY <1>19, <1>s DEF StopRequest, Terminate, CallInv
<1>20. CASE RestartRequest
  BY <1>20, <1>s, <1>t DEF RestartRequest, CallInv, CallRec
<1>4. CASE SetConfig \/ RuleAdd \/ RuleUpdate \/ RuleDelete
  BY <1>4 DEF SetConfig, RuleAdd, RuleUpdate, RuleDelete, EditRules, CallInv
<1>5. CASE BeginStart
  BY <1>5, <1>t DEF BeginStart, CallInv, NoCall, Return
<1>6. CASE SkipRule
  <2>1. call'.pc = "rule" /\ UNCHANGED <<phase, running, native>> /\ phase # "down"
    BY <1>6, <1>t DEF SkipRule, NextRule, CallRec, CallInv, NoCall
  <2>2. ~running
    BY <1>6 DEF SkipRule, CallInv
  <2>3. QED
    BY <2>1, <2>2 DEF CallInv
<1>21. CASE RefuseRule \/ ForkFails \/ DropChild
  <2>1. call' = Sweep("return") /\ UNCHANGED <<phase, native>> /\ phase # "down"
    BY <1>21 DEF RefuseRule, ForkFails, DropChild, StartupFailed, CallInv, NoCall
  <2>2. QED
    BY <2>1, <1>s DEF CallInv
<1>7. CASE ForkRule
  BY <1>7, <1>t DEF ForkRule, CallInv, NoCall, CallRec
<1>8. CASE ChildReady
  <2>1. call'.pc = "rule" /\ UNCHANGED <<phase, running, native>> /\ phase # "down"
    BY <1>8, <1>t DEF ChildReady, NextRule, CallRec, CallInv, NoCall
  <2>2. ~running /\ native' = native
    BY <1>8, <2>1 DEF ChildReady, CallInv
  <2>3. QED
    BY <2>1, <2>2 DEF CallInv
<1>9. CASE ChildNotReady
  BY <1>9, <1>t DEF ChildNotReady, CallInv, NoCall, CallRec
<1>10. CASE EndStart
  <2>1. UNCHANGED <<phase, native>> /\ phase # "down"
    BY <1>10 DEF EndStart, CallInv, NoCall
  <2>2. CASE call' = Sweep("return")
    BY <2>1, <2>2, <1>s DEF CallInv
  <2>3. CASE call' = Return /\ running' = TRUE
    BY <2>1, <2>3 DEF CallInv, Return, NoCall
  <2>4. QED
    BY <1>10, <2>2, <2>3 DEF EndStart
<1>11. CASE RemoveRule
  <2>1. call.at \in DOMAIN table
    BY <1>11, <1>t, TableTypes DEF RemoveRule, More, CallRec
  <2>2. QED
    BY <1>11, <1>t, <2>1 DEF RemoveRule, More, CallInv, NoCall, CallRec
<1>12. CASE KillListener
  BY <1>12, <1>t DEF KillListener, CallInv, NoCall, CallRec
<1>13. CASE EndSweep
  <2>1. table' = <<>> /\ running' = FALSE /\ UNCHANGED <<phase, native>> /\ phase # "down"
    BY <1>13 DEF EndSweep, Cleared, CallInv, NoCall
  <2>2. call'.pc \in {"idle", "listen", "start", "release"} /\ (call'.pc = "listen" => phase = "boot")
    <3>1. CASE call.next = "return"
      BY <1>13, <3>1 DEF EndSweep, AfterSweep, Return, NoCall
    <3>2. CASE call.next = "start"
      BY <1>13, <3>2 DEF EndSweep, AfterSweep, NoCall
    <3>3. CASE call.next = "exit"
      BY <1>13, <3>3 DEF EndSweep, AfterSweep, NoCall
    <3>4. QED
      BY <1>t, <3>1, <3>2, <3>3 DEF CallRec
  <2>3. QED
    BY <2>1, <2>2 DEF CallInv
<1>14. CASE Release \/ Crash
  BY <1>14 DEF Release, Crash, Gone, CallInv, NoCall
<1>15. CASE (\E p \in Procs : ChildStep(p)) \/ ListenerFails \/ OtherForks \/ OtherEnds
  BY <1>15 DEF ChildStep, ListenerFails, OtherForks, OtherEnds, CallInv
<1>16. QED
  BY <1>1, <1>2, <1>3, <1>4, <1>5, <1>6, <1>7, <1>8, <1>9, <1>10, <1>11, <1>12, <1>13, <1>14, <1>15,
     <1>17, <1>18, <1>19, <1>20, <1>21 DEF Next, CallStep

----------------------------------------------------------------------------

(* An orphan that has passed its check was told to die, or cannot hear it.    *)
OrphanInv == \A p \in Procs :
  proc[p].boss = "init" /\ proc[p].st \in {"checked", "listening"} => proc[p].told \/ proc[p].deaf

LEMMA OrphanStep == TypeOK /\ CallInv /\ OrphanInv /\ [Next]_vars => OrphanInv'
<1> SUFFICES ASSUME TypeOK, CallInv, OrphanInv, [Next]_vars PROVE OrphanInv'
  OBVIOUS
<1> USE DEF memory, database, firewall
<1>t. proc \in [Procs -> Processes]
  BY DEF TypeOK
<1>1. CASE UNCHANGED proc
  BY <1>1 DEF OrphanInv
<1>2. CASE \E p \in Procs : \/ proc' = [proc EXCEPT ![p] = Dead]
                            \/ proc' = [proc EXCEPT ![p] = Bystander]
                            \/ proc' = [proc EXCEPT ![p] = Exited(proc[p])]
                            \/ \E port \in AllPorts : proc' = [proc EXCEPT ![p] = Child(port)]
  <2>1. PICK p \in Procs : \/ proc' = [proc EXCEPT ![p] = Dead]
                            \/ proc' = [proc EXCEPT ![p] = Bystander]
                            \/ proc' = [proc EXCEPT ![p] = Exited(proc[p])]
                            \/ \E port \in AllPorts : proc' = [proc EXCEPT ![p] = Child(port)]
    BY <1>2
  <2>2. Dead.st = "none" /\ Bystander.st = "other" /\ Exited(proc[p]).st \in {"zombie", "none"}
        /\ \A port \in AllPorts : Child(port).st = "forked"
    BY <1>t DEF Dead, Bystander, Exited, Child, Processes
  <2>3. proc'[p].st \notin {"checked", "listening"}
    BY <2>1, <2>2, <1>t
  <2>4. \A q \in Procs \ {p} : proc'[q] = proc[q]
    BY <2>1, <1>t
  <2>5. QED
    BY <2>3, <2>4 DEF OrphanInv
<1>3. CASE \E p \in Procs : Arm(p) \/ CheckParent(p) \/ Bind(p) \/ TermDelivered(p)
  <2>1. PICK p \in Procs : Arm(p) \/ CheckParent(p) \/ Bind(p) \/ TermDelivered(p)
    BY <1>3
  <2>2. Exited(proc[p]).st \in {"zombie", "none"}
    BY <1>t DEF Exited, Dead, Processes
  <2>3. CASE Arm(p)
    BY <2>3, <1>t DEF Arm, OrphanInv, Processes
  <2>4. CASE CheckParent(p)
    BY <2>2, <2>4, <1>t DEF CheckParent, ParentAlive, OrphanInv, Processes
  <2>5. CASE Bind(p)
    BY <2>2, <2>5, <1>t DEF Bind, OrphanInv, Processes
  <2>6. CASE TermDelivered(p)
    BY <2>2, <2>6, <1>t DEF TermDelivered, OrphanInv, Processes
  <2>7. QED
    BY <2>1, <2>3, <2>4, <2>5, <2>6
<1>4. CASE Gone
  BY <1>4, <1>t DEF Gone, Orphaned, Dead, OrphanInv, Processes
<1>5. CASE ForkRule
  BY <1>2, <1>5, HeadTypes DEF ForkRule, AllPorts
<1>6. CASE DropChild
  <2>1. call.pid \in Procs
    BY <1>6 DEF DropChild, At, CallInv
  <2>2. QED
    BY <1>2, <1>6, <2>1 DEF DropChild
<1>7. CASE KillListener
  <2>1. table[call.at].pid \in Procs
    BY <1>7, TableTypes DEF KillListener, At, CallInv
  <2>2. QED
    BY <1>2, <1>7, <2>1 DEF KillListener
<1>8. CASE ListenerFails \/ OtherForks \/ OtherEnds
  BY <1>2, <1>8 DEF ListenerFails, OtherForks, OtherEnds
<1>9. CASE \E p \in Procs : ChildStep(p)
  BY <1>3, <1>9 DEF ChildStep
<1>10. CASE Release \/ Crash
  BY <1>4, <1>10 DEF Release, Crash
<1>11. CASE UNCHANGED vars
  BY <1>1, <1>11 DEF vars
<1>12. CASE \/ Boot \/ StartRequest \/ StopRequest \/ RestartRequest \/ Terminate \/ SetConfig
            \/ RuleAdd \/ RuleUpdate \/ RuleDelete \/ Listen \/ ListenFails \/ BeginStart
            \/ SkipRule \/ RefuseRule \/ ForkFails \/ ChildReady \/ ChildNotReady
            \/ EndStart \/ RemoveRule \/ EndSweep
  BY <1>1, <1>12 DEF Boot, StartRequest, StopRequest, RestartRequest, Terminate, SetConfig,
     RuleAdd, RuleUpdate, RuleDelete, EditRules, Listen, ListenFails, BeginStart, SkipRule, RefuseRule,
     ForkFails, ChildReady, ChildNotReady, EndStart, RemoveRule, EndSweep
<1>13. QED
  BY <1>5, <1>6, <1>7, <1>8, <1>9, <1>10, <1>11, <1>12 DEF Next, CallStep
----------------------------------------------------------------------------

NativePorts == IF native = "owned" THEN {Management} ELSE {}
EntryPorts == {table[i].port : i \in {j \in DOMAIN table : table[j].owned /\ ~Swept(j)}}

LEMMA OwnedParts == ASSUME TypeOK PROVE OwnedPorts = EntryPorts \cup NativePorts /\ Management \notin EntryPorts
<1>1. Management \notin EntryPorts
  BY TableTypes, ProxyAssumption DEF EntryPorts
<1>2. QED
  BY <1>1 DEF OwnedPorts, EntryPorts, NativePorts

LEMMA FirewallInit == Init => FirewallAccounted
  BY DEF Init, FirewallAccounted, OwnedPorts

(* Steps that touch neither the firewall nor an entry.                        *)
LEMMA FirewallSame ==
  ASSUME FirewallAccounted, UNCHANGED <<table, native, fw, stale>>,
         \A i \in DOMAIN table : Swept(i)' <=> Swept(i)
  PROVE  FirewallAccounted'
<1>1. OwnedPorts' = OwnedPorts
  BY DEF OwnedPorts
<1>2. QED
  BY <1>1 DEF FirewallAccounted

LEMMA FirewallStep == TypeOK /\ CallInv /\ FirewallAccounted /\ [Next]_vars => FirewallAccounted'
<1> SUFFICES ASSUME TypeOK, CallInv, FirewallAccounted, [Next]_vars PROVE FirewallAccounted'
  OBVIOUS
<1> USE DEF memory, database, firewall
<1>s. \A next \in {"return", "start", "exit"} : Sweep(next).pc = "sweep" /\ Sweep(next).at = 1
  BY DEF Sweep, NoCall
<1>o. OwnedPorts' = EntryPorts' \cup NativePorts'
  BY DEF OwnedPorts, EntryPorts, NativePorts
<1>n. NoCall.pc = "idle" /\ Return.pc \in {"idle", "listen"} /\ \A pc \in CallPCs : Goto(pc).pc = pc
  BY CallTypes DEF NoCall, Return, Goto, CallRec
<1>d. \A i \in DOMAIN table : i \in Nat /\ i >= 1
  BY TableTypes
<1>q. ASSUME UNCHANGED <<table, native, fw, stale>>, call.pc \notin {"sweep", "kill"},
             call'.pc \notin {"sweep", "kill"} \/ (call'.pc = "sweep" /\ call'.at = 1)
      PROVE  FirewallAccounted'
  BY <1>q, <1>d, FirewallSame DEF Swept
<1>1. CASE \/ UNCHANGED vars \/ SetConfig \/ RuleAdd \/ RuleUpdate \/ RuleDelete
           \/ (\E p \in Procs : ChildStep(p)) \/ ListenerFails \/ OtherForks \/ OtherEnds
  <2>1. UNCHANGED <<table, native, fw, stale, call>>
    BY <1>1 DEF vars, SetConfig, RuleAdd, RuleUpdate, RuleDelete, EditRules, ChildStep, ListenerFails,
       OtherForks, OtherEnds
  <2>2. QED
    BY <2>1, FirewallSame DEF Swept
<1>2. CASE Boot \/ ListenFails
  <2>1. UNCHANGED <<table, native, fw, stale>> /\ call.pc \notin {"sweep", "kill"}
    BY <1>2, <1>n DEF Boot, ListenFails, At, CallInv
  <2>2. call'.pc \notin {"sweep", "kill"} \/ (call'.pc = "sweep" /\ call'.at = 1)
    BY <1>2, <1>n, <1>s DEF Boot, ListenFails, CallPCs
  <2>3. QED
    BY <2>1, <2>2, <1>q
<1>3. CASE StartRequest \/ StopRequest \/ RestartRequest \/ Terminate
  <2>1. UNCHANGED <<table, native, fw, stale>> /\ call.pc \notin {"sweep", "kill"}
    BY <1>3, <1>n DEF StartRequest, StopRequest, RestartRequest, Terminate, Idle
  <2>2. call'.pc \notin {"sweep", "kill"} \/ (call'.pc = "sweep" /\ call'.at = 1)
    BY <1>3, <1>n, <1>s DEF StartRequest, StopRequest, RestartRequest, Terminate, CallPCs
  <2>3. QED
    BY <2>1, <2>2, <1>q
<1>4. CASE SkipRule \/ RefuseRule \/ ForkRule \/ ForkFails \/ ChildNotReady \/ DropChild \/ EndStart
  <2>1. UNCHANGED <<table, native, fw, stale>> /\ call.pc \notin {"sweep", "kill"}
    BY <1>4 DEF SkipRule, RefuseRule, ForkRule, ForkFails, ChildNotReady, DropChild, EndStart, At
  <2>2. call'.pc \notin {"sweep", "kill"} \/ (call'.pc = "sweep" /\ call'.at = 1)
    <3>1. CASE SkipRule
      BY <3>1, CallTypes DEF SkipRule, NextRule, CallRec
    <3>2. CASE ForkRule
      BY <3>2, CallTypes DEF ForkRule, CallRec
    <3>3. CASE RefuseRule \/ ForkFails \/ DropChild \/ ChildNotReady
      BY <3>3, <1>s, <1>n DEF RefuseRule, ForkFails, DropChild, ChildNotReady, StartupFailed, CallPCs
    <3>4. CASE EndStart
      BY <3>4, <1>s, <1>n DEF EndStart
    <3>5. QED
      BY <1>4, <3>1, <3>2, <3>3, <3>4
  <2>3. QED
    BY <2>1, <2>2, <1>q
<1>5. CASE BeginStart
  <2>1. table = <<>> /\ table' = <<>> /\ UNCHANGED <<native, fw, stale>> /\ call.pc = "start"
    BY <1>5 DEF BeginStart, At, CallInv
  <2>2. QED
    BY <2>1, FirewallSame
<1>6. CASE Listen
  <2>1. native = "unset" /\ UNCHANGED <<table, stale>> /\ call.pc = "listen" /\ call'.pc = "idle"
    BY <1>6, <1>n DEF Listen, At, CallInv
  <2>2. EntryPorts' = EntryPorts
    BY <2>1 DEF EntryPorts, Swept
  <2>3. NativePorts = {}
    BY <2>1 DEF NativePorts
  <2>4. CASE native' = "owned"
    <3>1. fw' = fw \cup {Management} /\ Management \notin fw /\ NativePorts' = {Management}
      BY <1>6, <2>1, <2>4 DEF Listen, NativePorts
    <3>2. QED
      BY <2>1, <2>2, <2>3, <3>1, <1>o, OwnedParts DEF FirewallAccounted
  <2>5. CASE native' # "owned"
    <3>1. fw' = fw /\ NativePorts' = {}
      BY <1>6, <2>1, <2>5 DEF Listen, NativePorts
    <3>2. QED
      BY <2>1, <2>2, <2>3, <3>1, <1>o, OwnedParts DEF FirewallAccounted
  <2>6. QED
    BY <2>4, <2>5
<1>7. CASE ChildReady
  <2> DEFINE port == Head(call.todo).port
             n == Len(table) + 1
  <2>1. UNCHANGED <<native, stale>> /\ call.pc = "wait" /\ call'.pc = "rule"
    BY <1>7, CallTypes DEF ChildReady, At, NextRule, CallRec, CallInv
  <2>2. NativePorts' = NativePorts
    BY <2>1 DEF NativePorts
  <2>3. PICK owned \in BOOLEAN :
          /\ table' = Append(table, Entry(port, owned))
          /\ fw' = IF owned THEN fw \cup {port} ELSE fw
          /\ owned => port \notin fw
    <3>1. CASE fw' = fw \cup {port} /\ table' = Append(table, Entry(port, port \notin fw))
      <4>1. fw' = IF port \notin fw THEN fw \cup {port} ELSE fw
        BY <3>1
      <4>2. QED
        BY <3>1, <4>1
    <3>2. CASE fw' = fw /\ table' = Append(table, Entry(port, FALSE))
      BY <3>2
    <3>3. QED
      BY <1>7, <3>1, <3>2 DEF ChildReady, AddedHere
  <2> HIDE DEF port
  <2>4. table \in Seq(Entries) /\ Len(table) \in Nat /\ Len(table') = n /\ DOMAIN table' = DOMAIN table \cup {n}
        /\ n \notin DOMAIN table
        /\ table'[n] = Entry(port, owned) /\ \A i \in DOMAIN table : table'[i] = table[i]
    BY <2>3 DEF TypeOK
  <2>5. Entry(port, owned).port = port /\ Entry(port, owned).owned = owned
    BY DEF Entry
  <2>6. EntryPorts' = EntryPorts \cup IF owned THEN {port} ELSE {}
    <3>1. \A i : ~Swept(i) /\ ~Swept(i)'
      BY <2>1 DEF Swept
    <3>2. EntryPorts = {table[i].port : i \in {j \in DOMAIN table : table[j].owned}}
          /\ EntryPorts' = {table'[i].port : i \in {j \in DOMAIN table' : table'[j].owned}}
      BY <3>1 DEF EntryPorts
    <3>3. QED
      BY <3>2, <2>4, <2>5
  <2>7. \A i \in DOMAIN table : table[i].owned => table[i].port \in fw
    <3>1. \A i \in DOMAIN table : table[i].owned => table[i].port \in EntryPorts
      BY <2>1 DEF EntryPorts, Swept
    <3>2. EntryPorts \subseteq fw
      BY OwnedParts DEF FirewallAccounted
    <3>3. QED
      BY <3>1, <3>2
  <2>8. \A i, j \in DOMAIN table' : table'[i].owned /\ table'[j].owned /\ table'[i].port = table'[j].port => i = j
    BY <2>3, <2>4, <2>5, <2>7 DEF FirewallAccounted
  <2>9. fw' = Admin \cup stale' \cup OwnedPorts' /\ OwnedPorts' \cap (Admin \cup stale') = {}
    BY <2>1, <2>2, <2>3, <2>6, <1>o, OwnedParts DEF FirewallAccounted
  <2>10. QED
    BY <2>8, <2>9 DEF FirewallAccounted
<1>8. CASE RemoveRule
  <2> DEFINE e == table[call.at]
  <2>1. UNCHANGED <<native, table>> /\ call.pc = "sweep" /\ call'.pc = "kill" /\ call'.at = call.at /\ call.at \in DOMAIN table
    <3>1. call \in CallRec /\ call' = Goto("kill") /\ call.pc = "sweep" /\ call.at <= Len(table) /\ call.at \in Nat \ {0}
      BY <1>8, CallTypes DEF RemoveRule, More, At, CallRec
    <3>2. call'.pc = "kill" /\ call'.at = call.at
      BY <3>1 DEF Goto, CallRec
    <3>3. QED
      BY <1>8, <3>1, <3>2, TableTypes DEF RemoveRule
  <2>2. NativePorts' = NativePorts
    BY <2>1 DEF NativePorts
  <2>3. \A i \in DOMAIN table : Swept(i)' <=> (Swept(i) \/ i = call.at)
    BY <2>1, <1>d DEF Swept
  <2>4. EntryPorts' = IF e.owned THEN EntryPorts \ {e.port} ELSE EntryPorts
    <3>1. ~Swept(call.at)
      BY <2>1, <1>d DEF Swept
    <3>2. QED
      BY <2>1, <2>3, <3>1 DEF EntryPorts, FirewallAccounted
  <2>5. e.owned => e.port \in EntryPorts
    BY <2>1, <1>d DEF EntryPorts, Swept
  <2>6. e.owned \in BOOLEAN /\ e.port # Management
    BY <2>1, TableTypes, ProxyAssumption
  <2>7. \/ /\ fw' = IF e.owned THEN fw \ {e.port} ELSE fw
           /\ stale' = stale
        \/ e.owned /\ stale' = stale \cup {e.port} /\ fw' = fw
    BY <1>8 DEF RemoveRule
  <2>8. fw' = Admin \cup stale' \cup OwnedPorts' /\ OwnedPorts' \cap (Admin \cup stale') = {}
    <3>0. fw = Admin \cup stale \cup EntryPorts \cup NativePorts /\ EntryPorts \cap (Admin \cup stale) = {}
          /\ NativePorts \cap (Admin \cup stale) = {} /\ NativePorts \subseteq {Management}
          /\ OwnedPorts' = EntryPorts' \cup NativePorts
      BY OwnedParts, <1>o, <2>2 DEF FirewallAccounted, NativePorts
    <3> HIDE DEF e
    <3>1. CASE ~e.owned
      BY <3>0, <3>1, <2>4, <2>7
    <3>2. CASE e.owned /\ stale' = stale
      BY <3>0, <3>2, <2>4, <2>5, <2>6, <2>7
    <3>3. CASE e.owned /\ stale' = stale \cup {e.port} /\ fw' = fw
      BY <3>0, <3>3, <2>4, <2>5, <2>6
    <3>4. QED
      BY <2>7, <3>1, <3>2, <3>3
  <2>9. QED
    BY <2>1, <2>8 DEF FirewallAccounted
<1>9. CASE KillListener
  <2>1. UNCHANGED <<table, native, fw, stale>> /\ call.pc = "kill" /\ call'.pc = "sweep" /\ call'.at = call.at + 1
        /\ call.at \in Nat
    BY <1>9, CallTypes DEF KillListener, At, CallRec
  <2>2. \A i \in DOMAIN table : Swept(i)' <=> Swept(i)
    BY <2>1, <1>d DEF Swept
  <2>3. QED
    BY <2>1, <2>2, FirewallSame
<1>10. CASE EndSweep
  <2>1. table' = <<>> /\ UNCHANGED <<native, fw, stale>> /\ call.pc = "sweep" /\ call.at > Len(table) /\ call.at \in Nat
    BY <1>10, CallTypes DEF EndSweep, Cleared, At, CallRec
  <2>2. EntryPorts = {}
    BY <2>1, TableTypes DEF EntryPorts, Swept
  <2>3. EntryPorts' = {} /\ NativePorts' = NativePorts
    BY <2>1 DEF EntryPorts, NativePorts
  <2>4. QED
    BY <2>1, <2>2, <2>3, <1>o, OwnedParts DEF FirewallAccounted
<1>11. CASE Release
  <2>1. table = <<>> /\ table' = <<>> /\ native' = "unset"
    BY <1>11 DEF Release, Gone, At, CallInv
  <2>2. OwnedPorts = NativePorts /\ OwnedPorts' = {}
    BY <2>1 DEF OwnedPorts, NativePorts
  <2>3. \/ fw' = (IF native = "owned" THEN fw \ {Management} ELSE fw) /\ stale' = stale
        \/ native = "owned" /\ stale' = stale \cup {Management} /\ fw' = fw
    BY <1>11 DEF Release
  <2>4. QED
    BY <2>1, <2>2, <2>3 DEF FirewallAccounted, NativePorts
<1>12. CASE Crash
  <2>1. table' = <<>> /\ native' = "unset" /\ fw' = fw /\ stale' = stale \cup OwnedPorts
    BY <1>12 DEF Crash, Gone
  <2>2. OwnedPorts' = {}
    BY <2>1 DEF OwnedPorts
  <2>3. QED
    BY <2>1, <2>2 DEF FirewallAccounted
<1>13. QED
  BY <1>1, <1>2, <1>3, <1>4, <1>5, <1>6, <1>7, <1>8, <1>9, <1>10, <1>11, <1>12 DEF Next, CallStep
----------------------------------------------------------------------------

TablePorts == {table[i].port : i \in DOMAIN table}

(* What a start has served and what it still has to serve is what it read.    *)
StartInv ==
  /\ running => TablePorts = asked
  /\ call.pc \in {"rule", "wait"} => TablePorts \cup Wanted(call.todo) = asked

LEMMA WantedTail ==
  ASSUME NEW rows \in Seq(Rows), rows # <<>>
  PROVE  Wanted(rows) = Wanted(Tail(rows)) \cup
           IF Head(rows).enabled /\ ~NativeRule(Head(rows)) THEN {Head(rows).port} ELSE {}
<1>1. Range(rows) = {Head(rows)} \cup Range(Tail(rows))
  <2>1. Len(rows) \in Nat /\ Len(rows) >= 1 /\ Head(rows) = rows[1] /\ DOMAIN rows = 1 .. Len(rows)
        /\ DOMAIN Tail(rows) = 1 .. Len(rows) - 1 /\ \A i \in 1 .. Len(rows) - 1 : Tail(rows)[i] = rows[i + 1]
    OBVIOUS
  <2>2. ASSUME NEW i \in DOMAIN rows PROVE i = 1 \/ (i - 1 \in DOMAIN Tail(rows) /\ Tail(rows)[i - 1] = rows[i])
    BY <2>1
  <2>3. ASSUME NEW i \in DOMAIN Tail(rows) PROVE i + 1 \in DOMAIN rows /\ Tail(rows)[i] = rows[i + 1]
    BY <2>1
  <2>4. Range(rows) \subseteq {Head(rows)} \cup Range(Tail(rows))
    <3>1. ASSUME NEW i \in DOMAIN rows PROVE rows[i] \in {Head(rows)} \cup Range(Tail(rows))
      BY <2>1, <2>2 DEF Range
    <3>2. QED
      BY <3>1 DEF Range
  <2>5. {Head(rows)} \cup Range(Tail(rows)) \subseteq Range(rows)
    BY <2>1, <2>3 DEF Range
  <2>6. QED
    BY <2>4, <2>5
<1>2. QED
  BY <1>1 DEF Wanted

LEMMA StartStep == TypeOK /\ CallInv /\ StartInv /\ [Next]_vars => StartInv'
<1> SUFFICES ASSUME TypeOK, CallInv, StartInv, [Next]_vars PROVE StartInv'
  OBVIOUS
<1> USE DEF memory, database, firewall
<1>s. \A next \in {"return", "start", "exit"} : Sweep(next).pc = "sweep"
  BY DEF Sweep, NoCall
<1>n. NoCall.pc = "idle" /\ Return.pc \in {"idle", "listen"} /\ \A pc \in CallPCs : Goto(pc).pc = pc
  BY CallTypes DEF NoCall, Return, Goto, CallRec
<1>q. ASSUME UNCHANGED <<table, running, asked>>, call'.pc \notin {"rule", "wait"} PROVE StartInv'
  BY <1>q DEF StartInv, TablePorts
<1>t. call.todo \in Seq(Rows)
  BY DEF TypeOK
<1>1. CASE \/ UNCHANGED vars \/ SetConfig \/ RuleAdd \/ RuleUpdate \/ RuleDelete
           \/ (\E p \in Procs : ChildStep(p)) \/ ListenerFails \/ OtherForks \/ OtherEnds
  <2>1. UNCHANGED <<table, running, asked, call>>
    BY <1>1 DEF vars, SetConfig, RuleAdd, RuleUpdate, RuleDelete, EditRules, ChildStep, ListenerFails,
       OtherForks, OtherEnds
  <2>2. QED
    BY <2>1 DEF StartInv, TablePorts
<1>2. CASE Boot \/ Listen \/ ListenFails \/ StartRequest \/ StopRequest \/ RestartRequest \/ Terminate
  <2>1. UNCHANGED <<table, running, asked>>
    BY <1>2 DEF Boot, Listen, ListenFails, StartRequest, StopRequest, RestartRequest, Terminate
  <2>2. call'.pc \notin {"rule", "wait"}
    BY <1>2, <1>s, <1>n DEF Boot, Listen, ListenFails, StartRequest, StopRequest, RestartRequest, Terminate, CallPCs
  <2>3. QED
    BY <2>1, <2>2, <1>q
<1>3. CASE BeginStart
  <2>1. PICK rows \in {Listed, <<>>} :
          /\ asked' = Wanted(rows) /\ table' = <<>>
          /\ call' = IF rows = <<>> THEN Return ELSE [NoCall EXCEPT !.pc = "rule", !.todo = rows]
    BY <1>3 DEF BeginStart
  <2>2. ~running' /\ TablePorts' = {}
    BY <1>3, <2>1 DEF BeginStart, At, CallInv, TablePorts
  <2>3. CASE rows = <<>>
    BY <2>1, <2>2, <2>3, <1>n DEF StartInv
  <2>4. CASE rows # <<>>
    <3>1. call'.pc = "rule" /\ call'.todo = rows
      BY <2>1, <2>4 DEF NoCall
    <3>2. QED
      BY <2>1, <2>2, <3>1 DEF StartInv, Wanted
  <2>5. QED
    BY <2>3, <2>4
<1>4. CASE SkipRule
  <2>1. call.todo # <<>> /\ call.pc = "rule" /\ UNCHANGED <<table, running, asked>>
        /\ call'.todo = Tail(call.todo) /\ (~Head(call.todo).enabled \/ NativeRule(Head(call.todo)))
    BY <1>4, CallTypes DEF SkipRule, At, NextRule, CallRec
  <2>2. Wanted(call'.todo) = Wanted(call.todo)
    BY <2>1, <1>t, WantedTail
  <2>3. TablePorts' = TablePorts
    BY <2>1 DEF TablePorts
  <2>4. QED
    BY <2>1, <2>2, <2>3 DEF StartInv
<1>5. CASE ForkRule
  <2>1. UNCHANGED <<table, running, asked>> /\ call'.todo = call.todo /\ call.pc = "rule"
    BY <1>5, CallTypes DEF ForkRule, At, CallRec
  <2>2. TablePorts' = TablePorts
    BY <2>1 DEF TablePorts
  <2>3. QED
    BY <2>1, <2>2 DEF StartInv
<1>6. CASE RefuseRule \/ ForkFails \/ ChildNotReady \/ DropChild
  BY <1>6, <1>q, <1>s, <1>n DEF RefuseRule, ForkFails, ChildNotReady, DropChild, StartupFailed, CallPCs
<1>7. CASE ChildReady
  <2>1. call.todo # <<>> /\ Proxied(Head(call.todo)) /\ call.pc = "wait" /\ ~running /\ UNCHANGED <<running, asked>>
    BY <1>7 DEF ChildReady, At, CallInv
  <2>2. PICK owned : table' = Append(table, Entry(Head(call.todo).port, owned))
    BY <1>7 DEF ChildReady
  <2>3. TablePorts' = TablePorts \cup {Head(call.todo).port}
    <3>1. table \in Seq(Entries)
      BY DEF TypeOK
    <3>2. DOMAIN table' = DOMAIN table \cup {Len(table) + 1} /\ Len(table) + 1 \notin DOMAIN table
          /\ table'[Len(table) + 1] = Entry(Head(call.todo).port, owned)
          /\ \A i \in DOMAIN table : table'[i] = table[i]
      BY <2>2, <3>1
    <3>3. Entry(Head(call.todo).port, owned).port = Head(call.todo).port
      BY DEF Entry
    <3>4. QED
      BY <3>2, <3>3 DEF TablePorts
  <2>4. Wanted(call.todo) = Wanted(call'.todo) \cup {Head(call.todo).port}
    <3>1. call'.todo = Tail(call.todo)
      BY <1>7, <2>1, CallTypes DEF ChildReady, NextRule, CallRec
    <3>2. QED
      BY <2>1, <3>1, <1>t, WantedTail DEF Proxied
  <2>5. QED
    BY <2>1, <2>3, <2>4 DEF StartInv
<1>8. CASE EndStart
  <2>1. UNCHANGED <<table, asked>> /\ call.pc = "rule" /\ call.todo = <<>> /\ call'.pc \notin {"rule", "wait"}
    BY <1>8, <1>s, <1>n DEF EndStart, At
  <2>2. Wanted(call.todo) = {}
    BY <2>1 DEF Wanted, Range
  <2>3. QED
    BY <2>1, <2>2 DEF StartInv, TablePorts
<1>9. CASE RemoveRule \/ KillListener
  <2>1. UNCHANGED <<table, running, asked>>
    BY <1>9 DEF RemoveRule, KillListener
  <2>2. call'.pc \notin {"rule", "wait"}
    <3>1. call \in CallRec
      BY CallTypes
    <3>2. CASE RemoveRule
      <4>1. call'.pc = "kill"
        BY <3>1, <3>2 DEF RemoveRule, Goto, CallRec
      <4>2. QED
        BY <4>1
    <3>3. CASE KillListener
      <4>1. call'.pc = "sweep"
        BY <3>1, <3>3 DEF KillListener, CallRec
      <4>2. QED
        BY <4>1
    <3>4. QED
      BY <1>9, <3>2, <3>3
  <2>3. QED
    BY <2>1, <2>2, <1>q
<1>10. CASE EndSweep
  <2>1. call'.pc \notin {"rule", "wait"}
    <3>1. call.next \in {"return", "start", "exit"}
      BY DEF TypeOK
    <3>2. AfterSweep.pc \notin {"rule", "wait"}
      BY <3>1, <1>n DEF AfterSweep, NoCall
    <3>3. QED
      BY <1>10, <3>2 DEF EndSweep
  <2>2. QED
    BY <1>10, <2>1 DEF EndSweep, StartInv
<1>11. CASE Release \/ Crash
  BY <1>11, <1>n DEF Release, Crash, Gone, StartInv
<1>12. QED
  BY <1>1, <1>2, <1>3, <1>4, <1>5, <1>6, <1>7, <1>8, <1>9, <1>10, <1>11 DEF Next, CallStep
----------------------------------------------------------------------------

Alive == {i \in DOMAIN table : ~Killed(i)}

(* The children of the server are those of the table and the one it waits for. *)
ChildInv ==
  /\ \A p \in Procs : Mine(p) <=> p \in InTable \cup Waiting
  /\ \A i \in Alive : proc[table[i].pid].port = table[i].port
  /\ \A i, j \in Alive : table[i].pid = table[j].pid => i = j
  /\ Waiting \cap InTable = {}
  /\ call.pc = "wait" => proc[call.pid].port = Head(call.todo).port

LEMMA ChildAccounts == ASSUME CallInv, ChildInv PROVE ChildrenAccounted
  BY DEF CallInv, ChildInv, ChildrenAccounted, Alive, Idle

(* Steps of one process that leave the table and the call alone.             *)
LEMMA ChildMoves ==
  ASSUME TypeOK, CallInv, ChildInv, UNCHANGED <<table, call>>, NEW p \in Procs, NEW q,
         proc' = [proc EXCEPT ![p] = q],
         Mine(p) <=> q.boss = "server" /\ q.st \notin {"none", "other"},
         Mine(p) => q.port = proc[p].port
  PROVE  ChildInv'
<1>1. proc \in [Procs -> Processes]
  BY DEF TypeOK
<1>2. Alive' = Alive /\ InTable' = InTable /\ Waiting' = Waiting
  BY DEF Alive, InTable, Waiting, Killed
<1>3. \A r \in Procs : Mine(r)' <=> Mine(r)
  BY <1>1 DEF Mine
<1>4. \A r \in Procs : Mine(r) => proc'[r].port = proc[r].port
  BY <1>1
<1>5. \A i \in Alive : table[i].pid \in Procs /\ Mine(table[i].pid)
  BY TableTypes DEF ChildInv, Alive, InTable
<1>6. call.pc = "wait" => call.pid \in Procs /\ Mine(call.pid)
  BY DEF ChildInv, CallInv, Waiting
<1>7. QED
  BY <1>2, <1>3, <1>4, <1>5, <1>6 DEF ChildInv

LEMMA ChildStepInv == TypeOK /\ CallInv /\ ChildInv /\ [Next]_vars => ChildInv'
<1> SUFFICES ASSUME TypeOK, CallInv, ChildInv, [Next]_vars PROVE ChildInv'
  OBVIOUS
<1> USE DEF memory, database, firewall
<1>s. \A next \in {"return", "start", "exit"} : Sweep(next).pc = "sweep" /\ Sweep(next).at = 1
  BY DEF Sweep, NoCall
<1>n. NoCall.pc = "idle" /\ Return.pc \in {"idle", "listen"} /\ \A pc \in CallPCs : Goto(pc).pc = pc
  BY CallTypes DEF NoCall, Return, Goto, CallRec
<1>d. \A i \in DOMAIN table : i \in Nat /\ i >= 1
  BY TableTypes
<1>p. proc \in [Procs -> Processes]
  BY DEF TypeOK
<1>q. ASSUME UNCHANGED <<table, proc>>, call.pc \notin {"sweep", "kill", "wait", "drop"},
             call'.pc \notin {"sweep", "kill", "wait", "drop"} \/ (call'.pc = "sweep" /\ call'.at = 1)
      PROVE  ChildInv'
  <2>1. Alive' = Alive /\ InTable' = InTable /\ Waiting' = {} /\ Waiting = {}
    BY <1>q, <1>d DEF Alive, InTable, Killed, Waiting
  <2>2. \A r \in Procs : Mine(r)' <=> Mine(r)
    BY <1>q DEF Mine
  <2>3. QED
    BY <1>q, <2>1, <2>2 DEF ChildInv
<1>1. CASE UNCHANGED vars \/ SetConfig \/ RuleAdd \/ RuleUpdate \/ RuleDelete
  <2>1. UNCHANGED <<table, proc, call>>
    BY <1>1 DEF vars, SetConfig, RuleAdd, RuleUpdate, RuleDelete, EditRules
  <2>2. Alive' = Alive /\ InTable' = InTable /\ Waiting' = Waiting
    BY <2>1 DEF Alive, InTable, Waiting, Killed
  <2>3. \A r \in Procs : Mine(r)' <=> Mine(r)
    BY <2>1 DEF Mine
  <2>4. QED
    BY <2>1, <2>2, <2>3 DEF ChildInv
<1>2. CASE Boot \/ Listen \/ ListenFails
  <2>1. UNCHANGED <<table, proc>> /\ call.pc \notin {"sweep", "kill", "wait", "drop"}
    BY <1>2, <1>n DEF Boot, Listen, ListenFails, At, CallInv
  <2>2. call'.pc \notin {"sweep", "kill", "wait", "drop"} \/ (call'.pc = "sweep" /\ call'.at = 1)
    BY <1>2, <1>n, <1>s DEF Boot, Listen, ListenFails, CallPCs
  <2>3. QED
    BY <2>1, <2>2, <1>q
<1>3. CASE StartRequest \/ StopRequest \/ RestartRequest \/ Terminate
  <2>1. UNCHANGED <<table, proc>> /\ call.pc \notin {"sweep", "kill", "wait", "drop"}
    BY <1>3, <1>n DEF StartRequest, StopRequest, RestartRequest, Terminate, Idle
  <2>2. call'.pc \notin {"sweep", "kill", "wait", "drop"} \/ (call'.pc = "sweep" /\ call'.at = 1)
    BY <1>3, <1>n, <1>s DEF StartRequest, StopRequest, RestartRequest, Terminate, CallPCs
  <2>3. QED
    BY <2>1, <2>2, <1>q
<1>4. CASE BeginStart
  <2>1. table = <<>> /\ table' = <<>> /\ proc' = proc /\ call.pc = "start"
    BY <1>4 DEF BeginStart, At, CallInv
  <2>2. call'.pc \notin {"sweep", "kill", "wait", "drop"}
    BY <1>4, <1>n DEF BeginStart, NoCall
  <2>3. QED
    BY <2>1, <2>2, <1>q
<1>5. CASE SkipRule \/ RefuseRule \/ ForkFails \/ EndStart
  <2>1. UNCHANGED <<table, proc>> /\ call.pc \notin {"sweep", "kill", "wait", "drop"}
    BY <1>5 DEF SkipRule, RefuseRule, ForkFails, EndStart, At
  <2>2. call'.pc \notin {"sweep", "kill", "wait", "drop"} \/ (call'.pc = "sweep" /\ call'.at = 1)
    <3>1. CASE SkipRule
      BY <3>1, CallTypes DEF SkipRule, NextRule, CallRec
    <3>2. CASE RefuseRule \/ ForkFails
      BY <3>2, <1>s DEF RefuseRule, ForkFails, StartupFailed
    <3>3. CASE EndStart
      BY <3>3, <1>s, <1>n DEF EndStart
    <3>4. QED
      BY <1>5, <3>1, <3>2, <3>3
  <2>3. QED
    BY <2>1, <2>2, <1>q
<1>6. CASE ForkRule
  <2>1. PICK p \in Procs :
          /\ proc[p].st = "none" /\ call.pc = "rule" /\ table' = table
          /\ proc' = [proc EXCEPT ![p] = Child(Head(call.todo).port)]
          /\ call' = [call EXCEPT !.pc = "wait", !.pid = p]
    BY <1>6 DEF ForkRule, At
  <2>2. call'.pc = "wait" /\ call'.pid = p /\ call'.todo = call.todo
    BY <2>1, CallTypes DEF CallRec
  <2>3. Child(Head(call.todo).port).boss = "server" /\ Child(Head(call.todo).port).st = "forked"
        /\ Child(Head(call.todo).port).port = Head(call.todo).port
    BY DEF Child
  <2>4. Alive' = Alive /\ InTable' = InTable /\ Waiting' = {p} /\ Waiting = {}
    BY <2>1, <2>2 DEF Alive, InTable, Killed, Waiting
  <2>5. ~Mine(p) /\ Mine(p)' /\ \A r \in Procs \ {p} : proc'[r] = proc[r] /\ (Mine(r)' <=> Mine(r))
    BY <1>p, <2>1, <2>3 DEF Mine
  <2>6. p \notin InTable /\ \A i \in Alive : table[i].pid \in Procs \ {p}
    BY <2>4, <2>5, TableTypes DEF ChildInv, Alive, InTable
  <2>7. proc'[call'.pid].port = Head(call'.todo).port
    BY <1>p, <2>1, <2>2, <2>3
  <2>8. QED
    BY <2>1, <2>4, <2>5, <2>6, <2>7 DEF ChildInv
<1>7. CASE ChildReady
  <2> DEFINE n == Len(table) + 1
  <2>1. /\ call.pc = "wait" /\ call'.pc = "rule" /\ proc' = proc
        /\ call.pid \in Procs
    BY <1>7, CallTypes DEF ChildReady, At, NextRule, CallRec, CallInv
  <2>2. PICK owned : table' = Append(table, Entry(Head(call.todo).port, owned))
    BY <1>7 DEF ChildReady
  <2>3. DOMAIN table' = DOMAIN table \cup {n} /\ n \notin DOMAIN table
        /\ table'[n] = Entry(Head(call.todo).port, owned) /\ \A i \in DOMAIN table : table'[i] = table[i]
    BY <2>2 DEF TypeOK
  <2>4. Entry(Head(call.todo).port, owned).pid = call.pid /\ Entry(Head(call.todo).port, owned).port = Head(call.todo).port
    BY DEF Entry
  <2>5. Alive = DOMAIN table /\ Alive' = DOMAIN table' /\ Waiting = {call.pid} /\ Waiting' = {}
    BY <2>1 DEF Alive, Killed, Waiting
  <2>6. InTable = {table[i].pid : i \in DOMAIN table} /\ InTable' = {table'[i].pid : i \in DOMAIN table'}
    BY <2>1 DEF InTable, Killed
  <2>7. InTable' = InTable \cup {call.pid} /\ call.pid \notin InTable
    BY <2>3, <2>4, <2>5, <2>6 DEF ChildInv
  <2>8. \A r \in Procs : Mine(r)' <=> Mine(r)
    BY <2>1 DEF Mine
  <2>9. \A i \in Alive' : proc'[table'[i].pid].port = table'[i].port
    BY <2>1, <2>3, <2>4, <2>5 DEF ChildInv
  <2>10. \A i, j \in Alive' : table'[i].pid = table'[j].pid => i = j
    <3>1. \A i \in DOMAIN table : table[i].pid # call.pid
      BY <2>6, <2>7
    <3>2. QED
      BY <2>3, <2>4, <2>5, <3>1 DEF ChildInv
  <2>11. QED
    BY <2>1, <2>5, <2>7, <2>8, <2>9, <2>10 DEF ChildInv
<1>8. CASE ChildNotReady
  <2>1. UNCHANGED <<table, proc>> /\ call.pc = "wait" /\ call'.pc = "drop" /\ call'.pid = call.pid
    BY <1>8, CallTypes DEF ChildNotReady, At, Goto, CallRec
  <2>2. Alive' = Alive /\ InTable' = InTable /\ Waiting' = Waiting
    BY <2>1 DEF Alive, InTable, Killed, Waiting
  <2>3. \A r \in Procs : Mine(r)' <=> Mine(r)
    BY <2>1 DEF Mine
  <2>4. QED
    BY <2>1, <2>2, <2>3 DEF ChildInv
<1>9. CASE DropChild
  <2>0. PICK p \in Procs : p = call.pid
    BY <1>9 DEF DropChild, At, CallInv
  <2>1. table' = table /\ call.pc = "drop" /\ call'.pc = "sweep" /\ call'.at = 1
        /\ proc' = [proc EXCEPT ![p] = Dead]
    BY <1>9, <2>0, <1>s DEF DropChild, StartupFailed, At
  <2>2. Alive' = Alive /\ InTable' = InTable /\ Waiting' = {} /\ Waiting = {p}
    BY <2>0, <2>1, <1>d DEF Alive, InTable, Killed, Waiting
  <2>3. ~Mine(p)' /\ \A r \in Procs \ {p} : proc'[r] = proc[r] /\ (Mine(r)' <=> Mine(r))
    BY <1>p, <2>1 DEF Mine, Dead
  <2>4. \A i \in Alive : table[i].pid \in Procs \ {p}
    BY <2>2, TableTypes DEF ChildInv, Alive, InTable
  <2>5. QED
    BY <2>1, <2>2, <2>3, <2>4 DEF ChildInv
<1>10. CASE RemoveRule
  <2>1. UNCHANGED <<table, proc>> /\ call.pc = "sweep" /\ call'.pc = "kill" /\ call'.at = call.at
    BY <1>10, CallTypes DEF RemoveRule, More, At, Goto, CallRec, CallPCs
  <2>2. Alive' = Alive /\ InTable' = InTable /\ Waiting' = Waiting
    BY <2>1 DEF Alive, InTable, Killed, Waiting
  <2>3. \A r \in Procs : Mine(r)' <=> Mine(r)
    BY <2>1 DEF Mine
  <2>4. QED
    BY <2>1, <2>2, <2>3 DEF ChildInv
<1>11. CASE KillListener
  <2>0. PICK p \in Procs : p = table[call.at].pid
    BY <1>11, TableTypes DEF KillListener, At, CallInv
  <2>1. /\ table' = table /\ call.pc = "kill" /\ call'.pc = "sweep" /\ call'.at = call.at + 1
        /\ call.at \in DOMAIN table /\ call.at \in Nat
        /\ proc' = [proc EXCEPT ![p] = Dead]
    BY <1>11, <2>0, CallTypes, TableTypes DEF KillListener, At, CallRec, CallInv
  <2>2. Alive' = Alive \ {call.at} /\ Waiting' = {} /\ Waiting = {} /\ call.at \in Alive
    BY <2>1, <1>d DEF Alive, Killed, Waiting
  <2>3. InTable = {table[i].pid : i \in Alive} /\ InTable' = {table[i].pid : i \in Alive'}
    BY <2>1 DEF InTable, Alive
  <2>4. InTable' = InTable \ {p} /\ p \in InTable
    BY <2>0, <2>2, <2>3 DEF ChildInv
  <2>5. ~Mine(p)' /\ \A r \in Procs \ {p} : proc'[r] = proc[r] /\ (Mine(r)' <=> Mine(r))
    BY <1>p, <2>1 DEF Mine, Dead
  <2>6. \A i \in Alive' : table[i].pid \in Procs \ {p}
    BY <2>0, <2>2, TableTypes DEF ChildInv, Alive
  <2>7. QED
    BY <2>1, <2>2, <2>4, <2>5, <2>6 DEF ChildInv
<1>12. CASE EndSweep
  <2>1. table' = <<>> /\ proc' = proc /\ call.pc = "sweep" /\ call.at > Len(table) /\ call.at \in Nat
    BY <1>12, CallTypes DEF EndSweep, Cleared, At, CallRec
  <2>2. call'.pc \notin {"wait", "drop"}
    <3>1. call.next \in {"return", "start", "exit"}
      BY DEF TypeOK
    <3>2. AfterSweep.pc \notin {"wait", "drop"}
      BY <3>1, <1>n DEF AfterSweep, NoCall
    <3>3. QED
      BY <1>12, <3>2 DEF EndSweep
  <2>3. InTable = {} /\ InTable' = {} /\ Alive' = {} /\ Waiting = {} /\ Waiting' = {}
    BY <2>1, <2>2, TableTypes DEF InTable, Alive, Killed, Waiting
  <2>4. \A r \in Procs : Mine(r)' <=> Mine(r)
    BY <2>1 DEF Mine
  <2>5. QED
    BY <2>2, <2>3, <2>4 DEF ChildInv
<1>13. CASE Release \/ Crash
  <2>1. table' = <<>> /\ call' = NoCall /\ proc' = [p \in Procs |-> Orphaned(proc[p])]
    BY <1>13 DEF Release, Crash, Gone
  <2>2. InTable' = {} /\ Alive' = {} /\ Waiting' = {}
    BY <2>1 DEF InTable, Alive, Waiting, NoCall
  <2>3. \A p \in Procs : Orphaned(proc[p]).boss = "init"
    BY <1>p DEF Orphaned, Dead, Processes
  <2>4. QED
    BY <2>1, <2>2, <2>3 DEF ChildInv, Mine, NoCall
<1>14. CASE \E p \in Procs : ChildStep(p)
  <2>1. PICK p \in Procs : ChildStep(p)
    BY <1>14
  <2>2. UNCHANGED <<table, call>>
    BY <2>1 DEF ChildStep
  <2>4. CASE Arm(p)
    BY <1>p, <2>2, <2>4, ChildMoves DEF Arm, Mine, Processes
  <2>x. ASSUME proc' = [proc EXCEPT ![p] = Exited(proc[p])], proc[p].st \notin {"none", "other"} PROVE ChildInv'
    <3>1. Mine(p) <=> Exited(proc[p]).boss = "server" /\ Exited(proc[p]).st \notin {"none", "other"}
      BY <1>p, <2>x DEF Exited, Dead, Mine, Processes
    <3>2. Mine(p) => Exited(proc[p]).port = proc[p].port
      BY <1>p DEF Exited, Mine, Processes
    <3>3. QED
      BY <2>2, <2>x, <3>1, <3>2, ChildMoves
  <2>5. CASE CheckParent(p)
    <3>1. CASE ParentAlive(p)
      BY <1>p, <2>2, <2>5, <3>1, ChildMoves DEF CheckParent, Mine, Processes
    <3>2. CASE ~ParentAlive(p)
      BY <2>5, <3>2, <2>x DEF CheckParent
    <3>3. QED
      BY <3>1, <3>2
  <2>6. CASE Bind(p)
    <3>1. CASE proc' = [proc EXCEPT ![p] = Exited(proc[p])]
      BY <2>6, <3>1, <2>x DEF Bind
    <3>2. CASE proc' = [proc EXCEPT ![p] = [proc[p] EXCEPT !.st = "listening", !.ready = TRUE]]
      BY <1>p, <2>2, <2>6, <3>2, ChildMoves DEF Bind, Mine, Processes
    <3>3. QED
      BY <2>6, <3>1, <3>2 DEF Bind
  <2>7. CASE TermDelivered(p)
    <3>1. CASE proc' = [proc EXCEPT ![p] = Exited(proc[p])]
      BY <2>7, <3>1, <2>x DEF TermDelivered
    <3>2. CASE proc' = [proc EXCEPT ![p] = [proc[p] EXCEPT !.told = FALSE]]
      BY <1>p, <2>2, <2>7, <3>2, ChildMoves DEF TermDelivered, Mine, Processes
    <3>3. QED
      BY <2>7, <3>1, <3>2 DEF TermDelivered
  <2>8. QED
    BY <2>1, <2>4, <2>5, <2>6, <2>7 DEF ChildStep
<1>15. CASE ListenerFails
  <2>1. PICK p \in Procs : proc[p].st = "listening" /\ proc' = [proc EXCEPT ![p] = Exited(proc[p])] /\ UNCHANGED <<table, call>>
    BY <1>15 DEF ListenerFails
  <2>2. Mine(p) <=> Exited(proc[p]).boss = "server" /\ Exited(proc[p]).st \notin {"none", "other"}
    BY <1>p, <2>1 DEF Exited, Dead, Mine, Processes
  <2>3. Mine(p) => Exited(proc[p]).port = proc[p].port
    BY <1>p DEF Exited, Mine, Processes
  <2>4. QED
    BY <2>1, <2>2, <2>3, ChildMoves
<1>16. CASE OtherForks \/ OtherEnds
  <2>1. PICK p \in Procs, q \in {Dead, Bystander} :
          proc[p].st \in {"none", "other"} /\ proc' = [proc EXCEPT ![p] = q] /\ UNCHANGED <<table, call>>
    BY <1>16 DEF OtherForks, OtherEnds
  <2>2. q.st \in {"none", "other"} /\ ~Mine(p)
    <3>1. Dead.st = "none" /\ Bystander.st = "other"
      BY DEF Dead, Bystander
    <3>2. QED
      BY <2>1, <3>1 DEF Mine
  <2>3. QED
    BY <2>1, <2>2, ChildMoves
<1>17. QED
  BY <1>1, <1>2, <1>3, <1>4, <1>5, <1>6, <1>7, <1>8, <1>9, <1>10, <1>11, <1>12, <1>13, <1>14, <1>15, <1>16
     DEF Next, CallStep

----------------------------------------------------------------------------
(* How long a call may go on: a bound of the steps that c, with n entries in  *)
(* the table, has left.                                                       *)
ToListen == 2 * MaxRules + 3
ToStart == 7 * MaxRules + 6
After(next) == CASE next = "return" -> ToListen
                 [] next = "exit" -> 1
                 [] next = "start" -> ToStart
StepsLeft(c, n) ==
  CASE c.pc = "idle" -> 0
    [] c.pc = "release" -> 1
    [] c.pc = "listen" -> ToListen
    [] c.pc = "start" -> ToStart
    [] c.pc = "rule" -> 3 * Len(c.todo) + 4 * MaxRules + 5
    [] c.pc = "wait" -> 3 * Len(c.todo) + 4 * MaxRules + 4
    [] c.pc = "drop" -> 3 * Len(c.todo) + 4 * MaxRules + 3
    [] c.pc = "sweep" -> 2 * (n + 1 - c.at) + 1 + After(c.next)
    [] c.pc = "kill" -> 2 * (n + 1 - c.at) + After(c.next)
Rank == StepsLeft(call, Len(table))
Longest == 9 * MaxRules + 7

(* The entries of a start and the rules before it are never more than         *)
(* IPV6_PROXY_MAX_RULES, and a sweep does not go past the entries.            *)
Fits(c, n) ==
  /\ n <= MaxRules
  /\ c.pc \in {"rule", "wait", "drop"} => Len(c.todo) + n <= MaxRules
  /\ c.pc \in {"wait", "drop"} => Len(c.todo) > 0
  /\ c.pc \in {"sweep", "kill"} => c.at <= n + 1
SizeInv == Fits(call, Len(table))

LEMMA StepsLeftRange ==
  ASSUME NEW c \in CallRec, NEW n \in Nat, Fits(c, n)
  PROVE  StepsLeft(c, n) \in 0 .. Longest /\ (StepsLeft(c, n) = 0 <=> c.pc = "idle")
<1>1. MaxRules \in Nat /\ Len(c.todo) \in Nat /\ c.at \in Nat \ {0} /\ c.next \in {"return", "start", "exit"} /\ c.pc \in CallPCs
  BY ProxyAssumption DEF CallRec
<1>2. After(c.next) \in 1 .. 7 * MaxRules + 6
  BY <1>1 DEF After, ToListen, ToStart
<1>3. CASE c.pc \in {"sweep", "kill"}
  <2>1. c.at <= n + 1 /\ n <= MaxRules
    BY <1>3 DEF Fits
  <2>2. n + 1 - c.at \in 0 .. MaxRules
    BY <1>1, <2>1
  <2>3. StepsLeft(c, n) = 2 * (n + 1 - c.at) + (IF c.pc = "sweep" THEN 1 ELSE 0) + After(c.next)
    <3>1. CASE c.pc = "sweep"
      BY <1>2, <2>2, <3>1 DEF StepsLeft
    <3>2. c.pc = "kill" => StepsLeft(c, n) = 2 * (n + 1 - c.at) + After(c.next)
      BY DEF StepsLeft
    <3>3. \A k, x \in Nat : 2 * k + 0 + x = 2 * k + x
      OBVIOUS
    <3>4. n + 1 - c.at \in Nat /\ After(c.next) \in Nat
      BY <1>1, <1>2, <2>2
    <3>5. CASE c.pc = "kill"
      BY <3>2, <3>3, <3>4, <3>5
    <3>6. QED
      BY <1>3, <3>1, <3>5
  <2>4. \A k, x, r \in Nat : k <= r /\ x \in 1 .. 7 * r + 6 =>
          2 * k + 0 + x \in 1 .. 9 * r + 7 /\ 2 * k + 1 + x \in 1 .. 9 * r + 7
    OBVIOUS
  <2>5. n + 1 - c.at \in Nat /\ n + 1 - c.at <= MaxRules /\ After(c.next) \in Nat
    BY <1>1, <1>2, <2>2
  <2>6. StepsLeft(c, n) \in 1 .. 9 * MaxRules + 7
    BY <1>1, <1>2, <2>3, <2>4, <2>5
  <2>7. \A x \in 1 .. 9 * MaxRules + 7 : x \in 0 .. 9 * MaxRules + 7 /\ x # 0
    BY <1>1
  <2>8. QED
    BY <1>3, <2>6, <2>7 DEF Longest
<1>4. CASE c.pc \in {"rule", "wait", "drop"}
  <2>1. Len(c.todo) <= MaxRules
    BY <1>1, <1>4 DEF Fits
  <2>2. PICK k \in {3, 4, 5} : StepsLeft(c, n) = 3 * Len(c.todo) + 4 * MaxRules + k
    BY <1>4 DEF StepsLeft
  <2>3. \A t, r \in Nat : t <= r => 3 * t + 4 * r + k \in 1 .. 9 * r + 7
    OBVIOUS
  <2>4. 3 * Len(c.todo) + 4 * MaxRules + k \in 1 .. 9 * MaxRules + 7
    BY <1>1, <2>1, <2>3
  <2>5. StepsLeft(c, n) \in 1 .. 9 * MaxRules + 7
    BY <2>2, <2>4
  <2>6. QED
    BY <1>1, <1>4, <2>5 DEF Longest
<1>5. CASE c.pc \in {"idle", "release", "listen", "start"}
  <2>1. CASE c.pc = "idle"
    BY <1>1, <2>1 DEF StepsLeft, Longest
  <2>2. CASE c.pc = "release"
    BY <1>1, <2>2 DEF StepsLeft, Longest
  <2>3. CASE c.pc = "listen"
    BY <1>1, <2>3 DEF StepsLeft, Longest, ToListen
  <2>4. CASE c.pc = "start"
    BY <1>1, <2>4 DEF StepsLeft, Longest, ToStart
  <2>5. QED
    BY <1>5, <2>1, <2>2, <2>3, <2>4
<1>6. QED
  BY <1>1, <1>3, <1>4, <1>5 DEF CallPCs

(* Where a step of a call may go, and that it is nearer the end there.        *)
Begins(d, next) == d.pc = "sweep" /\ d.at = 1 /\ d.next = next
LEMMA StepsLeftShrinks ==
  ASSUME NEW c \in CallRec, NEW d \in CallRec, NEW n \in Nat, NEW m \in Nat, Fits(c, n), Fits(d, m),
         \/ c.pc = "listen" /\ (d.pc = "idle" \/ Begins(d, "exit"))
         \/ c.pc = "start" /\ d.pc \in {"idle", "listen", "rule"}
         \/ c.pc = "rule" /\ \/ d.pc \in {"idle", "listen"} \/ Begins(d, "return")
                             \/ d.pc = "rule" /\ Len(d.todo) < Len(c.todo)
                             \/ d.pc = "wait" /\ Len(d.todo) = Len(c.todo)
         \/ c.pc = "wait" /\ \/ d.pc = "rule" /\ Len(d.todo) < Len(c.todo)
                             \/ d.pc = "drop" /\ Len(d.todo) = Len(c.todo)
         \/ c.pc = "drop" /\ Begins(d, "return")
         \/ c.pc = "sweep" /\ d.pc = "kill" /\ d.at = c.at /\ d.next = c.next /\ n = m
         \/ c.pc = "kill" /\ d.pc = "sweep" /\ d.at = c.at + 1 /\ d.next = c.next /\ n = m
         \/ c.pc = "sweep" /\ \/ c.next = "return" /\ d.pc \in {"idle", "listen"}
                              \/ c.next = "start" /\ d.pc = "start"
                              \/ c.next = "exit" /\ d.pc = "release"
         \/ c.pc = "release" /\ d.pc = "idle"
  PROVE  StepsLeft(d, m) < StepsLeft(c, n)
<1>1. MaxRules \in Nat \ {0} /\ \A e \in {c, d} : Len(e.todo) \in Nat /\ e.at \in Nat \ {0} /\ e.next \in {"return", "start", "exit"}
  BY ProxyAssumption DEF CallRec
<1>2. \A e \in {c, d} : After(e.next) \in 1 .. 7 * MaxRules + 6
  BY <1>1 DEF After, ToListen, ToStart
<1>l. Len(c.todo) \in Nat /\ Len(d.todo) \in Nat /\ MaxRules \in Nat
  BY <1>1
<1>v. /\ d.pc = "idle" => StepsLeft(d, m) = 0
      /\ d.pc = "listen" => StepsLeft(d, m) = 2 * MaxRules + 3
      /\ Begins(d, "return") => StepsLeft(d, m) = 2 * m + 1 + (2 * MaxRules + 3)
      /\ Begins(d, "exit") => StepsLeft(d, m) = 2 * m + 1 + 1
  <2>1. d.pc = "idle" => StepsLeft(d, m) = 0
    BY DEF StepsLeft
  <2>2. d.pc = "listen" => StepsLeft(d, m) = 2 * MaxRules + 3
    BY DEF StepsLeft, ToListen
  <2>3. ASSUME NEW next \in {"return", "exit"}, Begins(d, next)
        PROVE  StepsLeft(d, m) = 2 * m + 1 + After(next)
    BY <1>1, <1>2, <2>3 DEF Begins, StepsLeft
  <2>4. After("return") = 2 * MaxRules + 3 /\ After("exit") = 1
    BY DEF After, ToListen
  <2>5. QED
    BY <2>1, <2>2, <2>3, <2>4
<1>3. n <= MaxRules /\ m <= MaxRules
  BY DEF Fits
<1>4. /\ \A k \in Nat : k <= MaxRules => 2 * k + 2 < 2 * MaxRules + 3
      /\ \A t, k \in Nat : k <= MaxRules => 2 * k + 1 + (2 * MaxRules + 3) < 3 * t + 4 * MaxRules + 5
      /\ \A t, k \in Nat : k <= MaxRules /\ t > 0 => 2 * k + 1 + (2 * MaxRules + 3) < 3 * t + 4 * MaxRules + 3
      /\ \A t, u \in Nat : u < t => 3 * u + 4 * MaxRules + 5 < 3 * t + 4 * MaxRules + 4
      /\ \A t, u \in Nat : u < t => 3 * u + 4 * MaxRules + 5 < 3 * t + 4 * MaxRules + 5
      /\ \A t \in Nat : /\ 0 < 3 * t + 4 * MaxRules + 5
                        /\ 2 * MaxRules + 3 < 3 * t + 4 * MaxRules + 5
                        /\ 3 * t + 4 * MaxRules + 4 < 3 * t + 4 * MaxRules + 5
                        /\ 3 * t + 4 * MaxRules + 3 < 3 * t + 4 * MaxRules + 4
  BY <1>l
<1>5. CASE c.pc = "listen" /\ (d.pc = "idle" \/ Begins(d, "exit"))
  <2>1. StepsLeft(d, m) = 0 \/ StepsLeft(d, m) = 2 * m + 2
    BY <1>v, <1>5
  <2>2. StepsLeft(c, n) = 2 * MaxRules + 3
    BY <1>5 DEF StepsLeft, ToListen
  <2>3. QED
    BY <1>l, <1>3, <2>1, <2>2
<1>6. CASE c.pc = "start" /\ d.pc \in {"idle", "listen", "rule"}
  <2>1. d.pc = "rule" => Len(d.todo) <= MaxRules
    BY <1>1, <1>3 DEF Fits
  <2>2. QED
    BY <1>1, <1>6, <2>1 DEF StepsLeft, ToListen, ToStart
<1>7. CASE c.pc = "rule"
  <2>1. StepsLeft(c, n) = 3 * Len(c.todo) + 4 * MaxRules + 5
    BY <1>7 DEF StepsLeft
  <2>2. CASE Begins(d, "return")
    BY <1>l, <1>v, <1>3, <1>4, <2>1, <2>2
  <2>3. CASE d.pc \in {"idle", "listen"}
    <3>1. StepsLeft(d, m) = 0 \/ StepsLeft(d, m) = 2 * MaxRules + 3
      BY <1>v, <2>3
    <3>2. 0 < StepsLeft(c, n) /\ 2 * MaxRules + 3 < StepsLeft(c, n)
      BY <1>l, <1>4, <2>1
    <3>3. QED
      BY <3>1, <3>2
  <2>4. CASE d.pc = "rule" /\ Len(d.todo) < Len(c.todo)
    <3>1. StepsLeft(d, m) = 3 * Len(d.todo) + 4 * MaxRules + 5
      BY <2>4 DEF StepsLeft
    <3>2. 3 * Len(d.todo) + 4 * MaxRules + 5 < 3 * Len(c.todo) + 4 * MaxRules + 5
      BY <1>l, <1>4, <2>4
    <3>3. QED
      BY <2>1, <3>1, <3>2
  <2>5. CASE d.pc = "wait" /\ Len(d.todo) = Len(c.todo)
    <3>1. StepsLeft(d, m) = 3 * Len(c.todo) + 4 * MaxRules + 4
      BY <2>5 DEF StepsLeft
    <3>2. 3 * Len(c.todo) + 4 * MaxRules + 4 < 3 * Len(c.todo) + 4 * MaxRules + 5
      BY <1>l, <1>4
    <3>3. QED
      BY <2>1, <3>1, <3>2
  <2>6. QED
    BY <1>7, <2>2, <2>3, <2>4, <2>5
<1>8. CASE c.pc = "wait"
  <2>1. StepsLeft(c, n) = 3 * Len(c.todo) + 4 * MaxRules + 4
    BY <1>8 DEF StepsLeft
  <2>2. CASE d.pc = "rule" /\ Len(d.todo) < Len(c.todo)
    <3>1. StepsLeft(d, m) = 3 * Len(d.todo) + 4 * MaxRules + 5
      BY <2>2 DEF StepsLeft
    <3>2. 3 * Len(d.todo) + 4 * MaxRules + 5 < 3 * Len(c.todo) + 4 * MaxRules + 4
      BY <1>l, <1>4, <2>2
    <3>3. QED
      BY <2>1, <3>1, <3>2
  <2>3. CASE d.pc = "drop" /\ Len(d.todo) = Len(c.todo)
    <3>1. StepsLeft(d, m) = 3 * Len(c.todo) + 4 * MaxRules + 3
      BY <2>3 DEF StepsLeft
    <3>2. 3 * Len(c.todo) + 4 * MaxRules + 3 < 3 * Len(c.todo) + 4 * MaxRules + 4
      BY <1>l, <1>4
    <3>3. QED
      BY <2>1, <3>1, <3>2
  <2>4. QED
    BY <1>8, <2>2, <2>3
<1>9. CASE c.pc = "drop"
  <2>1. StepsLeft(c, n) = 3 * Len(c.todo) + 4 * MaxRules + 3 /\ Len(c.todo) > 0
    BY <1>9 DEF StepsLeft, Fits
  <2>2. StepsLeft(d, m) = 2 * m + 1 + (2 * MaxRules + 3)
    BY <1>v, <1>9
  <2>3. 2 * m + 1 + (2 * MaxRules + 3) < 3 * Len(c.todo) + 4 * MaxRules + 3
    BY <1>l, <1>3, <1>4, <2>1
  <2>4. QED
    BY <2>1, <2>2, <2>3
<1>10. CASE c.pc = "sweep" /\ d.pc = "kill" /\ d.at = c.at /\ d.next = c.next /\ n = m
  <2>1. StepsLeft(c, n) = 2 * (n + 1 - c.at) + 1 + After(c.next) /\ StepsLeft(d, m) = 2 * (n + 1 - c.at) + After(c.next)
    BY <1>10 DEF StepsLeft
  <2>2. QED
    BY <1>1, <1>2, <2>1
<1>11. CASE c.pc = "kill" /\ d.pc = "sweep" /\ d.at = c.at + 1 /\ d.next = c.next /\ n = m
  <2>1. StepsLeft(c, n) = 2 * (n + 1 - c.at) + After(c.next) /\ StepsLeft(d, m) = 2 * (n + 1 - (c.at + 1)) + 1 + After(c.next)
    BY <1>11 DEF StepsLeft
  <2>2. QED
    BY <1>1, <1>2, <2>1
<1>12. CASE c.pc = "sweep" /\ d.pc # "kill"
  <2>1. StepsLeft(c, n) = 2 * (n + 1 - c.at) + 1 + After(c.next) /\ c.at <= n + 1
    BY <1>12 DEF StepsLeft, Fits
  <2>2. StepsLeft(c, n) > After(c.next)
    BY <1>1, <1>2, <2>1
  <2>3. StepsLeft(d, m) \in Nat /\ StepsLeft(d, m) <= After(c.next)
    <3>1. CASE c.next = "return" /\ d.pc \in {"idle", "listen"}
      <4>1. After(c.next) = 2 * MaxRules + 3
        BY <3>1 DEF After, ToListen
      <4>2. StepsLeft(d, m) = 0 \/ StepsLeft(d, m) = 2 * MaxRules + 3
        BY <1>v, <3>1
      <4>3. QED
        BY <1>l, <4>1, <4>2
    <3>2. CASE c.next = "start" /\ d.pc = "start"
      BY <1>l, <3>2 DEF StepsLeft, After, ToStart
    <3>3. CASE c.next = "exit" /\ d.pc = "release"
      BY <3>3 DEF StepsLeft, After
    <3>4. QED
      BY <1>12, <3>1, <3>2, <3>3
  <2>4. QED
    BY <1>1, <1>2, <2>1, <2>2, <2>3
<1>13. CASE c.pc = "release" /\ d.pc = "idle"
  BY <1>13 DEF StepsLeft
<1>14. QED
  BY <1>5, <1>6, <1>7, <1>8, <1>9, <1>10, <1>11, <1>12, <1>13

LEMMA ListedFits == ASSUME TypeOK PROVE Listed \in Seq(Rows) /\ Len(Listed) \in Nat /\ Len(Listed) <= MaxRules
<1>1. rules \in Seq(Rows) /\ Len(rules) \in Nat /\ MaxRules \in Nat
  BY ProxyAssumption DEF TypeOK
<1>2. QED
  BY <1>1 DEF Listed

(* The steps of a call keep within the table and shorten it.                  *)
LEMMA CallShrinks ==
  ASSUME TypeOK, TypeOK', CallInv, CallInv', SizeInv, CallStep
  PROVE  SizeInv' /\ Rank' < Rank
<1> USE DEF memory, At
<1>n. call \in CallRec /\ call' \in CallRec /\ Len(table) \in Nat /\ Len(table)' \in Nat
  BY DEF TypeOK, CallRec
<1>m. MaxRules \in Nat \ {0} /\ Len(call.todo) \in Nat
  BY <1>n, ProxyAssumption DEF CallRec
<1>0. ASSUME Fits(call', Len(table)'), StepsLeft(call', Len(table)') < StepsLeft(call, Len(table))
      PROVE  SizeInv' /\ Rank' < Rank
  BY <1>0 DEF SizeInv, Rank
<1>f. Fits(call, Len(table))
  BY DEF SizeInv
<1>s. \A next \in {"return", "start", "exit"} : Begins(Sweep(next), next)
  BY DEF Begins, Sweep, NoCall
<1>r. NoCall.pc = "idle" /\ Return.pc \in {"idle", "listen"}
  BY DEF NoCall, Return
<1>1. ASSUME NEW next \in {"return", "exit"}, call' = Sweep(next), UNCHANGED table PROVE Fits(call', Len(table)')
  <2>1. call'.pc = "sweep" /\ call'.at = 1
    BY <1>1 DEF Sweep, NoCall
  <2>2. QED
    BY <1>1, <1>n, <1>f, <2>1 DEF Fits
<1>2. ASSUME call'.pc \in {"idle", "listen", "start", "release"}, Len(table)' <= MaxRules PROVE Fits(call', Len(table)')
  BY <1>2 DEF Fits
<1>3. CASE Listen
  <2>1. call.pc = "listen" /\ call'.pc = "idle" /\ UNCHANGED table
    BY <1>3, <1>r DEF Listen
  <2>2. QED
    BY <1>0, <1>2, <1>f, <1>n, <2>1, StepsLeftShrinks DEF Fits
<1>4. CASE ListenFails
  <2>1. call.pc = "listen" /\ call' = Sweep("exit") /\ UNCHANGED table
    BY <1>4 DEF ListenFails
  <2>2. QED
    BY <1>0, <1>1, <1>s, <1>f, <1>n, <2>1, StepsLeftShrinks
<1>5. CASE BeginStart
  <2>1. PICK rows \in {Listed, <<>>} :
          table' = <<>> /\ call' = IF rows = <<>> THEN Return ELSE [NoCall EXCEPT !.pc = "rule", !.todo = rows]
    BY <1>5 DEF BeginStart
  <2>2. Len(table)' = 0 /\ call.pc = "start"
    BY <1>5, <2>1 DEF BeginStart
  <2>3. Fits(call', Len(table)') /\ call'.pc \in {"idle", "listen", "rule"}
    <3>1. CASE rows = <<>>
      BY <1>m, <1>r, <2>1, <2>2, <3>1 DEF Fits
    <3>2. CASE rows = Listed /\ rows # <<>>
      <4>1. call'.pc = "rule" /\ call'.todo = Listed
        BY <2>1, <3>2 DEF NoCall
      <4>2. QED
        BY <1>m, <2>2, <4>1, ListedFits DEF Fits
    <3>3. QED
      BY <2>1, <3>1, <3>2
  <2>4. QED
    BY <1>0, <1>f, <1>n, <2>2, <2>3, StepsLeftShrinks
<1>6. CASE SkipRule
  <2>1. call.pc = "rule" /\ call'.pc = "rule" /\ call'.todo = Tail(call.todo) /\ call.todo # <<>> /\ UNCHANGED table
    BY <1>6, <1>n DEF SkipRule, NextRule, CallRec
  <2>2. Len(call'.todo) \in Nat /\ Len(call'.todo) + 1 = Len(call.todo)
    BY <1>n, <2>1 DEF CallRec
  <2>3. Fits(call', Len(table)')
    BY <1>m, <1>n, <1>f, <2>1, <2>2 DEF Fits
  <2>4. Len(call'.todo) < Len(call.todo)
    BY <1>m, <2>2
  <2>5. QED
    BY <1>0, <1>f, <1>n, <2>1, <2>3, <2>4, StepsLeftShrinks
<1>7. CASE RefuseRule \/ ForkFails \/ DropChild
  <2>1. call.pc \in {"rule", "drop"} /\ call' = Sweep("return") /\ UNCHANGED table
    BY <1>7 DEF RefuseRule, ForkFails, DropChild, StartupFailed
  <2>2. QED
    BY <1>0, <1>1, <1>s, <1>f, <1>n, <2>1, StepsLeftShrinks
<1>8. CASE ForkRule
  <2>1. call.pc = "rule" /\ call'.pc = "wait" /\ call'.todo = call.todo /\ call.todo # <<>> /\ UNCHANGED table
    BY <1>8, <1>n DEF ForkRule, CallRec
  <2>2. Len(call.todo) > 0
    BY <1>n, <2>1 DEF CallRec
  <2>3. Fits(call', Len(table)')
    BY <1>f, <2>1, <2>2 DEF Fits
  <2>4. QED
    BY <1>0, <1>f, <1>n, <2>1, <2>3, StepsLeftShrinks
<1>9. CASE ChildReady
  <2>1. call.pc = "wait" /\ call'.pc = "rule" /\ call'.todo = Tail(call.todo) /\ call.todo # <<>>
    BY <1>9, <1>n DEF ChildReady, NextRule, CallRec, CallInv
  <2>2. Len(call'.todo) \in Nat /\ Len(call'.todo) + 1 = Len(call.todo)
    BY <1>n, <2>1 DEF CallRec
  <2>3. Len(table)' = Len(table) + 1
    <3>1. \E e : table' = Append(table, e)
      BY <1>9 DEF ChildReady
    <3>2. table \in Seq(Entries)
      BY DEF TypeOK
    <3>3. QED
      BY <3>1, <3>2
  <2>4. Len(call'.todo) + Len(table)' = Len(call.todo) + Len(table)
    <3>1. \A t, u, k \in Nat : u + 1 = t => u + (k + 1) = t + k
      OBVIOUS
    <3>2. Len(call'.todo) + (Len(table) + 1) = Len(call.todo) + Len(table)
      BY <1>m, <1>n, <2>2, <3>1, Zenon
    <3>3. QED
      BY <2>3, <3>2
  <2>5. Len(call.todo) + Len(table) <= MaxRules
    BY <1>f, <2>1 DEF Fits
  <2>6. Len(table)' <= MaxRules
    BY <1>m, <1>n, <2>2, <2>3, <2>5
  <2>7. Fits(call', Len(table)')
    BY <2>1, <2>4, <2>5, <2>6 DEF Fits
  <2>8. Len(call'.todo) < Len(call.todo)
    BY <1>m, <2>2
  <2>9. QED
    BY <1>0, <1>f, <1>n, <2>1, <2>7, <2>8, StepsLeftShrinks
<1>10. CASE ChildNotReady
  <2>1. call.pc = "wait" /\ call'.pc = "drop" /\ call'.todo = call.todo /\ UNCHANGED table
    BY <1>10, <1>n DEF ChildNotReady, Goto, CallRec
  <2>2. Fits(call', Len(table)')
    BY <1>f, <2>1 DEF Fits
  <2>3. QED
    BY <1>0, <1>f, <1>n, <2>1, <2>2, StepsLeftShrinks
<1>11. CASE EndStart
  <2>1. call.pc = "rule" /\ UNCHANGED table /\ (call' = Sweep("return") \/ call' = Return)
    BY <1>11 DEF EndStart
  <2>2. CASE call' = Sweep("return")
    BY <1>0, <1>1, <1>s, <1>f, <1>n, <2>1, <2>2, StepsLeftShrinks
  <2>3. CASE call' = Return
    <3>1. call'.pc \in {"idle", "listen"}
      BY <1>r, <2>3
    <3>2. Fits(call', Len(table)')
      BY <1>f, <2>1, <3>1 DEF Fits
    <3>3. QED
      BY <1>0, <1>f, <1>n, <2>1, <3>1, <3>2, StepsLeftShrinks
  <2>4. QED
    BY <2>1, <2>2, <2>3
<1>12. CASE RemoveRule
  <2>1. call.pc = "sweep" /\ call'.pc = "kill" /\ call'.at = call.at /\ call'.next = call.next /\ UNCHANGED table
    BY <1>12, <1>n DEF RemoveRule, More, Goto, CallRec
  <2>2. Fits(call', Len(table)')
    BY <1>f, <2>1 DEF Fits
  <2>3. QED
    BY <1>0, <1>f, <1>n, <2>1, <2>2, StepsLeftShrinks
<1>13. CASE KillListener
  <2>1. call.pc = "kill" /\ call'.pc = "sweep" /\ call'.at = call.at + 1 /\ call'.next = call.next /\ UNCHANGED table
    BY <1>13, <1>n DEF KillListener, CallRec
  <2>2. call.at \in Nat /\ call.at <= Len(table)
    BY <1>n, <2>1, TableTypes DEF CallInv, CallRec
  <2>3. Fits(call', Len(table)')
    BY <1>n, <1>f, <2>1, <2>2 DEF Fits
  <2>4. QED
    BY <1>0, <1>f, <1>n, <2>1, <2>3, StepsLeftShrinks
<1>14. CASE EndSweep
  <2>1. call.pc = "sweep" /\ call' = AfterSweep /\ Len(table)' = 0
    BY <1>14 DEF EndSweep, Cleared
  <2>2. \/ call.next = "return" /\ call'.pc \in {"idle", "listen"}
        \/ call.next = "start" /\ call'.pc = "start"
        \/ call.next = "exit" /\ call'.pc = "release"
    BY <1>n, <1>r, <2>1 DEF AfterSweep, NoCall, CallRec
  <2>3. Fits(call', Len(table)')
    BY <1>m, <1>2, <2>1, <2>2
  <2>4. call'.pc # "kill"
    BY <2>2
  <2>5. QED
    BY <1>0, <1>f, <1>n, <2>1, <2>2, <2>3, StepsLeftShrinks
<1>15. CASE Release
  <2>1. call.pc = "release" /\ call'.pc = "idle" /\ Len(table)' = 0
    BY <1>15, <1>r DEF Release, Gone
  <2>2. QED
    BY <1>0, <1>2, <1>f, <1>m, <1>n, <2>1, StepsLeftShrinks
<1>16. QED
  BY <1>3, <1>4, <1>5, <1>6, <1>7, <1>8, <1>9, <1>10, <1>11, <1>12, <1>13, <1>14, <1>15 DEF CallStep

(* No other step of the system prolongs a call that is under way.             *)
LEMMA OthersKeep ==
  ASSUME TypeOK, CallInv, SizeInv, [Next]_vars, ~CallStep
  PROVE  SizeInv' /\ (~Idle => Rank' = Rank \/ (Idle /\ Rank = 0)')
<1> USE DEF memory, At, Idle
<1>0. call \in CallRec /\ Len(table) \in Nat /\ MaxRules \in Nat
  BY ProxyAssumption DEF TypeOK, CallRec
<1>1. CASE UNCHANGED <<call, table>>
  BY <1>1 DEF SizeInv, Rank
<1>2. CASE Crash
  <2>1. call' = NoCall /\ table' = <<>>
    BY <1>2 DEF Crash, Gone
  <2>2. call'.pc = "idle" /\ Len(table)' = 0
    BY <2>1 DEF NoCall
  <2>3. SizeInv'
    BY <1>0, <2>2 DEF SizeInv, Fits
  <2>4. Rank' = 0
    BY <2>2 DEF Rank, StepsLeft
  <2>5. QED
    BY <2>2, <2>3, <2>4
<1>3. CASE Boot \/ StartRequest \/ StopRequest \/ RestartRequest \/ Terminate
  <2>1. call.pc = "idle" /\ UNCHANGED table
    BY <1>3 DEF Boot, StartRequest, StopRequest, RestartRequest, Terminate, CallInv, NoCall
  <2>2. call'.pc \in {"start", "listen"} \/ (call'.pc = "sweep" /\ call'.at = 1)
    BY <1>0, <1>3 DEF Boot, StartRequest, StopRequest, RestartRequest, Terminate, Goto, Sweep, NoCall, CallRec
  <2>3. SizeInv'
    BY <1>0, <2>1, <2>2 DEF SizeInv, Fits
  <2>4. QED
    BY <2>1, <2>3
<1>4. CASE SetConfig \/ RuleAdd \/ RuleUpdate \/ RuleDelete
  BY <1>1, <1>4 DEF SetConfig, RuleAdd, RuleUpdate, RuleDelete, EditRules
<1>5. CASE (\E p \in Procs : ChildStep(p)) \/ ListenerFails \/ OtherForks \/ OtherEnds \/ UNCHANGED vars
  BY <1>1, <1>5 DEF ChildStep, ListenerFails, OtherForks, OtherEnds, vars
<1>6. QED
  BY <1>2, <1>3, <1>4, <1>5 DEF Next

----------------------------------------------------------------------------

IInv == TypeOK /\ CallInv /\ FirewallAccounted /\ StartInv /\ ChildInv /\ OrphanInv /\ SizeInv

LEMMA InitInv == Init => IInv
<1> SUFFICES ASSUME Init PROVE IInv
  OBVIOUS
<1>1. proc = [p \in Procs |-> Dead] /\ table = <<>> /\ call = NoCall /\ ~running
  BY DEF Init
<1>2. StartInv
  BY <1>1 DEF StartInv, NoCall
<1>3. InTable = {} /\ Alive = {} /\ Waiting = {}
  BY <1>1 DEF InTable, Alive, Waiting, NoCall
<1>4. ChildInv
  BY <1>1, <1>3 DEF ChildInv, Mine, Dead, NoCall
<1>5. OrphanInv
  BY <1>1 DEF OrphanInv, Dead
<1>6. SizeInv
  <2>1. Len(table) = 0 /\ call.pc = "idle" /\ MaxRules \in Nat
    BY <1>1, ProxyAssumption DEF NoCall
  <2>2. QED
    BY <2>1 DEF SizeInv, Fits
<1>7. QED
  BY <1>2, <1>4, <1>5, <1>6, TypeInit, CallInit, FirewallInit DEF IInv

(* The inductive invariant: types, what each point of a call implies, and the *)
(* accounts of the firewall, of the start, of the children, of orphans, and   *)
(* of how much of the rules and of the table a call has before it.            *)
THEOREM Invariance == Spec => []IInv
<1>1. Init => IInv
  BY InitInv
<1>2. IInv /\ [Next]_vars => IInv'
  <2> SUFFICES ASSUME IInv, [Next]_vars PROVE IInv'
    OBVIOUS
  <2>1. (TypeOK /\ CallInv /\ FirewallAccounted /\ StartInv /\ ChildInv /\ OrphanInv)'
    BY TypeStep, CallStepInv, FirewallStep, StartStep, ChildStepInv, OrphanStep DEF IInv
  <2>2. SizeInv'
    BY <2>1, CallShrinks, OthersKeep DEF IInv
  <2>3. QED
    BY <2>1, <2>2 DEF IInv
<1>3. QED
  BY <1>1, <1>2, PTL DEF Spec

(* Every variable keeps its type.                                             *)
THEOREM TypeCorrect == Spec => []TypeOK
<1>1. IInv => TypeOK
  BY DEF IInv
<1>2. QED
  BY <1>1, Invariance, PTL

(* The service takes back the firewall rules it opened, never the            *)
(* administrator's, and loses only what a crash or a failed command loses.    *)
THEOREM FirewallHolds == Spec => []FirewallAccounted
<1>1. IInv => FirewallAccounted
  BY DEF IInv
<1>2. QED
  BY <1>1, Invariance, PTL

(* No child is forgotten and no foreign process is killed.                    *)
THEOREM ChildrenHold == Spec => []ChildrenAccounted
<1>1. IInv => ChildrenAccounted
  BY ChildAccounts DEF IInv
<1>2. QED
  BY <1>1, Invariance, PTL

(* A running service serves every rule its start read.                        *)
THEOREM AllOrNothingHolds == Spec => []AllOrNothing
<1>1. IInv => AllOrNothing
  BY DEF IInv, StartInv, AllOrNothing, TablePorts
<1>2. QED
  BY <1>1, Invariance, PTL

(* Only a listener that inherited the server's handler outlives the server.   *)
THEOREM OrphansHold == Spec => []OrphansDie
<1>1. IInv => OrphansDie
  BY DEF IInv, OrphanInv, OrphansDie
<1>2. QED
  BY <1>1, Invariance, PTL

(* A call ends: each of its steps brings it nearer its end, nothing that       *)
(* happens beside it sends it back, and no start, stop or restart takes more  *)
(* than Longest steps of its own, whatever fails, dies or is edited.  It is    *)
(* the part of CallsReturn that no fairness is needed for.                     *)
CallsShorten == [][(CallStep => Rank' < Rank) /\ (~Idle => Rank' <= Rank)]_vars
THEOREM CallsAreBounded == Spec => [](Rank \in 0 .. Longest /\ (Rank = 0 <=> Idle)) /\ CallsShorten
<1>1. IInv => Rank \in 0 .. Longest /\ (Rank = 0 <=> Idle)
  <2> SUFFICES ASSUME IInv PROVE Rank \in 0 .. Longest /\ (Rank = 0 <=> Idle)
    OBVIOUS
  <2>1. call \in CallRec /\ Len(table) \in Nat /\ Fits(call, Len(table))
    BY DEF IInv, TypeOK, CallRec, SizeInv
  <2>2. QED
    BY <2>1, StepsLeftRange DEF Rank, Idle
<1>2. IInv /\ IInv' /\ [Next]_vars => [(CallStep => Rank' < Rank) /\ (~Idle => Rank' <= Rank)]_vars
  <2> SUFFICES ASSUME IInv, IInv', [Next]_vars
               PROVE  (CallStep => Rank' < Rank) /\ (~Idle => Rank' <= Rank)
    OBVIOUS
  <2>1. Rank \in Nat /\ Rank' \in Nat
    <3>1. \A n \in Nat : \A k \in 0 .. n : k \in Nat
      OBVIOUS
    <3>2. Longest \in Nat /\ Longest' = Longest
      BY ProxyAssumption DEF Longest
    <3>3. Rank \in 0 .. Longest
      BY <1>1
    <3>4. Rank' \in 0 .. Longest
      <4>1. call' \in CallRec /\ Len(table)' \in Nat /\ Fits(call', Len(table)')
        BY DEF IInv, TypeOK, CallRec, SizeInv
      <4>2. QED
        BY <4>1, StepsLeftRange DEF Rank
    <3>5. QED
      BY <3>1, <3>2, <3>3, <3>4
  <2>2. CallStep => Rank' < Rank
    BY CallShrinks DEF IInv
  <2>3. ~CallStep /\ ~Idle => Rank' = Rank \/ Rank' = 0
    BY OthersKeep DEF IInv
  <2>4. QED
    BY <2>1, <2>2, <2>3
<1>3. Spec => [](Rank \in 0 .. Longest /\ (Rank = 0 <=> Idle))
  BY <1>1, Invariance, PTL
<1>4. Spec => CallsShorten
  BY <1>2, Invariance, PTL DEF Spec, CallsShorten
<1>5. QED
  BY <1>3, <1>4
=============================================================================
