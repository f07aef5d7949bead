------------------------------ MODULE Ipv6Proxy ------------------------------
(***************************************************************************)
(* The IPv6 port proxy (src/src/system/ipv6_proxy.c): the event loop starts  *)
(* one listener process per enabled rule, opens the port in the firewall,    *)
(* and takes both back on stop.  The children run beside it, the server can  *)
(* die at any moment, and both firewall and listeners may outlive it.        *)
(*                                                                           *)
(* A handler blocks the event loop, so at most one call is under way; it is  *)
(* cut into the steps between which a child can move or the server can die:  *)
(* every fork, wait, kill and ip6tables command.                             *)
(***************************************************************************)
EXTENDS Naturals, Sequences, FiniteSets

CONSTANTS
  Ports,       \* IPv6 ports a rule may forward
  Management,  \* the port of the management service itself
  Admin,       \* ports that rules of the administrator accept
  Rows,        \* the rows ipv6_proxy_rules may hold
  Procs,       \* process identifiers, reused by the kernel
  None,        \* no process
  MaxRules,    \* IPV6_PROXY_MAX_RULES
  MaxRows,     \* bound: rows of the table ipv6_proxy_rules
  MaxFail,     \* bound: commands, forks and listeners that fail
  MaxCrash     \* bound: deaths of the server

ASSUME ProxyAssumption ==
  /\ Management \notin Ports
  /\ Rows \subseteq [port : Ports \cup {Management}, local : {"management", "other"}, enabled : BOOLEAN]
  /\ Admin \subseteq Ports \cup {Management}
  /\ None \notin Procs
  /\ MaxRules \in Nat \ {0}
  /\ {MaxRows, MaxFail, MaxCrash} \subseteq Nat

VARIABLES
  phase,    \* "down", "boot" (no signal handlers yet), "serve"
  auto,     \* ipv6_proxy_config: enabled and auto_start
  rules,    \* the rows of ipv6_proxy_rules, by id
  table,    \* g_rule_pids, g_rule_ports, g_rule_firewall_owned, g_rule_count
  running,  \* g_service_running
  native,   \* g_native_firewall_port and _owned: "unset", "shared", "owned"
  call,     \* the handler under way
  fw,       \* the ports ip6tables accepts
  stale,    \* history: those the service added and can no longer take back
  proc,     \* the processes
  asked,    \* history: the ports the last start read and has to serve
  fails, crashes

vars == <<phase, auto, rules, table, running, native, call, fw, stale,
          proc, asked, fails, crashes>>
memory == <<table, running, native, asked>>
database == <<auto, rules>>
firewall == <<fw, stale>>

AllPorts == Ports \cup {Management}
Range(s) == {s[i] : i \in DOMAIN s}

(* A rule on either management port that does not forward it to itself. *)
Conflict(r) == (r.port = Management) # (r.local = "management")
NativeRule(r) == r.port = Management /\ r.local = "management"
Proxied(r) == r.enabled /\ ~Conflict(r) /\ ~NativeRule(r)
Wanted(rows) == {r.port : r \in {q \in Range(rows) : q.enabled /\ ~NativeRule(q)}}
Listed == SubSeq(rules, 1, IF Len(rules) < MaxRules THEN Len(rules) ELSE MaxRules)

(* A process: `deaf` inherited the server's SIGTERM handler and its listening *)
(* sockets, `told` has a SIGTERM pending, `ready` has written to its pipe.    *)
Dead == [st |-> "none", port |-> Management, boss |-> "init",
         deaf |-> FALSE, told |-> FALSE, ready |-> FALSE]
Child(port) == [st |-> "forked", port |-> port, boss |-> "server",
                deaf |-> phase = "serve", told |-> FALSE, ready |-> FALSE]
Bystander == [Dead EXCEPT !.st = "other", !.boss = "server"]

(* exit: the server's child stays as a zombie, init reaps an orphan at once *)
Exited(q) == IF q.boss = "server" THEN [q EXCEPT !.st = "zombie", !.told = FALSE] ELSE Dead

(* The death of the server: children are given to init, those that asked for  *)
(* it (prctl PR_SET_PDEATHSIG) are sent SIGTERM.                              *)
Orphaned(q) ==
  IF q.st \in {"armed", "checked", "listening"}
  THEN [q EXCEPT !.boss = "init", !.told = TRUE]
  ELSE IF q.st = "forked" THEN [q EXCEPT !.boss = "init"] ELSE Dead

NoCall == [pc |-> "idle", todo |-> <<>>, nat |-> FALSE, pid |-> None, at |-> 1,
           next |-> "return"]
Idle == call.pc = "idle"
At(pc) == call.pc = pc
Goto(pc) == [call EXCEPT !.pc = pc]

(* The rollback of a start and the loop of a stop are the same code: remove   *)
(* the entry's firewall rule, kill the process, wait for it.                  *)
Sweep(next) == [NoCall EXCEPT !.pc = "sweep", !.next = next]
Swept(i) == \/ call.pc = "sweep" /\ i < call.at
            \/ call.pc = "kill" /\ i <= call.at
OwnedPorts == {table[i].port : i \in {j \in DOMAIN table : table[j].owned /\ ~Swept(j)}}
              \cup IF native = "owned" THEN {Management} ELSE {}

Budget == fails < MaxFail
Fail == Budget /\ fails' = fails + 1
Works == UNCHANGED fails

Init ==
  /\ phase = "down" /\ running = FALSE /\ native = "unset" /\ call = NoCall
  /\ table = <<>> /\ asked = {} /\ stale = {} /\ fails = 0 /\ crashes = 0
  /\ auto \in BOOLEAN
  /\ rules \in {<<>>} \cup {<<r>> : r \in Rows}
  /\ fw = Admin
  /\ proc = [p \in Procs |-> Dead]
-----------------------------------------------------------------------------
(* The server starts: ipv6_proxy_init, with auto-start, before the HTTP       *)
(* sockets are opened and before the signal handlers are installed.           *)
Boot ==
  /\ phase = "down"
  /\ phase' = "boot"
  /\ call' = IF auto THEN Goto("start") ELSE Goto("listen")
  /\ UNCHANGED <<memory, database, firewall, proc, fails, crashes>>

(* The sockets an orphan inherited keep the management port in use. *)
PortTaken == \E p \in Procs : proc[p].deaf /\ proc[p].boss = "init"

Listen ==
  /\ At("listen") /\ ~PortTaken
  /\ phase' = "serve" /\ call' = NoCall
  /\ \/ Works /\ fw' = fw \cup {Management}
        /\ native' = IF Management \in fw THEN "shared" ELSE "owned"
     \/ Fail /\ Management \notin fw /\ UNCHANGED <<fw, native>>
  /\ UNCHANGED <<database, table, running, asked, stale, proc, crashes>>

ListenFails ==
  /\ At("listen") /\ PortTaken
  /\ call' = Sweep("exit")
  /\ UNCHANGED <<phase, memory, database, firewall, proc, fails, crashes>>

(* The requests.  A start that finds the service running returns at once, a   *)
(* stop that finds nothing to stop too.                                       *)
StartRequest ==
  /\ phase = "serve" /\ Idle /\ ~running
  /\ call' = Goto("start")
  /\ UNCHANGED <<phase, memory, database, firewall, proc, fails, crashes>>

StopRequest ==
  /\ phase = "serve" /\ Idle /\ (running \/ table # <<>>)
  /\ call' = Sweep("return")
  /\ UNCHANGED <<phase, memory, database, firewall, proc, fails, crashes>>

RestartRequest ==
  /\ phase = "serve" /\ Idle
  /\ call' = IF running \/ table # <<>> THEN Sweep("start") ELSE Goto("start")
  /\ UNCHANGED <<phase, memory, database, firewall, proc, fails, crashes>>

(* SIGTERM or SIGINT while serving: the event loop leaves and cleans up. *)
Terminate ==
  /\ phase = "serve" /\ Idle
  /\ call' = Sweep("exit")
  /\ UNCHANGED <<phase, memory, database, firewall, proc, fails, crashes>>

SetConfig ==
  /\ phase = "serve" /\ Idle
  /\ auto' \in BOOLEAN
  /\ UNCHANGED <<phase, rules, memory, call, firewall, proc, fails, crashes>>

EditRules(rows) ==
  /\ phase = "serve" /\ Idle
  /\ rules' = rows
  /\ UNCHANGED <<phase, auto, memory, call, firewall, proc, fails, crashes>>

RuleAdd == \E r \in Rows :
  /\ r.enabled /\ ~Conflict(r) /\ Len(rules) < MaxRows
  /\ EditRules(Append(rules, r))
RuleUpdate == \E i \in DOMAIN rules, r \in Rows :
  /\ ~Conflict(r)
  /\ EditRules([rules EXCEPT ![i] = r])
RuleDelete == \E i \in DOMAIN rules :
  EditRules(SubSeq(rules, 1, i - 1) \o SubSeq(rules, i + 1, Len(rules)))
-----------------------------------------------------------------------------
(* ipv6_proxy_start: what follows a start or a restart that ends here. *)
Return == IF phase = "boot" THEN [NoCall EXCEPT !.pc = "listen"] ELSE NoCall

BeginStart ==
  /\ At("start")
  /\ \E rows \in {Listed, <<>>} :      \* an unreadable table reads as empty
       /\ IF rows = Listed THEN Works ELSE Fail
       /\ asked' = Wanted(rows) /\ table' = <<>>
       /\ call' = IF rows = <<>> THEN Return
                  ELSE [NoCall EXCEPT !.pc = "rule", !.todo = rows]
  /\ UNCHANGED <<phase, running, native, database, firewall, proc, crashes>>

NextRule == [call EXCEPT !.pc = "rule", !.todo = Tail(@), !.pid = None]

(* One rule that cannot be served undoes the whole start. *)
StartupFailed_Mut == NextRule
StartupFailed == Sweep("return")

SkipRule ==
  /\ At("rule") /\ call.todo # <<>>
  /\ LET r == Head(call.todo) IN
     /\ ~r.enabled \/ NativeRule(r)
     /\ call' = [NextRule EXCEPT !.nat = @ \/ r.enabled]
  /\ UNCHANGED <<phase, memory, database, firewall, proc, fails, crashes>>

RefuseRule ==
  /\ At("rule") /\ call.todo # <<>>
  /\ Head(call.todo).enabled /\ Conflict(Head(call.todo))
  /\ call' = StartupFailed
  /\ UNCHANGED <<phase, memory, database, firewall, proc, fails, crashes>>

ForkRule == \E p \in Procs :
  /\ At("rule") /\ call.todo # <<>> /\ Proxied(Head(call.todo))
  /\ proc[p].st = "none"
  /\ proc' = [proc EXCEPT ![p] = Child(Head(call.todo).port)]
  /\ call' = [call EXCEPT !.pc = "wait", !.pid = p]
  /\ UNCHANGED <<phase, memory, database, firewall, fails, crashes>>

ForkFails ==
  /\ At("rule") /\ call.todo # <<>> /\ Proxied(Head(call.todo))
  /\ IF \E p \in Procs : proc[p].st = "none" THEN Fail ELSE Works
  /\ call' = StartupFailed
  /\ UNCHANGED <<phase, memory, database, firewall, proc, crashes>>

(* The listener confirmed its socket: it is recorded and its port is opened.  *)
(* A rule that is there already is not the service's, nor is one that could   *)
(* not be added.                                                              *)
Entry_Mut(port, owned) == [port |-> port, pid |-> None, owned |-> owned]
Entry(port, owned) == [port |-> port, pid |-> call.pid, owned |-> owned]
AddedHere_Mut(port) == TRUE
AddedHere(port) == port \notin fw
ChildReady ==
  /\ At("wait") /\ proc[call.pid].ready
  /\ LET port == Head(call.todo).port IN
     \/ /\ Works
        /\ fw' = fw \cup {port}
        /\ table' = Append(table, Entry(port, AddedHere(port)))
     \/ /\ Fail /\ port \notin fw
        /\ fw' = fw
        /\ table' = Append(table, Entry(port, FALSE))
  /\ call' = NextRule
  /\ UNCHANGED <<phase, running, native, asked, database, stale, proc, crashes>>

(* poll timed out after two seconds, or the pipe was closed. *)
GaveUp_Mut == ~proc[call.pid].ready /\ proc[call.pid].st = "zombie"
GaveUp == ~proc[call.pid].ready
ChildNotReady ==
  /\ At("wait") /\ GaveUp
  /\ call' = Goto("drop")
  /\ UNCHANGED <<phase, memory, database, firewall, proc, fails, crashes>>

(* kill(SIGKILL) and waitpid *)
DropChild ==
  /\ At("drop")
  /\ proc' = [proc EXCEPT ![call.pid] = Dead]
  /\ call' = StartupFailed
  /\ UNCHANGED <<phase, memory, database, firewall, fails, crashes>>

EndStart ==
  /\ At("rule") /\ call.todo = <<>>
  /\ IF table = <<>> /\ ~call.nat
     THEN call' = Sweep("return") /\ UNCHANGED running
     ELSE call' = Return /\ running' = TRUE
  /\ UNCHANGED <<phase, table, native, asked, database, firewall, proc, fails, crashes>>
-----------------------------------------------------------------------------
(* The loop over the entries, of a stop and of a failed start.  What          *)
(* ip6tables -D returns is ignored.                                           *)
More == At("sweep") /\ call.at <= Len(table)

RemoveRule ==
  /\ More /\ call' = Goto("kill")
  /\ LET e == table[call.at] IN
     \/ Works /\ fw' = (IF e.owned THEN fw \ {e.port} ELSE fw) /\ UNCHANGED stale
     \/ Fail /\ e.owned /\ stale' = stale \cup {e.port} /\ UNCHANGED fw
  /\ UNCHANGED <<phase, memory, database, proc, crashes>>

KillListener ==
  /\ At("kill")
  /\ proc' = [proc EXCEPT ![table[call.at].pid] = Dead]
  /\ call' = [call EXCEPT !.pc = "sweep", !.at = @ + 1]
  /\ UNCHANGED <<phase, memory, database, firewall, fails, crashes>>

AfterSweep == CASE call.next = "return" -> Return
                [] call.next = "start"  -> [NoCall EXCEPT !.pc = "start"]
                [] call.next = "exit"   -> [NoCall EXCEPT !.pc = "release"]
Cleared_Mut == table
Cleared == <<>>
EndSweep ==
  /\ At("sweep") /\ call.at > Len(table)
  /\ table' = Cleared /\ running' = FALSE /\ asked' = {}
  /\ call' = AfterSweep
  /\ UNCHANGED <<phase, native, database, firewall, proc, fails, crashes>>

Gone ==
  /\ phase' = "down" /\ call' = NoCall
  /\ table' = <<>> /\ running' = FALSE /\ native' = "unset" /\ asked' = {}
  /\ proc' = [p \in Procs |-> Orphaned(proc[p])]

(* release_native_firewall_rule, then the process exits. *)
Release ==
  /\ At("release")
  /\ Gone
  /\ \/ Works /\ UNCHANGED stale
        /\ fw' = IF native = "owned" THEN fw \ {Management} ELSE fw
     \/ Fail /\ native = "owned" /\ stale' = stale \cup {Management} /\ UNCHANGED fw
  /\ UNCHANGED <<database, crashes>>

(* SIGKILL, a fault, or SIGTERM before the handlers are installed. *)
Crash ==
  /\ phase # "down" /\ crashes < MaxCrash
  /\ crashes' = crashes + 1
  /\ Gone
  /\ stale' = stale \cup OwnedPorts
  /\ UNCHANGED <<database, fw, fails>>
-----------------------------------------------------------------------------
(* The child: prctl, the comparison of getppid with the pid taken before the  *)
(* fork, then bind, listen and the byte that tells the server.                *)
Arm(p) ==
  /\ proc[p].st = "forked"
  /\ proc' = [proc EXCEPT ![p].st = "armed"]

ParentAlive_Mut(p) == TRUE
ParentAlive(p) == proc[p].boss = "server"
CheckParent(p) ==
  /\ proc[p].st = "armed"
  /\ proc' = [proc EXCEPT ![p] = IF ParentAlive(p) THEN [@ EXCEPT !.st = "checked"] ELSE Exited(@)]

Bind(p) ==
  /\ proc[p].st = "checked"
  /\ proc' = [proc EXCEPT ![p] =
       IF \E q \in Procs : proc[q].st = "listening" /\ proc[q].port = proc[p].port
       THEN Exited(@) ELSE [@ EXCEPT !.st = "listening", !.ready = TRUE]]

(* SIGTERM kills a child that has the default action.  The handler only       *)
(* clears g_running, a variable the child never reads, and select goes on.    *)
TermDelivered(p) ==
  /\ proc[p].told /\ proc[p].st \in {"armed", "checked", "listening"}
  /\ proc' = [proc EXCEPT ![p] = IF proc[p].deaf THEN [@ EXCEPT !.told = FALSE] ELSE Exited(@)]

ChildStep(p) ==
  /\ Arm(p) \/ CheckParent(p) \/ Bind(p) \/ TermDelivered(p)
  /\ UNCHANGED <<phase, memory, database, firewall, call, fails, crashes>>

(* accept or select fails: the listener leaves, the server does not notice. *)
ListenerFails == \E p \in Procs :
  /\ proc[p].st = "listening" /\ Fail
  /\ proc' = [proc EXCEPT ![p] = Exited(@)]
  /\ UNCHANGED <<phase, memory, database, firewall, call, crashes>>

(* Other children of the service (external): any free pid may become one. *)
OtherForks == \E p \in Procs :
  /\ phase # "down" /\ proc[p].st = "none"
  /\ proc' = [proc EXCEPT ![p] = Bystander]
  /\ UNCHANGED <<phase, memory, database, firewall, call, fails, crashes>>
OtherEnds == \E p \in Procs :
  /\ proc[p].st = "other"
  /\ proc' = [proc EXCEPT ![p] = Dead]
  /\ UNCHANGED <<phase, memory, database, firewall, call, fails, crashes>>
-----------------------------------------------------------------------------
(* The steps of a call once it is under way. *)
CallStep ==
  \/ Listen \/ ListenFails
  \/ BeginStart \/ SkipRule \/ RefuseRule \/ ForkRule \/ ForkFails
  \/ ChildReady \/ ChildNotReady \/ DropChild \/ EndStart
  \/ RemoveRule \/ KillListener \/ EndSweep \/ Release

Next ==
  \/ Boot \/ StartRequest \/ StopRequest \/ RestartRequest \/ Terminate
  \/ SetConfig \/ RuleAdd \/ RuleUpdate \/ RuleDelete
  \/ CallStep
  \/ Crash
  \/ \E p \in Procs : ChildStep(p)
  \/ ListenerFails \/ OtherForks \/ OtherEnds

Spec == Init /\ [][Next]_vars /\ WF_vars(CallStep)
-----------------------------------------------------------------------------
Entries == [port : Ports, pid : Procs, owned : BOOLEAN]
ProcStates == {"none", "forked", "armed", "checked", "listening", "zombie", "other"}
Processes == [st : ProcStates, port : AllPorts, boss : {"server", "init"},
              deaf : BOOLEAN, told : BOOLEAN, ready : BOOLEAN]
CallPCs == {"idle", "listen", "start", "rule", "wait", "drop", "sweep", "kill", "release"}

(* Every variable has its type. *)
TypeOK ==
  /\ phase \in {"down", "boot", "serve"}
  /\ auto \in BOOLEAN /\ running \in BOOLEAN
  /\ native \in {"unset", "shared", "owned"}
  /\ rules \in Seq(Rows) /\ asked \subseteq AllPorts
  /\ table \in Seq(Entries)
  /\ proc \in [Procs -> Processes]
  /\ fw \subseteq AllPorts /\ stale \subseteq AllPorts
  /\ call \in [pc : CallPCs, todo : Seq(Rows), nat : BOOLEAN, pid : Procs \cup {None},
                at : Nat \ {0}, next : {"return", "start", "exit"}]
  /\ fails \in Nat /\ crashes \in Nat

(* The firewall accepts what the administrator accepts, what the service has  *)
(* opened and still knows of, and what it lost to a crash or to a failed      *)
(* ip6tables -D; it owns no rule twice and none of the administrator's, so    *)
(* a stop takes back all it opened and nothing else (ipv6_proxy.c:51, 1253).  *)
FirewallAccounted ==
  /\ fw = Admin \cup stale \cup OwnedPorts
  /\ OwnedPorts \cap (Admin \cup stale) = {}
  /\ \A i, j \in DOMAIN table :
       table[i].owned /\ table[j].owned /\ table[i].port = table[j].port => i = j

Mine(p) == proc[p].boss = "server" /\ proc[p].st \notin {"none", "other"}
Waiting == IF call.pc \in {"wait", "drop"} THEN {call.pid} ELSE {}
Killed(i) == call.pc \in {"sweep", "kill"} /\ i < call.at
InTable == {table[i].pid : i \in {j \in DOMAIN table : ~Killed(j)}}

(* Each rule process of a live server is in its table or just being started,  *)
(* and each pid in the table is still its child for the entry's port, running *)
(* or unreaped: none is left behind by a stop or a failed start, and no stop  *)
(* kills a process that got the pid since (ipv6_proxy.c:1432, 1487).          *)
ChildrenAccounted ==
  /\ \A p \in Procs : Mine(p) <=> p \in InTable \cup Waiting
  /\ \A i \in DOMAIN table : ~Killed(i) => proc[table[i].pid].port = table[i].port
  /\ Idle /\ ~running => table = <<>>

(* A start is all or nothing: while the service runs, it has an entry for     *)
(* each enabled rule the start read that is not the management service's own, *)
(* and no other (ipv6_proxy.c:1446).                                          *)
AllOrNothing ==
  running /\ Idle => {table[i].port : i \in DOMAIN table} = asked

(* When the server dies, whichever step of its start a child was at, no       *)
(* listener goes on without a SIGTERM on its way to it, but for one forked    *)
(* while the server's own SIGTERM handler was installed (ipv6_proxy.c:1408).  *)
OrphansDie ==
  \A p \in Procs : proc[p].st = "listening" /\ proc[p].boss = "init" => proc[p].told \/ proc[p].deaf

(* Every call ends, whatever its children do (ipv6_proxy.c:1421).             *)
CallsReturn == ~Idle ~> Idle
=============================================================================
