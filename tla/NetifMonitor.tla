---------------------------- MODULE NetifMonitor ----------------------------
(***************************************************************************)
(* Traffic monitors of src/src/system/netif.c: slots, one "vnstat -l"      *)
(* process with a pipe per monitored interface, a detached reader thread   *)
(* per pipe.  The event loop (Main) switches monitors on and off; it and   *)
(* the telemetry worker ask for statistics and restart monitors whose      *)
(* process ended.  Sections under g_monitors_lock are one action, except   *)
(* the stop, and the start whose reader thread is not created: these wait  *)
(* for their process in waitpid; readers take no part in that lock.        *)
(* Descriptors are numbers of one table that other code of the process     *)
(* uses too; the lowest free one is given out.                             *)
(*                                                                         *)
(* A child has the SIGTERM handler of http_server.c:662 until its execl.   *)
(* The handler sets a variable that the child never reads, so a SIGTERM in *)
(* that time is lost and vnstat starts all the same ("deaf").              *)
(*                                                                         *)
(* Abstracted: the statistics; a line is read by one read; the write end,  *)
(* which is closed under the lock (that vnstat gets SIGPIPE when its       *)
(* reader is gone is one of the ways in which a process ends); mutexes     *)
(* that are initialised again while a reader holds them.  The monitors     *)
(* init_netif restores are requests like any other, although their         *)
(* children are forked before the handler is installed (main.c:52, :59)    *)
(* and cannot be deaf.  netif_cleanup_all_monitors has no caller.          *)
(***************************************************************************)
EXTENDS Integers

CONSTANTS Interfaces, NoIf,   \* interface names, the empty name
          Threads, Main,   \* callers of netif_get_stats, the event loop among them
          Slots,           \* MAX_NET_INTERFACES slots, numbered from 1
          MaxProc,         \* bound: processes started
          MaxFd,           \* the highest descriptor
          MaxFail          \* bound: pipes, forks, threads and configuration writes that fail

ASSUME ThreadsAssumption == Main \in Threads
ASSUME SizesAssumption == Slots \in Nat \ {0} /\ MaxProc \in Nat /\ MaxFd \in Nat /\ MaxFail \in Nat
ASSUME NamesAssumption == NoIf \notin Interfaces

VARIABLES
  slot,      \* g_monitors
  key,       \* the stored netif_monitor_<name>
  proc,      \* vnstat processes: interface and state
  fds,       \* what a descriptor refers to: FREE, ALIEN, or the pipe of a process
  reader,    \* the reader thread of each process
  pc, req,   \* where a caller is, the interface it is about
  fails      \* failures used

vars == <<slot, key, proc, fds, reader, pc, req, fails>>

Slot == 1 .. Slots
Proc == 1 .. MaxProc
Fd == 0 .. MaxFd
FREE == 0              \* nothing
ALIEN == MaxProc + 1   \* a file of other code

\* a zeroed NetifMonitor; pid 0 is no process, pipefd 0 is what memset leaves
Empty == [ifname |-> NoIf, pid |-> 0, pipefd |-> 0, running |-> FALSE]
NoReader == [pc |-> "none", mon |-> 1, fd |-> 0, file |-> FREE]

ProcState == {"none", "forked", "running", "term", "deaf", "zombie", "gone"}
Callers == {"idle", "ask", "restart", "undo", "undoReap", "reap", "close", "set", "clear"}

TypeOK ==
  /\ slot \in [Slot -> [ifname : Interfaces \cup {NoIf}, pid : 0 .. MaxProc, pipefd : Fd, running : BOOLEAN]]
  /\ key \in [Interfaces -> BOOLEAN]
  /\ proc \in [Proc -> [ifname : Interfaces \cup {NoIf}, state : ProcState]]
  /\ fds \in [Fd -> 0 .. MaxProc + 1]
  /\ reader \in [Proc -> [pc : {"none", "new", "top", "enter", "in", "close", "done"}, mon : Slot,
                          fd : Fd, file : 0 .. MaxProc + 1]]
  /\ pc \in [Threads -> Callers]
  /\ req \in [Threads -> Interfaces \cup {NoIf}] /\ fails \in 0 .. MaxFail

\* standard input is another's; init_netif is still to restore what key says
Init ==
  /\ slot = [s \in Slot |-> Empty] /\ key \in [Interfaces -> BOOLEAN]
  /\ proc = [p \in Proc |-> [ifname |-> NoIf, state |-> "none"]]
  /\ fds = [n \in Fd |-> IF n = 0 THEN ALIEN ELSE FREE]
  /\ reader = [p \in Proc |-> NoReader]
  /\ pc = [t \in Threads |-> "idle"] /\ req = [t \in Threads |-> NoIf] /\ fails = 0

Fail == fails < MaxFail /\ fails' = fails + 1

---------------------------------------------------------------------------
(* Slots, processes and descriptors.                                       *)

\* mutant: the lock is released before the stop waits for its process
Locked_Mut == FALSE
\* a stop, and a start that is taken back, hold g_monitors_lock between actions
Locked == pc[Main] \in {"reap", "close"} \/ \E t \in Threads : pc[t] \in {"undo", "undoReap"}

Monitors(i) == {s \in Slot : slot[s].ifname = i /\ slot[s].pid # 0}
FreeSlots == {s \in Slot : slot[s].pid = 0}
FreeFds == {n \in Fd : fds[n] = FREE}
Unused == {p \in Proc : proc[p].state = "none"}
Lowest(S) == CHOOSE x \in S : \A y \in S : x <= y

\* mutant: an interface that is monitored gets a second monitor
Startable_Mut(i) == FreeSlots # {}
Startable(i) == Monitors(i) = {} /\ FreeSlots # {}

\* netif_start_monitor_process: pipe, fork, the slot, and the reader if its thread
\* is created
Spawn(i, created) ==
  /\ Startable(i) /\ FreeFds # {} /\ Unused # {}
  /\ LET s == Lowest(FreeSlots)  p == Lowest(Unused)  n == Lowest(FreeFds)
     IN /\ slot' = [slot EXCEPT ![s] = [ifname |-> i, pid |-> p, pipefd |-> n, running |-> TRUE]]
        /\ proc' = [proc EXCEPT ![p] = [ifname |-> i, state |-> "forked"]]
        /\ fds' = [fds EXCEPT ![n] = p]
        /\ reader' = IF created THEN [reader EXCEPT ![p] = [pc |-> "new", mon |-> s, fd |-> 0, file |-> FREE]]
                      ELSE reader

\* mutant: fork's -1 is taken for a pid
Refused_Mut(i) ==
  /\ Monitors(i) = {} /\ FreeSlots # {} /\ Fail
  /\ slot' = [slot EXCEPT ![Lowest(FreeSlots)] = [ifname |-> i, pid |-> -1, pipefd |-> 0, running |-> TRUE]]
  /\ UNCHANGED <<proc, fds, reader>>
\* the part that gives up: every slot is taken, or pipe or fork fails
Refused(i) ==
  /\ Monitors(i) = {} /\ UNCHANGED <<slot, proc, fds, reader>>
  /\ \/ FreeSlots = {} /\ UNCHANGED fails
     \/ FreeSlots # {} /\ Fail

\* netif_start_monitor_process; done: it returned 0
StartMonitor(i, done) ==
  \/ done /\ Monitors(i) # {} /\ UNCHANGED <<slot, proc, fds, reader, fails>>
  \/ done /\ Spawn(i, TRUE) /\ UNCHANGED fails
  \/ ~done /\ Refused(i)

\* mutant: the slot keeps its pid when the process has been reaped
Emptied_Mut(s) == [slot EXCEPT ![s].running = FALSE]
Emptied(s) == [slot EXCEPT ![s] = Empty]

\* close(mon->pipefd) if it is positive: whatever the number refers to by now
PipeClosed(s) == IF slot[s].pipefd > 0 THEN [fds EXCEPT ![slot[s].pipefd] = FREE] ELSE fds

\* kill(pid, SIGTERM): it ends vnstat, but not a child before its execl
Told(p) == [proc EXCEPT ![p].state = IF @ = "running" THEN "term" ELSE IF @ = "forked" THEN "deaf" ELSE @]

---------------------------------------------------------------------------
(* Requests.                                                               *)

\* what a caller does next, and about which interface
Goto(t, to, i) == pc' = [pc EXCEPT ![t] = to] /\ req' = [req EXCEPT ![t] = i]
Return(t) == Goto(t, "idle", NoIf)

\* the part of netif_start_monitor_process whose pthread_create fails
Unthreaded(t, i) == Spawn(i, FALSE) /\ Fail /\ Goto(t, "undo", i)

\* netif_set_monitor, enabled
Enable(i) ==
  /\ pc[Main] = "idle" /\ ~Locked
  /\ \/ StartMonitor(i, TRUE) /\ Goto(Main, "set", i)
     \/ StartMonitor(i, FALSE) /\ Return(Main)
     \/ Unthreaded(Main, i)
  /\ UNCHANGED key

\* without a reader thread the pipe is closed and the child told to end ...
Undo(t) ==
  /\ pc[t] = "undo"
  /\ \E s \in Monitors(req[t]) : fds' = PipeClosed(s) /\ proc' = Told(slot[s].pid)
  /\ Goto(t, "undoReap", req[t])
  /\ UNCHANGED <<slot, key, reader, fails>>

\* ... and, once waitpid returns, the slot zeroed and the lock released
Undone(t) ==
  /\ pc[t] = "undoReap"
  /\ \E s \in Monitors(req[t]) :
       /\ proc[slot[s].pid].state = "zombie" /\ proc' = [proc EXCEPT ![slot[s].pid].state = "gone"]
       /\ slot' = Emptied(s)
  /\ Return(t) /\ UNCHANGED <<key, fds, reader, fails>>

\* netif_set_monitor, disabled: nothing to stop, or running = 0 and SIGTERM
Disable(i) ==
  /\ pc[Main] = "idle" /\ ~Locked
  /\ \/ Monitors(i) = {} /\ Goto(Main, "clear", i) /\ UNCHANGED <<slot, proc>>
     \/ \E s \in Monitors(i) :
          /\ slot' = [slot EXCEPT ![s].running = FALSE]
          /\ proc' = Told(slot[s].pid)
          /\ Goto(Main, "reap", i)
  /\ UNCHANGED <<key, fds, reader, fails>>

\* waitpid returns
StopReap ==
  /\ pc[Main] = "reap"
  /\ \E s \in Monitors(req[Main]) :
       proc[slot[s].pid].state = "zombie" /\ proc' = [proc EXCEPT ![slot[s].pid].state = "gone"]
  /\ Goto(Main, "close", req[Main])
  /\ UNCHANGED <<slot, key, fds, reader, fails>>

\* the pipe is closed, the slot zeroed, the lock released
StopClose ==
  /\ pc[Main] = "close"
  /\ \E s \in Monitors(req[Main]) : fds' = PipeClosed(s) /\ slot' = Emptied(s)
  /\ Goto(Main, "clear", req[Main])
  /\ UNCHANGED <<key, proc, reader, fails>>

\* config_set_int, whose result is ignored
SaveKey ==
  /\ pc[Main] \in {"set", "clear"} /\ Return(Main)
  /\ \/ key' = [key EXCEPT ![req[Main]] = (pc[Main] = "set")] /\ UNCHANGED fails
     \/ Fail /\ UNCHANGED key
  /\ UNCHANGED <<slot, proc, fds, reader>>

\* the telemetry worker asks about interfaces it has found to be monitored
FindMonitored(t, i) ==
  /\ t # Main /\ pc[t] = "idle" /\ key[i] /\ Goto(t, "ask", i)
  /\ UNCHANGED <<slot, key, proc, fds, reader, fails>>

Asks(t, i) == IF t = Main THEN pc[t] = "idle" ELSE pc[t] = "ask" /\ req[t] = i

\* netif_get_stats, when no ended process is found: an answer or an error
GetStats(t, i) ==
  /\ t # Main /\ Asks(t, i) /\ ~Locked
  /\ \A s \in Monitors(i) : proc[slot[s].pid].state # "zombie"
  /\ Return(t) /\ UNCHANGED <<slot, key, proc, fds, reader, fails>>

\* netif_get_stats, when it reaps the process: the slot is zeroed, the lock
\* released, the monitor to be started again
FindEnded(t, i) ==
  /\ Asks(t, i) /\ ~Locked
  /\ \E s \in Monitors(i) :
       /\ proc[slot[s].pid].state = "zombie"
       /\ proc' = [proc EXCEPT ![slot[s].pid].state = "gone"]
       /\ fds' = PipeClosed(s) /\ slot' = Emptied(s)
  /\ Goto(t, "restart", i) /\ UNCHANGED <<key, reader, fails>>

\* under the lock again, after anybody else may have had it; result ignored
Restart(t) ==
  /\ pc[t] = "restart" /\ ~Locked
  /\ \/ \E done \in BOOLEAN : StartMonitor(req[t], done) /\ Return(t)
     \/ Unthreaded(t, req[t])
  /\ UNCHANGED key

---------------------------------------------------------------------------
(* vnstat_reader_thread, detached.                                         *)

ReaderTo(p, to) == reader' = [reader EXCEPT ![p].pc = to]
SameButReader == UNCHANGED <<key, proc, pc, req, fails>>

\* fdopen(mon->pipefd), whatever the slot holds when the thread runs
ReaderOpen(p) ==
  LET n == slot[reader[p].mon].pipefd
  IN /\ reader[p].pc = "new"
     /\ reader' = [reader EXCEPT ![p] = IF fds[n] = FREE THEN [NoReader EXCEPT !.pc = "done"]
                                         ELSE [@ EXCEPT !.pc = "enter", !.fd = n]]
     /\ SameButReader /\ UNCHANGED <<slot, fds>>

\* while (mon->running && ...: the flag of whoever has the slot by now
ReaderCheck(p) ==
  /\ reader[p].pc = "top"
  /\ ReaderTo(p, IF slot[reader[p].mon].running THEN "enter" ELSE "close")
  /\ SameButReader /\ UNCHANGED <<slot, fds>>

\* fgets enters read(): from here on the file is fixed, not the number
ReaderEnter(p) ==
  /\ reader[p].pc = "enter"
  /\ reader' = [reader EXCEPT ![p].pc = "in", ![p].file = fds[reader[p].fd]]
  /\ SameButReader /\ UNCHANGED <<slot, fds>>

\* read() returns a line, which becomes the slot's latest_stats, or the end
ReaderReturns(p) ==
  LET f == reader[p].file
      alive == f \in Proc /\ proc[f].state \in {"forked", "running", "term", "deaf"}
  IN /\ reader[p].pc = "in"
     /\ \/ (alive \/ f = ALIEN) /\ reader' = [reader EXCEPT ![p].pc = "top", ![p].file = FREE]
        \/ ~alive /\ reader' = [reader EXCEPT ![p].pc = "close", ![p].file = FREE]
     /\ SameButReader /\ UNCHANGED <<slot, fds>>

\* fclose
ReaderClose(p) ==
  /\ reader[p].pc = "close"
  /\ fds' = [fds EXCEPT ![reader[p].fd] = FREE]
  /\ reader' = [reader EXCEPT ![p] = [NoReader EXCEPT !.pc = "done"]] /\ SameButReader /\ UNCHANGED slot

---------------------------------------------------------------------------
(* External: processes start and end, other code of the process uses       *)
(* descriptors.                                                            *)

\* execl, with SIGTERM's default again; a signal that came before is lost
Exec(p) ==
  /\ proc[p].state = "forked" /\ proc' = [proc EXCEPT ![p].state = "running"]
  /\ UNCHANGED <<slot, key, fds, reader, pc, req, fails>>

ProcEnds(p) ==
  /\ proc[p].state \in {"forked", "running", "term", "deaf"} /\ proc' = [proc EXCEPT ![p].state = "zombie"]
  /\ UNCHANGED <<slot, key, fds, reader, pc, req, fails>>

OtherOpens ==
  /\ FreeFds # {} /\ fds' = [fds EXCEPT ![Lowest(FreeFds)] = ALIEN]
  /\ UNCHANGED <<slot, key, proc, reader, pc, req, fails>>

OtherCloses ==
  /\ \E n \in Fd \ {0} : fds[n] = ALIEN /\ fds' = [fds EXCEPT ![n] = FREE]
  /\ UNCHANGED <<slot, key, proc, reader, pc, req, fails>>

Requests == \E i \in Interfaces : \/ Enable(i) \/ Disable(i)
                                  \/ \E t \in Threads : FindMonitored(t, i) \/ GetStats(t, i) \/ FindEnded(t, i)
Own == StopReap \/ StopClose \/ SaveKey
Reader(p) == ReaderOpen(p) \/ ReaderCheck(p) \/ ReaderEnter(p) \/ ReaderReturns(p) \/ ReaderClose(p)

Next == \/ Requests \/ Own \/ OtherOpens \/ OtherCloses
        \/ \E t \in Threads : Restart(t) \/ Undo(t) \/ Undone(t)
        \/ \E p \in Proc : Reader(p) \/ Exec(p) \/ ProcEnds(p)

Spec == Init /\ [][Next]_vars

---------------------------------------------------------------------------
(* Properties.                                                             *)

\* netif.c signals and waits for children it has not reaped yet, and every
\* child is found in a slot of its interface: none is orphaned by a restart
\* that races a stop.
Unreaped == {"forked", "running", "term", "deaf", "zombie"}
Reaped(s) == pc[Main] = "close" /\ slot[s].ifname = req[Main]
PidsAreOurs ==
  /\ \A s \in Slot : slot[s].pid # 0 /\ ~Reaped(s) =>
       proc[slot[s].pid].ifname = slot[s].ifname /\ proc[slot[s].pid].state \in Unreaped
  /\ \A p \in Proc : proc[p].state \in Unreaped => \E s \in Slot : slot[s].pid = p

\* An interface has one monitor, though starts come from the event loop and
\* from the telemetry worker.
OneMonitor ==
  \A i \in Interfaces : \A s, r \in Monitors(i) : s = r

\* Whoever waits in waitpid, with g_monitors_lock in its hands, waits for a child of
\* its own interface that nobody else has reaped and that it has sent SIGTERM.  That
\* the wait ends is not said: a child that got the signal before its execl is deaf,
\* and the lock is held until vnstat ends for another reason.
WaitsForOwnChild ==
  \A t \in Threads :
    pc[t] \in {"reap", "undoReap"} =>
      \E s \in Monitors(req[t]) :
        proc[slot[s].pid].ifname = req[t] /\ proc[slot[s].pid].state \in {"term", "deaf", "zombie"}

\* netif.c:375 "close the pipe": what a stop closes is the pipe of the process
\* it has stopped.
StopClosesPipe ==
  [][\A s \in Slot, n \in Fd :
       Reaped(s) /\ slot'[s].pid = 0 /\ fds'[n] # fds[n] => fds[n] = slot[s].pid]_vars
=============================================================================
