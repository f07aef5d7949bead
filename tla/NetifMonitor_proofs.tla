------------------------ MODULE NetifMonitor_proofs ------------------------
(***************************************************************************)
(* Type correctness and the safety of NetifMonitor, for any number of      *)
(* interfaces, callers, slots, processes and descriptors.                  *)
(***************************************************************************)
EXTENDS NetifMonitor, TLAPS, WellFoundedInduction

\* A monitor belongs to an interface, and so does a request under way.
Named ==
  /\ \A s \in Slot : slot[s].pid # 0 => slot[s].ifname \in Interfaces
  /\ \A t \in Threads : pc[t] # "idle" => req[t] \in Interfaces

\* Between waitpid and the zeroing of the slot the stop holds a pid that is gone.
ReapedGone ==
  pc[Main] = "close" => \A s \in Monitors(req[Main]) : proc[slot[s].pid].state = "gone"

\* g_monitors_lock is kept between actions by one caller at a time.
Holding == {"undo", "undoReap", "reap", "close"}
Holder ==
  /\ \A t \in Threads : pc[t] \in {"reap", "close"} => t = Main
  /\ \A t, u \in Threads : pc[t] \in Holding /\ pc[u] \in Holding => t = u

SlotInv == Named /\ OneMonitor /\ PidsAreOurs /\ WaitsForOwnChild /\ ReapedGone
IInv == TypeOK /\ Holder /\ SlotInv

SlotTypes == slot \in [Slot -> [ifname : Interfaces \cup {NoIf}, pid : 0 .. MaxProc, pipefd : Fd, running : BOOLEAN]]
ProcTypes == proc \in [Proc -> [ifname : Interfaces \cup {NoIf}, state : ProcState]]
ReaderRec == [pc : {"none", "new", "top", "enter", "in", "close", "done"}, mon : Slot,
              fd : Fd, file : 0 .. MaxProc + 1]

----------------------------------------------------------------------------

\* The first free slot, number or process is a free one.
LEMMA LowestIn == ASSUME NEW S \in SUBSET Nat, S # {} PROVE Lowest(S) \in S
<1>1. PICK x \in S : \A y \in S : ~ (<<y, x>> \in OpToRel(<, Nat))
  BY WFMin, NatLessThanWellFounded, Zenon
<1>2. ASSUME NEW y \in S PROVE x <= y
  <2>1. <<y, x>> \in Nat \X Nat /\ <<y, x>>[1] = y /\ <<y, x>>[2] = x
    OBVIOUS
  <2>2. ~ (y < x)
    BY <1>1, <2>1, Zenon DEF OpToRel
  <2>3. QED
    BY <2>2
<1>3. QED
  BY <1>2 DEF Lowest

LEMMA Sizes == 1 \in Slot /\ 0 \in Fd /\ Slot \subseteq Nat /\ Fd \subseteq Nat /\ Proc \subseteq Nat /\ 0 \notin Proc
  BY SizesAssumption DEF Slot, Fd, Proc

\* A start of a monitor of i that succeeds, with what it takes.
Takes(i, s, p, n) ==
  /\ slot[s].pid = 0 /\ proc[p].state = "none" /\ Monitors(i) = {}
  /\ slot' = [slot EXCEPT ![s] = [ifname |-> i, pid |-> p, pipefd |-> n, running |-> TRUE]]
  /\ proc' = [proc EXCEPT ![p] = [ifname |-> i, state |-> "forked"]]
  /\ fds' = [fds EXCEPT ![n] = p]
  /\ \/ reader' = [reader EXCEPT ![p] = [pc |-> "new", mon |-> s, fd |-> 0, file |-> FREE]]
     \/ reader' = reader

\* What a start that succeeds takes was free.
LEMMA Taken ==
  ASSUME NEW i \in Interfaces, NEW created \in BOOLEAN, Spawn(i, created)
  PROVE  \E s \in Slot, p \in Proc, n \in Fd : Takes(i, s, p, n)
<1> DEFINE s == Lowest(FreeSlots)  p == Lowest(Unused)  n == Lowest(FreeFds)
<1>1. s \in FreeSlots
  BY LowestIn, Sizes DEF Spawn, Startable, FreeSlots
<1>2. p \in Unused
  BY LowestIn, Sizes DEF Spawn, Unused
<1>3. n \in FreeFds
  BY LowestIn, Sizes DEF Spawn, FreeFds
<1>4. s \in Slot /\ p \in Proc /\ n \in Fd /\ slot[s].pid = 0 /\ proc[p].state = "none"
  BY <1>1, <1>2, <1>3 DEF FreeSlots, Unused, FreeFds
<1> HIDE DEF s, p, n
<1>5. Takes(i, s, p, n)
  BY <1>4 DEF Spawn, Startable, Takes, s, p, n
<1>6. QED
  BY <1>4, <1>5

----------------------------------------------------------------------------
(* Types.                                                                  *)

LEMMA InitInv == Init => IInv
<1> SUFFICES ASSUME Init PROVE IInv
  OBVIOUS
<1>1. TypeOK
  BY Sizes, SizesAssumption, ThreadsAssumption DEF Init, TypeOK, Empty, NoReader, FREE, ALIEN, Proc, Fd, ProcState, Callers
<1>2. SlotInv
  BY Sizes, ThreadsAssumption DEF Init, SlotInv, Named, OneMonitor, PidsAreOurs, Reaped, WaitsForOwnChild, ReapedGone, Monitors, Empty, Unreaped
<1>3. Holder
  BY DEF Init, Holder, Holding
<1>4. QED
  BY <1>1, <1>2, <1>3 DEF IInv

\* A start keeps the types, done, refused or to be taken back.
LEMMA SpawnTypes ==
  ASSUME TypeOK, NEW i \in Interfaces, NEW created \in BOOLEAN, Spawn(i, created)
  PROVE  SlotTypes' /\ ProcTypes' /\ (fds \in [Fd -> 0 .. MaxProc + 1])' /\ (reader \in [Proc -> ReaderRec])'
<1>1. PICK s \in Slot, p \in Proc, n \in Fd : Takes(i, s, p, n)
  BY Taken
<1>2. p \in 0 .. MaxProc /\ p \in 0 .. MaxProc + 1 /\ 0 \in 0 .. MaxProc + 1
  BY SizesAssumption DEF Proc
<1>3. SlotTypes' /\ ProcTypes' /\ (fds \in [Fd -> 0 .. MaxProc + 1])'
  BY <1>1, <1>2, Sizes DEF Takes, TypeOK, SlotTypes, ProcTypes, ProcState
<1>4. (reader \in [Proc -> ReaderRec])'
  BY <1>1, <1>2, Sizes DEF Takes, TypeOK, ReaderRec, FREE
<1>5. QED
  BY <1>3, <1>4

LEMMA StartTypes ==
  ASSUME TypeOK, NEW i \in Interfaces, NEW done \in BOOLEAN, StartMonitor(i, done)
  PROVE  SlotTypes' /\ ProcTypes' /\ (fds \in [Fd -> 0 .. MaxProc + 1])' /\ (fails \in 0 .. MaxFail)'
         /\ (reader \in [Proc -> ReaderRec])'
<1>1. CASE Spawn(i, TRUE) /\ UNCHANGED fails
  BY <1>1, SpawnTypes DEF TypeOK
<1>2. CASE UNCHANGED <<slot, proc, fds, reader>> /\ (UNCHANGED fails \/ Fail)
  BY <1>2, SizesAssumption DEF TypeOK, SlotTypes, ProcTypes, Fail, ReaderRec
<1>3. QED
  BY <1>1, <1>2 DEF StartMonitor, Refused

\* Where a caller goes is a place a caller can be.
LEMMA CallerTypes ==
  ASSUME TypeOK, NEW t \in Threads, NEW to \in Callers, NEW i \in Interfaces \cup {NoIf}, Goto(t, to, i)
  PROVE  pc' \in [Threads -> Callers] /\ req' \in [Threads -> Interfaces \cup {NoIf}]
  BY DEF TypeOK, Goto

\* What SIGTERM leaves of a process.
LEMMA ToldTypes == ASSUME TypeOK, NEW p \in Proc, proc' = Told(p) PROVE ProcTypes'
<1> DEFINE st == IF proc[p].state = "running" THEN "term" ELSE IF proc[p].state = "forked" THEN "deaf" ELSE proc[p].state
<1>1. proc' = [proc EXCEPT ![p].state = st]
  BY DEF Told
<1>2. st \in ProcState
  BY DEF TypeOK, ProcState
<1> HIDE DEF st
<1>3. QED
  BY <1>1, <1>2 DEF ProcTypes, TypeOK

\* A slot with a process.
LEMMA SlotOf == ASSUME TypeOK, NEW i, NEW s \in Monitors(i) PROVE s \in Slot /\ slot[s].pid \in Proc /\ slot[s].ifname = i
  BY SizesAssumption DEF TypeOK, Monitors, Proc

\* A reader stays what a reader can be, and changes nothing but descriptors.
LEMMA ReaderTypes ==
  ASSUME TypeOK, NEW p \in Proc, Reader(p)
  PROVE  /\ reader' \in [Proc -> ReaderRec] /\ fds' \in [Fd -> 0 .. MaxProc + 1]
         /\ UNCHANGED <<slot, key, proc, pc, req, fails>>
<1> DEFINE rec == reader[p]
<1>1. reader \in [Proc -> ReaderRec] /\ fds \in [Fd -> 0 .. MaxProc + 1]
  BY DEF TypeOK, ReaderRec
<1>2. rec \in ReaderRec
  BY <1>1
<1>3. /\ slot[rec.mon].pipefd \in Fd /\ fds[rec.fd] \in 0 .. MaxProc + 1 /\ FREE \in 0 .. MaxProc + 1
  BY <1>2, SizesAssumption DEF ReaderRec, TypeOK, FREE
<1>4. NoReader \in ReaderRec
  BY Sizes, SizesAssumption DEF NoReader, ReaderRec, FREE
<1>5. UNCHANGED <<slot, key, proc, pc, req, fails>>
  BY DEF Reader, ReaderOpen, ReaderCheck, ReaderEnter, ReaderReturns, ReaderClose, SameButReader
<1>6. CASE ReaderOpen(p)
  <2>1. [NoReader EXCEPT !.pc = "done"] \in ReaderRec /\ [rec EXCEPT !.pc = "enter", !.fd = slot[rec.mon].pipefd] \in ReaderRec
    BY <1>2, <1>3, <1>4 DEF ReaderRec
  <2>2. reader' = [reader EXCEPT ![p] = [NoReader EXCEPT !.pc = "done"]]
        \/ reader' = [reader EXCEPT ![p] = [rec EXCEPT !.pc = "enter", !.fd = slot[rec.mon].pipefd]]
    BY <1>6 DEF ReaderOpen
  <2>3. QED
    BY <1>1, <1>5, <1>6, <2>1, <2>2 DEF ReaderOpen
<1>7. CASE ReaderCheck(p)
  <2>1. PICK to \in {"enter", "close"} : reader' = [reader EXCEPT ![p].pc = to]
    BY <1>7 DEF ReaderCheck, ReaderTo
  <2>2. QED
    BY <1>1, <1>5, <1>7, <2>1 DEF ReaderCheck, ReaderRec
<1>8. CASE ReaderEnter(p)
  <2>1. reader' = [reader EXCEPT ![p] = [rec EXCEPT !.pc = "in", !.file = fds[rec.fd]]]
    BY <1>1, <1>8 DEF ReaderEnter
  <2>2. [rec EXCEPT !.pc = "in", !.file = fds[rec.fd]] \in ReaderRec
    BY <1>2, <1>3 DEF ReaderRec
  <2>3. QED
    BY <1>1, <1>5, <1>8, <2>1, <2>2 DEF ReaderEnter
<1>9. CASE ReaderReturns(p)
  <2>1. PICK to \in {"top", "close"} : reader' = [reader EXCEPT ![p].pc = to, ![p].file = FREE]
    BY <1>9 DEF ReaderReturns
  <2>2. QED
    BY <1>1, <1>3, <1>5, <1>9, <2>1 DEF ReaderReturns, ReaderRec
<1>10. CASE ReaderClose(p)
  <2>1. [NoReader EXCEPT !.pc = "done"] \in ReaderRec
    BY <1>4 DEF ReaderRec
  <2>2. QED
    BY <1>1, <1>3, <1>5, <1>10, <2>1 DEF ReaderClose
<1>11. QED
  BY <1>6, <1>7, <1>8, <1>9, <1>10 DEF Reader

\* Every step keeps the types.
LEMMA TypeStep == TypeOK /\ Named /\ [Next]_vars => TypeOK'
<1> SUFFICES ASSUME TypeOK, Named, [Next]_vars PROVE TypeOK'
  OBVIOUS
<1> USE Sizes, SizesAssumption, ThreadsAssumption DEF TypeOK, FREE, ALIEN
<1>1. ASSUME NEW i \in Interfaces, NEW t \in Threads, Unthreaded(t, i), UNCHANGED key PROVE TypeOK'
  <2>1. Goto(t, "undo", i) /\ Spawn(i, FALSE) /\ Fail
    BY <1>1 DEF Unthreaded
  <2>2. fails' \in 0 .. MaxFail
    BY <2>1 DEF Fail
  <2>3. pc' \in [Threads -> Callers] /\ req' \in [Threads -> Interfaces \cup {NoIf}]
    BY <2>1, CallerTypes DEF Callers
  <2>4. QED
    BY <1>1, <2>1, <2>2, <2>3, SpawnTypes DEF SlotTypes, ProcTypes, ReaderRec
<1>2. ASSUME NEW i \in Interfaces, NEW t \in Threads, NEW done \in BOOLEAN, StartMonitor(i, done), UNCHANGED key,
             Goto(t, "set", i) \/ Return(t)
      PROVE  TypeOK'
  <2>1. pc' \in [Threads -> Callers] /\ req' \in [Threads -> Interfaces \cup {NoIf}]
    BY <1>2, CallerTypes DEF Callers, Return
  <2>2. QED
    BY <1>2, <2>1, StartTypes DEF SlotTypes, ProcTypes, ReaderRec
<1>3. ASSUME NEW i \in Interfaces, Enable(i) PROVE TypeOK'
  BY <1>1, <1>2, <1>3 DEF Enable
<1>4. ASSUME NEW i \in Interfaces, Disable(i) PROVE TypeOK'
  <2>1. Goto(Main, "clear", i) \/ Goto(Main, "reap", i)
    BY <1>4 DEF Disable
  <2>2. pc' \in [Threads -> Callers] /\ req' \in [Threads -> Interfaces \cup {NoIf}]
    BY <2>1, CallerTypes DEF Callers
  <2>3. key' = key /\ fds' = fds /\ reader' = reader /\ fails' = fails
    BY <1>4 DEF Disable
  <2>4. CASE UNCHANGED <<slot, proc>>
    BY <2>2, <2>3, <2>4
  <2>5. ASSUME NEW s \in Monitors(i), slot' = [slot EXCEPT ![s].running = FALSE], proc' = Told(slot[s].pid)
        PROVE  TypeOK'
    <3>1. s \in Slot /\ slot[s].pid \in Proc
      BY SlotOf
    <3>2. SlotTypes'
      <4>1. SlotTypes
        BY DEF SlotTypes
      <4> QED
        BY <2>5, <3>1, <4>1 DEF SlotTypes
    <3>3. ProcTypes'
      BY <2>5, <3>1, ToldTypes
    <3>4. QED
      BY <2>2, <2>3, <3>2, <3>3 DEF SlotTypes, ProcTypes
  <2>6. QED
    BY <1>4, <2>4, <2>5 DEF Disable
<1>5. ASSUME NEW t \in Threads, Undo(t) PROVE TypeOK'
  <2>1. PICK s \in Monitors(req[t]) : fds' = PipeClosed(s) /\ proc' = Told(slot[s].pid)
    BY <1>5 DEF Undo
  <2>2. s \in Slot /\ slot[s].pid \in Proc
    BY SlotOf
  <2>3. ProcTypes'
    BY <2>1, <2>2, ToldTypes
  <2>4. fds' \in [Fd -> 0 .. MaxProc + 1]
    BY <2>1, <2>2 DEF PipeClosed
  <2>5. pc' \in [Threads -> Callers] /\ req' \in [Threads -> Interfaces \cup {NoIf}]
    BY <1>5, CallerTypes DEF Undo, Callers
  <2>6. QED
    BY <1>5, <2>3, <2>4, <2>5 DEF Undo, ProcTypes
<1>6. ASSUME NEW t \in Threads, Undone(t) PROVE TypeOK'
  <2>1. PICK s \in Monitors(req[t]) : proc' = [proc EXCEPT ![slot[s].pid].state = "gone"] /\ slot' = Emptied(s)
    BY <1>6 DEF Undone
  <2>2. s \in Slot /\ slot[s].pid \in Proc
    BY SlotOf
  <2>3. ProcTypes'
    BY <2>1, <2>2 DEF ProcTypes, ProcState
  <2>4. SlotTypes'
    BY <2>1, <2>2 DEF SlotTypes, Emptied, Empty
  <2>5. pc' \in [Threads -> Callers] /\ req' \in [Threads -> Interfaces \cup {NoIf}]
    BY <1>6, CallerTypes DEF Undone, Return, Callers
  <2>6. QED
    BY <1>6, <2>3, <2>4, <2>5 DEF Undone, SlotTypes, ProcTypes
<1>7. ASSUME NEW p \in Proc, Exec(p) PROVE TypeOK'
  BY <1>7 DEF Exec, ProcState
<1>8. CASE StopReap
  <2>1. PICK s \in Monitors(req[Main]) : proc' = [proc EXCEPT ![slot[s].pid].state = "gone"]
    BY <1>8 DEF StopReap
  <2>2. s \in Slot /\ slot[s].pid \in Proc
    BY SlotOf
  <2>3. ProcTypes'
    BY <2>1, <2>2 DEF ProcTypes, ProcState
  <2>4. QED
    BY <1>8, <2>3 DEF StopReap, Goto, Named, ProcTypes, Callers
<1>9. CASE StopClose
  BY <1>9 DEF StopClose, Goto, Monitors, Named, PipeClosed, Emptied, Empty, Callers
<1>10. CASE SaveKey
  <2>1. req[Main] \in Interfaces
    BY <1>10 DEF SaveKey, Named
  <2>2. key' \in [Interfaces -> BOOLEAN]
    BY <1>10, <2>1 DEF SaveKey
  <2>3. fails' \in 0 .. MaxFail
    BY <1>10 DEF SaveKey, Fail
  <2>4. pc' \in [Threads -> Callers] /\ req' \in [Threads -> Interfaces \cup {NoIf}]
    BY <1>10, CallerTypes DEF SaveKey, Return, Callers
  <2>5. QED
    BY <1>10, <2>2, <2>3, <2>4 DEF SaveKey
<1>11. ASSUME NEW t \in Threads, NEW i \in Interfaces, FindMonitored(t, i) \/ GetStats(t, i) PROVE TypeOK'
  BY <1>11 DEF FindMonitored, GetStats, Return, Goto, Callers
<1>12. ASSUME NEW t \in Threads, NEW i \in Interfaces, FindEnded(t, i) PROVE TypeOK'
  <2>1. PICK s \in Monitors(i) :
           /\ proc' = [proc EXCEPT ![slot[s].pid].state = "gone"]
           /\ fds' = PipeClosed(s) /\ slot' = Emptied(s)
    BY <1>12 DEF FindEnded
  <2>2. s \in Slot /\ slot[s].pid \in Proc
    BY SlotOf
  <2>3. ProcTypes'
    BY <2>1, <2>2 DEF ProcTypes, ProcState
  <2>4. SlotTypes' /\ fds' \in [Fd -> 0 .. MaxProc + 1]
    BY <2>1, <2>2 DEF SlotTypes, PipeClosed, Emptied, Empty
  <2>5. QED
    BY <1>12, <2>3, <2>4 DEF FindEnded, Goto, SlotTypes, ProcTypes, Callers
<1>13. ASSUME NEW t \in Threads, Restart(t) PROVE TypeOK'
  <2>1. PICK i \in Interfaces : i = req[t]
    BY <1>13 DEF Restart, Named
  <2>2. QED
    BY <1>1, <1>2, <1>13, <2>1 DEF Restart
<1>14. ASSUME NEW p \in Proc, Reader(p) PROVE TypeOK'
  BY <1>14, ReaderTypes DEF ReaderRec, ProcTypes, SlotTypes
<1>15. ASSUME NEW p \in Proc, ProcEnds(p) PROVE TypeOK'
  BY <1>15 DEF ProcEnds, ProcState
<1>16. CASE OtherOpens
  <2>1. Lowest(FreeFds) \in Fd
    BY <1>16, LowestIn DEF OtherOpens, FreeFds
  <2>2. MaxProc + 1 \in 0 .. MaxProc + 1
    OBVIOUS
  <2>3. fds' \in [Fd -> 0 .. MaxProc + 1]
    BY <1>16, <2>1, <2>2 DEF OtherOpens
  <2>4. QED
    BY <1>16, <2>3 DEF OtherOpens
<1>17. CASE OtherCloses
  BY <1>17 DEF OtherCloses
<1>18. CASE UNCHANGED vars
  BY <1>18 DEF vars
<1>19. QED
  BY <1>1, <1>2, <1>8, <1>9, <1>10, <1>11, <1>12, <1>13, <1>14, <1>15, <1>16, <1>17, <1>18, <1>3, <1>4, <1>5, <1>6, <1>7 DEF Next, Requests, Own
----------------------------------------------------------------------------
(* Who holds the lock.                                                     *)

\* Nobody keeps the lock.
Free == \A u \in Threads : pc[u] \notin Holding
LEMMA Unlocked == ASSUME Holder, ~Locked PROVE Free
  BY DEF Free, Holder, Holding, Locked

\* The place of a caller after its Goto.
LEMMA Went ==
  ASSUME TypeOK, NEW t \in Threads, NEW to, NEW i, Goto(t, to, i)
  PROVE  /\ pc'[t] = to /\ req'[t] = i
         /\ \A u \in Threads : u # t => pc'[u] = pc[u] /\ req'[u] = req[u]
  BY DEF TypeOK, Goto

\* The lock passes from hand to hand.
LEMMA HolderMoves ==
  ASSUME TypeOK, Holder, NEW t \in Threads, NEW to, NEW i, Goto(t, to, i),
         to \in {"reap", "close"} => t = Main,
         to \in Holding => Free \/ pc[t] \in Holding
  PROVE  Holder'
<1>1. /\ pc'[t] = to
      /\ \A u \in Threads : u # t => pc'[u] = pc[u]
  BY Went
<1>2. \A u \in Threads : pc'[u] \in {"reap", "close"} => u = Main
  BY <1>1 DEF Holder
<1>3. \A u \in Threads : to \in Holding /\ u # t => pc'[u] \notin Holding
  BY <1>1 DEF Holder, Free
<1>4. \A u, v \in Threads : pc'[u] \in Holding /\ pc'[v] \in Holding => u = v
  <2> SUFFICES ASSUME NEW u \in Threads, NEW v \in Threads, pc'[u] \in Holding, pc'[v] \in Holding
               PROVE  u = v
    OBVIOUS
  <2>1. CASE u = t \/ v = t
    BY <1>1, <1>3, <2>1
  <2>2. CASE u # t /\ v # t
    BY <1>1, <2>2 DEF Holder
  <2>3. QED
    BY <2>1, <2>2
<1>5. QED
  BY <1>2, <1>4 DEF Holder

LEMMA HolderStep == TypeOK /\ Holder /\ [Next]_vars => Holder'
<1> SUFFICES ASSUME TypeOK, Holder, [Next]_vars PROVE Holder'
  OBVIOUS
<1>1. ASSUME NEW i, Enable(i) \/ Disable(i) PROVE Holder'
  <2>1. Free /\ \E to \in {"set", "idle", "undo", "clear", "reap"} : Goto(Main, to, i) \/ Goto(Main, to, NoIf)
    BY <1>1, Unlocked DEF Enable, Disable, Unthreaded, Return
  <2>2. QED
    BY <2>1, HolderMoves, ThreadsAssumption
<1>2. CASE Own
  <2>1. \E to \in {"close", "clear", "idle"} : \E i : Goto(Main, to, i) /\ (to = "close" => pc[Main] = "reap")
    BY <1>2 DEF Own, StopReap, StopClose, SaveKey, Return
  <2>2. QED
    BY <2>1, HolderMoves, ThreadsAssumption DEF Holding
<1>3. ASSUME NEW t \in Threads, NEW i, FindMonitored(t, i) \/ GetStats(t, i) \/ FindEnded(t, i) PROVE Holder'
  <2>1. \E to \in {"ask", "idle", "restart"} : \E j : Goto(t, to, j)
    BY <1>3 DEF FindMonitored, GetStats, FindEnded, Return
  <2>2. QED
    BY <2>1, HolderMoves DEF Holding
<1>4. ASSUME NEW t \in Threads, Restart(t) PROVE Holder'
  <2>1. Free /\ \E to \in {"idle", "undo"} : \E j : Goto(t, to, j)
    BY <1>4, Unlocked DEF Restart, Return, Unthreaded
  <2>2. QED
    BY <2>1, HolderMoves
<1>5. ASSUME NEW t \in Threads, Undo(t) \/ Undone(t) PROVE Holder'
  <2>1. pc[t] \in Holding /\ \E to \in {"idle", "undoReap"} : \E j : Goto(t, to, j)
    BY <1>5 DEF Undo, Undone, Return, Holding
  <2>2. QED
    BY <2>1, HolderMoves
<1>6. ASSUME UNCHANGED pc PROVE Holder'
  BY <1>6 DEF Holder
<1>7. ASSUME NEW p \in Proc, Reader(p) \/ Exec(p) \/ ProcEnds(p) PROVE Holder'
  BY <1>6, <1>7 DEF Reader, ReaderOpen, ReaderCheck, ReaderEnter, ReaderReturns, ReaderClose, SameButReader, Exec, ProcEnds
<1>8. CASE OtherOpens \/ OtherCloses \/ UNCHANGED vars
  BY <1>6, <1>8 DEF OtherOpens, OtherCloses, vars
<1>9. QED
  BY <1>1, <1>2, <1>3, <1>4, <1>5, <1>7, <1>8 DEF Next, Requests

----------------------------------------------------------------------------
(* Slots and processes.                                                    *)

Live == {"forked", "running", "term", "deaf", "zombie"}
Ended == {"term", "deaf", "zombie"}   \* what a process can be once it was told to end

\* Steps that leave slots, processes and callers alone.
LEMMA SameSlots == ASSUME SlotInv, UNCHANGED <<slot, proc, pc, req>> PROVE SlotInv'
  BY DEF SlotInv, Named, OneMonitor, PidsAreOurs, Reaped, WaitsForOwnChild, ReapedGone, Monitors

\* A caller that does not hold the lock moves, and does not take it.
LEMMA CallerMoves ==
  ASSUME TypeOK, SlotInv, UNCHANGED <<slot, proc>>,
         NEW t \in Threads, NEW to \in {"idle", "ask", "restart", "set", "clear"}, NEW i,
         Goto(t, to, i), to # "idle" => i \in Interfaces, pc[t] \notin Holding
  PROVE  SlotInv'
<1>1. /\ pc'[t] = to /\ req'[t] = i
      /\ \A u \in Threads : u # t => pc'[u] = pc[u] /\ req'[u] = req[u]
  BY Went
<1>2. Named'
  BY <1>1 DEF SlotInv, Named
<1>3. \A s \in Slot : Reaped(s)' <=> Reaped(s)
  BY <1>1, ThreadsAssumption DEF Reaped, Holding
<1>4. WaitsForOwnChild'
  BY <1>1 DEF SlotInv, WaitsForOwnChild, Monitors
<1>5. ReapedGone'
  BY <1>1, ThreadsAssumption DEF SlotInv, ReapedGone, Monitors
<1>6. QED
  BY <1>2, <1>3, <1>4, <1>5 DEF SlotInv, OneMonitor, PidsAreOurs, Monitors

\* A monitor is started while nobody keeps the lock; who started it may.
LEMMA Started ==
  ASSUME TypeOK, SlotInv, Free, \A u \in Threads : pc'[u] \notin {"reap", "close", "undoReap"},
         NEW i \in Interfaces, NEW created \in BOOLEAN, Spawn(i, created), Named'
  PROVE  SlotInv'
<1>1. PICK s \in Slot, p \in Proc, n \in Fd : Takes(i, s, p, n)
  BY Taken
<1>2. slot' = [slot EXCEPT ![s] = [ifname |-> i, pid |-> p, pipefd |-> n, running |-> TRUE]]
      /\ proc' = [proc EXCEPT ![p] = [ifname |-> i, state |-> "forked"]]
      /\ slot[s].pid = 0 /\ proc[p].state = "none" /\ Monitors(i) = {}
  BY <1>1 DEF Takes
<1>3. p # 0 /\ slot'[s].pid = p /\ slot'[s].ifname = i /\ proc'[p].ifname = i /\ proc'[p].state = "forked"
  BY <1>2, Sizes DEF TypeOK
<1>4. \A r \in Slot \ {s} : slot'[r] = slot[r]
  BY <1>2 DEF TypeOK
<1>5. \A q \in Proc \ {p} : proc'[q] = proc[q]
  BY <1>2 DEF TypeOK
<1>6. \A r \in Slot : ~Reaped(r) /\ ~Reaped(r)'
  BY ThreadsAssumption DEF Reaped, Free, Holding
<1>7. OneMonitor'
  <2> SUFFICES ASSUME NEW j \in Interfaces, NEW r1 \in Monitors(j)', NEW r2 \in Monitors(j)' PROVE r1 = r2
    BY DEF OneMonitor
  <2>1. r1 \in Slot /\ r2 \in Slot /\ slot'[r1].ifname = j /\ slot'[r2].ifname = j /\ slot'[r1].pid # 0 /\ slot'[r2].pid # 0
    BY DEF Monitors
  <2>2. CASE j = i
    BY <2>1, <2>2, <1>2, <1>4 DEF Monitors
  <2>3. CASE j # i
    BY <2>1, <2>3, <1>3, <1>4 DEF Monitors, SlotInv, OneMonitor
  <2>4. QED
    BY <2>2, <2>3
<1>8. PidsAreOurs'
  <2>1. ASSUME NEW r \in Slot, slot'[r].pid # 0
        PROVE  proc'[slot'[r].pid].ifname = slot'[r].ifname /\ proc'[slot'[r].pid].state \in Live
    <3>1. CASE r = s
      BY <3>1, <1>3 DEF Live
    <3>2. CASE r # s
      <4>1. slot'[r] = slot[r] /\ slot[r].pid # 0
        BY <3>2, <1>4, <2>1
      <4>2. proc[slot[r].pid].ifname = slot[r].ifname /\ proc[slot[r].pid].state \in Live /\ slot[r].pid \in Proc
        <5>1. slot[r].pid \in Proc
          BY <4>1, SizesAssumption DEF TypeOK, Proc
        <5>2. QED
          BY <4>1, <1>6, <5>1 DEF SlotInv, PidsAreOurs, Live, Unreaped
      <4>3. slot[r].pid # p
        BY <4>2, <1>2 DEF Live
      <4>4. QED
        BY <4>1, <4>2, <4>3, <1>5 DEF Live
    <3>3. QED
      BY <3>1, <3>2
  <2>2. ASSUME NEW q \in Proc, proc'[q].state \in Live PROVE \E r \in Slot : slot'[r].pid = q
    <3>1. CASE q = p
      BY <3>1, <1>3
    <3>2. CASE q # p
      <4>1. PICK r \in Slot : slot[r].pid = q
        BY <2>2, <3>2, <1>5 DEF SlotInv, PidsAreOurs, Live, Unreaped
      <4>2. r # s
        BY <4>1, <1>2, Sizes
      <4>3. QED
        BY <4>1, <4>2, <1>4
    <3>3. QED
      BY <3>1, <3>2
  <2>3. QED
    BY <2>1, <2>2 DEF PidsAreOurs, Live, Unreaped
<1>9. WaitsForOwnChild' /\ ReapedGone'
  BY ThreadsAssumption DEF WaitsForOwnChild, ReapedGone
<1>10. QED
  BY <1>7, <1>8, <1>9 DEF SlotInv

\* Whatever netif_start_monitor_process does next with the monitor it started.
LEMMA SpawnInv ==
  ASSUME TypeOK, SlotInv, Free, NEW i \in Interfaces, NEW created \in BOOLEAN, Spawn(i, created),
         NEW t \in Threads, NEW to \in {"idle", "set", "undo"}, NEW j, Goto(t, to, j),
         to # "idle" => j \in Interfaces
  PROVE  SlotInv'
<1>1. /\ pc'[t] = to /\ req'[t] = j
      /\ \A u \in Threads : u # t => pc'[u] = pc[u] /\ req'[u] = req[u]
  BY Went
<1>2. \A u \in Threads : pc'[u] \notin {"reap", "close", "undoReap"}
  BY <1>1 DEF Free, Holding
<1>3. PICK s \in Slot, p \in Proc, n \in Fd : Takes(i, s, p, n)
  BY Taken
<1>4. \A r \in Slot : slot'[r].pid # 0 => slot'[r].ifname \in Interfaces
  BY <1>3 DEF Takes, SlotInv, Named, TypeOK
<1>5. \A u \in Threads : pc'[u] # "idle" => req'[u] \in Interfaces
  BY <1>1 DEF SlotInv, Named
<1>6. Named'
  BY <1>4, <1>5 DEF Named
<1>7. QED
  BY <1>2, <1>6, Started

\* netif_start_monitor_process, whatever it returns.
LEMMA StartInv ==
  ASSUME TypeOK, SlotInv, Free, NEW i \in Interfaces, NEW done \in BOOLEAN, StartMonitor(i, done),
         NEW t \in Threads, NEW to \in {"idle", "set"}, NEW j, Goto(t, to, j), to # "idle" => j \in Interfaces
  PROVE  SlotInv'
<1>1. CASE Spawn(i, TRUE)
  BY <1>1, SpawnInv
<1>2. CASE UNCHANGED <<slot, proc>>
  BY <1>2, CallerMoves DEF Free
<1>3. QED
  BY <1>1, <1>2 DEF StartMonitor, Refused

\* A process that has ended is reaped and its slot zeroed under the lock.
LEMMA SlotFreed ==
  ASSUME TypeOK, SlotInv, NEW i \in Interfaces, NEW s \in Monitors(i),
         proc[slot[s].pid].state = "zombie", proc' = [proc EXCEPT ![slot[s].pid].state = "gone"],
         slot' = Emptied(s), pc[Main] # "close",
         \A u \in Threads : pc'[u] \notin {"reap", "close", "undoReap"},
         \A u \in Threads : pc'[u] # "idle" => req'[u] \in Interfaces
  PROVE  SlotInv'
<1> DEFINE p == slot[s].pid
<1>1. s \in Slot /\ p \in Proc /\ slot[s].ifname = i
  BY SlotOf
<1>2. slot'[s] = Empty /\ \A r \in Slot \ {s} : slot'[r] = slot[r]
  BY <1>1 DEF Emptied, TypeOK
<1>3. proc'[p].state = "gone" /\ \A q \in Proc \ {p} : proc'[q] = proc[q]
  BY <1>1 DEF TypeOK
<1>4. \A r \in Slot : ~Reaped(r) /\ ~Reaped(r)'
  BY ThreadsAssumption DEF Reaped
<1>5. Named'
  BY <1>2 DEF SlotInv, Named, Empty
<1>6. OneMonitor'
  BY <1>2 DEF SlotInv, OneMonitor, Monitors, Empty
<1>7. ASSUME NEW r \in Slot \ {s}, slot[r].pid # 0 PROVE slot[r].pid \in Proc \ {p}
  <2>1. slot[r].pid \in Proc /\ proc[slot[r].pid].ifname = slot[r].ifname /\ proc[p].ifname = i
    BY <1>7, <1>1, <1>4, SizesAssumption DEF SlotInv, PidsAreOurs, TypeOK, Proc, Monitors
  <2>2. slot[r].pid = p => r \in Monitors(i)
    BY <2>1, <1>7 DEF Monitors
  <2>3. QED
    BY <2>1, <2>2 DEF SlotInv, OneMonitor
<1>8. PidsAreOurs'
  <2>1. ASSUME NEW r \in Slot, slot'[r].pid # 0
        PROVE  proc'[slot'[r].pid].ifname = slot'[r].ifname /\ proc'[slot'[r].pid].state \in Live
    <3>1. r # s
      BY <2>1, <1>2 DEF Empty
    <3>2. QED
      BY <3>1, <2>1, <1>2, <1>3, <1>4, <1>7 DEF SlotInv, PidsAreOurs, Live, Unreaped
  <2>2. ASSUME NEW q \in Proc, proc'[q].state \in Live PROVE \E r \in Slot : slot'[r].pid = q
    <3>1. q # p
      BY <2>2, <1>3 DEF Live
    <3>2. PICK r \in Slot : slot[r].pid = q
      BY <2>2, <3>1, <1>3 DEF SlotInv, PidsAreOurs, Live, Unreaped
    <3>3. QED
      BY <3>1, <3>2, <1>2
  <2>3. QED
    BY <2>1, <2>2 DEF PidsAreOurs, Live, Unreaped
<1>9. QED
  BY <1>5, <1>6, <1>8, ThreadsAssumption DEF SlotInv, WaitsForOwnChild, ReapedGone

\* netif_get_stats empties the slot of a process it has reaped.
LEMMA EndedInv == ASSUME TypeOK, Holder, SlotInv, NEW t \in Threads, NEW i \in Interfaces, FindEnded(t, i) PROVE SlotInv'
<1>1. PICK s \in Monitors(i) :
        /\ proc[slot[s].pid].state = "zombie"
        /\ proc' = [proc EXCEPT ![slot[s].pid].state = "gone"]
        /\ slot' = Emptied(s)
  BY DEF FindEnded
<1>2. Free /\ Goto(t, "restart", i)
  BY Unlocked DEF FindEnded
<1>3. /\ pc'[t] = "restart" /\ req'[t] = i
      /\ \A u \in Threads : u # t => pc'[u] = pc[u] /\ req'[u] = req[u]
  BY <1>2, Went
<1>4. \A u \in Threads : /\ pc'[u] \notin {"reap", "close", "undoReap"}
                         /\ pc'[u] # "idle" => req'[u] \in Interfaces
  BY <1>2, <1>3 DEF Free, Holding, SlotInv, Named
<1>5. pc[Main] # "close"
  BY <1>2, ThreadsAssumption DEF Free, Holding
<1>6. QED
  BY <1>1, <1>4, <1>5, SlotFreed

\* The start that is taken back has waited for its process.
LEMMA UndoneInv == ASSUME TypeOK, Holder, SlotInv, NEW t \in Threads, Undone(t) PROVE SlotInv'
<1>1. PICK s \in Monitors(req[t]) :
        /\ proc[slot[s].pid].state = "zombie"
        /\ proc' = [proc EXCEPT ![slot[s].pid].state = "gone"]
        /\ slot' = Emptied(s)
  BY DEF Undone
<1>2. pc[t] = "undoReap" /\ Goto(t, "idle", NoIf) /\ req[t] \in Interfaces
  BY DEF Undone, Return, SlotInv, Named
<1>3. /\ pc'[t] = "idle"
      /\ \A u \in Threads : u # t => pc'[u] = pc[u] /\ req'[u] = req[u] /\ pc[u] \notin Holding
  BY <1>2, Went DEF Holder, Holding
<1>4. \A u \in Threads : /\ pc'[u] \notin {"reap", "close", "undoReap"}
                         /\ pc'[u] # "idle" => req'[u] \in Interfaces
  BY <1>3 DEF Holding, SlotInv, Named
<1>5. pc[Main] # "close"
  BY <1>2, <1>3, ThreadsAssumption DEF Holding
<1>6. QED
  BY <1>1, <1>2, <1>4, <1>5, SlotFreed

\* SIGTERM, sent by the one who has the lock and is going to wait.
LEMMA ToldInv ==
  ASSUME TypeOK, SlotInv, NEW i \in Interfaces, NEW s \in Monitors(i), proc' = Told(slot[s].pid),
         \A r \in Slot : slot'[r].pid = slot[r].pid /\ slot'[r].ifname = slot[r].ifname,
         NEW t \in Threads, NEW to \in {"reap", "undoReap"}, Goto(t, to, i),
         \A u \in Threads : u # t => pc[u] \notin Holding, pc[t] # "close"
  PROVE  SlotInv'
<1> DEFINE p == slot[s].pid
<1>1. s \in Slot /\ p \in Proc /\ slot[s].ifname = i
  BY SlotOf
<1>2. /\ pc'[t] = to /\ req'[t] = i
      /\ \A u \in Threads : u # t => pc'[u] = pc[u] /\ req'[u] = req[u]
  BY Went
<1>3. \A r \in Slot : ~Reaped(r) /\ ~Reaped(r)'
  BY <1>2, ThreadsAssumption DEF Reaped, Holding
<1>4. \A q \in Proc : /\ proc'[q].ifname = proc[q].ifname
                      /\ proc'[q].state \in Live <=> proc[q].state \in Live
  BY <1>1 DEF Told, TypeOK, Live
<1>5. proc[p].state \in Live => proc'[p].state \in Ended
  BY <1>1 DEF Told, TypeOK, Live, Ended
<1>6. \A r \in Slot : slot[r].pid # 0 => slot[r].pid \in Proc
  BY SizesAssumption DEF TypeOK, Proc
<1>7. PidsAreOurs'
  BY <1>3, <1>4, <1>6 DEF SlotInv, PidsAreOurs, Live, Unreaped
<1>8. Named' /\ OneMonitor'
  BY <1>2 DEF SlotInv, Named, OneMonitor, Monitors
<1>9. WaitsForOwnChild'
  <2>1. proc[p].state \in Live /\ proc[p].ifname = i
    BY <1>1, <1>3, Sizes DEF SlotInv, PidsAreOurs, Live, Unreaped
  <2>2. s \in Monitors(i)' /\ slot'[s].pid = p /\ proc'[p].ifname = i /\ proc'[p].state \in Ended
    BY <1>1, <1>4, <1>5, <2>1 DEF Monitors
  <2>3. \A u \in Threads : pc'[u] \in {"reap", "undoReap"} => u = t
    BY <1>2 DEF Holding
  <2>4. QED
    BY <1>2, <2>2, <2>3 DEF WaitsForOwnChild, Monitors, Ended
<1>10. ReapedGone'
  BY <1>2, ThreadsAssumption DEF ReapedGone, Holding
<1>11. QED
  BY <1>7, <1>8, <1>9, <1>10 DEF SlotInv

\* A stop finds its process and tells it to end, or finds nothing.
LEMMA DisableInv == ASSUME TypeOK, Holder, SlotInv, NEW i \in Interfaces, Disable(i) PROVE SlotInv'
<1>1. Free
  BY Unlocked DEF Disable
<1>2. CASE UNCHANGED <<slot, proc>> /\ Goto(Main, "clear", i)
  BY <1>1, <1>2, CallerMoves, ThreadsAssumption DEF Free
<1>3. ASSUME NEW s \in Monitors(i),
             slot' = [slot EXCEPT ![s].running = FALSE], proc' = Told(slot[s].pid), Goto(Main, "reap", i)
      PROVE  SlotInv'
  <2>1. \A r \in Slot : slot'[r].pid = slot[r].pid /\ slot'[r].ifname = slot[r].ifname
    BY <1>3, SlotOf DEF TypeOK
  <2>2. pc[Main] # "close" /\ \A u \in Threads : u # Main => pc[u] \notin Holding
    BY <1>1, ThreadsAssumption DEF Free, Holding
  <2>3. QED
    BY <1>3, <2>1, <2>2, ThreadsAssumption, ToldInv
<1>4. QED
  BY <1>2, <1>3 DEF Disable

\* A start without a reader tells its process to end.
LEMMA UndoInv == ASSUME TypeOK, Holder, SlotInv, NEW t \in Threads, Undo(t) PROVE SlotInv'
<1>1. PICK s \in Monitors(req[t]) : proc' = Told(slot[s].pid)
  BY DEF Undo
<1>2. pc[t] = "undo" /\ req[t] \in Interfaces /\ Goto(t, "undoReap", req[t]) /\ slot' = slot
  BY DEF Undo, SlotInv, Named
<1>3. \A u \in Threads : u # t => pc[u] \notin Holding
  BY <1>2 DEF Holder, Holding
<1>4. QED
  BY <1>1, <1>2, <1>3, ToldInv

\* waitpid of the stop: the one process of the interface is gone.
LEMMA ReapInv == ASSUME TypeOK, Holder, SlotInv, StopReap PROVE SlotInv'
<1>1. PICK s \in Monitors(req[Main]) : proc' = [proc EXCEPT ![slot[s].pid].state = "gone"]
  BY DEF StopReap
<1> DEFINE p == slot[s].pid
<1>2. s \in Slot /\ p \in Proc /\ slot[s].ifname = req[Main] /\ req[Main] \in Interfaces
  BY SlotOf, ThreadsAssumption DEF StopReap, SlotInv, Named
<1>3. pc[Main] = "reap" /\ pc'[Main] = "close" /\ req' = req /\ slot' = slot
      /\ \A u \in Threads : pc'[u] \notin {"reap", "undoReap"}
  BY ThreadsAssumption DEF StopReap, Goto, TypeOK, Holder, Holding
<1>4. proc'[p].state = "gone" /\ \A q \in Proc \ {p} : proc'[q] = proc[q]
  BY <1>1, <1>2 DEF TypeOK
<1>5. \A r \in Slot : ~Reaped(r) /\ (Reaped(r)' <=> slot[r].ifname = req[Main])
  BY <1>3 DEF Reaped
<1>6. \A r \in Monitors(req[Main]) : r = s
  BY <1>2 DEF SlotInv, OneMonitor
<1>7. Named' /\ OneMonitor'
  BY <1>3 DEF StopReap, Goto, SlotInv, Named, OneMonitor, Monitors, TypeOK
<1>8. ReapedGone'
  BY <1>3, <1>4, <1>6 DEF ReapedGone, Monitors
<1>9. ASSUME NEW r \in Slot, slot[r].pid # 0, slot[r].ifname # req[Main]
      PROVE  slot[r].pid \in Proc \ {p} /\ proc[slot[r].pid].ifname = slot[r].ifname /\ proc[slot[r].pid].state \in Live
  <2>1. slot[r].pid \in Proc
    BY <1>9, SizesAssumption DEF TypeOK, Proc
  <2>2. p # 0 /\ proc[p].ifname = req[Main]
    BY <1>2, <1>5, Sizes DEF SlotInv, PidsAreOurs
  <2>3. QED
    BY <1>5, <1>9, <2>1, <2>2 DEF SlotInv, PidsAreOurs, Live, Unreaped
<1>10. PidsAreOurs'
  <2>1. ASSUME NEW r \in Slot, slot'[r].pid # 0, ~Reaped(r)'
        PROVE  proc'[slot'[r].pid].ifname = slot'[r].ifname /\ proc'[slot'[r].pid].state \in Live
    BY <2>1, <1>3, <1>4, <1>5, <1>9
  <2>2. ASSUME NEW q \in Proc, proc'[q].state \in Live PROVE \E r \in Slot : slot'[r].pid = q
    <3>1. q # p
      BY <2>2, <1>4 DEF Live
    <3>2. QED
      BY <2>2, <3>1, <1>3, <1>4 DEF SlotInv, PidsAreOurs, Live, Unreaped
  <2>3. QED
    BY <2>1, <2>2 DEF PidsAreOurs, Live, Unreaped
<1>11. QED
  BY <1>3, <1>7, <1>8, <1>10 DEF SlotInv, WaitsForOwnChild

\* The stop zeroes the slot of the process that is gone.
LEMMA CloseInv == ASSUME TypeOK, Holder, SlotInv, StopClose PROVE SlotInv'
<1>1. PICK s \in Monitors(req[Main]) : slot' = Emptied(s)
  BY DEF StopClose
<1>2. s \in Slot /\ slot[s].ifname = req[Main] /\ req[Main] \in Interfaces /\ slot[s].pid \in Proc
  BY SlotOf, ThreadsAssumption DEF StopClose, SlotInv, Named
<1>3. pc[Main] = "close" /\ pc'[Main] = "clear" /\ req' = req /\ proc' = proc
      /\ \A u \in Threads : pc'[u] \notin {"reap", "close", "undoReap"}
  BY ThreadsAssumption DEF StopClose, Goto, TypeOK, Holder, Holding
<1>4. slot'[s] = Empty /\ \A r \in Slot \ {s} : slot'[r] = slot[r]
  BY <1>1, <1>2 DEF Emptied, TypeOK
<1>5. proc[slot[s].pid].state = "gone"
  BY <1>1, <1>3 DEF SlotInv, ReapedGone
<1>6. Named' /\ OneMonitor'
  <2>1. \A t \in Threads : pc'[t] # "idle" => pc[t] # "idle"
    BY <1>3 DEF StopClose, Goto, TypeOK
  <2>2. Named'
    BY <2>1, <1>3, <1>4 DEF SlotInv, Named, Empty
  <2>3. OneMonitor'
    BY <1>4 DEF SlotInv, OneMonitor, Monitors, Empty
  <2>4. QED
    BY <2>2, <2>3
<1>7. \A r \in Slot \ {s} : slot[r].pid # 0 => ~Reaped(r)
  BY <1>1, <1>2 DEF Reaped, SlotInv, OneMonitor, Monitors
<1>8. PidsAreOurs'
  <2>1. ASSUME NEW r \in Slot, slot'[r].pid # 0
        PROVE  proc'[slot'[r].pid].ifname = slot'[r].ifname /\ proc'[slot'[r].pid].state \in Live
    BY <2>1, <1>3, <1>4, <1>7 DEF SlotInv, PidsAreOurs, Live, Unreaped, Empty
  <2>2. ASSUME NEW q \in Proc, proc'[q].state \in Live PROVE \E r \in Slot : slot'[r].pid = q
    <3>1. PICK r \in Slot : slot[r].pid = q
      BY <2>2, <1>3 DEF SlotInv, PidsAreOurs, Live, Unreaped
    <3>2. r # s
      BY <3>1, <2>2, <1>3, <1>5 DEF Live
    <3>3. QED
      BY <3>1, <3>2, <1>4
  <2>3. QED
    BY <2>1, <2>2 DEF PidsAreOurs, Live, Unreaped
<1>9. QED
  BY <1>3, <1>6, <1>8 DEF SlotInv, WaitsForOwnChild, ReapedGone

\* A process moves: it starts vnstat, or ends and waits to be reaped.
LEMMA MovesInv == ASSUME TypeOK, SlotInv, NEW p \in Proc, Exec(p) \/ ProcEnds(p) PROVE SlotInv'
<1>1. UNCHANGED <<slot, pc, req>>
  BY DEF Exec, ProcEnds
<1>2. PICK to \in {"running", "zombie"} :
        /\ proc' = [proc EXCEPT ![p].state = to] /\ proc[p].state \in Live
        /\ proc[p].state \in Ended => to = "zombie"
  BY DEF Exec, ProcEnds, Live, Ended
<1>3. \A q \in Proc : /\ proc'[q].ifname = proc[q].ifname
                      /\ proc'[q].state = IF q = p THEN to ELSE proc[q].state
  BY <1>2 DEF TypeOK
<1>4. \A r \in Slot : slot[r].pid # 0 => slot[r].pid \in Proc
  BY SizesAssumption DEF TypeOK, Proc
<1>5. \A q \in Proc : /\ proc'[q].state \in Live <=> proc[q].state \in Live
                      /\ proc[q].state \in Ended => proc'[q].state \in Ended
                      /\ proc[q].state = "gone" => proc'[q].state = "gone"
  BY <1>2, <1>3 DEF Live, Ended
<1>6. Named' /\ OneMonitor'
  BY <1>1 DEF SlotInv, Named, OneMonitor, Monitors
<1>7. PidsAreOurs'
  BY <1>1, <1>3, <1>4, <1>5 DEF SlotInv, PidsAreOurs, Reaped, Live, Unreaped
<1>8. WaitsForOwnChild' /\ ReapedGone'
  BY <1>1, <1>3, <1>4, <1>5 DEF SlotInv, WaitsForOwnChild, ReapedGone, Monitors, Ended
<1>9. QED
  BY <1>6, <1>7, <1>8 DEF SlotInv

LEMMA SlotStep == TypeOK /\ Holder /\ SlotInv /\ [Next]_vars => SlotInv'
<1> SUFFICES ASSUME TypeOK, Holder, SlotInv, [Next]_vars PROVE SlotInv'
  OBVIOUS
<1>1. ASSUME NEW i \in Interfaces, Enable(i) PROVE SlotInv'
  <2>1. Free
    BY <1>1, Unlocked DEF Enable
  <2>2. CASE StartMonitor(i, TRUE) /\ Goto(Main, "set", i)
    BY <2>1, <2>2, StartInv, ThreadsAssumption
  <2>3. CASE StartMonitor(i, FALSE) /\ Goto(Main, "idle", NoIf)
    BY <2>1, <2>3, StartInv, ThreadsAssumption
  <2>4. CASE Spawn(i, FALSE) /\ Goto(Main, "undo", i)
    BY <2>1, <2>4, SpawnInv, ThreadsAssumption
  <2>5. QED
    BY <1>1, <2>2, <2>3, <2>4 DEF Enable, Unthreaded, Return
<1>2. ASSUME NEW i \in Interfaces, Disable(i) PROVE SlotInv'
  BY <1>2, DisableInv
<1>3. CASE StopReap
  BY <1>3, ReapInv
<1>4. CASE StopClose
  BY <1>4, CloseInv
<1>5. CASE SaveKey
  <2>1. pc[Main] \notin Holding /\ Goto(Main, "idle", NoIf) /\ UNCHANGED <<slot, proc>>
    BY <1>5 DEF SaveKey, Holding, Return
  <2>2. QED
    BY <2>1, CallerMoves, ThreadsAssumption
<1>6. ASSUME NEW t \in Threads, NEW i \in Interfaces, FindMonitored(t, i) PROVE SlotInv'
  <2>1. pc[t] \notin Holding /\ Goto(t, "ask", i) /\ UNCHANGED <<slot, proc>>
    BY <1>6 DEF FindMonitored, Holding
  <2>2. QED
    BY <2>1, CallerMoves
<1>7. ASSUME NEW t \in Threads, NEW i \in Interfaces, GetStats(t, i) PROVE SlotInv'
  <2>1. pc[t] \notin Holding /\ Goto(t, "idle", NoIf) /\ UNCHANGED <<slot, proc>>
    BY <1>7 DEF GetStats, Asks, Holding, Return
  <2>2. QED
    BY <2>1, CallerMoves
<1>8. ASSUME NEW t \in Threads, NEW i \in Interfaces, FindEnded(t, i) PROVE SlotInv'
  BY <1>8, EndedInv
<1>9. ASSUME NEW t \in Threads, Restart(t) PROVE SlotInv'
  <2>1. PICK i \in Interfaces : i = req[t]
    BY <1>9 DEF Restart, SlotInv, Named
  <2>2. Free
    BY <1>9, Unlocked DEF Restart
  <2>3. ASSUME NEW done \in BOOLEAN, StartMonitor(i, done), Goto(t, "idle", NoIf) PROVE SlotInv'
    BY <2>2, <2>3, StartInv
  <2>4. CASE Spawn(i, FALSE) /\ Goto(t, "undo", i)
    BY <2>2, <2>4, SpawnInv
  <2>5. QED
    BY <1>9, <2>1, <2>3, <2>4 DEF Restart, Unthreaded, Return
<1>10. ASSUME NEW t \in Threads, Undo(t) \/ Undone(t) PROVE SlotInv'
  BY <1>10, UndoInv, UndoneInv
<1>11. ASSUME NEW p \in Proc, Reader(p) PROVE SlotInv'
  BY <1>11, SameSlots DEF Reader, ReaderOpen, ReaderCheck, ReaderEnter, ReaderReturns, ReaderClose, SameButReader
<1>12. ASSUME NEW p \in Proc, Exec(p) \/ ProcEnds(p) PROVE SlotInv'
  BY <1>12, MovesInv
<1>13. CASE OtherOpens \/ OtherCloses \/ UNCHANGED vars
  BY <1>13, SameSlots DEF OtherOpens, OtherCloses, vars
<1>14. QED
  BY <1>1, <1>2, <1>3, <1>4, <1>5, <1>6, <1>7, <1>8, <1>9, <1>10, <1>11, <1>12, <1>13 DEF Next, Requests, Own

----------------------------------------------------------------------------

\* The invariant holds for ever.
THEOREM Invariance == Spec => []IInv
<1>1. IInv /\ [Next]_vars => IInv'
  BY TypeStep, HolderStep, SlotStep DEF IInv, SlotInv
<1>2. QED
  BY InitInv, <1>1, PTL DEF Spec

\* Every variable keeps its type: pids, slots and descriptors stay in range.
THEOREM TypeCorrect == Spec => []TypeOK
<1>1. IInv => TypeOK
  BY DEF IInv
<1>2. QED
  BY Invariance, <1>1, PTL

\* netif.c waits for and signals its own children only, and each child it has
\* not reaped is in a slot of its interface.
THEOREM ChildrenInSlots == Spec => []PidsAreOurs
<1>1. IInv => PidsAreOurs
  BY DEF IInv, SlotInv
<1>2. QED
  BY Invariance, <1>1, PTL

\* Starts from the event loop and restarts from the telemetry worker leave an
\* interface with one monitor.
THEOREM OneMonitorHolds == Spec => []OneMonitor
<1>1. IInv => OneMonitor
  BY DEF IInv, SlotInv
<1>2. QED
  BY Invariance, <1>1, PTL

\* Whoever waits in waitpid under g_monitors_lock has an unreaped child of its
\* interface that it has sent SIGTERM; a deaf one may take as long as vnstat runs.
THEOREM WaitsForOwnChildHolds == Spec => []WaitsForOwnChild
<1>1. IInv => WaitsForOwnChild
  BY DEF IInv, SlotInv
<1>2. QED
  BY Invariance, <1>1, PTL
=============================================================================
