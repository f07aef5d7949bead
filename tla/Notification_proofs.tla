------------------------ MODULE Notification_proofs ------------------------
(***************************************************************************)
(* Proofs, for any queue, rules, clock, failures and restarts, that the    *)
(* queue of notification.c implements Outbox, that no wakeup of its worker *)
(* is missed, that the rules in memory are stored, and that cooldowns are  *)
(* respected.                                                              *)
(*                                                                         *)
(* Order of the argument: the rules (StoreInv, StampInv) and the queue     *)
(* (WorkerInv, RingInv) share no variable but the state of the process, so *)
(* each pair is inductive with TypeOK alone.                               *)
(***************************************************************************)
EXTENDS Notification, FiniteSetTheorems, TLAPS

Ascending(s) == \A i, k \in DOMAIN s : i < k => s[i].id < s[k].id
OneEach(s) == \A i, k \in DOMAIN s : s[i].type = s[k].type => i = k

\* The rows have increasing ids below the next one, and one event each.
StoreInv ==
  /\ Ascending(db) /\ OneEach(db) /\ \A i \in DOMAIN db : db[i].id < nextId
  /\ Ascending(rules) /\ OneEach(rules)
  /\ \A i \in DOMAIN rules : \E k \in DOMAIN db : Stores(db[k], rules[i])

\* g_last_sent holds the time of each rule's own last event.
StampInv ==
  /\ \A i \in DOMAIN rules : lastSent[i] = stamp[rules[i].id]
  /\ \A r \in Id : r >= nextId => stamp[r] = 0
  /\ mpc = "down" => rules = <<>> /\ \A r \in Id : stamp[r] = 0

\* What the worker's place says about the flags and the queue.
WorkerInv ==
  /\ wpc = "none" <=> ~running
  /\ ~running => count = 0
  /\ wpc \in {"job", "curl"} <=> job # NoJob
  /\ stop <=> mpc = "join"
  /\ mpc = "join" => running
  /\ mpc = "down" => ~running
  /\ wpc = "exited" => stop /\ count = 0
  /\ wpc = "wait" => count = 0 /\ ~stop

\* The slots from head on hold the waiting jobs, and tail is the next slot.
RingInv ==
  /\ wpc # "exited" => tail = (head + count) % QueueSize
  /\ \A k \in 1 .. count : ring[(head + k - 1) % QueueSize] \in Job

RuleTypes ==
  /\ hook \in Hook /\ hookDb \in Hook
  /\ rules \in Seq(Rule) /\ lastSent \in Seq(0 .. MaxTime) /\ Len(lastSent) = Len(rules)
  /\ db \in Seq(Rule) /\ nextId \in 1 .. MaxId + 1 /\ migrated \in BOOLEAN
  /\ now \in 1 .. MaxTime /\ stamp \in [Id -> 0 .. MaxTime]

QueueTypes ==
  /\ ring \in [Slot -> Job \cup {NoJob}]
  /\ head \in Slot /\ tail \in Slot /\ count \in 0 .. QueueSize /\ made \in 0 .. MaxJob
  /\ stop \in BOOLEAN /\ running \in BOOLEAN
  /\ wpc \in {"none", "loop", "wait", "job", "curl", "exited"} /\ job \in Job \cup {NoJob}

RuleInv == RuleTypes /\ StoreInv /\ StampInv
QueueInv == QueueTypes /\ WorkerInv /\ RingInv
OtherTypes ==
  /\ logs \in [0 .. LogSize - 1 -> Nat] /\ logCount \in 0 .. LogSize /\ logId \in Nat
  /\ mpc \in {"run", "join", "down"} /\ fails \in 0 .. MaxFail /\ starts \in 0 .. MaxStart

---------------------------------------------------------------------------
(* The ring.                                                               *)

\* Indices stay in the array, and the index after the last is the first.
LEMMA Advances == ASSUME NEW i \in Slot PROVE Advance(i) \in Slot
  BY SizesAssumption DEF Slot, Advance

\* What the slots are called after the head has advanced.
LEMMA Shifted ==
  ASSUME NEW h \in Slot, NEW k \in Nat, k >= 1, k <= QueueSize
  PROVE  (Advance(h) + k - 1) % QueueSize = (h + k) % QueueSize
  BY SizesAssumption DEF Slot, Advance

\* The slot at the tail is no waiting job's, as long as there is room.
LEMMA FreeSlot ==
  ASSUME NEW h \in Slot, NEW c \in Nat, c < QueueSize, NEW k \in 1 .. c
  PROVE  (h + k - 1) % QueueSize # (h + c) % QueueSize
  BY SizesAssumption DEF Slot

\* A remainder is an index.
LEMMA InSlot == ASSUME NEW a \in Nat PROVE a % QueueSize \in Slot
  BY SizesAssumption DEF Slot

\* A signal moves a waiting worker and nobody else.
LEMMA SignalledIs == Signalled = (IF wpc = "wait" THEN "loop" ELSE wpc) /\ StopSignal = Signalled
  BY DEF Signalled, StopSignal

\* A job is not the absence of one.
LEMMA NoJobIsNone == NoJob \notin Job
  BY DEF NoJob, Job

\* enqueue_job
LEMMA EnqueueKeeps == ASSUME QueueInv, mpc = "run", mpc' = mpc, NEW r \in Id \cup {0}, Enqueue(r) PROVE QueueInv'
<1> DEFINE new == [n |-> made + 1, rule |-> r]
<1>1. new \in Job /\ made' \in 0 .. MaxJob
  BY BoundsAssumption DEF Job, Enqueue, QueueInv, QueueTypes
<1>2. QueueTypes'
  <2>1. tail' \in Slot
    BY Advances DEF Enqueue, QueueInv, QueueTypes
  <2>2. ring' \in [Slot -> Job \cup {NoJob}]
    BY <1>1 DEF Enqueue, QueueInv, QueueTypes
  <2>3. count' \in 0 .. QueueSize
    BY SizesAssumption DEF Enqueue, Room, QueueInv, QueueTypes
  <2>4. QED
    BY <1>1, <2>1, <2>2, <2>3, SignalledIs DEF Enqueue, QueueInv, QueueTypes
<1>3. WorkerInv'
  BY SignalledIs DEF Enqueue, QueueInv, QueueTypes, WorkerInv
<1>4. RingInv'
  <2>1. wpc # "exited" /\ ~stop
    BY DEF QueueInv, WorkerInv
  <2>2. tail = (head + count) % QueueSize /\ count \in Nat /\ count < QueueSize /\ head \in Slot /\ head \in Nat
    BY <2>1 DEF QueueInv, QueueTypes, RingInv, Enqueue, Room, Slot
  <2>3. tail' = (head' + count') % QueueSize
    BY <2>2, SizesAssumption DEF Enqueue, Advance, Slot
  <2>4. ASSUME NEW k \in 1 .. count' PROVE ring'[(head' + k - 1) % QueueSize] \in Job
    <3>1. CASE k = count'
      <4>1. (head' + k - 1) % QueueSize = tail
        BY <2>2, <3>1 DEF Enqueue
      <4>2. ring'[tail] = new
        BY DEF Enqueue, QueueInv, QueueTypes
      <4>3. QED
        BY <1>1, <4>1, <4>2
    <3>2. CASE k # count'
      <4>1. k \in 1 .. count
        BY <2>2, <3>2 DEF Enqueue
      <4>2. (head + k - 1) % QueueSize # tail /\ (head + k - 1) % QueueSize \in Slot
        BY <2>2, <4>1, FreeSlot, InSlot
      <4>3. ring'[(head + k - 1) % QueueSize] = ring[(head + k - 1) % QueueSize] /\ head' = head
        BY <4>2 DEF Enqueue, QueueInv, QueueTypes
      <4>4. QED
        BY <4>1, <4>3 DEF QueueInv, RingInv
    <3>3. QED
      BY <3>1, <3>2
  <2>5. QED
    BY <2>3, <2>4 DEF RingInv
<1>5. QED
  BY <1>2, <1>3, <1>4 DEF QueueInv

\* The worker takes the oldest job.
LEMMA TakeKeeps == ASSUME QueueInv, WorkerTake PROVE QueueInv'
<1>1. count \in Nat /\ count > 0 /\ head \in Slot /\ head \in Nat /\ count <= QueueSize /\ ~stop /\ wpc = "loop"
  BY DEF WorkerTake, MayTake, QueueInv, QueueTypes, Slot
<1>2. ring[head] \in Job
  <2>1. (head + 1 - 1) % QueueSize = head
    BY <1>1, SizesAssumption DEF Slot
  <2>2. QED
    BY <1>1, <2>1 DEF QueueInv, RingInv
<1>3. QueueTypes'
  <2>1. head' \in Slot
    BY Advances DEF WorkerTake, QueueInv, QueueTypes
  <2>2. count' \in 0 .. QueueSize
    BY <1>1, SizesAssumption DEF WorkerTake
  <2>3. QED
    BY <1>2, <2>1, <2>2 DEF WorkerTake, QueueInv, QueueTypes
<1>4. WorkerInv'
  BY <1>1, <1>2, NoJobIsNone DEF WorkerTake, QueueInv, QueueTypes, WorkerInv
<1>5. RingInv'
  <2>1. ASSUME NEW k \in Nat, k >= 1, k <= QueueSize PROVE (head' + k - 1) % QueueSize = (head + k) % QueueSize
    BY <1>1, <2>1, Shifted DEF WorkerTake
  <2>2. tail' = (head' + count') % QueueSize
    BY <1>1, SizesAssumption DEF WorkerTake, QueueInv, RingInv, Advance, Slot
  <2>3. ASSUME NEW k \in 1 .. count' PROVE ring'[(head' + k - 1) % QueueSize] \in Job
    <3>1. k + 1 \in 1 .. count /\ k \in Nat /\ k >= 1 /\ k <= QueueSize
      <4>1. count' = count - 1 /\ QueueSize \in Nat
        BY SizesAssumption DEF WorkerTake
      <4>2. QED
        BY <1>1, <4>1
    <3>2. ring[(head + (k + 1) - 1) % QueueSize] \in Job
      BY <3>1 DEF QueueInv, RingInv
    <3>3. head + (k + 1) - 1 = head + k
      BY <1>1, <3>1
    <3>4. QED
      BY <2>1, <3>1, <3>2, <3>3 DEF WorkerTake
  <2>4. QED
    BY <2>2, <2>3 DEF RingInv
<1>6. QED
  BY <1>3, <1>4, <1>5 DEF QueueInv

\* The worker's other steps leave the ring alone; only its exit empties it.
LEMMA WorkerKeeps ==
  ASSUME QueueInv, WorkerWait \/ SpuriousWakeup \/ WorkerExit \/ SendWebhook \/ CurlEnds
  PROVE  QueueInv'
<1>1. CASE WorkerWait
  BY <1>1 DEF WorkerWait, queueVars, QueueInv, QueueTypes, WorkerInv, RingInv
<1>2. CASE SpuriousWakeup
  BY <1>2 DEF SpuriousWakeup, queueVars, QueueInv, QueueTypes, WorkerInv, RingInv
<1>3. CASE WorkerExit
  BY <1>3, SizesAssumption DEF WorkerExit, QueueInv, QueueTypes, WorkerInv, RingInv
<1>4. CASE SendWebhook \/ CurlEnds
  <2>1. /\ wpc \in {"job", "curl"} /\ UNCHANGED <<queueVars, stop, running, mpc>>
        /\ \/ wpc' = "loop" /\ job' = NoJob
           \/ wpc' = "curl" /\ job' = job
    BY <1>4 DEF SendWebhook, CurlEnds
  <2>2. QED
    BY <2>1 DEF queueVars, QueueInv, QueueTypes, WorkerInv, RingInv
<1>5. QED
  BY <1>1, <1>2, <1>3, <1>4

\* A process that has gone leaves an empty queue and no worker.
LEMMA GoneKeeps == ASSUME QueueInv, Gone PROVE QueueInv'
<1>1. ring' = Blank(NoJob) /\ head' = 0 /\ tail' = 0 /\ count' = 0 /\ made' = made
      /\ stop' = FALSE /\ running' = FALSE /\ wpc' = "none" /\ job' = NoJob /\ mpc' = "down"
  BY DEF Gone
<1>2. QueueTypes'
  <2>1. ring' \in [Slot -> Job \cup {NoJob}]
    BY <1>1 DEF Blank
  <2>2. 0 \in Slot /\ 0 \in 0 .. QueueSize
    BY SizesAssumption DEF Slot
  <2>3. QED
    BY <1>1, <2>1, <2>2 DEF QueueInv, QueueTypes
<1>3. WorkerInv'
  BY <1>1 DEF WorkerInv
<1>4. RingInv'
  BY <1>1, SizesAssumption DEF RingInv
<1>5. QED
  BY <1>2, <1>3, <1>4 DEF QueueInv

\* Start, with or without its thread, and the call of notification_deinit.
LEMMA MainKeeps ==
  ASSUME QueueInv, Start \/ Deinit \/ Joined
  PROVE  QueueInv'
<1>1. CASE Start
  <2>1. /\ mpc = "down" /\ mpc' = "run" /\ running' \in BOOLEAN /\ wpc' = IF running' THEN "loop" ELSE "none"
        /\ UNCHANGED <<queueVars, stop, job>>
    BY <1>1 DEF Start
  <2>2. QED
    BY <2>1 DEF queueVars, QueueInv, QueueTypes, WorkerInv, RingInv
<1>2. CASE Deinit /\ running
  <2>1. /\ mpc = "run" /\ mpc' = "join" /\ stop' = TRUE /\ wpc' = IF wpc = "wait" THEN "loop" ELSE wpc
        /\ UNCHANGED <<queueVars, running, job>>
    BY <1>2, SignalledIs DEF Deinit
  <2>2. QED
    BY <1>2, <2>1 DEF queueVars, QueueInv, QueueTypes, WorkerInv, RingInv
<1>3. CASE (Deinit /\ ~running) \/ Joined
  BY <1>3, GoneKeeps DEF Deinit, Joined
<1>4. QED
  BY <1>1, <1>2, <1>3

---------------------------------------------------------------------------
(* The rules.                                                              *)

\* The array without slot i.
LEMMA WithoutIs ==
  ASSUME NEW S, NEW s \in Seq(S), NEW i \in DOMAIN s
  PROVE  /\ Without(s, i) \in Seq(S) /\ Len(Without(s, i)) = Len(s) - 1
         /\ \A k \in 1 .. Len(s) - 1 : Without(s, i)[k] = IF k < i THEN s[k] ELSE s[k + 1]
<1>1. DOMAIN s = 1 .. Len(s) /\ Len(s) \in Nat
  OBVIOUS
<1>2. \A k \in 1 .. Len(s) - 1 : (IF k < i THEN s[k] ELSE s[k + 1]) \in S
  BY <1>1
<1>3. Without(s, i) \in [1 .. Len(s) - 1 -> S]
  BY <1>2 DEF Without
<1>4. Len(s) - 1 \in Nat
  BY <1>1
<1>5. QED
  BY <1>3, <1>4 DEF Without

\* Without a slot, each remaining rule comes from another slot, in the same order.
LEMMA WithoutFrom ==
  ASSUME NEW S, NEW s \in Seq(S), NEW i \in DOMAIN s
  PROVE  LET w == Without(s, i)
             from == [k \in 1 .. Len(s) - 1 |-> IF k < i THEN k ELSE k + 1]
         IN /\ DOMAIN w = 1 .. Len(s) - 1
            /\ \A k \in DOMAIN w : from[k] \in DOMAIN s /\ from[k] # i /\ w[k] = s[from[k]]
            /\ \A j, k \in DOMAIN w : j < k => from[j] < from[k]
            /\ \A j, k \in DOMAIN w : from[j] = from[k] => j = k
<1> DEFINE w == Without(s, i)
           from == [k \in 1 .. Len(s) - 1 |-> IF k < i THEN k ELSE k + 1]
<1>1. DOMAIN s = 1 .. Len(s) /\ Len(s) \in Nat /\ i \in Nat /\ i >= 1 /\ i <= Len(s)
  OBVIOUS
<1>2. DOMAIN w = 1 .. Len(s) - 1 /\ \A k \in DOMAIN w : w[k] = IF k < i THEN s[k] ELSE s[k + 1]
  BY DEF Without
<1>3. \A k \in DOMAIN w : from[k] = (IF k < i THEN k ELSE k + 1) /\ k \in Nat /\ k >= 1 /\ k <= Len(s) - 1
  BY <1>1, <1>2
<1> HIDE DEF w, from
<1>4. \A k \in DOMAIN w : from[k] \in DOMAIN s /\ from[k] # i /\ w[k] = s[from[k]]
  BY <1>1, <1>2, <1>3
<1>5. \A j, k \in DOMAIN w : j < k => from[j] < from[k]
  BY <1>1, <1>3
<1>6. \A j, k \in DOMAIN w : from[j] = from[k] => j = k
  BY <1>1, <1>3
<1>7. QED
  BY <1>2, <1>4, <1>5, <1>6 DEF w, from

\* Ids stay increasing and events single when a rule goes.
LEMMA WithoutKeeps ==
  ASSUME NEW s \in Seq(Rule), NEW i \in DOMAIN s, Ascending(s), OneEach(s)
  PROVE  /\ Ascending(Without(s, i)) /\ OneEach(Without(s, i))
         /\ \A k \in DOMAIN Without(s, i) : \E j \in DOMAIN s : Without(s, i)[k] = s[j]
<1> DEFINE w == Without(s, i)
           from == [k \in 1 .. Len(s) - 1 |-> IF k < i THEN k ELSE k + 1]
<1>1. /\ \A k \in DOMAIN w : from[k] \in DOMAIN s /\ w[k] = s[from[k]]
      /\ \A j, k \in DOMAIN w : j < k => from[j] < from[k]
      /\ \A j, k \in DOMAIN w : from[j] = from[k] => j = k
  BY WithoutFrom
<1> HIDE DEF w, from
<1>2. Ascending(w)
  BY <1>1 DEF Ascending
<1>3. OneEach(w)
  BY <1>1 DEF OneEach
<1>4. \A k \in DOMAIN w : \E j \in DOMAIN s : w[k] = s[j]
  BY <1>1
<1>5. QED
  BY <1>2, <1>3, <1>4 DEF w

\* The parts of a rule.
LEMMA RuleFields == \A x \in Rule : x.id \in Id /\ x.type \in Types /\ x.cool \in Cooldowns
  BY DEF Rule

\* A row is a rule with the id and the event type of the one it stores.
LEMMA RowIs == \A x \in Rule : Row(x) \in Rule /\ Row(x).id = x.id /\ Row(x).type = x.type
  BY RoundedAssumption DEF Row, Rule

LEMMA StoresIs == \A x \in Rule : \A row : Stores(row, x) => row.id = x.id /\ row.type = x.type
  BY RowIs DEF Stores

\* Ids are positive.
LEMMA IdsAre == \A r \in Id : r \in Nat /\ r # 0
  BY BoundsAssumption DEF Id

\* The rows are rules with positive ids.
LEMMA RowIds == ASSUME RuleTypes PROVE \A k \in DOMAIN db : db[k] \in Rule /\ db[k].id \in Nat /\ db[k].id # 0
<1>1. \A k \in DOMAIN db : db[k] \in Rule
  BY DEF RuleTypes
<1>2. \A row \in Rule : row.id \in Nat /\ row.id # 0
  BY RuleFields, IdsAre
<1>3. QED
  BY <1>1, <1>2

\* migrate_legacy_rules keeps ids increasing and events single.
LEMMA MigratedIs ==
  ASSUME RuleTypes, StoreInv, NEW new \in Orders, nextId + Cardinality(Missing) <= MaxId + 1
  PROVE  LET rows == Migrated(new)
         IN /\ Cardinality(Missing) \in Nat /\ rows \in Seq(Rule) /\ Ascending(rows) /\ OneEach(rows)
            /\ \A i \in DOMAIN rows : rows[i].id < nextId + Cardinality(Missing)
<1> DEFINE n == Cardinality(Missing)
           tailRows == [i \in DOMAIN new |-> [id |-> nextId + i - 1, type |-> new[i].type,
                                              cool |-> new[i].cool, thr |-> new[i].thr]]
           rows == Migrated(new)
<1>1. n \in Nat
  <2>1. Missing \subseteq Legacy
    BY DEF Missing
  <2>2. QED
    BY <2>1, LegacyAssumption, FS_Subset, FS_CardinalityType
<1>2. /\ new \in [1 .. n -> Missing] /\ DOMAIN new = 1 .. n
      /\ \A i, k \in 1 .. n : new[i] = new[k] => i = k
  BY DEF Orders
<1>3. \A i \in 1 .. n : /\ new[i] \in Legacy /\ new[i].type \in Types /\ new[i].cool \in Cooldowns
                        /\ new[i].thr \in Thresholds
                        /\ \A k \in DOMAIN db : db[k].type # new[i].type
  <2>1. \A l \in Missing : l \in Legacy /\ \A k \in DOMAIN db : ~(db[k].type = l.type /\ db[k].id # 0)
    BY DEF Missing, TypeTaken
  <2>2. \A k \in DOMAIN db : db[k].id # 0
    BY RowIds
  <2>3. QED
    BY <1>2, <2>1, <2>2, LegacyAssumption DEF Setting
<1>4. tailRows \in [1 .. n -> Rule]
  <2>1. \A i \in 1 .. n : nextId + i - 1 \in Id
    BY <1>1, BoundsAssumption DEF Id, RuleTypes
  <2>2. \A i \in 1 .. n : [id |-> nextId + i - 1, type |-> new[i].type, cool |-> new[i].cool, thr |-> new[i].thr] \in Rule
    BY <1>3, <2>1 DEF Rule
  <2>3. QED
    BY <1>2, <2>2
<1>5. tailRows \in Seq(Rule) /\ Len(tailRows) = n
  BY <1>1, <1>4
<1>6. rows = db \o tailRows
  BY DEF Migrated
<1>7. rows \in Seq(Rule) /\ Len(rows) = Len(db) + n /\ DOMAIN rows = 1 .. Len(db) + n /\ Len(db) \in Nat /\ DOMAIN db = 1 .. Len(db)
  BY <1>1, <1>5, <1>6 DEF RuleTypes
<1>8. \A i \in 1 .. Len(db) : rows[i] = db[i]
  BY <1>1, <1>5, <1>6 DEF RuleTypes
<1>9. \A i \in 1 .. n : rows[Len(db) + i].id = nextId + i - 1 /\ rows[Len(db) + i].type = new[i].type
  <2>1. \A i \in 1 .. n : rows[Len(db) + i] = tailRows[i]
    BY <1>1, <1>5, <1>6 DEF RuleTypes
  <2>2. \A i \in 1 .. n : tailRows[i].id = nextId + i - 1 /\ tailRows[i].type = new[i].type
    BY <1>2
  <2>3. QED
    BY <2>1, <2>2
<1>10. \A i \in 1 .. Len(db) + n : i > Len(db) => i - Len(db) \in 1 .. n /\ i = Len(db) + (i - Len(db))
  BY <1>1, <1>7
<1>11. nextId \in Nat /\ \A i \in DOMAIN db : db[i].id \in Nat /\ db[i].id < nextId
  BY RowIds, BoundsAssumption DEF RuleTypes, StoreInv
<1>12. Ascending(rows)
  <2> SUFFICES ASSUME NEW i \in DOMAIN rows, NEW k \in DOMAIN rows, i < k PROVE rows[i].id < rows[k].id
    BY DEF Ascending
  <2>1. CASE k <= Len(db)
    BY <1>7, <1>8, <2>1 DEF StoreInv, Ascending
  <2>2. CASE i <= Len(db) /\ k > Len(db)
    BY <1>1, <1>7, <1>8, <1>9, <1>10, <1>11, <2>2
  <2>3. CASE i > Len(db)
    <3>1. k > Len(db) /\ i - Len(db) \in 1 .. n /\ k - Len(db) \in 1 .. n
      BY <1>1, <1>7, <1>10, <2>3
    <3>2. rows[i].id = nextId + (i - Len(db)) - 1 /\ rows[k].id = nextId + (k - Len(db)) - 1
      BY <1>7, <1>9, <1>10, <2>3, <3>1
    <3>3. QED
      BY <1>7, <1>11, <3>2
  <2>4. QED
    BY <1>7, <2>1, <2>2, <2>3
<1>13. OneEach(rows)
  <2> SUFFICES ASSUME NEW i \in DOMAIN rows, NEW k \in DOMAIN rows, rows[i].type = rows[k].type PROVE i = k
    BY DEF OneEach
  <2>1. CASE i <= Len(db) /\ k <= Len(db)
    BY <1>7, <1>8, <2>1 DEF StoreInv, OneEach
  <2>2. CASE i <= Len(db) /\ k > Len(db)
    BY <1>3, <1>7, <1>8, <1>9, <1>10, <2>2
  <2>3. CASE i > Len(db) /\ k <= Len(db)
    BY <1>3, <1>7, <1>8, <1>9, <1>10, <2>3
  <2>4. CASE i > Len(db) /\ k > Len(db)
    BY <1>2, <1>3, <1>7, <1>9, <1>10, <2>4, LegacyAssumption
  <2>5. QED
    BY <1>7, <2>1, <2>2, <2>3, <2>4
<1>14. \A i \in DOMAIN rows : rows[i].id < nextId + n
  BY <1>1, <1>7, <1>8, <1>9, <1>10, <1>11
<1>15. QED
  BY <1>1, <1>7, <1>12, <1>13, <1>14

\* notification_init loads what is stored.
LEMMA StartRules == ASSUME RuleInv, Start PROVE RuleInv'
<1>1. PICK new \in Orders :
        /\ \/ db' = Migrated(new) /\ nextId' = nextId + Cardinality(Missing)
           \/ db' = db /\ nextId' = nextId
        /\ migrated' \in BOOLEAN /\ hook' \in {"EMPTY", hookDb}
        /\ rules' = <<>> \/ rules' = db'
        /\ lastSent' = [i \in DOMAIN rules' |-> 0]
  BY DEF Start, RuleInv, RuleTypes
<1>2. /\ nextId + Cardinality(Missing) <= MaxId + 1 /\ mpc = "down" /\ mpc' = "run"
      /\ hookDb' = hookDb /\ stamp' = stamp /\ now' = now
  BY DEF Start
<1>3. /\ nextId' \in 1 .. MaxId + 1 /\ db' \in Seq(Rule) /\ Ascending(db') /\ OneEach(db')
      /\ \A i \in DOMAIN db' : db'[i].id < nextId'
      /\ nextId' >= nextId
  <2>1. CASE db' = Migrated(new) /\ nextId' = nextId + Cardinality(Missing)
    <3>1. /\ Cardinality(Missing) \in Nat /\ db' \in Seq(Rule) /\ Ascending(db') /\ OneEach(db')
          /\ \A i \in DOMAIN db' : db'[i].id < nextId'
      BY <1>2, <2>1, MigratedIs DEF RuleInv
    <3>2. QED
      BY <1>2, <2>1, <3>1, BoundsAssumption DEF RuleInv, RuleTypes
  <2>2. CASE db' = db /\ nextId' = nextId
    BY <2>2, BoundsAssumption DEF RuleInv, RuleTypes, StoreInv
  <2>3. QED
    BY <1>1, <2>1, <2>2
<1>4. rules' \in Seq(Rule) /\ lastSent' \in Seq(0 .. MaxTime) /\ Len(lastSent') = Len(rules')
  <2>1. rules' \in Seq(Rule)
    BY <1>1, <1>3
  <2>2. DOMAIN rules' = 1 .. Len(rules') /\ Len(rules') \in Nat /\ 0 \in 0 .. MaxTime
    BY <2>1, BoundsAssumption
  <2>3. QED
    BY <1>1, <2>1, <2>2
<1>5. RuleTypes'
  BY <1>1, <1>2, <1>3, <1>4 DEF RuleInv, RuleTypes, Hook
<1>6. StoreInv'
  BY <1>1, <1>3 DEF StoreInv, Stores, Ascending, OneEach
<1>7. StampInv'
  <2>1. \A r \in Id : stamp'[r] = 0
    BY <1>2 DEF RuleInv, StampInv
  <2>2. \A i \in DOMAIN rules' : rules'[i].id \in Id /\ lastSent'[i] = 0
    <3>1. \A i \in DOMAIN rules' : rules'[i] \in Rule
      BY <1>4
    <3>2. QED
      BY <1>1, <3>1, RuleFields
  <2>3. QED
    BY <1>2, <2>1, <2>2 DEF StampInv
<1>8. QED
  BY <1>5, <1>6, <1>7 DEF RuleInv

\* Elements of what is stored and loaded, and the ids below the next one.
LEMMA RulesAre ==
  ASSUME RuleInv
  PROVE  /\ \A i \in DOMAIN rules : /\ rules[i] \in Rule /\ rules[i].id \in Id /\ rules[i].id \in Nat
                                    /\ rules[i].id < nextId /\ rules[i].cool \in Nat
         /\ DOMAIN rules = 1 .. Len(rules) /\ DOMAIN lastSent = 1 .. Len(rules) /\ Len(rules) \in Nat
         /\ DOMAIN db = 1 .. Len(db) /\ Len(db) \in Nat /\ nextId \in Nat
         /\ \A i \in DOMAIN db : db[i] \in Rule /\ db[i].id \in Nat /\ db[i].id < nextId
<1>1. /\ DOMAIN rules = 1 .. Len(rules) /\ DOMAIN lastSent = 1 .. Len(rules) /\ Len(rules) \in Nat
      /\ DOMAIN db = 1 .. Len(db) /\ Len(db) \in Nat /\ nextId \in Nat
  BY BoundsAssumption DEF RuleInv, RuleTypes
<1>2. \A i \in DOMAIN rules : rules[i] \in Rule
  BY DEF RuleInv, RuleTypes
<1>3. \A x \in Rule : x.id \in Id /\ x.id \in Nat /\ x.cool \in Nat
  BY RuleFields, IdsAre, BoundsAssumption
<1>4. \A i \in DOMAIN db : db[i] \in Rule /\ db[i].id \in Nat /\ db[i].id < nextId
  BY RowIds DEF RuleInv, StoreInv
<1>5. \A i \in DOMAIN rules : rules[i].id < nextId
  BY <1>2, <1>4, StoresIs DEF RuleInv, StoreInv
<1>6. QED
  BY <1>1, <1>2, <1>3, <1>4, <1>5

\* An accepted event is stamped in the array and in the history.
LEMMA EmitRules == ASSUME RuleInv, NEW t \in Types, Emit(t) PROVE RuleInv'
<1>1. PICK i \in DOMAIN rules : /\ lastSent' = [lastSent EXCEPT ![i] = now]
                                /\ stamp' = [stamp EXCEPT ![rules[i].id] = now]
  BY DEF Emit
<1>2. mpc = "run" /\ UNCHANGED <<hook, hookDb, rules, db, nextId, migrated, mpc, now>>
  BY DEF Emit
<1>3. lastSent' \in Seq(0 .. MaxTime) /\ Len(lastSent') = Len(rules') /\ stamp' \in [Id -> 0 .. MaxTime]
  <2>1. now \in 0 .. MaxTime
    BY BoundsAssumption DEF RuleInv, RuleTypes
  <2>2. QED
    BY <1>1, <1>2, <2>1, RulesAre DEF RuleInv, RuleTypes
<1>4. RuleTypes'
  BY <1>2, <1>3 DEF RuleInv, RuleTypes
<1>5. StoreInv'
  BY <1>2 DEF RuleInv, StoreInv, Ascending, OneEach
<1>6. StampInv'
  <2>1. \A k \in DOMAIN rules : k # i => rules[k].id # rules[i].id
    BY RulesAre DEF RuleInv, StoreInv, Ascending
  <2>2. \A k \in DOMAIN rules' : lastSent'[k] = stamp'[rules'[k].id]
    BY <1>1, <1>2, <2>1, RulesAre DEF RuleInv, RuleTypes, StampInv
  <2>3. \A r \in Id : r >= nextId' => stamp'[r] = 0
    BY <1>1, <1>2, RulesAre DEF RuleInv, RuleTypes, StampInv, Id
  <2>4. QED
    BY <1>2, <2>2, <2>3 DEF StampInv
<1>7. QED
  BY <1>4, <1>5, <1>6 DEF RuleInv

\* A new row has the next id, in the table and in the array.
LEMMA AddRules == ASSUME RuleInv, NEW s \in Settings, AddRule(s) PROVE RuleInv'
<1> DEFINE t == s.type
           new == [id |-> nextId, type |-> t, cool |-> s.cool, thr |-> s.thr]
<1>1. /\ db' = Append(db, Row(new)) /\ nextId' = nextId + 1
      /\ \/ rules' = Append(rules, new) /\ lastSent' = Append(lastSent, 0)
         \/ rules' = rules /\ lastSent' = lastSent
  BY DEF AddRule
<1>2. /\ mpc = "run" /\ nextId <= MaxId /\ ~TypeTaken(rules, t, 0) /\ ~TypeTaken(db, t, 0)
      /\ UNCHANGED <<hook, hookDb, migrated, stamp, mpc, now>>
  BY DEF AddRule
<1>3. nextId \in Id /\ new \in Rule /\ 0 \in 0 .. MaxTime /\ nextId' \in 1 .. MaxId + 1
  BY <1>1, <1>2, BoundsAssumption, SettingsAssumption DEF RuleInv, RuleTypes, Id, Rule, Setting
<1> DEFINE row == Row(new)
<1>0. /\ row \in Rule /\ row.id = nextId /\ row.type = t /\ Stores(row, new)
      /\ new.id = nextId /\ new.type = t
  BY <1>3, RowIs DEF Stores
<1> HIDE DEF row, new
<1>4. RuleTypes'
  <2>1. db' \in Seq(Rule)
    BY <1>0, <1>1 DEF RuleInv, RuleTypes, row
  <2>2. rules' \in Seq(Rule) /\ lastSent' \in Seq(0 .. MaxTime) /\ Len(lastSent') = Len(rules')
    <3>1. /\ rules \in Seq(Rule) /\ lastSent \in Seq(0 .. MaxTime) /\ Len(lastSent) = Len(rules)
          /\ Append(rules, new) \in Seq(Rule) /\ Len(Append(rules, new)) = Len(rules) + 1
      BY <1>3 DEF RuleInv, RuleTypes
    <3>2. Append(lastSent, 0) \in Seq(0 .. MaxTime) /\ Len(Append(lastSent, 0)) = Len(lastSent) + 1
      BY <1>3, <3>1
    <3>3. QED
      BY <1>1, <3>1, <3>2
  <2>3. QED
    BY <1>2, <1>3, <2>1, <2>2 DEF RuleInv, RuleTypes
<1>5. /\ DOMAIN db' = 1 .. Len(db) + 1 /\ db'[Len(db) + 1] = row
      /\ \A i \in DOMAIN db : i \in DOMAIN db' /\ db'[i] = db[i]
      /\ \A i \in DOMAIN db' : i \in DOMAIN db \/ i = Len(db) + 1
  BY <1>0, <1>1, RulesAre DEF RuleInv, RuleTypes, row
<1>6. \A i \in DOMAIN db : db[i].type # t /\ db[i].id < nextId
  BY <1>2, RulesAre, RowIds DEF TypeTaken, RuleInv
<1>7. Ascending(db') /\ OneEach(db') /\ \A i \in DOMAIN db' : db'[i].id < nextId'
  <2>1. row.id = nextId /\ row.type = t /\ nextId < nextId + 1
    BY <1>0, RulesAre
  <2>2. \A i \in DOMAIN db' : db'[i].id < nextId'
    BY <1>1, <1>5, <1>6, <2>1, RulesAre
  <2>3. Ascending(db')
    BY <1>5, <1>6, <2>1, RulesAre DEF Ascending, RuleInv, StoreInv
  <2>4. OneEach(db')
    BY <1>5, <1>6, <2>1, RulesAre DEF OneEach, RuleInv, StoreInv
  <2>5. QED
    BY <2>2, <2>3, <2>4
<1>8. CASE rules' = Append(rules, new) /\ lastSent' = Append(lastSent, 0)
  <2>1. /\ DOMAIN rules' = 1 .. Len(rules) + 1 /\ rules'[Len(rules) + 1] = new /\ lastSent'[Len(rules) + 1] = 0
        /\ \A i \in DOMAIN rules : i \in DOMAIN rules' /\ rules'[i] = rules[i] /\ lastSent'[i] = lastSent[i]
        /\ \A i \in DOMAIN rules' : i \in DOMAIN rules \/ i = Len(rules) + 1
    BY <1>3, <1>8, RulesAre DEF RuleInv, RuleTypes
  <2>2. \A i \in DOMAIN rules : rules[i].type # t /\ rules[i].id < nextId
    BY <1>2, RulesAre, IdsAre DEF TypeTaken
  <2>3. Ascending(rules')
    BY <1>0, <2>1, <2>2, RulesAre DEF Ascending, RuleInv, StoreInv
  <2>4. OneEach(rules')
    BY <1>0, <2>1, <2>2, RulesAre DEF OneEach, RuleInv, StoreInv
  <2>5. \A i \in DOMAIN rules' : \E k \in DOMAIN db' : Stores(db'[k], rules'[i])
    BY <1>0, <1>5, <2>1, RulesAre DEF RuleInv, StoreInv
  <2>6. stamp[nextId] = 0
    BY <1>3, RulesAre DEF RuleInv, StampInv
  <2>7. \A i \in DOMAIN rules' : lastSent'[i] = stamp'[rules'[i].id]
    BY <1>0, <1>2, <2>1, <2>6 DEF RuleInv, StampInv
  <2>8. StampInv'
    BY <1>1, <1>2, <2>7, RulesAre, IdsAre DEF RuleInv, StampInv
  <2>9. QED
    BY <1>4, <1>7, <2>3, <2>4, <2>5, <2>8 DEF RuleInv, StoreInv
<1>9. CASE rules' = rules /\ lastSent' = lastSent
  <2>1. \A i \in DOMAIN rules' : \E k \in DOMAIN db' : Stores(db'[k], rules'[i])
    BY <1>5, <1>9 DEF RuleInv, StoreInv
  <2>2. Ascending(rules') /\ OneEach(rules')
    BY <1>9 DEF RuleInv, StoreInv, Ascending, OneEach
  <2>3. StampInv'
    BY <1>1, <1>2, <1>9, RulesAre, IdsAre DEF RuleInv, StampInv
  <2>4. QED
    BY <1>4, <1>7, <2>1, <2>2, <2>3 DEF RuleInv, StoreInv
<1>10. QED
  BY <1>1, <1>8, <1>9

\* A rule keeps its id, its slot and its time when it is edited.
LEMMA UpdateRules ==
  ASSUME RuleInv, NEW s \in Settings, NEW i \in DOMAIN rules, UpdateRule(i, s)
  PROVE  RuleInv'
<1> DEFINE t == s.type
           new == [id |-> rules[i].id, type |-> t, cool |-> s.cool, thr |-> s.thr]
           row == Row(new)
<1>1. /\ db' = Rewritten(db, row) /\ rules' = [rules EXCEPT ![i] = new] /\ mpc = "run"
      /\ ~TypeTaken(rules, t, new.id) /\ ~TypeTaken(db, t, new.id)
      /\ UNCHANGED <<hook, hookDb, lastSent, nextId, migrated, stamp, mpc, now>>
  BY DEF UpdateRule, Updatable
<1>2. new \in Rule /\ new.id = rules[i].id /\ new.type = t
  BY RulesAre, SettingsAssumption DEF Rule, Setting
<1>0. row \in Rule /\ row.id = new.id /\ row.type = t /\ Stores(row, new)
  BY <1>2, RowIs DEF Stores
<1> HIDE DEF row
<1>3. /\ DOMAIN db' = DOMAIN db
      /\ \A k \in DOMAIN db : db'[k] = IF db[k].id = new.id THEN row ELSE db[k]
  BY <1>0, <1>1 DEF Rewritten
<1>4. /\ DOMAIN rules' = DOMAIN rules /\ rules'[i] = new
      /\ \A k \in DOMAIN rules : k # i => rules'[k] = rules[k]
  BY <1>1, RulesAre
<1>5. RuleTypes'
  <2>1. db' \in Seq(Rule)
    <3>1. db' \in [1 .. Len(db) -> Rule]
      BY <1>0, <1>1, <1>3, RulesAre DEF Rewritten
    <3>2. QED
      BY <3>1, RulesAre
  <2>2. rules' \in Seq(Rule) /\ Len(rules') = Len(rules)
    BY <1>1, <1>2, RulesAre DEF RuleInv, RuleTypes
  <2>3. QED
    BY <1>1, <2>1, <2>2 DEF RuleInv, RuleTypes
<1>6. \A k \in DOMAIN db : db'[k].id = db[k].id
  BY <1>0, <1>3
<1>7. \A k \in DOMAIN db : db[k].type = t => db[k].id = new.id
  BY <1>1 DEF TypeTaken
<1>8. Ascending(db') /\ \A k \in DOMAIN db' : db'[k].id < nextId'
  BY <1>1, <1>3, <1>6, RulesAre DEF RuleInv, StoreInv, Ascending
<1>9. \A j, k \in DOMAIN db : db[j].id = db[k].id => j = k
  <2> SUFFICES ASSUME NEW j \in DOMAIN db, NEW k \in DOMAIN db, db[j].id = db[k].id, j # k PROVE FALSE
    OBVIOUS
  <2>1. j < k \/ k < j
    BY RulesAre
  <2>2. QED
    BY <2>1, RulesAre DEF RuleInv, StoreInv, Ascending
<1>10. OneEach(db')
  BY <1>0, <1>3, <1>7, <1>9 DEF RuleInv, StoreInv, OneEach
<1>11. \A k \in DOMAIN rules : rules'[k].id = rules[k].id
  BY <1>2, <1>4
<1>12. Ascending(rules')
  BY <1>4, <1>11 DEF RuleInv, StoreInv, Ascending
<1>13. \A k \in DOMAIN rules : k # i => rules[k].id # new.id
  <2> SUFFICES ASSUME NEW k \in DOMAIN rules, k # i, rules[k].id = new.id PROVE FALSE
    OBVIOUS
  <2>1. i < k \/ k < i
    BY RulesAre
  <2>2. QED
    BY <1>2, <2>1, RulesAre DEF RuleInv, StoreInv, Ascending
<1>14. OneEach(rules')
  <2>1. \A k \in DOMAIN rules : k # i => rules[k].type # t
    BY <1>1, <1>13 DEF TypeTaken
  <2>2. QED
    BY <1>2, <1>4, <2>1 DEF RuleInv, StoreInv, OneEach
<1>15. \A k \in DOMAIN rules' : \E j \in DOMAIN db' : Stores(db'[j], rules'[k])
  <2> SUFFICES ASSUME NEW k \in DOMAIN rules PROVE \E j \in DOMAIN db : Stores(db'[j], rules'[k])
    BY <1>3, <1>4
  <2>1. PICK j \in DOMAIN db : Stores(db[j], rules[k]) /\ db[j].id = rules[k].id
    BY RulesAre, StoresIs DEF RuleInv, StoreInv
  <2>2. Stores(db'[j], rules'[k])
    BY <1>0, <1>2, <1>3, <1>4, <1>13, <2>1
  <2>3. QED
    BY <2>2
<1>16. StampInv'
  BY <1>1, <1>4, <1>11, RulesAre DEF RuleInv, StampInv
<1>17. QED
  BY <1>5, <1>8, <1>10, <1>12, <1>14, <1>15, <1>16 DEF RuleInv, StoreInv

\* A deletion moves rules and their times together.
LEMMA DeleteRules == ASSUME RuleInv, NEW i \in DOMAIN rules, DeleteRule(i) PROVE RuleInv'
<1>1. PICK d \in DOMAIN db : db[d].id = rules[i].id /\ db' = Without(db, d)
  BY DEF DeleteRule
<1>2. /\ rules' = Without(rules, i) /\ lastSent' = Without(lastSent, i) /\ mpc = "run"
      /\ stamp' = [stamp EXCEPT ![rules[i].id] = 0]
      /\ UNCHANGED <<hook, hookDb, nextId, migrated, mpc, now>>
  BY DEF DeleteRule, SentWithout
<1>3. /\ db \in Seq(Rule) /\ rules \in Seq(Rule) /\ lastSent \in Seq(0 .. MaxTime)
      /\ Len(lastSent) = Len(rules) /\ i \in DOMAIN lastSent /\ 0 \in 0 .. MaxTime
  BY RulesAre, BoundsAssumption DEF RuleInv, RuleTypes
<1>4. RuleTypes'
  <2>1. db' \in Seq(Rule)
    BY <1>1, <1>3, WithoutIs
  <2>2. rules' \in Seq(Rule) /\ Len(rules') = Len(rules) - 1
    BY <1>2, <1>3, WithoutIs
  <2>3. lastSent' \in Seq(0 .. MaxTime) /\ Len(lastSent') = Len(lastSent) - 1
    <3> DEFINE S == 0 .. MaxTime
    <3>1. lastSent \in Seq(S) /\ i \in DOMAIN lastSent
      BY <1>3
    <3> HIDE DEF S
    <3>2. Without(lastSent, i) \in Seq(S) /\ Len(Without(lastSent, i)) = Len(lastSent) - 1
      BY <3>1, WithoutIs
    <3>3. QED
      BY <1>2, <3>2 DEF S
  <2>4. stamp' \in [Id -> 0 .. MaxTime]
    BY <1>2, <1>3 DEF RuleInv, RuleTypes
  <2>5. QED
    BY <1>2, <1>3, <2>1, <2>2, <2>3, <2>4 DEF RuleInv, RuleTypes
<1>5. \A k \in DOMAIN db' : \E j \in DOMAIN db : db'[k] = db[j]
  BY <1>1, <1>3, WithoutKeeps DEF RuleInv, StoreInv
<1>6. Ascending(db') /\ OneEach(db') /\ \A k \in DOMAIN db' : db'[k].id < nextId'
  <2>1. Ascending(db') /\ OneEach(db')
    BY <1>1, <1>3, WithoutKeeps DEF RuleInv, StoreInv
  <2>2. QED
    BY <1>2, <1>5, <2>1 DEF RuleInv, StoreInv
<1>7. Ascending(rules') /\ OneEach(rules')
  BY <1>2, <1>3, WithoutKeeps DEF RuleInv, StoreInv
<1>8. \A k \in DOMAIN rules : k # i => rules[k].id # rules[i].id
  <2> SUFFICES ASSUME NEW k \in DOMAIN rules, k # i, rules[k].id = rules[i].id PROVE FALSE
    OBVIOUS
  <2>1. i < k \/ k < i
    BY RulesAre
  <2>2. QED
    BY <2>1, RulesAre DEF RuleInv, StoreInv, Ascending
<1>9. \A k \in DOMAIN rules' : \E j \in DOMAIN rules : /\ j # i /\ rules'[k] = rules[j]
                                                      /\ lastSent'[k] = lastSent[j]
  <2> DEFINE w == Without(rules, i)
             from == [k \in 1 .. Len(rules) - 1 |-> IF k < i THEN k ELSE k + 1]
  <2>1. DOMAIN w = 1 .. Len(rules) - 1
        /\ \A k \in DOMAIN w : from[k] \in DOMAIN rules /\ from[k] # i /\ w[k] = rules[from[k]]
    BY <1>3, WithoutFrom
  <2>2. \A k \in 1 .. Len(rules) - 1 : lastSent'[k] = lastSent[from[k]]
    <3>1. \A k \in 1 .. Len(rules) - 1 : Without(lastSent, i)[k] = IF k < i THEN lastSent[k] ELSE lastSent[k + 1]
      BY <1>3 DEF Without
    <3>2. QED
      BY <1>2, <3>1
  <2> HIDE DEF from
  <2>3. QED
    BY <1>2, <2>1, <2>2
<1>10. \A j \in DOMAIN db : j # d => \E k \in DOMAIN db' : db'[k] = db[j]
  <2> SUFFICES ASSUME NEW j \in DOMAIN db, j # d PROVE \E k \in DOMAIN db' : db'[k] = db[j]
    OBVIOUS
  <2>1. /\ d \in Nat /\ j \in Nat /\ Len(db) \in Nat /\ DOMAIN db = 1 .. Len(db)
        /\ DOMAIN db' = 1 .. Len(db) - 1
        /\ \A k \in 1 .. Len(db) - 1 : db'[k] = IF k < d THEN db[k] ELSE db[k + 1]
    BY <1>1, RulesAre DEF Without
  <2>2. CASE j < d
    <3>1. j \in 1 .. Len(db) - 1
      BY <2>1, <2>2
    <3>2. QED
      BY <2>1, <2>2, <3>1
  <2>3. CASE j > d
    <3>1. j - 1 \in 1 .. Len(db) - 1 /\ ~(j - 1 < d) /\ (j - 1) + 1 = j
      BY <2>1, <2>3
    <3>2. QED
      BY <2>1, <3>1
  <2>4. QED
    BY <2>1, <2>2, <2>3
<1>11. \A k \in DOMAIN rules' : \E j \in DOMAIN db' : Stores(db'[j], rules'[k])
  <2> SUFFICES ASSUME NEW k \in DOMAIN rules' PROVE \E j \in DOMAIN db' : Stores(db'[j], rules'[k])
    OBVIOUS
  <2>1. PICK m \in DOMAIN rules : m # i /\ rules'[k] = rules[m]
    BY <1>9
  <2>2. PICK j \in DOMAIN db : Stores(db[j], rules[m]) /\ db[j].id = rules[m].id
    BY RulesAre, StoresIs DEF RuleInv, StoreInv
  <2>3. j # d
    BY <1>1, <1>8, <2>1, <2>2
  <2>4. QED
    BY <1>10, <2>1, <2>2, <2>3
<1>12. StampInv'
  <2>1. \A k \in DOMAIN rules' : lastSent'[k] = stamp'[rules'[k].id]
    BY <1>2, <1>8, <1>9, RulesAre DEF RuleInv, RuleTypes, StampInv
  <2>2. \A r \in Id : r >= nextId' => stamp'[r] = 0
    BY <1>2, RulesAre DEF RuleInv, RuleTypes, StampInv
  <2>3. QED
    BY <1>2, <2>1, <2>2 DEF StampInv
<1>13. QED
  BY <1>4, <1>6, <1>7, <1>11, <1>12 DEF RuleInv, StoreInv

\* The process that has gone keeps its database; other requests touch no rule.
LEMMA OtherRules ==
  ASSUME RuleInv,
         \/ Gone
         \/ UNCHANGED ruleVars /\ (mpc' = "down" => mpc = "down") /\ now' \in 1 .. MaxTime
         \/ \E h \in Hook : SaveWebhook(h)
  PROVE  RuleInv'
<1>1. CASE Gone
  <2>1. /\ hook' = "EMPTY" /\ rules' = <<>> /\ lastSent' = <<>> /\ stamp' = [r \in Id |-> 0]
        /\ UNCHANGED <<hookDb, db, nextId, migrated, now>>
    BY <1>1 DEF Gone
  <2>2. 0 \in 0 .. MaxTime /\ "EMPTY" \in Hook
    BY BoundsAssumption DEF Hook
  <2>3. RuleTypes'
    BY <2>1, <2>2 DEF RuleInv, RuleTypes
  <2>4. StoreInv'
    BY <2>1 DEF RuleInv, StoreInv, Ascending, OneEach
  <2>5. StampInv'
    BY <2>1 DEF StampInv
  <2>6. QED
    BY <2>3, <2>4, <2>5 DEF RuleInv
<1>2. CASE UNCHANGED ruleVars /\ (mpc' = "down" => mpc = "down") /\ now' \in 1 .. MaxTime
  BY <1>2 DEF ruleVars, RuleInv, RuleTypes, StoreInv, StampInv, Ascending, OneEach
<1>3. CASE \E h \in Hook : SaveWebhook(h)
  BY <1>3 DEF SaveWebhook, RuleInv, RuleTypes, StoreInv, StampInv, Ascending, OneEach
<1>4. QED
  BY <1>1, <1>2, <1>3

---------------------------------------------------------------------------
(* All of it is inductive.                                                 *)

IInv == RuleInv /\ QueueInv /\ OtherTypes

\* A sqlite3 call that fails is counted.
LEMMA FailsIs == ASSUME fails \in 0 .. MaxFail, NEW ok, MayFail(ok) PROVE fails' \in 0 .. MaxFail
  BY BoundsAssumption DEF MayFail

\* An entry of the log.
LEMMA AddLogTypes ==
  ASSUME OtherTypes, AddLog
  PROVE  logs' \in [0 .. LogSize - 1 -> Nat] /\ logCount' \in 0 .. LogSize /\ logId' \in Nat
<1>1. logId' \in Nat /\ logId + 1 \in Nat
  BY DEF AddLog, OtherTypes
<1>2. logCount' \in 0 .. LogSize
  BY SizesAssumption DEF AddLog, OtherTypes
<1>3. logs' \in [0 .. LogSize - 1 -> Nat]
  BY <1>1 DEF AddLog, OtherTypes
<1>4. QED
  BY <1>1, <1>2, <1>3

\* Before the first start nothing is stored in memory.
LEMMA InitIInv == Init => IInv
<1> SUFFICES ASSUME Init PROVE IInv
  OBVIOUS
<1>1. RuleTypes
  <2>1. rules \in Seq(Rule) /\ lastSent \in Seq(0 .. MaxTime) /\ Len(lastSent) = Len(rules) /\ db \in Seq(Rule)
    BY DEF Init
  <2>2. 0 \in 0 .. MaxTime /\ 1 \in 1 .. MaxTime /\ 1 \in 1 .. MaxId + 1
    BY BoundsAssumption
  <2>3. stamp \in [Id -> 0 .. MaxTime]
    BY <2>2 DEF Init
  <2>4. QED
    BY <2>1, <2>2, <2>3 DEF Init, RuleTypes, Hook
<1>2. StoreInv /\ StampInv
  BY DEF Init, StoreInv, StampInv, Ascending, OneEach
<1>3. QueueTypes
  <2>1. ring \in [Slot -> Job \cup {NoJob}]
    BY DEF Init, Blank
  <2>2. QED
    BY <2>1, SizesAssumption, BoundsAssumption DEF Init, QueueTypes, Slot
<1>4. WorkerInv /\ RingInv
  BY SizesAssumption DEF Init, WorkerInv, RingInv
<1>5. OtherTypes
  BY SizesAssumption, BoundsAssumption DEF Init, OtherTypes
<1>6. QED
  BY <1>1, <1>2, <1>3, <1>4, <1>5 DEF IInv, RuleInv, QueueInv

\* Requests that change only rules and the webhook.
RuleRequest ==
  \/ \E h \in Hook : SaveWebhook(h)
  \/ \E s \in Settings : AddRule(s) \/ \E i \in DOMAIN rules : UpdateRule(i, s)
  \/ \E i \in DOMAIN rules : DeleteRule(i)

\* Such a request leaves the queue, the worker and the log alone.
LEMMA RuleRequestIs ==
  ASSUME RuleRequest
  PROVE  UNCHANGED <<queueVars, workerVars, logVars, mpc, now, starts>> /\ (fails' = fails \/ \E ok \in BOOLEAN : MayFail(ok))
  BY DEF RuleRequest, SaveWebhook, AddRule, UpdateRule, DeleteRule

\* An event of a rule or a test enters the queue.
Enters(r) == mpc = "run" /\ mpc' = mpc /\ Enqueue(r) /\ UNCHANGED <<logVars, now, fails, starts>>

\* Events and tests are the only users of enqueue_job.
LEMMA EntersIs ==
  ASSUME RuleInv
  PROVE  /\ TestWebhook => Enters(0)
         /\ \A t \in Types : Emit(t) => \E i \in DOMAIN rules : Enters(rules[i].id)
  BY DEF TestWebhook, Emit, Enters

\* Each handler, each critical section and a crash keep the invariant.
LEMMA NextIInv == IInv /\ [Next]_vars => IInv'
<1> SUFFICES ASSUME IInv, [Next]_vars PROVE IInv'
  OBVIOUS
<1> USE DEF IInv
<1>1. CASE Worker \/ SpuriousWakeup
  <2>1. UNCHANGED ruleVars /\ UNCHANGED <<mpc, now, fails, starts>> /\ (UNCHANGED logVars \/ AddLog)
    BY <1>1 DEF Worker, WorkerWait, WorkerTake, WorkerExit, SendWebhook, CurlEnds, SpuriousWakeup
  <2>2. RuleInv'
    BY <2>1, OtherRules DEF RuleInv, RuleTypes
  <2>3. QueueInv'
    BY <1>1, TakeKeeps, WorkerKeeps DEF Worker
  <2>4. OtherTypes'
    BY <2>1, AddLogTypes DEF OtherTypes, logVars
  <2>5. QED
    BY <2>2, <2>3, <2>4
<1>2. CASE Start
  <2>1. OtherTypes'
    <3>1. mpc' = "run" /\ starts' = starts + 1 /\ starts < MaxStart /\ UNCHANGED logVars /\ \E ok \in BOOLEAN : MayFail(ok)
      BY <1>2 DEF Start
    <3>2. fails' \in 0 .. MaxFail /\ starts' \in 0 .. MaxStart
      BY <3>1, FailsIs, BoundsAssumption DEF OtherTypes
    <3>3. QED
      BY <3>1, <3>2 DEF OtherTypes, logVars
  <2>2. QED
    BY <1>2, <2>1, StartRules, MainKeeps
<1>3. CASE Gone
  <2>1. OtherTypes'
    BY <1>3, SizesAssumption DEF Gone, OtherTypes
  <2>2. QED
    BY <1>3, <2>1, OtherRules, GoneKeeps
<1>4. CASE Deinit /\ running
  <2>1. mpc = "run" /\ mpc' = "join" /\ UNCHANGED <<ruleVars, logVars, now, fails, starts>>
    BY <1>4 DEF Deinit
  <2>2. RuleInv'
    BY <2>1, OtherRules DEF RuleInv, RuleTypes
  <2>3. OtherTypes'
    BY <2>1 DEF OtherTypes, logVars
  <2>4. QED
    BY <1>4, <2>2, <2>3, MainKeeps
<1>5. CASE TestWebhook
  <2>1. Enters(0) /\ UNCHANGED ruleVars
    BY <1>5, EntersIs DEF TestWebhook
  <2>2. RuleInv' /\ QueueInv'
    BY <2>1, OtherRules, EnqueueKeeps DEF Enters, RuleInv, RuleTypes
  <2>3. QED
    BY <2>1, <2>2 DEF Enters, OtherTypes, logVars
<1>6. ASSUME NEW t \in Types, Emit(t) PROVE IInv'
  <2>1. PICK i \in DOMAIN rules : Enters(rules[i].id)
    BY <1>6, EntersIs
  <2>2. QueueInv'
    BY <2>1, RulesAre, EnqueueKeeps DEF Enters
  <2>3. QED
    BY <1>6, <2>1, <2>2, EmitRules DEF Enters, OtherTypes, logVars
<1>7. CASE RuleRequest
  <2>1. UNCHANGED <<queueVars, workerVars, logVars, mpc, now, starts>> /\ fails' \in 0 .. MaxFail
    BY <1>7, RuleRequestIs, FailsIs DEF OtherTypes
  <2>2. QueueInv' /\ OtherTypes'
    BY <2>1 DEF queueVars, workerVars, logVars, OtherTypes, QueueInv, QueueTypes, WorkerInv, RingInv
  <2>3. RuleInv'
    BY <1>7, OtherRules, AddRules, UpdateRules, DeleteRules DEF RuleRequest
  <2>4. QED
    BY <2>2, <2>3
<1>8. CASE (\E t \in 1 .. MaxTime : SetClock(t)) \/ UNCHANGED vars
  <2>1. UNCHANGED <<ruleVars, queueVars, workerVars, logVars, mpc, fails, starts>> /\ now' \in 1 .. MaxTime
    BY <1>8 DEF SetClock, vars, RuleInv, RuleTypes
  <2>2. RuleInv'
    BY <2>1, OtherRules
  <2>3. QueueInv' /\ OtherTypes'
    BY <2>1 DEF queueVars, workerVars, logVars, OtherTypes, QueueInv, QueueTypes, WorkerInv, RingInv
  <2>4. QED
    BY <2>2, <2>3
<1>9. QED
  BY <1>1, <1>2, <1>3, <1>4, <1>5, <1>6, <1>7, <1>8 DEF Next, Main, Crash, Joined, Deinit, RuleRequest

\* The invariant holds in every reachable state.
LEMMA SpecIInv == Spec => []IInv
  BY InitIInv, NextIInv, PTL DEF Spec

\* What the runs check follows from the invariant.
LEMMA IInvGives == IInv => TypeOK /\ MemoryIsStored /\ NoMissedWakeup
<1> SUFFICES ASSUME IInv PROVE TypeOK /\ MemoryIsStored /\ NoMissedWakeup
  OBVIOUS
<1>1. TypeOK
  BY DEF IInv, RuleInv, RuleTypes, QueueInv, QueueTypes, OtherTypes, TypeOK
<1>2. MemoryIsStored
  <2>1. \A i, k \in DOMAIN rules : i < k => i # k
    BY RulesAre DEF IInv
  <2>2. QED
    BY <2>1 DEF IInv, RuleInv, StoreInv, Ascending, OneEach, MemoryIsStored
<1>3. NoMissedWakeup
  BY DEF IInv, QueueInv, WorkerInv, NoMissedWakeup
<1>4. QED
  BY <1>1, <1>2, <1>3

\* Indices stay in their arrays, counts under their limits, ids under the next
\* one (notification.c: g_queue, g_logs, g_rules).
THEOREM TypeCorrect == Spec => []TypeOK
  BY SpecIInv, IInvGives, PTL

\* The rules in memory are rows of the database, but for what three decimals lose of
\* a threshold, in id order, one per event
\* (notification_add_rule, notification_update_rule, notification_delete_rule).
THEOREM StoredRules == Spec => []MemoryIsStored
  BY SpecIInv, IInvGives, PTL

\* The worker does not sleep while a job waits or the stop is requested
\* (enqueue_job, notification_worker, notification_deinit).
THEOREM NoSleepThroughWork == Spec => []NoMissedWakeup
  BY SpecIInv, IInvGives, PTL

---------------------------------------------------------------------------
(* How long notification_deinit can wait.  DeinitReturns needs fairness;   *)
(* that the join has a bound, which no event can push back, does not.      *)

\* The worker's steps from where it is to its end, once g_worker_stop is set.
StepsLeft == CASE wpc = "exited" -> 0 [] wpc = "loop" -> 1 [] wpc = "curl" -> 2
               [] wpc = "job" -> 3 [] OTHER -> 4

\* While the service goes down, every step of the worker brings its end nearer,
\* and neither a spurious wakeup nor any handler sends it back or round again.
JoinShortens ==
  [][stop /\ stop' => (Worker => StepsLeft' < StepsLeft) /\ StepsLeft' <= StepsLeft]_vars

\* Once g_worker_stop is set the worker exists and is not asleep, ...
LEMMA StopIsHeard ==
  ASSUME IInv, stop
  PROVE  mpc = "join" /\ running /\ wpc \in {"loop", "job", "curl", "exited"}
  BY DEF IInv, QueueInv, QueueTypes, WorkerInv

\* ... takes no further job, ...
LEMMA WorkerGoesDown ==
  ASSUME IInv, stop, Worker
  PROVE  <<wpc, wpc'>> \in {<<"job", "loop">>, <<"job", "curl">>, <<"curl", "loop">>, <<"loop", "exited">>}
  BY StopIsHeard DEF Worker, WorkerWait, WorkerTake, MayTake, WorkerExit, SendWebhook, CurlEnds

\* ... and only the end of the process reaches it from outside.
LEMMA OthersLeaveIt ==
  ASSUME IInv, stop, stop', [Next]_vars, ~Worker
  PROVE  wpc' = wpc
<1>1. mpc = "join" /\ wpc # "wait"
  BY StopIsHeard
<1>2. CASE SpuriousWakeup \/ \E t \in 1 .. MaxTime : SetClock(t)
  BY <1>1, <1>2 DEF SpuriousWakeup, SetClock, workerVars
<1>3. CASE Joined \/ Crash
  BY <1>3 DEF Joined, Crash, Gone
<1>4. ASSUME Main, ~Joined PROVE FALSE
  BY <1>1, <1>4 DEF Main, Start, Deinit, TestWebhook, Emit, SaveWebhook, AddRule, UpdateRule, DeleteRule
<1>5. CASE UNCHANGED vars
  BY <1>5 DEF vars, workerVars
<1>6. QED
  BY <1>2, <1>3, <1>4, <1>5 DEF Next

\* The join of notification_deinit is at most three steps of the worker away
\* (one of them a bounded run of curl), however full the queue, and only comes
\* nearer.
THEOREM DeinitIsBounded ==
  Spec => [](stop => StepsLeft \in 0 .. 3 /\ (StepsLeft = 0 <=> wpc = "exited")) /\ JoinShortens
<1>1. IInv => (stop => StepsLeft \in 0 .. 3 /\ (StepsLeft = 0 <=> wpc = "exited"))
  BY StopIsHeard DEF StepsLeft
<1>2. IInv /\ [Next]_vars =>
        [stop /\ stop' => (Worker => StepsLeft' < StepsLeft) /\ StepsLeft' <= StepsLeft]_vars
  <2> SUFFICES ASSUME IInv, [Next]_vars, stop, stop'
               PROVE  (Worker => StepsLeft' < StepsLeft) /\ StepsLeft' <= StepsLeft
    OBVIOUS
  <2>1. CASE Worker
    BY <2>1, WorkerGoesDown DEF StepsLeft
  <2>2. CASE ~Worker
    <3>1. wpc' = wpc
      BY <2>2, OthersLeaveIt
    <3>2. StepsLeft' = StepsLeft /\ StepsLeft \in 0 .. 3
      BY <3>1, <1>1 DEF StepsLeft
    <3>3. QED
      BY <2>2, <3>2
  <2>3. QED
    BY <2>1, <2>2
<1>3. Spec => [](stop => StepsLeft \in 0 .. 3 /\ (StepsLeft = 0 <=> wpc = "exited"))
  BY SpecIInv, <1>1, PTL
<1>4. Spec => JoinShortens
  BY SpecIInv, <1>2, PTL DEF Spec, JoinShortens
<1>5. QED
  BY <1>3, <1>4

---------------------------------------------------------------------------
(* Cooldowns.                                                              *)

\* Two rules of the array do not share an id.
LEMMA OneId == ASSUME RuleInv, NEW i \in DOMAIN rules, NEW k \in DOMAIN rules, rules[i].id = rules[k].id PROVE i = k
<1>1. i < k \/ k < i \/ i = k
  BY RulesAre
<1>2. QED
  BY <1>1, RulesAre DEF RuleInv, StoreInv, Ascending

\* Only an event and a test add a job, and only an event adds one of a rule.
LEMMA OnlyEventsAccept ==
  ASSUME IInv, Next, made' = made + 1
  PROVE  (\E t \in Types : Emit(t)) \/ ring'[tail].rule = 0
<1>1. made \in Nat
  BY BoundsAssumption DEF IInv, QueueInv, QueueTypes
<1>2. ~Gone
  BY <1>1 DEF Gone
<1>3. ~(Worker \/ SpuriousWakeup)
  BY <1>1 DEF Worker, SpuriousWakeup, WorkerWait, WorkerTake, WorkerExit, SendWebhook, CurlEnds, queueVars
<1>4. ~Start /\ ~(Deinit /\ running) /\ ~RuleRequest /\ ~\E t \in 1 .. MaxTime : SetClock(t)
  BY <1>1, RuleRequestIs DEF Start, Deinit, SetClock, queueVars
<1>5. CASE TestWebhook
  <2>1. ring' = [ring EXCEPT ![tail] = [n |-> made + 1, rule |-> 0]] /\ tail \in Slot /\ DOMAIN ring = Slot
    BY <1>5 DEF TestWebhook, Enqueue, IInv, QueueInv, QueueTypes
  <2>2. QED
    BY <2>1
<1>6. QED
  BY <1>2, <1>3, <1>4, <1>5 DEF Next, Main, Crash, Joined, Deinit, RuleRequest

\* An accepted event is a cooldown after its rule's last one, unless the clock
\* was set back (notification_cooldown_elapsed, notification_emit).
THEOREM CooldownHolds == Spec => CooldownRespected
<1>1. IInv /\ [Next]_vars =>
        [\A i \in DOMAIN rules : Accepts(i) =>
           LET last == stamp[rules[i].id]
           IN last = 0 \/ rules[i].cool = 0 \/ now < last \/ now - last >= rules[i].cool]_vars
  <2> SUFFICES ASSUME IInv, Next, NEW i \in DOMAIN rules, Accepts(i)
               PROVE  LET last == stamp[rules[i].id]
                      IN last = 0 \/ rules[i].cool = 0 \/ now < last \/ now - last >= rules[i].cool
    OBVIOUS
  <2>1. rules[i].id # 0 /\ rules[i].cool \in Nat /\ stamp[rules[i].id] \in Nat /\ lastSent[i] = stamp[rules[i].id]
    BY RulesAre, IdsAre, BoundsAssumption DEF IInv, RuleInv, RuleTypes, StampInv
  <2>2. PICK t \in Types : Emit(t)
    BY <2>1, OnlyEventsAccept DEF Accepts
  <2>3. PICK k \in DOMAIN rules : Elapsed(lastSent[k], rules[k].cool) /\ Enqueue(rules[k].id)
    BY <2>2 DEF Emit
  <2>4. ring'[tail].rule = rules[k].id
    <3>1. ring' = [ring EXCEPT ![tail] = [n |-> made + 1, rule |-> rules[k].id]] /\ tail \in Slot /\ DOMAIN ring = Slot
      BY <2>3 DEF Enqueue, IInv, QueueInv, QueueTypes
    <3>2. QED
      BY <3>1
  <2>5. i = k
    BY <2>4, OneId DEF Accepts, IInv
  <2>6. QED
    BY <2>1, <2>3, <2>5 DEF Elapsed
<1>2. QED
  BY <1>1, SpecIInv, PTL DEF Spec, CooldownRespected

---------------------------------------------------------------------------
(* The queue implements the outbox.                                        *)

\* The waiting jobs are read off the ring.
LEMMA ReadOff ==
  ASSUME NEW r, NEW h, NEW c \in Nat, \A k \in 1 .. c : r[(h + k - 1) % QueueSize] \in Job
  PROVE  LET w == [k \in 1 .. c |-> r[(h + k - 1) % QueueSize]]
         IN w \in Seq(Job) /\ Len(w) = c /\ DOMAIN w = 1 .. c
<1> DEFINE w == [k \in 1 .. c |-> r[(h + k - 1) % QueueSize]]
<1>1. w \in [1 .. c -> Job]
  OBVIOUS
<1>2. QED
  BY <1>1

\* The waiting jobs are a sequence as long as the count.
LEMMA WaitingIs ==
  ASSUME QueueInv
  PROVE  /\ Waiting \in Seq(Job) /\ Len(Waiting) = count /\ DOMAIN Waiting = 1 .. count /\ count \in Nat
         /\ \A k \in 1 .. count : Waiting[k] = ring[(head + k - 1) % QueueSize]
<1>1. count \in Nat /\ \A k \in 1 .. count : ring[(head + k - 1) % QueueSize] \in Job
  BY DEF QueueInv, QueueTypes, RingInv
<1>2. QED
  BY <1>1, ReadOff DEF Waiting

\* The same after a step.
LEMMA WaitingNext ==
  ASSUME QueueInv'
  PROVE  /\ Waiting' \in Seq(Job) /\ Len(Waiting') = count' /\ DOMAIN Waiting' = 1 .. count'
         /\ \A k \in 1 .. count' : Waiting'[k] = ring'[(head' + k - 1) % QueueSize]
<1>1. count' \in Nat /\ \A k \in 1 .. count' : ring'[(head' + k - 1) % QueueSize] \in Job
  BY DEF QueueInv, QueueTypes, RingInv
<1>2. Waiting' = [k \in 1 .. count' |-> ring'[(head' + k - 1) % QueueSize]]
  BY DEF Waiting
<1>3. QED
  BY <1>1, <1>2, ReadOff

\* A step that leaves the ring alone leaves the waiting jobs alone.
LEMMA WaitingSame == UNCHANGED <<ring, head, count>> => Waiting' = Waiting
  BY DEF Waiting

\* No job waits when the count is zero.
LEMMA WaitingNone == ASSUME QueueInv PROVE (count = 0 <=> Waiting = <<>>)
  BY WaitingIs

\* enqueue_job appends.
LEMMA EnqueueAccepts ==
  ASSUME QueueInv, mpc = "run", mpc' = mpc, NEW r \in Id \cup {0}, Enqueue(r)
  PROVE  \E j \in Job : FifoOutbox!Accept(j)
<1> DEFINE new == [n |-> made + 1, rule |-> r]
<1>1. new \in Job
  BY BoundsAssumption DEF Job, Enqueue, QueueInv, QueueTypes
<1>2. /\ wpc # "exited" /\ tail = (head + count) % QueueSize /\ count \in Nat /\ count < QueueSize
      /\ head \in Slot /\ head \in Nat /\ tail \in Slot
  BY DEF QueueInv, QueueTypes, WorkerInv, RingInv, Enqueue, Room, Slot
<1>3. QueueInv'
  BY EnqueueKeeps
<1>4. /\ count' = count + 1 /\ head' = head /\ job' = job /\ running /\ running' = running
      /\ ring' = [ring EXCEPT ![tail] = new] /\ DOMAIN ring = Slot
  BY DEF Enqueue, QueueInv, QueueTypes
<1>5. /\ Waiting \in Seq(Job) /\ Len(Waiting) = count /\ DOMAIN Waiting = 1 .. count
      /\ \A k \in 1 .. count : Waiting[k] = ring[(head + k - 1) % QueueSize]
  BY WaitingIs
<1>6. /\ Waiting' \in Seq(Job) /\ Len(Waiting') = count + 1 /\ DOMAIN Waiting' = 1 .. count + 1
      /\ \A k \in 1 .. count + 1 : Waiting'[k] = ring'[(head + k - 1) % QueueSize]
  BY <1>3, <1>4, WaitingNext
<1>7. Waiting' = Append(Waiting, new)
  <2>1. ASSUME NEW k \in 1 .. count PROVE Waiting'[k] = Waiting[k]
    <3>1. (head + k - 1) % QueueSize # tail /\ (head + k - 1) % QueueSize \in Slot
      BY <1>2, FreeSlot, InSlot
    <3>2. k \in 1 .. count + 1
      BY <1>2
    <3>3. QED
      BY <1>4, <1>5, <1>6, <3>1, <3>2
  <2>2. Waiting'[count + 1] = new
    <3>1. (head + (count + 1) - 1) % QueueSize = tail /\ count + 1 \in 1 .. count + 1
      BY <1>2
    <3>2. QED
      BY <1>2, <1>4, <1>6, <3>1
  <2>3. QED
    BY <1>1, <1>2, <1>5, <1>6, <2>1, <2>2
<1>8. Open /\ Open' /\ Len(Waiting) < QueueSize
  BY <1>2, <1>4, <1>5 DEF Open
<1>9. QED
  BY <1>1, <1>4, <1>7, <1>8 DEF FifoOutbox!Accept

\* WorkerTake takes the head.
LEMMA TakeBegins == ASSUME QueueInv, WorkerTake, mpc \in {"run", "join", "down"} PROVE FifoOutbox!Begin
<1>1. /\ count \in Nat /\ count > 0 /\ head \in Slot /\ head \in Nat /\ count <= QueueSize /\ ~stop /\ wpc = "loop"
      /\ job' = ring[head] /\ ring' = ring /\ head' = Advance(head) /\ count' = count - 1
      /\ UNCHANGED <<mpc, running>>
  BY DEF WorkerTake, MayTake, QueueInv, QueueTypes, Slot
<1>2. QueueInv'
  BY TakeKeeps
<1>3. Open /\ Open' = Open /\ job = NoJob
  BY <1>1 DEF Open, QueueInv, WorkerInv
<1>4. /\ Waiting \in Seq(Job) /\ Len(Waiting) = count
      /\ \A k \in 1 .. count : Waiting[k] = ring[(head + k - 1) % QueueSize]
  BY WaitingIs
<1>5. /\ Waiting' \in Seq(Job) /\ Len(Waiting') = count - 1
      /\ \A k \in 1 .. count - 1 : Waiting'[k] = ring[(Advance(head) + k - 1) % QueueSize]
  BY <1>1, <1>2, WaitingNext
<1>6. Waiting # <<>> /\ Head(Waiting) = job'
  <2>1. (head + 1 - 1) % QueueSize = head
    BY <1>1, SizesAssumption DEF Slot
  <2>2. QED
    BY <1>1, <1>4, <2>1
<1>7. Waiting' = Tail(Waiting)
  <2>1. ASSUME NEW k \in 1 .. count - 1 PROVE Waiting'[k] = Waiting[k + 1]
    <3>1. (Advance(head) + k - 1) % QueueSize = (head + k) % QueueSize
      BY <1>1, Shifted, SizesAssumption
    <3>2. k + 1 \in 1 .. count /\ head + (k + 1) - 1 = head + k
      BY <1>1
    <3>3. Waiting[k + 1] = ring[(head + k) % QueueSize]
      BY <1>4, <3>2
    <3>4. QED
      BY <1>5, <3>1, <3>3
  <2>2. Tail(Waiting) \in Seq(Job) /\ Len(Tail(Waiting)) = count - 1
        /\ \A k \in 1 .. count - 1 : Tail(Waiting)[k] = Waiting[k + 1]
    BY <1>1, <1>4
  <2>3. QED
    BY <1>5, <2>1, <2>2
<1>8. QED
  BY <1>3, <1>6, <1>7 DEF FifoOutbox!Begin

\* Every step of the program is a step of the outbox or none.
LEMMA NextImplements == ASSUME IInv, [Next]_vars PROVE [FifoOutbox!Next]_<<Waiting, job, Open>>
<1> USE DEF IInv
<1>1. mpc \in {"run", "join", "down"}
  BY DEF OtherTypes
<1>2. CASE WorkerTake
  BY <1>1, <1>2, TakeBegins DEF FifoOutbox!Next
<1>3. CASE WorkerWait \/ SpuriousWakeup
  <2>1. UNCHANGED <<ring, head, count, job, mpc, running>>
    BY <1>3 DEF WorkerWait, SpuriousWakeup, queueVars
  <2>2. QED
    BY <2>1, WaitingSame DEF Open
<1>4. CASE WorkerExit
  <2>1. /\ stop /\ count' = 0 /\ UNCHANGED <<mpc, running, job>>
    BY <1>4 DEF WorkerExit
  <2>2. ~Open /\ Open' = Open /\ Waiting' = <<>>
    BY <2>1 DEF Open, QueueInv, WorkerInv, Waiting
  <2>3. QED
    BY <2>1, <2>2 DEF FifoOutbox!Next, FifoOutbox!Drop
<1>5. CASE SendWebhook \/ CurlEnds
  <2>1. /\ UNCHANGED <<ring, head, count, mpc, running>> /\ wpc \in {"job", "curl"} /\ (job' = job \/ job' = NoJob)
    BY <1>5 DEF SendWebhook, CurlEnds, queueVars
  <2>2. Waiting' = Waiting /\ Open' = Open /\ job # NoJob
    BY <2>1, WaitingSame DEF Open, QueueInv, WorkerInv
  <2>3. QED
    BY <2>1, <2>2 DEF FifoOutbox!Next, FifoOutbox!Settle
<1>6. CASE Start
  <2>1. /\ mpc = "down" /\ mpc' = "run" /\ UNCHANGED <<ring, head, count, job>> /\ running' \in BOOLEAN
    BY <1>6 DEF Start, queueVars
  <2>2. Waiting' = Waiting /\ Waiting = <<>> /\ ~Open /\ job = NoJob
    BY <2>1, WaitingSame, WaitingNone DEF Open, QueueInv, WorkerInv
  <2>3. CASE running'
    BY <2>1, <2>2, <2>3 DEF Open, FifoOutbox!Next, FifoOutbox!Open
  <2>4. CASE ~running'
    BY <2>1, <2>2, <2>4 DEF Open
  <2>5. QED
    BY <2>3, <2>4
<1>7. CASE Deinit /\ running
  <2>1. mpc = "run" /\ mpc' = "join" /\ UNCHANGED <<ring, head, count, job, running>>
    BY <1>7 DEF Deinit, queueVars
  <2>2. Open /\ Open' = FALSE /\ Waiting' = Waiting
    BY <1>7, <2>1, WaitingSame DEF Open
  <2>3. QED
    BY <2>1, <2>2 DEF FifoOutbox!Next, FifoOutbox!Close
<1>8. CASE Gone
  <2>1. count' = 0 /\ job' = NoJob /\ mpc' = "down"
    BY <1>8 DEF Gone
  <2>2. Waiting' = <<>> /\ Open' = FALSE
    BY <2>1 DEF Waiting, Open
  <2>3. QED
    BY <2>1, <2>2 DEF FifoOutbox!Next, FifoOutbox!Gone
<1>9. CASE TestWebhook \/ \E t \in Types : Emit(t)
  <2>1. \E r \in Id \cup {0} : Enters(r)
    BY <1>9, EntersIs, RulesAre
  <2>2. QED
    BY <2>1, EnqueueAccepts DEF Enters, FifoOutbox!Next
<1>10. CASE RuleRequest \/ (\E t \in 1 .. MaxTime : SetClock(t)) \/ UNCHANGED vars
  <2>1. UNCHANGED <<ring, head, count, job, mpc, running>>
    BY <1>10, RuleRequestIs DEF SetClock, vars, queueVars, workerVars
  <2>2. QED
    BY <2>1, WaitingSame DEF Open
<1>11. QED
  BY <1>2, <1>3, <1>4, <1>5, <1>6, <1>7, <1>8, <1>9, <1>10
  DEF Next, Main, Worker, Crash, Joined, Deinit, RuleRequest

\* The ring of 8 slots, its worker and its stop are a bounded first-in
\* first-out outbox (enqueue_job, notification_worker, notification_deinit).
THEOREM ImplementsOutbox == Spec => IsOutbox
<1>1. Init => FifoOutbox!Init
  BY DEF Init, FifoOutbox!Init, Waiting, Open
<1>2. IInv /\ [Next]_vars => [FifoOutbox!Next]_<<Waiting, job, Open>>
  BY NextImplements
<1>3. QED
  BY <1>1, <1>2, SpecIInv, PTL DEF Spec, IsOutbox, FifoOutbox!Spec, FifoOutbox!vars
=============================================================================
