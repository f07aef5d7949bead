---------------------------- MODULE Notification ----------------------------
(***************************************************************************)
(* Event notifications of src/src/system/notification.c: the rules and     *)
(* their database rows, the webhook configuration, the queue of 8 jobs,    *)
(* the sending thread and the log of 30 entries.  Events, requests of the  *)
(* web interface and start-up all run in the event loop ("main"), so a     *)
(* handler is one action: the worker reads nothing a handler holds between *)
(* two of its critical sections.  The worker's critical sections are its   *)
(* actions.                                                                *)
(*                                                                         *)
(* Abstracted: the text of events, templates and requests; a rule is its   *)
(* event type, cooldown and threshold (its unit goes where the threshold   *)
(* goes), and a threshold that was stored is loaded as it is; the webhook  *)
(* is EMPTY (no URL), OFF or ON.  There are 11 event types and 16 slots,   *)
(* and a type has one rule: the rule array is never full.  A request that  *)
(* is refused, or whose SQL fails at once, changes nothing and is no step. *)
(* External: the clock and the end of the process.                         *)
(***************************************************************************)
EXTENDS Naturals, Sequences, FiniteSets

CONSTANTS Types,      \* event types
          Cooldowns,  \* cooldown values a rule may have, in clock units
          Thresholds, \* thresholds a rule may have
          Rounded,    \* per threshold, what "%.3f" leaves of it
          Settings,   \* what a request may set: [type, cool, thr]
          Legacy,     \* the enabled rows of the old table, likewise
          QueueSize,  \* NOTIFICATION_QUEUE_SIZE
          LogSize,    \* NOTIFICATION_LOG_SIZE
          MaxId,      \* bound: rule ids handed out by the database
          MaxJob,     \* bound: jobs accepted
          MaxTime,    \* bound: the clock
          MaxFail,    \* bound: sqlite3 calls and thread creations that fail
          MaxStart    \* bound: starts of the service

ASSUME SizesAssumption == QueueSize \in Nat \ {0} /\ LogSize \in Nat \ {0}
ASSUME BoundsAssumption == /\ MaxId \in Nat /\ MaxJob \in Nat /\ MaxTime \in Nat \ {0}
                           /\ MaxFail \in Nat /\ MaxStart \in Nat /\ Cooldowns \subseteq Nat
ASSUME RoundedAssumption == Rounded \in [Thresholds -> Thresholds]
Setting == [type : Types, cool : Cooldowns, thr : Thresholds]
ASSUME SettingsAssumption == Settings \subseteq Setting
ASSUME LegacyAssumption == /\ IsFiniteSet(Legacy) /\ Legacy \subseteq Setting
                          /\ \A a, b \in Legacy : a.type = b.type => a = b

VARIABLES
  hook, hookDb,    \* g_webhook and its row
  rules,           \* g_rules[0 .. g_rule_count - 1]
  lastSent,        \* g_last_sent of these rules
  db,              \* notification_entries, ordered by id
  nextId,          \* the id AUTOINCREMENT gives next
  migrated,        \* the row notification_entries_migrated
  ring, head, tail, count,   \* g_queue, g_queue_head, g_queue_tail, g_queue_count
  stop, running,   \* g_worker_stop, g_worker_running
  wpc, job,        \* where the worker is, its copy of the job
  logs, logCount, logId,     \* g_logs, g_log_count, g_log_id
  mpc,             \* the process: "run", "join" (in notification_deinit), "down"
  now,             \* time()
  made,            \* history: jobs accepted, which number them
  stamp,           \* history: per id of a rule, when an event of it was last accepted
  fails, starts    \* budgets used

ruleVars == <<hook, hookDb, rules, lastSent, db, nextId, migrated, stamp>>
queueVars == <<ring, head, tail, count, made>>
workerVars == <<stop, running, wpc, job>>
logVars == <<logs, logCount, logId>>
vars == <<ruleVars, queueVars, workerVars, logVars, mpc, now, fails, starts>>

Id == 1 .. MaxId
Slot == 0 .. QueueSize - 1
NoJob == [n |-> 0, rule |-> 0]
\* a job's rule is 0 when it is a test (force = 1)
Job == [n : 1 .. MaxJob, rule : Id \cup {0}]
Rule == [id : Id, type : Types, cool : Cooldowns, thr : Thresholds]
Hook == {"EMPTY", "OFF", "ON"}

TypeOK ==
  /\ hook \in Hook /\ hookDb \in Hook
  /\ rules \in Seq(Rule) /\ lastSent \in Seq(0 .. MaxTime) /\ Len(lastSent) = Len(rules)
  /\ db \in Seq(Rule) /\ nextId \in 1 .. MaxId + 1 /\ migrated \in BOOLEAN
  /\ ring \in [Slot -> Job \cup {NoJob}]
  /\ head \in Slot /\ tail \in Slot /\ count \in 0 .. QueueSize
  /\ stop \in BOOLEAN /\ running \in BOOLEAN
  /\ wpc \in {"none", "loop", "wait", "job", "curl", "exited"} /\ job \in Job \cup {NoJob}
  /\ logs \in [0 .. LogSize - 1 -> Nat] /\ logCount \in 0 .. LogSize /\ logId \in Nat
  /\ mpc \in {"run", "join", "down"} /\ now \in 1 .. MaxTime
  /\ made \in 0 .. MaxJob /\ stamp \in [Id -> 0 .. MaxTime]
  /\ fails \in 0 .. MaxFail /\ starts \in 0 .. MaxStart

Blank(x) == [s \in Slot |-> x]

\* before the first start; the database holds what an older version left
Init ==
  /\ hook = "EMPTY" /\ hookDb \in Hook
  /\ rules = <<>> /\ lastSent = <<>> /\ db = <<>> /\ nextId = 1 /\ migrated = FALSE
  /\ ring = Blank(NoJob) /\ head = 0 /\ tail = 0 /\ count = 0
  /\ stop = FALSE /\ running = FALSE /\ wpc = "none" /\ job = NoJob
  /\ logs = [l \in 0 .. LogSize - 1 |-> 0] /\ logCount = 0 /\ logId = 0
  /\ mpc = "down" /\ now = 1 /\ made = 0 /\ stamp = [r \in Id |-> 0]
  /\ fails = 0 /\ starts = 0

\* a sqlite3 call or a pthread_create that fails, or not
MayFail(ok) == (ok \/ fails < MaxFail) /\ fails' = IF ok THEN fails ELSE fails + 1

---------------------------------------------------------------------------
(* Start and end of the process.                                           *)

TypeTaken(rs, t, r) == \E i \in DOMAIN rs : rs[i].type = t /\ rs[i].id # r

\* migrate_legacy_rules: INSERT OR IGNORE of the old rows, in any order
Missing == {l \in Legacy : ~TypeTaken(db, l.type, 0)}
Orders == {new \in [1 .. Cardinality(Missing) -> Missing] : \A i, k \in DOMAIN new : new[i] = new[k] => i = k}
Migrated(new) == db \o [i \in DOMAIN new |-> [id |-> nextId + i - 1, type |-> new[i].type,
                                               cool |-> new[i].cool, thr |-> new[i].thr]]

\* notification_init.  step: the call that fails, if any.  Without the flag's
\* row the old rows are inserted again; a failed INSERT still sets the flag.
Start ==
  /\ mpc = "down" /\ starts < MaxStart /\ nextId + Cardinality(Missing) <= MaxId + 1
  /\ \E step \in {"none", "db_init", "readFlag", "insert", "setFlag", "webhook", "rules", "thread"}, new \in Orders :
       LET migrate == step # "db_init" /\ (~migrated \/ step = "readFlag")
           insert == migrate /\ step # "insert"
       IN /\ MayFail(step = "none")
          /\ db' = IF insert THEN Migrated(new) ELSE db
          /\ nextId' = IF insert THEN nextId + Cardinality(Missing) ELSE nextId
          /\ migrated' = (migrated \/ (migrate /\ step # "setFlag"))
          /\ hook' = IF step \in {"db_init", "webhook"} THEN "EMPTY" ELSE hookDb
          /\ rules' = IF step \in {"db_init", "rules"} THEN <<>> ELSE db'
          /\ lastSent' = [i \in DOMAIN rules' |-> 0]
          /\ running' = (step \notin {"db_init", "thread"})
          /\ wpc' = IF running' THEN "loop" ELSE "none"
  /\ mpc' = "run" /\ starts' = starts + 1
  /\ UNCHANGED <<hookDb, stamp, queueVars, stop, job, logVars, now>>

\* the process has gone: statics are zero again
Gone ==
  /\ hook' = "EMPTY" /\ rules' = <<>> /\ lastSent' = <<>> /\ stamp' = [r \in Id |-> 0]
  /\ ring' = Blank(NoJob) /\ head' = 0 /\ tail' = 0 /\ count' = 0
  /\ stop' = FALSE /\ running' = FALSE /\ wpc' = "none" /\ job' = NoJob
  /\ logs' = [l \in 0 .. LogSize - 1 |-> 0] /\ logCount' = 0 /\ logId' = 0
  /\ mpc' = "down"
  /\ UNCHANGED <<hookDb, db, nextId, migrated, made, now, fails, starts>>

Crash == mpc # "down" /\ Gone

\* mutant: the condition variable is not signalled
Signalled_Mut == wpc
\* pthread_cond_signal(&g_queue_ready): only the worker waits
Signalled == IF wpc = "wait" THEN "loop" ELSE wpc

\* mutant: the worker is joined without a signal
StopSignal_Mut == wpc
StopSignal == Signalled

\* notification_deinit, and the end of main
Deinit ==
  /\ mpc = "run"
  /\ \/ ~running /\ Gone
     \/ /\ running /\ stop' = TRUE /\ wpc' = StopSignal /\ mpc' = "join"
        /\ UNCHANGED <<ruleVars, queueVars, running, job, logVars, now, fails, starts>>

Joined == mpc = "join" /\ wpc = "exited" /\ Gone

---------------------------------------------------------------------------
(* The queue and the events that enter it.                                 *)

\* mutant: the index runs off the array
Advance_Mut(i) == i + 1
Advance(i) == (i + 1) % QueueSize

Room == count < QueueSize

\* enqueue_job, of an event of rule r or of a test
Enqueue(r) ==
  /\ running /\ Room /\ made < MaxJob
  /\ ring' = [ring EXCEPT ![tail] = [n |-> made + 1, rule |-> r]]
  /\ tail' = Advance(tail) /\ count' = count + 1 /\ made' = made + 1
  /\ wpc' = Signalled
  /\ UNCHANGED <<head, stop, running, job>>

\* notification_cooldown_elapsed
Elapsed(last, cool) == last <= 0 \/ cool <= 0 \/ now < last \/ now - last >= cool

\* notification_emit: an event that finds no rule, no webhook or no room is lost
Emit(t) ==
  /\ mpc = "run" /\ hook = "ON"
  /\ \E i \in DOMAIN rules :
       /\ rules[i].type = t /\ Elapsed(lastSent[i], rules[i].cool)
       /\ Enqueue(rules[i].id)
       /\ lastSent' = [lastSent EXCEPT ![i] = now]
       /\ stamp' = [stamp EXCEPT ![rules[i].id] = now]
  /\ UNCHANGED <<hook, hookDb, rules, db, nextId, migrated, logVars, mpc, now, fails, starts>>

\* notification_test_webhook
TestWebhook ==
  /\ mpc = "run" /\ hook # "EMPTY" /\ Enqueue(0)
  /\ UNCHANGED <<ruleVars, logVars, mpc, now, fails, starts>>

---------------------------------------------------------------------------
(* Requests of the web interface: the row first, then memory.              *)

\* the row of a rule: the SQL is written with "%.3f"
Row(r) == [r EXCEPT !.thr = Rounded[r.thr]]

SaveWebhook(h) ==
  /\ mpc = "run" /\ hookDb' = h /\ hook' = h
  /\ UNCHANGED <<rules, lastSent, db, nextId, migrated, stamp, queueVars, workerVars, logVars, mpc, now, fails, starts>>

\* notification_add_rule; when the SELECT of the new id fails the row stays
\* behind a request that was answered with an error
AddRule(s) ==
  /\ mpc = "run" /\ nextId <= MaxId
  /\ ~TypeTaken(rules, s.type, 0)
  /\ ~TypeTaken(db, s.type, 0)                  \* event_type is UNIQUE
  /\ \E selected \in BOOLEAN :
       LET new == [id |-> nextId, type |-> s.type, cool |-> s.cool, thr |-> s.thr]
       IN /\ MayFail(selected)
          /\ db' = Append(db, Row(new)) /\ nextId' = nextId + 1
          /\ rules' = IF selected THEN Append(rules, new) ELSE rules
          /\ lastSent' = IF selected THEN Append(lastSent, 0) ELSE lastSent
  /\ UNCHANGED <<hook, hookDb, migrated, stamp, queueVars, workerVars, logVars, mpc, now, starts>>

Rewritten(rs, new) == [i \in DOMAIN rs |-> IF rs[i].id = new.id THEN new ELSE rs[i]]

\* mutant: memory takes the new rule though another row has its event
Updatable_Mut(r, t) == ~TypeTaken(rules, t, r)
Updatable(r, t) == ~TypeTaken(rules, t, r) /\ ~TypeTaken(db, t, r)

\* notification_update_rule
UpdateRule(i, s) ==
  LET new == [id |-> rules[i].id, type |-> s.type, cool |-> s.cool, thr |-> s.thr]
  IN /\ mpc = "run" /\ Updatable(new.id, s.type)
     /\ db' = Rewritten(db, Row(new)) /\ rules' = [rules EXCEPT ![i] = new]
     /\ UNCHANGED <<hook, hookDb, lastSent, nextId, migrated, stamp, queueVars, workerVars, logVars, mpc, now, fails, starts>>

Without(s, i) == [k \in 1 .. Len(s) - 1 |-> IF k < i THEN s[k] ELSE s[k + 1]]

\* mutant: the times of the last events are not moved with their rules
SentWithout_Mut(i) == SubSeq(lastSent, 1, Len(lastSent) - 1)
SentWithout(i) == Without(lastSent, i)

\* notification_delete_rule
DeleteRule(i) ==
  /\ mpc = "run"
  /\ \E k \in DOMAIN db : db[k].id = rules[i].id /\ db' = Without(db, k)
  /\ rules' = Without(rules, i) /\ lastSent' = SentWithout(i)
  /\ stamp' = [stamp EXCEPT ![rules[i].id] = 0]
  /\ UNCHANGED <<hook, hookDb, nextId, migrated, queueVars, workerVars, logVars, mpc, now, fails, starts>>

---------------------------------------------------------------------------
(* notification_worker.                                                    *)

WorkerWait ==
  /\ wpc = "loop" /\ count = 0 /\ ~stop /\ wpc' = "wait"
  /\ UNCHANGED <<ruleVars, queueVars, stop, running, job, logVars, mpc, now, fails, starts>>

SpuriousWakeup ==
  /\ wpc = "wait" /\ wpc' = "loop"
  /\ UNCHANGED <<ruleVars, queueVars, stop, running, job, logVars, mpc, now, fails, starts>>

\* mutant: the stop flag is read after the queue
MayTake_Mut == count > 0
MayTake == count > 0 /\ ~stop

WorkerTake ==
  /\ wpc = "loop" /\ MayTake
  /\ job' = ring[head] /\ head' = Advance(head) /\ count' = count - 1
  /\ wpc' = "job"
  /\ UNCHANGED <<ruleVars, ring, tail, made, stop, running, logVars, mpc, now, fails, starts>>

\* the queue is dropped
WorkerExit ==
  /\ wpc = "loop" /\ stop /\ count' = 0 /\ wpc' = "exited"
  /\ UNCHANGED <<ruleVars, ring, head, tail, made, stop, running, job, logVars, mpc, now, fails, starts>>

\* add_log: the next entry's place, and the count that stops at LogSize
LogIndex == logCount % LogSize
AddLog ==
  /\ logId' = logId + 1
  /\ logs' = [logs EXCEPT ![LogIndex] = logId + 1]
  /\ logCount' = IF logCount < LogSize THEN logCount + 1 ELSE logCount

\* send_webhook: the configuration is copied; a job that is no test is silently
\* dropped when the webhook is off by now; an invalid URL or a template too
\* long is logged; else curl runs
SendWebhook ==
  /\ wpc = "job"
  /\ \/ job.rule # 0 /\ hook # "ON" /\ wpc' = "loop" /\ job' = NoJob /\ UNCHANGED logVars
     \/ /\ job.rule = 0 \/ hook = "ON"
        /\ \/ AddLog /\ wpc' = "loop" /\ job' = NoJob
           \/ hook # "EMPTY" /\ wpc' = "curl" /\ UNCHANGED <<job, logVars>>
  /\ UNCHANGED <<ruleVars, queueVars, stop, running, mpc, now, fails, starts>>

\* curl has ended (--max-time 10), with success or not
CurlEnds ==
  /\ wpc = "curl" /\ AddLog /\ wpc' = "loop" /\ job' = NoJob
  /\ UNCHANGED <<ruleVars, queueVars, stop, running, mpc, now, fails, starts>>

\* external: time passes, or the clock is set
SetClock(t) ==
  /\ t # now /\ now' = t
  /\ UNCHANGED <<ruleVars, queueVars, workerVars, logVars, mpc, fails, starts>>

Worker == WorkerWait \/ WorkerTake \/ WorkerExit \/ SendWebhook \/ CurlEnds

Main == \/ Start \/ Deinit \/ Joined \/ TestWebhook
        \/ \E t \in Types : Emit(t)
        \/ \E h \in Hook : SaveWebhook(h)
        \/ \E s \in Settings : AddRule(s) \/ \E i \in DOMAIN rules : UpdateRule(i, s)
        \/ \E i \in DOMAIN rules : DeleteRule(i)

Next == Worker \/ SpuriousWakeup \/ Main \/ Crash \/ \E t \in 1 .. MaxTime : SetClock(t)

Spec == Init /\ [][Next]_vars

\* The worker is scheduled and its curl ends; the join returns when it can.
\* Nothing makes events, requests, restarts or spurious wakeups happen.
FairSpec == Spec /\ WF_vars(Worker) /\ WF_vars(Joined)

---------------------------------------------------------------------------
(* Properties.                                                             *)

\* The ring of notification.c is the first-in first-out outbox of Outbox: what
\* enqueue_job accepts is sent once and in order, never more than
\* NOTIFICATION_QUEUE_SIZE wait, nothing starts after notification_deinit asked
\* to stop, and only the stop drops jobs.
Waiting == [k \in 1 .. count |-> ring[(head + k - 1) % QueueSize]]
Open == mpc = "run" /\ running
FifoOutbox == INSTANCE Outbox WITH waiting <- Waiting, current <- job, open <- Open,
                                   Capacity <- QueueSize
IsOutbox == FifoOutbox!Spec

\* The rules in memory are rows of the database, but for what the row's three
\* decimals lose of the threshold, in the order a restart would load them, and an
\* event type has one rule: a rule the interface shows works after a restart too,
\* though its SQL and its array are changed apart.
Stores(row, r) == row = r \/ row = Row(r)
MemoryIsStored ==
  /\ \A i \in DOMAIN rules : \E k \in DOMAIN db : Stores(db[k], rules[i])
  /\ \A i, k \in DOMAIN rules : i < k => rules[i].id < rules[k].id /\ rules[i].type # rules[k].type

\* The worker never sleeps while a job waits or the stop is requested: every
\* signal of enqueue_job and notification_deinit reaches it.
NoMissedWakeup == wpc = "wait" => count = 0 /\ ~stop

\* An accepted event is at least its rule's cooldown after the last accepted
\* event of the same rule, unless the clock was set back, though deletions
\* move rules and times to other array slots.
Accepts(i) == made' = made + 1 /\ ring'[tail].rule = rules[i].id
CooldownRespected ==
  [][\A i \in DOMAIN rules : Accepts(i) =>
       LET last == stamp[rules[i].id]
       IN last = 0 \/ rules[i].cool = 0 \/ now < last \/ now - last >= rules[i].cool]_vars

\* Every accepted job leaves the queue and the worker's hands: sent, logged as
\* invalid, dropped because the webhook is off, or dropped by the end.
JobSettled ==
  \A n \in 1 .. MaxJob :
    (\E k \in DOMAIN Waiting : Waiting[k].n = n) ~> job.n # n /\ \A k \in DOMAIN Waiting : Waiting[k].n # n

\* notification_deinit joins a worker that waits or that runs curl, and returns.
DeinitReturns == mpc = "join" ~> mpc = "down"
=============================================================================
