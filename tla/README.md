# A verification development of UDX710-TOOLS

UDX710-TOOLS is the management service of a 4G/5G modem board: one C process
(`src/src`) that serves a web interface and an HTTP API, talks to the modem over
D-Bus (oFono) and AT, and runs a number of background threads.  This directory
holds TLA+ modules that model the services with the hardest concurrency, TLC
configurations that check them, and TLAPS proofs.

## 1. The system

One process.  The *event loop* (main thread) runs mongoose (`http_server.c`), the
HTTP handlers, GLib's D-Bus callbacks and timers.  Around it:

| part | own thread | state | operations | talks to |
|---|---|---|---|---|
| goform requests (`goform_async.c`) | worker | list of heap-allocated jobs, mutex, condvar | submit, cancel, wakeup, shutdown | mongoose wakeup pipe, curl |
| telemetry (`telemetry.c`) | worker, stdout reader | configuration, buffer, sequence number, flags, mutex, condvar | save, test, capture line/AT/command, init, deinit | every thread (capture), curl, database |
| traffic limit (`traffic.c`) | detached controller | `is_flow_control_running`, two database rows | start-up, set limit, clear | vnstat, oFono |
| network interface monitor (`netif.c`) | detached reader per monitor | slots with pid, pipe, statistics | start, stop, statistics, clean up | vnstat children |
| oFono (`ofono.c`, `modem.c`, `apn.c`) | - (the watchdog's code is there, nothing starts it) | D-Bus proxies, subscriptions and restore timer of the data monitor | data switch, card switch, APN, vanished/appeared, property signals, restore | D-Bus |
| notification (`notification.c`, `notification_rules.c`) | worker | rules, queue of 8, log of 30, last-sent times | emit, test, add/save/delete rule | curl, database |
| notification monitor (`notification_monitor.c`) | - (30 s timer) | last reading of every source | poll | interfaces, WiFi, modem, vnstat, rules |
| SMS (`sms.c`) | - | database rows, signal subscription | receive, send, trim | D-Bus, sqlite3 |
| IPv6 proxy (`ipv6_proxy.c`) | a process per rule, senders | child pids, firewall rules it owns, rows | start, stop, restart, edit rules, boot | child processes, ip6tables, database |
| rathole (`rathole.c`) | - (health timer) | pid file, configuration rows | start, stop, restart | child process |
| LED, power key, charge, phone case | one each | flags, sysfs | start, stop, poll | sysfs, input devices |
| authentication, security (`auth.c`, `security.c`) | - | password, token rows | login, change, verify | database |
| the rest: WiFi, APN, USB mode, plugins, update, reboot, system information | - | files and rows | read and write | shell commands |

What is hard here: threads that share state under a lock that is released for
slow calls (curl, sqlite3 and vnstat are child processes, so a "call" takes
seconds), flags shared without a lock, wakeups that may be missed or dropped, a
restart between two writes of one configuration, detached threads that outlive
what they point to, and calls whose failure is ignored.

How the parts interact: HTTP handlers call into every part from the event loop;
`run_command_argv` (every curl, sqlite3 and vnstat) reports its command to the
telemetry capture, so any thread may enter `telemetry.c`; the telemetry worker
calls `netif_get_stats`, which may restart a traffic monitor; a closing HTTP
connection calls `goform_async_cancel`; the traffic controller sets the modem
offline through oFono; SMS, login and polled values call `notification_emit`.

What makes each part correct:

| part | it is correct when |
|---|---|
| goform requests | no job is used after it was freed or freed twice; every reply belongs to the connection and request it answers; no open connection waits for a job that is gone; shutdown returns |
| telemetry | a record is sent at most once and has one fate; the worker does not sleep through work; switching off ends sending; its own output is not captured; (group, device, boot, sequence) is unique |
| traffic limit | one controller at most; an exceeded limit cuts the network; switching the limit off brings it back |
| traffic monitors | each child process is in the slot of its interface; a stop waits for its own child only; only its own pipe is closed |
| notification | every accepted job is sent once and in order or settled otherwise; cooldowns follow rules; rules shown are rules stored |
| notification monitor | an event means a change or a crossing since the last reading |
| oFono data monitor, AT | data that the user switched off stays off; the monitor listens to the card in use; data that was lost comes back; a proxy in use is not replaced |
| IPv6 proxy | one listener per enabled rule or none at all; the firewall rules it added and no others are taken back; no listener outlives the server |
| rathole | one process; a stop leaves none; a restart uses the saved configuration |
| power key, LED, charge, phone case | a press is a click or a long press, never both; thresholds have hysteresis; stop joins |
| authentication | no session survives a password change |
| SMS | a stored message is trimmed only for newer ones |

## 2. Modules

| part | modules | theorems in |
|---|---|---|
| goform requests | `GoformAsync`, `RequestService`, `MCGoformAsync` | `GoformAsync_proofs` |
| telemetry | `Telemetry`, `MCTelemetry` | `Telemetry_proofs` |
| traffic limit | `FlowControl`, `MCFlowControl` | `FlowControl_proofs` |
| notification | `Notification`, `Outbox`, `MCNotification` | `Notification_proofs` |
| traffic monitors | `NetifMonitor`, `MCNetifMonitor` | `NetifMonitor_proofs` |
| oFono's data monitor, data switch, card switch, APN | `DataMonitor`, `MCDataMonitor` | `DataMonitor_proofs` |
| IPv6 proxy | `Ipv6Proxy`, `MCIpv6Proxy` | `Ipv6Proxy_proofs` |
| notification monitor | `NotificationMonitor`, `MCNotificationMonitor` | `NotificationMonitor_proofs` |

A component's module has its state as variables, one action per operation or
per step between two points where another thread can come in, and its
properties.  A comment on each variable names the C variable.  Definitions
whose name ends in `_Mut` are not part of the specification: each is the
definition after it with a plausible bug in it, kept to show that a property
notices the bug.  `PROJECT.json` maps every definition to its lines of source.

### GoformAsync and RequestService

The event loop and one worker share a list of heap-allocated jobs under a
mutex.  A critical section is one action; the work after an unlock
(`dispose_job`, the completion callback, the worker function) is another.  Jobs
live at *addresses* that `calloc` may hand out again, because the wakeup carries
a bare pointer and the code has to recognise a stale one: `Answerable` is the
check of `goform_async_handle_wakeup`.  `pipe` holds the datagrams of
`mg_wakeup`, which is external: it may lose a datagram (its `send` result is
ignored) or fail for good when the socketpair is closed.  `owed` is history: the
requests of a connection without a reply.

`RequestService` says what the handlers may rely on, with no list, addresses,
threads or wakeups in it: a request is refused or accepted, one at a time is carried
out, the newest first (the code's choice: a job is put at the head of the list and
taken from there), each is answered at most once and on its own open connection, and
it is given up only where the connection, the link or the service is gone.
`GoformAsync` implements it under the mapping `waiting <- Requests(Queued)`,
`running <- ` the worker's job while it holds one, `ready <- Requests(Completed)`
(the listed ones and the one whose answer is being sent), `linked <- pipeUp`,
`closing <- stopping`.  So a wakeup that is lost leaves its request `ready` for ever,
and a stale wakeup is a stutter.  The proof also shows that a cancelled job on the
list is always RUNNING: the loop that would meet a cancelled queued one never does.

### Telemetry

The worker's cycle is a program counter with one step per section under
`g_lock`, per wait and per upload.  Capturing a line is one action of any
thread, capturing an AT command two (line, then flush request).
`g_sequence++` of the snapshot runs outside the lock: `WorkerCollect` reads,
`WorkerStamp` writes.  A record is its position in `made`; `pending`, `batch`,
`sent`, `failed` and `gone` are sets of positions, so "exactly once" can be said.
`Restart` is the death and the restart of the service within one boot.  Two
variables are history for the numbers: `first`, the records made before this life of
the service, and `raced`, that a line was captured between the snapshot's read and
its write.  `SequenceExplained` says that without such a race a life numbers its
records 0, 1, 2, ... in the order in which they are made: the race and the restart
are the only ways in which a number is used twice.

### FlowControl

The handler and the controller thread share two database rows and an unlocked
flag.  Every `config_get`, `config_set`, vnstat query and airplane call is a
process or a D-Bus call that takes its time, hence one step each.  A failing
read gives the default 0, a failing write is ignored, as in the code.  So is a
failing `pthread_create`: `StartController` then sets the flag and makes no thread,
which the history variable `stuck` remembers; `pthread_detach` of the old id does
nothing or ends the process (`Crash`).  `OneController` says that the flag is up
exactly while there is a controller or after this happened.
`CutsAccounted` joins what may be said of a cut without fairness: one late cut at
most, and as long as nothing failed and the service lived a cut network has a
controller that has not yet decided to end.

### Notification and Outbox

Handlers, events and start-up run in the event loop and are one action each;
the worker's critical sections and its curl are actions of their own.  The
database is the rows as a sequence by id with SQLite's `AUTOINCREMENT`.  Failing
calls (`MayFail`) are where the code goes on after them or has already changed
something.  A rule has a threshold because the row keeps three decimals of it
(`Row`) and memory all of them, until the next start loads the row.  `Outbox` says what the queue promises: a bounded first-in first-out
outbox.  `Notification` implements it under the mapping `waiting <- Waiting` (the
`count` slots of the ring from `head`), `current <- job`, `open <- mpc = "run" /\ running`.

### NetifMonitor

Slots of `g_monitors`, one vnstat process, pipe and detached reader per
monitor, and one table of descriptors for the process, in which the lowest free
number is given out and other code opens and closes too.  The sections under
`g_monitors_lock` are one action, except a stop, and a start whose reader thread
cannot be created, which wait for their process while they hold the lock
(`Locked`).  A child has the server's SIGTERM handler until its `execl` (`forked`,
`Exec`): a signal that comes before is lost, and vnstat starts all the same (`deaf`),
so the wait lasts until it ends for another reason, for instance SIGPIPE.  A reader takes no part in that lock: it reads
`pipefd` and `running` of its slot whenever it gets there, and a `read` that has
begun is on the file, not on the number.  `Exec`, `ProcEnds`,
`OtherOpens`, `OtherCloses` are external.

### DataMonitor

Everything runs in the event loop, but each D-Bus call blocks it until oFono
answers, while oFono, the cards and the network go on and signals queue up: a
handler is one action per call, and `call` says which call is next, for what
purpose and for which card.  GLib matches a signal with the subscriptions when it
arrives and drops it when its subscription is gone at delivery, so ending a
subscription turns what is queued for it into `dropped`.  Three variables are
history: `wish` is the last switch that succeeded, `gaveUp` says that the last
check ended for want of an answer or of an APN (nothing retries it then), `missed`
that the card changed between reading it and subscribing to its changes.  The
model is what the code does, also where that may surprise: a successful off stops
the monitor and a successful on starts it; clearing the APN leaves the monitor
running with nothing to restore; writing an APN while data is inactive triggers no
check; a start of the server turns data on again by design (`main.c:54`), and only
that start can find no bus.  `Owed` is the state in which data should come back;
`RestoreTimer` says that there is one restore timer at most, and that an idle event
loop with an empty queue that owes data has it set.  One internet context per card; network modes, the
300 ms and 2 s durations and the watchdog thread (`ofono.c:1580-1645`, which
nothing starts) are left out.  oFono, the cards and the bus are external.

### Ipv6Proxy

A start reads the rules and, per rule, forks a listener, waits for the byte that
says its socket is bound, opens the port in the firewall and records both; any
failure undoes the whole start.  A stop, the rollback and the exit of the server
are the same loop (`Sweep`).  Every fork, wait, kill and ip6tables command is a
step of its own, between which children move (`ChildStep`), other code forks and
reuses a pid (`OtherForks`), or the server dies (`Crash`).  A child forked while
the server is serving inherits its SIGTERM handler, which only clears a variable
the child never reads, *and* mongoose's listening sockets: as an orphan it stays
deaf and keeps the management port, so the next start of the server cannot listen
(`deaf`, `PortTaken`, `ListenFails`); `start.sh` cleans up by its PID file only.
Firewall rules that a crash or a failed `-D` left behind are `stale`, which no code
removes.  Left out: the processes that serve one connection, the webhook and its
timers, a `-C` check that fails without cause, the status answers, sleeps, and the
`ip6tables -F` of `phone_case.c:102`.  The management port stands for the fixed
6677, taken to be the HTTP port.

### NotificationMonitor

One poll reads every source a rule asks for, any of which may fail, compares it
with the last reading and emits; it runs in the event loop, hence one action.
Rules are added, edited and deleted in between (a rule that is switched off counts
as none), the device changes, and a restart forgets the readings.  Whether an event
is accepted (cooldown, full queue, webhook off) belongs to `Notification` and is
open here; a crossing that was refused is not reported again, in the code as in the
model.  Two sources may say less than there is without failing: a vnstat that fails
counts as no traffic (`Counted`), and a client list lacks what a failing `arp`,
`ip neigh` or `brctl` would have listed (`Listed`).  The constant `Lossy` says which of
the two do.  `seen` is history: the device as it was at the last reading.  Not part of
the poll, and of the model: SMS, login and operator events, and clients beyond 64.

## 3. Runs

Passing runs:

| run | instance | distinct states | what it shows |
|---|---|---|---|
| `goform_async` | 2 connections, 2 addresses, 3 requests, 1 lost datagram, pipe may fail | 61,781 | no pointer to a freed job, no leak, one job per connection (`HeapSafe`); right replies, no request forgotten and no sleep on one; the two threads implement `RequestService`; every request is settled, shutdown ends |
| `telemetry` | 3 records before cycles stop, a fragment of 2 lines, 1 restart | 222,366 | each record in one place; no missed wakeup, a flag with an owner and a clean stop (`WorkerOrderly`); the sequence numbers of a life, and what can repeat one; deinit returns, buffered lines leave |
| `flow_control` | 2 controller threads, limit 1, traffic up to 1, 1 failure, 1 restart | 58,556 | never two controllers, a flag that is wrong only after a failed `pthread_create`, one late cut, a cut is watched; off restores, a live controller cuts |
| `notification` | 2 event types, 2 thresholds, a legacy rule, queue 2, log 2, 2 rule ids, 3 jobs, clock 2, 1 failure, 2 starts | 732,106 | the ring implements `Outbox`; a rule in memory has its row, cooldowns hold; every job settled, deinit returns |
| `netif` | 3 interfaces (symmetric), 2 slots, 2 processes, 3 descriptors, 2 callers, 1 failure | 2,931,544 | children are in their slots, one monitor per interface, a stop waits for a child of its own that it has signalled and nobody else has reaped |
| `data_monitor` | 2 cards, 2 changes of oFono, cards or network, 2 requests, 1 failing call | 1,257,367 | off stays off whatever was under way, one restore timer and never an idle loop that owes data without it, the monitor follows the card; lost data comes back |
| `ipv6_proxy` | 2 ports beside the management port, 2 pids, tables of 2 rules, 1 failure, 1 crash | 1,225,132 | firewall and children are accounted for at every step, a start is all or nothing, orphans are told to die; every call ends |

The bounds, and why they are enough for these questions:

- `goform_async`: two addresses make `calloc` reuse one while a stale wakeup is
  in the pipe; the third request is the one that reuses it, or is refused because
  memory or the connection is taken; one lost datagram and a failed pipe are the
  two ways the wakeup can go wrong.
- `telemetry`: three records make a snapshot, a line captured while it is built
  and one while it is sent; a fragment of two lines makes the flush threshold
  both reached and missed; a line captured between the snapshot's read and write
  repeats a number, and one restart makes the numbers start again.  When
  `MaxRec` records exist no new cycle starts (`Budget`), which `PendingLeaves`
  allows for.
- `flow_control`: a second thread is enough to find two controllers; totals and
  limits only matter as reached or not reached; the one failure is each failing call
  in turn, `pthread_create` among them.  `flow_limit` adds a second limit.
- `notification`: a queue of 2 is empty, partly filled, full and wraps within 3
  jobs; two rule slots are where a deletion moves an entry; the ids show whether
  a row survives; two starts show what memory is rebuilt; one of two thresholds loses
  decimals.
- `netif`: a third interface meets two taken slots; two processes make a slot,
  and a number, pass from one reader's monitor to another's; with three
  descriptors one is standard input, and both others can belong to monitors or to
  other code.
- `data_monitor`: two changes make oFono go and come back, or the card move twice,
  within one call; a switch to off and one other request meet every check that is
  under way; one failing call is each of the error paths.
- `ipv6_proxy`: with two pids and two rules the second rule can fail after the first
  was opened, and a pid of a dead listener is reused by other code; one crash splits
  every call; one failure is every command, fork or listener in turn.

Runs with a violation: what the repository says and the code does not do.

| run | property | what happens |
|---|---|---|
| `telemetry_own_log` | `SenderHasFlag` | the worker ends its fragment while the connection test runs and lowers the flag they share, so that the test's own command line is captured; the design document (:78) says that the module's own logs never enter the upload |
| `telemetry_off` | `OffStopsFragments` | reporting is switched off after the worker copied the configuration: it still collects a snapshot and starts two fragments; the design document (:39) lets only the fragment being sent finish |
| `flow_limit` | `LimitEnforced` | a limit saved while a controller is leaving finds the flag still set and starts no controller; the repository's README (:84) promises the cutoff |
| `netif_close` | `StopClosesPipe` | reader and stop both close the pipe's number; in between it may have become another file, which is closed; the comment (netif.c:375) says the pipe is closed |
| `monitor_unit` | `OnlyWhenCrossed` | the unit of a rule is edited between two polls: the last reading, in percent, is compared with a threshold in dBm, and a signal that did not change is reported; the design document (:47) says that only a change or a crossing notifies.  Readings are 0 to 4 on each scale; no source is lossy in this run (`Lossy = {}`): where one is, the 0 of a failed vnstat or a client list cut short breaks the same property |

Further disagreements, which the models show and no run asserts:

- Sequence numbers are part of a unique key (telemetry design document :153, and
  :147): the numbers start at 0 again with every start of the service
  (`telemetry.c:57`) while the boot id stays, and the snapshot's unlocked increment
  (`telemetry.c:689`) can repeat one.  `SequenceExplained` says that this is all.
- New logs do not wait for the next snapshot (the same, :37): a flush request made
  during an upload is forgotten (`telemetry.c:734`), and its lines wait for the
  interval.  `PendingLeaves` says that they leave.
- "Do not leave an IPv6 listener behind if the HTTP parent dies" (comment,
  `ipv6_proxy.c:1408`): a listener forked by a request inherits the server's SIGTERM
  handler, which only clears a variable; its select returns EINTR and its loop goes
  on.  `OrphansDie` says that only such a listener stays.
- The old rules are migrated once (notification design document :29): when the row of
  the flag cannot be written or read (`notification.c:206`, `:212`) they are inserted
  again, deleted ones too (`Start`).
- A full queue writes an error to the log (the same, :27): `enqueue_job` returns -1
  and writes nothing (`notification.c:68`).  In the model an event that is refused is
  no step.
- A threshold with more than three decimals is another after a restart
  (`notification.c:387`, `:427`); `Stores` in `MemoryIsStored` allows for it.

### Fairness

Nothing is assumed of the environment: requests, events, disconnects, switches,
failures, crashes and spurious wakeups may never happen.  What is assumed:

- a thread that has work goes on (weak fairness of `Worker`, `MainOwn`,
  `AskFlush`, the controllers and the handler's remaining steps): the
  operating system schedules threads, and the slow calls inside are bounded by
  the code (`curl --max-time`), or by the tool (vnstat, sqlite3 end);
- strong fairness of `WorkerTimeout` in `Telemetry`: the wait has an absolute
  deadline, so repeated signals, which take the worker out of the wait and back,
  cannot postpone it;
- in `FlowControl` a controller sleeps 15 seconds and goes on;
- in `Notification`, `Joined`: the join returns once the worker has exited;
- in `DataMonitor`, weak fairness of `CallStep` (every D-Bus call has a timeout), of
  `Events` and `TimerFires` (GLib drains what is pending and due before it serves the
  next request) and of `NameReply` (the bus answers);
- in `Ipv6Proxy`, weak fairness of `CallStep` only: a wait for a child ends by its
  two-second timeout and a kill is SIGKILL, so a call ends whatever the children do.

`NetifMonitor` and `NotificationMonitor` state only safety.  That a stop of a monitor
ends is not claimed: `WaitsForOwnChild` says that it waits for an unreaped child of
its own that was sent SIGTERM, but a child that got the signal before its `execl` did
not hear it, and the stop then holds `g_monitors_lock` until vnstat ends for another
reason.

Deadlock is checked for `GoformAsync`, `FlowControl`, `NetifMonitor` and
`Ipv6Proxy`.  In `Telemetry` and `Notification` the service really stops (after
deinit, and with the bounds on restarts used up), in `DataMonitor` nothing is left
to happen once the user switched data off and the bounds are used up, and the run of
`NotificationMonitor` looks for one invariant's violation: the check is off there.

## 4. Proofs

TLAPS proves the theorems below for every value of the constants, from the
named assumptions on them (sizes are natural numbers, a queue and a log have at
least one place, `NoAddr` is not an address, the legacy rules are a finite set
with one rule per event, what is left of a threshold is a threshold).  Each module proves an inductive invariant `IInv` and
takes the properties from it.

- `GoformAsync_proofs`.  `HeapSafe` is not inductive: that the event loop may
  free a cancelled job needs to know that only the worker's job is RUNNING
  (`RunningIsWorkers`), that every address in use holds a job
  (`AllocatedJobs`), and which thread may still run in which phase of a shutdown
  (`ShutdownOrder`); replies need the numbering of requests (`Numbered`,
  `Owed`, `Filled`), and `NoSilentDrop` that a cancelled job's connection is closed.
  That the worker never sleeps on a queued job or on the shutdown (`NoMissedWakeup`)
  is inductive with the types alone.  From it and `ShutdownOrder` follows
  `ShutdownIsBounded`: once `stopping` is set the worker has at most four steps left,
  each of them leaves one less, and nothing else it hears brings it back.
  The refinement of `RequestService` needs two facts more (`ServiceInv`: a cancelled
  job is RUNNING, a worker that has left leaves nothing queued); two jobs that may
  still be answered are for two requests (`RequestsApart`), so the sets of the mapping
  lose exactly the job that leaves.  Each action is shown to be one action of the
  service or a stutter (`NextServes`).  That the worker takes the *newest* job is the
  service's `Begin`.  Theorems: `TypeCorrect`, `HeapSafeHolds`, `AnswersOwed`,
  `NothingDropped`, `ImplementsService`, `ShutdownIsBounded`, and `StopStartsNothingHolds`, the action
  property that once `stopping` is set no queued job starts and the running one is
  left to the worker (the refinement run covers its first half).
- `Telemetry_proofs`.  The partition of records is kept in pairwise form
  (`Places`); the worker's hands are empty in all but the sending states
  (`EmptyHands`); the bound on late fragments needs to count those the cycle may
  still start (`LateInv`, with `ToCome`); that there are two at most
  (`FewLateFragments`) is what remains of the promise that `telemetry_off` refutes.
  `SequenceExplained` needs that, without a race, the worker's copy of the number is
  still the current one (`SeqInv`).  `DeinitIsBounded`: once `g_stop` is set, which
  only `telemetry_deinit` does (`StopInv`), the worker is in neither wait, follows
  twelve steps at most to its end (`StoppingEdges`) and no captured line, flush
  request or other signal sends it round again.  Theorems: `TypeCorrect`, `SentOnce`,
  `SequenceExplainedHolds`, `WorkerOrderlyHolds`, `FewLateFragments`, `DeinitIsBounded`.
- `FlowControl_proofs`.  `OneController` is inductive with types: the flag is
  cleared only by the last step of a controller, and where one could not be created
  (`stuck`) it is never cleared, so none is created later.  `OneLateCut` needs that after
  one late cut no controller may cut (`LateInv`).  `CutIsWatched`, the part of
  `OffRestores` that needs no fairness, is inductive with these: the controller that
  ends has just undone the cut there was, and by `OneController` no other can have
  made one.  Theorems: `TypeCorrect`, `OneControllerHolds`, `CutsAccountedHolds`.
- `Notification_proofs`.  `RuleInv`: rows ascend by id, one per event, and the
  times of the array are the times of its rules' ids (`StampInv`), which makes
  `CooldownRespected` hold of each step.  A row differs from its rule by rounding only
  (`Stores`).  `QueueInv`: the tail is `count` after
  the head modulo the size, and the waiting slots hold jobs (`RingInv`); the
  worker's place decides `stop`, `running` and `job` (`WorkerInv`).  The
  refinement proof shows for every action that `Waiting` is appended to, loses its
  head or stays; it rests on lemmas about indices modulo the size.
  `DeinitIsBounded`: with `g_worker_stop` set at most three steps are left, however
  full the queue.  Theorems: `TypeCorrect`, `StoredRules`, `NoSleepThroughWork`,
  `CooldownHolds`, `DeinitIsBounded`, `ImplementsOutbox`.
- `NetifMonitor_proofs`.  That a restart or a stop hits only its own slot needs
  one monitor per interface, that a stop's slot keeps a pid that is gone only
  between `waitpid` and the zeroing (`ReapedGone`), and that requests under way name
  interfaces (`Named`), and that one caller at a time is between the two ends of the
  lock (`Holder`).  That the lowest free slot or number exists at all is the
  library's theorem that `<` on the naturals is well founded.  Theorems:
  `TypeCorrect`, `ChildrenInSlots`, `OneMonitorHolds`, `WaitsForOwnChildHolds`.
- `DataMonitor_proofs`.  `OffSticks` needs that a monitor which does not run has
  nothing left that could start a check: no subscription, no timer, nothing but
  dropped events in the queue, no check under way (`Quiet`), and that a successful off
  leaves it stopped (`OffInv`); `CallInv` says what the next call of a handler may be
  for.  `FollowsCard` needs that the last card change in the queue names the card in
  use (`LastIs`), from which it follows when the queue holds none.  `RestoreTimer`
  is the safety core of `Recovers`: a monitor that owes data has hope (`Watched`):
  the timer, the first answer about oFono's name, a queued event that starts a check
  or the timer, or a check that has not looked at the card yet or looks at the right
  one.  That hope is never lost needs that the monitor hears the events that would
  renew it (`Hears`), and that a queued end of oFono is followed by its return while
  oFono is up (`BusInv`).  Where the loop is idle and the queue empty only the timer
  is left of it.  Theorems: `TypeCorrect`, `RestoreTimerHolds`, `FollowsCardHolds`,
  `OffHolds`.
- `Ipv6Proxy_proofs`.  The equation of `FirewallAccounted` is inductive once
  `CallInv` says what is set at which step of a call.  `AllOrNothing` needs the
  progress of a start: the ports in the table and those still to do are the ports asked
  for (`StartInv`).  `ChildInv` makes the processes of the server exactly those of the
  table not yet killed and the one waited for, with no pid twice.  `OrphanInv` extends
  `OrphansDie` to the step before the socket is bound.  `CallsAreBounded` is the
  safety core of `CallsReturn`: a variant (`Rank`, from `StepsLeft`) that every step
  of a call lowers, nothing beside it raises, and that is at most `9 * MaxRules + 7`
  and 0 exactly when no call is under way; it needs that the entries and the rules
  still to do are never more than `IPV6_PROXY_MAX_RULES` and that a sweep stays within
  the table (`SizeInv`).  With the fairness of `CallStep`, and given that such a step
  is always possible, which TLC checks, a call ends.  Theorems: `TypeCorrect`,
  `FirewallHolds`, `ChildrenHold`, `AllOrNothingHolds`, `OrphansHold`,
  `CallsAreBounded`.
- `NotificationMonitor_proofs`.  The promise of the design document is refuted by a
  run; what holds instead is proved.  Every alarm is the event of two reports that
  were made of the device after the last restart, the later one in the unit of the
  rule (`AlarmsExplained`); alarms of states are true, those of the clients where a
  list is never cut short (`StateAlarmsTrue`).  An alarm can be false in three ways:
  its rule's unit was edited, vnstat failed, a command behind the client list failed.
  They are the only ones: while the two rules keep their units, an alarm of a source
  that is not lossy is true (`OnlyUnitsMislead`), and where none is lossy every alarm is
  (`OnlyLossMisleads`); the hypotheses are stated of the whole behaviour.  The
  invariant is that the last reading of each source was taken of a report of the device
  in `seen` (`LastRead`), in some unit in which it could be read.  The module has no
  assumptions on its constants.  Theorems: `AlarmsHold`, `StateAlarmsHold`,
  `OnlyUnitsMislead`, `OnlyLossMisleads`.

Only model-checked: every liveness property (`EveryRequestSettled`,
`ShutdownEnds`, `DeinitReturns`, `PendingLeaves`, `OffRestores`,
`ControllerCuts`, `JobSettled`, `Recovers`, `CallsReturn`), since fairness and
ENABLED are out of the prover's reach.  Of six of them the part that is a safety
property is proved: `CutIsWatched` for `OffRestores`, `NothingForgotten` for
`Recovers`, `CallsAreBounded` for `CallsReturn`, `ShutdownIsBounded` for
`ShutdownEnds`, and `DeinitIsBounded` for `DeinitReturns`, in telemetry and in
notification.  For the last four it is a variant: a number of steps with a bound,
which every fair step lowers and no other step raises.  What TLC adds is that a fair
step is always possible until it is 0.  No proof is by induction over data, which is
out of reach too.

## 5. Not modelled

- In modelled parts: the text of records, messages and logs; telemetry's stdout
  pipe and the collectors; saves of several rows (one step in `Telemetry`);
  curl's and sqlite3's own behaviour beyond "may fail, ends"; the statistics read
  from vnstat, and mutexes `netif.c` initialises again while a reader holds them;
  AT commands and the queries of `ofono.c` that only read; what `DataMonitor`,
  `Ipv6Proxy` and `NotificationMonitor` leave out is named in their sections.
- `rathole.c`: a process found by its pid file.  Apart from that file it has little
  state of its own; worth stating is that a stale file can make a stop signal, and
  wait for, a process that got the pid since.
- The callers of the asynchronous service (`goform_*.c`): their functions run curl
  and parse its answer.  `goform_proxy.c:108` disposes of an argument that
  `goform_async_submit` has disposed of when it refused; `GoformAsync` leaves
  arguments out, so this is a hazard in `PROJECT.json` without a property.
- Parts without shared state to protect (WiFi, system information, parsers, JSON,
  hashing, plugins, update, factory reset, most HTTP handlers): text, files and shell
  commands, which a model would only repeat.
- The Vue front end and vendored code (mongoose, GLib headers, tools).  They are the
  greater part of the repository's lines, and mongoose alone a quarter: the modules
  cover the management service's own concurrent parts, a small share of the whole.

## 6. Plan

Done: `GoformAsync` with `RequestService`, `Telemetry`, `FlowControl`, `Notification` with `Outbox`,
`NetifMonitor`, `DataMonitor`, `Ipv6Proxy`, `NotificationMonitor`.  What remains, in
this order:

1. `ModemLink`: the AT proxy that is replaced outside `g_at_mutex` (`ofono.c:213`).
   Property: no proxy is replaced in use.
2. The ownership of the argument that the callers of the request service pass
   (`goform_proxy.c:108`).
3. `NotificationMonitor` composed with `Notification`, so that a crossing refused by
   a cooldown or a full queue can be followed.
4. Saves of several rows with a crash in between, and the tokens of a password
   change (`telemetry.c:854`, `auth.c:245`).
5. Power key, charge hysteresis, LED and phone case threads; SMS; `rathole.c`.
