# A TLA+ model of the bilbycast Appear X API gateway

The gateway is a sidecar process between one Appear X chassis (JSON-RPC over
HTTPS) and the bilbycast manager (WebSocket, through the gateway SDK). It
polls the chassis, turns what it sees into stats, health and events, and
forwards the manager's commands. This directory holds TLA+ modules of the
parts that have state, configurations that model-check them with TLC, and
proofs that TLAPS checks. `PROJECT.json` maps every definition to the lines it
models and lists the runs, the mutants that show each property can fail, the
hazards, the findings and the theorems.

Paths below are relative to the repository root; `src/...` is the crate.

## 1. Inventory

| Component | State | Operations | Module |
|---|---|---|---|
| Target reachability tracker, `src/appear_x/reachability.rs` | failure streak, last success, reachable flag, start of the outage, last flip, single-fire latch, last error | `record_success`, `record_failure`, copied field by field into the heartbeat | `Reachability` |
| Client-side event gate, `src/event_gate.rs` | window start, accepted, suppressed, behind one mutex | `check()`, called by `emit_gated_event` from the alarms poller and every card poller | `EventGate` |
| Alarm event feed, `set_alarms` in `state.rs`, alarms poller in `polling.rs` | previous alarm ids, time of the last refresh | difference of two answers, periodic refresh, one event per difference | `AlarmFeed` implements `AlarmMirror` |
| Start-up, `main.rs`, `DeferredAppearXHandler` in `commands.rs`, `run_polling` | discovery phase, handler slot, shutdown token | discover and retry, heartbeat every 10 s, install the handler, hand over to polling | `Startup` |
| Capability discovery, `capabilities.rs`, `probe_registry.rs` | versions found per slot and module | login, chassis info, probe walk; the gate before every command | `Capabilities` |
| JSON-RPC client, `jsonrpc.rs` | one shared session token | `authenticate`, `call_rpc` with one re-login and resend | `RpcSession` |
| Poll loops and snapshot, `polling.rs`, `state.rs` | one slice per polled surface | poll, set slice (in the loop or in a task of its own), emit stats | `StatePolls` |
| Card status events, `derive_card_status_events`, `state.rs` | the last answer of each card | threshold edges on PTP lock, received power and temperature | `CardEvents` implements `CardMirror` |
| Alarms poll tick, `spawn_alarms_poller` in `polling.rs` | where it is in its tick, the answer | call, alarm events, tracker, target event, heartbeat, in this order | `AlarmsTick`, made of `Reachability` and `AlarmFeed` |
| Command handler, `commands.rs` | none of its own; the command in hand | some seventy-five commands in ten families: validate, look up the interface, call the card, answer | `Commands`; gate in `Capabilities`, slot in `Startup`, one call in `RpcSession` |
| Process life, self-upgrade and boot watchdog, registration: `main.rs`, `commands.rs`, `upgrade_profile.rs`, the unit in `packaging/` | step of main; symlink, trial and boot count; credentials file and one-time token | load, watchdog, connect, run, stage, drain for 5 s, exit, restart, revert, promote, register, save | `Lifecycle`, on top of `Commands` |
| Configuration, `config.rs`, probe command (`run_probe`) | none | parse and validate once; print a report | not modelled |
| Gateway SDK (external) | WebSocket session, outbound queue | registration, reconnect, delivery | not modelled |

How they interact: every poller and the command handler clone one JSON-RPC
client and so share its token. All pollers write one `SharedAppearXState`
behind a read-write lock, from which the stats emitter takes a consistent
copy. The alarms poller owns the reachability tracker and sends the heartbeat.
The alarms and card pollers share the event gate. Discovery and the start-up
heartbeat share the discovery phase; discovery and the SDK's command worker
share the handler slot. All tasks share the shutdown token. An upgrade is
staged by the command worker and ends the process after a drain; what happens
next is up to systemd, the files it left behind and the first steps of `main`.

What is hard:

- tasks that read a shared cell, let go of it and act later: the heartbeat
  that outlives discovery, a token overwritten by an older one, a gate
  decision on an overtaken clock reading, setters that run in tasks of their
  own;
- partial failure: a lost probe answer is taken for a missing interface, a
  lost RPC answer for a failed call, an event the gate drops after the state
  it came from was already updated;
- derived state over time: threshold, dwell and latch of the reachability
  tracker, the refresh that wipes the set the next difference is taken
  against, edges between answers with readings that come and go;
- the end of the process anywhere: in the middle of a command, between
  registering and saving the credentials, before or after the boot is counted;
- liveness: discovery must not fall silent, an endless outage must not stop a
  loop, logins must not go on for ever, a shutdown must be seen, a trial must end.

What makes each component right is stated under section 3; the hazards, each
at its line, are in `PROJECT.json`.

## 2. The modules and the code

Conventions: variables are the fields and locals of the code under their own
names in camel case; a lock that is held for one read or one write makes that
access one step; a task that awaits has a program counter; variables marked
*history* exist only for the properties; *external* and *environment* ones
stand for the chassis and the operator. Constants marked *bound* are there for
TLC and appear only in guards. A small operator that is defined twice, the
second time with the plausible mistake (`HasQuota`, `LaxHasQuota`), is a
mutation point; the mistaken form is used by nothing in the module.

**Reachability.** One action per `record_*` call plus the clock. The dwell
gate and the latch are operators of their own, in the order the code runs
them, including the reset of the latch just before recovery tests it and the
second reading of the clock in `maybe_fire_unreachable` (`later` may be one
second after the first). The tracker has one caller, which awaits each poll,
so no two calls overlap. The module has no run of its own: it is checked, with
its properties, inside `AlarmsTick`.

**EventGate.** `check()` reads the clock before it takes the mutex, hence two
steps per emitter: `ReadClock` and `Decide`. `MaxStale` is how old a reading
may be when it is used. History records how many events had been admitted by
each second, drops, and drops that a summary has told.

**AlarmMirror, AlarmFeed.** `SetAlarms` is the critical section of
`set_alarms`: refresh, difference and store. `EmitRaised` and `EmitCleared`
are one `emit_gated_event` each, sent or suppressed; all raises come before
the clears. `AlarmMirror` says what an event means: a raise is told only of an
alarm in the last answer, a clear only of one that is not in it.

**AlarmsTick.** One tick of the alarms poller; the module extends `Reachability`
and `AlarmFeed` and shares their variables. `PollAnswered` (which is
`SetAlarms`) or `PollFailed`, the alarm events one at a time, `Record`
(which is the tracker's `RecordSuccess` or `RecordFailure`), `Announced` for the
target event if the tracker wants one, and `Beat`. Every event passes a gate that
may drop it, and neither tracker nor feed learns of a drop; the heartbeat does
not pass the gate. So the manager has two views of target and alarms: `heard`
and `told` from the events, `health` from the heartbeats.

**Startup.** The discovery task (`discover`, `sleep`, `discovered`, `install`,
`authenticate`, `polling`, `returned`), the heartbeat task (clone the phase,
emit the clone) and the command worker (receive, look the handler up, answer).
The chassis goes up and down freely and the shutdown may come at any step.

**Capabilities.** A cursor walks slots, entries and versions, most preferred
version first. `ProbeLost` is an answer lost on the way, which the code cannot
tell from "method not found". After discovery a command names the entries that
can serve it in order of preference (`hip_call` has two, the others one); it
is refused or sent with the version discovery kept. A card may change at any
moment.

**Commands.** `Route` lists the arms of `handle_command` with the interface and
module each goes to, in order of preference where there are two. `Refusal` is
what is refused before anything is sent, in the order of the code: the TimeX
setters look at their field before the gate, all others after it. `Body` is what
is sent; the rows of a keyed set go into a map one by one with `Insert`, as in the
loop of `xger_set_keyed` (`Fold`). A call here is one call of `call_rpc`; that
it may be resent inside of it is in `RpcSession`. It succeeds, fails, fails
after it was carried out, is acknowledged although it was not carried out
(`TakenAsDone`: `call_rpc` takes any answer without an error member for a
success), or, for `get_ip_output_status` alone and once, is made again. Cards
are the sets of modules discovery may have found on the slot.

**Lifecycle.** Commands over many lives of the process. `phase` is the step of
`main` a life is in: configuration, credentials, watchdog, connect, run.
Configuration, credentials and connecting can each end the process, as the flaw
of a version decides; a version may also crash before its trial is over, or be
*mute*: stay up without reaching manager or chassis. `EndLife` is the one way a
life ends: the command in hand is cut off, carried out or not, and systemd starts
the process again unless `starts` has reached the limit of the unit.
`StageUpgrade` swaps the symlink and arms the 5 s exit, during which other
commands are handled; `WatchdogContinues` counts a boot on trial,
`WatchdogReverts` undoes the swap; `Promote` stands for the health beats. `Register`
and `SaveCredentials` are the two halves of a first registration, with the end
of the process possible in between; in `RegistrationLost` the token is spent and
the credentials never arrive. Upgrade state and credentials file are the
SDK's, modelled from how `main.rs` and `commands.rs` use them.

**RpcSession.** Per caller: login, store the token, read it, send, and what
becomes of the answer. The chassis may drop its sessions, may allow one session
at a time (`single`, chosen at the start; a login whose answer is lost may then
still have ended the session before it), and may reject a dead token in three
forms: a JSON-RPC error, a bare 401 with a JSON body, a 401 with a text body. A
live token does not always get a result either: the chassis may answer that it
did not carry the call out (`NotExecuted`; with an error member the call fails,
without one it is taken as done), or with the error -32600, which the client
takes for an expiry whatever it was meant for (`TakenForExpiry`). `excuse`
collects the reasons a call may fail for, or be reported done without having
been carried out.

**StatePolls.** The payload of a surface is the number of times the chassis
changed it. A loop polls, then either runs its setter or spawns it
(`Detached`); the pool surfaces are emptied by a failed poll (`Tolerant`).
`EmitStats` copies all slices at once, as the emitter does under the read lock.
The shutdown token is seen by the loops and the emitter between two rounds;
spawned setters run on.

**CardMirror, CardEvents.** A reading is the side of its threshold it is on, the ports of
a card are the set of their readings. `PollCard` stores an answer and makes its
events; `EmitEvent` emits them one await at a time, in their order, and the next
poll of the card waits for them (`pending`). In between, the stats may show the
new answer. `told` is what the manager believes; each event may be suppressed by
the gate. `CardMirror` says what an event means: it falls due (`due`) with an
answer that has itself crossed a threshold, and says the side that answer is on;
a card it has no answer of counts as within.

`MCEventGate`, `MCCapabilities` and `MCLifecycle` add a symmetry set, the
requests, and the commands, payloads and cards of their instances. The other
modules are instantiated by their `.cfg` alone.

The chassis and its cards, the passing of time and the loss of answers are
environment: external entries of the map, not tied to lines of `src/`.

## 3. What the runs check

| Run | Instance and why it is enough | Shows |
|---|---|---|
| `alarms_tick` | one alarm, refresh and dwell after 2 s, threshold 2, 5 s, 4 failures: an outage shorter than the dwell, one longer, recovery and a second outage; a threshold above 1 separates count and state; every event may be dropped | at the end of each tick the manager's two views differ only by events the gate dropped and clears a refresh swallowed, gaps that may last (`ViewsAgree`); a heartbeat tells one story (`HeartbeatConsistent`); an outage is announced once, not before its dwell (`UnreachableFiredRight`), and by the first failed poll after it (`OutageAnnounced`); the tick takes only steps of tracker and feed (`ComponentsImplemented`); heartbeats make up for every dropped event (`HeartbeatTellsTruth`) |
| `event_gate` | 2 emitters, limit 2, window 3 s, 7 s, 7 events, readings up to 1 s old: three windows, each of which can be drained and can drop | every drop is told or still counted, and a window that drops has been announced (`DropsAccounted`); windows keep their distance although decisions use stale readings (`WindowsSpaced`); never a third window's worth in one window length (`BurstBound`) |
| `startup` | 2 error codes, attempt counter saturating at 2 | at most one discovery heartbeat after discovery (`OneLateHeartbeat`), commands get through once the chassis is up for good (`CommandsEventuallyAccepted`), the manager keeps hearing meanwhile (`DiscoveryNeverSilent`), a shutdown ends both tasks (`ShutdownEndsTasks`) |
| `startup_handover` | same | **violated**: a chassis that was discovered and stays up is polled |
| `alarm_feed` | 3 alarms, refresh after 2 s, a gate that may suppress | the events implement `AlarmMirror` (`NeverToldWrong`); every gap between manager and answer is a suppressed event or a clear in a refresh poll (`GapsExplained`); a chronic alarm is told at last (`ChronicAlarmTold`) |
| `alarm_feed_refresh` | 2 alarms, nothing suppressed | **violated**: no alarm stays raised for the manager after it is gone |
| `rpc_session` | 2 callers, 4 tokens (the shared one, one per caller, one fresh), one expiry, all three rejections, every other answer | no call executed twice (`AtMostOnce`), a failure, or a success that was not carried out, has a cause of its own time (`OutcomeExplained`), calls end (`EveryCallEnds`), and once answers are clear the callers settle on one token the chassis accepts and log in no more (`SessionsSettle`) |
| `state_polls` | one awaited and one detached, tolerant surface, 2 changes, one waiting setter per value | an awaited slice is as new as its last answer and its stats never go back (`NothingGoesBack`), all stats converge once polls succeed, unless shut down (`StatsConverge`) |
| `card_events` | the whole state space: answers are finite after abstraction | a crossing is told, and taken back, up to named gaps (`CrossingsTold`); the last PTP event says what the stats say, whenever they are read, except between an answer and its event, after a drop, and for a lock not spelt `LOCKED` (`EventsAgreeWithStats`); the events implement `CardMirror` (`EventsAreCrossings`) |
| `capabilities` | 2 slots, 2 entries, 2 versions, every pattern of versions spoken, one change: an entry before and after another, a version before and after | discovery keeps the first version spoken (`PreferredIsFound`), a command goes only where it is understood and a refusal is true (`GateIsRight`), each up to lost answers and changed cards; the walk ends (`DiscoveryEnds`) |
| `lifecycle` | a command of each family, four payloads with a bad row and a repeated key, two cards; 2 candidates with every flaw but `credentials`, which ends a life in the same place as `config`; 2 trial boots, 4 starts, 2 stops | a write that is carried out is the one asked for, one acknowledged was carried out unless `call_rpc` took another answer for its success, and none makes a second call (`WritesAsAsked`); a refusal follows no call, and only a lost answer or the end of the process leaves a write unacknowledged (`FateKnown`); a registered node stays that node, or lost its credentials in a way that is named (`IdentityKept`); no working version is reverted without cause and a revert lands on one without a flaw (`RevertsAreEarned`); every trial that reaches the watchdog ends with a version that stays up, unless systemd gives up (`UpgradeSettles`) |
| `upgrade_crash_loop` | one candidate that fails on its configuration, no commands | **violated**: a crash loop of a freshly staged version ends with a revert |

In `lifecycle` two candidates let a rollback return to an upgraded version, and 4
starts are the boundary case where the boot that reverts is the last one systemd
grants. The lists of rows are longer than any map of them has keys, because TLC
will not compare a map with a list of the same size.

`CHECK_DEADLOCK FALSE` appears for the event gate, whose clock and number of
events are bounded, for `state_polls`, which a shutdown stops, and for the two
runs of `Lifecycle`, where a gateway that has lost its credentials and spent its
token waits for an operator. In `startup` one attempt counter value stands for
all counts from the bound on, because the code saturates too.

### Findings

The three violated runs state what a comment in the source says and what the
code does not do.

1. `run_polling` logs in once more before it starts; if that login fails
   nothing polls the chassis and nobody sends its heartbeat until a restart,
   though main's comment hands reachability over to polling
   (`polling.rs:82`, `main.rs:264-266`).
2. A clear that falls into the poll of a refresh is never reported
   (`state.rs:295`, comment at 259-263 and `config.rs:105`).
3. The boot watchdog is to revert a freshly staged version that crash-loops
   (`main.rs:119-121`), but configuration and credentials are loaded before it
   (`main.rs:74-77`, 102-104) and their errors end the process. A version that
   rejects either is restarted for ever, or until systemd gives up, and never
   reverted.

### Fairness

No liveness property assumes anything of the operator or of the commands that
arrive; where one needs the chassis to behave, that is a premise of the
property (`PollsWork`, `AnswersAreClear`, `ChassisAnswers`, a chassis that is up
for good), not of the specification. Each of the four parts of `AnswersAreClear`,
and `~single`, is needed: TLC finds callers that never settle when any of them
is taken away.

- `Startup`: weak fairness of each task, since tokio runs a task that is ready;
  strong fairness of the branches that see the shutdown, since `select!` picks
  at random among ready branches.
- `AlarmFeed`: the interval ticks and time passes; strong fairness of sending a
  given raise, since the gate opens again with each window. An event that is
  proposed only while the gate is exhausted, for ever, is ruled out by this.
- `RpcSession`, `StatePolls`: every await ends, by an answer or by the client's
  timeout, and spawned tasks run.
- `Capabilities`: the discovery task runs.
- `AlarmsTick`: the interval keeps firing and every await of the tick ends.
- `Lifecycle`: systemd restarts the process, `main` goes on, the drain and the
  health beats happen, and a version that crashes does so. Nothing is assumed
  of registration, of the manager, of commands, or of an operator who resets
  the unit.

## 4. What is proved

TLAPS checks the theorems for every value of the constants; the modules they
are in EXTEND the specification they are about. Each assumes only the named
ASSUME of its module (naturals are naturals, marker values are not data).

- **AlarmsTickProofs**, in three parts. The tracker (`TrackerTypeCorrect`,
  `HeartbeatsConsistent`, `UnreachableIsRetracted`, `FiredOnceAndDwelled`,
  `OutagesAnnounced`): whether a call may fire depends on the latch and on the
  time of the last flip, which the properties do not mention; `LatchInv` adds
  that during an outage the flip time is its start and the latch is set exactly
  when it was announced. The feed (`FeedTypeCorrect`, `FeedImplementsMirror`,
  `OnlyKnownGaps`, `ExactWithoutRefresh`), a refinement: the initial state maps
  to the initial state of `AlarmMirror` and every step to a step or a stutter,
  because pending events are about the answer they were computed from;
  `GapInv` extends `GapsExplained` to the middle of a poll, and without
  refreshes and suppression the mirror is exact. The tick
  (`TickImplementsParts`, `TickTypeCorrect`, `ManagerViewsAgree`): each of its
  steps is a step of the tracker and one of the feed, or a stutter of either.
  From that refinement `PollerKeepsPromises` carries everything proved of the
  two parts over to the tick, without a second proof; `TickInv` adds what the
  last heartbeat and the last event heard have to do with them at each point of
  the tick.
- **EventGateProofs** (`TypeCorrect`, `NoDropForgotten`, `BurstsBounded`,
  `WindowsKeepDistance`). `StaleInv` bounds every reading, and the window
  start, by the real clock from both sides. A burst is counted between any two
  seconds, a window from its opening to the next; `BurstInv` ties them: the
  events of earlier windows (`Before`) had all been admitted by any second since
  this window opened, and all but one limit of them by any second of the window
  length before that. So two limits are the most a burst can have, and the
  staleness of a reading shortens the window it holds for.
- **StartupProofs** (`TypeCorrect`, `LateHeartbeatsBounded`,
  `HeartbeatsInOrder`, `HandlerIsKept`), for any error codes and any cap on the
  attempts. Each task holds copies of what another one writes: the heartbeat
  task of the phase, the command worker of the handler slot. The invariant says
  how old a copy can be at each program point: a heartbeat in
  the making holds a phase that was not over when it was read, and once a late one
  was sent no other is in the making (`HandOver`); its count is between the one
  last sent and the task's own (`CountsInOrder`); and a handler once seen by a
  command is seen by every later one (`Granted`).
- **RpcSessionProofs** (`TypeCorrect`, `CallsExecutedOnce`,
  `RetryHidesExpiry`). `FreshAgain` carries the argument: after a rejection a
  call without an excuse holds a token that is live, or has just stored it. So it
  is not rejected again, neither with an error nor with the bare 401 that the
  code takes for an answer. What remains are the answers of the chassis to a live
  token, which are a cause of their own.
- **StatePollsProofs** (`TypeCorrect`, `SlicesInOrder`).
  `Ordered`: what a call under way may return is not older than the slice, and
  the slice is not older than the last stats.
- **CardEventsProofs** (`TypeCorrect`, `NoCrossingMissed`,
  `StatsShowTheLock`, `EventsImplementMirror`, `EdgesOnly`). The history of
  events mirrors the last answer, but for events still pending; each direction
  needs the other, and the worst reading the code takes is shown to say the same
  as the answer itself (`ReadingIsFaithful`, `BeforeIsFaithful`). `EmitEvent`
  reads the side from the stored answer, which is right because what is pending
  was measured in it. From the same two lemmas a poll and an emission are
  steps of `CardMirror`: the code compares two worst readings, the mirror the
  answers.
- **CapabilitiesProofs** (`TypeCorrect`, `PreferredVersionKept`,
  `GateHolds`). `Search`: no version before the cursor's is spoken;
  `Ahead`: nothing is recorded beyond the cursor; `FoundSpoke`: a record is of
  a version that did answer, even where discovery went wrong.
- **LifecycleProofs** (`TypeCorrect`, `FatesKnown`, `WritesAreAsAsked`,
  `IdentitiesKept`, `RevertsEarned`), for any versions, flaws, commands and
  limits. The inductive invariant `IInv` joins the invariants with five more.
  `CommandInHand`: what is known of a command at each point of it.
  `SentAsAsked`: a call in flight is the one that the command in hand asks for,
  of a card that cannot change meanwhile. `TokenTraded`: a spent token is paid
  for by saved or owed credentials, or their loss is named. `TrialCounted`: a
  working version leaves a life on trial only by a stop from outside, so the
  boots counted against it are at most the stops and the life that is running.
  `Landing`: what a version has proved by coming so far, which makes the one a
  revert returns to a version without a flaw, since nothing less gets to be told
  to upgrade. A write needs one lemma more, `FoldIsMap`: the loop of
  `xger_set_keyed` gives each key the value of its last row, for every list of
  rows; `WrittenAsAsked` carries it from the call in flight to what the chassis
  writes. Its induction is done by hand, as the search for the shortest prefix on
  which loop and map differ, with the well-founded order of the naturals.

Only model-checked: all liveness properties, because liveness under fairness
and ENABLED are beyond the prover. Every safety invariant and every action
property that a passing run checks is a theorem.

## 5. Assumptions and what is left out

- The wall clock does not step back. With a clock that does, nothing holds of
  dwell and downtime, and nothing is promised.
- Messages to the SDK arrive in the order they are emitted; the SDK's own
  reconnect and queue are not in the repository.
- An error member in an answer to a live token means that the chassis carried
  nothing out; a call whose answer is lost may have been carried out.
- The upgrade pipeline of the SDK refuses a version while another is on trial:
  `StageUpgrade` has `trial = "stable"` as a guard, which nothing in `src/` shows.
- Presenting the token and receiving the credentials is the SDK's; the module
  knows only that the answer arrives (`Register`) or does not (`RegistrationLost`).
- JSON contents, names, serial numbers, URLs, TLS, wording and logging are left
  out; so are NMOS, voltage and transmit power, which make no event, and the
  derivation of most fields of the stats, which is one function of one answer.
- Configuration and `run_probe` are sequential and keep nothing.
- Of a command: the name of the RPC within its module, optional query fields,
  and several slots at once. One command is handled at a time, as the SDK hands
  them over.
- Of the upgrade: download, signature and unpacking, which are the SDK's; the
  events that report on it (`main.rs:424-466`); a watchdog that cannot read its
  own state, which `main.rs:139` logs and passes by; and reconnects to the
  manager within one life, which keep the identity they have.

Things seen on the way that no violated run is about, each a hazard in
`PROJECT.json` or explained by an exception in a property:

- `target_recovered` is documented as the end of an announced outage
  (`reachability.rs:91-93`), but the latch is reset just before it is tested, so
  every outage that reached the threshold ends with a recovery, announced or
  not (`reachability.rs:111`); `TargetViewsAgree` is stated so that it allows
  this;
- the gate's window is called sliding (`event_gate.rs:14`, 20-24) and is
  tumbling (line 99): nearly two limits pass around a roll, which is what
  `BurstBound` allows;
- the unit sends SIGTERM and expects a drain
  (`packaging/bilbycast-appear-x-gateway.service:28-30`), but only ctrl-c is
  turned into a shutdown (`main.rs:244`): a stop by systemd is the same as a
  crash, and is modelled as one (`Stopped`);
- a 401 with a text body fails the call before the retry that
  `docs/architecture.md:104` promises (`jsonrpc.rs:188`) and leaves every caller
  on the dead token until one is rejected in another form; an excuse in
  `OutcomeExplained`, excluded by `AnswersAreClear`;
- `extract_result` takes any JSON without an error member for a result, whatever
  its HTTP status (`jsonrpc.rs:221-236`): a bare 401 on the resend, or any other
  failing status, is acknowledged as done with nothing written (`TakenAsDone`);
- any -32600 is taken for an expired token (`jsonrpc.rs:190-201`): a surface that
  answers so to every poll makes the client log in at every poll, for ever,
  which `AnswersAreClear` excludes;
- if the chassis allows one session only, callers can go on ending each
  other's sessions; `SessionsSettle` excludes this by `~single`;
- detached setters may store two answers in the opposite order; only
  convergence is checked for them;
- a port that goes dark has no reading, so its low-power event is not taken
  back, and is repeated when the light comes back as low (`vanished` in
  `CardEvents`); the PTP events compare `LOCKED` exactly, the stats
  without case, so a chassis that says `Locked` has its lock shown by the stats
  and reported lost by an event, if it said `LOCKED` before;
- a mute version is promoted like any other and can then no longer be upgraded
  from the manager; an operator has to. `UpgradeSettles` counts it as settled, so
  it does not test what the comment at `main.rs:468-474` says of a health beat;
- a refused command is told that its card family lacks the interface, which is
  not so after a lost probe (`Unreliable` in `GateIsRight`);
- the versions of one registry entry are not newest first
  (`probe_registry.rs:157`);
- the health beat that finalises an upgrade does not depend on the chassis
  (`main.rs:485`, comment at 468-474);
- an announcement of an outage the gate drops is not repeated
  (`polling.rs:1077`); the heartbeat makes up for it (`HeartbeatTellsTruth`).

## 6. Plan

Done, in this order, the behaviour an operator relies on first: Reachability,
EventGate, Startup, AlarmFeed, RpcSession, StatePolls, CardEvents,
Capabilities, then AlarmsTick, Commands and Lifecycle; proofs of all safety
properties.

Next, in this order:

1. `Startup` as the inside of the `run` phase of `Lifecycle`, so that a life
   ends in the middle of discovery as well.
2. An abstract limiter for `EventGate`, which says of a stream of events what
   `BurstBound` and `WindowsSpaced` say of the gate's variables.

## 7. Running

    tlc -workers 2 -config AlarmsTick.cfg AlarmsTick
    tlc -workers 2 -config EventGate.cfg MCEventGate
    tlapm AlarmsTickProofs.tla

`PROJECT.json` names module and configuration of every run.
