# A formal model of Sightr's thread core

Sightr shows a herd of coding agents, each in a terminal pane run by herdr, on a phone. The bridge
(`src/bridge/`, one Bun process, one JavaScript event loop) polls herdr, projects panes into *threads* in a
SQLite store, and types the operator's messages into the panes. The web clients (`src/web/`, `src/web2/`)
follow by streams and act by commands.

This directory models the parts where that is hard to get right: a message is typed into a terminal that a
human, an agent and the bridge share, through calls that take seconds, cannot be undone, and can be cut by a
crash at any moment; the herd is known only by polls that miss things; and the clients follow over connections
that drop, with commands they retry.

## 1. Inventory

State, operations and neighbours of each component; `PROJECT.json` has the same list with its status.

| Component (under `src/`) | State it keeps | Operations | Talks to | What makes it correct |
|---|---|---|---|---|
| Message dispatcher, `bridge/threads/dispatch.ts` | `interrupting` map; background steers | `message.dispatch` (start, queue, steer), `run.interrupt`, `queued.reorder/edit/cancel`, `queue.resume` | drainer, store, guarded send, pane queue | A message is submitted at most once and never dropped silently; a steer ends |
| Queue drainer, `bridge/threads/queue-drain.ts` | per thread: `awaiting` mark, `failures`, `retry` timer, pass chain, waiters | drain pass, restart hold and its lifting, archive hold, `beginSend`, `waitSettled` | store events, guarded send | One message per run; nothing overtakes a steer; a resting thread's queue moves |
| Thread store, `bridge/threads/store.ts`, `events.ts` | event log, projections (threads, queue, requests, runs), receipts | `append` (events, projection and receipt in one transaction, listeners after it), replay, retention | everyone | Projection = fold of the log; sequence strictly grows; a receipt commits with its events |
| Pane write queue, `bridge/pane-queue.ts` | `tails`: one promise chain per pane | `run` | all pane writers | One write at a time per pane, in order; a call that gave up does not open the chain |
| Guarded send, `bridge/guarded-send-route.ts`, `shared/harness/guarded-send.ts` | none (a script of reads and writes) | preflight, type, verify, submit, poll | pane queue, herdr client | Nothing typed without a composer; submit only after the text shows |
| Herd ingest, `bridge/threads/herd-ingest.ts` | threads missing once; branches | reconcile after each poll | engine, store | A pane is gone after two looks in a row; status and shelf follow the herd |
| Requests, `request-ingest.ts`, `respond.ts`, `free-text.ts` | pending requests, resolved hashes | read a dialog, answer it by keys | engine, store, pane queue | An answer reaches the dialog it was given for |
| v2 routes, `v2-routes.ts`, `decide.ts` | commands in flight, streams | commands with receipts; shell and thread streams | store, effects | A `commandId` is applied once; a stream misses and repeats nothing |
| State engine, `bridge/state-engine.ts`; event poker | last snapshot, status hold, failures in a row | poll, poke, cadence | herdr, ingest, notifications | Polls never overlap; a poke is never lost; a short rest is not a rest |
| Notifications, `bridge/notifications.ts` | pending and outstanding alerts | debounce, render, retract | engine, push | An alert that is shown is still true |
| Journal ingest, `journal-ingest.ts` | runs, items, file offsets | read harness journals | store, drainer | A run ends once, and belongs to the message that began it |
| Spawn, `spawn.ts` | the spawn jobs | `thread.create`: pane, thread, prompt, agent start, wait | herdr, ingest, store | One thread per terminal, whoever saw the pane first; a job ends |
| Modes, checkpoints, attachments, search, uploads | files, git, readings of the screen | - | herdr, disk | mostly sequential I/O |
| Lock and access, activity ledger, worktrees, harness kits | small tables, caches, parsers | - | routes | sequential checks, pure functions |
| Web client streams, `web2/src/stream/` | cursor, generation, buffered events, cache of left threads | connect, snapshot, apply, reconnect; a command with one retry | v2 routes | The client's state is the server's at the cursor |

Threads share no queue state and panes share no chain, so the queue models have one thread and the runs with
panes have one pane; the proofs are for any number of panes.

**What is hard here.** Every handler awaits I/O between a check and the write it guards; the table is
written as a whole from a copy read earlier; one mark (`awaiting`) is shared by three kinds of sender; timers
race the events they stand in for; the bridge may stop between typing and recording; an archive may cut in
anywhere; snapshots are used after newer ones were taken; keys are acknowledged before the terminal acts on
them. The hazards that properties cover are listed line by line in `PROJECT.json`; those of which the code itself
falls short are under "Said and not kept" and behind it.

## 2. The modules

| Module | What it is |
|---|---|
| `ThreadQueue` | Dispatcher and drainer of one thread, with the agent, the herd poll, archiving and restarts around them |
| `QueueWakeups` | `ThreadQueue` with a history of who comes back for a resting thread's queue; for `QueueDrainLive` |
| `MessageLife` | The abstract specification: what the two promise of each message |
| `PaneQueue` | The pane write queue's promise chains; the abstract specification of `GuardedSend` |
| `GuardedSend` | Guarded sends and plain writes in their turns of `PaneQueue`, against a terminal |
| `ThreadStream` | One server-sent stream: event log and retention, route, connection, page |
| `CommandRoute` | `POST /api/v2/command`: receipts, duplicates, effects, and the client that retries |
| `HerdIngest` | Panes become threads: ingest, spawn, shelf commands, closing |
| `RuntimeRequests` | The dialogs of a thread: the ingest that reads them, the handlers that answer them |
| `EventPoker`, `Notifications` | Two components as operations on their state |
| `HerdWatch` | The polling engine, composed with those two as `index.ts` wires them |
| `MC...` | The instances for TLC |
| `ThreadQueueProofs`, `MessageLifeProofs`, `GuardedSendProofs`, `ThreadStreamProofs`, `CommandRouteProofs`, `HerdIngestProofs`, `RuntimeRequestsProofs`, `HerdWatchProofs` | Theorems; `GuardedSendProofs` has those of `PaneQueue` too |

As a rule an action is the code between two awaits, so that everything else may come in at each await; what runs
synchronously (event listeners, a trailing reconcile) is inside the action. Variables named under *History* are
read by no guard but the bounds'.

### ThreadQueue

*State.* The queue table is `order` (the rows by position), `rowState` and `why` (`held_reason`). The thread
is `status`, `pending` (an open runtime request) and `shelf`. The drainer is `pass` (the one pass in flight and
what its closure holds), `passQueued` (`queuedPass`), `retry`, `failures` and `awaiting`, with the owner of
the mark, since `finish` compares marks by identity. `closing` is the deferred `holdClosed`. Each handler and
each background steer is a place in `pc[m]`, with its send's outcome in `out[m]`. `agent` is what the agent
really does; `listed` whether `engine.current()` has its pane. `sends`, `fate`, `settledSince` and `seen` are
history: no guard reads them.

*Steps.* One action is the code between two awaits, so each await is a point where every other handler, the
drainer, a poll, the operator or a crash may come in: `PassStart` / `PassMark` / `PassDeliver` / `PassCommit`
are one `pass`; `Dispatch` / `EnqueueRead` or `StartRead` or `SteerRead` / `StartDeliver` / `StartCommit` are
one `message.dispatch`; `SteerBackground` to `SteerCommit` are `runSteer`. The handlers of the other commands
have no await and are one action. Event listeners run inside the commit that fires them, so `Poll` and
`Forget` contain the drainer's reaction; what the code defers with `Promise.resolve().then` is a flag and an
action, and `Turn` lets such continuations run before anything else, as the event loop does.

*Abstractions.* A message is its identity. A guarded send is two steps: begin (a pane that is not listed is
`gone` at once) and an outcome. `idle` and `done` are one status, as are `approval` and `input`. A harness
supports everything. Background-agent and `/compact` screens are answers of a read, any answer at any time.

*Left out.* The statuses `failed` and `starting`, a harness that cannot queue, thread deletion, failing
`append`s, a user-archived thread whose pane is lost for good, and `stop()` apart from its being the end of a run
of the bridge.

*Variants.* An operator named for a mistake (`UnholdEvery`, `FinishAlways`, ...) stands before the definition
it is a mistake of, here and in every module. No action uses it; substituting it shows that the properties notice.

### QueueWakeups

What the liveness of the queue needs beside `ThreadQueue`. A composer read that does not get its turn of the pane
throws (`composerReady` catches its own read but not `PaneBusyError`): here it is a step apart from the answers,
`TurnMissed` for a pass and `EnqueueMissed` for an enqueue, so that `Reads` has only "yes" and "no" for the fairness
to speak of. `left` is history: it becomes true when a pass or a mark ends at a place of the drainer that neither retries
nor schedules (`RowVanished`, `TextDelivered`, `RowGivenUp`, `SteerOver`, `MarkLifted`, a missed turn), and false when a
pass is due again.

### MessageLife

A message is outside, waiting, sending or over. It is submitted only while sending, once; what was submitted
never returns to wait or to its sender. `ThreadQueue!Life` is the mapping: a message is *sending* while a start,
a steer's send or the drain pass has it, *waiting* while it has a row otherwise. `ImplementsMessageLife`
says that every step of handlers, drainer and steers maps to a step of the abstract life or to none.

### PaneQueue and GuardedSend

`PaneQueue`: `tails`, and for each call of `run` the tail it waits for (`prev`), where it is (`state`) and whether
its own tail has resolved (`settled`). `Arrive` reads and replaces the tail in one step, as the code does with no
await between. `GiveUp` is the timeout; `Settle` is `prev.then(() => mine)` with the cleanup that compares the
tail by identity. A function may run forever.

`GuardedSend` extends it: a call is a guarded send or a plain write, its function runs while `state` is
`running`, and `g[c].at` is the place in `runGuardedSend`. One action is one read or one write: `Preflight`,
`Sweep` and `Reconfirm` (`runPreType`), `Type`, `Verify`, `Submit`, `Confirm` and `Rescue` (`finishSubmit`), `Hold`,
`Press` and `HeldConfirm` (`finishHeldSubmit`), `OneShot`. The harness is `kit`: `plain`, `held` (it holds input
at startup) or `none` (no composer known, so one shot). The terminal is external: an acknowledged write puts
keys in `input`, and the program acts on them when it likes (`Consume`), on the screen it shows then: with a
dialog open, keys go to the dialog. Reads and writes may fail, before or after the keys were taken.

*Abstractions.* A text is the identity of its send, so two sends never carry the same text; the box is the
sequence of texts in it. Left out: a box that shows a window of a long draft, and the adapter's second look at text
that was swallowed.

### ThreadStream

The shell stream or one thread's stream, chosen at the start. An event is its sequence number and its class; what
the page shows (`st.view`) is the set of changes it has taken in, so that a skipped and a repeated event are
both seen. `Commit`, `Prune` and `DeleteThread` are the store. `Serve` is the route: replay or snapshot
(`Replayable`: the cursor is inside what is kept, and near enough), then the live tail; with a seen mark the
thread route commits after its catch-up. `Write` cuts off a client with too much queued. On the page, `Drop`,
`Retry` and `Wake` are `connection.ts`; `Deliver` takes one frame; a thread's snapshot is decompressed in the
background, and `Land` is its end, for the generation it belongs to; `Leave` and `Return` are the thread page's
life, with the cached state.

### CommandRoute

A client posts a command at most twice with one id, as `sendCommand` does. A request waits for the one ahead of it
with the same id (`inflight`), then looks for a receipt (`Execute`), then decides in a turn of the pane queue, or
closes the pane, or works in Herdr, and commits its events with its receipt in one step. Bodies stand for the three
paths, and two clients may use one id for different bodies. Requests and answers are lost, Herdr calls fail,
`Restart` empties all but the store.

### HerdIngest

Herdr is `world`. A poll reads it (`PollRead`, perhaps missing panes), and publishes later (`PollPublish`), with
the ingest's `Reconcile` in the same step: each listed pane claims a thread (`ClaimOf`), which follows it or comes
back (`Claimed`); the others are missed, and archived at the second miss, or at once after a restart; panes
nobody claimed get a thread; the project is rolled up. `BranchesResolved` is the lookup that reconciles with the
snapshot it was asked with. `SpawnAsk` to `SpawnEnds` are the calls of `thread.create` as one job per pane. `Shelve`,
`Unarchive`, `Delete` and `ClosePane` / `PaneClosed` are commands (a close that meets a deleted thread fails without
effect), `SnoozeDue` and `GraceOver` are time.

*Abstractions.* One workspace; `approval` and `input` are one status; timestamps are flags (`young`, `due`).

### RuntimeRequests

A dialog is a number; the screen shows one or none. `PassStart` / `PassRead` / `PassEnds` are the ingest's pass, which
takes a turn of the pane to read. `Tap` is a client's answer (keys or a recipe) or a step of a walk; `Turn`, `Bind`,
`Key` and `Resolve` are the handler: wait for the pane, look whether the screen shows the dialog the request is bound to,
type, commit. Keys take effect when the agent redraws (`Answered`) or not at all (`Ignored`). `GraceOver` is the time
for which an answered dialog is not read again.

### EventPoker, Notifications and HerdWatch

The first two are operators from state to state. `HerdWatch` has the engine: `Tick`, `PokeNow`, and a poll in four
steps (`Fetched`, `Compare`, `Publish`, or `PollFails`), with the screen sniff, the status hold (`Held`,
`Ripen`, `Expire`), absorbed timeouts (`Absorbed`) and the cadence. Events of the stream are debounced into a
poke; transitions arm and resolve alerts. A preference changes in the store, is written to disk and is then applied to
the alerts (`SetPrefs`, `PrefsSaved`); a write that throws leaves it changed and not applied (`PrefsLost`). One save is
under way at a time, and the bridge does not restart, so the file that a failed write leaves behind is not modelled.

## 3. The runs

All but the last hold on the instances below; each number is distinct states.

| Run | Instance | What it shows |
|---|---|---|
| `QueueSteady` (409 k) | 2 messages, all modes, all answers and outcomes, one dropped snapshot | The table stays a queue; no silent loss; between two drained messages there is a release (a settle, a lifted mark, or the end of the run wait); the drainer yields to a steer; refinement of `MessageLife` |
| `QueueArchive` (198 k) | start and queue, one archive (by hand or closed pane), one dropped snapshot, dialogs | Archiving with a start or a drain in flight loses nothing and doubles nothing |
| `QueueRestart` (584 k) | all modes, one restart anywhere | Rows survive; `sending` rows are never orphaned (that a restart allows at most one more submission is proved) |
| `QueueDrainLive` (306 k) | all modes; composers out of sight, missed pane turns, every outcome of a send | Once the pane rests for good, no row stays queued, unless one of the six places of `QueueWakeups` had the last word |
| `QueueSteerLive` (123 k) | queue and steer | Every steer ends |
| `PaneWrites` (311 k) | two guarded sends and a plain write on one pane, 3 kits, 1 trouble | The queue's order, and with it exclusion; no Enter without a look that showed the text; messages are not mixed; a refused one is never submitted; an observed submission is real; every call is served |
| `Streams` (897 k) | shell or thread, 4 events, 2 troubles, replay limit and slow-client bound of 1 | The page shows exactly the projection at its cursor, never goes back, and catches up |
| `Commands` (451 k) | 2 clients, 2 ids, 3 bodies, 2 losses, 1 fault | A command is applied once; an ok is durable; equal requests hear equal answers; every client hears an end |
| `Ingest` (332 k) | 1 pane, 2 terminals, 2 changes, 1 command, 1 fault | One thread per terminal; a terminal is called replaced only when it was; the operator's archive stands; the store mirrors the herd in the end |
| `Requests` (111 k) | 2 devices, 2 dialogs, 2 taps, 2 faults | One open request; keys go to the dialog that was looked at; a dialog is answered once; answers stand; requests follow the screen |
| `Herd` (937 k) | 1 pane, 2 changes, 2 faults (a change of preferences is one) | A poke is answered by a poll that read after it; one event stream, and a slow cadence only while it is up; no alert lingers or is missed; what is published becomes true |
| `LostRow` | `queue` only, two overlapping handlers | Violated, see below |

`TypeOK` of each module, and the pane queue's `MutualExclusion` and `TailIsLast` (both proved), hold on the same
instances; the runs name what could go wrong.

### Said and not kept

`LostRow` is the run that shows a comment or document contradicted by the code (a finding in
`PROJECT.json`): a `queue` dispatch reads the table, waits for the composer, and commits `[...rows, row]`; a row
another dispatch committed in between is deleted unsent. The same kind of disagreement shows up in these
variations of the runs. They are definitions of the modules, or changes of a cfg, and TLC finds each violated
(T02 and T06 are `docs/specs/t3/T02-herd-ingest.md` and `T06-dispatch-queue-steer.md`):

| Variation | Behaviour | What is said |
|---|---|---|
| `QueueSteady` with `OneDrainPerSettle` | A failing start or steer takes the drainer's mark with it; the next row follows without a settle | "The drainer sends one message per settle." (T06:131) |
| `QueueRestart` with `LiftProvesRest` | The restart hold lifts by the status stored before the restart | "After a restart nothing is sent until the pane is proven to rest" (T06:129) |
| `QueueRestart`, `FairSpec`, queue only, one gap, with `RestartHoldLifts` | The pass queued at start meets an engine that has not listed the pane; no retry, and the hold stays | "The hold then lifts **itself** as soon as the pane is proven to rest" (T06:71) |
| `QueueArchive` with steers and a working agent, `SentAtMostOnce` | Archive, unarchive, resume while a steer's send is in flight: sent twice | "A queued message is sent at most once." (T06:128) |
| `QueueDrainLive`, a missed turn not in `left` | A pass whose composer read does not get its turn of the pane throws `PaneBusyError` (`guarded-send-route.ts:197`); `schedule` logs it (`queue-drain.ts:425-429`) and nothing retries | "also retries a backed-off thread ... while it stays settled" (T06:185) |
| `QueueDrainLive`, `RowVanished` not in `left` | The row to drain is cancelled while the pane is read; the rows behind it wait on a resting thread | "When a thread becomes settled it takes the lowest `position` row" (T06:53) |
| `QueueDrainLive`, `MarkLifted` or `SteerOver` not in `left` | A refused start or steer lifts the mark, or a steer is over, and nothing schedules the pass that had met its mark or its row (`queue-drain.ts:234`, `322`, `325`) | as above |
| `QueueDrainLive`, `RowGivenUp` not in `left` | A row is held at its third failure and no retry is armed for those behind it (`queue-drain.ts:397-404`) | as above |
| `Streams` with `MaxSeen = 1`, `NothingSkipped` and `SyncedIsCaughtUp` | The thread route reads its catch-up, marks the thread seen and reconciles (`v2-routes.ts:777-781`), then attaches the listener: the events of that reconcile are in neither part | "no event can commit between the catch-up read and the live listener" (`v2-routes.ts:676`) |
| `Ingest` with `MaxLate = 1`, `ReplacedRightly` | A branch lookup that outlives a poll reconciles with its old snapshot and archives a live terminal's thread as replaced, for good (`herd-ingest.ts:440`) | "archived only because its pane is gone (or replaced)" (T02:90) |
| `Ingest` with `ClosedAtOnce` | Closing a pane archives the thread and reconciles with the snapshot that still lists the pane, which revives it until the next poll (`v2-routes.ts:483-487`) | "at once instead of waiting for the next herd poll" (`v2-routes.ts:448`) |
| `Herd` with `NoAlertLingers` for `cut` panes too | Turning a kind off drops the pending alert of a pane whose older alert is out: that one stays, of a status the pane has left (`notifications.ts:137-151`) | "handled work never lingers" (`notifications.ts:15`) |
| `Herd` with `NoAlertLingers` for `unapplied` panes too | The write of a preference throws: the kind is off in the store, but `applyPrefs` is not reached and its alert stays out (`notify-prefs.ts:67-69`, `notify-routes.ts:32-33`) | as above |
| `PaneWrites` with sends of equal texts | The text of a failed send, left in the box, is taken for that of its retry | - |
| `PaneWrites`, `RefusedStaysOut` with kit `none` | A one-shot reply whose Enter failed reports a plain error, although its text is in the box (`guarded-send-route.ts:44`) | `pane-write-routes.ts:59` keeps `textDelivered` for that |

The sixth place that `QueueDrains` names, `TextDelivered`, is as documented: "schedules no retry: the next row waits for a
status change" (T06:192).

Met on the way, smaller:

- A row put on an archived thread by a handler that had passed the check is not held; the interrupt key may
  go out after the thread stopped working.
- The second Enter goes out when every read after the first failed, although the comment asks for a fresh read; a
  dialog that covers the box at the confirming read makes the outcome `sent`; a stranded draft longer than
  `SWEEP_MAX` is never swept off, and every send to that pane stalls.
- Opening a thread or a branch lookup reconciles the same snapshot again, so one missing poll counts as two; a
  revived thread has lost its pin or snooze.
- A spawn that dies with the bridge, or ends while its thread is archived, leaves the thread `starting`
  (`orphans`); `spawn-failed` leaves `paneAlive` set.
- Herdr acts and the bridge stops, or the call throws, before the receipt: the retry acts again (`unsure`).
- `reconnectNow` opens a new source without `onDown`, so a snapshot still decoding is taken for the new
  stream's (`raced`). Retention deletes old threads without an event.
- A partial snapshot retracts an alert; a poll in flight may arm one after all were cleared. A request may be
  expired outside the pane's queue while its answer is being typed.

### Bounds

Two messages are needed for every queue hazard (one overtakes, doubles, cancels or is dropped by another) and the
code compares rows pairwise; `MaxFailures = 2` reaches both a strike and the hold. `Overlap` is how many
`message.dispatch` handlers are awaiting at once: 1 in the passing runs and 2 in `LostRow`, because with two
handlers the loss shown there is reachable. With one, handlers still overlap with background steers, the drain pass,
the other commands and all of the world. `MaxCrashes`, `MaxArchives` and `MaxGaps` are 1 where the run is
about them and 0 elsewhere. The runs with archives leave steers out because of the variation above. Messages are
symmetric in the safety runs; the liveness runs use no symmetry.

In `PaneWrites` two sends suffice for one to meet what another left, and the plain write puts a call of another
kind in every place of the line; `PollAttempts = 2` has both an inconclusive and a last read; the proofs have no
such bounds. In `Streams`, four events with a replay limit of 1 reach a replay, a snapshot because
of distance and one because of retention, with a live event behind each. `MaxSeen = 0` and `MaxLate = 0` leave
out exactly the two variations above. One pane is enough in `Herd` and `Ingest`: what the code does for a pane
reads no other pane's state, apart from the roll-up of a project and the cadence. `MaxTroubles` and `MaxFaults` bound how much fails
in one behaviour, not where: each fault may come at any step.

### Fairness

Weak fairness on every continuation, timer and poll: the event loop runs what is due, timers fire, the
engine polls for ever; RPCs have timeouts, so reads and sends come back. Nothing is assumed of the agent, the
operator or the faults, beyond their being bounded.

- `QueueDrainLive`: strong fairness, that of endlessly many composer reads one says yes, and that of endlessly many
  sends one does not meet a busy pane: the environment's part of the bargain. `QueueDrains` is conditional on
  the pane resting for good and on the operator leaving the queue alone (`Calm`). Nothing is assumed of missed turns: one
  ends the pass for good. `MaxGaps = 0` here, since a pass that meets an engine that has not listed the pane is not
  retried either (the row of `RestartHoldLifts` above shows it).
- `Herd`: polls go on for ever (weak fairness of `Tick`), whatever the pokes and the stream do. `HerdSettles` is
  about the holds, the sniffs and failing polls, and says nothing of a lost poke; that is `PokeIsAnswered`.
- `PaneWrites`: functions end on the live pane only, reads and writes come back, and the timer need never fire.
- `Requests`: strong fairness on taking a pane's turn, since the queue is first come, first served and the model's
  turn is not; the agent redraws after an answer.
- `Ingest`: the fairness of publishing a poll and of closing a pane is stated by what they end
  (`WF_wire(PollEnds)`), which is the same condition and is cheaper to evaluate.
- `CHECK_DEADLOCK FALSE` where the system may come to rest: all work done, no change left within the bounds.

## 4. The proofs

`tlapm` proves what follows for any values of the constants that satisfy the modules' assumptions. Each module of
theorems has inductive invariants: conjunctions of named parts, checked with TLC before they were proved. The theorems
that state a run's property are listed in `PROJECT.json`; a condition on the constants is part of the theorem's
statement, and where there is one TLC shows a counterexample without it.

- **`ThreadQueueProofs`** has four invariants, one on top of the other.
  - `SendInv` (`SentAtMostOnce`, `SendingRowOwned`; `MaxArchives = 0`). That a message was not sent twice
    depends on its not waiting once it was sent, and that on who may put it back. `MessageOK(m)` says it for one
    message: a row that waits was not submitted since the last restart and its handler is done; a `sending` row
    has one owner, a steer or the pass; what is on its way was submitted only if its outcome says `sent`. Most steps
    go through `OneMessage`: a step that moves one message and leaves the others alone, *or drops their rows*, keeps
    the invariant, so the theorems hold with any number of overlapping handlers (`LostRow` loses messages, but never
    doubles one). An archive with a steer in flight is the counterexample without the condition.
  - `QueueInv` (`TypeOK`, `RowsAreAQueue`; all constants): every row is listed once and is of a message
    that was handled, and the lists that handlers and the pass hold are duplicate-free, whatever was committed since
    they were read, so that each table written from one is a queue.
  - `LossInv` (`NoSilentLoss`; `Overlap <= 1`): every message that was handled is a row, or accounted for. The finding
    `LostRow` is the counterexample with two handlers. Restarts and archives are unbounded.
  - `ReleaseInv` (`DrainNeedsRelease`, `DrainYieldsToSteer`; all constants): after a send, as long as nothing was settled
    since, the pass still awaits its answer or the thread is not settled; once the run was seen to start, it is not
    settled.
  - `LifeInv` (`QueueInv`, `LossInv`, `SendInv`, no restart so far) gives the refinement,
    `MessageLifeImplemented`: every step is a step of `MessageLife` or a stutter, with
    `MaxCrashes = MaxArchives = 0` and `Overlap <= 1`: restarts and archives allow a second submission that the abstract
    life does not have. `NeverWaitsAgain` is an action property of the abstract life, carried over.
- **`MessageLifeProofs`**: the abstract life allows one submission and no return.
- **`GuardedSendProofs`** begins with the queue alone (`IInv`: types, exclusion, order and the tail map): the calls of
  a pane form one chain by `ahead`, and a resolved tail means everything ahead is over. `WritesImplementQueue` says
  that the composition implements `PaneQueue`, so exclusion and order carry over. `WInv` (`NeverBlind`) says of
  every send that its counters are in their budgets, that it is at work only while it has the turn, and that at
  the places from which it may press Enter the last look was its own and showed its text; it needs exclusion, since only
  because no other send is at work between the look and the Enter is the memory still its own. `BoxInv`
  (`NothingMixed`, `RefusedStaysOut`, `SentIsSubmitted`) says what may be in the box and among the keys on their way:
  nothing of a send that has not typed yet, the text of one that is typing at most once, and of a send that is over
  without having been submitted no Enter, so that no later Enter can take its text along unseen. The theorems are for
  the sends of one pane (the assumption on the constants says so), `RefusedStaysOut` for kits with an adapter.
- **`HerdWatchProofs`**: `PokeIsAnswered` is inductive. `StreamInv` (`OneStream`) adds the types of the stream's handles;
  `AlertInv` (`NoAlertLingers`, `NoAlertMissed`) that a pane with a history of transitions is in the published herd.
- **`CommandRouteProofs`**: `AnswerInv` (`OkIsDurable`, `SameAnswer`): a reply that tells an outcome is a copy of the
  receipt. `RouteInv` (`AppliedOnce`): each request keeps only the one before it, so the invariant says that *some* order
  of the requests under way agrees with these links and with the `inflight` map (`InOrder`), in which one past its wait
  is the first of its id; the proof rebuilds that order at each arrival and each end.
- **`RuntimeRequestsProofs`**: `RequestsInv` (`OneOpen`, `KeysMeetTheirDialog`, `AnsweredOnce`; from it the action property
  `AnswersStand`). Dialogs come one after the other and none returns, so only the last request can be open; look, keys and
  commit are in one turn of the pane; a dialog that was answered is remembered, excused or gone.
- **`HerdIngestProofs`**: `IngestInv` (`NoTwins`; all constants): a spawn makes no twin because its pane was never seen
  before it asked (`BornOnly`), so no thread of it waits for a terminal when the answer comes (`AskedFresh`).
  `ArchiveStands` is the action property `UserArchiveStands`. `LookInv` (`ReplacedRightly`; `MaxLate = 0`): no snapshot at
  hand shows a terminal older than what the table, the engine or a spawn knows; a lookup that outlives a poll is the
  counterexample (`Ingest` with `MaxLate = 1`). The reconcile is a function over panes and threads; `Reconciled` says what
  it makes of any table and snapshot, and the steps use that alone.
- **`ThreadStreamProofs`**. `SteadyInv` (`TypeOK`, `NeverBack`; all constants): which frames and decodes there can be, that
  nothing runs ahead of the log, and that a page waits for one decode at most, ahead of what it shows. `CoverInv` adds
  `ViewInv` (what is shown is the projection at its sequence, and so is the cache) and `FlowInv`: a change that the page
  lacks is in what it keeps back, or under way, before anything later. That gives `NothingSkipped` and
  `SyncedIsCaughtUp` until the first seen mark that commits between a catch-up and its listener (`seen = 0`), for all
  constants, and as invariants where `MaxSeen = 0`. A frame carries nothing of what such a mark commits: the variation
  above. Its lemmas `UpTo`, `StepByStep` and `AppliedInTurn` derive induction over numbers, and the recursive functions
  `EventsAfter` and `ApplyAll`, from the least element of a set of naturals; `AfterInOrder` and `Folded` say what the two
  compute.

The proofs led to corrections of the models, which TLC had not asked for on its instances: `PaneClosed` in `HerdIngest`
leaves a thread alone that was deleted meanwhile; `ClaimOf` tries its cases in the code's order; `UserArchiveStands` names
closing a pane as an exception; `Panes` is finite and there is a terminal; `ThreadStream`'s log has room for the
two events it begins with.

Only model-checked are the liveness properties (`QueueDrains`, `SteerEnds`, `LivePanesServed`, `CatchesUp`,
`HerdSettles`, `RequestsFollow`, `HerdMirrored`, `Answered`): they rest on fairness and ENABLED, which the
prover does not handle. Every safety and action property of a passing run is proved, under the conditions above:
the restart of `QueueRestart` is in the proof of `SendingRowOwned`, the archives of `QueueArchive` are not in that of
`SentAtMostOnce` (there TLC alone says that archives without steers double nothing).

## 5. Plan

What is left to prove: `SentAtMostOnce` with archives and no steers (who may resume a row whose send is in flight); the
refinement of `MessageLife` with restarts, for an abstract life that allows one more submission after each; and, for
`ThreadStream`, what a stream still promises after a seen mark has committed. To model next: live modes and their
watches, journal ingest, and the recovery of a corrupt store, which restarts the sequence at 0.

## Not modelled

Most of the repository's lines are user interface (`web/`, `web2/` apart from `stream/`), parsers of what agents
draw and write (`shared/harness`, `bridge/journal`), git plumbing (checkpoints, worktrees, review), files
(attachments, uploads, search), push encryption, WebAuthn and process control. They are pure functions of text or
sequences of external calls, with no protocol to explore, and the share of the code that the models map is small for
that reason. Of the modelled components the following is left out: the store's search, migrations, item caps and its
recovery of a corrupt file (which restarts the sequence at 0); journal ingest, whose runs reach `ThreadQueue` as
events; live modes and the watches that read the mode and the compaction off the screen; session names and beacons of
the engine; the statuses and harness limits listed under `ThreadQueue`.
