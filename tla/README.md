# A formal model of the Telegram connector

The connector gives every installation of an app a Telegram bot: what users write to the bot goes into
threads of the platform, and what an agent writes into a thread goes back to the user. This directory
holds TLA+ modules translated from the Go source, TLC configurations that check them on small instances,
and proofs checked by TLAPS for instances of every size. Paths below are relative to `src/`, and file
names without a directory are in `src/internal/connector/`.

## The system

| Part | State it keeps | Operations | Interacts with |
| --- | --- | --- | --- |
| inbound loop, `inbound.go` | offset, the batch in hand, failure times | long poll, handle an update, create or replace a thread, store the offset | Telegram, Threads service, store, status, audit |
| outbound loop, `outbound.go`, `utils.go` | trigger channel, list of messages, attempts | subscribe, tick, list, deliver part by part, mark blocked, acknowledge | Threads and Notifications services, Telegram, store, status, audit |
| status, `status.go` | four flags, derived state, counters, last error | setters, snapshot, report | both loops, the ticker, `reportStop`, Apps service |
| audit, `audit.go` | none | append with retries and an idempotency key | Apps service |
| worker, `worker.go` | context, status pointer, done channel | start, run, report the stop, stop | manager, both loops |
| service and manager, `service.go` | map of workers | list, report misconfiguration, sync, stop all | Apps service, workers |
| store, `internal/store` | `chat_mappings`, `installation_state` | one SQL statement per method | PostgreSQL, shared by all processes |
| gateway client, `internal/gateway` | app identity | one RPC per method, no timeout | platform services |
| Telegram client, `internal/telegram` | bot token | one HTTP call per method, 30 s timeout | Bot API |
| content types, inline images, configuration parser | none | pure functions | the loops, the service |
| start-up: `main.go`, `config`, `db`, `enrollment` | none | environment, migrations, enrollment, service goroutine, signals | everything |

What is hard in it:

* Each worker is four goroutines (two loops, the subscription, the status ticker), and the manager's
  goroutine acts on it too. They share the status flags, the row of a chat, and the decision that the
  token is bad.
* A rolling update runs two processes for the same installation against one database, one Telegram queue
  and one list of unacknowledged messages.
* Every remote call can fail before or after it took effect, and the process can die between any two.
* Retries are everywhere: a batch, a row, an upload, a part, an audit entry, a stream.
* Telegram forgets an update when the *next* poll names a higher offset. Getting that order wrong loses
  messages silently.

What makes each part correct, in a sentence: the inbound loop loses no update, keeps their order and posts
only to the chat's own thread with its agent; the outbound loop acknowledges only what it delivered or gave up
for a reason, sends the parts of a message in order, sends nothing to a foreign chat, and wakes up for
everything; together they bring an agent's answer to the user who asked; the status display never goes back in
time and catches up; an outage is noticed, audited and over when it is over; a process has one worker for an
installation, of the configuration it listed last. `PROJECT.json` lists the hazards one by one, with the line
where each bites and the property that would catch it.

## The modules

```
Relay  <--refines--  Inbound  <-- InboundProofs <-- InboundOrderProofs
                       |                                   |
                   Connector  <-------------------- ConnectorProofs
                       |                                   |
Deliveries <-refines-  Outbound <-- OutboundProofs <-- OutboundOrderProofs

Status <-- StatusProofs    Lifecycle <-- LifecycleProofs    PollClock <-- PollClockProofs

MCInbound, MCOutbound, MCConnector, MCStatus
```

**`Relay`**, the promise of the inbound side: messages are handled at least once, in order, and Telegram's
copy is given up only afterwards. It has no process, thread or offset.

**`Inbound`**: one installation's poll loop in each of `Procs`, call by call. `pc[p]` is the call the
goroutine makes next; `last`, `cur`, `top`, `thread` are the locals `lastUpdateID`, the update in hand, the
last one of the batch, and `threadID`. `inbox` and `confirmed` are Telegram's queue, `threads` and `posts`
the Threads service, `mapping` and `lastStored` the two tables. The shape of an update is one of five
kinds, told apart by what `handleUpdate` does with it. `Abandon` is the error return of `handleUpdate`:
the whole batch goes and is polled again. A call with an answer that gets lost takes effect and then
abandons. The outbound loop appears as two environment actions, `MarkBlocked` and `OutboundRejected`.

**`Deliveries`**, the promise of the outbound side: a message is settled (delivered whole, or given up) before
it is acknowledged, and stays settled; under `OldestFirst` (see below) it is settled after the earlier ones of
its thread. It has no worker, part or row.

**`Outbound`**: `runOutbound`, the subscription and `processOutbound` in each of `Workers`. A message is a
list of parts (body, inline images, files); a part is one call to Telegram with its own retries. A call may
be refused for good, fail, time out, be limited (429), blocked (403) or unauthorized (401). A time limit, of a
send or of the fetch of a file, ends the run without an acknowledgement (`SendTimesOut`). `Serves` says
which chats a worker's installation has rows for, because the list of messages belongs to the app's identity
and not to the installation. The inbound loop is an environment: rows are inserted, deleted and unblocked at
any time (`InboundUpdatesRow`), a poll sets or clears `tokenRejected` (`InboundRejected`,
`InboundSucceeds`). So are the users (`ToggleBlock`) and Telegram's limits (`Limit`).

The order of the list is an assumption on the Threads service. `processOutbound` goes through the messages as
it gets them (`outbound.go:87`) and `GetUnackedMessages` neither sorts them nor asks for an order
(`internal/gateway/client.go:155-173`); the service of the end-to-end tests returns them in the order of a Go
map (`test/e2e/harness_state_test.go:312-323`). `TakeMessage` therefore takes any message of the list, unless
the constant `OldestFirst` is true: then it takes the oldest. What is said of the order between messages is
said under `OldestFirst` only; everything else holds for both values.

**`Connector`**: both loops of each process over one database and one status flag. `Inbound` and `Outbound`
are instantiated with shared rows and flags, and what each leaves to its environment is a step of the other
here. The two goroutines start after the state is loaded and end together (`StartLoops`, `Stop`). `Follows`
carries along what `Outbound` remembers of an inbound step. The agent answers in a thread in which it was
spoken to. The list is in any order (`OldestFirst` is false). The notification stream and rate limits are left
to `Outbound`.

**`Status`**: one worker's flags and reports. Each lock of `mu` is one step, so a handler that calls
two setters is two steps. `report[g]` goes from "due" (waiting for `reportMu`) to "sending" (holding it
through the call). The poll handlers that own `tokenRejected` and the outage flags are here with the audit
events they append; a delivery is reduced to its effect on the flags. `version` counts changes of state, so
that an older report can be told from a newer one of the same text. The module begins when `run` has made the
status; before that `reportStop` finds none and skips the report (`worker.go:133`), which `Lifecycle` has.

**`PollClock`**: the same poll handlers in time. `Tick` advances the clock until something is due: the end
of a long poll, the HTTP client's deadline, a pause, the next attempt of `appendAudit`. Everything else takes
no time, except the handling of updates, of which nothing is assumed. It also has the audit entries about
outages, with their retries and idempotency keys.

**`Lifecycle`**: one installation through the reconciliations of any number of successive processes: the
listing, the report of an invalid configuration, `Sync`, `Stop` step by step, and the worker's own life as
far as they can meet. An installation is valid, invalid (it is reported), malformed (it is only logged and
skipped) or absent. A worker's reports are "Running" or "Stopped" here.

The `MC` modules name model values and small sets; they define no behaviour. Operators called a "mutant" in
a comment are deliberate bugs, used to show that each property can fail: exchanging the named definition for
the mutant makes TLC report the property it is listed with in `PROJECT.json`.

## The runs

| Run | Question | Bounds |
| --- | --- | --- |
| InboundOne | What does one process guarantee, does it settle every update, does it implement `Relay`? | 1 chat, 3 updates (ignored, blank, file), batch of 2, 1 fault, 2 degraded threads |
| InboundTwo | Is anything lost, reordered or misrouted by two processes that both make and replace a thread? | 1 chat, 2 texts, batch of 2, 1 fault, 1 degraded thread, symmetry of the processes |
| InboundPoison | Does a text arrive behind an attachment that cannot be fetched? (No.) | 2 updates, no fault |
| OutboundTwin | Two processes of one installation, older messages listed first: repetitions, wake-ups, the order of parts and messages, and is `Deliveries` implemented? | 1 chat, 2 messages of 2 parts (the second one a file or refused), 1 retry, a stream for one worker, 1 fault; nobody blocks, no token is rejected |
| OutboundChats | One worker, messages listed in any order: is a message acknowledged only when it should be, and always in the end, behind a limited chat and without the stream? | 2 chats, one limited, one whose user blocks; 2 messages of 1 part, no retry, 1 rejection, 1 fault |
| OutboundShared | Does a reply reach its chat when there are two installations? (No.) | 1 message, no fault |
| ConnectorOne | Does an answer reach the user who asked? Are the halves' environments what the other half does? | 1 process, 2 chats, 2 updates (text or unfetchable), 1 message, 2 threads, 1 degraded, 1 blocking user, 1 fault in each loop |
| ConnectorUnblocked | Does a user who unblocked the bot and wrote again get the answer? (No.) | 1 chat, 2 texts, 2 messages, no fault |
| StatusAll | Do concurrent setters and reports lose or reverse a change? Can the poll loop wait with a token that looks fine? Does a replaced worker leave Stopped on display? Do audit entries follow what happened? | 3 results of polls and sends, 1 failed report |
| PollClockAll | Is the minute measured right, does the flag follow Telegram, is each outage audited? | pause 1, client timeout 2, minute 4, poll timeout 1 or 2, 2 attempts, 16 ticks, 2 outages, 2 failed calls |
| LifecycleAll | One worker, of the listed configuration? Do worker and display follow the last edit? | 3 edits, 1 fault |
| LifecycleRemoved | Is the status of a removed installation clear? (No.) | 2 edits, no fault |

Every run starts from an empty database. A fault is a failed call, a lost answer, a crash, a 401 or a
signal. Calls that fail and are simply repeated change nothing and need no bound.

Why the bounds are enough: two updates in a batch of two already give an update posted before its neighbour
fails, three give a second batch; one fault repeats a step; two degraded
threads are the most one update can meet; a message of two parts can fail between them, two messages of one
thread can overtake each other; one answer after two updates of two chats has a thread that could be somebody
else's and one that may be replaced meanwhile; three results hold a rejection, the poll under way that clears
it and a second rejection, or an outage and its end; sixteen ticks hold two outages of more than
the minute; three edits configure, break or remove, and configure again. Every property of the passing runs
but the four about liveness is also proved, for any bounds (see The theorems).

`CHECK_DEADLOCK FALSE` is used throughout: the models come to rest when the bounded environment has nothing
left to do, and a worker waits for ever once its token is rejected.

`OffsetNeverRegresses`, `AnswerFindsWayBack` and `DuplicatesBounded` are statements about one process and
are checked with one: two processes can write an older offset over a newer one (`store.go` upserts without a
comparison), which repeats updates and, as InboundTwo shows, still loses none. `DuplicatesBounded` is
checked without attachments that can never be fetched, since those repeat a batch without any fault.

The lengths of `PollClock` keep the proportions that matter and not the numbers: a pause (1 s) is shorter
than the client's timeout (30 s), which goes twice into the minute; the audit log is tried twice instead of
three times.

### Fairness

* Inbound, Outbound: weak fairness of each worker. The goroutine runs, a sleep ends, a call returns, the
  ticker fires, and a worker that went down is started again, by reconciliation or by Kubernetes. Nothing
  is assumed of users, of the notification stream, or of the inbound loop as seen by the outbound one.
  A call that never returns is excluded by this; the gateway client sets no timeout, so it is an
  assumption about the platform.
* Outbound, for limited chats: a limit ends (`LimitEnds`, weakly fair, since a 429 names the time to wait),
  and a send that Telegram would accept again and again is accepted some time (`SendPart`, strongly fair).
  The second is needed because the code retries a limited send without a bound. The limited chat of the run is
  one whose user does not block.
* Lifecycle: weak fairness of the manager and of each goroutine of a worker, of the restart of a process
  that ended and of the end of one that got its signal; strong fairness for the manager's last report, which
  needs `reportMu`, since a `sync.Mutex` hands itself to a waiter that has starved for a millisecond.
  Nothing is assumed of those who edit installations.
* Faults are finite in the liveness runs, and the properties except a rejected token, after which the
  poll loop waits by design until its configuration changes.
* PollClock needs no fairness: that something is done in time is a safety property there.

### Where the code disagrees with its tests

Four runs are expected to find a violation.

* **InboundPoison.** A permanent error on one attachment makes the loop abandon and repeat its batch for
  ever (`inbound.go:67-81`, `385-393`); texts behind it never arrive, and updates before it in the batch
  are posted again each time.
* **OutboundShared.** With two installations, each worker lists all messages of the app and acknowledges
  those it has no row for (`outbound.go:106-108`), so replies vanish without any fault.
* **LifecycleRemoved.** `Stop` clears the status of a removed installation and only then cancels the
  worker (`worker.go:69-71`); a report in between is shown for good. "For good" assumes an Apps service that
  takes reports for an uninstalled installation, which the code does not prevent; the one of the end-to-end
  tests answers NotFound once it has dropped the installation (`test/e2e/harness_state_test.go:187-190`).
* **ConnectorUnblocked.** `MarkChatBlocked` for a send that met 403 (`outbound.go:112-114`) can land after
  the user has unblocked the bot and written again, when the inbound loop has already looked for a block to
  clear (`inbound.go:209`). The answer to that message is then acknowledged without a send.

Smaller things seen on the way, no runs of their own:

* `handleTokenRejected` reads the flag and sets it under two locks (`inbound.go:152-153`), so both loops can
  append `bot_token_rejected` for one rejection. The idempotency keys are equal unless the two 401s fall
  into different seconds.
* `TELEGRAM_POLL_TIMEOUT` is 30 s by default (`config.go:60-62`), as long as the timeout of the HTTP client
  that waits for the poll (`telegram/client.go:138-140`). An idle poll may therefore end as an error. In
  `PollClock` that is `Patient` being false: with it, two clauses of `ReachabilityFollows` and
  `OutageIsReal` hold; without it TLC finds Telegram called unreachable although it was up all the time.

## The theorems

For arbitrary constants that satisfy the named assumptions of the modules. These say what type each constant
has, and of `Inbound` and `Connector` that the value for a missing row is not a row; nothing else is assumed
of the number of processes, chats, messages, edits and faults, or of the lengths in `PollClock`. Where a
theorem needs more, the third column says what, and the theorem has it as an `ASSUME`; `OldestFirst` is the
premise of a clause of the property instead.

| Theorem | Says | Needs |
| --- | --- | --- |
| `InboundProofs!TypeCorrect` | `[]TypeOK` | |
| `InboundProofs!MappingAlwaysSound` | `[]MappingSound` | |
| `InboundProofs!PostsAlwaysRouted` | `[]PostsRouted` | |
| `InboundProofs!GivenUpForCause` | `[]SkippedForCause` | |
| `InboundOrderProofs!NothingLost` | `[]NoUpdateLost` | |
| `InboundOrderProofs!InOrder` | `[]HandledInOrder` | |
| `InboundOrderProofs!ImplementsRelay` | `RelaySpec` | |
| `InboundOrderProofs!OffsetOnlyGrows` | `OffsetNeverRegresses` | one process |
| `InboundOrderProofs!PostsFollowTheRow` | `AnswerFindsWayBack` | one process |
| `InboundOrderProofs!RepeatsArePaidFor` | `[]DuplicatesBounded` | one process, no attachment that can never be fetched |
| `OutboundProofs!TypeCorrect` | `[]TypeOK` | |
| `OutboundProofs!NoWakeupIsLost` | `[]WakeupKept` | |
| `OutboundProofs!SilentLossIsBounded` | `[]SilentLossBounded` | |
| `OutboundProofs!RepeatsArePaidFor` | `[]RepeatsBounded` | finitely many workers |
| `OutboundOrderProofs!AcknowledgedAreSettled` | `[]AckedAreSettled` | |
| `OutboundOrderProofs!PartsArriveInOrder` | `[]DeliveredInOrder` | for its clause on messages, not for that on parts: `OldestFirst` |
| `OutboundOrderProofs!NoForeignPart` | `[]PartsReachOwner` | |
| `OutboundOrderProofs!KeepsDeliveries` | `DeliveriesSpec` | for its clause on the order of messages: `OldestFirst` |
| `OutboundOrderProofs!RepliesReachTheChat` | `[]ReplyReachesChat` | one installation: every worker serves all chats |
| `ConnectorProofs!ImplementsInbound` | `InboundSpec` | |
| `ConnectorProofs!ImplementsOutbound` | `OutboundSpec` | |
| `ConnectorProofs!OnlyAskerIsAnswered` | `[]PartsReachAsker` | |
| `ConnectorProofs!AnswersReachTheUser` | `[]AnswersDelivered` | one process |
| `StatusProofs!TypeCorrect` | `[]TypeOK` | |
| `StatusProofs!EveryChangeReported` | `[]ChangeIsReported` | |
| `StatusProofs!ParkedShowsRejection` | `[]ParkedMeansRejected` | |
| `StatusProofs!EveryRejectionAudited` | `[]RejectionAudited` | |
| `StatusProofs!OutagesAlternate` | `[]OutageEntriesPaired` | |
| `StatusProofs!StoppedOfReplacedStays` | `[]ReplacedShowsStopped` | |
| `StatusProofs!ReportsInOrder` | `NoStaleReport` | |
| `LifecycleProofs!TypeCorrect` | `[]TypeOK` | |
| `LifecycleProofs!NoWorkerEscapes` | `[]NoOrphanWorker` | |
| `LifecycleProofs!MapFollowsListing` | `[]SyncedWithListing` | |
| `PollClockProofs!TypeCorrect` | `[]TypeOK` | |
| `PollClockProofs!OutageIsNoticed` | `[]ReachabilityFollows` | |
| `PollClockProofs!OnlyRealOutages` | `OutageIsReal` | |
| `PollClockProofs!OutagesAreLogged` | `[]OutagesLogged` | |

Each is `Spec => ...` of its module. The hypotheses are the limits of the code, not of the proofs: a second
process does write an older offset and does replace a row between another one's lookup and post; an
attachment that can never be fetched does repeat its batch; two installations do lose replies
(OutboundShared).

*Types.* `TypeOK` alone is not inductive: `ChatOf(p)` means something only while the update in hand is in
the queue, and `current[w]` only while there is a message in hand. `TypeInv` adds that the batch lies inside
the inbox (`InBatch`), or that a busy worker holds a posted message and, while it delivers, a chat (`Holds`).

*Order, inbound.* `NoUpdateLost` and `HandledInOrder` speak of Telegram's queue, the table and the posts; a
step of a worker depends on what that worker knows. `OrderInv` adds `Reads(p)`: everything up to `last[p]` is
settled, everything before the update in hand, and once the batch is done everything up to `top[p]`. The
argument that makes this work for any number of processes is the lemma `SettledStays`: what is settled stays
settled whoever moves, so nobody invalidates what another process knows. The refinement follows: a step
either leaves the mapped variables alone or is one of `Relay`'s four, and `OrderInv` gives its guard.

*Routing.* `RouteInv` follows a thread from `CreateThread` on: it belongs to the chat of the update in hand,
then also has its agent, then may be in a row, then may be posted to. Rows may be deleted or inserted by
others meanwhile; threads never change chat nor lose an agent (`ThreadsGrow`), so that is harmless.

*Given up, inbound.* A message is dropped when the replacement thread is degraded too. That there were two
different threads is not obvious with several processes that replace each other's rows. `SkipInv` calls a
degraded thread *retired* when no row names it and no process is about to enter it in one. The thread a
process is about to enter is still its own (`NotYetListed`), so a retired thread stays retired, and a process
that got to `resend` has retired one of its chat and holds another.

*One process.* `Offsets` ties the three offsets together: Telegram's is at most the stored one, and memory
has the stored one between two batches. `Place(p)`, the last update the process is done with, falls back only
when a call fails; `Repeats` is the potential argument over it: an update after `Place(p)` has been posted at
most `faults` times, any other at most once more. `Maps`: a process that holds a thread it found or stored
holds the one in the row.

*Order, outbound.* A worker's list is a snapshot, and others acknowledge meanwhile. `OrderInv` of
`OutboundOrderProofs` adds `Knows(w)`: a message missing before one of the list is settled, under
`OldestFirst` the message in hand is the oldest of the list, the earlier parts of it have arrived, the chat in
hand had a row for the thread once, and a message about to be acknowledged is settled. Again `SettledStays`
makes this immune to others. "Once" is what the code needs: the row may be gone by the time of the call, and
`mapped`, the history of rows, only grows. `KeepsDeliveries` then maps each step to a step of `Deliveries` or
a stutter; the one that settles a message is the receipt of its last part or the record that it was given up.

*Wake-ups.* `WakeInv` says what a calm worker (no fault, no rejection so far) has for each announced message:
it is acknowledged, or in the list, or a listing that will find it is due, or the token is in the channel.

*Counting, outbound.* A rejection is a credit for one silent loss. It is held by the worker that has a message
in hand while its token is rejected (`AtRisk`), since the loop looks at the token between two messages;
`SilentLossBounded` says that losses and credits together are at most the rejections. For repetitions, `RepeatInv` counts, for
each part, the arrivals together with the workers that may still send it without meeting a fault first
(`MaySend`: it is in the list and not yet past, or a listing may still find it). An arrival takes its worker
out of that set; only a fault puts one back.

*Replies.* `ReachInv`: while there was no fault, what is given up has an excuse that lasts (`Excused`): a part
that Telegram refuses, or a thread that is no row's any more. It lasts because a new row always names a new
thread, so that a thread is only ever one chat's (`Disjoint`), and because only users in `MayBlock` block.

*Composition.* Each half was proved against an environment. `ConnectorInv` is the two halves' invariants and
what ties them together: both goroutines run or none does, every rejection is a fault of one of the loops (so
that the halves' bounds cover each other), a thread in the making is in nobody's row and in no other
process's hands, and every thread a row has ever named was made for that chat. A step of one loop is then a
step of its own half, and a step of the other half's environment or a stutter. Since a row inserted by the
inbound loop names a new thread, no thread ever belongs to two chats, and `OnlyAskerIsAnswered` follows from
`NoForeignPart`'s invariant with the routing invariant. `AnswersReachTheUser` takes one invariant from each
half: with one process the inbound half keeps the row of every thread that was posted to and is not degraded
(`PostsLast`), and the outbound half gives up no reply whose thread is in a row (`ReplyReachesChat`); an
answer is a reply in a thread that was posted to. Neither half says either of the two alone.

*Status.* `StatusInv` has a part for each property, and what that rests on: the state is the one derived from
the flags; `reportMu` is held by the one goroutine that sends; a sender's snapshot is not newer than the state
and, while the worker runs, not older than the display (`Fresher`); only the poll loop, which then polls no
more, can have set the token flag while the outbound loop delivers (`RejectedByPoll`); each rejection has its
audit entry or a loop that owes it (`RejectionsCounted`); the flag `telegramUnreachable` tells the last entry
about reachability (`LastOutage`); while the service runs on, from `reportStop`'s snapshot on every sender has
the Stopped state (`StopReported`).

*Lifecycle.* What `Sync` and `Stop` do next rests on what the manager has decided. `SyncInv` says it by the
place where `Service.Run` is: no worker when one is about to be started, one while it is being stopped, and a
reason of the stop that agrees with the listing.

*Clock.* `ClockInv` bounds how long each phase lasts by its timer (`Timers`, from the guard of `Tick`), and
when it can have begun: after the last success and the first failure (`Failure`), and after Telegram's return
(`Return`). The bounds of `ReachabilityFollows` are sums of these, for all lengths; `Patient` is used once, for
the fact that an idle poll of such a bot fails only when Telegram was lost. For the audit log, `Paid` sets
`AuditRetryMax` failed calls against each entry that is missing, and `Keys` shows that no new entry has the key
of an old one, because an outage's first failure comes after the last success.

Where a run checks the property, the theorem extends it to every value of the constants; the strengthened
invariants (`ClockInv`, `LogInv`, `SyncInv`, `ReachInv`, `RepeatInv` and so on) were model-checked before
they were proved.

Only model-checked: liveness (`EveryUpdateSettled`, `EveryMessageAcked`, `ConfigurationApplied`,
`ConfigurationShown`) and the four violations. Liveness under fairness, `ENABLED`, induction over data and
RECURSIVE operators are out of the prover's reach.

## Not modelled

* Durations outside the poll loop: `retryDelay`, `nextBackoff`, the ticker's 30 s, the hour window of the
  counters. A pause ends some time, a tick may come at any time.
* Texts: status wording, audit messages, captions, markers of skipped attachments; idempotency keys other
  than those of outages.
* Content-type selection, inline image parsing, the configuration parser: pure functions, taken as inputs.
* Paging in the gateway client, streaming of files, multipart encoding.
* Start-up: environment, migrations, enrollment, listeners.
* A change of bot token as the inbound loop sees it (the old offset is kept for the new bot).
* Gateway calls that never return: fairness assumes that they do.
* What is displayed after `StopAll`: it follows the cancellation of the workers' context (`service.go:96-98`),
  so a late report of a loop may cover the Stopped of `reportStop`, and `ReplacedShowsStopped` claims nothing
  of it. Nor does it of a worker stopped before `run` has made its status.
* The order between the messages of a thread when the Threads service does not list older ones first.
* What becomes of an answer in a thread that another process has rotated away (two processes).
* What is displayed of an installation with a malformed organization id: `Sync` takes it for a removed one
  (`service.go:126`), and nothing is stated of its status.

## Plan

Done, in this order because losing or misrouting messages matters most: `Relay`, `Inbound` and its proofs;
`Outbound`, `Deliveries` and their proofs; `Connector` and its proofs; `Status`, `Lifecycle`, `PollClock`
and their proofs.

What is left:

1. A bot token in `Inbound`: in the row, in Telegram's queue and in the loop's offset, for the offset that
   survives a token change.
2. Pure modules: `Backoff` (bounds and monotonicity), `ContentTypes` (candidate selection against a
   declarative definition).
3. Proofs of what a theorem's hypothesis leaves open: `DuplicatesBounded` for several processes, with each
   older offset that is written counted as a fault.
