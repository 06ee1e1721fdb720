# Verification of better-ccflare

better-ccflare is a proxy between coding clients and AI providers. It spreads
requests over many accounts, refreshes their OAuth tokens, backs off from
overloaded or rate-limited accounts, and keeps what it learns in a database. The
server is one Bun process: a single event loop, so two handlers interleave exactly
at their `await`s, timers and socket events. A small guard process stands in front
of it, and a runner and a deploy script replace it while the guard holds requests
back. The hard part of the code is the state that several handlers or processes
share across those points: maps in memory, a row of the database, a log file, a
pool of sockets, a journal.

This directory holds TLA+ models of that state. TLC checks them on small
instances; TLAPS proves the theorems about them for every value of the constants.
Paths below are relative to the repository.

    tlc -workers 2 -config MCCircuitBreaker.cfg MCCircuitBreaker    # one run
    tlapm CircuitBreakerProofs.tla                                  # one proof

## 1. Inventory

| part | code | state | hard behaviour | module |
|---|---|---|---|---|
| circuit breaker | `packages/proxy/src/circuit-breaker.ts` | a bounded map of entries per (provider, account), probe leases | late results, abandoned probes, eviction | `CircuitBreaker` |
| token rotation | `packages/proxy/src/handlers/token-manager.ts`, `pending-rotation-registry.ts`, `pending-rotation-wal.ts`, the token part of `auto-refresh-scheduler.ts`, handlers of `packages/http-api` | account row, shared refresh promises, failure backoff, outbox, write-ahead log | single-use tokens raced by requests, a scheduler and operators; failing, ambiguous and stale writes; crashes | `TokenRotation` |
| body admission | `apps/server/src/body-admission.ts` | byte budget, FIFO of waiters, leases | shrinking leases, aborts, cancelled streams, shutdown | `BodyAdmission` |
| degraded mode | `packages/proxy/src/anthropic-degraded-mode.ts`, `anthropic-degraded-response-lifecycle.ts`, its callers in `handlers/proxy-operations.ts` | cohorts with evidence, one probe permit, a recovery window | late and duplicate settlements, leases that lapse, capacity | `DegradedMode` |
| rate-limit cooldown | `packages/proxy/src/handlers/rate-limit-cooldown.ts`, statements of `packages/database/src/repositories/account.repository.ts`, the metadata queue of `packages/database/src/async-writer.ts` | account row and the drifting account objects of requests, write queue, shared awaited write, probe lease | stale objects, dropped and failed jobs, joining a write in flight | `RateLimitCooldown` |
| Codex WebSocket transport | `packages/proxy/src/codex-websocket-transport.ts` | pool of sockets, reservations, one turn per socket | reuse, eviction, late events, a frame that cannot be taken back, shutdown | `CodexWebSocket` |
| quality routing | `packages/database/src/repositories/quality-route.repository.ts`, `packages/proxy/src/quality-route-candidates.ts`, `quality-settlement-recovery.ts` | one row per session: intent, tickets, homes, leases, fences; retained outcomes | lost answers, superseding intents, clean-up, process death | `QualityRoute` |
| device setup jobs | `packages/http-api/src/services/device-setup-jobs.ts`, `packages/database/src/repositories/device-setup-job.repository.ts` | job table with leases | two servers, lost leases, crash between insert and mark | `DeviceSetup`, promise in `DeviceSetupJob` |
| local guard | `scripts/ccflare-guard.mjs` | permits, body readers, queues, lifecycle | aborts in every wait, a backend replaced underneath | `Guard` |
| backend deployment | `scripts/ccflare-deployment-transaction.mjs`, `scripts/run-ccflare-stack.sh`, `scripts/deploy-ccflare.sh` and its library | journal, owner, receipt and commit files, the pin, processes | a death, lost answer or timeout between any two steps | `Deployment` |
| async DB writer | `packages/database/src/async-writer.ts` | two queues with caps, one job running | alternation, dropping, dispose | its FIFO, cap and dropping in `RateLimitCooldown` |
| routing, affinity, governor, usage, turn state, rescue, alerts, conversion, schema, dashboard, CLI | see `PROJECT.json` | | | not modelled, section 6 |

How the parts interact. A request reaches the guard (`Guard`), which sends it to
the backend in force; `Deployment` decides which backend that is. In the backend it
is admitted (`BodyAdmission`), routed, by `QualityRoute` if its session asks for
that, to a candidate the breaker and the cooldown allow, given a fresh token
(`TokenRotation`), possibly held back by degraded mode, and sent over HTTP or a
pooled socket (`CodexWebSocket`). Its answer feeds the breaker, the cooldown,
degraded mode and the session's row; a cooldown is written to the account's row
through the database writer. `DeviceSetup` adds accounts. Two modules share a
piece of code: `attachReplacement` and `beginRecycle` of the guard appear in
`Deployment` as the two answers the runner sees, and in `Guard` as what they do to
the requests. `Deployment` relies on the result of `RecycleDrained`: when
`beginRecycle` answers, nobody uses the old backend.

## 2. How the code is modelled

Common conventions:

* A step is a synchronous piece of code: what runs between two `await`s, with the
  effect of the call that is awaited. Two pieces the loop cannot separate are one
  step. In `Deployment` a step is one durable write, process start, reap or control
  command, as several processes run and each may die between any two.
* Deadlines are kept as the time left until them and counted down by `Tick` or
  `Pass`, so that clocks need no bound; expiry stays as lazy as in the code.
  `RateLimitCooldown` alone keeps absolute times up to `MaxTime`, because stored
  deadlines are compared with each other.
* Configuration and payloads are reduced to the choice they cause.
* History variables are marked as such and never read by an action's guard.
* Definitions named in `PROJECT.json` under `map` carry the lines they stand for.
  An operator that deviates from the code and is used by no action is a mutant: a
  plausible bug that shows a property can fail.

### CircuitBreaker

`entries` and `order` are the `Map` and its insertion order. `ShouldAllow`,
`RecordSuccess`, `RecordFailure` (which evicts when the map is full), `ForceClose`
and `Tick` are the actions. `NoOverlappingProbes` is the "exactly one probe"
promise across closings, evictions and abandoned leases; `BackoffKept` says a late
failure never shortens a backoff; `NotWedged` says an account whose failures cease
is closed or probed again.

Run `breaker`: three keys in a table of two (eviction happens), threshold, base
cooldown and lease 2, cap 3 (the doubling meets the cap). Fairness: time passes and
requests keep asking `shouldAllow`. Both are environment assumptions; without
demand the code, which is lazy, does nothing.

### TokenRotation

One account id, as all maps are keyed by it. `procs` are the callers of
`refreshAccessTokenSafe` and the rows the scheduler is working on, with a program
counter per `await`; `db` is the row with its generation (`created_at`), `pending`,
`wal` and `walQueue` the outbox, its file and the chain of file operations, any of
which may fail before or after it has replaced the file;
`inFlight` and `backoff` the two caches; `live` and `valid` what the provider
honours. The provider is external: one token of a login is honoured, an exchange
consumes it. `Faults` chooses what may fail: a write that throws, a write that is
applied and throws, a read, a log write, a lost answer, a revocation, a crash.
`Operator` chooses re-authentication, removal with re-creation, and the clearing of
the refresh cache.

One timing assumption (`young`): an access token, which lives for hours, does not
expire during the refresh or re-authentication in which it was minted.

Run `rotation`: one request and the sweep, two logins, two generations of the
account, every fault and every operator action. Two callers are the least that race,
and two tokens per login are enough for it (the consumed one and its successor). That
more callers change nothing is proved for `RowNeverRegresses` and `FileMatchesOutbox`,
and for `NoDoubleExchange` and `QuarantineJustified` as long as the operator only
re-authenticates. With the other operator actions these two except a login
whose refresh was running when it was forgotten (`cleared`, section 5). The bounds on
logins and tokens make the run stop.

Run `rotation_kept` finds `RotationKept`, the promise of the comment at
`token-manager.ts` 907, violated in five states: one request, failing reads.

### BodyAdmission

The controller with its queue, leases and counters, the response wrapper, abort
signals and shutdown. The loop of `drain()` is one iteration per step with
everything else held off until it ends. `BudgetExact` ties the incrementally kept
counters to the leases (`Accounting`) and says that the oldest waiting request never
fits (`NoStrandedHead`), so that no abort or shrunken lease leaves room unused;
`NoOvertaking` is the FIFO promise; `WaitersSettle` that no request waits forever.
That the budget is kept (`BudgetKept`) is proved.

Run `body_admission`: four requests, budget 5, queue of 2, multiplier 2, bodies of
0..2 and unknown length: some fit together, some never, and the queue overflows.
Fairness: the loop of `drain()` goes on, handlers return and provider streams end.
The last two are assumptions about the environment: a stream that never ends keeps
its lease, and those behind it wait. Each request comes once, so the run stops.

### DegradedMode

The coordinator in `enforce` mode: `Observe`, `Reserve`, `Commit`, `Cancel`,
`Settle`, the overload answer that observes and settles at once, the watchdog of
the lifecycle adapter, and the pruning every entry point starts with. `permit` is
the fenced permit; `holder` and `owed` are history.

Run `degraded`: two cohorts for one slot, two accounts, two reused requests, an
absent or an excessive Retry-After. `MaxEpoch` bounds the entries ever made and
`MaxGeneration` the transitions of one; two epochs give a stale permit a new entry
to meet. Fairness, for `ProbeSlotReleased`: time passes, the watchdog timer fires
and a handler that holds a reservation commits or cancels it; nothing is assumed of
the provider.

### RateLimitCooldown

One account. Every request holds its own `object`, read when it was routed, so
copies drift apart. A hold reaches the `row` through the FIFO of the writer
(`queue`, `running`: enqueued, dropped at the cap, failing) or through the write
that concurrent requests share (`active`, `pending`). Each statement is a step.
`late` and `cleared` are history for `AcknowledgedIsDurable`, which excepts a hold
that was lifted while its request waited and a join after the write it joined had
been lifted. `AttemptReturns` is the `finally` around an attempt, which returns the
probe lease once more.

Run `cooldown`: three requests, resets of none or 3, every cap at 1 or 2, three
instants. It ends at `MaxTime`, hence no deadlock check.

### CodexWebSocket

A turn is a call of `tryRequest` and the body it returns; a socket is named after
the turn that opened it; `pool` is ordered by `lastUsedAt`. `Begin` to `Resume` are
eligibility, lane and cap checks, handshake, and the write of the frame; `Arrives`,
`Decode`, `Pull` the events; `EndOfStream`, `DownstreamCancel`, `Abort`,
`PreCommitFailure`, the timers and `SocketFailure` the ways a turn ends; `Shutdown`
closes all.

`EventLoopFree`: a turn whose handshake just opened is resumed by a microtask, so
sockets and timers wait for it, while other continuations do not. Any socket may leave
`OPEN` before its close event; `passedOver` remembers the lanes in which a turn then
went past an entry that was still busy. A `send()` that throws is taken not to have
written anything; in the code a canary attempt that is not hosted then fails over to the
next candidate (`handlers/proxy-operations.ts` 8511-8640), which would be a replay if
the frame had gone out after all.

Run `codex_socket`: three turns, three conversations of two accounts, one of them with
two identities (model and credentials), two sockets in all and one or two per account,
one buffered frame. With two per account the caps do not stand in the way of a second
socket of a conversation, so the lane checks alone keep it out. Three turns are the
least in which a third evicts or reuses what two others left. Symmetric are the turns
and the two identities. Turns end, so no deadlock check.

Run `codex_cap`, with a fourth turn, finds `SocketCapKept` violated (section 5).

### QualityRoute

One session. `row` is its durable record: the incarnation, the root's preference,
ingress tickets, the conversations (root and an identified child) with revision,
home and home version, and the leases with their dispatch fences. Every repository
call is a compare-and-swap of the whole row, retried on a conflict, so it is one
step, together with what its caller does in memory on the answer; the answer may be
lost and the call may fail. `req` are the requests: `reserveOrdered` and
`reserveIngress` (tickets), `acceptRoot`/`acceptChild`, `acquireLease`, `bind`,
`fenceDispatch`, `recheck`, `send`, `answer`, then `complete`, `persist` and
`retryTimer` of the settlement recovery. `retryPreferred` is the operator's retry
command, `Pause` lets leases and an idle session expire, `Crash` ends the process.
`line` is the order of arrival, for `LatestIntentWins`.

Run `quality_route`: a root request and one of any kind with two candidates, two
targets, two incarnations, one fault and one pause. Two requests are enough for one
to supersede, race or clean up after the other (two of one conversation only as roots);
the second candidate gives a home that moves. Fairness, for `OutcomeSettles`: the recovery's timer fires and a write
that is retried often enough goes through. Faults and incarnations are bounded, so
the run stops.

### DeviceSetup and DeviceSetupJob

`DeviceSetupJob` is what a job promises whoever works on it: created once, account
inserted while authorization is awaited, one outcome per selection, in order, a
verdict that follows from the outcomes, no change once settled. `DeviceSetup` is
the code: on each server an authorization (`initialize`, `completeAuthorization`
with its heartbeat) and a recovery pass (`performTick`, `reconcile`), the
conditional statements of the repository, `dispose`, `drain`, crash and restart. A
statement may fail (`StatementFails`), also one that has inserted the job and cannot
read it back (`CreateUnread`).
Jobs share nothing but the order of a pass, so one job is enough. A write takes up
to `MaxDelay` and carries the time at which it was issued, since the statements
compare the stored expiry with a `now` computed before the call.
`ImplementsJob` is the refinement, with the columns of the row as the mapping.

Run `device_setup`: two servers, two selections, one stop or crash, one failing
statement or stalled routing step; lease 4, heartbeat 1, delay 1, which satisfies
`Lease > Beat + 2 * MaxDelay` as one minute and twenty seconds do in the code.
Fairness, for `JobSettles`: statements and providers answer, passes recur, the
supervisor starts a stopped server, time goes on.

### Guard

`s` holds the closure of `createGuard` and the position of every handler; operators
that map such a record to another are the synchronous functions (`drainQueue`,
`drainBodyReaderQueue`, `release`, `releaseBody`, `acquire`, `AbortAll`,
`FailBarrier`, `OpenBarrier`), actions run from one `await` to the next. A request
passes the lifecycle barrier, the permit queue, the body readers and the queue
again, is fetched, may sleep through a trusted recovery and retry. `Aborts` are
client disconnects and deadlines at every wait. `beginRecycle`, the grace timer,
`attachReplacement` with its verification, and `shutdown` are the lifecycle. Any body
may be refused for its declared length before it is given a reader (`bodyPlan`).

Run `guard`: two limited requests, one of them without a body (it takes a reader and no
bytes), and one that passes through and fills the body budget alone, one permit, two readers, two attempts, two replacements. Two limited
requests on one permit make one wait, resume and be overtaken by a lifecycle change;
the refusals for a full permit or body queue need a fourth request and are not
reached. Fairness, for `RequestsSettle`: handlers run on, uploads, upstreams and
sleeps end, the grace timer fires, an absence ends by a replacement or a shutdown.
No deadline is needed.

### Deployment

`journal`, `owner`, `pin`, `loaded`, `receipt` and `commit` are the files (and what
systemd loaded from one of them), `proc` every backend ever started, `runner`,
`guard`, `listener` and `deployer` the processes with their shell variables and
positions. `recoverTransaction`, `advanceTransaction` and the phase table are those
of the journal; the runner goes from start-up recovery (`Start`) through
spawn, health, verification, commit and attach to supervision, memory recycle, cold
handoff, rollback and operator hold; the deploy script from `Deploy` through
`RequestHandoff` or `prepareBootstrap`, the pin and `commit_backend_handoff` to
`CheckDeployment`. The journal names the binary that was running (`journal.bin`) apart
from the version of the prior pin (`journal.prev`); a rollback starts the former. A
killed runner leaves its listener running or takes it along. `Fault` covers deaths,
timeouts, lost answers, failed writes and failed checks, the operator's restarts, and
the time after which `schedule_restart` forgets earlier failures.

Run `deployment`: two deployments, one memory recycle, two faults. A second
deployment meets what the first left; two faults are a death and one more during
its recovery. Fairness, for `HandoffCompletes`: a started runner and a started
script go on. Deployments and faults are bounded, so the run stops.

## 3. Runs

| run | distinct states | properties |
|---|---|---|
| `breaker` | 5,866 | `NoOverlappingProbes`, `BackoffKept`, `NotWedged` |
| `rotation` | 4,530,444 | `NoDoubleExchange`, `QuarantineJustified`, `FileMatchesOutbox`, `RowNeverRegresses` |
| `rotation_kept` | violated, 5 states | `RotationKept` |
| `body_admission` | 299,898 | `BudgetExact`, `NoOvertaking`, `WaitersSettle` |
| `degraded` | 49,831 | `OneProbeInFlight`, `OnlyLatestProbeRecovers`, `RetryAfterHonoured`, `ProtectionKept`, `ProbeSlotReleased` |
| `cooldown` | 1,591,166 | `AcknowledgedIsDurable`, `HoldsNeverShorten` |
| `codex_socket` | 900,810 | `SocketsCounted`, `NoReplayAfterWrite`, `OneTurnPerLane`, `TurnsIsolated` |
| `codex_cap` | violated, 15 states | `SocketCapKept` |
| `device_setup` | 261,116 | `AccountNotOrphaned`, `ImplementsJob`, `AuthorizationNotStolen`, `JobSettles` |
| `deployment` | 575,905 | `SoleOwner`, `DeployedStays`, `CandidateServesCommitted`, `HandoffCompletes` |
| `guard` | 211,760 | `LimitsExact`, `NoReplayOnReplacement`, `RecycleDrained`, `RequestsSettle` |
| `quality_route` | 640,327 | `SingleFlight`, `FenceKept`, `HomeJustified`, `LatestIntentWins`, `OutcomeSettles` |

Ten runs pass. In the other two TLC shows that the code does not do what a comment or
a document says (`findings` in `PROJECT.json`, section 5). `about` in `PROJECT.json`
says in a sentence what each run shows; the comment above a property states it in
words. Where `TypeOK` is not a theorem of its own the type
invariant is a conjunct of one of the run's invariants. Liveness runs use no
symmetry.

## 4. What is proved

The proofs hold for every value of the constants that the named assumption of the
module allows, thus for any number of accounts, requests, servers, deployments or
faults. Each proof has one step per action.

| module | theorem | argument |
|---|---|---|
| `CircuitBreakerProofs` | `TypeCorrect` | `TypeOK` is inductive |
| | `ProbesNeverOverlap` | `NoOverlappingProbes` alone is not inductive: a circuit could leave "half-open" and return with the old probe still out. `Inv` adds that a cooldown or a lease covers what is left of the last probe's lease (`LeaseGuarded`), which needs the lease to be no longer than the base cooldown, and the bounds of an entry |
| | `BackoffStaysBounded` | a conjunct of the same `Inv` |
| | `BackoffNeverShrinks` | an action property, from the bounds in `Inv` |
| `BodyAdmissionProofs` | `TypeCorrect`, `BudgetAlwaysKept` | inductive together: the clamped subtractions never grow the sum, and an admission is guarded by the room |
| | `RoomNeverWasted` | `NoStrandedHead` with "shutdown leaves the queue empty" |
| | `FirstComeFirstServed` | an action property. `InLine`: the queue holds exactly the waiting requests, in the order of their tickets, so a grant, which takes the head, passes nobody |
| | `BooksBalance` | `Books`: the counters are the sum and the number of the leases held. `reduceTo` and `release` clamp at zero; the balance is exact because they are called only for a lease that is held, so the clamps never cut anything off. With `RoomNeverWasted` this is `BudgetExact` |
| `RateLimitCooldownProofs` | `TypeCorrect` | the writer's queue bound included |
| | `HoldsOnlyLifted` | an action property, from `TypeOK`: each statement extends the deadline or sets it to null |
| | `AcknowledgedHoldsAreDurable` | `Covered`: a waiting request's deadline is at most that of the write in flight or of the follow-up, and a landed write is in the row or was lifted |
| | `LeaseAlwaysHasProbe` | inductive with the types |
| `TokenRotationProofs` | `TypeCorrect` | `Inv` adds what each program point knows of its token, generation and rotation (`ProcsSound`), that a row has a token (`RowSound`) and that a caller waiting for the log file owns at most the operations it queued (`OwnersWait`) |
| | `FileAlwaysMatches` | an action property, with every fault: the last operation that is queued has the outbox's entry, so the step that carries it out leaves the two equal, and one that fails either changes nothing or has replaced the file |
| | `TheRowNeverRegresses` | an action property, with every fault and operator. The writes are guarded by the expected token only, so `TokInv` says what the tokens are to each other: a refresh holds a spent token and its successor, an entry of outbox, file or queue leads from a spent token to a later one, a token is in nobody else's hands until its refresh records it (`Private`), and an entry that is being flushed is replaced by later ones only (`Captured`) |
| | `OneExchangeAtATime` | `SoloInv`: whoever is on its way with the row's token has its promise in the map of running refreshes, so a second caller joins it. Assumes `Operator \subseteq {"reauth"}`: clearing the refresh cache by hand, and removing the account, forget a refresh that is still running, and then the property is false (section 5) |
| | `OnlyLostAccountsAreQuarantined` | an action property from the same `SoloInv` and under the same assumption: who is refused the row's own token was alone with it, and nothing of its generation awaits a write, so its successor is nowhere (`Doomed`) |
| `DegradedModeProofs` | `ProbesDoNotOverlap`, `LatestProbeDecides` | `Leases`: a probe's permit was made by the entry that is there now or by one deleted before it, no two probes share epoch and generation, a probe on the wire holds the committed lease of its cohort, and who matches the lease is who was granted it |
| | `RetryAfterKept` | an action property: what a cohort still owes is at most its wait (a conjunct of `IInv`) |
| | `ProtectionStays` | an action property, from what every entry point does to a cohort (`Follows`): capacity evicts only cohorts that are not protected |
| `DeviceSetupProofs` | `JobImplemented` | the refinement. Every step of a server is a step of `DeviceSetupJob` or a stutter, since what a worker remembers of the outcomes is a beginning of the stored ones (`LoopSound`): a worker that lost its lease writes nothing that is out of order |
| | `CrashesOrphanNoAccount` | `LeaseSound`: the lease renewed just before the account is inserted outlasts the insertion; `EarlySound`: while an authorization holds the lease nothing happened behind it; `FailSound`: who gives up has looked for the account |
| | `AuthorizationKept` | `Timely`: what is left of the lease outlasts the next heartbeat, the one under way or the one the timer will send; this is where `Lease > Beat + 2 * MaxDelay` is used |
| `GuardProofs` | `NeverReplayed` | `Owned`: a request was sent only to the generation it belongs to, and belongs to none before it was sent. The synchronous functions are shown once to leave both alone (`Kept`), so only `dispatched` matters |
| | `LimitsKept`, `ReapedWhenDrained` | `Good`: the books of permits, readers, queues, waits and generations agree (`Safe`), and while work may be admitted no permit and no room is free that somebody waits for (`PermitsUsed`, `ReadersUsed`). The functions break the last two in the middle of a handler, so each one is shown to keep `Safe`, and the drains at the end of a handler to restore the rest |
| `DeploymentProofs` | `OneOwner` | `SoleOwner` says nothing of a backend whose runner died. `Processes` adds it: at most one backend exists, it is the child of the runner, or the runner is down and the owner file names it or says that one is being started, which `Start` does not pass |
| | `DeploymentsStay`, `CandidatesServeCommitted` | `Deployed` relates the positions of runner and deploy script to the files: at which phases and with which pin the script is where (`Script`), that a runner with a candidate has a transaction under way and a guard that knows of it (`Carried`), that a transaction is committed only by its own commit file and the pin then names its candidate (`Sealed`), and that all that exists runs what was reported deployed (`Running`) |

Of these, `BudgetKept`, `BackoffBounded`, `LeaseHasProbe` and the
type theorems are proved only; the others are also properties of a run.

Two proofs need induction over data. `Accounting` and the byte budget of the guard
are sums over a set, and what filtering a queue leaves in it is a recursive
function of its length (`Keep` in `Guard`). The library's induction theorems take
an operator and cannot be applied; the induction is made on a set of numbers
instead, with the least element of its complement (`NatMin`, `Induct`, from the
well-foundedness of `<`).

Only model-checked:

* liveness (`NotWedged`, `WaitersSettle`, `ProbeSlotReleased`, `JobSettles`,
  `HandoffCompletes`, `RequestsSettle`, `OutcomeSettles`), since fairness is out of
  the prover's reach;
* `SocketsCounted`, `NoReplayAfterWrite`, `OneTurnPerLane` and `TurnsIsolated` of
  `CodexWebSocket`, and `SingleFlight`, `FenceKept`, `HomeJustified` and
  `LatestIntentWins` of `QualityRoute`: provable in principle, not attempted.

## 5. Observations

Met while modelling, and worth knowing when one reads the code. The first two are what
the runs with a violated property show.

* `token-manager.ts` 827, 917 (`rotation_kept`): after the provider has rotated a
  token, a database read that throws ends the refresh with the new token neither
  written nor queued (compare the comment at 907). There are other ways to lose a
  rotation, which appear with other constants. With `Faults = {"write", "crash"}` and
  four rotations: a crash between the write of the row and the removal of the file
  leaves an entry whose anchor the row no longer has, and the next rotation, compressed
  onto it, is dropped as superseded. With `{"write"}`, a request, the sweep and three
  rotations: the same anchor without a crash, although the comment at
  `pending-rotation-registry.ts` 146-148 says "the DB never moved".
* `codex-websocket-transport.ts` 286-290 (`codex_cap`): if the socket of a busy turn
  leaves `OPEN` before its close event, the next turn of the conversation opens a socket
  under the same key, the end of the old turn deletes the new entry, and the new socket
  is outside the caps of `docs/configuration.md` 264-265. `SocketsCounted` and
  `OneTurnPerLane` hold for all other conversations.
* `rate-limit-cooldown.ts` 336-338 says "the 429 path keeps its existing
  last-writer-wins behavior", but `account.repository.ts` 291-339 keeps the later
  deadline for both kinds of hold; `HoldsNeverShorten` states what the code does.
* `accounts.ts` 3640, 3719, 4542: clearing the refresh cache during an exchange
  lets a second exchange of the same token start. `NoDoubleExchange` and
  `QuarantineJustified` except the logins concerned.
* `device-setup-jobs.ts` 870-893: when a statement fails right after the account
  was inserted, the job can be settled as `authorization_error` with its account
  left behind. `AccountNotOrphaned` excepts `errors > 0`.
* Quality routing: a lost answer to `beginDispatch`, or a death after it, leaves a
  fence that no recovery removes, as `docs/troubleshooting.md` 1157-1158 says; only
  a newer intent does. `FenceKept` and `OutcomeSettles` are stated accordingly.
* Deployment: a script that dies after `prepared` leaves a journal that keeps
  later deployments out until the stack is restarted, and a memory recycle then
  ends in the operator's hold. A script that installs the pin just as the runner's
  commit wait runs out leaves the new pin beside a rolled-back journal; the runner
  refuses to start on it. `DeployedStays` ends with the next deployment and
  `CandidateServesCommitted` speaks of candidates, so neither covers what a rollback
  attaches.
* `ccflare-guard.mjs` 1942: during a drain, a dispatched request whose retry is
  queued behind one that has not been dispatched waits, with a permit free, until
  the grace timer aborts it. `LimitsExact` speaks of free permits only while work
  may be admitted.
* `proxy-operations.ts` 8095: the assertion fails for a recovery send answered with
  an overload after the recovery window has ended: the cohort has been pruned, and
  the client gets an internal error.
* `circuit-breaker.ts` 492: a steady trickle of counted failures of stale callers
  does keep an open circuit from its next probe, although the comment says it
  cannot; `NotWedged` therefore assumes that the failures cease.
* `token-manager.ts` 673-680: with a failed flush and an expired access token in
  the outbox, the outbox entry's refresh token is adopted first and then replaced
  by the row's, which has been consumed (compare the comment at 801-803).
* After removal and re-creation under one id, the clean-up of the removed
  generation also clears the cache and the outbox of the new one.
* `rate-limit-cooldown.ts` 564: a request that joins a write whose effect was just
  lifted is told its hold is durable (`late`). `completeRateLimitProbe` returns the
  lease whoever calls it. Awaited 429s that share a write count once in the streak
  (`account.repository.ts` 292). The hourly clearing of expired limits also ends the
  gate of a mature cooldown.
* `codex-websocket-transport.ts` 532: between the open event and the resumption of
  its turn a new entry looks idle and may be evicted; the turn then times out with
  a 504. `shutdown()` of the transport has no caller in the server.

## 6. Not modelled

The models cover the parts of the code in which several actors share state over
several steps. They are a small share of its lines: most of the repository
is stateless translation between provider formats, SQL and schema upkeep, HTTP
endpoints that read, a dashboard, a command line, and benchmark and evaluation
scripts. Of the remaining parts with state, `components` in `PROJECT.json` says for
each why it is left out: the session governor, affinity, turn state and the
attempt ledger run to completion inside one synchronous call or belong to one
request; the multi-instance guard only warns; usage polling is advisory.

Within the modelled parts:

* logging and metrics everywhere;
* observe mode, owner overlay and cohort classification of degraded mode;
* the refresh forced by a 401, the copies of the refresh path for two other
  providers, and log files without a generation;
* rate-limit metadata columns and the writer's payload queue;
* byte sizes, headers and telemetry of the WebSocket transport;
* how quality routing compiles and checks candidates (any check may refuse),
  decision records, the limits on rows, tickets and leases; a repository commit and
  what the caller retires in memory on its answer are one step;
* validation and the public view of device setup jobs, and `markExpired`, which has
  no caller;
* how the guard classifies a 503 and computes its delay, streaming, the health
  endpoint;
* building and pruning artifacts, rendering the pin, the gateway tunnel and the
  mode without a persistent guard.
