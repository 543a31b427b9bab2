# Acropolis MCP gateway: TLA+ models and proofs

Acropolis is a gateway between MCP clients and MCP servers. The data plane (`argus/`)
authenticates a JSON-RPC request, decides it by the server's policy, and forwards or
refuses it. The control plane (`archon/`) edits policies, users and settings. Background
jobs (`stoa/`) poll, sweep and alert. All of them share one Postgres database (`db/`), and
every replica is one asyncio process.

The models here are about what happens between two awaits, between two statements, and
between two processes. A step of a model is the code from one suspension point to the next;
one database statement, or one transaction, is one step.

## Inventory

| Component | State | Operations | Interacts with | Hard behaviour | Correct when |
|---|---|---|---|---|---|
| Rules engine `argus/policy.py`, `dlp.py` | none; match workers | `evaluate`, `_check_param`, `dlp_scan` | called by the pipeline | a worker is late, killed, not started | a lost answer never loosens a decision |
| Request pipeline `argus/pipeline.py`, `policy_api.py` | one coroutine per request | `handle`, `_process`, `_enforce`, `_handle_bridged`, `_forward` | store, limiter, metering, audit, credentials, upstream | the policy changes under the request; a failure or a cancellation at any await | one true decision row; a blocked call never leaves |
| Policy store `db/repo.py` | `server_policies`, `tool_policies`, `param_rules` | `set_policy`, `get_policies_for`, `delete` | pipeline, approvals, GitOps | a read of three statements | a reader sees one stored policy |
| Approvals `archon/approvals.py`, `stoa/proposals.py` | `proposals`, the toggle | propose, approve, reject, expire | store, admin audit | two resolvers; a crash between apply and resolve; drift | four eyes; approved means applied; a resolution is final |
| Rate limiter `argus/rate_limiter.py`, `rate_limit_valkey.py` | a bucket per server key | `ensure_current`, `check`, `unregister` | metering, server deletion | stale limits, lost replies, clock corrections, expiry | no window admits more than a bucket and its refill |
| Metering `argus/metering.py`, `quotas.py` | `usage_rollups` | `check_quota`, `record_usage` | pipeline, webhooks | check, then count; both fail open; periods turn | every admitted call is accounted for; bounded overshoot |
| Webhooks `stoa/webhooks.py` | debounce maps, send cap | `notify_*`, `fire_quota_threshold` | audit, metering, health, GitOps | bursts, eviction, the window that turns over an await | one alert per threshold and period; silence means nothing happened |
| Audit `argus/audit.py` | a queue, subscriptions | `log`, `_broadcast`, `_flush_batch` | everything | a failed batch, shutdown, a full subscription | every event is stored in order or accounted for |
| Credentials and tokens `argus/credentials.py`, `tokens.py` | a token cache, published keys | `resolve`, mint, refresh | pipeline, rotation | a re-mint in the background while keys are replaced | the cache holds tokens of the signing key only |
| Key rotation `argus/rotate_key.py` | three settings | `rotate`, `current`, the refresh loop | tokens, JWKS | three writes against three reads; a command that dies between them | the issuer is a copy of rows that were stored; a gap in the published keys has a known cause |
| Bridge and handshake cache `argus/bridge.py`, `upstream.py` | a session per server, a lock | handshake, call, retry after 404 | pipeline | invalidation during a handshake | a restart of the upstream costs a later call one retry |
| Tool catalog cache `argus/toolslist.py` | catalog per server | fetch, store, invalidate | pipeline, approvals, API | two stores at once; a fetch older than an invalidation | the catalog is one answer of the upstream |
| Aggregate endpoint `argus/aggregate_pipeline.py` | none | fan-out, re-dispatch | pipeline | partial answers | a call is decided by its own server |
| Health poller `stoa/health.py` | status per server | `poll_once`, `poll_one` | store, webhooks | overlapping probes; a probe cut off before its alert | one alert per outage |
| GitOps `stoa/gitops.py` | status and plan | check, reconcile | store, webhooks | a check beside a reconcile | the plan shown is the plan applied |
| Sessions, roles `archon/sessions.py`, `setup.py`, `rbac.py`, `oidc.py` | users, session versions | setup, login, password change, logout, role change, disable | API | two statements per change; a crash between them | what was ended stays ended; roles are on record |
| Projects `archon/project_rbac.py`, `db/repo.py` | projects, members, owners | create, delete, add and remove members, own | API | checked first, written later | no row refers to a project that is gone |
| API keys, secrets, config import, retention, tracing, web console | rows, files | CRUD, I/O | | sequential | out of scope, see *Not modelled* |

Requests share no memory except the limiter's buckets, the debounce maps, the caches and the
audit subscriptions; everything else they share is a table.

`PROJECT.json` lists the hazards of this code, each at its line, with the properties that
would catch it.

## Plan

1. `Policy`, `PolicyEval`: the rules engine and its reference definition. *Done, proved.*
2. `Pipeline` (extends `Policy`): the request path against the store. *Done, proved.*
3. `Approvals`: four-eyes change control. *Done, proved.*
4. `RateLimiter`, `Metering`: limits and quotas. *Done, proved.*
5. `SigningKeys`, refining `RowCopy`: `rotate_key.py` and `tokens.py`. *Done, proved.*
6. `Sessions`, `Projects`, composed in `ControlPlane`. *Done, proved.*
7. `Upstream`, `Health`, `AuditTrail`, `Webhooks`, composed in `Operations`. *Done, proved.*
8. Open: the aggregate endpoint's way into `Pipeline`, the GitOps poll, config-import
   proposals.

## Modules and code

**`Policy`** has the pure operators: `CheckParam` is `_check_param` (denied, `max_length`,
block patterns, allow patterns, numeric bounds, in that order), `Evaluate` is `evaluate`,
`ToolIsVisible` is `tool_is_visible`. A value is its length and, when it reads as a number,
that number; a pattern is what it says of a value; `MatchWithTimeout` gives matched, not
matched or undetermined. **`PolicyEval`** puts one call before the engine and loses the
workers' answers one at a time.

**`Pipeline`** has one record per request with its program counter. `Arrive`,
`ResolveServer`, `Authenticate` are the front of `handle`; `AnswerAtOnce`, `BeginCall`,
`BeginOther` are the branches of `_process`; `ReadServerPolicies`, `ReadToolPolicies`,
`ReadParamRules` the statements of `get_policies_for`; `CheckRateLimits`, `CheckQuota`,
`EvaluateCall`, `RecordUsage` are `_enforce`; `ResolveCredential`, `Forward`,
`UpstreamAnswers`, `UpstreamFails`, `ScanResponse` the rest, wrapped in the `finally` that
writes the deferred row; `Abandon` is a cancellation or an uncaught exception at any await.
Limiter, quota, credential and upstream verdicts are free choices here. The ghost `stored`
is the set of policies stored while the request was reading. `captured` is the last event
of a Try-it call's audit subscription.

**`Approvals`** has one handler per control-plane request: PUT policy (`Put*`,
`DirectWrite`, `Propose*`), approve (`Approve*`), reject (`Reject*`), each step one await;
`Crash` drops a handler anywhere; `ExpireDue` is the sweep, one UPDATE, made only while the
TTL is above 0 (`expiring`). Deletion, re-creation, the toggle, edits of the TTL (`SetTtl`)
and the reconcile go on around it. The ghosts record who applied
what (`applied`), over what (`drifted`), and whether an ungated writer was ever possible.

**`RateLimiter`** has the bucket arithmetic in units of a fraction of a token, once per
replica (`InMemoryBackend`) or once for all (`ValkeyBackend`). In memory, registration and
consumption are one step because nothing between them suspends; with Valkey the script is
a step of its own, whose reply may be lost. The ghost `window` lists the admissions since
the limit in force on the bucket last changed.

**`Metering`** has the coroutines of the calls of a key: the rate verdict, the total, the
alert, the count. The sum of the buckets since a period began is the total less the total
at that time. `Restart` forgets the calls in flight and `_quota_fired`. `admitted` counts
the calls let past the quota; a call cancelled before it is counted never went upstream and
leaves it again.

**`SigningKeys`** has the three settings rows, the commands that write them one by one
(`RotateStart`, `WriteActive`, `WritePrevious`, `WriteDropAt`; `RotateFails` stops one
anywhere), the readers of `TokenKeyManager` (`ReadActive`, `ReadPrevious`, `ReadDropAt`,
then `Apply`, which is `_refresh` and `replace_keys`; `ResolveFails` when a key does not
resolve), and the issuer with its token cache (`GetTokenMint`, `GetTokenSchedule`,
`BackgroundMint`). The refresh loop and the JWKS route are readers of the same kind. Time
is a counter; a token carries its key and its expiry. **`RowCopy`** is what the manager
promises: a copy of the rows that is always a state a reader read, and catches up when they
stop changing. `Copy` in `SigningKeys` is the refinement mapping (`INSTANCE RowCopy WITH`).

**`Sessions`** has the users table, the settings that sessions depend on, and a record per
request to the accounts API, each step one statement: `Setup*`, `Login*` and `Read*`,
`Oidc*`, `Pw*`, `Logout*`, `Create*`, `Role*`, `Enabled*`. `Verifies` and `Accepts` are the
cookie's test and the request's (`require_admin`). `Crash` stops a request between two
statements. Ghosts: `ended` and `endedAll` (sessions a request that has returned promised
to end), `lost` (the global version put back to a lower one), `record` (what the audit
events say), `raced`, `cutShort`. **`Projects`** has the projects, members and owned rows,
with the foreign keys that decide in the end (`Deletable`, `Referable`).
**`ControlPlane`** joins them: a caller of the projects API is who `Sessions` says.

**`Upstream`** has one upstream with sessions (external: it restarts, goes away, changes
its tools), the handshake cache with its lock (`GetOrHandshake`, `Locked`, `Initialize`,
`Initialized`), the bridged call with its retry (`BridgeCall`, `PostAnswered`,
`PostNotFound`, `PostFails`) and the catalog (`GetTools`, `StoreDelete`, `StoreCommit`,
`Invalidate`). **`Health`** adds the probes, which share the cache. **`AuditTrail`** has the
queue, the batch and the live tail. **`Webhooks`** has the debounce window, its tasks, the
send cap and the notices. **`Operations`** composes the four: a refusal that is logged
reaches the dispatcher through the tail, a probe's alert is a send of the dispatcher, and
the lifespan stops poller, dispatcher and audit logger in that order.

## Runs

| Run | Bounds | Shows |
|---|---|---|
| `policy_eval` | two tools, one parameter, two patterns, every small rule, numbers below, at and above its bounds | `ForwardedComplies`, `AnsweredIsExact`, `LoadOnlyTightens` |
| `pipeline` | one request of every kind, three edits, five policies (two that refuse under one mode) | `OneTrueDecisionRow`, `BlockedNeverSent`, `AgreedRefusalHolds`, `AgreedScanHolds`, `UsageFollowsRows` |
| `pipeline_torn` | one call, one edit | violation: `PolicyIsOneStored` |
| `pipeline_tryit` | two requests | violation: `TryItReportsItsOwn` |
| `approvals` | two handlers, two people, one proposal, three edits | `FourEyes`, `ApprovedWasApplied`, `GatedPolicyReviewed`, `EventsAreTrue`, `ResolvedIsFinal`, `PendingIsResolved` |
| `approvals_drift` | two handlers, two proposals | violation: `AppliedOnBaseline` |
| `rate_limiter` | two requests, two replicas, two limits, four ticks, one edit or clock correction | `WindowLimit`, `ExpiryForgetsNothing` |
| `metering` | three calls at a time, six in all, quota 5, two periods, a debounce map of one entry | `Accounted`, `OvershootBounded`, `AlertsAscend` |
| `metering_alert` | two calls at a time | violation: `ReachedIsAlerted` |
| `signing_keys` | one rotation, the loop and one route, token life 1, overlap 2, three ticks, one fault | `IssuerIsFingerprint`, `CachedTokenIsCurrent`, `GapHasCause`, `FollowsRows` |
| `control_plane` | an administrator and a federated user, two sessions, two requests to each API, three operations, two projects | `EndedStaysEnded`, `LogoutAllHolds`, `SetupWonOnce`, `SetupLeavesAdmin`, `RoleOnRecord`, `NothingOrphaned` |
| `operations` | two calls, two probes, two tool lists, two sends, batch, tail and cap of one, four inputs | `RestartIsAbsorbed`, `CatalogIsOneAnswer`, `AlertPerOutage`, `EventsAccounted`, `RefusalsReported` |

Every passing run but `policy_eval` and `operations` also checks its module's type invariant
(`TypeOK`; `PipelineTypeOK`, `LimiterTypeOK` and `KeysTypeOK` where a proof module extends
two specifications and the names must differ).
Deadlock is checked in `operations`, where everything under way must be able to finish and
the process to stop; the other models stop when their bounded supply of requests, edits and
time is used up.

Why the bounds are enough:

- `pipeline`: requests meet only in the tables and the audit subscription, and the
  properties are about one request, so what the others do to it is an edit; three edits put
  a different policy under each of the three reads. Two requests are needed, and used, for
  the subscription. The safety properties are proved for any number of requests and edits.
- `approvals`: two handlers suffice for every race of two resolvers, the sweep being a third.
  The safety properties are proved for any number.
- `rate_limiter`: four ticks are the time to live of the slower limit, so that both limits
  refill and expire. With one edit, requests that read the old and the new limit alternate.
  Proved for any limits, replicas, edits and lengths of time.
- `metering`: usage starts two calls below the quota and five fill a period, so that six
  calls cross a threshold in both periods, the second crossing evicts the entry of the
  first, and a late call of the first period then meets the map without it. With five
  calls this last case is out of reach.
- `signing_keys`: one rotation, three ticks (the overlap and one more) and one fault put
  every write between every two reads of both readers, and every expiry before, at and
  after the deadline. A second rotation within the overlap of the first makes 6.7 million
  states even with two ticks: its safety has been checked that way once, and is proved for
  any number of rotations.
- `control_plane`: three operations are two changes to one account and the login or the
  caller between them; two requests are the most that a property relates. All proved for
  any number.
- `operations`: calls, probes, refusals, alerts, the clock, the operator and the faults draw
  on one budget of four, so that each mix of four of them is met in every order. A restart
  between the handshakes of two calls, two stores, a suppressed send and its notice take
  four or fewer. All proved for any number.
- Symmetry is used for interchangeable identities in the runs without liveness.

### The violations

- `pipeline_torn`: the three SELECTs of a policy read are three snapshots. What remains true
  is in `AgreedRefusalHolds` and `AgreedScanHolds`: what every policy stored during the
  read agrees on (mode included) is enforced.
- `pipeline_tryit`: the Try-it endpoint reports the last event of a subscription to
  everybody's events.
- `approvals_drift`: the staleness check and the write are separate transactions.
- `metering_alert`: the threshold test uses a total read earlier, and calls that the
  limiter refuses are counted without it.

`AlertsAscend` speaks of alerts whose entry the map still holds. An alert whose entry was
evicted can go out a second time in its period: that takes more than 10,000 entries and a
call that crossed the threshold at the same time as the first.

### Conditional properties

Some promises hold except in an overlap that the code leaves open. The property then names
the overlap, a ghost variable records it, and the run reaches it:

- `GapHasCause`: `rotate_key.py` calls the rotation zero-downtime by construction. A token
  can be good and its key unpublished, and the property lists when: a command between its
  writes, or dead there; a gateway that has not caught up; a later rotation; a gateway that
  went on signing with the old key for longer than a token lives.
- `PendingIsResolved`: with `approvals_ttl_days` at 0 or below `expire_due` keeps proposals
  for ever, by design. The property asks for a TTL that is above 0 from some time on.
- `LogoutAllHolds`: `logout_all` and `change_password` add one to a version read earlier.
  Two at once write the same number, which is covered; a writer that several others overtook
  puts a lower one back, after which the property says nothing.
- `SetupLeavesAdmin`: a setup that dies between the settings and the users row leaves an
  instance that is set up and has no administrator, a state that the comment in `login`
  (`setup.py:198`) says could never occur.
- `RoleOnRecord`: overlapping changes of one user's role, and one that dies before its
  event, part the record from the row.
- `CatalogIsOneAnswer`: a store whose DELETE came before another's commit does not see that
  one's rows, and leaves a catalog of two answers (`mixed`). It lasts until the next store
  that none overtakes, from which on the property holds again.
- `AlertPerOutage`: `webhooks.py:226` says an edge fires at most once per transition by
  construction. Overlapping probes can fire it twice, and a probe cut off between its write
  and its alert loses it.
- `EventsAccounted`: `audit.py` drains the queue at shutdown by one batch, so events beyond
  it are lost with the process; the property counts them.
- `RefusalsReported`: a refusal that comes while the message of its window goes out can
  lose its entry to the older task, and two notices at once, or one cut off, miscount. That
  every refusal has a message after it, or a task that will send one, holds without
  exception until the dispatcher stops.

### Fairness

`Approvals` and `SigningKeys` have liveness. In `Approvals`, `WF(ExpireDue)` stands for the
job's loop, which catches whatever an iteration raises and sleeps a fixed time; it promises
nothing while the TTL is off. `WF(Age(p))` says that time passes.
No handler is assumed to finish: people may never act, and requests may crash.
In `SigningKeys` the steps of the refresh loop are weakly fair, since the loop runs for the
life of the process and goes on after an exception; nothing else is. `FollowsRows` then
says that the issuer catches up with the rows once they stop changing, without help from
the JWKS route.

## Proofs

All theorems hold for every value of the constants that meets the named assumptions.

**`PolicyProofs`** (from `PolicyAssumption`: rules and values are well typed, patterns are
known, the value for "none" is no rule's name). `Shaped` is the inductive invariant.
`EvaluateDecides` strips `Evaluate` of its order of checks; `PassedComplies` says that a
value the engine passes complies, and conversely with every answer in. From these follow
`TimeoutsFailClosed`, `AnsweredDecidesExactly` and, with `LossIsWorse` and
`WorseRefusesMore`, `LoadTightens`.

The same module has the limiter (from `RateAssumption`: a limit's cap is its rate times its
period, both positive, and the marker values are no limits, replicas or buckets).
`WindowLimit` is not inductive: it speaks of admissions already made, and the next one
depends on the tokens left. `Budget` joins the two: from any admission on, the calls
admitted and the tokens there are now are paid for by a full bucket and the refill since.
`SlotOK` adds what ties a bucket to the limit its window is about, that it is counted no
later than now, and that its expiry is its last count plus the TTL, from which
`ExpiredIsFull`. Time enters only through products of a rate and an elapsed time; `Products`
and `Monotone` take these apart. The wall clock, which may be set back, only lowers `Have`.
Theorems: `LimiterTypes`, `WindowsAreLimited`, `ExpiryIsHarmless`.

**`PipelineProofs`** (from `PipelineAssumption`: a local evaluation is of a call, and the
value for "none" is no input). None of the six properties is inductive: most speak of a
request that has ended or sent something, and the step that ends it relies on what each
earlier await left behind. `PipelineInv` is a statement per await (`CoroutineOK`): nothing
written until the decision (`Untouched`), then either a row or the promise of one
(`AtUsage`), one increment made or lost and a body that matches the decision (`AtSending`),
and the trace of an ended request (`AtDone`). The finished trace is right because a pending
row is owed only by a call whose response scan is on, so the `finally` blocks write it once
on every way out (`WaysOut`, `SendingFinish`). For the torn policy read, `ModeRead` and
`ToolsRead` say what survives of it: the mode and the scan flag come from one stored policy,
the tool rows from one, each stored during the read. That is as much as `AgreedRefusalHolds`
and `AgreedScanHolds` need, and no more holds (`pipeline_torn`). A policy write disturbs
only the ghost (`NoteStored`) of the requests that are reading. Theorems: `PipelineTypes`,
`OneDecisionRow`, `BlockedStaysHere`, `AgreedRefusals`, `AgreedScans`, `UsageCountsRows`.
TLC agrees with `PipelineInv` on the instance of the run `pipeline`.

**`ChangeProofs`** has the two changes of stored rows that take several statements.
`Approvals` (from `ConstantsAssumption`: the default is a policy and the marker values are
nobody). `Inv` adds to the properties what each await of a handler may rely on
(`HandlerOK`): without it, the approver at the resolve step could be the proposer, or have
applied nothing. `RowsEvolve` (a row only moves from none to pending to resolved) and
`GhostsGrow` carry `HandlerOK` over the steps of everybody else. Theorems: `Invariance`,
`TypeCorrect`, `FourEyesHold`, `ApprovedMeansApplied`, `GateIsTight`, `EventsTrue`,
`ResolutionIsFinal`.

`SigningKeys`, in the same module (from `SigningKeysAssumption`: a positive token life, an
overlap of at least two of them, and `NoneAssumption`). `IInv` adds to `KeysTypeOK` what a
command knows at each of its writes (`CliInv`), that the deadline in the rows is the last
rotation's (`RowsInv`), that the issuer is what its fingerprint loads to, less a previous
key whose deadline has passed (`IssuerInv`), and that only unexpired mints are on record
(`MintInv`). `GapHasCause` needs all of it: it compares a token's expiry with a deadline
computed by a command earlier. `RefinesRowCopy` proves the initial states and the steps of
the refinement, with `HadInv`: what a reader holds are values the rows have held. Theorems:
`KeysInductive`, `KeysTypes`, `IssuerFollowsFingerprint`, `CachedTokensAreCurrent`,
`GapsHaveCauses`, `RefinesRowCopy`.

**`MeteringProofs`** (from `MeteringAssumption`: finitely many calls at once, a positive
quota and map bound). `OvershootBounded` is not inductive: it needs `Accounted`, since a
call is admitted on a total and the bound is about admissions; that needs `PendingAdmitted`
for cancellations and restarts, and `MarksAscend` for a call that read the total of an older
period. `KeyOK` states them as arithmetic for one key. `AlertsAscend` needs `AlertInv`: the
debounce map has one entry per key and period (`OneEntryEach`), and it is at least as high
as every alert that is still held (`HeldRemembered`), through the re-insertion of an entry
and the eviction of the older half. Theorems: `TypeCorrect`, `AdmittedAccounted`,
`SoftQuotaBound`, `AlertsGoUp`.

**`SessionsProofs`** has the lemmas for accounts and sessions, **`ControlPlaneProofs`**
those for role changes, logins and projects, and the theorems. `SInv` says for each place of
a request what it can rely on (`HandlerOK`): the sessions it will have ended are of the user
it changes, and are dead from its version bump on, because a row's version only grows
(`Grows`) and a login keeps the version it read (`Keeps`). `VersionInv` is the same for the
global version while it was never lowered. `RoleOK` relates a role change under way to the row and
the record. `SetupInv` says that a setup that won has its row. `PInv` is inductive for
projects because every insert asks `Referable` in the step that writes. Theorems: `Types`,
`SessionsStayEnded`, `LogoutAllIsFinal`, `SetupOnce`, `SetupKeepsAnAdmin`,
`RolesAreOnRecord`, `NoOrphans`.

**`UpstreamProofs`** has the handshake cache, the catalog and the probes,
**`OperationsProofs`** the audit trail and the dispatcher, both under the next-state
relation of the composition. `RestartIsAbsorbed` is not inductive: `ActorOK` adds that a
call which met no restart and retries can only meet sessions the upstream knows, which needs
that no handshake under way is about to store a dead one (`NoZombie`) and that the lock's
holder is the only one in its section (`LockInv`). `CatInv` says that a store under way
which none has overtaken has seen every row; `HInv` relates the alerts due to the probes
about to raise them; `AInv` and `LossInv` cut the event numbers into stored, batched, queued
and lost. `RefusalInv` says that while no refusal came during a message, one task at most is
about refusals and the entry is its; `NoticeInv` that one notice at most is under way and
the window it is about is over.
Theorems: `RestartsAreAbsorbed`, `CatalogsAreWhole`, `AlertsMatchOutages`,
`EventsAreAccountedFor`, `RefusalsAreReported`.

Every invariant and every action property of the passing runs is proved. Only model-checked
is liveness, `PendingIsResolved` and the liveness half of `FollowsRows`, since liveness
under fairness is outside what the prover does; for `FollowsRows` the proof covers the
initial states and the steps. The four violations are TLC's counterexamples.

In the proof modules, `USE SMT, Zenon, SMTT(30)` sets the provers of a leaf that names none;
a leaf names one where the other is slow or does not find the proof.

## Not modelled

- Config-import proposals go through the steps of policy proposals with another target.
  Config import itself writes a policy as `Reconcile` of `Approvals` does; its other effects
  are sequential within a request. The GitOps poll, drift state and plan are one sequential
  loop over a checkout.
- The aggregate endpoint: its fan-out over several servers, its name spacing and the
  re-dispatch of a call into `handle`. The deadline of a fetch is in `Upstream`.
- `Webhooks` has one debounce key; the drift alert's own debounce (`fire`) takes the path of
  the other alerts.
- `Upstream` has one upstream with sessions. A session ends by a restart of the upstream
  only; an upstream without sessions never answers 404 for one.
- In `SigningKeys` settings are read from the primary; a lagging replica would be one more
  delay between write and read. Times are whole ticks, and keys resolve to themselves.
- In `Sessions` the reads `require_admin` makes for one request are one step, as are the
  UPDATE of a role and the read that returns the row, and cookies do not age. Reads are of
  the primary: with `ACROPOLIS_READER_URL` set, a replica that lags goes on accepting an
  ended session for as long as it lags.
- The clock that the shared rate limiter reads may be set back (`SetClockBack`). A step
  forward refills a bucket early by the size of the step, and is not modelled.
- `Metering` has the order of `_enforce`, where a call the limiter refuses skips the quota.
  The policy API's evaluation checks both, and may alert on a refused evaluation.
- References of stored signing keys are distinct. `rotate_key.py` names a key kept in Vault
  by the time in seconds, so that two rotations within a second would share one.
- The stop of the poller cuts probes. An alert being sent is cut by `AlertCut`, before it.
- The built-in DLP detectors, hashing and encryption, secret providers, the OIDC exchange
  itself, request and header formatting, tracing and metrics, retention, migrations other
  than the foreign keys of projects, and the web console: sequential code, pure I/O or data.
