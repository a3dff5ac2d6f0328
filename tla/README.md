# llmfaucet: TLA+ models, model checks and proofs

llmfaucet is a Cloudflare Worker that offers an OpenAI-compatible gateway to free
LLM providers (`apps/worker`), with an SDK, a CLI and a web UI around it. Its hard
part is not in any one handler: it is in what several isolates do at the same time
to four stores with different guarantees.

- The Durable Object `QuotaLimiter` runs one call at a time.
- The KV namespace `BUDGETS` holds caches with a time to live, with no transactions.
- The database `DB` (D1) makes a statement, or a batch, atomic, and nothing larger.
- The timers and unawaited calls of an isolate may never run: it can be evicted at
  any moment.

Paths below are relative to `apps/worker/src` unless they start elsewhere.

## Inventory

| Component | State | Operations | Interacts with | What makes it correct |
| --- | --- | --- | --- | --- |
| Quota object (`durable/quota-limiter.ts`) | one record per subject: day count and reset time, minute window, leases with expiries, waitlist window | consume, acquire, renew, release, usage, reset, waitlist | `run`, account deletion, waitlist | the budget is never exceeded, a slot given up does not come back, windows stay consistent |
| Request path (`index.ts` `run`, `providers.ts`) | per request: candidates, abort timer, renewal timer, release-once flag | quota call, attempt loop, relay, release | quota object, registry, router, adapters | charged once; a relayed stream keeps its slot; a finished one gives it back |
| Maintenance lease (`probe.ts` `withMaintenanceLease`) | a row of D1, one timer per worker | claim, renew, delete | cron, D1 | one worker at a time; never blocked for good |
| Access keys (`auth/verify.ts`, key and account handlers of `index.ts`) | key rows in D1, context cache and key index in KV | resolve, create, revoke, delete account, invalidate | KV, D1, quota reset | a revoked key stops being accepted |
| Entitlements (`state/users.ts`, `sponsors/*`, `auth/verify.ts` 26-36) | `entitlements`, `sponsor_entitlements`, `webhook_events` | sign-in upsert, webhook, downgrade on expiry | waitlist, access keys | a tester grant survives sponsorship events; a verified sponsor of a configured tier is not served the free plan |
| Waitlist (`waitlist.ts`) | applications, their preview key | submit, update, approve, preview key, revoke | entitlements, access keys, quota object (attempt limit) | whoever is served as a tester has an approved application; a working preview key is the one the application points to |
| Provider registry (`services/provider-registry.ts`, `admin-providers.ts`) | `providers`, `provider_models` | CRUD, enable, refreshModels, updateHealth | request path, cron | what is routed comes from some refresh's list; every enabled provider that has an adapter is refreshed in turn |
| Probes and paging (`probe.ts`, `state.ts`) | health records and cursors in KV | probeProviders, refreshProviderModels, unhealthyProviders | registry, routing | every enabled provider that has an adapter is probed in turn; requests avoid what the last check found, and no longer than it counts |
| Routing (`router.ts`, `index.ts` 150-252) | none | catalog, selectModel, candidatesFor, lookups per attempt | registry, health | what could serve a request is found; unhealthy and disabled providers are not used |
| Stream translation (`formats.ts`) | buffer, open items, completion flag | pull, cancel | request path | deltas arrive once and in their blocks; a truthful end; the stream ends |
| Sessions and sign-in (`auth/sessions.ts`, `auth/github-oauth.ts`) | session rows, KV copies, OAuth state | create, read, revoke, callback | account handlers | a revoked session is refused |
| SDK request layer (`packages/sdk/src/lib`) | attempt counter, timers | request, stream | gateway | nothing is carried out twice unasked; an abort wins; bounded time |
| Logs, metrics, maintenance (`state.ts` 44-63, `lib/public-metrics.ts`) | append-only rows | record, aggregate, prune | cron | bounded work per run |
| Adapters, catalog, CLI, agent presets, shared types, web UI | configuration and formatting | | | not state machines |

`PROJECT.json` lists each of them with its status, and every place where the code is
hard to test, at its line.

## Modules

| Module | Models | Role |
| --- | --- | --- |
| `DailyBudget` | what the quota service promises | abstract specification |
| `QuotaLimiter` | one quota object | component; implements `DailyBudget` |
| `AdmissionHistory` | the same, with a history of recent admissions | history, property |
| `MCQuotaLimiter` | | run |
| `QuotaLimiterProofs` | | proofs |
| `Gateway` | requests of one subject, streaming and plain; instantiates `QuotaLimiter` | composition |
| `MCGateway`, `GatewayProofs` | two streams, or a stream and a plain request; two candidates each | runs, proofs |
| `MaintenanceLease` | `withMaintenanceLease` | component |
| `MCMaintenanceLease`, `MaintenanceLeaseProofs` | | runs, proofs |
| `AccessCache` | keys of one account and their caches | component |
| `MCAccessCache`, `AccessCacheProofs` | | runs, proofs |
| `Entitlements` | the plan of one user: webhooks, sign-ins, downgrades | component |
| `Waitlist` | the user's application and preview key, over `Entitlements` | composition |
| `MCWaitlist`, `WaitlistProofs` | six casts of callers | run, proofs (of both) |
| `ModelRefresh` | the daily refresh of the model rows | component |
| `Catalog` | the hourly probe and the health records, over `ModelRefresh` | composition |
| `Routing` | one request that finds its providers, over `Catalog` | composition |
| `MCCatalog`, `CatalogProofs` | five parts of the above | run, proofs (of all three) |
| `StreamTranslate`, `StreamTranslateProofs` | `responsesStream`, `anthropicStream` and the stream around them | component, runs, proofs |
| `SdkRequest`, `SdkRequestProofs` | one call of the SDK's `request` | component, run, proofs |

Definitions named `...Backwards`, `...Anyway`, `...Uncleared` and the like, marked
"Fault", are wrong versions of the definition that follows them. They are used by no
specification. They show that a property notices that fault.

### QuotaLimiter

`blockConcurrencyWhile` makes a call one step. `stored` is the record under the key
`quota`; `Active` is the record brought up to date at the head of `fetch` (a new day
starts it over, a new minute restarts the window, lapsed leases go). Each of the seven
actions of `QuotaRequest` is an action here, with the order of its checks and with its
write, or with no write when it refuses: `usage` and refusals leave storage as it was,
so a lapsed record stays stored until the next admitted call. Limits arrive with each
call, so the calls of one object may carry different plans. `kind` keeps `user:` and
`anonymous:` objects, which never get `waitlist`, apart from `waitlist:` objects, which
get nothing else. The numbers in an answer are not modelled.

`DailyBudget` is the promise: an admission costs one unit, a stream also takes a slot,
a slot once given up is never held again, and units return only at midnight or by a
reset. Its `spent` and `held` are what the record means *now*, not what it stores.

### Gateway

Actions follow `run`: `Start` (acquire, then 429 or the loop), `FailOver` (`continue`),
`AllFailed` (release, 503), `Unconvertible` (the second `catch`: release, 502), `Answer`
(the renewal timer starts, the body is relayed), `RenewFires`, `Finish` (the body ends,
fails, is cancelled, or is missing: the timer is cleared and one release is sent).
Renewals and releases are not awaited: `wire` holds those under way, `Deliver` hands
any of them to the quota object in any order, `Lose` drops one. `Crash` is an evicted
isolate. `due` is the timer of `fetchBounded`, which runs from the call to the end of
the body, and which a `pull` meets. A body in `Unread` may be left unread, so that no
`pull` meets the abort while the renewal timer goes on: its client stops reading, or it is
a translated stream, whose own `pull` may not be called again (`formats.ts:117`,
`StreamTranslate`). An unconvertible answer fails before the renewal timer is
started: after it, only calls that cannot fail for a stream remain.

A plain request (`Plain`) is charged with `consume` and has no lease; `Reply` is its
answer, read and converted. A body of it that cannot be read or converted ends in
`Unconvertible`, with nothing to release. The candidates, and what precedes the quota
call, are in `Routing`; here a request has as many candidates as its plan allows.

### MaintenanceLease

`Claim`, `Work`, `Renewal`, `Finish` are the sender's side; `Taken`, `Refused`,
`Renewed`, `Deleted` are D1 applying a statement, `Failed` a statement that is not
applied. An expiry is computed when a statement is sent and compared with the
database's clock when one is applied. A renewal is not awaited and its failure is only
logged. A statement may be applied after its sender died. Without D1 the code runs
the task unprotected; that mode is left out.

### AccessCache

Each awaited call of `resolveAccessContext` is a step: `Lookup`, `ReadRow`,
`ReadIndex`, `AddToIndex`, `PutCache`. A hit goes on to `ReadRow` too, since the plan of a
cached context may have lapsed (`verify.ts:21`). So are those of the account handlers: `Create`,
`CreateReads`, `CreateLists`; `Revoke`, `Invalidate`, `Purge` (one per listed key, in any
order: the code deletes them with `Promise.all`), `Revoked`; and `Delete`, which
purges *before* `Unlist` deletes the index again and `Deleted` removes the rows. `Abandon` is a request that dies between two
steps. KV is taken to be read-your-writes; its propagation delay between locations can
only lengthen what the properties bound, by that delay. What the cached context says
of plan and limits is in `Entitlements`.

### Entitlements and Waitlist

Two rows decide what one user is served, `entitlements` and `sponsor_entitlements`, and
`Effective` is how `resolveAccessContext` and `account` read them. A D1 statement is one
step. A *saver* is an invocation of the webhook or of the sign-in callback: `SignIn`,
`ReadSponsor`, `Restore` are `upsertUser`, `Ask` is GitHub's answer, `Deliver` is a delivery
found unprocessed, `ReadPlan`, `WriteSponsor`, `WritePlan` are `saveEntitlement`, `Mark` sets
`processed_at`. A saver may `Die` anywhere; its delivery then comes again, and two savers may
hold the same delivery. A *reader* notices a lapsed plan (`Notice`) and writes what it falls
back to (`Downgrade`). `planForTier` knows two tiers, by the identifiers the environment
configures; an active sponsor of any other tier, or of none, is recorded as a sponsor and
served the free plan, by the webhook, the sign-in and both fall-backs. (`README.md:188` of the
repository sells a third, "Builder".) `Tiers` keeps the two cases apart in every one of these
steps, and a *sponsorship* in the properties is one of a configured tier (`Vouches`). Dates are what is left of them, since a date that is past, unreadable
or `NULL` is the same to the code.

`Waitlist` adds the application. Each administrator's call is a check and a write
(`CheckUpdate`, `Update`; `CheckApprove`, `Approve`; `CheckRevoke`, `Revoke`); a batch of D1 is
one step. `createPreviewKey` is `BeginMake`, `RevokeOld`, `Insert`, `Point`. "open" stands for
`pending`, `reviewing` and `waitlisted`, which the code treats alike.

The properties are exact about overlaps: `granted` and `sponsored` are set when a grant or
a sponsorship is written and nobody holds an older row that would undo it, `slipped` and
`stray` name the crossings that cost an approval or a key. What they leave open, and TLC
shows to happen if they claim it:

- A verified sponsor whose tier is not configured is served the free plan.
- Deliveries are applied in the order in which they arrive, whatever the order of the events: an end that is applied after a
  newer start takes the sponsorship away.
- An approval while the plan is a sponsor's, even one that has lapsed unnoticed, writes no grant.
- Revoking early access leaves a tester who sponsors on the free plan until the next sign-in
  or sponsorship event.
- A saver that read the grant can write the tester plan back after a revocation, when the
  revocation met a sponsor's plan and so left the grant's expiry in the row.

Left out: deliveries about another account or without a sponsor, which change no plan, account deletion, and the 24 h
fallback for sponsor rows from before `expires_at` existed.

### ModelRefresh, Catalog and Routing

`ModelRefresh` is `refreshProviderModels`: `StartRun` and `PageEnds` read a page of names after
the cursor, `Take` is a worker of `mapWithConcurrency`, and `List`, `Upsert`, `Deprecate` are the
fetch and the two writes of `refreshModels`; `Fail` and `RunDies` are what ends a page or a run
early. `broken` are the providers `createProviderAdapter` returns null for (an adapter type it does not
know, or settings its constructor refuses). `getEnabledProviderBatch` leaves them out of the page, and takes
the cursor past their rows (`Page` are the rows, `Served` those that have an adapter). An admin's refresh and
`EditRefresh`, which flips `enabled` or `broken`, happen at any time. `Names` are numbers in the
order of the names, 0 is the empty cursor.

`Catalog` adds `probeProviders`: the page, then the providers of the checked-in catalog that are
not among those of it that have an adapter (`ProbeOthers`), then the cursor (`ProbeEnds`). A check is `Find`, `UpdateHealth` (a
record of 900 s) and `Publish` (six hours), or `UpdateFails`. `Avoided` is what
`unhealthyProviders` makes of a record.

`Routing` follows one request through `run`: `Arrive` (the handler's `catalog`), `List2` (the
registry once more, in `run`), `Ask` (`unhealthyProviders`, which reads the catalog a third
time), `Select` (`selectModel`, `candidatesFor`), and for each candidate `Look`
(`getProviderByName`), `Relook` (`hasEnabledProviderName`), `Call`, and `Answered` or
`CallFails`. A model of a provider is a pair; the ranking is left open, so that whatever the
preferences select is covered.

What the code does and a reader may not expect:

- Two refreshes of a provider that cross with disjoint lists leave it without a model until the next.
- A provider that fails on every run keeps the daily cursor at its page, so the providers of all
  other pages wait; after 30 days their rows no longer count. `EveryProviderRefreshed` therefore
  assumes that failures cease. The hourly probe has no such limit: its cursor moves on.
- A provider that is enabled and has no adapter is skipped by every refresh, and by every probe unless it is built in; its
  rows stay as they are. A request that picks it counts the attempt as failed (`Look`, `Relook`). The sweep and probe
  properties are about the providers that have an adapter (`due`, `hdue`).
- An admin's check replaces a six-hour record by a 15-minute one.
- When the insert into the health history fails, a provider found healthy is recorded as
  unhealthy for six hours; `probeProviders` also judges built-in providers that are not on the page.
- Health is looked up for the providers of the third reading of the catalog. A provider that is
  missing from that reading counts as healthy.
- With no dynamic row left the checked-in catalog stands in (`state.ts:20`), so a
  built-in provider that was disabled is called again, and one that is disabled between
  selection and call is called through its old path (`providers.ts:62`).

Left out: creation and deletion of providers, the age limits of cursors and rows, `ai-horde`, the
copy `catalog:active`, and the branch of `refreshModels` for an empty list, which `getModels`
refuses before.

### StreamTranslate

A body is lines; a line is two units, of which the second holds its line break; a chunk ends at
any unit. `Translate` is the body of the loop over lines, `Left` what stays in the buffer.
The two functions name their events differently and emit them at the same points, so `open`,
`delta`, `close`, `end` stand for both. The `ReadableStream` around them is external and
modelled after the Streams standard with its default queue of one: `pull` runs when a read is
pending or the queue is empty, and again after it settles if an enqueue or a new read
asked for it meanwhile. `Conforms` is what the translation takes from a provider: a tool is named once,
before its arguments, and `[DONE]` comes last.

### SdkRequest

Each await of `request` is a place (`at`) where the server's answer, the attempt's timer and the
caller's abort can come in. The server may have carried a request out whose answer never
arrives (`MaybeServed`). `AuthResolves` is the second fetch of the same attempt, under the
same timer: a sign-in that outlasts the timeout spoils the attempt, so a POST fails and a GET asks for
a token again. `retryWithBackoff` and `parseSse` are not modelled.

## Runs

| Run | Module, config | Checks |
| --- | --- | --- |
| `quota` | `MCQuotaLimiter` | `TypeOK`, `WithinBudget`, `WindowWithinDay`, `SlidingBound`, `ImplementsDailyBudget` |
| `gateway` | `MCGateway` | `TypeOK`, `ChargedOnce`, `RelayKeepsSlot`, `DoneGivesSlotBack`, `SlotComesFree`, `RequestsEnd` |
| `gateway_limit` | `MCGateway`, `MCGatewayLimit.cfg` | `StreamLimit`, violated |
| `maintenance` | `MCMaintenanceLease` | `TypeOK`, `OneWorker`, `LeaseRunsOut` |
| `maintenance_serialized` | `MCMaintenanceLease`, `MCMaintenanceSerialized.cfg` | `Serialized`, violated |
| `access` | `MCAccessCache` | `TypeOK`, `RevokedKeyLapses`, `InvalidationHolds` |
| `access_revoke` | `MCAccessCache`, `MCAccessRevoke.cfg` | `RevokedStopsWorking`, violated |
| `entitlements` | `MCWaitlist` | `TypeOK`, `GrantHolds`, `SponsorCounts`, `TesterIsApproved`, `PreviewKeyAccounted` |
| `catalog` | `MCCatalog` | `RouteTypeOK`, `RowsAccounted`, `AvoidedAsFound`, `RoutingHolds`, `SweepCompletes`, `MCEveryProviderRefreshed`, `MCEveryProviderProbed` |
| `stream` | `StreamTranslate`, `MCStreamTranslate.cfg` | `TypeOK`, `DeltasAsReceived`, `Bracketed`, `EndIsTruthful`, `WaitingIsServed`, `QuietStreamsEnd` |
| `stream_stall` | `StreamTranslate`, `MCStreamStall.cfg` | `StreamEnds`, violated |
| `sdk` | `SdkRequest`, `MCSdkRequest.cfg` | `TypeOK`, `ServedOnce`, `AbortWins`, `TimeBounded`, `Settles` |

**quota.** Two plans whose limits differ, three leases, a day of seven ticks, a minute and a lease of three.
The larger plan has five calls a day and two a minute, so that a minute's limit is what stops a burst: two windows
that meet spend four of the five. The clock stops at 15, after two midnights (1.2 million states). That is enough for a
lease to lapse within a day and to live over a midnight, for two windows to meet within
a minute, with a midnight between them or without, and for a plan to change at either
limit. `SlidingBound` says what a fixed window really limits: at most twice its limit in
any window's length, three times when midnight starts a window of its own in between.

**gateway.** A tick is 30 s: leases of 4 ticks, renewals every 2, calls cut off after 4,
a message takes 1. Two streams compete for one slot, with two candidates each, and the body of one may be
left unread; or a stream shares the record with a plain request. They start two ticks before a midnight, or at it, and the
clock runs on long enough for a failed attempt of full length, a second one, and the
last lease after it. `RelayKeepsSlot` names exactly what can cost a relayed stream its
slot: an answer so late that its first renewal finds the lease lapsed, a lost renewal, or a
midnight. `SlotComesFree` bounds the leak of every failure: one transit and one lease.
`MaxTime` is not what ends a request: `RequestsEnd` needs 8 ticks from the last start.

**maintenance.** Three invocations with a lease of 7 ticks, renewals every 2, a delay of 1
and a tolerated loss of 2: the least lease that satisfies `LeaseAssumption` for these
(15 min, 2 min, and seconds in the code). 15 ticks let two leases follow each other.

**access.** A tick is 300 s: 600 s for a context, 900 s for the index. Two keys and two
requests suffice for a lost index update; `RevokedKeyLapses` needs the clock to pass a
context's time to live, which 3 ticks allow for a key revoked in the first. A behaviour has one of two casts:
both keys with one account call at a time, or one key with two, so that a revocation is sent again while the first is still
purging. The history `settled` says what may excuse an entry that survives. A retry that crosses another revocation adds to
it and does not start it over, since the purge it crosses may already have missed the key.

**entitlements.** Everyone at once is too many states, so a behaviour has one of six casts: two savers with a reader and an
administrator, or with an administrator and a delivery that says that the sponsorship has started, or with a reader and two
deliveries, a start and an end, which they may apply in either order, both at once, and again; one saver with both
deliveries, a reader and an administrator; a reader and two administrators; an administrator and two creations of a
key. A sign-in hears of any tier, or of none; the deliveries are of a configured one. A window of two ticks and a grant of one
let either outlast the other, since a grant may begin at any point of a window. Three keys are one old and two new ones.
Time goes on for ever; what has lapsed stays at 0.

**catalog.** A behaviour shows one of five parts. *crossing*: a worker and two admins refresh one provider, any of
three lists each. *sweep*: five providers, all of which an earlier sweep refreshed, in pages of two and runs of two pages, two
workers. Two of them (`Edited`), one on the first page and one on the second, are enabled and disabled, and lose and regain their
adapters, at will. All five make three pages, so a run does stop for its number of pages, with more to do, and the
next one goes on from the cursor; with an edited one gone, the boundary between the pages moves. The other parts have three
providers (`Few`). *judging*: one provider, checked by workers and admins, with records of one and two ticks. *probing*: the
hourly probe of three providers, one of them built in; the built-in one and another are enabled and disabled, and the other
loses and regains its adapter. *routing*: a request of one of two kinds (automatic; an embedding asked for by name) over three
providers, found as refreshes and checks may have left them, with at most two other events
while it is routed (`Moves`): an admin's write under way, an edit, a record that expires. Two
events reach every pair of the three readings. `SweepCompletes` is about the step in which a sweep is over: nobody may still be due
then, so a cursor that is reset with nothing refreshed violates it too.

**stream, stream_stall.** Bodies of up to four lines with the text and two tools, every cut, chunks of any length: enough for
two tools and a text that interleave, for a tool's name and two of its deltas, and for lines that end after `[DONE]`
or lack their end. Two lines and one tool suffice for the stall.

**sdk.** Two retries, a timeout of three ticks and pauses of one and two; every method, retry option, with and without a
signal and `onAuthRequired`. Nothing in the code depends on the third retry.

Symmetry is used only in runs without liveness. All runs but `entitlements` set `CHECK_DEADLOCK FALSE`: a bounded
clock stops, a stream or a call is over.

### Disagreements found

- `gateway_limit`: a stream relayed over midnight loses its slot, and another is admitted and
  relayed next to it (`durable/quota-limiter.ts:11` against `docs/api/responses-api.md:4`).
- `maintenance_serialized`: a worker whose renewals fail works on after another took over
  (`probe.ts:105` against `migrations/0012_worker_maintenance_leases.sql:1`).
- `access_revoke`: the index lapses before an entry it should list, so the purge misses
  that entry (`auth/verify.ts:39` against the confirmation shown by
  `apps/web/app/dashboard/keys/page.tsx:15`).

- `stream_stall`: `pull` returns without an event after a comment, part of a line or an empty delta, and a waiting reader is not
  served again (`formats.ts:117` against the comments at `formats.ts:153` and `:212`). The relay below is then not read any more, so
  nothing there notices the abort, and the renewal timer keeps the lease.

### Fairness

`Gateway`, for `RequestsEnd`. `Tick`: time passes. Each request in a
call: the abort timer of `fetchBounded` makes the call answer or throw. `RenewFires`: a
due `setInterval` runs. Messages: a call to the object arrives or fails. `Finish`, only
for bodies that are read to their end: a `pull` meets that end or the abort. A crash is
never fair. Nothing is assumed of a body in `Unread`: neither that its client reads on, nor, for the
streams of `/v1/responses` and `/v1/messages`, that the translation goes on reading when its client does
(`stream_stall` shows that it may not). `RequestsEnd` leaves those requests out.

`StreamTranslate`, for `QuietStreamsEnd` and `StreamEnds`: the provider sends the next chunk or ends (its call is cut off
otherwise), promises settle, the reader reads. The standard, not the code, decides when `pull` runs, and it has no fairness of its own.

`MCCatalog`: the cron triggers fire and a run that started goes on (`RefreshRuns`, `ProbeRuns`). Failures, deaths
and admins are never fair; the two liveness properties say what they assume of them.

`SdkRequest`, for `Settles`: JavaScript goes on (`Begin`, `Wake`), timers fire (`Expire`), time passes. Nothing is asked of the server, of
`onAuthRequired` or of the caller.

## Proofs

For any values of the constants that satisfy the named assumptions:

- `QuotaLimiterProofs` (from `QuotaAssumption`): `QuotaInvariant`, and from it `TypeCorrect`,
  `WindowTheorem`, `BudgetTheorem` and the refinement `Refinement`. `WithinBudget` speaks of what
  the record means now. The invariant `QuotaInv` adds what the *stored* record
  satisfies even when it is out of date: its reset time is the coming midnight or has passed (`OfToday`),
  every lease in it was issued (`StoredIssued`, so a lease being acquired is new to it), its minute count
  is within its day count, and its day count within the largest plan's. A call keeps these by passing through `Active`; each
  part of `Active` has its own lemma. For the refinement each action maps to a step of
  `DailyBudget`, or to none, and a lease that `Active` purges is one `Held` had already given up,
  when the clock passed its expiry: that tick is the abstract `Close`.
  `SlidingTheorem` (from `HistoryAssumption` too: every plan has a limit per minute, one plan the largest, and a
  window is no longer than a day) is about `AdmissionHistory`. A bound on the admissions of the last minute alone does
  not survive a tick, so `SlidingInv` bounds those of the last `k` ticks for every `k`, by what the record says: a stretch that starts
  no earlier than the window holds at most the window's count, one that reaches back a window further at most a limit
  more, two limits more if it crosses the midnight the record's day began at, and one that starts after the window ended, or after the
  record's reset time, none (`Stretch`). Each way the window can change, and the clock, has a lemma of its own.
- `MaintenanceLeaseProofs` (from `LeaseAssumption`, in particular `Tolerance + RenewEvery + 2 * Delay
  < LeaseLen`): `LeaseInvariant`, then `LeaseTypes`, `OneWorkerAtATime` and `LeaseEnds`. The
  invariant ties a working invocation to its row: as long as it has not lost renewals for longer than
  `Tolerance`, it holds the row, and the expiry is at least its last due renewal, less the lost ones,
  plus a lease; so no claim can be taken. Statements under way are bounded by their age.
- `AccessCacheProofs` (from `AccessAssumption`): `AccessInvariant`, then `AccessTypes` and
  `StalenessBound`. A request that is past `ReadRow` saw its key active, so it began no later than
  the revocation; it ends within `ResolveTime`, and what it caches lapses one `CacheTtl` later. `PurgeInvariant`, over it, is
  about the other half, what the purge reaches: as long as nothing excuses a key, no request
  past its row is about to cache it, a call that purges it still has it to do or it is gone, and it is gone once a revocation is over. `RevocationPurges` follows.
- `GatewayProofs` (from `GatewayAssumption`, and `QuotaInvariant` of the object inside): `GatewayInvariant`, then
  `GatewayTypes`, `ChargedOnceOnly`, `SlotGivenBack`, `SlotBounded` and `RelayHolds`. What a call does to budget, slots and
  expiries is taken from lemmas about `QuotaLimiter` (`AcquireEffect` and its like). The invariant bounds what is under
  way: which messages each stage of a request can have sent (`Sent`), how late an expiry can be (`Lasts`), and, for `RelayHolds`, that
  the lease outlives the arrival of the first renewal (`Waits`) and of each next one (`Chained`), unless one was lost.
- `WaitlistProofs` (from the assumptions of `Entitlements` and `Waitlist`): `WaitlistInvariant`, then `WaitlistTypes`,
  `GrantIsServed`, `SponsorIsServed`, `TesterHasApproval` and `PreviewKeyKept`. No property about these rows is inductive by
  itself: what is written next depends on what a call read before. The invariant says of every saver, reader, administrator and creation
  under way what it cannot have read while the property must hold.
- `CatalogProofs` (from `CatalogAssumption`, `HealthAssumption`, `RoutingAssumption`): `CatalogInvariant` and `RoutingInvariant`,
  then `CatalogTypes`, `RowsAreAccounted`, `NoProviderIsLost`, `AvoidedAsChecked`, `RoutingTypes` and `RoutingKeepsPromises`. Pages are the
  interesting part: `PageFacts` says that a page holds the first names after the cursor, and no more than its size, from which
  `SweepInv` follows: a provider still due has an adapter, and is after the cursor, on the page, or held by a worker. Another part ties
  each row and record to the writes that can still come (`RowsInv`, `JudgedInv`). `RouteInv` relates what a
  request has read to what was true all along, which is what its properties speak of.
- `SdkRequestProofs` (from `SdkAssumption` and `PowersAssumption`): `SdkInvariant`, then `SdkTypes`, `CarriedOutOnce`,
  `AbortIsFinal` and `CallTakesNoLonger`. The invariant gives for each await the time spent so far: the attempts before, with their
  pauses, and what the current timer has run. `PowersAssumption` is the arithmetic of `2^n` that the prover's arithmetic
  lacks (a power of two is a number, and the next one is twice as much); TLC evaluates it in `sdk`.
- `StreamTranslateProofs` (from `StreamAssumption`): `StreamInvariant`, then `StreamTypes`, `DeltasArrive`, `WellBracketed`,
  `TruthfulEnd` and `WaiterIsServed`, for bodies of any length cut anywhere. `Sound` says what a translation is after the
  first `l` lines: its flags are the items opened, its tools the tools named, its deltas, by their rank, the content of those lines. Each
  kind of line keeps it; a chunk is a recursion over its units (`TranslateAll`, a recursive function, so its values are obtained from
  a least counterexample, `Least` and `Recursion`); and the buffer always holds the start of line `l + 1`, if one was read
  (`Pending`), so the next chunk begins where the last one ended (`ChunkUnits`). The part about the stream (`Flow`) says
  that a reader that waits during a pull is noticed by its end.

The proofs changed the model in these places:

- `settled` of `AccessCache` was started over by every revocation, which forgot the entry that a crossed one had missed:
  `InvalidationHolds` was violated with two calls, which a cast of `access` now has.
- `Effective` and `WritePlan` of `Entitlements` and `Translate` of `StreamTranslate` had arms of a `CASE` that overlap, whose choice TLA+ leaves
  open; they are `IF`s now, in the order of the code.
- `GatewayAssumption`, `HealthAssumption` and `RoutingAssumption` state what the runs used without saying it: limits are
  numbers, an admin's record is shorter than a probe's, built-in providers are among the names, models are finitely many.
- `Settle` of `StreamTranslate` could begin a pull on a stream that was no longer open; nothing came of it, as such a pull
  did nothing. `TranslateAll` was a fold over filtered positions, and `DeltasAsReceived` compared filtered
  sequences, with neither of which the prover can reason: the one is a recursive function now, the other counts.
- The history of `SlidingBound` held the admissions of each tick, and the property summed them over a minute; it holds those of
  each stretch of ticks now, `recent[k]` for the last `k`, so that no sum is needed.

Model-checked only are the liveness properties (`RequestsEnd`, `QuietStreamsEnd`, `MCEveryProviderRefreshed`, `MCEveryProviderProbed`, `Settles`), which are
outside the prover. Every other property of the runs has a theorem.

## Plan

Every property that is within the prover's reach is proved. What is left is to widen the model: the OAuth state of the
GitHub sign-in is read and then deleted, which no property covers yet.

## Not modelled

Most lines of the repository are not state machines. The web UI, the generated OpenAPI client, the agent presets and
templates, the CLI's prompts, type declarations and tests are the greater part of it; the models cover the Worker's handlers with state and
the SDK's request loop, a small share of the lines. What is left of the Worker is formatting:
request and response body conversion, provider HTTP shapes, wording and numbers of answers, hashing and random
identifiers (a key is a value), the metrics queries, the append-only request log and its pruning.

Sessions are not modelled because every read asks the D1 row first: a stale copy in KV cannot keep a revoked session alive, whatever
the order of the writes. The OAuth state, which two
callbacks may both read before either deletes it, leads them to GitHub with one code, which GitHub accepts once. The deployment without D1, KV's
propagation delay and the parts named in each section above are left out.
