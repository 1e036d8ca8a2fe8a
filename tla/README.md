# TLA+ models of wifi-man

wifi-man sells access to a Wi-Fi network. A customer gets a token, a device
redeems it for a session, a network access server (NAS) lets the session
through and reports its traffic, and the backend ends it when the token is
revoked, expires or has used up its plan. This directory models the Go backend
(`src/backend`), checks it with TLC, and proves the guarantees of its tokens,
sessions, sales and rate limiter with TLAPS.

Paths below are relative to `src/backend/internal/` unless they start with
`src/`.

## 1. The system

| component | state | operations | talks to |
|---|---|---|---|
| token service (`service/token_service.go`) | `tokens` rows | GenerateTokens, RedeemToken, ResumeToken, RevokeToken, SweepExpiredTokens, RecoverSessionsAfterRestart | store, gateway integration |
| session and quota accounting (`session_service.go`, `quota_service.go`) | counters in `sessions`, `usage_records` | StartAccounting, InterimAccounting, StopAccounting, HandleRadiusAccounting, ApplyUsage, StopSession | store; its callers ask the gateway to disconnect |
| gateway integration (`gateway_service.go`, `gateway_client.go`) | `disconnect_pending` in `sessions` | DisconnectSession over CoA, HTTP or both | store, NAS, retry queue |
| RADIUS server and service (`radius_server.go`, `radius_service.go`) | none | one goroutine a packet: Authenticate, HandleAccounting | token service, accounting, gateway integration |
| jobs (`jobs/`) | asynq queue in Redis | periodic sweep, disconnect retry | token service, gateway integration |
| stores (`repository/postgres.go`, `memory.go`) | all tables | single statements, WithTx; Postgres: FOR UPDATE, unique keys, rollback; memory: one mutex, no rollback | |
| rate limiter (`http/middleware/rate_limit.go`) | one counter a route and client, in Redis | INCR and EXPIRE in front of portal and webhook | Redis |
| payments (`payment_service.go`) | `payments` rows | RecordManualPayment, ProcessMobileMoneyWebhook, SalesSummary | store |
| portal purchase (`http/handlers/portal_handler.go`) | none | payment, then token, then redemption | payments, token service |
| plans, audit, admin, RBAC, configuration, frontend, infra | see `PROJECT.json` | | |

Every entry point runs in a goroutine of its own and shares nothing with the
others but the store, the queue and the gateway. Over Postgres, only a redeem or resume (and a
payment's insert) runs in a transaction; every other handler reads a row, works
on its copy and later overwrites the whole row with one autocommitted statement.
What makes the system hard follows from that: rows that are stale when they are
written, two rows that must change together and are written one after the other,
gateway calls whose request or answer is lost, retries of what may have been
done, handlers that die between two calls, and a row lock that is held while the
gateway is called. The memory store differs: its transaction holds the mutex that
every store call takes, for as long as it talks to the gateway, and an error in it
rolls nothing back. `PROJECT.json` lists each such hazard at its line.

What makes each component correct:

* token service: a token serves one device for ever; a token that was revoked,
  consumed or expired never works again; a device is let in only on a live token; a
  token that is over has no active session; recovery closes the sessions whose token
  is over and no other.
* gateway integration: a session that ended is cut at the NAS in the end, and is
  never forgotten before.
* accounting: usage records cover the counters, RADIUS counters are charged once,
  a session that reaches its limit ends and its token with it.
* store: while no accounting report runs, a token has one active session, and over
  the memory store an ended one stays ended.
* jobs: every overdue token is swept; every queued disconnect is retried.
* payments and purchase: one answer for one reference; connected means paid; a
  code is handed to one caller.
* rate limiter: no window admits more than the limit; a client that stays away for
  a window is let in again.

## 2. The modules

| module | models | lines of code |
|---|---|---|
| `WifiStore` | rows of `tokens`, `sessions`, `usage_records`, the FOR UPDATE lock of a token row, the clock; the store calls, over the `Backend` that main.go chose | `postgres.go`, `memory.go`, `domain/models.go`, `src/backend/migrations` |
| `Requests` | handlers in flight: `pc` is the next call, `loc` the local variables, `faults` what went wrong so far; `MutexFree` is the memory store's mutex | goroutines of the HTTP and RADIUS servers, slots of the asynq worker, `WithTx` |
| `GatewayIntegration` | DisconnectSession in four steps, the two controllers, the retry task, the NAS (external, `online`) | `gateway_service.go`, `gateway_client.go`, `jobs/worker.go` |
| `TokenService` | redeem, resume and RADIUS login, revocation, sweep | `token_service.go`, `radius_service.go` |
| `Recovery` | RecoverSessionsAfterRestart; `backlog` is the list it works through | `token_service.go` |
| `Accounting` | accounting start, interim, stop and RADIUS accounting packets with their octet counters | `session_service.go`, `quota_service.go`, `radius_server.go` |
| `WifiMan` | composes the modules above, adds the death of a handler and the clock; states the properties and the fairness | `src/backend/cmd/api/main.go` |
| `Voucher` | the abstract promise of the token service | (specification) |
| `WifiInvariants` | the inductive invariants `TokenInv`, `SessionInv`, `CopyInv`, `OverPursued`, `PendingInv`, `ExpiryInv`, `RecoverInv`, `ChaseInv` | (specification) |
| `MCWifiMan` | constants of the small instances | |
| `WifiLemmas`, `AccountingProofs`, `TokenProofs`, `WifiManProofs` | lemmas, one preservation proof per action, the theorems about tokens | |
| `SessionProofs` | the theorems about active and ended sessions, and about `disconnect_pending` | |
| `CopyProofs` | the theorems about counters, reasons, expiries and recovery, what stale copies of rows say, and about the sessions the gateway still forwards | |
| `Calls` | calls of the sales side in flight, clients that hang up | HTTP handlers |
| `Payments` | CreatePaymentIfAbsent and its callers | `payment_service.go`, `payment_handler.go`, `postgres.go` |
| `TokenGeneration` | the retry loop of GenerateTokens | `token_service.go` |
| `Purchase` | composes the two, adds the portal purchase | `portal_handler.go` |
| `RateLimit` | the INCR and EXPIRE of each request, the key's expiry, lost answers of Redis | `middleware/rate_limit.go` |
| `PurchaseProofs`, `RateLimitProofs` | the theorems about the sales side and the rate limiter | |

### How state and actions correspond to the code

An action is what a handler does up to and including one call that leaves the
process: a store statement, a gateway call. The label in `pc` names the call that
comes next, the frame in `loc` keeps what was read before it. So
`UsageRead`, `UsageWrite`, `UsageRecord`, `QuotaCheck`, `QuotaEnd`,
`QuotaConsume` are ApplyUsage cut at its statements, and whatever other handlers
do between them is explored.

* A transaction of redeem is cut where another handler can notice: the lock
  (`RedeemLock`), the look-up of the active session, which other handlers may
  change right after (`ResumeFind`), and the commit (`RedeemActivate`,
  `ResumeAttach`, `ResumeReopen`). Its writes become visible at the commit.
  `RedeemExpired` is one step, because ensureNotExpired returns an error and the
  rows it wrote are rolled back: only what it asked of the gateway stays. Over the
  memory store nothing is rolled back, and `RedeemExpiredKept` takes its place.
* With `Backend = "memory"` a step that calls the store needs `MutexFree`: no other
  handler is inside a redeem transaction. The controller's calls (`ControllerStep`)
  need it not, except those a redeem makes, which are part of its own steps. Handlers
  do not die and store calls do not fail there: the rows live in the process.
* A recovery reads its list in one call (`RecoverList`) and the clock after it, then
  reads the token, writes the listed copy of the session and disconnects it, entry by
  entry. Nothing in the program calls it at startup; the model lets any handler run
  it beside requests, which includes a run at startup.
* `Octets` reads a counter from its two attributes; `Word` stands for 2^32. A packet
  may come without its gigawords, which then read as 0.
* `loc[p].at` is the clock the handler read when it began. A redeem reads it
  before it waits for Postgres's row lock, so it may be old at the commit; over the
  memory store it reads it inside the mutex (`LockedAt`).
* Rows keep the columns a property can tell apart. `expires = 0` is a NULL
  `expires_at`. Bytes up and down are one counter. `ledger` is the sum of a
  session's usage records. `None` is NULL or an empty string.
* A plan is the pair `Duration`, `DataLimit` of its tokens: no code updates a plan.
* `GenerateToken` of `TokenService` is one successful iteration of the loop that
  `TokenGeneration` models in full.
* Starting requests (`Begin...`) and the two environment steps (`Tick`, `Abort`)
  are always possible within their bounds, so every interleaving of requests,
  retransmissions and deaths within the bounds is covered.
* History variables: `granted` (who was let in with which session), `reported`
  (largest RADIUS counter), `answered`, `created`, `handed` (answers given), `asked`,
  `admitted`, `refused` (what became of requests). No guard reads them, except that
  `asked` bounds the requests of a key.
* `Room` and `CodeRoom` start a request only while the finite set of fresh ids
  has one left for it. `MaxTasks` caps the copies of one disconnect task in the
  queue; a task beyond it would be a duplicate of one still queued.

Operators whose comment starts with "Mutant" are faulty variants of the operator
that follows them; no specification uses them. Substituting one shows that the
property it is listed with in `PROJECT.json` notices that fault.

## 3. The runs

All runs of the core use `MCWifiMan`, those of the sales side `Purchase`. The
states are distinct states found.

| run | shows | instance |
|---|---|---|
| `vouchers` | OneDevicePerToken, TerminalIsFinal, GrantOnlyLive, and the refinement VoucherSpec | two devices redeem and log in over RADIUS, stops, revocation, two requests and a sweeping worker in flight, one fault, two ticks; 1.3 million states |
| `memory` | TokenInv, SessionInv, CopyInv, RecoverInv, OneActiveSession, OverEndsSessions, RecoveredIsOver, EndedStaysEnded, RecoveryEndsOverdue, VoucherSpec | the memory store; two tokens, redeems, resumes, manual disconnects and recoveries, two at a time, two ticks; 420 000 states |
| `disconnects` | OneActiveSession, OverPursued, EndedIsTracked, ChaseInv, PendingIsTracked, PendingInv, ExpiryInv | Postgres, retry queue, CoA and HTTP controllers, three sessions of one token, answers lost, no deaths; 1.3 million states |
| `usage` | QuotaEndConsumesToken, LedgerCoversCounter, CopyInv | a plan of two units, reports of one or two, starts, stops, revocation and manual disconnects; 390 000 states |
| `radius` | RadiusCountedOnce, TypeOK, TokenInv, CopyInv | one packet at a time in any order, with and without gigawords, beside a sweeping worker, one fault; 2.4 million states |
| `liveness` | RequestsFinish, OverdueIsSwept, OverGoesOffline | two tokens, a request and a sweeping and retrying worker, one of which may die, the gateway may never answer; 44 000 states |
| `purchases` | SalesInv, AnswersAgree, OneCreation, CodesHandedOnce, ConnectedIsPaid, CallsReturn | two calls on a shared reference, one fault or hang-up; 240 000 states |
| `ratelimit` | LimitInv, WindowBound, RefusedIsBusy | one client, a limit of two in a window of two ticks, seven requests over seven ticks, any answer lost; 830 000 states |

Four runs exhibit a disagreement between the code and what the repository says of
it; each is a finding in `PROJECT.json`.

| run | refutes | what happens |
|---|---|---|
| `stale_usage` | RevocationEndsSessions | a usage report writes its stale session row over the one a revocation just ended: the session is active again under a revoked token |
| `lost_usage` | QuotaSeesAllUsage | the total compared with the limit is the counter of one session row: two reports add to the counter they both read and one addition is lost, or a stop and a resume open a row whose counter is zero, and the limit is not seen |
| `retransmit` | RadiusCountedOnce | a packet and its retransmission are handled together and both charged |
| `endless_retry` | CancelledReturns | the batch of a client that hung up fails on every insert and retries for ever |

Why the passing runs leave something out:

* `OneActiveSession`, `OverEndsSessions` and `EndedStaysEnded` hold because no
  accounting start or usage report runs. `stale_usage` shows that a usage report
  reopens an ended session; an accounting start, which neither locks nor looks at the
  token, would open a second one.
* `EndedStaysEnded` is checked over the memory store only. Over Postgres a resume
  locks its token row and not the session: a manual disconnect that ends the session
  between the resume's look-up and its write is undone in the row, while the gateway
  has cut the session. If the disconnect's last write comes after the resume, it is
  the other way round: the row is ended and the device, let in again by the answer to
  the resume, is not tracked. For this reason `disconnects` calls no manual
  disconnect; with one, TLC finds `EndedIsTracked` violated within 14 steps. Nothing
  in the repository says which of the two requests should win.
* `OverEndsSessions` (over Postgres by `OverPursued`, which implies it), `EndedIsTracked`
  and `PendingIsTracked` are checked without faults: a handler that dies between two
  writes, or a failed look-up of the active session, leaves a session behind, and nothing calls RecoverSessionsAfterRestart.
  What the recovery would do then is checked in `memory`. `QuotaEndConsumesToken`
  and `LedgerCoversCounter` need that, too.
* `EndedIsTracked` leaves out sessions that ended as `expired` or `recovered_closed` once
  the time of their token is up (`Lapsed`). A redeem that finds its token
  overdue rolls back the rows it wrote but has asked the gateway, and queued a retry if
  that failed. The retry then disconnects a session that is still active, of a token that
  still is: a resume that read its clock before the expiry and waited for the row lock can
  let the device in again after the retry's gateway call, and the retry's last write marks
  the row ended. TLC finds this with three sessions of a token, which is why `disconnects`
  has three. `OverGoesOffline` is checked with one request at a time beside the worker,
  where it cannot happen. It is not enough to look at the token for the excuse, and the
  proof is what showed it: with a fourth handler, a revocation that read the row before
  its activation can write it back, without an expiry, after all this. The token is then
  revoked, not overdue, and the session is still forgotten, for it ended because its time
  was up. So the excuse is about the reason the session ended with. A session that ended
  for another reason, a revocation in particular, is never forgotten; that those of a
  swept token go offline is `OverGoesOffline`'s.
* `disconnects` runs no accounting stop. `BeginStop` is a network access server that has
  let the session go and reports it: a resume that commits between the server's request
  and the handler's write lets the device in again with the session that the handler is
  about to end, and nobody disconnects it. TLC finds `EndedIsTracked` violated with stops
  within 12 steps. The repository promises disconnects of the sessions the backend ends.
* `RecoveryEndsOverdue` speaks of tokens that had expired before the recovery read
  its clock. A token that is revoked while the recovery works is the revocation's
  business (`OverEndsSessions`). In the model the clock is read in the same step as
  the list. In the code there is an instant between the two, so the property is about
  tokens that had expired when the list was read: a session opened in that instant
  is not on the list.
* `RadiusCountedOnce` holds for packets handled one at a time.
* `WindowBound` counts the requests that were let through on Redis's answer: one
  whose answer was lost is let through as well, by the code's choice.

### Bounds

One token suffices where a property is about one row or about the rows of one token; the sweep, whose loop over
rows is stopped by an error in one of them, has two. Two devices are needed for
binding, two sessions for "at most one active" and for reconnecting, a third for one
that is let in again while the second is being cut, two requests
and one worker for every pairwise race, the most the code's critical sections
involve. A plan lasts one tick and the clock stops at one or two, so a token is seen
before, at and after its expiry; recovery, which tells "at" from "after", runs with
two ticks. `memory` has two tokens, so that a recovery has a second entry to go on to
when the first one's disconnect fails. `Word` is 2, so that the counters 1 and 3
differ in their gigawords, and a lost one makes a later counter smaller. Seven
requests over seven ticks are three windows and more than three times the limit. Limits of two units with reports of one and two
reach the quota exactly, by one step and by several. One fault puts a death or a
failed store call at every point. `MaxBytes` stops further reports at the limit,
where every handler has already taken the quota branch. Runs that could stop only
because a bound is exhausted (`retransmit`, `ratelimit`, and `endless_retry`, whose
point is that nothing moves any more) turn the deadlock check off; all others keep
it on.
`Symmetry` permutes devices, sessions and non-worker handlers and is used in runs
with no liveness property only.

### Fairness

`FairSpec` assumes strong fairness of the steps of each handler in flight, not of
the start of requests. The code justifies it: HTTP controllers and the CoA socket
have deadlines, so a gateway call ends with an answer or an error; a store call
ends with a row or an error; Postgres serves the waiters of a row lock in turn, so
a lock that is free again and again is obtained. It also assumes that the worker
keeps taking sweep and retry tasks (the scheduler enqueues a sweep every minute,
asynq hands out what is queued). It does not assume that the gateway ever
succeeds: `GatewayFail` alone satisfies it. That a gateway which is asked again and
again acknowledges in the end (`GatewayAnswers`) is a premise of `OverGoesOffline`
itself, which also gives up once a handler died or a call was lost (`faults > 0`):
then the session may be forgotten. asynq gives a task up after its maximal number of
retries; the model does not, so `OverGoesOffline` speaks of gateways that recover
before that.
In `Purchase`, `FairSpec` is strong fairness of the store steps of each call.

## 4. The proofs

All theorems hold for all sets of tokens, sessions, devices, RADIUS ids, handlers,
rate-limit keys and clients, every plan, limit and window, and no bound on time, faults
or bytes beyond their being natural numbers.

| theorem | module | states |
|---|---|---|
| `TypeCorrect` | `WifiManProofs` | `Spec => []TypeOK` |
| `TokenInvariant` | | `Spec => []TokenInv` |
| `DeviceBinding` | | `Spec => []OneDevicePerToken` |
| `TerminalForEver` | | `Spec => TerminalIsFinal` |
| `GrantsOnlyLiveTokens` | | `Spec => GrantOnlyLive` |
| `ImplementsVoucher` | | `Spec => VoucherSpec`: every step of the composed system is a step of `Voucher` or a stutter |
| `SessionInvariant` | `SessionProofs` | `Spec => []SessionInv`, if no accounting start or usage report is called |
| `ExclusiveSessions` | | `Spec => []OneActiveSession`, if no accounting start or usage report is called |
| `EndedForEver` | | `Spec => EndedStaysEnded`, if besides the store is the memory store |
| `OverIsPursued` | | `Spec => []OverPursued`, if no accounting start or usage report is called |
| `OverEnds` | | `Spec => [](faults = 0 => OverEndsSessions)`, if no accounting start or usage report is called |
| `PendingInvariant` | | `Spec => []PendingInv`, if there are workers and no accounting start or RADIUS Accounting-Start is called |
| `PendingTended` | | `Spec => [](faults = 0 => PendingIsTracked)`, if there are workers and no accounting start or RADIUS Accounting-Start is called |
| `CopyInvariant` | `CopyProofs` | `Spec => []CopyInv` |
| `ChargedOnce` | | `Spec => []RadiusCountedOnce`, if there is one request at a time and all usage comes over RADIUS |
| `RecoversOnlyOver` | | `Spec => []RecoveredIsOver`, if `/v1/accounting/start` is not called |
| `QuotaAgrees` | | `Spec => [](faults = 0 => QuotaEndConsumesToken)` |
| `LedgerCovers` | | `Spec => [](faults = 0 => LedgerCoversCounter)` |
| `ExpiryInvariant` | | `Spec => []ExpiryInv` |
| `RecoverInvariant` | | `Spec => []RecoverInv`, over the memory store, if no usage report or accounting start runs |
| `RecoveryLeavesNone` | | `Spec => RecoveryEndsOverdue`, under the same assumptions |
| `ChaseInvariant` | | `Spec => []ChaseInv`, under `ChaseSetting` |
| `EndedAreTracked` | | `Spec => [](faults = 0 => EndedIsTracked)`, under `ChaseSetting` |
| `LimitInvariant` | `RateLimitProofs` | `Spec => []LimitInv` |
| `AdmissionsBounded` | | `Spec => []WindowBound` |
| `OnlyBusyRefused` | | `Spec => []RefusedIsBusy` |
| `SalesInvariant` | `PurchaseProofs` | `Spec => []SalesInv` |
| `IdempotentAnswers` | | `Spec => []AnswersAgree` |
| `CreatedOnce` | | `Spec => []OneCreation` |
| `CodesUnshared` | | `Spec => []CodesHandedOnce` |
| `ConnectionsPaid` | | `Spec => []ConnectedIsPaid` |

The theorems about tokens hold over both stores. They rest on the assumptions named in the modules: `PlanAssumption` (plans have a
positive duration), `NullAssumption` and `ProcAssumption` (ids are not NULL,
workers are handlers), `OpsAssumption`, `FaultAssumption`, `ControllerAssumption`,
`QueueAssumption`, `ByteAssumption`, `WordAssumption`, `TimeAssumption` (the bounds
are numbers, the options Booleans), `BackendAssumption` (one of the two stores), and
in `RateLimit` `LimitAssumption` (limit and window are at least 1; the middleware
lets everything through without a limit) and `BoundAssumption`. TLC evaluates them in
every run of the module.

`OneDevicePerToken` is not inductive: a grant is made with the device of the
frame, compared with a row that was read earlier. `TokenInv` adds what carries the
argument across the steps in between:

* `LockHeld`: a handler in a redeem transaction holds the lock of its token's row
  and its copy is what is committed. The autocommitted writers wait for that lock
  (`UpdateToken`), so nobody changes the row under it.
* `FramesOK`: a handler outside the transaction that is about to write a token row
  writes a terminal status. However stale its copy, it never makes a token usable;
  this is why `TerminalIsFinal` survives the whole-row writes that session rows do
  not survive.
* `GrantsBound`: while a token is active all its grants went to the bound device.
* `RowsOwned` and `BacklogOwned`: a session, in its table or in a recovery's list,
  belongs to a token that exists, so that a handler that follows `session.tok`
  reaches a row.
* `TypeOK`.

`AccountingProofs` and `TokenProofs` prove, one lemma per action, that it preserves
`TokenInv`; `WifiLemmas` has the facts about frames and rows they share.
`TerminalForEver`, `GrantsOnlyLiveTokens` and `ImplementsVoucher` look at one step
from a state that satisfies `TokenInv`, again action by action. The refinement maps
a token's phase to its status with the three terminal ones as `over`, and holders
and served sessions to the projections of `granted`.

`OneActiveSession` needs more: what a redeem found out about sessions must still be
true when it opens one. `SessionInv` says so, in parts:

* `FramesEnd`: every handler about to write back a session row writes it ended, so
  that no write but a resume's makes a session active. This is where the theorems
  assume that no accounting start or usage report runs (`Ops \cap StaleWriters = {}`):
  those write active rows, and the violation runs show the consequence.
* `FoundAllOnly`: inside a redeem transaction that has looked for the active session,
  the one it found is the only one the token may have; over the memory store, whose
  mutex keeps disconnects out, it is still active. Over Postgres this last part is
  false, and so is `EndedStaysEnded`: hence `Backend = "memory"` in `EndedForEver`.
  The token's lock, by `LockHeld` of `TokenInv`, keeps a second transaction out.
* `UnbegunUnserved`: an unused token has no session, so that the first redemption,
  which does not look for one, opens the only one.

`OverEndsSessions` is not inductive: it says that a session whose token is over is ended
unless something is in flight, but not that what is in flight will end it.
`OverPursued` does: a revocation or a sweep of the token is about to look for its active
session, or about to end that very session. It is inductive with `SessionInv`. A step that
closes a token leaves its handler at the look-up (`ClosingSteps`, `ClosedPursues`); a
look-up finds the session, which is the only active one (`FindPursues`); and a token that
is over gains no session, because a redeem in flight holds its lock (`ActiveOpened`). The
hypothesis `faults = 0` is the code's: an error of the look-up is taken for no session.

`PendingIsTracked` counts every handler that still has the session in a variable, also
one that will do nothing about it. `PendingInv` says `Tended`: some handler is inside
DisconnectSession with it, or about to enter it for a used up quota, or a retry is queued;
the rows that handlers will write by themselves are not pending. Each action either keeps
its handler tending, clears the flag or queues the session. It holds without assumptions on
interim reports, over both stores. The two endpoints left out take the flag from their
caller (`FlagLabels`) and so can write back any value.

`CopyInv` is about rows that are stale when they are written. Every handler works on a
copy of a session row and overwrites the row with it, so what an invariant says of the
rows must be said of every copy anywhere: in a frame, in a recovery's backlog, in the reason
of a queued task. `Fit` is what stays true of a copy however the row changed since:

* `Just`: a reason `data_limit_reached` comes with a token that is over, or with the
  handler that found so about to write it (`Over`); a reason `recovered_closed` with one
  that is over or overdue (`Late`). Both are stable by `TerminalForEver` and because a
  clock does not go back.
* if one request runs at a time, and all usage comes over RADIUS (`OneReporter`), the
  bytes of a copy are at most what the network access server reported, which only grows.
  At `usage_read` they are so together with the delta still to be added: no other handler
  charges the session in between. With two requests in flight this is false, as
  `retransmit` shows.
* without a fault, the bytes of a copy are at most `Due`: the usage records and what
  handlers still owe them. A handler owes a charge from the moment it added it to its
  copy until it wrote the record (`OwingLabels`), also when another report overwrites its
  row with an older one: the ledger can run ahead of the counter, never behind. `Owed`
  holds one element for each byte, so that the sum over handlers is the size of a set: a
  step adds or takes one handler's share (`OwingSteps`), and no induction over sums is
  needed. Only a failure shrinks `Due`.

`StepCopies` reduces the preservation of `CopyInv` to the rows and the frame that one
step writes; the rest of `CopyProofs` shows for each action that they fit. The theorems
`ChargedOnce`, `RecoversOnlyOver`, `QuotaAgrees` and `LedgerCovers` follow at once; in the
last one nobody owes anything when all handlers are idle. The assumption of the second
is needed: an accounting start opens a session on a token that was never activated, and
the recovery closes it.

`RecoveryEndsOverdue` is about the end of a loop, and so needs to know what the part
already done has achieved. `RecoverInv` says it of every recovery under way, in four parts, the first of which,
`ExpiryInv`, holds over both stores:

* `OneExpiry`: a token is given one expiry, when it is activated. Whatever copy of a
  row is written back (`Held`), that instant or none is what it can set (`Expiries`); a
  copy older than the activation has none. So a token that outlives the recovery's clock
  still does when a stale revocation has overwritten its row (`Outlives`).
* `Recovering`: an active session is still awaited (`Awaits`: on the rest of the list, or
  about to be ended) or its token outlives the clock the recovery read. A visit that
  passes a session by has compared the two (`VisitGoesOn`).
* no redeem transaction in flight read its clock before the recovery did, so that a session
  opened or reopened meanwhile belongs to a token that outlives it (`OpenedOutlives`).
  The list waits for the mutex, and with it for the transaction that is under way
  (`ListRecovers`). Over Postgres this is false: a resume that read its clock before the
  expiry and waits for the row lock opens a session that no list has. Hence
  `Backend = "memory"`, which also keeps transactions from being rolled back.
* the session inside DisconnectSession is ended and, by `EndedForEver`'s argument, stays
  so whatever the controller answers (`HandlerRecovers`).

The lemmas up to `HandlerSteers` show of each action where it may go and what it may
carry there (`Follows`); `RecoversOn` then does the step for all of them at once.

`EndedIsTracked` relates three things that no handler writes together: the session row,
what the gateway forwards (`online`), and who is still at work. It counts handlers that
will do nothing about the session. `ChaseInv` counts those that will ask the controller
again, and the queued tasks (`Hunted`), and says why the others may stop:

* A session row is marked ended by a handler that is on its way to the controller, and
  each of them goes on to it or queues a task (`EndChases`, `FailChases`, `Retried`).
  `Chases` is what each action does about it; `ChasesInv` does the step for all of them.
* An answer of the controller means that the gateway has cut the session (`AnswerCuts`),
  but the handler writes the row once more, at `dc_clear`. A resume can let the session in
  between the two. The second part of `OnlineChased` speaks of this.
* That such a resume is possible at all means that the token is active and the session
  was found in a transaction that read its clock before the token expired. So the
  invariant has to know the reason a session ends for: `Doomed` says that it is one its
  token does not recover from. Either the token is over, and then no transaction lets
  the session in (`LetInForgiven`), or it ends as expired or recovered and the time of its
  token is up, in the row and in every copy of it (`Spent`, stable by `ExpiryInv`), and
  then it may be forgotten (`Forgiven`).
* Only a manual disconnect ends sessions of tokens that are still good. Over the memory
  store no transaction can come in between, and the ended row stays ended
  (`ChaseFrame`); over Postgres the property is false with one.

`ChaseSetting` names the hypotheses: no accounting start, usage report or stop runs (the
first two write stale rows, the third is described in section 3), manual disconnects over
the memory store only, asynq runs, and a CoA or HTTP controller is configured. Without
asynq a failed call is forgotten by the code's choice; without a controller
DisconnectSession succeeds and cuts nothing. Any number of handlers, sessions and tokens
may run, RADIUS logins and recoveries among them, over both stores; the run has Postgres
and neither of the two.

`WindowBound` and `RefusedIsBusy` are not inductive either: Redis keeps a number and
an expiry, and the properties speak of times. `AdmittedInv` says that the counter
covers every admission that is still in its window, and that the key outlives the
windows of all of them (EXPIRE on every request is what makes this true; the mutant
`CountedOnce` breaks it). `AskedInv` says that a live counter counts the last requests,
with no silent window between two of them.

`SalesInv` carries the guarantees of the sales side across the calls of a request:
exactly the call that is about to commit holds the unique key of its reference and
finds no row there (`KeyHeld`), so that a committed status never changes and nobody
was answered about a row that is not stored (`AnswersStored`); a code is stored
before a call holds it and held by one call (`CodesHeld`); a purchase that is past its
payment has a reference stored as paid, because only purchases draw references of its
kind (`CallsKnow`, `PurchasesPaid`). `RefAssumption`, that providers and portal draw
from different references, is what the prefix "portal-" stands for. No bound on
calls, codes or faults is used, and the set of references may be infinite.

Only model-checked: the liveness properties `RequestsFinish`, `OverdueIsSwept`,
`OverGoesOffline` and `CallsReturn`, since liveness under fairness and ENABLED are outside
what the prover handles, and the four violations. Every invariant and every action
property of a passing run is a theorem. No module declares a recursive operator.

## 5. Not modelled

* Plan, payment and audit tables of the memory store: its CreatePaymentIfAbsent is
  one call under the mutex, so the interleavings of `Payments` cannot happen there.
* asynq's retry limit and back-off, the scheduler's period: weaker fairness stands
  in for them. DisconnectSession enqueues a task of its own when a retry fails and
  asynq puts the failed one back, so tasks multiply while a gateway is down; the
  cap `MaxTasks` hides the growth.
* A retry queue or rate-limit counters lost with Redis: Redis keeps its data.
* The session timeout of an Access-Accept, which the gateway enforces on its own.
* RADIUS attribute parsing and digests, MAC and token-code formatting, HMAC
  signatures, HTML: no property is about them.
* Plans' creation and seeding (inserts of rows with fresh ids; plans are constants of
  the models), audit log, read-only listings, RBAC, configuration, frontend,
  containers.

## 6. Plan

Done: both stores and the request layer; gateway integration, token service,
recovery and accounting, each with its properties; their composition and its
refinement of `Voucher`; payments, token generation and purchase; the rate limiter;
the proofs of section 4.

Next, in this order:

1. The session timeout of an Access-Accept with a gateway that enforces it, beside
   the sweep.
2. Seeding and creation of plans by several processes that start together.
