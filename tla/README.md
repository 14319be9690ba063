# TLA+ models of new-api

new-api (`src/new-api`) is a gateway in Go between clients and the providers of
large language models. A request carries a *token* of a *user*; the gateway
selects a *channel* (an account at a provider), relays the request, and charges
user and token a *quota* for it. Quotas are money, so most of what can go
seriously wrong goes wrong between the goroutines that take, settle and return
them. This directory models that part first, then the channels, and then the two
clients of the repository with asynchronous behaviour of their own: the chat page
of the web console and the desktop application.

All of it is checked with TLC on small instances; the central results are proved
with TLAPS for every instance.

## 1. Inventory

| component | state | operations | what makes it hard, and what makes it correct |
|---|---|---|---|
| **Relay billing** `controller/relay.go`, `service/pre_consume_quota.go`, `service/quota.go`, `service/violation_fee.go`, `relay/compatible_handler.go`, `model/token.go` | columns `users.quota`, `tokens.remain_quota`, used quotas; per request `FinalPreConsumedQuota`, `newAPIError` | authenticate, pre-consume, attempts, settle, refund, violation fee | Checks and debits are separate statements; the refund runs in its own goroutine beside the fee; a request ends in many ways. *A finished request has cost exactly what is due; with errors, never less than nothing nor more than hold and cost.* |
| **Batch updater** `model/utils.go` | five process-local maps of deltas | `addNewRecord`, the loop `batchUpdate` | Maps are swapped under a lock and written outside it, UPDATEs fail, the process dies. *No delta is dropped silently or applied twice.* |
| **Realtime sessions** `relay/channel/openai/relay-openai.go` | `usage`, `localUsage`, `sumUsage`, two closing channels, `errChan` | two readers and the handler | Three goroutines share the usage variables without a lock. *Usage is billed, once, and the handler returns.* |
| **Asynchronous tasks** `relay/relay_task.go`, `controller/task.go`, `controller/task_video.go` | rows of `tasks`, each with a status and a quota | submit, poll, query | The poller and a client's query save whole copies of a row; refund and save are separate. *A failed task is refunded, once; a finished one ends in the database.* |
| **Channel selection** `service/channel_select.go`, `model/channel_cache.go`, `middleware/distributor.go`, `controller/relay.go` | memory cache of channels by group; `RetryParam` and context keys of a request | first selection, retry, switch of group | The counter is reset inside the loop that tests it, and the lists change between attempts. *The loop ends, tries what it should, and bills the group that serves.* |
| **Channel status** `model/channel.go`, `model/ability.go`, `model/channel_cache.go`, `controller/channel.go` | a status in the row, in the abilities and in the cache; the list of key statuses of a multi-key channel | disable and enable after failures and tests, administration of keys, reload | Three copies of one fact, changed by whole-row writes of copies read before a lock. *A key is blamed for its own failures; abilities and cache follow the row.* |
| **Redis quota cache** `common/redis.go`, `model/user_cache.go`, `model/user.go` | a hash per user with a TTL, beside the row and the batch map | load, `HINCRBY`, credits that skip Redis, saves of the account, expiry | Nothing orders the hash and the row; the TTL is read by a command of its own; some writers skip the hash, others write back an old quota. *Only a change that raced with such a save is lost; the cached quota is off by what missed it at most, and heals.* |
| **Midjourney** `relay/mjproxy_handler.go`, `controller/midjourney.go` | rows of `midjourneys` | submit, poll, notify | As tasks, with a callback that also writes the row. |
| **Top-up** `controller/topup*.go`, `model/topup.go` (and redemption, check-in) | rows of orders, a mutex per order | create, pay, callback, expire, manual completion | Callbacks are repeated and concurrent; the intended row lock uses an option of GORM's first version. *A payment is credited, once.* |
| **Rate limits** `middleware/*rate-limit.go`, `common/rate-limit.go`, `common/limiter` | windows in memory or Redis | admit | Windows at their limit. |
| **Channel affinity** `service/channel_affinity.go`, `pkg/cachex` | a two-level cache | record, prefer, expire | Stale entries. |
| **Web playground** `web/src/hooks/playground`, `web/src/pages/Playground` | the messages on the page and in localStorage, open requests, timers, dialogs | send, stop, edit, delete, retry, reset, reload | Answers do not know their message; saves are timers; dialogs keep old lists. *An answer holds its own text, ends, and is stored as shown.* |
| **Desktop client** `electron/main.js` | the server's process, probes, windows, timers | start, probe, show, quit | Timeouts retry twice; quit, exit and kill timer race. *The start settles; no server is left behind.* |
| Adaptors, administration, logs, web console | | | Data conversion, single-row CRUD, presentation: no protocol of their own. |

How they interact: `Distribute` selects the first channel; `Relay` prices the
request, pre-consumes, and loops over attempts, selecting again after each
failure; the handler of the attempt settles; a deferred function refunds and may
charge a violation fee. Every change of a counter goes to the database directly
or through the batch updater. Realtime sessions are attempts that charge while
they run. Task submissions are charged at once and corrected later by the
poller, a goroutine of the master node. Failing attempts disable channels, which
changes the lists that other requests select from. With Redis, holds,
settlements, refunds, Easypay's payments and check-ins also go to a hash, from
which requests are admitted. Stripe's and Creem's payments, manual completions,
redemptions and transfers of affiliate quota change the row and leave the hash
alone; updates and edits of an account, invitations and those transfers write
back a quota read before. The playground is a client of the relay like any other, and the
desktop application runs the whole server as its child.

`PROJECT.json` lists the hazards line by line, with the properties that cover
them, or the reason why none does yet.

## 2. Modules

| module | models | checked by |
|---|---|---|
| `Options` | the setting that the next two and `QuotaCache` read | through them |
| `BatchUpdater` | `model/utils.go` and the counter updates of `model/user.go` | through `RelayBilling` |
| `RelayBilling` (extends `BatchUpdater`) | the life of relayed requests | `MCRelayBilling` |
| `QuotaProofs` | sums over finite sets; theorems about both and about `QuotaCache` | TLAPS |
| `RealtimeBilling` | one websocket session | directly |
| `RealtimeBillingProofs` | theorems about it | TLAPS |
| `TaskBilling` | tasks: submit, poller, query | `MCTaskBilling` |
| `TaskBillingProofs` | theorems about it | TLAPS |
| `ChannelSelect` | the channels one request tries | `MCChannelSelect` |
| `ChannelSelectProofs` | theorems about it | TLAPS |
| `Subsequences` | what filtering leaves of a list | through `ChannelStatus` and `Playground` |
| `ChannelStatus` (extends `Subsequences`) | one multi-key channel in row, abilities and cache | `MCChannelStatus` |
| `ChannelStatusProofs` | theorems about it | TLAPS |
| `QuotaCache` | one user's quota in row, batch map and Redis (theorems in `QuotaProofs`) | `MCQuotaCache` |
| `OrderBook` | abstract: what a payment promises | as the property `ImplementsOrderBook` of `TopUp` |
| `TopUp` (instantiates `OrderBook`) | orders, callbacks, manual completion | `MCTopUp` |
| `TopUpProofs` | theorems about it, the refinement among them | TLAPS |
| `Playground` (extends `Subsequences`) | the chat page | directly |
| `PlaygroundProofs` | theorems about it | TLAPS |
| `Desktop` | the desktop client | directly |
| `DesktopProofs` | theorems about it | TLAPS |

An MC module only gives values to the constants. Definitions whose comment begins
with *Mutant* are plausible mistakes in the definition that follows. They are used by no specification: each shows that some property would
notice that mistake (`mutants` in `PROJECT.json`).

### BatchUpdater and RelayBilling

A *key* is one column of one row. `db` is the database, `stores` the five maps,
`batch` the map the loop has taken, `batchPos` its loop index. `Record` is
`addNewRecord` with batching and an UPDATE without; `RecordFails` is an UPDATE
whose error the caller sees, `RecordLogged` one whose error is only logged.
`BatchTake` is the swap under the lock, `BatchWrite` and `BatchWriteFails` one
UPDATE of the loop. `lost` and `issued` are history variables.

Each request of `RelayBilling` is a goroutine with a location `pc[r]`, and
`refund[r]` is the goroutine that `ReturnPreConsumedQuota` starts. Every
statement is a step, so any other goroutine may run between a check and the
debit it justifies:

    new -> price -> checkToken -> debitToken -> debitUser -> relay
        relay -> settleUser -> settleToken -> closed        (served)
        relay -> [refund starts] -> feeUser -> feeToken -> feeUsed -> closed (failed)

`Authenticate` is `ValidateUserToken`; `PriceFreeModel` and `CheckUserQuota`
the pricing and first half of `PreConsumeQuota`, with its trust rule
(`Trusted`); `CheckTokenQuota`, `PreConsumeToken`, `PreConsumeUser` the rest;
`RetryRelay`, `FailRelay`, `PanicRelay`, `ServeRelay` and `ServeWithoutUsage`
the outcomes of an attempt. `Crash` ends every goroutine and loses the maps. The
quota computed from prices, ratios and usage is a member of a small set.

### RealtimeBilling

`target` and `main` both call `preConsumeUsage`; its steps (`Sum`, `Check`,
the two debits) are shared actions of a *biller*. The client's reader adds to
`localUsage`. Accesses to the shared variables are unsynchronised in the code:
where a goroutine computes a quota from an object that another one changes, the
model chooses between the old and the new value. Usage is measured by what it
costs.

### TaskBilling

The row is `[status, quota, hasId]`. `Submit` has one step per statement, the
insert before the charge, as in `RelayTaskSubmit`. The poller is a record `poll`
with a location and its local variables (the leftover `err` of
`updateSunoTaskAll` too) and works on copies in `snap`. `ClientFetch` and
`ClientSave` are the two halves of a query of a Gemini or Vertex task. Every
statement may fail while `failures < MaxFailures`.

### ChannelSelect

One request, with a token that has a fixed group, auto groups, or auto groups
with cross-group retry, against lists that change. `Distribute` and
`DistributeByAffinity` make the first selection, `GetChannel` the others;
`PrepareRetry` is the block of `CacheGetRandomSatisfiedChannel` that moves to the
next group, `NextRetry` is `IncreaseRetry`. `Satisfied(i, n)` is the set of
channels `GetRandomSatisfiedChannel` may return. `DisableChannel`, `DisableKeys`
and `InitChannelCache` change the cache.

### ChannelStatus

One channel with several keys. `row`, `ability`, `cached` and `listed` are its
copies; `upd` is the `UpdateChannelStatus` that holds `channelStatusLock`
(others wait in `pending`), `adm[a]` the administrator's request in slot `a`,
`sync` the loop that reloads the cache. Each of them works on a copy of the row
it read and has one step per statement. `Edits` are the requests of
`UpdateChannel`: a new status or none, and keys that replace the row's, are
appended to them or leave them (`EditedKeys`). `Channel.Update` counts the keys
and drops the marks beyond them (`AdminCount`, `Recount`) but keeps the other
marks by index, whatever keys they were made for. `ManageMultiKeys` reads the
row, takes the polling lock and holds it until the cache is installed;
`UpdateChannel` never takes it, and an update only while it changes a list in
memory (`UpdateCache`, `UpdateApply`), so a save may fall between the statements
of an administrator and two administrators may write over each other.

`inherited` and `overlap` are history. A key is *inherited* when a write leaves
it with an automatic mark that was made for another key (`Inheriting`): keys
were replaced under the old list, or a list came back beside other keys. That
is how the code blames a key that never failed, and `BlamedKeyFailed` says that
there is no other way. `overlap` is set when a write failed or crossed another
party's.

### QuotaCache

`progress[c]` and `cache[c]` say how far the change `c` of the quota got on its
two independent ways. A change comes in one of four ways: `StartChange`
(`IncreaseUserQuota`, `DecreaseUserQuota`) goes to the row or the map and to
Redis; `CheckIn` to the row and then to Redis; `Credit` (`Recharge`,
`RechargeCreem`, `ManualCompleteTopUp`, `Redeem`) to the row only; and `SaveRead`
with `adds` brings it along with a quota that was read (a transfer of affiliate
quota, an administrator's edit of a quota). `reader` are loads by
`GetUserCache`. `saver` are writes of a quota read before, by `Kind`: `"update"`
is `User.Update`, which reads twice and skips a quota of zero; `"edit"` is
`User.Edit` with the form's quota; `"save"` is the whole row of `inviteUser` and
`TransferAffQuotaToQuota`, whose `FOR UPDATE` is an option of GORM's first
version and locks nothing. The hash is described by which fields it has, its
quota and whether it has a TTL.

`blurred` collects the changes that the hash may have missed or counted twice,
those it is never told of included; `raced` those that reached the row while a
save held an older one. `LossNeedsSave` says that the row counts every change
once but for some of `raced`: it names the harm of those saves and shows that
nothing else loses or repeats a change.

### OrderBook and TopUp

`OrderBook` opens, settles and pays out an order, in this direction and once.
`TopUp` has the handlers: `handler[h]` is a running one with its kind, order and
location. Easypay's reads, saves and credits by three statements under the
order's mutex; Stripe's, Creem's and the administrator's handlers run a
transaction whose read and commit are two steps, since the installed GORM takes
no row lock. The gateway is external: it reports until it is answered with
success and may report again. `Book` maps `TopUp` to `OrderBook` for Easypay's
orders: an order is *settled* while its row is marked and the quota not yet
raised. The other gateways' orders do not implement the book (they can be
credited by overlapping transactions), and `CreditsAreBounded` says how far they
depart from it.

### Playground

`message` is the conversation, `stored` the list in localStorage, `timeouts` and
`delayed` the two queues of timers, `streams` and `fetches` the open requests,
`ref` is `sseSourceRef`, `dialog` an open `Modal.confirm` with the list it keeps.
Contents are replaced by `from`, the requests that wrote into a message. A
handler is one action together with the updaters it queues. `stray` collects the
requests the page lost sight of: a fetch that was stopped, a source left open
after a parse error, requests overtaken by Clear or by a dialog. The properties
say that only those can do harm.

### Desktop

One action per callback of `main.js`. A request of `checkServerAvailability` may
time out and then fail as well, and both listeners retry. `killTimers` counts
the timers of `before-quit`, each with its `close` listener.

## 3. Runs

Run one with `tlc -config <cfg> <module>`. All runs say `CHECK_DEADLOCK FALSE`:
requests, sessions and tasks end, and a finished system has no further step.

| run | shows |
|---|---|
| `relay_batched` | two concurrent requests of one user and token, with batching: `TypeOK`, `ExactCharge`, and `DatabaseAddsUp`, that once all is written the columns agree with the requests and with each other |
| `relay_failing` | without batching, any UPDATE may fail and the process may crash anywhere: `PaidWithinBounds` |
| `relay_batch_failing` | with batching, failing flushes and a crash: `BatchConservation`, and under fairness `WorkFinishes` and `FailedIsRefunded` |
| `realtime` | `TargetCloseBillsOnce`, `DoubleBillingIsBounded`, `SessionEnds` |
| `task_failing` | a Suno task and a video: `TaskAddsUp` as long as nothing fails, `VideoRefundedOnce` whatever fails or crashes, and `RepeatsNeedErrors`: a repeated refund or surcharge has an error or a crash of its own to blame |
| `task_queries` | a Gemini task queried three times, with errors and a crash: `ExtraRefundsNeedQueries`, and under fairness `TaskFinishes` |
| `select` | the three kinds of tokens: `AttemptsAreBounded`, `BilledGroupServes`, `CrossGroupTriesAll`, `RetryDescends`, `RequestEnds` |
| `channel_status` | two keys, one of them failed before; three inputs, of which two may be requests of administrators at the same time (a status, new keys, an appended key, the actions on keys), the others failures and tests; failing UPDATEs, reloads: `BlamedKeyFailed`, `AbilitiesFollow`, `KeylessIsOff`, `CacheConverges` |
| `quota_cache` | a debit, and a credit by any of its four ways, with batching; a load, a `User.Update` and a whole-row save at the same time, expiry, an error: `LossNeedsSave`, `CacheDriftBounded`, `CacheHeals` |
| `topup` | an order of each gateway, two handlers, two more callbacks or completions, a failure and a crash: `SettledForGood`, `CreditsAreBounded`, `PaidIsCredited`, and the refinement `ImplementsOrderBook` |
| `playground` | two requests (streamed or not), an edit, a reload: `OpenIsTracked`, `AnswersAreOwn`, `StoredIsShown`, `CrashNeedsStray`, `AnswerFinishes` |
| `desktop` | three probes, two requests to quit, two windows, with and without a server of its own: `NoOrphanServer`, `ProbesAreBounded`, `StartSettles`, `QuitEnds` |

The `TypeOK` of the other modules and `EpayOnce` hold as well and can be added to
the configurations; `TypeOK` of `RealtimeBilling` includes that `errChan` never
exceeds its capacity. `EpayOnce` and the `TypeOK` of every module are
theorems.

### Bounds

* Requests: two. All interference between requests goes through shared columns
  and the batch, and every race in the code involves a pair (check of one, debit
  of the other; batch of one, addition of the other). `relay_batch_failing` has
  one request with its refund goroutine and the loop, since failures multiply
  the states; the theorems cover any number.
* Quotas: a hold of 2 with costs of 1 and 3 settles both ways; a user of 5 and a
  token of 3 admit one request and leave the second on the edge; a pre-consume
  of 4 is refused by the token; `TrustQuota` 4 makes trust depend on the moment.
* `MaxAttempts` 1 or 2: an error in a first and in a later attempt (they differ
  for a panic). `MaxCrashes` 1. `UPDATE`s of `RelayBilling` fail without bound.
* `MaxMessages` 4: enough for a counted input, a report, and one more of either
  while the first is being billed.
* `MaxFailures` 1 (2 with queries), `MaxFetches` 3: a query saved before, during
  and after the poller's turn.
* `RetryTimes` 2 with two groups of two priorities: the lowest priority is
  reached and repeated before the groups switch. `MaxChanges` 2: a channel goes
  and comes back between attempts.
* `channel_status`: `MaxKeys` 2, the smallest list whose indices can move, with a
  mark on the first key from the start, so that a replacement has one to
  inherit. `MaxOpen` and `MaxChanges` 2: every pair of administrators' requests,
  one after the other or interleaved. `MaxInputs` 3: beside them a failure or a
  test, or up to three of these alone, which disable both keys and test one. The
  edits are one of each kind: a status alone, keys that replace the others
  together with a status, and an appended key that is there already or was
  deleted before.
* `quota_cache`: one debit and one credit; a load and two savers, any two of which
  can overwrite each other; `MaxSaves` 2; an initial quota of 1 so that the debit
  makes it 0, the value that `Updates` skips. A save of kind `"edit"` has the
  steps of the other two (it writes as `"save"` and stores as `"update"`) and is
  covered by the theorems, which allow any number of each.
* `topup`: two handlers make the pair that every race here consists of; two extra
  calls allow a repeated callback beside a manual completion. The theorems cover
  any number.
* `playground`: two requests, so that one can meet the other's message; one edit
  and one reload, so that ids repeat. Custom request bodies are off in the run;
  they only change how many ids a question spends.
* `desktop`: `MaxRetries` 3 lets chains of probes split twice; two windows, since
  a third is never made.

Symmetry over requests is used in the two relay runs that check only invariants
and treat requests alike.

### Fairness

* `RelayBilling`: weak fairness for the steps that wait for nobody but the
  database (`Work`, `Refund`), and for the loop, which wakes up every
  `BatchUpdateInterval`. Clients and upstreams owe nothing: a request may stay
  unauthenticated or in `relay` for ever.
* `RealtimeBilling`: weak fairness for the handler and for the target's reader
  while it bills. Reads may block for ever.
* `TaskBilling`: weak fairness for the poller, whose loop never ends, for the
  save of a query and for the charges of a submit. Strong fairness for an answer
  of the upstream: one that is asked again and again answers at some point.
  Nothing forces the upstream to finish a task.
* `ChannelSelect`: weak fairness for the steps of the request: an attempt ends
  by an answer or by the timeout of the HTTP client.
* `ChannelStatus`: weak fairness for the running goroutines and for the reload,
  whose loop never ends; for each slot of an administrator's request separately,
  since each is a goroutine. Requests, tests and administrators need not arrive.
* `QuotaCache`: weak fairness for the goroutines, the batch loop, the steps of a
  save once it has read the row, and the passing of a TTL.
* `TopUp`: weak fairness for the steps of a handler and for the gateway's report
  of a payment that was not answered with success; users need not pay.
* `Playground`: weak fairness for the browser's timers and for the end of each
  response, well or badly. The user owes nothing.
* `Desktop`: weak fairness for the timers and for the outcome of a probe (both
  are timers in the end). The server need not start, answer or stop.

## 4. Theorems

| theorem | statement |
|---|---|
| `QuotaProofs!TypeCorrect` | `Spec => []TypeOK` |
| `QuotaProofs!Conservation` | `Spec => []BatchConservation` |
| `QuotaProofs!ChargedExactly` | `Spec => []ExactCharge` |
| `QuotaProofs!PaidBounded` | `Spec => []PaidWithinBounds` |
| `QuotaProofs!Accounted` | `Spec => []QuotaIsAccounted` |
| `QuotaProofs!NoneCreated` | `Spec => []NoQuotaCreated` |
| `QuotaProofs!AddsUp` | `Spec => []DatabaseAddsUp` |
| `QuotaProofs!CacheTypeCorrect` | `CacheSpec => []CacheTypeOK` |
| `QuotaProofs!LossOnlyBySave` | `CacheSpec => []LossNeedsSave` |
| `QuotaProofs!DriftBounded` | `CacheSpec => []CacheDriftBounded` |
| `TaskBillingProofs!TypeCorrect` | `Spec => []TypeOK` |
| `TaskBillingProofs!RefundsOnce` | `Spec => []VideoRefundedOnce` |
| `TaskBillingProofs!QueriesBoundRefunds` | `Spec => []ExtraRefundsNeedQueries` |
| `TaskBillingProofs!ErrorsBoundRepeats` | `Spec => []RepeatsNeedErrors` |
| `TaskBillingProofs!TasksAddUp` | `Spec => []TaskAddsUp` |
| `RealtimeBillingProofs!TypeCorrect` | `Spec => []TypeOK` |
| `RealtimeBillingProofs!ClosedByTargetBillsOnce` | `Spec => []TargetCloseBillsOnce` |
| `RealtimeBillingProofs!DoubleBillingBounded` | `Spec => []DoubleBillingIsBounded` |
| `ChannelSelectProofs!TypeCorrect` | `Spec => []TypeOK` |
| `ChannelSelectProofs!AttemptsBounded` | `Spec => []AttemptsAreBounded` |
| `ChannelSelectProofs!RatioOfServingGroup` | `Spec => []BilledGroupServes` |
| `ChannelSelectProofs!CrossGroupRetryIsComplete` | `Spec => []CrossGroupTriesAll` |
| `ChannelSelectProofs!RetriesDescend` | `Spec => RetryDescends`, an action property |
| `ChannelStatusProofs!TypeCorrect` | `Spec => []TypeOK` |
| `ChannelStatusProofs!OnlyFailedKeysAreBlamed` | `Spec => []BlamedKeyFailed` |
| `ChannelStatusProofs!AbilitiesAgree` | `Spec => []AbilitiesFollow` |
| `ChannelStatusProofs!KeylessChannelIsOff` | `Spec => []KeylessIsOff` |
| `TopUpProofs!TypeCorrect` | `Spec => []TypeOK` |
| `TopUpProofs!EpayPaysOnce` | `Spec => []EpayOnce` |
| `TopUpProofs!SettledOrdersStaySettled` | `Spec => []SettledForGood` |
| `TopUpProofs!CreditsNeedOverlap` | `Spec => []CreditsAreBounded` |
| `TopUpProofs!OrdersImplementBook` | `Spec => ImplementsOrderBook`, the refinement |
| `PlaygroundProofs!TypeCorrect` | `Spec => []TypeOK` |
| `PlaygroundProofs!RequestsAreTracked` | `Spec => []OpenIsTracked` |
| `PlaygroundProofs!AnswersStayOwn` | `Spec => []AnswersAreOwn` |
| `PlaygroundProofs!StorageIsShown` | `Spec => []StoredIsShown` |
| `PlaygroundProofs!OnlyStraysCrash` | `Spec => []CrashNeedsStray` |
| `DesktopProofs!TypeCorrect` | `Spec => []TypeOK` |
| `DesktopProofs!ProbesEnd` | `Spec => []ProbesAreBounded` |
| `DesktopProofs!ServerIsStopped` | `Spec => []NoOrphanServer` |

They assume only what the `ASSUME` of each module says of its constants
(`BatchAssumption`, `RelayAssumption`, `QuotaCacheAssumption`, `TaskAssumption`,
`RealtimeAssumption`, `SelectAssumption`, `ChannelStatusAssumption`, `TopUpAssumption`,
`PlaygroundAssumption`, `DesktopAssumption`): keys belong to one of the five maps,
the columns of a request are of the right kind, prices are naturals, the reports
of an upstream have a largest one (they are machine integers), channels are
finitely many, there is at least one group, a channel has keys and none of them
is the value that stands for no key, the handlers that run at one time are
finitely many, windows are numbered from 1, and the requests, the channel columns
and the changes of a quota are finitely many. TLC evaluates these on every run.
`QuotaProofs` extends `RelayBilling` and `QuotaCache`; each theorem there is about
one of the two specifications (`Spec` or `CacheSpec`) and says nothing of the
other's variables.

**Sums.** Four properties compare a column with a sum over requests or changes.
The library's `SumFunctionOnSet` is a recursive function on the subsets of a
finite set; what it computes takes an induction over them. `SubsetInduction`
does this for a *set* `G` of subsets in place of a predicate, by the subset of
least cardinality outside `G`, so that no operator has to be instantiated.
`SumsExist` and `SumsUnique` show that the recursion has one solution, `SumPick`
is its equation for any element, and the lemmas after it (`SumUpdate`,
`SumUnion`, `SumPlus`, `SumBetween`, ...) are all the other proofs use.

**RelayBilling.** `ExactCharge` and `PaidWithinBounds` speak of the end of a
request and of sums, which says nothing of how a request in the middle got
there. The inductive invariant `Inv` is `TypeOK` and, for each request, `Phase`
(which locations and refunds go with which outcome, and when the hold is still
zero), `Taken` (what has been taken from user and token at each location, and
that a running refund never returns more than was taken), and, if no UPDATE
fails, `TakenExactly` (the same with equalities). `Taken` is needed for
`TakenExactly`'s base and for the bounds under errors; `Phase` is what excludes a
refund beside a settlement. It is a statement about one request at a time:
`Frame` shows that a step of another request, or of the batch loop, leaves it
alone, and one lemma per group of actions shows the rest. `BatchConservation` is
inductive together with the types; the lemmas about `Record`, `RecordLogged`,
`BatchUpdate` and `BatchCrash` prove it per operation, and `StepCounters` says
that every step of `RelayBilling` is one of those for the counters.

`Ledger` joins the two sides. `PaidLedger` says that what the batch updater
accepted for the column of a user or token is minus the sum of what the requests
of that column have taken; it holds whatever fails. `UsageLedger` says the same
of the used quota, per user and over all channels, and that nothing is lost; it
needs that no UPDATE failed and that there was no crash. Each action enters the
books in one of a few ways (`Books`): it moves one request and its column by the
same amount, or it leaves both alone, and `SumOfColumn` carries that to the sum.
`QuotaIsAccounted` is `Ledger` with `BatchConservation`; and with `ExactCharge`'s
invariant, at rest, it gives `DatabaseAddsUp`.

`NoQuotaCreated` says when a user or a token can have more quota than it started
with, in its column and in what waits for it: only with batching, and only where
a debit was lost by a failed flush or a crash while its refund was written. It
does happen, and the theorem names it: without batching it cannot, whatever fails
and wherever the process dies. It follows from `PaidWithinBounds` and
`QuotaIsAccounted`, by which the excess is at most what was lost, and from
`LossInv`, which says that only the batch updater loses and only by such an
event.

**QuotaCache.** `Counts` says that there is a set `R` of changes the row counts now
(`RowIs`: the initial quota and `R`; what was written and is not in `R` has
raced). The set has to be guessed, since a save puts an old quota back and which
changes that takes out depends on what it had read: `Old` says of a quota on its
way to the row that it counts some of the written changes and that the others
have raced. A quota on its way to the hash is a `Snapshot`: it agrees with `R` on
every change outside its `seen`, which becomes `blurred` when it is stored.
`HashCounts` describes the quota in the hash by the changes `K` the row counted
when it was read and the changes `J` added by `HINCRBY`: a change that is not
blurred is in exactly one of `K`, `J` and the changes still to be added. What is
in both or in neither is blurred, and what Redis has twice while the row lost it
is blurred and raced, hence the two terms of `CacheDriftBounded`'s bound.
`AddsOwned` says that a change brought by a save is written by that save alone.

**TaskBilling.** `VideoRefundedOnce` is not inductive: the poller must not hold,
or list again, a copy of a refunded video from before its failure was saved.
`InHand` ties the poller's location to the task it holds and a due refund to a
failed copy; `RefundedOrNot` says that a refunded video is `FAILURE` in its row
and is neither on the list nor in hand, that nothing is listed before it is
inserted, and that the refund is only reached with the failure saved. That no
query holds a copy of such a video (`fetch[t] = NoFetch`) is what fails for
Gemini, see section 5.

The other three properties are accounts, and `Accounts` writes them down at every
location. `QueriesPay` counts the refunds of a Gemini task that may still come
(one of the poller, one for each query that holds a copy) against the queries
made. `ErrorsPay` does the same for a Suno task or a video that may be billed
again (`Billable`) against errors and crashes: the existential over the surcharge
is there because every repetition charges the same one. `Ledger` is the balance
without errors, with the charges the submission still owes and the quota of the
copy in hand. The poller works on one task at a time, and each action affects a
task in one of a few ways (`Inserts`, `Charges`, `Queries`, `Saves`, `Lists`, ...);
one lemma per action classifies it and one per part of `Accounts` shows that
every such effect preserves it.

**RealtimeBilling.** Both bounds speak of what has been charged, and the
invariant adds what may still be charged: `TargetOwes` and `MainOwes` for any
ending, `ClosingOwes` for one by the upstream, each read off the location of the
two billers. `UsageIsLast` bounds the two shared variables (at most one report, at
most what was counted) whichever of the racing accesses comes first; `WakesOnce`
says that after a close by the upstream the reader has ended and its usage is
clear, so that only local usage is left to bill. `Alike` compares user and token,
`Covered` bounds the reports from above by the charge and the debits to come,
`UsedIsCharged` the used quota.

**ChannelSelect.** The measure of `AttemptsAreBounded` is `RetriesCount`: the
attempts so far are at most a full group's for each group left behind, plus the
counter. A reset of the counter is paid for because the group index moves with
it. `GroupServes` carries the group from one selection to the next. `CrossTries`
says that the groups passed were tried, and that with cross-group retry no
attempt is made at the last count, where the loop would end instead of switching.
`RetryDescends` needs `Descent`, which ties the priority of the last channel to
the counter; it rests on the fact that the priorities of a finite set are ranked
without gaps, so that the next count is the next lower priority or again the
lowest.

**ChannelStatus.** `Blamed` extends `BlamedKeyFailed` to every list of marks that
may still be written and to the calls that wait for the lock. A list is judged by
the keys it was made for (`MadeFor`): those that `ManageMultiKeys` leaves, those
that `UpdateChannel` or an update read. When it is written beside other keys,
the keys that do not match are exactly the ones that become inherited.
`Following` says who is still on the way to the abilities while they disagree
with the row, that a row nobody wrote over is `Tidy` (its list is as long as its
keys and has no mark past them), and that an update which leaves no key enabled
has switched the channel off. Deleting keys indexes the list anew: `NthOf` and
`KeptKeys` say that a kept key keeps its mark.

**Playground.** Old lists come back from storage, timers and dialogs, so `Typed`
says of all of them that they consist of `OwnMessages`, messages with no text of
another request the page had in sight. `Tracked` is inductive with it. For
`StoredIsShown`, `Shown` looks ahead: the conversation is what the storage will
hold when the pending saves have run (`Eventual`, the list of the last one),
which is why late saves do no harm as long as they stay in order.

**TopUp.** Easypay's three statements are safe only because of the mutex.
`LocksAreHeld` says that a handler past `LockOrder` is its holder, so two of them
are never inside; `EpayKnows` says what the one inside knows (the order is still
pending before its save or commit, marked and uncredited before its credit);
`HandlersMatch` ties a handler's kind to its order and location. Together with
`EpayOnce` and `SettledForGood` they are `IInv`. For `CreditsAreBounded`,
`HoldersAreCounted` counts the transactions that have read the order pending and
not committed: once an order is paid out their number only falls, so credits and
holders together stay below the number of handlers. The refinement takes one
lemma per action: it maps to the abstract step or leaves the mapped entry and
quota alone.

**Desktop.** `ProbesAreBounded` needs an account of the events to come
(`ProbesArePaidFor`): each request ends with at most two events, one of them used
up when its timeout fired, and each event below the limit pays for one attempt.
`NoOrphanServer` needs that a `close` event belongs to a process that has ended.
`TypeOK` includes that `mainWindow` never refers to a destroyed window; it is proved
by parts (`WindowsOK`, `FlagsOK`, `EventsOK`, `TimersOK`).

**Only model-checked.** Liveness (`WorkFinishes`, `FailedIsRefunded`,
`SessionEnds`, `TaskFinishes`, `RequestEnds`, `CacheConverges`, `CacheHeals`,
`PaidIsCredited`, `AnswerFinishes`, `StartSettles`, `QuitEnds`) is out of the
prover's reach. Every invariant, every action property and the refinement that
a run checks is a theorem.

## 5. Statements of the code that TLC refutes

Each is a definition of the module, with its comment. To see the behaviour that
breaks it, put it alone into the named configuration (as `PROPERTIES` for the
three that speak of steps) and run TLC.

1. **A token stays exhausted** (`RelayBilling!ExhaustedTokenIsEmpty`,
   `MCRelayBatched.cfg`). `ValidateUserToken` marks a token whose quota is 0, "we
   can make sure the token is exhausted" (`model/token.go:102`). The quota may be
   0 only because another request holds it for the moment; after its refund the
   token has quota and is still marked.
2. **A realtime report billed twice** (`RealtimeBilling!UsageIsBilledOnce`,
   `MCRealtime.cfg`). The client leaves while the target's reader is inside
   `preConsumeUsage`; the handler bills the usage that the reader clears only
   afterwards, "本次计费完成，清除" (`relay-openai.go:458`).
   `DoubleBillingIsBounded` says that it is at most one report.
3. **The hold of a realtime session is never returned**
   (`RealtimeBilling!UnusedHoldIsReturned`, `MCRealtime.cfg`). All usage is
   charged on top of it, and `PostWssConsumeQuota` does not touch it, against "we
   may have to return the pre-consumed quota" (`service/quota.go:206`).
4. **A Gemini task refunded twice** (`TaskBilling!RefundedOnce`,
   `MCTaskQueries.cfg`). A query's save of an old copy (`relay_task.go:427`)
   makes a refunded row pending again, against "防止重复退还"
   (`task_video.go:270`). `ExtraRefundsNeedQueries` bounds the damage.
5. **Exhausted priorities do not switch the group**
   (`ChannelSelect!ExhaustedGroupIsLeft`, `MCSelect.cfg` with `RetryTimes = 3`).
   The comment and its example (`channel_select.go:66`) move to the next group
   when the priorities are used up; the code clamps to the lowest priority and
   uses it until `RetryTimes`.
6. **A channel reported as enabled stays disabled**
   (`ChannelStatus!EnabledWhenNotified`, `MCChannelStatus.cfg`). `EnableChannel`
   reports "已被启用" (`service/channel.go:41`) after `UpdateChannelStatus`,
   whose `handlerMultiKeyUpdate` never enables the channel itself.
7. **A deletion takes a second message** (`Playground!DeleteRemovesOneExchange`,
   `MCPlayground.cfg`). The message is looked up by reference because of
   "重复 id" (`useMessageActions.jsx:189`), but removed by filtering on the id
   (232), and ids start again after a reload (`helpers/utils.jsx:328`).
8. **Manual completion of a Creem order** (`TopUp!ManualIsWorthTheSame`,
   `MCTopUp.cfg`). "Amount 为美元数量" (`model/topup.go:270`), while Creem's
   orders store the quota itself (`topup_creem.go:111`): completed by hand they
   are credited `QuotaPerUnit` times as much.

## 6. What is left out

* Redis in `RelayBilling`: its quotas are read from the database. What the hash
  adds is the subject of `QuotaCache`, on its own; the hash of a token goes
  through the same commands and is not modelled a second time.
* In `QuotaCache`: the other fields of the hash, which are set one by one
  (`RedisHSetField`); errors of reads, among them that of `DB.First` in
  `User.Update` and `User.Edit`, which the code ignores, and the fallback of
  `GetUserQuota` (`model/user.go:670`), which is reached only when `GetUserCache`
  failed to read the row; crashes. Deleting a user and its key is `Expire`.
* In `RelayBilling`: user and token disabling, e-mail warnings,
  consume logs. In `TaskBilling`: batching, several users, several channels of a
  platform, the panic on an unknown id (a hazard). In `RealtimeBilling`:
  database errors and models with a flat price; the minimum of 1 that
  `calculateAudioQuota` charges for a usage of no tokens when the ratio is not
  zero (`service/quota.go:81`), so that an empty usage is free in the model;
  the case `<-c.Done()` of the handler's select never fires
  with gin's default engine.
* In `ChannelSelect`: tokens bound to one channel, the path of `model/ability.go`
  without the memory cache, and how affinity is recorded.
* In `ChannelStatus`: channels with one key, the polling index, changes by tag or
  by batch, an error of `Channel.Update`, and `get_key_status`, which only reads.
  In `TopUp`: signatures, amounts and their rounding, `createLock`; redemption
  codes and check-ins. In `Playground`: contents, the debug panel, the inputs and
  `useSyncMessageAndCustomBody`, and the second call of an updater under
  StrictMode. In `Desktop`: the wording of message boxes and the log file.
* Midjourney: poller and refund as in `TaskBilling`, plus a notify callback.
  Rate limits and the affinity cache: one critical section each around a window
  or a two-level cache.
* Risks of the code that no property speaks of: concurrent requests may all pass
  the comparison of the quota before any is debited
  (`service/pre_consume_quota.go:41`); an item with an unknown id is a nil task
  and ends the poller's goroutine (`controller/task.go:150`); a Midjourney
  notification of a failure overwrites the row, and the poller no longer lists it
  for a refund (`relay/mjproxy_handler.go:115`); two users redeem one code at a
  time (`model/redemption.go:130`); the lock of all orders is held while one
  order's is awaited (`controller/topup.go:214`); answers to two queries of the
  channel list may arrive in either order (`hooks/channels/useChannelsData.jsx:347`).
* Adaptors and format conversion, administration, logs: stateless conversion and
  single-row CRUD.
* The web console. Counted in lines it is most of the repository's JavaScript
  (some 88,000 lines under `web/src`): tables, forms, settings pages, charts and
  price rendering, each of which loads, shows and posts data that the server
  checks. It has no protocol of its own, and a model of it would restate layout.
  The share of the JavaScript that the map covers is therefore small, and is
  meant to be: the models follow the state, which is in the server, in the chat
  page and in the desktop client.

## 7. Plan

Done: all modules of section 2. Next, in order:

1. `QuotaLedger`, an abstract specification of a request as one atomic charge;
   `RelayBilling` implements it under the mapping that counts a hold until it is
   settled.
2. `ChannelSelect` composed with `ChannelStatus`, whose operations replace its
   `DisableChannel`, `DisableKeys` and `InitChannelCache`.
3. Redemption codes in `TopUp`; `Midjourney`; the batch of model tests of the
   console's channel table.
