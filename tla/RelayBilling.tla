---------------------------- MODULE RelayBilling ----------------------------
(***************************************************************************)
(* Billing of relayed requests: controller/relay.go Relay, the pre-consume *)
(* and refund of service/pre_consume_quota.go, PostConsumeQuota and the    *)
(* post-consume functions of service/quota.go and compatible_handler.go,   *)
(* and the violation fee of service/violation_fee.go, on top of the        *)
(* counters of BatchUpdater.  This is a deployment without Redis, so that  *)
(* quotas are read from the database and not from a Redis copy.            *)
(*                                                                         *)
(* Each request is a goroutine, and the refund it may start is another.    *)
(* Every database read and every counter update is a step of its own:      *)
(* quotas are checked and debited by separate statements.                  *)
(***************************************************************************)
EXTENDS BatchUpdater, FiniteSets, Functions

CONSTANTS
    Requests,
    UserQ, TokenQ, UsedQ, CountQ, \* [Requests -> Keys]: users.quota, tokens.remain_quota,
                                  \* users.used_quota and users.request_count of a request
    ChannelQ,         \* the channels.used_quota columns
    Playground,       \* requests of the playground: their token is not stored
    UnlimitedTokens,  \* tokens (by their key) with UnlimitedQuota
    PreQuotas,        \* values of priceData.QuotaToPreConsume
    Costs,            \* quotas computed from a response's usage
    Fees,             \* violation fees; 0: none is due
    TrustQuota,       \* common.GetTrustQuota()
    MaxAttempts,      \* bound on the attempts of the retry loop
    MaxCrashes        \* bound on process crashes

OfRequest(f, type) == f \in [Requests -> OfType(type)]

ASSUME RelayAssumption ==
    /\ OfRequest(UserQ, UserQuotaType) /\ OfRequest(TokenQ, TokenQuotaType)
    /\ OfRequest(UsedQ, UsedQuotaType) /\ OfRequest(CountQ, RequestCountType)
    /\ ChannelQ \subseteq OfType(ChannelUsedQuotaType)
    /\ IsFiniteSet(Requests) /\ IsFiniteSet(ChannelQ)
    /\ Playground \subseteq Requests
    /\ UnlimitedTokens \subseteq OfType(TokenQuotaType)
    /\ PreQuotas \subseteq Nat /\ Costs \subseteq Nat /\ Fees \subseteq Nat
    /\ TrustQuota \in Nat
    /\ MaxAttempts \in Nat /\ MaxCrashes \in Nat

VARIABLES
    pc,          \* where a request's goroutine is
    refund,      \* where the goroutine of ReturnPreConsumedQuota is; "none": no such goroutine
    tokenQuota,  \* the "token_quota" context key, read during authentication
    price,       \* the preConsumedQuota being pre-consumed
    held,        \* relayInfo.FinalPreConsumedQuota
    failed,      \* newAPIError # nil after an attempt
    attempts,    \* attempts made by the retry loop
    cost,        \* the quota charged for the response, or the violation fee
    outcome,     \* how the request ended (history)
    userPaid,    \* net user quota the request has taken (history)
    tokenPaid,   \* net token quota the request has taken (history)
    tokenStatus, \* tokens.status of the token columns: "enabled" or "exhausted"
    crashes

requestVars == <<pc, refund, tokenQuota, price, held, failed, attempts, cost,
                 outcome, userPaid, tokenPaid, tokenStatus, crashes>>
vars == <<batchVars, requestVars>>

Locations == {"new", "price", "checkToken", "debitToken", "debitUser", "relay",
              "settleUser", "settleToken", "feeUser", "feeToken", "feeUsed", "closed"}
Outcomes == {"open", "rejected", "served", "failed", "panicked", "crashed"}

(* Every variable stays in its type. *)
TypeOK ==
    /\ BatchTypeOK
    /\ pc \in [Requests -> Locations]
    /\ refund \in [Requests -> {"none", "user", "token"}]
    /\ tokenQuota \in [Requests -> Int]
    /\ price \in [Requests -> Nat]
    /\ held \in [Requests -> Nat]
    /\ failed \in [Requests -> BOOLEAN]
    /\ attempts \in [Requests -> Nat]
    /\ cost \in [Requests -> Nat]
    /\ outcome \in [Requests -> Outcomes]
    /\ userPaid \in [Requests -> Int]
    /\ tokenPaid \in [Requests -> Int]
    /\ tokenStatus \in [OfType(TokenQuotaType) -> {"enabled", "exhausted"}]
    /\ crashes \in Nat

Init ==
    /\ BatchInit
    /\ pc = [r \in Requests |-> "new"]
    /\ refund = [r \in Requests |-> "none"]
    /\ tokenQuota = [r \in Requests |-> 0]
    /\ price = [r \in Requests |-> 0]
    /\ held = [r \in Requests |-> 0]
    /\ failed = [r \in Requests |-> FALSE]
    /\ attempts = [r \in Requests |-> 0]
    /\ cost = [r \in Requests |-> 0]
    /\ outcome = [r \in Requests |-> "open"]
    /\ userPaid = [r \in Requests |-> 0]
    /\ tokenPaid = [r \in Requests |-> 0]
    /\ tokenStatus = [t \in OfType(TokenQuotaType) |-> "enabled"]
    /\ crashes = 0

-----------------------------------------------------------------------------
Goto(r, l) == pc' = [pc EXCEPT ![r] = l]

Close(r, o) ==
    /\ Goto(r, "closed")
    /\ outcome' = [outcome EXCEPT ![r] = o]

(* DecreaseUserQuota(v), or IncreaseUserQuota(-v) for a negative v. *)
DebitUserQuota(r, v) ==
    /\ Record(At(UserQ[r], -v))
    /\ userPaid' = [userPaid EXCEPT ![r] = @ + v]

(* DecreaseTokenQuota(v), or IncreaseTokenQuota(-v) for a negative v. *)
DebitTokenQuota(r, v) ==
    /\ Record(At(TokenQ[r], -v))
    /\ tokenPaid' = [tokenPaid EXCEPT ![r] = @ + v]

(* UpdateUserUsedQuotaAndRequestCount and UpdateChannelUsedQuota.  The two  *)
(* UPDATEs may fail on their own, and then only write to the log.           *)
RecordUsage(r, c, channel) ==
    LET user == {UsedQ[r], CountQ[r]}
        delta == Plus(Plus(At(UsedQ[r], c), At(CountQ[r], 1)), At(channel, c))
    IN  \/ Record(delta)
        \/ \E failing \in {user, {channel}, user \cup {channel}} :
               RecordLogged(delta, failing)

-----------------------------------------------------------------------------
(* ValidateUserToken, on a token that is not expired.  A token whose        *)
(* remaining quota is used up is marked exhausted; a failing SelectUpdate   *)
(* is only logged.  The playground authenticates by session instead, with   *)
(* a temporary token that has no quota.                                     *)
Authenticate(r) ==
    /\ pc[r] = "new"
    /\ \/ /\ r \in Playground
          /\ Goto(r, "price")
          /\ UNCHANGED <<tokenQuota, outcome, tokenStatus>>
       \/ /\ r \notin Playground
          /\ tokenStatus[TokenQ[r]] = "enabled"
          /\ TokenQ[r] \in UnlimitedTokens \/ db[TokenQ[r]] > 0
          /\ Goto(r, "price")
          /\ tokenQuota' = [tokenQuota EXCEPT ![r] =
                                IF TokenQ[r] \in UnlimitedTokens THEN 0 ELSE db[TokenQ[r]]]
          /\ UNCHANGED <<outcome, tokenStatus>>
       \/ /\ r \notin Playground
          /\ tokenStatus[TokenQ[r]] = "enabled"
          /\ TokenQ[r] \notin UnlimitedTokens /\ db[TokenQ[r]] <= 0
          /\ Close(r, "rejected")
          /\ \/ tokenStatus' = [tokenStatus EXCEPT ![TokenQ[r]] = "exhausted"]
             \/ DBMayFail /\ UNCHANGED tokenStatus
          /\ UNCHANGED tokenQuota
       \/ /\ r \notin Playground
          /\ tokenStatus[TokenQ[r]] = "exhausted" \/ DBMayFail
          /\ Close(r, "rejected")
          /\ UNCHANGED <<tokenQuota, tokenStatus>>
    /\ UNCHANGED <<batchVars, refund, price, held, failed, attempts, cost, userPaid,
                   tokenPaid, crashes>>

(* priceData.FreeModel: Relay skips PreConsumeQuota. *)
PriceFreeModel(r) ==
    /\ pc[r] = "price"
    /\ Goto(r, "relay")
    /\ UNCHANGED <<batchVars, refund, tokenQuota, price, held, failed, attempts, cost,
                   outcome, userPaid, tokenPaid, tokenStatus, crashes>>

(* A user and a token with quota to spare are not pre-charged. *)
Trusted(r, userQuota) ==
    /\ userQuota > TrustQuota
    /\ \/ r \notin Playground /\ TokenQ[r] \in UnlimitedTokens
       \/ tokenQuota[r] > TrustQuota

(* The first half of PreConsumeQuota, up to the token: p is                 *)
(* QuotaToPreConsume, and the user's quota is read once.                    *)
CheckUserQuota(r, p) ==
    LET userQuota == db[UserQ[r]] IN
    /\ pc[r] = "price"
    /\ \/ /\ userQuota <= 0 \/ userQuota < p \/ DBMayFail
          /\ Close(r, "rejected")
          /\ UNCHANGED price
       \/ /\ userQuota > 0 /\ userQuota >= p
          /\ p = 0 \/ Trusted(r, userQuota)
          /\ Goto(r, "relay")
          /\ UNCHANGED <<price, outcome>>
       \/ /\ userQuota >= p
          /\ p > 0 /\ ~Trusted(r, userQuota)
          /\ Goto(r, IF r \in Playground THEN "debitUser" ELSE "checkToken")
          /\ price' = [price EXCEPT ![r] = p]
          /\ UNCHANGED outcome
    /\ UNCHANGED <<batchVars, refund, tokenQuota, held, failed, attempts, cost, userPaid,
                   tokenPaid, tokenStatus, crashes>>

(* Mutant: a request waits for its token instead of failing. *)
CheckTokenQuotaWaits(r) ==
    /\ pc[r] = "checkToken"
    /\ TokenQ[r] \in UnlimitedTokens \/ db[TokenQ[r]] >= price[r]
    /\ Goto(r, "debitToken")
    /\ UNCHANGED <<batchVars, refund, tokenQuota, price, held, failed, attempts, cost,
                   outcome, userPaid, tokenPaid, tokenStatus, crashes>>

(* PreConsumeTokenQuota reads the token again and compares ... *)
CheckTokenQuota(r) ==
    /\ pc[r] = "checkToken"
    /\ \/ /\ \/ TokenQ[r] \notin UnlimitedTokens /\ db[TokenQ[r]] < price[r]
             \/ DBMayFail
          /\ Close(r, "rejected")
       \/ /\ TokenQ[r] \in UnlimitedTokens \/ db[TokenQ[r]] >= price[r]
          /\ Goto(r, "debitToken")
          /\ UNCHANGED outcome
    /\ UNCHANGED <<batchVars, refund, tokenQuota, price, held, failed, attempts, cost,
                   userPaid, tokenPaid, tokenStatus, crashes>>

(* ... and then debits it. *)
PreConsumeToken(r) ==
    /\ pc[r] = "debitToken"
    /\ \/ /\ DebitTokenQuota(r, price[r])
          /\ Goto(r, "debitUser")
          /\ UNCHANGED outcome
       \/ /\ RecordFails
          /\ Close(r, "rejected")
          /\ UNCHANGED tokenPaid
    /\ UNCHANGED <<refund, tokenQuota, price, held, failed, attempts, cost, userPaid,
                   tokenStatus, crashes>>

(* Mutant: the pre-consumed quota is noted before the UPDATE, and refunded   *)
(* when the UPDATE fails.                                                    *)
PreConsumeUserEagerly(r) ==
    /\ pc[r] = "debitUser"
    /\ held' = [held EXCEPT ![r] = price[r]]
    /\ \/ /\ DebitUserQuota(r, price[r])
          /\ Goto(r, "relay")
          /\ UNCHANGED <<refund, outcome>>
       \/ /\ RecordFails
          /\ Close(r, "rejected")
          /\ refund' = [refund EXCEPT ![r] = "user"]
          /\ UNCHANGED userPaid
    /\ UNCHANGED <<tokenQuota, price, failed, attempts, cost, tokenPaid, tokenStatus,
                   crashes>>

(* The end of PreConsumeQuota.  When the UPDATE fails, Relay returns before *)
(* it has deferred the refund, and the token keeps its debit.               *)
PreConsumeUser(r) ==
    /\ pc[r] = "debitUser"
    /\ \/ /\ DebitUserQuota(r, price[r])
          /\ held' = [held EXCEPT ![r] = price[r]]
          /\ Goto(r, "relay")
          /\ UNCHANGED outcome
       \/ /\ RecordFails
          /\ Close(r, "rejected")
          /\ UNCHANGED <<held, userPaid>>
    /\ UNCHANGED <<refund, tokenQuota, price, failed, attempts, cost, tokenPaid,
                   tokenStatus, crashes>>

-----------------------------------------------------------------------------
(* An attempt fails and shouldRetry says yes. *)
RetryRelay(r) ==
    /\ pc[r] = "relay"
    /\ attempts[r] + 1 < MaxAttempts
    /\ attempts' = [attempts EXCEPT ![r] = @ + 1]
    /\ failed' = [failed EXCEPT ![r] = TRUE]
    /\ UNCHANGED <<batchVars, pc, refund, tokenQuota, price, held, cost, outcome, userPaid,
                   tokenPaid, tokenStatus, crashes>>

(* Start the goroutine of ReturnPreConsumedQuota. *)
ReturnPreConsumedQuota(r) ==
    refund' = [refund EXCEPT ![r] = IF held[r] # 0 THEN "user" ELSE "none"]

(* The last attempt fails, or no channel is left: the deferred function     *)
(* starts the refund and, without waiting for it, charges the violation fee *)
(* f, if any.                                                               *)
FailRelay(r, f) ==
    /\ pc[r] = "relay"
    /\ failed' = [failed EXCEPT ![r] = TRUE]
    /\ ReturnPreConsumedQuota(r)
    /\ Goto(r, IF f > 0 THEN "feeUser" ELSE "closed")
    /\ outcome' = [outcome EXCEPT ![r] = "failed"]
    /\ cost' = [cost EXCEPT ![r] = f]
    /\ UNCHANGED <<batchVars, tokenQuota, price, held, attempts, userPaid, tokenPaid,
                   tokenStatus, crashes>>

(* An attempt panics.  The deferred function runs, and sees the error of    *)
(* the attempt before, if there was one.                                    *)
PanicRelay(r) ==
    /\ pc[r] = "relay"
    /\ IF failed[r] THEN ReturnPreConsumedQuota(r) ELSE UNCHANGED refund
    /\ Close(r, "panicked")
    /\ UNCHANGED <<batchVars, tokenQuota, price, held, failed, attempts, cost, userPaid,
                   tokenPaid, tokenStatus, crashes>>

(* Mutant: only an additional charge is settled, never a surplus. *)
PostConsumeOnlyMore(r, c) ==
    /\ Goto(r, IF c <= held[r] THEN "closed" ELSE "settleUser")
    /\ outcome' = [outcome EXCEPT ![r] = "served"]
    /\ cost' = [cost EXCEPT ![r] = c]
    /\ UNCHANGED <<refund, tokenQuota, price, held, failed, attempts, userPaid, tokenPaid,
                   tokenStatus, crashes>>

(* An attempt succeeds: the post-consume function records the usage and     *)
(* then charges what the pre-consumed quota leaves over.                    *)
PostConsume(r, c) ==
    /\ Goto(r, IF c = held[r] THEN "closed" ELSE "settleUser")
    /\ outcome' = [outcome EXCEPT ![r] = "served"]
    /\ cost' = [cost EXCEPT ![r] = c]
    /\ UNCHANGED <<refund, tokenQuota, price, held, failed, attempts, userPaid, tokenPaid,
                   tokenStatus, crashes>>

ServeRelay(r, c, channel) ==
    /\ pc[r] = "relay"
    /\ RecordUsage(r, c, channel)
    /\ PostConsume(r, c)

(* totalTokens = 0: nothing is charged and no usage is recorded. *)
ServeWithoutUsage(r) ==
    /\ pc[r] = "relay"
    /\ PostConsume(r, 0)
    /\ UNCHANGED batchVars

(* PostConsumeQuota(cost - held): the user first, then the token. *)
SettleUser(r) ==
    /\ pc[r] = "settleUser"
    /\ \/ /\ DebitUserQuota(r, cost[r] - held[r])
          /\ Goto(r, IF r \in Playground THEN "closed" ELSE "settleToken")
       \/ /\ RecordFails
          /\ Goto(r, "closed")
          /\ UNCHANGED userPaid
    /\ UNCHANGED <<refund, tokenQuota, price, held, failed, attempts, cost, outcome,
                   tokenPaid, tokenStatus, crashes>>

SettleToken(r) ==
    /\ pc[r] = "settleToken"
    /\ \/ DebitTokenQuota(r, cost[r] - held[r])
       \/ RecordFails /\ UNCHANGED tokenPaid
    /\ Goto(r, "closed")
    /\ UNCHANGED <<refund, tokenQuota, price, held, failed, attempts, cost, outcome,
                   userPaid, tokenStatus, crashes>>

(* ChargeViolationFeeIfNeeded: PostConsumeQuota(fee), then the usage. *)
FeeUser(r) ==
    /\ pc[r] = "feeUser"
    /\ \/ /\ DebitUserQuota(r, cost[r])
          /\ Goto(r, IF r \in Playground THEN "feeUsed" ELSE "feeToken")
       \/ /\ RecordFails
          /\ Goto(r, "closed")
          /\ UNCHANGED userPaid
    /\ UNCHANGED <<refund, tokenQuota, price, held, failed, attempts, cost, outcome,
                   tokenPaid, tokenStatus, crashes>>

FeeToken(r) ==
    /\ pc[r] = "feeToken"
    /\ \/ DebitTokenQuota(r, cost[r]) /\ Goto(r, "feeUsed")
       \/ RecordFails /\ UNCHANGED tokenPaid /\ Goto(r, "closed")
    /\ UNCHANGED <<refund, tokenQuota, price, held, failed, attempts, cost, outcome,
                   userPaid, tokenStatus, crashes>>

FeeUsed(r, channel) ==
    /\ pc[r] = "feeUsed"
    /\ RecordUsage(r, cost[r], channel)
    /\ Goto(r, "closed")
    /\ UNCHANGED <<refund, tokenQuota, price, held, failed, attempts, cost, outcome,
                   userPaid, tokenPaid, tokenStatus, crashes>>

-----------------------------------------------------------------------------
(* The refund goroutine: PostConsumeQuota(-FinalPreConsumedQuota). *)
RefundUser(r) ==
    /\ refund[r] = "user"
    /\ \/ /\ DebitUserQuota(r, -held[r])
          /\ refund' = [refund EXCEPT ![r] = IF r \in Playground THEN "none" ELSE "token"]
       \/ /\ RecordFails
          /\ refund' = [refund EXCEPT ![r] = "none"]
          /\ UNCHANGED userPaid
    /\ UNCHANGED <<pc, tokenQuota, price, held, failed, attempts, cost, outcome, tokenPaid,
                   tokenStatus, crashes>>

RefundToken(r) ==
    /\ refund[r] = "token"
    /\ \/ DebitTokenQuota(r, -held[r])
       \/ RecordFails /\ UNCHANGED tokenPaid
    /\ refund' = [refund EXCEPT ![r] = "none"]
    /\ UNCHANGED <<pc, tokenQuota, price, held, failed, attempts, cost, outcome, userPaid,
                   tokenStatus, crashes>>

(* The process dies: the database survives, goroutines and maps do not. *)
InFlight == {r \in Requests : pc[r] \notin {"new", "closed"} \/ refund[r] # "none"}

Crash ==
    /\ crashes < MaxCrashes
    /\ crashes' = crashes + 1
    /\ BatchCrash
    /\ pc' = [r \in Requests |-> IF r \in InFlight THEN "closed" ELSE pc[r]]
    /\ outcome' = [r \in Requests |-> IF r \in InFlight THEN "crashed" ELSE outcome[r]]
    /\ refund' = [r \in Requests |-> "none"]
    /\ UNCHANGED <<tokenQuota, price, held, failed, attempts, cost, userPaid, tokenPaid,
                   tokenStatus>>

-----------------------------------------------------------------------------
(* What a request does without waiting for its client or its upstream. *)
Work(r) ==
    \/ PriceFreeModel(r) \/ \E p \in PreQuotas : CheckUserQuota(r, p)
    \/ CheckTokenQuota(r) \/ PreConsumeToken(r) \/ PreConsumeUser(r)
    \/ SettleUser(r) \/ SettleToken(r)
    \/ FeeUser(r) \/ FeeToken(r) \/ \E channel \in ChannelQ : FeeUsed(r, channel)

Refund(r) == RefundUser(r) \/ RefundToken(r)

Relay(r) ==
    \/ Authenticate(r)
    \/ RetryRelay(r)
    \/ PanicRelay(r)
    \/ \E f \in Fees : FailRelay(r, f)
    \/ \E c \in Costs, channel \in ChannelQ : ServeRelay(r, c, channel)
    \/ ServeWithoutUsage(r)

(* The batch loop runs beside the requests and touches none of their state. *)
Flush == BatchUpdate /\ UNCHANGED requestVars

Next ==
    \/ \E r \in Requests : Relay(r) \/ Work(r) \/ Refund(r)
    \/ Flush
    \/ Crash

Spec == Init /\ [][Next]_vars

(* Goroutines that only wait for the database are scheduled, and the batch  *)
(* loop wakes up every BatchUpdateInterval.  Clients and upstreams owe      *)
(* nothing: a request may stay in "new" or in "relay" for ever.             *)
Fairness ==
    /\ \A r \in Requests : WF_vars(Work(r)) /\ WF_vars(Refund(r))
    /\ WF_vars(Flush)

FairSpec == Spec /\ Fairness

-----------------------------------------------------------------------------
Settled(r) == pc[r] = "closed" /\ refund[r] = "none"

(* What a finished request should have cost its user: nothing when it was   *)
(* rejected, the quota of its usage when it was served, the violation fee   *)
(* or nothing when it failed.  A panic in the first attempt leaves no error *)
(* for the deferred function to see, and what was pre-consumed stays taken. *)
Due(r) ==
    CASE outcome[r] = "served"   -> cost[r]
      [] outcome[r] = "failed"   -> cost[r]
      [] outcome[r] = "panicked" -> IF failed[r] THEN 0 ELSE held[r]
      [] OTHER                   -> 0

(* As long as no UPDATE fails, a request that ran to its end has taken      *)
(* exactly what it owes from its user and from its token, whatever the      *)
(* order of its own steps, of its refund goroutine and of other requests:   *)
(* pre-consume, settlement, refund and fee of Relay add up.                 *)
ExactCharge ==
    ~DBMayFail => \A r \in Requests :
        Settled(r) /\ outcome[r] # "crashed" =>
            /\ userPaid[r] = Due(r)
            /\ tokenPaid[r] = IF r \in Playground THEN 0 ELSE Due(r)

Quiescent ==
    /\ \A r \in Requests : pc[r] = "new" \/ Settled(r)
    /\ stores = Zero /\ Asleep

Owed == [r \in Requests |-> Due(r)]
Usage == [r \in Requests |-> IF outcome[r] \in {"served", "failed"} THEN cost[r] ELSE 0]
RequestsOf(column, k) == {r \in Requests : column[r] = k}

(* Once every request is settled and every batch is written, the columns    *)
(* agree with each other and with the requests: what a user and a token     *)
(* lost is what their requests owe, the used quota shown for a user is what *)
(* was charged for usage and fees, and so is that of all channels together. *)
(* The columns are written by different statements, in different batches.   *)
DatabaseAddsUp ==
    ~DBMayFail /\ crashes = 0 /\ Quiescent =>
        /\ \A u \in OfType(UserQuotaType) :
               InitialDB[u] - db[u] = SumFunctionOnSet(Owed, RequestsOf(UserQ, u))
        /\ \A t \in OfType(TokenQuotaType) :
               InitialDB[t] - db[t] = SumFunctionOnSet(Owed, RequestsOf(TokenQ, t) \ Playground)
        /\ \A u \in OfType(UsedQuotaType) :
               db[u] - InitialDB[u] = SumFunctionOnSet(Usage, RequestsOf(UsedQ, u))
        /\ SumFunctionOnSet(db, ChannelQ) - SumFunctionOnSet(InitialDB, ChannelQ)
               = SumFunctionOnSet(Usage, Requests)

(* Even when UPDATEs fail between the steps of PreConsumeQuota and          *)
(* PostConsumeQuota, or the process dies there, no request is ever paid     *)
(* out: its refund and its settlement give back at most what it took.       *)
(* Nor does it take more than its pre-consumed quota and its cost, and a    *)
(* rejected one takes nothing from the user.                                *)
PaidWithinBounds ==
    \A r \in Requests :
        /\ userPaid[r] \in 0 .. held[r] + cost[r]
        /\ tokenPaid[r] \in 0 .. price[r] + cost[r]
        /\ outcome[r] = "rejected" => userPaid[r] = 0

(* The pre-consumed quota of a failed request does not stay in the process: *)
(* the refund goroutine finishes and the batch loop takes what it recorded, *)
(* also after failed UPDATEs.  Then it is in the database, unless an UPDATE *)
(* failed or the process crashed, which BatchConservation accounts for.     *)
FailedIsRefunded ==
    \A r \in Requests :
        outcome[r] = "failed" ~>
            refund[r] = "none" /\ stores[UserQ[r]] = 0 /\ batch[UserQ[r]] = 0

(* A request that the upstream has answered is settled, and one that was    *)
(* admitted gets as far as its upstream: no goroutine waits for another.    *)
WorkFinishes ==
    \A r \in Requests : (pc[r] # "new") ~> (pc[r] \in {"relay", "closed"})

(* model/token.go marks a token exhausted because "in this case, we can     *)
(* make sure the token is exhausted".  Once every request is over and every *)
(* refund is written, such a token would have no quota left.                *)
ExhaustedTokenIsEmpty ==
    (\A r \in Requests : pc[r] = "new" \/ Settled(r)) /\ stores = Zero /\ Asleep =>
        \A t \in DOMAIN tokenStatus : tokenStatus[t] = "exhausted" => db[t] <= 0
=============================================================================
