------------------------------- MODULE TopUp -------------------------------
(***************************************************************************)
(* Paid orders (controller/topup*.go, model/topup.go): an order is created *)
(* pending, its gateway reports the payment as often as it likes, an       *)
(* administrator may complete it by hand, and whoever completes it marks   *)
(* the row and raises the user's quota.                                    *)
(*                                                                         *)
(* The gateways call one HTTP handler each.  Easypay's handler and the     *)
(* administrator's take a mutex per order; Stripe's and Creem's do not.    *)
(* The transactions ask for a row lock with Set("gorm:query_option", "FOR  *)
(* UPDATE"), an option of GORM 1 that GORM 2, the version of go.mod,       *)
(* ignores: the read of a transaction and its writes are two steps, other  *)
(* transactions can commit in between, and its writes commit together.     *)
(* (SQLite has one writer at a time and refuses the second of two such     *)
(* transactions, which is one of the failures below.)                      *)
(***************************************************************************)
EXTENDS Integers, FiniteSets

CONSTANTS
    Orders,         \* orders users may create
    Handlers,       \* handlers that run at the same time
    Method,         \* the gateway of an order: "epay", "stripe" or "creem"
    Amount,         \* the figure stored in an order's row
    QuotaPerUnit,   \* common.QuotaPerUnit
    MaxExtra,       \* callbacks beyond the needed ones, and manual completions
    MaxFailures,    \* statements and transactions that fail
    MaxCrashes,     \* crashes of the server
    NoOrder, Nobody \* the order of no handler, the holder of a free mutex

ASSUME TopUpAssumption ==
    /\ Method \in [Orders -> {"epay", "stripe", "creem"}]
    /\ Amount \in [Orders -> Nat \ {0}]
    /\ QuotaPerUnit \in Nat \ {0}
    /\ MaxExtra \in Nat /\ MaxFailures \in Nat /\ MaxCrashes \in Nat
    /\ IsFiniteSet(Handlers)
    /\ NoOrder \notin Orders /\ Nobody \notin Handlers

VARIABLES
    status,     \* the order's row, "none" before it exists
    gateway,    \* what the gateway knows of the order
    acked,      \* the gateway's report was answered with success
    orderLocks, \* who holds the order's mutex
    handler,    \* the running handlers
    credits,    \* how often the user's quota was raised for the order
    granted,    \* by how much, in all
    lost,       \* a failure that no repeated callback makes up for
    extra, failures, crashes

rows == <<status, credits, granted>>
budget == <<extra, failures, crashes>>
vars == <<rows, gateway, acked, orderLocks, handler, lost, budget>>

Idle == [kind |-> "none", order |-> NoOrder, pc |-> "idle"]
CallbackKinds == {"epay", "stripe", "creem", "expire"}

Init ==
    /\ status = [o \in Orders |-> "none"]
    /\ gateway = [o \in Orders |-> "none"]
    /\ acked = [o \in Orders |-> FALSE]
    /\ orderLocks = [o \in Orders |-> Nobody]
    /\ handler = [h \in Handlers |-> Idle]
    /\ credits = [o \in Orders |-> 0]
    /\ granted = [o \in Orders |-> 0]
    /\ lost = [o \in Orders |-> FALSE]
    /\ extra = 0 /\ failures = 0 /\ crashes = 0

-----------------------------------------------------------------------------
(* Creating an order and paying it                                          *)

\* The row is inserted before the user is given the payment link.
RequestPay(o) ==
    /\ status[o] = "none"
    /\ status' = [status EXCEPT ![o] = "pending"]
    /\ gateway' = [gateway EXCEPT ![o] = "open"]
    /\ UNCHANGED <<credits, granted, acked, orderLocks, handler, lost, budget>>

\* Creem's link is asked for after the insert: when that fails the row stays.
RequestPayWithoutLink(o) ==
    /\ status[o] = "none" /\ Method[o] = "creem"
    /\ status' = [status EXCEPT ![o] = "pending"]
    /\ UNCHANGED <<gateway, credits, granted, acked, orderLocks, handler, lost,
                   budget>>

UserPays(o) ==
    /\ gateway[o] = "open"
    /\ gateway' = [gateway EXCEPT ![o] = "paid"]
    /\ UNCHANGED <<rows, acked, orderLocks, handler, lost, budget>>

\* Only Stripe reports that a checkout session expired.
SessionExpires(o) ==
    /\ gateway[o] = "open" /\ Method[o] = "stripe"
    /\ gateway' = [gateway EXCEPT ![o] = "expired"]
    /\ UNCHANGED <<rows, acked, orderLocks, handler, lost, budget>>

-----------------------------------------------------------------------------
(* Handlers                                                                 *)

Kind(h) == handler[h].kind
Order(h) == handler[h].order
At(h, k, p) == handler[h].kind = k /\ handler[h].pc = p
Goto(h, p) == handler' = [handler EXCEPT ![h].pc = p]

\* What a callback and a manual completion do first.
Entry(k) ==
    CASE k \in {"epay", "manual"} -> "lock"
      [] k = "stripe" -> "txread"
      [] k \in {"creem", "expire"} -> "read"

Begin(h, k, o) ==
    /\ handler[h] = Idle
    /\ handler' = [handler EXCEPT ![h] = [kind |-> k, order |-> o, pc |-> Entry(k)]]
    /\ UNCHANGED <<rows, gateway, acked, orderLocks, lost, failures, crashes>>

Reported(o) == CASE gateway[o] = "paid" -> {Method[o]}
                 [] gateway[o] = "expired" -> {"expire"}
                 [] OTHER -> {}

\* The gateway reports until it is answered with success ...
Callback(h, o) ==
    /\ ~acked[o]
    /\ \A g \in Handlers : ~(Order(g) = o /\ Kind(g) \in CallbackKinds)
    /\ \E k \in Reported(o) : Begin(h, k, o)
    /\ UNCHANGED extra

\* ... and may report again while an earlier report is handled or after it.
RepeatedCallback(h, o) ==
    /\ extra < MaxExtra /\ extra' = extra + 1
    /\ \E k \in Reported(o) : Begin(h, k, o)

AdminCompleteTopUp(h, o) ==
    /\ status[o] # "none"
    /\ extra < MaxExtra /\ extra' = extra + 1
    /\ Begin(h, "manual", o)

\* Mutant of LockOrder: every caller gets a mutex of its own.
LockOrderOwn(h) ==
    /\ handler[h].pc = "lock"
    /\ orderLocks' = [orderLocks EXCEPT ![Order(h)] = h]
    /\ Goto(h, IF Kind(h) = "epay" THEN "read" ELSE "txread")
    /\ UNCHANGED <<rows, gateway, acked, lost, budget>>

LockOrder(h) ==
    /\ handler[h].pc = "lock" /\ orderLocks[Order(h)] = Nobody
    /\ orderLocks' = [orderLocks EXCEPT ![Order(h)] = h]
    /\ Goto(h, IF Kind(h) = "epay" THEN "read" ELSE "txread")
    /\ UNCHANGED <<rows, gateway, acked, lost, budget>>

\* The handler returns: the deferred UnlockOrder, and the answer.
Finish(h, success) ==
    /\ handler' = [handler EXCEPT ![h] = Idle]
    /\ orderLocks' = [o \in Orders |->
                        IF orderLocks[o] = h THEN Nobody ELSE orderLocks[o]]
    /\ acked' = [acked EXCEPT ![Order(h)] =
                    @ \/ (success /\ Kind(h) \in CallbackKinds)]

\* Mutant of FinishFailed: Creem is answered with success too.
FinishFailedOk(h) == Finish(h, TRUE)

\* Easypay and Stripe are answered with success whatever happens; Creem gets
\* 400 or 500, and reports again.
FinishFailed(h) == Finish(h, Kind(h) # "creem")

\* Nobody will try again what this failed handler was to do.
Loses(h) ==
    lost' = [lost EXCEPT ![Order(h)] = @ \/ Kind(h) \in {"epay", "stripe"}]

Credit(o, n) ==
    /\ credits' = [credits EXCEPT ![o] = @ + 1]
    /\ granted' = [granted EXCEPT ![o] = @ + n]

\* What the row of an order is worth to the handler of its gateway ...
Worth(o) == IF Method[o] = "creem" THEN Amount[o] ELSE Amount[o] * QuotaPerUnit
\* ... and to the administrator's.
ManualWorth(o) == Amount[o] * QuotaPerUnit

-----------------------------------------------------------------------------
(* EpayNotify: read, save the row, then raise the quota by a statement of   *)
(* its own                                                                  *)

EpayRead(h) ==
    /\ At(h, "epay", "read")
    /\ IF status[Order(h)] = "pending"
       THEN Goto(h, "save") /\ UNCHANGED <<orderLocks, acked>>
       ELSE Finish(h, TRUE)
    /\ UNCHANGED <<rows, gateway, lost, budget>>

EpaySave(h) ==
    /\ At(h, "epay", "save")
    /\ status' = [status EXCEPT ![Order(h)] = "success"]
    /\ Goto(h, "credit")
    /\ UNCHANGED <<credits, granted, gateway, acked, orderLocks, lost, budget>>

EpayCredit(h) ==
    /\ At(h, "epay", "credit")
    /\ Credit(Order(h), Worth(Order(h)))
    /\ Finish(h, TRUE)
    /\ UNCHANGED <<status, gateway, lost, budget>>

-----------------------------------------------------------------------------
(* handleCheckoutCompleted, Recharge, RechargeCreem, ManualCompleteTopUp    *)

\* Creem's handler looks at the order before it opens the transaction.
CreemRead(h) ==
    /\ At(h, "creem", "read")
    /\ IF status[Order(h)] = "pending"
       THEN Goto(h, "txread") /\ UNCHANGED <<orderLocks, acked>>
       ELSE Finish(h, TRUE)
    /\ UNCHANGED <<rows, gateway, lost, budget>>

\* Mutant of TxRead: the status is not tested again in the transaction.
TxReadTrusts(h) ==
    /\ handler[h].pc = "txread"
    /\ Goto(h, "txcommit")
    /\ UNCHANGED <<rows, gateway, acked, orderLocks, lost, budget>>

\* A completed order is an error of the transaction, except to the
\* administrator's.
TxRead(h) ==
    /\ handler[h].pc = "txread"
    /\ IF status[Order(h)] = "pending"
       THEN Goto(h, "txcommit") /\ UNCHANGED <<orderLocks, acked>>
       ELSE FinishFailed(h)
    /\ UNCHANGED <<rows, gateway, lost, budget>>

\* Mutant of TxCommit: the row is not saved with the credit.
TxCommitUnsaved(h) ==
    /\ handler[h].pc = "txcommit"
    /\ Credit(Order(h), IF Kind(h) = "manual" THEN ManualWorth(Order(h))
                        ELSE Worth(Order(h)))
    /\ Finish(h, TRUE)
    /\ UNCHANGED <<status, gateway, lost, budget>>

TxCommit(h) ==
    /\ handler[h].pc = "txcommit"
    /\ status' = [status EXCEPT ![Order(h)] = "success"]
    /\ Credit(Order(h), IF Kind(h) = "manual" THEN ManualWorth(Order(h))
                        ELSE Worth(Order(h)))
    /\ Finish(h, TRUE)
    /\ UNCHANGED <<gateway, lost, budget>>

-----------------------------------------------------------------------------
(* sessionExpired: an order that is not pending is logged and expired       *)
(* all the same                                                             *)

ExpireRead(h) ==
    /\ At(h, "expire", "read")
    /\ Goto(h, "save")
    /\ UNCHANGED <<rows, gateway, acked, orderLocks, lost, budget>>

ExpireSave(h) ==
    /\ At(h, "expire", "save")
    /\ status' = [status EXCEPT ![Order(h)] = "expired"]
    /\ Finish(h, TRUE)
    /\ UNCHANGED <<credits, granted, gateway, lost, budget>>

-----------------------------------------------------------------------------
(* Failures                                                                 *)

\* A read, a save, a statement or a transaction fails: the handler returns.
HandlerFails(h) ==
    /\ handler[h].pc \notin {"idle", "lock"}
    /\ failures < MaxFailures /\ failures' = failures + 1
    /\ FinishFailed(h)
    /\ Loses(h)
    /\ UNCHANGED <<rows, gateway, extra, crashes>>

\* Handlers and mutexes are gone, open transactions are rolled back, and no
\* answer was sent.  A repeated callback does the work again, except for an
\* Easypay order already marked.
Crash ==
    /\ crashes < MaxCrashes /\ crashes' = crashes + 1
    /\ handler' = [h \in Handlers |-> Idle]
    /\ orderLocks' = [o \in Orders |-> Nobody]
    /\ lost' = [o \in Orders |->
                  lost[o] \/ \E h \in Handlers : At(h, "epay", "credit") /\ Order(h) = o]
    /\ UNCHANGED <<rows, gateway, acked, extra, failures>>

Step(h) ==
    \/ LockOrder(h)
    \/ EpayRead(h) \/ EpaySave(h) \/ EpayCredit(h)
    \/ CreemRead(h) \/ TxRead(h) \/ TxCommit(h)
    \/ ExpireRead(h) \/ ExpireSave(h)

Next ==
    \/ \E o \in Orders :
          \/ RequestPay(o) \/ RequestPayWithoutLink(o)
          \/ UserPays(o) \/ SessionExpires(o)
    \/ \E h \in Handlers, o \in Orders :
          \/ Callback(h, o) \/ RepeatedCallback(h, o)
          \/ AdminCompleteTopUp(h, o)
    \/ \E h \in Handlers : Step(h) \/ HandlerFails(h)
    \/ Crash

Spec == Init /\ [][Next]_vars

\* Goroutines run, and a gateway reports until it is answered.
FairSpec ==
    /\ Spec
    /\ \A h \in Handlers : WF_vars(Step(h))
    /\ \A o \in Orders : WF_vars(\E h \in Handlers : Callback(h, o))
-----------------------------------------------------------------------------
(* Properties                                                               *)

Kinds == CallbackKinds \union {"manual", "none"}
Places == {"idle", "lock", "read", "save", "credit", "txread", "txcommit"}

(* The rows, the gateways' view, the mutexes and the handlers have the      *)
(* values the handlers of the code give them.                               *)
TypeOK ==
    /\ status \in [Orders -> {"none", "pending", "success", "expired"}]
    /\ gateway \in [Orders -> {"none", "open", "paid", "expired"}]
    /\ acked \in [Orders -> BOOLEAN]
    /\ lost \in [Orders -> BOOLEAN]
    /\ orderLocks \in [Orders -> Handlers \union {Nobody}]
    /\ handler \in [Handlers -> [kind : Kinds, order : Orders \union {NoOrder},
                                 pc : Places]]
    /\ credits \in [Orders -> Nat]
    /\ granted \in [Orders -> Nat]
    /\ extra \in Nat /\ failures \in Nat /\ crashes \in Nat

(* However often Easypay repeats its callback, whatever the administrator   *)
(* completes meanwhile, and whatever fails or crashes in between, an        *)
(* Easypay order raises the quota at most once and by what it is worth.     *)
(* The row is read, marked and paid out by three statements outside a       *)
(* transaction: only the order's mutex (LockOrder) makes them one.          *)
EpayOnce ==
    \A o \in Orders : Method[o] = "epay" =>
        /\ credits[o] <= 1
        /\ granted[o] = credits[o] * Worth(o)

(* An order that was paid out is never pending again, whichever stale row a *)
(* handler writes back: sessionExpired saves the row without looking at     *)
(* what it read, and the transactions' writes do not test the status.  So a *)
(* callback that arrives after the payment never pays again.                *)
SettledForGood ==
    \A o \in Orders : credits[o] > 0 => status[o] \in {"success", "expired"}

(* Without the row lock Stripe's and Creem's transactions, and the          *)
(* administrator's, can all read the order pending: it is then paid out     *)
(* once by each handler that runs at that moment, and by no later one.      *)
CreditsAreBounded == \A o \in Orders : credits[o] <= Cardinality(Handlers)

(* A payment reaches the user's quota.  Creem's does whatever fails, as its *)
(* handler reports the failure and its transaction is all or nothing;       *)
(* Stripe's and Easypay's does unless a statement failed (both gateways are *)
(* told success) or the server crashed between Easypay's two writes.        *)
PaidIsCredited ==
    \A o \in Orders :
        gateway[o] = "paid" ~>
            credits[o] > 0 \/ (lost[o] /\ Method[o] # "creem")

(* model/topup.go:270 computes what the administrator's completion adds:    *)
(* "Amount" of an order that is not Stripe's "is a number of dollars", to   *)
(* be multiplied by QuotaPerUnit.  A Creem order's row holds the quota      *)
(* itself.                                                                  *)
ManualIsWorthTheSame ==
    \A o \in Orders : granted[o] = credits[o] * Worth(o)
-----------------------------------------------------------------------------
(* Easypay's orders implement an order book                                 *)

EpayOrders == {o \in Orders : Method[o] = "epay"}

BookEntry ==
    [o \in EpayOrders |->
        CASE status[o] = "none" -> "new"
          [] status[o] = "pending" -> "open"
          [] OTHER -> IF credits[o] = 0 THEN "settled" ELSE "closed"]

Book == INSTANCE OrderBook
          WITH Orders <- EpayOrders, Price <- Worth, entry <- BookEntry,
               quota <- [o \in EpayOrders |-> granted[o]]

(* Whatever callbacks, administrators, failures and crashes do, the rows    *)
(* and quotas of Easypay's orders change as in the order book: an order is  *)
(* marked (EpaySave) before its quota is raised (EpayCredit), or both are   *)
(* one transaction (ManualCompleteTopUp), no row goes back, and no other    *)
(* step raises the quota.                                                   *)
ImplementsOrderBook == Book!Spec
=============================================================================
