---------------------------- MODULE TopUpProofs ----------------------------
(* Theorems about TopUp, for any orders, handlers and bounds.               *)
EXTENDS TopUp, FiniteSetTheorems, TLAPS

-----------------------------------------------------------------------------
(* The inductive invariant.                                                 *)

(* A running handler handles an order, of the gateway that called it.       *)
HandlersMatch ==
    \A h \in Handlers : handler[h] # Idle =>
        /\ Order(h) \in Orders
        /\ Kind(h) # "none" /\ handler[h].pc # "idle"
        /\ Kind(h) \in {"epay", "stripe", "creem"} => Kind(h) = Method[Order(h)]
        /\ Kind(h) = "expire" => Method[Order(h)] = "stripe"
        /\ handler[h].pc = "lock" => Kind(h) \in {"epay", "manual"}
        /\ handler[h].pc = "credit" => Kind(h) = "epay"
        /\ handler[h].pc \in {"txread", "txcommit"} =>
              Kind(h) \in {"stripe", "creem", "manual"}
        /\ handler[h].pc \in {"read", "save"} =>
              Kind(h) \in {"epay", "creem", "expire"}

(* Only Stripe's orders expire.                                             *)
OnlyStripeExpires ==
    \A o \in Orders : gateway[o] = "expired" => Method[o] = "stripe"

(* Past LockOrder the mutex is the handler's.                               *)
Inside(h) == Kind(h) \in {"epay", "manual"} /\ handler[h].pc \notin {"idle", "lock"}
LocksAreHeld ==
    \A h \in Handlers : Inside(h) => orderLocks[Order(h)] = h

(* What a handler of an Easypay order knows of it while it holds the mutex. *)
EpayKnows ==
    \A h \in Handlers :
        /\ /\ Inside(h) /\ Method[Order(h)] = "epay"
           /\ handler[h].pc \in {"save", "txcommit"}
           => status[Order(h)] = "pending"
        /\ handler[h].pc = "credit" =>
              status[Order(h)] = "success" /\ credits[Order(h)] = 0

IInv ==
    /\ TypeOK /\ HandlersMatch /\ OnlyStripeExpires
    /\ LocksAreHeld /\ EpayKnows /\ EpayOnce /\ SettledForGood
-----------------------------------------------------------------------------
(* Lemmas                                                                   *)

USE DEF Kind, Order, At, Goto, CallbackKinds, Kinds, Places

(* The quota an order is worth is a natural number.                         *)
LEMMA WorthType ==
    ASSUME NEW o \in Orders
    PROVE  Worth(o) \in Nat /\ ManualWorth(o) \in Nat
           /\ (Method[o] = "epay" => ManualWorth(o) = Worth(o))
<1>1. Amount[o] \in Nat /\ QuotaPerUnit \in Nat
  BY TopUpAssumption
<1>2. \A a, b \in Nat : a * b \in Nat
  OBVIOUS
<1>. QED
  BY <1>1, <1>2 DEF Worth, ManualWorth

(* A handler that ends leaves the types, the other handlers and their       *)
(* mutexes alone.                                                           *)
LEMMA FinishFacts ==
    ASSUME TypeOK, HandlersMatch, LocksAreHeld,
           NEW h \in Handlers, handler[h] # Idle,
           NEW success \in BOOLEAN, Finish(h, success)
    PROVE  /\ handler' \in [Handlers -> [kind : Kinds,
                                order : Orders \union {NoOrder}, pc : Places]]
           /\ orderLocks' \in [Orders -> Handlers \union {Nobody}]
           /\ acked' \in [Orders -> BOOLEAN]
           /\ handler'[h] = Idle
           /\ \A g \in Handlers : g # h => handler'[g] = handler[g]
           /\ LocksAreHeld'
<1>1. Idle \in [kind : Kinds, order : Orders \union {NoOrder}, pc : Places]
  BY DEF Idle
<1>2. /\ handler' \in [Handlers -> [kind : Kinds,
                          order : Orders \union {NoOrder}, pc : Places]]
      /\ handler'[h] = Idle
      /\ \A g \in Handlers : g # h => handler'[g] = handler[g]
  BY <1>1 DEF Finish, TypeOK
<1>3. orderLocks' \in [Orders -> Handlers \union {Nobody}]
  BY DEF Finish, TypeOK
<1>4. acked' \in [Orders -> BOOLEAN]
  BY Zenon DEF Finish, TypeOK
<1>5. LocksAreHeld'
  BY <1>2 DEF Finish, LocksAreHeld, Inside, Idle, HandlersMatch, TypeOK
<1>. QED
  BY <1>2, <1>3, <1>4, <1>5

(* The initial states satisfy the invariant.                                *)
LEMMA InitIInv == Init => IInv
  BY TopUpAssumption, WorthType
     DEF Init, IInv, TypeOK, HandlersMatch, OnlyStripeExpires, LocksAreHeld,
         Inside, EpayKnows, EpayOnce, SettledForGood, Idle
(* Every step preserves the invariant: one step per action.  The Easypay    *)
(* actions and the transactions need the mutex (LocksAreHeld) to know that  *)
(* no other handler of the order is past its read.                          *)
LEMMA NextIInv == IInv /\ [Next]_vars => IInv'
<1>. SUFFICES ASSUME IInv, [Next]_vars PROVE IInv'
  OBVIOUS
<1>. USE DEF IInv
<1>a. Idle.pc = "idle" /\ Idle.kind = "none" /\ Idle.order \notin Orders
  BY TopUpAssumption DEF Idle
<1>1. ASSUME NEW o \in Orders, RequestPay(o) PROVE IInv'
  BY <1>1, <1>a DEF RequestPay, budget, TypeOK, HandlersMatch, OnlyStripeExpires, LocksAreHeld, Inside, EpayKnows, EpayOnce, SettledForGood
<1>2. ASSUME NEW o \in Orders, RequestPayWithoutLink(o) PROVE IInv'
  BY <1>2, <1>a DEF RequestPayWithoutLink, budget, TypeOK, HandlersMatch, OnlyStripeExpires, LocksAreHeld, Inside, EpayKnows, EpayOnce, SettledForGood
<1>3. ASSUME NEW o \in Orders, UserPays(o) PROVE IInv'
  BY <1>3, <1>a DEF UserPays, rows, budget, TypeOK, HandlersMatch, OnlyStripeExpires, LocksAreHeld, Inside, EpayKnows, EpayOnce, SettledForGood
<1>4. ASSUME NEW o \in Orders, SessionExpires(o) PROVE IInv'
  BY <1>4, <1>a DEF SessionExpires, rows, budget, TypeOK, HandlersMatch, OnlyStripeExpires, LocksAreHeld, Inside, EpayKnows, EpayOnce, SettledForGood
<1>5. ASSUME NEW h \in Handlers, NEW o \in Orders, NEW k \in Kinds \ {"none"},
             k \in {"epay", "stripe", "creem"} => k = Method[o],
             k = "expire" => Method[o] = "stripe",
             Begin(h, k, o), extra' \in Nat
      PROVE  IInv'
  <2>1. Entry(k) \in {"lock", "txread", "read"}
        /\ (k \in {"epay", "manual"} <=> Entry(k) = "lock")
        /\ (k = "stripe" <=> Entry(k) = "txread")
    BY DEF Entry
  <2>2. TypeOK'
    BY <1>5, <2>1 DEF Begin, rows, TypeOK
  <2>3. /\ handler'[h] = [kind |-> k, order |-> o, pc |-> Entry(k)]
        /\ \A g \in Handlers : g # h => handler'[g] = handler[g]
    BY <1>5 DEF Begin, TypeOK
  <2>4. HandlersMatch' /\ OnlyStripeExpires' /\ LocksAreHeld'
    BY <1>5, <2>1, <2>3, <1>a DEF Begin, HandlersMatch, OnlyStripeExpires, LocksAreHeld, Inside, EpayKnows, EpayOnce, SettledForGood
  <2>5. EpayKnows' /\ EpayOnce' /\ SettledForGood'
    BY <1>5, <2>1, <2>3, <1>a DEF Begin, rows, HandlersMatch, OnlyStripeExpires, LocksAreHeld, Inside, EpayKnows, EpayOnce, SettledForGood
  <2>. QED
    BY <2>2, <2>4, <2>5
<1>6. ASSUME NEW h \in Handlers, NEW o \in Orders, Callback(h, o) PROVE IInv'
  <2>1. PICK k \in Reported(o) : Begin(h, k, o)
    BY <1>6 DEF Callback
  <2>2. k \in Kinds \ {"none"} /\ (k \in {"epay", "stripe", "creem"} => k = Method[o])
        /\ (k = "expire" => Method[o] = "stripe")
    BY TopUpAssumption DEF Reported, OnlyStripeExpires
  <2>. QED
    BY <1>5, <1>6, <2>1, <2>2 DEF Callback, TypeOK
<1>7. ASSUME NEW h \in Handlers, NEW o \in Orders, RepeatedCallback(h, o) PROVE IInv'
  <2>1. PICK k \in Reported(o) : Begin(h, k, o)
    BY <1>7 DEF RepeatedCallback
  <2>2. k \in Kinds \ {"none"} /\ (k \in {"epay", "stripe", "creem"} => k = Method[o])
        /\ (k = "expire" => Method[o] = "stripe")
    BY TopUpAssumption DEF Reported, OnlyStripeExpires
  <2>3. extra' \in Nat
    BY <1>7 DEF RepeatedCallback, TypeOK
  <2>. QED
    BY <1>5, <2>1, <2>2, <2>3
<1>8. ASSUME NEW h \in Handlers, NEW o \in Orders, AdminCompleteTopUp(h, o) PROVE IInv'
  <2>1. extra' \in Nat /\ Begin(h, "manual", o)
    BY <1>8 DEF AdminCompleteTopUp, TypeOK
  <2>. QED
    BY <1>5, <2>1
<1>9. ASSUME NEW h \in Handlers, LockOrder(h) PROVE IInv'
  <2>1. handler[h] # Idle /\ Order(h) \in Orders /\ Kind(h) \in {"epay", "manual"}
    BY <1>9, <1>a DEF LockOrder, HandlersMatch, TypeOK
  <2>2. TypeOK'
    BY <1>9, <2>1 DEF LockOrder, rows, budget, TypeOK
  <2>3. HandlersMatch' /\ OnlyStripeExpires'
    BY <1>9, <1>a, <2>1 DEF LockOrder, HandlersMatch, OnlyStripeExpires, TypeOK, Idle
  <2>4. LocksAreHeld'
    BY <1>9, <2>1, TopUpAssumption DEF LockOrder, LocksAreHeld, Inside, TypeOK
  <2>5. EpayKnows' /\ EpayOnce' /\ SettledForGood'
    BY <1>9, <2>1 DEF LockOrder, rows, EpayKnows, Inside, EpayOnce, SettledForGood, TypeOK
  <2>. QED
    BY <2>2, <2>3, <2>4, <2>5
<1>10. ASSUME NEW h \in Handlers, EpayRead(h) PROVE IInv'
  <2>1. handler[h] # Idle /\ Order(h) \in Orders
    BY <1>10, <1>a DEF EpayRead, HandlersMatch
  <2>2. CASE status[Order(h)] = "pending"
    <3>1. /\ handler' \in [Handlers -> [kind : Kinds,
                                order : Orders \union {NoOrder}, pc : Places]]
          /\ Kind(h)' = Kind(h) /\ Order(h)' = Order(h) /\ handler'[h].pc = "save"
          /\ \A g \in Handlers : g # h => handler'[g] = handler[g]
      BY <1>10, <2>2 DEF EpayRead, TypeOK
    <3>2. TypeOK'
      BY <1>10, <2>2, <3>1 DEF EpayRead, rows, budget, TypeOK
    <3>3. HandlersMatch' /\ OnlyStripeExpires' /\ LocksAreHeld'
      BY <1>10, <1>a, <2>1, <2>2, <3>1 DEF EpayRead, HandlersMatch, OnlyStripeExpires, LocksAreHeld, Inside
    <3>4. EpayKnows' /\ EpayOnce' /\ SettledForGood'
      BY <1>10, <2>1, <2>2, <3>1 DEF EpayRead, rows, EpayKnows, Inside, EpayOnce, SettledForGood
    <3>. QED
      BY <3>2, <3>3, <3>4
  <2>3. CASE status[Order(h)] # "pending"
    <3>1. \E b \in BOOLEAN : Finish(h, b)
      BY <1>10, <2>3 DEF EpayRead
    <3>2. TypeOK' /\ LocksAreHeld'
      BY <1>10, <2>1, <3>1, FinishFacts DEF EpayRead, rows, budget, TypeOK
    <3>3. handler'[h] = Idle /\ \A g \in Handlers : g # h => handler'[g] = handler[g]
      BY <2>1, <3>1, FinishFacts
    <3>4. HandlersMatch' /\ OnlyStripeExpires' /\ EpayKnows' /\ EpayOnce' /\ SettledForGood'
      BY <1>10, <1>a, <3>3 DEF EpayRead, rows, HandlersMatch, OnlyStripeExpires, EpayKnows, Inside, EpayOnce, SettledForGood
    <3>. QED
      BY <3>2, <3>4
  <2>. QED
    BY <2>2, <2>3
<1>11. ASSUME NEW h \in Handlers, EpaySave(h) PROVE IInv'
  <2>1. handler[h] # Idle /\ Order(h) \in Orders
    BY <1>11, <1>a DEF EpaySave, HandlersMatch
  <2>2. /\ handler' \in [Handlers -> [kind : Kinds,
                              order : Orders \union {NoOrder}, pc : Places]]
        /\ Kind(h)' = Kind(h) /\ Order(h)' = Order(h) /\ handler'[h].pc = "credit"
        /\ \A g \in Handlers : g # h => handler'[g] = handler[g]
    BY <1>11 DEF EpaySave, TypeOK
  <2>3. TypeOK'
    BY <1>11, <2>2 DEF EpaySave, budget, TypeOK
  <2>4. HandlersMatch' /\ OnlyStripeExpires' /\ LocksAreHeld'
    BY <1>11, <1>a, <2>1, <2>2 DEF EpaySave, HandlersMatch, OnlyStripeExpires, LocksAreHeld, Inside
  <2>5. Inside(h) /\ Method[Order(h)] = "epay" /\ status[Order(h)] = "pending"
    BY <1>11, <2>1 DEF EpaySave, Inside, HandlersMatch, EpayKnows
  <2>6. credits[Order(h)] = 0
    BY <2>1, <2>5 DEF SettledForGood, TypeOK
  <2>7. \A g \in Handlers : Inside(g) /\ Order(g) = Order(h) => g = h
    BY <2>5 DEF LocksAreHeld
  <2>8. EpayKnows'
    <3>1. ASSUME NEW g \in Handlers, g # h
          PROVE  /\ (Inside(g) /\ Method[Order(g)] = "epay"
                    /\ handler[g].pc \in {"save", "txcommit"} => status'[Order(g)] = "pending")
                 /\ (handler[g].pc = "credit" =>
                       status'[Order(g)] = "success" /\ credits'[Order(g)] = 0)
      <4>1. handler[g].pc = "credit" => Inside(g)
        BY <3>1, <1>a DEF HandlersMatch, Inside
      <4>2. Order(g) = Order(h) => ~Inside(g)
        BY <3>1, <2>7
      <4>. QED
        BY <1>11, <2>1, <3>1, <4>1, <4>2 DEF EpaySave, EpayKnows, TypeOK
    <3>. QED
      BY <1>11, <2>1, <2>2, <2>6, <3>1 DEF EpaySave, EpayKnows, Inside, TypeOK
  <2>9. EpayOnce' /\ SettledForGood'
    BY <1>11, <2>1 DEF EpaySave, EpayOnce, SettledForGood, TypeOK
  <2>. QED
    BY <2>3, <2>4, <2>8, <2>9
<1>12. ASSUME NEW h \in Handlers, EpayCredit(h) PROVE IInv'
  <2>1. handler[h] # Idle /\ Order(h) \in Orders
    BY <1>12, <1>a DEF EpayCredit, HandlersMatch
  <2>2. Finish(h, TRUE)
    BY <1>12 DEF EpayCredit
  <2>3. LocksAreHeld' /\ handler'[h] = Idle
        /\ \A g \in Handlers : g # h => handler'[g] = handler[g]
    BY <2>1, <2>2, FinishFacts
  <2>4. TypeOK'
    <3>1. TypeOK /\ Worth(Order(h)) \in Nat
      BY <2>1, WorthType
    <3>2. /\ handler' \in [Handlers -> [kind : Kinds,
                           order : Orders \union {NoOrder}, pc : Places]]
          /\ orderLocks' \in [Orders -> Handlers \union {Nobody}]
          /\ acked' \in [Orders -> BOOLEAN]
      BY <2>1, <2>2, FinishFacts
    <3>3. credits' \in [Orders -> Nat] /\ granted' \in [Orders -> Nat]
      BY <1>12, <2>1, <3>1 DEF EpayCredit, Credit, TypeOK
    <3>. QED
      BY <1>12, <3>1, <3>2, <3>3 DEF EpayCredit, budget, TypeOK
  <2>5. HandlersMatch' /\ OnlyStripeExpires'
    BY <1>12, <1>a, <2>3 DEF EpayCredit, HandlersMatch, OnlyStripeExpires
  <2>6. Inside(h) /\ status[Order(h)] = "success" /\ credits[Order(h)] = 0
    BY <1>12, <2>1 DEF EpayCredit, Inside, EpayKnows
  <2>7. \A g \in Handlers : Inside(g) /\ Order(g) = Order(h) => g = h
    BY <2>6 DEF LocksAreHeld
  <2>8. \A g \in Handlers : handler[g].pc = "credit" /\ Order(g) = Order(h) => g = h
    BY <1>a, <2>7 DEF HandlersMatch, Inside
  <2>9. EpayKnows'
    BY <1>12, <1>a, <2>1, <2>3, <2>8 DEF EpayCredit, Credit, EpayKnows, Inside, TypeOK
  <2>10. EpayOnce'
    <3>1. Method[Order(h)] = "epay" => granted[Order(h)] = 0
      BY <2>1, <2>6, WorthType DEF EpayOnce
    <3>2. credits'[Order(h)] = 1 /\ (Method[Order(h)] = "epay" =>
             granted'[Order(h)] = Worth(Order(h)))
      BY <1>12, <2>1, <2>6, <3>1, WorthType DEF EpayCredit, Credit, TypeOK
    <3>3. Worth(Order(h)) = 1 * Worth(Order(h))
      BY <2>1, WorthType
    <3>4. \A o \in Orders : o # Order(h) => credits'[o] = credits[o] /\ granted'[o] = granted[o]
      BY <1>12 DEF EpayCredit, Credit, TypeOK
    <3>. QED
      BY <3>2, <3>3, <3>4 DEF EpayOnce, Worth
  <2>11. SettledForGood'
    BY <1>12, <2>1, <2>6 DEF EpayCredit, Credit, SettledForGood, TypeOK
  <2>. QED
    BY <2>3, <2>4, <2>5, <2>9, <2>10, <2>11
<1>13. ASSUME NEW h \in Handlers, CreemRead(h) PROVE IInv'
  <2>1. handler[h] # Idle /\ Order(h) \in Orders
    BY <1>13, <1>a DEF CreemRead, HandlersMatch
  <2>2. CASE status[Order(h)] = "pending"
    <3>1. /\ handler' \in [Handlers -> [kind : Kinds,
                                order : Orders \union {NoOrder}, pc : Places]]
          /\ Kind(h)' = Kind(h) /\ Order(h)' = Order(h) /\ handler'[h].pc = "txread"
          /\ \A g \in Handlers : g # h => handler'[g] = handler[g]
      BY <1>13, <2>2 DEF CreemRead, TypeOK
    <3>2. TypeOK'
      BY <1>13, <2>2, <3>1 DEF CreemRead, rows, budget, TypeOK
    <3>3. HandlersMatch' /\ OnlyStripeExpires' /\ LocksAreHeld'
      BY <1>13, <1>a, <2>1, <2>2, <3>1 DEF CreemRead, HandlersMatch, OnlyStripeExpires, LocksAreHeld, Inside
    <3>4. EpayKnows' /\ EpayOnce' /\ SettledForGood'
      BY <1>13, <2>1, <2>2, <3>1 DEF CreemRead, rows, EpayKnows, Inside, EpayOnce, SettledForGood
    <3>. QED
      BY <3>2, <3>3, <3>4
  <2>3. CASE status[Order(h)] # "pending"
    <3>1. \E b \in BOOLEAN : Finish(h, b)
      BY <1>13, <2>3 DEF CreemRead
    <3>2. TypeOK' /\ LocksAreHeld'
      BY <1>13, <2>1, <3>1, FinishFacts DEF CreemRead, rows, budget, TypeOK
    <3>3. handler'[h] = Idle /\ \A g \in Handlers : g # h => handler'[g] = handler[g]
      BY <2>1, <3>1, FinishFacts
    <3>4. HandlersMatch' /\ OnlyStripeExpires' /\ EpayKnows' /\ EpayOnce' /\ SettledForGood'
      BY <1>13, <1>a, <3>3 DEF CreemRead, rows, HandlersMatch, OnlyStripeExpires, EpayKnows, Inside, EpayOnce, SettledForGood
    <3>. QED
      BY <3>2, <3>4
  <2>. QED
    BY <2>2, <2>3
<1>14. ASSUME NEW h \in Handlers, TxRead(h) PROVE IInv'
  <2>1. handler[h] # Idle /\ Order(h) \in Orders
    BY <1>14, <1>a DEF TxRead, HandlersMatch
  <2>2. CASE status[Order(h)] = "pending"
    <3>1. /\ handler' \in [Handlers -> [kind : Kinds,
                                order : Orders \union {NoOrder}, pc : Places]]
          /\ Kind(h)' = Kind(h) /\ Order(h)' = Order(h) /\ handler'[h].pc = "txcommit"
          /\ \A g \in Handlers : g # h => handler'[g] = handler[g]
      BY <1>14, <2>2 DEF TxRead, TypeOK
    <3>2. TypeOK'
      BY <1>14, <2>2, <3>1 DEF TxRead, rows, budget, TypeOK
    <3>3. HandlersMatch' /\ OnlyStripeExpires' /\ LocksAreHeld'
      BY <1>14, <1>a, <2>1, <2>2, <3>1 DEF TxRead, HandlersMatch, OnlyStripeExpires, LocksAreHeld, Inside
    <3>4. EpayKnows' /\ EpayOnce' /\ SettledForGood'
      BY <1>14, <2>1, <2>2, <3>1 DEF TxRead, rows, EpayKnows, Inside, EpayOnce, SettledForGood
    <3>. QED
      BY <3>2, <3>3, <3>4
  <2>3. CASE status[Order(h)] # "pending"
    <3>1. \E b \in BOOLEAN : Finish(h, b)
      BY <1>14, <2>3 DEF TxRead, FinishFailed
    <3>2. TypeOK' /\ LocksAreHeld'
      BY <1>14, <2>1, <3>1, FinishFacts DEF TxRead, rows, budget, TypeOK
    <3>3. handler'[h] = Idle /\ \A g \in Handlers : g # h => handler'[g] = handler[g]
      BY <2>1, <3>1, FinishFacts
    <3>4. HandlersMatch' /\ OnlyStripeExpires' /\ EpayKnows' /\ EpayOnce' /\ SettledForGood'
      BY <1>14, <1>a, <3>3 DEF TxRead, rows, HandlersMatch, OnlyStripeExpires, EpayKnows, Inside, EpayOnce, SettledForGood
    <3>. QED
      BY <3>2, <3>4
  <2>. QED
    BY <2>2, <2>3
<1>15. ASSUME NEW h \in Handlers, TxCommit(h) PROVE IInv'
  <2>1. handler[h] # Idle /\ Order(h) \in Orders
    BY <1>15, <1>a DEF TxCommit, HandlersMatch
  <2>2. Finish(h, TRUE)
    BY <1>15 DEF TxCommit
  <2>3. LocksAreHeld' /\ handler'[h] = Idle
        /\ \A g \in Handlers : g # h => handler'[g] = handler[g]
    BY <2>1, <2>2, FinishFacts
  <2>. DEFINE n == IF Kind(h) = "manual" THEN ManualWorth(Order(h)) ELSE Worth(Order(h))
  <2>4. n \in Nat /\ (Method[Order(h)] = "epay" => n = Worth(Order(h)))
    BY <2>1, WorthType
  <2>5. /\ status' = [status EXCEPT ![Order(h)] = "success"]
        /\ credits' = [credits EXCEPT ![Order(h)] = @ + 1]
        /\ granted' = [granted EXCEPT ![Order(h)] = @ + n]
        /\ UNCHANGED <<gateway, lost, extra, failures, crashes>>
    BY <1>15 DEF TxCommit, Credit, budget
  <2>. HIDE DEF n
  <2>6. TypeOK'
    <3>1. /\ handler' \in [Handlers -> [kind : Kinds,
                           order : Orders \union {NoOrder}, pc : Places]]
          /\ orderLocks' \in [Orders -> Handlers \union {Nobody}]
          /\ acked' \in [Orders -> BOOLEAN]
      BY <2>1, <2>2, FinishFacts
    <3>2. credits' \in [Orders -> Nat] /\ granted' \in [Orders -> Nat]
      BY <2>1, <2>4, <2>5 DEF TypeOK
    <3>. QED
      BY <2>1, <2>5, <3>1, <3>2 DEF TypeOK
  <2>7. HandlersMatch' /\ OnlyStripeExpires'
    BY <2>3, <2>5, <1>a DEF HandlersMatch, OnlyStripeExpires
  <2>8. Method[Order(h)] = "epay" => Inside(h) /\ status[Order(h)] = "pending"
    BY <1>15, <1>a, <2>1 DEF TxCommit, HandlersMatch, Inside, EpayKnows
  <2>9. Method[Order(h)] = "epay" => credits[Order(h)] = 0
    BY <2>1, <2>8 DEF SettledForGood, TypeOK
  <2>10. \A g \in Handlers : Inside(g) /\ Order(g) = Order(h) /\ Method[Order(h)] = "epay" => g = h
    BY <2>8 DEF LocksAreHeld
  <2>11. \A g \in Handlers : handler[g].pc = "credit" => Inside(g) /\ Method[Order(g)] = "epay"
    BY <1>a DEF HandlersMatch, Inside
  <2>12. EpayKnows'
    <3>1. ASSUME NEW g \in Handlers, g # h
          PROVE  /\ (Inside(g) /\ Method[Order(g)] = "epay"
                    /\ handler[g].pc \in {"save", "txcommit"} => status'[Order(g)] = "pending")
                 /\ (handler[g].pc = "credit" =>
                       status'[Order(g)] = "success" /\ credits'[Order(g)] = 0)
      BY <3>1, <2>1, <2>5, <2>10, <2>11 DEF EpayKnows, TypeOK
    <3>. QED
      BY <1>a, <2>3, <3>1 DEF EpayKnows, Inside
  <2>13. EpayOnce'
    <3>1. Method[Order(h)] = "epay" => granted[Order(h)] = 0
      BY <2>1, <2>9, WorthType DEF EpayOnce
    <3>2. Method[Order(h)] = "epay" =>
             credits'[Order(h)] = 1 /\ granted'[Order(h)] = Worth(Order(h))
      BY <2>1, <2>4, <2>5, <2>9, <3>1, WorthType DEF TypeOK
    <3>3. Worth(Order(h)) = 1 * Worth(Order(h))
      BY <2>1, WorthType
    <3>4. \A o \in Orders : o # Order(h) => credits'[o] = credits[o] /\ granted'[o] = granted[o]
      BY <2>5 DEF TypeOK
    <3>. QED
      BY <3>2, <3>3, <3>4 DEF EpayOnce, Worth
  <2>14. SettledForGood'
    BY <2>1, <2>5 DEF SettledForGood, TypeOK
  <2>. QED
    BY <2>3, <2>6, <2>7, <2>12, <2>13, <2>14
<1>16. ASSUME NEW h \in Handlers, ExpireRead(h) PROVE IInv'
  <2>1. handler[h] # Idle /\ Order(h) \in Orders
    BY <1>16, <1>a DEF ExpireRead, HandlersMatch
  <2>2. /\ handler' \in [Handlers -> [kind : Kinds,
                              order : Orders \union {NoOrder}, pc : Places]]
        /\ Kind(h)' = Kind(h) /\ Order(h)' = Order(h) /\ handler'[h].pc = "save"
        /\ \A g \in Handlers : g # h => handler'[g] = handler[g]
    BY <1>16 DEF ExpireRead, TypeOK
  <2>3. TypeOK'
    BY <1>16, <2>2 DEF ExpireRead, rows, budget, TypeOK
  <2>4. HandlersMatch' /\ OnlyStripeExpires' /\ LocksAreHeld'
    BY <1>16, <1>a, <2>1, <2>2 DEF ExpireRead, HandlersMatch, OnlyStripeExpires, LocksAreHeld, Inside
  <2>5. EpayKnows' /\ EpayOnce' /\ SettledForGood'
    BY <1>16, <2>1, <2>2 DEF ExpireRead, rows, EpayKnows, Inside, EpayOnce, SettledForGood
  <2>. QED
    BY <2>3, <2>4, <2>5
<1>17. ASSUME NEW h \in Handlers, ExpireSave(h) PROVE IInv'
  <2>1. handler[h] # Idle /\ Order(h) \in Orders
    BY <1>17, <1>a DEF ExpireSave, HandlersMatch
  <2>2. Finish(h, TRUE)
    BY <1>17 DEF ExpireSave
  <2>3. LocksAreHeld' /\ handler'[h] = Idle
        /\ \A g \in Handlers : g # h => handler'[g] = handler[g]
    BY <2>1, <2>2, FinishFacts
  <2>4. TypeOK'
    BY <1>17, <2>1, <2>2, FinishFacts DEF ExpireSave, budget, TypeOK
  <2>5. HandlersMatch' /\ OnlyStripeExpires'
    BY <1>17, <1>a, <2>3 DEF ExpireSave, HandlersMatch, OnlyStripeExpires
  <2>6. Method[Order(h)] = "stripe"
    BY <1>17, <2>1 DEF ExpireSave, HandlersMatch
  <2>7. \A g \in Handlers : handler[g].pc = "credit" => Method[Order(g)] = "epay"
    BY <1>a DEF HandlersMatch
  <2>8. EpayKnows'
    BY <1>17, <1>a, <2>1, <2>3, <2>6, <2>7 DEF ExpireSave, EpayKnows, Inside, TypeOK
  <2>9. EpayOnce' /\ SettledForGood'
    BY <1>17, <2>1 DEF ExpireSave, EpayOnce, SettledForGood, TypeOK
  <2>. QED
    BY <2>3, <2>4, <2>5, <2>8, <2>9
<1>18. ASSUME NEW h \in Handlers, HandlerFails(h) PROVE IInv'
  <2>1. handler[h] # Idle /\ Order(h) \in Orders
    BY <1>18, <1>a DEF HandlerFails, HandlersMatch
  <2>2. \E b \in BOOLEAN : Finish(h, b)
    BY <1>18 DEF HandlerFails, FinishFailed
  <2>3. LocksAreHeld' /\ handler'[h] = Idle
        /\ \A g \in Handlers : g # h => handler'[g] = handler[g]
    BY <2>1, <2>2, FinishFacts
  <2>4. lost' \in [Orders -> BOOLEAN]
    BY Zenon, <1>18 DEF HandlerFails, Loses, TypeOK
  <2>5. TypeOK'
    BY <1>18, <2>1, <2>2, <2>4, FinishFacts DEF HandlerFails, rows, TypeOK
  <2>6. HandlersMatch' /\ OnlyStripeExpires' /\ EpayKnows' /\ EpayOnce' /\ SettledForGood'
    BY <1>18, <1>a, <2>3 DEF HandlerFails, rows, HandlersMatch, OnlyStripeExpires, EpayKnows, Inside, EpayOnce, SettledForGood
  <2>. QED
    BY <2>3, <2>5, <2>6
<1>19. ASSUME Crash PROVE IInv'
  <2>1. handler' = [h \in Handlers |-> Idle]
    BY <1>19 DEF Crash
  <2>2. TypeOK'
    BY <1>19, <2>1 DEF Crash, rows, TypeOK, Idle
  <2>3. HandlersMatch' /\ OnlyStripeExpires' /\ LocksAreHeld' /\ EpayKnows' /\ EpayOnce'
        /\ SettledForGood'
    BY <1>19, <1>a, <2>1 DEF Crash, rows, LocksAreHeld, HandlersMatch, OnlyStripeExpires, EpayKnows, Inside, EpayOnce, SettledForGood
  <2>. QED
    BY <2>2, <2>3
<1>20. ASSUME UNCHANGED vars PROVE IInv'
  BY <1>20 DEF vars, rows, budget, TypeOK, LocksAreHeld, Idle, HandlersMatch, OnlyStripeExpires, EpayKnows, Inside, EpayOnce, SettledForGood
<1>. QED
  BY <1>1, <1>2, <1>3, <1>4, <1>6, <1>7, <1>8, <1>9, <1>10, <1>11, <1>12, <1>13,
     <1>14, <1>15, <1>16, <1>17, <1>18, <1>19, <1>20 DEF Next, Step

-----------------------------------------------------------------------------
(* Theorems                                                                 *)

(* The rows, mutexes and handlers always have the values of TypeOK.         *)
THEOREM TypeCorrect == Spec => []TypeOK
<1>1. IInv => TypeOK
  BY DEF IInv
<1>. QED
  BY <1>1, InitIInv, NextIInv, PTL DEF Spec

(* An Easypay order is paid out at most once and by its worth, for any      *)
(* number of callbacks, manual completions, failures and crashes.           *)
THEOREM EpayPaysOnce == Spec => []EpayOnce
<1>1. IInv => EpayOnce
  BY DEF IInv
<1>. QED
  BY <1>1, InitIInv, NextIInv, PTL DEF Spec

(* An order that was paid out is never pending again.                       *)
THEOREM SettledOrdersStaySettled == Spec => []SettledForGood
<1>1. IInv => SettledForGood
  BY DEF IInv
<1>. QED
  BY <1>1, InitIInv, NextIInv, PTL DEF Spec
-----------------------------------------------------------------------------
(* The handlers that read the order pending in their transaction and have   *)
(* not committed yet.  Once the order is paid out there is no new one.      *)
Holding(o) == {h \in Handlers : handler[h].pc = "txcommit" /\ Order(h) = o}
HoldersAreCounted ==
    \A o \in Orders : credits[o] > 0 =>
        credits[o] + Cardinality(Holding(o)) <= Cardinality(Handlers)

(* A set of handlers has a cardinality, and no more than all of them.       *)
LEMMA HandlerSets ==
    ASSUME NEW S, S \subseteq Handlers, NEW T, T \subseteq S
    PROVE  /\ Cardinality(S) \in Nat /\ Cardinality(T) \in Nat
           /\ Cardinality(T) <= Cardinality(S)
           /\ \A h \in S : h \notin T => Cardinality(T) + 1 <= Cardinality(S)
<1>1. IsFiniteSet(S)
  BY FS_Subset, TopUpAssumption
<1>2. IsFiniteSet(T) /\ Cardinality(T) <= Cardinality(S)
  BY <1>1, FS_Subset
<1>3. Cardinality(S) \in Nat /\ Cardinality(T) \in Nat
  BY <1>1, <1>2, FS_CardinalityType
<1>4. ASSUME NEW h \in S, h \notin T PROVE Cardinality(T) + 1 <= Cardinality(S)
  <2>1. T \subseteq S \ {h}
    BY <1>4
  <2>2. IsFiniteSet(S \ {h}) /\ Cardinality(S \ {h}) = Cardinality(S) - 1
    BY <1>1, <1>4, FS_RemoveElement
  <2>3. Cardinality(T) <= Cardinality(S \ {h})
    BY <2>1, <2>2, FS_Subset
  <2>. QED
    BY <1>3, <2>2, <2>3
<1>. QED
  BY <1>2, <1>3, <1>4

(* A step that pays nothing out and begins no commit on an order that was   *)
(* paid out keeps the count.                                                *)
LEMMA CountKept ==
    ASSUME IInv, HoldersAreCounted, NEW o \in Orders, credits'[o] = credits[o],
           credits[o] > 0 => Holding(o)' \subseteq Holding(o)
    PROVE  credits'[o] > 0 =>
              credits'[o] + Cardinality(Holding(o)') <= Cardinality(Handlers)
<1>. SUFFICES ASSUME credits[o] > 0
              PROVE  credits[o] + Cardinality(Holding(o)') <= Cardinality(Handlers)
  OBVIOUS
<1>1. Holding(o) \subseteq Handlers
  BY DEF Holding
<1>2. /\ Cardinality(Holding(o)) \in Nat /\ Cardinality(Holding(o)') \in Nat
      /\ Cardinality(Holding(o)') <= Cardinality(Holding(o))
      /\ Cardinality(Handlers) \in Nat
  BY <1>1, HandlerSets
<1>3. credits[o] \in Nat
  BY DEF IInv, TypeOK
<1>. QED
  BY <1>2, <1>3 DEF HoldersAreCounted

(* The handler that pays an order out takes the place it held, or one of    *)
(* the handlers that hold nothing.                                          *)
LEMMA CountPaid ==
    ASSUME IInv, HoldersAreCounted, NEW o \in Orders, NEW h \in Handlers,
           credits'[o] = credits[o] + 1, h \notin Holding(o)',
           Holding(o)' \subseteq Holding(o), credits[o] > 0 => h \in Holding(o)
    PROVE  credits'[o] + Cardinality(Holding(o)') <= Cardinality(Handlers)
<1>1. Holding(o) \subseteq Handlers /\ Holding(o)' \subseteq Handlers
  BY DEF Holding
<1>2. /\ Cardinality(Holding(o)) \in Nat /\ Cardinality(Holding(o)') \in Nat
      /\ Cardinality(Handlers) \in Nat
      /\ Cardinality(Holding(o)') + 1 <= Cardinality(Handlers)
  BY <1>1, HandlerSets
<1>3. h \in Holding(o) => Cardinality(Holding(o)') + 1 <= Cardinality(Holding(o))
  BY <1>1, HandlerSets
<1>4. credits[o] \in Nat
  BY DEF IInv, TypeOK
<1>5. CASE credits[o] = 0
  BY <1>2, <1>5
<1>6. CASE credits[o] > 0
  <2>1. credits[o] + Cardinality(Holding(o)) <= Cardinality(Handlers)
    BY <1>6 DEF HoldersAreCounted
  <2>. QED
    BY <1>2, <1>3, <1>4, <1>6, <2>1
<1>. QED
  BY <1>4, <1>5, <1>6

(* Only EpayCredit and TxCommit pay out, and only TxRead, of a pending      *)
(* order, begins a commit.                                                  *)
LEMMA NextCounts ==
    ASSUME IInv, HoldersAreCounted, [Next]_vars PROVE HoldersAreCounted'
<1>. SUFFICES ASSUME NEW o \in Orders
              PROVE  credits'[o] > 0 =>
                        credits'[o] + Cardinality(Holding(o)') <= Cardinality(Handlers)
  BY DEF HoldersAreCounted
<1>. USE DEF Holding
<1>a. Idle.pc = "idle" /\ TypeOK
  BY DEF Idle, IInv
<1>b. credits[o] > 0 => status[o] # "pending"
  BY DEF IInv, SettledForGood
<1>1. ASSUME NEW p \in Orders,
             \/ RequestPay(p) \/ RequestPayWithoutLink(p)
             \/ UserPays(p) \/ SessionExpires(p)
      PROVE  credits'[o] = credits[o] /\ Holding(o)' \subseteq Holding(o)
  BY <1>1 DEF RequestPay, RequestPayWithoutLink, UserPays, SessionExpires, rows
<1>2. ASSUME NEW h \in Handlers, NEW p \in Orders,
             Callback(h, p) \/ RepeatedCallback(h, p) \/ AdminCompleteTopUp(h, p)
      PROVE  credits'[o] = credits[o] /\ Holding(o)' \subseteq Holding(o)
  <2>1. PICK k \in Kinds \ {"none"} : Begin(h, k, p)
    BY <1>2, TopUpAssumption
       DEF Callback, RepeatedCallback, AdminCompleteTopUp, Reported
  <2>2. Entry(k) # "txcommit"
    BY DEF Entry
  <2>. QED
    BY <2>1, <2>2, <1>a DEF Begin, rows, TypeOK
<1>3. ASSUME NEW h \in Handlers, LockOrder(h) \/ EpaySave(h) \/ ExpireRead(h)
      PROVE  credits'[o] = credits[o] /\ Holding(o)' \subseteq Holding(o)
  BY <1>3, <1>a DEF LockOrder, EpaySave, ExpireRead, rows, TypeOK
<1>4. ASSUME NEW h \in Handlers,
             EpayRead(h) \/ CreemRead(h) \/ ExpireSave(h) \/ HandlerFails(h)
      PROVE  credits'[o] = credits[o] /\ Holding(o)' \subseteq Holding(o)
  BY <1>4, <1>a DEF EpayRead, CreemRead, ExpireSave, HandlerFails, FinishFailed,
                    Finish, rows, TypeOK
<1>5. ASSUME NEW h \in Handlers, TxRead(h)
      PROVE  credits'[o] = credits[o] /\ (credits[o] > 0 => Holding(o)' \subseteq Holding(o))
  BY <1>5, <1>a, <1>b DEF TxRead, FinishFailed, Finish, rows, TypeOK
<1>6. ASSUME NEW h \in Handlers, EpayCredit(h) \/ TxCommit(h)
      PROVE  credits'[o] > 0 =>
                credits'[o] + Cardinality(Holding(o)') <= Cardinality(Handlers)
  <2>1. EpayCredit(h) => credits[Order(h)] = 0
    BY DEF EpayCredit, IInv, EpayKnows
  <2>2. Holding(o)' \subseteq Holding(o) /\ h \notin Holding(o)'
    BY <1>6, <1>a DEF EpayCredit, TxCommit, Finish, TypeOK
  <2>3. credits' = [credits EXCEPT ![Order(h)] = @ + 1] /\ credits \in [Orders -> Nat]
    BY <1>6, <1>a DEF EpayCredit, TxCommit, Credit, TypeOK
  <2>4. TxCommit(h) /\ Order(h) = o => h \in Holding(o)
    BY DEF TxCommit
  <2>. HIDE DEF Holding
  <2>5. CASE Order(h) = o
    <3>1. credits'[o] = credits[o] + 1
      BY <2>3, <2>5
    <3>2. credits[o] > 0 => h \in Holding(o)
      BY <1>6, <2>1, <2>4, <2>5
    <3>. QED
      BY <2>2, <3>1, <3>2, CountPaid
  <2>6. CASE Order(h) # o
    <3>1. credits'[o] = credits[o]
      BY <2>3, <2>6
    <3>. QED
      BY <2>2, <3>1, CountKept
  <2>. QED
    BY <2>5, <2>6
<1>7. ASSUME Crash PROVE credits'[o] = credits[o] /\ Holding(o)' \subseteq Holding(o)
  BY <1>7, <1>a DEF Crash, rows
<1>8. ASSUME UNCHANGED vars
      PROVE  credits'[o] = credits[o] /\ Holding(o)' \subseteq Holding(o)
  BY <1>8 DEF vars, rows
<1>. HIDE DEF Holding
<1>9. (\E h \in Handlers : EpayCredit(h) \/ TxCommit(h)) \/
       (credits'[o] = credits[o] /\ (credits[o] > 0 => Holding(o)' \subseteq Holding(o)))
  BY <1>1, <1>2, <1>3, <1>4, <1>5, <1>7, <1>8 DEF Next, Step
<1>. QED
  BY <1>6, <1>9, CountKept

(* An order is paid out at most once by each handler that can run at the    *)
(* same time, however many callbacks there are in all.                      *)
THEOREM CreditsNeedOverlap == Spec => []CreditsAreBounded
<1>1. Init => HoldersAreCounted
  BY DEF Init, HoldersAreCounted
<1>2. IInv /\ HoldersAreCounted => CreditsAreBounded
  <2>. SUFFICES ASSUME IInv, HoldersAreCounted, NEW o \in Orders
                PROVE  credits[o] <= Cardinality(Handlers)
    BY DEF CreditsAreBounded
  <2>1. Holding(o) \subseteq Handlers
    BY DEF Holding
  <2>2. Cardinality(Holding(o)) \in Nat /\ Cardinality(Handlers) \in Nat
    BY <2>1, HandlerSets
  <2>3. credits[o] \in Nat
    BY DEF IInv, TypeOK
  <2>. QED
    BY <2>2, <2>3 DEF HoldersAreCounted
<1>. QED
  BY <1>1, <1>2, InitIInv, NextIInv, NextCounts, PTL DEF Spec
-----------------------------------------------------------------------------
(* TopUp implements OrderBook                                               *)

(* Steps that leave the rows of Easypay's orders alone do not show.         *)
LEMMA BookStutters ==
    ASSUME \A o \in EpayOrders : /\ status'[o] = status[o]
                                 /\ credits'[o] = credits[o]
                                 /\ granted'[o] = granted[o]
    PROVE  UNCHANGED Book!vars
<1>1. BookEntry' = BookEntry
  BY DEF BookEntry
<1>2. [o \in EpayOrders |-> granted[o]]' = [o \in EpayOrders |-> granted[o]]
  OBVIOUS
<1>. QED
  BY <1>1, <1>2 DEF Book!vars

(* A step that changes the row of one Easypay order changes its entry only. *)
LEMMA BookMoves ==
    ASSUME TypeOK, NEW o \in EpayOrders, NEW e, NEW n,
           \A p \in EpayOrders \ {o} : /\ status'[p] = status[p]
                                       /\ credits'[p] = credits[p]
                                       /\ granted'[p] = granted[p],
           BookEntry'[o] = e, granted'[o] = granted[o] + n
    PROVE  /\ BookEntry' = [BookEntry EXCEPT ![o] = e]
           /\ [p \in EpayOrders |-> granted[p]]' =
                 [[p \in EpayOrders |-> granted[p]] EXCEPT ![o] = @ + n]
<1>1. \A p \in EpayOrders \ {o} : BookEntry'[p] = BookEntry[p]
  BY DEF BookEntry
<1>2. BookEntry' = [p \in EpayOrders |-> BookEntry'[p]]
      /\ BookEntry = [p \in EpayOrders |-> BookEntry[p]]
  BY DEF BookEntry
<1>3. BookEntry' = [BookEntry EXCEPT ![o] = e]
  BY <1>1, <1>2
<1>4. [p \in EpayOrders |-> granted'[p]] =
         [[p \in EpayOrders |-> granted[p]] EXCEPT ![o] = @ + n]
  OBVIOUS
<1>. QED
  BY <1>3, <1>4

(* Every step is a step of the book or does not show in it: one step per    *)
(* action that writes a row, with what the mutex lets its handler know.     *)
LEMMA NextImplements == IInv /\ [Next]_vars => [Book!Next]_(Book!vars)
<1>. SUFFICES ASSUME IInv, [Next]_vars PROVE [Book!Next]_(Book!vars)
  OBVIOUS
<1>. USE DEF IInv
<1>a. Idle.pc = "idle" /\ EpayOrders \subseteq Orders
      /\ \A o \in Orders : o \in EpayOrders <=> Method[o] = "epay"
  BY DEF Idle, EpayOrders
<1>b. \A o \in Orders : Worth(o) \in Nat
  BY WorthType
<1>1. ASSUME NEW o \in Orders, RequestPay(o) PROVE [Book!Next]_(Book!vars)
  <2>1. \A p \in Orders \ {o} : status'[p] = status[p]
    BY <1>1 DEF RequestPay, TypeOK
  <2>2. CASE o \in EpayOrders
    <3>1. BookEntry[o] = "new" /\ BookEntry'[o] = "open"
      BY <1>1, <2>2 DEF RequestPay, BookEntry, TypeOK
    <3>2. \A p \in EpayOrders \ {o} : /\ status'[p] = status[p]
                                      /\ credits'[p] = credits[p]
                                      /\ granted'[p] = granted[p]
      BY <1>1, <1>a, <2>1 DEF RequestPay
    <3>3. BookEntry' = [BookEntry EXCEPT ![o] = "open"]
      BY <3>1, <3>2 DEF BookEntry
    <3>4. [p \in EpayOrders |-> granted[p]]' = [p \in EpayOrders |-> granted[p]]
      BY <1>1 DEF RequestPay
    <3>5. Book!Open(o)
      BY <3>1, <3>3, <3>4 DEF Book!Open
    <3>. QED
      BY <2>2, <3>5 DEF Book!Next
  <2>3. CASE o \notin EpayOrders
    BY <1>1, <1>a, <2>1, <2>3, BookStutters DEF RequestPay
  <2>. QED
    BY <2>2, <2>3
<1>2. ASSUME NEW o \in Orders, RequestPayWithoutLink(o) PROVE UNCHANGED Book!vars
  <2>1. o \notin EpayOrders
    BY <1>2, <1>a DEF RequestPayWithoutLink
  <2>. QED
    BY <1>2, <1>a, <2>1, BookStutters DEF RequestPayWithoutLink, TypeOK
<1>3. ASSUME NEW h \in Handlers, EpaySave(h) PROVE [Book!Next]_(Book!vars)
  <2>. DEFINE o == Order(h)
  <2>1. handler[h] # Idle /\ o \in EpayOrders
    BY <1>3, <1>a DEF EpaySave, HandlersMatch
  <2>2. status[o] = "pending"
    BY <1>3, <1>a, <2>1 DEF EpaySave, Inside, EpayKnows
  <2>3. credits[o] = 0
    BY <1>a, <2>1, <2>2 DEF SettledForGood, TypeOK
  <2>4. status' = [status EXCEPT ![o] = "success"] /\ UNCHANGED <<credits, granted>>
    BY <1>3 DEF EpaySave
  <2>. HIDE DEF o
  <2>5. BookEntry[o] = "open" /\ BookEntry'[o] = "settled"
    BY <1>a, <2>1, <2>2, <2>3, <2>4 DEF BookEntry, TypeOK
  <2>6. BookEntry' = [BookEntry EXCEPT ![o] = "settled"]
    BY <1>a, <2>1, <2>4, <2>5 DEF BookEntry, TypeOK
  <2>7. [p \in EpayOrders |-> granted[p]]' = [p \in EpayOrders |-> granted[p]]
    BY <2>4
  <2>8. Book!Settle(o)
    BY <2>5, <2>6, <2>7 DEF Book!Settle
  <2>. QED
    BY <2>1, <2>8 DEF Book!Next
<1>4. ASSUME NEW o \in EpayOrders, NEW n, n = Worth(o),
             status[o] \in {"pending", "success"}, credits[o] = 0,
             status' = [status EXCEPT ![o] = "success"],
             credits' = [credits EXCEPT ![o] = @ + 1],
             granted' = [granted EXCEPT ![o] = @ + n]
      PROVE  Book!Next
  <2>1. BookEntry[o] \in {"open", "settled"} /\ BookEntry'[o] = "closed"
    BY <1>4, <1>a DEF BookEntry, TypeOK
  <2>2. \A p \in EpayOrders \ {o} : /\ status'[p] = status[p]
                                    /\ credits'[p] = credits[p]
                                    /\ granted'[p] = granted[p]
    BY <1>4, <1>a DEF TypeOK
  <2>3. granted'[o] = granted[o] + n
    BY <1>4, <1>a DEF TypeOK
  <2>4. /\ BookEntry' = [BookEntry EXCEPT ![o] = "closed"]
        /\ [p \in EpayOrders |-> granted[p]]' =
              [[p \in EpayOrders |-> granted[p]] EXCEPT ![o] = @ + n]
    BY <2>1, <2>2, <2>3, BookMoves
  <2>5. Book!PayOut(o)
    BY <1>4, <2>1, <2>4 DEF Book!PayOut
  <2>. QED
    BY <2>5 DEF Book!Next
<1>5. ASSUME NEW h \in Handlers, EpayCredit(h) PROVE [Book!Next]_(Book!vars)
  <2>1. handler[h] # Idle /\ Order(h) \in EpayOrders
    BY <1>5, <1>a DEF EpayCredit, HandlersMatch
  <2>2. status[Order(h)] = "success" /\ credits[Order(h)] = 0
    BY <1>5 DEF EpayCredit, EpayKnows
  <2>3. status' = [status EXCEPT ![Order(h)] = "success"]
    BY <1>5, <2>2 DEF EpayCredit, TypeOK
  <2>. QED
    BY <1>4, <1>5, <2>1, <2>2, <2>3 DEF EpayCredit, Credit
<1>6. ASSUME NEW h \in Handlers, TxCommit(h) PROVE [Book!Next]_(Book!vars)
  <2>. DEFINE n == IF Kind(h) = "manual" THEN ManualWorth(Order(h)) ELSE Worth(Order(h))
  <2>1. handler[h] # Idle /\ Order(h) \in Orders
    BY <1>6, <1>a DEF TxCommit, HandlersMatch
  <2>2. /\ status' = [status EXCEPT ![Order(h)] = "success"]
        /\ credits' = [credits EXCEPT ![Order(h)] = @ + 1]
        /\ granted' = [granted EXCEPT ![Order(h)] = @ + n]
    BY <1>6 DEF TxCommit, Credit
  <2>3. Method[Order(h)] = "epay" => n = Worth(Order(h))
    BY <2>1, WorthType
  <2>. HIDE DEF n
  <2>4. CASE Order(h) \in EpayOrders
    <3>1. Inside(h) /\ status[Order(h)] = "pending"
      BY <1>6, <1>a, <2>1, <2>4 DEF TxCommit, HandlersMatch, Inside, EpayKnows
    <3>2. credits[Order(h)] = 0
      BY <2>1, <3>1 DEF SettledForGood, TypeOK
    <3>. QED
      BY <1>4, <1>a, <2>1, <2>2, <2>3, <2>4, <3>1, <3>2
  <2>5. CASE Order(h) \notin EpayOrders
    BY <1>a, <2>1, <2>2, <2>5, BookStutters DEF TypeOK
  <2>. QED
    BY <2>4, <2>5
<1>7. ASSUME NEW h \in Handlers, ExpireSave(h) PROVE UNCHANGED Book!vars
  <2>1. handler[h] # Idle
    BY <1>7, <1>a DEF ExpireSave
  <2>2. Order(h) \in Orders /\ Order(h) \notin EpayOrders
    BY <1>7, <1>a, <2>1 DEF ExpireSave, HandlersMatch
  <2>. QED
    BY <1>7, <1>a, <2>2, BookStutters DEF ExpireSave, TypeOK
<1>8. ASSUME UNCHANGED rows PROVE UNCHANGED Book!vars
  BY <1>8, BookStutters DEF rows
<1>9. ASSUME NEW o \in Orders, UserPays(o) \/ SessionExpires(o) PROVE UNCHANGED rows
  BY <1>9 DEF UserPays, SessionExpires
<1>10. ASSUME NEW h \in Handlers, NEW o \in Orders,
              Callback(h, o) \/ RepeatedCallback(h, o) \/ AdminCompleteTopUp(h, o)
       PROVE  UNCHANGED rows
  BY <1>10 DEF Callback, RepeatedCallback, AdminCompleteTopUp, Begin
<1>11. ASSUME NEW h \in Handlers,
              \/ LockOrder(h) \/ EpayRead(h) \/ CreemRead(h) \/ TxRead(h)
              \/ ExpireRead(h) \/ HandlerFails(h)
       PROVE  UNCHANGED rows
  BY <1>11 DEF LockOrder, EpayRead, CreemRead, TxRead, ExpireRead, HandlerFails
<1>12. Crash \/ UNCHANGED vars => UNCHANGED rows
  BY DEF Crash, vars
<1>. QED
  BY <1>1, <1>2, <1>3, <1>5, <1>6, <1>7, <1>8, <1>9, <1>10, <1>11, <1>12
     DEF Next, Step

(* The rows and quotas of Easypay's orders behave as the order book says,   *)
(* for any number of orders, handlers, callbacks, failures and crashes.     *)
THEOREM OrdersImplementBook == Spec => ImplementsOrderBook
<1>1. Init => Book!Init
  BY DEF Init, Book!Init, BookEntry, EpayOrders
<1>. QED
  BY <1>1, InitIInv, NextIInv, NextImplements, PTL DEF Spec, ImplementsOrderBook, Book!Spec
=============================================================================
