----------------------------- MODULE OrderBook -----------------------------
(***************************************************************************)
(* What a payment promises its user: an order is opened, settled and paid  *)
(* out, in this direction only, and its price is added to the user's quota *)
(* by the one step that pays it out.  Handlers, mutexes, callbacks,        *)
(* failures and crashes do not appear.                                     *)
(***************************************************************************)
EXTENDS Integers

CONSTANTS Orders,   \* the orders of the book
          Price(_)  \* what an order adds to the user's quota

VARIABLES entry,    \* "new", "open", "settled" (marked, not paid out) or "closed"
          quota     \* what the user got for the order

vars == <<entry, quota>>

Init ==
    /\ entry = [o \in Orders |-> "new"]
    /\ quota = [o \in Orders |-> 0]

Open(o) ==
    /\ entry[o] = "new"
    /\ entry' = [entry EXCEPT ![o] = "open"]
    /\ UNCHANGED quota

Settle(o) ==
    /\ entry[o] = "open"
    /\ entry' = [entry EXCEPT ![o] = "settled"]
    /\ UNCHANGED quota

\* A settled order is paid out, or an open one is settled and paid out at once.
PayOut(o) ==
    /\ entry[o] \in {"open", "settled"}
    /\ entry' = [entry EXCEPT ![o] = "closed"]
    /\ quota' = [quota EXCEPT ![o] = @ + Price(o)]

Next == \E o \in Orders : Open(o) \/ Settle(o) \/ PayOut(o)

Spec == Init /\ [][Next]_vars
=============================================================================
