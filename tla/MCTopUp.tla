------------------------------ MODULE MCTopUp ------------------------------
(* Instances of TopUp: orders named after their gateways. *)
EXTENDS TopUp

MCMethod == [o \in Orders |-> o]
MCAmount == [o \in Orders |-> 1]
=============================================================================
