---------------------------- MODULE MCQuotaCache ----------------------------
(* A hold and a top-up of one user. *)
EXTENDS QuotaCache

MCDelta == [c \in Changes |-> IF c = "hold" THEN -1 ELSE 3]
MCKind == [s \in Savers |-> s]
=============================================================================
