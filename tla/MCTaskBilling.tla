--------------------------- MODULE MCTaskBilling ---------------------------
(* Instances of TaskBilling. *)
EXTENDS TaskBilling

MCPlatform == [t \in Tasks |-> CASE t \in {"s1", "s2"} -> "suno"
                                 [] t = "d1" -> "doubao"
                                 [] t \in {"g1", "g2"} -> "gemini"]
=============================================================================
