--------------------------- MODULE MCRelayBilling ---------------------------
(* Instances of RelayBilling: one user with one token and one channel.      *)
EXTENDS RelayBilling, TLC

CONSTANTS UserQuota, TokenQuota \* the quotas at start-up

MCKeys == {"user", "token", "used", "channel", "count"}
MCBatchUpdateType ==
    [k \in MCKeys |-> CASE k = "user" -> UserQuotaType
                        [] k = "token" -> TokenQuotaType
                        [] k = "used" -> UsedQuotaType
                        [] k = "channel" -> ChannelUsedQuotaType
                        [] k = "count" -> RequestCountType]
MCInitialDB == [k \in MCKeys |-> CASE k = "user" -> UserQuota
                                   [] k = "token" -> TokenQuota
                                   [] OTHER -> 0]
MCChannelQ == {"channel"}
MCUserQ == [r \in Requests |-> "user"]
MCTokenQ == [r \in Requests |-> "token"]
MCUsedQ == [r \in Requests |-> "used"]
MCCountQ == [r \in Requests |-> "count"]
MCUnlimited == {"token"}
RequestSymmetry == Permutations(Requests)
=============================================================================
