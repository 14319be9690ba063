-------------------------- MODULE MCChannelSelect --------------------------
(* Instances of ChannelSelect: group A has channels of priorities 2, 2 and  *)
(* 1, group B of priorities 2 and 1, and c3 belongs to both.                *)
EXTENDS ChannelSelect

MCChannels == {"c1", "c2", "c3", "c4"}
MCGroups == <<"A", "B">>
MCChannelsOf == [g \in {"A", "B"} |-> IF g = "A" THEN {"c1", "c2", "c3"} ELSE {"c3", "c4"}]
MCPriority == [c \in MCChannels |-> IF c \in {"c1", "c2", "c4"} THEN 2 ELSE 1]
MCWeight == [c \in MCChannels |-> IF c = "c2" THEN 0 ELSE 1]
(* auto with and without cross-group retry, and a fixed group *)
MCTokens == {[auto |-> TRUE, crossGroupRetry |-> TRUE],
             [auto |-> TRUE, crossGroupRetry |-> FALSE],
             [auto |-> FALSE, crossGroupRetry |-> FALSE]}
MCCrossToken == {[auto |-> TRUE, crossGroupRetry |-> TRUE]}
=============================================================================
