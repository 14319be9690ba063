--------------------------- MODULE ChannelSelect ---------------------------
(***************************************************************************)
(* Which channels one request tries: Distribute of                         *)
(* middleware/distributor.go, the retry loop of Relay and getChannel in    *)
(* controller/relay.go, CacheGetRandomSatisfiedChannel with its RetryParam *)
(* of service/channel_select.go, and GetRandomSatisfiedChannel of          *)
(* model/channel_cache.go.                                                 *)
(*                                                                         *)
(* Other requests disable channels in the meantime, and the memory cache   *)
(* is reloaded from the database.  The request's model is fixed: listed    *)
(* holds the channels of group2model2channels for it.                      *)
(***************************************************************************)
EXTENDS Integers, Sequences, FiniteSets

CONSTANTS
    Channels,
    Priority, Weight,  \* [Channels -> Int], [Channels -> Nat]
    Groups,            \* the auto groups in order; the first is the group of a fixed token
    ChannelsOf,        \* [Range(Groups) -> SUBSET Channels]
    Tokens,            \* the tokens a request may carry
    RetryTimes,        \* common.RetryTimes
    Affinities,        \* channels that channel affinity may prefer
    MaxChanges         \* bound on changes of the channel cache

ASSUME SelectAssumption ==
    /\ IsFiniteSet(Channels)
    /\ Priority \in [Channels -> Int] /\ Weight \in [Channels -> Nat]
    /\ Len(Groups) \in Nat \ {0}
    /\ \A i \in 1 .. Len(Groups) : ChannelsOf[Groups[i]] \subseteq Channels
    /\ Tokens \subseteq [auto : BOOLEAN, crossGroupRetry : BOOLEAN]
    /\ RetryTimes \in Nat /\ MaxChanges \in Nat
    /\ Affinities \subseteq Channels

VARIABLES
    listed,        \* channels in the lists of the memory cache
    keyless,       \* multi-key channels all of whose keys are disabled
    token,         \* the settings of the request's token
    pc,            \* "distribute", "attempt", "select", "done"
    retry,         \* RetryParam.Retry
    resetNextTry,  \* RetryParam.resetNextTry
    groupIndex,    \* ContextKeyAutoGroupIndex (1 when unset: indices start at 1)
    autoGroup,     \* index of ContextKeyAutoGroup, 0 when unset
    channel,       \* the channel of the current attempt
    billedGroup,   \* index of the group whose ratio PriceData holds
    affinity,      \* the first channel came from channel affinity
    attempts,      \* attempts so far (history)
    tried,         \* groups that had an attempt (history)
    outcome,       \* "open", "served", "refused" or "exhausted" (history)
    changes

cacheVars == <<listed, keyless, changes>>
requestVars == <<token, pc, retry, resetNextTry, groupIndex, autoGroup, channel, billedGroup,
                 affinity, attempts, tried, outcome>>
vars == <<cacheVars, requestVars>>

IsAuto == token.auto                      \* the token's group is "auto"
CrossGroupRetry == token.crossGroupRetry  \* ContextKeyTokenCrossGroupRetry
GroupCount == IF IsAuto THEN Len(Groups) ELSE 1
NoChannel == "none"

(* Every variable stays in its type; the indices stay in their ranges. *)
TypeOK ==
    /\ listed \subseteq Channels /\ keyless \subseteq Channels
    /\ token \in Tokens
    /\ pc \in {"distribute", "attempt", "select", "done"}
    /\ retry \in 0 .. RetryTimes + 1
    /\ resetNextTry \in BOOLEAN
    /\ groupIndex \in 1 .. GroupCount + 1
    /\ autoGroup \in 0 .. GroupCount /\ billedGroup \in 0 .. GroupCount
    /\ channel \in Channels \cup {NoChannel}
    /\ affinity \in BOOLEAN
    /\ attempts \in Nat
    /\ tried \subseteq 1 .. GroupCount
    /\ outcome \in {"open", "served", "refused", "exhausted"}
    /\ changes \in 0 .. MaxChanges

Init ==
    /\ listed = Channels /\ keyless = {}
    /\ token \in Tokens
    /\ pc = "distribute"
    /\ retry = 0 /\ resetNextTry = FALSE
    /\ groupIndex = 1 /\ autoGroup = 0 /\ billedGroup = 0
    /\ channel = NoChannel
    /\ affinity = FALSE
    /\ attempts = 0 /\ tried = {}
    /\ outcome = "open"
    /\ changes = 0

-----------------------------------------------------------------------------
(* GetRandomSatisfiedChannel *)
Candidates(i) == ChannelsOf[Groups[i]] \cap listed
PrioritiesOf(i) == {Priority[c] : c \in Candidates(i)}

(* The priority of retry number n; the last one when there are not so many. *)
TargetPriority(i, n) ==
    LET P == PrioritiesOf(i)
        last == Cardinality(P) - 1
        rank == IF n > last THEN last ELSE n
    IN  CHOOSE p \in P : Cardinality({q \in P : q > p}) = rank

(* What the weighted choice can return: a channel of weight 0 only where    *)
(* every channel has weight 0.                                              *)
Satisfied(i, n) ==
    LET target == {c \in Candidates(i) : Priority[c] = TargetPriority(i, n)}
    IN  {c \in target : Weight[c] > 0 \/ \A d \in target : Weight[d] = 0}

(* Groups with a channel, from index i on *)
Usable(i) == {j \in i .. GroupCount : Candidates(j) # {}}
First(S) == CHOOSE j \in S : \A k \in S : j <= k

(* Mutant: the switch to the next group forgets ResetRetryNextTry and the   *)
(* reset of the counter.                                                    *)
PrepareRetryKeepsRetry(g, n) ==
    /\ groupIndex' = IF CrossGroupRetry /\ n >= RetryTimes THEN g + 1 ELSE g
    /\ retry' = IF n >= RetryTimes THEN retry ELSE n
    /\ UNCHANGED resetNextTry

(* Mutant: the group index is not advanced. *)
PrepareRetryStays(g, n) ==
    /\ groupIndex' = g
    /\ IF CrossGroupRetry /\ n >= RetryTimes
       THEN retry' = 0 /\ resetNextTry' = TRUE
       ELSE retry' = n /\ UNCHANGED resetNextTry

(* After a channel of group g is chosen for retry n: cross-group retry      *)
(* goes to the next group once the group has had all its retries.           *)
PrepareRetry(g, n) ==
    IF CrossGroupRetry /\ n >= RetryTimes
    THEN /\ groupIndex' = g + 1
         /\ retry' = 0
         /\ resetNextTry' = TRUE
    ELSE /\ groupIndex' = g
         /\ retry' = n
         /\ UNCHANGED resetNextTry

(* CacheGetRandomSatisfiedChannel for an auto token: groups without a       *)
(* channel are skipped, which resets the counter.                           *)
SelectAuto(c) ==
    /\ Usable(groupIndex) # {}
    /\ LET g == First(Usable(groupIndex))
           n == IF g > groupIndex THEN 0 ELSE retry
       IN  /\ c \in Satisfied(g, n)
           /\ autoGroup' = g
           /\ PrepareRetry(g, n)

SelectFixed(c) ==
    /\ Candidates(1) # {}
    /\ c \in Satisfied(1, retry)
    /\ UNCHANGED <<autoGroup, groupIndex, retry, resetNextTry>>

Select(c) == IF IsAuto THEN SelectAuto(c) ELSE SelectFixed(c)
NothingToSelect == Usable(IF IsAuto THEN groupIndex ELSE 1) = {}

GroupOf(auto) == IF IsAuto THEN auto ELSE 1

Attempt(c) ==
    /\ pc' = "attempt"
    /\ channel' = c
    /\ attempts' = attempts + 1
    /\ tried' = tried \cup {GroupOf(autoGroup')}
    /\ UNCHANGED outcome

Finish(o) ==
    /\ pc' = "done"
    /\ outcome' = o
    /\ UNCHANGED <<channel, attempts, tried>>

-----------------------------------------------------------------------------
(* Distribute chooses the first channel with a RetryParam of its own, and   *)
(* goes on even if that channel has no key.  ModelPriceHelper then takes    *)
(* the ratio of the group.                                                  *)
Distribute(c) ==
    /\ pc = "distribute"
    /\ IF IsAuto
       THEN /\ Usable(1) # {}
            /\ c \in Satisfied(First(Usable(1)), 0)
            /\ autoGroup' = First(Usable(1))
            /\ groupIndex' = IF CrossGroupRetry /\ RetryTimes = 0
                             THEN autoGroup' + 1 ELSE autoGroup'
       ELSE /\ Candidates(1) # {} /\ c \in Satisfied(1, 0)
            /\ UNCHANGED <<autoGroup, groupIndex>>
    /\ billedGroup' = GroupOf(autoGroup')
    /\ Attempt(c)
    /\ UNCHANGED <<cacheVars, token, retry, resetNextTry, affinity>>

(* Channel affinity prefers a channel of some group, and leaves the group   *)
(* index of the retries unset.                                              *)
DistributeByAffinity(c) ==
    /\ pc = "distribute"
    /\ c \in Affinities
    /\ \E i \in 1 .. GroupCount : c \in Candidates(i)
    /\ autoGroup' = IF IsAuto THEN First({i \in 1 .. GroupCount : c \in Candidates(i)}) ELSE 0
    /\ billedGroup' = GroupOf(autoGroup')
    /\ affinity' = TRUE
    /\ Attempt(c)
    /\ UNCHANGED <<cacheVars, token, retry, resetNextTry, groupIndex>>

DistributeFails ==
    /\ pc = "distribute"
    /\ Usable(1) = {}
    /\ Finish("refused")
    /\ UNCHANGED <<cacheVars, token, retry, resetNextTry, groupIndex, autoGroup,
                   billedGroup, affinity>>

(* The attempt succeeds, or fails with an error that shouldRetry refuses. *)
AttemptEnds(o) ==
    /\ pc = "attempt"
    /\ Finish(o)
    /\ UNCHANGED <<cacheVars, token, retry, resetNextTry, groupIndex, autoGroup,
                   billedGroup, affinity>>

(* Mutant: resetNextTry is ignored. *)
NextRetryIgnoresReset == retry + 1

(* IncreaseRetry *)
NextRetry == IF resetNextTry THEN retry ELSE retry + 1

(* shouldRetry of a retryable error: channel errors are retried whatever    *)
(* is left, others only while RetryTimes - retry > 0.  Then the loop's      *)
(* condition is tested again.                                               *)
AttemptFails(channelError) ==
    /\ pc = "attempt"
    /\ IF channelError \/ retry < RetryTimes
       THEN /\ retry' = NextRetry
            /\ resetNextTry' = FALSE
            /\ IF NextRetry <= RetryTimes
               THEN pc' = "select" /\ UNCHANGED <<channel, attempts, tried, outcome>>
               ELSE Finish("exhausted")
       ELSE /\ Finish("exhausted")
            /\ UNCHANGED <<retry, resetNextTry>>
    /\ UNCHANGED <<cacheVars, token, groupIndex, autoGroup, billedGroup, affinity>>

(* Mutant: the group ratio of the first attempt is kept. *)
GetChannelKeepsRatio(c) ==
    /\ pc = "select"
    /\ Select(c)
    /\ IF c \in keyless THEN Finish("refused") ELSE Attempt(c)
    /\ UNCHANGED <<cacheVars, token, billedGroup, affinity>>

(* getChannel: HandleGroupRatio follows every selection. *)
GetChannel(c) ==
    /\ pc = "select"
    /\ Select(c)
    /\ billedGroup' = GroupOf(autoGroup')
    /\ IF c \in keyless THEN Finish("refused") ELSE Attempt(c)
    /\ UNCHANGED <<cacheVars, token, affinity>>

(* Mutant: no channel and no error, as auto groups return, is not handled. *)
GetChannelFailsFixedOnly ==
    /\ pc = "select"
    /\ NothingToSelect /\ ~IsAuto
    /\ Finish("exhausted")
    /\ UNCHANGED <<cacheVars, token, retry, resetNextTry, groupIndex, autoGroup,
                   billedGroup, affinity>>

GetChannelFails ==
    /\ pc = "select"
    /\ NothingToSelect
    /\ Finish("exhausted")
    /\ IF IsAuto /\ groupIndex <= GroupCount
       THEN groupIndex' = GroupCount + 1 /\ retry' = 0
       ELSE UNCHANGED <<groupIndex, retry>>
    /\ UNCHANGED <<cacheVars, token, resetNextTry, autoGroup, billedGroup, affinity>>

-----------------------------------------------------------------------------
(* CacheUpdateChannelStatus takes a disabled channel out of every list. *)
DisableChannel(c) ==
    /\ changes < MaxChanges
    /\ c \in listed
    /\ listed' = listed \ {c}
    /\ changes' = changes + 1
    /\ UNCHANGED <<keyless, requestVars>>

(* handlerMultiKeyUpdate disables the last key of a multi-key channel, but  *)
(* the channel stays in the lists until the next InitChannelCache.          *)
DisableKeys(c) ==
    /\ changes < MaxChanges
    /\ c \in listed \ keyless
    /\ keyless' = keyless \cup {c}
    /\ changes' = changes + 1
    /\ UNCHANGED <<listed, requestVars>>

(* InitChannelCache: the channels an administrator has enabled are back. *)
InitChannelCache ==
    /\ changes < MaxChanges
    /\ \E S \in SUBSET Channels : listed' = S /\ S # listed
    /\ keyless' = {}
    /\ changes' = changes + 1
    /\ UNCHANGED requestVars

Step ==
    \/ \E c \in Channels : Distribute(c) \/ DistributeByAffinity(c) \/ GetChannel(c)
    \/ DistributeFails \/ GetChannelFails
    \/ \E o \in {"served", "refused"} : AttemptEnds(o)
    \/ \E channelError \in BOOLEAN : AttemptFails(channelError)

Next ==
    \/ Step
    \/ \E c \in Channels : DisableChannel(c) \/ DisableKeys(c)
    \/ InitChannelCache

Spec == Init /\ [][Next]_vars

(* Every attempt ends, by an answer or by a timeout of the HTTP client. *)
FairSpec == Spec /\ WF_vars(Step)

-----------------------------------------------------------------------------
(* The counter is reset at each switch of groups, and yet the loop is       *)
(* bounded: every group has at most RetryTimes + 1 attempts, however the    *)
(* channel cache changes between them.                                      *)
AttemptsAreBounded == attempts <= GroupCount * (RetryTimes + 1)

(* The group ratio that the settlement will use is that of the group whose  *)
(* channel serves the attempt, after every switch of groups.                *)
BilledGroupServes ==
    pc = "attempt" =>
        /\ billedGroup = GroupOf(autoGroup)
        /\ channel \in ChannelsOf[Groups[billedGroup]]

(* With cross-group retry a request gives up only after an attempt in every *)
(* group that has a channel: neither a skipped group nor the reset of the   *)
(* counter ends the loop early.                                             *)
CrossGroupTriesAll ==
    IsAuto /\ CrossGroupRetry /\ RetryTimes > 0 /\ changes = 0 /\ outcome = "exhausted" =>
        Usable(1) \subseteq tried

NewAttempt == pc = "select" /\ pc' = "attempt"
SameGroup == GroupOf(autoGroup') = GroupOf(autoGroup)

(* Retries never go back to an earlier group, unless channel affinity chose *)
(* the first one.  A group starts with its highest priority, and each retry *)
(* in it uses the next lower one, or the lowest again.                      *)
RetryDescends ==
    [][NewAttempt /\ changes = 0 /\ ~affinity =>
         /\ autoGroup' >= autoGroup
         /\ ~SameGroup =>
              \A p \in PrioritiesOf(autoGroup') : p <= Priority[channel']
         /\ SameGroup =>
              LET lower == {p \in PrioritiesOf(GroupOf(autoGroup)) : p < Priority[channel]}
              IN  IF lower = {} THEN Priority[channel'] = Priority[channel]
                  ELSE Priority[channel'] \in lower
                       /\ \A p \in lower : p <= Priority[channel']]_vars

(* Every request ends: the retries cannot go round in a circle. *)
RequestEnds == <>(pc = "done")

(* service/channel_select.go: "When GetRandomSatisfiedChannel returns nil   *)
(* (priorities exhausted), moves to next group", and in the example, with   *)
(* two groups of two priorities and RetryTimes=3, Retry=2 is "GroupA        *)
(* exhausted -> GroupB".  A group whose lowest priority has been tried      *)
(* would not be tried again while there is another group.                   *)
ExhaustedGroupIsLeft ==
    [][NewAttempt /\ CrossGroupRetry /\ SameGroup /\ autoGroup < GroupCount =>
         \E p \in PrioritiesOf(autoGroup) : p < Priority[channel]]_vars
=============================================================================
