------------------------ MODULE ChannelSelectProofs ------------------------
(***************************************************************************)
(* Proofs about ChannelSelect, for any channels, groups, priorities and    *)
(* RetryTimes, and any number of changes of the channel cache.             *)
(***************************************************************************)
EXTENDS ChannelSelect, FiniteSetTheorems, WellFoundedInduction, TLAPS

(* The attempts that the groups before g may have had. *)
Spent(g) == (g - 1) * (RetryTimes + 1)

(* Nothing has been tried before the first channel is chosen. *)
AtStart ==
    pc = "distribute" =>
        /\ attempts = 0 /\ retry = 0 /\ ~resetNextTry
        /\ groupIndex = 1 /\ autoGroup = 0 /\ tried = {}

(* The attempts so far are paid for by the groups left behind and by the    *)
(* counter; a counter that was reset has a full group behind it.            *)
RetriesCount ==
    /\ attempts <= Spent(GroupCount + 1)
    /\ ~IsAuto => groupIndex = 1
    /\ pc \in {"attempt", "select"} => retry <= RetryTimes
    /\ pc = "select" => ~resetNextTry /\ attempts <= Spent(groupIndex) + retry
    /\ pc = "attempt" =>
           IF resetNextTry THEN retry = 0 /\ attempts <= Spent(groupIndex)
                           ELSE attempts <= Spent(groupIndex) + retry + 1

(* The group of an attempt is one of the request's groups. *)
GroupServes ==
    /\ BilledGroupServes
    /\ pc \in {"attempt", "select"} /\ IsAuto => autoGroup \in 1 .. GroupCount

(* Cross-group retry leaves no group with a channel behind untried.  It     *)
(* resets the counter before that could end the loop.                       *)
CrossTries ==
    changes = 0 =>
        /\ listed = Channels /\ keyless = {}
        /\ IsAuto /\ CrossGroupRetry /\ RetryTimes > 0 =>
              /\ pc = "attempt" => retry < RetryTimes
              /\ pc # "done" => \A i \in Usable(1) : i < groupIndex => i \in tried
              /\ outcome = "exhausted" => pc = "done" /\ Usable(1) \subseteq tried

Inv == TypeOK /\ AtStart /\ RetriesCount /\ GroupServes /\ CrossTries

-----------------------------------------------------------------------------
(* Least elements, and the groups that Usable and First name. *)

LEMMA LeastNatural ==
    ASSUME NEW S \in SUBSET Nat, S # {}
    PROVE  \E m \in S : \A k \in S : m <= k
<1> DEFINE R == OpToRel(<, Nat)
<1>1. PICK m \in S : \A k \in S : ~(<<k, m>> \in R)
  BY NatLessThanWellFounded, WFMin
<1>2. ASSUME NEW k \in S PROVE m <= k
  <2>1. ~(<<k, m>> \in R)
    BY <1>1
  <2>2. ~(k < m)
    BY <2>1 DEF OpToRel
  <2> QED
    BY <2>2
<1> QED
  BY <1>2

LEMMA FirstIsLeast ==
    ASSUME NEW S \in SUBSET Nat, S # {}
    PROVE  First(S) \in S /\ \A k \in S : First(S) <= k
  BY LeastNatural DEF First

LEMMA GroupCountType ==
    ASSUME TypeOK
    PROVE  /\ GroupCount \in Nat \ {0}
           /\ IsAuto \in BOOLEAN /\ CrossGroupRetry \in BOOLEAN
           /\ ~IsAuto => GroupCount = 1
  BY SelectAssumption DEF TypeOK, GroupCount, IsAuto, CrossGroupRetry

LEMMA UsableGroups ==
    ASSUME TypeOK, NEW i \in Nat \ {0}, Usable(i) # {}
    PROVE  /\ First(Usable(i)) \in i .. GroupCount
           /\ Candidates(First(Usable(i))) # {}
           /\ \A j \in i .. GroupCount : Candidates(j) # {} => First(Usable(i)) <= j
<1>1. Usable(i) \in SUBSET Nat
  BY GroupCountType DEF Usable
<1>2. First(Usable(i)) \in Usable(i) /\ \A k \in Usable(i) : First(Usable(i)) <= k
  BY <1>1, FirstIsLeast
<1> QED
  BY <1>2 DEF Usable

LEMMA SpentGrows ==
    /\ Spent(1) = 0
    /\ \A g \in Nat : Spent(g) \in Int /\ Spent(g + 1) = Spent(g) + RetryTimes + 1
    /\ \A g, h \in Nat : g <= h => Spent(g) <= Spent(h)
<1> USE SelectAssumption DEF Spent
<1>1. ASSUME NEW g \in Nat
      PROVE  Spent(g) \in Int /\ Spent(g + 1) = Spent(g) + RetryTimes + 1
  OBVIOUS
<1>2. ASSUME NEW g \in Nat, NEW h \in Nat, g <= h PROVE Spent(g) <= Spent(h)
  <2>1. (h - g) * (RetryTimes + 1) >= 0
    BY <1>2
  <2>2. Spent(h) = Spent(g) + (h - g) * (RetryTimes + 1)
    OBVIOUS
  <2> QED
    BY <1>2, <2>1, <2>2
<1> QED
  BY <1>1, <1>2

-----------------------------------------------------------------------------
(* A channel that Satisfied returns belongs to the group. *)
LEMMA SatisfiedBelongs ==
    ASSUME NEW i, NEW n, NEW c \in Satisfied(i, n)
    PROVE  c \in ChannelsOf[Groups[i]] /\ c \in listed
  BY DEF Satisfied, Candidates

(* What a selection leaves behind: the group g of the channel, and the      *)
(* counters for the attempt that follows.                                   *)
SelectedAs(c, g) ==
    /\ g \in 1 .. GroupCount
    /\ GroupOf(autoGroup') = g /\ (IsAuto => autoGroup' = g)
    /\ c \in ChannelsOf[Groups[g]]
    /\ retry' \in 0 .. RetryTimes
    /\ groupIndex' \in groupIndex .. GroupCount + 1
    /\ attempts + 1 <= Spent(g + 1)
    /\ IF resetNextTry' THEN retry' = 0 /\ attempts + 1 <= Spent(groupIndex')
                        ELSE attempts + 1 <= Spent(groupIndex') + retry' + 1
    /\ IsAuto /\ CrossGroupRetry /\ RetryTimes > 0 => retry' < RetryTimes
    /\ IsAuto => \A j \in Usable(groupIndex) : j < groupIndex' => j = g
    /\ ~IsAuto => UNCHANGED groupIndex

LEMMA SelectEffect ==
    ASSUME Inv, pc = "select", NEW c \in Channels, Select(c)
    PROVE  resetNextTry' \in BOOLEAN /\ \E g : SelectedAs(c, g)
<1>1. /\ retry \in 0 .. RetryTimes /\ RetryTimes \in Nat /\ attempts \in Nat
      /\ groupIndex \in Nat \ {0} /\ groupIndex <= GroupCount + 1 /\ GroupCount \in Nat \ {0}
      /\ attempts <= Spent(groupIndex) + retry
      /\ TypeOK
  BY SelectAssumption, GroupCountType DEF Inv, TypeOK, RetriesCount
<1>2. ~resetNextTry /\ resetNextTry \in BOOLEAN
  BY DEF Inv, TypeOK, RetriesCount
<1>3. CASE IsAuto
  <2> DEFINE g == First(Usable(groupIndex))
             n == IF g > groupIndex THEN 0 ELSE retry
  <2>1. SelectAuto(c)
    BY <1>3 DEF Select
  <2>2. /\ g \in Nat \ {0} /\ groupIndex <= g /\ g <= GroupCount
        /\ \A j \in Usable(groupIndex) : j \in Nat /\ g <= j
    <3>1. Usable(groupIndex) # {}
      BY <2>1 DEF SelectAuto
    <3>2. g \in groupIndex .. GroupCount /\ \A j \in groupIndex .. GroupCount : Candidates(j) # {} => g <= j
      BY <1>1, <3>1, UsableGroups
    <3>3. \A j \in Usable(groupIndex) : j \in Nat /\ g <= j
      BY <1>1, <3>2 DEF Usable
    <3> HIDE DEF g
    <3> QED
      BY <1>1, <3>2, <3>3
  <2>3. c \in ChannelsOf[Groups[g]] /\ autoGroup' = g /\ PrepareRetry(g, n)
    BY <2>1, SatisfiedBelongs DEF SelectAuto
  <2>4. Spent(groupIndex) \in Int /\ Spent(g) \in Int /\ Spent(g + 1) = Spent(g) + RetryTimes + 1
    BY <1>1, <2>2, SpentGrows
  <2>5. n \in 0 .. RetryTimes /\ attempts <= Spent(g) + n
    <3>1. CASE g = groupIndex
      BY <1>1, <2>2, <3>1
    <3>2. CASE g > groupIndex
      <4>1. Spent(groupIndex + 1) <= Spent(g) /\ Spent(groupIndex + 1) = Spent(groupIndex) + RetryTimes + 1
        BY <1>1, <2>2, <3>2, SpentGrows
      <4> QED
        BY <1>1, <2>2, <2>4, <3>2, <4>1
    <3> QED
      BY <1>1, <2>2, <3>1, <3>2
  <2>6. GroupOf(autoGroup') = g
    BY <1>3, <2>3 DEF GroupOf
  <2> HIDE DEF g, n
  <2>7. CASE CrossGroupRetry /\ n >= RetryTimes
    <3>1. groupIndex' = g + 1 /\ retry' = 0 /\ resetNextTry' /\ resetNextTry' \in BOOLEAN
      BY <2>3, <2>7 DEF PrepareRetry
    <3>2. SelectedAs(c, g)
      BY <1>1, <1>3, <2>2, <2>3, <2>4, <2>5, <2>6, <3>1 DEF SelectedAs
    <3> QED
      BY <3>1, <3>2
  <2>8. CASE ~(CrossGroupRetry /\ n >= RetryTimes)
    <3>1. groupIndex' = g /\ retry' = n /\ ~resetNextTry' /\ resetNextTry' \in BOOLEAN
      BY <1>2, <2>3, <2>8 DEF PrepareRetry
    <3>2. SelectedAs(c, g)
      BY <1>1, <1>3, <2>2, <2>3, <2>4, <2>5, <2>6, <2>8, <3>1 DEF SelectedAs
    <3> QED
      BY <3>1, <3>2
  <2> QED
    BY <2>7, <2>8
<1>4. CASE ~IsAuto
  <2>1. /\ c \in ChannelsOf[Groups[1]] /\ GroupCount = 1 /\ groupIndex = 1
        /\ UNCHANGED <<autoGroup, groupIndex, retry, resetNextTry>>
    BY <1>1, <1>4, GroupCountType, SatisfiedBelongs DEF Select, SelectFixed, Inv, RetriesCount
  <2>2. Spent(1) = 0 /\ Spent(1 + 1) = RetryTimes + 1
    BY <1>1, SpentGrows
  <2>3. GroupOf(autoGroup') = 1
    BY <1>4 DEF GroupOf
  <2>4. SelectedAs(c, 1)
    BY <1>1, <1>2, <1>4, <2>1, <2>2, <2>3 DEF SelectedAs
  <2>5. resetNextTry' \in BOOLEAN
    BY <1>2, <2>1
  <2> QED
    BY <2>4, <2>5
<1> QED
  BY <1>3, <1>4

-----------------------------------------------------------------------------
(* The operators that depend on the token and on the cache only. *)
LEMMA SameToken ==
    ASSUME UNCHANGED token
    PROVE  /\ IsAuto' = IsAuto /\ CrossGroupRetry' = CrossGroupRetry /\ GroupCount' = GroupCount
           /\ \A a : GroupOf(a)' = GroupOf(a)
  BY DEF IsAuto, CrossGroupRetry, GroupCount, GroupOf

LEMMA SameCache ==
    ASSUME UNCHANGED <<cacheVars, token>>
    PROVE  \A i : Usable(i)' = Usable(i)
  BY SameToken DEF Usable, Candidates, cacheVars

(* An attempt on a channel that was selected as SelectedAs says. *)
LEMMA AttemptKeeps ==
    ASSUME Inv, pc \in {"distribute", "select"}, NEW c \in Channels, NEW g, SelectedAs(c, g),
           Attempt(c), UNCHANGED <<cacheVars, token>>, billedGroup' = GroupOf(autoGroup'),
           autoGroup' \in 0 .. GroupCount, affinity' \in BOOLEAN, resetNextTry' \in BOOLEAN
    PROVE  Inv'
<1>1. /\ IsAuto' = IsAuto /\ CrossGroupRetry' = CrossGroupRetry /\ GroupCount' = GroupCount
      /\ GroupOf(autoGroup)' = GroupOf(autoGroup')
  BY SameToken DEF GroupOf
<1>2. GroupCount \in Nat \ {0} /\ RetryTimes \in Nat /\ attempts \in Nat /\ groupIndex \in Nat \ {0}
  BY GroupCountType, SelectAssumption DEF Inv, TypeOK
<1>3. /\ g \in 1 .. GroupCount /\ billedGroup' = g /\ (IsAuto => autoGroup' = g)
      /\ c \in ChannelsOf[Groups[g]]
      /\ retry' \in 0 .. RetryTimes
      /\ groupIndex' \in groupIndex .. GroupCount + 1
  BY DEF SelectedAs
<1>4. /\ pc' = "attempt" /\ channel' = c /\ attempts' = attempts + 1
      /\ tried' = tried \cup {g} /\ outcome' = outcome
  BY DEF Attempt, SelectedAs
<1>5. TypeOK'
  <2>1. listed' \subseteq Channels /\ keyless' \subseteq Channels /\ token' \in Tokens /\ changes' \in 0 .. MaxChanges
    BY DEF Inv, TypeOK, cacheVars
  <2>2. tried' \subseteq 1 .. GroupCount'
    BY <1>1, <1>3, <1>4 DEF Inv, TypeOK
  <2>3. /\ pc' \in {"distribute", "attempt", "select", "done"} /\ channel' \in Channels \cup {NoChannel}
        /\ attempts' \in Nat /\ outcome' \in {"open", "served", "refused", "exhausted"}
    BY <1>2, <1>4 DEF Inv, TypeOK
  <2>4. /\ retry' \in 0 .. RetryTimes + 1 /\ groupIndex' \in 1 .. GroupCount' + 1
        /\ autoGroup' \in 0 .. GroupCount' /\ billedGroup' \in 0 .. GroupCount'
    BY <1>1, <1>2, <1>3
  <2>5. resetNextTry' \in BOOLEAN /\ affinity' \in BOOLEAN
    OBVIOUS
  <2> QED
    BY <2>1, <2>2, <2>3, <2>4, <2>5 DEF TypeOK
<1>6. AtStart'
  BY <1>4 DEF AtStart
<1>7. RetriesCount'
  <2>1. attempts' <= Spent(GroupCount + 1)
    <3>1. Spent(g + 1) <= Spent(GroupCount + 1) /\ Spent(g + 1) \in Int /\ Spent(GroupCount + 1) \in Int
      <4>1. g + 1 \in Nat /\ GroupCount + 1 \in Nat /\ g + 1 <= GroupCount + 1
        BY <1>2, <1>3
      <4> QED
        BY <4>1, SpentGrows
    <3>2. attempts + 1 <= Spent(g + 1)
      BY DEF SelectedAs
    <3> QED
      BY <1>2, <1>4, <3>1, <3>2
  <2>2. ~IsAuto => groupIndex' = 1
    BY DEF SelectedAs, Inv, RetriesCount
  <2>3. /\ resetNextTry' => retry' = 0 /\ attempts' <= Spent(groupIndex')
        /\ ~resetNextTry' => attempts' <= Spent(groupIndex') + retry' + 1
    BY <1>4 DEF SelectedAs
  <2>4. Spent(GroupCount + 1)' = Spent(GroupCount + 1) /\ Spent(groupIndex)' = Spent(groupIndex')
    BY <1>1 DEF Spent
  <2> QED
    BY <1>1, <1>2, <1>3, <1>4, <2>1, <2>2, <2>3, <2>4 DEF RetriesCount
<1>8. GroupServes'
  BY <1>1, <1>3, <1>4 DEF GroupServes, BilledGroupServes
<1>9. CrossTries'
  <2> SUFFICES ASSUME changes' = 0
               PROVE  CrossTries'
    BY DEF CrossTries
  <2>1. changes = 0 /\ listed' = Channels /\ keyless' = {}
    BY DEF Inv, CrossTries, cacheVars
  <2> SUFFICES ASSUME IsAuto, CrossGroupRetry, RetryTimes > 0
               PROVE  /\ retry' < RetryTimes
                      /\ \A i \in Usable(1) : i < groupIndex' => i \in tried'
                      /\ outcome' # "exhausted"
    BY <1>1, <1>4, <2>1, SameCache DEF CrossTries
  <2>2. retry' < RetryTimes
    BY DEF SelectedAs
  <2>3. outcome' # "exhausted"
    BY <1>4, <2>1 DEF Inv, CrossTries
  <2>4. ASSUME NEW i \in Usable(1), i < groupIndex' PROVE i \in tried'
    <3>1. CASE i < groupIndex
      BY <1>4, <2>1, <3>1 DEF Inv, CrossTries
    <3>2. CASE ~(i < groupIndex)
      <4>1. i \in Usable(groupIndex)
        BY <1>2, <3>2 DEF Usable
      <4> QED
        BY <1>4, <2>4, <4>1 DEF SelectedAs
    <3> QED
      BY <3>1, <3>2
  <2> QED
    BY <2>2, <2>3, <2>4
<1> QED
  BY <1>5, <1>6, <1>7, <1>8, <1>9 DEF Inv

-----------------------------------------------------------------------------
(* One lemma per action. *)

LEMMA DistributeKeeps ==
    ASSUME Inv, NEW c \in Channels, Distribute(c)
    PROVE  Inv'
<1>1. /\ pc = "distribute" /\ attempts = 0 /\ retry = 0 /\ groupIndex = 1 /\ autoGroup = 0
      /\ ~resetNextTry /\ UNCHANGED <<retry, resetNextTry, affinity, cacheVars, token>>
      /\ Attempt(c) /\ billedGroup' = GroupOf(autoGroup') /\ TypeOK
      /\ ~IsAuto => GroupCount = 1
  BY GroupCountType DEF Inv, AtStart, Distribute
<1>2. resetNextTry' \in BOOLEAN /\ affinity' \in BOOLEAN
  BY <1>1 DEF TypeOK
<1>3. GroupCount \in Nat \ {0} /\ RetryTimes \in Nat
  BY <1>1, GroupCountType, SelectAssumption
<1>4. \A g \in 1 .. GroupCount : /\ 1 <= Spent(g + 1) /\ 0 <= Spent(g) /\ Spent(g) \in Int
                                /\ Spent(g + 1) \in Int
  <2> SUFFICES ASSUME NEW g \in 1 .. GroupCount
               PROVE  /\ 1 <= Spent(g + 1) /\ 0 <= Spent(g) /\ Spent(g) \in Int
                      /\ Spent(g + 1) \in Int
    OBVIOUS
  <2>1. g \in Nat /\ 1 <= g /\ 1 \in Nat
    BY <1>3
  <2>2. Spent(1) = 0 /\ Spent(1) <= Spent(g) /\ Spent(g) \in Int /\ Spent(g + 1) = Spent(g) + RetryTimes + 1
    BY <2>1, SpentGrows
  <2> QED
    BY <1>3, <2>2
<1>5. CASE IsAuto
  <2> DEFINE g == First(Usable(1))
  <2>1. /\ Usable(1) # {} /\ c \in Satisfied(g, 0) /\ autoGroup' = g
        /\ groupIndex' = IF CrossGroupRetry /\ RetryTimes = 0 THEN g + 1 ELSE g
    BY <1>5 DEF Distribute
  <2>2. g \in 1 .. GroupCount /\ \A j \in 1 .. GroupCount : Candidates(j) # {} => g <= j
    BY <1>1, <2>1, UsableGroups
  <2>3. c \in ChannelsOf[Groups[g]]
    BY <2>1, SatisfiedBelongs
  <2> HIDE DEF g
  <2>4. \A j \in Usable(1) : j \in Nat /\ g <= j
    BY <1>3, <2>2 DEF Usable
  <2>5. GroupOf(autoGroup') = g
    BY <1>5, <2>1 DEF GroupOf
  <2>6. SelectedAs(c, g)
    BY <1>1, <1>3, <1>4, <1>5, <2>1, <2>2, <2>3, <2>4, <2>5 DEF SelectedAs
  <2>7. autoGroup' \in 0 .. GroupCount
    BY <1>3, <2>1, <2>2
  <2> QED
    BY <1>1, <1>2, <2>6, <2>7, AttemptKeeps
<1>6. CASE ~IsAuto
  <2>1. c \in Satisfied(1, 0) /\ UNCHANGED <<autoGroup, groupIndex>>
    BY <1>6 DEF Distribute
  <2>2. c \in ChannelsOf[Groups[1]]
    BY <2>1, SatisfiedBelongs
  <2>3. GroupOf(autoGroup') = 1
    BY <1>6 DEF GroupOf
  <2>4. 1 \in 1 .. GroupCount
    BY <1>3
  <2>5. SelectedAs(c, 1)
    BY <1>1, <1>3, <1>4, <1>6, <2>1, <2>2, <2>3, <2>4 DEF SelectedAs
  <2>6. autoGroup' \in 0 .. GroupCount
    BY <1>1, <1>3, <2>1
  <2> QED
    BY <1>1, <1>2, <2>5, <2>6, AttemptKeeps
<1> QED
  BY <1>5, <1>6

LEMMA AffinityKeeps ==
    ASSUME Inv, NEW c \in Channels, DistributeByAffinity(c)
    PROVE  Inv'
<1> DEFINE S == {i \in 1 .. GroupCount : c \in Candidates(i)}
           g == IF IsAuto THEN First(S) ELSE 1
<1>1. /\ pc = "distribute" /\ attempts = 0 /\ retry = 0 /\ groupIndex = 1
      /\ ~resetNextTry /\ UNCHANGED <<retry, resetNextTry, groupIndex, cacheVars, token>>
      /\ Attempt(c) /\ billedGroup' = GroupOf(autoGroup') /\ TypeOK
      /\ S # {} /\ autoGroup' = IF IsAuto THEN First(S) ELSE 0
      /\ ~IsAuto => GroupCount = 1
  BY GroupCountType DEF Inv, AtStart, DistributeByAffinity
<1>2. resetNextTry' \in BOOLEAN /\ affinity' \in BOOLEAN
  BY <1>1 DEF TypeOK, DistributeByAffinity
<1>3. GroupCount \in Nat \ {0} /\ RetryTimes \in Nat
  BY <1>1, GroupCountType, SelectAssumption
<1>4. First(S) \in S
  <2>1. S \in SUBSET Nat
    BY <1>3
  <2> QED
    BY <1>1, <2>1, FirstIsLeast
<1>5. g \in 1 .. GroupCount /\ c \in ChannelsOf[Groups[g]]
  BY <1>1, <1>3, <1>4 DEF Candidates
<1>6. GroupOf(autoGroup') = g /\ (IsAuto => autoGroup' = g) /\ autoGroup' \in 0 .. GroupCount
  BY <1>1, <1>3, <1>4 DEF GroupOf
<1>7. Spent(1) = 0 /\ 1 <= Spent(g + 1)
  <2>1. g \in Nat /\ 1 <= g /\ 1 \in Nat
    BY <1>3, <1>5
  <2>2. Spent(1) = 0 /\ Spent(1) <= Spent(g) /\ Spent(g) \in Int /\ Spent(g + 1) = Spent(g) + RetryTimes + 1
    BY <2>1, SpentGrows
  <2> QED
    BY <1>3, <2>2
<1>8. \A j \in Usable(1) : ~(j < 1)
  BY <1>3 DEF Usable
<1> HIDE DEF g
<1>9. SelectedAs(c, g)
  BY <1>1, <1>3, <1>5, <1>6, <1>7, <1>8 DEF SelectedAs
<1> QED
  BY <1>1, <1>2, <1>6, <1>9, AttemptKeeps

(* The request ends: what the counters still have to satisfy. *)
LEMMA FinishKeeps ==
    ASSUME Inv, NEW o \in {"served", "refused", "exhausted"}, Finish(o), UNCHANGED <<cacheVars, token>>,
           retry' \in 0 .. RetryTimes + 1, groupIndex' \in 1 .. GroupCount + 1,
           autoGroup' \in 0 .. GroupCount, billedGroup' \in 0 .. GroupCount,
           resetNextTry' \in BOOLEAN, affinity' \in BOOLEAN, ~IsAuto => groupIndex' = 1,
           /\ o = "exhausted" /\ changes = 0 /\ IsAuto /\ CrossGroupRetry /\ RetryTimes > 0
              => Usable(1) \subseteq tried
    PROVE  Inv'
<1>1. IsAuto' = IsAuto /\ CrossGroupRetry' = CrossGroupRetry /\ GroupCount' = GroupCount
  BY SameToken
<1>2. pc' = "done" /\ outcome' = o /\ UNCHANGED <<channel, attempts, tried>>
  BY DEF Finish
<1>3. TypeOK'
  <2>1. /\ listed' \subseteq Channels /\ keyless' \subseteq Channels /\ token' \in Tokens
        /\ changes' \in 0 .. MaxChanges /\ channel' \in Channels \cup {NoChannel} /\ attempts' \in Nat
        /\ tried' \subseteq 1 .. GroupCount'
    BY <1>1, <1>2 DEF Inv, TypeOK, cacheVars
  <2>2. resetNextTry' \in BOOLEAN /\ affinity' \in BOOLEAN
    OBVIOUS
  <2> QED
    BY <1>1, <1>2, <2>1, <2>2 DEF TypeOK
<1>4. Spent(GroupCount + 1)' = Spent(GroupCount + 1)
  BY <1>1 DEF Spent
<1>5. RetriesCount'
  BY <1>1, <1>2, <1>4 DEF Inv, RetriesCount
<1>6. CrossTries'
  <2>1. changes' = 0 => changes = 0 /\ listed' = Channels /\ keyless' = {}
    BY DEF Inv, CrossTries, cacheVars
  <2> QED
    BY <1>1, <1>2, <2>1, SameCache DEF CrossTries
<1> QED
  BY <1>2, <1>3, <1>5, <1>6 DEF Inv, AtStart, GroupServes, BilledGroupServes

LEMMA EndsKeeps ==
    ASSUME Inv, DistributeFails \/ \E o \in {"served", "refused"} : AttemptEnds(o)
    PROVE  Inv'
<1>1. /\ \E o \in {"served", "refused"} : Finish(o)
      /\ UNCHANGED <<cacheVars, token, retry, resetNextTry, groupIndex, autoGroup,
                     billedGroup, affinity>>
  BY DEF DistributeFails, AttemptEnds
<1>2. resetNextTry' \in BOOLEAN /\ affinity' \in BOOLEAN
  BY <1>1 DEF Inv, TypeOK
<1> QED
  BY <1>1, <1>2, FinishKeeps DEF Inv, TypeOK, RetriesCount

LEMMA AttemptFailsKeeps ==
    ASSUME Inv, NEW channelError \in BOOLEAN, AttemptFails(channelError)
    PROVE  Inv'
<1>1. /\ pc = "attempt" /\ TypeOK
      /\ UNCHANGED <<cacheVars, token, groupIndex, autoGroup, billedGroup, affinity>>
  BY DEF AttemptFails, Inv
<1>2. RetryTimes \in Nat /\ attempts \in Nat /\ retry \in Nat /\ retry <= RetryTimes /\ Spent(groupIndex) \in Int
  <2>1. groupIndex \in Nat /\ retry \in Nat /\ RetryTimes \in Nat
    BY <1>1, SelectAssumption, GroupCountType DEF TypeOK
  <2> QED
    BY <1>1, <2>1, SpentGrows DEF Inv, TypeOK, RetriesCount
<1>3. resetNextTry' \in BOOLEAN /\ affinity' \in BOOLEAN /\ resetNextTry \in BOOLEAN
  BY <1>1 DEF AttemptFails, TypeOK
<1>4. /\ IsAuto' = IsAuto /\ CrossGroupRetry' = CrossGroupRetry /\ GroupCount' = GroupCount
      /\ GroupOf(autoGroup)' = GroupOf(autoGroup)
  BY <1>1, SameToken DEF GroupOf
<1>5. NextRetry \in 0 .. RetryTimes + 1 /\ attempts <= Spent(groupIndex) + NextRetry
  BY <1>1, <1>2 DEF NextRetry, Inv, RetriesCount
<1>6. CASE pc' = "select"
  <2>1. /\ retry' = NextRetry /\ retry' <= RetryTimes /\ ~resetNextTry'
        /\ UNCHANGED <<channel, attempts, tried, outcome>>
    BY <1>6 DEF AttemptFails, Finish
  <2>2. TypeOK'
    <3>1. /\ listed' \subseteq Channels /\ keyless' \subseteq Channels /\ token' \in Tokens
          /\ changes' \in 0 .. MaxChanges /\ channel' \in Channels \cup {NoChannel} /\ attempts' \in Nat
          /\ tried' \subseteq 1 .. GroupCount' /\ outcome' \in {"open", "served", "refused", "exhausted"}
      BY <1>1, <1>4, <2>1 DEF TypeOK, cacheVars
    <3>2. /\ retry' \in 0 .. RetryTimes + 1 /\ groupIndex' \in 1 .. GroupCount' + 1
          /\ autoGroup' \in 0 .. GroupCount' /\ billedGroup' \in 0 .. GroupCount'
      BY <1>1, <1>4, <1>5, <2>1 DEF TypeOK
    <3> QED
      BY <1>3, <1>6, <3>1, <3>2 DEF TypeOK
  <2>3. RetriesCount'
    <3>1. Spent(GroupCount + 1)' = Spent(GroupCount + 1) /\ Spent(groupIndex)' = Spent(groupIndex)
      BY <1>1, <1>4 DEF Spent
    <3> QED
      BY <1>1, <1>4, <1>5, <1>6, <2>1, <3>1 DEF Inv, RetriesCount
  <2>4. GroupServes'
    BY <1>1, <1>4, <1>6 DEF Inv, GroupServes, BilledGroupServes
  <2>5. CrossTries'
    <3>1. changes' = 0 => changes = 0 /\ listed' = Channels /\ keyless' = {}
      BY <1>1 DEF Inv, CrossTries, cacheVars
    <3>2. Usable(1)' = Usable(1)
      BY <1>1, SameCache
    <3>3. changes = 0 /\ IsAuto /\ CrossGroupRetry /\ RetryTimes > 0 =>
              /\ \A i \in Usable(1) : i < groupIndex => i \in tried
              /\ outcome # "exhausted"
      BY <1>1 DEF Inv, CrossTries
    <3> QED
      BY <1>1, <1>4, <1>6, <2>1, <3>1, <3>2, <3>3 DEF CrossTries
  <2> QED
    BY <1>6, <2>2, <2>3, <2>4, <2>5 DEF Inv, AtStart
<1>7. CASE pc' # "select"
  <2>1. /\ Finish("exhausted") /\ retry' \in 0 .. RetryTimes + 1
        /\ ~(retry < RetryTimes)
    BY <1>2, <1>5, <1>7 DEF AttemptFails, NextRetry
  <2>2. ~(changes = 0 /\ IsAuto /\ CrossGroupRetry /\ RetryTimes > 0)
    BY <1>1, <2>1 DEF Inv, CrossTries
  <2> QED
    BY <1>1, <1>3, <2>1, <2>2, FinishKeeps DEF Inv, TypeOK, RetriesCount
<1> QED
  BY <1>6, <1>7

LEMMA GetChannelKeeps ==
    ASSUME Inv, NEW c \in Channels, GetChannel(c)
    PROVE  Inv'
<1>1. /\ pc = "select" /\ Select(c) /\ billedGroup' = GroupOf(autoGroup')
      /\ UNCHANGED <<cacheVars, token, affinity>> /\ TypeOK
  BY DEF GetChannel, Inv
<1>2. resetNextTry' \in BOOLEAN /\ \E g : SelectedAs(c, g)
  BY <1>1, SelectEffect
<1>3. PICK g : SelectedAs(c, g)
  BY <1>2
<1>4. affinity' \in BOOLEAN
  BY <1>1 DEF TypeOK
<1>5. GroupCount \in Nat \ {0} /\ RetryTimes \in Nat
  BY <1>1, GroupCountType, SelectAssumption
<1>6. /\ autoGroup' \in 0 .. GroupCount /\ billedGroup' \in 0 .. GroupCount
      /\ retry' \in 0 .. RetryTimes + 1 /\ groupIndex' \in 1 .. GroupCount + 1
      /\ ~IsAuto => groupIndex' = 1
  <2>1. /\ g \in 1 .. GroupCount /\ billedGroup' = g /\ (IsAuto => autoGroup' = g)
        /\ retry' \in 0 .. RetryTimes /\ groupIndex' \in groupIndex .. GroupCount + 1
        /\ ~IsAuto => UNCHANGED groupIndex
    BY <1>1, <1>3 DEF SelectedAs
  <2>2. ~IsAuto => autoGroup' = autoGroup /\ groupIndex = 1
    BY <1>1 DEF Select, SelectFixed, Inv, RetriesCount
  <2>3. autoGroup \in 0 .. GroupCount /\ groupIndex \in Nat \ {0}
    BY <1>1, <1>5 DEF TypeOK
  <2> QED
    BY <1>5, <2>1, <2>2, <2>3
<1>7. CASE c \in keyless
  BY <1>1, <1>2, <1>4, <1>6, <1>7, FinishKeeps DEF GetChannel
<1>8. CASE c \notin keyless
  <2>1. Attempt(c)
    BY <1>8 DEF GetChannel
  <2> QED
    BY <1>1, <1>2, <1>3, <1>4, <1>6, <2>1, AttemptKeeps
<1> QED
  BY <1>7, <1>8

LEMMA GetChannelFailsKeeps ==
    ASSUME Inv, GetChannelFails
    PROVE  Inv'
<1>1. /\ pc = "select" /\ NothingToSelect /\ Finish("exhausted") /\ TypeOK
      /\ UNCHANGED <<cacheVars, token, resetNextTry, autoGroup, billedGroup, affinity>>
  BY DEF GetChannelFails, Inv
<1>2. GroupCount \in Nat \ {0} /\ RetryTimes \in Nat /\ groupIndex \in Nat \ {0}
  BY <1>1, GroupCountType, SelectAssumption DEF TypeOK
<1>3. /\ retry' \in 0 .. RetryTimes + 1 /\ groupIndex' \in 1 .. GroupCount + 1
      /\ ~IsAuto => groupIndex' = 1
  BY <1>1, <1>2 DEF GetChannelFails, TypeOK, Inv, RetriesCount
<1>4. ASSUME changes = 0, IsAuto, CrossGroupRetry, RetryTimes > 0
      PROVE  Usable(1) \subseteq tried
  <2> SUFFICES ASSUME NEW i \in Usable(1) PROVE i \in tried
    OBVIOUS
  <2>1. i \notin Usable(groupIndex) /\ i \in 1 .. GroupCount
    BY <1>1, <1>4 DEF NothingToSelect, Usable
  <2>2. i < groupIndex
    BY <1>2, <2>1 DEF Usable
  <2> QED
    BY <1>1, <1>4, <2>2 DEF Inv, CrossTries
<1>5. resetNextTry' \in BOOLEAN /\ affinity' \in BOOLEAN
  BY <1>1 DEF TypeOK
<1>6. autoGroup' \in 0 .. GroupCount /\ billedGroup' \in 0 .. GroupCount
  BY <1>1 DEF TypeOK
<1> QED
  BY <1>1, <1>3, <1>4, <1>5, <1>6, FinishKeeps

(* A change of the cache leaves the request alone; CrossTries speaks of     *)
(* requests during which there is none.                                     *)
LEMMA CacheKeeps ==
    ASSUME Inv, UNCHANGED requestVars, changes' = changes + 1, changes < MaxChanges,
           listed' \subseteq Channels, keyless' \subseteq Channels
    PROVE  Inv'
<1>1. UNCHANGED <<token, pc, retry, resetNextTry, groupIndex, autoGroup, channel, billedGroup,
                  affinity, attempts, tried, outcome>> /\ TypeOK
  BY DEF requestVars, Inv
<1>2. changes \in Nat /\ MaxChanges \in Nat /\ changes' # 0 /\ changes' \in 0 .. MaxChanges
  BY <1>1, SelectAssumption DEF TypeOK
<1>3. /\ IsAuto' = IsAuto /\ CrossGroupRetry' = CrossGroupRetry /\ GroupCount' = GroupCount
      /\ GroupOf(autoGroup)' = GroupOf(autoGroup)
  BY <1>1, SameToken DEF GroupOf
<1>4. resetNextTry' \in BOOLEAN /\ affinity' \in BOOLEAN
  BY <1>1 DEF TypeOK
<1>5. TypeOK'
  BY <1>1, <1>2, <1>3, <1>4 DEF TypeOK
<1>6. RetriesCount'
  <2>1. Spent(GroupCount + 1)' = Spent(GroupCount + 1) /\ Spent(groupIndex)' = Spent(groupIndex)
    BY <1>1, <1>3 DEF Spent
  <2> QED
    BY <1>1, <1>3, <2>1 DEF Inv, RetriesCount
<1>7. AtStart' /\ GroupServes'
  BY <1>1, <1>3 DEF Inv, AtStart, GroupServes, BilledGroupServes
<1> QED
  BY <1>2, <1>5, <1>6, <1>7 DEF Inv, CrossTries

-----------------------------------------------------------------------------
LEMMA InitInv == Init => Inv
<1> SUFFICES ASSUME Init PROVE Inv
  OBVIOUS
<1>1. token \in Tokens /\ IsAuto \in BOOLEAN /\ GroupCount \in Nat \ {0} /\ RetryTimes \in Nat /\ MaxChanges \in Nat
  BY SelectAssumption DEF Init, IsAuto, GroupCount
<1>2. TypeOK
  <2>1. resetNextTry \in BOOLEAN /\ affinity \in BOOLEAN
    BY DEF Init
  <2> QED
    BY <1>1, <2>1 DEF Init, TypeOK
<1>3. RetriesCount
  <2>1. 1 \in Nat /\ GroupCount + 1 \in Nat /\ 1 <= GroupCount + 1
    BY <1>1
  <2>2. 0 <= Spent(GroupCount + 1)
    BY <2>1, SpentGrows
  <2> QED
    BY <2>2 DEF Init, RetriesCount
<1>4. AtStart /\ GroupServes
  BY DEF Init, AtStart, GroupServes, BilledGroupServes
<1>5. CrossTries
  BY <1>1 DEF Init, CrossTries, Usable
<1> QED
  BY <1>2, <1>3, <1>4, <1>5 DEF Inv

LEMMA NextInv == Inv /\ [Next]_vars => Inv'
<1> SUFFICES ASSUME Inv, [Next]_vars PROVE Inv'
  OBVIOUS
<1>1. ASSUME NEW c \in Channels, Distribute(c) \/ DistributeByAffinity(c) \/ GetChannel(c)
      PROVE  Inv'
  BY <1>1, DistributeKeeps, AffinityKeeps, GetChannelKeeps
<1>2. CASE DistributeFails \/ \E o \in {"served", "refused"} : AttemptEnds(o)
  BY <1>2, EndsKeeps
<1>3. CASE GetChannelFails
  BY <1>3, GetChannelFailsKeeps
<1>4. ASSUME NEW channelError \in BOOLEAN, AttemptFails(channelError) PROVE Inv'
  BY <1>4, AttemptFailsKeeps
<1>5. ASSUME NEW c \in Channels, DisableChannel(c) \/ DisableKeys(c) PROVE Inv'
  BY <1>5, CacheKeeps DEF DisableChannel, DisableKeys, Inv, TypeOK
<1>6. CASE InitChannelCache
  BY <1>6, CacheKeeps DEF InitChannelCache, Inv, TypeOK
<1>7. CASE UNCHANGED vars
  <2>1. UNCHANGED <<cacheVars, token, pc, retry, resetNextTry, groupIndex, autoGroup, channel,
                    billedGroup, affinity, attempts, tried, outcome>> /\ TypeOK
    BY <1>7 DEF vars, requestVars, Inv
  <2>2. /\ IsAuto' = IsAuto /\ CrossGroupRetry' = CrossGroupRetry /\ GroupCount' = GroupCount
        /\ GroupOf(autoGroup)' = GroupOf(autoGroup) /\ Usable(1)' = Usable(1)
        /\ Spent(GroupCount + 1)' = Spent(GroupCount + 1) /\ Spent(groupIndex)' = Spent(groupIndex)
    BY <2>1, SameToken, SameCache DEF GroupOf, Spent
  <2>3. resetNextTry' \in BOOLEAN /\ affinity' \in BOOLEAN
    BY <2>1 DEF TypeOK
  <2>4. TypeOK'
    BY <2>1, <2>2, <2>3 DEF TypeOK, cacheVars
  <2>5. RetriesCount' /\ AtStart'
    BY <2>1, <2>2 DEF Inv, RetriesCount, AtStart
  <2>6. GroupServes' /\ CrossTries'
    BY <2>1, <2>2 DEF Inv, GroupServes, BilledGroupServes, CrossTries, cacheVars
  <2> QED
    BY <2>4, <2>5, <2>6 DEF Inv
<1> QED
  BY <1>1, <1>2, <1>3, <1>4, <1>5, <1>6, <1>7 DEF Next, Step

LEMMA InvHolds == Spec => []Inv
  BY InitInv, NextInv, PTL DEF Spec

(* The retry counter and the index of the auto group stay in their ranges.  *)
THEOREM TypeCorrect == Spec => []TypeOK
  BY InvHolds, PTL DEF Inv

(* The retry loop of Relay is bounded although IncreaseRetry is suspended   *)
(* at each switch of groups: no request makes more attempts than RetryTimes *)
(* + 1 in each of its groups, for any cache changes.                        *)
THEOREM AttemptsBounded == Spec => []AttemptsAreBounded
<1>1. Inv => AttemptsAreBounded
  <2> SUFFICES ASSUME Inv PROVE AttemptsAreBounded
    OBVIOUS
  <2>1. GroupCount \in Nat /\ attempts <= Spent(GroupCount + 1)
    BY GroupCountType DEF Inv, RetriesCount
  <2>2. (GroupCount + 1) - 1 = GroupCount
    BY <2>1
  <2> QED
    BY <2>1, <2>2 DEF AttemptsAreBounded, Spent
<1> QED
  BY <1>1, InvHolds, PTL

(* The settlement uses the ratio of the group that serves the request.      *)
THEOREM RatioOfServingGroup == Spec => []BilledGroupServes
<1>1. Inv => BilledGroupServes
  BY DEF Inv, GroupServes
<1> QED
  BY <1>1, InvHolds, PTL

(* A request with cross-group retry whose channels nobody disables gives up *)
(* only after an attempt in every group that has a channel.                 *)
THEOREM CrossGroupRetryIsComplete == Spec => []CrossGroupTriesAll
<1>1. Inv => CrossGroupTriesAll
  BY DEF Inv, CrossTries, CrossGroupTriesAll
<1> QED
  BY <1>1, InvHolds, PTL

-----------------------------------------------------------------------------
(* Ranks in a finite set of priorities: a priority's rank is the number of  *)
(* higher ones, and every rank up to the lowest priority's is taken.        *)
Above(P, p) == {q \in P : q > p}

LEMMA GreatestOfFinite ==
    ASSUME NEW S \in SUBSET Int, IsFiniteSet(S), S # {}
    PROVE  \E m \in S : \A k \in S : k <= m
<1> DEFINE Bad(T) == IsFiniteSet(T) /\ T # {} /\ ~\E m \in T : \A k \in T : k <= m
           Sizes == {n \in Nat : \E T \in SUBSET Int : Bad(T) /\ Cardinality(T) = n}
<1>1. SUFFICES ASSUME Bad(S) PROVE FALSE
  OBVIOUS
<1>2. Cardinality(S) \in Sizes
  BY <1>1, FS_CardinalityType
<1>3. PICK n \in Sizes : \A k \in Sizes : n <= k
  <2>1. Sizes \in SUBSET Nat /\ Sizes # {}
    BY <1>2
  <2> HIDE DEF Sizes
  <2> QED
    BY <2>1, LeastNatural
<1>4. PICK T \in SUBSET Int : Bad(T) /\ Cardinality(T) = n
  OBVIOUS
<1>5. PICK x \in T : TRUE
  BY <1>4
<1>6. IsFiniteSet(T \ {x}) /\ Cardinality(T \ {x}) = n - 1
  BY <1>4, FS_RemoveElement
<1>7. Cardinality(T \ {x}) \in Nat
  BY <1>6, FS_CardinalityType
<1>8. ~Bad(T \ {x})
  <2>1. T \ {x} \in SUBSET Int
    OBVIOUS
  <2>2. SUFFICES ASSUME Bad(T \ {x}) PROVE FALSE
    OBVIOUS
  <2>3. Cardinality(T \ {x}) \in Sizes
    BY <1>7, <2>1, <2>2
  <2> HIDE DEF Bad
  <2> QED
    BY <1>3, <1>6, <1>7, <2>3
<1>9. CASE T \ {x} = {}
  <2>1. \A k \in T : k = x
    BY <1>9
  <2> QED
    BY <1>4, <1>5, <2>1
<1>10. CASE T \ {x} # {}
  <2>1. PICK m \in T \ {x} : \A k \in T \ {x} : k <= m
    BY <1>6, <1>8, <1>10
  <2>2. m \in Int /\ x \in Int /\ \A k \in T : k \in Int /\ (k = x \/ k <= m)
    BY <2>1
  <2>3. CASE x <= m
    <3>1. \A k \in T : k <= m
      BY <2>2, <2>3
    <3> QED
      BY <1>4, <2>1, <3>1
  <2>4. CASE m <= x
    <3>1. \A k \in T : k <= x
      BY <2>2, <2>4
    <3> QED
      BY <1>4, <1>5, <3>1
  <2> QED
    BY <2>2, <2>3, <2>4
<1> QED
  BY <1>9, <1>10

(* The greatest of the priorities below p comes right after p. *)
LEMMA NextRank ==
    ASSUME NEW P \in SUBSET Int, IsFiniteSet(P), NEW p \in P, NEW r \in P, r < p,
           \A q \in P : q < p => q <= r
    PROVE  Cardinality(Above(P, r)) = Cardinality(Above(P, p)) + 1
<1>0. \A q \in P : q \in Int
  OBVIOUS
<1>1. Above(P, r) = Above(P, p) \cup {p} /\ p \notin Above(P, p)
  <2>1. \A q \in P : q > r <=> q > p \/ q = p
    BY <1>0
  <2>2. ~(p > p)
    BY <1>0
  <2> QED
    BY <2>1, <2>2, Zenon DEF Above
<1>2. IsFiniteSet(Above(P, p))
  BY FS_Subset DEF Above
<1> QED
  BY <1>1, <1>2, FS_AddElement

(* Higher priorities have lower ranks. *)
LEMMA RankDescends ==
    ASSUME NEW P \in SUBSET Int, IsFiniteSet(P), NEW p \in P, NEW r \in P, r < p
    PROVE  /\ Cardinality(Above(P, p)) \in Nat /\ Cardinality(Above(P, r)) \in Nat
           /\ Cardinality(Above(P, p)) < Cardinality(Above(P, r))
<1>0. \A q \in P : q \in Int
  OBVIOUS
<1>1. Above(P, p) \cup {p} \subseteq Above(P, r) /\ p \notin Above(P, p)
  <2>1. p > r /\ ~(p > p) /\ \A q \in P : q > p => q > r
    BY <1>0
  <2> QED
    BY <2>1, Zenon DEF Above
<1>2. IsFiniteSet(Above(P, p)) /\ IsFiniteSet(Above(P, r))
  BY FS_Subset DEF Above
<1>3. Cardinality(Above(P, p) \cup {p}) = Cardinality(Above(P, p)) + 1 /\ IsFiniteSet(Above(P, p) \cup {p})
  BY <1>1, <1>2, FS_AddElement
<1>4. Cardinality(Above(P, p) \cup {p}) <= Cardinality(Above(P, r))
  BY <1>1, <1>2, FS_Subset
<1>5. Cardinality(Above(P, p)) \in Nat /\ Cardinality(Above(P, r)) \in Nat
  BY <1>2, FS_CardinalityType
<1> QED
  BY <1>3, <1>4, <1>5

(* The lowest priority has the last rank. *)
LEMMA LastRank ==
    ASSUME NEW P \in SUBSET Int, IsFiniteSet(P), NEW p \in P
    PROVE  /\ Cardinality(P) \in Nat \ {0}
           /\ Cardinality(Above(P, p)) \in 0 .. Cardinality(P) - 1
           /\ Cardinality(Above(P, p)) = Cardinality(P) - 1 <=> \A q \in P : p <= q
<1>1. Cardinality(P) \in Nat /\ Cardinality(P \ {p}) = Cardinality(P) - 1 /\ IsFiniteSet(P \ {p})
  BY FS_CardinalityType, FS_RemoveElement
<1>2. Cardinality(P \ {p}) \in Nat
  BY <1>1, FS_CardinalityType
<1>3. Above(P, p) \subseteq P \ {p}
  BY DEF Above
<1>4. IsFiniteSet(Above(P, p)) /\ Cardinality(Above(P, p)) <= Cardinality(P \ {p}) 
      /\ (Cardinality(Above(P, p)) = Cardinality(P \ {p}) => Above(P, p) = P \ {p})
  BY <1>1, <1>3, FS_Subset
<1>5. Cardinality(Above(P, p)) \in Nat
  BY <1>4, FS_CardinalityType
<1>0. \A q \in P : q \in Int
  OBVIOUS
<1>6. Above(P, p) = P \ {p} <=> \A q \in P : p <= q
  <2>1. \A q \in P : p <= q <=> q = p \/ q > p
    BY <1>0
  <2>2. ~(p > p)
    BY <1>0
  <2> QED
    BY <2>1, <2>2, Zenon DEF Above
<1> QED
  BY <1>1, <1>2, <1>4, <1>5, <1>6

LEMMA EveryRank ==
    ASSUME NEW P \in SUBSET Int, IsFiniteSet(P), NEW n \in Nat, n < Cardinality(P)
    PROVE  \E p \in P : Cardinality(Above(P, p)) = n
<1> DEFINE Free == {k \in Nat : k < Cardinality(P) /\ ~\E p \in P : Cardinality(Above(P, p)) = k}
<1>1. SUFFICES ASSUME n \in Free PROVE FALSE
  OBVIOUS
<1>2. PICK k \in Free : \A j \in Free : k <= j
  <2>1. Free \in SUBSET Nat /\ Free # {}
    BY <1>1
  <2> HIDE DEF Free
  <2> QED
    BY <2>1, LeastNatural
<1>3. Cardinality(P) \in Nat
  BY FS_CardinalityType
<1>4. CASE k = 0
  <2>1. P # {}
    BY <1>2, <1>4, FS_EmptySet
  <2>2. PICK m \in P : \A q \in P : q <= m
    BY <2>1, GreatestOfFinite
  <2>3. Above(P, m) = {}
    <3>1. \A q \in P : q \in Int /\ ~(q > m)
      BY <2>2
    <3> QED
      BY <3>1 DEF Above
  <2> QED
    BY <1>2, <1>4, <2>3, FS_EmptySet
<1>5. CASE k > 0
  <2>1. k - 1 \in Nat /\ k - 1 < Cardinality(P) /\ k - 1 \notin Free
    BY <1>2, <1>3, <1>5
  <2>2. PICK p \in P : Cardinality(Above(P, p)) = k - 1
    BY <2>1
  <2> DEFINE Lower == {q \in P : q < p}
  <2>3. Lower # {}
    <3>1. ~(\A q \in P : p <= q)
      BY <1>2, <1>3, <2>1, <2>2, LastRank
    <3> QED
      BY <3>1
  <2>4. Lower \in SUBSET Int /\ IsFiniteSet(Lower)
    BY FS_Subset
  <2>5. PICK r \in Lower : \A q \in Lower : q <= r
    <3> HIDE DEF Lower
    <3> QED
      BY <2>3, <2>4, GreatestOfFinite
  <2>6. Cardinality(Above(P, r)) = (k - 1) + 1
    BY <2>2, <2>5, NextRank
  <2> QED
    BY <1>2, <2>1, <2>5, <2>6
<1> QED
  BY <1>2, <1>4, <1>5

-----------------------------------------------------------------------------
(* What TargetPriority chooses. *)

LEMMA PrioritiesFinite ==
    ASSUME listed \subseteq Channels, NEW i, Candidates(i) # {}
    PROVE  /\ PrioritiesOf(i) \in SUBSET Int /\ IsFiniteSet(PrioritiesOf(i))
           /\ Cardinality(PrioritiesOf(i)) \in Nat \ {0}
<1> DEFINE S == Candidates(i)
           P == PrioritiesOf(i)
           f == [c \in S |-> Priority[c]]
<1>1. S \in SUBSET Channels /\ IsFiniteSet(S)
  BY SelectAssumption, FS_Subset DEF Candidates
<1>2. f \in Surjection(S, P)
  BY DEF Surjection, PrioritiesOf
<1>3. IsFiniteSet(P)
  <2> HIDE DEF f, P, S
  <2> QED
    BY <1>1, <1>2, FS_Surjection
<1>4. P \in SUBSET Int
  BY <1>1, SelectAssumption DEF PrioritiesOf
<1>5. P # {}
  BY DEF PrioritiesOf
<1>6. Cardinality(P) \in Nat /\ Cardinality(P) # 0
  BY <1>3, <1>5, FS_CardinalityType, FS_EmptySet
<1> QED
  BY <1>3, <1>4, <1>6

LEMMA TargetRank ==
    ASSUME listed \subseteq Channels, NEW i, Candidates(i) # {}, NEW n \in Nat
    PROVE  LET P == PrioritiesOf(i)
               last == Cardinality(P) - 1
           IN  /\ TargetPriority(i, n) \in P
               /\ Cardinality(Above(P, TargetPriority(i, n))) = IF n > last THEN last ELSE n
<1> DEFINE P == PrioritiesOf(i)
           last == Cardinality(P) - 1
           rank == IF n > last THEN last ELSE n
<1>1. P \in SUBSET Int /\ IsFiniteSet(P) /\ Cardinality(P) \in Nat \ {0}
  BY PrioritiesFinite
<1>2. TargetPriority(i, n) = CHOOSE p \in P : Cardinality(Above(P, p)) = rank
  BY DEF TargetPriority, Above
<1>3. rank \in Nat /\ rank < Cardinality(P)
  <2> HIDE DEF P
  <2> QED
    BY <1>1
<1> HIDE DEF P, rank
<1>4. \E p \in P : Cardinality(Above(P, p)) = rank
  BY <1>1, <1>3, EveryRank
<1>5. TargetPriority(i, n) \in P /\ Cardinality(Above(P, TargetPriority(i, n))) = rank
  BY <1>2, <1>4
<1> QED
  BY <1>5 DEF P, rank

LEMMA FirstTarget ==
    ASSUME listed \subseteq Channels, NEW i, Candidates(i) # {}
    PROVE  \A p \in PrioritiesOf(i) : p <= TargetPriority(i, 0)
<1> DEFINE P == PrioritiesOf(i)
           t == TargetPriority(i, 0)
<1>1. P \in SUBSET Int /\ IsFiniteSet(P) /\ Cardinality(P) \in Nat \ {0}
  BY PrioritiesFinite
<1>2. /\ t \in P
      /\ Cardinality(Above(P, t)) = IF 0 > Cardinality(P) - 1 THEN Cardinality(P) - 1 ELSE 0
  BY TargetRank
<1> HIDE DEF P, t
<1>3. Cardinality(Above(P, t)) = 0
  BY <1>1, <1>2
<1>4. IsFiniteSet(Above(P, t))
  BY <1>1, FS_Subset DEF Above
<1>5. Above(P, t) = {}
  BY <1>3, <1>4, FS_EmptySet
<1>6. \A p \in P : p \in Int /\ ~(p > t)
  BY <1>1, <1>5 DEF Above
<1>7. t \in Int
  BY <1>1, <1>2
<1>8. \A p \in P : p <= t
  BY <1>6, <1>7
<1> QED
  BY <1>8 DEF P, t

(* The priority of the next retry is the next lower one, or the lowest      *)
(* again.                                                                   *)
LEMMA TargetDescends ==
    ASSUME listed \subseteq Channels, NEW i, Candidates(i) # {}, NEW n \in Nat
    PROVE  LET t == TargetPriority(i, n)
               u == TargetPriority(i, n + 1)
               lower == {p \in PrioritiesOf(i) : p < t}
           IN  IF lower = {} THEN u = t ELSE u \in lower /\ \A p \in lower : p <= u
<1> DEFINE P == PrioritiesOf(i)
           t == TargetPriority(i, n)
           u == TargetPriority(i, n + 1)
           last == Cardinality(P) - 1
           lower == {p \in P : p < t}
           R(x) == Cardinality(Above(P, x))
<1>1. P \in SUBSET Int /\ IsFiniteSet(P) /\ last \in Nat
  BY PrioritiesFinite
<1>2. t \in P /\ R(t) = IF n > last THEN last ELSE n
  BY TargetRank
<1>3. u \in P /\ R(u) = IF n + 1 > last THEN last ELSE n + 1
  BY TargetRank
<1> HIDE DEF P, t, u, last
<1>4. \A p \in P : p \in Int
  BY <1>1
<1>5. R(t) \in Int /\ R(u) \in Int
  BY <1>1, <1>2, <1>3
<1>6. CASE lower = {}
  <2>1. \A q \in P : t <= q
    BY <1>2, <1>4, <1>6
  <2>2. R(t) = last
    BY <1>1, <1>2, <2>1, LastRank DEF last
  <2>3. R(u) = last
    BY <1>1, <1>2, <1>3, <2>2
  <2>4. \A q \in P : u <= q
    BY <1>1, <1>3, <2>3, LastRank DEF last
  <2>5. u <= t /\ t <= u
    BY <1>2, <1>3, <2>1, <2>4
  <2>6. u = t
    BY <1>2, <1>3, <1>4, <2>5
  <2> QED
    BY <1>6, <2>6 DEF P, t, u
<1>7. CASE lower # {}
  <2>1. R(t) # last
    <3>1. ~(\A q \in P : t <= q)
      BY <1>2, <1>4, <1>7
    <3> QED
      BY <1>1, <1>2, <3>1, LastRank DEF last
  <2>2. R(u) = R(t) + 1
    BY <1>1, <1>2, <1>3, <2>1
  <2>3. ~(t < u) /\ t # u
    BY <1>1, <1>2, <1>3, <1>5, <2>2, RankDescends
  <2>4. u < t
    BY <1>2, <1>3, <1>4, <2>3
  <2>5. ASSUME NEW p \in lower PROVE p <= u
    <3>1. p \in P /\ p < t /\ p \in Int /\ u \in Int
      BY <1>3, <1>4
    <3>2. SUFFICES ASSUME u < p PROVE FALSE
      BY <3>1
    <3>3. R(p) \in Nat /\ R(t) < R(p) /\ R(p) < R(u)
      BY <1>1, <1>2, <1>3, <3>1, <3>2, RankDescends
    <3> QED
      BY <1>5, <2>2, <3>3
  <2>6. u \in lower /\ \A p \in lower : p <= u
    BY <1>3, <2>4, <2>5
  <2> QED
    BY <1>7, <2>6 DEF P, t, u
<1> QED
  BY <1>6, <1>7

-----------------------------------------------------------------------------
(* The group and the priority of the current attempt follow from the        *)
(* counters: the next retry takes the next priority of the group, or the    *)
(* group has been left with the counter at 0.                               *)
Left == IsAuto /\ groupIndex # autoGroup
CurrentGroup == GroupOf(autoGroup)

Descent ==
    changes = 0 /\ ~affinity /\ pc \in {"attempt", "select"} =>
        /\ channel \in Candidates(CurrentGroup)
        /\ IsAuto => groupIndex \in {autoGroup, autoGroup + 1}
        /\ pc = "attempt" =>
              IF Left THEN retry = 0 /\ (resetNextTry \/ RetryTimes = 0)
              ELSE ~resetNextTry /\ Priority[channel] = TargetPriority(CurrentGroup, retry)
        /\ pc = "select" =>
              IF Left THEN retry = 0
              ELSE retry > 0 /\ Priority[channel] = TargetPriority(CurrentGroup, retry - 1)

LEMMA SatisfiedHas ==
    ASSUME NEW i, NEW n, NEW c \in Satisfied(i, n)
    PROVE  c \in Candidates(i) /\ Priority[c] = TargetPriority(i, n)
  BY DEF Satisfied

LEMMA SameTarget ==
    ASSUME UNCHANGED listed, NEW g, CurrentGroup' = g
    PROVE  /\ Candidates(CurrentGroup)' = Candidates(g)
           /\ TargetPriority(CurrentGroup, retry)' = TargetPriority(g, retry')
           /\ TargetPriority(CurrentGroup, retry - 1)' = TargetPriority(g, retry' - 1)
<1>1. Candidates(CurrentGroup)' = Candidates(g)
  BY DEF Candidates
<1>2. PrioritiesOf(CurrentGroup)' = PrioritiesOf(g)
  BY <1>1 DEF PrioritiesOf
<1> QED
  BY <1>1, <1>2 DEF TargetPriority

(* What GetChannel and Distribute establish. *)
LEMMA ChosenDescends ==
    ASSUME Inv, NEW c \in Channels, NEW g, NEW n \in Nat, Attempt(c), UNCHANGED <<listed, token>>,
           c \in Satisfied(g, n), GroupOf(autoGroup') = g, 
           IF IsAuto /\ groupIndex' # autoGroup'
           THEN groupIndex' = autoGroup' + 1 /\ retry' = 0 /\ (resetNextTry' \/ RetryTimes = 0)
           ELSE retry' = n /\ ~resetNextTry'
    PROVE  Descent'
<1>1. c \in Candidates(g) /\ Priority[c] = TargetPriority(g, n)
  BY SatisfiedHas
<1>2. CurrentGroup' = g /\ IsAuto' = IsAuto
  BY SameToken DEF CurrentGroup, GroupOf
<1>3. Left' = (IsAuto /\ groupIndex' # autoGroup')
  BY <1>2 DEF Left
<1>4. Candidates(CurrentGroup)' = Candidates(g) /\ TargetPriority(CurrentGroup, retry)' = TargetPriority(g, retry')
  BY <1>2, SameTarget
<1>5. pc' = "attempt" /\ channel' = c
  BY DEF Attempt
<1> QED
  BY <1>1, <1>2, <1>3, <1>4, <1>5 DEF Descent

(* GetChannel for an auto token: the group and the retry it uses. *)
ChosenAuto(c, g, n) ==
    /\ g \in Nat /\ groupIndex <= g /\ g \in Usable(groupIndex)
    /\ \A j \in Usable(groupIndex) : g <= j
    /\ n = IF g > groupIndex THEN 0 ELSE retry
    /\ c \in Satisfied(g, n) /\ autoGroup' = g /\ PrepareRetry(g, n)

LEMMA SelectAutoUses ==
    ASSUME TypeOK, NEW c, SelectAuto(c)
    PROVE  \E g, n : ChosenAuto(c, g, n)
<1> DEFINE g == First(Usable(groupIndex))
           n == IF g > groupIndex THEN 0 ELSE retry
<1>1. groupIndex \in Nat \ {0} /\ GroupCount \in Nat
  BY GroupCountType DEF TypeOK
<1>2. Usable(groupIndex) # {} /\ Usable(groupIndex) \in SUBSET Nat
  BY <1>1 DEF SelectAuto, Usable
<1>3. g \in Usable(groupIndex) /\ \A j \in Usable(groupIndex) : g <= j
  BY <1>2, FirstIsLeast
<1>4. g \in Nat /\ groupIndex <= g
  BY <1>1, <1>3 DEF Usable
<1>5. c \in Satisfied(g, n) /\ autoGroup' = g /\ PrepareRetry(g, n)
  BY DEF SelectAuto
<1>6. ChosenAuto(c, g, n)
  BY <1>3, <1>4, <1>5 DEF ChosenAuto
<1> QED
  BY <1>6

LEMMA GetChannelDescends ==
    ASSUME Inv, NEW c \in Channels, GetChannel(c)
    PROVE  Descent'
<1>1. /\ pc = "select" /\ Select(c) /\ UNCHANGED <<cacheVars, token, affinity>> /\ TypeOK
      /\ ~resetNextTry /\ retry \in Nat /\ RetryTimes \in Nat
  BY SelectAssumption DEF GetChannel, Inv, TypeOK, RetriesCount
<1>2. UNCHANGED <<listed, token>>
  BY <1>1 DEF cacheVars
<1>3. CASE c \in keyless
  BY <1>3 DEF GetChannel, Finish, Descent
<1>4. CASE c \notin keyless /\ IsAuto
  <2>1. Attempt(c) /\ SelectAuto(c)
    BY <1>1, <1>4 DEF GetChannel, Select
  <2>2. PICK g, n : ChosenAuto(c, g, n)
    BY <1>1, <2>1, SelectAutoUses
  <2>3. /\ n \in Nat /\ c \in Satisfied(g, n) /\ autoGroup' = g /\ g \in Nat
    BY <1>1, <2>2 DEF ChosenAuto
  <2>4. GroupOf(autoGroup') = g
    BY <1>4, <2>3 DEF GroupOf
  <2>5. IF groupIndex' # autoGroup'
        THEN groupIndex' = autoGroup' + 1 /\ retry' = 0 /\ (resetNextTry' \/ RetryTimes = 0)
        ELSE retry' = n /\ ~resetNextTry'
    BY <1>1, <2>2, <2>3 DEF ChosenAuto, PrepareRetry
  <2> QED
    BY <1>2, <1>4, <2>1, <2>3, <2>4, <2>5, ChosenDescends
<1>5. CASE c \notin keyless /\ ~IsAuto
  <2>1. Attempt(c) /\ c \in Satisfied(1, retry) /\ UNCHANGED <<retry, resetNextTry>>
    BY <1>1, <1>5 DEF GetChannel, Select, SelectFixed
  <2>2. GroupOf(autoGroup') = 1
    BY <1>5 DEF GroupOf
  <2>3. ~resetNextTry'
    BY <1>1, <2>1
  <2> QED
    BY <1>1, <1>2, <1>5, <2>1, <2>2, <2>3, ChosenDescends
<1> QED
  BY <1>3, <1>4, <1>5

LEMMA DistributeDescends ==
    ASSUME Inv, NEW c \in Channels, Distribute(c)
    PROVE  Descent'
<1>1. /\ retry = 0 /\ groupIndex = 1 /\ ~resetNextTry /\ Attempt(c) /\ TypeOK
      /\ UNCHANGED <<retry, resetNextTry, cacheVars, token>>
  BY DEF Inv, AtStart, Distribute
<1>2. UNCHANGED <<listed, token>> /\ ~resetNextTry'
  BY <1>1 DEF cacheVars
<1>3. CASE IsAuto
  <2> DEFINE g == First(Usable(1))
  <2>1. /\ Usable(1) # {} /\ c \in Satisfied(g, 0) /\ autoGroup' = g
        /\ groupIndex' = IF CrossGroupRetry /\ RetryTimes = 0 THEN g + 1 ELSE g
    BY <1>3 DEF Distribute
  <2>2. GroupOf(autoGroup') = g
    BY <1>3, <2>1 DEF GroupOf
  <2> HIDE DEF g
  <2>3. IF groupIndex' # autoGroup'
        THEN groupIndex' = autoGroup' + 1 /\ retry' = 0 /\ (resetNextTry' \/ RetryTimes = 0)
        ELSE retry' = 0 /\ ~resetNextTry'
    BY <1>1, <1>2, <2>1
  <2> QED
    BY <1>1, <1>2, <1>3, <2>1, <2>2, <2>3, ChosenDescends
<1>4. CASE ~IsAuto
  <2>1. c \in Satisfied(1, 0)
    BY <1>4 DEF Distribute
  <2>2. GroupOf(autoGroup') = 1
    BY <1>4 DEF GroupOf
  <2> QED
    BY <1>1, <1>2, <1>4, <2>1, <2>2, ChosenDescends
<1> QED
  BY <1>3, <1>4

LEMMA FailureDescends ==
    ASSUME Inv, Descent, NEW channelError \in BOOLEAN, AttemptFails(channelError)
    PROVE  Descent'
<1>1. /\ pc = "attempt" /\ UNCHANGED <<cacheVars, token, groupIndex, autoGroup, affinity>>
      /\ retry \in Nat /\ RetryTimes \in Nat
  BY SelectAssumption DEF AttemptFails, Inv, TypeOK
<1>2. CASE pc' # "select"
  BY <1>1, <1>2 DEF AttemptFails, Finish, Descent
<1>3. CASE pc' = "select"
  <2> SUFFICES ASSUME changes' = 0, ~affinity'
               PROVE  Descent'
    BY DEF Descent
  <2>1. retry' = NextRetry /\ retry' <= RetryTimes /\ UNCHANGED channel
    BY <1>3 DEF AttemptFails, Finish
  <2>2. CurrentGroup' = CurrentGroup /\ Left' = Left /\ IsAuto' = IsAuto /\ listed' = listed
    BY <1>1, SameToken DEF CurrentGroup, GroupOf, Left, cacheVars
  <2>3. changes = 0 /\ ~affinity
    BY <1>1 DEF cacheVars
  <2>4. Candidates(CurrentGroup)' = Candidates(CurrentGroup)
        /\ TargetPriority(CurrentGroup, retry - 1)' = TargetPriority(CurrentGroup, retry' - 1)
    BY <2>2, SameTarget
  <2>5. /\ channel' \in Candidates(CurrentGroup)'
        /\ IsAuto' => groupIndex' \in {autoGroup', autoGroup' + 1}
    BY <1>1, <2>1, <2>2, <2>3, <2>4 DEF Descent
  <2>6. CASE Left
    <3>1. retry = 0 /\ (resetNextTry \/ RetryTimes = 0)
      BY <1>1, <2>3, <2>6 DEF Descent
    <3>2. retry' = 0
      BY <2>1, <3>1 DEF NextRetry
    <3> QED
      BY <1>3, <2>2, <2>5, <2>6, <3>2 DEF Descent
  <2>7. CASE ~Left
    <3>1. ~resetNextTry /\ Priority[channel] = TargetPriority(CurrentGroup, retry)
      BY <1>1, <2>3, <2>7 DEF Descent
    <3>2. retry' = retry + 1
      BY <2>1, <3>1 DEF NextRetry
    <3>3. retry' > 0 /\ retry' - 1 = retry
      BY <1>1, <3>2
    <3>4. Priority[channel]' = TargetPriority(CurrentGroup, retry - 1)'
      BY <2>1, <2>4, <3>1, <3>3
    <3> QED
      BY <1>3, <2>2, <2>5, <2>7, <3>3, <3>4 DEF Descent
  <2> QED
    BY <2>6, <2>7
<1> QED
  BY <1>2, <1>3

LEMMA DescentNext == Inv /\ Descent /\ [Next]_vars => Descent'
<1> SUFFICES ASSUME Inv, Descent, [Next]_vars PROVE Descent'
  OBVIOUS
<1>1. ASSUME NEW c \in Channels, Distribute(c) \/ GetChannel(c) PROVE Descent'
  BY <1>1, DistributeDescends, GetChannelDescends
<1>2. ASSUME NEW c \in Channels, DistributeByAffinity(c) PROVE Descent'
  BY <1>2 DEF DistributeByAffinity, Descent
<1>3. CASE DistributeFails \/ GetChannelFails \/ \E o \in {"served", "refused"} : AttemptEnds(o)
  BY <1>3 DEF DistributeFails, GetChannelFails, AttemptEnds, Finish, Descent
<1>4. ASSUME NEW channelError \in BOOLEAN, AttemptFails(channelError) PROVE Descent'
  BY <1>4, FailureDescends
<1>5. CASE InitChannelCache \/ \E c \in Channels : DisableChannel(c) \/ DisableKeys(c)
  <2>1. changes \in Nat /\ changes' = changes + 1
    BY <1>5, SelectAssumption DEF InitChannelCache, DisableChannel, DisableKeys, Inv, TypeOK
  <2> QED
    BY <2>1 DEF Descent
<1>6. CASE UNCHANGED vars
  <2>1. UNCHANGED <<listed, changes, token, pc, retry, resetNextTry, groupIndex, autoGroup,
                    channel, affinity>>
    BY <1>6 DEF vars, requestVars, cacheVars
  <2>2. CurrentGroup' = CurrentGroup /\ Left' = Left /\ IsAuto' = IsAuto
    BY <2>1, SameToken DEF CurrentGroup, GroupOf, Left
  <2>3. /\ Candidates(CurrentGroup)' = Candidates(CurrentGroup)
        /\ TargetPriority(CurrentGroup, retry)' = TargetPriority(CurrentGroup, retry)
        /\ TargetPriority(CurrentGroup, retry - 1)' = TargetPriority(CurrentGroup, retry - 1)
    BY <2>1, <2>2, SameTarget
  <2> QED
    BY <2>1, <2>2, <2>3 DEF Descent
<1> QED
  BY <1>1, <1>2, <1>3, <1>4, <1>5, <1>6 DEF Next, Step

(* Retries go down the priorities of a group and up the groups, as long as  *)
(* nobody changes the cache: a retry uses the next lower priority of its    *)
(* group, or the lowest again, and a later group starts with its highest.   *)
THEOREM RetriesDescend == Spec => RetryDescends
<1> DEFINE Descends ==
             /\ autoGroup' >= autoGroup
             /\ ~SameGroup =>
                  \A p \in PrioritiesOf(autoGroup') : p <= Priority[channel']
             /\ SameGroup =>
                  LET lower == {p \in PrioritiesOf(GroupOf(autoGroup)) : p < Priority[channel]}
                  IN  IF lower = {} THEN Priority[channel'] = Priority[channel]
                      ELSE Priority[channel'] \in lower
                           /\ \A p \in lower : p <= Priority[channel']
<1>1. ASSUME Inv, Descent, [Next]_vars, NewAttempt, changes = 0, ~affinity PROVE Descends
  <2>1. PICK c \in Channels : GetChannel(c) /\ Attempt(c)
    <3>1. pc = "select" /\ pc' = "attempt"
      BY <1>1 DEF NewAttempt
    <3> QED
      BY <1>1, <3>1 DEF Next, Step, Distribute, DistributeByAffinity, DistributeFails, GetChannel,
             GetChannelFails, AttemptEnds, AttemptFails, DisableChannel, DisableKeys,
             InitChannelCache, Finish, vars, requestVars
  <2>2. /\ pc = "select" /\ channel' = c /\ Select(c) /\ UNCHANGED <<cacheVars, token>> /\ TypeOK
    BY <1>1, <2>1 DEF GetChannel, Attempt, Inv
  <2>3. /\ listed \subseteq Channels /\ retry \in Nat /\ groupIndex \in Nat \ {0}
        /\ GroupCount \in Nat \ {0} /\ autoGroup \in Int
    BY <2>2, SelectAssumption, GroupCountType DEF TypeOK
  <2>4. /\ channel \in Candidates(CurrentGroup)
        /\ IsAuto => groupIndex \in {autoGroup, autoGroup + 1}
        /\ IF Left THEN retry = 0
           ELSE retry > 0 /\ Priority[channel] = TargetPriority(CurrentGroup, retry - 1)
    BY <1>1, <2>2 DEF Descent
  <2>5. ASSUME ~Left, c \in Satisfied(CurrentGroup, retry)
        PROVE  LET lower == {p \in PrioritiesOf(CurrentGroup) : p < Priority[channel]}
               IN  IF lower = {} THEN Priority[c] = Priority[channel]
                   ELSE Priority[c] \in lower /\ \A p \in lower : p <= Priority[c]
    <3>1. retry - 1 \in Nat /\ (retry - 1) + 1 = retry /\ Priority[channel] = TargetPriority(CurrentGroup, retry - 1)
      BY <2>3, <2>4, <2>5
    <3>2. Priority[c] = TargetPriority(CurrentGroup, retry) /\ Candidates(CurrentGroup) # {}
      BY <2>4, <2>5, SatisfiedHas
    <3> DEFINE n == retry - 1
    <3>3. n \in Nat /\ n + 1 = retry
      BY <3>1
    <3> HIDE DEF n
    <3>4. LET t == TargetPriority(CurrentGroup, n)
              u == TargetPriority(CurrentGroup, n + 1)
              lower == {p \in PrioritiesOf(CurrentGroup) : p < t}
          IN  IF lower = {} THEN u = t ELSE u \in lower /\ \A p \in lower : p <= u
      BY <2>3, <3>2, <3>3, TargetDescends
    <3> QED
      BY <3>1, <3>2, <3>3, <3>4 DEF n
  <2>6. CASE ~IsAuto
    <3>1. c \in Satisfied(1, retry) /\ autoGroup' = autoGroup
      BY <2>2, <2>6 DEF Select, SelectFixed
    <3>2. CurrentGroup = 1 /\ ~Left /\ SameGroup
      BY <2>6 DEF CurrentGroup, GroupOf, Left, SameGroup
    <3>3. LET lower == {p \in PrioritiesOf(CurrentGroup) : p < Priority[channel]}
          IN  IF lower = {} THEN Priority[c] = Priority[channel]
              ELSE Priority[c] \in lower /\ \A p \in lower : p <= Priority[c]
      BY <2>5, <3>1, <3>2
    <3> QED
      BY <2>2, <2>3, <3>1, <3>2, <3>3 DEF CurrentGroup
  <2>7. CASE IsAuto
    <3>1. PICK g, n : ChosenAuto(c, g, n)
      BY <2>2, <2>7, SelectAutoUses DEF Select
    <3>2. /\ g \in Nat /\ groupIndex <= g /\ g \in Usable(groupIndex)
          /\ \A j \in Usable(groupIndex) : g <= j
          /\ n = (IF g > groupIndex THEN 0 ELSE retry)
          /\ c \in Satisfied(g, n) /\ autoGroup' = g
      BY <3>1 DEF ChosenAuto
    <3>3. CurrentGroup = autoGroup /\ SameGroup = (g = autoGroup) /\ Left = (groupIndex # autoGroup)
      BY <2>7, <3>2 DEF CurrentGroup, GroupOf, SameGroup, Left
    <3>4. autoGroup' >= autoGroup
      BY <2>3, <2>4, <2>7, <3>2
    <3>5. Candidates(g) # {}
      BY <3>2 DEF Usable
    <3>6. CASE g = autoGroup
      <4>1. groupIndex = autoGroup /\ n = retry
        BY <2>3, <2>4, <2>7, <3>2, <3>6
      <4>2. LET lower == {p \in PrioritiesOf(CurrentGroup) : p < Priority[channel]}
            IN  IF lower = {} THEN Priority[c] = Priority[channel]
                ELSE Priority[c] \in lower /\ \A p \in lower : p <= Priority[c]
        BY <2>5, <3>2, <3>3, <3>6, <4>1
      <4> QED
        BY <2>2, <3>3, <3>4, <3>6, <4>2 DEF CurrentGroup
    <3>7. CASE g # autoGroup
      <4>1. groupIndex # autoGroup
        <5>1. SUFFICES ASSUME groupIndex = autoGroup PROVE FALSE
          OBVIOUS
        <5>2. groupIndex <= GroupCount
          BY <2>3, <3>2 DEF Usable
        <5>3. autoGroup \in Usable(groupIndex)
          BY <2>3, <2>4, <3>3, <5>1, <5>2 DEF Usable
        <5> QED
          BY <2>3, <3>2, <3>7, <5>1, <5>3
      <4>2. n = 0
        BY <2>4, <3>2, <3>3, <4>1
      <4>3. Priority[c] = TargetPriority(g, 0)
        BY <3>2, <4>2, SatisfiedHas
      <4>4. \A p \in PrioritiesOf(g) : p <= Priority[c]
        BY <2>3, <3>5, <4>3, FirstTarget
      <4> QED
        BY <2>2, <3>2, <3>3, <3>4, <3>7, <4>4
    <3> QED
      BY <3>6, <3>7
  <2> QED
    BY <2>6, <2>7
<1>2. Inv /\ Descent /\ [Next]_vars => [NewAttempt /\ changes = 0 /\ ~affinity => Descends]_vars
  BY <1>1
<1>3. Init => Descent
  BY DEF Init, Descent
<1> HIDE DEF Descends
<1>4. Spec => [][NewAttempt /\ changes = 0 /\ ~affinity => Descends]_vars
  BY <1>2, <1>3, InvHolds, DescentNext, PTL DEF Spec
<1> QED
  BY <1>4, PTL DEF RetryDescends, Descends
=============================================================================
