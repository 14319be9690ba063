-------------------------- MODULE PlaygroundProofs --------------------------
(***************************************************************************)
(* Proofs about Playground, for any number of requests, reloads and edits. *)
(***************************************************************************)
EXTENDS Playground, FiniteSetTheorems, WellFoundedInduction, SequenceTheorems, TLAPS

(* A message that holds text of its own request only, or of a stray one. *)
OwnMessages == {m \in Messages : m.from \ {m.request} \subseteq stray}
OwnLists == Seq(OwnMessages)
Callbacks == [op : {"save", "defaults"}, list : OwnLists]
Dialogs ==
    {NoDialog} \cup [kind : {"delete"}, target : Messages]
               \cup [kind : {"edit"}, list : OwnLists, index : Nat]

(* Every list that may come back, from the storage, a timer or a dialog,    *)
(* is one of such messages.                                                 *)
Typed ==
    /\ message \in OwnLists
    /\ stored \in {NoList} \cup OwnLists
    /\ timeouts \in Seq(Callbacks)
    /\ delayed \in Seq({"resend", "regenerate"})
    /\ streams \subseteq 1 .. requests /\ fetches \subseteq 1 .. requests
    /\ streams \cap fetches = {}
    /\ stray \subseteq 1 .. requests
    /\ ref \in 0 .. MaxRequests /\ nextId \in Nat
    /\ dialog \in Dialogs
    /\ dialog.kind = "edit" => dialog.index <= Len(dialog.list)
    /\ editing \in {NoMessage} \cup Messages
    /\ page \in {"up", "crashed"}
    /\ loads \in 0 .. MaxReloads /\ requests \in 0 .. MaxRequests /\ edits \in 0 .. MaxEdits
    /\ unloaded \in BOOLEAN /\ unsaved \in BOOLEAN /\ dangling \in BOOLEAN

Tracked == OpenIsTracked /\ CrashNeedsStray

(* The conversation that the storage will hold when the timers have run. *)
Restored == IF stored = NoList THEN DefaultMessages ELSE stored
Eventual == IF timeouts = <<>> THEN Restored ELSE Last(timeouts).list
OnlySaves == \A i \in DOMAIN timeouts : timeouts[i].op = "save"

(* The conversation on the page is the one that is saved, or about to be.   *)
Shown == page = "up" /\ ~unsaved /\ ~AnyGenerating /\ OnlySaves => message = Eventual

Inv == Typed /\ Tracked /\ Shown

-----------------------------------------------------------------------------
(* Places in a list. *)

LEMMA LeastNatural ==
    ASSUME NEW S \in SUBSET Nat, S # {}
    PROVE  \E m \in S : \A k \in S : m <= k
<1> DEFINE R == OpToRel(<, Nat)
<1>1. PICK m \in S : \A k \in S : ~(<<k, m>> \in R)
  BY NatLessThanWellFounded, WFMin
<1>2. ASSUME NEW k \in S PROVE m <= k
  <2>1. ~(<<k, m>> \in R)
    BY <1>1
  <2>2. ~(k < m)
    BY <2>1 DEF OpToRel
  <2> QED
    BY <2>2
<1> QED
  BY <1>2

LEMMA MinOf ==
    ASSUME NEW S \in SUBSET Nat, S # {}
    PROVE  Min(S) \in S
<1>1. \E m \in S : \A k \in S : m =< k
  BY LeastNatural
<1> QED
  BY <1>1 DEF Min

LEMMA MaxOf ==
    ASSUME NEW n \in Nat, NEW S \in SUBSET (1 .. n), S # {}
    PROVE  Max(S) \in S
<1> DEFINE Bounds == {m \in Nat : \A k \in S : k <= m}
<1>1. n \in Bounds
  OBVIOUS
<1>2. PICK m \in Bounds : \A b \in Bounds : m <= b
  <2>1. Bounds \in SUBSET Nat
    OBVIOUS
  <2> HIDE DEF Bounds
  <2> QED
    BY <1>1, <2>1, LeastNatural
<1>3. m \in S
  <2> SUFFICES ASSUME m \notin S PROVE FALSE
    OBVIOUS
  <2>1. \A k \in S : k \in Nat /\ k >= 1 /\ k <= m /\ k # m
    BY <1>2
  <2>2. m # 0
    <3>1. PICK k : k \in S
      OBVIOUS
    <3> QED
      BY <2>1, <3>1
  <2>3. m - 1 \in Nat /\ \A k \in S : k <= m - 1
    BY <1>2, <2>1, <2>2
  <2>4. m <= m - 1
    BY <1>2, <2>3
  <2> QED
    BY <1>2, <2>4
<1>4. \A k \in S : m >= k
  BY <1>2
<1> QED
  BY <1>3, <1>4 DEF Max

LEMMA IntervalSize ==
    ASSUME NEW n \in Nat
    PROVE  IsFiniteSet(1 .. n) /\ Cardinality(1 .. n) = n
<1>1. IsFiniteSet(1 .. n) /\ Cardinality(1 .. n) = IF 1 > n THEN 0 ELSE n - 1 + 1
  BY FS_Interval
<1>2. CASE n = 0
  <2>1. 1 > n
    BY <1>2
  <2> QED
    BY <1>1, <1>2, <2>1
<1>3. CASE n # 0
  <2>1. ~(1 > n) /\ n - 1 + 1 = n
    BY <1>3
  <2> QED
    BY <1>1, <2>1
<1> QED
  BY <1>2, <1>3

LEMMA NthOf ==
    ASSUME NEW m \in Nat, NEW S \in SUBSET (1 .. m), NEW n \in 1 .. Cardinality(S)
    PROVE  Nth(S, n) \in S
<1> DEFINE Upto(i) == {k \in S : k <= i}
           Reached == {i \in Nat : Cardinality(Upto(i)) >= n}
<1>1. IsFiniteSet(S) /\ Cardinality(S) \in Nat
  <2>1. IsFiniteSet(1 .. m)
    BY FS_Interval
  <2> QED
    BY <2>1, FS_Subset, FS_CardinalityType
<1>a. \A k \in S : k \in Nat /\ k <= m /\ ~(k <= 0)
  OBVIOUS
<1>2. \A i : IsFiniteSet(Upto(i)) /\ Cardinality(Upto(i)) \in Nat
  <2> TAKE i
  <2>1. Upto(i) \in SUBSET S
    OBVIOUS
  <2> HIDE DEF Upto
  <2> QED
    BY <1>1, <2>1, FS_Subset, FS_CardinalityType
<1>3. m \in Reached
  <2>1. Upto(m) = S
    BY <1>a
  <2> QED
    BY <2>1
<1>4. PICK i \in Reached : \A j \in Reached : i <= j
  <2> HIDE DEF Reached
  <2>1. Reached \in SUBSET Nat
    BY DEF Reached
  <2> QED
    BY <1>3, <2>1, LeastNatural
<1>5. i # 0
  <2>1. Upto(0) = {}
    BY <1>a
  <2>2. Cardinality(Upto(0)) = 0
    BY <2>1, FS_EmptySet
  <2> QED
    BY <1>1, <1>4, <2>2
<1>6. i - 1 \in Nat /\ Cardinality(Upto(i - 1)) < n
  <2>1. i \in Nat /\ i - 1 \in Nat /\ ~(i <= i - 1)
    BY <1>4, <1>5
  <2>2. i - 1 \notin Reached
    BY <1>4, <2>1
  <2>3. Cardinality(Upto(i - 1)) \in Nat
    BY <1>2
  <2> QED
    BY <1>1, <2>1, <2>2, <2>3
<1>7. Upto(i) = IF i \in S THEN Upto(i - 1) \cup {i} ELSE Upto(i - 1)
  <2>1. \A k \in S : k <= i <=> k <= i - 1 \/ k = i
    BY <1>4
  <2>2. i <= i
    BY <1>4
  <2> QED
    BY <2>1, <2>2
<1>8. IsFiniteSet(Upto(i - 1)) /\ Cardinality(Upto(i - 1)) \in Nat
  BY <1>2
<1>9. Cardinality(Upto(i)) >= n
  BY <1>4
<1>10. i \in S /\ Cardinality(Upto(i)) = n
  <2> HIDE DEF Upto
  <2>1. i \in S
    BY <1>1, <1>6, <1>7, <1>8, <1>9
  <2>2. Cardinality(Upto(i)) <= Cardinality(Upto(i - 1)) + 1
    BY <1>7, <1>8, <2>1, FS_AddElement
  <2>3. Cardinality(Upto(i)) \in Nat
    BY <1>2
  <2> QED
    BY <1>1, <1>6, <1>8, <1>9, <2>1, <2>2, <2>3
<1> QED
  BY <1>10 DEF Nth

(* filter leaves a list of elements of the list. *)
LEMMA SubsequenceOf ==
    ASSUME NEW S, NEW list \in Seq(S), NEW places \in SUBSET DOMAIN list
    PROVE  Subsequence(list, places) \in Seq(S)
<1>1. DOMAIN list = 1 .. Len(list) /\ Len(list) \in Nat
  OBVIOUS
<1>2. Cardinality(places) \in Nat
  BY <1>1, IntervalSize, FS_Subset, FS_CardinalityType
<1>3. ASSUME NEW n \in 1 .. Cardinality(places) PROVE list[Nth(places, n)] \in S
  <2>1. Nth(places, n) \in places
    BY <1>1, NthOf
  <2> QED
    BY <1>1, <2>1
<1> QED
  BY <1>2, <1>3, IsASeq DEF Subsequence

LEMMA IndexOfPlace ==
    ASSUME NEW S, NEW list \in Seq(S), NEW m, IndexOf(list, m) # 0
    PROVE  IndexOf(list, m) \in DOMAIN list
<1> DEFINE same == {i \in DOMAIN list : list[i] = m}
           sameId == {i \in DOMAIN list : list[i].id = m.id}
<1>1. same \in SUBSET Nat /\ sameId \in SUBSET Nat
  OBVIOUS
<1>2. /\ same # {} => Min(same) \in same
      /\ sameId # {} => Min(sameId) \in sameId
  <2> HIDE DEF same, sameId
  <2> QED
    BY <1>1, MinOf
<1>3. IndexOf(list, m) = IF same # {} THEN Min(same) ELSE IF sameId # {} THEN Min(sameId) ELSE 0
  BY DEF IndexOf
<1> QED
  BY <1>2, <1>3

-----------------------------------------------------------------------------
(* Lists of messages. *)

(* What is lost sight of stays so, and lists stay what they were. *)
LEMMA ListsGrow ==
    ASSUME stray \subseteq stray'
    PROVE  /\ OwnMessages \subseteq OwnMessages'
           /\ OwnLists \subseteq OwnLists'
           /\ Callbacks \subseteq Callbacks'
           /\ Seq(Callbacks) \subseteq Seq(Callbacks')
           /\ Dialogs \subseteq Dialogs'
<1>1. OwnMessages \subseteq OwnMessages'
  BY DEF OwnMessages
<1>2. OwnLists \subseteq OwnLists'
  <2> HIDE DEF OwnMessages
  <2> QED
    BY <1>1, SeqMonotonic DEF OwnLists
<1>3. Callbacks \subseteq Callbacks'
  <2> HIDE DEF OwnLists
  <2> QED
    BY <1>2 DEF Callbacks
<1>4. Seq(Callbacks) \subseteq Seq(Callbacks')
  <2> HIDE DEF Callbacks
  <2> QED
    BY <1>3, SeqMonotonic
<1>5. Dialogs \subseteq Dialogs'
  <2> HIDE DEF OwnLists
  <2> QED
    BY <1>2 DEF Dialogs
<1> QED
  BY <1>1, <1>2, <1>3, <1>4, <1>5

LEMMA DefaultsAreOwn == DefaultMessages \in OwnLists
<1> DEFINE m1 == [id |-> 2, load |-> 0, role |-> "user", status |-> "none", edited |-> FALSE,
                  request |-> 0, from |-> {}]
           m2 == [id |-> 3, load |-> 0, role |-> "assistant", status |-> "none",
                  edited |-> FALSE, request |-> 0, from |-> {0}]
<1>1. 0 \in 0 .. MaxReloads /\ 0 \in 0 .. MaxRequests
  BY PlaygroundAssumption
<1>2. m1 \in OwnMessages
  BY <1>1 DEF OwnMessages, Messages
<1>3. m2 \in OwnMessages
  BY <1>1 DEF OwnMessages, Messages
<1> HIDE DEF m1, m2
<1>4. <<m1, m2>> \in Seq(OwnMessages)
  BY <1>2, <1>3
<1> QED
  BY <1>4 DEF OwnLists, DefaultMessages, m1, m2

(* A list that was saved is not taken for an empty storage. *)
LEMMA ListsAreLists == NoList \notin OwnLists
<1> SUFFICES ASSUME NoList \in OwnLists PROVE FALSE
  OBVIOUS
<1>1. NoList[1] \in OwnMessages
  BY DEF OwnLists, NoList
<1>2. NoMessage \in Messages
  BY <1>1 DEF NoList, OwnMessages
<1>3. DOMAIN NoMessage = {"id"}
  BY DEF NoMessage
<1>4. "load" \in DOMAIN NoMessage
  BY <1>2 DEF Messages
<1> QED
  BY <1>3, <1>4

LEMMA NewMessage ==
    ASSUME Typed, NEW id \in Nat, NEW role \in {"user", "assistant"},
           NEW status \in {"none", "loading"}, NEW request \in 0 .. MaxRequests
    PROVE  /\ Message(id, role, status, request) \in OwnMessages
           /\ Message(id, role, status, request).status = status
           /\ Message(id, role, status, request).role = role
           /\ Message(id, role, status, request).request = request
  BY DEF Message, OwnMessages, Messages, Typed

(* The first messages of a list. *)
LEMMA CutList ==
    ASSUME NEW S, NEW list \in Seq(S), NEW n \in 0 .. Len(list)
    PROVE  SubSeq(list, 1, n) \in Seq(S) /\ Len(SubSeq(list, 1, n)) = n
<1>1. 1 \in 1 .. Len(list) + 1 /\ n \in (1 - 1) .. Len(list) /\ n - 1 + 1 = n
  OBVIOUS
<1> QED
  BY <1>1, SubSeqProperties

(* The last message is replaced. *)
LEMMA SetLastList ==
    ASSUME NEW S, NEW list \in Seq(S), list # <<>>, NEW m \in S
    PROVE  /\ SetLast(list, m) \in Seq(S) /\ SetLast(list, m) # <<>>
           /\ Last(SetLast(list, m)) = m
           /\ Last(list) \in S /\ Len(list) \in DOMAIN list
           /\ Len(SetLast(list, m)) = Len(list)
<1>1. Len(list) \in Nat /\ Len(list) >= 1
  OBVIOUS
<1>2. Front(list) \in Seq(S) /\ Len(Front(list)) = Len(list) - 1
  <2>1. Len(list) - 1 \in 0 .. Len(list)
    BY <1>1
  <2> QED
    BY <2>1, CutList DEF Front
<1>3. SetLast(list, m) = Append(Front(list), m)
  BY DEF SetLast
<1>4. Len(SetLast(list, m)) = Len(list) /\ SetLast(list, m) \in Seq(S)
  BY <1>1, <1>2, <1>3
<1>5. SetLast(list, m)[Len(list)] = m
  BY <1>1, <1>2, <1>3
<1>6. Last(SetLast(list, m)) = m
  BY <1>4, <1>5 DEF Last
<1>7. SetLast(list, m) # <<>>
  BY <1>1, <1>4
<1>8. Last(list) \in S /\ Len(list) \in DOMAIN list
  BY <1>1 DEF Last
<1> QED
  BY <1>4, <1>6, <1>7, <1>8

LEMMA AppendList ==
    ASSUME NEW S, NEW list \in Seq(S), NEW m \in S
    PROVE  /\ Append(list, m) \in Seq(S) /\ Append(list, m) # <<>>
           /\ Last(Append(list, m)) = m /\ Append(list, m)[Len(Append(list, m))] = m
           /\ Len(Append(list, m)) \in DOMAIN Append(list, m)
<1>1. Append(list, m) \in Seq(S) /\ Len(Append(list, m)) = Len(list) + 1 /\ Len(list) \in Nat
  OBVIOUS
<1>2. Append(list, m)[Len(list) + 1] = m
  BY <1>1
<1> QED
  BY <1>1, <1>2 DEF Last

-----------------------------------------------------------------------------
(* Writing into the list. *)

Statuses == {"none", "loading", "incomplete", "complete", "error"}

(* A list whose last message has another status. *)
LEMMA StatusOfLast ==
    ASSUME NEW list \in OwnLists, list # <<>>, NEW status \in Statuses
    PROVE  LET m == [Last(list) EXCEPT !.status = status]
           IN  /\ SetLast(list, m) \in OwnLists /\ SetLast(list, m) # <<>>
               /\ Last(SetLast(list, m)) = m
               /\ m.status = status /\ m.request = Last(list).request
<1> DEFINE m == [Last(list) EXCEPT !.status = status]
<1>1. Last(list) \in OwnMessages
  <2>1. list \in Seq(OwnMessages)
    BY DEF OwnLists
  <2>2. Len(list) \in DOMAIN list
    BY <2>1
  <2> QED
    BY <2>1, <2>2 DEF Last
<1>2. m \in OwnMessages /\ m.status = status /\ m.request = Last(list).request
  BY <1>1 DEF OwnMessages, Messages, Statuses
<1> HIDE DEF m
<1>3. /\ SetLast(list, m) \in OwnLists /\ SetLast(list, m) # <<>>
      /\ Last(SetLast(list, m)) = m
  BY <1>2, SetLastList DEF OwnLists
<1> QED
  BY <1>2, <1>3 DEF m

(* The text of a request goes to its own message, or the request is stray. *)
LEMMA StreamUpdate ==
    ASSUME Typed, OpenIsTracked, page = "up", NEW r \in streams
    PROVE  LET new == StreamMessageUpdate(message, r)
           IN  /\ new \in OwnLists
               /\ \/ new = message
                  \/ /\ message # <<>> /\ new # <<>> /\ Last(new).status = "incomplete"
                     /\ Last(new).request = Last(message).request
<1> DEFINE m == [Last(message) EXCEPT !.status = "incomplete", !.from = @ \cup {r}]
           new == StreamMessageUpdate(message, r)
<1>1. CASE new = message
  BY <1>1 DEF Typed
<1>2. CASE new # message
  <2>1. message # <<>> /\ new = SetLast(message, m)
    BY <1>2 DEF StreamMessageUpdate
  <2>2. message \in Seq(OwnMessages)
    BY DEF Typed, OwnLists
  <2>3. Last(message) \in OwnMessages
    <3>1. Len(message) \in DOMAIN message
      BY <2>1, <2>2
    <3> QED
      BY <2>2, <3>1 DEF Last
  <2>4. r \in stray \/ Last(message).request = r
    BY DEF OpenIsTracked, Open
  <2>5. r \in 0 .. MaxRequests
    BY PlaygroundAssumption DEF Typed
  <2>6. /\ m \in OwnMessages /\ m.status = "incomplete"
        /\ m.request = Last(message).request
    BY <2>3, <2>4, <2>5 DEF OwnMessages, Messages
  <2> HIDE DEF m, new
  <2>7. new \in OwnLists /\ new # <<>> /\ Last(new) = m
    BY <2>1, <2>2, <2>6, SetLastList DEF OwnLists
  <2> QED
    BY <2>1, <2>6, <2>7 DEF new
<1> QED
  BY <1>1, <1>2

LEMMA CompletedList ==
    ASSUME NEW list \in OwnLists, list # <<>>, NEW status \in {"complete", "error"}
    PROVE  LET new == CompleteMessage(list, status)
           IN  /\ new \in OwnLists /\ new # <<>>
               /\ new = list => Last(list).status \in {"complete", "error"}
<1> DEFINE m == [Last(list) EXCEPT !.status = status]
<1>1. CASE Last(list).status \in {"complete", "error"}
  BY <1>1 DEF CompleteMessage
<1>2. CASE Last(list).status \notin {"complete", "error"}
  <2>1. CompleteMessage(list, status) = SetLast(list, m)
    BY <1>2 DEF CompleteMessage
  <2>2. SetLast(list, m) \in OwnLists /\ SetLast(list, m) # <<>>
        /\ Last(SetLast(list, m)) = m /\ m.status = status
    <3>1. status \in Statuses
      BY DEF Statuses
    <3> QED
      BY <3>1, StatusOfLast
  <2> HIDE DEF m
  <2>3. SetLast(list, m) # list
    <3>1. Last(SetLast(list, m)).status = status
      BY <2>2
    <3> QED
      BY <1>2, <3>1
  <2> QED
    BY <2>1, <2>2, <2>3
<1> QED
  BY <1>1, <1>2

LEMMA SavingList ==
    ASSUME NEW list \in OwnLists
    PROVE  /\ Saving(list) \in Callbacks
           /\ Saving(list).op = "save" /\ Saving(list).list = list
<1> HIDE DEF OwnLists
<1> QED
  BY DEF Saving, Callbacks

(* A list that is set and saved is the one that will be stored. *)
LEMMA SavedIsShown ==
    ASSUME Typed, NEW list \in OwnLists, message' = list,
           timeouts' = Append(timeouts, Saving(list))
    PROVE  timeouts' \in Seq(Callbacks) /\ Shown'
<1>1. Saving(list) \in Callbacks /\ Saving(list).list = list
  BY SavingList
<1>2. timeouts \in Seq(Callbacks)
  BY DEF Typed
<1>3. timeouts' \in Seq(Callbacks) /\ timeouts' # <<>> /\ Last(timeouts') = Saving(list)
  BY <1>1, <1>2, AppendList
<1>4. message' = Eventual'
  BY <1>1, <1>3 DEF Eventual
<1> QED
  BY <1>3, <1>4 DEF Shown

(* What a save keeps, when the list was good before the step. *)
LEMMA SetAndSaveKeeps ==
    ASSUME Typed, NEW list \in OwnLists, SetAndSave(list)
    PROVE  /\ message' \in OwnLists /\ timeouts' \in Seq(Callbacks) /\ Shown'
           /\ unsaved' = FALSE
<1>1. message' = list /\ timeouts' = Append(timeouts, Saving(list)) /\ unsaved' = FALSE
  BY DEF SetAndSave
<1> QED
  BY <1>1, SavedIsShown

(* completeMessage, at the end of the request r. *)
LEMMA CompleteKeeps ==
    ASSUME Inv, page = "up", NEW r \in streams, NEW list \in OwnLists,
           \/ list = message
           \/ message # <<>> /\ list # <<>> /\ Last(list).status = "incomplete",
           NEW status \in {"complete", "error"}, Complete(list, status), stored' = stored
    PROVE  /\ message' \in OwnLists /\ timeouts' \in Seq(Callbacks)
           /\ unsaved' \in BOOLEAN /\ page' \in {"up", "crashed"}
           /\ page' = "crashed" => r \in stray
           /\ Shown'
<1>a. Typed /\ OpenIsTracked /\ Shown
  BY DEF Inv, Tracked
<1>1. CASE list = <<>>
  <2>1. page' = "crashed" /\ UNCHANGED <<message, timeouts, unsaved>>
    BY <1>1 DEF Complete
  <2>2. message = <<>>
    BY <1>1
  <2>3. r \in stray
    BY <1>a, <2>2 DEF OpenIsTracked, Open, LastGenerating
  <2> QED
    BY <1>a, <2>1, <2>3 DEF Typed, Shown
<1>2. CASE list # <<>>
  <2> DEFINE new == CompleteMessage(list, status)
  <2>1. /\ page' = page /\ message' = new
        /\ IF message' = list
           THEN UNCHANGED <<timeouts, unsaved>>
           ELSE timeouts' = Append(timeouts, Saving(message')) /\ unsaved' = FALSE
    BY <1>2 DEF Complete
  <2>2. new \in OwnLists /\ (new = list => Last(list).status \in {"complete", "error"})
    BY <1>2, CompletedList
  <2> HIDE DEF new
  <2>3. CASE new = list
    <3>1. list = message
      BY <2>2, <2>3
    <3>2. UNCHANGED <<message, timeouts, unsaved, page, stored>>
      BY <2>1, <2>3, <3>1
    <3>3. Shown'
      BY <1>a, <3>2 DEF Shown, AnyGenerating, OnlySaves, Eventual, Restored
    <3> QED
      BY <1>a, <3>2, <3>3 DEF Typed
  <2>4. CASE new # list
    <3>1. message' = new /\ timeouts' = Append(timeouts, Saving(new)) /\ unsaved' = FALSE
      BY <2>1, <2>4
    <3>2. timeouts' \in Seq(Callbacks) /\ Shown'
      BY <1>a, <2>2, <3>1, SavedIsShown
    <3> QED
      BY <2>1, <2>2, <3>1, <3>2
  <2> QED
    BY <2>3, <2>4
<1> QED
  BY <1>1, <1>2

(* The request that ends was the one the page waits for, or a stray one:    *)
(* then every other one has gone astray.                                    *)
LEMMA OthersAreStray ==
    ASSUME OpenIsTracked, page = "up", NEW r \in Open
    PROVE  /\ Open \ {r} \subseteq Strays(r) /\ stray \subseteq Strays(r)
           /\ r \in stray => Open \subseteq Strays(r)
<1>1. CASE r \in stray
  BY <1>1 DEF Strays
<1>2. CASE r \notin stray
  <2>1. Last(message).request = r
    BY <1>2 DEF OpenIsTracked
  <2>2. \A q \in Open \ stray : q = r
    BY <2>1 DEF OpenIsTracked
  <2> QED
    BY <1>2, <2>2 DEF Strays
<1> QED
  BY <1>1, <1>2

(* When no answer is generated, every open request is stray. *)
LEMMA IdleIsStray ==
    ASSUME OpenIsTracked, page = "up", ~LastGenerating
    PROVE  Open \subseteq stray
  BY DEF OpenIsTracked

LEMMA QuietIsStray ==
    ASSUME Typed, OpenIsTracked, page = "up", ~AnyGenerating
    PROVE  Open \subseteq stray
<1>1. ~LastGenerating
  <2> SUFFICES ASSUME message # <<>>, Generating(Last(message)) PROVE FALSE
    BY DEF LastGenerating
  <2>1. message \in Seq(OwnMessages)
    BY DEF Typed, OwnLists
  <2>2. Len(message) \in DOMAIN message
    BY <2>1
  <2> QED
    BY <2>2 DEF AnyGenerating, Last
<1> QED
  BY <1>1, IdleIsStray

LEMMA AllStray ==
    ASSUME Open' \subseteq stray', page' = "crashed" => stray' # {}
    PROVE  Tracked'
  BY DEF Tracked, OpenIsTracked, CrashNeedsStray

-----------------------------------------------------------------------------
(* Every step keeps the invariant: the answers. *)

(* What does not touch the conversation keeps it shown. *)
LEMMA SameShown ==
    ASSUME Shown, UNCHANGED <<message, stored, timeouts, unsaved, page>>
    PROVE  Shown'
  BY DEF Shown, AnyGenerating, OnlySaves, Eventual, Restored

LEMMA ChunkKeeps == ASSUME Inv, NEW r \in streams, Chunk(r) PROVE Inv'
<1> DEFINE new == StreamMessageUpdate(message, r)
<1>1. Typed /\ OpenIsTracked /\ CrashNeedsStray /\ Shown /\ page = "up" /\ message' = new
  BY DEF Inv, Tracked, Chunk
<1>2. /\ new \in OwnLists
      /\ \/ new = message
         \/ /\ message # <<>> /\ new # <<>> /\ Last(new).status = "incomplete"
            /\ Last(new).request = Last(message).request
  BY <1>1, StreamUpdate
<1> HIDE DEF new
<1>3. UNCHANGED <<stored, timeouts, delayed, streams, fetches, ref, dialog, editing, nextId,
                  unloaded, page, loads, requests, edits, stray, unsaved, dangling>>
  BY DEF Chunk, history
<1>4. OwnLists' = OwnLists /\ Seq(Callbacks)' = Seq(Callbacks) /\ Dialogs' = Dialogs
  BY <1>3 DEF OwnLists, OwnMessages, Callbacks, Dialogs
<1>5. Typed'
  BY <1>1, <1>2, <1>3, <1>4 DEF Typed
<1>6. CASE new = message
  <2>1. UNCHANGED message
    BY <1>1, <1>6
  <2>2. Tracked'
    BY <1>1, <1>3, <2>1 DEF Tracked, OpenIsTracked, CrashNeedsStray, LastGenerating, Open
  <2>3. Shown'
    BY <1>1, <1>3, <2>1, SameShown
  <2> QED
    BY <1>5, <2>2, <2>3 DEF Inv
<1>7. CASE new # message
  <2>1. message' # <<>> /\ Last(message').status = "incomplete"
        /\ Last(message').request = Last(message).request
    BY <1>1, <1>2, <1>7
  <2>2. LastGenerating'
    BY <2>1 DEF LastGenerating, Generating
  <2>3. Tracked'
    BY <1>1, <1>3, <2>1, <2>2 DEF Tracked, OpenIsTracked, CrashNeedsStray, Open
  <2>4. AnyGenerating'
    <3>1. message' \in Seq(OwnMessages)
      BY <1>1, <1>2 DEF OwnLists
    <3>2. Len(message') \in DOMAIN message'
      BY <2>1, <3>1
    <3> QED
      BY <2>1, <3>2 DEF AnyGenerating, Generating, Last
  <2> QED
    BY <1>5, <2>3, <2>4 DEF Inv, Shown
<1> QED
  BY <1>6, <1>7

(* The ways a stream ends, and a chunk that is not understood. *)
LEMMA EndingKeeps ==
    ASSUME Inv, page = "up", NEW r \in streams, NEW list,
           list \in {message, StreamMessageUpdate(message, r)},
           NEW status \in {"complete", "error"}, Complete(list, status),
           \/ streams' = streams \ {r} /\ stray' = Strays(r)
           \/ streams' = streams /\ stray' = Strays(r) \cup {r},
           ref' \in {0, ref},
           UNCHANGED <<stored, delayed, fetches, dialog, editing, nextId, unloaded, loads,
                       requests, edits, dangling>>
    PROVE  Inv'
<1>1. Typed /\ OpenIsTracked /\ CrashNeedsStray
  BY DEF Inv, Tracked
<1>2. /\ list \in OwnLists
      /\ \/ list = message
         \/ message # <<>> /\ list # <<>> /\ Last(list).status = "incomplete"
  <2>1. message \in OwnLists
    BY <1>1 DEF Typed
  <2>2. CASE list = StreamMessageUpdate(message, r)
    BY <1>1, <2>2, StreamUpdate
  <2> QED
    BY <2>1, <2>2
<1>3. /\ message' \in OwnLists /\ timeouts' \in Seq(Callbacks)
      /\ unsaved' \in BOOLEAN /\ page' \in {"up", "crashed"}
      /\ page' = "crashed" => r \in stray
      /\ Shown'
  BY <1>2, CompleteKeeps
<1>4. r \in Open
  BY DEF Open
<1>5. Open \ {r} \subseteq Strays(r) /\ stray \subseteq Strays(r)
  BY <1>1, <1>4, OthersAreStray
<1>6. stray \subseteq stray' /\ Open' \subseteq stray'
  BY <1>1, <1>5 DEF Open, Typed
<1>7. stray' \subseteq 1 .. requests
  BY <1>1 DEF Strays, Typed, Open
<1>8. /\ OwnLists \subseteq OwnLists' /\ Seq(Callbacks) \subseteq Seq(Callbacks')
      /\ Dialogs \subseteq Dialogs'
  BY <1>6, ListsGrow
<1>9. Typed'
  <2>1. streams' \subseteq streams
    OBVIOUS
  <2>2. ref' \in 0 .. MaxRequests
    BY <1>1, PlaygroundAssumption DEF Typed
  <2> QED
    BY <1>1, <1>3, <1>7, <1>8, <2>1, <2>2 DEF Typed
<1>10. Tracked'
  BY <1>3, <1>6, AllStray
<1> QED
  BY <1>3, <1>9, <1>10 DEF Inv

LEMMA StreamingKeeps == ASSUME Inv, NEW r \in streams, Streaming(r) PROVE Inv'
<1>1. CASE Done(r)
  BY <1>1, EndingKeeps DEF Done
<1>2. CASE BadChunk(r)
  BY <1>2, EndingKeeps DEF BadChunk
<1>3. CASE StreamError(r)
  BY <1>3, EndingKeeps DEF StreamError
<1>4. CASE HttpError(r)
  BY <1>4, EndingKeeps DEF HttpError
<1>5. CASE SilentEnd(r)
  <2>1. /\ streams' = streams \ {r} /\ dangling' = TRUE
        /\ UNCHANGED <<message, stored, timeouts, delayed, fetches, ref, dialog, editing, nextId,
                       unloaded, page, loads, requests, edits, stray, unsaved>>
    BY <1>5 DEF SilentEnd
  <2>2. OwnLists' = OwnLists /\ Seq(Callbacks)' = Seq(Callbacks) /\ Dialogs' = Dialogs
    BY <2>1 DEF OwnLists, OwnMessages, Callbacks, Dialogs
  <2>3. Typed'
    BY <2>1, <2>2 DEF Inv, Typed
  <2>4. Tracked'
    BY <2>1 DEF Inv, Tracked, OpenIsTracked, CrashNeedsStray, LastGenerating, Open
  <2>5. Shown'
    BY <2>1, SameShown DEF Inv
  <2> QED
    BY <2>3, <2>4, <2>5 DEF Inv
<1> QED
  BY <1>1, <1>2, <1>3, <1>4, <1>5, ChunkKeeps DEF Streaming

LEMMA FetchReturnsKeeps ==
    ASSUME Inv, NEW r \in fetches, NEW status \in {"complete", "error"}, FetchReturns(r, status)
    PROVE  Inv'
<1> DEFINE m == [Last(message) EXCEPT !.status = status, !.from = {r}]
           waits == message # <<>> /\ Last(message).status = "loading"
<1>1. /\ fetches' = fetches \ {r} /\ stray' = Strays(r)
      /\ UNCHANGED <<stored, timeouts, delayed, streams, ref, dialog, editing, nextId, unloaded,
                     page, loads, requests, edits, dangling>>
      /\ IF waits THEN message' = SetLast(message, m) /\ unsaved' = TRUE
                  ELSE UNCHANGED <<message, unsaved>>
  BY DEF FetchReturns
<1>2. Typed /\ OpenIsTracked /\ CrashNeedsStray /\ Shown /\ page = "up" /\ r \in Open
  BY DEF Inv, Tracked, FetchReturns, Open
<1>3. Open \ {r} \subseteq Strays(r) /\ stray \subseteq Strays(r)
  BY <1>2, OthersAreStray
<1>4. stray \subseteq stray' /\ Open' \subseteq stray'
  BY <1>1, <1>2, <1>3 DEF Open, Typed
<1>5. message' \in OwnLists' /\ unsaved' \in BOOLEAN /\ Shown'
  <2>1. OwnLists \subseteq OwnLists'
    BY <1>4, ListsGrow
  <2>2. CASE waits
    <3>1. message \in Seq(OwnMessages) /\ message # <<>>
      BY <1>2, <2>2 DEF Typed, OwnLists
    <3>2. Last(message) \in OwnMessages
      <4>1. Len(message) \in DOMAIN message
        BY <3>1
      <4> QED
        BY <3>1, <4>1 DEF Last
    <3>3. r \in stray \/ Last(message).request = r
      BY <1>2 DEF OpenIsTracked
    <3>4. r \in 0 .. MaxRequests
      BY <1>2, PlaygroundAssumption DEF Typed
    <3>5. m \in OwnMessages
      BY <3>2, <3>3, <3>4 DEF OwnMessages, Messages
    <3> HIDE DEF m
    <3>6. SetLast(message, m) \in OwnLists
      BY <3>1, <3>5, SetLastList DEF OwnLists
    <3> QED
      BY <1>1, <2>1, <2>2, <3>6 DEF Shown
  <2>3. CASE ~waits
    <3>1. UNCHANGED <<message, stored, timeouts, unsaved, page>>
      BY <1>1, <2>3
    <3> QED
      BY <1>2, <2>1, <3>1, SameShown DEF Typed
  <2> QED
    BY <2>2, <2>3
<1>6. Typed'
  <2>1. Seq(Callbacks) \subseteq Seq(Callbacks') /\ Dialogs \subseteq Dialogs' /\ OwnLists \subseteq OwnLists'
    BY <1>4, ListsGrow
  <2>2. stray' \subseteq 1 .. requests
    BY <1>1, <1>2 DEF Strays, Typed, Open
  <2> HIDE DEF m
  <2> QED
    BY <1>1, <1>2, <1>5, <2>1, <2>2 DEF Typed
<1>7. Tracked'
  <2>1. page' # "crashed"
    BY <1>1, <1>2
  <2> QED
    BY <1>4, <2>1, AllStray
<1> QED
  BY <1>5, <1>6, <1>7 DEF Inv

LEMMA FetchingKeeps == ASSUME Inv, NEW r \in fetches, Fetching(r) PROVE Inv'
<1>1. CASE FetchWithoutChoices(r)
  <2>1. /\ fetches' = fetches \ {r} /\ dangling' = TRUE
        /\ UNCHANGED <<message, stored, timeouts, delayed, streams, ref, dialog, editing, nextId,
                       unloaded, page, loads, requests, edits, stray, unsaved>>
    BY <1>1 DEF FetchWithoutChoices
  <2>2. OwnLists' = OwnLists /\ Seq(Callbacks)' = Seq(Callbacks) /\ Dialogs' = Dialogs
    BY <2>1 DEF OwnLists, OwnMessages, Callbacks, Dialogs
  <2>3. Typed'
    BY <2>1, <2>2 DEF Inv, Typed
  <2>4. Tracked'
    BY <2>1 DEF Inv, Tracked, OpenIsTracked, CrashNeedsStray, LastGenerating, Open
  <2>5. Shown'
    BY <2>1, SameShown DEF Inv
  <2> QED
    BY <2>3, <2>4, <2>5 DEF Inv
<1> QED
  BY <1>1, FetchReturnsKeeps DEF Fetching

-----------------------------------------------------------------------------
(* Every step keeps the invariant: timers and new requests. *)

LEMMA RunTimeoutKeeps == ASSUME Inv, RunTimeout PROVE Inv'
<1> DEFINE first == Head(timeouts)
<1>1. Typed /\ OpenIsTracked /\ CrashNeedsStray /\ Shown
  BY DEF Inv, Tracked
<1>2. timeouts # <<>> /\ timeouts \in Seq(Callbacks) /\ timeouts' = Tail(timeouts)
  BY <1>1 DEF RunTimeout, Typed
<1>3. /\ first \in Callbacks /\ timeouts' \in Seq(Callbacks)
      /\ Len(timeouts') = Len(timeouts) - 1 /\ Len(timeouts) \in Nat
      /\ \A i \in DOMAIN timeouts' : i + 1 \in DOMAIN timeouts /\ timeouts'[i] = timeouts[i + 1]
  BY <1>2
<1>4. first.op \in {"save", "defaults"} /\ first.list \in OwnLists
  <2> HIDE DEF first
  <2> QED
    BY <1>3 DEF Callbacks
<1>5. UNCHANGED <<delayed, streams, fetches, ref, dialog, editing, nextId, unloaded, page,
                  loads, requests, edits, dangling>>
  BY DEF RunTimeout
<1>6. CASE first.op = "save"
  <2>1. stored' = first.list /\ UNCHANGED <<message, stray, unsaved>>
    BY <1>6 DEF RunTimeout
  <2>2. OwnLists' = OwnLists /\ Callbacks' = Callbacks /\ Dialogs' = Dialogs
    BY <2>1 DEF OwnLists, OwnMessages, Callbacks, Dialogs
  <2>3. Typed'
    BY <1>1, <1>3, <1>4, <1>5, <2>1, <2>2 DEF Typed
  <2>4. Tracked'
    BY <1>1, <1>5, <2>1 DEF Tracked, OpenIsTracked, CrashNeedsStray, LastGenerating, Open
  <2>5. Shown'
    <3> SUFFICES ASSUME page = "up", ~unsaved, ~AnyGenerating, OnlySaves'
                 PROVE  message = Eventual'
      BY <1>5, <2>1 DEF Shown, AnyGenerating
    <3>1. OnlySaves
      <4> SUFFICES ASSUME NEW i \in DOMAIN timeouts PROVE timeouts[i].op = "save"
        BY DEF OnlySaves
      <4>1. CASE i = 1
        BY <1>2, <1>6, <4>1
      <4>2. CASE i # 1
        <5>1. i - 1 \in DOMAIN timeouts' /\ timeouts'[i - 1] = timeouts[i]
          BY <1>2, <1>3, <4>2
        <5> QED
          BY <5>1 DEF OnlySaves
      <4> QED
        BY <4>1, <4>2
    <3>2. message = Last(timeouts).list
      BY <1>1, <1>2, <3>1 DEF Shown, Eventual
    <3>3. CASE timeouts' = <<>>
      <4>1. Len(timeouts) = 1
        BY <1>3, <3>3
      <4>2. Last(timeouts) = first
        BY <1>2, <4>1 DEF Last
      <4>3. stored' # NoList
        BY <1>4, <2>1, ListsAreLists
      <4> QED
        BY <2>1, <3>2, <3>3, <4>2, <4>3 DEF Eventual, Restored
    <3>4. CASE timeouts' # <<>>
      <4>1. Last(timeouts') = Last(timeouts)
        BY <1>2, <1>3, <3>4 DEF Last
      <4> QED
        BY <3>2, <3>4, <4>1 DEF Eventual
    <3> QED
      BY <3>3, <3>4
  <2> QED
    BY <2>3, <2>4, <2>5 DEF Inv
<1>7. CASE first.op = "defaults"
  <2>1. /\ message' = IF page = "up" THEN DefaultMessages ELSE message
        /\ stray' = stray \cup Open
        /\ unsaved' = (stored # NoList \/ Tail(timeouts) # <<>>)
        /\ stored' = stored
    BY <1>7 DEF RunTimeout
  <2>2. stray \subseteq stray' /\ Open' \subseteq stray'
    BY <1>5, <2>1 DEF Open
  <2>3. /\ OwnLists \subseteq OwnLists' /\ Seq(Callbacks) \subseteq Seq(Callbacks')
        /\ Dialogs \subseteq Dialogs'
    BY <2>2, ListsGrow
  <2>4. Typed'
    <3>1. stray' \subseteq 1 .. requests
      BY <1>1, <2>1 DEF Typed, Open
    <3>2. message' \in OwnLists'
      BY <1>1, <2>1, <2>3, DefaultsAreOwn DEF Typed
    <3>3. unsaved' \in BOOLEAN
      BY <2>1
    <3> QED
      BY <1>1, <1>3, <1>5, <2>1, <2>3, <3>1, <3>2, <3>3 DEF Typed
  <2>5. Tracked'
    <3>1. page' = "crashed" => stray' # {}
      BY <1>1, <1>5, <2>2 DEF CrashNeedsStray
    <3> QED
      BY <2>2, <3>1, AllStray
  <2>6. Shown'
    <3> SUFFICES ASSUME page' = "up", ~unsaved' PROVE message' = Eventual'
      BY DEF Shown
    <3>1. stored = NoList /\ timeouts' = <<>>
      BY <1>2, <2>1
    <3> QED
      BY <1>5, <2>1, <3>1 DEF Eventual, Restored
  <2> QED
    BY <2>4, <2>5, <2>6 DEF Inv
<1> QED
  BY <1>4, <1>6, <1>7

(* sendRequest opens one request, and the reference follows a stream. *)
LEMMA Opened ==
    ASSUME Typed, NEW kind \in Kinds, SendRequest(kind)
    PROVE  /\ requests' = requests + 1 /\ requests' \in 0 .. MaxRequests
           /\ requests + 1 \in 0 .. MaxRequests
           /\ 1 .. requests \subseteq 1 .. requests'
           /\ streams' \subseteq 1 .. requests' /\ fetches' \subseteq 1 .. requests'
           /\ streams' \cap fetches' = {} /\ ref' \in 0 .. MaxRequests
           /\ Open' = Open \cup {requests'}
           /\ requests' \in streams' => ref' = requests'
<1>1. /\ requests \in Nat /\ requests' = requests + 1 /\ requests' \in 0 .. MaxRequests
      /\ requests' \in 1 .. requests' /\ 1 .. requests \subseteq 1 .. requests'
      /\ requests' \notin 1 .. requests
  BY PlaygroundAssumption DEF Typed, SendRequest
<1>2. kind \in {"stream", "fetch"}
  BY PlaygroundAssumption
<1>3. /\ streams \subseteq 1 .. requests /\ fetches \subseteq 1 .. requests
      /\ streams \cap fetches = {} /\ ref \in 0 .. MaxRequests
  BY DEF Typed
<1>4. CASE kind = "stream"
  <2>1. streams' = streams \cup {requests'} /\ fetches' = fetches /\ ref' = requests'
    BY <1>4 DEF SendRequest
  <2> QED
    BY <1>1, <1>3, <2>1 DEF Open
<1>5. CASE kind = "fetch"
  <2>1. streams' = streams /\ fetches' = fetches \cup {requests'} /\ ref' = ref
    BY <1>5 DEF SendRequest
  <2> QED
    BY <1>1, <1>3, <2>1 DEF Open
<1> QED
  BY <1>2, <1>4, <1>5

LEMMA OpenedIsTracked ==
    ASSUME Open \subseteq stray', Open' = Open \cup {requests'}, page' = "up",
           LastGenerating', Last(message').request = requests',
           requests' \in streams' => ref' = requests'
    PROVE  Tracked'
  BY DEF Tracked, OpenIsTracked, CrashNeedsStray

(* The messages of onMessageSend: the last one waits for the request. *)
LEMMA AskedList ==
    ASSUME Typed, requests + 1 \in 0 .. MaxRequests, NEW customBody
    PROVE  LET list == message \o Question(customBody)
           IN  /\ list \in OwnLists /\ list # <<>>
               /\ Last(list).status = "loading" /\ Last(list).request = requests + 1
<1> DEFINE m1 == Message(IF customBody THEN nextId ELSE nextId + 2, "user", "none", 0)
           m2 == Message(nextId + 1, "assistant", "loading", requests + 1)
           list == message \o <<m1, m2>>
<1>1. m1 \in OwnMessages
  <2>1. (IF customBody THEN nextId ELSE nextId + 2) \in Nat /\ 0 \in 0 .. MaxRequests
    BY PlaygroundAssumption DEF Typed
  <2> QED
    BY <2>1, NewMessage
<1>2. m2 \in OwnMessages /\ m2.status = "loading" /\ m2.request = requests + 1
  <2>1. nextId + 1 \in Nat
    BY DEF Typed
  <2> QED
    BY <2>1, NewMessage
<1>3. message \in Seq(OwnMessages)
  BY DEF Typed, OwnLists
<1>4. message \o Question(customBody) = list
  BY DEF Question
<1> HIDE DEF m1, m2
<1>5. list \in Seq(OwnMessages) /\ Len(list) = Len(message) + 2 /\ Len(message) \in Nat
  BY <1>1, <1>2, <1>3
<1>6. list[Len(message) + 2] = m2
  BY <1>1, <1>2, <1>3
<1>7. Last(list) = m2 /\ list # <<>>
  BY <1>5, <1>6 DEF Last
<1> QED
  BY <1>2, <1>4, <1>5, <1>7 DEF OwnLists

LEMMA OnMessageSendKeeps ==
    ASSUME Inv, page = "up", NEW kind \in Kinds, NEW customBody \in BOOLEAN,
           OnMessageSend(kind, customBody), Open \subseteq stray', stray \subseteq stray',
           stray' \subseteq 1 .. requests, delayed' \in Seq({"resend", "regenerate"}),
           UNCHANGED <<stored, dialog, editing, unloaded, page, loads, edits, dangling>>
    PROVE  Inv'
<1> DEFINE list == message \o Question(customBody)
<1>1. Typed
  BY DEF Inv
<1>2. /\ requests' = requests + 1 /\ requests' \in 0 .. MaxRequests
      /\ requests + 1 \in 0 .. MaxRequests
      /\ 1 .. requests \subseteq 1 .. requests'
      /\ streams' \subseteq 1 .. requests' /\ fetches' \subseteq 1 .. requests'
      /\ streams' \cap fetches' = {} /\ ref' \in 0 .. MaxRequests
      /\ Open' = Open \cup {requests'}
      /\ requests' \in streams' => ref' = requests'
  BY <1>1, Opened DEF OnMessageSend
<1>3. /\ list \in OwnLists /\ list # <<>>
      /\ Last(list).status = "loading" /\ Last(list).request = requests + 1
  BY <1>1, <1>2, AskedList
<1>4. SetAndSave(list)
  BY DEF OnMessageSend
<1>5. nextId' \in Nat
  BY <1>1 DEF OnMessageSend, SpendIds, Typed
<1> HIDE DEF list
<1>6. /\ message' \in OwnLists /\ timeouts' \in Seq(Callbacks) /\ Shown'
      /\ unsaved' = FALSE /\ message' = list
  BY <1>1, <1>3, <1>4, SetAndSaveKeeps DEF SetAndSave
<1>7. /\ OwnLists \subseteq OwnLists' /\ Seq(Callbacks) \subseteq Seq(Callbacks')
      /\ Dialogs \subseteq Dialogs'
  BY ListsGrow
<1>8. Typed'
  BY <1>1, <1>2, <1>5, <1>6, <1>7 DEF Typed
<1>9. Tracked'
  <2>1. LastGenerating'
    BY <1>3, <1>6 DEF LastGenerating, Generating
  <2> QED
    BY <1>2, <1>3, <1>6, <2>1, OpenedIsTracked
<1> QED
  BY <1>6, <1>8, <1>9 DEF Inv

LEMMA RunDelayedKeeps == ASSUME Inv, NEW kind \in Kinds, RunDelayed(kind) PROVE Inv'
<1>1. /\ page = "up" /\ delayed # <<>> /\ delayed' = Tail(delayed) /\ stray' = stray \cup Open
      /\ UNCHANGED <<stored, dialog, editing, unloaded, page, loads, edits, dangling>>
  BY DEF RunDelayed
<1>2. Typed
  BY DEF Inv
<1>3. delayed' \in Seq({"resend", "regenerate"})
  BY <1>1, <1>2 DEF Typed
<1>4. stray \subseteq stray' /\ Open \subseteq stray' /\ stray' \subseteq 1 .. requests
  BY <1>1, <1>2 DEF Typed, Open
<1>5. CASE OnMessageSend(kind, FALSE)
  BY <1>1, <1>3, <1>4, <1>5, OnMessageSendKeeps
<1>6. CASE /\ SendRequest(kind)
           /\ message' = Append(message, Message(nextId, "assistant", "loading", requests + 1))
           /\ nextId' = nextId + 1
           /\ UNCHANGED <<timeouts, unsaved>>
  <2> DEFINE m == Message(nextId, "assistant", "loading", requests + 1)
  <2>1. /\ requests' = requests + 1 /\ requests' \in 0 .. MaxRequests
        /\ requests + 1 \in 0 .. MaxRequests
        /\ 1 .. requests \subseteq 1 .. requests'
        /\ streams' \subseteq 1 .. requests' /\ fetches' \subseteq 1 .. requests'
        /\ streams' \cap fetches' = {} /\ ref' \in 0 .. MaxRequests
        /\ Open' = Open \cup {requests'}
        /\ requests' \in streams' => ref' = requests'
    BY <1>2, <1>6, Opened
  <2>2. m \in OwnMessages /\ m.status = "loading" /\ m.request = requests + 1
    <3>1. nextId \in Nat
      BY <1>2 DEF Typed
    <3> QED
      BY <1>2, <2>1, <3>1, NewMessage
  <2>3. message' = Append(message, m) /\ message \in Seq(OwnMessages)
    BY <1>2, <1>6 DEF Typed, OwnLists
  <2> HIDE DEF m
  <2>4. /\ message' \in Seq(OwnMessages) /\ message' # <<>>
        /\ Last(message') = m /\ message'[Len(message')] = m
        /\ Len(message') \in DOMAIN message'
    BY <2>2, <2>3, AppendList
  <2>5. /\ OwnLists \subseteq OwnLists' /\ Seq(Callbacks) \subseteq Seq(Callbacks')
        /\ Dialogs \subseteq Dialogs'
    BY <1>4, ListsGrow
  <2>6. message' \in OwnLists' /\ nextId' \in Nat
    <3>1. message' \in OwnLists
      BY <2>4 DEF OwnLists
    <3>2. nextId' \in Nat
      BY <1>2, <1>6 DEF Typed
    <3> QED
      BY <2>5, <3>1, <3>2
  <2>7. Typed'
    BY <1>1, <1>2, <1>3, <1>4, <1>6, <2>1, <2>5, <2>6 DEF Typed
  <2>8. Generating(Last(message')) /\ LastGenerating' /\ AnyGenerating'
    BY <2>2, <2>4 DEF LastGenerating, AnyGenerating, Generating
  <2>9. Tracked'
    BY <1>1, <1>4, <2>1, <2>2, <2>4, <2>8, OpenedIsTracked
  <2>10. Shown'
    BY <2>8 DEF Shown
  <2> QED
    BY <2>7, <2>9, <2>10 DEF Inv
<1> QED
  BY <1>5, <1>6 DEF RunDelayed

LEMMA SendKeeps ==
    ASSUME Inv, NEW kind \in Kinds, NEW customBody \in CustomBodies, Send(kind, customBody)
    PROVE  Inv'
<1>1. /\ page = "up" /\ ~LastGenerating /\ OnMessageSend(kind, customBody)
      /\ UNCHANGED <<stored, delayed, dialog, editing, unloaded, page, loads, edits, stray, dangling>>
  BY DEF Send, UserActs
<1>2. customBody \in BOOLEAN
  BY PlaygroundAssumption
<1>3. Open \subseteq stray
  BY <1>1, IdleIsStray DEF Inv, Tracked
<1>4. Open \subseteq stray' /\ stray \subseteq stray' /\ stray' \subseteq 1 .. requests
      /\ delayed' \in Seq({"resend", "regenerate"})
  BY <1>1, <1>3 DEF Inv, Typed
<1> QED
  BY <1>1, <1>2, <1>4, OnMessageSendKeeps

LEMMA SendFailsKeeps ==
    ASSUME Inv, NEW customBody \in CustomBodies, SendFails(customBody)
    PROVE  Inv'
<1> DEFINE sent == message \o Question(customBody)
           r == requests + 1
           m == [Last(sent) EXCEPT !.status = "incomplete", !.from = @ \cup {r}]
           told == StreamMessageUpdate(sent, r)
           failed == CompleteMessage(told, "error")
<1>1. /\ page = "up" /\ ~LastGenerating /\ requests < MaxRequests
      /\ requests' = requests + 1 /\ ref' = requests' /\ message' = failed
      /\ timeouts' = timeouts \o <<Saving(sent), Saving(failed)>>
      /\ unsaved' = FALSE /\ SpendIds(customBody)
      /\ UNCHANGED <<streams, fetches, stored, delayed, dialog, editing, unloaded, page, loads,
                     edits, stray, dangling>>
  BY DEF SendFails, UserActs, StreamThrows
<1>2. Typed
  BY DEF Inv
<1>3. r \in 0 .. MaxRequests /\ requests' \in 0 .. MaxRequests /\ ref' \in 0 .. MaxRequests
      /\ 1 .. requests \subseteq 1 .. requests'
  BY <1>1, <1>2, PlaygroundAssumption DEF Typed
<1>4. sent \in OwnLists /\ sent # <<>> /\ Last(sent).status = "loading" /\ Last(sent).request = r
  BY <1>2, <1>3, AskedList
<1>5. nextId' \in Nat
  <2>1. customBody \in BOOLEAN
    BY PlaygroundAssumption
  <2> QED
    BY <1>1, <1>2, <2>1 DEF SpendIds, Typed
<1> HIDE DEF sent
<1>6. sent \in Seq(OwnMessages) /\ Last(sent) \in OwnMessages
  <2>1. sent \in Seq(OwnMessages)
    BY <1>4 DEF OwnLists
  <2>2. Len(sent) \in DOMAIN sent
    BY <1>4, <2>1
  <2> QED
    BY <2>1, <2>2 DEF Last
<1>7. told \in OwnLists /\ told # <<>>
  <2>1. m \in OwnMessages
    BY <1>3, <1>4, <1>6 DEF OwnMessages, Messages
  <2>2. told \in {sent, SetLast(sent, m)}
    BY DEF StreamMessageUpdate
  <2> HIDE DEF m, told
  <2>3. SetLast(sent, m) \in OwnLists /\ SetLast(sent, m) # <<>>
    BY <1>4, <1>6, <2>1, SetLastList DEF OwnLists
  <2> QED
    BY <1>4, <2>2, <2>3
<1> HIDE DEF told
<1>8. failed \in OwnLists
  BY <1>7, CompletedList
<1> HIDE DEF failed
<1>9. timeouts' \in Seq(Callbacks) /\ timeouts' # <<>> /\ Last(timeouts').list = failed
  <2>1. /\ Saving(sent) \in Callbacks /\ Saving(failed) \in Callbacks
        /\ Saving(failed).list = failed
    BY <1>4, <1>8, SavingList
  <2>2. timeouts \in Seq(Callbacks)
    BY <1>2 DEF Typed
  <2>3. /\ timeouts' \in Seq(Callbacks) /\ Len(timeouts') = Len(timeouts) + 2
        /\ Len(timeouts) \in Nat
    BY <1>1, <2>1, <2>2
  <2>4. timeouts'[Len(timeouts) + 2] = Saving(failed)
    BY <1>1, <2>1, <2>2
  <2>5. Last(timeouts') = Saving(failed) /\ timeouts' # <<>>
    BY <2>3, <2>4 DEF Last
  <2> QED
    BY <2>1, <2>3, <2>5
<1>10. Shown'
  <2>1. message' = Eventual'
    BY <1>1, <1>9 DEF Eventual
  <2> QED
    BY <2>1 DEF Shown
<1>11. Open \subseteq stray
  BY <1>1, IdleIsStray DEF Inv, Tracked
<1>12. Tracked'
  <2>1. Open' \subseteq stray' /\ page' # "crashed"
    BY <1>1, <1>11 DEF Open
  <2> QED
    BY <2>1, AllStray
<1>13. Typed'
  <2>1. OwnLists' = OwnLists /\ Callbacks' = Callbacks /\ Dialogs' = Dialogs
    BY <1>1 DEF OwnLists, OwnMessages, Callbacks, Dialogs
  <2> QED
    BY <1>1, <1>2, <1>3, <1>5, <1>8, <1>9, <2>1 DEF Typed
<1> QED
  BY <1>10, <1>12, <1>13 DEF Inv

-----------------------------------------------------------------------------
(* Every step keeps the invariant: the user. *)

(* A handler that sets and saves a list, and leaves no request in sight. *)
LEMMA SettingKeeps ==
    ASSUME Inv, page = "up", NEW list \in OwnLists, SetAndSave(list),
           Open' \subseteq stray', stray \subseteq stray', stray' \subseteq 1 .. requests,
           streams' \subseteq streams, ref' \in 0 .. MaxRequests, dialog' \in {NoDialog, dialog},
           editing' \in {NoMessage, editing}, edits' \in 0 .. MaxEdits,
           delayed' \in Seq({"resend", "regenerate"}), dangling' \in BOOLEAN,
           UNCHANGED <<stored, fetches, nextId, unloaded, page, loads, requests>>
    PROVE  Inv'
<1>1. Typed
  BY DEF Inv
<1>2. message' \in OwnLists /\ timeouts' \in Seq(Callbacks) /\ Shown' /\ unsaved' = FALSE
  BY <1>1, SetAndSaveKeeps
<1>3. /\ OwnLists \subseteq OwnLists' /\ Seq(Callbacks) \subseteq Seq(Callbacks')
      /\ Dialogs \subseteq Dialogs'
  BY ListsGrow
<1>4. dialog' \in Dialogs' /\ (dialog'.kind = "edit" => dialog'.index <= Len(dialog'.list))
  <2>1. NoDialog \in Dialogs' /\ NoDialog.kind # "edit"
    BY DEF Dialogs, NoDialog
  <2> QED
    BY <1>1, <1>3, <2>1 DEF Typed
<1>5. Typed'
  BY <1>1, <1>2, <1>3, <1>4 DEF Typed
<1>6. Tracked'
  BY AllStray
<1> QED
  BY <1>2, <1>5, <1>6 DEF Inv

(* A handler that leaves the conversation unsaved. *)
LEMMA UnsavedKeeps ==
    ASSUME Inv, page = "up", message' \in OwnLists, unsaved' = TRUE,
           Open \subseteq stray', stray \subseteq stray', stray' \subseteq 1 .. requests,
           stored' \in {NoList, stored}, edits' \in 0 .. MaxEdits,
           delayed' \in Seq({"resend", "regenerate"}),
           UNCHANGED <<timeouts, streams, fetches, ref, dialog, editing, nextId, unloaded, page,
                       loads, requests, dangling>>
    PROVE  Inv'
<1>1. /\ OwnLists \subseteq OwnLists' /\ Seq(Callbacks) \subseteq Seq(Callbacks')
      /\ Dialogs \subseteq Dialogs'
  BY ListsGrow
<1>2. Typed'
  BY <1>1 DEF Inv, Typed
<1>3. Tracked'
  <2>1. Open' \subseteq stray' /\ page' # "crashed"
    BY DEF Open
  <2> QED
    BY <2>1, AllStray
<1>4. Shown'
  BY DEF Shown
<1> QED
  BY <1>2, <1>3, <1>4 DEF Inv

(* A handler that only opens or closes a dialog or the editor. *)
LEMMA LookingKeeps ==
    ASSUME Inv, dialog' \in Dialogs, dialog'.kind # "edit" \/ dialog' = dialog,
           editing' \in {NoMessage} \cup Messages, edits' \in 0 .. MaxEdits,
           UNCHANGED <<message, stored, timeouts, delayed, streams, fetches, ref, nextId,
                       unloaded, page, loads, requests, history>>
    PROVE  Inv'
<1>1. UNCHANGED <<stray, unsaved, dangling>>
  BY DEF history
<1>2. OwnLists' = OwnLists /\ Callbacks' = Callbacks /\ Dialogs' = Dialogs
  BY <1>1 DEF OwnLists, OwnMessages, Callbacks, Dialogs
<1>3. Typed'
  BY <1>1, <1>2 DEF Inv, Typed
<1>4. Tracked'
  BY <1>1 DEF Inv, Tracked, OpenIsTracked, CrashNeedsStray, LastGenerating, Open
<1>5. Shown'
  BY <1>1, SameShown DEF Inv
<1> QED
  BY <1>3, <1>4, <1>5 DEF Inv

LEMMA EditsCount == ASSUME Inv, Edits PROVE edits' \in 0 .. MaxEdits /\ page = "up"
  BY PlaygroundAssumption DEF Inv, Typed, Edits, UserActs

LEMMA OnStopGeneratorKeeps == ASSUME Inv, OnStopGenerator PROVE Inv'
<1> DEFINE list == SetLast(message, [Last(message) EXCEPT !.status = "complete"])
<1>1. /\ page = "up" /\ LastGenerating /\ streams' = streams \ {ref} /\ ref' = 0
      /\ SetAndSave(list)
      /\ stray' = stray \cup fetches \cup (IF ref = 0 THEN streams ELSE {})
      /\ UNCHANGED <<stored, delayed, fetches, dialog, editing, nextId, unloaded, page, loads,
                     requests, edits, dangling>>
  BY DEF OnStopGenerator, UserActs
<1>2. Typed /\ OpenIsTracked
  BY DEF Inv, Tracked
<1>3. list \in OwnLists
  <2>1. message \in OwnLists /\ message # <<>> /\ "complete" \in Statuses
    BY <1>1, <1>2 DEF Typed, LastGenerating, Statuses
  <2> QED
    BY <2>1, StatusOfLast
<1> HIDE DEF list
<1>4. stray \subseteq stray' /\ stray' \subseteq 1 .. requests
  BY <1>1, <1>2 DEF Typed
<1>5. Open' \subseteq stray'
  <2> SUFFICES ASSUME NEW r \in streams, r # ref, r \notin stray' PROVE FALSE
    BY <1>1 DEF Open
  <2>1. r \in Open \ stray
    BY <1>4 DEF Open
  <2>2. ref = r
    BY <1>1, <1>2, <2>1 DEF OpenIsTracked
  <2> QED
    BY <2>2
<1>6. ref' \in 0 .. MaxRequests
  BY <1>1, PlaygroundAssumption
<1>7. /\ delayed' \in Seq({"resend", "regenerate"}) /\ edits' \in 0 .. MaxEdits
      /\ dangling' \in BOOLEAN
  BY <1>1, <1>2 DEF Typed
<1> QED
  BY <1>1, <1>3, <1>4, <1>5, <1>6, <1>7, SettingKeeps

LEMMA HandleMessageResetKeeps ==
    ASSUME Inv, NEW m, HandleMessageReset(m)
    PROVE  Inv'
<1> DEFINE index == IndexOf(message, m)
           users == {i \in 1 .. index : message[i].role = "user"}
<1>1. /\ Edits /\ Actionable(m) /\ users # {}
      /\ message' = SubSeq(message, 1, Max(users) - 1)
      /\ delayed' = Append(delayed, "resend") /\ unsaved' = TRUE
      /\ UNCHANGED <<stored, timeouts, streams, fetches, ref, dialog, editing, nextId, unloaded,
                     page, loads, requests, stray, dangling>>
  BY DEF HandleMessageReset
<1>2. Typed /\ OpenIsTracked /\ page = "up" /\ edits' \in 0 .. MaxEdits
  BY <1>1, EditsCount DEF Inv, Tracked
<1>3. message \in Seq(OwnMessages) /\ Len(message) \in Nat /\ DOMAIN message = 1 .. Len(message)
  BY <1>2 DEF Typed, OwnLists
<1>4. index \in DOMAIN message
  <2>1. index # 0
    BY <1>1
  <2> HIDE DEF users
  <2> QED
    BY <1>3, <2>1, IndexOfPlace
<1> HIDE DEF index
<1>5. Max(users) \in 1 .. index
  <2>1. users \in SUBSET (1 .. index) /\ index \in Nat
    BY <1>3, <1>4
  <2> HIDE DEF users
  <2>2. Max(users) \in users
    BY <1>1, <2>1, MaxOf
  <2> QED
    BY <2>1, <2>2
<1> HIDE DEF users
<1>6. message' \in OwnLists
  <2>1. Max(users) - 1 \in 0 .. Len(message)
    BY <1>3, <1>4, <1>5
  <2> QED
    BY <1>1, <1>3, <2>1, CutList DEF OwnLists
<1>7. Open \subseteq stray
  BY <1>1, <1>2, QuietIsStray DEF Actionable
<1>8. delayed' \in Seq({"resend", "regenerate"}) /\ stray' \subseteq 1 .. requests
  BY <1>1, <1>2 DEF Typed
<1> QED
  BY <1>1, <1>2, <1>6, <1>7, <1>8, UnsavedKeeps

LEMMA HandleMessageDeleteKeeps ==
    ASSUME Inv, NEW m \in Messages, HandleMessageDelete(m)
    PROVE  Inv'
<1>1. edits' \in 0 .. MaxEdits
  BY EditsCount DEF HandleMessageDelete
<1>2. dialog' \in Dialogs /\ dialog'.kind # "edit"
  BY DEF HandleMessageDelete, Dialogs
<1>3. /\ editing' \in {NoMessage} \cup Messages
      /\ UNCHANGED <<message, stored, timeouts, delayed, streams, fetches, ref, nextId,
                     unloaded, page, loads, requests, history>>
  BY DEF HandleMessageDelete, Inv, Typed
<1> QED
  BY <1>1, <1>2, <1>3, LookingKeeps

LEMMA HandleMessageEditKeeps ==
    ASSUME Inv, NEW m \in Messages, HandleMessageEdit(m)
    PROVE  Inv'
<1>1. edits' \in 0 .. MaxEdits
  BY EditsCount DEF HandleMessageEdit
<1>2. /\ dialog' = dialog /\ dialog' \in Dialogs /\ editing' \in {NoMessage} \cup Messages
      /\ UNCHANGED <<message, stored, timeouts, delayed, streams, fetches, ref, nextId,
                     unloaded, page, loads, requests, history>>
  BY DEF HandleMessageEdit, Inv, Typed
<1> QED
  BY <1>1, <1>2, LookingKeeps

LEMMA HandleRoleToggleKeeps ==
    ASSUME Inv, NEW m, HandleRoleToggle(m)
    PROVE  Inv'
<1> DEFINE role == IF m.role = "assistant" THEN "system" ELSE "assistant"
           list == [i \in DOMAIN message |->
                       IF message[i].id = m.id /\ message[i].role # "user"
                       THEN [message[i] EXCEPT !.role = role] ELSE message[i]]
<1>1. /\ Edits /\ Actionable(m) /\ SetAndSave(list)
      /\ UNCHANGED <<stored, delayed, streams, fetches, ref, dialog, editing, nextId, unloaded,
                     page, loads, requests, stray, dangling>>
  BY DEF HandleRoleToggle
<1>2. Typed /\ OpenIsTracked /\ page = "up" /\ edits' \in 0 .. MaxEdits
  BY <1>1, EditsCount DEF Inv, Tracked
<1>3. message \in Seq(OwnMessages) /\ Len(message) \in Nat /\ DOMAIN message = 1 .. Len(message)
  BY <1>2 DEF Typed, OwnLists
<1>4. list \in OwnLists
  <2>1. ASSUME NEW i \in 1 .. Len(message) PROVE list[i] \in OwnMessages
    <3>1. message[i] \in OwnMessages
      BY <1>3
    <3>2. [message[i] EXCEPT !.role = role] \in OwnMessages
      BY <3>1 DEF OwnMessages, Messages
    <3> HIDE DEF role
    <3> QED
      BY <1>3, <3>1, <3>2
  <2>2. list = [i \in 1 .. Len(message) |-> list[i]]
    BY <1>3
  <2> HIDE DEF list
  <2> QED
    BY <1>3, <2>1, <2>2, IsASeq DEF OwnLists
<1> HIDE DEF list
<1>5. Open \subseteq stray
  BY <1>1, <1>2, QuietIsStray DEF Actionable
<1>6. /\ Open' \subseteq stray' /\ stray \subseteq stray' /\ stray' \subseteq 1 .. requests
      /\ streams' \subseteq streams /\ ref' \in 0 .. MaxRequests
      /\ delayed' \in Seq({"resend", "regenerate"}) /\ dangling' \in BOOLEAN
  BY <1>1, <1>2, <1>5 DEF Typed, Open
<1> QED
  BY <1>1, <1>2, <1>4, <1>6, SettingKeeps

LEMMA OnMessageKeeps ==
    ASSUME Inv, NEW i \in DOMAIN message, OnMessage(message[i])
    PROVE  Inv'
<1>1. message[i] \in Messages
  <2>1. message \in Seq(OwnMessages)
    BY DEF Inv, Typed, OwnLists
  <2>2. message[i] \in OwnMessages
    BY <2>1
  <2> QED
    BY <2>2 DEF OwnMessages
<1> QED
  BY <1>1, HandleMessageResetKeeps, HandleMessageDeleteKeeps, HandleRoleToggleKeeps,
     HandleMessageEditKeeps DEF OnMessage

LEMMA DeleteConfirmedKeeps == ASSUME Inv, DeleteConfirmed PROVE Inv'
<1> DEFINE target == dialog.target
           list == AfterDelete(message, target)
<1>1. /\ page = "up" /\ dialog' = NoDialog
      /\ UNCHANGED <<stored, delayed, streams, fetches, ref, editing, nextId, unloaded, page,
                     loads, requests, edits, dangling>>
  BY DEF DeleteConfirmed
<1>2. Typed
  BY DEF Inv
<1>3. CASE UNCHANGED <<message, timeouts, unsaved, stray>>
  <2>1. dialog' \in Dialogs /\ dialog'.kind # "edit"
    BY <1>1 DEF Dialogs, NoDialog
  <2>2. editing' \in {NoMessage} \cup Messages /\ edits' \in 0 .. MaxEdits
    BY <1>1, <1>2 DEF Typed
  <2> QED
    BY <1>1, <1>3, <2>1, <2>2, LookingKeeps DEF history
<1>4. CASE SetAndSave(list) /\ stray' = stray \cup Open
  <2>1. message \in Seq(OwnMessages)
    BY <1>2 DEF Typed, OwnLists
  <2>2. list \in OwnLists
    <3> DEFINE index == IndexOf(message, target)
               p1 == DOMAIN message \ {index, index + 1}
               p2 == {i \in DOMAIN message : message[i].id # target.id}
    <3>1. list \in {Subsequence(message, p1), Subsequence(message, p2)}
      BY DEF AfterDelete
    <3>2. p1 \in SUBSET DOMAIN message /\ p2 \in SUBSET DOMAIN message
      OBVIOUS
    <3> HIDE DEF p1, p2, list
    <3> QED
      BY <2>1, <3>1, <3>2, SubsequenceOf DEF OwnLists
  <2> HIDE DEF list
  <2>3. /\ Open' \subseteq stray' /\ stray \subseteq stray' /\ stray' \subseteq 1 .. requests
        /\ streams' \subseteq streams /\ ref' \in 0 .. MaxRequests /\ edits' \in 0 .. MaxEdits
        /\ delayed' \in Seq({"resend", "regenerate"}) /\ dangling' \in BOOLEAN
    BY <1>1, <1>2, <1>4 DEF Typed, Open
  <2> QED
    BY <1>1, <1>4, <2>2, <2>3, SettingKeeps
<1> QED
  BY <1>3, <1>4 DEF DeleteConfirmed

LEMMA DeleteCancelledKeeps == ASSUME Inv, DeleteCancelled PROVE Inv'
<1>1. dialog' \in Dialogs /\ dialog'.kind # "edit"
  BY DEF DeleteCancelled, Dialogs, NoDialog
<1>2. /\ editing' \in {NoMessage} \cup Messages /\ edits' \in 0 .. MaxEdits
      /\ UNCHANGED <<message, stored, timeouts, delayed, streams, fetches, ref, nextId,
                     unloaded, page, loads, requests, history>>
  BY DEF DeleteCancelled, Inv, Typed
<1> QED
  BY <1>1, <1>2, LookingKeeps

LEMMA HandleEditCancelKeeps == ASSUME Inv, HandleEditCancel PROVE Inv'
<1>1. /\ dialog' = dialog /\ dialog' \in Dialogs /\ editing' \in {NoMessage} \cup Messages
      /\ edits' \in 0 .. MaxEdits
      /\ UNCHANGED <<message, stored, timeouts, delayed, streams, fetches, ref, nextId,
                     unloaded, page, loads, requests, history>>
  BY DEF HandleEditCancel, Inv, Typed
<1> QED
  BY <1>1, LookingKeeps

(* The editor stays open while answers arrive: its save leaves the message  *)
(* that is waited for in its place, with its status.                        *)
LEMMA HandleEditSaveKeeps == ASSUME Inv, HandleEditSave PROVE Inv'
<1> DEFINE index == IndexOf(message, editing)
           Edited(i) == [message[i] EXCEPT !.edited = TRUE]
           updated == [i \in DOMAIN message |->
                          IF message[i].id = editing.id THEN Edited(i) ELSE message[i]]
<1>1. /\ page = "up" /\ index # 0 /\ editing' = NoMessage
      /\ UNCHANGED <<stored, delayed, streams, fetches, ref, nextId, unloaded, page, loads,
                     requests, edits, stray, dangling>>
      /\ \/ /\ dialog' = [kind |-> "edit", list |-> updated, index |-> index]
            /\ UNCHANGED <<message, timeouts, unsaved>>
         \/ SetAndSave(updated) /\ dialog' = dialog
  BY DEF HandleEditSave, UserActs
<1>2. Typed /\ OpenIsTracked /\ CrashNeedsStray /\ Shown
  BY DEF Inv, Tracked
<1>3. message \in Seq(OwnMessages) /\ Len(message) \in Nat /\ DOMAIN message = 1 .. Len(message)
  BY <1>2 DEF Typed, OwnLists
<1>4. index \in DOMAIN message
  BY <1>1, <1>3, IndexOfPlace
<1> HIDE DEF index
<1>5. ASSUME NEW i \in 1 .. Len(message)
      PROVE  /\ updated[i] \in OwnMessages /\ updated[i].status = message[i].status
             /\ updated[i].request = message[i].request
  <2>1. message[i] \in OwnMessages
    BY <1>3
  <2>2. /\ Edited(i) \in OwnMessages /\ Edited(i).status = message[i].status
        /\ Edited(i).request = message[i].request
    BY <2>1 DEF OwnMessages, Messages
  <2>3. updated[i] = Edited(i) \/ updated[i] = message[i]
    BY <1>3
  <2> HIDE DEF Edited, updated
  <2> QED
    BY <2>1, <2>2, <2>3
<1>6. updated \in OwnLists /\ Len(updated) = Len(message)
  <2>1. updated = [i \in 1 .. Len(message) |-> updated[i]]
    BY <1>3
  <2> HIDE DEF updated
  <2>2. updated \in Seq(OwnMessages)
    BY <1>3, <1>5, <2>1, IsASeq
  <2>3. DOMAIN updated = 1 .. Len(message)
    BY <2>1
  <2>4. Len(updated) = Len(message)
    BY <1>3, <2>2, <2>3
  <2> QED
    BY <2>2, <2>4 DEF OwnLists
<1> HIDE DEF updated
<1>7. OwnLists' = OwnLists /\ Callbacks' = Callbacks /\ Dialogs' = Dialogs
  BY <1>1 DEF OwnLists, OwnMessages, Callbacks, Dialogs
<1>8. CASE /\ dialog' = [kind |-> "edit", list |-> updated, index |-> index]
           /\ UNCHANGED <<message, timeouts, unsaved>>
  <2>1. dialog' \in Dialogs /\ dialog'.index <= Len(dialog'.list)
    <3>1. index \in Nat /\ index <= Len(updated)
      BY <1>3, <1>4, <1>6
    <3> QED
      BY <1>6, <1>8, <3>1 DEF Dialogs
  <2>2. Typed'
    BY <1>1, <1>2, <1>7, <1>8, <2>1 DEF Typed
  <2>3. Tracked'
    BY <1>1, <1>2, <1>8 DEF Tracked, OpenIsTracked, CrashNeedsStray, LastGenerating, Open
  <2>4. Shown'
    BY <1>1, <1>2, <1>8, SameShown
  <2> QED
    BY <2>2, <2>3, <2>4 DEF Inv
<1>9. CASE SetAndSave(updated) /\ dialog' = dialog
  <2>1. message' = updated
    BY <1>9 DEF SetAndSave
  <2>2. message' \in OwnLists /\ timeouts' \in Seq(Callbacks) /\ Shown' /\ unsaved' = FALSE
    BY <1>2, <1>6, <1>9, SetAndSaveKeeps
  <2>3. Typed'
    BY <1>1, <1>2, <1>7, <1>9, <2>2 DEF Typed
  <2>4. LastGenerating => /\ LastGenerating'
                          /\ Last(message').request = Last(message).request
    <3> SUFFICES ASSUME LastGenerating
                 PROVE  LastGenerating' /\ Last(message').request = Last(message).request
      OBVIOUS
    <3>1. message # <<>> /\ Len(message) \in 1 .. Len(message)
      BY <1>3 DEF LastGenerating
    <3>2. /\ Last(message').status = Last(message).status
          /\ Last(message').request = Last(message).request
      BY <1>5, <1>6, <2>1, <3>1 DEF Last
    <3>3. message' # <<>>
      <4>1. updated \in Seq(OwnMessages) /\ Len(updated) # 0
        BY <1>3, <1>6, <3>1 DEF OwnLists
      <4> QED
        BY <2>1, <4>1
    <3> QED
      BY <3>2, <3>3 DEF LastGenerating, Generating
  <2>5. Tracked'
    BY <1>1, <1>2, <2>4 DEF Tracked, OpenIsTracked, CrashNeedsStray, Open
  <2> QED
    BY <2>2, <2>3, <2>5 DEF Inv
<1> QED
  BY <1>1, <1>8, <1>9

LEMMA EditDialog ==
    ASSUME Typed, dialog.kind = "edit"
    PROVE  /\ dialog.list \in OwnLists /\ dialog.index \in Nat
           /\ dialog.index <= Len(dialog.list)
<1>1. dialog \in [kind : {"edit"}, list : OwnLists, index : Nat]
  BY DEF Typed, Dialogs, NoDialog
<1> QED
  BY <1>1 DEF Typed

LEMMA EditRegenerateKeeps == ASSUME Inv, EditRegenerate PROVE Inv'
<1> DEFINE list == SubSeq(dialog.list, 1, dialog.index)
<1>1. /\ page = "up" /\ dialog.kind = "edit" /\ dialog' = NoDialog /\ SetAndSave(list)
      /\ delayed' = Append(delayed, "regenerate") /\ stray' = stray \cup Open
      /\ UNCHANGED <<stored, streams, fetches, ref, editing, nextId, unloaded, page, loads,
                     requests, edits, dangling>>
  BY DEF EditRegenerate
<1>2. Typed
  BY DEF Inv
<1>3. list \in OwnLists
  <2>1. /\ dialog.list \in Seq(OwnMessages) /\ dialog.index \in Nat
        /\ dialog.index <= Len(dialog.list)
    BY <1>1, <1>2, EditDialog DEF OwnLists
  <2>2. dialog.index \in 0 .. Len(dialog.list)
    BY <2>1
  <2> QED
    BY <2>1, <2>2, CutList DEF OwnLists
<1> HIDE DEF list
<1>4. /\ Open' \subseteq stray' /\ stray \subseteq stray' /\ stray' \subseteq 1 .. requests
      /\ streams' \subseteq streams /\ ref' \in 0 .. MaxRequests /\ edits' \in 0 .. MaxEdits
      /\ delayed' \in Seq({"resend", "regenerate"}) /\ dangling' \in BOOLEAN
  BY <1>1, <1>2 DEF Typed, Open
<1> QED
  BY <1>1, <1>3, <1>4, SettingKeeps

LEMMA EditOnlyKeeps == ASSUME Inv, EditOnly PROVE Inv'
<1>1. /\ page = "up" /\ dialog.kind = "edit" /\ dialog' = NoDialog /\ SetAndSave(dialog.list)
      /\ stray' = stray \cup Open
      /\ UNCHANGED <<stored, delayed, streams, fetches, ref, editing, nextId, unloaded, page,
                     loads, requests, edits>>
  BY DEF EditOnly
<1>2. dangling' \in BOOLEAN
  BY DEF EditOnly, Inv, Typed
<1>3. Typed
  BY DEF Inv
<1>4. dialog.list \in OwnLists
  BY <1>1, <1>3, EditDialog
<1>5. /\ Open' \subseteq stray' /\ stray \subseteq stray' /\ stray' \subseteq 1 .. requests
      /\ streams' \subseteq streams /\ ref' \in 0 .. MaxRequests /\ edits' \in 0 .. MaxEdits
      /\ delayed' \in Seq({"resend", "regenerate"})
  BY <1>1, <1>3 DEF Typed, Open
<1> QED
  BY <1>1, <1>2, <1>4, <1>5, SettingKeeps

LEMMA HandleClearMessagesKeeps == ASSUME Inv, HandleClearMessages PROVE Inv'
<1>1. /\ page = "up" /\ SetAndSave(<<>>) /\ stray' = stray \cup Open /\ edits' \in 0 .. MaxEdits
      /\ UNCHANGED <<stored, delayed, streams, fetches, ref, dialog, editing, nextId, unloaded,
                     page, loads, requests, dangling>>
  BY EditsCount DEF HandleClearMessages
<1>2. <<>> \in OwnLists
  BY DEF OwnLists
<1>3. /\ Open' \subseteq stray' /\ stray \subseteq stray' /\ stray' \subseteq 1 .. requests
      /\ streams' \subseteq streams /\ ref' \in 0 .. MaxRequests /\ dangling' \in BOOLEAN
      /\ delayed' \in Seq({"resend", "regenerate"})
  BY <1>1 DEF Inv, Typed, Open
<1> QED
  BY <1>1, <1>2, <1>3, SettingKeeps

(* The second half of the reset waits: nothing is said of the page till then. *)
LEMMA HandleConfigResetKeeps ==
    ASSUME Inv, NEW resetMessages \in BOOLEAN, HandleConfigReset(resetMessages)
    PROVE  Inv'
<1>1. /\ page = "up" /\ edits' \in 0 .. MaxEdits /\ stored' = NoList
      /\ UNCHANGED <<delayed, streams, fetches, ref, dialog, editing, nextId, unloaded, page,
                     loads, requests, dangling>>
  BY EditsCount DEF HandleConfigReset
<1>2. Typed /\ OpenIsTracked /\ CrashNeedsStray
  BY DEF Inv, Tracked
<1>3. CASE resetMessages
  <2>1. /\ message' = <<>> /\ timeouts' = Append(timeouts, Resetting)
        /\ unsaved' = (timeouts # <<>>) /\ stray' = stray \cup Open
    BY <1>3 DEF HandleConfigReset
  <2>2. Resetting \in Callbacks /\ Resetting.op = "defaults" /\ <<>> \in OwnLists
    BY DEF Resetting, Callbacks, OwnLists
  <2>3. timeouts \in Seq(Callbacks)
    BY <1>2 DEF Typed
  <2>4. /\ timeouts' \in Seq(Callbacks) /\ timeouts'[Len(timeouts')] = Resetting
        /\ Len(timeouts') \in DOMAIN timeouts'
    BY <2>1, <2>2, <2>3, AppendList
  <2>5. Shown'
    BY <2>2, <2>4 DEF Shown, OnlySaves
  <2>6. stray \subseteq stray' /\ Open' \subseteq stray' /\ stray' \subseteq 1 .. requests
    BY <1>1, <1>2, <2>1 DEF Typed, Open
  <2>7. /\ OwnLists \subseteq OwnLists' /\ Seq(Callbacks) \subseteq Seq(Callbacks')
        /\ Dialogs \subseteq Dialogs'
    BY <2>6, ListsGrow
  <2>8. message' \in OwnLists' /\ unsaved' \in BOOLEAN
    BY <2>1, <2>2, <2>7
  <2>9. Typed'
    BY <1>1, <1>2, <2>4, <2>6, <2>7, <2>8 DEF Typed
  <2>10. Tracked'
    <3>1. page' # "crashed"
      BY <1>1
    <3> QED
      BY <2>6, <3>1, AllStray
  <2> QED
    BY <2>5, <2>9, <2>10 DEF Inv
<1>4. CASE ~resetMessages
  <2>1. unsaved' = TRUE /\ UNCHANGED <<message, timeouts, stray>>
    BY <1>4 DEF HandleConfigReset
  <2>2. OwnLists' = OwnLists /\ Callbacks' = Callbacks /\ Dialogs' = Dialogs
    BY <2>1 DEF OwnLists, OwnMessages, Callbacks, Dialogs
  <2>3. Typed'
    BY <1>1, <1>2, <2>1, <2>2 DEF Typed
  <2>4. Tracked'
    BY <1>1, <1>2, <2>1 DEF Tracked, OpenIsTracked, CrashNeedsStray, LastGenerating, Open
  <2>5. Shown'
    BY <2>1 DEF Shown
  <2> QED
    BY <2>3, <2>4, <2>5 DEF Inv
<1> QED
  BY <1>3, <1>4

LEMMA DefaultsKeep ==
    ASSUME Inv, HandleConfigImport \/ LanguageChanges
    PROVE  Inv'
<1>1. /\ page = "up" /\ edits' \in 0 .. MaxEdits /\ message' = DefaultMessages
      /\ unsaved' = TRUE /\ stray' = stray \cup Open
      /\ UNCHANGED <<stored, timeouts, delayed, streams, fetches, ref, dialog, editing, nextId,
                     unloaded, page, loads, requests, dangling>>
  BY EditsCount DEF HandleConfigImport, LanguageChanges
<1>2. message' \in OwnLists
  BY <1>1, DefaultsAreOwn
<1>3. /\ Open \subseteq stray' /\ stray \subseteq stray' /\ stray' \subseteq 1 .. requests
      /\ delayed' \in Seq({"resend", "regenerate"}) /\ stored' \in {NoList, stored}
  BY <1>1 DEF Inv, Typed, Open
<1> QED
  BY <1>1, <1>2, <1>3, UnsavedKeeps

(* What a reload shows is what was stored, or what it repairs and saves.    *)
LEMMA ReloadKeeps == ASSUME Inv, Reload PROVE Inv'
<1> DEFINE list == IF stored = NoList THEN DefaultMessages ELSE stored
           repair == list # <<>> /\ Generating(Last(list))
           repaired == SetLast(list, [Last(list) EXCEPT !.status = "complete"])
<1>1. /\ loads < MaxReloads /\ loads' = loads + 1 /\ unloaded' = (stored = NoList)
      /\ message' = IF repair THEN repaired ELSE list
      /\ timeouts' = IF repair THEN <<Saving(message')>> ELSE <<>>
      /\ delayed' = <<>> /\ streams' = {} /\ fetches' = {} /\ ref' = 0
      /\ dialog' = NoDialog /\ editing' = NoMessage /\ nextId' = 4 /\ page' = "up"
      /\ unsaved' = FALSE
      /\ UNCHANGED <<stored, requests, edits, stray, dangling>>
  BY DEF Reload
<1>2. Typed
  BY DEF Inv
<1>3. list \in OwnLists
  BY <1>2, DefaultsAreOwn DEF Typed
<1> HIDE DEF list
<1>4. repair => repaired \in OwnLists
  <2>1. "complete" \in Statuses
    BY DEF Statuses
  <2> QED
    BY <1>3, <2>1, StatusOfLast
<1> HIDE DEF repaired
<1>5. message' \in OwnLists
  BY <1>1, <1>3, <1>4
<1>6. timeouts' \in Seq(Callbacks) /\ Shown'
  <2>1. CASE repair
    <3>1. timeouts' = <<Saving(message')>>
      BY <1>1, <2>1
    <3>2. Saving(message') \in Callbacks /\ Saving(message').list = message'
      BY <1>5, SavingList
    <3>3. timeouts' \in Seq(Callbacks) /\ timeouts' # <<>> /\ Last(timeouts') = Saving(message')
      BY <3>1, <3>2 DEF Last
    <3>4. message' = Eventual'
      BY <3>2, <3>3 DEF Eventual
    <3> QED
      BY <3>3, <3>4 DEF Shown
  <2>2. CASE ~repair
    <3>1. timeouts' = <<>> /\ message' = list /\ stored' = stored
      BY <1>1, <2>2
    <3>2. message' = Eventual'
      BY <3>1 DEF Eventual, Restored, list
    <3>3. timeouts' \in Seq(Callbacks)
      BY <3>1
    <3> QED
      BY <3>2, <3>3 DEF Shown
  <2> QED
    BY <2>1, <2>2
<1>7. Typed'
  <2>1. OwnLists' = OwnLists /\ Callbacks' = Callbacks
    BY <1>1 DEF OwnLists, OwnMessages, Callbacks
  <2>2. dialog' \in Dialogs' /\ dialog'.kind # "edit"
    BY <1>1 DEF Dialogs, NoDialog
  <2>3. loads' \in 0 .. MaxReloads /\ ref' \in 0 .. MaxRequests
    BY <1>1, <1>2, PlaygroundAssumption DEF Typed
  <2>4. unloaded' \in BOOLEAN
    BY <1>1
  <2>5. delayed' \in Seq({"resend", "regenerate"}) /\ nextId' \in Nat
    BY <1>1
  <2> QED
    BY <1>1, <1>2, <1>5, <1>6, <2>1, <2>2, <2>3, <2>4, <2>5 DEF Typed
<1>8. Tracked'
  <2>1. Open' \subseteq stray' /\ page' # "crashed"
    BY <1>1 DEF Open
  <2> QED
    BY <2>1, AllStray
<1> QED
  BY <1>6, <1>7, <1>8 DEF Inv

-----------------------------------------------------------------------------

LEMMA InitInv == Init => Inv
<1> SUFFICES ASSUME Init PROVE Inv
  OBVIOUS
<1>1. Typed
  <2>1. dialog \in Dialogs /\ dialog.kind # "edit"
    BY DEF Init, Dialogs, NoDialog
  <2>2. timeouts \in Seq(Callbacks) /\ delayed \in Seq({"resend", "regenerate"})
    BY DEF Init
  <2>3. message \in OwnLists
    BY DefaultsAreOwn DEF Init
  <2>4. unloaded \in BOOLEAN /\ unsaved \in BOOLEAN /\ dangling \in BOOLEAN
    BY DEF Init
  <2>5. /\ ref \in 0 .. MaxRequests /\ nextId \in Nat /\ loads \in 0 .. MaxReloads
        /\ requests \in 0 .. MaxRequests /\ edits \in 0 .. MaxEdits
    BY PlaygroundAssumption DEF Init
  <2>6. /\ stored \in {NoList} \cup OwnLists /\ editing \in {NoMessage} \cup Messages
        /\ streams = {} /\ fetches = {} /\ stray = {} /\ page = "up"
    BY DEF Init
  <2> QED
    BY <2>1, <2>2, <2>3, <2>4, <2>5, <2>6 DEF Typed
<1>2. Tracked
  BY DEF Init, Tracked, OpenIsTracked, CrashNeedsStray, Open
<1>3. Shown
  BY DEF Init, Shown, Eventual, Restored
<1> QED
  BY <1>1, <1>2, <1>3 DEF Inv

LEMMA NextInv == Inv /\ [Next]_vars => Inv'
<1> SUFFICES ASSUME Inv, [Next]_vars PROVE Inv'
  OBVIOUS
<1>1. CASE \E r \in streams : Streaming(r)
  BY <1>1, StreamingKeeps
<1>2. CASE \E r \in fetches : Fetching(r)
  BY <1>2, FetchingKeeps
<1>3. CASE \E kind \in Kinds : RunDelayed(kind)
  BY <1>3, RunDelayedKeeps
<1>4. CASE \E kind \in Kinds, customBody \in CustomBodies : Send(kind, customBody)
  BY <1>4, SendKeeps
<1>5. CASE \E customBody \in CustomBodies : SendFails(customBody)
  BY <1>5, SendFailsKeeps
<1>6. CASE \E i \in DOMAIN message : OnMessage(message[i])
  BY <1>6, OnMessageKeeps
<1>7. CASE \E resetMessages \in BOOLEAN : HandleConfigReset(resetMessages)
  BY <1>7, HandleConfigResetKeeps
<1>8. CASE UNCHANGED vars
  <2>1. UNCHANGED <<message, stored, timeouts, delayed, streams, fetches, ref, dialog, editing,
                    nextId, unloaded, page, loads, requests, edits, stray, unsaved, dangling>>
    BY <1>8 DEF vars, pageVars, history
  <2>2. OwnLists' = OwnLists /\ Callbacks' = Callbacks /\ Dialogs' = Dialogs
    BY <2>1 DEF OwnLists, OwnMessages, Callbacks, Dialogs
  <2>3. Typed'
    BY <2>1, <2>2 DEF Inv, Typed
  <2>4. Tracked'
    BY <2>1 DEF Inv, Tracked, OpenIsTracked, CrashNeedsStray, LastGenerating, Open
  <2>5. Shown'
    BY <2>1, SameShown DEF Inv
  <2> QED
    BY <2>3, <2>4, <2>5 DEF Inv
<1> QED
  BY <1>1, <1>2, <1>3, <1>4, <1>5, <1>6, <1>7, <1>8, RunTimeoutKeeps, OnStopGeneratorKeeps,
     DeleteConfirmedKeeps, DeleteCancelledKeeps, HandleEditSaveKeeps, HandleEditCancelKeeps,
     EditRegenerateKeeps, EditOnlyKeeps, HandleClearMessagesKeeps, DefaultsKeep, ReloadKeeps
     DEF Next

LEMMA InvHolds == Spec => []Inv
  BY InitInv, NextInv, PTL DEF Spec

(* Every list the page, the storage, a timer or a dialog holds is a list of *)
(* messages, for any number of requests, edits and reloads.                 *)
THEOREM TypeCorrect == Spec => []TypeOK
<1>1. Inv => TypeOK
  <2> SUFFICES ASSUME Inv PROVE TypeOK
    OBVIOUS
  <2>1. Typed
    BY DEF Inv
  <2>2. ASSUME NEW list \in OwnLists PROVE Range(list) \subseteq Messages
    <3>1. \A i \in DOMAIN list : list[i] \in OwnMessages
      BY DEF OwnLists
    <3> QED
      BY <3>1 DEF Range, OwnMessages
  <2>3. \A i \in DOMAIN timeouts : /\ timeouts[i].op \in {"save", "defaults"}
                                   /\ timeouts[i].list \in OwnLists
    <3> TAKE i \in DOMAIN timeouts
    <3>1. timeouts[i] \in Callbacks
      BY <2>1 DEF Typed
    <3> QED
      BY <3>1 DEF Callbacks
  <2>4. Range(delayed) \subseteq {"resend", "regenerate"}
    <3>1. \A i \in DOMAIN delayed : delayed[i] \in {"resend", "regenerate"}
      BY <2>1 DEF Typed
    <3> QED
      BY <3>1 DEF Range
  <2>5. dialog.kind \in {"none", "delete", "edit"}
    BY <2>1 DEF Typed, Dialogs, NoDialog
  <2>6. 1 .. requests \subseteq 1 .. MaxRequests
    BY <2>1, PlaygroundAssumption DEF Typed
  <2>7. {unloaded, unsaved, dangling} \subseteq BOOLEAN
    BY <2>1 DEF Typed
  <2>8. /\ Range(message) \subseteq Messages
        /\ stored = NoList \/ Range(stored) \subseteq Messages
        /\ \A i \in DOMAIN timeouts : Range(timeouts[i].list) \subseteq Messages
    BY <2>1, <2>2, <2>3 DEF Typed
  <2>9. /\ streams \subseteq 1 .. MaxRequests /\ fetches \subseteq 1 .. MaxRequests
        /\ stray \subseteq 1 .. MaxRequests
    BY <2>1, <2>6 DEF Typed
  <2> QED
    BY <2>1, <2>3, <2>4, <2>5, <2>7, <2>8, <2>9 DEF Typed, TypeOK
<1> QED
  BY <1>1, InvHolds, PTL

(* Whatever the order of answers, timers and clicks: a request that is not  *)
(* stray is the one the last message waits for, and the stop button closes  *)
(* its stream (useApiRequest.jsx, sseSourceRef).                            *)
THEOREM RequestsAreTracked == Spec => []OpenIsTracked
<1>1. Inv => OpenIsTracked
  BY DEF Inv, Tracked
<1> QED
  BY <1>1, InvHolds, PTL

(* No message ever holds text of another request that the page still had in *)
(* sight, in any of the lists that are put back later.                      *)
THEOREM AnswersStayOwn == Spec => []AnswersAreOwn
<1>1. Inv => AnswersAreOwn
  <2> SUFFICES ASSUME Inv, NEW i \in DOMAIN message
               PROVE  message[i].from \ {message[i].request} \subseteq stray
    BY DEF AnswersAreOwn
  <2>1. message \in Seq(OwnMessages)
    BY DEF Inv, Typed, OwnLists
  <2>2. message[i] \in OwnMessages
    BY <2>1
  <2> QED
    BY <2>2 DEF OwnMessages
<1> QED
  BY <1>1, InvHolds, PTL

(* When everything has come to rest, localStorage holds the conversation on *)
(* the page: the late saves ran in the order of the changes.                *)
THEOREM StorageIsShown == Spec => []StoredIsShown
<1>1. Inv => StoredIsShown
  <2> SUFFICES ASSUME Inv, page = "up", timeouts = <<>>, ~AnyGenerating, ~unsaved
               PROVE  message = IF stored = NoList THEN DefaultMessages ELSE stored
    BY DEF StoredIsShown
  <2>1. OnlySaves
    BY DEF OnlySaves
  <2>2. message = Eventual
    BY <2>1 DEF Inv, Shown
  <2> QED
    BY <2>2 DEF Eventual, Restored
<1> QED
  BY <1>1, InvHolds, PTL

(* completeMessage throws only after a request was lost sight of. *)
THEOREM OnlyStraysCrash == Spec => []CrashNeedsStray
<1>1. Inv => CrashNeedsStray
  BY DEF Inv, Tracked
<1> QED
  BY <1>1, InvHolds, PTL
=============================================================================
