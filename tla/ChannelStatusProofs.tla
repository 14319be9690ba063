------------------------ MODULE ChannelStatusProofs ------------------------
(***************************************************************************)
(* Proofs about ChannelStatus, for any list of keys, any requests of       *)
(* UpdateChannel and any number of failed requests, tests, administrators' *)
(* requests at one time and reloads.                                       *)
(***************************************************************************)
EXTENDS ChannelStatus, FiniteSetTheorems, WellFoundedInduction, TLAPS

Marks == {Enabled, ManuallyDisabled, AutoDisabled}

(* A row with keys; what an administrator's request makes of one, which may *)
(* lack keys and a status; and the parties.                                 *)
KeyedRows == {r \in Rows : r.size >= 1 /\ Len(r.keys) \in 1 .. MaxKeys}
Drafts == {d \in [keys : Seq(AllKeys), size : 0 .. MaxKeys, list : [Places -> Marks],
                  status : Marks \cup {NoStatus}] : Len(d.keys) \in 0 .. MaxKeys}
Calling == [pc : {"cache"}, key : AllKeys \cup {NoKey}, status : {Enabled, AutoDisabled},
            current : BOOLEAN]
Called == [pc : {"read"}, key : AllKeys \cup {NoKey}, status : {Enabled, AutoDisabled}]
Saving == [pc : {"apply", "save"}, key : AllKeys \cup {NoKey}, status : {Enabled, AutoDisabled},
           copy : KeyedRows]
Spreading == [pc : {"ability"}, status : {Enabled, AutoDisabled}, saved : BOOLEAN]
Drafting == [pc : {"count", "write"}, copy : KeyedRows, new : Drafts, locked : BOOLEAN]
Waiting == [pc : {"reread", "reload"}, locked : BOOLEAN]
Holding == [pc : {"ability", "install"}, copy : KeyedRows, locked : BOOLEAN]
Syncing == [pc : {"install"}, copy : KeyedRows]

(* Channel.Update has counted the keys and dropped the marks beyond them. *)
Trimmed(d) == d.size >= 1 /\ \A i \in Places : i > d.size => d.list[i] = Enabled

Typed ==
    /\ row \in KeyedRows /\ cached \in KeyedRows
    /\ ability \in BOOLEAN /\ listed \in BOOLEAN /\ overlap \in BOOLEAN
    /\ pending \subseteq (AllKeys \cup {NoKey}) \X {Enabled, AutoDisabled}
    /\ upd \in {Idle} \cup Calling \cup Called \cup Saving \cup Spreading
    /\ adm \in [Slots -> {Idle} \cup Drafting \cup Waiting \cup Holding]
    /\ \A a \in Slots : adm[a].pc = "write" => Trimmed(adm[a].new)
    /\ sync \in {Idle} \cup Syncing
    /\ failed \subseteq AllKeys /\ inherited \subseteq AllKeys
    /\ changes \in Nat

(* The keys that may bear an automatic mark, and the marks on keys that may. *)
Suspects == failed \cup inherited
Blames(keys, list) == \A i \in DOMAIN keys : list[i] = AutoDisabled => keys[i] \in Suspects

(* The keys that the marks of a request were made for. *)
MadeFor(req) == IF req.locked THEN req.new.keys ELSE req.copy.keys

(* Every call that disables names a key that failed, or none; every list of *)
(* marks that may still be written blames, of the keys it was made for,     *)
(* only those it may.                                                       *)
Blamed ==
    /\ \A call \in pending : call[2] = AutoDisabled => call[1] \in failed \cup {NoKey}
    /\ upd.pc \in {"cache", "read", "apply", "save"} /\ upd.status = AutoDisabled
          => upd.key \in failed \cup {NoKey}
    /\ Blames(row.keys, row.list)
    /\ upd.pc \in {"apply", "save"} => Blames(upd.copy.keys, upd.copy.list)
    /\ \A a \in Slots : adm[a].pc \in {"count", "write"}
          => Blames(MadeFor(adm[a]), adm[a].new.list)

(* MultiKeySize counts the keys, and the list ends with them. *)
Tidy(r) ==
    /\ r.size = Len(r.keys)
    /\ \A i \in Places : i > r.size => r.list[i] = Enabled

(* The abilities agree with the row, or a party is on its way to write them *)
(* as the row has it; and the row is off when no key is left.               *)
Following ==
    /\ changes = 0 => \A a \in Slots : adm[a].pc = "idle"
    /\ ~overlap =>
          /\ Tidy(row)
          /\ upd.pc = "ability" => ((upd.status = Enabled) <=> (row.status = Enabled))
          /\ \A a \in Slots : adm[a].pc = "ability"
                => ((adm[a].copy.status = Enabled) <=> (row.status = Enabled))
          /\ \/ upd.pc = "ability" \/ \E a \in Slots : adm[a].pc \in {"reread", "ability"}
             \/ ability <=> (row.status = Enabled)
          /\ changes = 0 /\ Usable(row) = {} => row.status # Enabled

Inv == Typed /\ Blamed /\ Following

-----------------------------------------------------------------------------
(* The n-th of the kept places. *)

LEMMA LeastNatural ==
    ASSUME NEW S \in SUBSET Nat, S # {}
    PROVE  \E m \in S : \A k \in S : m <= k
<1> DEFINE R == OpToRel(<, Nat)
<1>1. PICK m \in S : \A k \in S : ~(<<k, m>> \in R)
  BY NatLessThanWellFounded, WFMin
<1>2. ASSUME NEW k \in S PROVE m <= k
  <2>1. ~(<<k, m>> \in R)
    BY <1>1
  <2>2. ~(k < m)
    BY <2>1 DEF OpToRel
  <2> QED
    BY <2>2
<1> QED
  BY <1>2

LEMMA IntervalSize ==
    ASSUME NEW n \in Nat
    PROVE  IsFiniteSet(1 .. n) /\ Cardinality(1 .. n) = n
<1>1. IsFiniteSet(1 .. n) /\ Cardinality(1 .. n) = IF 1 > n THEN 0 ELSE n - 1 + 1
  BY FS_Interval
<1>2. CASE n = 0
  <2>1. 1 > n
    BY <1>2
  <2> QED
    BY <1>1, <1>2, <2>1
<1>3. CASE n # 0
  <2>1. ~(1 > n) /\ n - 1 + 1 = n
    BY <1>3
  <2> QED
    BY <1>1, <2>1
<1> QED
  BY <1>2, <1>3

LEMMA NthOf ==
    ASSUME NEW m \in Nat, NEW S \in SUBSET (1 .. m), NEW n \in 1 .. Cardinality(S)
    PROVE  Nth(S, n) \in S
<1> DEFINE Upto(i) == {k \in S : k <= i}
           Reached == {i \in Nat : Cardinality(Upto(i)) >= n}
<1>1. IsFiniteSet(S) /\ Cardinality(S) \in Nat
  <2>1. IsFiniteSet(1 .. m)
    BY FS_Interval
  <2> QED
    BY <2>1, FS_Subset, FS_CardinalityType
<1>a. \A k \in S : k \in Nat /\ k <= m /\ ~(k <= 0)
  OBVIOUS
<1>2. \A i : IsFiniteSet(Upto(i)) /\ Cardinality(Upto(i)) \in Nat
  <2> TAKE i
  <2>1. Upto(i) \in SUBSET S
    OBVIOUS
  <2> HIDE DEF Upto
  <2> QED
    BY <1>1, <2>1, FS_Subset, FS_CardinalityType
<1>3. m \in Reached
  <2>1. Upto(m) = S
    BY <1>a
  <2> QED
    BY <2>1
<1>4. PICK i \in Reached : \A j \in Reached : i <= j
  <2> HIDE DEF Reached
  <2>1. Reached \in SUBSET Nat
    BY DEF Reached
  <2> QED
    BY <1>3, <2>1, LeastNatural
<1>5. i # 0
  <2>1. Upto(0) = {}
    BY <1>a
  <2>2. Cardinality(Upto(0)) = 0
    BY <2>1, FS_EmptySet
  <2> QED
    BY <1>1, <1>4, <2>2
<1>6. i - 1 \in Nat /\ Cardinality(Upto(i - 1)) < n
  <2>1. i \in Nat /\ i - 1 \in Nat /\ ~(i <= i - 1)
    BY <1>4, <1>5
  <2>2. i - 1 \notin Reached
    BY <1>4, <2>1
  <2>3. Cardinality(Upto(i - 1)) \in Nat
    BY <1>2
  <2> QED
    BY <1>1, <2>1, <2>2, <2>3
<1>7. Upto(i) = IF i \in S THEN Upto(i - 1) \cup {i} ELSE Upto(i - 1)
  <2>1. \A k \in S : k <= i <=> k <= i - 1 \/ k = i
    BY <1>4
  <2>2. i <= i
    BY <1>4
  <2> QED
    BY <2>1, <2>2
<1>8. IsFiniteSet(Upto(i - 1)) /\ Cardinality(Upto(i - 1)) \in Nat
  BY <1>2
<1>9. Cardinality(Upto(i)) >= n
  BY <1>4
<1>10. i \in S /\ Cardinality(Upto(i)) = n
  <2> HIDE DEF Upto
  <2>1. i \in S
    BY <1>1, <1>6, <1>7, <1>8, <1>9
  <2>2. Cardinality(Upto(i)) <= Cardinality(Upto(i - 1)) + 1
    BY <1>7, <1>8, <2>1, FS_AddElement
  <2>3. Cardinality(Upto(i)) \in Nat
    BY <1>2
  <2> QED
    BY <1>1, <1>6, <1>8, <1>9, <2>1, <2>2, <2>3
<1> QED
  BY <1>10 DEF Nth

-----------------------------------------------------------------------------
(* What the operations make of a row. *)

LEMMA KeysOfRow ==
    ASSUME NEW r \in KeyedRows
    PROVE  /\ r.keys \in Seq(AllKeys) /\ DOMAIN r.keys = 1 .. Len(r.keys)
           /\ Len(r.keys) \in Nat /\ MaxKeys \in Nat
           /\ Len(r.keys) >= 1 /\ Len(r.keys) <= MaxKeys
           /\ DOMAIN r.keys \subseteq Places
           /\ \A i \in DOMAIN r.keys : r.keys[i] \in AllKeys
<1>1. MaxKeys \in Nat
  BY ChannelStatusAssumption
<1>2. r.keys \in Seq(AllKeys) /\ Len(r.keys) \in 1 .. MaxKeys
  BY DEF KeyedRows, Rows
<1> QED
  BY <1>1, <1>2 DEF Places

(* A key that is there is found; one that is not there counts as the first. *)
LEMMA KeyFound ==
    ASSUME NEW r \in KeyedRows, NEW key
    PROVE  /\ KeyIndex(r, key) \in DOMAIN r.keys
           /\ key \in Range(r.keys) => r.keys[KeyIndex(r, key)] = key
<1> DEFINE At == {i \in Nat : i \in DOMAIN r.keys /\ r.keys[i] = key}
<1>1. CASE \E i \in DOMAIN r.keys : r.keys[i] = key
  <2>1. At \in SUBSET Nat /\ At # {}
    BY <1>1, KeysOfRow
  <2>2. PICK i \in At : \A j \in At : i <= j
    <3> HIDE DEF At
    <3> QED
      BY <2>1, LeastNatural
  <2>3. \A j \in 1 .. i - 1 : r.keys[j] # key
    <3> SUFFICES ASSUME NEW j \in 1 .. i - 1, r.keys[j] = key PROVE FALSE
      OBVIOUS
    <3>1. j \in Nat /\ j \in DOMAIN r.keys
      BY <2>2, KeysOfRow
    <3> QED
      BY <2>2, <3>1
  <2>4. i \in DOMAIN r.keys /\ r.keys[i] = key
    BY <2>2
  <2> QED
    BY <1>1, <2>3, <2>4 DEF KeyIndex
<1>2. CASE ~\E i \in DOMAIN r.keys : r.keys[i] = key
  <2>1. KeyIndex(r, key) = 1
    BY <1>2 DEF KeyIndex
  <2> QED
    BY <1>2, <2>1, KeysOfRow DEF Range
<1> QED
  BY <1>1, <1>2

LEMMA MarkedIsFinite ==
    ASSUME NEW list
    PROVE  LET marked == {i \in Places : list[i] # Enabled}
           IN  IsFiniteSet(marked) /\ Cardinality(marked) \in Nat
<1>1. IsFiniteSet(Places)
  BY ChannelStatusAssumption, FS_Interval DEF Places
<1> QED
  BY <1>1, FS_Subset, FS_CardinalityType

(* handlerMultiKeyUpdate writes one mark, and may disable the channel.      *)
LEMMA MultiKeyUpdate ==
    ASSUME NEW r \in KeyedRows, NEW key, NEW status \in {Enabled, AutoDisabled}
    PROVE  LET new == HandlerMultiKeyUpdate(r, key, status)
           IN  /\ new \in KeyedRows
               /\ new.keys = r.keys /\ new.size = r.size
               /\ new.list = [r.list EXCEPT ![KeyIndex(r, key)] = status]
               /\ new.status = IF Cardinality({i \in Places : new.list[i] # Enabled}) >= r.size
                               THEN AutoDisabled ELSE r.status
<1> DEFINE new == HandlerMultiKeyUpdate(r, key, status)
           list == [r.list EXCEPT ![KeyIndex(r, key)] = status]
           off == Cardinality({i \in Places : list[i] # Enabled}) >= r.size
<1>1. KeyIndex(r, key) \in Places
  BY KeyFound, KeysOfRow
<1>2. list \in [Places -> Marks]
  BY <1>1 DEF KeyedRows, Rows, Marks
<1>3. new = [r EXCEPT !.list = list, !.status = IF off THEN AutoDisabled ELSE r.status]
  BY DEF HandlerMultiKeyUpdate
<1> HIDE DEF new, off, list
<1>4. new \in Rows /\ new.keys = r.keys /\ new.size = r.size /\ new.list = list
  BY <1>2, <1>3 DEF KeyedRows, Rows, Marks
<1>5. new.status = IF off THEN AutoDisabled ELSE r.status
  BY <1>3 DEF KeyedRows, Rows
<1>6. new \in KeyedRows
  BY <1>4 DEF KeyedRows
<1> QED
  BY <1>4, <1>5, <1>6 DEF list, off, new

LEMMA MultiKeyRow ==
    ASSUME NEW r \in KeyedRows, NEW key, NEW status \in {Enabled, AutoDisabled}
    PROVE  LET new == HandlerMultiKeyUpdate(r, key, status)
           IN  /\ new \in KeyedRows
               /\ new.keys = r.keys /\ new.size = r.size
               /\ new.list = [r.list EXCEPT ![KeyIndex(r, key)] = status]
               /\ new.status = r.status \/ new.status = AutoDisabled
<1> DEFINE new == HandlerMultiKeyUpdate(r, key, status)
           off == Cardinality({i \in Places : new.list[i] # Enabled}) >= r.size
<1>1. /\ new \in KeyedRows
      /\ new.keys = r.keys /\ new.size = r.size
      /\ new.list = [r.list EXCEPT ![KeyIndex(r, key)] = status]
      /\ new.status = IF off THEN AutoDisabled ELSE r.status
  BY MultiKeyUpdate
<1> HIDE DEF off, new
<1>2. new.status = r.status \/ new.status = AutoDisabled
  BY <1>1
<1> QED
  BY <1>1, <1>2 DEF new

(* A tidy row that enables a key is not switched off: one mark is missing. *)
LEMMA EnablingLeavesOn ==
    ASSUME NEW r \in KeyedRows, Tidy(r), NEW key
    PROVE  HandlerMultiKeyUpdate(r, key, Enabled).status = r.status
<1> DEFINE new == HandlerMultiKeyUpdate(r, key, Enabled)
           marked == {i \in Places : new.list[i] # Enabled}
           k == KeyIndex(r, key)
           others == (1 .. r.size) \ {k}
<1>1. /\ new.list = [r.list EXCEPT ![k] = Enabled]
      /\ new.status = IF Cardinality(marked) >= r.size THEN AutoDisabled ELSE r.status
  BY MultiKeyUpdate
<1>2. k \in DOMAIN r.keys /\ r.size \in Nat /\ r.size >= 1 /\ k \in 1 .. r.size /\ k \in Places
  BY KeyFound, KeysOfRow DEF Tidy
<1>3. r.list \in [Places -> Marks]
  BY DEF KeyedRows, Rows, Marks
<1> HIDE DEF new, k
<1>4. marked \in SUBSET others
  <2> SUFFICES ASSUME NEW i \in marked PROVE i \in others
    OBVIOUS
  <2>1. i \in Places /\ i # k /\ r.list[i] # Enabled
    BY <1>1, <1>2, <1>3
  <2>2. ~(i > r.size)
    BY <2>1 DEF Tidy
  <2> QED
    BY <1>2, <2>1, <2>2 DEF Places
<1>5. IsFiniteSet(others) /\ Cardinality(others) = r.size - 1
  <2>1. IsFiniteSet(1 .. r.size) /\ Cardinality(1 .. r.size) = r.size
    BY <1>2, IntervalSize
  <2> QED
    BY <1>2, <2>1, FS_RemoveElement
<1>6. Cardinality(marked) \in Nat /\ Cardinality(marked) <= r.size - 1
  <2> HIDE DEF others, marked
  <2>1. IsFiniteSet(marked) /\ Cardinality(marked) <= Cardinality(others)
    BY <1>4, <1>5, FS_Subset
  <2> QED
    BY <1>5, <2>1, FS_CardinalityType
<1>7. ~(Cardinality(marked) >= r.size)
  BY <1>2, <1>6
<1> QED
  BY <1>1, <1>7 DEF new

(* With every key marked, the channel is switched off. *)
LEMMA KeylessSwitchesOff ==
    ASSUME NEW r \in KeyedRows, Tidy(r), NEW key, NEW status \in {Enabled, AutoDisabled},
           Usable(HandlerMultiKeyUpdate(r, key, status)) = {}
    PROVE  HandlerMultiKeyUpdate(r, key, status).status = AutoDisabled
<1> DEFINE new == HandlerMultiKeyUpdate(r, key, status)
           marked == {i \in Places : new.list[i] # Enabled}
<1>1. /\ new.keys = r.keys
      /\ new.status = IF Cardinality(marked) >= r.size THEN AutoDisabled ELSE r.status
  BY MultiKeyUpdate
<1>2. \A i \in DOMAIN r.keys : new.list[i] # Enabled
  BY <1>1 DEF Usable
<1>3. r.size \in Nat /\ r.size >= 1 /\ DOMAIN r.keys = 1 .. r.size /\ 1 .. r.size \subseteq Places
  BY KeysOfRow DEF Tidy
<1> HIDE DEF new
<1>4. (1 .. r.size) \in SUBSET marked
  BY <1>2, <1>3
<1>5. IsFiniteSet(marked) /\ Cardinality(marked) \in Nat
  BY MarkedIsFinite
<1>6. Cardinality(1 .. r.size) = r.size
  BY <1>3, IntervalSize
<1>7. Cardinality(1 .. r.size) <= Cardinality(marked)
  <2> HIDE DEF marked
  <2> QED
    BY <1>4, <1>5, FS_Subset
<1>8. Cardinality(marked) >= r.size
  BY <1>3, <1>5, <1>6, <1>7
<1> QED
  BY <1>1, <1>8 DEF new

-----------------------------------------------------------------------------
(* The administrators' operations. *)

(* The kept keys carry their marks to their new places. *)
LEMMA KeptKeys ==
    ASSUME NEW r \in KeyedRows, NEW kept \in SUBSET DOMAIN r.keys
    PROVE  LET new == KeepKeys(r, kept)
           IN  /\ new \in Drafts
               /\ \A i \in Places : new.list[i] = AutoDisabled =>
                      /\ i \in DOMAIN new.keys
                      /\ \E k \in DOMAIN r.keys :
                             new.keys[i] = r.keys[k] /\ r.list[k] = AutoDisabled
<1> DEFINE size == Cardinality(kept)
           keys == [n \in 1 .. size |-> r.keys[Nth(kept, n)]]
           list == [j \in Places |-> IF j <= size THEN r.list[Nth(kept, j)] ELSE Enabled]
           new == KeepKeys(r, kept)
<1>1. new = [r EXCEPT !.keys = keys, !.size = size, !.list = list]
  BY DEF KeepKeys, Subsequence
<1>2. /\ DOMAIN r.keys = 1 .. Len(r.keys) /\ Len(r.keys) \in Nat /\ MaxKeys \in Nat
      /\ Len(r.keys) <= MaxKeys /\ DOMAIN r.keys \subseteq Places
      /\ \A i \in DOMAIN r.keys : r.keys[i] \in AllKeys
  BY KeysOfRow
<1>3. size \in Nat /\ size <= MaxKeys
  <2>1. IsFiniteSet(1 .. Len(r.keys)) /\ Cardinality(1 .. Len(r.keys)) = Len(r.keys)
    BY <1>2, IntervalSize
  <2>2. IsFiniteSet(kept) /\ Cardinality(kept) <= Cardinality(1 .. Len(r.keys))
    BY <1>2, <2>1, FS_Subset
  <2>3. Cardinality(kept) \in Nat /\ Cardinality(1 .. Len(r.keys)) \in Nat
    BY <2>1, <2>2, FS_CardinalityType
  <2> QED
    BY <1>2, <2>1, <2>2, <2>3
<1>4. \A n \in 1 .. size : Nth(kept, n) \in kept
  BY <1>2, NthOf
<1>5. r.list \in [Places -> Marks]
  BY DEF KeyedRows, Rows, Marks
<1> HIDE DEF size
<1>6. list \in [Places -> Marks]
  <2> SUFFICES ASSUME NEW j \in Places, j <= size PROVE r.list[Nth(kept, j)] \in Marks
    BY DEF Marks
  <2>1. j \in 1 .. size
    BY <1>3 DEF Places
  <2> QED
    BY <1>2, <1>4, <1>5, <2>1
<1>7. keys \in Seq(AllKeys) /\ Len(keys) = size
  <2>1. \A n \in 1 .. size : r.keys[Nth(kept, n)] \in AllKeys
    BY <1>2, <1>4
  <2> QED
    BY <1>3, <2>1
<1>8. DOMAIN keys = 1 .. size
  OBVIOUS
<1>9. \A i \in Places : list[i] = AutoDisabled =>
          /\ i \in DOMAIN keys
          /\ \E k \in DOMAIN r.keys : keys[i] = r.keys[k] /\ r.list[k] = AutoDisabled
  <2> SUFFICES ASSUME NEW i \in Places, list[i] = AutoDisabled
               PROVE  /\ i \in DOMAIN keys
                      /\ \E k \in DOMAIN r.keys : keys[i] = r.keys[k] /\ r.list[k] = AutoDisabled
    OBVIOUS
  <2>1. i <= size /\ r.list[Nth(kept, i)] = AutoDisabled
    BY DEF Enabled, AutoDisabled
  <2>2. i \in 1 .. size
    BY <1>3, <2>1 DEF Places
  <2>3. Nth(kept, i) \in DOMAIN r.keys /\ keys[i] = r.keys[Nth(kept, i)]
    BY <1>2, <1>4, <2>2
  <2> QED
    BY <1>8, <2>1, <2>2, <2>3
<1> HIDE DEF keys, list, new
<1>10. new.keys = keys /\ new.list = list /\ new \in Drafts
  <2>1. size \in 0 .. MaxKeys
    BY <1>2, <1>3
  <2>2. /\ new = [keys |-> keys, size |-> size, list |-> list, status |-> r.status]
        /\ r.status \in Marks
    BY <1>1 DEF KeyedRows, Rows, Marks
  <2> QED
    BY <1>6, <1>7, <2>1, <2>2 DEF Drafts
<1> QED
  BY <1>9, <1>10 DEF new

(* The keys a request of UpdateChannel writes. *)
LEMMA EditedKeysTyped ==
    ASSUME NEW r \in KeyedRows, NEW e \in Edits
    PROVE  EditedKeys(r, e) \in Seq(AllKeys)
<1> DEFINE fresh == {i \in DOMAIN e.keys : /\ e.keys[i] \notin Range(r.keys)
                                           /\ \A j \in 1 .. i - 1 : e.keys[j] # e.keys[i]}
           added == [n \in 1 .. Cardinality(fresh) |-> e.keys[Nth(fresh, n)]]
<1>1. /\ e.keys \in Seq(Keys) /\ Len(e.keys) \in Nat /\ DOMAIN e.keys = 1 .. Len(e.keys)
      /\ \A i \in DOMAIN e.keys : e.keys[i] \in AllKeys
  <2>1. e.keys \in Seq(Keys)
    BY ChannelStatusAssumption
  <2>2. \A i \in DOMAIN e.keys : e.keys[i] \in AllKeys
    BY DEF AllKeys, Range
  <2> QED
    BY <2>1, <2>2
<1>2. e.keys \in Seq(AllKeys)
  BY <1>1
<1>3. fresh \in SUBSET (1 .. Len(e.keys))
  BY <1>1
<1> HIDE DEF fresh
<1>4. Cardinality(fresh) \in Nat
  <2>1. IsFiniteSet(1 .. Len(e.keys))
    BY <1>1, IntervalSize
  <2> QED
    BY <1>3, <2>1, FS_Subset, FS_CardinalityType
<1>5. \A n \in 1 .. Cardinality(fresh) : e.keys[Nth(fresh, n)] \in AllKeys
  <2> TAKE n \in 1 .. Cardinality(fresh)
  <2>1. Nth(fresh, n) \in fresh
    BY <1>1, <1>3, NthOf
  <2> QED
    BY <1>1, <1>3, <2>1
<1>6. added \in Seq(AllKeys)
  BY <1>4, <1>5
<1>7. r.keys \in Seq(AllKeys)
  BY KeysOfRow
<1>8. EditedKeys(r, e) = IF e.key_mode = "append" THEN r.keys \o added ELSE e.keys
  BY DEF EditedKeys, Subsequence, fresh
<1> HIDE DEF added
<1>9. r.keys \o added \in Seq(AllKeys)
  BY <1>6, <1>7
<1> QED
  BY <1>2, <1>8, <1>9

(* UpdateChannel takes the list as it was read. *)
LEMMA ApplyEdit ==
    ASSUME NEW r \in KeyedRows, NEW e \in Edits, Len(Apply(r, e).keys) <= MaxKeys
    PROVE  Apply(r, e) \in Drafts /\ Apply(r, e).list = r.list
<1> DEFINE keys == EditedKeys(r, e)
<1>1. e.op = "edit" /\ e.status \in Marks \cup {NoStatus}
  BY ChannelStatusAssumption DEF Marks
<1>2. Apply(r, e) = [r EXCEPT !.keys = keys, !.status = e.status]
  BY <1>1 DEF Apply
<1>3. keys \in Seq(AllKeys)
  BY EditedKeysTyped
<1> HIDE DEF keys
<1>4. /\ Apply(r, e) = [keys |-> keys, size |-> r.size, list |-> r.list, status |-> e.status]
      /\ r.size \in 0 .. MaxKeys /\ r.list \in [Places -> Marks]
  BY <1>2 DEF KeyedRows, Rows, Marks
<1>5. Len(keys) \in 0 .. MaxKeys
  BY <1>3, <1>4, ChannelStatusAssumption
<1> QED
  BY <1>1, <1>3, <1>4, <1>5 DEF Drafts

(* ManageMultiKeys leaves the automatic marks with their keys. *)
LEMMA ManageKeepsMarks ==
    ASSUME NEW r \in KeyedRows, NEW o \in Operations, o.op # "edit"
    PROVE  LET new == Apply(r, o)
           IN  /\ new \in Drafts
               /\ \A i \in DOMAIN new.keys : new.list[i] = AutoDisabled =>
                      \E k \in DOMAIN r.keys : new.keys[i] = r.keys[k] /\ r.list[k] = AutoDisabled
<1> DEFINE new == Apply(r, o)
<1>a. /\ r = [keys |-> r.keys, size |-> r.size, list |-> r.list, status |-> r.status]
      /\ r.keys \in Seq(AllKeys) /\ r.size \in 0 .. MaxKeys
      /\ r.list \in [Places -> Marks] /\ r.status \in Marks
  BY DEF KeyedRows, Rows, Marks
<1>b. Len(r.keys) \in 0 .. MaxKeys /\ DOMAIN r.keys \subseteq Places
  BY KeysOfRow
<1>c. AutoDisabled # Enabled /\ AutoDisabled # ManuallyDisabled
  BY DEF Enabled, AutoDisabled, ManuallyDisabled
<1>d. \/ o.op \in {"disable_key", "enable_key", "delete_key"} /\ o.place \in Places
      \/ o.op \in {"enable_all_keys", "disable_all_keys", "delete_disabled_keys"}
  BY ChannelStatusAssumption DEF Operations
<1>e. ASSUME NEW list \in [Places -> Marks], new = [r EXCEPT !.list = list],
             \A i \in Places : list[i] = AutoDisabled => r.list[i] = AutoDisabled
      PROVE  /\ new \in Drafts
             /\ \A i \in DOMAIN new.keys : new.list[i] = AutoDisabled =>
                    \E k \in DOMAIN r.keys : new.keys[i] = r.keys[k] /\ r.list[k] = AutoDisabled
  <2> HIDE DEF new
  <2>1. new = [keys |-> r.keys, size |-> r.size, list |-> list, status |-> r.status]
    BY <1>a, <1>e
  <2>2. new \in Drafts
    BY <1>a, <1>b, <2>1 DEF Drafts
  <2> QED
    BY <1>b, <1>e, <2>1, <2>2
<1>f. ASSUME NEW kept \in SUBSET DOMAIN r.keys, new = KeepKeys(r, kept)
      PROVE  /\ new \in Drafts
             /\ \A i \in DOMAIN new.keys : new.list[i] = AutoDisabled =>
                    \E k \in DOMAIN r.keys : new.keys[i] = r.keys[k] /\ r.list[k] = AutoDisabled
  <2>1. /\ new \in Drafts
        /\ \A i \in Places : new.list[i] = AutoDisabled =>
               /\ i \in DOMAIN new.keys
               /\ \E k \in DOMAIN r.keys : new.keys[i] = r.keys[k] /\ r.list[k] = AutoDisabled
    BY <1>f, KeptKeys
  <2> HIDE DEF new
  <2>2. DOMAIN new.keys \subseteq Places
    BY <2>1, ChannelStatusAssumption DEF Drafts, Places
  <2> QED
    BY <2>1, <2>2
<1>2. CASE o.op = "disable_key"
  <2> DEFINE list == [r.list EXCEPT ![o.place] = ManuallyDisabled]
  <2>1. new = [r EXCEPT !.list = list]
    BY <1>2 DEF Apply
  <2>2. list \in [Places -> Marks]
    BY <1>2, <1>a, <1>d DEF Marks
  <2>3. \A i \in Places : list[i] = AutoDisabled => r.list[i] = AutoDisabled
    BY <1>a, <1>c
  <2> HIDE DEF list, new
  <2>4. /\ new \in Drafts
        /\ \A i \in DOMAIN new.keys : new.list[i] = AutoDisabled =>
               \E k \in DOMAIN r.keys : new.keys[i] = r.keys[k] /\ r.list[k] = AutoDisabled
    BY <2>1, <2>2, <2>3, <1>e
  <2> QED
    BY <2>4 DEF new
<1>3. CASE o.op = "enable_key"
  <2> DEFINE list == [r.list EXCEPT ![o.place] = Enabled]
  <2>1. new = [r EXCEPT !.list = list]
    BY <1>3 DEF Apply
  <2>2. list \in [Places -> Marks]
    BY <1>3, <1>a, <1>d DEF Marks
  <2>3. \A i \in Places : list[i] = AutoDisabled => r.list[i] = AutoDisabled
    BY <1>a, <1>c
  <2> HIDE DEF list, new
  <2>4. /\ new \in Drafts
        /\ \A i \in DOMAIN new.keys : new.list[i] = AutoDisabled =>
               \E k \in DOMAIN r.keys : new.keys[i] = r.keys[k] /\ r.list[k] = AutoDisabled
    BY <2>1, <2>2, <2>3, <1>e
  <2> QED
    BY <2>4 DEF new
<1>4. CASE o.op = "enable_all_keys"
  <2> DEFINE list == [i \in Places |-> Enabled]
  <2>1. new = [r EXCEPT !.list = list]
    BY <1>4 DEF Apply
  <2>2. list \in [Places -> Marks]
    BY DEF Marks
  <2>3. \A i \in Places : list[i] = AutoDisabled => r.list[i] = AutoDisabled
    BY <1>c
  <2> HIDE DEF list, new
  <2>4. /\ new \in Drafts
        /\ \A i \in DOMAIN new.keys : new.list[i] = AutoDisabled =>
               \E k \in DOMAIN r.keys : new.keys[i] = r.keys[k] /\ r.list[k] = AutoDisabled
    BY <2>1, <2>2, <2>3, <1>e
  <2> QED
    BY <2>4 DEF new
<1>5. CASE o.op = "disable_all_keys"
  <2> DEFINE list == [i \in Places |-> IF i <= r.size /\ r.list[i] = Enabled
                                       THEN ManuallyDisabled ELSE r.list[i]]
  <2>1. new = [r EXCEPT !.list = list]
    BY <1>5 DEF Apply
  <2>2. list \in [Places -> Marks]
    BY <1>a DEF Marks
  <2>3. \A i \in Places : list[i] = AutoDisabled => r.list[i] = AutoDisabled
    BY <1>a, <1>c
  <2> HIDE DEF list, new
  <2>4. /\ new \in Drafts
        /\ \A i \in DOMAIN new.keys : new.list[i] = AutoDisabled =>
               \E k \in DOMAIN r.keys : new.keys[i] = r.keys[k] /\ r.list[k] = AutoDisabled
    BY <2>1, <2>2, <2>3, <1>e
  <2> QED
    BY <2>4 DEF new
<1>6. CASE o.op = "delete_key"
  <2> DEFINE kept == DOMAIN r.keys \ {o.place}
  <2>1. new = KeepKeys(r, kept) /\ kept \in SUBSET DOMAIN r.keys
    BY <1>6 DEF Apply
  <2> HIDE DEF kept, new
  <2> QED
    BY <2>1, <1>f DEF new
<1>7. CASE o.op = "delete_disabled_keys"
  <2> DEFINE kept == {i \in DOMAIN r.keys : r.list[i] # AutoDisabled}
  <2>1. new = KeepKeys(r, kept) /\ kept \in SUBSET DOMAIN r.keys
    BY <1>7 DEF Apply
  <2> HIDE DEF kept, new
  <2> QED
    BY <2>1, <1>f DEF new
<1> QED
  BY <1>2, <1>3, <1>4, <1>5, <1>6, <1>7, <1>d

-----------------------------------------------------------------------------
(* Every step keeps the invariant. *)

LEMMA Updater ==
    ASSUME Typed
    PROVE  /\ upd.pc = "idle" => upd = Idle
           /\ upd.pc = "cache" => upd \in Calling
           /\ upd.pc = "read" => upd \in Called
           /\ upd.pc \in {"apply", "save"} => upd \in Saving
           /\ upd.pc = "ability" => upd \in Spreading
           /\ sync.pc = "install" => sync \in Syncing
  BY DEF Typed, Idle, Calling, Called, Saving, Spreading, Syncing

LEMMA Administrator ==
    ASSUME Typed, NEW a \in Slots
    PROVE  /\ adm[a].pc = "idle" => adm[a] = Idle
           /\ adm[a].pc \in {"count", "write"} => adm[a] \in Drafting
           /\ adm[a].pc \in {"reread", "reload"} => adm[a] \in Waiting
           /\ adm[a].pc \in {"ability", "install"} => adm[a] \in Holding
  BY DEF Typed, Idle, Drafting, Waiting, Holding

LEMMA RequestFailsKeeps == ASSUME Inv, NEW i \in Places, RequestFails(i) PROVE Inv'
<1> DEFINE key == cached.keys[i]
<1>1. key \in AllKeys
  BY KeysOfRow DEF Inv, Typed, RequestFails, Usable
<1>2. Typed'
  <2>1. pending' = pending \cup {<<key, AutoDisabled>>} /\ failed' = failed \cup {key}
    BY DEF RequestFails
  <2> HIDE DEF key
  <2> QED
    BY <1>1, <2>1 DEF Inv, Typed, RequestFails
<1>3. Blamed'
  <2>1. /\ pending' = pending \cup {<<key, AutoDisabled>>} /\ failed' = failed \cup {key}
        /\ UNCHANGED <<row, upd, adm, inherited>>
    BY DEF RequestFails
  <2> HIDE DEF key
  <2>2. \A call \in pending' : call[2] = AutoDisabled => call[1] \in failed' \cup {NoKey}
    BY <2>1 DEF Inv, Blamed
  <2> QED
    BY <2>1, <2>2 DEF Inv, Blamed, Blames, Suspects, MadeFor
<1>4. Following'
  BY DEF Inv, Following, RequestFails, Tidy, Usable
<1> QED
  BY <1>2, <1>3, <1>4 DEF Inv

LEMMA RequestWithoutKeyKeeps == ASSUME Inv, RequestWithoutKey PROVE Inv'
<1>1. Typed'
  BY DEF Inv, Typed, RequestWithoutKey
<1>2. Blamed'
  <2>1. \A call \in pending' : call[2] = AutoDisabled => call[1] \in failed' \cup {NoKey}
    BY DEF Inv, Blamed, RequestWithoutKey
  <2> QED
    BY <2>1 DEF Inv, Blamed, Blames, Suspects, MadeFor, RequestWithoutKey
<1>3. Following'
  BY DEF Inv, Following, RequestWithoutKey, Tidy, Usable
<1> QED
  BY <1>1, <1>2, <1>3 DEF Inv

LEMMA TestSucceedsKeeps == ASSUME Inv, NEW i \in Places, TestSucceeds(i) PROVE Inv'
<1> DEFINE key == row.keys[i]
<1>1. key \in AllKeys
  BY KeysOfRow DEF Inv, Typed, TestSucceeds, Usable
<1>2. pending' = pending \cup {<<key, Enabled>>}
  BY DEF TestSucceeds
<1> HIDE DEF key
<1>3. Typed'
  BY <1>1, <1>2 DEF Inv, Typed, TestSucceeds
<1>4. Blamed'
  <2>1. \A call \in pending' : call[2] = AutoDisabled => call[1] \in failed' \cup {NoKey}
    BY <1>2 DEF Inv, Blamed, TestSucceeds, AutoDisabled, Enabled
  <2> QED
    BY <2>1 DEF Inv, Blamed, Blames, Suspects, MadeFor, TestSucceeds
<1>5. Following'
  BY DEF Inv, Following, TestSucceeds, Tidy, Usable
<1> QED
  BY <1>3, <1>4, <1>5 DEF Inv

LEMMA UpdateStartKeeps == ASSUME Inv, NEW call \in pending, UpdateStart(call) PROVE Inv'
<1>1. call[1] \in AllKeys \cup {NoKey} /\ call[2] \in {Enabled, AutoDisabled}
  BY DEF Inv, Typed
<1>2. /\ upd'.pc = "cache" /\ upd'.key = call[1] /\ upd'.status = call[2]
      /\ upd' \in Calling
  BY <1>1 DEF UpdateStart, Calling
<1>3. pending' \subseteq pending
  BY DEF UpdateStart
<1>4. Typed'
  BY <1>2, <1>3 DEF Inv, Typed, UpdateStart
<1>5. Blamed'
  <2>1. \A c \in pending' : c[2] = AutoDisabled => c[1] \in failed' \cup {NoKey}
    BY <1>3 DEF Inv, Blamed, UpdateStart
  <2>2. upd'.status = AutoDisabled => upd'.key \in failed' \cup {NoKey}
    BY <1>2 DEF Inv, Blamed, UpdateStart
  <2> QED
    BY <1>2, <2>1, <2>2 DEF Inv, Blamed, Blames, Suspects, MadeFor, UpdateStart
<1>6. Following'
  BY <1>2 DEF Inv, Following, UpdateStart, Tidy, Usable, Idle
<1> QED
  BY <1>4, <1>5, <1>6 DEF Inv

LEMMA UpdateCacheKeeps == ASSUME Inv, UpdateCache PROVE Inv'
<1>1. upd \in Calling
  BY Updater DEF Inv, UpdateCache
<1>2. upd' \in Called /\ upd'.pc = "read" /\ upd'.key = upd.key /\ upd'.status = upd.status
  BY <1>1 DEF UpdateCache, Calling, Called
<1>3. cached' \in KeyedRows
  <2>1. cached \in KeyedRows /\ upd.status \in {Enabled, AutoDisabled}
    BY <1>1 DEF Inv, Typed, Calling
  <2>2. HandlerMultiKeyUpdate(cached, upd.key, upd.status) \in KeyedRows
    BY <2>1, MultiKeyUpdate
  <2> QED
    BY <2>1, <2>2 DEF UpdateCache
<1>4. Typed'
  BY <1>2, <1>3 DEF Inv, Typed, UpdateCache
<1>5. Blamed'
  BY <1>2 DEF Inv, Blamed, Blames, Suspects, MadeFor, UpdateCache
<1>6. Following'
  BY <1>2 DEF Inv, Following, UpdateCache, Tidy, Usable
<1> QED
  BY <1>4, <1>5, <1>6 DEF Inv

LEMMA UpdateReadKeeps == ASSUME Inv, UpdateRead PROVE Inv'
<1>1. upd \in Called
  BY Updater DEF Inv, UpdateRead
<1>2. \/ upd' = Idle
      \/ /\ upd' \in Saving /\ upd'.pc = "apply" /\ upd'.key = upd.key
         /\ upd'.status = upd.status /\ upd'.copy = row
  BY <1>1 DEF UpdateRead, Called, Saving, Inv, Typed
<1>3. Typed'
  BY <1>2 DEF Inv, Typed, UpdateRead
<1>4. Blamed'
  BY <1>2 DEF Inv, Blamed, Blames, Suspects, MadeFor, UpdateRead, Idle
<1>5. Following'
  BY <1>2 DEF Inv, Following, UpdateRead, Tidy, Usable, Idle
<1> QED
  BY <1>3, <1>4, <1>5 DEF Inv

LEMMA UpdateApplyKeeps == ASSUME Inv, UpdateApply PROVE Inv'
<1>1. upd \in Saving
  BY Updater DEF Inv, UpdateApply
<1>2. /\ upd' \in Saving /\ upd'.pc = "save" /\ upd'.key = upd.key
      /\ upd'.status = upd.status /\ upd'.copy = upd.copy
  BY <1>1 DEF UpdateApply, Saving
<1>3. Typed'
  BY <1>2 DEF Inv, Typed, UpdateApply
<1>4. Blamed'
  BY <1>2 DEF Inv, Blamed, Blames, Suspects, MadeFor, UpdateApply
<1>5. Following'
  BY <1>2 DEF Inv, Following, UpdateApply, Tidy, Usable
<1> QED
  BY <1>3, <1>4, <1>5 DEF Inv

(* SaveWithoutKey.  A key that bears a mark made for it may be blamed, and  *)
(* any other that bears one inherits it; the channel changes its status only to be disabled.             *)
LEMMA UpdateSaveKeeps == ASSUME Inv, UpdateSave PROVE Inv'
<1> DEFINE copy == upd.copy
           new == HandlerMultiKeyUpdate(copy, upd.key, upd.status)
           changed == new.status # copy.status
           k == KeyIndex(copy, upd.key)
           of == [copy.keys EXCEPT ![k] = upd.key]
<1>1. upd \in Saving /\ upd.pc = "save"
  BY Updater DEF Inv, UpdateSave
<1>2. copy \in KeyedRows /\ upd.status \in {Enabled, AutoDisabled} /\ row \in KeyedRows
  BY <1>1 DEF Saving, Inv, Typed
<1>3. /\ new \in KeyedRows /\ new.keys = copy.keys /\ new.size = copy.size
      /\ new.list = [copy.list EXCEPT ![k] = upd.status]
      /\ new.status = copy.status \/ new.status = AutoDisabled
  <2> DEFINE key == upd.key
             status == upd.status
  <2> HIDE DEF key, status, copy
  <2>1. copy \in KeyedRows /\ status \in {Enabled, AutoDisabled}
    BY <1>2 DEF status
  <2>2. /\ HandlerMultiKeyUpdate(copy, key, status) \in KeyedRows
        /\ HandlerMultiKeyUpdate(copy, key, status).keys = copy.keys
        /\ HandlerMultiKeyUpdate(copy, key, status).size = copy.size
        /\ HandlerMultiKeyUpdate(copy, key, status).list
              = [copy.list EXCEPT ![KeyIndex(copy, key)] = status]
        /\ \/ HandlerMultiKeyUpdate(copy, key, status).status = copy.status
           \/ HandlerMultiKeyUpdate(copy, key, status).status = AutoDisabled
    BY <2>1, MultiKeyRow
  <2> QED
    BY <2>2 DEF key, status
<1>4. /\ row' = [new EXCEPT !.keys = row.keys]
      /\ inherited' = inherited \cup Inheriting(row', of)
      /\ overlap' = (overlap \/ copy # row \/ \E a \in Slots : adm[a].pc = "ability")
      /\ upd' = IF changed THEN [pc |-> "ability", status |-> upd.status, saved |-> TRUE] ELSE Idle
      /\ UNCHANGED <<ability, cached, listed, pending, adm, sync, failed, events, changes>>
  BY DEF UpdateSave
<1>5. /\ row' \in KeyedRows /\ row'.keys = row.keys /\ row'.list = new.list
      /\ row'.size = new.size /\ row'.status = new.status
  <2> HIDE DEF new
  <2>1. row' = [keys |-> row.keys, size |-> new.size, list |-> new.list, status |-> new.status]
    BY <1>2, <1>3, <1>4 DEF KeyedRows, Rows
  <2>2. row' \in Rows
    BY <1>2, <1>3, <2>1 DEF KeyedRows, Rows
  <2> QED
    BY <1>2, <1>3, <2>1, <2>2 DEF KeyedRows
<1>6. \/ changed /\ upd' \in Spreading /\ upd'.pc = "ability" /\ upd'.status = upd.status
      \/ ~changed /\ upd' = Idle
  <2> HIDE DEF new
  <2> QED
    BY <1>1, <1>4 DEF Saving, Spreading
<1>7. k \in DOMAIN copy.keys /\ (upd.key \in Range(copy.keys) => copy.keys[k] = upd.key)
  BY <1>2, KeyFound
<1>8. /\ DOMAIN copy.keys \subseteq Places
      /\ \A i \in DOMAIN copy.keys : copy.keys[i] \in AllKeys
      /\ copy.list \in [Places -> Marks]
  BY <1>2, KeysOfRow DEF KeyedRows, Rows, Marks
<1>9. ~overlap' /\ changed => upd.status = AutoDisabled /\ new.status = AutoDisabled
  <2> SUFFICES ASSUME ~overlap', changed, upd.status = Enabled PROVE FALSE
    BY <1>2, <1>3
  <2>1. copy = row /\ ~overlap
    BY <1>4 DEF Inv, Typed
  <2>2. Tidy(copy)
    BY <2>1 DEF Inv, Following
  <2> QED
    BY <1>2, <2>2, EnablingLeavesOn
<1>10. Tidy(copy) /\ Usable(new) = {} => new.status # Enabled
  <2>1. Tidy(copy) /\ Usable(new) = {} => new.status = AutoDisabled
    BY <1>2, KeylessSwitchesOff
  <2> HIDE DEF new
  <2> QED
    BY <2>1 DEF Enabled, AutoDisabled
<1> HIDE DEF new, k, copy
<1> HIDE DEF of
<1>11. Typed'
  <2>1. overlap' \in BOOLEAN
    BY <1>4 DEF Inv, Typed
  <2>2. Inheriting(row', of) \subseteq AllKeys
    BY <1>5, KeysOfRow DEF Inheriting
  <2>3. upd' \in {Idle} \cup Calling \cup Called \cup Saving \cup Spreading
    BY <1>6
  <2> QED
    BY <1>4, <1>5, <2>1, <2>2, <2>3 DEF Inv, Typed
<1>12. Blamed'
  <2>1. upd'.pc \notin {"cache", "read", "apply", "save"}
    BY <1>6 DEF Idle
  <2>2. upd.status = AutoDisabled => upd.key \in failed \cup {NoKey}
    BY <1>1 DEF Inv, Blamed
  <2>3. Blames(copy.keys, copy.list)
    BY <1>1 DEF Inv, Blamed, copy
  <2>4. /\ DOMAIN of = DOMAIN copy.keys /\ of[k] = upd.key
        /\ \A i \in DOMAIN copy.keys : i # k => of[i] = copy.keys[i]
    BY <1>7 DEF of
  <2>5. ASSUME NEW i \in DOMAIN row.keys, new.list[i] = AutoDisabled
        PROVE  row.keys[i] \in failed' \cup inherited'
    <3>1. CASE ~(i \in DOMAIN of /\ of[i] = row.keys[i])
      <4>1. row.keys[i] \in Inheriting(row', of)
        BY <1>5, <2>5, <3>1 DEF Inheriting
      <4> QED
        BY <1>4, <4>1
    <3>2. CASE i \in DOMAIN of /\ of[i] = row.keys[i] /\ i = k
      <4>1. upd.status = AutoDisabled
        BY <1>3, <1>7, <1>8, <2>5, <3>2
      <4>2. row.keys[i] = upd.key /\ upd.key \in AllKeys
        BY <1>2, <2>4, <3>2, KeysOfRow
      <4>3. NoKey \notin AllKeys
        BY ChannelStatusAssumption DEF AllKeys, Range, NoKey, Keys
      <4> QED
        BY <1>4, <2>2, <4>1, <4>2, <4>3
    <3>3. CASE i \in DOMAIN of /\ of[i] = row.keys[i] /\ i # k
      <4>1. copy.list[i] = AutoDisabled /\ copy.keys[i] = row.keys[i] /\ i \in DOMAIN copy.keys
        BY <1>3, <1>7, <1>8, <2>4, <2>5, <3>3
      <4> QED
        BY <1>4, <2>3, <4>1 DEF Blames, Suspects
    <3> QED
      BY <3>1, <3>2, <3>3
  <2>6. Blames(row.keys, row.list)'
    BY <1>5, <2>5 DEF Blames, Suspects
  <2>7. \A a \in Slots : adm'[a].pc \in {"count", "write"} => Blames(MadeFor(adm[a]), adm[a].new.list)'
    BY <1>4 DEF Inv, Blamed, Blames, Suspects, MadeFor
  <2> QED
    BY <1>4, <2>1, <2>6, <2>7 DEF Inv, Blamed
<1>13. Following'
  <2>1. changes' = 0 => \A a \in Slots : adm'[a].pc = "idle"
    BY <1>4 DEF Inv, Following
  <2> SUFFICES ASSUME ~overlap'
               PROVE  /\ Tidy(row')
                      /\ upd'.pc = "ability" => ((upd'.status = Enabled) <=> (row'.status = Enabled))
                      /\ \A a \in Slots : adm'[a].pc = "ability"
                            => ((adm'[a].copy.status = Enabled) <=> (row'.status = Enabled))
                      /\ \/ upd'.pc = "ability"
                         \/ \E a \in Slots : adm'[a].pc \in {"reread", "ability"}
                         \/ ability' <=> (row'.status = Enabled)
                      /\ changes' = 0 /\ Usable(row') = {} => row'.status # Enabled
    BY <2>1 DEF Following, Tidy, Usable
  <2>2. copy = row /\ ~overlap /\ \A a \in Slots : adm[a].pc # "ability"
    BY <1>4 DEF Inv, Typed
  <2>3. Tidy(row)
    BY <2>2 DEF Inv, Following
  <2>4. Tidy(row')
    <3>1. row'.size = row.size /\ row'.keys = row.keys
      BY <1>3, <1>5, <2>2
    <3>2. ASSUME NEW i \in Places, i > row.size PROVE row'.list[i] = Enabled
      <4>1. k # i
        <5>1. k \in 1 .. row.size
          BY <1>7, <1>2, <2>2, <2>3, KeysOfRow DEF Tidy
        <5>2. row.size \in Nat
          BY <1>2, <2>3, KeysOfRow DEF Tidy
        <5> QED
          BY <3>2, <5>1, <5>2
      <4>2. row.list[i] = Enabled
        BY <2>3, <3>2 DEF Tidy
      <4> QED
        BY <1>3, <1>5, <1>8, <2>2, <4>1, <4>2
    <3> QED
      BY <2>3, <3>1, <3>2 DEF Tidy
  <2>5. upd'.pc = "ability" => ((upd'.status = Enabled) <=> (row'.status = Enabled))
    BY <1>5, <1>6, <1>9 DEF Idle, Enabled, AutoDisabled
  <2>6. \A a \in Slots : adm'[a].pc # "ability"
    BY <1>4, <2>2
  <2>7. \/ upd'.pc = "ability" \/ \E a \in Slots : adm'[a].pc \in {"reread", "ability"}
        \/ ability' <=> (row'.status = Enabled)
    <3>1. \/ \E a \in Slots : adm[a].pc \in {"reread", "ability"}
          \/ ability <=> (row.status = Enabled)
      BY <1>1, <2>2 DEF Inv, Following
    <3>2. upd'.pc = "ability" \/ row'.status = row.status
      BY <1>5, <1>6, <2>2
    <3> QED
      BY <1>4, <3>1, <3>2
  <2>8. Usable(row') = {} => row'.status # Enabled
    <3>1. Usable(row') = Usable(new)
      BY <1>3, <1>5, <2>2 DEF Usable
    <3> QED
      BY <1>5, <1>10, <2>2, <2>3, <3>1
  <2> QED
    BY <2>4, <2>5, <2>6, <2>7, <2>8
<1> QED
  BY <1>11, <1>12, <1>13 DEF Inv

LEMMA UpdateSaveFailsKeeps == ASSUME Inv, UpdateSaveFails PROVE Inv'
<1> DEFINE new == HandlerMultiKeyUpdate(upd.copy, upd.key, upd.status)
           changed == new.status # upd.copy.status
<1>1. upd \in Saving /\ upd.pc = "save"
  BY Updater DEF Inv, UpdateSaveFails
<1>2. /\ overlap' = (overlap \/ changed)
      /\ upd' = IF changed THEN [pc |-> "ability", status |-> upd.status, saved |-> FALSE] ELSE Idle
      /\ UNCHANGED <<row, ability, cached, listed, pending, adm, sync, failed, inherited,
                     events, changes>>
  BY DEF UpdateSaveFails
<1> HIDE DEF new
<1>3. \/ changed /\ upd' \in Spreading /\ upd'.pc = "ability"
      \/ ~changed /\ upd' = Idle
  BY <1>1, <1>2 DEF Saving, Spreading
<1>4. Typed'
  <2>1. overlap' \in BOOLEAN
    BY <1>2 DEF Inv, Typed
  <2> QED
    BY <1>2, <1>3, <2>1 DEF Inv, Typed
<1>5. Blamed'
  BY <1>2, <1>3 DEF Inv, Blamed, Blames, Suspects, MadeFor, Idle
<1>6. ~overlap' => ~overlap /\ upd' = Idle
  BY <1>2, <1>3 DEF Inv, Typed
<1>7. Following'
  BY <1>1, <1>2, <1>6 DEF Inv, Following, Tidy, Usable, Idle
<1> QED
  BY <1>4, <1>5, <1>7 DEF Inv

LEMMA UpdateAbilityKeeps == ASSUME Inv, UpdateAbility PROVE Inv'
<1>1. Typed'
  <2>1. ability' \in BOOLEAN
    BY DEF UpdateAbility
  <2> QED
    BY <2>1 DEF Inv, Typed, UpdateAbility
<1>2. Blamed'
  BY DEF Inv, Blamed, Blames, Suspects, MadeFor, UpdateAbility, Idle
<1>3. Following'
  BY DEF Inv, Following, UpdateAbility, Tidy, Usable, Idle
<1> QED
  BY <1>1, <1>2, <1>3 DEF Inv

LEMMA AdminReadKeeps ==
    ASSUME Inv, NEW a \in Slots, NEW o \in Operations, AdminRead(a, o) PROVE Inv'
<1> DEFINE new == Apply(row, o)
           req == [pc |-> "count", copy |-> row, new |-> new, locked |-> o.op # "edit"]
<1>1. row \in KeyedRows /\ adm \in [Slots -> {Idle} \cup Drafting \cup Waiting \cup Holding]
  BY DEF Inv, Typed
<1>2. /\ adm' = [adm EXCEPT ![a] = req] /\ changes' = changes + 1 /\ Len(new.keys) <= MaxKeys
      /\ adm[a].pc = "idle"
      /\ UNCHANGED <<row, ability, cached, listed, pending, upd, sync, failed, inherited, overlap,
                     events>>
  BY DEF AdminRead
<1>3. new \in Drafts /\ Blames(MadeFor(req), new.list)
  <2>1. Blames(row.keys, row.list)
    BY DEF Inv, Blamed
  <2>2. CASE o.op = "edit"
    <3>1. o \in Edits
      BY <2>2 DEF Operations
    <3>2. new \in Drafts /\ new.list = row.list
      BY <1>1, <1>2, <3>1, ApplyEdit
    <3>3. MadeFor(req) = row.keys
      BY <2>2 DEF MadeFor
    <3> QED
      BY <2>1, <3>2, <3>3
  <2>3. CASE o.op # "edit"
    <3>1. /\ new \in Drafts
          /\ \A i \in DOMAIN new.keys : new.list[i] = AutoDisabled =>
                 \E k \in DOMAIN row.keys : new.keys[i] = row.keys[k] /\ row.list[k] = AutoDisabled
      BY <1>1, <2>3, ManageKeepsMarks
    <3> HIDE DEF new
    <3>2. MadeFor(req) = new.keys
      BY <2>3 DEF MadeFor
    <3> QED
      BY <2>1, <3>1, <3>2 DEF Blames
  <2> QED
    BY <2>2, <2>3
<1> HIDE DEF new
<1>4. req \in Drafting /\ req.pc = "count" /\ req.new = new
  BY <1>1, <1>3 DEF Drafting
<1> HIDE DEF req
<1>5. adm'[a] = req /\ \A b \in Slots : b # a => adm'[b] = adm[b]
  BY <1>1, <1>2
<1>6. changes' \in Nat /\ changes' # 0
  BY <1>2 DEF Inv, Typed
<1>7. Typed'
  <2>1. adm' \in [Slots -> {Idle} \cup Drafting \cup Waiting \cup Holding]
    BY <1>1, <1>2, <1>4
  <2>2. \A b \in Slots : adm'[b].pc = "write" => Trimmed(adm'[b].new)
    BY <1>4, <1>5 DEF Inv, Typed
  <2> QED
    BY <1>2, <1>6, <2>1, <2>2 DEF Inv, Typed, Trimmed
<1>8. Blamed'
  <2>1. \A b \in Slots : adm'[b].pc \in {"count", "write"} => Blames(MadeFor(adm'[b]), adm'[b].new.list)
    BY <1>3, <1>4, <1>5 DEF Inv, Blamed
  <2> QED
    BY <1>2, <2>1 DEF Inv, Blamed, Blames, Suspects, MadeFor
<1>9. Following'
  <2>1. \A b \in Slots : adm'[b].pc \in {"reread", "ability"} <=> adm[b].pc \in {"reread", "ability"}
    BY <1>2, <1>4, <1>5
  <2>2. \A b \in Slots : adm'[b].pc = "ability" => adm'[b] = adm[b]
    BY <1>4, <1>5
  <2> QED
    BY <1>2, <1>6, <2>1, <2>2 DEF Inv, Following, Tidy, Usable
<1> QED
  BY <1>7, <1>8, <1>9 DEF Inv

(* Channel.Update drops marks, and adds none. *)
LEMMA AdminCountKeeps == ASSUME Inv, NEW a \in Slots, AdminCount(a) PROVE Inv'
<1> DEFINE old == adm[a]
           size == Len(IF old.new.keys = <<>> THEN row.keys ELSE old.new.keys)
           list == [i \in Places |-> IF i <= size THEN old.new.list[i] ELSE Enabled]
           new == Recount(old.new, size)
           req == [old EXCEPT !.pc = "write", !.new = new]
<1>1. adm \in [Slots -> {Idle} \cup Drafting \cup Waiting \cup Holding]
  BY DEF Inv, Typed
<1>2. /\ adm' = [adm EXCEPT ![a] = req] /\ old.pc = "count"
      /\ UNCHANGED <<row, ability, cached, listed, pending, upd, sync, failed, inherited, overlap,
                     events, changes>>
  BY DEF AdminCount
<1>3. old \in Drafting
  BY <1>2, Administrator DEF Inv
<1>4. size \in Nat /\ size >= 1 /\ size <= MaxKeys
  <2>1. row.keys \in Seq(AllKeys) /\ Len(row.keys) \in 1 .. MaxKeys
    BY DEF Inv, Typed, KeyedRows, Rows
  <2>2. old.new.keys \in Seq(AllKeys) /\ Len(old.new.keys) \in 0 .. MaxKeys
    BY <1>3 DEF Drafting, Drafts
  <2> QED
    BY <2>1, <2>2, ChannelStatusAssumption
<1> HIDE DEF size
<1>5. /\ new = [keys |-> old.new.keys, size |-> size, list |-> list, status |-> old.new.status]
      /\ old.new.list \in [Places -> Marks] /\ old.new.keys \in Seq(AllKeys)
      /\ Len(old.new.keys) \in 0 .. MaxKeys /\ old.new.status \in Marks \cup {NoStatus}
  <2>1. /\ old.new = [keys |-> old.new.keys, size |-> old.new.size, list |-> old.new.list,
                       status |-> old.new.status]
        /\ old.new.list \in [Places -> Marks] /\ old.new.keys \in Seq(AllKeys)
        /\ Len(old.new.keys) \in 0 .. MaxKeys /\ old.new.status \in Marks \cup {NoStatus}
    BY <1>3 DEF Drafting, Drafts
  <2>2. new = [old.new EXCEPT !.size = size, !.list = list]
    BY DEF Recount
  <2> HIDE DEF new, list, old
  <2> QED
    BY <2>1, <2>2
<1>6. list \in [Places -> Marks]
  BY <1>5 DEF Marks
<1>7. \A i \in Places : list[i] = AutoDisabled => old.new.list[i] = AutoDisabled
  BY DEF Enabled, AutoDisabled
<1>8. \A i \in Places : i > size => list[i] = Enabled
  <2>1. \A i \in Places : i \in Int
    BY DEF Places
  <2>2. \A i \in Places : i > size => ~(i <= size)
    BY <1>4, <2>1
  <2> QED
    BY <2>2
<1> HIDE DEF list, new
<1>9. new \in Drafts /\ Trimmed(new)
  <2>1. size \in 0 .. MaxKeys
    BY <1>4, ChannelStatusAssumption
  <2> QED
    BY <1>4, <1>5, <1>6, <1>8, <2>1 DEF Drafts, Trimmed
<1>10. /\ req \in Drafting /\ req.pc = "write" /\ req.new = new /\ req.copy = old.copy
       /\ req.locked = old.locked
  BY <1>3, <1>9 DEF Drafting
<1> HIDE DEF req, old
<1>11. adm'[a] = req /\ adm[a] = old /\ \A b \in Slots : b # a => adm'[b] = adm[b]
  BY <1>1, <1>2 DEF old
<1>12. Blames(MadeFor(req), req.new.list)
  <2>1. Blames(MadeFor(old), old.new.list)
    BY <1>2, <1>11 DEF Inv, Blamed
  <2>2. MadeFor(req) = MadeFor(old)
    BY <1>5, <1>10 DEF MadeFor
  <2>3. DOMAIN MadeFor(old) \subseteq Places
    <3>1. DOMAIN old.copy.keys \subseteq Places
      BY <1>3, KeysOfRow DEF Drafting
    <3>2. DOMAIN old.new.keys \subseteq Places
      BY <1>5, ChannelStatusAssumption DEF Places
    <3> QED
      BY <3>1, <3>2 DEF MadeFor
  <2>4. req.new.list = list
    BY <1>5, <1>10
  <2> QED
    BY <1>7, <2>1, <2>2, <2>3, <2>4 DEF Blames
<1>13. Typed'
  <2>1. adm' \in [Slots -> {Idle} \cup Drafting \cup Waiting \cup Holding]
    BY <1>1, <1>2, <1>10
  <2>2. \A b \in Slots : adm'[b].pc = "write" => Trimmed(adm'[b].new)
    BY <1>9, <1>10, <1>11 DEF Inv, Typed
  <2> QED
    BY <1>2, <2>1, <2>2 DEF Inv, Typed, Trimmed
<1>14. Blamed'
  <2>1. \A b \in Slots : adm'[b].pc \in {"count", "write"} => Blames(MadeFor(adm'[b]), adm'[b].new.list)
    BY <1>11, <1>12 DEF Inv, Blamed
  <2> QED
    BY <1>2, <2>1 DEF Inv, Blamed, Blames, Suspects, MadeFor
<1>15. Following'
  <2>1. \A b \in Slots : adm'[b].pc \in {"reread", "ability"} <=> adm[b].pc \in {"reread", "ability"}
    BY <1>2, <1>10, <1>11
  <2>2. \A b \in Slots : adm'[b].pc = "ability" => adm'[b] = adm[b]
    BY <1>10, <1>11
  <2>3. changes # 0
    BY <1>2, <1>11 DEF Inv, Following
  <2> QED
    BY <1>2, <2>1, <2>2, <2>3 DEF Inv, Following, Tidy, Usable
<1> QED
  BY <1>13, <1>14, <1>15 DEF Inv

(* Channel.Update writes marks made for the keys that ManageMultiKeys       *)
(* leaves, or that UpdateChannel read; a key that bears one made for        *)
(* another inherits it.                                                     *)
LEMMA AdminWriteKeeps == ASSUME Inv, NEW a \in Slots, AdminWrite(a) PROVE Inv'
<1> DEFINE old == adm[a]
           new == old.new
           of == MadeFor(old)
           req == [pc |-> "reread", locked |-> old.locked]
           keys == IF new.keys = <<>> THEN row.keys ELSE new.keys
           status == IF new.status = NoStatus THEN row.status ELSE new.status
<1>1. adm \in [Slots -> {Idle} \cup Drafting \cup Waiting \cup Holding] /\ row \in KeyedRows
  BY DEF Inv, Typed
<1>2. /\ old.pc = "write" /\ row' = [new EXCEPT !.keys = keys, !.status = status]
      /\ inherited' = inherited \cup Inheriting(row', of)
      /\ overlap' = (overlap \/ old.copy # row \/ row'.size # Len(row'.keys)
                             \/ upd.pc = "ability" \/ \E b \in Slots : adm[b].pc = "ability")
      /\ adm' = [adm EXCEPT ![a] = req]
      /\ UNCHANGED <<ability, cached, listed, pending, upd, sync, failed, events, changes>>
  BY DEF AdminWrite, MadeFor
<1>3. old \in Drafting /\ new \in Drafts /\ Trimmed(new) /\ Blames(of, new.list)
  <2>1. old \in Drafting
    BY <1>2, Administrator DEF Inv
  <2>2. Trimmed(new) /\ Blames(of, new.list)
    BY <1>2 DEF Inv, Typed, Blamed
  <2> QED
    BY <2>1, <2>2 DEF Drafting
<1>4. req \in Waiting /\ req.pc = "reread"
  BY <1>3 DEF Drafting, Waiting
<1>5. /\ new = [keys |-> new.keys, size |-> new.size, list |-> new.list, status |-> new.status]
      /\ new.keys \in Seq(AllKeys) /\ new.size \in 0 .. MaxKeys
      /\ new.list \in [Places -> Marks] /\ Len(new.keys) \in 0 .. MaxKeys
      /\ new.status \in Marks \cup {NoStatus}
  <2> HIDE DEF new
  <2> QED
    BY <1>3 DEF Drafts
<1>6. keys \in Seq(AllKeys) /\ Len(keys) \in 1 .. MaxKeys
  <2>1. row.keys \in Seq(AllKeys) /\ Len(row.keys) \in 1 .. MaxKeys
    BY <1>1 DEF KeyedRows, Rows
  <2> QED
    BY <1>5, <2>1, ChannelStatusAssumption
<1>7. status \in Marks
  BY <1>1, <1>5 DEF KeyedRows, Rows, Marks
<1>8. adm'[a] = req /\ \A b \in Slots : b # a => adm'[b] = adm[b]
  BY <1>1, <1>2
<1>9. adm[a].pc = "write"
  BY <1>2
<1> HIDE DEF keys, status, new, of, old, req
<1>10. row' = [keys |-> keys, size |-> new.size, list |-> new.list, status |-> status]
  BY <1>2, <1>5
<1>11. row' \in KeyedRows
  <2>1. row' \in Rows
    BY <1>5, <1>6, <1>7, <1>10 DEF Rows, Marks
  <2> QED
    BY <1>3, <1>6, <1>10, <2>1 DEF KeyedRows, Trimmed
<1>12. Typed'
  <2>1. overlap' \in BOOLEAN
    BY <1>2 DEF Inv, Typed
  <2>2. Inheriting(row', of) \subseteq AllKeys
    BY <1>11, KeysOfRow DEF Inheriting
  <2>3. adm' \in [Slots -> {Idle} \cup Drafting \cup Waiting \cup Holding]
    BY <1>1, <1>2, <1>4
  <2>4. \A b \in Slots : adm'[b].pc = "write" => Trimmed(adm'[b].new)
    BY <1>4, <1>8 DEF Inv, Typed
  <2> QED
    BY <1>2, <1>11, <2>1, <2>2, <2>3, <2>4 DEF Inv, Typed, Trimmed
<1>13. Blamed'
  <2>1. ASSUME NEW i \in DOMAIN keys, new.list[i] = AutoDisabled
        PROVE  keys[i] \in failed' \cup inherited'
    <3>1. CASE i \in DOMAIN of /\ of[i] = keys[i]
      BY <1>2, <1>3, <2>1, <3>1 DEF Blames, Suspects
    <3>2. CASE ~(i \in DOMAIN of /\ of[i] = keys[i])
      <4>1. keys[i] \in Inheriting(row', of)
        BY <1>10, <2>1, <3>2 DEF Inheriting
      <4> QED
        BY <1>2, <4>1
    <3> QED
      BY <3>1, <3>2
  <2>2. Blames(row.keys, row.list)'
    BY <1>10, <2>1 DEF Blames, Suspects
  <2>3. \A b \in Slots : adm'[b].pc \in {"count", "write"} =>
            b # a /\ adm[b].pc \in {"count", "write"} /\ adm'[b] = adm[b]
    BY <1>4, <1>8
  <2>4. \A b \in Slots : adm'[b].pc \in {"count", "write"} => Blames(MadeFor(adm'[b]), adm'[b].new.list)
    BY <2>3 DEF Inv, Blamed
  <2>5. failed' = failed /\ inherited \subseteq inherited'
    BY <1>2
  <2>6. \A b \in Slots : adm'[b].pc \in {"count", "write"} => Blames(MadeFor(adm[b]), adm[b].new.list)'
    BY <2>4, <2>5 DEF Blames, Suspects, MadeFor
  <2>7. upd'.pc \in {"apply", "save"} => Blames(upd.copy.keys, upd.copy.list)'
    BY <1>2, <2>5 DEF Inv, Blamed, Blames, Suspects
  <2> QED
    BY <1>2, <2>2, <2>6, <2>7 DEF Inv, Blamed
<1>14. Following'
  <2>1. changes' # 0
    BY <1>2, <1>9 DEF Inv, Following
  <2>2. ~overlap' => Tidy(row')
    BY <1>2, <1>3, <1>10 DEF Inv, Typed, Tidy, Trimmed
  <2>3. ~overlap' => upd'.pc # "ability" /\ \A b \in Slots : adm'[b].pc # "ability"
    BY <1>2, <1>4, <1>8 DEF Inv, Typed
  <2>4. adm'[a].pc = "reread"
    BY <1>4, <1>8
  <2> QED
    BY <2>1, <2>2, <2>3, <2>4 DEF Following, Tidy
<1> QED
  BY <1>12, <1>13, <1>14 DEF Inv

LEMMA AdminRereadKeeps == ASSUME Inv, NEW a \in Slots, AdminReread(a) PROVE Inv'
<1> DEFINE req == [pc |-> "ability", copy |-> row, locked |-> adm[a].locked]
<1>1. adm \in [Slots -> {Idle} \cup Drafting \cup Waiting \cup Holding] /\ row \in KeyedRows
  BY DEF Inv, Typed
<1>2. adm' = [adm EXCEPT ![a] = req]
  BY DEF AdminReread
<1>3. adm[a] \in Waiting /\ adm[a].pc = "reread"
  BY Administrator DEF Inv, AdminReread
<1>4. req \in Holding /\ req.pc = "ability" /\ req.copy = row
  BY <1>1, <1>3 DEF Waiting, Holding
<1> HIDE DEF req
<1>5. adm'[a] = req /\ \A b \in Slots : b # a => adm'[b] = adm[b]
  BY <1>1, <1>2
<1>7. Typed'
  <2>1. adm' \in [Slots -> {Idle} \cup Drafting \cup Waiting \cup Holding]
    BY <1>1, <1>2, <1>4
  <2>2. \A b \in Slots : adm'[b].pc = "write" => Trimmed(adm'[b].new)
    BY <1>4, <1>5 DEF Inv, Typed
  <2> QED
    BY <2>1, <2>2 DEF Inv, Typed, Trimmed, AdminReread
<1>8. Blamed'
  <2>1. \A b \in Slots : adm'[b].pc \in {"count", "write"} =>
            adm[b].pc \in {"count", "write"} /\ adm'[b] = adm[b]
    BY <1>4, <1>5
  <2> QED
    BY <2>1 DEF Inv, Blamed, Blames, Suspects, MadeFor, AdminReread
<1>9. Following'
  <2>1. changes # 0
    BY <1>3 DEF Inv, Following
  <2>2. \A b \in Slots : adm'[b].pc = "ability" => (adm'[b] = adm[b] \/ adm'[b].copy = row)
    BY <1>4, <1>5
  <2>3. adm'[a].pc \in {"reread", "ability"}
    BY <1>4, <1>5
  <2> QED
    BY <2>1, <2>2, <2>3 DEF Inv, Following, Tidy, Usable, AdminReread
<1> QED
  BY <1>7, <1>8, <1>9 DEF Inv

LEMMA AdminAbilityKeeps == ASSUME Inv, NEW a \in Slots, AdminAbility(a) PROVE Inv'
<1> DEFINE req == [pc |-> "reload", locked |-> adm[a].locked]
<1>1. adm \in [Slots -> {Idle} \cup Drafting \cup Waiting \cup Holding] /\ row \in KeyedRows
  BY DEF Inv, Typed
<1>2. adm' = [adm EXCEPT ![a] = req]
  BY DEF AdminAbility
<1>3. adm[a] \in Holding /\ adm[a].pc = "ability"
  BY Administrator DEF Inv, AdminAbility
<1>4. req \in Waiting /\ req.pc = "reload"
  BY <1>1, <1>3 DEF Holding, Waiting
<1> HIDE DEF req
<1>5. adm'[a] = req /\ \A b \in Slots : b # a => adm'[b] = adm[b]
  BY <1>1, <1>2
<1>7. Typed'
  <2>1. adm' \in [Slots -> {Idle} \cup Drafting \cup Waiting \cup Holding]
    BY <1>1, <1>2, <1>4
  <2>2. \A b \in Slots : adm'[b].pc = "write" => Trimmed(adm'[b].new)
    BY <1>4, <1>5 DEF Inv, Typed
  <2>3. ability' \in BOOLEAN
    BY DEF AdminAbility
  <2> QED
    BY <2>1, <2>2, <2>3 DEF Inv, Typed, Trimmed, AdminAbility
<1>8. Blamed'
  <2>1. \A b \in Slots : adm'[b].pc \in {"count", "write"} =>
            adm[b].pc \in {"count", "write"} /\ adm'[b] = adm[b]
    BY <1>4, <1>5
  <2> QED
    BY <2>1 DEF Inv, Blamed, Blames, Suspects, MadeFor, AdminAbility
<1>9. Following'
  <2>1. changes # 0
    BY <1>3 DEF Inv, Following
  <2>2. \A b \in Slots : adm'[b].pc = "ability" => adm'[b] = adm[b]
    BY <1>4, <1>5
  <2>3. ~overlap => (ability' <=> (row.status = Enabled))
    BY <1>3 DEF Inv, Following, AdminAbility
  <2> QED
    BY <2>1, <2>2, <2>3 DEF Inv, Following, Tidy, Usable, AdminAbility
<1> QED
  BY <1>7, <1>8, <1>9 DEF Inv

LEMMA AdminReloadKeeps == ASSUME Inv, NEW a \in Slots, AdminReload(a) PROVE Inv'
<1> DEFINE req == [pc |-> "install", copy |-> row, locked |-> adm[a].locked]
<1>1. adm \in [Slots -> {Idle} \cup Drafting \cup Waiting \cup Holding] /\ row \in KeyedRows
  BY DEF Inv, Typed
<1>2. adm' = [adm EXCEPT ![a] = req]
  BY DEF AdminReload
<1>3. adm[a] \in Waiting /\ adm[a].pc = "reload"
  BY Administrator DEF Inv, AdminReload
<1>4. req \in Holding /\ req.pc = "install" /\ req.copy = row
  BY <1>1, <1>3 DEF Waiting, Holding
<1> HIDE DEF req
<1>5. adm'[a] = req /\ \A b \in Slots : b # a => adm'[b] = adm[b]
  BY <1>1, <1>2
<1>7. Typed'
  <2>1. adm' \in [Slots -> {Idle} \cup Drafting \cup Waiting \cup Holding]
    BY <1>1, <1>2, <1>4
  <2>2. \A b \in Slots : adm'[b].pc = "write" => Trimmed(adm'[b].new)
    BY <1>4, <1>5 DEF Inv, Typed
  <2> QED
    BY <2>1, <2>2 DEF Inv, Typed, Trimmed, AdminReload
<1>8. Blamed'
  <2>1. \A b \in Slots : adm'[b].pc \in {"count", "write"} =>
            adm[b].pc \in {"count", "write"} /\ adm'[b] = adm[b]
    BY <1>4, <1>5
  <2> QED
    BY <2>1 DEF Inv, Blamed, Blames, Suspects, MadeFor, AdminReload
<1>9. Following'
  <2>1. changes # 0
    BY <1>3 DEF Inv, Following
  <2>2. \A b \in Slots : adm'[b].pc = "ability" => adm'[b] = adm[b]
    BY <1>4, <1>5
  <2>3. \A b \in Slots : adm[b].pc \in {"reread", "ability"} => adm'[b] = adm[b]
    BY <1>3, <1>5
  <2> QED
    BY <2>1, <2>2, <2>3 DEF Inv, Following, Tidy, Usable, AdminReload
<1> QED
  BY <1>7, <1>8, <1>9 DEF Inv

(* Installing a row in the cache leaves a call in progress with a pointer   *)
(* to the old channel, and what it read from the database as it was.        *)
LEMMA InstallKeeps ==
    ASSUME Inv, NEW r \in KeyedRows, Install(r)
    PROVE  /\ cached' \in KeyedRows /\ listed' \in BOOLEAN
           /\ upd' \in {Idle} \cup Calling \cup Called \cup Saving \cup Spreading
           /\ upd'.pc = upd.pc
           /\ upd.pc = "cache" => upd'.key = upd.key /\ upd'.status = upd.status
           /\ upd.pc # "cache" => upd' = upd
<1>1. cached' \in KeyedRows /\ listed' \in BOOLEAN
  BY DEF Install
<1>2. CASE upd.pc # "cache"
  BY <1>1, <1>2 DEF Install, Inv, Typed
<1>3. CASE upd.pc = "cache"
  <2>1. upd \in Calling
    BY <1>3, Updater DEF Inv
  <2> QED
    BY <1>1, <1>3, <2>1 DEF Install, Calling
<1> QED
  BY <1>2, <1>3

LEMMA AdminInstallKeeps == ASSUME Inv, NEW a \in Slots, AdminInstall(a) PROVE Inv'
<1> DEFINE req == Idle
<1>1. adm \in [Slots -> {Idle} \cup Drafting \cup Waiting \cup Holding] /\ row \in KeyedRows
  BY DEF Inv, Typed
<1>2. adm' = [adm EXCEPT ![a] = req]
  BY DEF AdminInstall
<1>3. adm[a] \in Holding /\ adm[a].pc = "install"
  BY Administrator DEF Inv, AdminInstall
<1>4. req \in {Idle} /\ req.pc = "idle"
  BY <1>1, <1>3 DEF Holding, Idle
<1> HIDE DEF req
<1>5. adm'[a] = req /\ \A b \in Slots : b # a => adm'[b] = adm[b]
  BY <1>1, <1>2
<1>6. /\ cached' \in KeyedRows /\ listed' \in BOOLEAN
      /\ upd' \in {Idle} \cup Calling \cup Called \cup Saving \cup Spreading /\ upd'.pc = upd.pc
      /\ upd.pc = "cache" => upd'.key = upd.key /\ upd'.status = upd.status
      /\ upd.pc # "cache" => upd' = upd
  BY <1>3, InstallKeeps DEF AdminInstall, Holding
<1>7. Typed'
  <2>1. adm' \in [Slots -> {Idle} \cup Drafting \cup Waiting \cup Holding]
    BY <1>1, <1>2, <1>4
  <2>2. \A b \in Slots : adm'[b].pc = "write" => Trimmed(adm'[b].new)
    BY <1>4, <1>5 DEF Inv, Typed
  <2> QED
    BY <2>1, <2>2, <1>6 DEF Inv, Typed, Trimmed, AdminInstall
<1>8. Blamed'
  <2>1. \A b \in Slots : adm'[b].pc \in {"count", "write"} =>
            adm[b].pc \in {"count", "write"} /\ adm'[b] = adm[b]
    BY <1>4, <1>5
  <2> QED
    BY <2>1, <1>6 DEF Inv, Blamed, Blames, Suspects, MadeFor, AdminInstall
<1>9. Following'
  <2>1. changes # 0
    BY <1>3 DEF Inv, Following
  <2>2. \A b \in Slots : adm'[b].pc = "ability" => adm'[b] = adm[b]
    BY <1>4, <1>5
  <2>3. \A b \in Slots : adm[b].pc \in {"reread", "ability"} => adm'[b] = adm[b]
    BY <1>3, <1>5
  <2> QED
    BY <2>1, <2>2, <2>3, <1>6 DEF Inv, Following, Tidy, Usable, AdminInstall
<1> QED
  BY <1>7, <1>8, <1>9 DEF Inv

LEMMA SyncReadKeeps == ASSUME Inv, SyncRead PROVE Inv'
<1>1. sync' \in Syncing
  BY DEF SyncRead, Syncing, Inv, Typed
<1>2. Typed'
  BY <1>1 DEF Inv, Typed, SyncRead
<1>3. Blamed'
  BY DEF Inv, Blamed, Blames, Suspects, MadeFor, SyncRead
<1>4. Following'
  BY DEF Inv, Following, SyncRead, Tidy, Usable
<1> QED
  BY <1>2, <1>3, <1>4 DEF Inv

LEMMA SyncInstallKeeps == ASSUME Inv, SyncInstall PROVE Inv'
<1>1. sync.copy \in KeyedRows
  BY Updater DEF Inv, SyncInstall, Syncing
<1>2. /\ cached' \in KeyedRows /\ listed' \in BOOLEAN
      /\ upd' \in {Idle} \cup Calling \cup Called \cup Saving \cup Spreading /\ upd'.pc = upd.pc
      /\ upd.pc = "cache" => upd'.key = upd.key /\ upd'.status = upd.status
      /\ upd.pc # "cache" => upd' = upd
  BY <1>1, InstallKeeps DEF SyncInstall
<1>3. Typed'
  BY <1>2 DEF Inv, Typed, SyncInstall
<1>4. Blamed'
  BY <1>2 DEF Inv, Blamed, Blames, Suspects, MadeFor, SyncInstall
<1>5. Following'
  BY <1>2 DEF Inv, Following, SyncInstall, Tidy, Usable
<1> QED
  BY <1>3, <1>4, <1>5 DEF Inv

-----------------------------------------------------------------------------

LEMMA InitInv == Init => Inv
<1> SUFFICES ASSUME Init PROVE Inv
  OBVIOUS
<1>1. /\ Len(InitialKeys) \in Nat /\ DOMAIN InitialKeys = 1 .. Len(InitialKeys)
      /\ InitialKeys \in Seq(AllKeys) /\ Len(InitialKeys) >= 1 /\ Len(InitialKeys) <= MaxKeys
      /\ MaxKeys \in Nat /\ DOMAIN InitialKeys \subseteq Places
  <2>1. /\ InitialKeys \in Seq(Keys) /\ Len(InitialKeys) \in Nat /\ Len(InitialKeys) <= MaxKeys
        /\ MaxKeys \in Nat /\ DOMAIN InitialKeys = 1 .. Len(InitialKeys)
    BY ChannelStatusAssumption
  <2>2. InitialKeys \in Seq(AllKeys)
    BY <2>1 DEF AllKeys, Range
  <2>3. Len(InitialKeys) >= 1
    <3>1. DOMAIN InitialKeys # {}
      BY ChannelStatusAssumption
    <3>2. 1 .. Len(InitialKeys) # {}
      BY <2>1, <3>1
    <3> QED
      BY <2>1, <3>2
  <2> QED
    BY <2>1, <2>2, <2>3 DEF Places
<1>2. InitialRow \in KeyedRows
  <2>1. InitialRow \in Rows
    BY <1>1 DEF InitialRow, Rows
  <2> QED
    BY <1>1, <2>1 DEF InitialRow, KeyedRows
<1>3. Typed
  <2>1. failed \subseteq AllKeys
    BY <1>1, ChannelStatusAssumption DEF Init
  <2> QED
    BY <1>2, <2>1 DEF Init, Typed, Idle
<1>4. Blames(InitialKeys, InitialRow.list)
  BY <1>1 DEF Init, Blames, Suspects, InitialRow, Enabled, AutoDisabled
<1>5. Blamed
  BY <1>4 DEF Init, Blamed, InitialRow, Idle
<1>6. Usable(InitialRow) # {}
  <2>1. PICK i \in DOMAIN InitialKeys : i \notin InitialFailed
    BY ChannelStatusAssumption
  <2> QED
    BY <1>1, <2>1 DEF Usable, InitialRow
<1>7. Tidy(InitialRow)
  <2>1. \A i \in Places : i > Len(InitialKeys) => i \notin InitialFailed
    BY <1>1, ChannelStatusAssumption
  <2> QED
    BY <2>1 DEF Tidy, InitialRow
<1>8. ability <=> (row.status = Enabled)
  BY DEF Init, InitialRow
<1>9. Following
  BY <1>6, <1>7, <1>8 DEF Init, Following, Idle
<1> QED
  BY <1>3, <1>5, <1>9 DEF Inv

LEMMA NextInv == Inv /\ [Next]_vars => Inv'
<1> SUFFICES ASSUME Inv, [Next]_vars PROVE Inv'
  OBVIOUS
<1>1. CASE \E i \in Places : RequestFails(i) \/ TestSucceeds(i)
  BY <1>1, RequestFailsKeeps, TestSucceedsKeeps
<1>2. CASE Update
  BY <1>2, UpdateStartKeeps, UpdateCacheKeeps, UpdateReadKeeps, UpdateApplyKeeps,
     UpdateSaveKeeps, UpdateSaveFailsKeeps, UpdateAbilityKeeps DEF Update
<1>3. CASE \E a \in Slots, o \in Operations : AdminRead(a, o)
  BY <1>3, AdminReadKeeps
<1>4. CASE \E a \in Slots : Admin(a)
  BY <1>4, AdminCountKeeps, AdminWriteKeeps, AdminRereadKeeps, AdminAbilityKeeps, AdminReloadKeeps,
     AdminInstallKeeps DEF Admin
<1>5. CASE UNCHANGED vars
  <2>1. Typed'
    BY <1>5 DEF Inv, Typed, Trimmed, vars
  <2>2. Blamed'
    BY <1>5 DEF Inv, Blamed, Blames, Suspects, MadeFor, vars
  <2>3. Following'
    BY <1>5 DEF Inv, Following, Tidy, Usable, vars
  <2> QED
    BY <2>1, <2>2, <2>3 DEF Inv
<1> QED
  BY <1>1, <1>2, <1>3, <1>4, <1>5, RequestWithoutKeyKeeps, SyncReadKeeps, SyncInstallKeeps DEF Next

LEMMA InvHolds == Spec => []Inv
  BY InitInv, NextInv, PTL DEF Spec

(* Every variable stays in its type, whatever the parties write over:       *)
(* the sizes of lists that were indexed anew and written back included.     *)
THEOREM TypeCorrect == Spec => []TypeOK
<1>1. Inv => TypeOK
  <2> SUFFICES ASSUME Inv PROVE TypeOK
    OBVIOUS
  <2>1. ASSUME NEW r \in KeyedRows
        PROVE  /\ Range(r.keys) \subseteq AllKeys /\ r.size \in 0 .. MaxKeys
               /\ r.list \in [Places -> {Enabled, ManuallyDisabled, AutoDisabled}]
               /\ r.status \in {Enabled, ManuallyDisabled, AutoDisabled}
    BY KeysOfRow DEF KeyedRows, Rows, Range
  <2>2. {ability, listed, overlap} \subseteq BOOLEAN
    BY DEF Inv, Typed
  <2>3. /\ upd.pc \in {"idle", "cache", "read", "apply", "save", "ability"}
        /\ \A a \in Slots :
               adm[a].pc \in {"idle", "count", "write", "reread", "ability", "reload", "install"}
        /\ sync.pc \in {"idle", "install"}
    BY DEF Inv, Typed, Idle, Calling, Called, Saving, Spreading, Drafting, Waiting, Holding, Syncing
  <2> QED
    BY <2>1, <2>2, <2>3 DEF Inv, Typed, TypeOK
<1> QED
  BY <1>1, InvHolds, PTL

(* A key that is disabled automatically is one that a request failed with,  *)
(* or one that took the place of another in the list of keys beside a list  *)
(* of marks made for that one (UpdateChannel with other keys, or a write    *)
(* that read the row before another's); for every list of keys and however  *)
(* requests, tests, several administrators and reloads interleave.          *)
THEOREM OnlyFailedKeysAreBlamed == Spec => []BlamedKeyFailed
<1>1. Inv => BlamedKeyFailed
  BY DEF Inv, Blamed, Blames, Suspects, BlamedKeyFailed
<1> QED
  BY <1>1, InvHolds, PTL

(* When nothing is under way the abilities in the database are those of the *)
(* channel's status, for every interleaving in which no write failed or was *)
(* written over (UpdateAbilityStatus and UpdateAbilities).                  *)
THEOREM AbilitiesAgree == Spec => []AbilitiesFollow
<1>1. Inv => AbilitiesFollow
  <2> SUFFICES ASSUME Inv, upd.pc = "idle", \A a \in Slots : adm[a].pc = "idle", ~overlap
               PROVE  ability = (row.status = Enabled)
    BY DEF AbilitiesFollow
  <2>1. ability <=> (row.status = Enabled)
    BY DEF Inv, Following
  <2>2. ability \in BOOLEAN
    BY DEF Inv, Typed
  <2> QED
    BY <2>1, <2>2
<1> QED
  BY <1>1, InvHolds, PTL

(* A channel none of whose keys is enabled any more has been switched off,  *)
(* for every number of keys and every order of the calls of                 *)
(* UpdateChannelStatus, unless a write failed or an administrator wrote.    *)
THEOREM KeylessChannelIsOff == Spec => []KeylessIsOff
<1>1. Inv => KeylessIsOff
  BY DEF Inv, Following, KeylessIsOff
<1> QED
  BY <1>1, InvHolds, PTL
=============================================================================
