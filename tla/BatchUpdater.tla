---------------------------- MODULE BatchUpdater ----------------------------
(***************************************************************************)
(* The write-behind counters of model/utils.go.  With                      *)
(* BatchUpdateEnabled, a change to a counter column (a user's quota, a     *)
(* token's quota, a user's used quota and request count, a channel's used  *)
(* quota) is added to a process-local map and written to the database by   *)
(* a background loop.                                                      *)
(*                                                                         *)
(* A key is one entry of one of the five maps, i.e. one column of one row. *)
(* A map entry that is absent and one that holds 0 are both 0 here: the    *)
(* second only causes an UPDATE that adds 0.                               *)
(***************************************************************************)
EXTENDS Options, Integers

CONSTANTS Keys,               \* the counter columns
          BatchUpdateType,    \* [Keys -> 0 .. 4]: the map a key belongs to
          DBMayFail,          \* whether an UPDATE may return an error
          InitialDB           \* [Keys -> Int]: the columns at start-up

(* BatchUpdateTypeUserQuota .. BatchUpdateTypeRequestCount *)
UserQuotaType == 0
TokenQuotaType == 1
UsedQuotaType == 2
ChannelUsedQuotaType == 3
RequestCountType == 4
BatchUpdateTypeCount == 5

ASSUME BatchAssumption ==
    /\ BatchUpdateType \in [Keys -> 0 .. BatchUpdateTypeCount - 1]
    /\ BatchUpdateEnabled \in BOOLEAN
    /\ DBMayFail \in BOOLEAN
    /\ InitialDB \in [Keys -> Int]

VARIABLES
    db,       \* [Keys -> Int]: the committed column values
    stores,   \* [Keys -> Int]: batchUpdateStores
    batch,    \* [Keys -> Int]: the map the updater took and is writing
    batchPos, \* the index i of batchUpdate's loop; BatchUpdateTypeCount: asleep
    lost,     \* [Keys -> Int]: accepted deltas that will never be written (history)
    issued    \* [Keys -> Int]: accepted deltas since the start (history)

batchVars == <<db, stores, batch, batchPos, lost, issued>>

Zero == [k \in Keys |-> 0]
Plus(f, g) == [k \in Keys |-> f[k] + g[k]]
At(k, v) == [Zero EXCEPT ![k] = v]

BatchTypeOK ==
    /\ db \in [Keys -> Int]
    /\ stores \in [Keys -> Int]
    /\ batch \in [Keys -> Int]
    /\ batchPos \in 0 .. BatchUpdateTypeCount
    /\ lost \in [Keys -> Int]
    /\ issued \in [Keys -> Int]

BatchInit ==
    /\ db = InitialDB
    /\ stores = Zero
    /\ batch = Zero
    /\ batchPos = BatchUpdateTypeCount
    /\ lost = Zero
    /\ issued = Zero

-----------------------------------------------------------------------------
(* A goroutine changes counters: addNewRecord for each with batching, an    *)
(* UPDATE ... SET c = c + ? for each without.                               *)
Record(delta) ==
    /\ IF BatchUpdateEnabled
       THEN stores' = Plus(stores, delta) /\ UNCHANGED db
       ELSE db' = Plus(db, delta) /\ UNCHANGED stores
    /\ issued' = Plus(issued, delta)
    /\ UNCHANGED <<batch, batchPos, lost>>

(* The UPDATE of the unbatched path returns an error to its caller.         *)
RecordFails ==
    /\ DBMayFail
    /\ ~BatchUpdateEnabled
    /\ UNCHANGED batchVars

(* The used-quota columns are written by functions that only log an error:  *)
(* the caller goes on as if the UPDATE of the keys in failing had happened.  *)
RecordLogged(delta, failing) ==
    /\ DBMayFail
    /\ ~BatchUpdateEnabled
    /\ LET dropped == [k \in Keys |-> IF k \in failing THEN delta[k] ELSE 0]
       IN  /\ db' = [k \in Keys |-> db[k] + delta[k] - dropped[k]]
           /\ lost' = Plus(lost, dropped)
    /\ issued' = Plus(issued, delta)
    /\ UNCHANGED <<stores, batch, batchPos>>

-----------------------------------------------------------------------------
Asleep == batchPos = BatchUpdateTypeCount /\ batch = Zero

(* Mutant: only the map of used quotas is inspected. *)
BatchWakeOneMap ==
    /\ BatchUpdateEnabled
    /\ Asleep
    /\ \E k \in Keys : BatchUpdateType[k] = UsedQuotaType /\ stores[k] # 0
    /\ batchPos' = 0
    /\ UNCHANGED <<db, stores, batch, lost, issued>>

(* batchUpdate wakes up and finds that some map is not empty. *)
BatchWake ==
    /\ BatchUpdateEnabled
    /\ Asleep
    /\ stores # Zero
    /\ batchPos' = 0
    /\ UNCHANGED <<db, stores, batch, lost, issued>>

OfType(i) == {k \in Keys : BatchUpdateType[k] = i}

(* Mutant: the loop runs once too often. *)
BatchTakeTooFar ==
    /\ batchPos <= BatchUpdateTypeCount
    /\ batch = Zero
    /\ batch' = [k \in Keys |-> IF k \in OfType(batchPos) THEN stores[k] ELSE 0]
    /\ stores' = [k \in Keys |-> IF k \in OfType(batchPos) THEN 0 ELSE stores[k]]
    /\ batchPos' = batchPos + 1
    /\ UNCHANGED <<db, lost, issued>>

(* Mutant: every map is emptied, not only the one that is taken. *)
BatchTakeEmptiesAll ==
    /\ batchPos < BatchUpdateTypeCount
    /\ batch = Zero
    /\ batch' = [k \in Keys |-> IF k \in OfType(batchPos) THEN stores[k] ELSE 0]
    /\ stores' = Zero
    /\ batchPos' = batchPos + 1
    /\ UNCHANGED <<db, lost, issued>>

(* One pass of the loop takes the map of type batchPos under its lock ...   *)
BatchTake ==
    /\ batchPos < BatchUpdateTypeCount
    /\ batch = Zero
    /\ batch' = [k \in Keys |-> IF k \in OfType(batchPos) THEN stores[k] ELSE 0]
    /\ stores' = [k \in Keys |-> IF k \in OfType(batchPos) THEN 0 ELSE stores[k]]
    /\ batchPos' = batchPos + 1
    /\ UNCHANGED <<db, lost, issued>>

(* ... and writes its entries one by one, outside the lock. *)
BatchWrite(k) ==
    /\ batch[k] # 0
    /\ db' = [db EXCEPT ![k] = @ + batch[k]]
    /\ batch' = [batch EXCEPT ![k] = 0]
    /\ UNCHANGED <<stores, batchPos, lost, issued>>

(* Mutant: the entry is put back, although the lost delta is counted. *)
BatchWriteFailsPutsBack(k) ==
    /\ DBMayFail
    /\ batch[k] # 0
    /\ lost' = [lost EXCEPT ![k] = @ + batch[k]]
    /\ stores' = [stores EXCEPT ![k] = @ + batch[k]]
    /\ batch' = [batch EXCEPT ![k] = 0]
    /\ UNCHANGED <<db, batchPos, issued>>

(* A failed UPDATE is logged; the entry is already out of the map. *)
BatchWriteFails(k) ==
    /\ DBMayFail
    /\ batch[k] # 0
    /\ lost' = [lost EXCEPT ![k] = @ + batch[k]]
    /\ batch' = [batch EXCEPT ![k] = 0]
    /\ UNCHANGED <<db, stores, batchPos, issued>>

(* The process dies: what it had not written is gone. *)
BatchCrash ==
    /\ lost' = [k \in Keys |-> lost[k] + stores[k] + batch[k]]
    /\ stores' = Zero
    /\ batch' = Zero
    /\ batchPos' = BatchUpdateTypeCount
    /\ UNCHANGED <<db, issued>>

BatchUpdate ==
    \/ BatchWake
    \/ BatchTake
    \/ \E k \in Keys : BatchWrite(k) \/ BatchWriteFails(k)

-----------------------------------------------------------------------------
(* No delta is dropped silently and none is applied twice: what was         *)
(* accepted for a column is in the database, in a map, in the batch being   *)
(* written, or was lost to a failed write or a crash.  This is what         *)
(* batchUpdate's swap of the map under the lock and the write outside it    *)
(* have to preserve while goroutines keep calling addNewRecord.             *)
BatchConservation ==
    \A k \in Keys :
        db[k] + stores[k] + batch[k] + lost[k] = InitialDB[k] + issued[k]
=============================================================================
