----------------------------- MODULE QuotaCache -----------------------------
(***************************************************************************)
(* The quota of one user in three places: the row of the database, the map *)
(* of the batch updater and the hash "user:<id>" in Redis (model/user.go,  *)
(* model/user_cache.go, model/utils.go, common/redis.go).                  *)
(*                                                                         *)
(* Most changes of the quota start a goroutine for Redis and go on to the  *)
(* row or the map: nothing orders the two.  The goroutine asks for the     *)
(* key's TTL and adds to the hash by a second command.  A request that     *)
(* finds no hash reads the row and stores it by a goroutine of its own.    *)
(* Payments and redemptions raise the row by a transaction and never tell  *)
(* Redis.  Updates and edits of the account, invitations and transfers of  *)
(* affiliate quota write a quota that was read before back to the row.     *)
(***************************************************************************)
EXTENDS Options, Integers, FiniteSets, Functions

CONSTANTS
    Changes,             \* what raises or lowers the quota, once each
    Delta,               \* what each adds to the quota
    Readers,             \* concurrent calls of GetUserCache
    Savers,              \* concurrent writes of a quota that was read before
    Kind,                \* what each is: "update", "edit" or "save"
    InitialQuota,
    MaxSaves,            \* bound on those writes
    MaxErrors            \* bound on commands and statements that fail

ASSUME QuotaCacheAssumption ==
    /\ IsFiniteSet(Changes) /\ Delta \in [Changes -> Int \ {0}]
    /\ InitialQuota \in Nat /\ BatchUpdateEnabled \in BOOLEAN
    /\ Kind \in [Savers -> {"update", "edit", "save"}]
    /\ MaxSaves \in Nat /\ MaxErrors \in Nat

VARIABLES
    row,       \* the quota in the database
    redis,     \* the hash: its fields, its Quota, whether it has a TTL
    progress,  \* how far each change got on its way to the row
    cache,     \* and on its way to Redis
    reader,    \* GetUserCache, with the row it read
    saver,     \* a save of the account, with the quota it read
    blurred,   \* changes under way between the read of the row and the
               \* write of the hash, or that Redis did not get (history)
    raced,     \* changes of the row while a save held an older one (history)
    saves, errors

cacheVars == <<row, redis, progress, cache, reader, saver, blurred, raced, saves, errors>>

NoHash == [fields |-> "none", quota |-> 0, ttl |-> FALSE]
IdleReader == [pc |-> "idle", quota |-> 0, seen |-> {}]
IdleSaver == [pc |-> "idle", quota |-> 0, found |-> 0, adds |-> {}, seen |-> {}]

CacheInit ==
    /\ row = InitialQuota /\ redis = NoHash
    /\ progress = [c \in Changes |-> "off"] /\ cache = [c \in Changes |-> "off"]
    /\ reader = [r \in Readers |-> IdleReader] /\ saver = [s \in Savers |-> IdleSaver]
    /\ blurred = {} /\ raced = {} /\ saves = 0 /\ errors = 0

Sum(S) == SumFunctionOnSet(Delta, S)

(* A change is under way until row and Redis have it. *)
UnderWay == {c \in Changes : progress[c] \notin {"off", "done", "failed"}
                                \/ cache[c] \in {"ttl", "incr"}}

(* Whoever has read the row notes the changes that it may count otherwise. *)
NotedBy(parties, S) ==
    [p \in DOMAIN parties |-> IF parties[p].pc = "idle" THEN parties[p]
                              ELSE [parties[p] EXCEPT !.seen = @ \cup S]]
Noted(S) == reader' = NotedBy(reader, S) /\ saver' = NotedBy(saver, S)

(* The changes S reach the row while a save (not s) is about to write an older one. *)
Saving(s) == saver[s].pc \in {"first", "write"}
RacedWith(S, parties) == raced' = IF \E s \in parties : Saving(s) THEN raced \cup S ELSE raced

Error == errors < MaxErrors /\ errors' = errors + 1

-----------------------------------------------------------------------------
(* IncreaseUserQuota, DecreaseUserQuota *)

(* An increase may ask for the row at once (db = true). *)
StartChange(c, direct) ==
    /\ progress[c] = "off" /\ (direct => Delta[c] > 0)
    /\ progress' = [progress EXCEPT ![c] = IF direct \/ ~BatchUpdateEnabled THEN "now" ELSE "todo"]
    /\ cache' = [cache EXCEPT ![c] = "ttl"]
    /\ Noted({c})
    /\ UNCHANGED <<row, redis, blurred, raced, saves, errors>>

(* addNewRecord, or the UPDATE. *)
WriteChange(c) ==
    /\ \/ /\ progress[c] = "todo"
          /\ progress' = [progress EXCEPT ![c] = "map"]
          /\ UNCHANGED <<row, raced>>
       \/ /\ progress[c] = "now"
          /\ progress' = [progress EXCEPT ![c] = "done"]
          /\ row' = row + Delta[c]
          /\ RacedWith({c}, Savers)
    /\ UNCHANGED <<redis, cache, reader, saver, blurred, saves, errors>>

(* The UPDATE fails: the caller is told, Redis is not. *)
WriteChangeFails(c) ==
    /\ progress[c] = "now" /\ Error
    /\ progress' = [progress EXCEPT ![c] = "failed"]
    /\ blurred' = blurred \cup {c}
    /\ UNCHANGED <<row, redis, cache, reader, saver, raced, saves>>

(* userCheckinWithTransaction: the commit, then a goroutine for Redis. *)
CheckIn(c) ==
    /\ progress[c] = "off" /\ Delta[c] > 0
    /\ progress' = [progress EXCEPT ![c] = "done"] /\ cache' = [cache EXCEPT ![c] = "ttl"]
    /\ row' = row + Delta[c]
    /\ RacedWith({c}, Savers) /\ Noted({c})
    /\ UNCHANGED <<redis, blurred, saves, errors>>

(* Recharge, RechargeCreem, ManualCompleteTopUp and Redeem: the commit, and nothing  *)
(* for Redis, whose hash is behind until it expires or is stored again.              *)
Credit(c) ==
    /\ progress[c] = "off" /\ Delta[c] > 0
    /\ progress' = [progress EXCEPT ![c] = "done"] /\ cache' = [cache EXCEPT ![c] = "done"]
    /\ row' = row + Delta[c]
    /\ blurred' = blurred \cup {c}
    /\ RacedWith({c}, Savers) /\ Noted({c})
    /\ UNCHANGED <<redis, saves, errors>>

(* RedisHIncrBy: the TTL, then HINCRBY and EXPIRE in one transaction.  There is     *)
(* nothing to do without a hash, nor when the rest of its TTL is rounded to zero.   *)
ReadTTL(c) ==
    /\ cache[c] = "ttl"
    /\ \/ /\ redis.ttl
          /\ cache' = [cache EXCEPT ![c] = "incr"]
          /\ UNCHANGED blurred
       \/ /\ cache' = [cache EXCEPT ![c] = "done"]
          /\ blurred' = blurred \cup {c}
    /\ UNCHANGED <<row, redis, progress, reader, saver, raced, saves, errors>>

(* Mutant: the TTL of a hash that HINCRBY had to create is not set. *)
HIncrByKeepsTTL(c) ==
    /\ cache[c] = "incr"
    /\ redis' = [redis EXCEPT !.fields = IF @ = "none" THEN "quota" ELSE @,
                              !.quota = @ + Delta[c]]
    /\ cache' = [cache EXCEPT ![c] = "done"]
    /\ UNCHANGED <<row, progress, reader, saver, blurred, raced, saves, errors>>

(* The hash may be gone by now: HINCRBY then makes one with this field only. *)
HIncrBy(c) ==
    /\ cache[c] = "incr"
    /\ redis' = [redis EXCEPT !.fields = IF @ = "none" THEN "quota" ELSE @,
                              !.quota = @ + Delta[c], !.ttl = TRUE]
    /\ cache' = [cache EXCEPT ![c] = "done"]
    /\ UNCHANGED <<row, progress, reader, saver, blurred, raced, saves, errors>>

(* An error of either command is logged. *)
HIncrByFails(c) ==
    /\ cache[c] \in {"ttl", "incr"} /\ Error
    /\ cache' = [cache EXCEPT ![c] = "done"]
    /\ blurred' = blurred \cup {c}
    /\ UNCHANGED <<row, redis, progress, reader, saver, raced, saves>>

-----------------------------------------------------------------------------
(* batchUpdate: the map is taken under its lock and written without it *)

TakeMap ==
    /\ \E c \in Changes : progress[c] = "map"
    /\ \A c \in Changes : progress[c] # "taken"
    /\ progress' = [c \in Changes |-> IF progress[c] = "map" THEN "taken" ELSE progress[c]]
    /\ UNCHANGED <<row, redis, cache, reader, saver, blurred, raced, saves, errors>>

InBatch == {c \in Changes : progress[c] = "taken"}

(* Mutant: IncreaseUserQuota in place of increaseUserQuota. *)
WriteMapAgain ==
    /\ InBatch # {}
    /\ row' = row + Sum(InBatch)
    /\ redis' = IF redis.ttl THEN [redis EXCEPT !.quota = @ + Sum(InBatch)] ELSE redis
    /\ progress' = [c \in Changes |-> IF progress[c] = "taken" THEN "done" ELSE progress[c]]
    /\ RacedWith(InBatch, Savers)
    /\ UNCHANGED <<cache, reader, saver, blurred, saves, errors>>

(* Mutant: the map is written and not replaced by an empty one. *)
WriteMapTwice ==
    /\ InBatch # {}
    /\ row' = row + Sum(InBatch)
    /\ progress' = [c \in Changes |-> IF progress[c] = "taken" THEN "map" ELSE progress[c]]
    /\ RacedWith(InBatch, Savers)
    /\ UNCHANGED <<redis, cache, reader, saver, blurred, saves, errors>>

WriteMap ==
    /\ InBatch # {}
    /\ row' = row + Sum(InBatch)
    /\ progress' = [c \in Changes |-> IF progress[c] = "taken" THEN "done" ELSE progress[c]]
    /\ RacedWith(InBatch, Savers)
    /\ UNCHANGED <<redis, cache, reader, saver, blurred, saves, errors>>

WriteMapFails ==
    /\ InBatch # {} /\ Error
    /\ progress' = [c \in Changes |-> IF progress[c] = "taken" THEN "failed" ELSE progress[c]]
    /\ blurred' = blurred \cup InBatch
    /\ UNCHANGED <<row, redis, cache, reader, saver, raced, saves>>

-----------------------------------------------------------------------------
(* GetUserCache *)

(* A miss, or an error of HGETALL.  A hash with any field is a hit. *)
ReadRow(r) ==
    /\ reader[r].pc = "idle"
    /\ \/ redis.fields = "none" /\ UNCHANGED errors
       \/ redis.fields # "none" /\ Error
    /\ reader' = [reader EXCEPT ![r] = [pc |-> "store", quota |-> row, seen |-> UnderWay]]
    /\ UNCHANGED <<row, redis, progress, cache, saver, blurred, raced, saves>>

(* RedisHSetObj: all fields and the TTL. *)
HSetObj(p) ==
    /\ redis' = [fields |-> "all", quota |-> p.quota, ttl |-> TRUE]
    /\ blurred' = p.seen

(* updateUserCache, in a goroutine. *)
StoreUser(r) ==
    /\ reader[r].pc = "store"
    /\ HSetObj(reader[r])
    /\ reader' = [reader EXCEPT ![r] = IdleReader]
    /\ UNCHANGED <<row, progress, cache, saver, raced, saves, errors>>

StoreUserFails(r) ==
    /\ reader[r].pc = "store" /\ Error
    /\ reader' = [reader EXCEPT ![r] = IdleReader]
    /\ UNCHANGED <<row, redis, progress, cache, saver, blurred, raced, saves>>

(* The TTL passes, or the key is deleted. *)
Expire ==
    /\ redis.ttl
    /\ redis' = NoHash /\ blurred' = {}
    /\ UNCHANGED <<row, progress, cache, reader, saver, raced, saves, errors>>

-----------------------------------------------------------------------------
(* Saves of the account: the quota is read, and written back later.  "update" is     *)
(* User.Update, "edit" User.Edit with the quota of an administrator's form, "save"   *)
(* the whole row of inviteUser and TransferAffQuotaToQuota.                          *)

(* The row is read.  An edit or a transfer may bring a change of its own; UpdateSelf *)
(* makes a user of the fields that it changes, whose quota is zero.                  *)
SaveRead(s, adds) ==
    /\ saver[s].pc = "idle" /\ saves < MaxSaves /\ saves' = saves + 1
    /\ \A c \in adds : Kind[s] # "update" /\ progress[c] = "off"
    /\ progress' = [c \in Changes |-> IF c \in adds THEN "saving" ELSE progress[c]]
    /\ cache' = [c \in Changes |-> IF c \in adds THEN "done" ELSE cache[c]]
    /\ blurred' = blurred \cup adds
    /\ reader' = NotedBy(reader, adds)
    /\ \E quota \in IF Kind[s] = "update" THEN {row, 0} ELSE {row} :
           saver' = [NotedBy(saver, adds) EXCEPT ![s] =
                        [pc |-> IF Kind[s] = "update" THEN "first" ELSE "write",
                         quota |-> quota, found |-> 0, adds |-> adds, seen |-> UnderWay \cup adds]]
    /\ UNCHANGED <<row, redis, raced, errors>>

(* DB.First of User.Update: the row is read once more, for the fields that are zero. *)
SaveFirst(s) ==
    /\ saver[s].pc = "first"
    /\ saver' = [saver EXCEPT ![s].pc = "write", ![s].found = row, ![s].seen = UnderWay]
    /\ UNCHANGED <<row, redis, progress, cache, reader, blurred, raced, saves, errors>>

(* Updates of a struct leaves the fields that are zero; of a map, and Save, do not. *)
Writes(s) == Kind[s] # "update" \/ saver[s].quota # 0
SavedQuota(s) == IF Writes(s) THEN saver[s].quota + Sum(saver[s].adds) ELSE saver[s].found

SaveWrite(s) ==
    LET p == saver[s]
        undone == IF Writes(s) THEN raced ELSE {}
    IN  /\ p.pc = "write"
        /\ row' = IF Writes(s) THEN SavedQuota(s) ELSE row
        /\ progress' = [c \in Changes |-> IF c \in p.adds THEN "done" ELSE progress[c]]
        /\ blurred' = blurred \cup undone
        /\ RacedWith(p.adds, Savers \ {s})
        /\ reader' = NotedBy(reader, undone)
        /\ saver' = [NotedBy(saver, undone) EXCEPT ![s] =
                        IF Kind[s] = "save" THEN IdleSaver
                        ELSE [pc |-> "store", quota |-> SavedQuota(s), found |-> 0, adds |-> {},
                              seen |-> IF Writes(s) THEN UnderWay \ p.adds ELSE p.seen]]
        /\ UNCHANGED <<redis, cache, saves, errors>>

(* updateUserCache, at the end of User.Update and User.Edit. *)
SaveStore(s) ==
    /\ saver[s].pc = "store"
    /\ HSetObj(saver[s])
    /\ saver' = [saver EXCEPT ![s] = IdleSaver]
    /\ UNCHANGED <<row, progress, cache, reader, raced, saves, errors>>

(* The UPDATE or the HSET fails, and the save ends. *)
SaveFails(s) ==
    /\ saver[s].pc \in {"write", "store"} /\ Error
    /\ progress' = [c \in Changes |-> IF c \in saver[s].adds THEN "failed" ELSE progress[c]]
    /\ blurred' = blurred \cup saver[s].adds
    /\ saver' = [saver EXCEPT ![s] = IdleSaver]
    /\ UNCHANGED <<row, redis, cache, reader, raced, saves>>

-----------------------------------------------------------------------------
ChangeStep(c) == WriteChange(c) \/ ReadTTL(c) \/ HIncrBy(c)
SaveStep(s) == SaveFirst(s) \/ SaveWrite(s) \/ SaveStore(s)
Failures ==
    \/ \E c \in Changes : WriteChangeFails(c) \/ HIncrByFails(c)
    \/ WriteMapFails
    \/ \E r \in Readers : StoreUserFails(r)
    \/ \E s \in Savers : SaveFails(s)

CacheNext ==
    \/ \E c \in Changes, direct \in BOOLEAN : StartChange(c, direct)
    \/ \E c \in Changes : ChangeStep(c) \/ CheckIn(c) \/ Credit(c)
    \/ TakeMap \/ WriteMap
    \/ \E r \in Readers : ReadRow(r) \/ StoreUser(r)
    \/ \E s \in Savers, adds \in {{}} \cup {{c} : c \in Changes} : SaveRead(s, adds)
    \/ \E s \in Savers : SaveStep(s)
    \/ Expire \/ Failures

CacheSpec == CacheInit /\ [][CacheNext]_cacheVars

(* Goroutines run, the batch loop wakes up, saves go on, and a TTL passes. *)
CacheFairSpec ==
    /\ CacheSpec
    /\ \A c \in Changes : WF_cacheVars(WriteChange(c)) /\ WF_cacheVars(ReadTTL(c) \/ HIncrBy(c))
    /\ WF_cacheVars(TakeMap \/ WriteMap)
    /\ \A r \in Readers : WF_cacheVars(StoreUser(r))
    /\ \A s \in Savers : WF_cacheVars(SaveStep(s))
    /\ WF_cacheVars(Expire)

-----------------------------------------------------------------------------
(* Properties *)

(* Row, hash, changes, readers and savers have the values the code gives them. *)
CacheTypeOK ==
    /\ row \in Int
    /\ redis \in [fields : {"none", "quota", "all"}, quota : Int, ttl : BOOLEAN]
    /\ redis.fields # "none" => redis.ttl
    /\ progress \in [Changes -> {"off", "todo", "now", "map", "taken", "saving", "done", "failed"}]
    /\ cache \in [Changes -> {"off", "ttl", "incr", "done"}]
    /\ \A r \in Readers : reader[r].pc \in {"idle", "store"} /\ reader[r].seen \subseteq Changes
    /\ \A s \in Savers : /\ saver[s].pc \in {"idle", "first", "write", "store"}
                         /\ saver[s].adds \cup saver[s].seen \subseteq Changes
    /\ blurred \subseteq Changes /\ raced \subseteq Changes
    /\ saves \in 0 .. MaxSaves /\ errors \in 0 .. MaxErrors

Started == {c \in Changes : progress[c] \notin {"off", "failed"}}
NotWritten == {c \in Changes : progress[c] \in {"todo", "now", "map", "taken", "saving"}}
NotCached == {c \in Changes : cache[c] \in {"ttl", "incr"}}

(* A change of the quota is counted in the row once, whatever errors, readers       *)
(* and Redis do, unless it reached the row between the read and the write of a save *)
(* (User.Update, User.Edit, inviteUser, TransferAffQuotaToQuota), which takes it    *)
(* out; a save loses nothing else and brings nothing back twice.                    *)
LossNeedsSave ==
    \E undone \in SUBSET raced : row + Sum(NotWritten) = InitialQuota + Sum(Started \ undone)

Magnitude(S) == SumFunctionOnSet([c \in Changes |-> IF Delta[c] < 0 THEN -Delta[c] ELSE Delta[c]], S)

(* The quota that requests are admitted by is off from the row by no more than the  *)
(* changes that were under way between the read of the row and the HSET that stored *)
(* it, that failed, that came with the last moment of the TTL, that a save took out *)
(* since (twice, as Redis may have had them twice), or that Redis is never told of  *)
(* (payments, redemptions, transfers): everything older and everything newer is     *)
(* counted once, although HINCRBY, the UPDATE, the batch loop and the saves run in  *)
(* any order.                                                                       *)
CacheDriftBounded ==
    redis.fields = "all" =>
        LET drift == redis.quota + Sum(NotCached) - (row + Sum(NotWritten))
            bound == Magnitude(blurred) + Magnitude(blurred \cap raced)
        IN  -bound <= drift /\ drift <= bound

(* Once the quota no longer changes, Redis holds the row's quota or nothing *)
(* for good: a wrong quota, and a hash that HINCRBY made without Status or  *)
(* Group (its user is refused as banned), live no longer than a TTL.        *)
CacheHeals == <>[](redis.fields = "none" \/ (redis.fields = "all" /\ redis.quota = row))
=============================================================================
