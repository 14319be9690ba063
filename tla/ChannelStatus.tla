--------------------------- MODULE ChannelStatus ---------------------------
(***************************************************************************)
(* The status of a channel with several keys, in the database and in the   *)
(* memory cache: UpdateChannelStatus and handlerMultiKeyUpdate of          *)
(* model/channel.go, InitChannelCache of model/channel_cache.go,           *)
(* DisableChannel and EnableChannel of service/channel.go, and the         *)
(* administrator's UpdateChannel and ManageMultiKeys of                    *)
(* controller/channel.go.                                                  *)
(*                                                                         *)
(* The goroutine that holds channelStatusLock (one at a time) and the      *)
(* requests of administrators (several at a time) read the row, change it  *)
(* in memory and write it back; requests and a loop reload the cache.      *)
(* Only the polling lock of the channel orders them, UpdateChannel does    *)
(* not take it, and ManageMultiKeys reads the row before it does.  The     *)
(* marks of the keys are kept by index, beside the list of keys.  The      *)
(* memory cache is enabled.                                                *)
(***************************************************************************)
EXTENDS Integers, Sequences, FiniteSets, SequencesExt, Subsequences

CONSTANTS
    InitialKeys,   \* the keys of the channel, in order
    InitialFailed, \* the places of those that failed before
    Edits,         \* the requests of UpdateChannel that may arrive
    MaxKeys,       \* bound on the keys of the channel
    MaxOpen,       \* bound on requests of administrators at one time
    MaxChanges,    \* bound on requests of administrators
    MaxInputs,     \* bound on them, failed requests and successful tests
    DBMayFail      \* whether the UPDATE of a status may fail

(* common.ChannelStatusEnabled, ... *)
Enabled == 1
ManuallyDisabled == 2
AutoDisabled == 3

NoStatus == 0                  \* the request names no status

NoKey == "none"
Keys == STRING \ {NoKey}

(* status is a new status; key_mode is "append" or "replace", the default; keys are *)
(* those entered, and none leaves the keys alone or, appended, writes them again.   *)
ASSUME ChannelStatusAssumption ==
    /\ InitialKeys \in Seq(Keys) /\ InitialFailed \in SUBSET DOMAIN InitialKeys
    /\ InitialFailed # DOMAIN InitialKeys
    /\ MaxKeys \in Nat /\ Len(InitialKeys) <= MaxKeys
    /\ \A e \in Edits : /\ e.op = "edit" /\ e.key_mode \in {"replace", "append"}
                       /\ e.status \in {NoStatus, Enabled, ManuallyDisabled, AutoDisabled}
                       /\ e.keys \in Seq(Keys)
    /\ MaxOpen \in Nat /\ MaxChanges \in Nat /\ MaxInputs \in Nat /\ DBMayFail \in BOOLEAN

AllKeys == Range(InitialKeys) \cup UNION {Range(e.keys) : e \in Edits}
Places == 1 .. MaxKeys         \* the indices of keys, from 1
Slots == 1 .. MaxOpen          \* the requests of administrators under way

(* A row: keys, MultiKeySize, MultiKeyStatusList (Enabled: no entry) and Status. *)
Rows == [keys : Seq(AllKeys), size : 0 .. MaxKeys,
         list : [Places -> {Enabled, ManuallyDisabled, AutoDisabled}],
         status : {Enabled, ManuallyDisabled, AutoDisabled}]

VARIABLES
    row,        \* the channel in the database
    ability,    \* whether its abilities are enabled in the database
    cached,     \* the channel in channelsIDM
    listed,     \* the channel is in the lists of group2model2channels
    pending,    \* calls of UpdateChannelStatus that wait for channelStatusLock
    upd,        \* the call that holds it
    adm,        \* the request of an administrator in each slot
    sync,       \* SyncChannelCache
    failed,     \* keys some request failed with (history)
    inherited,  \* keys that took a mark made for another key (history)
    overlap,    \* a write failed, or came between two statements of another party (history)
    events, changes

(* The parties; copy is the row they read. *)
Idle == [pc |-> "idle"]
vars == <<row, ability, cached, listed, pending, upd, adm, sync, failed, inherited,
          overlap, events, changes>>

InitialRow == [keys |-> InitialKeys, size |-> Len(InitialKeys),
               list |-> [i \in Places |-> IF i \in InitialFailed THEN AutoDisabled ELSE Enabled],
               status |-> Enabled]

Init ==
    /\ row = InitialRow /\ ability = TRUE
    /\ cached = InitialRow /\ listed = TRUE
    /\ pending = {} /\ upd = Idle /\ sync = Idle
    /\ adm = [a \in Slots |-> Idle]
    /\ failed = {InitialKeys[i] : i \in InitialFailed} /\ inherited = {} /\ overlap = FALSE
    /\ events = 0 /\ changes = 0

Usable(r) == {i \in DOMAIN r.keys : r.list[i] = Enabled}

-----------------------------------------------------------------------------
(* Requests and tests *)

(* A request took an enabled key of the cached channel (GetNextEnabledKey) and the  *)
(* upstream refused it: processChannelError starts a goroutine to disable the key.  *)
RequestFails(i) ==
    /\ events + changes < MaxInputs /\ events' = events + 1
    /\ listed /\ i \in Usable(cached)
    /\ failed' = failed \cup {cached.keys[i]}
    /\ pending' = pending \cup {<<cached.keys[i], AutoDisabled>>}
    /\ UNCHANGED <<row, ability, cached, listed, upd, adm, sync, inherited, overlap, changes>>

(* No key is enabled: Distribute ignores the error, the request goes on without a   *)
(* key, and the key to disable is the empty string.                                 *)
RequestWithoutKey ==
    /\ events + changes < MaxInputs /\ events' = events + 1
    /\ listed /\ Usable(cached) = {}
    /\ pending' = pending \cup {<<NoKey, AutoDisabled>>}
    /\ UNCHANGED <<row, ability, cached, listed, upd, adm, sync, failed, inherited, overlap,
                   changes>>

(* testAllChannels: a channel disabled automatically answers with one of its keys. *)
TestSucceeds(i) ==
    /\ events + changes < MaxInputs /\ events' = events + 1
    /\ row.status = AutoDisabled /\ i \in Usable(row)
    /\ pending' = pending \cup {<<row.keys[i], Enabled>>}
    /\ UNCHANGED <<row, ability, cached, listed, upd, adm, sync, failed, inherited, overlap,
                   changes>>

-----------------------------------------------------------------------------
(* UpdateChannelStatus *)

(* The place of the key in the list; the first one if the key is not there. *)
KeyIndex(r, key) ==
    IF \E i \in DOMAIN r.keys : r.keys[i] = key
    THEN CHOOSE i \in DOMAIN r.keys : r.keys[i] = key /\ \A j \in 1 .. i - 1 : r.keys[j] # key
    ELSE 1

(* Mutant: the last enabled key does not count. *)
HandlerMultiKeyUpdateTooLate(r, key, status) ==
    LET list == [r.list EXCEPT ![KeyIndex(r, key)] = status]
        marked == Cardinality({i \in Places : list[i] # Enabled})
    IN  [r EXCEPT !.list = list,
                  !.status = IF marked > r.size THEN AutoDisabled ELSE @]

(* handlerMultiKeyUpdate: the channel itself is never enabled. *)
HandlerMultiKeyUpdate(r, key, status) ==
    LET list == [r.list EXCEPT ![KeyIndex(r, key)] = status]
        marked == Cardinality({i \in Places : list[i] # Enabled})
    IN  [r EXCEPT !.list = list,
                  !.status = IF marked >= r.size THEN AutoDisabled ELSE @]

(* ManageMultiKeys holds the polling lock to the end of the reload. *)
PollingLockFree ==
    \A a \in Slots : adm[a].pc \in {"write", "reread", "ability", "reload", "install"} => ~adm[a].locked

(* CacheGetChannel under channelStatusLock: a pointer that a reload leaves behind. *)
UpdateStart(call) ==
    /\ upd.pc = "idle" /\ call \in pending
    /\ pending' = pending \ {call}
    /\ upd' = [pc |-> "cache", key |-> call[1], status |-> call[2], current |-> TRUE]
    /\ UNCHANGED <<row, ability, cached, listed, adm, sync, failed, inherited, overlap,
                   events, changes>>

(* The cached channel is changed; it stays in the lists whatever its status is.     *)
UpdateCache ==
    /\ upd.pc = "cache" /\ PollingLockFree
    /\ cached' = IF upd.current THEN HandlerMultiKeyUpdate(cached, upd.key, upd.status)
                                ELSE cached
    /\ upd' = [pc |-> "read", key |-> upd.key, status |-> upd.status]
    /\ UNCHANGED <<row, ability, listed, pending, adm, sync, failed, inherited, overlap,
                   events, changes>>

(* GetChannelById; nothing more is done when the row has the status already. *)
UpdateRead ==
    /\ upd.pc = "read"
    /\ upd' = IF row.status = upd.status
              THEN Idle
              ELSE [pc |-> "apply", key |-> upd.key, status |-> upd.status, copy |-> row]
    /\ UNCHANGED <<row, ability, cached, listed, pending, adm, sync, failed, inherited,
                   overlap, events, changes>>

(* The copy is changed under the polling lock, which is free again before the save. *)
UpdateApply ==
    /\ upd.pc = "apply" /\ PollingLockFree
    /\ upd' = [upd EXCEPT !.pc = "save"]
    /\ UNCHANGED <<row, ability, cached, listed, pending, adm, sync, failed, inherited,
                   overlap, events, changes>>

(* The keys of a row that bear an automatic mark made for another list of keys. *)
Inheriting(r, of) ==
    {r.keys[i] : i \in {j \in DOMAIN r.keys : /\ r.list[j] = AutoDisabled
                                            /\ ~(j \in DOMAIN of /\ of[j] = r.keys[j])}}

(* SaveWithoutKey writes every column but the keys.  The abilities follow, by defer, *)
(* if the status of the channel changed.                                            *)
UpdateSave ==
    LET new == HandlerMultiKeyUpdate(upd.copy, upd.key, upd.status)
        changed == new.status # upd.copy.status
    IN  /\ upd.pc = "save"
        /\ row' = [new EXCEPT !.keys = row.keys]
        /\ inherited' = inherited \cup
               Inheriting(row', [upd.copy.keys EXCEPT ![KeyIndex(upd.copy, upd.key)] = upd.key])
        /\ overlap' = (overlap \/ upd.copy # row \/ \E a \in Slots : adm[a].pc = "ability")
        /\ upd' = IF changed THEN [pc |-> "ability", status |-> upd.status, saved |-> TRUE] ELSE Idle
        /\ UNCHANGED <<ability, cached, listed, pending, adm, sync, failed, events, changes>>

(* The UPDATE fails; the deferred change of the abilities happens all the same. *)
UpdateSaveFails ==
    LET new == HandlerMultiKeyUpdate(upd.copy, upd.key, upd.status)
        changed == new.status # upd.copy.status
    IN  /\ DBMayFail /\ upd.pc = "save"
        /\ upd' = IF changed THEN [pc |-> "ability", status |-> upd.status, saved |-> FALSE] ELSE Idle
        /\ overlap' = (overlap \/ changed)
        /\ UNCHANGED <<row, ability, cached, listed, pending, adm, sync, failed, inherited,
                       events, changes>>

(* Mutant: the abilities are left alone. *)
UpdateAbilityForgets ==
    /\ upd.pc = "ability"
    /\ upd' = Idle
    /\ UNCHANGED <<row, ability, cached, listed, pending, adm, sync, failed, inherited,
                   overlap,
                   events, changes>>

(* UpdateAbilityStatus, then the return and the message to the root user. *)
UpdateAbility ==
    /\ upd.pc = "ability"
    /\ ability' = (upd.status = Enabled)
    /\ upd' = Idle
    /\ UNCHANGED <<row, cached, listed, pending, adm, sync, failed, inherited, overlap,
                   events, changes>>

-----------------------------------------------------------------------------
(* The administrators *)

(* The requests: one of UpdateChannel, or an action of ManageMultiKeys. *)
Operations ==
    Edits \cup [op : {"disable_key", "enable_key", "delete_key"}, place : Places]
          \cup [op : {"enable_all_keys", "disable_all_keys", "delete_disabled_keys"}]

(* The keys that UpdateChannel writes: those entered, or, appended, those of the row *)
(* it read and those entered that are new; none leave the row's.                     *)
EditedKeys(r, e) ==
    IF e.key_mode = "append"
    THEN r.keys \o Subsequence(e.keys, {i \in DOMAIN e.keys : /\ e.keys[i] \notin Range(r.keys)
                                                          /\ \A j \in 1 .. i - 1 : e.keys[j] # e.keys[i]})
    ELSE e.keys

(* Mutant: the list keeps its old indices. *)
KeepKeysOldIndices(r, kept) ==
    [r EXCEPT !.keys = Subsequence(r.keys, kept), !.size = Cardinality(kept)]

(* The row of the kept keys, and the list indexed anew. *)
KeepKeys(r, kept) ==
    LET size == Cardinality(kept)
    IN  [r EXCEPT !.keys = Subsequence(r.keys, kept),
                  !.size = size,
                  !.list = [j \in Places |-> IF j <= size THEN @[Nth(kept, j)] ELSE Enabled]]

(* What the request makes of the row it read.  UpdateChannel takes the list of marks *)
(* from that row, whatever keys it writes.                                           *)
Apply(r, o) ==
    CASE o.op = "edit"                 -> [r EXCEPT !.keys = EditedKeys(r, o), !.status = o.status]
      [] o.op = "disable_key"          -> [r EXCEPT !.list[o.place] = ManuallyDisabled]
      [] o.op = "enable_key"           -> [r EXCEPT !.list[o.place] = Enabled]
      [] o.op = "enable_all_keys"      -> [r EXCEPT !.list = [i \in Places |-> Enabled]]
      [] o.op = "disable_all_keys"     -> [r EXCEPT !.list = [i \in Places |->
                                               IF i <= r.size /\ @[i] = Enabled
                                               THEN ManuallyDisabled ELSE @[i]]]
      [] o.op = "delete_key"           -> KeepKeys(r, DOMAIN r.keys \ {o.place})
      [] o.op = "delete_disabled_keys" -> KeepKeys(r, {i \in DOMAIN r.keys : r.list[i] # AutoDisabled})

(* The early returns: an index out of range, nothing to disable or to delete, and   *)
(* the last key, which delete_key keeps and delete_disabled_keys does not.          *)
Accepted(r, o) ==
    CASE o.op \in {"disable_key", "enable_key"} -> o.place <= r.size
      [] o.op = "delete_key"           -> o.place <= r.size /\ DOMAIN r.keys # {o.place}
      [] o.op = "disable_all_keys"     -> \E i \in 1 .. r.size : r.list[i] = Enabled
      [] o.op = "delete_disabled_keys" -> \E i \in DOMAIN r.keys : r.list[i] = AutoDisabled
      [] OTHER                         -> TRUE

(* GetChannelById, before any lock; the request takes the first free slot. *)
AdminRead(a, o) ==
    /\ adm[a].pc = "idle" /\ \A b \in 1 .. a - 1 : adm[b].pc # "idle"
    /\ changes < MaxChanges /\ events + changes < MaxInputs /\ changes' = changes + 1
    /\ Accepted(row, o) /\ Len(Apply(row, o).keys) <= MaxKeys
    /\ adm' = [adm EXCEPT ![a] = [pc |-> "count", copy |-> row, new |-> Apply(row, o),
                                  locked |-> o.op # "edit"]]
    /\ UNCHANGED <<row, ability, cached, listed, pending, upd, sync, failed, inherited,
                   overlap, events>>

(* The row with so many keys, and no marks beyond them. *)
Recount(r, n) == [r EXCEPT !.size = n, !.list = [i \in Places |-> IF i <= n THEN @[i] ELSE Enabled]]

(* ManageMultiKeys takes the polling lock.  Channel.Update counts the keys, those of *)
(* the row now if the request has none, and drops the marks beyond them.             *)
AdminCount(a) ==
    LET req == adm[a]
        size == Len(IF req.new.keys = <<>> THEN row.keys ELSE req.new.keys)
    IN  /\ req.pc = "count" /\ (req.locked => PollingLockFree)
        /\ adm' = [adm EXCEPT ![a] = [req EXCEPT !.pc = "write", !.new = Recount(@, size)]]
        /\ UNCHANGED <<row, ability, cached, listed, pending, upd, sync, failed, inherited,
                       overlap, events, changes>>

(* The UPDATE of Channel.Update: GORM leaves the columns without a value, the keys   *)
(* and the status of UpdateChannel.  The marks are those of the keys ManageMultiKeys *)
(* leaves, or of the keys UpdateChannel read.                                        *)
AdminWrite(a) ==
    LET req == adm[a]
    IN  /\ req.pc = "write"
        /\ row' = [req.new EXCEPT !.keys = IF @ = <<>> THEN row.keys ELSE @,
                                  !.status = IF @ = NoStatus THEN row.status ELSE @]
        /\ inherited' = inherited \cup
               Inheriting(row', IF req.locked THEN req.new.keys ELSE req.copy.keys)
        /\ overlap' = (overlap \/ req.copy # row \/ row'.size # Len(row'.keys)
                               \/ upd.pc = "ability" \/ \E b \in Slots : adm[b].pc = "ability")
        /\ adm' = [adm EXCEPT ![a] = [pc |-> "reread", locked |-> req.locked]]
        /\ UNCHANGED <<ability, cached, listed, pending, upd, sync, failed, events,
                       changes>>

(* The row is read again for UpdateAbilities. *)
AdminReread(a) ==
    /\ adm[a].pc = "reread"
    /\ adm' = [adm EXCEPT ![a] = [pc |-> "ability", copy |-> row, locked |-> @.locked]]
    /\ UNCHANGED <<row, ability, cached, listed, pending, upd, sync, failed, inherited,
                   overlap, events, changes>>

AdminAbility(a) ==
    /\ adm[a].pc = "ability"
    /\ ability' = (adm[a].copy.status = Enabled)
    /\ adm' = [adm EXCEPT ![a] = [pc |-> "reload", locked |-> @.locked]]
    /\ UNCHANGED <<row, cached, listed, pending, upd, sync, failed, inherited, overlap,
                   events, changes>>

-----------------------------------------------------------------------------
(* Mutant: the statuses of the keys are carried over from the old cache. *)
InstallKeepsList(r) ==
    /\ cached' = [r EXCEPT !.list = cached.list]
    /\ listed' = (r.status = Enabled)
    /\ upd' = IF upd.pc = "cache" THEN [upd EXCEPT !.current = FALSE] ELSE upd

(* InitChannelCache: the row is read without a lock, and installed under one. *)
Install(r) ==
    /\ cached' = r
    /\ listed' = (r.status = Enabled)
    /\ upd' = IF upd.pc = "cache" THEN [upd EXCEPT !.current = FALSE] ELSE upd

AdminReload(a) ==
    /\ adm[a].pc = "reload"
    /\ adm' = [adm EXCEPT ![a] = [pc |-> "install", copy |-> row, locked |-> @.locked]]
    /\ UNCHANGED <<row, ability, cached, listed, pending, upd, sync, failed, inherited,
                   overlap, events, changes>>

AdminInstall(a) ==
    /\ adm[a].pc = "install"
    /\ Install(adm[a].copy)
    /\ adm' = [adm EXCEPT ![a] = Idle]
    /\ UNCHANGED <<row, ability, pending, sync, failed, inherited, overlap, events,
                   changes>>

SyncRead ==
    /\ sync.pc = "idle"
    /\ sync' = [pc |-> "install", copy |-> row]
    /\ UNCHANGED <<row, ability, cached, listed, pending, upd, adm, failed, inherited,
                   overlap, events, changes>>

SyncInstall ==
    /\ sync.pc = "install"
    /\ Install(sync.copy)
    /\ sync' = Idle
    /\ UNCHANGED <<row, ability, pending, adm, failed, inherited, overlap, events,
                   changes>>

-----------------------------------------------------------------------------
Update ==
    \/ \E call \in pending : UpdateStart(call)
    \/ UpdateCache \/ UpdateRead \/ UpdateApply \/ UpdateSave \/ UpdateSaveFails \/ UpdateAbility
Admin(a) ==
    \/ AdminCount(a) \/ AdminWrite(a) \/ AdminReread(a)
    \/ AdminAbility(a) \/ AdminReload(a) \/ AdminInstall(a)

Next ==
    \/ \E i \in Places : RequestFails(i) \/ TestSucceeds(i)
    \/ RequestWithoutKey
    \/ Update
    \/ \E a \in Slots : Admin(a) \/ \E o \in Operations : AdminRead(a, o)
    \/ SyncRead \/ SyncInstall

Spec == Init /\ [][Next]_vars
(* The goroutines run; SyncChannelCache reloads for ever. *)
FairSpec ==
    /\ Spec /\ WF_vars(Update) /\ WF_vars(SyncRead) /\ WF_vars(SyncInstall)
    /\ \A a \in Slots : WF_vars(Admin(a))

-----------------------------------------------------------------------------
(* Properties *)

(* Every variable stays in its type. *)
TypeOK ==
    /\ \A r \in {row, cached} :
           /\ Range(r.keys) \subseteq AllKeys /\ r.size \in 0 .. MaxKeys
           /\ r.list \in [Places -> {Enabled, ManuallyDisabled, AutoDisabled}]
           /\ r.status \in {Enabled, ManuallyDisabled, AutoDisabled}
    /\ {ability, listed, overlap} \subseteq BOOLEAN
    /\ pending \subseteq (AllKeys \cup {NoKey}) \X {Enabled, AutoDisabled}
    /\ upd.pc \in {"idle", "cache", "read", "apply", "save", "ability"}
    /\ \A a \in Slots : adm[a].pc \in {"idle", "count", "write", "reread", "ability", "reload", "install"}
    /\ sync.pc \in {"idle", "install"}
    /\ failed \subseteq AllKeys /\ inherited \subseteq AllKeys

(* A key disabled automatically is one that some request failed with, however the   *)
(* list was indexed anew, or one that took its place in the list: the keys were     *)
(* replaced or deleted beside a list of marks made for others.                      *)
BlamedKeyFailed ==
    \A i \in DOMAIN row.keys : row.list[i] = AutoDisabled => row.keys[i] \in failed \cup inherited

(* With nothing under way, the abilities in the database follow the status of the   *)
(* channel, unless a write failed or was written over.                              *)
AbilitiesFollow ==
    pending = {} /\ upd.pc = "idle" /\ (\A a \in Slots : adm[a].pc = "idle") /\ ~overlap
        => ability = (row.status = Enabled)

(* A channel whose keys all failed is switched off, in the database, by the last    *)
(* UpdateChannelStatus, unless the administrator wrote the row or a write was lost. *)
KeylessIsOff ==
    changes = 0 /\ ~overlap /\ pending = {} /\ upd.pc = "idle" /\ row.keys # <<>>
        /\ Usable(row) = {} => row.status # Enabled

(* A change of status that the cache missed reaches it: once the changes stop, the  *)
(* cache and the lists agree with the database for good.                            *)
CacheConverges == <>[](cached = row /\ listed = (row.status = Enabled))

(* Message "channel enabled" to the root user (service/channel.go:41), when           *)
(* UpdateChannelStatus returns true: the channel is enabled.                        *)
EnabledWhenNotified ==
    [][(UpdateSave \/ (UpdateAbility /\ upd.saved)) /\ upd'.pc = "idle" /\ upd.status = Enabled
           => row'.status = Enabled]_vars

=============================================================================
