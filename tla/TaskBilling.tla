---------------------------- MODULE TaskBilling ----------------------------
(***************************************************************************)
(* Billing of asynchronous tasks (music, video): RelayTaskSubmit and       *)
(* videoFetchByIDRespBodyBuilder of relay/relay_task.go, and the poller    *)
(* UpdateTaskBulk of controller/task.go and controller/task_video.go.      *)
(*                                                                         *)
(* Three kinds of actors write the row of a task: the request that submits *)
(* it, the poller, and a client's query of a Gemini or Vertex task, which  *)
(* asks the upstream itself.  The poller and the query work on a copy of   *)
(* the row and save all of it.  One master node runs the poller.           *)
(*                                                                         *)
(* The statuses NOT_START, SUBMITTED, QUEUED and IN_PROGRESS are one,      *)
(* "pending".  "stopped" is a pending status with a progress of 100%,      *)
(* which the poller does not list any more.                                *)
(***************************************************************************)
EXTENDS Integers

CONSTANTS
    Tasks,
    Platform,     \* [Tasks -> Platforms]
    Price,        \* the quota RelayTaskSubmit computes
    ActualQuotas, \* totalTokens * modelRatio * groupRatio of a finished video
    UserQuota,    \* users.quota at the start
    MaxFailures,  \* bound on the statements that return an error
    MaxFetches,   \* bound on the client's queries
    MaxCrashes    \* bound on process crashes

(* Doubao stands for the video platforms whose rows only the poller writes; *)
(* it is the one that reports total_tokens.                                 *)
Platforms == {"suno", "doubao", "gemini"}

ASSUME TaskAssumption ==
    /\ Platform \in [Tasks -> Platforms] /\ "none" \notin Tasks
    /\ Price \in Nat /\ ActualQuotas \subseteq Nat
    /\ UserQuota \in Int
    /\ MaxFailures \in Nat /\ MaxFetches \in Nat /\ MaxCrashes \in Nat

VARIABLES
    row,       \* [Tasks -> Rows]: the table tasks
    submit,    \* [Tasks -> location of RelayTaskSubmit]
    upstream,  \* [Tasks -> the state of the task at its provider]
    poll,      \* the poller: pc, task, the tasks to do, and its local variables
    snap,      \* [Tasks -> Rows]: the poller's copies of the rows it listed
    fetch,     \* [Tasks -> the copy a client's query will save, or NoFetch]
    userQuota, \* users.quota
    paid,      \* [Tasks -> quota taken from the user, less refunds]
    tokenPaid, \* [Tasks -> quota taken from the token]
    used,      \* [Tasks -> contribution to users.used_quota]
    refunds,   \* [Tasks -> number of refunds of a failed task] (history)
    bulkFailed,\* tasks failed by a bulk update, which refunds nothing (history)
    failures, fetches, crashes \* what the bounds count

moneyVars == <<userQuota, paid, tokenPaid, used, refunds>>
boundVars == <<failures, fetches, crashes>>
vars == <<row, submit, upstream, poll, snap, fetch, moneyVars, bulkFailed, boundVars>>

Ended == {"SUCCESS", "FAILURE"}
Statuses == {"none", "pending", "stopped"} \cup Ended
Rows == [status : Statuses, quota : Nat, hasId : BOOLEAN]
NoRow == [status |-> "none", quota |-> 0, hasId |-> FALSE]
NoFetch == [status |-> "none"]

Polls == [pc : {"list", "items", "sunoRefund", "bill", "update", "refund"},
          task : Tasks \cup {"none"},  \* the task in hand
          todo : SUBSET Tasks,         \* the listed tasks that are left
          actual : Nat,                \* actualQuota
          refund : BOOLEAN,            \* shouldRefund
          err : BOOLEAN]               \* err of updateSunoTaskAll is not nil
Idle == [pc |-> "list", task |-> "none", todo |-> {}, actual |-> 0, refund |-> FALSE,
         err |-> FALSE]

(* Every variable stays in its type. *)
TypeOK ==
    /\ row \in [Tasks -> Rows]
    /\ submit \in [Tasks -> {"new", "request", "chargeUser", "chargeToken",
                             "record", "closed"}]
    /\ upstream \in [Tasks -> {"pending"} \cup Ended]
    /\ poll \in Polls
    /\ snap \in [Tasks -> Rows]
    /\ fetch \in [Tasks -> Rows \cup {NoFetch}]
    /\ userQuota \in Int
    /\ paid \in [Tasks -> Int] /\ tokenPaid \in [Tasks -> Nat] /\ used \in [Tasks -> Nat]
    /\ refunds \in [Tasks -> Nat]
    /\ bulkFailed \subseteq Tasks
    /\ failures \in 0 .. MaxFailures
    /\ fetches \in 0 .. MaxFetches /\ crashes \in 0 .. MaxCrashes

Init ==
    /\ row = [t \in Tasks |-> NoRow]
    /\ submit = [t \in Tasks |-> "new"]
    /\ upstream = [t \in Tasks |-> "pending"]
    /\ poll = Idle
    /\ snap = [t \in Tasks |-> NoRow]
    /\ fetch = [t \in Tasks |-> NoFetch]
    /\ userQuota = UserQuota
    /\ paid = [t \in Tasks |-> 0] /\ tokenPaid = [t \in Tasks |-> 0]
    /\ used = [t \in Tasks |-> 0] /\ refunds = [t \in Tasks |-> 0]
    /\ bulkFailed = {}
    /\ failures = 0 /\ fetches = 0 /\ crashes = 0

(* A statement of the database succeeds, or returns an error. *)
Succeeds == UNCHANGED failures
Fails ==
    /\ failures < MaxFailures
    /\ failures' = failures + 1

(* DecreaseUserQuota(v), or IncreaseUserQuota(-v). *)
DebitUser(t, v) ==
    /\ userQuota' = userQuota - v
    /\ paid' = [paid EXCEPT ![t] = @ + v]

SubmitAt(t, from, to) ==
    /\ submit[t] = from
    /\ submit' = [submit EXCEPT ![t] = to]

-----------------------------------------------------------------------------
(* RelayTaskSubmit.  The quota is only compared, nothing is reserved.       *)
(* Whenever an attempt fails, RelayTask may retry on another channel.       *)
SubmitCheck(t) ==
    /\ IF userQuota >= Price
       THEN SubmitAt(t, "new", "request")
       ELSE SubmitAt(t, "new", "closed")
    /\ UNCHANGED <<row, upstream, poll, snap, fetch, moneyVars, bulkFailed, boundVars>>

SubmitFails(t) ==
    /\ \E to \in {"new", "closed"} : SubmitAt(t, "request", to)
    /\ UNCHANGED <<row, upstream, poll, snap, fetch, moneyVars, bulkFailed, boundVars>>

(* The upstream accepts the task; a platform may answer without an id.      *)
(* The row is inserted, and only then the deferred function charges.        *)
SubmitInsert(t, hasId) ==
    /\ \/ /\ Succeeds
          /\ SubmitAt(t, "request", "chargeUser")
          /\ row' = [row EXCEPT ![t] = [status |-> "pending", quota |-> Price, hasId |-> hasId]]
       \/ /\ Fails
          /\ \E to \in {"new", "closed"} : SubmitAt(t, "request", to)
          /\ UNCHANGED row
    /\ UNCHANGED <<upstream, poll, snap, fetch, moneyVars, bulkFailed, fetches, crashes>>

(* PostConsumeQuota: an error of either update skips the rest of it, but    *)
(* not the used quota.                                                      *)
SubmitChargeUser(t) ==
    /\ \/ Succeeds /\ SubmitAt(t, "chargeUser", "chargeToken") /\ DebitUser(t, Price)
       \/ Fails /\ SubmitAt(t, "chargeUser", "record") /\ UNCHANGED <<userQuota, paid>>
    /\ UNCHANGED <<row, upstream, poll, snap, fetch, tokenPaid, used, refunds, bulkFailed,
                   fetches, crashes>>

SubmitChargeToken(t) ==
    /\ SubmitAt(t, "chargeToken", "record")
    /\ \/ Succeeds /\ tokenPaid' = [tokenPaid EXCEPT ![t] = @ + Price]
       \/ Fails /\ UNCHANGED tokenPaid
    /\ UNCHANGED <<row, upstream, poll, snap, fetch, userQuota, paid, used, refunds,
                   bulkFailed, fetches, crashes>>

SubmitRecord(t) ==
    /\ SubmitAt(t, "record", "closed")
    /\ \/ Succeeds /\ used' = [used EXCEPT ![t] = @ + Price]
       \/ Fails /\ UNCHANGED used
    /\ UNCHANGED <<row, upstream, poll, snap, fetch, userQuota, paid, tokenPaid, refunds,
                   bulkFailed, fetches, crashes>>

Submit(t) ==
    \/ SubmitCheck(t) \/ SubmitFails(t) \/ \E id \in BOOLEAN : SubmitInsert(t, id)
    \/ SubmitChargeUser(t) \/ SubmitChargeToken(t) \/ SubmitRecord(t)

(* The provider finishes the task. *)
UpstreamEnds(t) ==
    /\ row[t].status # "none" /\ upstream[t] = "pending"
    /\ \E s \in Ended : upstream' = [upstream EXCEPT ![t] = s]
    /\ UNCHANGED <<row, submit, poll, snap, fetch, moneyVars, bulkFailed, boundVars>>

-----------------------------------------------------------------------------
(* A client queries a Gemini or Vertex task: the row is read, the upstream  *)
(* is asked, and the row is saved with the status it answered.              *)
ClientFetch(t) ==
    /\ fetches < MaxFetches
    /\ Platform[t] = "gemini"
    /\ row[t].status # "none" /\ row[t].hasId
    /\ fetch[t] = NoFetch
    /\ fetch' = [fetch EXCEPT ![t] = [row[t] EXCEPT !.status = upstream[t]]]
    /\ fetches' = fetches + 1
    /\ UNCHANGED <<row, submit, upstream, poll, snap, moneyVars, bulkFailed, failures, crashes>>

ClientSave(t) ==
    /\ fetch[t] # NoFetch
    /\ \/ Succeeds /\ row' = [row EXCEPT ![t] = fetch[t]]
       \/ Fails /\ UNCHANGED row
    /\ fetch' = [fetch EXCEPT ![t] = NoFetch]
    /\ UNCHANGED <<submit, upstream, poll, snap, moneyVars, bulkFailed, fetches, crashes>>

-----------------------------------------------------------------------------
(* GetAllUnFinishSyncTasks *)
Unfinished == {t \in Tasks : row[t].status = "pending"}

PollList ==
    /\ poll.pc = "list" /\ poll.todo = {}
    /\ Unfinished # {}
    /\ poll' = [poll EXCEPT !.todo = Unfinished]
    /\ snap' = [t \in Tasks |-> IF t \in Unfinished THEN row[t] ELSE NoRow]
    /\ UNCHANGED <<row, submit, upstream, fetch, moneyVars, bulkFailed, boundVars>>

OfPlatform(p) == {t \in poll.todo : Platform[t] = p}
WithoutId(p) == {t \in OfPlatform(p) : ~snap[t].hasId}

(* UPDATE tasks SET status = 'FAILURE' for a set of tasks; it may fail. *)
BulkFail(S) ==
    /\ \/ /\ Succeeds
          /\ row' = [t \in Tasks |-> IF t \in S THEN [row[t] EXCEPT !.status = "FAILURE"]
                                     ELSE row[t]]
          /\ bulkFailed' = bulkFailed \cup S
       \/ Fails /\ UNCHANGED <<row, bulkFailed>>
    /\ poll' = [poll EXCEPT !.todo = @ \ S]
    /\ UNCHANGED <<submit, upstream, snap, fetch, moneyVars, fetches, crashes>>

(* Tasks without an id are given up, before the rest of their platform. *)
PollWithoutId(p) ==
    /\ poll.pc = "list"
    /\ WithoutId(p) # {}
    /\ BulkFail(WithoutId(p))

(* CacheGetChannel finds no channel: its tasks are given up. *)
PollNoChannel(p) ==
    /\ poll.pc = "list"
    /\ WithoutId(p) = {} /\ OfPlatform(p) # {}
    /\ BulkFail(OfPlatform(p))

(* updateSunoTaskAll asks for all its tasks at once ... *)
SunoFetch ==
    /\ poll.pc = "list"
    /\ WithoutId("suno") = {} /\ OfPlatform("suno") # {}
    /\ poll' = [poll EXCEPT !.pc = "items", !.err = FALSE]
    /\ UNCHANGED <<row, submit, upstream, snap, fetch, moneyVars, bulkFailed, boundVars>>

(* ... and gets no answer, or no further task that needs an update. *)
SunoDone ==
    /\ poll.pc = "items"
    /\ poll' = [poll EXCEPT !.pc = "list", !.todo = @ \ OfPlatform("suno"), !.err = FALSE]
    /\ UNCHANGED <<row, submit, upstream, snap, fetch, moneyVars, bulkFailed, boundVars>>

(* Mutant: the status of the item is not copied into the task. *)
SunoItemKeepsStatus(t, failReason) ==
    /\ poll.pc = "items"
    /\ t \in OfPlatform("suno")
    /\ poll' = [poll EXCEPT !.task = t, !.todo = @ \ {t},
                   !.pc = IF (failReason \/ upstream[t] = "FAILURE") /\ ~poll.err
                             /\ snap[t].quota # 0
                          THEN "sunoRefund" ELSE "update"]
    /\ UNCHANGED <<row, submit, upstream, snap, fetch, moneyVars, bulkFailed, boundVars>>

(* An item of the answer.  A fail_reason alone, whatever the status, ends   *)
(* the task and has its quota refunded: unless err is left over from the    *)
(* Update of the previous item.                                             *)
SunoItem(t, failReason) ==
    /\ poll.pc = "items"
    /\ t \in OfPlatform("suno")
    /\ LET fails == failReason \/ upstream[t] = "FAILURE"
           status == IF upstream[t] \in Ended THEN upstream[t]
                     ELSE IF failReason THEN "stopped" ELSE "pending"
       IN  /\ snap' = [snap EXCEPT ![t].status = status]
           /\ poll' = [poll EXCEPT !.task = t, !.todo = @ \ {t},
                          !.pc = IF fails /\ ~poll.err /\ snap[t].quota # 0
                                 THEN "sunoRefund" ELSE "update"]
    /\ UNCHANGED <<row, submit, upstream, fetch, moneyVars, bulkFailed, boundVars>>

(* The refund comes before the Update, and an error of it is only logged. *)
SunoRefund ==
    /\ poll.pc = "sunoRefund"
    /\ \/ /\ Succeeds
          /\ DebitUser(poll.task, -snap[poll.task].quota)
          /\ refunds' = [refunds EXCEPT ![poll.task] = @ + 1]
       \/ Fails /\ UNCHANGED <<userQuota, paid, refunds>>
    /\ poll' = [poll EXCEPT !.pc = "update"]
    /\ UNCHANGED <<row, submit, upstream, snap, fetch, tokenPaid, used, bulkFailed, fetches,
                   crashes>>

(* updateVideoSingleTask.  The task leaves the list; an error, or a status  *)
(* the code does not know, ends it here.                                    *)
VideoTurn(t) ==
    /\ poll.pc = "list"
    /\ t \in poll.todo \ OfPlatform("suno")
    /\ WithoutId(Platform[t]) = {}

VideoFails(t) ==
    /\ VideoTurn(t)
    /\ poll' = [poll EXCEPT !.todo = @ \ {t}]
    /\ UNCHANGED <<row, submit, upstream, snap, fetch, moneyVars, bulkFailed, boundVars>>

(* Mutant: the status of the answer is not copied into the task. *)
VideoAnswerKeepsStatus(t, status) ==
    /\ VideoTurn(t)
    /\ status \in {upstream[t], "FAILURE"}
    /\ poll' = [poll EXCEPT !.task = t, !.todo = @ \ {t}, !.pc = "update"]
    /\ UNCHANGED <<row, submit, upstream, snap, fetch, moneyVars, bulkFailed, boundVars>>

(* An answer without a status is a failure. *)
VideoAnswer(t, status) ==
    /\ VideoTurn(t)
    /\ status \in {upstream[t], "FAILURE"}
    /\ snap' = [snap EXCEPT ![t].status = status]
    /\ poll' = [poll EXCEPT !.task = t, !.todo = @ \ {t}, !.pc = "update",
                   !.refund = status = "FAILURE" /\ snap[t].quota # 0
                              /\ snap[t].status # "FAILURE"]
    /\ UNCHANGED <<row, submit, upstream, fetch, moneyVars, bulkFailed, boundVars>>

(* SUCCESS with total_tokens, for a model with a ratio *)
VideoAnswerTokens(t, actual) ==
    /\ VideoTurn(t)
    /\ Platform[t] = "doubao" /\ upstream[t] = "SUCCESS"
    /\ snap' = [snap EXCEPT ![t].status = "SUCCESS"]
    /\ poll' = [poll EXCEPT !.task = t, !.todo = @ \ {t}, !.pc = "bill", !.actual = actual]
    /\ UNCHANGED <<row, submit, upstream, fetch, moneyVars, bulkFailed, boundVars>>

(* Mutant: task.Quota is not set to the actual quota. *)
VideoBillKeepsQuota ==
    /\ poll.pc = "bill"
    /\ DebitUser(poll.task, poll.actual - snap[poll.task].quota)
    /\ poll' = [poll EXCEPT !.pc = "update", !.actual = 0]
    /\ UNCHANGED <<row, submit, upstream, snap, fetch, tokenPaid, used, refunds, bulkFailed,
                   boundVars>>

(* The difference to the quota of the row is charged or given back.  Only a *)
(* surcharge is added to the used quota.                                    *)
VideoBill ==
    /\ poll.pc = "bill"
    /\ LET t == poll.task
           delta == poll.actual - snap[t].quota
       IN  \/ /\ DebitUser(t, delta)
              /\ \/ Succeeds /\ used' = [used EXCEPT ![t] = @ + IF delta > 0 THEN delta ELSE 0]
                 \/ Fails /\ delta > 0 /\ UNCHANGED used
              /\ snap' = [snap EXCEPT ![t].quota = poll.actual]
           \/ /\ Fails /\ delta # 0
              /\ UNCHANGED <<userQuota, paid, used, snap>>
    /\ poll' = [poll EXCEPT !.pc = "update", !.actual = 0]
    /\ UNCHANGED <<row, submit, upstream, fetch, tokenPaid, refunds, bulkFailed, fetches,
                   crashes>>

(* Mutant: a failed Update does not prevent the refund. *)
PollUpdateRefundsAnyway ==
    /\ poll.pc = "update"
    /\ \/ Succeeds /\ row' = [row EXCEPT ![poll.task] = snap[poll.task]]
       \/ Fails /\ UNCHANGED row
    /\ poll' = IF poll.refund THEN [poll EXCEPT !.pc = "refund"]
               ELSE [poll EXCEPT !.pc = IF Platform[poll.task] = "suno" THEN "items" ELSE "list",
                                 !.task = "none"]
    /\ UNCHANGED <<submit, upstream, snap, fetch, moneyVars, bulkFailed, fetches, crashes>>

(* task.Update saves the poller's copy of the row.  After an error a Suno   *)
(* item leaves err set, and a video is not refunded.                        *)
PollUpdate ==
    /\ poll.pc = "update"
    /\ LET t == poll.task
           suno == Platform[t] = "suno"
           After(err) ==
               CASE suno -> [poll EXCEPT !.pc = "items", !.task = "none", !.err = err]
                 [] ~suno /\ poll.refund /\ ~err -> [poll EXCEPT !.pc = "refund"]
                 [] OTHER -> [poll EXCEPT !.pc = "list", !.task = "none", !.refund = FALSE]
       IN  \/ Succeeds /\ row' = [row EXCEPT ![t] = snap[t]] /\ poll' = After(FALSE)
           \/ Fails /\ UNCHANGED row /\ poll' = After(TRUE)
    /\ UNCHANGED <<submit, upstream, snap, fetch, moneyVars, bulkFailed, fetches, crashes>>

VideoRefund ==
    /\ poll.pc = "refund"
    /\ \/ /\ Succeeds
          /\ DebitUser(poll.task, -snap[poll.task].quota)
          /\ refunds' = [refunds EXCEPT ![poll.task] = @ + 1]
       \/ Fails /\ UNCHANGED <<userQuota, paid, refunds>>
    /\ poll' = [poll EXCEPT !.pc = "list", !.task = "none", !.refund = FALSE]
    /\ UNCHANGED <<row, submit, upstream, snap, fetch, tokenPaid, used, bulkFailed, fetches,
                   crashes>>

-----------------------------------------------------------------------------
(* The process dies and is restarted: only the database survives. *)
Crash ==
    /\ crashes < MaxCrashes
    /\ crashes' = crashes + 1
    /\ poll' = Idle
    /\ submit' = [t \in Tasks |-> IF submit[t] = "new" THEN "new" ELSE "closed"]
    /\ fetch' = [t \in Tasks |-> NoFetch]
    /\ snap' = [t \in Tasks |-> NoRow]
    /\ UNCHANGED <<row, upstream, moneyVars, bulkFailed, failures, fetches>>

(* What the poller does without the upstream's help. *)
PollStep == PollList \/ SunoRefund \/ VideoBill \/ PollUpdate \/ VideoRefund

(* What the upstream answers, when it does. *)
PollAnswer(t) ==
    \/ \E reason \in BOOLEAN : SunoItem(t, reason)
    \/ \E status \in {"pending"} \cup Ended : VideoAnswer(t, status)
    \/ \E actual \in ActualQuotas : VideoAnswerTokens(t, actual)

PollRest ==
    \/ SunoFetch \/ SunoDone
    \/ \E p \in Platforms : PollWithoutId(p) \/ PollNoChannel(p)
    \/ \E t \in Tasks : VideoFails(t)

Next ==
    \/ PollStep \/ PollRest \/ Crash
    \/ \E t \in Tasks : Submit(t) \/ UpstreamEnds(t) \/ PollAnswer(t)
                        \/ ClientFetch(t) \/ ClientSave(t)

Spec == Init /\ [][Next]_vars

(* The poller never stops, requests that only wait for the database go on,  *)
(* and an upstream that is asked again and again answers at some point.     *)
Fairness ==
    /\ WF_vars(PollStep) /\ WF_vars(PollRest)
    /\ \A t \in Tasks : /\ SF_vars(PollAnswer(t))
                        /\ WF_vars(ClientSave(t))
                        /\ WF_vars(SubmitChargeUser(t) \/ SubmitChargeToken(t)
                                   \/ SubmitRecord(t))

FairSpec == Spec /\ Fairness

-----------------------------------------------------------------------------
(* Nothing is going on for a task. *)
AtRest(t) ==
    /\ submit[t] = "closed"
    /\ fetch[t] = NoFetch
    /\ poll.task # t

(* With a database that answers, and rows that only the poller changes, a   *)
(* task at rest has cost its user the quota in its row, or nothing once it  *)
(* was refunded: submit's charge after the insert, the poller's surcharge   *)
(* and its refund add up in any order.  A failed task was refunded exactly  *)
(* once, unless a bulk update failed it.  The token keeps paying the price, *)
(* and the used quota never falls below what was paid.                      *)
TaskAddsUp ==
    failures = 0 /\ crashes = 0 => \A t \in Tasks :
        AtRest(t) /\ Platform[t] # "gemini" =>
            /\ paid[t] = IF refunds[t] > 0 THEN 0 ELSE row[t].quota
            /\ row[t].status = "FAILURE" /\ t \notin bulkFailed /\ Price # 0 => refunds[t] = 1
            /\ tokenPaid[t] = IF row[t].status = "none" THEN 0 ELSE Price
            /\ used[t] >= paid[t]

(* Whatever fails or crashes, a video that only the poller writes is        *)
(* refunded at most once, and only when its row says FAILURE: the refund of *)
(* updateVideoSingleTask waits for a successful Update.                     *)
VideoRefundedOnce ==
    \A t \in Tasks : Platform[t] = "doubao" =>
        /\ refunds[t] <= 1
        /\ refunds[t] = 1 => row[t].status = "FAILURE"

(* The poller bills before it saves: the Suno refund and the video's        *)
(* surcharge come before task.Update, so an Update that fails, or a crash   *)
(* before it, leaves the row pending and the next poll bills again.  Each   *)
(* error costs at most one repetition, and without one nothing is repeated. *)
RepeatsNeedErrors ==
    LET errors == failures + crashes
        surcharges == {a - Price : a \in ActualQuotas} \cup {0}
    IN  \A t \in Tasks :
            /\ Platform[t] = "suno" => refunds[t] <= 1 + errors
            /\ Platform[t] = "doubao" =>
                  \E s \in surcharges : paid[t] <= Price + (1 + errors) * s

(* A Gemini task may be refunded again, but only after a client's query has *)
(* overwritten its row: never more than once per query in addition.         *)
ExtraRefundsNeedQueries ==
    \A t \in Tasks : Platform[t] = "gemini" => refunds[t] <= 1 + fetches

(* A task that its provider has finished is finished in the database too,   *)
(* and for good: a stale save of a client's query can undo that only until  *)
(* the poller's next turn.                                                  *)
TaskFinishes ==
    \A t \in Tasks :
        (row[t].status = "pending" /\ upstream[t] \in Ended) ~>
            [](row[t].status \in Ended \cup {"stopped"})

(* updateVideoSingleTask refunds "only when the task has failed and was not *)
(* failed before, to prevent a repeated refund" (task_video.go:270).        *)
RefundedOnce == \A t \in Tasks : Platform[t] # "suno" => refunds[t] <= 1
=============================================================================
