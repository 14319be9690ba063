------------------------- MODULE TaskBillingProofs -------------------------
(***************************************************************************)
(* Proofs about TaskBilling, for any number of tasks, any prices, and any  *)
(* number of database errors, queries and crashes.                         *)
(***************************************************************************)
EXTENDS TaskBilling, TLAPS

Videos == {t \in Tasks : Platform[t] = "doubao"}

(* The poller holds a task exactly while it works on one, a task in hand is *)
(* no longer on the list, and a refund is due only for a failed video.      *)
InHand ==
    /\ poll.pc \in {"list", "items"} <=> poll.task = "none"
    /\ poll.task \notin poll.todo
    /\ poll.pc = "sunoRefund" => Platform[poll.task] = "suno"
    /\ poll.refund => /\ poll.pc \in {"update", "refund"}
                      /\ Platform[poll.task] # "suno"
                      /\ snap[poll.task].status = "FAILURE"

(* A video that was refunded is failed in the database, and nobody holds a  *)
(* copy of its row from before that.                                        *)
RefundedOrNot(t) ==
    /\ fetch[t] = NoFetch
    /\ refunds[t] \in {0, 1}
    /\ submit[t] \in {"new", "request"} =>
           refunds[t] = 0 /\ t \notin poll.todo /\ poll.task # t /\ row[t].status = "none"
    /\ refunds[t] = 1 => row[t].status = "FAILURE" /\ t \notin poll.todo /\ poll.task # t
    /\ poll.task = t /\ poll.pc = "refund" => row[t].status = "FAILURE"

Inv ==
    /\ TypeOK
    /\ InHand
    /\ \A t \in Videos : RefundedOrNot(t)

-----------------------------------------------------------------------------
USE DEF Succeeds, Fails, SubmitAt, DebitUser, moneyVars, boundVars

(* Every step keeps every variable in its type. *)
LEMMA SubmitType ==
    ASSUME TypeOK, NEW t \in Tasks, Submit(t)
    PROVE  TypeOK'
<1>1. CASE SubmitCheck(t)
  BY <1>1 DEF SubmitCheck, TypeOK
<1>2. CASE SubmitFails(t)
  BY <1>2 DEF SubmitFails, TypeOK
<1>3. ASSUME NEW id \in BOOLEAN, SubmitInsert(t, id) PROVE TypeOK'
  <2>1. [status |-> "pending", quota |-> Price, hasId |-> id] \in Rows
    BY TaskAssumption DEF Rows, Statuses
  <2>2. row' \in [Tasks -> Rows]
    BY <1>3, <2>1 DEF SubmitInsert, TypeOK
  <2> QED
    BY <1>3, <2>2, TaskAssumption DEF SubmitInsert, TypeOK
<1>4. CASE SubmitChargeUser(t)
  BY <1>4, TaskAssumption DEF SubmitChargeUser, TypeOK
<1>5. CASE SubmitChargeToken(t)
  BY <1>5, TaskAssumption DEF SubmitChargeToken, TypeOK
<1>6. CASE SubmitRecord(t)
  BY <1>6, TaskAssumption DEF SubmitRecord, TypeOK
<1> QED
  BY <1>1, <1>2, <1>3, <1>4, <1>5, <1>6 DEF Submit

LEMMA RowStatus ==
    ASSUME NEW r \in Rows, NEW s \in Statuses
    PROVE  [r EXCEPT !.status = s] \in Rows
  BY DEF Rows

LEMMA FetchType ==
    ASSUME TypeOK, NEW t \in Tasks, UpstreamEnds(t) \/ ClientFetch(t) \/ ClientSave(t)
    PROVE  TypeOK'
<1>1. CASE UpstreamEnds(t)
  BY <1>1 DEF UpstreamEnds, TypeOK
<1>2. CASE ClientFetch(t)
  <2>1. upstream[t] \in Statuses /\ row[t] \in Rows
    BY DEF TypeOK, Statuses
  <2>2. [row[t] EXCEPT !.status = upstream[t]] \in Rows
    BY <2>1, RowStatus
  <2> QED
    BY <1>2, <2>2, TaskAssumption DEF ClientFetch, TypeOK
<1>3. CASE ClientSave(t)
  <2>1. fetch[t] \in Rows
    BY <1>3 DEF ClientSave, TypeOK
  <2>2. row' \in [Tasks -> Rows]
    BY <1>3, <2>1 DEF ClientSave, TypeOK
  <2>3. fetch' \in [Tasks -> Rows \cup {NoFetch}]
    BY <1>3 DEF ClientSave, TypeOK
  <2>4. failures' \in 0 .. MaxFailures
    BY <1>3, TaskAssumption DEF ClientSave, TypeOK
  <2> QED
    BY <1>3, <2>2, <2>3, <2>4 DEF ClientSave, TypeOK
<1> QED
  BY <1>1, <1>2, <1>3

(* A step of the poller, in terms of the variables it may change. *)
LEMMA BulkFailType ==
    ASSUME TypeOK, NEW S \in SUBSET Tasks, BulkFail(S)
    PROVE  TypeOK'
<1>1. poll' \in Polls
  BY DEF BulkFail, TypeOK, Polls
<1>2. \A t \in Tasks : [row[t] EXCEPT !.status = "FAILURE"] \in Rows
  BY RowStatus DEF TypeOK, Statuses, Ended
<1>3. row' \in [Tasks -> Rows]
  BY <1>2 DEF BulkFail, TypeOK
<1> QED
  BY <1>1, <1>3, TaskAssumption DEF BulkFail, TypeOK

LEMMA PollRestType ==
    ASSUME TypeOK, PollRest
    PROVE  TypeOK'
<1>1. CASE SunoFetch
  <2>1. poll' \in Polls
    BY <1>1 DEF SunoFetch, TypeOK, Polls
  <2> QED
    BY <1>1, <2>1 DEF SunoFetch, TypeOK
<1>2. CASE SunoDone
  <2>1. poll' \in Polls
    BY <1>2 DEF SunoDone, TypeOK, Polls
  <2> QED
    BY <1>2, <2>1 DEF SunoDone, TypeOK
<1>3. ASSUME NEW p \in Platforms, PollWithoutId(p) \/ PollNoChannel(p) PROVE TypeOK'
  <2>1. OfPlatform(p) \in SUBSET Tasks /\ WithoutId(p) \in SUBSET Tasks
    BY DEF OfPlatform, WithoutId, TypeOK, Polls
  <2> QED
    BY <1>3, <2>1, BulkFailType DEF PollWithoutId, PollNoChannel
<1>4. ASSUME NEW t \in Tasks, VideoFails(t) PROVE TypeOK'
  <2>1. poll' \in Polls
    BY <1>4 DEF VideoFails, TypeOK, Polls
  <2> QED
    BY <1>4, <2>1 DEF VideoFails, TypeOK
<1> QED
  BY <1>1, <1>2, <1>3, <1>4 DEF PollRest

LEMMA PollAnswerType ==
    ASSUME TypeOK, NEW t \in Tasks, PollAnswer(t)
    PROVE  TypeOK'
<1>1. ASSUME NEW s \in Statuses, snap' = [snap EXCEPT ![t].status = s]
      PROVE  snap' \in [Tasks -> Rows]
  <2>1. [snap[t] EXCEPT !.status = s] \in Rows
    BY RowStatus DEF TypeOK
  <2> QED
    BY <1>1, <2>1 DEF TypeOK
<1>2. upstream[t] \in Statuses /\ {"pending", "stopped", "SUCCESS", "FAILURE"} \subseteq Statuses
  BY DEF TypeOK, Statuses, Ended
<1>3. ASSUME NEW reason \in BOOLEAN, SunoItem(t, reason) PROVE TypeOK'
  <2>1. poll' \in Polls
    BY <1>3 DEF SunoItem, TypeOK, Polls
  <2>2. snap' \in [Tasks -> Rows]
    BY <1>1, <1>2, <1>3 DEF SunoItem
  <2> QED
    BY <1>3, <2>1, <2>2 DEF SunoItem, TypeOK
<1>4. ASSUME NEW status \in {"pending"} \cup Ended, VideoAnswer(t, status) PROVE TypeOK'
  <2>1. poll' \in Polls
    BY <1>4 DEF VideoAnswer, TypeOK, Polls
  <2>2. snap' \in [Tasks -> Rows]
    BY <1>1, <1>2, <1>4 DEF VideoAnswer
  <2> QED
    BY <1>4, <2>1, <2>2 DEF VideoAnswer, TypeOK
<1>5. ASSUME NEW actual \in ActualQuotas, VideoAnswerTokens(t, actual) PROVE TypeOK'
  <2>1. poll' \in Polls
    BY <1>5, TaskAssumption DEF VideoAnswerTokens, TypeOK, Polls
  <2>2. snap' \in [Tasks -> Rows]
    BY <1>1, <1>2, <1>5 DEF VideoAnswerTokens
  <2> QED
    BY <1>5, <2>1, <2>2 DEF VideoAnswerTokens, TypeOK
<1> QED
  BY <1>3, <1>4, <1>5 DEF PollAnswer

(* Where PollUpdate leaves the poller. *)
LEMMA AfterUpdate ==
    ASSUME TypeOK, PollUpdate
    PROVE  \/ /\ Platform[poll.task] = "suno"
              /\ \E err \in BOOLEAN : poll' = [poll EXCEPT !.pc = "items", !.task = "none",
                                                          !.err = err]
           \/ /\ Platform[poll.task] # "suno" /\ poll.refund
              /\ row' = [row EXCEPT ![poll.task] = snap[poll.task]]
              /\ poll' = [poll EXCEPT !.pc = "refund"]
           \/ /\ Platform[poll.task] # "suno"
              /\ poll' = [poll EXCEPT !.pc = "list", !.task = "none", !.refund = FALSE]
<1>1. CASE Platform[poll.task] = "suno"
  BY <1>1 DEF PollUpdate
<1>2. CASE Platform[poll.task] # "suno"
  <2>1. poll.refund \in BOOLEAN
    BY DEF TypeOK, Polls
  <2>2. CASE poll.refund
    BY <1>2, <2>2 DEF PollUpdate
  <2>3. CASE ~poll.refund
    BY <1>2, <2>3 DEF PollUpdate
  <2> QED
    BY <2>1, <2>2, <2>3
<1> QED
  BY <1>1, <1>2

(* The poller pays back or charges the task it has in hand. *)
LEMMA PollStepType ==
    ASSUME TypeOK, InHand, PollStep
    PROVE  TypeOK'
<1>1. CASE PollList
  <2>1. poll' \in Polls
    BY <1>1 DEF PollList, Unfinished, TypeOK, Polls
  <2>2. NoRow \in Rows
    BY DEF NoRow, Rows, Statuses
  <2>3. snap' \in [Tasks -> Rows]
    BY <1>1, <2>2 DEF PollList, TypeOK
  <2> QED
    BY <1>1, <2>1, <2>3 DEF PollList, TypeOK
<1> DEFINE t == poll.task
<1>2. poll.pc \notin {"list", "items"} => t \in Tasks /\ snap[t] \in Rows /\ snap[t].quota \in Nat
  BY DEF InHand, TypeOK, Polls, Rows
<1>3. CASE SunoRefund
  <2>1. poll' \in Polls
    BY <1>3 DEF SunoRefund, TypeOK, Polls
  <2>2. t \in Tasks /\ snap[t].quota \in Nat
    BY <1>2, <1>3 DEF SunoRefund
  <2>3. userQuota' \in Int /\ paid' \in [Tasks -> Int] /\ refunds' \in [Tasks -> Nat]
    BY <1>3, <2>2 DEF SunoRefund, TypeOK
  <2> QED
    BY <1>3, <2>1, <2>3, TaskAssumption DEF SunoRefund, TypeOK
<1>4. CASE VideoBill
  <2>1. poll' \in Polls
    BY <1>4 DEF VideoBill, TypeOK, Polls
  <2>2. t \in Tasks /\ snap[t] \in Rows /\ snap[t].quota \in Nat /\ poll.actual \in Nat
    BY <1>2, <1>4 DEF VideoBill, TypeOK, Polls
  <2>3. [snap[t] EXCEPT !.quota = poll.actual] \in Rows
    BY <2>2 DEF Rows
  <2>4. snap' \in [Tasks -> Rows]
    BY <1>4, <2>3 DEF VideoBill, TypeOK
  <2>5. /\ userQuota' \in Int /\ paid' \in [Tasks -> Int]
        /\ used' \in [Tasks -> Nat] /\ refunds' \in [Tasks -> Nat]
        /\ tokenPaid' \in [Tasks -> Nat]
    BY <1>4, <2>2 DEF VideoBill, TypeOK
  <2> QED
    BY <1>4, <2>1, <2>4, <2>5, TaskAssumption DEF VideoBill, TypeOK
<1>5. CASE PollUpdate
  <2>1. poll' \in Polls
    <3>1. poll \in Polls
      BY DEF TypeOK
    <3>2. ASSUME NEW err \in BOOLEAN
          PROVE  [poll EXCEPT !.pc = "items", !.task = "none", !.err = err] \in Polls
      BY <3>1 DEF Polls
    <3>3. /\ [poll EXCEPT !.pc = "refund"] \in Polls
          /\ [poll EXCEPT !.pc = "list", !.task = "none", !.refund = FALSE] \in Polls
      BY <3>1 DEF Polls
    <3> QED
      BY <1>5, <3>2, <3>3, AfterUpdate
  <2>2. snap[t] \in Rows
    BY <1>2, <1>5 DEF PollUpdate
  <2>3. row' \in [Tasks -> Rows]
    BY <1>5, <2>2 DEF PollUpdate, TypeOK
  <2>4. failures' \in 0 .. MaxFailures
    BY <1>5, TaskAssumption DEF PollUpdate, TypeOK
  <2> QED
    BY <1>5, <2>1, <2>3, <2>4 DEF PollUpdate, TypeOK
<1>6. CASE VideoRefund
  <2>1. poll' \in Polls
    BY <1>6 DEF VideoRefund, TypeOK, Polls
  <2>2. t \in Tasks /\ snap[t].quota \in Nat
    BY <1>2, <1>6 DEF VideoRefund
  <2>3. userQuota' \in Int /\ paid' \in [Tasks -> Int] /\ refunds' \in [Tasks -> Nat]
    BY <1>6, <2>2 DEF VideoRefund, TypeOK
  <2> QED
    BY <1>6, <2>1, <2>3, TaskAssumption DEF VideoRefund, TypeOK
<1> QED
  BY <1>1, <1>3, <1>4, <1>5, <1>6 DEF PollStep

LEMMA CrashType ==
    ASSUME TypeOK, Crash
    PROVE  TypeOK'
<1>1. NoRow \in Rows /\ Idle \in Polls
  BY DEF NoRow, Rows, Statuses, Idle, Polls
<1>2. submit' \in [Tasks -> {"new", "request", "chargeUser", "chargeToken", "record", "closed"}]
  BY DEF Crash, TypeOK
<1>3. crashes' \in 0 .. MaxCrashes
  BY TaskAssumption DEF Crash, TypeOK
<1> QED
  BY <1>1, <1>2, <1>3 DEF Crash, TypeOK

LEMMA NextType ==
    ASSUME TypeOK, InHand, [Next]_vars
    PROVE  TypeOK'
<1>1. CASE UNCHANGED vars
  BY <1>1 DEF vars, TypeOK
<1> QED
  BY <1>1, SubmitType, FetchType, PollRestType, PollAnswerType, PollStepType, CrashType
     DEF Next

-----------------------------------------------------------------------------
(* The poller keeps its hands in order. *)
LEMMA InHandStep ==
    ASSUME TypeOK, InHand, [Next]_vars
    PROVE  InHand'
<1> USE TaskAssumption DEF InHand
<1>1. CASE UNCHANGED <<poll, snap>>
  BY <1>1
<1>2. ASSUME NEW t \in Tasks, Submit(t) \/ UpstreamEnds(t) \/ ClientFetch(t) \/ ClientSave(t)
      PROVE  InHand'
  <2>1. UNCHANGED <<poll, snap>>
    BY <1>2 DEF Submit, SubmitCheck, SubmitFails, SubmitInsert, SubmitChargeUser,
                SubmitChargeToken, SubmitRecord, UpstreamEnds, ClientFetch, ClientSave
  <2> QED
    BY <1>1, <2>1
<1>3. poll \in Polls /\ snap \in [Tasks -> Rows] /\ "none" \notin Tasks
  BY DEF TypeOK
<1>4. ASSUME NEW t \in Tasks, PollAnswer(t) PROVE InHand'
  <2>1. ASSUME NEW reason \in BOOLEAN, SunoItem(t, reason) PROVE InHand'
    BY <1>3, <2>1 DEF SunoItem, OfPlatform, Polls
  <2>2. ASSUME NEW status \in {"pending"} \cup Ended, VideoAnswer(t, status) PROVE InHand'
    <3>1. Platform[t] # "suno"
      BY <2>2 DEF VideoAnswer, VideoTurn, OfPlatform
    <3>2. poll'.refund => status = "FAILURE"
      BY <1>3, <2>2 DEF VideoAnswer, Polls
    <3>3. snap'[t].status = status
      BY <1>3, <2>2 DEF VideoAnswer, Rows
    <3>4. poll'.task = t /\ poll'.pc = "update" /\ poll'.todo = poll.todo \ {t}
      BY <1>3, <2>2 DEF VideoAnswer, Polls
    <3> QED
      BY <1>3, <3>1, <3>2, <3>3, <3>4
  <2>3. ASSUME NEW actual \in ActualQuotas, VideoAnswerTokens(t, actual) PROVE InHand'
    BY <1>3, <2>3 DEF VideoAnswerTokens, VideoTurn, Polls
  <2> QED
    BY <1>4, <2>1, <2>2, <2>3 DEF PollAnswer
<1>5. CASE PollRest
  <2>1. CASE SunoFetch \/ SunoDone
    <3>1. poll.task = "none" /\ ~poll.refund
      BY <1>3, <2>1 DEF SunoFetch, SunoDone, Polls
    <3>2. /\ poll'.pc \in {"list", "items"} /\ poll'.task = poll.task
          /\ poll'.refund = poll.refund /\ poll'.todo \subseteq poll.todo
      <4>1. CASE SunoFetch
        BY <1>3, <4>1 DEF SunoFetch, Polls
      <4>2. CASE SunoDone
        BY <1>3, <4>2 DEF SunoDone, Polls
      <4> QED
        BY <2>1, <4>1, <4>2
    <3>3. poll'.task = "none" /\ ~poll'.refund /\ "none" \notin poll'.todo
      BY <1>3, <3>1, <3>2 DEF Polls
    <3> QED
      BY <3>2, <3>3
  <2>2. ASSUME NEW S, BulkFail(S), poll.pc = "list" PROVE InHand'
    BY <1>3, <2>2 DEF BulkFail, Polls
  <2>3. ASSUME NEW t \in Tasks, VideoFails(t) PROVE InHand'
    BY <1>3, <2>3 DEF VideoFails, VideoTurn, Polls
  <2> QED
    BY <1>5, <2>1, <2>2, <2>3 DEF PollRest, PollWithoutId, PollNoChannel
<1>6. CASE PollStep
  <2>1. CASE PollList
    BY <1>3, <2>1 DEF PollList, Unfinished, Polls
  <2>2. CASE SunoRefund
    BY <1>3, <2>2 DEF SunoRefund, Polls
  <2>3. CASE VideoBill
    BY <1>3, <2>3 DEF VideoBill, Polls
  <2>4. CASE PollUpdate
    <3>1. UNCHANGED snap
      BY <2>4 DEF PollUpdate
    <3> QED
      BY <1>3, <2>4, <3>1, AfterUpdate DEF PollUpdate, Polls
  <2>5. CASE VideoRefund
    BY <1>3, <2>5 DEF VideoRefund, Polls
  <2> QED
    BY <1>6, <2>1, <2>2, <2>3, <2>4, <2>5 DEF PollStep
<1>7. CASE Crash
  BY <1>7 DEF Crash, Idle
<1> QED
  BY <1>1, <1>2, <1>4, <1>5, <1>6, <1>7 DEF Next, vars

-----------------------------------------------------------------------------
(* What happens to other tasks does not concern a video, and what happens   *)
(* to the video itself refunds it at most once.                             *)
LEMMA SubmitKeeps ==
    ASSUME TypeOK, NEW v \in Videos, RefundedOrNot(v), NEW t \in Tasks, Submit(t)
    PROVE  RefundedOrNot(v)'
<1> USE DEF RefundedOrNot
<1>1. v \in Tasks /\ UNCHANGED <<poll, fetch, refunds>>
  BY DEF Videos, Submit, SubmitCheck, SubmitFails, SubmitInsert, SubmitChargeUser,
         SubmitChargeToken, SubmitRecord
<1>2. CASE SubmitCheck(t) \/ SubmitFails(t)
  BY <1>1, <1>2 DEF SubmitCheck, SubmitFails, TypeOK
<1>3. ASSUME NEW id \in BOOLEAN, SubmitInsert(t, id) PROVE RefundedOrNot(v)'
  BY <1>1, <1>3 DEF SubmitInsert, TypeOK
<1>4. CASE SubmitChargeUser(t) \/ SubmitChargeToken(t) \/ SubmitRecord(t)
  BY <1>1, <1>4 DEF SubmitChargeUser, SubmitChargeToken, SubmitRecord, TypeOK
<1> QED
  BY <1>2, <1>3, <1>4 DEF Submit

LEMMA FetchKeeps ==
    ASSUME TypeOK, NEW v \in Videos, RefundedOrNot(v), NEW t \in Tasks,
           UpstreamEnds(t) \/ ClientFetch(t) \/ ClientSave(t)
    PROVE  RefundedOrNot(v)'
<1>1. v \in Tasks /\ Platform[v] = "doubao"
  BY DEF Videos
<1>2. UNCHANGED <<submit, poll, refunds>> /\ row'[v] = row[v] /\ fetch'[v] = fetch[v]
  BY <1>1 DEF UpstreamEnds, ClientFetch, ClientSave, RefundedOrNot, TypeOK
<1> QED
  BY <1>2 DEF RefundedOrNot

LEMMA PollAnswerKeeps ==
    ASSUME TypeOK, InHand, NEW v \in Videos, RefundedOrNot(v), NEW t \in Tasks, PollAnswer(t)
    PROVE  RefundedOrNot(v)'
<1>1. UNCHANGED <<row, submit, fetch, refunds>>
  BY DEF PollAnswer, SunoItem, VideoAnswer, VideoAnswerTokens
<1> DEFINE Taken == /\ t \in poll.todo
                    /\ poll'.todo = poll.todo \ {t} /\ poll'.task = t
                    /\ poll'.pc # "refund"
<1>2. Taken
  <2>1. poll \in Polls
    BY DEF TypeOK
  <2>2. ASSUME NEW reason \in BOOLEAN, SunoItem(t, reason) PROVE Taken
    BY <2>1, <2>2 DEF SunoItem, OfPlatform, Polls
  <2>3. ASSUME NEW status \in {"pending"} \cup Ended, VideoAnswer(t, status) PROVE Taken
    BY <2>1, <2>3 DEF VideoAnswer, VideoTurn, Polls
  <2>4. ASSUME NEW actual \in ActualQuotas, VideoAnswerTokens(t, actual) PROVE Taken
    BY <2>1, <2>4 DEF VideoAnswerTokens, VideoTurn, Polls
  <2> QED
    BY <2>2, <2>3, <2>4 DEF PollAnswer
<1> QED
  BY <1>1, <1>2 DEF RefundedOrNot

LEMMA PollRestKeeps ==
    ASSUME TypeOK, NEW v \in Videos, RefundedOrNot(v), PollRest
    PROVE  RefundedOrNot(v)'
<1> USE DEF RefundedOrNot
<1>1. v \in Tasks /\ poll \in Polls
  BY DEF Videos, TypeOK
<1>2. CASE SunoFetch \/ SunoDone
  <2>1. UNCHANGED <<row, submit, fetch, refunds>>
    BY <1>2 DEF SunoFetch, SunoDone
  <2>2. poll'.todo \subseteq poll.todo /\ poll'.task = poll.task /\ poll'.pc # "refund"
    <3>1. CASE SunoFetch
      BY <1>1, <3>1 DEF SunoFetch, Polls
    <3>2. CASE SunoDone
      BY <1>1, <3>2 DEF SunoDone, Polls
    <3> QED
      BY <1>2, <3>1, <3>2
  <2> QED
    BY <2>1, <2>2
<1>3. ASSUME NEW S \in SUBSET poll.todo, BulkFail(S), poll.pc = "list"
      PROVE  RefundedOrNot(v)'
  <2>1. UNCHANGED <<submit, fetch, refunds>>
    BY <1>3 DEF BulkFail
  <2>2. poll'.todo \subseteq poll.todo /\ poll'.task = poll.task /\ poll'.pc # "refund"
    BY <1>1, <1>3 DEF BulkFail, Polls
  <2>3. \/ row'[v] = row[v]
        \/ v \in poll.todo /\ row'[v] = [row[v] EXCEPT !.status = "FAILURE"]
    <3>1. CASE UNCHANGED row
      BY <3>1
    <3>2. CASE row' = [t \in Tasks |-> IF t \in S THEN [row[t] EXCEPT !.status = "FAILURE"]
                                       ELSE row[t]]
      BY <1>1, <1>3, <3>2
    <3> QED
      BY <1>3, <3>1, <3>2 DEF BulkFail
  <2>4. row[v] \in Rows
    BY <1>1 DEF TypeOK
  <2>5. \/ row'[v].status = row[v].status
        \/ v \in poll.todo /\ row'[v].status = "FAILURE"
    BY <2>3, <2>4 DEF Rows
  <2> QED
    BY <2>1, <2>2, <2>5
<1>4. ASSUME NEW t \in Tasks, VideoFails(t) PROVE RefundedOrNot(v)'
  BY <1>1, <1>4 DEF VideoFails, VideoTurn, Polls
<1>5. ASSUME NEW p \in Platforms, PollWithoutId(p) \/ PollNoChannel(p) PROVE RefundedOrNot(v)'
  <2>1. OfPlatform(p) \in SUBSET poll.todo /\ WithoutId(p) \in SUBSET poll.todo
    BY DEF OfPlatform, WithoutId
  <2> QED
    BY <1>3, <1>5, <2>1 DEF PollWithoutId, PollNoChannel
<1> QED
  BY <1>2, <1>4, <1>5 DEF PollRest

(* The refund comes after the Update that made the row FAILURE. *)
LEMMA PollStepKeeps ==
    ASSUME TypeOK, InHand, NEW v \in Videos, RefundedOrNot(v), PollStep
    PROVE  RefundedOrNot(v)'
<1> USE DEF RefundedOrNot
<1>1. v \in Tasks /\ Platform[v] = "doubao" /\ poll \in Polls /\ v # "none"
  BY TaskAssumption DEF Videos, TypeOK
<1>2. CASE PollList
  BY <1>1, <1>2 DEF PollList, Unfinished, InHand, Polls
<1>3. CASE SunoRefund
  <2>1. poll.task # v
    BY <1>1, <1>3 DEF SunoRefund, InHand
  <2>2. refunds'[v] = refunds[v]
    BY <1>1, <1>3, <2>1 DEF SunoRefund, TypeOK
  <2> QED
    BY <1>1, <1>3, <2>1, <2>2 DEF SunoRefund, Polls
<1>4. CASE VideoBill
  BY <1>1, <1>4 DEF VideoBill, Polls
<1>5. CASE PollUpdate
  <2>1. UNCHANGED <<submit, fetch, refunds>>
    BY <1>5 DEF PollUpdate
  <2>2. poll.task # v => row'[v] = row[v]
    BY <1>1, <1>5 DEF PollUpdate, TypeOK
  <2>3. poll'.todo = poll.todo /\ poll'.task \in {poll.task, "none"}
    BY <1>1, <1>5, AfterUpdate DEF Polls
  <2>4. poll.task = v /\ poll'.pc = "refund" => row'[v].status = "FAILURE"
    BY <1>1, <1>5, AfterUpdate DEF InHand, TypeOK, Polls
  <2>5. poll'.task = v => poll.task = v
    BY <1>1, <2>3
  <2> QED
    BY <1>1, <2>1, <2>2, <2>3, <2>4, <2>5
<1>6. CASE VideoRefund
  <2>1. UNCHANGED <<submit, fetch, row>>
    BY <1>6 DEF VideoRefund
  <2>2. poll'.todo = poll.todo /\ poll'.task = "none"
    BY <1>1, <1>6 DEF VideoRefund, Polls
  <2>3. CASE poll.task # v
    BY <1>1, <1>6, <2>1, <2>2, <2>3 DEF VideoRefund, TypeOK
  <2>4. CASE poll.task = v
    <3>1. row[v].status = "FAILURE" /\ refunds[v] = 0 /\ submit[v] \notin {"new", "request"}
      BY <1>6, <2>4 DEF VideoRefund
    <3>2. refunds'[v] \in {0, 1}
      BY <1>1, <1>6, <2>4, <3>1 DEF VideoRefund, TypeOK
    <3>3. v \notin poll.todo
      BY <2>4 DEF InHand
    <3> QED
      BY <1>1, <2>1, <2>2, <3>1, <3>2, <3>3
  <2> QED
    BY <2>3, <2>4
<1> QED
  BY <1>2, <1>3, <1>4, <1>5, <1>6 DEF PollStep

LEMMA CrashKeeps ==
    ASSUME TypeOK, NEW v \in Videos, RefundedOrNot(v), Crash
    PROVE  RefundedOrNot(v)'
<1>1. v \in Tasks /\ v # "none"
  BY TaskAssumption DEF Videos
<1>2. poll' = Idle /\ fetch'[v] = NoFetch /\ UNCHANGED <<row, refunds>>
  BY <1>1 DEF Crash
<1>3. submit'[v] \in {"new", "request"} => submit[v] = "new"
  BY <1>1 DEF Crash
<1> QED
  BY <1>1, <1>2, <1>3 DEF Idle, RefundedOrNot

-----------------------------------------------------------------------------
LEMMA InitInv ==
    ASSUME Init
    PROVE  Inv
<1>1. NoRow \in Rows /\ Idle \in Polls
  BY DEF NoRow, Rows, Statuses, Idle, Polls
<1>2. TypeOK
  BY <1>1, TaskAssumption DEF Init, TypeOK
<1>3. InHand
  BY DEF Init, InHand, Idle
<1>4. ASSUME NEW t \in Videos PROVE RefundedOrNot(t)
  <2>1. t \in Tasks /\ t # "none"
    BY TaskAssumption DEF Videos
  <2>2. fetch[t] = NoFetch /\ refunds[t] = 0 /\ row[t] = NoRow /\ poll = Idle
    BY <2>1 DEF Init
  <2> QED
    BY <2>1, <2>2 DEF RefundedOrNot, Idle, NoRow
<1> QED
  BY <1>2, <1>3, <1>4 DEF Inv

LEMMA InvStep ==
    ASSUME Inv, [Next]_vars
    PROVE  Inv'
<1>1. TypeOK' /\ InHand'
  BY NextType, InHandStep DEF Inv
<1>2. ASSUME NEW v \in Videos PROVE RefundedOrNot(v)'
  <2>1. TypeOK /\ InHand /\ RefundedOrNot(v)
    BY <1>2 DEF Inv
  <2>2. CASE UNCHANGED vars
    BY <2>1, <2>2 DEF vars, RefundedOrNot
  <2> QED
    BY <2>1, <2>2, SubmitKeeps, FetchKeeps, PollAnswerKeeps, PollRestKeeps, PollStepKeeps,
       CrashKeeps DEF Next
<1>3. Videos' = Videos
  BY DEF Videos
<1> QED
  BY <1>1, <1>2, <1>3 DEF Inv

LEMMA Invariance == Spec => []Inv
<1>1. Init => Inv
  BY InitInv
<1>2. Inv /\ [Next]_vars => Inv'
  BY InvStep
<1> QED
  BY <1>1, <1>2, PTL DEF Spec

(* Type correctness: a refund, a surcharge or a save never reads a field of *)
(* a task the poller does not hold.                                         *)
THEOREM TypeCorrect == Spec => []TypeOK
<1>1. Inv => TypeOK
  BY DEF Inv
<1> QED
  BY <1>1, Invariance, PTL

(* A video whose row only the poller writes is refunded at most once, and   *)
(* only when its row says FAILURE, for any number of tasks, crashes and     *)
(* database errors: updateVideoSingleTask refunds only after an Update that *)
(* succeeded, and GetAllUnFinishSyncTasks does not list a failed row.       *)
THEOREM RefundsOnce == Spec => []VideoRefundedOnce
<1>1. Inv => VideoRefundedOnce
  BY DEF Inv, Videos, RefundedOrNot, VideoRefundedOnce
<1> QED
  BY <1>1, Invariance, PTL

-----------------------------------------------------------------------------
(* The other properties speak of one task at a time.  Where a task is, as   *)
(* seen from the database and from the poller: *)
Open(r) == r.status \in {"none", "pending"}
Early(v) == submit[v] \in {"new", "request"}
Listed(v) == v \in poll.todo
Held(v) == poll.task = v
HeldAt(v, pc) == Held(v) /\ poll.pc = pc
One(b) == IF b THEN 1 ELSE 0

(* Before its row is inserted nobody else knows a task. *)
Unknown(v) == Early(v) => row[v] = NoRow /\ fetch[v] = NoFetch /\ ~Listed(v) /\ ~Held(v)

(* The refunds of a Gemini task that may still come without a further       *)
(* query: one of the poller, and one for each save that reopens the row.    *)
Comes(v) == IF HeldAt(v, "refund") THEN 1 + One(Open(row[v]))
            ELSE One(Listed(v) \/ Held(v) \/ Open(row[v]))
QueriesPay(v) == refunds[v] + One(fetch[v] # NoFetch) + Comes(v) <= 1 + fetches

(* The poller may bill a task (again) that is open, or that it has in hand  *)
(* before the bill.                                                         *)
Billable(v) ==
    IF Held(v) THEN poll.pc \in {"sunoRefund", "bill"} \/ Open(snap[v])
               ELSE Listed(v) \/ Open(row[v])
Errors == failures + crashes
Surcharges == {a - Price : a \in ActualQuotas} \cup {0}
Unpaid(v) == IF submit[v] \in {"new", "request", "chargeUser"} THEN Price ELSE 0

OnlyPolled(v) ==
    /\ fetch[v] = NoFetch
    /\ Open(row[v]) => row[v].status = "none" \/ row[v].quota = Price
    /\ Listed(v) => snap[v].quota = Price /\ snap[v].status = "pending"
    /\ Held(v) => /\ snap[v].status # "none"
                  /\ Open(snap[v]) \/ poll.pc = "bill" => snap[v].quota = Price
                  /\ poll.pc \in {"sunoRefund", "bill"} => ~Open(snap[v])
                  /\ poll.pc \in {"bill", "refund"} => Platform[v] # "suno"
                  /\ poll.pc = "refund" => ~Open(row[v])
                  /\ poll.pc = "bill" => poll.actual \in ActualQuotas /\ snap[v].status = "SUCCESS"

ErrorsPay(v) ==
    /\ Platform[v] = "suno" => refunds[v] + One(Billable(v)) <= 1 + Errors
    /\ Platform[v] = "doubao" =>
          \E s \in Surcharges, n \in Nat :
              /\ s >= 0 /\ n + One(Billable(v)) <= 1 + Errors
              /\ paid[v] + Unpaid(v) <= Price + n * s

(* With neither errors nor crashes: what the user has paid, or will when    *)
(* the submission goes on, is the quota of the row, or of the copy of the   *)
(* poller that has the task in hand.                                        *)
Quota(v) == IF Held(v) THEN snap[v].quota ELSE row[v].quota
OwedUser(v) == IF submit[v] = "chargeUser" THEN Price ELSE 0
OwedUsed(v) == IF submit[v] \in {"chargeUser", "chargeToken", "record"} THEN Price ELSE 0

Ledger(v) ==
    Errors = 0 =>
        /\ ~poll.err
        /\ refunds[v] \in {0, 1}
        /\ paid[v] + OwedUser(v) = IF refunds[v] > 0 THEN 0 ELSE Quota(v)
        /\ used[v] + OwedUsed(v) >= paid[v] + OwedUser(v)
        /\ tokenPaid[v] = IF Early(v) \/ submit[v] \in {"chargeUser", "chargeToken"}
                             \/ row[v].status = "none" THEN 0 ELSE Price
        /\ submit[v] \in {"chargeUser", "chargeToken", "record"} => row[v].status # "none"
        /\ Listed(v) => row[v] = snap[v]
        /\ ~Held(v) /\ (Listed(v) \/ Open(row[v])) => refunds[v] = 0
        /\ Held(v) => /\ row[v].status # "none"
                      /\ refunds[v] = 1 =>
                            Platform[v] = "suno" /\ poll.pc = "update" /\ ~Open(snap[v])
                      /\ poll.pc = "refund" => row[v] = snap[v]
                      /\ snap[v].status = "FAILURE" /\ poll.pc = "update" /\ Price # 0 =>
                            IF Platform[v] = "suno" THEN refunds[v] = 1 ELSE poll.refund
        /\ ~Held(v) /\ row[v].status = "FAILURE" /\ v \notin bulkFailed /\ Price # 0 => refunds[v] = 1

Accounts ==
    /\ \A v \in Tasks : Unknown(v)
    /\ \A v \in Tasks : Platform[v] = "gemini" => QueriesPay(v)
    /\ \A v \in Tasks : Platform[v] # "gemini" => OnlyPolled(v) /\ ErrorsPay(v) /\ Ledger(v)

-----------------------------------------------------------------------------
(* What one step of the system can do to one task v. *)
SameMoney(v) ==
    /\ paid'[v] = paid[v] /\ tokenPaid'[v] = tokenPaid[v]
    /\ used'[v] = used[v] /\ refunds'[v] = refunds[v]
SameRow(v) == row'[v] = row[v] /\ (v \in bulkFailed' <=> v \in bulkFailed)
SameSubmit(v) == submit'[v] = submit[v] /\ fetch'[v] = fetch[v]
SamePlace(v) ==
    /\ poll'.task = v <=> poll.task = v
    /\ poll.task = v => poll' = poll /\ snap'[v] = snap[v]
    /\ v \in poll'.todo => v \in poll.todo /\ snap'[v] = snap[v]
Released(v) == poll'.task # v /\ v \notin poll'.todo
Counts ==
    /\ failures' \in Nat /\ crashes' \in Nat /\ fetches' \in Nat
    /\ failures' >= failures /\ crashes' >= crashes /\ fetches' >= fetches
    /\ poll'.err => poll.err \/ failures' > failures

Aside(v) == SameMoney(v) /\ SameRow(v) /\ SameSubmit(v) /\ SamePlace(v)

Resubmits(v) ==
    /\ Early(v) /\ submit'[v] \in {"new", "request", "closed"} /\ fetch'[v] = fetch[v]
    /\ SameMoney(v) /\ SameRow(v) /\ SamePlace(v)

Inserts(v) ==
    /\ submit[v] = "request" /\ submit'[v] = "chargeUser" /\ fetch'[v] = fetch[v]
    /\ row'[v].status = "pending" /\ row'[v].quota = Price
    /\ SameMoney(v) /\ SamePlace(v) /\ (v \in bulkFailed' <=> v \in bulkFailed)

Charges(v) ==
    /\ refunds'[v] = refunds[v] /\ fetch'[v] = fetch[v] /\ SameRow(v) /\ SamePlace(v)
    /\ \/ /\ submit[v] = "chargeUser" /\ submit'[v] = "chargeToken"
          /\ paid'[v] = paid[v] + Price /\ tokenPaid'[v] = tokenPaid[v] /\ used'[v] = used[v]
       \/ /\ submit[v] = "chargeUser" /\ submit'[v] = "record"
          /\ SameMoney(v) /\ failures' > failures
       \/ /\ submit[v] = "chargeToken" /\ submit'[v] = "record"
          /\ paid'[v] = paid[v] /\ used'[v] = used[v]
          /\ tokenPaid'[v] = tokenPaid[v] + Price \/ failures' > failures
       \/ /\ submit[v] = "record" /\ submit'[v] = "closed"
          /\ paid'[v] = paid[v] /\ tokenPaid'[v] = tokenPaid[v]
          /\ used'[v] = used[v] + Price \/ failures' > failures

Queries(v) ==
    /\ Platform[v] = "gemini" /\ row[v].status # "none"
    /\ fetch[v] = NoFetch /\ fetches' = fetches + 1 /\ submit'[v] = submit[v]
    /\ SameMoney(v) /\ SameRow(v) /\ SamePlace(v)

Saves(v) ==
    /\ fetch[v] # NoFetch /\ fetch'[v] = NoFetch /\ submit'[v] = submit[v]
    /\ SameMoney(v) /\ SamePlace(v)

Lists(v) ==
    /\ row[v].status = "pending" /\ poll.task # v /\ poll'.task # v
    /\ snap'[v] = row[v]
    /\ SameMoney(v) /\ SameRow(v) /\ SameSubmit(v)

BulkFails(v) ==
    /\ v \in poll.todo /\ poll.task # v /\ Released(v)
    /\ row'[v] = [row[v] EXCEPT !.status = "FAILURE"] /\ v \in bulkFailed'
    /\ SameMoney(v) /\ SameSubmit(v)

Answers(v) ==
    /\ v \in poll.todo /\ v \notin poll'.todo /\ poll'.task = v
    /\ snap'[v].quota = snap[v].quota /\ snap'[v].status # "none"
    /\ SameMoney(v) /\ SameRow(v) /\ SameSubmit(v)
    /\ \/ /\ Platform[v] = "suno" /\ poll'.pc = "sunoRefund"
          /\ snap'[v].status \in {"stopped"} \cup Ended
       \/ /\ Platform[v] = "suno" /\ poll'.pc = "update"
          /\ snap'[v].status = "FAILURE" => poll.err \/ snap[v].quota = 0
       \/ /\ Platform[v] # "suno" /\ poll'.pc = "update"
          /\ snap'[v].status = "FAILURE" =>
                poll'.refund \/ snap[v].quota = 0 \/ snap[v].status = "FAILURE"
       \/ /\ Platform[v] = "doubao" /\ poll'.pc = "bill"
          /\ poll'.actual \in ActualQuotas /\ snap'[v].status = "SUCCESS"

Refunded(v) ==
    /\ poll.task = v /\ v \notin poll'.todo
    /\ \/ poll.pc = "sunoRefund" /\ poll'.pc = "update" /\ poll'.task = v
       \/ poll.pc = "refund" /\ poll'.task # v
    /\ \/ /\ paid'[v] = paid[v] - snap[v].quota /\ refunds'[v] = refunds[v] + 1
          /\ tokenPaid'[v] = tokenPaid[v] /\ used'[v] = used[v]
       \/ SameMoney(v) /\ failures' > failures
    /\ snap'[v] = snap[v] /\ SameRow(v) /\ SameSubmit(v)

Billed(v) ==
    /\ poll.task = v /\ poll.pc = "bill"
    /\ poll'.task = v /\ poll'.pc = "update" /\ v \notin poll'.todo
    /\ snap'[v].status = snap[v].status
    /\ tokenPaid'[v] = tokenPaid[v] /\ refunds'[v] = refunds[v]
    /\ \/ /\ paid'[v] = paid[v] + (poll.actual - snap[v].quota)
          /\ snap'[v].quota = poll.actual
          /\ \/ used'[v] >= used[v] /\ used'[v] >= used[v] + (poll.actual - snap[v].quota)
             \/ failures' > failures
       \/ paid'[v] = paid[v] /\ failures' > failures
    /\ SameRow(v) /\ SameSubmit(v)

Updated(v) ==
    /\ poll.task = v /\ poll.pc = "update" /\ v \notin poll'.todo
    /\ \/ /\ row'[v] = snap[v]
          /\ \/ poll'.task # v /\ (Platform[v] = "suno" \/ ~poll.refund)
             \/ /\ poll'.task = v /\ poll'.pc = "refund" /\ snap'[v] = snap[v]
                /\ Platform[v] # "suno" /\ snap[v].status = "FAILURE"
       \/ row'[v] = row[v] /\ poll'.task # v /\ failures' > failures
    /\ v \in bulkFailed' <=> v \in bulkFailed
    /\ SameMoney(v) /\ SameSubmit(v)

Crashed(v) ==
    /\ crashes' > crashes /\ Released(v) /\ fetch'[v] = NoFetch
    /\ submit'[v] = IF submit[v] = "new" THEN "new" ELSE "closed"
    /\ SameMoney(v) /\ SameRow(v)

Effect(v) ==
    /\ Counts
    /\ \/ Aside(v) \/ Resubmits(v) \/ Inserts(v) \/ Charges(v) \/ Queries(v) \/ Saves(v)
       \/ Lists(v) \/ BulkFails(v) \/ Answers(v) \/ Refunded(v) \/ Billed(v) \/ Updated(v)
       \/ Crashed(v)

LEMMA CountsGrow ==
    ASSUME TypeOK, InHand, [Next]_vars
    PROVE  Counts
<1>1. failures \in Nat /\ crashes \in Nat /\ fetches \in Nat /\ poll \in Polls
  BY TaskAssumption DEF TypeOK
<1>2. ASSUME NEW t \in Tasks, Submit(t) \/ UpstreamEnds(t) \/ ClientFetch(t) \/ ClientSave(t)
      PROVE  Counts
  BY <1>1, <1>2 DEF Counts, Submit, SubmitCheck, SubmitFails, SubmitInsert, SubmitChargeUser,
                    SubmitChargeToken, SubmitRecord, UpstreamEnds, ClientFetch, ClientSave
<1>3. ASSUME NEW t \in Tasks, PollAnswer(t) PROVE Counts
  <2>1. UNCHANGED <<failures, crashes, fetches>>
    BY <1>3 DEF PollAnswer, SunoItem, VideoAnswer, VideoAnswerTokens
  <2>2. poll'.err = poll.err
    BY <1>1, <1>3 DEF PollAnswer, SunoItem, VideoAnswer, VideoAnswerTokens, Polls
  <2> QED
    BY <1>1, <2>1, <2>2 DEF Counts
<1>4. CASE PollRest
  <2>1. ASSUME NEW S, BulkFail(S) PROVE Counts
    BY <1>1, <2>1 DEF Counts, BulkFail, Polls
  <2>2. CASE SunoFetch
    BY <1>1, <2>2 DEF Counts, SunoFetch, Polls
  <2>3. CASE SunoDone
    BY <1>1, <2>3 DEF Counts, SunoDone, Polls
  <2>4. ASSUME NEW t \in Tasks, VideoFails(t) PROVE Counts
    BY <1>1, <2>4 DEF Counts, VideoFails, Polls
  <2> QED
    BY <1>4, <2>1, <2>2, <2>3, <2>4 DEF PollRest, PollWithoutId, PollNoChannel
<1>5. CASE PollStep
  <2>1. CASE PollList
    BY <1>1, <2>1 DEF Counts, PollList, Polls
  <2>2. CASE SunoRefund
    BY <1>1, <2>2 DEF Counts, SunoRefund, Polls
  <2>3. CASE VideoBill
    BY <1>1, <2>3 DEF Counts, VideoBill, Polls
  <2>4. CASE VideoRefund
    BY <1>1, <2>4 DEF Counts, VideoRefund, Polls
  <2>5. CASE PollUpdate
    <3>1. UNCHANGED <<crashes, fetches>>
      BY <2>5 DEF PollUpdate
    <3>2. failures' \in Nat /\ failures' >= failures
      BY <1>1, <2>5 DEF PollUpdate
    <3>3. poll'.err => poll.err \/ failures' > failures
      <4>1. CASE Platform[poll.task] # "suno"
        BY <1>1, <2>5, <4>1, AfterUpdate DEF Polls
      <4>2. CASE Platform[poll.task] = "suno"
        <5>1. failures' > failures \/ poll' = [poll EXCEPT !.pc = "items", !.task = "none", !.err = FALSE]
          BY <1>1, <2>5, <4>2 DEF PollUpdate
        <5>2. [poll EXCEPT !.pc = "items", !.task = "none", !.err = FALSE].err = FALSE
          BY <1>1 DEF Polls
        <5> QED
          BY <5>1, <5>2
      <4> QED
        BY <4>1, <4>2
    <3> QED
      BY <1>1, <3>1, <3>2, <3>3 DEF Counts
  <2> QED
    BY <1>5, <2>1, <2>2, <2>3, <2>4, <2>5 DEF PollStep
<1>6. CASE Crash
  BY <1>1, <1>6 DEF Crash, Counts, Idle
<1>7. CASE UNCHANGED vars
  BY <1>1, <1>7 DEF vars, Counts
<1> QED
  BY <1>2, <1>3, <1>4, <1>5, <1>6, <1>7 DEF Next

LEMMA SubmitEffect ==
    ASSUME TypeOK, NEW v \in Tasks, NEW t \in Tasks, Submit(t)
    PROVE  Aside(v) \/ Resubmits(v) \/ Inserts(v) \/ Charges(v)
<1> USE DEF SameMoney, SameRow, SameSubmit, SamePlace
<1>1. UNCHANGED <<poll, snap, fetch, refunds, bulkFailed>>
  BY DEF Submit, SubmitCheck, SubmitFails, SubmitInsert, SubmitChargeUser,
         SubmitChargeToken, SubmitRecord
<1>2. CASE v # t
  <2>1. /\ row'[v] = row[v] /\ submit'[v] = submit[v]
        /\ paid'[v] = paid[v] /\ tokenPaid'[v] = tokenPaid[v] /\ used'[v] = used[v]
    BY <1>2 DEF TypeOK, Submit, SubmitCheck, SubmitFails, SubmitInsert, SubmitChargeUser,
                SubmitChargeToken, SubmitRecord
  <2> QED
    BY <1>1, <2>1 DEF Aside
<1>3. CASE v = t
  <2>1. CASE SubmitCheck(v) \/ SubmitFails(v)
    <3>1. UNCHANGED <<row, paid, tokenPaid, used>>
      BY <2>1 DEF SubmitCheck, SubmitFails
    <3>2. Early(v) /\ submit'[v] \in {"new", "request", "closed"}
      BY <2>1 DEF SubmitCheck, SubmitFails, Early, TypeOK
    <3> QED
      BY <1>1, <3>1, <3>2 DEF Resubmits
  <2>2. ASSUME NEW id \in BOOLEAN, SubmitInsert(v, id) PROVE Resubmits(v) \/ Inserts(v)
    <3>1. UNCHANGED <<paid, tokenPaid, used>>
      BY <2>2 DEF SubmitInsert
    <3>2. \/ /\ Early(v) /\ submit'[v] \in {"new", "request", "closed"} /\ UNCHANGED row
          \/ /\ submit[v] = "request" /\ submit'[v] = "chargeUser"
             /\ row'[v] = [status |-> "pending", quota |-> Price, hasId |-> id]
      BY <2>2 DEF SubmitInsert, Early, TypeOK
    <3> QED
      BY <1>1, <3>1, <3>2 DEF Resubmits, Inserts
  <2>3. CASE SubmitChargeUser(v)
    BY <1>1, <2>3, TaskAssumption DEF SubmitChargeUser, Charges, TypeOK
  <2>4. CASE SubmitChargeToken(v)
    BY <1>1, <2>4, TaskAssumption DEF SubmitChargeToken, Charges, TypeOK
  <2>5. CASE SubmitRecord(v)
    BY <1>1, <2>5, TaskAssumption DEF SubmitRecord, Charges, TypeOK
  <2> QED
    BY <1>3, <2>1, <2>2, <2>3, <2>4, <2>5 DEF Submit
<1> QED
  BY <1>2, <1>3

LEMMA FetchEffect ==
    ASSUME TypeOK, NEW v \in Tasks, NEW t \in Tasks,
           UpstreamEnds(t) \/ ClientFetch(t) \/ ClientSave(t)
    PROVE  Aside(v) \/ Queries(v) \/ Saves(v)
<1> USE DEF SameMoney, SameRow, SameSubmit, SamePlace
<1>1. UNCHANGED <<submit, poll, snap, paid, tokenPaid, used, refunds, bulkFailed>>
  BY DEF UpstreamEnds, ClientFetch, ClientSave
<1>2. CASE v # t
  <2>1. row'[v] = row[v] /\ fetch'[v] = fetch[v]
    BY <1>2 DEF TypeOK, UpstreamEnds, ClientFetch, ClientSave
  <2> QED
    BY <1>1, <2>1 DEF Aside
<1>3. CASE UpstreamEnds(v)
  BY <1>1, <1>3 DEF UpstreamEnds, Aside
<1>4. CASE ClientFetch(v)
  BY <1>1, <1>4 DEF ClientFetch, Queries
<1>5. CASE ClientSave(v)
  BY <1>1, <1>5 DEF ClientSave, Saves, TypeOK
<1> QED
  BY <1>2, <1>3, <1>4, <1>5

LEMMA PollRestEffect ==
    ASSUME TypeOK, InHand, NEW v \in Tasks, PollRest
    PROVE  Aside(v) \/ BulkFails(v)
<1> USE DEF SameMoney, SameRow, SameSubmit, SamePlace
<1>1. poll \in Polls /\ v # "none"
  BY TaskAssumption DEF TypeOK
<1>2. UNCHANGED <<submit, fetch, snap, paid, tokenPaid, used, refunds>>
  BY DEF PollRest, SunoFetch, SunoDone, PollWithoutId, PollNoChannel, BulkFail, VideoFails
<1>3. poll.task # v
  BY <1>1 DEF InHand, PollRest, SunoFetch, SunoDone, PollWithoutId, PollNoChannel, VideoFails, VideoTurn
<1>4. ASSUME NEW S, BulkFail(S), S \subseteq poll.todo PROVE Aside(v) \/ BulkFails(v)
  <2>1. poll'.task = poll.task /\ poll'.todo = poll.todo \ S
    BY <1>1, <1>4 DEF BulkFail, Polls
  <2>2. CASE UNCHANGED <<row, bulkFailed>>
    BY <1>2, <1>3, <2>1, <2>2 DEF Aside
  <2>3. CASE /\ row' = [t \in Tasks |-> IF t \in S THEN [row[t] EXCEPT !.status = "FAILURE"] ELSE row[t]]
             /\ bulkFailed' = bulkFailed \cup S
    <3>1. CASE v \in S
      <4>1. row'[v] = [row[v] EXCEPT !.status = "FAILURE"]
        BY <2>3, <3>1
      <4> QED
        BY <1>2, <1>3, <1>4, <2>1, <2>3, <3>1, <4>1 DEF BulkFails, Released
    <3>2. CASE v \notin S
      <4>1. row'[v] = row[v]
        BY <2>3, <3>2
      <4> QED
        BY <1>2, <1>3, <2>1, <2>3, <4>1, <3>2 DEF Aside
    <3> QED
      BY <3>1, <3>2
  <2> QED
    BY <1>4, <2>2, <2>3 DEF BulkFail
<1>5. CASE SunoFetch
  <2>1. poll'.task = poll.task /\ poll'.todo = poll.todo /\ UNCHANGED <<row, bulkFailed>>
    BY <1>1, <1>5 DEF SunoFetch, Polls
  <2> QED
    BY <1>2, <1>3, <2>1 DEF Aside
<1>6. CASE SunoDone
  <2>1. poll'.task = poll.task /\ poll'.todo \subseteq poll.todo /\ UNCHANGED <<row, bulkFailed>>
    BY <1>1, <1>6 DEF SunoDone, Polls
  <2> QED
    BY <1>2, <1>3, <2>1 DEF Aside
<1>7. ASSUME NEW t \in Tasks, VideoFails(t) PROVE Aside(v)
  <2>1. poll'.task = poll.task /\ poll'.todo \subseteq poll.todo /\ UNCHANGED <<row, bulkFailed>>
    BY <1>1, <1>7 DEF VideoFails, Polls
  <2> QED
    BY <1>2, <1>3, <2>1 DEF Aside
<1>8. ASSUME NEW p \in Platforms, PollWithoutId(p) \/ PollNoChannel(p) PROVE Aside(v) \/ BulkFails(v)
  <2>1. OfPlatform(p) \subseteq poll.todo /\ WithoutId(p) \subseteq poll.todo
    BY DEF OfPlatform, WithoutId
  <2> QED
    BY <1>4, <1>8, <2>1 DEF PollWithoutId, PollNoChannel
<1> QED
  BY <1>5, <1>6, <1>7, <1>8 DEF PollRest

LEMMA PollAnswerEffect ==
    ASSUME TypeOK, InHand, NEW v \in Tasks, NEW t \in Tasks, PollAnswer(t)
    PROVE  Aside(v) \/ Answers(v)
<1> USE DEF SameMoney, SameRow, SameSubmit, SamePlace
<1>1. poll \in Polls /\ v # "none" /\ snap \in [Tasks -> Rows] /\ snap[t] \in Rows
  BY TaskAssumption DEF TypeOK
<1>2. UNCHANGED <<row, submit, fetch, paid, tokenPaid, used, refunds, bulkFailed>>
  BY DEF PollAnswer, SunoItem, VideoAnswer, VideoAnswerTokens
<1> DEFINE Taken == /\ t \in poll.todo /\ poll.task = "none"
                    /\ poll'.task = t /\ poll'.todo = poll.todo \ {t}
           Copied(s) == snap' = [snap EXCEPT ![t].status = s]
<1>3. ASSUME Taken, NEW s, Copied(s), v # t PROVE Aside(v)
  <2>1. snap'[v] = snap[v]
    BY <1>1, <1>3
  <2> QED
    BY <1>1, <1>2, <1>3, <2>1 DEF Aside
<1>4. ASSUME NEW s, Copied(s) PROVE snap'[t].status = s /\ snap'[t].quota = snap[t].quota
  BY <1>1, <1>4 DEF Rows
<1> DEFINE Answered == \/ Platform[t] = "suno" /\ poll'.pc = "sunoRefund"
                          /\ snap'[t].status \in {"stopped"} \cup Ended
                       \/ /\ Platform[t] = "suno" /\ poll'.pc = "update"
                          /\ snap'[t].status = "FAILURE" => poll.err \/ snap[t].quota = 0
                       \/ /\ Platform[t] # "suno" /\ poll'.pc = "update"
                          /\ snap'[t].status = "FAILURE" =>
                                poll'.refund \/ snap[t].quota = 0 \/ snap[t].status = "FAILURE"
                       \/ /\ Platform[t] = "doubao" /\ poll'.pc = "bill"
                          /\ poll'.actual \in ActualQuotas /\ snap'[t].status = "SUCCESS"
<1>5. ASSUME NEW reason \in BOOLEAN, SunoItem(t, reason)
      PROVE  Taken /\ (\E s \in {"pending", "stopped"} \cup Ended : Copied(s)) /\ Answered
  <2> DEFINE fails == reason \/ upstream[t] = "FAILURE"
             status == IF upstream[t] \in Ended THEN upstream[t]
                       ELSE IF reason THEN "stopped" ELSE "pending"
             refund == fails /\ ~poll.err /\ snap[t].quota # 0
  <2>1. Taken /\ Platform[t] = "suno"
    BY <1>1, <1>5 DEF SunoItem, OfPlatform, Polls, InHand
  <2>2. Copied(status) /\ status \in {"pending", "stopped"} \cup Ended
    BY <1>5 DEF SunoItem
  <2>3. snap'[t].status = status
    BY <1>4, <2>2
  <2>4. poll'.pc = IF refund THEN "sunoRefund" ELSE "update"
    BY <1>1, <1>5 DEF SunoItem, Polls
  <2>5. CASE refund
    BY <2>1, <2>2, <2>3, <2>4, <2>5 DEF Ended
  <2>6. CASE ~refund
    BY <2>1, <2>2, <2>3, <2>4, <2>6 DEF Ended
  <2> QED
    BY <2>5, <2>6
<1>6. ASSUME NEW status \in {"pending"} \cup Ended, VideoAnswer(t, status)
      PROVE  Taken /\ (\E s \in {"pending", "stopped"} \cup Ended : Copied(s)) /\ Answered
  <2>1. Taken /\ Platform[t] # "suno" /\ poll'.pc = "update"
    BY <1>1, <1>6 DEF VideoAnswer, VideoTurn, OfPlatform, Polls, InHand
  <2>2. Copied(status)
    BY <1>6 DEF VideoAnswer
  <2>3. snap'[t].status = status
    BY <1>4, <2>2
  <2>4. status = "FAILURE" => poll'.refund \/ snap[t].quota = 0 \/ snap[t].status = "FAILURE"
    BY <1>1, <1>6 DEF VideoAnswer, Polls
  <2> QED
    BY <2>1, <2>2, <2>3, <2>4
<1>7. ASSUME NEW actual \in ActualQuotas, VideoAnswerTokens(t, actual)
      PROVE  Taken /\ (\E s \in {"pending", "stopped"} \cup Ended : Copied(s)) /\ Answered
  <2>1. Taken /\ Platform[t] = "doubao" /\ poll'.pc = "bill" /\ poll'.actual \in ActualQuotas
    BY <1>1, <1>7 DEF VideoAnswerTokens, VideoTurn, Polls, InHand
  <2>2. Copied("SUCCESS")
    BY <1>7 DEF VideoAnswerTokens
  <2>3. snap'[t].status = "SUCCESS"
    BY <1>4, <2>2
  <2> QED
    BY <2>1, <2>2, <2>3 DEF Ended
<1>8. Taken /\ (\E s \in {"pending", "stopped"} \cup Ended : Copied(s)) /\ Answered
  BY <1>5, <1>6, <1>7 DEF PollAnswer
<1>9. CASE v # t
  BY <1>3, <1>8, <1>9
<1>10. CASE v = t
  <2>1. snap'[t].status # "none" /\ snap'[t].quota = snap[t].quota
    BY <1>4, <1>8 DEF Ended
  <2> QED
    BY <1>2, <1>8, <1>10, <2>1 DEF Answers
<1> QED
  BY <1>9, <1>10

LEMMA PollStepEffect ==
    ASSUME TypeOK, InHand, NEW v \in Tasks, PollStep
    PROVE  \/ Aside(v) \/ Lists(v) \/ Refunded(v) \/ Billed(v) \/ Updated(v)
<1> USE DEF SameMoney, SameRow, SameSubmit, SamePlace
<1>1. /\ poll \in Polls /\ v # "none" /\ snap \in [Tasks -> Rows] /\ snap[v] \in Rows
      /\ poll.task \in Tasks \cup {"none"}
      /\ paid \in [Tasks -> Int] /\ refunds \in [Tasks -> Nat] /\ used \in [Tasks -> Nat]
      /\ failures \in Nat
  BY TaskAssumption DEF TypeOK, Polls
<1>2. CASE PollList
  <2>1. /\ poll.task = "none" /\ poll'.task = "none" /\ poll'.todo = Unfinished
        /\ snap'[v] = IF v \in Unfinished THEN row[v] ELSE NoRow
        /\ UNCHANGED <<row, submit, fetch, paid, tokenPaid, used, refunds, bulkFailed>>
    BY <1>1, <1>2 DEF PollList, InHand, Polls
  <2> QED
    BY <1>1, <2>1 DEF Lists, Aside, Unfinished
<1>3. CASE SunoRefund \/ VideoRefund
  <2>1. /\ UNCHANGED <<row, submit, fetch, snap, tokenPaid, used, bulkFailed>>
        /\ \/ /\ paid' = [paid EXCEPT ![poll.task] = @ + (-snap[poll.task].quota)]
              /\ refunds' = [refunds EXCEPT ![poll.task] = @ + 1]
           \/ UNCHANGED <<paid, refunds>> /\ failures' > failures
    BY <1>1, <1>3 DEF SunoRefund, VideoRefund
  <2>2. /\ poll'.todo = poll.todo /\ poll.task \notin poll.todo
        /\ \/ poll.pc = "sunoRefund" /\ poll'.pc = "update" /\ poll'.task = poll.task
           \/ poll.pc = "refund" /\ poll'.task = "none"
    <3>1. CASE SunoRefund
      BY <1>1, <3>1 DEF SunoRefund, InHand, Polls
    <3>2. CASE VideoRefund
      BY <1>1, <3>2 DEF VideoRefund, InHand, Polls
    <3> QED
      BY <1>3, <3>1, <3>2
  <2>3. CASE poll.task = v
    <3>1. snap[v].quota \in Nat
      BY <1>1 DEF Rows
    <3>2. \/ paid'[v] = paid[v] - snap[v].quota /\ refunds'[v] = refunds[v] + 1
          \/ paid'[v] = paid[v] /\ refunds'[v] = refunds[v] /\ failures' > failures
      BY <1>1, <2>1, <2>3, <3>1
    <3> QED
      BY <1>1, <2>1, <2>2, <2>3, <3>2 DEF Refunded
  <2>4. CASE poll.task # v
    <3>1. paid'[v] = paid[v] /\ refunds'[v] = refunds[v]
      BY <1>1, <2>1, <2>4
    <3> QED
      BY <1>1, <2>1, <2>2, <2>4, <3>1 DEF Aside
  <2> QED
    BY <2>3, <2>4
<1>4. CASE VideoBill
  <2>1. /\ UNCHANGED <<row, submit, fetch, tokenPaid, refunds, bulkFailed>> /\ poll.pc = "bill"
        /\ poll'.todo = poll.todo /\ poll'.task = poll.task /\ poll'.pc = "update"
        /\ poll.task \notin poll.todo /\ poll.actual \in Nat
    BY <1>1, <1>4 DEF VideoBill, InHand, Polls
  <2>2. CASE poll.task # v
    <3>1. paid'[v] = paid[v] /\ used'[v] = used[v] /\ snap'[v] = snap[v]
      BY <1>1, <1>4, <2>2 DEF VideoBill
    <3> QED
      BY <2>1, <2>2, <3>1 DEF Aside
  <2>3. CASE poll.task = v
    <3> DEFINE delta == poll.actual - snap[v].quota
    <3>1. delta \in Int
      BY <1>1, <2>1 DEF Rows
    <3>2. \/ /\ paid' = [paid EXCEPT ![v] = @ + delta]
             /\ snap' = [snap EXCEPT ![v].quota = poll.actual]
             /\ \/ used' = [used EXCEPT ![v] = @ + IF delta > 0 THEN delta ELSE 0]
                \/ failures' > failures
          \/ UNCHANGED <<paid, snap>> /\ failures' > failures
      BY <1>1, <1>4, <2>3 DEF VideoBill
    <3> HIDE DEF delta
    <3>3. CASE UNCHANGED <<paid, snap>> /\ failures' > failures
      BY <2>1, <2>3, <3>3 DEF Billed
    <3>4. CASE /\ paid' = [paid EXCEPT ![v] = @ + delta]
               /\ snap' = [snap EXCEPT ![v].quota = poll.actual]
               /\ \/ used' = [used EXCEPT ![v] = @ + IF delta > 0 THEN delta ELSE 0]
                  \/ failures' > failures
      <4>1. paid'[v] = paid[v] + delta
        BY <1>1, <3>4
      <4>2. snap'[v].quota = poll.actual /\ snap'[v].status = snap[v].status
        BY <1>1, <3>4 DEF Rows
      <4>3. (used'[v] >= used[v] /\ used'[v] >= used[v] + delta) \/ failures' > failures
        <5>1. CASE used' = [used EXCEPT ![v] = @ + IF delta > 0 THEN delta ELSE 0]
          <6>1. used'[v] = used[v] + IF delta > 0 THEN delta ELSE 0
            BY <1>1, <5>1
          <6>2. used[v] \in Nat
            BY <1>1
          <6> QED
            BY <3>1, <6>1, <6>2
        <5> QED
          BY <3>4, <5>1
      <4> QED
        BY <2>1, <2>3, <4>1, <4>2, <4>3 DEF Billed, delta
    <3> QED
      BY <3>2, <3>3, <3>4
  <2> QED
    BY <2>2, <2>3
<1>5. CASE PollUpdate
  <2>1. UNCHANGED <<submit, fetch, snap, paid, tokenPaid, used, refunds, bulkFailed>> /\ poll.pc = "update"
    BY <1>5 DEF PollUpdate
  <2>2. poll.task \in Tasks /\ poll.task \notin poll.todo
    BY <1>1, <2>1 DEF InHand
  <2>3. poll'.todo = poll.todo /\ poll'.task \in {poll.task, "none"}
    BY <1>1, <1>5, AfterUpdate DEF Polls
  <2>4. CASE poll.task # v
    <3>1. row'[v] = row[v]
      BY <1>5, <2>2, <2>4 DEF PollUpdate, TypeOK
    <3> QED
      BY <1>1, <2>1, <2>3, <2>4, <3>1 DEF Aside
  <2>5. CASE poll.task = v
    <3>1. \/ row'[v] = snap[v]
          \/ row'[v] = row[v] /\ failures' > failures
      BY <1>1, <1>5, <2>5 DEF PollUpdate, TypeOK
    <3>2. CASE Platform[v] = "suno"
      <4>1. poll'.task = "none"
        BY <1>1, <1>5, <2>5, <3>2, AfterUpdate DEF Polls
      <4> QED
        BY <1>1, <2>1, <2>2, <2>3, <2>5, <3>1, <3>2, <4>1 DEF Updated
    <3>3. CASE Platform[v] # "suno"
      <4>1. \/ /\ row'[v] = snap[v]
               /\ poll' = IF poll.refund THEN [poll EXCEPT !.pc = "refund"]
                          ELSE [poll EXCEPT !.pc = "list", !.task = "none", !.refund = FALSE]
            \/ /\ row'[v] = row[v] /\ failures' > failures
               /\ poll' = [poll EXCEPT !.pc = "list", !.task = "none", !.refund = FALSE]
        <5>1. poll.refund \in BOOLEAN
          BY <1>1 DEF Polls
        <5>2. CASE poll.refund
          BY <1>1, <1>5, <2>5, <3>3, <5>2 DEF PollUpdate, TypeOK
        <5>3. CASE ~poll.refund
          BY <1>1, <1>5, <2>5, <3>3, <5>3 DEF PollUpdate, TypeOK
        <5> QED
          BY <5>1, <5>2, <5>3
      <4>2. \/ row'[v] = snap[v] /\ poll'.task = "none" /\ ~poll.refund
            \/ /\ row'[v] = snap[v] /\ poll'.task = v /\ poll'.pc = "refund"
               /\ snap[v].status = "FAILURE"
            \/ row'[v] = row[v] /\ failures' > failures /\ poll'.task = "none"
        BY <1>1, <2>5, <4>1 DEF Polls, InHand
      <4> QED
        BY <1>1, <2>1, <2>2, <2>3, <2>5, <3>3, <4>2 DEF Updated
    <3> QED
      BY <3>2, <3>3
  <2> QED
    BY <2>4, <2>5
<1> QED
  BY <1>2, <1>3, <1>4, <1>5 DEF PollStep

LEMMA CrashEffect ==
    ASSUME TypeOK, NEW v \in Tasks, Crash
    PROVE  Crashed(v)
<1>1. v # "none" /\ crashes \in Nat
  BY TaskAssumption DEF TypeOK
<1>2. /\ UNCHANGED <<row, paid, tokenPaid, used, refunds, bulkFailed>> /\ crashes' = crashes + 1
      /\ poll' = Idle /\ fetch'[v] = NoFetch
      /\ submit'[v] = IF submit[v] = "new" THEN "new" ELSE "closed"
  BY DEF Crash
<1> QED
  BY <1>1, <1>2 DEF Crashed, Released, Idle, SameMoney, SameRow

LEMMA EveryEffect ==
    ASSUME TypeOK, InHand, [Next]_vars, NEW v \in Tasks
    PROVE  Effect(v)
<1>1. CASE UNCHANGED vars
  <2>1. Aside(v)
    BY <1>1 DEF vars, Aside, SameMoney, SameRow, SameSubmit, SamePlace
  <2> QED
    BY <2>1, CountsGrow DEF Effect
<1>2. CASE Next
  BY <1>2, CountsGrow, SubmitEffect, FetchEffect, PollRestEffect, PollAnswerEffect,
     PollStepEffect, CrashEffect DEF Next, Effect
<1> QED
  BY <1>1, <1>2

-----------------------------------------------------------------------------
USE DEF SameMoney, SameRow, SameSubmit, SamePlace, Released

LEMMA UnknownStep ==
    ASSUME NEW v \in Tasks, Unknown(v), Effect(v)
    PROVE  Unknown(v)'
<1> USE DEF Unknown, Early, Listed, Held
<1>1. NoRow.status = "none"
  BY DEF NoRow
<1>2. CASE Aside(v) \/ Resubmits(v) \/ Inserts(v) \/ Charges(v) \/ Queries(v) \/ Saves(v)
  BY <1>1, <1>2 DEF Aside, Resubmits, Inserts, Charges, Queries, Saves
<1>3. CASE Lists(v) \/ BulkFails(v) \/ Answers(v) \/ Refunded(v) \/ Billed(v) \/ Updated(v)
           \/ Crashed(v)
  BY <1>1, <1>3 DEF Lists, BulkFails, Answers, Refunded, Billed, Updated, Crashed
<1> QED
  BY <1>2, <1>3 DEF Effect

(* Each query of a Gemini task pays for the refund that its save may cause. *)
LEMMA QueriesPayStep ==
    ASSUME TypeOK, TypeOK', InHand, NEW v \in Tasks, Platform[v] = "gemini", Unknown(v),
           QueriesPay(v), Effect(v)
    PROVE  QueriesPay(v)'
<1> USE DEF QueriesPay, Comes, One, Open, Listed, Held, HeldAt
<1>1. refunds[v] \in Nat /\ refunds'[v] \in Nat /\ fetches \in Nat /\ fetches' \in Nat /\ fetches <= fetches'
  BY TaskAssumption DEF TypeOK, Effect, Counts
<1>2. poll.task = v => v \notin poll.todo
  BY DEF InHand
<1>3. row[v] \in Rows
  BY DEF TypeOK
<1>4. CASE Aside(v)
  BY <1>1, <1>4 DEF Aside
<1>5. CASE Resubmits(v)
  BY <1>1, <1>5 DEF Resubmits
<1>6. CASE Inserts(v)
  BY <1>1, <1>6 DEF Inserts, Unknown, Early, NoRow
<1>7. CASE Charges(v)
  BY <1>1, <1>7 DEF Charges
<1>8. CASE Queries(v)
  BY <1>1, <1>8 DEF Queries
<1>9. CASE Saves(v)
  BY <1>1, <1>9 DEF Saves
<1>10. CASE Lists(v)
  BY <1>1, <1>10 DEF Lists
<1>11. CASE BulkFails(v)
  BY <1>1, <1>3, <1>11 DEF BulkFails, Rows
<1>12. CASE Answers(v)
  BY <1>1, <1>2, <1>12 DEF Answers
<1>13. CASE Refunded(v)
  BY <1>1, <1>13 DEF Refunded, InHand
<1>14. CASE Billed(v)
  BY <1>1, <1>14 DEF Billed
<1>15. CASE Updated(v)
  <2>1. poll.task = v /\ poll.pc = "update" /\ v \notin poll'.todo /\ SameMoney(v) /\ SameSubmit(v)
    BY <1>15 DEF Updated
  <2>2. poll'.task = v /\ poll'.pc = "refund" => row'[v].status = "FAILURE"
    BY <1>15 DEF Updated
  <2> QED
    BY <1>1, <2>1, <2>2
<1>16. CASE Crashed(v)
  BY <1>1, <1>16 DEF Crashed
<1> QED
  BY <1>4, <1>5, <1>6, <1>7, <1>8, <1>9, <1>10, <1>11, <1>12, <1>13, <1>14, <1>15, <1>16 DEF Effect

LEMMA OnlyPolledStep ==
    ASSUME TypeOK, TypeOK', InHand, NEW v \in Tasks, Platform[v] # "gemini", Unknown(v),
           OnlyPolled(v), Effect(v)
    PROVE  OnlyPolled(v)'
<1> USE DEF OnlyPolled, Open, Listed, Held
<1>1. row[v] \in Rows /\ snap[v] \in Rows
  BY DEF TypeOK
<1>2. poll.task = v => v \notin poll.todo
  BY DEF InHand
<1>3. CASE Aside(v) \/ Resubmits(v) \/ Inserts(v) \/ Charges(v)
  BY <1>3 DEF Aside, Resubmits, Inserts, Charges, Unknown, Early
<1>4. CASE Queries(v) \/ Saves(v)
  BY <1>4 DEF Queries, Saves
<1>5. CASE Lists(v)
  BY <1>5 DEF Lists
<1>6. CASE BulkFails(v)
  BY <1>1, <1>6 DEF BulkFails, Rows
<1>7. CASE Answers(v)
  BY <1>2, <1>7 DEF Answers, Ended
<1>8. CASE Refunded(v)
  BY <1>8 DEF Refunded
<1>9. CASE Billed(v)
  BY <1>9 DEF Billed
<1>10. CASE Updated(v)
  BY <1>10 DEF Updated
<1>11. CASE Crashed(v)
  BY <1>11 DEF Crashed
<1> QED
  BY <1>3, <1>4, <1>5, <1>6, <1>7, <1>8, <1>9, <1>10, <1>11 DEF Effect

LEMMA SumGrows ==
    \A a, b, c, d \in Nat : c >= a /\ d >= b =>
        a + b \in Nat /\ c + d \in Nat /\ a + b <= c + d /\ (c > a \/ d > b => c + d > a + b)
  OBVIOUS

LEMMA ErrorsGrow ==
    ASSUME TypeOK, Counts
    PROVE  /\ Errors \in Nat /\ Errors' \in Nat /\ Errors <= Errors'
           /\ failures' > failures \/ crashes' > crashes => Errors' > Errors
<1>1. failures \in Nat /\ crashes \in Nat
  BY TaskAssumption DEF TypeOK
<1>2. failures' \in Nat /\ crashes' \in Nat /\ failures' >= failures /\ crashes' >= crashes
  BY DEF Counts
<1>3. Errors = failures + crashes /\ Errors' = failures' + crashes'
  BY DEF Errors
<1> QED
  BY <1>1, <1>2, <1>3, SumGrows, Zenon

(* When a step makes a task billable again, it is paid for by an error. *)
LEMMA BillableStep ==
    ASSUME TypeOK, TypeOK', InHand, NEW v \in Tasks, Platform[v] # "gemini", Unknown(v),
           OnlyPolled(v), Effect(v)
    PROVE  /\ Errors \in Nat /\ Errors' \in Nat /\ Errors <= Errors'
           /\ Billable(v)' => Billable(v) \/ Errors' > Errors
           /\ Billed(v) \/ (Refunded(v) /\ poll.pc = "sunoRefund") =>
                 Billable(v) /\ ~Billable(v)'
<1> USE DEF Billable, OnlyPolled, Open, Listed, Held
<1>1. Errors \in Nat /\ Errors' \in Nat /\ Errors <= Errors'
      /\ (failures' > failures \/ crashes' > crashes => Errors' > Errors)
  BY ErrorsGrow DEF Effect
<1>2. poll.task = v => v \notin poll.todo
  BY DEF InHand
<1>3. row[v] \in Rows
  BY DEF TypeOK
<1>4. CASE Aside(v) \/ Resubmits(v) \/ Charges(v)
  BY <1>1, <1>4 DEF Aside, Resubmits, Charges, Billed, Refunded
<1>5. CASE Inserts(v)
  BY <1>1, <1>5 DEF Inserts, Unknown, Early, NoRow, Billed, Refunded
<1>6. CASE Queries(v) \/ Saves(v)
  BY <1>6 DEF Queries, Saves
<1>7. CASE Lists(v)
  BY <1>1, <1>7 DEF Lists, Billed, Refunded
<1>8. CASE BulkFails(v)
  BY <1>1, <1>3, <1>8 DEF BulkFails, Rows, Billed, Refunded
<1>9. CASE Answers(v)
  BY <1>1, <1>2, <1>9 DEF Answers, Billed, Refunded
<1>10. CASE Refunded(v)
  BY <1>1, <1>10 DEF Refunded, Billed
<1>11. CASE Billed(v)
  BY <1>1, <1>11 DEF Billed, Refunded
<1>12. CASE Updated(v)
  BY <1>1, <1>12 DEF Updated, Billed, Refunded
<1>13. CASE Crashed(v)
  BY <1>1, <1>13 DEF Crashed, Billed, Refunded
<1> QED
  BY <1>4, <1>5, <1>6, <1>7, <1>8, <1>9, <1>10, <1>11, <1>12, <1>13 DEF Effect

LEMMA RefundsStep ==
    ASSUME TypeOK, TypeOK', NEW v \in Tasks, Effect(v)
    PROVE  /\ refunds[v] \in Nat /\ refunds'[v] \in Nat
           /\ refunds'[v] # refunds[v] => Refunded(v) /\ refunds'[v] = refunds[v] + 1
<1>1. refunds[v] \in Nat /\ refunds'[v] \in Nat
  BY DEF TypeOK
<1> QED
  BY <1>1 DEF Effect, Aside, Resubmits, Inserts, Charges, Queries, Saves, Lists, BulkFails,
              Answers, Refunded, Billed, Updated, Crashed

LEMMA SunoPays ==
    ASSUME TypeOK, TypeOK', InHand, NEW v \in Tasks, Platform[v] = "suno", Unknown(v),
           OnlyPolled(v), Effect(v), refunds[v] + One(Billable(v)) <= 1 + Errors
    PROVE  (refunds[v] + One(Billable(v)) <= 1 + Errors)'
<1>1. /\ Errors \in Nat /\ Errors' \in Nat /\ Errors <= Errors'
      /\ Billable(v)' => Billable(v) \/ Errors' > Errors
      /\ Billed(v) \/ (Refunded(v) /\ poll.pc = "sunoRefund") => Billable(v) /\ ~Billable(v)'
  BY BillableStep
<1>2. /\ refunds[v] \in Nat /\ refunds'[v] \in Nat
      /\ refunds'[v] # refunds[v] => Refunded(v) /\ refunds'[v] = refunds[v] + 1
  BY RefundsStep
<1>3. Refunded(v) => poll.pc = "sunoRefund"
  BY DEF Refunded, OnlyPolled, Held
<1>4. One(Billable(v)) = (IF Billable(v) THEN 1 ELSE 0) /\ One(Billable(v))' = (IF Billable(v)' THEN 1 ELSE 0)
  BY DEF One
<1> QED
  BY <1>1, <1>2, <1>3, <1>4

(* A surcharge of d after n of at most s: n + 1 of the larger one. *)
LEMMA OneMore ==
    ASSUME NEW n \in Nat, NEW s \in Int, NEW d \in Int, NEW m \in Int, 0 <= s, s <= m, d <= m
    PROVE  n * s + d <= (n + 1) * m
<1>1. n * (m - s) >= 0
  OBVIOUS
<1>2. (n + 1) * m = n * s + n * (m - s) + m
  OBVIOUS
<1>3. n * s \in Int /\ n * (m - s) \in Int /\ (n + 1) * m \in Int
  OBVIOUS
<1> QED
  BY <1>1, <1>2, <1>3

(* Only the bill of a video makes it dearer. *)
LEMMA PaidStep ==
    ASSUME TypeOK, TypeOK', NEW v \in Tasks, Platform[v] = "doubao", OnlyPolled(v), Effect(v)
    PROVE  /\ paid[v] \in Int /\ paid'[v] \in Int /\ Unpaid(v) \in Int
           /\ ~Billed(v) => paid'[v] + Unpaid(v)' <= paid[v] + Unpaid(v)
           /\ Billed(v) => /\ Unpaid(v)' = Unpaid(v)
                           /\ \E d \in Surcharges : paid'[v] = paid[v] + d
<1>1. paid[v] \in Int /\ paid'[v] \in Int /\ Price \in Nat
  BY TaskAssumption DEF TypeOK
<1>2. Unpaid(v) = (IF submit[v] \in {"new", "request", "chargeUser"} THEN Price ELSE 0)
      /\ Unpaid(v)' = (IF submit'[v] \in {"new", "request", "chargeUser"} THEN Price ELSE 0)
  BY DEF Unpaid
<1>3. CASE ~Billed(v)
  <2>1. CASE paid'[v] = paid[v] /\ submit'[v] = submit[v]
    BY <1>1, <1>2, <1>3, <2>1
  <2>2. CASE Resubmits(v)
    BY <1>1, <1>2, <1>3, <2>2 DEF Resubmits, Early
  <2>3. CASE Inserts(v)
    BY <1>1, <1>2, <1>3, <2>3 DEF Inserts
  <2>4. CASE Charges(v)
    BY <1>1, <1>2, <1>3, <2>4 DEF Charges
  <2>5. CASE Refunded(v)
    <3>1. snap[v].quota \in Nat /\ submit'[v] = submit[v]
      BY <2>5 DEF TypeOK, Rows, Refunded
    <3> QED
      BY <1>1, <1>2, <1>3, <2>5, <3>1 DEF Refunded
  <2>6. CASE Crashed(v)
    BY <1>1, <1>2, <1>3, <2>6 DEF Crashed
  <2> QED
    BY <1>3, <2>1, <2>2, <2>3, <2>4, <2>5, <2>6 DEF Effect, Aside, Queries, Saves, Lists, BulkFails, Answers, Updated
<1>4. CASE Billed(v)
  <2>1. submit'[v] = submit[v] /\ snap[v].quota = Price /\ poll.actual \in ActualQuotas
    BY <1>4 DEF Billed, OnlyPolled, Held
  <2>2. poll.actual - Price \in Surcharges /\ 0 \in Surcharges
    BY <2>1 DEF Surcharges
  <2>3. paid'[v] = paid[v] + (poll.actual - Price) \/ paid'[v] = paid[v] + 0
    BY <1>1, <1>4, <2>1 DEF Billed
  <2> QED
    BY <1>1, <1>2, <1>4, <2>1, <2>2, <2>3
<1> QED
  BY <1>3, <1>4

LEMMA VideoPays ==
    ASSUME TypeOK, TypeOK', InHand, NEW v \in Tasks, Platform[v] = "doubao", Unknown(v),
           OnlyPolled(v), Effect(v), ErrorsPay(v)
    PROVE  \E s \in Surcharges, n \in Nat :
              /\ s >= 0 /\ n + One(Billable(v)') <= 1 + Errors'
              /\ paid'[v] + Unpaid(v)' <= Price + n * s
<1>1. /\ Errors \in Nat /\ Errors' \in Nat /\ Errors <= Errors'
      /\ Billable(v)' => Billable(v) \/ Errors' > Errors
      /\ Billed(v) => Billable(v) /\ ~Billable(v)'
  BY BillableStep
<1>2. /\ One(Billable(v)) = (IF Billable(v) THEN 1 ELSE 0)
      /\ One(Billable(v)') = (IF Billable(v)' THEN 1 ELSE 0)
  BY DEF One
<1>3. PICK s \in Surcharges, n \in Nat : /\ s >= 0 /\ n + One(Billable(v)) <= 1 + Errors
                                        /\ paid[v] + Unpaid(v) <= Price + n * s
  BY DEF ErrorsPay
<1>4. Surcharges \subseteq Int /\ s \in Int /\ n * s \in Int /\ Price \in Nat
  BY TaskAssumption DEF Surcharges
<1>5. /\ paid[v] \in Int /\ paid'[v] \in Int /\ Unpaid(v) \in Int
      /\ ~Billed(v) => paid'[v] + Unpaid(v)' <= paid[v] + Unpaid(v)
      /\ Billed(v) => /\ Unpaid(v)' = Unpaid(v)
                      /\ \E d \in Surcharges : paid'[v] = paid[v] + d
  BY PaidStep
<1> DEFINE b == One(Billable(v))
           b1 == One(Billable(v)')
           e1 == Errors'
<1>6. n + b <= 1 + Errors
  BY <1>3
<1>7. /\ b \in {0, 1} /\ b1 \in {0, 1} /\ e1 \in Nat /\ Errors \in Nat /\ Errors <= e1
      /\ b1 <= b \/ e1 > Errors
      /\ Billed(v) => b = 1 /\ b1 = 0
  BY <1>1, <1>2
<1> HIDE DEF b, b1, e1
<1>8. CASE ~Billed(v)
  <2>1. n + b1 <= 1 + e1
    BY <1>6, <1>7
  <2>2. Unpaid(v)' \in Int
    BY <1>4 DEF Unpaid
  <2>3. paid'[v] + Unpaid(v)' <= Price + n * s
    BY <1>3, <1>4, <1>5, <1>8, <2>2
  <2> QED
    BY <1>3, <2>1, <2>3 DEF b1, e1
<1>9. CASE Billed(v)
  <2>1. PICK d \in Surcharges : paid'[v] = paid[v] + d
    BY <1>5, <1>9
  <2>2. PICK m \in Surcharges : m >= 0 /\ s <= m /\ d <= m
    <3>1. CASE d <= s
      BY <1>3, <1>4, <3>1
    <3>2. CASE ~(d <= s)
      BY <1>3, <1>4, <3>2
    <3> QED
      BY <3>1, <3>2
  <2>3. d \in Int /\ m \in Int
    BY <1>4
  <2>4. n * s + d <= (n + 1) * m
    BY <1>3, <1>4, <2>2, <2>3, OneMore
  <2>5. (n + 1) * m \in Int /\ n + 1 \in Nat
    BY <2>3
  <2>6. (n + 1) + b1 <= 1 + e1
    BY <1>9, <1>6, <1>7
  <2>7. paid'[v] + Unpaid(v)' <= Price + (n + 1) * m
    <3>1. paid'[v] + Unpaid(v)' = (paid[v] + Unpaid(v)) + d
      BY <1>5, <1>9, <2>1, <2>3
    <3>2. paid[v] + Unpaid(v) + d <= Price + (n * s + d)
      BY <1>3, <1>4, <1>5, <2>3
    <3> DEFINE x == n * s
               y == (n + 1) * m
    <3>3. x \in Int /\ y \in Int /\ x + d <= y /\ paid[v] + Unpaid(v) + d <= Price + (x + d)
      BY <1>4, <2>4, <2>5, <3>2
    <3> HIDE DEF x, y
    <3>4. paid[v] + Unpaid(v) + d <= Price + y
      BY <1>4, <1>5, <2>3, <3>3
    <3> QED
      BY <3>1, <3>4 DEF y
  <2> QED
    BY <2>2, <2>5, <2>6, <2>7 DEF b1, e1
<1> QED
  BY <1>8, <1>9

LEMMA ErrorsPayStep ==
    ASSUME TypeOK, TypeOK', InHand, NEW v \in Tasks, Platform[v] # "gemini", Unknown(v),
           OnlyPolled(v), Effect(v), ErrorsPay(v)
    PROVE  ErrorsPay(v)'
<1>1. One(Billable(v))' = One(Billable(v)')
  BY DEF One
<1>2. Surcharges' = Surcharges
  BY DEF Surcharges
<1>3. CASE Platform[v] = "suno"
  BY <1>3, SunoPays DEF ErrorsPay
<1>4. CASE Platform[v] = "doubao"
  BY <1>1, <1>2, <1>4, VideoPays DEF ErrorsPay
<1> QED
  BY <1>3, <1>4 DEF ErrorsPay

(* The ledger of a task without errors: one step per effect. *)
LEMMA LedgerStep ==
    ASSUME TypeOK, TypeOK', InHand, NEW v \in Tasks, Platform[v] # "gemini", Unknown(v),
           OnlyPolled(v), Effect(v), Ledger(v)
    PROVE  Ledger(v)'
<1> SUFFICES ASSUME Errors' = 0
             PROVE  Ledger(v)'
  BY DEF Ledger
<1>1. Errors = 0 /\ ~(failures' > failures) /\ ~(crashes' > crashes)
  <2>1. /\ Errors \in Nat /\ Errors' \in Nat /\ Errors <= Errors'
        /\ (failures' > failures \/ crashes' > crashes => Errors' > Errors)
    BY ErrorsGrow DEF Effect
  <2> QED
    BY <2>1
<1>2. ~poll'.err /\ ~poll.err
  BY <1>1 DEF Ledger, Effect, Counts
<1>3. /\ paid[v] \in Int /\ tokenPaid[v] \in Nat /\ used[v] \in Nat /\ refunds[v] \in Nat
      /\ paid'[v] \in Int /\ tokenPaid'[v] \in Nat /\ used'[v] \in Nat
      /\ Price \in Nat /\ row[v] \in Rows /\ snap[v] \in Rows
  BY TaskAssumption DEF TypeOK
<1>4. row[v].quota \in Nat /\ snap[v].quota \in Nat
  BY <1>3 DEF Rows
<1>5. poll.task = v => v \notin poll.todo
  BY DEF InHand
<1> USE DEF Ledger, Early, Listed, Held, Open, Quota, OwedUser, OwedUsed
<1>6. CASE Aside(v)
  BY <1>1, <1>2, <1>6 DEF Aside
<1>7. CASE Resubmits(v)
  BY <1>1, <1>2, <1>7 DEF Resubmits, Unknown, NoRow
<1>8. CASE Inserts(v)
  BY <1>1, <1>2, <1>3, <1>8 DEF Inserts, Unknown, NoRow
<1>9. CASE Charges(v)
  BY <1>1, <1>2, <1>3, <1>9 DEF Charges
<1>10. CASE Queries(v) \/ Saves(v)
  BY <1>10 DEF Queries, Saves, OnlyPolled
<1>11. CASE Lists(v)
  BY <1>1, <1>2, <1>11 DEF Lists
<1>12. CASE BulkFails(v)
  <2>1. row'[v].status = "FAILURE" /\ row'[v].quota = row[v].quota
    BY <1>3, <1>12 DEF BulkFails, Rows
  <2>2. row[v].status = "pending" /\ refunds[v] = 0
    BY <1>1, <1>12 DEF BulkFails, OnlyPolled
  <2> QED
    BY <1>1, <1>2, <1>12, <2>1, <2>2 DEF BulkFails
<1>13. CASE Answers(v)
  <2>1. /\ refunds[v] = 0 /\ row[v] = snap[v] /\ snap[v].status = "pending" /\ snap[v].quota = Price
        /\ poll.task # v /\ poll'.task = v /\ v \notin poll'.todo /\ snap'[v].quota = Price
        /\ SameMoney(v) /\ SameRow(v) /\ SameSubmit(v)
    BY <1>1, <1>5, <1>13 DEF Answers, OnlyPolled
  <2>2. /\ poll'.pc # "refund"
        /\ snap'[v].status = "FAILURE" /\ poll'.pc = "update" /\ Price # 0 =>
              Platform[v] # "suno" /\ poll'.refund
    BY <1>2, <1>13, <2>1 DEF Answers
  <2> QED
    BY <1>1, <1>2, <2>1, <2>2
<1>14. CASE Refunded(v)
  <2>1. /\ refunds[v] = 0 /\ refunds'[v] = 1 /\ poll.task = v /\ v \notin poll'.todo
        /\ paid'[v] = paid[v] - snap[v].quota /\ tokenPaid'[v] = tokenPaid[v] /\ used'[v] = used[v]
        /\ snap'[v] = snap[v] /\ SameRow(v) /\ SameSubmit(v)
    BY <1>1, <1>3, <1>14 DEF Refunded
  <2>2. paid[v] + OwedUser(v) = snap[v].quota /\ used[v] + OwedUsed(v) >= paid[v] + OwedUser(v)
    BY <1>1, <2>1
  <2>3. /\ OwedUser(v) \in Nat /\ OwedUsed(v) \in Nat
        /\ OwedUser(v)' = OwedUser(v) /\ OwedUsed(v)' = OwedUsed(v)
    BY <1>3, <2>1
  <2>4. paid'[v] + OwedUser(v)' = 0 /\ used'[v] + OwedUsed(v)' >= paid'[v] + OwedUser(v)'
    <3> HIDE DEF OwedUser, OwedUsed, Ledger, Early, Listed, Held, Open, Quota
    <3> QED
      BY <1>3, <1>4, <2>1, <2>2, <2>3
  <2>5. CASE poll.pc = "sunoRefund"
    <3>1. poll'.pc = "update" /\ poll'.task = v /\ Platform[v] = "suno" /\ ~Open(snap[v])
      BY <1>14, <2>1, <2>5 DEF Refunded, InHand, OnlyPolled
    <3> QED
      BY <1>1, <1>2, <2>1, <2>4, <2>5, <3>1
  <2>6. CASE poll.pc = "refund"
    <3>1. poll'.task # v /\ ~Open(row[v]) /\ row[v].status # "none"
      BY <1>14, <2>1, <2>6 DEF Refunded, OnlyPolled
    <3> QED
      BY <1>1, <1>2, <2>1, <2>4, <2>6, <3>1
  <2> QED
    BY <1>14, <2>5, <2>6 DEF Refunded
<1>15. CASE Billed(v)
  <2> DEFINE delta == poll.actual - snap[v].quota
  <2>1. /\ poll.task = v /\ poll'.task = v /\ poll'.pc = "update" /\ v \notin poll'.todo
        /\ snap'[v].status = "SUCCESS" /\ snap'[v].quota = poll.actual
        /\ tokenPaid'[v] = tokenPaid[v] /\ refunds'[v] = refunds[v] /\ refunds[v] = 0
        /\ paid'[v] = paid[v] + delta /\ used'[v] >= used[v] /\ used'[v] >= used[v] + delta
        /\ SameRow(v) /\ SameSubmit(v)
    BY <1>1, <1>3, <1>15 DEF Billed, OnlyPolled
  <2>2. paid[v] + OwedUser(v) = snap[v].quota /\ used[v] + OwedUsed(v) >= paid[v] + OwedUser(v)
    BY <1>1, <2>1
  <2>3. /\ OwedUser(v) \in Nat /\ OwedUsed(v) \in Nat
        /\ OwedUser(v)' = OwedUser(v) /\ OwedUsed(v)' = OwedUsed(v)
    BY <1>3, <2>1
  <2>4. poll.actual \in Nat
    BY DEF TypeOK, Polls
  <2>5. paid'[v] + OwedUser(v)' = poll.actual /\ used'[v] + OwedUsed(v)' >= paid'[v] + OwedUser(v)'
    <3> HIDE DEF OwedUser, OwedUsed, Ledger, Early, Listed, Held, Open, Quota
    <3> QED
      BY <1>3, <1>4, <2>1, <2>2, <2>3, <2>4
  <2> QED
    BY <1>1, <1>2, <2>1, <2>5
<1>16. CASE Updated(v)
  <2>1. /\ poll.task = v /\ poll.pc = "update" /\ v \notin poll'.todo /\ row'[v] = snap[v]
        /\ (v \in bulkFailed' <=> v \in bulkFailed) /\ SameMoney(v) /\ SameSubmit(v)
        /\ snap[v].status # "none" /\ row[v].status # "none"
    BY <1>1, <1>16 DEF Updated, OnlyPolled
  <2>2. CASE poll'.task # v /\ (Platform[v] = "suno" \/ ~poll.refund)
    BY <1>1, <1>2, <1>3, <2>1, <2>2
  <2>3. CASE /\ poll'.task = v /\ poll'.pc = "refund" /\ snap'[v] = snap[v]
             /\ Platform[v] # "suno" /\ snap[v].status = "FAILURE"
    BY <1>1, <1>2, <1>3, <2>1, <2>3
  <2> QED
    BY <1>1, <1>16, <2>2, <2>3 DEF Updated
<1>17. CASE Crashed(v)
  BY <1>1, <1>17 DEF Crashed
<1> QED
  BY <1>6, <1>7, <1>8, <1>9, <1>10, <1>11, <1>12, <1>13, <1>14, <1>15, <1>16, <1>17 DEF Effect

LEMMA AccountsInit ==
    ASSUME Init
    PROVE  Accounts
<1> SUFFICES ASSUME NEW v \in Tasks
             PROVE  /\ Unknown(v)
                    /\ Platform[v] = "gemini" => QueriesPay(v)
                    /\ Platform[v] # "gemini" => OnlyPolled(v) /\ ErrorsPay(v) /\ Ledger(v)
  BY DEF Accounts
<1>1. /\ v # "none" /\ Price \in Nat /\ row[v] = NoRow /\ fetch[v] = NoFetch /\ poll = Idle
      /\ submit[v] = "new" /\ paid[v] = 0 /\ tokenPaid[v] = 0 /\ used[v] = 0 /\ refunds[v] = 0
      /\ fetches = 0 /\ failures = 0 /\ crashes = 0
  BY TaskAssumption DEF Init
<1>2. /\ NoRow.status = "none" /\ NoRow.quota = 0
      /\ poll.task # v /\ poll.todo = {} /\ ~poll.err /\ poll.pc = "list"
  BY <1>1 DEF NoRow, Idle
<1>3. Unknown(v) /\ OnlyPolled(v)
  BY <1>1, <1>2 DEF Unknown, OnlyPolled, Listed, Held
<1>4. QueriesPay(v)
  BY <1>1, <1>2 DEF QueriesPay, Comes, One, Open, Listed, Held, HeldAt
<1>5. ErrorsPay(v)
  <2>1. Errors = 0 /\ One(Billable(v)) <= 1 /\ One(Billable(v)) \in Nat /\ Unpaid(v) = Price /\ 0 \in Surcharges
    BY <1>1 DEF Errors, One, Unpaid, Surcharges
  <2>2. paid[v] + Unpaid(v) <= Price + 0 * 0 /\ 0 + One(Billable(v)) <= 1 + Errors /\ 0 >= 0 /\ 0 \in Nat
    BY <1>1, <2>1
  <2>3. refunds[v] + One(Billable(v)) <= 1 + Errors
    BY <1>1, <2>1
  <2> QED
    BY <2>1, <2>2, <2>3 DEF ErrorsPay
<1>6. Ledger(v)
  BY <1>1, <1>2 DEF Ledger, Early, Listed, Held, Open, Quota, OwedUser, OwedUsed
<1> QED
  BY <1>3, <1>4, <1>5, <1>6

LEMMA AccountsStep ==
    ASSUME Inv, Accounts, [Next]_vars
    PROVE  Accounts'
<1>1. TypeOK /\ InHand /\ TypeOK'
  BY InvStep DEF Inv
<1>2. ASSUME NEW v \in Tasks
      PROVE  /\ Unknown(v)'
             /\ Platform[v] = "gemini" => QueriesPay(v)'
             /\ Platform[v] # "gemini" => OnlyPolled(v)' /\ ErrorsPay(v)' /\ Ledger(v)'
  <2>1. Effect(v) /\ Unknown(v)
    BY <1>1, EveryEffect DEF Accounts
  <2>2. CASE Platform[v] = "gemini"
    BY <1>1, <2>1, <2>2, UnknownStep, QueriesPayStep DEF Accounts
  <2>3. CASE Platform[v] # "gemini"
    BY <1>1, <2>1, <2>3, UnknownStep, OnlyPolledStep, ErrorsPayStep, LedgerStep DEF Accounts
  <2> QED
    BY <2>2, <2>3
<1> QED
  BY <1>2 DEF Accounts

LEMMA AccountsHold == Spec => []Accounts
<1>1. Init => Accounts
  BY AccountsInit
<1>2. Inv /\ Accounts /\ [Next]_vars => Accounts'
  BY AccountsStep
<1> QED
  BY <1>1, <1>2, Invariance, PTL DEF Spec

(* A Gemini or Vertex task is refunded at most once more than clients have  *)
(* queried it, for any interleaving of the queries with the poller, and     *)
(* for any errors and crashes: every stale save of                          *)
(* videoFetchByIDRespBodyBuilder reopens the row for one refund only.       *)
THEOREM QueriesBoundRefunds == Spec => []ExtraRefundsNeedQueries
<1>1. Inv /\ Accounts => ExtraRefundsNeedQueries
  <2> SUFFICES ASSUME Inv, Accounts, NEW v \in Tasks, Platform[v] = "gemini"
               PROVE  refunds[v] <= 1 + fetches
    BY DEF ExtraRefundsNeedQueries
  <2>1. refunds[v] \in Nat /\ fetches \in Nat
    BY TaskAssumption DEF Inv, TypeOK
  <2>2. QueriesPay(v)
    BY DEF Accounts
  <2>3. One(fetch[v] # NoFetch) \in Nat /\ Comes(v) \in Nat
    BY DEF One, Comes
  <2> QED
    BY <2>1, <2>2, <2>3 DEF QueriesPay
<1> QED
  BY <1>1, Invariance, AccountsHold, PTL

(* The poller bills before it saves.  A Suno task is refunded again, and a  *)
(* video charged its surcharge again, at most once per database error or    *)
(* crash.                                                                   *)
THEOREM ErrorsBoundRepeats == Spec => []RepeatsNeedErrors
<1>1. Inv /\ Accounts => RepeatsNeedErrors
  <2> SUFFICES ASSUME Inv, Accounts, NEW v \in Tasks
               PROVE  /\ Platform[v] = "suno" => refunds[v] <= 1 + Errors
                      /\ Platform[v] = "doubao" =>
                            \E s \in Surcharges : paid[v] <= Price + (1 + Errors) * s
    BY DEF RepeatsNeedErrors, Errors, Surcharges
  <2>1. refunds[v] \in Nat /\ paid[v] \in Int /\ failures \in Nat /\ crashes \in Nat /\ Price \in Nat
    BY TaskAssumption DEF Inv, TypeOK
  <2>2. Errors \in Nat /\ One(Billable(v)) \in Nat /\ Unpaid(v) \in Nat /\ Surcharges \subseteq Int
    BY <2>1, TaskAssumption DEF Errors, One, Unpaid, Surcharges
  <2>3. ASSUME Platform[v] = "suno" PROVE refunds[v] <= 1 + Errors
    BY <2>1, <2>2, <2>3 DEF Accounts, ErrorsPay
  <2>4. ASSUME Platform[v] = "doubao"
        PROVE  \E s \in Surcharges : paid[v] <= Price + (1 + Errors) * s
    <3>1. PICK s \in Surcharges, n \in Nat :
             /\ s >= 0 /\ n + One(Billable(v)) <= 1 + Errors
             /\ paid[v] + Unpaid(v) <= Price + n * s
      BY <2>4 DEF Accounts, ErrorsPay
    <3>2. s \in Int /\ n <= 1 + Errors
      BY <2>2, <3>1
    <3>3. n * s <= (1 + Errors) * s /\ n * s \in Int /\ (1 + Errors) * s \in Int
      <4>1. ((1 + Errors) - n) * s >= 0
        BY <2>2, <3>1, <3>2
      <4>2. (1 + Errors) * s = n * s + ((1 + Errors) - n) * s
        BY <2>2, <3>2
      <4> QED
        BY <2>2, <3>2, <4>1, <4>2
    <3>4. paid[v] <= Price + (1 + Errors) * s
      <4> DEFINE x == n * s
                 y == (1 + Errors) * s
      <4>1. x \in Int /\ y \in Int /\ x <= y /\ paid[v] + Unpaid(v) <= Price + x
        BY <3>1, <3>3
      <4> HIDE DEF x, y
      <4>2. paid[v] <= Price + y
        BY <2>1, <2>2, <4>1
      <4> QED
        BY <4>2 DEF y
    <3> QED
      BY <3>4
  <2> QED
    BY <2>3, <2>4
<1> QED
  BY <1>1, Invariance, AccountsHold, PTL

(* With a database that answers and no crash, a task at rest has cost its   *)
(* user what its row says, or nothing once it is refunded; a failed task is *)
(* refunded exactly once; the token keeps paying the price; and the used    *)
(* quota is never below what was paid.  This holds however the poller's     *)
(* steps fall between those of the submission.                              *)
THEOREM TasksAddUp == Spec => []TaskAddsUp
<1>1. Inv /\ Accounts => TaskAddsUp
  <2> SUFFICES ASSUME Inv, Accounts, failures = 0, crashes = 0, NEW v \in Tasks, AtRest(v),
                      Platform[v] # "gemini"
               PROVE  /\ paid[v] = IF refunds[v] > 0 THEN 0 ELSE row[v].quota
                      /\ row[v].status = "FAILURE" /\ v \notin bulkFailed /\ Price # 0 => refunds[v] = 1
                      /\ tokenPaid[v] = IF row[v].status = "none" THEN 0 ELSE Price
                      /\ used[v] >= paid[v]
    BY DEF TaskAddsUp
  <2>1. Errors = 0
    BY DEF Errors
  <2>2. submit[v] = "closed" /\ ~Held(v)
    BY DEF AtRest, Held
  <2>3. paid[v] \in Int /\ used[v] \in Nat
    BY DEF Inv, TypeOK
  <2>4. Ledger(v)
    BY DEF Accounts
  <2>5. OwedUser(v) = 0 /\ OwedUsed(v) = 0 /\ ~Early(v) /\ Quota(v) = row[v].quota
    BY <2>2 DEF OwedUser, OwedUsed, Early, Quota
  <2> QED
    BY <2>1, <2>2, <2>3, <2>4, <2>5 DEF Ledger
<1> QED
  BY <1>1, Invariance, AccountsHold, PTL
=============================================================================
