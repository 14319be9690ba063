-------------------------- MODULE RealtimeBilling --------------------------
(***************************************************************************)
(* Billing of one realtime (websocket) session: OpenaiRealtimeHandler and  *)
(* preConsumeUsage of relay/channel/openai/relay-openai.go, with           *)
(* PreWssConsumeQuota and PostWssConsumeQuota of service/quota.go and      *)
(* WssHelper of relay/websocket.go.                                        *)
(*                                                                         *)
(* Three goroutines share the variables usage and localUsage without a     *)
(* lock: the reader of the client, the reader of the upstream ("target")   *)
(* and the handler ("main"), which waits for one of them to end and then   *)
(* bills what it finds.  The readers may outlive the wait.                 *)
(*                                                                         *)
(* Usage is measured by the quota it costs: calculateAudioQuota is linear  *)
(* in the token counts, up to rounding.  Quotas are read from the          *)
(* database, as without Redis.                                             *)
(***************************************************************************)
EXTENDS Integers

CONSTANTS
    Held,        \* FinalPreConsumedQuota, taken before the session by PreConsumeQuota
    UserQuota,   \* users.quota after that
    TokenQuota,  \* tokens.remain_quota after that
    Unlimited,   \* token.UnlimitedQuota
    Reports,     \* usage reported by a response.done event
    Counts,      \* usage counted locally for an event
    MaxMessages  \* bound on the messages of a session

ASSUME RealtimeAssumption ==
    /\ Held \in Nat /\ UserQuota \in Int /\ TokenQuota \in Int
    /\ Unlimited \in BOOLEAN
    /\ Reports \subseteq Nat \ {0} /\ Counts \subseteq Nat
    /\ \E m \in Reports : \A n \in Reports : n <= m  \* token counts are ints
    /\ MaxMessages \in Nat

(* The two goroutines that call preConsumeUsage. *)
Billers == {"target", "main"}

VARIABLES
    userQuota, tokenQuota,  \* the two database columns
    usage, localUsage,      \* reported and locally counted usage not yet billed
    sumUsage,               \* all usage billed in the session
    usedQuota,              \* users.used_quota recorded by PostWssConsumeQuota
    pc,                     \* [Billers -> location]
    bill,                   \* [Billers -> which usage is being billed: "usage" or "local"]
    arg,                    \* [Billers -> the usage being billed]
    client,                 \* the client's reader: "read" or "exited"
    clientClosed, targetClosed, \* the two channels closed by the readers
    errors,                 \* number of errors in errChan
    wokenBy,                \* which case of main's select was taken
    refused,                \* an insufficient quota refused a charge (history)
    reported, counted,      \* all usage reported and counted so far (history)
    charged,                \* quota taken from the user for usage (history)
    messages

quotaVars == <<userQuota, tokenQuota>>
usageVars == <<usage, localUsage>>
totalVars == <<sumUsage, usedQuota>>
billVars == <<bill, arg>>
connVars == <<client, clientClosed, targetClosed>>
historyVars == <<refused, reported, counted, charged>>
vars == <<quotaVars, usageVars, totalVars, billVars, connVars, historyVars, pc, errors,
          wokenBy, messages>>

TargetLocations == {"read", "sum", "check", "debitUser", "debitToken", "billed",
                    "refused", "exited"}
MainLocations == {"wait", "usage", "local", "sum", "check", "debitUser", "debitToken",
                  "billed", "refused", "post", "done"}

Init ==
    /\ userQuota = UserQuota
    /\ tokenQuota = TokenQuota
    /\ usage = 0 /\ localUsage = 0 /\ sumUsage = 0 /\ usedQuota = 0
    /\ pc = [target |-> "read", main |-> "wait"]
    /\ bill = [b \in Billers |-> "usage"]
    /\ arg = [b \in Billers |-> 0]
    /\ client = "read"
    /\ clientClosed = FALSE /\ targetClosed = FALSE
    /\ errors = 0
    /\ wokenBy = "none"
    /\ refused = FALSE
    /\ reported = 0 /\ counted = 0 /\ charged = 0
    /\ messages = 0

Goto(b, l) == pc' = [pc EXCEPT ![b] = l]

(* Call preConsumeUsage on the usage variable x, whose value is v. *)
StartBilling(b, x, v) ==
    /\ Goto(b, "sum")
    /\ bill' = [bill EXCEPT ![b] = x]
    /\ arg' = [arg EXCEPT ![b] = v]

-----------------------------------------------------------------------------
(* preConsumeUsage and PreWssConsumeQuota, run by either biller. *)
Sum(b) ==
    /\ pc[b] = "sum"
    /\ sumUsage' = sumUsage + arg[b]
    /\ Goto(b, "check")
    /\ UNCHANGED <<quotaVars, usageVars, billVars, connVars, historyVars, usedQuota,
                   errors, wokenBy, messages>>

(* The quota is computed from the fields of the usage object, which the     *)
(* client's reader may have increased in the meantime; it is compared with  *)
(* both quotas, and PostConsumeQuota debits them one after the other.       *)
Check(b) ==
    /\ pc[b] = "check"
    /\ \E q \in {arg[b]} \cup
                IF bill[b] = "local" /\ localUsage > arg[b] THEN {localUsage} ELSE {} :
         /\ arg' = [arg EXCEPT ![b] = q]
         /\ IF userQuota < q \/ (~Unlimited /\ tokenQuota < q)
            THEN Goto(b, "refused") /\ refused' = TRUE
            ELSE Goto(b, "debitUser") /\ UNCHANGED refused
    /\ UNCHANGED <<quotaVars, usageVars, totalVars, connVars, bill, errors, wokenBy,
                   reported, counted, charged, messages>>

DebitUser(b) ==
    /\ pc[b] = "debitUser"
    /\ userQuota' = userQuota - arg[b]
    /\ charged' = charged + arg[b]
    /\ Goto(b, "debitToken")
    /\ UNCHANGED <<usageVars, totalVars, billVars, connVars, tokenQuota, errors, wokenBy,
                   refused, reported, counted, messages>>

(* Mutant: the token is forgotten. *)
DebitTokenForgotten(b) ==
    /\ pc[b] = "debitToken"
    /\ Goto(b, "billed")
    /\ UNCHANGED <<quotaVars, usageVars, totalVars, billVars, connVars, historyVars,
                   errors, wokenBy, messages>>

DebitToken(b) ==
    /\ pc[b] = "debitToken"
    /\ tokenQuota' = tokenQuota - arg[b]
    /\ Goto(b, "billed")
    /\ UNCHANGED <<usageVars, totalVars, billVars, connVars, historyVars, userQuota,
                   errors, wokenBy, messages>>

-----------------------------------------------------------------------------
(* localUsage += n.  The two readers do this without a lock, and either may *)
(* overwrite what the other added while both are running.                   *)
Count(n, racing) ==
    \E overwritten \in {FALSE, racing} :
        localUsage' = IF overwritten THEN localUsage ELSE localUsage + n

ClientRuns == client = "read"
TargetRuns == pc["target"] # "exited"

(* The target's reader. *)
TargetReads ==
    /\ pc["target"] = "read"
    /\ pc["main"] # "done"
    /\ messages < MaxMessages
    /\ messages' = messages + 1

(* response.done with usage *)
TargetReport(v) ==
    /\ TargetReads
    /\ usage' = usage + v
    /\ reported' = reported + v
    /\ StartBilling("target", "usage", usage + v)
    /\ UNCHANGED <<quotaVars, totalVars, connVars, localUsage, errors, wokenBy, refused,
                   counted, charged>>

(* response.done without usage: what was counted locally is billed *)
TargetDone(n) ==
    /\ TargetReads
    /\ Count(n, ClientRuns)
    /\ counted' = counted + n
    /\ StartBilling("target", "local", localUsage')
    /\ UNCHANGED <<quotaVars, totalVars, connVars, usage, errors, wokenBy, refused,
                   reported, charged>>

(* any other event with content *)
TargetOutput(n) ==
    /\ TargetReads
    /\ Count(n, ClientRuns)
    /\ counted' = counted + n
    /\ UNCHANGED <<quotaVars, totalVars, billVars, connVars, usage, pc, errors, wokenBy,
                   refused, reported, charged>>

(* Mutant: the billed usage is not cleared. *)
TargetBilledKeepsUsage ==
    /\ pc["target"] = "billed"
    /\ Goto("target", "read")
    /\ UNCHANGED <<quotaVars, usageVars, totalVars, billVars, connVars, historyVars,
                   errors, wokenBy, messages>>

(* The billed usage is cleared, and the message is forwarded, which may fail. *)
TargetBilled ==
    /\ pc["target"] = "billed"
    /\ usage' = IF bill["target"] = "usage" THEN 0 ELSE usage
    /\ localUsage' = 0
    /\ \/ Goto("target", "read") /\ UNCHANGED errors
       \/ Goto("target", "exited") /\ errors' = errors + 1
    /\ UNCHANGED <<quotaVars, totalVars, billVars, connVars, historyVars, wokenBy,
                   messages>>

(* preConsumeUsage returned an error: the reader ends, the usage stays. *)
TargetRefused ==
    /\ pc["target"] = "refused"
    /\ Goto("target", "exited")
    /\ errors' = errors + 1
    /\ UNCHANGED <<quotaVars, usageVars, totalVars, billVars, connVars, historyVars,
                   wokenBy, messages>>

(* The connection ends, normally or not; after main's return it is closed.  *)
(* A message that cannot be parsed also ends the reader, but not the        *)
(* connection.                                                              *)
TargetEnds ==
    /\ pc["target"] = "read"
    /\ Goto("target", "exited")
    /\ \/ targetClosed' = TRUE /\ errors' \in {errors, errors + 1}
       \/ UNCHANGED targetClosed /\ errors' = errors + 1
    /\ UNCHANGED <<quotaVars, usageVars, totalVars, billVars, historyVars, client,
                   clientClosed, wokenBy, messages>>

(* The client's reader counts what the client sends. *)
ClientInput(n) ==
    /\ client = "read"
    /\ pc["main"] # "done"
    /\ messages < MaxMessages
    /\ messages' = messages + 1
    /\ Count(n, TargetRuns)
    /\ counted' = counted + n
    /\ UNCHANGED <<quotaVars, totalVars, billVars, connVars, usage, pc, errors, wokenBy,
                   refused, reported, charged>>

ClientEnds ==
    /\ client = "read"
    /\ client' = "exited"
    /\ \/ clientClosed' = TRUE /\ errors' \in {errors, errors + 1}
       \/ UNCHANGED clientClosed /\ errors' = errors + 1
    /\ UNCHANGED <<quotaVars, usageVars, totalVars, billVars, historyVars, pc,
                   targetClosed, wokenBy, messages>>

-----------------------------------------------------------------------------
(* Mutant: errors do not wake main. *)
MainWakesOnCloseOnly ==
    /\ pc["main"] = "wait"
    /\ \/ clientClosed /\ wokenBy' = "client"
       \/ targetClosed /\ wokenBy' = "target"
    /\ Goto("main", "usage")
    /\ UNCHANGED <<quotaVars, usageVars, totalVars, billVars, connVars, historyVars,
                   errors, messages>>

(* main's select, and then the usage that is left over. *)
MainWakes ==
    /\ pc["main"] = "wait"
    /\ \/ clientClosed /\ wokenBy' = "client" /\ UNCHANGED errors
       \/ targetClosed /\ wokenBy' = "target" /\ UNCHANGED errors
       \/ errors > 0 /\ wokenBy' = "error" /\ errors' = errors - 1
    /\ Goto("main", "usage")
    /\ UNCHANGED <<quotaVars, usageVars, totalVars, billVars, connVars, historyVars,
                   messages>>

MainBillsUsage ==
    /\ pc["main"] = "usage"
    /\ IF usage # 0
       THEN StartBilling("main", "usage", usage)
       ELSE Goto("main", "local") /\ UNCHANGED <<bill, arg>>
    /\ UNCHANGED <<quotaVars, usageVars, totalVars, connVars, historyVars, errors,
                   wokenBy, messages>>

MainBillsLocal ==
    /\ pc["main"] = "local"
    /\ IF localUsage # 0
       THEN StartBilling("main", "local", localUsage)
       ELSE Goto("main", "post") /\ UNCHANGED <<bill, arg>>
    /\ UNCHANGED <<quotaVars, usageVars, totalVars, connVars, historyVars, errors,
                   wokenBy, messages>>

(* main ignores whether a charge was refused. *)
MainBilled ==
    /\ pc["main"] \in {"billed", "refused"}
    /\ Goto("main", IF bill["main"] = "usage" THEN "local" ELSE "post")
    /\ UNCHANGED <<quotaVars, usageVars, totalVars, billVars, connVars, historyVars,
                   errors, wokenBy, messages>>

(* PostWssConsumeQuota records the usage of the session.  The pre-consumed  *)
(* quota is not touched.                                                    *)
PostWssConsumeQuota ==
    /\ pc["main"] = "post"
    /\ usedQuota' = usedQuota + sumUsage
    /\ Goto("main", "done")
    /\ UNCHANGED <<quotaVars, usageVars, billVars, connVars, historyVars, sumUsage,
                   errors, wokenBy, messages>>

-----------------------------------------------------------------------------
Billing(b) == Sum(b) \/ Check(b) \/ DebitUser(b) \/ DebitToken(b)

Target ==
    \/ Billing("target") \/ TargetBilled \/ TargetRefused
    \/ \E v \in Reports : TargetReport(v)
    \/ \E n \in Counts : TargetDone(n) \/ TargetOutput(n)
    \/ TargetEnds

Client == ClientEnds \/ \E n \in Counts : ClientInput(n)

Main ==
    \/ MainWakes \/ MainBillsUsage \/ MainBillsLocal \/ MainBilled
    \/ Billing("main") \/ PostWssConsumeQuota

Next == Target \/ Client \/ Main

Spec == Init /\ [][Next]_vars

(* Goroutines that can run are scheduled; a read may block for ever, except *)
(* that main's return closes both connections.                              *)
Fairness ==
    /\ WF_vars(Main)
    /\ WF_vars(Billing("target") \/ TargetBilled \/ TargetRefused)

FairSpec == Spec /\ Fairness

-----------------------------------------------------------------------------
(* Every variable stays in its type. *)
TypeOK ==
    /\ userQuota \in Int /\ tokenQuota \in Int
    /\ usage \in Nat /\ localUsage \in Nat /\ sumUsage \in Nat /\ usedQuota \in Nat
    /\ pc["target"] \in TargetLocations /\ pc["main"] \in MainLocations
    /\ bill \in [Billers -> {"usage", "local"}]
    /\ arg \in [Billers -> Nat]
    /\ client \in {"read", "exited"}
    /\ clientClosed \in BOOLEAN /\ targetClosed \in BOOLEAN
    /\ errors \in 0 .. 2  \* the capacity of errChan: no reader blocks on it
    /\ wokenBy \in {"none", "client", "target", "error"}
    /\ refused \in BOOLEAN
    /\ reported \in Nat /\ counted \in Nat /\ charged \in Nat
    /\ messages \in 0 .. MaxMessages

(* When the session ended because the upstream closed it, its reader has    *)
(* ended too, and nothing is billed twice: the charge covers every reported *)
(* usage, exceeds it at most by what was counted locally, and the used      *)
(* quota shows no more than it.                                             *)
TargetCloseBillsOnce ==
    pc["main"] = "done" /\ wokenBy = "target" /\ ~refused =>
        /\ charged \in reported .. reported + counted
        /\ usedQuota <= charged

Largest(S) == CHOOSE m \in S : \A n \in S : n <= m

(* However the session ends, at most the last report is billed twice, by    *)
(* the reader and by main, and the user and the token are charged alike.    *)
DoubleBillingIsBounded ==
    /\ charged <= reported + 2 * counted + Largest(Reports)
    /\ pc["main"] = "done" /\ pc["target"] = "exited" =>
           TokenQuota - tokenQuota = UserQuota - userQuota

(* Once a connection has ended, the handler returns: nothing it waits for   *)
(* can be missing.                                                          *)
SessionEnds == (clientClosed \/ targetClosed \/ errors > 0) ~> (pc["main"] = "done")

(* relay-openai.go clears the usage because the "billing of this time is    *)
(* complete" (line 458): no usage would be billed a second time.            *)
UsageIsBilledOnce == charged <= reported + counted

(* service/quota.go, PostWssConsumeQuota: "we cannot just return, because   *)
(* we may have to return the pre-consumed quota".  A session that used      *)
(* nothing would cost its user nothing.                                     *)
UnusedHoldIsReturned ==
    pc["main"] = "done" /\ pc["target"] = "exited" /\ sumUsage = 0 =>
        Held + (UserQuota - userQuota) = 0
=============================================================================
