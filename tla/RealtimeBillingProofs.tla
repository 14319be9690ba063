----------------------- MODULE RealtimeBillingProofs -----------------------
(***************************************************************************)
(* Proofs about RealtimeBilling, for sessions of any length, any reports   *)
(* and any quotas.                                                         *)
(***************************************************************************)
EXTENDS RealtimeBilling, TLAPS

(* A biller has not yet taken what it bills from the user. *)
BeforeDebit(b) == pc[b] \in {"sum", "check", "debitUser"}
AfterDebit(b) == pc[b] \in {"debitToken", "billed"}
Calls(b) == BeforeDebit(b) \/ AfterDebit(b) \/ pc[b] = "refused"

(* Every variable stays in its type, and errors come from readers that ended. *)
Typed ==
    /\ TypeOK
    /\ pc \in [Billers -> TargetLocations \cup MainLocations]
    /\ errors <= (IF client = "exited" THEN 1 ELSE 0)
                   + (IF pc["target"] = "exited" THEN 1 ELSE 0)

(* What usage and localUsage can hold: the last report while the target's   *)
(* reader bills it, or after a refusal; what was counted at most.           *)
UsageIsLast ==
    /\ usage <= Largest(Reports)
    /\ pc["target"] = "read" => usage = 0
    /\ Calls("target") /\ bill["target"] = "local" => usage = 0
    /\ targetClosed => pc["target"] = "exited" /\ usage = 0
    /\ localUsage <= counted
    /\ pc["target"] \in {"sum", "check"} /\ bill["target"] = "local" =>
           arg["target"] <= localUsage
    /\ BeforeDebit("main") =>
           IF bill["main"] = "usage" THEN arg["main"] <= Largest(Reports)
                                     ELSE arg["main"] <= counted

(* What woke main, and what it bills after the upstream's close. *)
WakesOnce ==
    /\ wokenBy = "none" <=> pc["main"] = "wait"
    /\ wokenBy = "target" =>
           /\ targetClosed
           /\ Calls("main") => bill["main"] = "local"
           /\ pc["main"] \in {"sum", "check"} => arg["main"] <= localUsage

(* What the target's reader may still charge without a further message. *)
TargetOwes ==
    IF bill["target"] = "usage"
    THEN localUsage + IF BeforeDebit("target") THEN arg["target"] ELSE 0
    ELSE IF pc["target"] = "debitUser" THEN arg["target"]
    ELSE IF AfterDebit("target") THEN 0 ELSE localUsage

(* What main may still charge, of the last report and of what was counted. *)
MainOwes ==
    IF pc["main"] \in {"wait", "usage"} \/ (BeforeDebit("main") /\ bill["main"] = "usage")
    THEN Largest(Reports) + counted
    ELSE IF pc["main"] = "local" \/ BeforeDebit("main")
            \/ (Calls("main") /\ bill["main"] = "usage")
    THEN counted ELSE 0

(* What a session that the upstream closes may still charge. *)
ClosingOwes ==
    IF wokenBy = "none" THEN TargetOwes
    ELSE IF pc["main"] \in {"usage", "local", "sum", "check"} THEN localUsage
    ELSE IF pc["main"] = "debitUser" THEN arg["main"] ELSE 0

DoubleBound == charged + TargetOwes + MainOwes <= reported + 2 * counted + Largest(Reports)

OnceBound ==
    wokenBy \in {"none", "target"} => charged + ClosingOwes <= reported + counted

(* User and token are charged alike, but for the debits in between. *)
TokenOwed(b) == IF pc[b] = "debitToken" THEN arg[b] ELSE 0
Alike ==
    UserQuota - userQuota = TokenQuota - tokenQuota + TokenOwed("target") + TokenOwed("main")

(* Without a refusal every report is charged, and all that was added to     *)
(* sumUsage as well.                                                        *)
ReportOwed == IF BeforeDebit("target") /\ bill["target"] = "usage" THEN arg["target"] ELSE 0
SumOwed(b) == IF pc[b] \in {"check", "debitUser"} THEN arg[b] ELSE 0
Covered ==
    ~refused => /\ reported <= charged + ReportOwed
                /\ sumUsage <= charged + SumOwed("target") + SumOwed("main")

UsedIsCharged ==
    /\ pc["main"] # "done" => usedQuota = 0
    /\ pc["main"] = "done" /\ wokenBy = "target" /\ ~refused => usedQuota <= charged

Inv ==
    /\ Typed /\ UsageIsLast /\ WakesOnce
    /\ DoubleBound /\ OnceBound /\ Alike /\ Covered /\ UsedIsCharged

-----------------------------------------------------------------------------
LEMMA LargestReport == /\ Largest(Reports) \in Nat \ {0}
                       /\ \A v \in Reports : v <= Largest(Reports)
<1>1. PICK m \in Reports : \A n \in Reports : n <= m
  BY RealtimeAssumption
<1>2. Largest(Reports) \in Reports /\ \A n \in Reports : n <= Largest(Reports)
  BY <1>1 DEF Largest
<1> QED
  BY <1>2, RealtimeAssumption

(* The invariant holds at the start. *)
LEMMA InitInv ==
    ASSUME Init PROVE Inv
<1> USE RealtimeAssumption, LargestReport DEF Init, Billers, BeforeDebit, AfterDebit, Calls
<1>1. TypeOK
  <2>1. clientClosed \in BOOLEAN /\ targetClosed \in BOOLEAN /\ refused \in BOOLEAN
    BY DEF Init
  <2> QED
    BY <2>1 DEF TypeOK, TargetLocations, MainLocations
<1>2. Typed
  BY <1>1 DEF Typed, TargetLocations, MainLocations
<1>3. UsageIsLast /\ WakesOnce
  BY DEF UsageIsLast, WakesOnce
<1>4. DoubleBound /\ OnceBound
  BY DEF DoubleBound, OnceBound, TargetOwes, MainOwes, ClosingOwes
<1>5. Alike /\ Covered /\ UsedIsCharged
  BY DEF Alike, Covered, UsedIsCharged, TokenOwed, ReportOwed, SumOwed
<1> QED
  BY <1>2, <1>3, <1>4, <1>5 DEF Inv

-----------------------------------------------------------------------------
(* Every step, in terms of the values of the two billers. *)

USE DEF quotaVars, usageVars, totalVars, billVars, connVars, historyVars,
        BeforeDebit, AfterDebit, Calls, TargetOwes, MainOwes, ClosingOwes, TokenOwed,
        ReportOwed, SumOwed, Goto, StartBilling, TargetReads, Count

(* preConsumeUsage, run by either biller. *)
LEMMA SumStep ==
    ASSUME Inv, NEW b \in Billers, Sum(b)
    PROVE  Inv'
<1> USE RealtimeAssumption, LargestReport DEF Inv, Typed, TypeOK, Billers
<1>1. Typed'
  BY DEF Sum, TargetLocations, MainLocations
<1>2. UsageIsLast' /\ WakesOnce'
  BY DEF Sum, UsageIsLast, WakesOnce
<1>3. DoubleBound'
  BY DEF Sum, UsageIsLast, DoubleBound
<1>4. OnceBound'
  BY DEF Sum, UsageIsLast, WakesOnce, OnceBound
<1>5. Alike' /\ Covered' /\ UsedIsCharged'
  BY DEF Sum, UsageIsLast, WakesOnce, Alike, Covered, UsedIsCharged
<1> QED
  BY <1>1, <1>2, <1>3, <1>4, <1>5

LEMMA CheckStep ==
    ASSUME Inv, NEW b \in Billers, Check(b)
    PROVE  Inv'
<1> USE RealtimeAssumption, LargestReport DEF Inv, Typed, TypeOK, Billers
<1>1. Typed'
  <2>1. refused' \in BOOLEAN
    BY DEF Check
  <2> QED
    BY <2>1 DEF Check, TargetLocations, MainLocations
<1>2. UsageIsLast' /\ WakesOnce'
  BY DEF Check, UsageIsLast, WakesOnce
<1>3. DoubleBound'
  BY DEF Check, UsageIsLast, DoubleBound
<1>4. OnceBound'
  BY DEF Check, UsageIsLast, WakesOnce, OnceBound
<1>5. Alike' /\ Covered' /\ UsedIsCharged'
  BY DEF Check, UsageIsLast, WakesOnce, Alike, Covered, UsedIsCharged
<1> QED
  BY <1>1, <1>2, <1>3, <1>4, <1>5

LEMMA DebitUserStep ==
    ASSUME Inv, NEW b \in Billers, DebitUser(b)
    PROVE  Inv'
<1> USE RealtimeAssumption, LargestReport DEF Inv, Typed, TypeOK, Billers
<1>1. Typed'
  BY DEF DebitUser, TargetLocations, MainLocations
<1>2. UsageIsLast' /\ WakesOnce'
  BY DEF DebitUser, UsageIsLast, WakesOnce
<1>3. DoubleBound'
  BY DEF DebitUser, UsageIsLast, DoubleBound
<1>4. OnceBound'
  BY DEF DebitUser, UsageIsLast, WakesOnce, OnceBound
<1>5. Alike' /\ Covered' /\ UsedIsCharged'
  BY DEF DebitUser, UsageIsLast, WakesOnce, Alike, Covered, UsedIsCharged
<1> QED
  BY <1>1, <1>2, <1>3, <1>4, <1>5

LEMMA DebitTokenStep ==
    ASSUME Inv, NEW b \in Billers, DebitToken(b)
    PROVE  Inv'
<1> USE RealtimeAssumption, LargestReport DEF Inv, Typed, TypeOK, Billers
<1>1. Typed'
  BY DEF DebitToken, TargetLocations, MainLocations
<1>2. UsageIsLast' /\ WakesOnce'
  BY DEF DebitToken, UsageIsLast, WakesOnce
<1>3. DoubleBound'
  BY DEF DebitToken, UsageIsLast, DoubleBound
<1>4. OnceBound'
  BY DEF DebitToken, UsageIsLast, WakesOnce, OnceBound
<1>5. Alike' /\ Covered' /\ UsedIsCharged'
  BY DEF DebitToken, UsageIsLast, WakesOnce, Alike, Covered, UsedIsCharged
<1> QED
  BY <1>1, <1>2, <1>3, <1>4, <1>5

(* The target's reader. *)
LEMMA ReportStep ==
    ASSUME Inv, NEW v \in Reports, TargetReport(v)
    PROVE  Inv'
<1> USE RealtimeAssumption, LargestReport DEF Inv, Typed, TypeOK, Billers
<1>1. Typed'
  BY DEF TargetReport, TargetLocations, MainLocations
<1>2. UsageIsLast' /\ WakesOnce'
  BY DEF TargetReport, UsageIsLast, WakesOnce
<1>3. DoubleBound'
  BY DEF TargetReport, UsageIsLast, DoubleBound
<1>4. OnceBound'
  BY DEF TargetReport, UsageIsLast, WakesOnce, OnceBound
<1>5. Alike' /\ Covered' /\ UsedIsCharged'
  BY DEF TargetReport, UsageIsLast, WakesOnce, Alike, Covered, UsedIsCharged
<1> QED
  BY <1>1, <1>2, <1>3, <1>4, <1>5

LEMMA DoneStep ==
    ASSUME Inv, NEW n \in Counts, TargetDone(n)
    PROVE  Inv'
<1> USE RealtimeAssumption, LargestReport DEF Inv, Typed, TypeOK, Billers
<1>1. Typed'
  BY DEF TargetDone, TargetLocations, MainLocations
<1>2. UsageIsLast' /\ WakesOnce'
  BY DEF TargetDone, UsageIsLast, WakesOnce
<1>3. DoubleBound'
  BY DEF TargetDone, UsageIsLast, DoubleBound
<1>4. OnceBound'
  BY DEF TargetDone, UsageIsLast, WakesOnce, OnceBound
<1>5. Alike' /\ Covered' /\ UsedIsCharged'
  BY DEF TargetDone, UsageIsLast, WakesOnce, Alike, Covered, UsedIsCharged
<1> QED
  BY <1>1, <1>2, <1>3, <1>4, <1>5

LEMMA OutputStep ==
    ASSUME Inv, NEW n \in Counts, TargetOutput(n)
    PROVE  Inv'
<1> USE RealtimeAssumption, LargestReport DEF Inv, Typed, TypeOK, Billers
<1>1. Typed'
  BY DEF TargetOutput, TargetLocations, MainLocations
<1>2. UsageIsLast' /\ WakesOnce'
  BY DEF TargetOutput, UsageIsLast, WakesOnce
<1>3. DoubleBound'
  BY DEF TargetOutput, UsageIsLast, DoubleBound
<1>4. OnceBound'
  BY DEF TargetOutput, UsageIsLast, WakesOnce, OnceBound
<1>5. Alike' /\ Covered' /\ UsedIsCharged'
  BY DEF TargetOutput, UsageIsLast, WakesOnce, Alike, Covered, UsedIsCharged
<1> QED
  BY <1>1, <1>2, <1>3, <1>4, <1>5

LEMMA BilledStep ==
    ASSUME Inv, TargetBilled
    PROVE  Inv'
<1> USE RealtimeAssumption, LargestReport DEF Inv, Typed, TypeOK, Billers
<1>1. Typed'
  BY DEF TargetBilled, TargetLocations, MainLocations
<1>2. UsageIsLast' /\ WakesOnce'
  BY DEF TargetBilled, UsageIsLast, WakesOnce
<1>3. DoubleBound'
  BY DEF TargetBilled, UsageIsLast, DoubleBound
<1>4. OnceBound'
  BY DEF TargetBilled, UsageIsLast, WakesOnce, OnceBound
<1>5. Alike' /\ Covered' /\ UsedIsCharged'
  BY DEF TargetBilled, UsageIsLast, WakesOnce, Alike, Covered, UsedIsCharged
<1> QED
  BY <1>1, <1>2, <1>3, <1>4, <1>5

LEMMA RefusedStep ==
    ASSUME Inv, TargetRefused
    PROVE  Inv'
<1> USE RealtimeAssumption, LargestReport DEF Inv, Typed, TypeOK, Billers
<1>1. Typed'
  BY DEF TargetRefused, TargetLocations, MainLocations
<1>2. UsageIsLast' /\ WakesOnce'
  BY DEF TargetRefused, UsageIsLast, WakesOnce
<1>3. DoubleBound'
  BY DEF TargetRefused, UsageIsLast, DoubleBound
<1>4. OnceBound'
  BY DEF TargetRefused, UsageIsLast, WakesOnce, OnceBound
<1>5. Alike' /\ Covered' /\ UsedIsCharged'
  BY DEF TargetRefused, UsageIsLast, WakesOnce, Alike, Covered, UsedIsCharged
<1> QED
  BY <1>1, <1>2, <1>3, <1>4, <1>5

LEMMA EndsStep ==
    ASSUME Inv, TargetEnds
    PROVE  Inv'
<1> USE RealtimeAssumption, LargestReport DEF Inv, Typed, TypeOK, Billers
<1>1. Typed'
  <2>1. targetClosed' \in BOOLEAN
    BY DEF TargetEnds
  <2> QED
    BY <2>1 DEF TargetEnds, TargetLocations, MainLocations
<1>2. UsageIsLast' /\ WakesOnce'
  BY DEF TargetEnds, UsageIsLast, WakesOnce
<1>3. DoubleBound'
  BY DEF TargetEnds, UsageIsLast, DoubleBound
<1>4. OnceBound'
  BY DEF TargetEnds, UsageIsLast, WakesOnce, OnceBound
<1>5. Alike' /\ Covered' /\ UsedIsCharged'
  BY DEF TargetEnds, UsageIsLast, WakesOnce, Alike, Covered, UsedIsCharged
<1> QED
  BY <1>1, <1>2, <1>3, <1>4, <1>5

(* The client's reader. *)
LEMMA InputStep ==
    ASSUME Inv, NEW n \in Counts, ClientInput(n)
    PROVE  Inv'
<1> USE RealtimeAssumption, LargestReport DEF Inv, Typed, TypeOK, Billers
<1>1. Typed'
  BY DEF ClientInput, TargetRuns, TargetLocations, MainLocations
<1>2. UsageIsLast' /\ WakesOnce'
  BY DEF ClientInput, TargetRuns, UsageIsLast, WakesOnce
<1>3. DoubleBound'
  BY DEF ClientInput, TargetRuns, UsageIsLast, DoubleBound
<1>4. OnceBound'
  BY DEF ClientInput, TargetRuns, UsageIsLast, WakesOnce, OnceBound
<1>5. Alike' /\ Covered' /\ UsedIsCharged'
  BY DEF ClientInput, TargetRuns, UsageIsLast, WakesOnce, Alike, Covered, UsedIsCharged
<1> QED
  BY <1>1, <1>2, <1>3, <1>4, <1>5

LEMMA ClientEndsStep ==
    ASSUME Inv, ClientEnds
    PROVE  Inv'
<1> USE RealtimeAssumption, LargestReport DEF Inv, Typed, TypeOK, Billers
<1>1. Typed'
  <2>1. clientClosed' \in BOOLEAN
    BY DEF ClientEnds
  <2> QED
    BY <2>1 DEF ClientEnds, TargetLocations, MainLocations
<1>2. UsageIsLast' /\ WakesOnce'
  BY DEF ClientEnds, UsageIsLast, WakesOnce
<1>3. DoubleBound'
  BY DEF ClientEnds, UsageIsLast, DoubleBound
<1>4. OnceBound'
  BY DEF ClientEnds, UsageIsLast, WakesOnce, OnceBound
<1>5. Alike' /\ Covered' /\ UsedIsCharged'
  BY DEF ClientEnds, UsageIsLast, WakesOnce, Alike, Covered, UsedIsCharged
<1> QED
  BY <1>1, <1>2, <1>3, <1>4, <1>5

(* main. *)
LEMMA WakesStep ==
    ASSUME Inv, MainWakes
    PROVE  Inv'
<1> USE RealtimeAssumption, LargestReport DEF Inv, Typed, TypeOK, Billers
<1>1. Typed'
  BY DEF MainWakes, TargetLocations, MainLocations
<1>2. UsageIsLast' /\ WakesOnce'
  BY DEF MainWakes, UsageIsLast, WakesOnce
<1>3. DoubleBound'
  BY DEF MainWakes, UsageIsLast, DoubleBound
<1>4. OnceBound'
  BY DEF MainWakes, UsageIsLast, WakesOnce, OnceBound
<1>5. Alike' /\ Covered' /\ UsedIsCharged'
  BY DEF MainWakes, UsageIsLast, WakesOnce, Alike, Covered, UsedIsCharged
<1> QED
  BY <1>1, <1>2, <1>3, <1>4, <1>5

LEMMA BillsUsageStep ==
    ASSUME Inv, MainBillsUsage
    PROVE  Inv'
<1> USE RealtimeAssumption, LargestReport DEF Inv, Typed, TypeOK, Billers
<1>1. Typed'
  BY DEF MainBillsUsage, TargetLocations, MainLocations
<1>2. UsageIsLast' /\ WakesOnce'
  BY DEF MainBillsUsage, UsageIsLast, WakesOnce
<1>3. DoubleBound'
  BY DEF MainBillsUsage, UsageIsLast, DoubleBound
<1>4. OnceBound'
  BY DEF MainBillsUsage, UsageIsLast, WakesOnce, OnceBound
<1>5. Alike' /\ Covered' /\ UsedIsCharged'
  BY DEF MainBillsUsage, UsageIsLast, WakesOnce, Alike, Covered, UsedIsCharged
<1> QED
  BY <1>1, <1>2, <1>3, <1>4, <1>5

LEMMA BillsLocalStep ==
    ASSUME Inv, MainBillsLocal
    PROVE  Inv'
<1> USE RealtimeAssumption, LargestReport DEF Inv, Typed, TypeOK, Billers
<1>1. Typed'
  BY DEF MainBillsLocal, TargetLocations, MainLocations
<1>2. UsageIsLast' /\ WakesOnce'
  BY DEF MainBillsLocal, UsageIsLast, WakesOnce
<1>3. DoubleBound'
  BY DEF MainBillsLocal, UsageIsLast, DoubleBound
<1>4. OnceBound'
  BY DEF MainBillsLocal, UsageIsLast, WakesOnce, OnceBound
<1>5. Alike' /\ Covered' /\ UsedIsCharged'
  BY DEF MainBillsLocal, UsageIsLast, WakesOnce, Alike, Covered, UsedIsCharged
<1> QED
  BY <1>1, <1>2, <1>3, <1>4, <1>5

LEMMA MainBilledStep ==
    ASSUME Inv, MainBilled
    PROVE  Inv'
<1> USE RealtimeAssumption, LargestReport DEF Inv, Typed, TypeOK, Billers
<1>1. Typed'
  BY DEF MainBilled, TargetLocations, MainLocations
<1>2. UsageIsLast' /\ WakesOnce'
  BY DEF MainBilled, UsageIsLast, WakesOnce
<1>3. DoubleBound'
  BY DEF MainBilled, UsageIsLast, DoubleBound
<1>4. OnceBound'
  BY DEF MainBilled, UsageIsLast, WakesOnce, OnceBound
<1>5. Alike' /\ Covered' /\ UsedIsCharged'
  BY DEF MainBilled, UsageIsLast, WakesOnce, Alike, Covered, UsedIsCharged
<1> QED
  BY <1>1, <1>2, <1>3, <1>4, <1>5

LEMMA PostStep ==
    ASSUME Inv, PostWssConsumeQuota
    PROVE  Inv'
<1> USE RealtimeAssumption, LargestReport DEF Inv, Typed, TypeOK, Billers
<1>1. Typed'
  BY DEF PostWssConsumeQuota, TargetLocations, MainLocations
<1>2. UsageIsLast' /\ WakesOnce'
  BY DEF PostWssConsumeQuota, UsageIsLast, WakesOnce
<1>3. DoubleBound'
  BY DEF PostWssConsumeQuota, UsageIsLast, DoubleBound
<1>4. OnceBound'
  BY DEF PostWssConsumeQuota, UsageIsLast, WakesOnce, OnceBound
<1>5. Alike' /\ Covered' /\ UsedIsCharged'
  BY DEF PostWssConsumeQuota, UsageIsLast, WakesOnce, Alike, Covered, UsedIsCharged
<1> QED
  BY <1>1, <1>2, <1>3, <1>4, <1>5

-----------------------------------------------------------------------------
LEMMA InvStep ==
    ASSUME Inv, [Next]_vars
    PROVE  Inv'
<1>1. CASE UNCHANGED vars
  BY <1>1 DEF vars, Inv, Typed, TypeOK, UsageIsLast, WakesOnce, DoubleBound, OnceBound, Alike,
              Covered, UsedIsCharged
<1>2. ASSUME NEW b \in Billers, Billing(b) PROVE Inv'
  BY <1>2, SumStep, CheckStep, DebitUserStep, DebitTokenStep DEF Billing
<1>3. CASE Target
  BY <1>2, <1>3, ReportStep, DoneStep, OutputStep, BilledStep, RefusedStep, EndsStep
     DEF Target, Billers
<1>4. CASE Client
  BY <1>4, InputStep, ClientEndsStep DEF Client
<1>5. CASE Main
  BY <1>2, <1>5, WakesStep, BillsUsageStep, BillsLocalStep, MainBilledStep, PostStep
     DEF Main, Billers
<1> QED
  BY <1>1, <1>3, <1>4, <1>5 DEF Next

LEMMA Invariance == Spec => []Inv
<1>1. Init => Inv
  BY InitInv
<1>2. Inv /\ [Next]_vars => Inv'
  BY InvStep
<1> QED
  BY <1>1, <1>2, PTL DEF Spec

(* Type correctness; errChan never holds more errors than its capacity, so  *)
(* that no reader blocks on it when it ends.                                *)
THEOREM TypeCorrect == Spec => []TypeOK
<1>1. Inv => TypeOK
  BY DEF Inv, Typed
<1> QED
  BY <1>1, Invariance, PTL

(* A session that the upstream closes is billed once: whatever the three    *)
(* goroutines do to usage and localUsage, every report is charged, at most  *)
(* what was counted locally is charged on top of it, and users.used_quota   *)
(* shows no more than the charge.                                           *)
THEOREM ClosedByTargetBillsOnce == Spec => []TargetCloseBillsOnce
<1>1. Inv => TargetCloseBillsOnce
  BY DEF Inv, Typed, TypeOK, UsageIsLast, WakesOnce, OnceBound, Covered, UsedIsCharged,
         TargetCloseBillsOnce
<1> QED
  BY <1>1, Invariance, PTL

(* However a session ends, the double billing of OpenaiRealtimeHandler and  *)
(* its reader amounts to the largest report and what was counted locally,   *)
(* and the token is charged what the user is.                               *)
THEOREM DoubleBillingBounded == Spec => []DoubleBillingIsBounded
<1>1. ASSUME Inv PROVE charged <= reported + 2 * counted + Largest(Reports)
  <2>1. TargetOwes >= 0 /\ MainOwes >= 0
    BY <1>1, LargestReport DEF Inv, Typed, TypeOK, Billers
  <2>2. TargetOwes \in Int /\ MainOwes \in Int
    BY <1>1, LargestReport DEF Inv, Typed, TypeOK, Billers
  <2> QED
    BY <1>1, <2>1, <2>2, LargestReport DEF Inv, Typed, TypeOK, DoubleBound
<1>2. ASSUME Inv, pc["main"] = "done", pc["target"] = "exited"
      PROVE  TokenQuota - tokenQuota = UserQuota - userQuota
  BY <1>2, RealtimeAssumption DEF Inv, Typed, TypeOK, Alike
<1>3. Inv => DoubleBillingIsBounded
  BY <1>1, <1>2 DEF DoubleBillingIsBounded
<1> QED
  BY <1>3, Invariance, PTL
=============================================================================
