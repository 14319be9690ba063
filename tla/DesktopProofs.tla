--------------------------- MODULE DesktopProofs ---------------------------
(* Theorems about Desktop, for any number of retries, windows and requests  *)
(* to quit.                                                                 *)
EXTENDS Desktop, TLAPS

-----------------------------------------------------------------------------
(* How many probes there can be.                                            *)

(* A request ends with at most two events, one if its timeout has fired,    *)
(* and an event adds at most one attempt: what is scheduled and what the    *)
(* open requests can still add was paid for by the attempts so far.         *)
ProbesArePaidFor ==
    /\ attempt \in Nat /\ waiting \in Nat /\ requests \in Nat /\ destroyed \in Nat
    /\ waiting + 2 * requests + destroyed <= 1 + attempt
ProbeInv == ProbesArePaidFor /\ ProbesAreBounded

(* An event of a request below the limit schedules one attempt.             *)
LEMMA RetryAdds ==
    ASSUME Retry
    PROVE  \/ waiting' = waiting
           \/ waiting' = waiting + 1 /\ ~(attempt >= MaxRetries)
  BY DEF Retry

(* Every step keeps the account of the probes.                              *)
LEMMA NextProbeInv ==
    ASSUME ProbeInv, [Next]_vars PROVE ProbeInv'
<1>. USE DesktopAssumption DEF ProbeInv, ProbesArePaidFor, ProbesAreBounded
<1>1. CASE TryConnect
  BY <1>1 DEF TryConnect
<1>2. CASE ProbeAnswered
  BY <1>2 DEF ProbeAnswered
<1>3. CASE ProbeFails
  BY <1>3, RetryAdds DEF ProbeFails
<1>4. CASE ProbeTimesOut
  BY <1>4, RetryAdds DEF ProbeTimesOut
<1>5. CASE UNCHANGED probe
  BY <1>5 DEF probe
<1>6. \/ TryConnect \/ ProbeAnswered \/ ProbeFails \/ ProbeTimesOut \/ UNCHANGED probe
  BY DEF Next, Probing, vars, ServerListens, ServerEnds, SpawnFails, ServerClosed,
         UserClosesWindow, TrayShow, TrayClick, Activate, TrayQuit, SystemQuit,
         ViewLog, DialogQuit, KillTimer
<1>. QED
  BY <1>1, <1>2, <1>3, <1>4, <1>5, <1>6

(* checkServerAvailability tries fewer than twice maxRetries times.         *)
THEOREM ProbesEnd == Spec => []ProbesAreBounded
<1>1. Init => ProbeInv
  BY DesktopAssumption DEF Init, ProbeInv, ProbesArePaidFor, ProbesAreBounded
<1>2. ProbeInv => ProbesAreBounded
  BY DEF ProbeInv
<1>. QED
  BY <1>1, <1>2, NextProbeInv, PTL DEF Spec

-----------------------------------------------------------------------------
(* What becomes of the server.                                              *)

(* A 'close' event is of a process that has ended, and nothing happens      *)
(* after the application has left.                                          *)
ServerInv ==
    /\ NoOrphanServer
    /\ server \in {"none", "booting", "up", "terminating", "killed", "dead"}
    /\ exitCode # "none" => server = "dead"

(* Every step keeps what is known of the server.                            *)
LEMMA NextServerInv ==
    ASSUME ServerInv, [Next]_vars PROVE ServerInv'
<1>. USE DEF ServerInv, NoOrphanServer
<1>1. CASE KillTimer
  BY <1>1 DEF KillTimer, Alive
<1>2. CASE ServerClosed
  BY <1>2 DEF ServerClosed
<1>3. ASSUME NEW quitting, BeforeQuit(quitting), UNCHANGED exitCode, ~exited
      PROVE  ServerInv'
  BY <1>3 DEF BeforeQuit, Alive
<1>4. CASE ~exited /\ (ServerListens \/ ServerEnds \/ SpawnFails)
  <2>1. CASE ServerListens
    BY <1>4, <2>1 DEF ServerListens
  <2>2. CASE ServerEnds
    BY <1>4, <2>2 DEF ServerEnds
  <2>3. CASE SpawnFails
    BY <1>4, <2>3 DEF SpawnFails
  <2>. QED
    BY <1>4, <2>1, <2>2, <2>3
<1>5. CASE UNCHANGED <<server, exitCode, exited>>
  BY <1>5
<1>6. CASE ~exited /\ (TrayQuit \/ SystemQuit \/ \E d \in dialogs : DialogQuit(d))
  BY <1>3, <1>6 DEF TrayQuit, SystemQuit, DialogQuit
<1>7. \/ KillTimer \/ ServerClosed
      \/ ~exited /\ (ServerListens \/ ServerEnds \/ SpawnFails)
      \/ ~exited /\ (TrayQuit \/ SystemQuit \/ \E d \in dialogs : DialogQuit(d))
      \/ UNCHANGED <<server, exitCode, exited>>
  BY DEF Next, Probing, vars, TryConnect, ProbeAnswered, ProbeFails, ProbeTimesOut,
         UserClosesWindow, TrayShow, TrayClick, Activate, ViewLog
<1>. QED
  BY <1>1, <1>2, <1>4, <1>5, <1>6, <1>7

(* However the application ends, its server has ended or was killed.        *)
THEOREM ServerIsStopped == Spec => []NoOrphanServer
<1>1. Init => ServerInv
  BY DEF Init, ServerInv, NoOrphanServer
<1>2. ServerInv => NoOrphanServer
  BY DEF ServerInv
<1>. QED
  BY <1>1, <1>2, NextServerInv, PTL DEF Spec

-----------------------------------------------------------------------------
(* The windows: mainWindow is 0 or a window that exists.                    *)
WindowsOK ==
    /\ window \in [Windows -> {"absent", "shown", "hidden"}]
    /\ mainWindow \in Open \union {0}

(* A window made, closed, shown or hidden leaves no reference behind.       *)
LEMMA WindowSteps ==
    ASSUME WindowsOK
    PROVE  /\ CreateWindow => WindowsOK'
           /\ \A w \in Windows : CloseWindow(w) => WindowsOK'
           /\ \A q : BeforeQuit(q) /\ UNCHANGED mainWindow => WindowsOK'
           /\ TrayShow \/ TrayClick => WindowsOK'
<1>. USE DEF WindowsOK, Open
<1>1. CreateWindow => WindowsOK'
  BY DEF CreateWindow
<1>2. ASSUME NEW state \in {"shown", "hidden"}, UNCHANGED mainWindow,
             window' = [window EXCEPT ![mainWindow] = state]
      PROVE  WindowsOK'
  BY <1>2
<1>3. ASSUME NEW w \in Windows, CloseWindow(w) PROVE WindowsOK'
  BY <1>2, <1>3 DEF CloseWindow
<1>4. ASSUME NEW q, BeforeQuit(q), UNCHANGED mainWindow PROVE WindowsOK'
  BY <1>2, <1>4 DEF BeforeQuit
<1>5. ASSUME TrayShow \/ TrayClick PROVE WindowsOK'
  BY <1>1, <1>2, <1>5 DEF TrayShow, TrayClick
<1>. QED
  BY <1>1, <1>3, <1>4, <1>5

(* Every step keeps the references to windows.                              *)
LEMMA NextWindowsOK ==
    ASSUME DesktopAssumption, WindowsOK, [Next]_vars PROVE WindowsOK'
<1>1. CASE UNCHANGED ui
  BY <1>1 DEF ui, WindowsOK, Open
<1>2. CASE CreateWindow
  BY <1>2, WindowSteps
<1>3. CASE \E w \in Windows : CloseWindow(w)
  BY <1>3, WindowSteps
<1>4. CASE (\E q : BeforeQuit(q)) /\ UNCHANGED mainWindow
  BY <1>4, WindowSteps
<1>5. CASE TrayShow \/ TrayClick
  BY <1>5, WindowSteps
<1>6. CASE ServerClosed
  <2>1. mainWindow \in Windows \/ mainWindow = 0
    BY DEF WindowsOK, Open
  <2>. QED
    BY <1>1, <1>3, <1>6, <2>1 DEF ServerClosed, ui
<1>7. ASSUME TrayQuit \/ SystemQuit \/ \E d \in dialogs : DialogQuit(d)
      PROVE  (\E q : BeforeQuit(q)) /\ UNCHANGED mainWindow
  BY <1>7 DEF TrayQuit, SystemQuit, DialogQuit
<1>. QED
  BY <1>1, <1>2, <1>3, <1>4, <1>5, <1>6, <1>7
  DEF Next, Probing, vars, ui, TryConnect, ProbeAnswered, ProbeFails, ProbeTimesOut,
      ServerListens, ServerEnds, SpawnFails, UserClosesWindow, Activate, ViewLog, KillTimer

(* The flags.                                                               *)
FlagsOK ==
    /\ isDev \in BOOLEAN /\ other \in BOOLEAN /\ tray \in BOOLEAN
    /\ isQuitting \in BOOLEAN /\ exited \in BOOLEAN

LEMMA NextFlagsOK ==
    ASSUME FlagsOK, [Next]_vars PROVE FlagsOK'
<1>. USE DEF FlagsOK, env
<1>1. CASE TryConnect \/ ProbeAnswered \/ ProbeFails \/ ProbeTimesOut
  BY <1>1, Zenon DEF TryConnect, ProbeAnswered, ProbeFails, ProbeTimesOut
<1>2. CASE ServerListens \/ ServerEnds \/ SpawnFails
  BY <1>2, Zenon DEF ServerListens, ServerEnds, SpawnFails
<1>3. CASE ServerClosed
  <2>1. exited' \in BOOLEAN
    BY <1>3, SMT DEF ServerClosed
  <2>. QED
    BY <1>3, <2>1, Zenon DEF ServerClosed
<1>4. CASE (\E w \in Windows : UserClosesWindow(w)) \/ TrayShow \/ TrayClick \/ Activate
  BY <1>4, Zenon DEF UserClosesWindow, TrayShow, TrayClick, Activate
<1>5. ASSUME NEW q, BeforeQuit(q) PROVE exited' \in BOOLEAN
  BY <1>5, Zenon DEF BeforeQuit
<1>6. CASE TrayQuit
  BY <1>5, <1>6, Zenon DEF TrayQuit
<1>7. CASE SystemQuit
  BY <1>5, <1>7, Zenon DEF SystemQuit
<1>8. CASE \E d \in dialogs : ViewLog(d)
  BY <1>8, Zenon DEF ViewLog
<1>9. CASE \E d \in dialogs : DialogQuit(d)
  BY <1>5, <1>9, Zenon DEF DialogQuit
<1>10. CASE KillTimer
  BY <1>10, Zenon DEF KillTimer
<1>11. CASE UNCHANGED vars
  BY <1>11, Zenon DEF vars
<1>. QED
  BY <1>1, <1>2, <1>3, <1>4, <1>6, <1>7, <1>8, <1>9, <1>10, <1>11, Zenon
  DEF Next, Probing

(* The event to come, the promise and the message boxes.                    *)
EventsOK ==
    /\ exitCode \in {"none", "zero or null", "other"}
    /\ start \in {"pending", "resolved", "rejected"}
    /\ dialogs \subseteq {"failed", "crashed", "crash saved", "failure saved"}

LEMMA NextEventsOK ==
    ASSUME EventsOK, [Next]_vars PROVE EventsOK'
<1>. USE DEF EventsOK
<1>1. CASE TryConnect \/ ProbeAnswered
  BY <1>1 DEF TryConnect, ProbeAnswered
<1>2. CASE ProbeFails \/ ProbeTimesOut
  BY <1>2 DEF ProbeFails, ProbeTimesOut, Retry, Reject
<1>3. CASE ServerListens \/ ServerEnds \/ ServerClosed
  BY <1>3 DEF ServerListens, ServerEnds, ServerClosed
<1>4. CASE SpawnFails
  BY <1>4 DEF SpawnFails, Reject
<1>5. CASE TrayQuit \/ SystemQuit \/ \E d \in dialogs : DialogQuit(d)
  BY <1>5, Zenon DEF TrayQuit, SystemQuit, DialogQuit
<1>6. CASE \E d \in dialogs : ViewLog(d)
  BY <1>6 DEF ViewLog
<1>7. CASE UNCHANGED <<exitCode, start, dialogs>>
  BY <1>7
<1>. QED
  BY <1>1, <1>2, <1>3, <1>4, <1>5, <1>6, <1>7
  DEF Next, Probing, vars, UserClosesWindow, TrayShow, TrayClick, Activate, KillTimer

(* The timers of before-quit.                                               *)
TimersOK == killTimers \in Nat

LEMMA NextTimersOK ==
    ASSUME TimersOK, [Next]_vars PROVE TimersOK'
<1>1. \A q : BeforeQuit(q) => killTimers' \in {killTimers, killTimers + 1}
  BY Zenon DEF BeforeQuit
<1>2. killTimers' \in {killTimers, killTimers + 1}
  BY <1>1, Zenon DEF Next, Probing, vars, TryConnect, ProbeAnswered, ProbeFails,
     ProbeTimesOut, ServerListens, ServerEnds, SpawnFails, ServerClosed,
     UserClosesWindow, TrayShow, TrayClick, Activate, TrayQuit, SystemQuit, ViewLog,
     DialogQuit, KillTimer
<1>. QED
  BY <1>2 DEF TimersOK

(* Every variable stays in its type; mainWindow never refers to a window    *)
(* that was destroyed, however many windows the tray and the dock made and  *)
(* in whatever order they are closed (main.js, createWindow).               *)
THEOREM TypeCorrect == Spec => []TypeOK
<1>1. Init => ProbeInv /\ ServerInv
  BY DesktopAssumption
  DEF Init, ProbeInv, ProbesArePaidFor, ProbesAreBounded, ServerInv, NoOrphanServer
<1>2. Init => WindowsOK /\ EventsOK /\ TimersOK
  BY DEF Init, WindowsOK, Open, EventsOK, TimersOK
<1>3. Init => FlagsOK
  BY DesktopAssumption, Zenon DEF DesktopAssumption, Init, FlagsOK
<1>4. ProbeInv /\ ServerInv /\ WindowsOK /\ FlagsOK /\ EventsOK /\ TimersOK => TypeOK
  BY DEF ProbeInv, ProbesArePaidFor, ServerInv, WindowsOK, FlagsOK, EventsOK, TimersOK,
         TypeOK
<1>. QED
  BY <1>1, <1>2, <1>3, <1>4, NextProbeInv, NextServerInv, NextWindowsOK, NextFlagsOK,
     NextEventsOK, NextTimersOK, DesktopAssumption, PTL DEF Spec
=============================================================================
