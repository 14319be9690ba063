------------------------------ MODULE Desktop ------------------------------
(***************************************************************************)
(* The desktop client (electron/main.js): it starts the server as a child  *)
(* process, probes its port until something answers, then shows a tray and *)
(* a window, and stops the server when it quits.  In development mode it   *)
(* starts nothing and probes the port of the front end's server.           *)
(*                                                                         *)
(* main.js runs on one thread: an action is one callback, with the         *)
(* promise reactions that follow it.                                       *)
(***************************************************************************)
EXTENDS Integers, FiniteSets

CONSTANTS
    MaxRetries,  \* maxRetries of checkServerAvailability
    MaxQuits,    \* how often the user asks to quit
    Windows,     \* window numbers, 1 .. n
    DevModes     \* the values NODE_ENV = "development" may have

ASSUME DesktopAssumption ==
    /\ MaxRetries \in Nat \ {0} /\ MaxQuits \in Nat
    /\ Windows = 1 .. Cardinality(Windows) /\ Windows # {}
    /\ DevModes \subseteq BOOLEAN

VARIABLES
    isDev,
    other,      \* something else listens on the port
    server,     \* the child process
    exitCode,   \* the code of a 'close' event to come, or "none"
    start,      \* the promise of startServer
    attempt,    \* currentAttempt
    waiting,    \* setTimeout(tryConnect) to come
    requests,   \* requests without an outcome
    destroyed,  \* requests whose timeout destroyed them: an 'error' is to come
    window,     \* every window made: "absent", "shown" or "hidden"
    mainWindow, \* its number, 0 for null
    tray,
    dialogs,    \* message boxes on the screen
    isQuitting, \* app.isQuitting
    killTimers, \* the five-second timers of before-quit, with their handlers
    exited

probe == <<attempt, waiting, requests, destroyed>>
ui == <<window, mainWindow>>
env == <<isDev, other>>
vars == <<env, server, exitCode, start, probe, ui, tray, dialogs, isQuitting,
          killTimers, exited>>

Alive == server \in {"booting", "up", "terminating"}

\* startServer spawns the process and sends the first probe.
Init ==
    /\ isDev \in DevModes /\ other \in BOOLEAN
    /\ server = IF isDev THEN "none" ELSE "booting"
    /\ exitCode = "none" /\ start = "pending"
    /\ attempt = 1 /\ waiting = 0 /\ requests = 1 /\ destroyed = 0
    /\ window = [w \in Windows |-> "absent"] /\ mainWindow = 0
    /\ tray = FALSE /\ dialogs = {} /\ isQuitting = FALSE /\ killTimers = 0
    /\ exited = FALSE

-----------------------------------------------------------------------------
(* Windows                                                                  *)

Open == {w \in Windows : window[w] # "absent"}

\* A new window becomes the main window; an old one is not closed.
CreateWindow ==
    \E w \in Windows \ Open :
        /\ \A v \in Windows \ Open : w <= v
        /\ window' = [window EXCEPT ![w] = "shown"]
        /\ mainWindow' = w

\* The 'close' listener of a window hides the main window, whichever window
\* was closed; once isQuitting is set the window goes and 'closed' forgets
\* the main window.
CloseWindow(w) ==
    IF isQuitting
    THEN window' = [window EXCEPT ![w] = "absent"] /\ mainWindow' = 0
    ELSE window' = [window EXCEPT ![mainWindow] = "hidden"] /\ UNCHANGED mainWindow

UserClosesWindow(w) ==
    /\ window[w] = "shown"
    /\ CloseWindow(w)
    /\ UNCHANGED <<env, server, exitCode, start, probe, tray, dialogs,
                   isQuitting, killTimers, exited>>

\* The tray's menu entry "Show New API".
TrayShow ==
    /\ tray
    /\ IF mainWindow = 0 THEN CreateWindow
       ELSE window' = [window EXCEPT ![mainWindow] = "shown"] /\ UNCHANGED mainWindow
    /\ UNCHANGED <<env, server, exitCode, start, probe, tray, dialogs,
                   isQuitting, killTimers, exited>>

\* A click on the tray's icon.
TrayClick ==
    /\ tray
    /\ IF mainWindow = 0 THEN CreateWindow
       ELSE /\ window' = [window EXCEPT ![mainWindow] =
                             IF @ = "shown" THEN "hidden" ELSE "shown"]
            /\ UNCHANGED mainWindow
    /\ UNCHANGED <<env, server, exitCode, start, probe, tray, dialogs,
                   isQuitting, killTimers, exited>>

\* The user clicks on the dock's icon; nothing waits for the server here.
Activate ==
    /\ Open = {}
    /\ CreateWindow
    /\ UNCHANGED <<env, server, exitCode, start, probe, tray, dialogs, isQuitting,
                   killTimers, exited>>

-----------------------------------------------------------------------------
(* checkServerAvailability                                                  *)

TryConnect ==
    /\ waiting > 0
    /\ waiting' = waiting - 1
    /\ attempt' = attempt + 1
    /\ requests' = requests + 1
    /\ UNCHANGED <<env, server, exitCode, start, destroyed, ui, tray, dialogs,
                   isQuitting, killTimers, exited>>

Listening == other \/ server \in {"up", "terminating"}

\* The first answer resolves the promise: tray and window are made.
ProbeAnswered ==
    /\ requests > 0 /\ Listening
    /\ requests' = requests - 1
    /\ IF start = "pending"
       THEN start' = "resolved" /\ tray' = TRUE /\ CreateWindow
       ELSE UNCHANGED <<start, tray, ui>>
    /\ UNCHANGED <<env, server, exitCode, attempt, waiting, destroyed, dialogs,
                   isQuitting, killTimers, exited>>

\* The promise is rejected: the message box of a failed start.
Reject ==
    /\ start' = IF start = "pending" THEN "rejected" ELSE start
    /\ dialogs' = IF start = "pending" THEN dialogs \union {"failed"} ELSE dialogs

\* Mutant of Retry: the attempts are not compared with the limit.
RetryForEver == waiting' = waiting + 1 /\ UNCHANGED <<start, dialogs>>

\* Mutant of Retry: the last attempt gives up in silence.
RetrySilently ==
    /\ waiting' = IF attempt >= MaxRetries THEN waiting ELSE waiting + 1
    /\ UNCHANGED <<start, dialogs>>

\* Both the 'error' and the 'timeout' listener end like this.
Retry ==
    IF attempt >= MaxRetries
    THEN Reject /\ UNCHANGED waiting
    ELSE waiting' = waiting + 1 /\ UNCHANGED <<start, dialogs>>

ProbeFails ==
    /\ \/ requests > 0 /\ requests' = requests - 1 /\ UNCHANGED destroyed
       \/ destroyed > 0 /\ destroyed' = destroyed - 1 /\ UNCHANGED requests
    /\ Retry
    /\ UNCHANGED <<env, server, exitCode, attempt, ui, tray, isQuitting,
                   killTimers, exited>>

\* Connected, but no answer for ten seconds.
ProbeTimesOut ==
    /\ requests > 0 /\ Listening
    /\ requests' = requests - 1 /\ destroyed' = destroyed + 1
    /\ Retry
    /\ UNCHANGED <<env, server, exitCode, attempt, ui, tray, isQuitting,
                   killTimers, exited>>

-----------------------------------------------------------------------------
(* The server's process                                                     *)

ServerListens ==
    /\ server = "booting" /\ ~other
    /\ server' = "up"
    /\ UNCHANGED <<env, exitCode, start, probe, ui, tray, dialogs, isQuitting,
                   killTimers, exited>>

\* It ends by itself, or by a signal (Node reports the code null then).
ServerEnds ==
    /\ Alive
    /\ server' = "dead"
    /\ exitCode' \in {"zero or null", "other"}
    /\ UNCHANGED <<env, start, probe, ui, tray, dialogs, isQuitting, killTimers,
                   exited>>

\* The binary cannot be run: 'error', and a 'close' with a negative code.
SpawnFails ==
    /\ server = "booting" /\ start = "pending"
    /\ server' = "dead" /\ exitCode' = "other"
    /\ Reject
    /\ UNCHANGED <<env, probe, ui, tray, isQuitting, killTimers, exited>>

\* The 'close' event: startServer's listener, then those of before-quit.
ServerClosed ==
    /\ exitCode # "none"
    /\ exitCode' = "none"
    /\ IF exitCode = "other"
       THEN dialogs' = dialogs \union {"crashed"} /\ UNCHANGED <<window, mainWindow>>
       ELSE /\ UNCHANGED dialogs
            /\ IF mainWindow = 0 THEN UNCHANGED <<window, mainWindow>>
               ELSE CloseWindow(mainWindow)
    /\ exited' = (killTimers > 0)
    /\ UNCHANGED <<env, server, start, probe, tray, isQuitting, killTimers>>

-----------------------------------------------------------------------------
(* Quitting                                                                 *)

\* Mutant of BeforeQuit: only a server that runs is waited for with a timer.
BeforeQuitTrustsClose(quitting) ==
    IF server # "none"
    THEN /\ server' = IF Alive THEN "terminating" ELSE server
         /\ killTimers' = IF Alive THEN killTimers + 1 ELSE killTimers
         /\ UNCHANGED <<window, exited>>
    ELSE exited' = TRUE /\ UNCHANGED <<window, server, killTimers>>

\* app.quit: with a server, before-quit sends SIGTERM, sets the timer and
\* listens for 'close'; without one the windows are closed, and a window that
\* only hides stops it.
BeforeQuit(quitting) ==
    IF server # "none"
    THEN /\ server' = IF Alive THEN "terminating" ELSE server
         /\ killTimers' = killTimers + 1
         /\ UNCHANGED <<window, exited>>
    ELSE /\ exited' = (quitting \/ Open = {})
         /\ window' = IF quitting \/ Open = {} THEN window
                      ELSE [window EXCEPT ![mainWindow] = "hidden"]
         /\ UNCHANGED <<server, killTimers>>

TrayQuit ==
    /\ tray /\ killTimers < MaxQuits
    /\ isQuitting' = TRUE
    /\ BeforeQuit(TRUE)
    /\ UNCHANGED <<env, exitCode, start, probe, mainWindow, tray, dialogs>>

\* The system's own menu or shortcut does not set isQuitting.
SystemQuit ==
    /\ killTimers < MaxQuits
    /\ BeforeQuit(isQuitting)
    /\ UNCHANGED <<env, exitCode, start, probe, mainWindow, tray, dialogs,
                   isQuitting>>

\* "View the log" saves it and asks again ...
ViewLog(d) ==
    /\ d \in dialogs \intersect {"crashed", "failed"}
    /\ dialogs' = (dialogs \ {d}) \union
                     {IF d = "crashed" THEN "crash saved" ELSE "failure saved"}
    /\ UNCHANGED <<env, server, exitCode, start, probe, ui, tray, isQuitting,
                   killTimers, exited>>

\* ... and every message box ends with app.quit, the crash's with isQuitting.
DialogQuit(d) ==
    /\ d \in dialogs
    /\ dialogs' = dialogs \ {d}
    /\ isQuitting' = (isQuitting \/ d \in {"crashed", "crash saved"})
    /\ BeforeQuit(isQuitting')
    /\ UNCHANGED <<env, exitCode, start, probe, mainWindow, tray>>

\* Mutant of KillTimer: the application leaves without a second signal.
KillTimerOnlyExits ==
    /\ killTimers > 0
    /\ exited' = TRUE
    /\ UNCHANGED <<env, server, exitCode, start, probe, ui, tray, dialogs,
                   isQuitting, killTimers>>

\* Five seconds later: SIGKILL, and out.
KillTimer ==
    /\ killTimers > 0
    /\ server' = IF Alive THEN "killed" ELSE server
    /\ exited' = TRUE
    /\ UNCHANGED <<env, exitCode, start, probe, ui, tray, dialogs, isQuitting,
                   killTimers>>

Probing == TryConnect \/ ProbeAnswered \/ ProbeFails \/ ProbeTimesOut

Next ==
    /\ ~exited
    /\ \/ Probing
       \/ ServerListens \/ ServerEnds \/ SpawnFails \/ ServerClosed
       \/ \E w \in Windows : UserClosesWindow(w)
       \/ TrayShow \/ TrayClick \/ Activate
       \/ TrayQuit \/ SystemQuit
       \/ \E d \in dialogs : ViewLog(d) \/ DialogQuit(d)
       \/ KillTimer

Spec == Init /\ [][Next]_vars

\* Timers fire, and requests have an outcome.
FairSpec ==
    /\ Spec
    /\ WF_vars(~exited /\ Probing)
    /\ WF_vars(~exited /\ KillTimer)

-----------------------------------------------------------------------------
(* Properties                                                               *)

(* The states of the process, the windows, the message boxes and the        *)
(* counters that main.js can be in; a window it refers to exists.           *)
TypeOK ==
    /\ isDev \in BOOLEAN /\ other \in BOOLEAN /\ tray \in BOOLEAN
    /\ isQuitting \in BOOLEAN /\ exited \in BOOLEAN
    /\ server \in {"none", "booting", "up", "terminating", "killed", "dead"}
    /\ exitCode \in {"none", "zero or null", "other"}
    /\ start \in {"pending", "resolved", "rejected"}
    /\ attempt \in Nat /\ waiting \in Nat /\ requests \in Nat /\ destroyed \in Nat
    /\ killTimers \in Nat
    /\ window \in [Windows -> {"absent", "shown", "hidden"}]
    /\ mainWindow \in Open \union {0}
    /\ dialogs \subseteq {"failed", "crashed", "crash saved", "failure saved"}

(* The client never leaves its server behind: when it is gone the process   *)
(* has ended or was sent SIGKILL, whichever of the ways out it took and     *)
(* whatever the server did meanwhile.                                       *)
NoOrphanServer == exited => server \in {"none", "dead", "killed"}

(* A request that times out is destroyed, and its 'error' event tries again *)
(* a second time: the chains of attempts multiply.  currentAttempt is       *)
(* shared by them, so there are still fewer than twice maxRetries.          *)
ProbesAreBounded == attempt + waiting <= 2 * MaxRetries - 1

(* Waiting for the server ends: with a window or with a message box.        *)
StartSettles == start = "pending" ~> start # "pending" \/ exited

(* Once somebody chose to quit the application ends, also when the server   *)
(* has gone before and its 'close' event with it.                           *)
QuitEnds == isQuitting \/ killTimers > 0 ~> exited
=============================================================================
