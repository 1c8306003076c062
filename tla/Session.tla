------------------------------ MODULE Session -------------------------------
(***************************************************************************)
(* The main thread of the GUI (main.c, StartOpenVPN and LaunchOpenVPN in   *)
(* openvpn.c, RunPreconnectScript in scripts.c) over all profiles: starts  *)
(* at login, commands from the menu and from second instances, the         *)
(* re-attach timer, exit, logoff, and the list of connections that the     *)
(* next session starts again.                                              *)
(*                                                                         *)
(* The main thread pumps messages while it waits for a pre-connect script, *)
(* for the user's answer, and for connections to end: each of these waits  *)
(* is a frame, and any other command may be dispatched inside it.  What a  *)
(* status thread does is module Connection; here it opens its window, and  *)
(* its connection finishes on request or by itself.                        *)
(***************************************************************************)
EXTENDS Naturals, Sequences, FiniteSets

CONSTANTS
    Conn,           \* profiles
    Persistent,     \* those with FLAG_DAEMON_PERSISTENT, attached to by the GUI (o.enable_persistent = 2)
    HasPre,         \* those whose start waits: for a _pre.bat, or for the answer to AuthorizeConfig
    AutoRestart,    \* o.enable_auto_restart
    MaxCommands,    \* bound: commands of a session
    MaxFrames,      \* bound: depth at which a command is still dispatched
    MaxSessions     \* bound: sessions after the first one

ASSUME SessionAssumption ==
    /\ Persistent \subseteq Conn /\ HasPre \subseteq Conn \ Persistent
    /\ AutoRestart \in BOOLEAN
    /\ MaxCommands \in Nat /\ MaxFrames \in Nat /\ MaxSessions \in Nat

VARIABLES
    process,    \* the GUI: "runs", "ended", "killed"
    quit,       \* WM_QUIT is posted, the main window is gone
    leaving,    \* the main window is being destroyed, or the user logs off
    frames,     \* waits of the main thread, innermost first
    icon,       \* the tray icon is shown
    state,      \* c->state: "disconnected", "detached", "active" for the others
    threads,    \* status threads of a profile, each with its daemon
    hwnd,       \* c->hwndStatus is not NULL
    told,       \* WM_OVPN_STOP or WM_OVPN_DETACH is posted to it
    auto,       \* c->auto_connect
    list,       \* registry: auto_restart_list
    commands, sessions,     \* counted for their bounds
    \* history of the session
    ran,        \* the connections of the user when StopAllOpenVPN(true) was entered
    savedAgain, \* the list was saved again after that
    timedOut    \* StopAllOpenVPN(true) gave up

connVars == <<state, threads, hwnd, told, auto>>
boundVars == <<commands, sessions>>
saveVars == <<list, ran, savedAgain>>
vars == <<process, quit, leaving, frames, icon, connVars, saveVars, boundVars, timedOut>>

Idle(c) == state[c] \in {"disconnected", "detached"}
HasFrame(kind) == \E i \in 1 .. Len(frames) : frames[i].kind = kind
Frame(kind, conns) == [kind |-> kind, conns |-> conns]

Push(frame) == frames' = <<frame>> \o frames
Inner(kind) == process = "runs" /\ frames # <<>> /\ Head(frames).kind = kind

\* A message for the main window is dispatched: by the main loop or inside a wait.
Dispatch ==
    /\ process = "runs" /\ ~quit /\ Len(frames) < MaxFrames
    /\ frames # <<>> => Head(frames).kind # "auto"

Command == Dispatch /\ commands < MaxCommands /\ commands' = commands + 1 /\ UNCHANGED sessions

-----------------------------------------------------------------------------
(* StartOpenVPN; below is the stack under the frame it may push *)

\* The status thread is created, the daemon launched or attached to.
Launched(c) ==
    /\ state' = [state EXCEPT ![c] = "active"]
    /\ threads' = [threads EXCEPT ![c] = @ + 1]
    /\ UNCHANGED <<hwnd, told, auto>>

\* The address of a persistent daemon does not parse.
AttachFails(c) ==
    /\ state' = [state EXCEPT ![c] = "disconnected"]
    /\ UNCHANGED <<threads, hwnd, told, auto>>

Ignored(c) == hwnd[c] \/ ~Idle(c)

\* Mutant of StartOpenVPN: only the window is looked at.
StartUnlessWindow(c, below) ==
    IF hwnd[c]
    THEN frames' = below /\ UNCHANGED connVars
    ELSE \/ c \in HasPre /\ frames' = <<Frame("pre", {c})>> \o below /\ UNCHANGED connVars
         \/ c \notin HasPre /\ frames' = below /\ Launched(c)
         \/ c \in Persistent /\ frames' = below /\ AttachFails(c)
         \/ c \notin HasPre \cup Persistent /\ frames' = below /\ UNCHANGED connVars

\* A profile with a window or not idle is left alone (a hold is released, module
\* Connection); the pre-connect script is waited for; launching may fail.
StartOpenVPN(c, below) ==
    IF Ignored(c)
    THEN frames' = below /\ UNCHANGED connVars
    ELSE \/ c \in HasPre /\ frames' = <<Frame("pre", {c})>> \o below /\ UNCHANGED connVars
         \/ c \notin HasPre /\ frames' = below /\ Launched(c)
         \/ c \in Persistent /\ frames' = below /\ AttachFails(c)
         \/ c \notin HasPre \cup Persistent /\ frames' = below /\ UNCHANGED connVars

\* The script ends, or its time, or WM_QUIT is seen, or the question of AuthorizeConfig
\* is answered: LaunchOpenVPN goes on.
PreDone ==
    /\ Inner("pre") /\ frames' = Tail(frames)
    /\ \/ \E c \in Head(frames).conns : Launched(c)
       \/ UNCHANGED connVars
    /\ UNCHANGED <<process, quit, leaving, icon, saveVars, boundVars, timedOut>>

\* AutoStartConnections: the profiles one after the other, each to its end.
AutoNext ==
    /\ Inner("auto")
    /\ LET rest == Head(frames).conns
       IN  \/ rest = {} /\ frames' = Tail(frames) /\ UNCHANGED connVars
           \/ \E c \in rest : StartOpenVPN(c, <<Frame("auto", rest \ {c})>> \o Tail(frames))
    /\ UNCHANGED <<process, quit, leaving, icon, saveVars, boundVars, timedOut>>

\* Connect; Reconnect of a profile that is not started.
Connect(c) ==
    /\ Command /\ StartOpenVPN(c, frames)
    /\ UNCHANGED <<process, quit, leaving, icon, saveVars, timedOut>>

\* StopOpenVPN: the message is lost if the thread has no window yet.
Disconnect(c) ==
    /\ Command
    /\ told' = [told EXCEPT ![c] = @ \/ hwnd[c]]
    /\ UNCHANGED <<process, quit, leaving, frames, icon, state, threads, hwnd, auto, saveVars, timedOut>>

\* Timer, set when the window is created: all persistent profiles that are to be
\* attached; those with a window are left as they are, but count as detached.
ManagePersistent ==
    /\ Dispatch /\ ~HasFrame("auto")
    /\ \E parsed \in SUBSET Persistent :
        LET due == {c \in Persistent : auto[c] /\ Idle(c)}
            started == {c \in due \cap parsed : ~hwnd[c]}
        IN  /\ due # {}
            /\ state' = [c \in Conn |-> IF c \notin due THEN state[c]
                                        ELSE IF c \in started THEN "active"
                                        ELSE IF hwnd[c] THEN "detached" ELSE "disconnected"]
            /\ threads' = [c \in Conn |-> threads[c] + IF c \in started THEN 1 ELSE 0]
            /\ auto' = [c \in Conn |-> auto[c] /\ c \notin due]
    /\ UNCHANGED <<process, quit, leaving, frames, icon, hwnd, told, saveVars, boundVars, timedOut>>

-----------------------------------------------------------------------------
(* StopAllOpenVPN, exit and logoff *)

\* Everything that runs and has a window is told; then the main thread waits.
StopAll(kind, below) ==
    /\ told' = [c \in Conn |-> told[c] \/ (~Idle(c) /\ hwnd[c])]
    /\ auto' = [c \in Conn |-> auto[c] /\ (Idle(c) \/ c \notin Persistent)]
    /\ frames' = <<Frame(kind, {})>> \o below
    /\ UNCHANGED <<state, threads, hwnd>>

StopAllCommand ==
    /\ Command /\ StopAll("stopall", frames)
    /\ UNCHANGED <<process, quit, leaving, icon, saveVars, timedOut>>

Active == {c \in Conn \ Persistent : state[c] # "disconnected"}

\* SaveAutoRestartList, before StopAllOpenVPN(true)
Save ==
    /\ list' = IF AutoRestart THEN Active ELSE {}
    /\ ran' = IF leaving THEN ran ELSE Active
    /\ savedAgain' = leaving

\* CloseApplication is confirmed: the list is saved and the window destroyed, whose
\* WM_DESTROY stops all; a window that is gone is not destroyed again.
DestroyMain(below) ==
    /\ Save
    /\ icon' = FALSE /\ leaving' = TRUE
    /\ IF quit \/ HasFrame("destroy")
       THEN frames' = below /\ UNCHANGED connVars
       ELSE StopAll("destroy", below)

\* Exit from the menu or another instance: asks while anything is active.
Exit ==
    /\ Command
    /\ IF Active # {}
       THEN /\ icon' = FALSE /\ Push(Frame("ask", {}))
            /\ UNCHANGED <<leaving, connVars, saveVars>>
       ELSE DestroyMain(frames)
    /\ UNCHANGED <<process, quit, timedOut>>

\* WM_CLOSE does not ask.
Close ==
    /\ Command /\ DestroyMain(frames)
    /\ UNCHANGED <<process, quit, timedOut>>

\* Mutant of AnswerNo: the icon is not recreated.
AnswerNoSilently ==
    /\ Inner("ask") /\ frames' = Tail(frames)
    /\ UNCHANGED <<process, quit, leaving, icon, connVars, saveVars, boundVars, timedOut>>

AnswerNo ==
    /\ Inner("ask") /\ frames' = Tail(frames)
    /\ icon' = TRUE
    /\ UNCHANGED <<process, quit, leaving, connVars, saveVars, boundVars, timedOut>>

AnswerYes ==
    /\ Inner("ask") /\ DestroyMain(Tail(frames))
    /\ UNCHANGED <<process, quit, boundVars, timedOut>>

\* WM_ENDSESSION
EndSession ==
    /\ Command /\ Save
    /\ icon' = FALSE /\ leaving' = TRUE
    /\ StopAll("endsession", frames)
    /\ UNCHANGED <<process, quit, timedOut>>

Waits == {"stopall", "destroy", "endsession"}

\* Mutant of WaitDone: the list of what runs is saved when all has ended.
WaitDoneSaves ==
    /\ \E kind \in Waits : Inner(kind)
    /\ LET kind == Head(frames).kind
       IN  /\ frames' = Tail(frames)
           /\ quit' = (quit \/ kind = "destroy")
           /\ process' = IF kind = "endsession" THEN "ended" ELSE process
           /\ timedOut' = (timedOut \/ (leaving /\ \E c \in Conn : ~Idle(c)))
    /\ list' = IF leaving THEN Active ELSE list
    /\ UNCHANGED <<leaving, icon, connVars, ran, savedAgain, boundVars>>

\* Mutant of WaitDone: the wait has no end but that of the connections.
WaitDoneIdle ==
    /\ \E kind \in Waits : Inner(kind)
    /\ \A c \in Conn : Idle(c)
    /\ LET kind == Head(frames).kind
       IN  /\ frames' = Tail(frames)
           /\ quit' = (quit \/ kind = "destroy")
           /\ process' = IF kind = "endsession" THEN "ended" ELSE process
    /\ UNCHANGED <<leaving, icon, connVars, saveVars, boundVars, timedOut>>

\* All have ended, or five seconds are over, or WM_QUIT is seen.  After WM_DESTROY
\* the message loop is told to quit, after WM_ENDSESSION Windows ends the process.
WaitDone ==
    /\ \E kind \in Waits : Inner(kind)
    /\ LET kind == Head(frames).kind
       IN  /\ frames' = Tail(frames)
           /\ quit' = (quit \/ kind = "destroy")
           /\ process' = IF kind = "endsession" THEN "ended" ELSE process
           /\ timedOut' = (timedOut \/ (leaving /\ \E c \in Conn : ~Idle(c)))
    /\ UNCHANGED <<leaving, icon, connVars, saveVars, boundVars>>

\* The message loop ends.
Ends ==
    /\ process = "runs" /\ quit /\ frames = <<>>
    /\ process' = "ended"
    /\ UNCHANGED <<quit, leaving, frames, icon, connVars, saveVars, boundVars, timedOut>>

Killed ==
    /\ process = "runs" /\ sessions < MaxSessions /\ process' = "killed"
    /\ UNCHANGED <<quit, leaving, frames, icon, connVars, saveVars, boundVars, timedOut>>

-----------------------------------------------------------------------------
(* The status threads (module Connection) *)

WindowOpens(c) ==
    /\ process = "runs" /\ threads[c] > 0 /\ ~hwnd[c] /\ ~Idle(c)
    /\ hwnd' = [hwnd EXCEPT ![c] = TRUE]
    /\ UNCHANGED <<process, quit, leaving, frames, icon, state, threads, told, auto, saveVars, boundVars, timedOut>>

\* The daemon of a persistent profile is attached (OnReady).
Attaches(c) ==
    /\ process = "runs" /\ c \in Persistent /\ hwnd[c] /\ ~Idle(c) /\ ~auto[c]
    /\ auto' = [auto EXCEPT ![c] = TRUE]
    /\ UNCHANGED <<process, quit, leaving, frames, icon, state, threads, hwnd, told, saveVars, boundVars, timedOut>>

\* OnStop: as it was told, or by itself; after a disconnect by the user a persistent
\* profile is not attached again.
Finishes(c) ==
    /\ process = "runs" /\ hwnd[c] /\ ~Idle(c)
    /\ state' = [state EXCEPT ![c] = "disconnected"]
    /\ \/ UNCHANGED auto
       \/ c \in Persistent /\ auto' = [auto EXCEPT ![c] = FALSE]
    /\ UNCHANGED <<process, quit, leaving, frames, icon, threads, hwnd, told, saveVars, boundVars, timedOut>>

\* Mutant of WindowCloses: the thread's end is noticed while its window is not open.
WindowClosesUnseen(c) ==
    /\ process = "runs" /\ Idle(c)
    /\ hwnd' = [hwnd EXCEPT ![c] = FALSE] /\ told' = [told EXCEPT ![c] = FALSE]
    /\ threads' = [threads EXCEPT ![c] = @ - 1]
    /\ UNCHANGED <<process, quit, leaving, frames, icon, state, auto, saveVars, boundVars, timedOut>>

WindowCloses(c) ==
    /\ process = "runs" /\ hwnd[c] /\ Idle(c)
    /\ hwnd' = [hwnd EXCEPT ![c] = FALSE] /\ told' = [told EXCEPT ![c] = FALSE]
    /\ threads' = [threads EXCEPT ![c] = @ - 1]
    /\ UNCHANGED <<process, quit, leaving, frames, icon, state, auto, saveVars, boundVars, timedOut>>

-----------------------------------------------------------------------------
\* WM_CREATE of a session that finds this list: icon, AutoStartConnections.
Begins(found) ==
    /\ process' = "runs" /\ quit' = FALSE /\ leaving' = FALSE
    /\ frames' = <<Frame("auto", IF AutoRestart THEN found ELSE {})>> /\ icon' = TRUE
    /\ state' = [c \in Conn |-> "disconnected"] /\ threads' = [c \in Conn |-> 0]
    /\ hwnd' = [c \in Conn |-> FALSE] /\ told' = hwnd'
    /\ auto' = [c \in Conn |-> c \in Persistent \/ (AutoRestart /\ c \in found)]
    /\ ran' = {} /\ savedAgain' = FALSE
    /\ timedOut' = FALSE /\ commands' = 0

NewSession ==
    /\ process # "runs" /\ sessions < MaxSessions /\ sessions' = sessions + 1
    /\ Begins(list) /\ UNCHANGED list

\* The first session: AutoStartConnections finds the profiles of the command line.
Init ==
    /\ process = "runs" /\ quit = FALSE /\ leaving = FALSE
    /\ \E found \in SUBSET (Conn \ Persistent) : frames = <<Frame("auto", found)>>
    /\ icon = TRUE
    /\ state = [c \in Conn |-> "disconnected"] /\ threads = [c \in Conn |-> 0]
    /\ hwnd = [c \in Conn |-> FALSE] /\ told = hwnd
    /\ auto = [c \in Conn |-> c \in Persistent]
    /\ list = {} /\ ran = {} /\ savedAgain = FALSE
    /\ timedOut = FALSE /\ commands = 0 /\ sessions = 0

User ==
    \/ \E c \in Conn : Connect(c) \/ Disconnect(c)
    \/ StopAllCommand \/ Exit \/ Close \/ AnswerNo \/ AnswerYes \/ EndSession

MainThread == PreDone \/ AutoNext \/ ManagePersistent \/ WaitDone \/ Ends

StatusThread(c) == WindowOpens(c) \/ Attaches(c) \/ Finishes(c) \/ WindowCloses(c)

Next == User \/ MainThread \/ (\E c \in Conn : StatusThread(c)) \/ Killed \/ NewSession

\* The main thread goes on when its wait is over; the user answers a message box.
Fairness ==
    /\ WF_vars(PreDone) /\ WF_vars(AutoNext) /\ WF_vars(WaitDone) /\ WF_vars(Ends)
    /\ WF_vars(AnswerNo \/ AnswerYes)

Spec == Init /\ [][Next]_vars /\ Fairness

-----------------------------------------------------------------------------
FrameKinds == {"auto", "pre", "ask"} \cup Waits

\* A wait, and the connections whose start goes on after it.
FrameSet == {f \in [kind : FrameKinds, conns : SUBSET Conn] :
                f.kind = "pre" => f.conns \subseteq HasPre}

ConnOK ==
    /\ state \in [Conn -> {"disconnected", "detached", "active"}]
    /\ threads \in [Conn -> Nat]
    /\ hwnd \in [Conn -> BOOLEAN]
    /\ told \in [Conn -> BOOLEAN]
    /\ auto \in [Conn -> BOOLEAN]

RestOK ==
    /\ process \in {"runs", "ended", "killed"}
    /\ quit \in BOOLEAN /\ leaving \in BOOLEAN /\ icon \in BOOLEAN
    /\ list \subseteq Conn /\ ran \subseteq Conn
    /\ savedAgain \in BOOLEAN /\ timedOut \in BOOLEAN
    /\ commands \in 0 .. MaxCommands /\ sessions \in 0 .. MaxSessions

TypeOK == frames \in Seq(FrameSet) /\ ConnOK /\ RestOK

\* A window has a thread, and a profile without a pre-connect script has exactly one
\* thread while it is not idle or its window is still there (inductive with the types).
ThreadCount ==
    \A c \in Conn :
        /\ hwnd[c] => threads[c] > 0
        /\ c \notin HasPre => threads[c] = (IF ~Idle(c) \/ hwnd[c] THEN 1 ELSE 0)

\* A profile without a pre-connect script never has two status threads, however starts
\* at login, from the menu, from other instances and by the timer follow each other:
\* the state is set, and tested, without a message being dispatched in between.
OneThreadEach == \A c \in Conn \ HasPre : threads[c] <= 1

\* While the program is neither leaving nor asking whether to leave, its icon, the only
\* way to control it, is shown: also after a refused exit inside another one.
IconShown == process = "runs" /\ ~leaving /\ ~HasFrame("ask") => icon

\* StopAllOpenVPN, "Stop all connections started by us": when the program ends, the
\* connections that it launched have ended, unless it waited in vain.
LeavesNothing ==
    process = "ended" /\ ~timedOut => \A c \in Conn \ Persistent : Idle(c)

\* After a session that has ended by exit or logoff the next one starts exactly what the
\* user had running when the connections began to be stopped, whatever ended or was
\* started during the wait; a logoff during an exit saves the list again (hazard).
RestartsWhatRan ==
    [][process = "ended" /\ process' = "runs" /\ AutoRestart /\ ~savedAgain
       => Head(frames').conns = ran]_vars

\* The program that has begun to leave does leave, whatever the connections, scripts and
\* other instances do: no wait of StopAllOpenVPN or of a script below it lasts for ever,
\* if the user answers the question that a second exit may ask in between.
Leaves == leaving ~> process # "runs"

=============================================================================
