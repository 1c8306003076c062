------------------------------ MODULE Connection ------------------------------
(***************************************************************************)
(* The life of one VPN connection profile (connection_t in options.h): the *)
(* GUI main thread that starts, stops, restarts and detaches it (main.c),  *)
(* the status thread that drives it from window messages and management    *)
(* events (openvpn.c, manage.c), and the openvpn daemon at the other end   *)
(* of the management socket (external; modelled from how src/ uses it).    *)
(*                                                                         *)
(* A nested message pump (the wait for a connect or disconnect script, the *)
(* message box of OnStop) is a frame on the stack "frames": while it is    *)
(* there every other message of the status window may be dispatched, and   *)
(* the code behind the pump runs when its frame is the innermost one.      *)
(*                                                                         *)
(* Management commands travel in "out", a FIFO channel (module MgmtQueue   *)
(* models the queue of manage.c behind it).  Commands that the code always *)
(* issues together are one element: "release" is hold off + hold release,  *)
(* "hold_sighup" is forget-passwords + hold on + signal SIGHUP, "state" is *)
(* the batch OnReady sends, of which only the state query has an answer    *)
(* this module tells apart.                                                *)
(***************************************************************************)
EXTENDS Naturals, Sequences

CONSTANTS
    Persistent,   \* FLAG_DAEMON_PERSISTENT: the daemon is run by the service
    AutoAttach,   \* o.enable_persistent = 2
    Scripts,      \* the profile has _up.bat and _down.bat, and waits for them
    KillMayFail,  \* TerminateOpenVPN may not be able to kill the daemon
    MaxPosted,    \* bound: WM_OVPN_* messages waiting in the window's queue
    MaxOut,       \* bound: commands under way when the user or the daemon acts
    MaxLines,     \* bound: unread management lines when the daemon writes
    MaxFrames,    \* bound: depth at which a script is still waited for
    MaxFaults     \* bound: link drops and daemon crashes

ASSUME ConnectionAssumption ==
    /\ Persistent \in BOOLEAN /\ AutoAttach \in BOOLEAN /\ Scripts \in BOOLEAN
    /\ KillMayFail \in BOOLEAN
    /\ MaxPosted \in Nat /\ MaxOut \in Nat /\ MaxLines \in Nat
    /\ MaxFrames \in Nat /\ MaxFaults \in Nat

VARIABLES
    state,          \* c->state
    autoConnect,    \* c->auto_connect
    waitUnlock,     \* FLAG_WAIT_UNLOCK in c->flags
    locked,         \* o.session_locked (ManagePersistent's timer is off)
    thread,         \* the status thread: "none", "starting", "running"
    hwnd,           \* c->hwndStatus: NULL ("none"), "open", or destroyed ("stale")
    quit,           \* WM_QUIT posted to the status thread
    frames,         \* nested message pumps, innermost first
    posted,         \* WM_OVPN_* messages posted to the status window
    disconnectBtn,  \* IsWindowEnabled(ID_DISCONNECT)
    restartBtn,     \* IsWindowEnabled(ID_RESTART)
    stopTimer,      \* IDT_STOP_TIMER is set
    exitEvent,      \* c->exit_event is signalled
    sk,             \* c->manage.sk: "closed", "connecting", "open"
    ready,          \* c->manage.connected
    pw,             \* c->manage.password is not empty
    out,            \* commands on their way to the daemon
    lines,          \* management output not yet read
    daemon,         \* what the daemon does: see DaemonStates
    mi,             \* its management interface
    holdFlag,       \* its hold flag
    faults,         \* faults so far
    stopAsked       \* history: a stop was accepted and not superseded

mainVars   == <<autoConnect, waitUnlock, locked>>
windowVars == <<thread, hwnd, quit, frames, posted>>
btnVars    == <<disconnectBtn, restartBtn>>
sockVars   == <<sk, ready, pw>>
daemonVars == <<daemon, mi, holdFlag, faults>>
vars == <<state, mainVars, windowVars, btnVars, stopTimer, exitEvent, sockVars,
          out, lines, daemonVars, stopAsked>>

States == {"disconnected", "onhold", "connecting", "reconnecting", "connected",
           "disconnecting", "resuming", "detaching", "detached"}
Frames == {"popup", "open_failed", "up_script", "down_script"}
Messages == {"STOP", "RELEASE", "RESTART", "DETACH"}
Commands == {"password", "state", "release", "hold_sighup", "sighup"}
Lines == {"prompt", "info", "hold", "connected_ok", "connected_err",
          "reconnecting", "other", "eof"}
DaemonStates == {"down", "hold", "connecting", "connected_ok", "connected_err"}

-----------------------------------------------------------------------------
(* The status window and the management socket *)

\* DestroyWindow(hwndStatus): WM_DESTROY posts WM_QUIT, WM_NCDESTROY kills the
\* timer; the buttons and the messages queued for the window go with it.
DestroyWindow ==
    /\ hwnd' = "stale" /\ quit' = TRUE
    /\ disconnectBtn' = FALSE /\ restartBtn' = FALSE
    /\ stopTimer' = FALSE /\ posted' = <<>>

\* The window stays; "rest" is what is left of its message queue.
KeepWindow(rest) == posted' = rest /\ UNCHANGED <<hwnd, quit>>

\* Mutant of CloseStatusWindow: WM_CLOSE does not look at the state.
CloseAlways ==
    IF hwnd = "open" THEN DestroyWindow
    ELSE KeepWindow(posted) /\ UNCHANGED <<stopTimer, btnVars>>

\* WM_CLOSE: a finished connection closes its window, any other one hides it.
\* A window that is gone does not receive it.
CloseStatusWindow ==
    IF hwnd = "open" /\ state \in {"disconnected", "detached"}
    THEN DestroyWindow
    ELSE KeepWindow(posted) /\ UNCHANGED <<stopTimer, btnVars>>

PostTo(queue, m) == IF hwnd = "open" THEN Append(queue, m) ELSE queue

\* ManagementCommand
Send(cmd) == out' = Append(out, cmd)

\* The daemon's end of the management connection closes.
HangUp == lines' = IF mi \in {"auth", "ready"} THEN Append(lines, "eof") ELSE lines

\* CloseManagement drops the queued commands and what was not read, but only
\* of a socket that is still open; the daemon goes back to listening.
CloseManagement ==
    IF sk = "closed"
    THEN UNCHANGED <<sk, ready, out, lines, mi>>
    ELSE /\ sk' = "closed" /\ ready' = 0 /\ out' = <<>> /\ lines' = <<>>
         /\ mi' = IF mi \in {"auth", "ready"} THEN "listening" ELSE mi

-----------------------------------------------------------------------------
(* OnStop, the end of a connection as the status thread sees it.  st is the
   state it finds, rest the window messages that remain, armed the stop timer. *)

\* connected, resuming, connecting, reconnecting: report it in a message box;
\* WM_CLOSE is sent when the user dismisses the box (action PopupDone).
OnStopReported(st, rest, armed) ==
    /\ st \in {"connected", "resuming", "connecting", "reconnecting"}
    /\ state' = "disconnected"
    /\ disconnectBtn' = FALSE /\ restartBtn' = FALSE
    /\ frames' = <<"popup">> \o frames
    /\ stopTimer' = armed
    /\ KeepWindow(rest)
    /\ UNCHANGED autoConnect

\* disconnecting, onhold, detaching: close the window at once.
OnStopQuiet(st) ==
    /\ st \in {"disconnecting", "onhold", "detaching"}
    /\ state' = "disconnected"
    /\ autoConnect' = (autoConnect /\ ~(st = "disconnecting" /\ Persistent))
    /\ DestroyWindow
    /\ UNCHANGED frames

OnStopIgnored(st, rest, armed) ==
    /\ st \in {"disconnected", "detached"}
    /\ state' = st
    /\ stopTimer' = armed
    /\ KeepWindow(rest)
    /\ UNCHANGED <<frames, btnVars, autoConnect>>

OnStop(st, rest, armed) ==
    \/ OnStopReported(st, rest, armed)
    \/ OnStopQuiet(st)
    \/ OnStopIgnored(st, rest, armed)

\* What OnStop never touches.
stopFrame == <<waitUnlock, locked, thread, exitEvent, stopAsked>>

-----------------------------------------------------------------------------
(* The GUI main thread *)

UserMayAct == Len(posted) < MaxPosted /\ (hwnd # "none" => Len(out) < MaxOut)

\* ReleaseOpenVPN and the WM_OVPN_* posts of the other entry points.
Post(m) ==
    /\ posted' = PostTo(posted, m)
    /\ UNCHANGED <<state, waitUnlock, locked, thread, hwnd, quit, frames, btnVars,
                   stopTimer, exitEvent, sockVars, out, lines, daemonVars, stopAsked>>

\* Mutant of Launch: the state is left for the status thread to set.
LaunchLeavesState(st) ==
    /\ hwnd = "none" /\ st \in {"disconnected", "detached"}
    /\ thread' = "starting" /\ state' = st
    /\ pw' = TRUE /\ stopAsked' = FALSE
    /\ IF Persistent
       THEN UNCHANGED <<daemonVars, exitEvent>>
       ELSE /\ daemon = "down"
            /\ daemon' = "hold" /\ mi' = "off" /\ holdFlag' = TRUE
            /\ exitEvent' = FALSE
            /\ UNCHANGED faults
    /\ UNCHANGED <<waitUnlock, locked, hwnd, quit, frames, posted, btnVars,
                   stopTimer, sk, ready, out, lines>>

\* StartOpenVPN when the profile is idle: CreateThread, then the persistent
\* daemon's address and password are read, or a daemon is launched (on hold,
\* with a fresh password).  Modelled once the previous daemon is gone.
Launch(st) ==
    /\ hwnd = "none" /\ st \in {"disconnected", "detached"}
    /\ thread' = "starting"
    /\ state' = IF st = "detached" THEN "resuming" ELSE "connecting"
    /\ pw' = TRUE
    /\ stopAsked' = FALSE
    /\ IF Persistent
       THEN UNCHANGED <<daemonVars, exitEvent>>
       ELSE /\ daemon = "down"
            /\ daemon' = "hold" /\ mi' = "off" /\ holdFlag' = TRUE
            /\ exitEvent' = FALSE
            /\ UNCHANGED faults
    /\ UNCHANGED <<waitUnlock, locked, hwnd, quit, frames, posted, btnVars,
                   stopTimer, sk, ready, out, lines>>

\* Launching failed, or the management address could not be parsed.
LaunchFails(st) ==
    /\ hwnd = "none" /\ st \in {"disconnected", "detached"}
    /\ state' = IF Persistent THEN "disconnected" ELSE st
    /\ UNCHANGED <<waitUnlock, locked, windowVars, btnVars, stopTimer, exitEvent,
                   sockVars, out, lines, daemonVars, stopAsked>>

\* The connection is up already: at most bring its window to the front.
StartIgnored(st) ==
    /\ \/ hwnd # "none" /\ st # "onhold"
       \/ hwnd = "none" /\ st \notin {"disconnected", "detached"}
    /\ state' = st
    /\ UNCHANGED <<waitUnlock, locked, windowVars, btnVars, stopTimer, exitEvent,
                   sockVars, out, lines, daemonVars, stopAsked>>

\* StartOpenVPN; st is c->state when it is called.
StartBody(st) ==
    \/ hwnd # "none" /\ st = "onhold" /\ Post("RELEASE")
    \/ StartIgnored(st)
    \/ Launch(st)
    \/ LaunchFails(st)

\* The tray menu, another instance or a command line asks to connect.
StartOpenVPN == UserMayAct /\ StartBody(state) /\ UNCHANGED autoConnect

\* Disconnect: tray menu, status window, a cancelled dialog, another instance.
StopOpenVPN == Len(posted) < MaxPosted /\ Post("STOP") /\ UNCHANGED autoConnect

\* Reconnect: release a held daemon, restart a running one, or connect.
RestartOpenVPN ==
    /\ UserMayAct
    /\ IF state = "onhold" THEN Post("RELEASE")
       ELSE IF hwnd # "none" THEN Post("RESTART")
       ELSE StartBody(state)
    /\ UNCHANGED autoConnect

\* The Detach button of the status window.
DetachOpenVPN ==
    /\ UserMayAct
    /\ Persistent
    /\ autoConnect' = FALSE
    /\ Post("DETACH")

\* Timer of the main window, off while the session is locked: attach to a
\* persistent daemon the GUI is not attached to.
ManagePersistent ==
    /\ Persistent /\ ~locked /\ autoConnect
    /\ state \in {"disconnected", "detached"}
    /\ autoConnect' = FALSE
    /\ StartBody("detached")

\* WTS_SESSION_LOCK
HandleSessionLock ==
    /\ UserMayAct
    /\ ~locked /\ locked' = TRUE
    /\ IF Persistent /\ state \notin {"disconnected", "detached"}
       THEN /\ autoConnect' = FALSE /\ waitUnlock' = TRUE
            /\ posted' = PostTo(posted, "DETACH")
       ELSE UNCHANGED <<autoConnect, waitUnlock, posted>>
    /\ UNCHANGED <<state, thread, hwnd, quit, frames, btnVars, stopTimer, exitEvent,
                   sockVars, out, lines, daemonVars, stopAsked>>

\* WTS_SESSION_UNLOCK
HandleSessionUnlock ==
    /\ locked /\ locked' = FALSE
    /\ autoConnect' = (autoConnect \/ waitUnlock)
    /\ waitUnlock' = FALSE
    /\ UNCHANGED <<state, windowVars, btnVars, stopTimer, exitEvent, sockVars, out,
                   lines, daemonVars, stopAsked>>

Main == \/ StartOpenVPN \/ StopOpenVPN \/ RestartOpenVPN \/ DetachOpenVPN
        \/ ManagePersistent \/ HandleSessionLock \/ HandleSessionUnlock

-----------------------------------------------------------------------------
(* The status thread: messages of its window.  They are dispatched by the main
   loop or by whichever nested pump is innermost. *)

Pumping == thread = "running" /\ hwnd = "open"

\* ThreadOpenVPNStatus up to its message loop.  Without a window the thread
\* ends at once; without a socket a message box comes first (see PopupDone).
ThreadInit ==
    /\ thread = "starting"
    /\ \/ /\ thread' = "running" /\ hwnd' = "open"
          /\ disconnectBtn' = TRUE /\ restartBtn' = TRUE
          /\ ready' = 0
          /\ \/ sk' = "connecting" /\ UNCHANGED frames
             \/ sk' = "closed" /\ frames' = <<"open_failed">>
          /\ UNCHANGED <<state, exitEvent>>
       \/ /\ thread' = "none" /\ state' = "disconnected"
          /\ exitEvent' = ~Persistent
          /\ UNCHANGED <<hwnd, frames, btnVars, sk, ready>>
    /\ UNCHANGED <<mainVars, quit, posted, stopTimer, pw, out, lines, daemonVars,
                   stopAsked>>

\* Mutant of SignalExit: no deadline for the daemon.
SignalExitNoTimer ==
    /\ disconnectBtn' = FALSE /\ restartBtn' = FALSE
    /\ exitEvent' = TRUE
    /\ UNCHANGED <<autoConnect, hwnd, quit, out, stopTimer>>

\* DisconnectDaemon of a daemon this GUI started, after its buttons are off.
SignalExit ==
    /\ disconnectBtn' = FALSE /\ restartBtn' = FALSE
    /\ exitEvent' = TRUE /\ stopTimer' = (hwnd = "open")
    /\ UNCHANGED <<autoConnect, hwnd, quit, out>>

\* DisconnectDaemon of a persistent daemon: forget-passwords, hold on and
\* SIGHUP; one that does not take commands yet is left alone.
HoldDaemon(rest) ==
    IF ready > 1
    THEN /\ Send("hold_sighup")
         /\ state' = "disconnecting"
         /\ disconnectBtn' = FALSE /\ restartBtn' = FALSE
         /\ KeepWindow(rest)
         /\ UNCHANGED <<autoConnect, stopTimer, frames>>
    ELSE OnStopQuiet("disconnecting") /\ UNCHANGED out

\* WM_OVPN_STOP.  It is ignored while Disconnect is disabled or on hold; with a
\* disconnect script the daemon is told when the script is done (DisconnectScriptDone).
HandleStop ==
    /\ Pumping /\ posted # <<>> /\ Head(posted) = "STOP"
    /\ \/ /\ ~disconnectBtn \/ state = "onhold"
          /\ KeepWindow(Tail(posted))
          /\ UNCHANGED <<state, autoConnect, frames, btnVars, stopTimer, exitEvent,
                         out, stopAsked>>
       \/ /\ disconnectBtn /\ state # "onhold"
          /\ stopAsked' = TRUE
          /\ \/ /\ Persistent
                /\ HoldDaemon(Tail(posted)) /\ UNCHANGED exitEvent
             \/ /\ ~Persistent /\ state' = "disconnecting"
                /\ posted' = Tail(posted)
                /\ SignalExit /\ UNCHANGED frames
             \/ /\ ~Persistent /\ state' = "disconnecting"
                /\ Scripts /\ Len(frames) < MaxFrames
                /\ frames' = <<"down_script">> \o frames
                /\ KeepWindow(Tail(posted))
                /\ UNCHANGED <<autoConnect, btnVars, stopTimer, exitEvent, out>>
    /\ UNCHANGED <<waitUnlock, locked, thread, sockVars, lines, daemonVars>>

\* Mutants of OnHold: "hold release" is forgotten, Disconnect stays disabled.
OnHoldNoRelease(st) ==
    /\ restartBtn' = TRUE
    /\ IF Persistent /\ st \in {"disconnecting", "resuming"}
       THEN state' = "onhold" /\ disconnectBtn' = FALSE /\ UNCHANGED out
       ELSE state' = st /\ disconnectBtn' = TRUE /\ UNCHANGED out

OnHoldNoButton(st) ==
    /\ restartBtn' = TRUE
    /\ IF Persistent /\ st \in {"disconnecting", "resuming"}
       THEN state' = "onhold" /\ disconnectBtn' = FALSE /\ UNCHANGED out
       ELSE state' = st /\ UNCHANGED disconnectBtn /\ Send("release")

\* OnHold with c->state = st: keep the hold that follows a disconnect (or an
\* attach), else release it.
OnHold(st) ==
    /\ restartBtn' = TRUE
    /\ IF Persistent /\ st \in {"disconnecting", "resuming"}
       THEN state' = "onhold" /\ disconnectBtn' = FALSE /\ UNCHANGED out
       ELSE state' = st /\ disconnectBtn' = TRUE /\ Send("release")

\* WM_OVPN_RELEASE
HandleRelease ==
    /\ Pumping /\ posted # <<>> /\ Head(posted) = "RELEASE"
    /\ KeepWindow(Tail(posted))
    /\ OnHold("reconnecting")
    /\ stopAsked' = FALSE
    /\ UNCHANGED <<mainVars, thread, frames, stopTimer, exitEvent, sockVars, lines,
                   daemonVars>>

\* WM_OVPN_RESTART
HandleRestart ==
    /\ Pumping /\ posted # <<>> /\ Head(posted) = "RESTART"
    /\ KeepWindow(Tail(posted))
    /\ IF restartBtn
       THEN state' = "reconnecting" /\ Send("sighup") /\ stopAsked' = FALSE
       ELSE UNCHANGED <<state, out, stopAsked>>
    /\ UNCHANGED <<mainVars, thread, frames, btnVars, stopTimer, exitEvent, sockVars,
                   lines, daemonVars>>

\* WM_OVPN_DETACH
HandleDetach ==
    /\ Pumping /\ posted # <<>> /\ Head(posted) = "DETACH"
    /\ OnStopQuiet("detaching")
    /\ UNCHANGED <<stopFrame, sockVars, out, lines, daemonVars>>

\* IDT_STOP_TIMER: kill a daemon that did not react (TerminateOpenVPN).
StopTimeout ==
    /\ Pumping /\ stopTimer
    /\ \/ (daemon = "down" \/ KillMayFail) /\ UNCHANGED <<lines, daemonVars>>
       \/ /\ daemon # "down"
          /\ daemon' = "down" /\ mi' = "off"
          /\ HangUp
          /\ UNCHANGED <<holdFlag, faults>>
    /\ OnStop(state, posted, FALSE)
    /\ UNCHANGED <<stopFrame, sockVars, out>>

-----------------------------------------------------------------------------
(* The status thread: events of the management socket *)

\* Management events leave these alone unless they end in OnStop.
noStop == <<mainVars, thread, hwnd, quit, frames, posted, stopTimer, exitEvent,
            stopAsked>>

\* FD_CONNECT: the daemon takes the connection and asks for the password; a
\* peer that is not the expected daemon is dropped and the user's stop posted.
FdConnect ==
    /\ Pumping /\ sk = "connecting" /\ mi = "listening"
    /\ \/ /\ sk' = "open" /\ ready' = 1 /\ mi' = "auth"
          /\ lines' = <<"prompt">>
          /\ UNCHANGED <<pw, out, posted>>
       \/ /\ pw' = FALSE /\ CloseManagement
          /\ posted' = PostTo(posted, "STOP")
    /\ UNCHANGED <<state, mainVars, thread, hwnd, quit, frames, btnVars, stopTimer,
                   exitEvent, daemon, holdFlag, faults, stopAsked>>

\* FD_CONNECT fails until max_connect_time is over (a persistent daemon is
\* waited for without limit): try again, unless the connection has ended.
ConnectTimeout ==
    /\ Pumping /\ sk = "connecting" /\ mi = "off" /\ ~Persistent
    /\ ready' = 0 /\ out' = <<>> /\ lines' = <<>>
    /\ \/ /\ state # "disconnected" /\ state' = "connecting"
          /\ \/ sk' = "connecting" /\ UNCHANGED frames
             \/ sk' = "closed" /\ frames' = <<"open_failed">> \o frames
       \/ /\ state = "disconnected" /\ sk' = "closed"
          /\ UNCHANGED <<state, frames>>
    /\ UNCHANGED <<mainVars, thread, hwnd, quit, posted, btnVars, stopTimer, exitEvent,
                   pw, daemonVars, stopAsked>>

\* FD_READ of a buffer of one line.
Reading(line) == Pumping /\ sk = "open" /\ lines # <<>> /\ Head(lines) = line

\* The password is sent once; a second request means that it did not match.
ReadPrompt ==
    /\ Reading("prompt")
    /\ \/ /\ pw /\ pw' = FALSE /\ Send("password") /\ lines' = Tail(lines)
          /\ UNCHANGED <<state, btnVars, sk, ready, noStop, daemonVars>>
       \/ /\ ~pw /\ CloseManagement
          /\ OnStopQuiet("disconnecting")
          /\ UNCHANGED <<pw, stopFrame, daemon, holdFlag, faults>>

\* Mutant of ReadInfo: the interface counts as ready beyond "ready".
ReadInfoCounts ==
    /\ Reading("info") /\ lines' = Tail(lines)
    /\ ready' = ready + 2 /\ Send("state")
    /\ autoConnect' = (autoConnect \/ (Persistent /\ AutoAttach))
    /\ UNCHANGED <<state, waitUnlock, locked, windowVars, btnVars, stopTimer, exitEvent,
                   sk, pw, daemonVars, stopAsked>>

\* OnReady
ReadInfo ==
    /\ Reading("info") /\ lines' = Tail(lines)
    /\ ready' = 2 /\ Send("state")
    /\ autoConnect' = (autoConnect \/ (Persistent /\ AutoAttach))
    /\ UNCHANGED <<state, waitUnlock, locked, windowVars, btnVars, stopTimer, exitEvent,
                   sk, pw, daemonVars, stopAsked>>

ReadHold ==
    /\ Reading("hold") /\ lines' = Tail(lines)
    /\ OnHold(state)
    /\ UNCHANGED <<noStop, sockVars, daemonVars>>

\* OnStateChange, CONNECTED: with a connect script the state changes when the
\* script is done; one that ended in errors does not count as connected.
ReadConnected ==
    /\ Reading("connected_ok") /\ lines' = Tail(lines)
    /\ \/ /\ Scripts /\ ~Persistent /\ state \in {"connecting", "resuming"}
          /\ Len(frames) < MaxFrames
          /\ frames' = <<"up_script">> \o frames
          /\ UNCHANGED state
       \/ state' = "connected" /\ UNCHANGED frames
    /\ UNCHANGED <<mainVars, thread, hwnd, quit, posted, btnVars, stopTimer, exitEvent,
                   sockVars, out, daemonVars, stopAsked>>

\* Mutant of ReadReconnecting: the state is kept.
ReadReconnectingKeeps ==
    /\ Reading("reconnecting") /\ lines' = Tail(lines)
    /\ UNCHANGED <<state, noStop, btnVars, sockVars, out, daemonVars>>

\* OnStateChange, RECONNECTING
ReadReconnecting ==
    /\ Reading("reconnecting") /\ lines' = Tail(lines)
    /\ state' = IF state = "connected" THEN "reconnecting" ELSE state
    /\ UNCHANGED <<noStop, btnVars, sockVars, out, daemonVars>>

\* Lines that do not touch the connection's state.
ReadOther ==
    /\ Reading("connected_err") \/ Reading("other")
    /\ lines' = Tail(lines)
    /\ UNCHANGED <<state, noStop, btnVars, sockVars, out, daemonVars>>

\* FD_CLOSE
FdClose ==
    /\ Reading("eof")
    /\ CloseManagement
    /\ OnStop(state, posted, stopTimer)
    /\ UNCHANGED <<pw, stopFrame, daemon, holdFlag, faults>>

\* OnProcess, OnService: only the main loop waits for the process.
ProcessExit ==
    /\ Pumping /\ frames = <<>> /\ ~Persistent /\ daemon = "down"
    /\ OnStop(state, posted, stopTimer)
    /\ UNCHANGED <<stopFrame, sockVars, out, lines, daemonVars>>

-----------------------------------------------------------------------------
(* The status thread: what comes after a nested pump *)

Innermost(f) == thread = "running" /\ frames # <<>> /\ Head(frames) = f

\* The wait for a script ends when the script does, or with WM_QUIT.
ConnectScriptDone ==
    /\ Innermost("up_script") /\ frames' = Tail(frames)
    /\ state' = "connected"
    /\ UNCHANGED <<mainVars, thread, hwnd, quit, posted, btnVars, stopTimer, exitEvent,
                   sockVars, out, lines, daemonVars, stopAsked>>

\* Mutant of DisconnectScriptDone: after WM_QUIT the rest is skipped.
DisconnectScriptAborted ==
    /\ Innermost("down_script") /\ frames' = Tail(frames)
    /\ IF quit
       THEN UNCHANGED <<btnVars, exitEvent, stopTimer, autoConnect, hwnd, quit, out>>
       ELSE SignalExit
    /\ UNCHANGED <<state, waitUnlock, locked, thread, posted, sockVars, lines,
                   daemonVars, stopAsked>>

DisconnectScriptDone ==
    /\ Innermost("down_script") /\ frames' = Tail(frames)
    /\ SignalExit
    /\ UNCHANGED <<state, waitUnlock, locked, thread, posted, sockVars, lines,
                   daemonVars, stopAsked>>

\* Mutant of PopupDone: no WM_CLOSE after the message box.
PopupLeavesWindow ==
    /\ Innermost("popup") /\ frames' = Tail(frames)
    /\ KeepWindow(posted)
    /\ UNCHANGED <<btnVars, stopTimer, state, mainVars, thread, exitEvent, sockVars, out,
                   lines, daemonVars, stopAsked>>

\* The user dismisses the message box of OnStop (WM_QUIT closes it too).
PopupDone ==
    /\ Innermost("popup") /\ frames' = Tail(frames)
    /\ CloseStatusWindow
    /\ UNCHANGED <<state, mainVars, thread, exitEvent, sockVars, out, lines, daemonVars,
                   stopAsked>>

\* The message box "Failed to open management" is followed by StopOpenVPN.
OpenFailedDone ==
    /\ Innermost("open_failed") /\ frames' = Tail(frames)
    /\ posted' = PostTo(posted, "STOP")
    /\ UNCHANGED <<state, mainVars, thread, hwnd, quit, btnVars, stopTimer, exitEvent,
                   sockVars, out, lines, daemonVars, stopAsked>>

\* WM_QUIT reaches the main loop: Cleanup.
ThreadExit ==
    /\ thread = "running" /\ quit /\ frames = <<>>
    /\ CloseManagement
    /\ thread' = "none" /\ hwnd' = "none" /\ quit' = FALSE
    /\ UNCHANGED <<state, mainVars, frames, posted, btnVars, stopTimer, exitEvent, pw,
                   daemon, holdFlag, faults, stopAsked>>

ReadLine == \/ ReadPrompt \/ ReadInfo \/ ReadHold \/ ReadConnected
            \/ ReadReconnecting \/ ReadOther \/ FdClose
HandleMessage == \/ HandleStop \/ HandleRelease \/ HandleRestart \/ HandleDetach
StatusThread ==
    \/ ThreadInit \/ HandleMessage \/ StopTimeout \/ FdConnect \/ ConnectTimeout
    \/ ReadLine \/ ProcessExit
    \/ ConnectScriptDone \/ DisconnectScriptDone \/ PopupDone \/ OpenFailedDone
    \/ ThreadExit

-----------------------------------------------------------------------------
(* The daemon, as src/ uses it: started on hold with a management password and
   an exit event, or run by the service; it answers commands in order. *)

guiVars == <<state, mainVars, windowVars, btnVars, stopTimer, exitEvent, sockVars,
             stopAsked>>

Emit(s) == lines' = lines \o s
Held == IF daemon = "hold" THEN <<"hold">> ELSE <<>>
StateReply == IF daemon \in {"connected_ok", "connected_err"} THEN daemon ELSE "other"

DaemonListens ==
    /\ daemon # "down" /\ mi = "off" /\ mi' = "listening"
    /\ UNCHANGED <<guiVars, out, lines, daemon, holdFlag, faults>>

Commanded(m) == mi = m /\ out # <<>> /\ out' = Tail(out) /\ Len(lines) < MaxLines

\* Before it is authenticated every line from the client is a password.
DaemonAuth ==
    /\ Commanded("auth")
    /\ IF Head(out) = "password"
       THEN mi' = "ready" /\ Emit(<<"info">> \o Held)
       ELSE Emit(<<"prompt">>) /\ UNCHANGED mi
    /\ UNCHANGED <<guiVars, daemon, holdFlag, faults>>

DaemonRelease ==
    /\ Commanded("ready") /\ Head(out) = "release"
    /\ holdFlag' = FALSE
    /\ daemon' = IF daemon = "hold" THEN "connecting" ELSE daemon
    /\ UNCHANGED <<guiVars, lines, mi, faults>>

\* SIGHUP, alone or after "hold on": restart, and wait if the hold flag is set.
DaemonHup ==
    /\ Commanded("ready") /\ Head(out) \in {"sighup", "hold_sighup"}
    /\ holdFlag' = (holdFlag \/ Head(out) = "hold_sighup")
    /\ IF holdFlag'
       THEN daemon' = "hold" /\ Emit(<<"reconnecting", "hold">>)
       ELSE daemon' = "connecting" /\ Emit(<<"reconnecting">>)
    /\ UNCHANGED <<guiVars, mi, faults>>

DaemonReplies ==
    /\ Commanded("ready") /\ Head(out) \in {"state", "password"}
    /\ Emit(<<IF Head(out) = "state" THEN StateReply ELSE "other">>)
    /\ UNCHANGED <<guiVars, daemonVars>>

Tell(line) == IF mi = "ready" THEN Emit(<<line>>) ELSE UNCHANGED lines

DaemonConnects ==
    /\ daemon = "connecting" /\ Len(lines) < MaxLines
    /\ daemon' \in {"connected_ok", "connected_err"}
    /\ Tell(daemon')
    /\ UNCHANGED <<guiVars, out, mi, holdFlag, faults>>

\* The tunnel fails (ping restart): the daemon tries again, from hold if set.
DaemonReconnects ==
    /\ daemon \in {"connected_ok", "connected_err"} /\ Len(lines) < MaxLines
    /\ faults < MaxFaults /\ faults' = faults + 1
    /\ IF holdFlag
       THEN /\ daemon' = "hold"
            /\ lines' = IF mi = "ready" THEN lines \o <<"reconnecting", "hold">> ELSE lines
       ELSE daemon' = "connecting" /\ Tell("reconnecting")
    /\ UNCHANGED <<guiVars, out, mi, holdFlag>>

\* The exit event is noticed, or the daemon dies.
DaemonExits ==
    /\ daemon # "down" /\ daemon' = "down" /\ mi' = "off"
    /\ \/ exitEvent /\ ~Persistent /\ UNCHANGED faults
       \/ faults < MaxFaults /\ faults' = faults + 1
    /\ HangUp
    /\ UNCHANGED <<guiVars, out, holdFlag>>

\* The service starts a persistent daemon again.
ServiceRestarts ==
    /\ Persistent /\ daemon = "down"
    /\ holdFlag' \in BOOLEAN
    /\ daemon' = IF holdFlag' THEN "hold" ELSE "connecting"
    /\ UNCHANGED <<guiVars, out, lines, mi, faults>>

\* The daemon drops its management client.
DaemonDropsClient ==
    /\ mi \in {"auth", "ready"} /\ mi' = "listening"
    /\ faults < MaxFaults /\ faults' = faults + 1
    /\ HangUp
    /\ UNCHANGED <<guiVars, out, daemon, holdFlag>>

Daemon == \/ DaemonListens \/ DaemonAuth \/ DaemonRelease \/ DaemonHup
          \/ DaemonReplies \/ DaemonConnects \/ DaemonReconnects \/ DaemonExits
          \/ ServiceRestarts \/ DaemonDropsClient

-----------------------------------------------------------------------------
Init ==
    /\ state = "disconnected"
    /\ autoConnect = (Persistent /\ AutoAttach)
    /\ waitUnlock = FALSE /\ locked = FALSE
    /\ thread = "none" /\ hwnd = "none" /\ quit = FALSE
    /\ frames = <<>> /\ posted = <<>>
    /\ disconnectBtn = FALSE /\ restartBtn = FALSE
    /\ stopTimer = FALSE /\ exitEvent = FALSE
    /\ sk = "closed" /\ ready = 0 /\ pw = FALSE
    /\ out = <<>> /\ lines = <<>>
    /\ \/ /\ ~Persistent /\ daemon = "down" /\ mi = "off" /\ holdFlag = FALSE
       \/ /\ Persistent /\ daemon \in {"hold", "connecting", "connected_ok"}
          /\ mi = "listening"
          /\ holdFlag \in BOOLEAN /\ (daemon = "hold" => holdFlag)
    /\ faults = 0 /\ stopAsked = FALSE

Next == Main \/ StatusThread \/ Daemon

Spec == Init /\ [][Next]_vars

-----------------------------------------------------------------------------
(* Every variable has its type. *)

FlagsOK ==
    /\ autoConnect \in BOOLEAN /\ waitUnlock \in BOOLEAN /\ locked \in BOOLEAN
    /\ quit \in BOOLEAN /\ disconnectBtn \in BOOLEAN /\ restartBtn \in BOOLEAN
    /\ stopTimer \in BOOLEAN /\ exitEvent \in BOOLEAN /\ pw \in BOOLEAN
    /\ holdFlag \in BOOLEAN /\ stopAsked \in BOOLEAN

DataOK ==
    /\ state \in States
    /\ thread \in {"none", "starting", "running"}
    /\ hwnd \in {"none", "open", "stale"}
    /\ frames \in Seq(Frames) /\ posted \in Seq(Messages)
    /\ sk \in {"closed", "connecting", "open"} /\ ready \in 0 .. 2
    /\ out \in Seq(Commands) /\ lines \in Seq(Lines)
    /\ daemon \in DaemonStates /\ mi \in {"off", "listening", "auth", "ready"}
    /\ faults \in 0 .. MaxFaults

TypeOK == FlagsOK /\ DataOK

-----------------------------------------------------------------------------
(* Safety *)

Idle == state \in {"disconnected", "detached"}
HasFrame(f) == \E i \in 1 .. Len(frames) : frames[i] = f

\* Nothing is under way between the GUI and an authenticated daemon.
Quiet == /\ Pumping /\ frames = <<>> /\ posted = <<>>
         /\ sk = "open" /\ mi = "ready" /\ ready = 2 /\ out = <<>> /\ lines = <<>>

\* A profile without a status thread is idle, or StartOpenVPN (openvpn.c:2909)
\* would refuse to start it for as long as the GUI runs.
IdleWithoutThread == thread = "none" => Idle

\* StartOpenVPN never finds an idle profile without a window while its status
\* thread is still being created or cleaned up: there is one thread at most.
OneThread == hwnd = "none" /\ Idle => thread = "none"

\* The window of a finished connection is open only behind a message box that
\* will close it: no window is left for the user to wonder about.
FinishedWindowHasPopup == hwnd = "open" /\ Idle => HasFrame("popup")

\* A stop that was accepted reaches the daemon before the thread is gone, even
\* if the connection ends while the disconnect script is waited for.
StopReachesDaemon ==
    ~Persistent /\ stopAsked => exitEvent \/ HasFrame("down_script")

\* An accepted stop has a deadline: as long as the daemon lives and can be
\* killed, the stop timer runs until the end of the connection is reported.
StopHasDeadline ==
    ~Persistent /\ ~KillMayFail /\ stopAsked /\ hwnd = "open" /\ daemon # "down" =>
        stopTimer \/ HasFrame("down_script") \/ HasFrame("popup")

\* Once all that was said has been heard, a connection shown as connected is
\* connected.
ConnectedIsTrue == Quiet /\ state = "connected" => daemon = "connected_ok"

\* ... and a daemon that waits in a hold is shown as on hold: neither side waits
\* for the other one (OnHold, openvpn.c:158).
HoldIsShown == Quiet /\ daemon = "hold" => state = "onhold"

\* The user can always end a live connection: Disconnect is enabled, or the end
\* is under way.
AlwaysStoppable ==
    Quiet /\ state \notin {"onhold", "disconnected"} => disconnectBtn \/ stopTimer

\* What the code relies on around the status thread's life (inductive): it has a
\* window from its first message to its clean-up, WM_QUIT is posted exactly when
\* the window is destroyed, and a pump is left behind by no thread.
ThreadInv ==
    /\ thread \in {"none", "starting", "running"}
    /\ thread = "none" => hwnd = "none" /\ frames = <<>>
    /\ thread = "starting" => hwnd = "none" /\ frames = <<>> /\ ~Idle
    /\ thread = "running" => hwnd # "none"
    /\ quit <=> hwnd = "stale"

Boxes == {"popup", "open_failed"}

\* ... and, where no script is waited for, a profile whose window or thread is
\* gone is idle (inductive with ThreadInv).
IdleInv ==
    /\ frames \in Seq(Boxes)
    /\ thread = "none" => Idle
    /\ hwnd = "stale" => Idle

-----------------------------------------------------------------------------
(* Action properties *)

\* Until the user wants otherwise, a daemon held by Disconnect is not released.
HoldRetained == [][stopAsked /\ stopAsked' => out' # Append(out, "release")]_vars

-----------------------------------------------------------------------------
(* Liveness.  The status thread keeps running, scripts end, the timer fires, the
   user dismisses message boxes; nothing is assumed of the daemon or the user's
   other actions. *)
Fairness ==
    /\ WF_vars(ThreadInit) /\ WF_vars(HandleMessage) /\ WF_vars(ReadLine)
    /\ WF_vars(StopTimeout) /\ WF_vars(ProcessExit)
    /\ WF_vars(ConnectScriptDone) /\ WF_vars(DisconnectScriptDone)
    /\ WF_vars(PopupDone) /\ WF_vars(OpenFailedDone) /\ WF_vars(ThreadExit)

FairSpec == Spec /\ Fairness

\* An accepted stop ends the status thread, whatever the daemon does.
StopEnds == ~Persistent /\ stopAsked ~> thread = "none" \/ ~stopAsked
=============================================================================
