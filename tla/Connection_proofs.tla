--------------------------- MODULE Connection_proofs ---------------------------
(***************************************************************************)
(* Theorems about Connection, for every value of its constants:            *)
(*   TypeCorrect      the variables have their types                       *)
(*   ThreadLife       the status thread's life: its window, WM_QUIT, the   *)
(*                    clean-up (ThreadInv, inductive given the types)      *)
(*   AtMostOneThread  never two status threads, from ThreadLife            *)
(*   Restartable      without scripts, a connection without a thread is    *)
(*                    idle and can be started (IdleInv)                    *)
(*   StopDelivered    an accepted stop reaches the daemon, or is under way *)
(*   WindowGoes       the window of an ended connection stays only for a   *)
(*                    message box                                          *)
(*   StopTimed        an accepted stop has a deadline, from DeadlineInv    *)
(*   HoldShown        once all is said and heard, a held daemon is shown   *)
(*   ConnectedShown   ... and what is shown as connected is (HeldInv,      *)
(*                    ConnectedInv: what is still to be read or carried    *)
(*                    out puts right what is not shown)                    *)
(*   Stoppable        ... and the user can stop it (ButtonInv, DirectInv)  *)
(* Each rests on an inductive invariant; its lemmas have one step per      *)
(* action, for the main thread, the status thread and the daemon.          *)
(***************************************************************************)
EXTENDS Connection, TLAPS

USE DEF mainVars, windowVars, btnVars, sockVars, daemonVars, guiVars, stopFrame, noStop

-----------------------------------------------------------------------------
(* Types *)

\* OnStop, CloseManagement and StartBody keep the types of what they change.
LEMMA OnStopFlags ==
    ASSUME NEW st, NEW rest, NEW armed \in BOOLEAN, FlagsOK, OnStop(st, rest, armed)
    PROVE  /\ autoConnect' \in BOOLEAN /\ quit' \in BOOLEAN
           /\ disconnectBtn' \in BOOLEAN /\ restartBtn' \in BOOLEAN
           /\ stopTimer' \in BOOLEAN
BY Zenon DEF FlagsOK, OnStop, OnStopReported, OnStopQuiet, OnStopIgnored, KeepWindow,
             DestroyWindow

LEMMA StartFlags ==
    ASSUME NEW st, FlagsOK, autoConnect' \in BOOLEAN, StartBody(st)
    PROVE  FlagsOK'
<1>1. CASE Post("RELEASE")
  BY <1>1, Zenon DEF FlagsOK, Post
<1>2. CASE StartIgnored(st)
  BY <1>2, Zenon DEF FlagsOK, StartIgnored
<1>3. CASE Launch(st)
  BY <1>3, Zenon DEF FlagsOK, Launch
<1>4. CASE LaunchFails(st)
  BY <1>4, Zenon DEF FlagsOK, LaunchFails
<1> QED BY <1>1, <1>2, <1>3, <1>4 DEF StartBody

LEMMA MainFlags == FlagsOK /\ Main => FlagsOK'
<1> SUFFICES ASSUME FlagsOK, Main PROVE FlagsOK'
  OBVIOUS
<1>1. CASE StartOpenVPN
  BY <1>1, StartFlags, Zenon DEF FlagsOK, StartOpenVPN
<1>2. CASE StopOpenVPN
  BY <1>2, Zenon DEF FlagsOK, StopOpenVPN, Post
<1>3. CASE RestartOpenVPN
  <2>1. CASE Post("RELEASE") \/ Post("RESTART")
    <3>1. UNCHANGED autoConnect
      BY <1>3 DEF RestartOpenVPN
    <3>2. CASE Post("RELEASE")
      BY <3>1, <3>2, Zenon DEF FlagsOK, Post
    <3>3. CASE Post("RESTART")
      BY <3>1, <3>3, Zenon DEF FlagsOK, Post
    <3> QED BY <2>1, <3>2, <3>3
  <2>2. CASE StartBody(state)
    BY <1>3, <2>2, StartFlags, Zenon DEF FlagsOK, RestartOpenVPN
  <2> QED BY <1>3, <2>1, <2>2 DEF RestartOpenVPN
<1>4. CASE DetachOpenVPN
  BY <1>4, Zenon DEF FlagsOK, DetachOpenVPN, Post
<1>5. CASE ManagePersistent
  BY <1>5, StartFlags, Zenon DEF FlagsOK, ManagePersistent
<1>6. CASE HandleSessionLock
  BY <1>6, Zenon DEF FlagsOK, HandleSessionLock
<1>7. CASE HandleSessionUnlock
  BY <1>7, Zenon DEF FlagsOK, HandleSessionUnlock
<1> QED BY <1>1, <1>2, <1>3, <1>4, <1>5, <1>6, <1>7 DEF Main

LEMMA ThreadFlags == FlagsOK /\ StatusThread => FlagsOK'
<1> SUFFICES ASSUME FlagsOK, StatusThread PROVE FlagsOK'
  OBVIOUS
<1> USE DEF FlagsOK
<1>1. CASE ThreadInit
  BY <1>1, Zenon DEF ThreadInit
<1>2. CASE HandleStop
  <2>1. CASE HoldDaemon(Tail(posted))
    BY <1>2, <2>1, Zenon DEF HandleStop, HoldDaemon, KeepWindow, OnStopQuiet,
                             DestroyWindow, SignalExit
  <2>2. CASE ~HoldDaemon(Tail(posted))
    BY <1>2, <2>2, Zenon DEF HandleStop, KeepWindow, SignalExit
  <2> QED BY <2>1, <2>2
<1>3. CASE HandleRelease
  BY <1>3, Zenon DEF HandleRelease, OnHold, KeepWindow
<1>4. CASE HandleRestart
  BY <1>4, Zenon DEF HandleRestart, KeepWindow
<1>5. CASE HandleDetach
  BY <1>5, Zenon DEF HandleDetach, OnStopQuiet, DestroyWindow
<1>6. CASE StopTimeout
  BY <1>6, OnStopFlags, Zenon DEF StopTimeout
<1>7. CASE FdConnect
  BY <1>7, Zenon DEF FdConnect
<1>8. CASE ConnectTimeout
  BY <1>8, Zenon DEF ConnectTimeout
<1>9. CASE ReadPrompt
  BY <1>9, Zenon DEF ReadPrompt, OnStopQuiet, DestroyWindow
<1>10. CASE ReadInfo
  BY <1>10, Zenon DEF ReadInfo
<1>11. CASE ReadHold
  BY <1>11, Zenon DEF ReadHold, OnHold
<1>12. CASE ReadConnected
  BY <1>12, Zenon DEF ReadConnected
<1>13. CASE ReadReconnecting
  BY <1>13, Zenon DEF ReadReconnecting
<1>14. CASE ReadOther
  BY <1>14, Zenon DEF ReadOther
<1>15. CASE FdClose
  BY <1>15, OnStopFlags, Zenon DEF FdClose
<1>16. CASE ProcessExit
  BY <1>16, OnStopFlags, Zenon DEF ProcessExit
<1>17. CASE ConnectScriptDone
  BY <1>17, Zenon DEF ConnectScriptDone
<1>18. CASE DisconnectScriptDone
  BY <1>18, Zenon DEF DisconnectScriptDone, SignalExit
<1>19. CASE PopupDone
  BY <1>19, Zenon DEF PopupDone, CloseStatusWindow, DestroyWindow, KeepWindow
<1>20. CASE OpenFailedDone
  BY <1>20, Zenon DEF OpenFailedDone
<1>21. CASE ThreadExit
  BY <1>21, Zenon DEF ThreadExit
<1> QED
  BY <1>1, <1>2, <1>3, <1>4, <1>5, <1>6, <1>7, <1>8, <1>9, <1>10, <1>11, <1>12, <1>13,
     <1>14, <1>15, <1>16, <1>17, <1>18, <1>19, <1>20, <1>21
     DEF StatusThread, HandleMessage, ReadLine

\* Of the flags the daemon has only its own.
LEMMA DaemonFlags == FlagsOK /\ Daemon => FlagsOK'
<1> SUFFICES ASSUME FlagsOK, Daemon PROVE FlagsOK'
  OBVIOUS
<1>1. UNCHANGED guiVars
  BY DEF Daemon, DaemonListens, DaemonAuth, DaemonRelease, DaemonHup, DaemonReplies,
         DaemonConnects, DaemonReconnects, DaemonExits, ServiceRestarts, DaemonDropsClient
<1>2. holdFlag' \in BOOLEAN
  BY Zenon DEF FlagsOK, Daemon, DaemonListens, DaemonAuth, DaemonRelease, DaemonHup,
         DaemonReplies, DaemonConnects, DaemonReconnects, DaemonExits, ServiceRestarts,
         DaemonDropsClient
<1> QED BY <1>1, <1>2, Zenon DEF FlagsOK

-----------------------------------------------------------------------------
LEMMA OnStopData ==
    ASSUME NEW st \in States, NEW rest \in Seq(Messages), NEW armed, DataOK,
           OnStop(st, rest, armed)
    PROVE  /\ state' \in States /\ hwnd' \in {"none", "open", "stale"}
           /\ frames' \in Seq(Frames) /\ posted' \in Seq(Messages)
<1>1. CASE OnStopReported(st, rest, armed)
  BY <1>1 DEF DataOK, OnStopReported, KeepWindow, States, Frames
<1>2. CASE OnStopQuiet(st)
  BY <1>2 DEF DataOK, OnStopQuiet, DestroyWindow, States
<1>3. CASE OnStopIgnored(st, rest, armed)
  BY <1>3 DEF DataOK, OnStopIgnored, KeepWindow
<1> QED BY <1>1, <1>2, <1>3 DEF OnStop

LEMMA CloseManagementData ==
    ASSUME DataOK, CloseManagement
    PROVE  /\ sk' \in {"closed", "connecting", "open"} /\ ready' \in 0 .. 2
           /\ out' \in Seq(Commands) /\ lines' \in Seq(Lines)
           /\ mi' \in {"off", "listening", "auth", "ready"}
<1>1. CASE sk = "closed"
  BY <1>1 DEF DataOK, CloseManagement
<1>2. CASE sk # "closed"
  BY <1>2 DEF DataOK, CloseManagement
<1> QED BY <1>1, <1>2

LEMMA PostToData ==
    ASSUME DataOK, NEW m \in Messages PROVE PostTo(posted, m) \in Seq(Messages)
BY DEF DataOK, PostTo

LEMMA StartData ==
    ASSUME NEW st \in States, DataOK, StartBody(st)
    PROVE  DataOK'
<1>1. CASE Post("RELEASE")
  BY <1>1, PostToData DEF DataOK, Post, Messages
<1>2. CASE StartIgnored(st)
  BY <1>2 DEF DataOK, StartIgnored
<1>3. CASE Launch(st)
  BY <1>3 DEF DataOK, Launch, States, DaemonStates
<1>4. CASE LaunchFails(st)
  BY <1>4 DEF DataOK, LaunchFails, States
<1> QED BY <1>1, <1>2, <1>3, <1>4 DEF StartBody

LEMMA MainData == DataOK /\ Main => DataOK'
<1> SUFFICES ASSUME DataOK, Main PROVE DataOK'
  OBVIOUS
<1>s. state \in States /\ "detached" \in States
  BY DEF DataOK, States
<1>p. ASSUME NEW m \in Messages, Post(m) PROVE DataOK'
  BY <1>p, PostToData DEF DataOK, Post
<1>1. CASE StartOpenVPN
  BY <1>1, <1>s, StartData DEF StartOpenVPN
<1>2. CASE StopOpenVPN
  BY <1>2, <1>p DEF StopOpenVPN, Messages
<1>3. CASE RestartOpenVPN
  BY <1>3, <1>p, <1>s, StartData DEF RestartOpenVPN, Messages
<1>4. CASE DetachOpenVPN
  BY <1>4, <1>p DEF DetachOpenVPN, Messages
<1>5. CASE ManagePersistent
  BY <1>5, <1>s, StartData DEF ManagePersistent
<1>6. CASE HandleSessionLock
  BY <1>6, PostToData DEF DataOK, HandleSessionLock, Messages
<1>7. CASE HandleSessionUnlock
  BY <1>7 DEF DataOK, HandleSessionUnlock
<1> QED BY <1>1, <1>2, <1>3, <1>4, <1>5, <1>6, <1>7 DEF Main

LEMMA ThreadData == DataOK /\ StatusThread => DataOK'
<1> SUFFICES ASSUME DataOK, StatusThread PROVE DataOK'
  OBVIOUS
<1>t. posted # <<>> => Tail(posted) \in Seq(Messages)
  BY DEF DataOK
<1>l. lines # <<>> => Tail(lines) \in Seq(Lines)
  BY DEF DataOK
<1>f. frames # <<>> => Tail(frames) \in Seq(Frames)
  BY DEF DataOK
<1>s. ASSUME NEW cmd \in Commands, Send(cmd) PROVE out' \in Seq(Commands)
  BY <1>s DEF DataOK, Send
<1>p. ASSUME NEW f \in Frames PROVE <<f>> \o frames \in Seq(Frames)
  BY DEF DataOK
<1>1. CASE ThreadInit
  <2>1. UNCHANGED <<posted, out, lines, daemonVars>>
    BY <1>1, Zenon DEF ThreadInit
  <2>2. /\ thread' \in {"none", "running"} /\ hwnd' \in {hwnd, "open"}
        /\ sk' \in {sk, "connecting", "closed"} /\ ready' \in {ready, 0}
        /\ state' \in {state, "disconnected"}
    BY <1>1, Zenon DEF ThreadInit
  <2>3. frames' = frames \/ frames' = <<"open_failed">>
    BY <1>1, Zenon DEF ThreadInit
  <2>4. frames' \in Seq(Frames)
    <3>1. <<"open_failed">> \in Seq(Frames)
      BY DEF Frames
    <3>2. frames \in Seq(Frames)
      BY Zenon DEF DataOK
    <3> QED BY <2>3, <3>1, <3>2, Zenon
  <2>5. thread' \in {"none", "starting", "running"} /\ hwnd' \in {"none", "open", "stale"}
    BY <2>2 DEF DataOK
  <2>6. sk' \in {"closed", "connecting", "open"} /\ ready' \in 0 .. 2 /\ state' \in States
    BY <2>2 DEF DataOK, States
  <2> QED BY <2>1, <2>4, <2>5, <2>6, Zenon DEF DataOK
<1>2. CASE HandleStop
  <2>1. CASE Persistent /\ HoldDaemon(Tail(posted))
    <3>1. CASE ready > 1
      BY <1>2, <2>1, <3>1, <1>t, <1>s
         DEF DataOK, HandleStop, HoldDaemon, KeepWindow, States, Commands
    <3>2. CASE ~(ready > 1)
      BY <1>2, <2>1, <3>2
         DEF DataOK, HandleStop, HoldDaemon, KeepWindow, OnStopQuiet, DestroyWindow, States
    <3> QED BY <3>1, <3>2
  <2>2. CASE ~(Persistent /\ HoldDaemon(Tail(posted)))
    BY <1>2, <2>2, <1>t, <1>p DEF DataOK, HandleStop, KeepWindow, SignalExit, States, Frames
  <2> QED BY <2>1, <2>2
<1>3. CASE HandleRelease
  BY <1>3, <1>t, <1>s DEF DataOK, HandleRelease, OnHold, KeepWindow, States, Commands
<1>4. CASE HandleRestart
  BY <1>4, <1>t, <1>s DEF DataOK, HandleRestart, KeepWindow, States, Commands
<1>5. CASE HandleDetach
  BY <1>5 DEF DataOK, HandleDetach, OnStopQuiet, DestroyWindow, States
<1>6. CASE StopTimeout
  <2>1. lines' \in Seq(Lines)
    <3>1. CASE HangUp
      BY <3>1 DEF DataOK, HangUp, Lines
    <3>2. CASE UNCHANGED lines
      BY <3>2 DEF DataOK
    <3> QED BY <1>6, <3>1, <3>2, Zenon DEF StopTimeout
  <2>2. /\ state' \in States /\ hwnd' \in {"none", "open", "stale"}
        /\ frames' \in Seq(Frames) /\ posted' \in Seq(Messages)
    <3>1. state \in States /\ posted \in Seq(Messages) /\ OnStop(state, posted, FALSE)
      BY <1>6 DEF DataOK, StopTimeout
    <3> QED BY <3>1, OnStopData
  <2>3. UNCHANGED <<thread, sockVars, out, faults>>
    BY <1>6, Zenon DEF StopTimeout
  <2>4. daemon' \in {daemon, "down"} /\ mi' \in {mi, "off"}
    BY <1>6, Zenon DEF StopTimeout
  <2> QED BY <2>1, <2>2, <2>3, <2>4 DEF DataOK, DaemonStates
<1>7. CASE FdConnect
  <2>1. UNCHANGED <<state, thread, hwnd, frames, daemon, faults>>
    BY <1>7, Zenon DEF FdConnect
  <2>2. posted' \in Seq(Messages)
    BY <1>7, PostToData DEF DataOK, FdConnect, Messages
  <2>3. CASE CloseManagement
    BY <2>1, <2>2, <2>3, CloseManagementData DEF DataOK
  <2>4. CASE ~CloseManagement
    <3>1. sk' = "open" /\ ready' = 1 /\ mi' = "auth" /\ lines' = <<"prompt">> /\ out' = out
      BY <1>7, <2>4, Zenon DEF FdConnect
    <3>2. <<"prompt">> \in Seq(Lines)
      BY DEF Lines
    <3> QED BY <2>1, <2>2, <3>1, <3>2 DEF DataOK
  <2> QED BY <2>3, <2>4
<1>8. CASE ConnectTimeout
  <2>1. UNCHANGED <<thread, hwnd, posted, daemonVars>> /\ ready' = 0
    BY <1>8, Zenon DEF ConnectTimeout
  <2>2. out' \in Seq(Commands) /\ lines' \in Seq(Lines)
    BY <1>8 DEF ConnectTimeout
  <2>3. sk' \in {"connecting", "closed"} /\ state' \in {state, "connecting"}
    BY <1>8, Zenon DEF ConnectTimeout
  <2>4. frames' \in {frames, <<"open_failed">> \o frames}
    BY <1>8, Zenon DEF ConnectTimeout
  <2>5. frames' \in Seq(Frames)
    BY <1>p, <2>4 DEF DataOK, Frames
  <2> QED BY <2>1, <2>2, <2>3, <2>5 DEF DataOK, States
<1>9. CASE ReadPrompt
  <2>1. CASE Send("password") /\ lines' = Tail(lines)
                /\ UNCHANGED <<state, btnVars, sk, ready, noStop, daemonVars>>
    <3>1. lines' \in Seq(Lines)
      BY <1>9, <2>1, <1>l DEF ReadPrompt, Reading
    <3>2. out' \in Seq(Commands)
      BY <2>1, <1>s DEF Commands
    <3> QED BY <2>1, <3>1, <3>2 DEF DataOK
  <2>2. CASE /\ CloseManagement /\ OnStopQuiet("disconnecting")
             /\ UNCHANGED <<stopFrame, daemon, faults>>
    BY <2>2, CloseManagementData DEF DataOK, OnStopQuiet, DestroyWindow, States
  <2> QED BY <1>9, <2>1, <2>2, Zenon DEF ReadPrompt
<1>10. CASE ReadInfo
  BY <1>10, <1>l, <1>s DEF DataOK, ReadInfo, Reading, Commands
<1>11. CASE ReadHold
  BY <1>11, <1>l, <1>s DEF DataOK, ReadHold, OnHold, Reading, States, Commands
<1>12. CASE ReadConnected
  BY <1>12, <1>l, <1>p DEF DataOK, ReadConnected, Reading, States, Frames
<1>13. CASE ReadReconnecting
  BY <1>13, <1>l DEF DataOK, ReadReconnecting, Reading, States
<1>14. CASE ReadOther
  BY <1>14, <1>l DEF DataOK, ReadOther, Reading
<1>15. CASE FdClose
  BY <1>15, OnStopData, CloseManagementData DEF DataOK, FdClose
<1>16. CASE ProcessExit
  BY <1>16, OnStopData DEF DataOK, ProcessExit
<1>17. CASE ConnectScriptDone
  BY <1>17, <1>f DEF DataOK, ConnectScriptDone, Innermost, States
<1>18. CASE DisconnectScriptDone
  BY <1>18, <1>f DEF DataOK, DisconnectScriptDone, SignalExit, Innermost
<1>19. CASE PopupDone
  <2>1. hwnd' \in {hwnd, "stale"} /\ (posted' = posted \/ posted' = <<>>)
    BY <1>19, Zenon DEF PopupDone, CloseStatusWindow, DestroyWindow, KeepWindow
  <2>2. frames' \in Seq(Frames)
    BY <1>19, <1>f DEF PopupDone, Innermost
  <2>3. UNCHANGED <<state, thread, sockVars, out, lines, daemonVars>>
    BY <1>19, Zenon DEF PopupDone
  <2>4. posted' \in Seq(Messages)
    <3>1. posted \in Seq(Messages) /\ <<>> \in Seq(Messages)
      BY DEF DataOK
    <3> QED BY <2>1, <3>1, Zenon
  <2>5. hwnd' \in {"none", "open", "stale"}
    BY <2>1, Zenon DEF DataOK
  <2> QED BY <2>5, <2>2, <2>3, <2>4, Zenon DEF DataOK
<1>20. CASE OpenFailedDone
  BY <1>20, <1>f, PostToData DEF DataOK, OpenFailedDone, Innermost, Messages
<1>21. CASE ThreadExit
  BY <1>21, CloseManagementData DEF DataOK, ThreadExit
<1> QED
  BY <1>1, <1>2, <1>3, <1>4, <1>5, <1>6, <1>7, <1>8, <1>9, <1>10, <1>11, <1>12, <1>13,
     <1>14, <1>15, <1>16, <1>17, <1>18, <1>19, <1>20, <1>21
     DEF StatusThread, HandleMessage, ReadLine

LEMMA DaemonData == DataOK /\ Daemon => DataOK'
<1> SUFFICES ASSUME DataOK, Daemon PROVE DataOK'
  OBVIOUS
<1>g. UNCHANGED guiVars
  BY DEF Daemon, DaemonListens, DaemonAuth, DaemonRelease, DaemonHup, DaemonReplies,
         DaemonConnects, DaemonReconnects, DaemonExits, ServiceRestarts, DaemonDropsClient
<1>e. ASSUME NEW s \in Seq(Lines), Emit(s) PROVE lines' \in Seq(Lines)
  BY <1>e DEF DataOK, Emit
<1>h. HangUp => lines' \in Seq(Lines)
  BY DEF DataOK, HangUp, Lines
<1>t. ASSUME NEW l \in Lines, Tell(l) PROVE lines' \in Seq(Lines)
  <2>1. CASE mi = "ready"
    <3>1. lines' = lines \o <<l>>
      BY <1>t, <2>1, Zenon DEF Tell, Emit
    <3> QED BY <3>1 DEF DataOK
  <2>2. CASE mi # "ready"
    BY <1>t, <2>2 DEF DataOK, Tell
  <2> QED BY <2>1, <2>2
<1>c. out # <<>> => Tail(out) \in Seq(Commands)
  BY DEF DataOK
<1>1. CASE DaemonListens
  BY <1>1, <1>g DEF DataOK, DaemonListens
<1>2. CASE DaemonAuth
  <2>1. <<"info">> \o Held \in Seq(Lines) /\ <<"prompt">> \in Seq(Lines)
    <3>1. Held \in Seq(Lines)
      <4>1. <<"hold">> \in Seq(Lines) /\ <<>> \in Seq(Lines)
        BY DEF Lines
      <4> QED BY <4>1, Zenon DEF Held
    <3> QED BY <3>1 DEF Lines
  <2>2. lines' \in Seq(Lines)
    BY <1>2, <1>e, <2>1 DEF DaemonAuth
  <2> QED BY <1>2, <1>g, <1>c, <2>2 DEF DataOK, DaemonAuth, Commanded
<1>3. CASE DaemonRelease
  BY <1>3, <1>g, <1>c DEF DataOK, DaemonRelease, Commanded, DaemonStates
<1>4. CASE DaemonHup
  <2>1. <<"reconnecting", "hold">> \in Seq(Lines) /\ <<"reconnecting">> \in Seq(Lines)
    BY DEF Lines
  <2>2. lines' \in Seq(Lines) /\ daemon' \in {"hold", "connecting"}
    BY <1>4, <1>e, <2>1, Zenon DEF DaemonHup
  <2>3. out' \in Seq(Commands) /\ UNCHANGED <<mi, faults>>
    BY <1>4, <1>c, Zenon DEF DaemonHup, Commanded
  <2> QED BY <1>g, <2>2, <2>3 DEF DataOK, DaemonStates
<1>5. CASE DaemonReplies
  <2>1. StateReply \in Lines /\ "other" \in Lines
    BY DEF StateReply, Lines
  <2>2. lines' \in Seq(Lines)
    <3>1. \/ Emit(<<StateReply>>) \/ Emit(<<"other">>)
      BY <1>5, Zenon DEF DaemonReplies
    <3>2. <<StateReply>> \in Seq(Lines) /\ <<"other">> \in Seq(Lines)
      BY <2>1
    <3> QED BY <3>1, <3>2, <1>e
  <2> QED BY <1>5, <1>g, <1>c, <2>2 DEF DataOK, DaemonReplies, Commanded
<1>6. CASE DaemonConnects
  <2>1. daemon' \in Lines /\ daemon' \in DaemonStates
    BY <1>6 DEF DaemonConnects, Lines, DaemonStates
  <2>2. lines' \in Seq(Lines)
    BY <1>6, <1>t, <2>1 DEF DaemonConnects
  <2> QED BY <1>6, <1>g, <2>1, <2>2 DEF DataOK, DaemonConnects
<1>7. CASE DaemonReconnects
  <2>1. <<"reconnecting", "hold">> \in Seq(Lines) /\ "reconnecting" \in Lines
    BY DEF Lines
  <2>2. lines' \in Seq(Lines)
    <3>1. \/ lines' = lines \o <<"reconnecting", "hold">>
          \/ lines' = lines
          \/ Tell("reconnecting")
      BY <1>7, Zenon DEF DaemonReconnects
    <3>2. lines \o <<"reconnecting", "hold">> \in Seq(Lines)
      BY <2>1 DEF DataOK
    <3> QED BY <3>1, <3>2, <2>1, <1>t DEF DataOK
  <2>3. daemon' \in {"hold", "connecting"} /\ UNCHANGED <<out, mi>>
    BY <1>7, Zenon DEF DaemonReconnects
  <2>4. faults' \in 0 .. MaxFaults
    BY <1>7, ConnectionAssumption DEF DataOK, DaemonReconnects
  <2> QED BY <1>g, <2>2, <2>3, <2>4 DEF DataOK, DaemonStates
<1>8. CASE DaemonExits
  <2>1. faults' \in 0 .. MaxFaults
    BY <1>8, ConnectionAssumption DEF DataOK, DaemonExits
  <2>2. daemon' = "down" /\ mi' = "off" /\ UNCHANGED out /\ lines' \in Seq(Lines)
    BY <1>8, <1>h, Zenon DEF DaemonExits
  <2> QED BY <1>g, <2>1, <2>2 DEF DataOK, DaemonStates
<1>9. CASE ServiceRestarts
  <2>1. daemon' \in {"hold", "connecting"} /\ UNCHANGED <<out, lines, mi, faults>>
    BY <1>9, Zenon DEF ServiceRestarts
  <2> QED BY <1>g, <2>1 DEF DataOK, DaemonStates
<1>10. CASE DaemonDropsClient
  <2>1. faults' \in 0 .. MaxFaults
    BY <1>10, ConnectionAssumption DEF DataOK, DaemonDropsClient
  <2>2. mi' = "listening" /\ UNCHANGED <<out, daemon>> /\ lines' \in Seq(Lines)
    BY <1>10, <1>h, Zenon DEF DaemonDropsClient
  <2> QED BY <1>g, <2>1, <2>2 DEF DataOK
<1> QED
  BY <1>1, <1>2, <1>3, <1>4, <1>5, <1>6, <1>7, <1>8, <1>9, <1>10 DEF Daemon

\* Every variable of a connection keeps its type.
THEOREM TypeCorrect == Spec => []TypeOK
<1>1. Init => TypeOK
  <2> SUFFICES ASSUME Init PROVE TypeOK
    OBVIOUS
  <2>1. FlagsOK
    BY ConnectionAssumption, Zenon DEF Init, FlagsOK
  <2>2. DataOK
    BY ConnectionAssumption
       DEF Init, DataOK, States, Frames, Messages, Commands, Lines, DaemonStates
  <2> QED BY <2>1, <2>2 DEF TypeOK
<1>2. TypeOK /\ [Next]_vars => TypeOK'
  <2> SUFFICES ASSUME TypeOK, [Next]_vars PROVE TypeOK'
    OBVIOUS
  <2>0. FlagsOK /\ DataOK
    BY DEF TypeOK
  <2>1. CASE Main
    BY <2>0, <2>1, MainFlags, MainData DEF TypeOK
  <2>2. CASE StatusThread
    BY <2>0, <2>2, ThreadFlags, ThreadData DEF TypeOK
  <2>3. CASE Daemon
    BY <2>0, <2>3, DaemonFlags, DaemonData DEF TypeOK
  <2>4. CASE UNCHANGED vars
    <3>1. FlagsOK'
      BY <2>0, <2>4, Zenon DEF FlagsOK, vars
    <3>2. DataOK'
      BY <2>0, <2>4 DEF DataOK, vars
    <3> QED BY <3>1, <3>2 DEF TypeOK
  <2> QED BY <2>1, <2>2, <2>3, <2>4 DEF Next
<1> QED BY <1>1, <1>2, PTL DEF Spec
-----------------------------------------------------------------------------
(* The life of the status thread *)

\* What a running thread may do to its window.
LEMMA RunningKeeps ==
    ASSUME ThreadInv, thread = "running", thread' = "running",
           UNCHANGED <<hwnd, quit>> \/ (hwnd' = "stale" /\ quit' = TRUE)
    PROVE  ThreadInv'
<1>1. hwnd' # "none" /\ (quit' <=> hwnd' = "stale")
  <2>1. CASE UNCHANGED <<hwnd, quit>>
    BY <2>1, Zenon DEF ThreadInv
  <2>2. CASE hwnd' = "stale" /\ quit' = TRUE
    BY <2>2, Zenon
  <2> QED BY <2>1, <2>2
<1>2. thread' # "none" /\ thread' # "starting"
  BY Zenon
<1> QED BY <1>1, <1>2, Zenon DEF ThreadInv

\* What everyone else may do, who leaves the thread and its window alone.
LEMMA OthersKeep ==
    ASSUME ThreadInv, UNCHANGED <<thread, hwnd, quit, frames>>, ~Idle => ~Idle'
    PROVE  ThreadInv'
BY Zenon DEF ThreadInv

LEMMA OnStopWindow ==
    ASSUME NEW st, NEW rest, NEW armed, OnStop(st, rest, armed)
    PROVE  UNCHANGED <<hwnd, quit>> \/ (hwnd' = "stale" /\ quit' = TRUE)
BY Zenon DEF OnStop, OnStopReported, OnStopQuiet, OnStopIgnored, KeepWindow, DestroyWindow

LEMMA StartThread ==
    ASSUME NEW st, st = state \/ (st = "detached" /\ Idle), ThreadInv, StartBody(st)
    PROVE  ThreadInv'
<1>1. CASE Post("RELEASE")
  BY <1>1, OthersKeep, Zenon DEF Post, Idle
<1>2. CASE StartIgnored(st)
  BY <1>2, OthersKeep, Zenon DEF StartIgnored, Idle
<1>3. CASE Launch(st)
  <2>1. thread' = "starting" /\ hwnd' = "none" /\ UNCHANGED <<hwnd, quit, frames>>
    BY <1>3, Zenon DEF Launch
  <2>2. Idle /\ ~Idle'
    BY <1>3 DEF Launch, Idle
  <2>3. frames = <<>>
    BY <1>3, <2>1, <2>2, Zenon DEF ThreadInv, Launch
  <2> QED BY <2>1, <2>2, <2>3, Zenon DEF ThreadInv
<1>4. CASE LaunchFails(st)
  <2>1. Idle
    BY <1>4, Zenon DEF LaunchFails, Idle
  <2> QED BY <1>4, <2>1, OthersKeep, Zenon DEF LaunchFails
<1> QED BY <1>1, <1>2, <1>3, <1>4 DEF StartBody

LEMMA MainThread == ThreadInv /\ Main => ThreadInv'
<1> SUFFICES ASSUME ThreadInv, Main PROVE ThreadInv'
  OBVIOUS
<1>p. ASSUME NEW m, Post(m) PROVE ThreadInv'
  BY <1>p, OthersKeep, Zenon DEF Post, Idle
<1>1. CASE StartOpenVPN
  BY <1>1, StartThread, Zenon DEF StartOpenVPN
<1>2. CASE StopOpenVPN
  BY <1>2, <1>p, Zenon DEF StopOpenVPN
<1>3. CASE RestartOpenVPN
  BY <1>3, <1>p, StartThread, Zenon DEF RestartOpenVPN
<1>4. CASE DetachOpenVPN
  BY <1>4, <1>p, Zenon DEF DetachOpenVPN
<1>5. CASE ManagePersistent
  BY <1>5, StartThread, Zenon DEF ManagePersistent, Idle
<1>6. CASE HandleSessionLock
  BY <1>6, OthersKeep, Zenon DEF HandleSessionLock, Idle
<1>7. CASE HandleSessionUnlock
  BY <1>7, OthersKeep, Zenon DEF HandleSessionUnlock, Idle
<1> QED BY <1>1, <1>2, <1>3, <1>4, <1>5, <1>6, <1>7 DEF Main

LEMMA StatusThreadLife == ThreadInv /\ StatusThread => ThreadInv'
<1> SUFFICES ASSUME ThreadInv, StatusThread PROVE ThreadInv'
  OBVIOUS
<1> DEFINE WindowStep ==
      /\ thread = "running" /\ thread' = "running"
      /\ UNCHANGED <<hwnd, quit>> \/ (hwnd' = "stale" /\ quit' = TRUE)
<1>w. WindowStep => ThreadInv'
  BY RunningKeeps, Zenon
<1>1. CASE ThreadInit
  <2>1. CASE thread' = "running"
    <3>1. hwnd' = "open" /\ UNCHANGED quit /\ ~quit
      BY <1>1, <2>1, Zenon DEF ThreadInit, ThreadInv
    <3> QED BY <2>1, <3>1, Zenon DEF ThreadInv
  <2>2. CASE thread' = "none"
    <3>1. UNCHANGED <<hwnd, quit, frames>> /\ thread = "starting"
      BY <1>1, <2>2, Zenon DEF ThreadInit
    <3> QED BY <2>2, <3>1, Zenon DEF ThreadInv
  <2> QED BY <1>1, <2>1, <2>2, Zenon DEF ThreadInit
<1>2. CASE HandleStop
  <2>1. CASE HoldDaemon(Tail(posted))
    BY <1>2, <1>w, <2>1, Zenon
       DEF HandleStop, Pumping, HoldDaemon, KeepWindow, OnStopQuiet, DestroyWindow
  <2>2. CASE ~HoldDaemon(Tail(posted))
    BY <1>2, <1>w, <2>2, Zenon DEF HandleStop, Pumping, KeepWindow, SignalExit
  <2> QED BY <2>1, <2>2
<1>3. CASE HandleRelease
  BY <1>3, <1>w, Zenon DEF HandleRelease, Pumping, KeepWindow
<1>4. CASE HandleRestart
  BY <1>4, <1>w, Zenon DEF HandleRestart, Pumping, KeepWindow
<1>5. CASE HandleDetach
  BY <1>5, <1>w, Zenon DEF HandleDetach, Pumping, OnStopQuiet, DestroyWindow
<1>6. CASE StopTimeout
  BY <1>6, <1>w, OnStopWindow, Zenon DEF StopTimeout, Pumping
<1>7. CASE FdConnect
  BY <1>7, <1>w, Zenon DEF FdConnect, Pumping
<1>8. CASE ConnectTimeout
  BY <1>8, <1>w, Zenon DEF ConnectTimeout, Pumping
<1>9. CASE ReadPrompt
  BY <1>9, <1>w, Zenon DEF ReadPrompt, Reading, Pumping, OnStopQuiet, DestroyWindow
<1>10. CASE ReadInfo
  BY <1>10, <1>w, Zenon DEF ReadInfo, Reading, Pumping
<1>11. CASE ReadHold
  BY <1>11, <1>w, Zenon DEF ReadHold, Reading, Pumping
<1>12. CASE ReadConnected
  BY <1>12, <1>w, Zenon DEF ReadConnected, Reading, Pumping
<1>13. CASE ReadReconnecting
  BY <1>13, <1>w, Zenon DEF ReadReconnecting, Reading, Pumping
<1>14. CASE ReadOther
  BY <1>14, <1>w, Zenon DEF ReadOther, Reading, Pumping
<1>15. CASE FdClose
  BY <1>15, <1>w, OnStopWindow, Zenon DEF FdClose, Reading, Pumping
<1>16. CASE ProcessExit
  BY <1>16, <1>w, OnStopWindow, Zenon DEF ProcessExit, Pumping
<1>17. CASE ConnectScriptDone
  BY <1>17, <1>w, Zenon DEF ConnectScriptDone, Innermost
<1>18. CASE DisconnectScriptDone
  BY <1>18, <1>w, Zenon DEF DisconnectScriptDone, SignalExit, Innermost
<1>19. CASE PopupDone
  BY <1>19, <1>w, Zenon
     DEF PopupDone, CloseStatusWindow, DestroyWindow, KeepWindow, Innermost
<1>20. CASE OpenFailedDone
  BY <1>20, <1>w, Zenon DEF OpenFailedDone, Innermost
<1>21. CASE ThreadExit
  <2>1. thread' = "none" /\ hwnd' = "none" /\ quit' = FALSE /\ frames' = <<>>
    BY <1>21, Zenon DEF ThreadExit
  <2> QED BY <2>1, Zenon DEF ThreadInv
<1> HIDE DEF WindowStep
<1> QED
  BY <1>1, <1>2, <1>3, <1>4, <1>5, <1>6, <1>7, <1>8, <1>9, <1>10, <1>11, <1>12, <1>13,
     <1>14, <1>15, <1>16, <1>17, <1>18, <1>19, <1>20, <1>21
     DEF StatusThread, HandleMessage, ReadLine

\* The daemon touches nothing of the GUI.
LEMMA DaemonApart == Daemon => UNCHANGED guiVars
BY DEF Daemon, DaemonListens, DaemonAuth, DaemonRelease, DaemonHup, DaemonReplies,
       DaemonConnects, DaemonReconnects, DaemonExits, ServiceRestarts, DaemonDropsClient

\* From its first message to its clean-up a status thread has a window, and
\* WM_QUIT is posted to it when that window is destroyed.
THEOREM ThreadLife == Spec => []ThreadInv
<1>1. Init => ThreadInv
  BY Zenon DEF Init, ThreadInv
<1>2. ThreadInv /\ [Next]_vars => ThreadInv'
  <2> SUFFICES ASSUME ThreadInv, [Next]_vars PROVE ThreadInv'
    OBVIOUS
  <2>1. CASE Daemon
    BY <2>1, DaemonApart, OthersKeep, Zenon DEF Idle
  <2>2. CASE UNCHANGED vars
    BY <2>2, OthersKeep, Zenon DEF vars, Idle
  <2> QED BY <2>1, <2>2, MainThread, StatusThreadLife DEF Next
<1> QED BY <1>1, <1>2, PTL DEF Spec

\* StartOpenVPN creates a status thread only when there is none: an idle profile
\* without a window has none.
THEOREM AtMostOneThread == Spec => []OneThread
<1>1. ThreadInv => OneThread
  BY Zenon DEF ThreadInv, OneThread
<1> QED BY <1>1, ThreadLife, PTL

-----------------------------------------------------------------------------
(* Profiles without scripts can always be started again *)

LEMMA Pushed ==
    ASSUME IdleInv, NEW f \in Boxes, frames' = <<f>> \o frames
    PROVE  frames' \in Seq(Boxes)
BY DEF IdleInv

LEMMA Popped ==
    ASSUME IdleInv, frames # <<>>, frames' = Tail(frames)
    PROVE  frames' \in Seq(Boxes)
BY DEF IdleInv

LEMMA NoScriptFrame ==
    ASSUME IdleInv, NEW f, Innermost(f) PROVE f \in Boxes
BY DEF IdleInv, Innermost

\* Steps of a thread that runs, and steps of others.
LEMMA RunningIdle ==
    ASSUME thread' = "running", frames' \in Seq(Boxes), hwnd' = "stale" => Idle'
    PROVE  IdleInv'
BY Zenon DEF IdleInv

LEMMA OthersIdle ==
    ASSUME IdleInv, UNCHANGED <<thread, hwnd, frames>>, Idle => Idle'
    PROVE  IdleInv'
BY Zenon DEF IdleInv

LEMMA OnStopIdle ==
    ASSUME IdleInv, NEW st, NEW rest, NEW armed, OnStop(st, rest, armed)
    PROVE  Idle' /\ frames' \in Seq(Boxes)
<1>1. CASE OnStopReported(st, rest, armed)
  BY <1>1, Pushed, Zenon DEF OnStopReported, Idle, Boxes
<1>2. CASE OnStopQuiet(st)
  BY <1>2, Zenon DEF OnStopQuiet, Idle, IdleInv
<1>3. CASE OnStopIgnored(st, rest, armed)
  BY <1>3, Zenon DEF OnStopIgnored, Idle, IdleInv
<1> QED BY <1>1, <1>2, <1>3 DEF OnStop

LEMMA StartIdle ==
    ASSUME NEW st, st = state \/ (st = "detached" /\ Idle), IdleInv, StartBody(st)
    PROVE  IdleInv'
<1>1. CASE Post("RELEASE")
  BY <1>1, OthersIdle, Zenon DEF Post, Idle
<1>2. CASE StartIgnored(st)
  BY <1>2, OthersIdle, Zenon DEF StartIgnored, Idle
<1>3. CASE Launch(st)
  BY <1>3, Zenon DEF Launch, IdleInv
<1>4. CASE LaunchFails(st)
  BY <1>4, OthersIdle, Zenon DEF LaunchFails, Idle
<1> QED BY <1>1, <1>2, <1>3, <1>4 DEF StartBody

LEMMA MainIdle == IdleInv /\ Main => IdleInv'
<1> SUFFICES ASSUME IdleInv, Main PROVE IdleInv'
  OBVIOUS
<1>p. ASSUME NEW m, Post(m) PROVE IdleInv'
  BY <1>p, OthersIdle, Zenon DEF Post, Idle
<1>1. CASE StartOpenVPN
  BY <1>1, StartIdle, Zenon DEF StartOpenVPN
<1>2. CASE StopOpenVPN
  BY <1>2, <1>p, Zenon DEF StopOpenVPN
<1>3. CASE RestartOpenVPN
  BY <1>3, <1>p, StartIdle, Zenon DEF RestartOpenVPN
<1>4. CASE DetachOpenVPN
  BY <1>4, <1>p, Zenon DEF DetachOpenVPN
<1>5. CASE ManagePersistent
  BY <1>5, StartIdle, Zenon DEF ManagePersistent, Idle
<1>6. CASE HandleSessionLock
  BY <1>6, OthersIdle, Zenon DEF HandleSessionLock, Idle
<1>7. CASE HandleSessionUnlock
  BY <1>7, OthersIdle, Zenon DEF HandleSessionUnlock, Idle
<1> QED BY <1>1, <1>2, <1>3, <1>4, <1>5, <1>6, <1>7 DEF Main

LEMMA StatusThreadIdle ==
    ~Scripts /\ ThreadInv /\ IdleInv /\ StatusThread => IdleInv'
<1> SUFFICES ASSUME ~Scripts, ThreadInv, IdleInv, StatusThread PROVE IdleInv'
  OBVIOUS
<1>f. frames \in Seq(Boxes)
  BY Zenon DEF IdleInv
\* Most steps leave the window open.
<1>o. ASSUME Pumping, UNCHANGED <<thread, hwnd, frames>> PROVE IdleInv'
  BY <1>o, <1>f, RunningIdle, Zenon DEF Pumping
<1>q. ASSUME NEW st, Pumping, OnStopQuiet(st), UNCHANGED thread PROVE IdleInv'
  BY <1>q, <1>f, RunningIdle, Zenon DEF Pumping, OnStopQuiet, Idle
<1>1. CASE ThreadInit
  <2>1. CASE thread' = "running"
    <3>1. hwnd' = "open"
      BY <1>1, <2>1, Zenon DEF ThreadInit
    <3>2. UNCHANGED frames \/ frames' = <<"open_failed">>
      BY <1>1, Zenon DEF ThreadInit
    <3>3. <<"open_failed">> \in Seq(Boxes)
      BY DEF Boxes
    <3>4. frames' \in Seq(Boxes)
      BY <1>f, <3>2, <3>3, Zenon
    <3> QED BY <2>1, <3>1, <3>4, RunningIdle, Zenon
  <2>2. CASE thread' = "none"
    <3>1. Idle' /\ UNCHANGED frames
      BY <1>1, <2>2, Zenon DEF ThreadInit, Idle
    <3> QED BY <3>1, <1>f, Zenon DEF IdleInv
  <2> QED BY <1>1, <2>1, <2>2, Zenon DEF ThreadInit
<1>2. CASE HandleStop
  <2>1. CASE HoldDaemon(Tail(posted))
    BY <1>2, <1>o, <1>q, <2>1, Zenon DEF HandleStop, HoldDaemon, KeepWindow
  <2>2. CASE ~HoldDaemon(Tail(posted))
    BY <1>2, <1>o, <2>2, Zenon DEF HandleStop, KeepWindow, SignalExit
  <2> QED BY <2>1, <2>2
<1>3. CASE HandleRelease
  BY <1>3, <1>o, Zenon DEF HandleRelease, KeepWindow
<1>4. CASE HandleRestart
  BY <1>4, <1>o, Zenon DEF HandleRestart, KeepWindow
<1>5. CASE HandleDetach
  BY <1>5, <1>q, Zenon DEF HandleDetach, stopFrame
<1>6. CASE StopTimeout
  BY <1>6, RunningIdle, OnStopIdle, Zenon DEF StopTimeout, Pumping
<1>7. CASE FdConnect
  BY <1>7, <1>o, Zenon DEF FdConnect
<1>8. CASE ConnectTimeout
  <2>1. UNCHANGED frames \/ frames' = <<"open_failed">> \o frames
    BY <1>8, Zenon DEF ConnectTimeout
  <2>2. frames' \in Seq(Boxes)
    BY <1>f, <2>1, Pushed, Zenon DEF Boxes
  <2> QED BY <1>8, <2>2, RunningIdle, Zenon DEF ConnectTimeout, Pumping
<1>9. CASE ReadPrompt
  BY <1>9, <1>o, <1>q, Zenon DEF ReadPrompt, Reading
<1>10. CASE ReadInfo
  BY <1>10, <1>o, Zenon DEF ReadInfo, Reading
<1>11. CASE ReadHold
  BY <1>11, <1>o, Zenon DEF ReadHold, Reading
<1>12. CASE ReadConnected
  BY <1>12, <1>o, Zenon DEF ReadConnected, Reading
<1>13. CASE ReadReconnecting
  BY <1>13, <1>o, Zenon DEF ReadReconnecting, Reading
<1>14. CASE ReadOther
  BY <1>14, <1>o, Zenon DEF ReadOther, Reading
<1>15. CASE FdClose
  BY <1>15, RunningIdle, OnStopIdle, Zenon DEF FdClose, Reading, Pumping
<1>16. CASE ProcessExit
  BY <1>16, RunningIdle, OnStopIdle, Zenon DEF ProcessExit, Pumping
<1>17. CASE ConnectScriptDone
  BY <1>17, NoScriptFrame DEF ConnectScriptDone, Boxes
<1>18. CASE DisconnectScriptDone
  BY <1>18, NoScriptFrame DEF DisconnectScriptDone, Boxes
<1>19. CASE PopupDone
  <2>1. frames' \in Seq(Boxes) /\ thread' = "running"
    BY <1>19, Popped, Zenon DEF PopupDone, Innermost
  <2>2. hwnd' = "stale" => Idle'
    BY <1>19, Zenon
       DEF PopupDone, CloseStatusWindow, DestroyWindow, KeepWindow, Idle, IdleInv
  <2> QED BY <2>1, <2>2, RunningIdle, Zenon
<1>20. CASE OpenFailedDone
  <2>1. frames' \in Seq(Boxes) /\ thread' = "running"
    BY <1>20, Popped, Zenon DEF OpenFailedDone, Innermost
  <2>2. hwnd' = "stale" => Idle'
    BY <1>20, Zenon DEF OpenFailedDone, Idle, IdleInv
  <2> QED BY <2>1, <2>2, RunningIdle, Zenon
<1>21. CASE ThreadExit
  <2>1. Idle /\ UNCHANGED <<state, frames>> /\ hwnd' = "none"
    BY <1>21, Zenon DEF ThreadExit, ThreadInv, IdleInv
  <2> QED BY <1>f, <2>1, Zenon DEF IdleInv, Idle
<1> QED
  BY <1>1, <1>2, <1>3, <1>4, <1>5, <1>6, <1>7, <1>8, <1>9, <1>10, <1>11, <1>12, <1>13,
     <1>14, <1>15, <1>16, <1>17, <1>18, <1>19, <1>20, <1>21
     DEF StatusThread, HandleMessage, ReadLine

\* A profile without scripts never gets stuck: whenever its thread is gone it is
\* idle, and StartOpenVPN will start it again.
THEOREM Restartable == Spec => [](~Scripts => IdleWithoutThread)
<1>1. Init => IdleInv
  BY DEF Init, IdleInv, Idle
<1>2. ThreadInv /\ (~Scripts => IdleInv) /\ [Next]_vars => (~Scripts => IdleInv)'
  <2> SUFFICES ASSUME ThreadInv, ~Scripts, IdleInv, [Next]_vars PROVE IdleInv'
    BY Zenon
  <2>1. CASE Daemon
    BY <2>1, DaemonApart, OthersIdle, Zenon DEF Idle
  <2>2. CASE UNCHANGED vars
    BY <2>2, OthersIdle, Zenon DEF vars, Idle
  <2> QED BY <2>1, <2>2, MainIdle, StatusThreadIdle DEF Next
<1>3. (~Scripts => IdleInv) => (~Scripts => IdleWithoutThread)
  BY Zenon DEF IdleInv, IdleWithoutThread
<1> QED BY <1>1, <1>2, <1>3, ThreadLife, PTL DEF Spec

-----------------------------------------------------------------------------
(* A stop reaches the daemon *)

\* A frame stays where it is until it is the innermost one.
LEMMA FramePushed ==
    ASSUME DataOK, NEW f, NEW g, frames' = <<f>> \o frames, HasFrame(g)
    PROVE  HasFrame(g)'
<1>1. PICK i \in 1 .. Len(frames) : frames[i] = g
  BY DEF HasFrame
<1>2. Len(frames) \in Nat /\ Len(frames') = Len(frames) + 1
  BY DEF DataOK
<1>3. frames'[i + 1] = g /\ i + 1 \in 1 .. Len(frames')
  BY <1>1, <1>2 DEF DataOK
<1> QED BY <1>3 DEF HasFrame

LEMMA FramePopped ==
    ASSUME DataOK, NEW g, frames # <<>>, Head(frames) # g, frames' = Tail(frames), HasFrame(g)
    PROVE  HasFrame(g)'
<1>1. PICK i \in 1 .. Len(frames) : frames[i] = g
  BY DEF HasFrame
<1>2. Len(frames) \in Nat /\ Len(frames') = Len(frames) - 1 /\ i # 1
  BY <1>1 DEF DataOK
<1>3. frames'[i - 1] = g /\ i - 1 \in 1 .. Len(frames')
  BY <1>1, <1>2 DEF DataOK
<1> QED BY <1>3 DEF HasFrame

Told == exitEvent \/ HasFrame("down_script")

\* Steps that do not ask for a stop, and forget nothing.
LEMMA StopKept ==
    ASSUME StopReachesDaemon, stopAsked' => stopAsked, Told => Told'
    PROVE  StopReachesDaemon'
BY Zenon DEF StopReachesDaemon, Told

LEMMA NothingForgotten ==
    ASSUME StopReachesDaemon, UNCHANGED <<exitEvent, frames>>, stopAsked' => stopAsked
    PROVE  StopReachesDaemon'
BY StopKept, Zenon DEF Told, HasFrame

LEMMA OnStopTold ==
    ASSUME DataOK, NEW st, NEW rest, NEW armed, OnStop(st, rest, armed), UNCHANGED exitEvent
    PROVE  Told => Told'
<1>1. CASE OnStopReported(st, rest, armed)
  BY <1>1, FramePushed, Zenon DEF OnStopReported, Told
<1>2. CASE UNCHANGED frames
  BY <1>2, Zenon DEF Told, HasFrame
<1> QED BY <1>1, <1>2, Zenon DEF OnStop, OnStopQuiet, OnStopIgnored

LEMMA StartTold ==
    ASSUME NEW st, StopReachesDaemon, StartBody(st) PROVE StopReachesDaemon'
<1>1. CASE Post("RELEASE")
  BY <1>1, NothingForgotten, Zenon DEF Post
<1>2. CASE StartIgnored(st)
  BY <1>2, NothingForgotten, Zenon DEF StartIgnored
<1>3. CASE Launch(st)
  BY <1>3, Zenon DEF Launch, StopReachesDaemon
<1>4. CASE LaunchFails(st)
  BY <1>4, NothingForgotten, Zenon DEF LaunchFails
<1> QED BY <1>1, <1>2, <1>3, <1>4 DEF StartBody

LEMMA MainTold == StopReachesDaemon /\ Main => StopReachesDaemon'
<1> SUFFICES ASSUME StopReachesDaemon, Main PROVE StopReachesDaemon'
  OBVIOUS
<1>p. ASSUME NEW m, Post(m) PROVE StopReachesDaemon'
  BY <1>p, NothingForgotten, Zenon DEF Post
<1>1. CASE StartOpenVPN
  BY <1>1, StartTold, Zenon DEF StartOpenVPN
<1>2. CASE StopOpenVPN
  BY <1>2, <1>p, Zenon DEF StopOpenVPN
<1>3. CASE RestartOpenVPN
  BY <1>3, <1>p, StartTold, Zenon DEF RestartOpenVPN
<1>4. CASE DetachOpenVPN
  BY <1>4, <1>p, Zenon DEF DetachOpenVPN
<1>5. CASE ManagePersistent
  BY <1>5, StartTold, Zenon DEF ManagePersistent
<1>6. CASE HandleSessionLock
  BY <1>6, NothingForgotten, Zenon DEF HandleSessionLock
<1>7. CASE HandleSessionUnlock
  BY <1>7, NothingForgotten, Zenon DEF HandleSessionUnlock
<1> QED BY <1>1, <1>2, <1>3, <1>4, <1>5, <1>6, <1>7 DEF Main

LEMMA StatusThreadTold ==
    DataOK /\ ThreadInv /\ StopReachesDaemon /\ StatusThread => StopReachesDaemon'
<1> SUFFICES ASSUME DataOK, ThreadInv, StopReachesDaemon, StatusThread
             PROVE  StopReachesDaemon'
  OBVIOUS
<1>1. CASE ThreadInit
  <2>1. frames = <<>> /\ stopAsked' = stopAsked
    BY <1>1, Zenon DEF ThreadInit, ThreadInv
  <2>2. ~HasFrame("down_script")
    BY <2>1 DEF HasFrame
  <2>3. ~Persistent /\ stopAsked => exitEvent'
    BY <1>1, <2>2, Zenon DEF ThreadInit, StopReachesDaemon
  <2> QED BY <2>1, <2>3, Zenon DEF StopReachesDaemon
<1>2. CASE HandleStop
  <2>1. CASE UNCHANGED <<exitEvent, frames, stopAsked>> \/ Persistent
    BY <2>1, NothingForgotten, Zenon DEF StopReachesDaemon
  <2>2. CASE SignalExit
    BY <2>2, Zenon DEF SignalExit, StopReachesDaemon
  <2>3. CASE frames' = <<"down_script">> \o frames
    <3>1. Len(frames') \in Nat \ {0} /\ frames'[1] = "down_script"
      BY <2>3 DEF DataOK
    <3>2. HasFrame("down_script")'
      BY <3>1 DEF HasFrame
    <3> QED BY <3>2, Zenon DEF StopReachesDaemon
  <2> QED BY <1>2, <2>1, <2>2, <2>3, Zenon DEF HandleStop
<1>3. CASE HandleRelease
  BY <1>3, NothingForgotten, Zenon DEF HandleRelease
<1>4. CASE HandleRestart
  BY <1>4, NothingForgotten, Zenon DEF HandleRestart
<1>5. CASE HandleDetach
  BY <1>5, NothingForgotten, Zenon DEF HandleDetach, OnStopQuiet
<1>6. CASE StopTimeout
  BY <1>6, StopKept, OnStopTold, Zenon DEF StopTimeout
<1>7. CASE FdConnect
  BY <1>7, NothingForgotten, Zenon DEF FdConnect
<1>8. CASE ConnectTimeout
  <2>1. UNCHANGED frames \/ frames' = <<"open_failed">> \o frames
    BY <1>8, Zenon DEF ConnectTimeout
  <2>2. UNCHANGED <<exitEvent, stopAsked>>
    BY <1>8, Zenon DEF ConnectTimeout
  <2>3. Told => Told'
    BY <2>1, <2>2, FramePushed, Zenon DEF Told, HasFrame
  <2> QED BY <2>2, <2>3, StopKept, Zenon
<1>9. CASE ReadPrompt
  <2>1. UNCHANGED exitEvent /\ UNCHANGED frames /\ UNCHANGED stopAsked
    BY <1>9, Zenon DEF ReadPrompt, OnStopQuiet
  <2> QED BY <2>1, NothingForgotten, Zenon
<1>10. CASE ReadInfo
  BY <1>10, NothingForgotten, Zenon DEF ReadInfo
<1>11. CASE ReadHold
  BY <1>11, NothingForgotten, Zenon DEF ReadHold
<1>12. CASE ReadConnected
  <2>1. UNCHANGED frames \/ frames' = <<"up_script">> \o frames
    BY <1>12, Zenon DEF ReadConnected
  <2>2. UNCHANGED <<exitEvent, stopAsked>>
    BY <1>12, Zenon DEF ReadConnected
  <2>3. Told => Told'
    BY <2>1, <2>2, FramePushed, Zenon DEF Told, HasFrame
  <2> QED BY <2>2, <2>3, StopKept, Zenon
<1>13. CASE ReadReconnecting
  BY <1>13, NothingForgotten, Zenon DEF ReadReconnecting
<1>14. CASE ReadOther
  BY <1>14, NothingForgotten, Zenon DEF ReadOther
<1>15. CASE FdClose
  BY <1>15, StopKept, OnStopTold, Zenon DEF FdClose
<1>16. CASE ProcessExit
  BY <1>16, StopKept, OnStopTold, Zenon DEF ProcessExit
\* A pump that ends is not the one of the disconnect script, or it leads to the
\* signal.
<1>f. ASSUME NEW f, f # "down_script", Innermost(f), frames' = Tail(frames),
             UNCHANGED <<exitEvent, stopAsked>>
      PROVE  StopReachesDaemon'
  <2>1. Told => Told'
    BY <1>f, FramePopped, Zenon DEF Told, Innermost
  <2> QED BY <1>f, <2>1, StopKept, Zenon
<1>17. CASE ConnectScriptDone
  BY <1>17, <1>f, Zenon DEF ConnectScriptDone
<1>18. CASE DisconnectScriptDone
  BY <1>18, Zenon DEF DisconnectScriptDone, SignalExit, StopReachesDaemon
<1>19. CASE PopupDone
  BY <1>19, <1>f, Zenon DEF PopupDone
<1>20. CASE OpenFailedDone
  BY <1>20, <1>f, Zenon DEF OpenFailedDone
<1>21. CASE ThreadExit
  BY <1>21, NothingForgotten, Zenon DEF ThreadExit
<1> QED
  BY <1>1, <1>2, <1>3, <1>4, <1>5, <1>6, <1>7, <1>8, <1>9, <1>10, <1>11, <1>12, <1>13,
     <1>14, <1>15, <1>16, <1>17, <1>18, <1>19, <1>20, <1>21
     DEF StatusThread, HandleMessage, ReadLine

\* A stop the status thread accepted is told to the daemon, whatever ends the
\* connection in between: even a disconnect script that is cut off by WM_QUIT is
\* followed by the exit event.
THEOREM StopDelivered == Spec => []StopReachesDaemon
<1>1. Init => StopReachesDaemon
  BY Zenon DEF Init, StopReachesDaemon
<1>2. TypeOK /\ ThreadInv /\ StopReachesDaemon /\ [Next]_vars => StopReachesDaemon'
  <2> SUFFICES ASSUME DataOK, ThreadInv, StopReachesDaemon, [Next]_vars
               PROVE  StopReachesDaemon'
    BY Zenon DEF TypeOK
  <2>1. CASE Daemon
    <3>1. UNCHANGED exitEvent /\ UNCHANGED frames /\ UNCHANGED stopAsked
      BY <2>1, DaemonApart
    <3> QED BY <3>1, NothingForgotten, Zenon
  <2>2. CASE UNCHANGED vars
    BY <2>2, NothingForgotten, Zenon DEF vars
  <2> QED BY <2>1, <2>2, MainTold, StatusThreadTold DEF Next
<1> QED BY <1>1, <1>2, TypeCorrect, ThreadLife, PTL DEF Spec

-----------------------------------------------------------------------------
(* No window is left behind *)

\* Steps after which the connection is not finished or its window not open, and
\* steps that leave the message box where it is.
LEMMA NotFinished ==
    ASSUME hwnd' # "open" \/ ~Idle' PROVE FinishedWindowHasPopup'
BY Zenon DEF FinishedWindowHasPopup

LEMMA BoxKept ==
    ASSUME FinishedWindowHasPopup, hwnd' = "open" => hwnd = "open", Idle' => Idle,
           HasFrame("popup") => HasFrame("popup")'
    PROVE  FinishedWindowHasPopup'
BY Zenon DEF FinishedWindowHasPopup

LEMMA SameFrames ==
    ASSUME FinishedWindowHasPopup, UNCHANGED frames, hwnd' = "open" => hwnd = "open",
           Idle' => Idle
    PROVE  FinishedWindowHasPopup'
<1>1. HasFrame("popup") => HasFrame("popup")'
  BY DEF HasFrame
<1> QED BY <1>1, BoxKept, Zenon

LEMMA OnStopBox ==
    ASSUME FinishedWindowHasPopup, DataOK, NEW rest, NEW armed, OnStop(state, rest, armed)
    PROVE  FinishedWindowHasPopup'
<1>1. CASE OnStopReported(state, rest, armed)
  <2>1. frames' = <<"popup">> \o frames
    BY <1>1, Zenon DEF OnStopReported
  <2>2. Len(frames') \in Nat \ {0} /\ frames'[1] = "popup"
    BY <2>1 DEF DataOK
  <2>3. HasFrame("popup")'
    BY <2>2 DEF HasFrame
  <2> QED BY <2>3, Zenon DEF FinishedWindowHasPopup
<1>2. CASE OnStopQuiet(state)
  BY <1>2, NotFinished, Zenon DEF OnStopQuiet, DestroyWindow
<1>3. CASE OnStopIgnored(state, rest, armed)
  BY <1>3, SameFrames, Zenon DEF OnStopIgnored, KeepWindow, Idle
<1> QED BY <1>1, <1>2, <1>3 DEF OnStop

LEMMA StartBox ==
    ASSUME NEW st, st = state \/ (st = "detached" /\ Idle), FinishedWindowHasPopup,
           StartBody(st)
    PROVE  FinishedWindowHasPopup'
<1>1. CASE Post("RELEASE")
  BY <1>1, SameFrames, Zenon DEF Post, Idle
<1>2. CASE StartIgnored(st)
  BY <1>2, SameFrames, Zenon DEF StartIgnored, Idle
<1>3. CASE Launch(st)
  BY <1>3, NotFinished, Zenon DEF Launch
<1>4. CASE LaunchFails(st)
  BY <1>4, NotFinished, Zenon DEF LaunchFails
<1> QED BY <1>1, <1>2, <1>3, <1>4 DEF StartBody

LEMMA MainBox == FinishedWindowHasPopup /\ Main => FinishedWindowHasPopup'
<1> SUFFICES ASSUME FinishedWindowHasPopup, Main PROVE FinishedWindowHasPopup'
  OBVIOUS
<1>p. ASSUME NEW m, Post(m) PROVE FinishedWindowHasPopup'
  BY <1>p, SameFrames, Zenon DEF Post, Idle
<1>1. CASE StartOpenVPN
  BY <1>1, StartBox, Zenon DEF StartOpenVPN
<1>2. CASE StopOpenVPN
  BY <1>2, <1>p, Zenon DEF StopOpenVPN
<1>3. CASE RestartOpenVPN
  BY <1>3, <1>p, StartBox, Zenon DEF RestartOpenVPN
<1>4. CASE DetachOpenVPN
  BY <1>4, <1>p, Zenon DEF DetachOpenVPN
<1>5. CASE ManagePersistent
  BY <1>5, StartBox, Zenon DEF ManagePersistent, Idle
<1>6. CASE HandleSessionLock
  BY <1>6, SameFrames, Zenon DEF HandleSessionLock, Idle
<1>7. CASE HandleSessionUnlock
  BY <1>7, SameFrames, Zenon DEF HandleSessionUnlock, Idle
<1> QED BY <1>1, <1>2, <1>3, <1>4, <1>5, <1>6, <1>7 DEF Main

LEMMA StatusThreadBox ==
    DataOK /\ ThreadInv /\ FinishedWindowHasPopup /\ StatusThread => FinishedWindowHasPopup'
<1> SUFFICES ASSUME DataOK, ThreadInv, FinishedWindowHasPopup, StatusThread
             PROVE  FinishedWindowHasPopup'
  OBVIOUS
<1>q. ASSUME NEW st, OnStopQuiet(st) PROVE FinishedWindowHasPopup'
  BY <1>q, NotFinished, Zenon DEF OnStopQuiet, DestroyWindow
\* A pushed frame buries no message box.
<1>f. ASSUME NEW f, frames' = <<f>> \o frames, UNCHANGED hwnd, Idle' => Idle
      PROVE  FinishedWindowHasPopup'
  BY <1>f, BoxKept, FramePushed, Zenon
<1>1. CASE ThreadInit
  <2>1. ~Idle /\ hwnd = "none"
    BY <1>1, Zenon DEF ThreadInit, ThreadInv
  <2>2. CASE thread' = "running"
    BY <1>1, <2>1, <2>2, NotFinished, Zenon DEF ThreadInit, Idle
  <2>3. CASE thread' = "none"
    BY <1>1, <2>1, <2>3, NotFinished, Zenon DEF ThreadInit
  <2> QED BY <1>1, <2>2, <2>3, Zenon DEF ThreadInit
<1>2. CASE HandleStop
  <2>1. CASE HoldDaemon(Tail(posted))
    BY <2>1, <1>q, NotFinished, Zenon DEF HoldDaemon, Idle
  <2>2. CASE state' = "disconnecting"
    BY <2>2, NotFinished, Zenon DEF Idle
  <2>3. CASE UNCHANGED <<state, frames, hwnd>>
    BY <2>3, SameFrames, Zenon DEF Idle
  <2> QED BY <1>2, <2>1, <2>2, <2>3, Zenon DEF HandleStop, KeepWindow
<1>3. CASE HandleRelease
  BY <1>3, NotFinished, Zenon DEF HandleRelease, OnHold, Idle
<1>4. CASE HandleRestart
  BY <1>4, SameFrames, Zenon DEF HandleRestart, KeepWindow, Idle
<1>5. CASE HandleDetach
  BY <1>5, <1>q, Zenon DEF HandleDetach
<1>6. CASE StopTimeout
  BY <1>6, OnStopBox, Zenon DEF StopTimeout
<1>7. CASE FdConnect
  BY <1>7, SameFrames, Zenon DEF FdConnect, Idle
<1>8. CASE ConnectTimeout
  <2>1. UNCHANGED hwnd /\ (Idle' => Idle)
    BY <1>8, Zenon DEF ConnectTimeout, Idle
  <2>2. UNCHANGED frames \/ frames' = <<"open_failed">> \o frames
    BY <1>8, Zenon DEF ConnectTimeout
  <2> QED BY <2>1, <2>2, <1>f, SameFrames, Zenon
<1>9. CASE ReadPrompt
  <2>1. (UNCHANGED state /\ UNCHANGED frames /\ UNCHANGED hwnd) \/ OnStopQuiet("disconnecting")
    BY <1>9, Zenon DEF ReadPrompt
  <2> QED BY <2>1, <1>q, SameFrames, Zenon DEF Idle
<1>10. CASE ReadInfo
  BY <1>10, SameFrames, Zenon DEF ReadInfo, Idle
<1>11. CASE ReadHold
  BY <1>11, SameFrames, Zenon DEF ReadHold, OnHold, Idle
<1>12. CASE ReadConnected
  <2>1. CASE state' = "connected"
    BY <2>1, NotFinished, Zenon DEF Idle
  <2>2. CASE frames' = <<"up_script">> \o frames /\ UNCHANGED <<state, hwnd>>
    BY <2>2, <1>f, Zenon DEF Idle
  <2> QED BY <1>12, <2>1, <2>2, Zenon DEF ReadConnected
<1>13. CASE ReadReconnecting
  BY <1>13, SameFrames, Zenon DEF ReadReconnecting, Idle
<1>14. CASE ReadOther
  BY <1>14, SameFrames, Zenon DEF ReadOther, Idle
<1>15. CASE FdClose
  BY <1>15, OnStopBox, Zenon DEF FdClose
<1>16. CASE ProcessExit
  BY <1>16, OnStopBox, Zenon DEF ProcessExit
\* A pump that is not the message box ends.
<1>p. ASSUME NEW f, f # "popup", Innermost(f), frames' = Tail(frames),
             UNCHANGED hwnd \/ hwnd' = "stale", Idle' => Idle
      PROVE  FinishedWindowHasPopup'
  BY <1>p, BoxKept, FramePopped, Zenon DEF Innermost
<1>17. CASE ConnectScriptDone
  BY <1>17, NotFinished, Zenon DEF ConnectScriptDone, Idle
<1>18. CASE DisconnectScriptDone
  BY <1>18, <1>p, Zenon DEF DisconnectScriptDone, SignalExit, Idle
<1>19. CASE PopupDone
  <2>1. CASE Idle
    BY <1>19, <2>1, NotFinished, Zenon
       DEF PopupDone, CloseStatusWindow, KeepWindow, DestroyWindow, Idle
  <2>2. CASE ~Idle
    BY <1>19, <2>2, NotFinished, Zenon DEF PopupDone, Idle
  <2> QED BY <2>1, <2>2
<1>20. CASE OpenFailedDone
  BY <1>20, <1>p, Zenon DEF OpenFailedDone, Idle
<1>21. CASE ThreadExit
  BY <1>21, NotFinished, Zenon DEF ThreadExit
<1> QED
  BY <1>1, <1>2, <1>3, <1>4, <1>5, <1>6, <1>7, <1>8, <1>9, <1>10, <1>11, <1>12, <1>13,
     <1>14, <1>15, <1>16, <1>17, <1>18, <1>19, <1>20, <1>21
     DEF StatusThread, HandleMessage, ReadLine

\* The window of a finished connection is open only as long as a message box
\* that closes it is.
THEOREM WindowGoes == Spec => []FinishedWindowHasPopup
<1>1. Init => FinishedWindowHasPopup
  BY NotFinished, Zenon DEF Init, FinishedWindowHasPopup
<1>2. TypeOK /\ ThreadInv /\ FinishedWindowHasPopup /\ [Next]_vars
        => FinishedWindowHasPopup'
  <2> SUFFICES ASSUME DataOK, ThreadInv, FinishedWindowHasPopup, [Next]_vars
               PROVE  FinishedWindowHasPopup'
    BY Zenon DEF TypeOK
  <2>1. CASE Daemon
    <3>1. UNCHANGED state /\ UNCHANGED frames /\ UNCHANGED hwnd
      BY <2>1, DaemonApart
    <3> QED BY <3>1, SameFrames, Zenon DEF Idle
  <2>2. CASE UNCHANGED vars
    BY <2>2, SameFrames, Zenon DEF vars, Idle
  <2> QED BY <2>1, <2>2, MainBox, StatusThreadBox DEF Next
<1> QED BY <1>1, <1>2, TypeCorrect, ThreadLife, PTL DEF Spec

-----------------------------------------------------------------------------
(* An accepted stop has a deadline *)

\* A daemon that is gone does not serve its management interface.
MiInv == daemon = "down" => mi = "off"

\* A stop is not yet accepted when the thread starts, and the timer, or the script
\* that comes before it, is there as long as it matters: StopHasDeadline without
\* the message box, which the timer outlives.
Due == stopTimer \/ HasFrame("down_script")
DeadlineInv ==
    ~Persistent /\ ~KillMayFail /\ stopAsked =>
        /\ thread # "starting"
        /\ hwnd = "open" /\ daemon # "down" => Due

LEMMA StartMi == ASSUME NEW st, MiInv, StartBody(st) PROVE MiInv'
<1>1. CASE Launch(st)
  BY <1>1, Zenon DEF Launch, MiInv
<1>2. CASE UNCHANGED <<daemon, mi>>
  BY <1>2, Zenon DEF MiInv
<1> QED BY <1>1, <1>2, Zenon DEF StartBody, Post, StartIgnored, LaunchFails

LEMMA SameMi == MiInv /\ UNCHANGED daemon /\ UNCHANGED mi => MiInv'
BY Zenon DEF MiInv

LEMMA CloseMi == ASSUME MiInv, UNCHANGED daemon, CloseManagement PROVE MiInv'
BY Zenon DEF MiInv, CloseManagement

LEMMA MainMi == MiInv /\ Main => MiInv'
<1> SUFFICES ASSUME MiInv, Main PROVE MiInv'
  OBVIOUS
<1>1. CASE StartOpenVPN
  BY <1>1, StartMi, Zenon DEF StartOpenVPN
<1>2. CASE StopOpenVPN \/ DetachOpenVPN \/ HandleSessionLock \/ HandleSessionUnlock
  <2>1. UNCHANGED daemon /\ UNCHANGED mi
    BY <1>2, Zenon DEF StopOpenVPN, DetachOpenVPN, HandleSessionLock, HandleSessionUnlock, Post
  <2> QED BY <2>1, SameMi
<1>3. CASE RestartOpenVPN
  BY <1>3, StartMi, SameMi, Zenon DEF RestartOpenVPN, Post
<1>4. CASE ManagePersistent
  BY <1>4, StartMi, Zenon DEF ManagePersistent
<1> QED BY <1>1, <1>2, <1>3, <1>4 DEF Main

LEMMA StatusThreadMi == MiInv /\ StatusThread => MiInv'
<1> SUFFICES ASSUME MiInv, StatusThread PROVE MiInv'
  OBVIOUS
<1>1. CASE ThreadInit \/ HandleMessage
  <2>1. UNCHANGED daemon /\ UNCHANGED mi
    BY <1>1, Zenon DEF ThreadInit, HandleMessage, HandleStop, HandleRelease, HandleRestart,
                       HandleDetach
  <2> QED BY <2>1, SameMi
<1>2. CASE StopTimeout
  BY <1>2, Zenon DEF StopTimeout, MiInv
<1>3. CASE FdConnect
  <2>1. UNCHANGED daemon /\ mi = "listening" /\ (mi' = "auth" \/ CloseManagement)
    BY <1>3, Zenon DEF FdConnect
  <2>2. daemon # "down"
    BY <2>1, Zenon DEF MiInv
  <2> QED BY <2>1, <2>2, Zenon DEF MiInv
<1>4. CASE ReadPrompt \/ FdClose \/ ThreadExit
  <2>1. UNCHANGED daemon /\ (UNCHANGED mi \/ CloseManagement)
    BY <1>4, Zenon DEF ReadPrompt, FdClose, ThreadExit
  <2> QED BY <2>1, SameMi, CloseMi
<1>5. CASE ConnectTimeout \/ ReadInfo \/ ReadHold \/ ReadConnected \/ ReadReconnecting
           \/ ReadOther \/ ProcessExit
  <2>1. UNCHANGED daemon /\ UNCHANGED mi
    BY <1>5, Zenon DEF ConnectTimeout, ReadInfo, ReadHold, ReadConnected, ReadReconnecting,
                       ReadOther, ProcessExit
  <2> QED BY <2>1, SameMi
<1>6. CASE ConnectScriptDone \/ DisconnectScriptDone \/ PopupDone \/ OpenFailedDone
  <2>1. UNCHANGED daemon /\ UNCHANGED mi
    BY <1>6, Zenon DEF ConnectScriptDone, DisconnectScriptDone, PopupDone, OpenFailedDone
  <2> QED BY <2>1, SameMi
<1> QED BY <1>1, <1>2, <1>3, <1>4, <1>5, <1>6 DEF StatusThread, ReadLine

\* The daemon is started by Launch, or by the service.
LEMMA DaemonMi == MiInv /\ Daemon => MiInv' /\ (daemon = "down" => daemon' = "down" \/ Persistent)
<1> SUFFICES ASSUME MiInv, Daemon
             PROVE  MiInv' /\ (daemon = "down" => daemon' = "down" \/ Persistent)
  OBVIOUS
<1>1. CASE DaemonListens
  BY <1>1, Zenon DEF DaemonListens, MiInv
<1>2. CASE DaemonAuth
  BY <1>2, Zenon DEF DaemonAuth, Commanded, MiInv
<1>3. CASE DaemonRelease \/ DaemonHup
  <2>1. mi = "ready" /\ UNCHANGED mi
    BY <1>3, Zenon DEF DaemonRelease, DaemonHup, Commanded
  <2>2. daemon # "down"
    BY <2>1, Zenon DEF MiInv
  <2>3. daemon' # "down"
    BY <1>3, <2>2, Zenon DEF DaemonRelease, DaemonHup
  <2> QED BY <2>2, <2>3, Zenon DEF MiInv
<1>4. CASE DaemonReplies \/ DaemonDropsClient
  BY <1>4, Zenon DEF DaemonReplies, DaemonDropsClient, MiInv
<1>5. CASE DaemonConnects \/ DaemonReconnects
  BY <1>5, Zenon DEF DaemonConnects, DaemonReconnects, MiInv
<1>6. CASE DaemonExits
  BY <1>6, Zenon DEF DaemonExits, MiInv
<1>7. CASE ServiceRestarts
  BY <1>7, Zenon DEF ServiceRestarts, MiInv
<1> QED BY <1>1, <1>2, <1>3, <1>4, <1>5, <1>6, <1>7 DEF Daemon

\* Steps that ask for no stop, revive nothing and leave the deadline.
LEMMA DeadlineKept ==
    ASSUME DeadlineInv, stopAsked' => stopAsked, thread' = "starting" => thread = "starting",
           ~Persistent /\ hwnd' = "open" => hwnd = "open",
           ~Persistent /\ daemon = "down" => daemon' = "down",
           Due => Due' \/ hwnd' # "open"
    PROVE  DeadlineInv'
BY Zenon DEF DeadlineInv

SameLife == UNCHANGED stopAsked /\ UNCHANGED thread /\ UNCHANGED hwnd /\ UNCHANGED daemon

LEMMA SameDeadline ==
    ASSUME DeadlineInv, SameLife, UNCHANGED stopTimer, UNCHANGED frames
    PROVE  DeadlineInv'
BY DeadlineKept, Zenon DEF SameLife, Due, HasFrame

LEMMA StartDeadline ==
    ASSUME NEW st, DeadlineInv, StartBody(st) PROVE DeadlineInv'
<1>1. CASE Launch(st)
  BY <1>1, Zenon DEF Launch, DeadlineInv
<1>2. CASE SameLife /\ UNCHANGED stopTimer /\ UNCHANGED frames
  BY <1>2, SameDeadline
<1> QED BY <1>1, <1>2, Zenon DEF StartBody, Post, StartIgnored, LaunchFails, SameLife

LEMMA MainDeadline == DeadlineInv /\ Main => DeadlineInv'
<1> SUFFICES ASSUME DeadlineInv, Main PROVE DeadlineInv'
  OBVIOUS
<1>p. ASSUME NEW m, Post(m) PROVE DeadlineInv'
  BY <1>p, SameDeadline, Zenon DEF Post, SameLife
<1>1. CASE StartOpenVPN
  BY <1>1, StartDeadline, Zenon DEF StartOpenVPN
<1>2. CASE StopOpenVPN \/ DetachOpenVPN
  BY <1>2, <1>p, Zenon DEF StopOpenVPN, DetachOpenVPN
<1>3. CASE RestartOpenVPN
  BY <1>3, <1>p, StartDeadline, Zenon DEF RestartOpenVPN
<1>4. CASE ManagePersistent
  BY <1>4, StartDeadline, Zenon DEF ManagePersistent
<1>5. CASE HandleSessionLock
  BY <1>5, SameDeadline, Zenon DEF HandleSessionLock, SameLife
<1>6. CASE HandleSessionUnlock
  BY <1>6, SameDeadline, Zenon DEF HandleSessionUnlock, SameLife
<1> QED BY <1>1, <1>2, <1>3, <1>4, <1>5, <1>6 DEF Main

\* OnStop with the timer as it is: the box is put over the script, or the window goes.
LEMMA OnStopDue ==
    ASSUME DataOK, NEW rest, OnStop(state, rest, stopTimer)
    PROVE  (Due => Due' \/ hwnd' # "open") /\ (hwnd' = "open" => hwnd = "open")
<1>1. CASE OnStopReported(state, rest, stopTimer)
  BY <1>1, FramePushed, Zenon DEF OnStopReported, KeepWindow, Due
<1>2. CASE OnStopQuiet(state)
  BY <1>2, Zenon DEF OnStopQuiet, DestroyWindow
<1>3. CASE OnStopIgnored(state, rest, stopTimer)
  BY <1>3, Zenon DEF OnStopIgnored, KeepWindow, Due, HasFrame
<1> QED BY <1>1, <1>2, <1>3 DEF OnStop

LEMMA StatusThreadDeadline ==
    DataOK /\ ThreadInv /\ DeadlineInv /\ StatusThread => DeadlineInv'
<1> SUFFICES ASSUME DataOK, ThreadInv, DeadlineInv, StatusThread
             PROVE  DeadlineInv'
  OBVIOUS
<1>g. ASSUME hwnd' # "open", thread' # "starting" PROVE DeadlineInv'
  BY <1>g, Zenon DEF DeadlineInv
<1>q. ASSUME NEW st, OnStopQuiet(st), UNCHANGED thread, thread = "running" PROVE DeadlineInv'
  BY <1>q, <1>g, Zenon DEF OnStopQuiet, DestroyWindow
<1>s. ASSUME NEW rest, OnStop(state, rest, stopTimer), UNCHANGED <<stopAsked, thread, daemon>>
      PROVE  DeadlineInv'
  BY <1>s, OnStopDue, DeadlineKept, Zenon
<1>f. ASSUME NEW f, frames' = <<f>> \o frames, SameLife, UNCHANGED stopTimer
      PROVE  DeadlineInv'
  BY <1>f, FramePushed, DeadlineKept, Zenon DEF SameLife, Due
<1>1. CASE ThreadInit
  BY <1>1, <1>g, Zenon DEF ThreadInit, DeadlineInv
<1>2. CASE HandleStop
  <2>1. thread = "running" /\ UNCHANGED <<thread, daemon>>
    BY <1>2, Zenon DEF HandleStop, Pumping
  <2>2. CASE Persistent
    BY <2>2, Zenon DEF DeadlineInv
  <2>3. CASE SameLife /\ UNCHANGED stopTimer /\ UNCHANGED frames
    BY <2>3, SameDeadline
  <2>4. CASE SignalExit /\ hwnd = "open"
    BY <2>1, <2>4, Zenon DEF SignalExit, DeadlineInv, Due
  <2>5. CASE frames' = <<"down_script">> \o frames
    <3>1. Len(frames') \in Nat \ {0} /\ frames'[1] = "down_script"
      BY <2>5 DEF DataOK
    <3>2. HasFrame("down_script")'
      BY <3>1 DEF HasFrame
    <3> QED BY <2>1, <3>2, Zenon DEF DeadlineInv, Due
  <2> QED BY <1>2, <2>2, <2>3, <2>4, <2>5, Zenon DEF HandleStop, KeepWindow, SameLife, Pumping
<1>3. CASE HandleRelease
  BY <1>3, Zenon DEF HandleRelease, DeadlineInv
<1>4. CASE HandleRestart
  <2>1. CASE stopAsked' = FALSE
    BY <2>1, Zenon DEF DeadlineInv
  <2>2. CASE UNCHANGED stopAsked
    BY <1>4, <2>2, SameDeadline, Zenon DEF HandleRestart, KeepWindow, SameLife
  <2> QED BY <1>4, <2>1, <2>2, Zenon DEF HandleRestart
<1>5. CASE HandleDetach
  BY <1>5, <1>q, Zenon DEF HandleDetach, Pumping
<1>6. CASE StopTimeout
  <2>1. thread = "running" /\ UNCHANGED thread
    BY <1>6, Zenon DEF StopTimeout, Pumping
  <2>2. CASE KillMayFail
    BY <2>2, Zenon DEF DeadlineInv
  <2>3. CASE daemon' = "down"
    BY <2>1, <2>3, Zenon DEF DeadlineInv
  <2> QED BY <1>6, <2>2, <2>3, Zenon DEF StopTimeout
<1>7. CASE FdConnect
  BY <1>7, SameDeadline, Zenon DEF FdConnect, SameLife
<1>8. CASE ConnectTimeout
  <2>1. SameLife /\ UNCHANGED stopTimer
    BY <1>8, Zenon DEF ConnectTimeout, SameLife
  <2>2. UNCHANGED frames \/ frames' = <<"open_failed">> \o frames
    BY <1>8, Zenon DEF ConnectTimeout
  <2> QED BY <2>1, <2>2, <1>f, SameDeadline, Zenon
<1>9. CASE ReadPrompt
  <2>1. CASE SameLife /\ UNCHANGED stopTimer /\ UNCHANGED frames
    BY <2>1, SameDeadline
  <2>2. CASE OnStopQuiet("disconnecting") /\ UNCHANGED thread
    BY <1>9, <2>2, <1>q, Zenon DEF ReadPrompt, Reading, Pumping
  <2> QED BY <1>9, <2>1, <2>2, Zenon DEF ReadPrompt, SameLife
<1>10. CASE ReadInfo
  BY <1>10, SameDeadline, Zenon DEF ReadInfo, SameLife
<1>11. CASE ReadHold
  BY <1>11, SameDeadline, Zenon DEF ReadHold, SameLife
<1>12. CASE ReadConnected
  <2>1. SameLife /\ UNCHANGED stopTimer
    BY <1>12, Zenon DEF ReadConnected, SameLife
  <2>2. UNCHANGED frames \/ frames' = <<"up_script">> \o frames
    BY <1>12, Zenon DEF ReadConnected
  <2> QED BY <2>1, <2>2, <1>f, SameDeadline, Zenon
<1>13. CASE ReadReconnecting
  BY <1>13, SameDeadline, Zenon DEF ReadReconnecting, SameLife
<1>14. CASE ReadOther
  BY <1>14, SameDeadline, Zenon DEF ReadOther, SameLife
<1>15. CASE FdClose
  BY <1>15, <1>s, Zenon DEF FdClose
<1>16. CASE ProcessExit
  BY <1>16, <1>s, Zenon DEF ProcessExit
\* A pump that is not the script's ends.
<1>p. ASSUME NEW f, f # "down_script", Innermost(f), frames' = Tail(frames),
             UNCHANGED <<stopAsked, thread, daemon>>,
             (UNCHANGED hwnd /\ UNCHANGED stopTimer) \/ hwnd' = "stale"
      PROVE  DeadlineInv'
  <2>1. HasFrame("down_script") => HasFrame("down_script")'
    BY <1>p, FramePopped, Zenon DEF Innermost
  <2>2. Due => Due' \/ hwnd' # "open"
    BY <1>p, <2>1, Zenon DEF Due
  <2>3. hwnd' = "open" => hwnd = "open"
    BY <1>p, Zenon
  <2> QED BY <1>p, <2>2, <2>3, DeadlineKept, Zenon
<1>17. CASE ConnectScriptDone
  BY <1>17, <1>p, Zenon DEF ConnectScriptDone
<1>18. CASE DisconnectScriptDone
  <2>1. UNCHANGED <<thread, daemon, hwnd>> /\ thread = "running" /\ (hwnd = "open" => stopTimer')
    BY <1>18, Zenon DEF DisconnectScriptDone, SignalExit, Innermost
  <2> QED BY <2>1, Zenon DEF DeadlineInv, Due
<1>19. CASE PopupDone
  <2>1. (UNCHANGED hwnd /\ UNCHANGED stopTimer) \/ hwnd' = "stale"
    BY <1>19, Zenon DEF PopupDone, CloseStatusWindow, KeepWindow, DestroyWindow
  <2> QED BY <1>19, <2>1, <1>p, Zenon DEF PopupDone
<1>20. CASE OpenFailedDone
  BY <1>20, <1>p, Zenon DEF OpenFailedDone
<1>21. CASE ThreadExit
  BY <1>21, <1>g, Zenon DEF ThreadExit
<1> QED
  BY <1>1, <1>2, <1>3, <1>4, <1>5, <1>6, <1>7, <1>8, <1>9, <1>10, <1>11, <1>12, <1>13,
     <1>14, <1>15, <1>16, <1>17, <1>18, <1>19, <1>20, <1>21
     DEF StatusThread, HandleMessage, ReadLine

\* An accepted stop has a deadline while the daemon lives, whatever ends, nests or is
\* answered in between: where the daemon can be killed, the stop timer runs.
THEOREM StopTimed == Spec => []StopHasDeadline
<1> DEFINE I == MiInv /\ DeadlineInv
<1>1. Init => I
  BY Zenon DEF Init, MiInv, DeadlineInv
<1>2. TypeOK /\ ThreadInv /\ I /\ [Next]_vars => I'
  <2> SUFFICES ASSUME DataOK, ThreadInv, I, [Next]_vars PROVE I'
    BY Zenon DEF TypeOK
  <2>1. CASE Daemon
    <3>1. /\ UNCHANGED stopAsked /\ UNCHANGED thread /\ UNCHANGED hwnd
          /\ UNCHANGED stopTimer /\ UNCHANGED frames
      BY <2>1, DaemonApart
    <3>2. MiInv' /\ (daemon = "down" => daemon' = "down" \/ Persistent)
      BY <2>1, DaemonMi
    <3> QED BY <3>1, <3>2, DeadlineKept, Zenon DEF Due, HasFrame
  <2>2. CASE UNCHANGED vars
    BY <2>2, SameMi, SameDeadline, Zenon DEF vars, SameLife
  <2> QED BY <2>1, <2>2, MainMi, MainDeadline, StatusThreadMi, StatusThreadDeadline DEF Next
<1>3. I => StopHasDeadline
  BY Zenon DEF DeadlineInv, Due, StopHasDeadline
<1> QED BY <1>1, <1>2, <1>3, TypeCorrect, ThreadLife, PTL DEF Spec

-----------------------------------------------------------------------------
(* What has been said and not yet heard *)

Has(s, x) == \E i \in 1 .. Len(s) : s[i] = x

\* After every a in s comes a b.
Followed(s, a, b) == \A i \in 1 .. Len(s) : s[i] = a => \E j \in i + 1 .. Len(s) : s[j] = b

LEMMA HasTail ==
    ASSUME NEW S, NEW s \in Seq(S), s # <<>>, NEW x
    PROVE  Has(s, x) <=> Head(s) = x \/ Has(Tail(s), x)
<1>1. /\ Len(s) \in Nat \ {0} /\ Len(Tail(s)) = Len(s) - 1 /\ Head(s) = s[1]
      /\ \A i \in 1 .. Len(s) - 1 : Tail(s)[i] = s[i + 1]
  OBVIOUS
<1>2. ASSUME Has(s, x), Head(s) # x PROVE Has(Tail(s), x)
  <2>1. PICK i \in 1 .. Len(s) : s[i] = x
    BY <1>2 DEF Has
  <2>2. i - 1 \in 1 .. Len(s) - 1 /\ Tail(s)[i - 1] = x
    BY <1>1, <1>2, <2>1
  <2> QED BY <1>1, <2>2 DEF Has
<1>3. ASSUME Has(Tail(s), x) PROVE Has(s, x)
  <2>1. PICK i \in 1 .. Len(s) - 1 : Tail(s)[i] = x
    BY <1>1, <1>3 DEF Has
  <2>2. i + 1 \in 1 .. Len(s) /\ s[i + 1] = x
    BY <1>1, <2>1
  <2> QED BY <2>2 DEF Has
<1>4. ASSUME Head(s) = x PROVE Has(s, x)
  <2>1. 1 \in 1 .. Len(s) /\ s[1] = x
    BY <1>1, <1>4
  <2> QED BY <2>1 DEF Has
<1> QED BY <1>2, <1>3, <1>4

LEMMA HasConcat ==
    ASSUME NEW S, NEW s \in Seq(S), NEW t \in Seq(S), NEW x
    PROVE  Has(s \o t, x) <=> Has(s, x) \/ Has(t, x)
<1>1. /\ Len(s) \in Nat /\ Len(t) \in Nat /\ Len(s \o t) = Len(s) + Len(t)
      /\ \A i \in 1 .. Len(s) : (s \o t)[i] = s[i]
      /\ \A i \in 1 .. Len(t) : (s \o t)[Len(s) + i] = t[i]
  OBVIOUS
<1>2. ASSUME Has(s \o t, x) PROVE Has(s, x) \/ Has(t, x)
  <2>1. PICK i \in 1 .. Len(s) + Len(t) : (s \o t)[i] = x
    BY <1>1, <1>2 DEF Has
  <2>2. CASE i <= Len(s)
    BY <1>1, <2>1, <2>2 DEF Has
  <2>3. CASE i > Len(s)
    <3>1. i - Len(s) \in 1 .. Len(t) /\ t[i - Len(s)] = x
      BY <1>1, <2>1, <2>3
    <3> QED BY <3>1 DEF Has
  <2> QED BY <1>1, <2>1, <2>2, <2>3
<1>3. ASSUME Has(s, x) PROVE Has(s \o t, x)
  BY <1>1, <1>3 DEF Has
<1>4. ASSUME Has(t, x) PROVE Has(s \o t, x)
  <2>1. PICK i \in 1 .. Len(t) : t[i] = x
    BY <1>4 DEF Has
  <2>2. Len(s) + i \in 1 .. Len(s \o t) /\ (s \o t)[Len(s) + i] = x
    BY <1>1, <2>1
  <2> QED BY <2>2, Zenon DEF Has
<1> QED BY <1>2, <1>3, <1>4

LEMMA HasAppend ==
    ASSUME NEW S, NEW s \in Seq(S), NEW y \in S, NEW x
    PROVE  Has(Append(s, y), x) <=> Has(s, x) \/ x = y
<1>1. Append(s, y) = s \o <<y>> /\ <<y>> \in Seq(S)
  OBVIOUS
<1>2. Has(<<y>>, x) <=> x = y
  BY DEF Has
<1>3. Has(s \o <<y>>, x) <=> Has(s, x) \/ Has(<<y>>, x)
  BY <1>1, HasConcat, Zenon
<1> QED BY <1>1, <1>2, <1>3, Zenon

LEMMA HasWords ==
    ASSUME NEW x, NEW a, NEW b
    PROVE  /\ ~Has(<<>>, x)
           /\ Has(<<a>>, x) <=> x = a
           /\ Has(<<a, b>>, x) <=> x = a \/ x = b
BY DEF Has

\* What is read takes nothing from what follows; what is said at the end is
\* followed by what is said with it, and answers all that came before.
LEMMA FollowedTail ==
    ASSUME NEW S, NEW s \in Seq(S), s # <<>>, NEW a, NEW b, Followed(s, a, b)
    PROVE  Followed(Tail(s), a, b) /\ (Head(s) = a => Has(Tail(s), b))
<1>1. /\ Len(s) \in Nat \ {0} /\ Len(Tail(s)) = Len(s) - 1 /\ Head(s) = s[1]
      /\ \A i \in 1 .. Len(s) - 1 : Tail(s)[i] = s[i + 1]
  OBVIOUS
<1>2. ASSUME NEW i \in 1 .. Len(Tail(s)), Tail(s)[i] = a
      PROVE  \E j \in i + 1 .. Len(Tail(s)) : Tail(s)[j] = b
  <2>1. i + 1 \in 1 .. Len(s) /\ s[i + 1] = a
    BY <1>1, <1>2
  <2>2. PICK j \in i + 1 + 1 .. Len(s) : s[j] = b
    BY <2>1 DEF Followed
  <2>3. j - 1 \in i + 1 .. Len(s) - 1 /\ Tail(s)[j - 1] = b
    BY <1>1, <1>2, <2>2
  <2> QED BY <1>1, <2>3
<1>3. ASSUME Head(s) = a PROVE Has(Tail(s), b)
  <2>1. 1 \in 1 .. Len(s) /\ s[1] = a
    BY <1>1, <1>3
  <2>2. PICK j \in 1 + 1 .. Len(s) : s[j] = b
    BY <2>1 DEF Followed
  <2>3. j - 1 \in 1 .. Len(s) - 1 /\ Tail(s)[j - 1] = b
    BY <1>1, <2>2
  <2> QED BY <1>1, <2>3 DEF Has
<1> QED BY <1>2, <1>3 DEF Followed

LEMMA FollowedConcat ==
    ASSUME NEW S, NEW s \in Seq(S), NEW t \in Seq(S), NEW a, NEW b,
           Followed(t, a, b), Followed(s, a, b) \/ Has(t, b)
    PROVE  Followed(s \o t, a, b)
<1>1. /\ Len(s) \in Nat /\ Len(t) \in Nat /\ Len(s \o t) = Len(s) + Len(t)
      /\ \A i \in 1 .. Len(s) : (s \o t)[i] = s[i]
      /\ \A i \in 1 .. Len(t) : (s \o t)[Len(s) + i] = t[i]
  OBVIOUS
<1> SUFFICES ASSUME NEW i \in 1 .. Len(s) + Len(t), (s \o t)[i] = a
             PROVE  \E j \in i + 1 .. Len(s) + Len(t) : (s \o t)[j] = b
  BY <1>1 DEF Followed
<1>2. CASE i <= Len(s) /\ Followed(s, a, b)
  <2>1. i \in 1 .. Len(s) /\ s[i] = a
    BY <1>1, <1>2
  <2>2. PICK j \in i + 1 .. Len(s) : s[j] = b
    BY <1>2, <2>1 DEF Followed
  <2>3. j \in 1 .. Len(s) /\ j \in i + 1 .. Len(s) + Len(t)
    BY <1>1, <2>1, <2>2
  <2> QED BY <1>1, <2>2, <2>3
<1>3. CASE i <= Len(s) /\ Has(t, b)
  <2>1. PICK j \in 1 .. Len(t) : t[j] = b
    BY <1>3 DEF Has
  <2>2. Len(s) + j \in i + 1 .. Len(s) + Len(t) /\ (s \o t)[Len(s) + j] = b
    BY <1>1, <1>3, <2>1
  <2> QED BY <2>2
<1>4. CASE i > Len(s)
  <2>1. i - Len(s) \in 1 .. Len(t) /\ t[i - Len(s)] = a
    BY <1>1, <1>4
  <2>2. PICK j \in i - Len(s) + 1 .. Len(t) : t[j] = b
    BY <2>1 DEF Followed
  <2>3. j \in 1 .. Len(t) /\ Len(s) + j \in i + 1 .. Len(s) + Len(t)
    BY <1>1, <1>4, <2>2
  <2>4. (s \o t)[Len(s) + j] = b
    BY <1>1, <2>2, <2>3
  <2> QED BY <2>3, <2>4
<1> QED BY <1>1, <1>2, <1>3, <1>4

LEMMA FollowedAppend ==
    ASSUME NEW S, NEW s \in Seq(S), NEW y \in S, NEW a, NEW b, y # a,
           Followed(s, a, b) \/ y = b
    PROVE  Followed(Append(s, y), a, b)
<1>1. Append(s, y) = s \o <<y>> /\ <<y>> \in Seq(S)
  OBVIOUS
<1>2. Followed(<<y>>, a, b) /\ (y = b => Has(<<y>>, b))
  BY DEF Followed, Has
<1> QED BY <1>1, <1>2, FollowedConcat

LEMMA FollowedNone ==
    ASSUME NEW s, NEW a, NEW b, ~Has(s, a) PROVE Followed(s, a, b)
BY DEF Has, Followed

-----------------------------------------------------------------------------
(* The socket and what is on it *)

\* A connection exists only with a running thread and its socket; it starts with
\* nothing but password prompts, and no password is left over from the last one.
SockInv ==
    /\ thread # "running" => sk = "closed"
    /\ thread = "starting" => state \in {"connecting", "resuming"}
    /\ mi \in {"auth", "ready"} => sk = "open"
    /\ mi = "auth" => \A i \in 1 .. Len(lines) : lines[i] = "prompt"
    /\ sk # "open" => ~Has(out, "password")
    /\ daemon = "hold" => holdFlag

LEMMA SameSock ==
    ASSUME SockInv, (UNCHANGED thread /\ UNCHANGED sk /\ UNCHANGED mi /\ UNCHANGED lines /\ UNCHANGED out /\ UNCHANGED daemon /\ UNCHANGED holdFlag),
           UNCHANGED state \/ thread # "starting"
    PROVE  SockInv'
BY Zenon DEF SockInv, Has

\* An action of the running thread that leaves the socket and the daemon alone.
LEMMA RunningSock ==
    ASSUME SockInv, thread = "running", thread' = "running",
           (UNCHANGED sk /\ UNCHANGED mi /\ UNCHANGED lines /\ UNCHANGED daemon /\ UNCHANGED holdFlag), Has(out', "password") => Has(out, "password")
    PROVE  SockInv'
BY Zenon DEF SockInv

LEMMA StartSock ==
    ASSUME NEW st, ThreadInv, SockInv, StartBody(st), st = state \/ Idle
    PROVE  SockInv'
<1>1. CASE Post("RELEASE")
  BY <1>1, SameSock, Zenon DEF Post
<1>2. CASE StartIgnored(st)
  BY <1>2, SameSock, Zenon DEF StartIgnored, ThreadInv
<1>3. CASE Launch(st)
  <2>1. thread # "running" /\ thread' = "starting" /\ state' \in {"connecting", "resuming"}
    BY <1>3, Zenon DEF Launch, ThreadInv
  <2>2. (UNCHANGED sk /\ UNCHANGED out /\ UNCHANGED lines) /\ sk = "closed"
    BY <1>3, <2>1, Zenon DEF Launch, SockInv
  <2>3. \/ (UNCHANGED daemon /\ UNCHANGED mi /\ UNCHANGED holdFlag)
        \/ mi' = "off" /\ holdFlag' = TRUE
    BY <1>3, Zenon DEF Launch
  <2> QED BY <2>1, <2>2, <2>3, Zenon DEF SockInv, Has
<1>4. CASE LaunchFails(st)
  BY <1>4, SameSock, Zenon DEF LaunchFails, ThreadInv, Idle
<1> QED BY <1>1, <1>2, <1>3, <1>4 DEF StartBody

LEMMA MainSock == ThreadInv /\ SockInv /\ Main => SockInv'
<1> SUFFICES ASSUME ThreadInv, SockInv, Main PROVE SockInv'
  OBVIOUS
<1>1. CASE StartOpenVPN
  BY <1>1, StartSock DEF StartOpenVPN
<1>2. CASE StopOpenVPN
  BY <1>2, SameSock, Zenon DEF StopOpenVPN, Post
<1>3. CASE RestartOpenVPN
  <2>1. CASE Post("RELEASE") \/ Post("RESTART")
    BY <2>1, SameSock, Zenon DEF Post
  <2>2. CASE StartBody(state)
    BY <2>2, StartSock
  <2> QED BY <1>3, <2>1, <2>2 DEF RestartOpenVPN
<1>4. CASE DetachOpenVPN
  BY <1>4, SameSock, Zenon DEF DetachOpenVPN, Post
<1>5. CASE ManagePersistent
  BY <1>5, StartSock, Zenon DEF ManagePersistent, Idle
<1>6. CASE HandleSessionLock
  BY <1>6, SameSock, Zenon DEF HandleSessionLock
<1>7. CASE HandleSessionUnlock
  BY <1>7, SameSock, Zenon DEF HandleSessionUnlock
<1> QED BY <1>1, <1>2, <1>3, <1>4, <1>5, <1>6, <1>7 DEF Main

\* CloseManagement leaves no connection behind, and no password.
LEMMA Closed ==
    ASSUME SockInv, CloseManagement, (UNCHANGED daemon /\ UNCHANGED holdFlag),
           thread' # "starting"
    PROVE  SockInv' /\ sk' = "closed" /\ mi' \notin {"auth", "ready"}
<1>1. CASE sk = "closed"
  BY <1>1, Zenon DEF SockInv, CloseManagement, Has
<1>2. CASE sk # "closed"
  <2>1. sk' = "closed" /\ out' = <<>> /\ mi' \notin {"auth", "ready"}
    BY <1>2, Zenon DEF CloseManagement
  <2>2. ~Has(out', "password")
    BY <2>1, HasWords, Zenon
  <2> QED BY <2>1, <2>2, Zenon DEF SockInv
<1> QED BY <1>1, <1>2

LEMMA StatusThreadSock == DataOK /\ ThreadInv /\ SockInv /\ StatusThread => SockInv'
<1> SUFFICES ASSUME DataOK, ThreadInv, SockInv, StatusThread PROVE SockInv'
  OBVIOUS
<1>q. out \in Seq(Commands) /\ lines \in Seq(Lines)
  BY DEF DataOK
<1>o. ASSUME NEW cmd \in Commands, cmd # "password", Send(cmd)
      PROVE  Has(out', "password") => Has(out, "password")
  BY <1>o, <1>q, HasAppend, Zenon DEF Send
<1>c. {"release", "hold_sighup", "sighup", "state", "password"} \subseteq Commands
  BY DEF Commands
\* Reading a line: the socket is open.
<1>r. ASSUME thread = "running", (UNCHANGED thread /\ UNCHANGED sk /\ UNCHANGED mi /\ UNCHANGED daemon /\ UNCHANGED holdFlag), sk = "open",
             lines # <<>>, lines' = Tail(lines)
      PROVE  SockInv'
  <2>1. mi = "auth" => \A i \in 1 .. Len(lines') : lines'[i] = "prompt"
    <3> SUFFICES ASSUME mi = "auth", NEW i \in 1 .. Len(Tail(lines)) PROVE Tail(lines)[i] = "prompt"
      BY <1>r, Zenon
    <3>1. i + 1 \in 1 .. Len(lines) /\ Tail(lines)[i] = lines[i + 1]
      BY <1>q, <1>r
    <3> QED BY <3>1, Zenon DEF SockInv
  <2> QED BY <1>r, <2>1, Zenon DEF SockInv
<1>1. CASE ThreadInit
  <2>1. thread = "starting" /\ sk = "closed" /\ mi \notin {"auth", "ready"}
    BY <1>1, Zenon DEF ThreadInit, SockInv
  <2>2. (UNCHANGED out /\ UNCHANGED lines /\ UNCHANGED daemon /\ UNCHANGED mi /\ UNCHANGED holdFlag)
    BY <1>1, Zenon DEF ThreadInit
  <2>3. \/ thread' = "running" /\ sk' # "open"
        \/ thread' = "none" /\ UNCHANGED sk
    BY <1>1, Zenon DEF ThreadInit
  <2> QED BY <2>1, <2>2, <2>3, Zenon DEF SockInv, Has
<1>2. CASE HandleStop
  <2>1. thread = "running" /\ (UNCHANGED thread /\ UNCHANGED sk /\ UNCHANGED mi /\ UNCHANGED lines /\ UNCHANGED daemon /\ UNCHANGED holdFlag)
    BY <1>2, Zenon DEF HandleStop, Pumping
  <2>2. Send("hold_sighup") \/ UNCHANGED out
    BY <1>2, Zenon DEF HandleStop, HoldDaemon, SignalExit
  <2>3. Has(out', "password") => Has(out, "password")
    BY <2>2, <1>o, <1>c, Zenon
  <2> QED BY <2>1, <2>3, RunningSock, Zenon
<1>3. CASE HandleRelease
  <2>1. Send("release") \/ UNCHANGED out
    BY <1>3, Zenon DEF HandleRelease, OnHold
  <2>2. Has(out', "password") => Has(out, "password")
    BY <2>1, <1>o, <1>c, Zenon
  <2> QED BY <1>3, <2>2, RunningSock, Zenon DEF HandleRelease, Pumping
<1>4. CASE HandleRestart
  <2>1. Send("sighup") \/ UNCHANGED out
    BY <1>4, Zenon DEF HandleRestart
  <2>2. Has(out', "password") => Has(out, "password")
    BY <2>1, <1>o, <1>c, Zenon
  <2> QED BY <1>4, <2>2, RunningSock, Zenon DEF HandleRestart, Pumping
<1>5. CASE HandleDetach
  BY <1>5, SameSock, Zenon DEF HandleDetach, Pumping
<1>6. CASE StopTimeout
  <2>1. thread = "running" /\ (UNCHANGED thread /\ UNCHANGED sk /\ UNCHANGED out /\ UNCHANGED holdFlag)
    BY <1>6, Zenon DEF StopTimeout, Pumping
  <2>2. (UNCHANGED lines /\ UNCHANGED daemon /\ UNCHANGED mi) \/ (daemon' = "down" /\ mi' = "off")
    BY <1>6, Zenon DEF StopTimeout
  <2> QED BY <2>1, <2>2, Zenon DEF SockInv, Has
<1>7. CASE FdConnect
  <2>1. thread = "running" /\ (UNCHANGED thread /\ UNCHANGED daemon /\ UNCHANGED holdFlag)
    BY <1>7, Zenon DEF FdConnect, Pumping
  <2>2. CASE CloseManagement
    BY <2>1, <2>2, Closed, Zenon
  <2>3. CASE sk' = "open" /\ lines' = <<"prompt">>
    <3>1. \A i \in 1 .. Len(lines') : lines'[i] = "prompt"
      BY <2>3
    <3> QED BY <2>1, <2>3, <3>1, Zenon DEF SockInv
  <2> QED BY <1>7, <2>2, <2>3, Zenon DEF FdConnect
<1>8. CASE ConnectTimeout
  <2>1. thread = "running" /\ (UNCHANGED thread /\ UNCHANGED daemon /\ UNCHANGED holdFlag) /\ mi' = "off"
    BY <1>8, Zenon DEF ConnectTimeout, Pumping
  <2>2. out' = <<>>
    BY <1>8, Zenon DEF ConnectTimeout
  <2>3. ~Has(out', "password")
    BY <2>2, HasWords, Zenon
  <2> QED BY <2>1, <2>3, Zenon DEF SockInv
<1>9. CASE ReadPrompt
  <2>1. CASE CloseManagement
    BY <1>9, <2>1, Closed, Zenon DEF ReadPrompt, Reading, Pumping
  <2>2. CASE ~CloseManagement
    BY <1>9, <2>2, <1>r, Zenon DEF ReadPrompt, Reading, Pumping
  <2> QED BY <2>1, <2>2
<1>10. CASE ReadInfo
  BY <1>10, <1>r, Zenon DEF ReadInfo, Reading, Pumping
<1>11. CASE ReadHold
  BY <1>11, <1>r, Zenon DEF ReadHold, Reading, Pumping
<1>12. CASE ReadConnected
  BY <1>12, <1>r, Zenon DEF ReadConnected, Reading, Pumping
<1>13. CASE ReadReconnecting
  BY <1>13, <1>r, Zenon DEF ReadReconnecting, Reading, Pumping
<1>14. CASE ReadOther
  BY <1>14, <1>r, Zenon DEF ReadOther, Reading, Pumping
<1>15. CASE FdClose
  BY <1>15, Closed, Zenon DEF FdClose, Reading, Pumping
<1>16. CASE ProcessExit
  BY <1>16, SameSock, Zenon DEF ProcessExit, Pumping
<1>17. CASE ConnectScriptDone
  BY <1>17, SameSock, Zenon DEF ConnectScriptDone, Innermost
<1>18. CASE DisconnectScriptDone
  BY <1>18, SameSock, Zenon DEF DisconnectScriptDone, SignalExit, Innermost
<1>19. CASE PopupDone
  BY <1>19, SameSock, Zenon DEF PopupDone, Innermost
<1>20. CASE OpenFailedDone
  BY <1>20, SameSock, Zenon DEF OpenFailedDone, Innermost
<1>21. CASE ThreadExit
  <2>1. CloseManagement /\ (UNCHANGED daemon /\ UNCHANGED holdFlag) /\ thread' = "none"
    BY <1>21, Zenon DEF ThreadExit
  <2> QED BY <2>1, Closed, Zenon
<1> QED
  BY <1>1, <1>2, <1>3, <1>4, <1>5, <1>6, <1>7, <1>8, <1>9, <1>10, <1>11, <1>12, <1>13,
     <1>14, <1>15, <1>16, <1>17, <1>18, <1>19, <1>20, <1>21
     DEF StatusThread, HandleMessage, ReadLine

LEMMA DaemonSock == DataOK /\ SockInv /\ Daemon => SockInv'
<1> SUFFICES ASSUME DataOK, SockInv, Daemon PROVE SockInv'
  OBVIOUS
<1>q. out \in Seq(Commands) /\ lines \in Seq(Lines)
  BY DEF DataOK
<1>u. (UNCHANGED thread /\ UNCHANGED state /\ UNCHANGED sk)
  BY DaemonApart, Zenon
<1>o. out # <<>> /\ out' = Tail(out) => (Has(out', "password") => Has(out, "password"))
  BY <1>q, HasTail, Zenon
\* The daemon is authenticated, or not connected.
<1>n. ASSUME mi' # "auth", mi' \in {"auth", "ready"} => mi \in {"auth", "ready"},
             Has(out', "password") => Has(out, "password"), daemon' = "hold" => holdFlag'
      PROVE  SockInv'
  BY <1>n, <1>u, Zenon DEF SockInv
<1>1. CASE DaemonListens
  BY <1>1, <1>n, Zenon DEF DaemonListens, SockInv
<1>2. CASE DaemonAuth
  <2>1. mi = "auth" /\ out # <<>> /\ out' = Tail(out) /\ (UNCHANGED daemon /\ UNCHANGED holdFlag)
    BY <1>2, Zenon DEF DaemonAuth, Commanded
  <2>2. CASE mi' = "ready"
    BY <2>1, <2>2, <1>o, <1>n, Zenon DEF SockInv
  <2>3. CASE mi' = "auth" /\ lines' = lines \o <<"prompt">>
    <3>1. \A i \in 1 .. Len(lines') : lines'[i] = "prompt"
      BY <1>q, <2>1, <2>3 DEF SockInv
    <3> QED BY <2>1, <2>3, <3>1, <1>o, <1>u, Zenon DEF SockInv
  <2> QED BY <1>2, <2>1, <2>2, <2>3, Zenon DEF DaemonAuth, Emit
<1>3. CASE DaemonRelease
  BY <1>3, <1>o, <1>n, Zenon DEF DaemonRelease, Commanded, SockInv
<1>4. CASE DaemonHup
  BY <1>4, <1>o, <1>n, Zenon DEF DaemonHup, Commanded, SockInv
<1>5. CASE DaemonReplies
  BY <1>5, <1>o, <1>n, Zenon DEF DaemonReplies, Commanded, SockInv
<1>6. CASE DaemonConnects
  <2>1. /\ (UNCHANGED out /\ UNCHANGED mi /\ UNCHANGED holdFlag) /\ daemon' # "hold"
        /\ mi # "ready" => UNCHANGED lines
    BY <1>6, Zenon DEF DaemonConnects, Tell
  <2> QED BY <2>1, <1>u, Zenon DEF SockInv, Has
<1>7. CASE DaemonReconnects
  <2>1. /\ (UNCHANGED out /\ UNCHANGED mi /\ UNCHANGED holdFlag) /\ (daemon' = "hold" => holdFlag)
        /\ mi # "ready" => UNCHANGED lines
    BY <1>7, Zenon DEF DaemonReconnects, Tell
  <2> QED BY <2>1, <1>u, Zenon DEF SockInv, Has
<1>8. CASE DaemonExits
  BY <1>8, <1>n, Zenon DEF DaemonExits
<1>9. CASE ServiceRestarts
  <2>1. (UNCHANGED out /\ UNCHANGED mi /\ UNCHANGED lines) /\ (daemon' = "hold" => holdFlag')
    BY <1>9, Zenon DEF ServiceRestarts
  <2> QED BY <2>1, <1>u, Zenon DEF SockInv, Has
<1>10. CASE DaemonDropsClient
  BY <1>10, <1>n, Zenon DEF DaemonDropsClient, SockInv
<1> QED BY <1>1, <1>2, <1>3, <1>4, <1>5, <1>6, <1>7, <1>8, <1>9, <1>10 DEF Daemon

\* Connect scripts run only for a profile that has one and is not persistent; only
\* a persistent daemon is kept on hold.
ModeInv ==
    /\ (~Scripts \/ Persistent) => ~Has(frames, "up_script")
    /\ Persistent => ~Has(frames, "down_script")
    /\ state = "onhold" => Persistent

LEMMA SameMode ==
    ASSUME ModeInv, UNCHANGED frames, state' = "onhold" => state = "onhold" \/ Persistent
    PROVE  ModeInv'
BY Zenon DEF ModeInv, Has

LEMMA StartMode ==
    ASSUME NEW st, ModeInv, StartBody(st), st = state \/ st = "detached" PROVE ModeInv'
BY SameMode, Zenon DEF StartBody, Post, StartIgnored, Launch, LaunchFails

LEMMA MainMode == ModeInv /\ Main => ModeInv'
<1> SUFFICES ASSUME ModeInv, Main PROVE ModeInv'
  OBVIOUS
<1>1. CASE StartOpenVPN
  BY <1>1, StartMode, Zenon DEF StartOpenVPN
<1>2. CASE StopOpenVPN
  BY <1>2, SameMode, Zenon DEF StopOpenVPN, Post
<1>3. CASE RestartOpenVPN
  <2>1. CASE Post("RELEASE") \/ Post("RESTART")
    BY <2>1, SameMode, Zenon DEF Post
  <2>2. CASE StartBody(state)
    BY <2>2, StartMode, Zenon
  <2> QED BY <1>3, <2>1, <2>2 DEF RestartOpenVPN
<1>4. CASE DetachOpenVPN
  BY <1>4, SameMode, Zenon DEF DetachOpenVPN, Post
<1>5. CASE ManagePersistent
  BY <1>5, StartMode, Zenon DEF ManagePersistent
<1>6. CASE HandleSessionLock
  BY <1>6, SameMode, Zenon DEF HandleSessionLock
<1>7. CASE HandleSessionUnlock
  BY <1>7, SameMode, Zenon DEF HandleSessionUnlock
<1> QED BY <1>1, <1>2, <1>3, <1>4, <1>5, <1>6, <1>7 DEF Main

LEMMA StatusThreadMode == DataOK /\ ThreadInv /\ ModeInv /\ StatusThread => ModeInv'
<1> SUFFICES ASSUME DataOK, ThreadInv, ModeInv, StatusThread PROVE ModeInv'
  OBVIOUS
<1>q. frames \in Seq(Frames) /\ "popup" \in Frames /\ "open_failed" \in Frames
      /\ "down_script" \in Frames
  BY DEF DataOK, Frames
<1>p. ASSUME NEW f \in Frames, f # "up_script", f = "down_script" => ~Persistent,
             frames' = <<f>> \o frames, state' = "onhold" => state = "onhold" \/ Persistent
      PROVE  ModeInv'
  <2>1. <<f>> \in Seq(Frames)
    OBVIOUS
  <2>2. \A g : Has(<<f>>, g) => f = g
    BY HasWords, Zenon
  <2>3. \A g : Has(frames', g) => Has(frames, g) \/ f = g
    BY <1>p, <1>q, <2>1, <2>2, HasConcat, Zenon
  <2> QED BY <1>p, <2>3, Zenon DEF ModeInv
<1>t. ASSUME frames # <<>>, frames' = Tail(frames), state' = "onhold" => state = "onhold" \/ Persistent
      PROVE  ModeInv'
  <2>1. \A g : Has(frames', g) => Has(frames, g)
    BY <1>t, <1>q, HasTail, Zenon
  <2> QED BY <1>t, <2>1, Zenon DEF ModeInv
<1>s. ASSUME NEW st, NEW rest, NEW armed, OnStop(st, rest, armed), st = state PROVE ModeInv'
  <2>1. CASE OnStopReported(st, rest, armed)
    BY <2>1, <1>q, <1>p, Zenon DEF OnStopReported
  <2>2. CASE OnStopQuiet(st)
    BY <2>2, SameMode, Zenon DEF OnStopQuiet
  <2>3. CASE OnStopIgnored(st, rest, armed)
    BY <2>3, SameMode, Zenon DEF OnStopIgnored
  <2> QED BY <1>s, <2>1, <2>2, <2>3 DEF OnStop
<1>1. CASE ThreadInit
  <2>1. frames = <<>>
    BY <1>1, Zenon DEF ThreadInit, ThreadInv
  <2>2. UNCHANGED frames \/ frames' = <<"open_failed">>
    BY <1>1, Zenon DEF ThreadInit
  <2>3. \A f \in {"up_script", "down_script"} : ~Has(<<>>, f) /\ ~Has(<<"open_failed">>, f)
    BY HasWords, Zenon
  <2>4. ~Has(frames', "up_script") /\ ~Has(frames', "down_script")
    BY <2>1, <2>2, <2>3, Zenon
  <2> QED BY <1>1, <2>4, Zenon DEF ThreadInit, ModeInv
<1>2. CASE HandleStop
  <2>1. state' # "onhold" \/ UNCHANGED state
    BY <1>2, Zenon DEF HandleStop, HoldDaemon, OnStopQuiet
  <2>2. UNCHANGED frames \/ (frames' = <<"down_script">> \o frames /\ ~Persistent)
    BY <1>2, Zenon DEF HandleStop, HoldDaemon, OnStopQuiet
  <2> QED BY <2>1, <2>2, <1>p, <1>q, SameMode, Zenon
<1>3. CASE HandleRelease
  BY <1>3, SameMode, Zenon DEF HandleRelease, OnHold
<1>4. CASE HandleRestart
  BY <1>4, SameMode, Zenon DEF HandleRestart
<1>5. CASE HandleDetach
  BY <1>5, SameMode, Zenon DEF HandleDetach, OnStopQuiet
<1>6. CASE StopTimeout
  BY <1>6, <1>s, Zenon DEF StopTimeout
<1>7. CASE FdConnect
  BY <1>7, SameMode, Zenon DEF FdConnect
<1>8. CASE ConnectTimeout
  <2>1. UNCHANGED frames \/ frames' = <<"open_failed">> \o frames
    BY <1>8, Zenon DEF ConnectTimeout
  <2>2. state' = "onhold" => state = "onhold"
    BY <1>8, Zenon DEF ConnectTimeout
  <2> QED BY <2>1, <2>2, <1>p, <1>q, SameMode, Zenon
<1>9. CASE ReadPrompt
  BY <1>9, SameMode, Zenon DEF ReadPrompt, OnStopQuiet
<1>10. CASE ReadInfo
  BY <1>10, SameMode, Zenon DEF ReadInfo
<1>11. CASE ReadHold
  BY <1>11, SameMode, Zenon DEF ReadHold, OnHold
<1>12. CASE ReadConnected
  <2>1. CASE Scripts /\ ~Persistent
    BY <1>12, <2>1, Zenon DEF ReadConnected, ModeInv
  <2>2. CASE ~(Scripts /\ ~Persistent)
    BY <1>12, <2>2, SameMode, Zenon DEF ReadConnected
  <2> QED BY <2>1, <2>2
<1>13. CASE ReadReconnecting
  BY <1>13, SameMode, Zenon DEF ReadReconnecting
<1>14. CASE ReadOther
  BY <1>14, SameMode, Zenon DEF ReadOther
<1>15. CASE FdClose
  BY <1>15, <1>s, Zenon DEF FdClose
<1>16. CASE ProcessExit
  BY <1>16, <1>s, Zenon DEF ProcessExit
<1>17. CASE ConnectScriptDone
  BY <1>17, <1>t, Zenon DEF ConnectScriptDone, Innermost
<1>18. CASE DisconnectScriptDone
  BY <1>18, <1>t, Zenon DEF DisconnectScriptDone, Innermost
<1>19. CASE PopupDone
  BY <1>19, <1>t, Zenon DEF PopupDone, Innermost
<1>20. CASE OpenFailedDone
  BY <1>20, <1>t, Zenon DEF OpenFailedDone, Innermost
<1>21. CASE ThreadExit
  BY <1>21, SameMode, Zenon DEF ThreadExit
<1> QED
  BY <1>1, <1>2, <1>3, <1>4, <1>5, <1>6, <1>7, <1>8, <1>9, <1>10, <1>11, <1>12, <1>13,
     <1>14, <1>15, <1>16, <1>17, <1>18, <1>19, <1>20, <1>21
     DEF StatusThread, HandleMessage, ReadLine

-----------------------------------------------------------------------------
(* A hold is shown *)

Hup == Has(out, "sighup") \/ Has(out, "hold_sighup")

\* While the daemon waits in its hold, the GUI shows it, will read of it, or has told
\* the daemon to go on; a "connected" it still reads is older than the hold.
HeldInv ==
    hwnd = "open" /\ mi = "ready" /\ daemon = "hold" =>
        /\ Followed(lines, "connected_ok", "hold")
        /\ state = "onhold" \/ Has(lines, "hold") \/ Has(out, "release") \/ Hup

SameOut == \A c \in {"release", "sighup", "hold_sighup"} : Has(out, c) => Has(out', c)

LEMMA HeldKept ==
    ASSUME HeldInv, UNCHANGED <<mi, daemon, lines>>, hwnd' = "open" => hwnd = "open", SameOut,
           state = "onhold" => state' = "onhold" \/ hwnd' # "open" \/ Has(out', "release") \/ Hup'
    PROVE  HeldInv'
BY Zenon DEF HeldInv, Hup, SameOut

LEMMA HeldRead ==
    ASSUME HeldInv, DataOK, UNCHANGED <<mi, daemon, hwnd>>, SameOut,
           lines # <<>>, lines' = Tail(lines),
           UNCHANGED state \/ state # "onhold" \/ Head(lines) = "connected_ok",
           Head(lines) = "hold" => state' = "onhold" \/ Has(out', "release")
    PROVE  HeldInv'
<1> SUFFICES ASSUME hwnd = "open", mi = "ready", daemon = "hold"
             PROVE  /\ Followed(lines', "connected_ok", "hold")
                    /\ state' = "onhold" \/ Has(lines', "hold") \/ Has(out', "release") \/ Hup'
  BY Zenon DEF HeldInv
<1>1. lines \in Seq(Lines)
  BY DEF DataOK
<1>2. Followed(lines, "connected_ok", "hold")
  BY Zenon DEF HeldInv
<1>3. Followed(lines', "connected_ok", "hold") /\ (Head(lines) = "connected_ok" => Has(lines', "hold"))
  BY <1>1, <1>2, FollowedTail, Zenon
<1>4. Has(lines, "hold") => Head(lines) = "hold" \/ Has(lines', "hold")
  BY <1>1, HasTail, Zenon
<1> QED BY <1>3, <1>4, Zenon DEF HeldInv, Hup, SameOut

LEMMA StartHeld ==
    ASSUME NEW st, HeldInv, StartBody(st), st = state \/ Idle PROVE HeldInv'
<1>1. CASE Post("RELEASE")
  BY <1>1, HeldKept, Zenon DEF Post, SameOut
<1>2. CASE StartIgnored(st)
  BY <1>2, HeldKept, Zenon DEF StartIgnored, SameOut, Idle
<1>3. CASE Launch(st)
  BY <1>3, Zenon DEF Launch, HeldInv
<1>4. CASE LaunchFails(st)
  BY <1>4, Zenon DEF LaunchFails, HeldInv
<1> QED BY <1>1, <1>2, <1>3, <1>4 DEF StartBody

LEMMA MainHeld == HeldInv /\ Main => HeldInv'
<1> SUFFICES ASSUME HeldInv, Main PROVE HeldInv'
  OBVIOUS
<1> USE DEF SameOut
<1>1. CASE StartOpenVPN
  BY <1>1, StartHeld DEF StartOpenVPN
<1>2. CASE StopOpenVPN
  BY <1>2, HeldKept, Zenon DEF StopOpenVPN, Post
<1>3. CASE RestartOpenVPN
  <2>1. CASE Post("RELEASE") \/ Post("RESTART")
    BY <2>1, HeldKept, Zenon DEF Post
  <2>2. CASE StartBody(state)
    BY <2>2, StartHeld
  <2> QED BY <1>3, <2>1, <2>2 DEF RestartOpenVPN
<1>4. CASE DetachOpenVPN
  BY <1>4, HeldKept, Zenon DEF DetachOpenVPN, Post
<1>5. CASE ManagePersistent
  BY <1>5, StartHeld, Zenon DEF ManagePersistent, Idle
<1>6. CASE HandleSessionLock
  BY <1>6, HeldKept, Zenon DEF HandleSessionLock
<1>7. CASE HandleSessionUnlock
  BY <1>7, HeldKept, Zenon DEF HandleSessionUnlock
<1> QED BY <1>1, <1>2, <1>3, <1>4, <1>5, <1>6, <1>7 DEF Main

LEMMA StatusThreadHeld ==
    DataOK /\ SockInv /\ ModeInv /\ HeldInv /\ StatusThread => HeldInv'
<1> SUFFICES ASSUME DataOK, SockInv, ModeInv, HeldInv, StatusThread PROVE HeldInv'
  OBVIOUS
<1>s. ASSUME NEW cmd \in Commands, Send(cmd) PROVE SameOut /\ Has(out', cmd)
  <2>1. out \in Seq(Commands)
    BY DEF DataOK
  <2> QED BY <1>s, <2>1, HasAppend, Zenon DEF Send, SameOut
<1>c. {"release", "hold_sighup", "sighup", "state", "password"} \subseteq Commands
  BY DEF Commands
<1>u. UNCHANGED out => SameOut
  BY Zenon DEF SameOut
\* An end of the connection that leaves the window does not find it on hold.
<1>e. ASSUME NEW st, NEW rest, NEW armed, OnStop(st, rest, armed), st = state
      PROVE  (hwnd' = "open" => hwnd = "open") /\ (state = "onhold" => hwnd' # "open")
  BY <1>e, Zenon DEF OnStop, OnStopReported, OnStopQuiet, OnStopIgnored, KeepWindow, DestroyWindow
<1>m. CloseManagement => mi' # "ready"
  BY Zenon DEF CloseManagement, SockInv
<1>n. mi' # "ready" => HeldInv'
  BY Zenon DEF HeldInv
<1>1. CASE ThreadInit
  <2>1. UNCHANGED mi /\ mi # "ready"
    BY <1>1, Zenon DEF ThreadInit, SockInv
  <2> QED BY <2>1, <1>n, Zenon
<1>2. CASE HandleStop
  <2>1. UNCHANGED <<mi, daemon, lines>>
    BY <1>2, Zenon DEF HandleStop
  <2>2. CASE Send("hold_sighup") /\ UNCHANGED hwnd
    BY <2>1, <2>2, <1>s, <1>c, HeldKept, Zenon DEF Hup
  <2>3. CASE hwnd' # "open"
    BY <2>3, Zenon DEF HeldInv
  <2>4. CASE UNCHANGED <<hwnd, out>> /\ (state = "onhold" => state' = "onhold")
    BY <2>1, <2>4, <1>u, HeldKept, Zenon
  <2> QED BY <1>2, <2>2, <2>3, <2>4, Zenon
          DEF HandleStop, HoldDaemon, OnStopQuiet, DestroyWindow, KeepWindow, SignalExit
<1>3. CASE HandleRelease
  <2>1. Send("release")
    BY <1>3, Zenon DEF HandleRelease, OnHold
  <2>2. SameOut /\ Has(out', "release")
    BY <2>1, <1>s, <1>c, Zenon
  <2> QED BY <1>3, <2>2, HeldKept, Zenon DEF HandleRelease, KeepWindow
<1>4. CASE HandleRestart
  <2>1. CASE Send("sighup")
    <3>1. SameOut /\ Hup'
      BY <2>1, <1>s, <1>c, Zenon DEF Hup
    <3> QED BY <1>4, <3>1, HeldKept, Zenon DEF HandleRestart, KeepWindow
  <2>2. CASE UNCHANGED <<state, out>>
    BY <1>4, <2>2, <1>u, HeldKept, Zenon DEF HandleRestart, KeepWindow
  <2> QED BY <1>4, <2>1, <2>2, Zenon DEF HandleRestart
<1>5. CASE HandleDetach
  BY <1>5, Zenon DEF HandleDetach, OnStopQuiet, DestroyWindow, HeldInv
<1>6. CASE StopTimeout
  <2>1. CASE mi' = "off"
    BY <2>1, <1>n, Zenon
  <2>2. CASE UNCHANGED <<lines, daemon, mi>>
    BY <1>6, <2>2, <1>e, <1>u, HeldKept, Zenon DEF StopTimeout
  <2> QED BY <1>6, <2>1, <2>2, Zenon DEF StopTimeout
<1>7. CASE FdConnect
  BY <1>7, <1>m, <1>n, Zenon DEF FdConnect
<1>8. CASE ConnectTimeout
  BY <1>8, <1>n, Zenon DEF ConnectTimeout
<1>9. CASE ReadPrompt
  <2>1. CASE CloseManagement
    BY <2>1, <1>m, <1>n, Zenon
  <2>2. CASE ~CloseManagement
    <3>1. SameOut
      BY <1>9, <2>2, <1>s, <1>c, Zenon DEF ReadPrompt
    <3> QED BY <1>9, <2>2, <3>1, HeldRead, Zenon DEF ReadPrompt, Reading
  <2> QED BY <2>1, <2>2
<1>10. CASE ReadInfo
  <2>1. SameOut
    BY <1>10, <1>s, <1>c, Zenon DEF ReadInfo
  <2> QED BY <1>10, <2>1, HeldRead, Zenon DEF ReadInfo, Reading
<1>11. CASE ReadHold
  <2>1. \/ state' = "onhold" /\ SameOut
        \/ UNCHANGED state /\ SameOut /\ Has(out', "release")
    BY <1>11, <1>s, <1>c, <1>u, Zenon DEF ReadHold, OnHold
  <2> QED BY <1>11, <2>1, HeldRead, Zenon DEF ReadHold, OnHold, Reading
<1>12. CASE ReadConnected
  BY <1>12, <1>u, HeldRead, Zenon DEF ReadConnected, Reading
<1>13. CASE ReadReconnecting
  BY <1>13, <1>u, HeldRead, Zenon DEF ReadReconnecting, Reading
<1>14. CASE ReadOther
  BY <1>14, <1>u, HeldRead, Zenon DEF ReadOther, Reading
<1>15. CASE FdClose
  BY <1>15, <1>m, <1>n, Zenon DEF FdClose
<1>16. CASE ProcessExit
  BY <1>16, <1>e, <1>u, HeldKept, Zenon DEF ProcessExit
<1>17. CASE ConnectScriptDone
  <2>1. frames \in Seq(Frames) /\ frames # <<>> /\ Head(frames) = "up_script"
    BY <1>17 DEF DataOK, ConnectScriptDone, Innermost
  <2>2. Has(frames, "up_script")
    BY <2>1, HasTail, Zenon
  <2>3. state # "onhold"
    BY <2>2, Zenon DEF ModeInv
  <2> QED BY <1>17, <2>3, <1>u, HeldKept, Zenon DEF ConnectScriptDone
<1>18. CASE DisconnectScriptDone
  BY <1>18, <1>u, HeldKept, Zenon DEF DisconnectScriptDone, SignalExit
<1>19. CASE PopupDone
  BY <1>19, <1>u, HeldKept, Zenon DEF PopupDone, CloseStatusWindow, DestroyWindow, KeepWindow
<1>20. CASE OpenFailedDone
  BY <1>20, <1>u, HeldKept, Zenon DEF OpenFailedDone
<1>21. CASE ThreadExit
  BY <1>21, Zenon DEF ThreadExit, HeldInv
<1> QED
  BY <1>1, <1>2, <1>3, <1>4, <1>5, <1>6, <1>7, <1>8, <1>9, <1>10, <1>11, <1>12, <1>13,
     <1>14, <1>15, <1>16, <1>17, <1>18, <1>19, <1>20, <1>21
     DEF StatusThread, HandleMessage, ReadLine

\* A hold that the daemon tells of comes after all it has said.
LEMMA HoldTold ==
    ASSUME DataOK, NEW w \in Lines, w # "connected_ok", lines' = lines \o <<w, "hold">>
    PROVE  Followed(lines', "connected_ok", "hold") /\ Has(lines', "hold")
<1>1. lines \in Seq(Lines) /\ <<w, "hold">> \in Seq(Lines)
  BY DEF DataOK, Lines
<1>2. Has(<<w, "hold">>, "hold") /\ ~Has(<<w, "hold">>, "connected_ok")
  BY HasWords, Zenon
<1>3. Followed(<<w, "hold">>, "connected_ok", "hold")
  BY <1>2, FollowedNone
<1> QED BY <1>1, <1>2, <1>3, HasConcat, FollowedConcat, Zenon

LEMMA DaemonHeld == DataOK /\ MiInv /\ HeldInv /\ Daemon => HeldInv'
<1> SUFFICES ASSUME DataOK, MiInv, HeldInv, Daemon PROVE HeldInv'
  OBVIOUS
<1>q. out \in Seq(Commands) /\ lines \in Seq(Lines)
  BY DEF DataOK
<1>u. UNCHANGED state /\ UNCHANGED hwnd
  BY DaemonApart, Zenon
<1>n. mi' # "ready" \/ daemon' # "hold" => HeldInv'
  BY Zenon DEF HeldInv
<1>w. {"info", "reconnecting", "other"} \subseteq Lines
  BY DEF Lines
<1>1. CASE DaemonListens
  BY <1>1, <1>n, Zenon DEF DaemonListens
<1>2. CASE DaemonAuth
  <2>1. CASE mi' = "ready" /\ daemon = "hold"
    <3>1. lines' = lines \o (<<"info">> \o <<"hold">>)
      BY <1>2, <2>1, Zenon DEF DaemonAuth, Commanded, Emit, Held
    <3>2. lines' = lines \o <<"info", "hold">>
      BY <3>1
    <3> QED BY <3>2, <1>w, HoldTold, Zenon DEF HeldInv
  <2>2. CASE mi' # "ready" \/ daemon # "hold"
    BY <1>2, <2>2, <1>n, Zenon DEF DaemonAuth
  <2> QED BY <2>1, <2>2
<1>3. CASE DaemonRelease
  <2>1. daemon' # "hold"
    BY <1>3, Zenon DEF DaemonRelease
  <2> QED BY <2>1, <1>n
<1>4. CASE DaemonHup
  <2>1. CASE holdFlag'
    <3>1. lines' = lines \o <<"reconnecting", "hold">>
      BY <1>4, <2>1, Zenon DEF DaemonHup, Emit
    <3> QED BY <3>1, <1>w, HoldTold, Zenon DEF HeldInv
  <2>2. CASE ~holdFlag'
    BY <1>4, <2>2, <1>n, Zenon DEF DaemonHup
  <2> QED BY <2>1, <2>2
<1>5. CASE DaemonReplies
  <2>1. CASE daemon = "hold"
    <3>1. lines' = lines \o <<"other">> /\ mi = "ready" /\ (UNCHANGED mi /\ UNCHANGED daemon)
      BY <1>5, <2>1, Zenon DEF DaemonReplies, Emit, StateReply, Commanded
    <3>2. <<"other">> \in Seq(Lines) /\ ~Has(<<"other">>, "connected_ok")
      <4>1. ~Has(<<"other">>, "connected_ok")
        BY HasWords, Zenon
      <4> QED BY <4>1, <1>w
    <3>3. Followed(lines, "connected_ok", "hold") => Followed(lines', "connected_ok", "hold")
      BY <3>1, <3>2, <1>q, FollowedNone, FollowedConcat, Zenon
    <3>4. Has(lines, "hold") => Has(lines', "hold")
      BY <3>1, <3>2, <1>q, HasConcat, Zenon
    <3>5. out # <<>> /\ out' = Tail(out) /\ Head(out) \in {"state", "password"}
      BY <1>5, Zenon DEF DaemonReplies, Commanded
    <3>6. \A c \in {"release", "sighup", "hold_sighup"} : Has(out, c) => Has(out', c)
      BY <3>5, <1>q, HasTail, Zenon
    <3> QED BY <3>1, <3>3, <3>4, <3>6, <1>u, Zenon DEF HeldInv, Hup
  <2>2. CASE daemon # "hold"
    BY <1>5, <2>2, <1>n, Zenon DEF DaemonReplies
  <2> QED BY <2>1, <2>2
<1>6. CASE DaemonConnects
  BY <1>6, <1>n, Zenon DEF DaemonConnects
<1>7. CASE DaemonReconnects
  <2>1. CASE holdFlag /\ mi = "ready"
    <3>1. lines' = lines \o <<"reconnecting", "hold">>
      BY <1>7, <2>1, Zenon DEF DaemonReconnects
    <3> QED BY <3>1, <1>w, HoldTold, Zenon DEF HeldInv
  <2>2. CASE ~(holdFlag /\ mi = "ready")
    BY <1>7, <2>2, <1>n, Zenon DEF DaemonReconnects
  <2> QED BY <2>1, <2>2
<1>8. CASE DaemonExits
  BY <1>8, <1>n, Zenon DEF DaemonExits
<1>9. CASE ServiceRestarts
  BY <1>9, <1>n, Zenon DEF ServiceRestarts, MiInv
<1>10. CASE DaemonDropsClient
  BY <1>10, <1>n, Zenon DEF DaemonDropsClient
<1> QED BY <1>1, <1>2, <1>3, <1>4, <1>5, <1>6, <1>7, <1>8, <1>9, <1>10 DEF Daemon

-----------------------------------------------------------------------------
(* What is shown as connected is connected *)

\* Without a script to wait for, "connected" is shown from a line that the daemon wrote
\* on this connection, and a daemon that left it has said so since.
ConnectedInv ==
    (~Scripts \/ Persistent) /\ hwnd = "open" =>
        /\ sk = "connecting" \/ mi = "auth" => state # "connected"
        /\ mi = "ready" /\ daemon # "connected_ok" =>
              /\ Followed(lines, "connected_ok", "reconnecting")
              /\ state = "connected" => Has(lines, "reconnecting")

LEMMA ConnectedKept ==
    ASSUME ConnectedInv, UNCHANGED <<sk, mi, daemon, lines>>, hwnd' = "open" => hwnd = "open",
           state' = "connected" => state = "connected"
    PROVE  ConnectedInv'
BY Zenon DEF ConnectedInv

LEMMA ConnectedRead ==
    ASSUME ConnectedInv, SockInv, DataOK, UNCHANGED <<sk, mi, daemon, hwnd>>, sk = "open",
           lines # <<>>, lines' = Tail(lines),
           Head(lines) = "reconnecting" => state' # "connected",
           state' = "connected" => state = "connected" \/ Head(lines) = "connected_ok"
    PROVE  ConnectedInv'
<1> SUFFICES ASSUME ~Scripts \/ Persistent, hwnd = "open"
             PROVE  /\ mi = "auth" => state' # "connected"
                    /\ mi = "ready" /\ daemon # "connected_ok" =>
                          /\ Followed(lines', "connected_ok", "reconnecting")
                          /\ state' = "connected" => Has(lines', "reconnecting")
  BY Zenon DEF ConnectedInv
<1>1. lines \in Seq(Lines)
  BY DEF DataOK
<1>2. mi = "auth" => Head(lines) = "prompt"
  <2>1. 1 \in 1 .. Len(lines) /\ Head(lines) = lines[1]
    BY <1>1
  <2> QED BY <2>1, Zenon DEF SockInv
<1>3. mi = "auth" => state' # "connected"
  BY <1>2, Zenon DEF ConnectedInv
<1>4. ASSUME mi = "ready", daemon # "connected_ok"
      PROVE  /\ Followed(lines', "connected_ok", "reconnecting")
             /\ state' = "connected" => Has(lines', "reconnecting")
  <2>1. Followed(lines, "connected_ok", "reconnecting")
    BY <1>4, Zenon DEF ConnectedInv
  <2>2. /\ Followed(lines', "connected_ok", "reconnecting")
        /\ Head(lines) = "connected_ok" => Has(lines', "reconnecting")
    BY <1>1, <2>1, FollowedTail, Zenon
  <2>3. Has(lines, "reconnecting") => Head(lines) = "reconnecting" \/ Has(lines', "reconnecting")
    BY <1>1, HasTail, Zenon
  <2> QED BY <1>4, <2>2, <2>3, Zenon DEF ConnectedInv
<1> QED BY <1>3, <1>4

LEMMA StartConnected ==
    ASSUME NEW st, ConnectedInv, StartBody(st), st = state \/ st = "detached" PROVE ConnectedInv'
<1>1. CASE Post("RELEASE")
  BY <1>1, ConnectedKept, Zenon DEF Post
<1>2. CASE StartIgnored(st)
  BY <1>2, ConnectedKept, Zenon DEF StartIgnored
<1>3. CASE Launch(st)
  BY <1>3, Zenon DEF Launch, ConnectedInv
<1>4. CASE LaunchFails(st)
  BY <1>4, Zenon DEF LaunchFails, ConnectedInv
<1> QED BY <1>1, <1>2, <1>3, <1>4 DEF StartBody

LEMMA MainConnected == ConnectedInv /\ Main => ConnectedInv'
<1> SUFFICES ASSUME ConnectedInv, Main PROVE ConnectedInv'
  OBVIOUS
<1>1. CASE StartOpenVPN
  BY <1>1, StartConnected DEF StartOpenVPN
<1>2. CASE StopOpenVPN
  BY <1>2, ConnectedKept, Zenon DEF StopOpenVPN, Post
<1>3. CASE RestartOpenVPN
  <2>1. CASE Post("RELEASE") \/ Post("RESTART")
    BY <2>1, ConnectedKept, Zenon DEF Post
  <2>2. CASE StartBody(state)
    BY <2>2, StartConnected
  <2> QED BY <1>3, <2>1, <2>2 DEF RestartOpenVPN
<1>4. CASE DetachOpenVPN
  BY <1>4, ConnectedKept, Zenon DEF DetachOpenVPN, Post
<1>5. CASE ManagePersistent
  BY <1>5, StartConnected, Zenon DEF ManagePersistent
<1>6. CASE HandleSessionLock
  BY <1>6, ConnectedKept, Zenon DEF HandleSessionLock
<1>7. CASE HandleSessionUnlock
  BY <1>7, ConnectedKept, Zenon DEF HandleSessionUnlock
<1> QED BY <1>1, <1>2, <1>3, <1>4, <1>5, <1>6, <1>7 DEF Main

LEMMA StatusThreadConnected ==
    DataOK /\ SockInv /\ ModeInv /\ ConnectedInv /\ StatusThread => ConnectedInv'
<1> SUFFICES ASSUME DataOK, SockInv, ModeInv, ConnectedInv, StatusThread PROVE ConnectedInv'
  OBVIOUS
<1>e. ASSUME NEW st, NEW rest, NEW armed, OnStop(st, rest, armed), st = state
      PROVE  (hwnd' = "open" => hwnd = "open") /\ (state' = "connected" => state = "connected")
  BY <1>e, Zenon DEF OnStop, OnStopReported, OnStopQuiet, OnStopIgnored, KeepWindow, DestroyWindow
\* The connection is over.
<1>n. sk' # "connecting" /\ mi' \notin {"auth", "ready"} => ConnectedInv'
  BY Zenon DEF ConnectedInv
<1>m. CloseManagement => sk' # "connecting" /\ mi' \notin {"auth", "ready"}
  BY Zenon DEF CloseManagement, SockInv
<1>1. CASE ThreadInit
  <2>1. UNCHANGED mi /\ mi \notin {"auth", "ready"}
    BY <1>1, Zenon DEF ThreadInit, SockInv
  <2>2. state' # "connected"
    BY <1>1, Zenon DEF ThreadInit, SockInv
  <2> QED BY <2>1, <2>2, Zenon DEF ConnectedInv
<1>2. CASE HandleStop
  BY <1>2, ConnectedKept, Zenon
     DEF HandleStop, HoldDaemon, OnStopQuiet, DestroyWindow, KeepWindow, SignalExit
<1>3. CASE HandleRelease
  BY <1>3, ConnectedKept, Zenon DEF HandleRelease, OnHold, KeepWindow
<1>4. CASE HandleRestart
  BY <1>4, ConnectedKept, Zenon DEF HandleRestart, KeepWindow
<1>5. CASE HandleDetach
  BY <1>5, Zenon DEF HandleDetach, OnStopQuiet, DestroyWindow, ConnectedInv
<1>6. CASE StopTimeout
  <2>1. CASE mi' = "off"
    BY <1>6, <2>1, <1>e, Zenon DEF StopTimeout, ConnectedInv
  <2>2. CASE UNCHANGED <<lines, daemon, mi>>
    BY <1>6, <2>2, <1>e, ConnectedKept, Zenon DEF StopTimeout
  <2> QED BY <1>6, <2>1, <2>2, Zenon DEF StopTimeout
<1>7. CASE FdConnect
  <2>1. CASE CloseManagement
    BY <2>1, <1>m, <1>n, Zenon
  <2>2. CASE ~CloseManagement
    BY <1>7, <2>2, Zenon DEF FdConnect, Pumping, ConnectedInv
  <2> QED BY <2>1, <2>2
<1>8. CASE ConnectTimeout
  <2>1. (UNCHANGED mi /\ UNCHANGED hwnd) /\ mi = "off" /\ state' # "connected"
    BY <1>8, Zenon DEF ConnectTimeout
  <2> QED BY <2>1, Zenon DEF ConnectedInv
<1>9. CASE ReadPrompt
  <2>1. CASE CloseManagement
    BY <2>1, <1>m, <1>n, Zenon
  <2>2. CASE ~CloseManagement
    BY <1>9, <2>2, ConnectedRead, Zenon DEF ReadPrompt, Reading
  <2> QED BY <2>1, <2>2
<1>10. CASE ReadInfo
  BY <1>10, ConnectedRead, Zenon DEF ReadInfo, Reading
<1>11. CASE ReadHold
  BY <1>11, ConnectedRead, Zenon DEF ReadHold, OnHold, Reading
<1>12. CASE ReadConnected
  BY <1>12, ConnectedRead, Zenon DEF ReadConnected, Reading
<1>13. CASE ReadReconnecting
  BY <1>13, ConnectedRead, Zenon DEF ReadReconnecting, Reading
<1>14. CASE ReadOther
  BY <1>14, ConnectedRead, Zenon DEF ReadOther, Reading
<1>15. CASE FdClose
  BY <1>15, <1>m, <1>n, Zenon DEF FdClose
<1>16. CASE ProcessExit
  BY <1>16, <1>e, ConnectedKept, Zenon DEF ProcessExit
<1>17. CASE ConnectScriptDone
  <2>1. frames \in Seq(Frames) /\ frames # <<>> /\ Head(frames) = "up_script"
    BY <1>17 DEF DataOK, ConnectScriptDone, Innermost
  <2>2. Has(frames, "up_script")
    BY <2>1, HasTail, Zenon
  <2> QED BY <2>2, Zenon DEF ModeInv, ConnectedInv
<1>18. CASE DisconnectScriptDone
  BY <1>18, ConnectedKept, Zenon DEF DisconnectScriptDone, SignalExit
<1>19. CASE PopupDone
  BY <1>19, ConnectedKept, Zenon DEF PopupDone, CloseStatusWindow, DestroyWindow, KeepWindow
<1>20. CASE OpenFailedDone
  BY <1>20, ConnectedKept, Zenon DEF OpenFailedDone
<1>21. CASE ThreadExit
  BY <1>21, Zenon DEF ThreadExit, ConnectedInv
<1> QED
  BY <1>1, <1>2, <1>3, <1>4, <1>5, <1>6, <1>7, <1>8, <1>9, <1>10, <1>11, <1>12, <1>13,
     <1>14, <1>15, <1>16, <1>17, <1>18, <1>19, <1>20, <1>21
     DEF StatusThread, HandleMessage, ReadLine

LEMMA DaemonConnected == DataOK /\ MiInv /\ SockInv /\ ConnectedInv /\ Daemon => ConnectedInv'
<1> SUFFICES ASSUME DataOK, MiInv, SockInv, ConnectedInv, Daemon PROVE ConnectedInv'
  OBVIOUS
<1>q. lines \in Seq(Lines)
  BY DEF DataOK
<1>u. UNCHANGED state /\ UNCHANGED hwnd /\ UNCHANGED sk
  BY DaemonApart, Zenon
<1>n. mi' \notin {"auth", "ready"} => ConnectedInv'
  BY <1>u, Zenon DEF ConnectedInv
<1>w. {"info", "reconnecting", "other", "connected_err", "hold"} \subseteq Lines
  BY DEF Lines
\* What the daemon adds to what it said as a daemon that was not connected.
<1>a. ASSUME mi = "ready", mi' = "ready", NEW l \in Lines, l # "connected_ok",
             lines' = lines \o <<l>>, daemon' # "connected_ok" => daemon # "connected_ok"
      PROVE  ConnectedInv'
  <2>1. <<l>> \in Seq(Lines)
    OBVIOUS
  <2>2. ~Has(<<l>>, "connected_ok")
    BY <1>a, HasWords, Zenon
  <2>3. Followed(lines, "connected_ok", "reconnecting") => Followed(lines', "connected_ok", "reconnecting")
    BY <1>a, <1>q, <2>1, <2>2, FollowedNone, FollowedConcat, Zenon
  <2>4. Has(lines, "reconnecting") => Has(lines', "reconnecting")
    BY <1>a, <1>q, <2>1, HasConcat, Zenon
  <2> QED BY <1>a, <1>u, <2>3, <2>4, Zenon DEF ConnectedInv
\* It says that it reconnects.
<1>r. ASSUME mi = "ready", mi' = "ready", NEW t \in Seq(Lines), lines' = lines \o t,
             Has(t, "reconnecting"), ~Has(t, "connected_ok")
      PROVE  ConnectedInv'
  <2>1. Followed(lines', "connected_ok", "reconnecting") /\ Has(lines', "reconnecting")
    BY <1>r, <1>q, FollowedNone, FollowedConcat, HasConcat, Zenon
  <2> QED BY <1>r, <1>u, <2>1, Zenon DEF ConnectedInv
<1>t. /\ <<"reconnecting", "hold">> \in Seq(Lines) /\ <<"reconnecting">> \in Seq(Lines)
  BY <1>w
<1>h. \A t \in {<<"reconnecting", "hold">>, <<"reconnecting">>} :
          Has(t, "reconnecting") /\ ~Has(t, "connected_ok")
  <2>1. Has(<<"reconnecting", "hold">>, "reconnecting") /\ ~Has(<<"reconnecting", "hold">>, "connected_ok")
    BY HasWords, Zenon
  <2>2. Has(<<"reconnecting">>, "reconnecting") /\ ~Has(<<"reconnecting">>, "connected_ok")
    BY HasWords, Zenon
  <2> QED BY <2>1, <2>2, Zenon
<1>1. CASE DaemonListens
  BY <1>1, <1>n, Zenon DEF DaemonListens
<1>2. CASE DaemonAuth
  <2>1. mi = "auth" /\ (UNCHANGED daemon)
    BY <1>2, Zenon DEF DaemonAuth, Commanded
  <2>2. CASE mi' = "auth"
    BY <1>u, <2>1, <2>2, Zenon DEF ConnectedInv
  <2>3. CASE mi' = "ready"
    <3>1. ~Has(lines, "connected_ok")
      BY <2>1, Zenon DEF SockInv, Has
    <3>2. /\ lines' = lines \o (<<"info">> \o Held)
          /\ Held = <<"hold">> \/ Held = <<>>
      BY <1>2, <2>1, <2>3, Zenon DEF DaemonAuth, Commanded, Emit, Held
    <3>3. <<"info">> \in Seq(Lines) /\ <<"hold">> \in Seq(Lines) /\ <<>> \in Seq(Lines)
      BY <1>w
    <3>4. Held \in Seq(Lines) /\ <<"info">> \o Held \in Seq(Lines)
      <4>1. Held \in Seq(Lines)
        BY <3>2, <3>3, Zenon
      <4> QED BY <3>3, <4>1
    <3>5. ~Has(<<"info">>, "connected_ok") /\ ~Has(Held, "connected_ok")
      <4>1. ~Has(<<"hold">>, "connected_ok") /\ ~Has(<<>>, "connected_ok")
        BY HasWords, Zenon
      <4>2. ~Has(<<"info">>, "connected_ok")
        BY HasWords, Zenon
      <4> QED BY <3>2, <4>1, <4>2, Zenon
    <3>6. ~Has(lines', "connected_ok")
      <4>1. ~Has(<<"info">> \o Held, "connected_ok")
        BY <3>3, <3>4, <3>5, HasConcat, Zenon
      <4>2. ~Has(lines \o (<<"info">> \o Held), "connected_ok")
        BY <1>q, <3>1, <3>4, <4>1, HasConcat, Zenon
      <4> QED BY <3>2, <4>2, Zenon
    <3>7. Followed(lines', "connected_ok", "reconnecting")
      BY <3>6, FollowedNone, Zenon
    <3> QED BY <1>u, <2>1, <2>3, <3>7, Zenon DEF ConnectedInv
  <2> QED BY <1>2, <2>1, <2>2, <2>3, Zenon DEF DaemonAuth
<1>3. CASE DaemonRelease
  <2>1. (UNCHANGED mi /\ UNCHANGED lines) /\ (daemon' # "connected_ok" => daemon # "connected_ok")
    BY <1>3, Zenon DEF DaemonRelease
  <2> QED BY <1>u, <2>1, Zenon DEF ConnectedInv
<1>4. CASE DaemonHup
  <2>1. mi = "ready" /\ UNCHANGED mi
    BY <1>4, Zenon DEF DaemonHup, Commanded
  <2>2. \/ lines' = lines \o <<"reconnecting", "hold">>
        \/ lines' = lines \o <<"reconnecting">>
    BY <1>4, Zenon DEF DaemonHup, Emit
  <2> QED BY <2>1, <2>2, <1>r, <1>t, <1>h, Zenon
<1>5. CASE DaemonReplies
  <2>1. mi = "ready" /\ (UNCHANGED mi /\ UNCHANGED daemon)
    BY <1>5, Zenon DEF DaemonReplies, Commanded
  <2>2. CASE daemon = "connected_ok"
    BY <2>1, <2>2, <1>u, Zenon DEF ConnectedInv
  <2>3. CASE daemon # "connected_ok"
    <3>1. lines' = lines \o <<"other">> \/ lines' = lines \o <<"connected_err">>
      BY <1>5, <2>3, Zenon DEF DaemonReplies, Emit, StateReply
    <3> QED BY <2>1, <3>1, <1>a, <1>w, Zenon
  <2> QED BY <2>2, <2>3
<1>6. CASE DaemonConnects
  <2>1. UNCHANGED mi /\ daemon = "connecting" /\ daemon' \in {"connected_ok", "connected_err"}
    BY <1>6, Zenon DEF DaemonConnects
  <2>2. CASE mi = "ready" /\ daemon' = "connected_err"
    <3>1. lines' = lines \o <<"connected_err">>
      BY <1>6, <2>2, Zenon DEF DaemonConnects, Tell, Emit
    <3> QED BY <2>1, <2>2, <3>1, <1>a, <1>w, Zenon
  <2>3. CASE mi # "ready" \/ daemon' = "connected_ok"
    BY <2>1, <2>3, <1>u, Zenon DEF ConnectedInv
  <2> QED BY <2>1, <2>2, <2>3, Zenon
<1>7. CASE DaemonReconnects
  <2>1. UNCHANGED mi
    BY <1>7, Zenon DEF DaemonReconnects
  <2>2. CASE mi = "ready"
    <3>1. \/ lines' = lines \o <<"reconnecting", "hold">>
          \/ lines' = lines \o <<"reconnecting">>
      BY <1>7, <2>2, Zenon DEF DaemonReconnects, Tell, Emit
    <3> QED BY <2>1, <2>2, <3>1, <1>r, <1>t, <1>h, Zenon
  <2>3. CASE mi # "ready"
    BY <2>1, <2>3, <1>u, Zenon DEF ConnectedInv
  <2> QED BY <2>2, <2>3
<1>8. CASE DaemonExits
  BY <1>8, <1>n, Zenon DEF DaemonExits
<1>9. CASE ServiceRestarts
  BY <1>9, <1>n, Zenon DEF ServiceRestarts, MiInv
<1>10. CASE DaemonDropsClient
  BY <1>10, <1>n, Zenon DEF DaemonDropsClient
<1> QED BY <1>1, <1>2, <1>3, <1>4, <1>5, <1>6, <1>7, <1>8, <1>9, <1>10 DEF Daemon

-----------------------------------------------------------------------------
(* A live connection can be stopped *)

\* Commands that leave a daemon in its hold.
Calm == {"state", "password"}
AllCalm(s) == \A i \in 1 .. Len(s) : s[i] \in Calm
CalmAfterPassword(s) == \A i, j \in 1 .. Len(s) : i < j /\ s[i] = "password" => s[j] \in Calm

LEMMA CalmTail ==
    ASSUME NEW S, NEW s \in Seq(S), s # <<>>
    PROVE  /\ AllCalm(s) => AllCalm(Tail(s)) /\ Head(s) \in Calm
           /\ CalmAfterPassword(s) => CalmAfterPassword(Tail(s))
           /\ CalmAfterPassword(s) /\ Head(s) = "password" => AllCalm(Tail(s))
<1>1. /\ Len(s) \in Nat \ {0} /\ Len(Tail(s)) = Len(s) - 1 /\ Head(s) = s[1]
      /\ \A i \in 1 .. Len(s) - 1 : Tail(s)[i] = s[i + 1]
  OBVIOUS
<1>2. ASSUME AllCalm(s) PROVE AllCalm(Tail(s)) /\ Head(s) \in Calm
  BY <1>1, <1>2 DEF AllCalm
<1>3. ASSUME CalmAfterPassword(s) PROVE CalmAfterPassword(Tail(s))
  <2> SUFFICES ASSUME NEW i \in 1 .. Len(s) - 1, NEW j \in 1 .. Len(s) - 1, i < j,
                      Tail(s)[i] = "password"
               PROVE  Tail(s)[j] \in Calm
    BY <1>1 DEF CalmAfterPassword
  <2>1. i + 1 \in 1 .. Len(s) /\ j + 1 \in 1 .. Len(s) /\ i + 1 < j + 1
    BY <1>1
  <2>2. s[i + 1] = "password" => s[j + 1] \in Calm
    BY <1>3, <2>1 DEF CalmAfterPassword
  <2> QED BY <1>1, <2>2
<1>4. ASSUME CalmAfterPassword(s), Head(s) = "password" PROVE AllCalm(Tail(s))
  <2> SUFFICES ASSUME NEW j \in 1 .. Len(s) - 1 PROVE Tail(s)[j] \in Calm
    BY <1>1 DEF AllCalm
  <2>1. 1 \in 1 .. Len(s) /\ j + 1 \in 1 .. Len(s) /\ 1 < j + 1
    BY <1>1
  <2>2. s[j + 1] \in Calm
    BY <1>1, <1>4, <2>1 DEF CalmAfterPassword
  <2> QED BY <1>1, <2>2
<1> QED BY <1>2, <1>3, <1>4

LEMMA CalmAppend ==
    ASSUME NEW S, NEW s \in Seq(S), NEW y \in Calm
    PROVE  /\ AllCalm(s) => AllCalm(Append(s, y))
           /\ CalmAfterPassword(s) => CalmAfterPassword(Append(s, y))
<1>1. /\ Len(s) \in Nat /\ Len(Append(s, y)) = Len(s) + 1 /\ Append(s, y)[Len(s) + 1] = y
      /\ \A i \in 1 .. Len(s) : Append(s, y)[i] = s[i]
  OBVIOUS
<1>2. ASSUME AllCalm(s) PROVE AllCalm(Append(s, y))
  BY <1>1, <1>2 DEF AllCalm
<1>3. ASSUME CalmAfterPassword(s) PROVE CalmAfterPassword(Append(s, y))
  <2> SUFFICES ASSUME NEW i \in 1 .. Len(s) + 1, NEW j \in 1 .. Len(s) + 1, i < j,
                      Append(s, y)[i] = "password"
               PROVE  Append(s, y)[j] \in Calm
    BY <1>1 DEF CalmAfterPassword
  <2>1. CASE j = Len(s) + 1
    BY <1>1, <2>1
  <2>2. CASE j # Len(s) + 1
    <3>1. i \in 1 .. Len(s) /\ j \in 1 .. Len(s)
      BY <1>1, <2>2
    <3> QED BY <1>1, <1>3, <3>1 DEF CalmAfterPassword
  <2> QED BY <2>1, <2>2
<1> QED BY <1>2, <1>3

LEMMA CalmWithout ==
    ASSUME NEW s
    PROVE  /\ ~Has(s, "password") => CalmAfterPassword(s)
           /\ AllCalm(s) => ~Has(s, "release")
<1>1. "release" \notin Calm
  BY DEF Calm
<1> QED BY <1>1, Zenon DEF Has, CalmAfterPassword, AllCalm

\* The end of a connection that keeps its window closes the socket first.
FinishedInv == Idle => sk = "closed"

\* Disconnect is enabled until the daemon takes commands, and while attaching; it is
\* disabled while disconnecting.
EnabledInv ==
    /\ sk = "connecting" \/ mi = "auth" => disconnectBtn /\ ready # 2
    /\ state = "resuming" => disconnectBtn
    /\ state = "disconnecting" => ~disconnectBtn

\* While attaching, nothing is said that would take the daemon out of a hold.
AttachInv ==
    state = "resuming" =>
        /\ mi = "auth" => CalmAfterPassword(out)
        /\ mi = "ready" => AllCalm(out) /\ (Has(lines, "hold") => daemon = "hold")

\* Where Disconnect is disabled the daemon is held, or will be.
DisabledInv ==
    mi = "ready" /\ ~disconnectBtn =>
        /\ Followed(out, "release", "hold_sighup")
        /\ holdFlag \/ Has(out, "hold_sighup")
        /\ daemon = "hold" \/ Hup

ButtonInv ==
    Persistent =>
        /\ ~stopTimer
        /\ hwnd = "open" => FinishedInv /\ EnabledInv /\ AttachInv /\ DisabledInv

\* The window is left alone, or goes.
LEMMA ButtonKept ==
    ASSUME ButtonInv, UNCHANGED <<sk, mi, daemon, holdFlag, lines, out, ready>>,
           Persistent => ~stopTimer',
           hwnd' # "open" \/ (UNCHANGED <<hwnd, disconnectBtn>> /\ (UNCHANGED state \/ (Idle /\ Idle')))
    PROVE  ButtonInv'
<1> SUFFICES ASSUME Persistent, hwnd' = "open"
             PROVE  (FinishedInv /\ EnabledInv /\ AttachInv /\ DisabledInv)'
  BY Zenon DEF ButtonInv
<1>1. FinishedInv /\ EnabledInv /\ AttachInv /\ DisabledInv
  BY Zenon DEF ButtonInv
<1>b. (disconnectBtn <=> disconnectBtn') /\ (holdFlag <=> holdFlag')
  OBVIOUS
<1>2. EnabledInv'
  BY <1>1, <1>b, Zenon DEF EnabledInv, Idle
<1>3. AttachInv'
  BY <1>1, Zenon DEF AttachInv, Idle, CalmAfterPassword, AllCalm, Has
<1>4. FinishedInv'
  BY <1>1, Zenon DEF FinishedInv, Idle
<1>5. DisabledInv'
  BY <1>1, <1>b, Zenon DEF DisabledInv, Followed, Has, Hup
<1> QED BY <1>2, <1>3, <1>4, <1>5

LEMMA ButtonGone ==
    ASSUME ButtonInv, hwnd' # "open", Persistent => ~stopTimer' PROVE ButtonInv'
BY Zenon DEF ButtonInv

LEMMA StartButton ==
    ASSUME NEW st, ButtonInv, StartBody(st), st = state \/ (Idle /\ st = "detached")
    PROVE  ButtonInv'
<1>t. UNCHANGED stopTimer => (Persistent => ~stopTimer')
  BY Zenon DEF ButtonInv
<1>1. CASE Post("RELEASE")
  BY <1>1, <1>t, ButtonKept, Zenon DEF Post
<1>2. CASE StartIgnored(st)
  BY <1>2, <1>t, ButtonKept, Zenon DEF StartIgnored, Idle
<1>3. CASE Launch(st)
  BY <1>3, <1>t, ButtonGone, Zenon DEF Launch
<1>4. CASE LaunchFails(st)
  BY <1>4, <1>t, ButtonGone, Zenon DEF LaunchFails
<1> QED BY <1>1, <1>2, <1>3, <1>4 DEF StartBody

LEMMA MainButton == ButtonInv /\ Main => ButtonInv'
<1> SUFFICES ASSUME ButtonInv, Main PROVE ButtonInv'
  OBVIOUS
<1>t. UNCHANGED stopTimer => (Persistent => ~stopTimer')
  BY Zenon DEF ButtonInv
<1>1. CASE StartOpenVPN
  BY <1>1, StartButton DEF StartOpenVPN
<1>2. CASE StopOpenVPN
  BY <1>2, <1>t, ButtonKept, Zenon DEF StopOpenVPN, Post
<1>3. CASE RestartOpenVPN
  <2>1. CASE Post("RELEASE") \/ Post("RESTART")
    BY <2>1, <1>t, ButtonKept, Zenon DEF Post
  <2>2. CASE StartBody(state)
    BY <2>2, StartButton
  <2> QED BY <1>3, <2>1, <2>2 DEF RestartOpenVPN
<1>4. CASE DetachOpenVPN
  BY <1>4, <1>t, ButtonKept, Zenon DEF DetachOpenVPN, Post
<1>5. CASE ManagePersistent
  BY <1>5, StartButton, Zenon DEF ManagePersistent, Idle
<1>6. CASE HandleSessionLock
  BY <1>6, <1>t, ButtonKept, Zenon DEF HandleSessionLock
<1>7. CASE HandleSessionUnlock
  BY <1>7, <1>t, ButtonKept, Zenon DEF HandleSessionUnlock
<1> QED BY <1>1, <1>2, <1>3, <1>4, <1>5, <1>6, <1>7 DEF Main

\* A line that changes neither the button nor the daemon is read.
LEMMA ButtonRead ==
    ASSUME ButtonInv, DataOK, UNCHANGED <<sk, mi, daemon, holdFlag, hwnd>>,
           UNCHANGED disconnectBtn, UNCHANGED stopTimer, sk = "open", lines # <<>>,
           lines' = Tail(lines), mi # "auth" \/ UNCHANGED ready,
           UNCHANGED state \/ state' \in {"connected", "reconnecting"},
           UNCHANGED out \/ \E cmd \in Calm : Send(cmd)
    PROVE  ButtonInv'
<1> SUFFICES ASSUME Persistent, hwnd = "open"
             PROVE  (FinishedInv /\ EnabledInv /\ AttachInv /\ DisabledInv)'
  <2>1. Persistent => ~stopTimer'
    BY DEF ButtonInv
  <2> QED BY <2>1, Zenon DEF ButtonInv
<1>1. FinishedInv /\ EnabledInv /\ AttachInv /\ DisabledInv
  BY Zenon DEF ButtonInv
<1>b. (disconnectBtn <=> disconnectBtn') /\ (holdFlag <=> holdFlag')
  OBVIOUS
<1>q. out \in Seq(Commands) /\ lines \in Seq(Lines) /\ Calm \subseteq Commands
  BY DEF DataOK, Calm, Commands
<1>2. FinishedInv' /\ EnabledInv'
  <2>1. state' = "disconnecting" => state = "disconnecting"
    BY Zenon
  <2>2. (state' = "resuming" => state = "resuming") /\ (Idle' => Idle)
    BY Zenon DEF Idle
  <2> QED BY <1>1, <1>b, <2>1, <2>2, Zenon DEF FinishedInv, EnabledInv
<1>3. AttachInv'
  <2>1. Has(lines', "hold") => Has(lines, "hold")
    BY <1>q, HasTail, Zenon
  <2>2. (CalmAfterPassword(out) => CalmAfterPassword(out')) /\ (AllCalm(out) => AllCalm(out'))
    <3>1. CASE UNCHANGED out
      BY <3>1, Zenon DEF CalmAfterPassword, AllCalm
    <3>2. ASSUME NEW cmd \in Calm, Send(cmd)
          PROVE  (CalmAfterPassword(out) => CalmAfterPassword(out')) /\ (AllCalm(out) => AllCalm(out'))
      BY <3>2, <1>q, CalmAppend, Zenon DEF Send
    <3> QED BY <3>1, <3>2
  <2>3. state' = "resuming" => state = "resuming"
    BY Zenon
  <2> QED BY <1>1, <2>1, <2>2, <2>3, Zenon DEF AttachInv
<1>4. DisabledInv'
  <2>1. CASE UNCHANGED out
    BY <1>1, <1>b, <2>1, Zenon DEF DisabledInv, Followed, Has, Hup
  <2>2. ASSUME NEW cmd \in Calm, Send(cmd) PROVE DisabledInv'
    <3>1. cmd \in Commands /\ cmd # "release" /\ cmd # "hold_sighup"
      BY <2>2 DEF Calm, Commands
    <3>2. \A c : Has(out, c) => Has(out', c)
      BY <1>q, <2>2, <3>1, HasAppend, Zenon DEF Send
    <3>3. Followed(out, "release", "hold_sighup") => Followed(out', "release", "hold_sighup")
      BY <1>q, <2>2, <3>1, FollowedAppend, Zenon DEF Send
    <3> QED BY <1>1, <1>b, <3>2, <3>3, Zenon DEF DisabledInv, Hup
  <2> QED BY <2>1, <2>2
<1> QED BY <1>2, <1>3, <1>4, Zenon

LEMMA StatusThreadButton ==
    DataOK /\ ThreadInv /\ SockInv /\ ModeInv /\ ButtonInv /\ StatusThread => ButtonInv'
<1> SUFFICES ASSUME DataOK, ThreadInv, SockInv, ModeInv, ButtonInv, StatusThread PROVE ButtonInv'
  OBVIOUS
<1>q. out \in Seq(Commands) /\ lines \in Seq(Lines) /\ frames \in Seq(Frames)
  BY DEF DataOK
<1>c. {"release", "hold_sighup", "sighup", "state", "password"} \subseteq Commands
  BY DEF Commands
<1>t. UNCHANGED stopTimer => (Persistent => ~stopTimer')
  BY Zenon DEF ButtonInv
<1>p. ~Persistent => ButtonInv'
  BY Zenon DEF ButtonInv
\* The parts of the invariant, where there is something to show.
<1>i. Persistent /\ hwnd = "open" => FinishedInv /\ EnabledInv /\ AttachInv /\ DisabledInv
  BY Zenon DEF ButtonInv
<1>d. DestroyWindow => ButtonInv'
  <2>1. DestroyWindow => hwnd' # "open" /\ ~stopTimer'
    BY Zenon DEF DestroyWindow
  <2> QED BY <2>1, ButtonGone, Zenon
\* A connection that is over.
<1>m. CloseManagement => sk' = "closed" /\ mi' \notin {"auth", "ready"}
  BY Zenon DEF CloseManagement, SockInv
<1>1. CASE ThreadInit
  <2>1. mi' \notin {"auth", "ready"} /\ UNCHANGED stopTimer
    BY <1>1, Zenon DEF ThreadInit, SockInv
  <2>2. CASE hwnd' = "open"
    <3>1. disconnectBtn' = TRUE /\ ready' = 0 /\ state' \in {"connecting", "resuming"}
      BY <1>1, <2>2, Zenon DEF ThreadInit, SockInv, ThreadInv
    <3>2. ready' # 2 /\ ~Idle' /\ state' # "disconnecting"
      BY <3>1 DEF Idle
    <3>3. (FinishedInv /\ EnabledInv /\ AttachInv /\ DisabledInv)'
      BY <2>1, <3>1, <3>2, Zenon DEF FinishedInv, EnabledInv, AttachInv, DisabledInv
    <3> QED BY <2>1, <3>3, <1>t, Zenon DEF ButtonInv
  <2>3. CASE hwnd' # "open"
    BY <2>1, <2>3, <1>t, ButtonGone, Zenon
  <2> QED BY <2>2, <2>3
<1>2. CASE HandleStop
  <2>1. UNCHANGED <<sk, mi, daemon, holdFlag, lines, ready>>
    BY <1>2, Zenon DEF HandleStop
  <2>2. CASE /\ UNCHANGED <<state, hwnd, out>>
             /\ UNCHANGED disconnectBtn /\ UNCHANGED stopTimer
    BY <2>1, <2>2, <1>t, ButtonKept, Zenon
  <2>3. CASE Persistent /\ ready > 1 /\ HoldDaemon(Tail(posted))
    <3>1. /\ Send("hold_sighup") /\ state' = "disconnecting" /\ disconnectBtn' = FALSE
          /\ UNCHANGED hwnd /\ UNCHANGED stopTimer /\ hwnd = "open"
      BY <1>2, <2>3, Zenon DEF HoldDaemon, KeepWindow, HandleStop, Pumping
    <3>2. ready = 2
      BY <2>3 DEF DataOK
    <3>3. Followed(out', "release", "hold_sighup") /\ Has(out', "hold_sighup")
      <4>1. "hold_sighup" \in Commands /\ "hold_sighup" # "release"
        BY DEF Commands
      <4> QED BY <3>1, <4>1, <1>q, FollowedAppend, HasAppend, Zenon DEF Send
    <3>4. FinishedInv' /\ EnabledInv' /\ AttachInv'
      BY <1>i, <2>1, <2>3, <3>1, <3>2, Zenon DEF FinishedInv, EnabledInv, AttachInv, Idle
    <3>5. DisabledInv'
      BY <3>3, Zenon DEF DisabledInv, Hup
    <3> QED BY <3>1, <3>4, <3>5, <1>t, Zenon DEF ButtonInv
  <2>4. CASE Persistent /\ ~(ready > 1) /\ HoldDaemon(Tail(posted))
    BY <2>4, <1>d, Zenon DEF HoldDaemon, OnStopQuiet
  <2> QED BY <1>2, <2>2, <2>3, <2>4, <1>p, Zenon DEF HandleStop, KeepWindow
<1>3. CASE HandleRelease
  <2>1. /\ state' = "reconnecting" /\ disconnectBtn' = TRUE
        /\ UNCHANGED <<sk, mi, daemon, holdFlag, lines, ready, hwnd>> /\ UNCHANGED stopTimer
    BY <1>3, Zenon DEF HandleRelease, OnHold, KeepWindow
  <2>2. hwnd = "open" /\ Persistent => (FinishedInv /\ EnabledInv /\ AttachInv /\ DisabledInv)'
    BY <1>i, <2>1, Zenon DEF FinishedInv, EnabledInv, AttachInv, DisabledInv, Idle
  <2> QED BY <2>1, <2>2, <1>t, Zenon DEF ButtonInv
<1>4. CASE HandleRestart
  <2>1. UNCHANGED <<sk, mi, daemon, holdFlag, lines, ready, hwnd>> /\ UNCHANGED disconnectBtn
          /\ UNCHANGED stopTimer
    BY <1>4, Zenon DEF HandleRestart, KeepWindow
  <2>2. CASE UNCHANGED <<state, out>>
    BY <2>1, <2>2, <1>t, ButtonKept, Zenon
  <2>3. CASE state' = "reconnecting" /\ Send("sighup")
    <3>1. Has(out', "sighup") /\ (Has(out, "hold_sighup") => Has(out', "hold_sighup"))
      BY <2>3, <1>c, <1>q, HasAppend, Zenon DEF Send
    <3>2. Followed(out, "release", "hold_sighup") => Followed(out', "release", "hold_sighup")
      <4>1. "sighup" \in Commands /\ "sighup" # "release"
        BY DEF Commands
      <4> QED BY <2>3, <4>1, <1>q, FollowedAppend, Zenon DEF Send
    <3>3. (disconnectBtn <=> disconnectBtn') /\ (holdFlag <=> holdFlag')
      BY <2>1
    <3>4. hwnd = "open" /\ Persistent => FinishedInv' /\ EnabledInv' /\ AttachInv'
      BY <1>i, <2>1, <2>3, <3>3, Zenon DEF FinishedInv, EnabledInv, AttachInv, Idle
    <3>5. hwnd = "open" /\ Persistent => DisabledInv'
      BY <1>i, <2>1, <3>1, <3>2, <3>3, Zenon DEF DisabledInv, Hup
    <3> QED BY <2>1, <3>4, <3>5, <1>t, Zenon DEF ButtonInv
  <2> QED BY <1>4, <2>2, <2>3, Zenon DEF HandleRestart
<1>5. CASE HandleDetach
  BY <1>5, <1>d, Zenon DEF HandleDetach, OnStopQuiet
<1>6. CASE StopTimeout
  BY <1>6, <1>p, Zenon DEF StopTimeout, ButtonInv
<1>7. CASE FdConnect
  <2>1. /\ UNCHANGED <<state, hwnd, daemon, holdFlag>> /\ UNCHANGED disconnectBtn
        /\ UNCHANGED stopTimer /\ hwnd = "open" /\ sk = "connecting"
    BY <1>7, Zenon DEF FdConnect, Pumping
  <2>2. disconnectBtn <=> disconnectBtn'
    BY <2>1
  <2>3. CASE CloseManagement
    <3>1. Persistent => (FinishedInv /\ EnabledInv /\ AttachInv /\ DisabledInv)'
      BY <1>i, <1>m, <2>1, <2>2, <2>3, Zenon DEF FinishedInv, EnabledInv, AttachInv, DisabledInv, Idle
    <3> QED BY <2>1, <3>1, <1>t, Zenon DEF ButtonInv
  <2>4. CASE ~CloseManagement
    <3>1. ready' = 1 /\ mi' = "auth" /\ sk' = "open" /\ UNCHANGED out
      BY <1>7, <2>4, Zenon DEF FdConnect
    <3>2. ready' # 2
      BY <3>1
    <3>3. CalmAfterPassword(out')
      <4>1. ~Has(out, "password")
        BY <2>1, Zenon DEF SockInv
      <4>2. CalmAfterPassword(out)
        BY <4>1, CalmWithout, Zenon
      <4> QED BY <3>1, <4>2, Zenon DEF CalmAfterPassword
    <3>4. Persistent => FinishedInv' /\ EnabledInv'
      BY <1>i, <2>1, <2>2, <3>1, <3>2, Zenon DEF FinishedInv, EnabledInv, Idle
    <3>5. AttachInv' /\ DisabledInv'
      BY <3>1, <3>3, Zenon DEF AttachInv, DisabledInv
    <3> QED BY <2>1, <3>4, <3>5, <1>t, Zenon DEF ButtonInv
  <2> QED BY <2>3, <2>4
<1>8. CASE ConnectTimeout
  BY <1>8, <1>p, Zenon DEF ConnectTimeout
<1>9. CASE ReadPrompt
  <2>1. CASE CloseManagement /\ OnStopQuiet("disconnecting")
    BY <2>1, <1>d, Zenon DEF OnStopQuiet
  <2>2. CASE ~(CloseManagement /\ OnStopQuiet("disconnecting"))
    <3>1. "password" \in Calm
      BY DEF Calm
    <3> QED BY <1>9, <2>2, <3>1, ButtonRead, Zenon DEF ReadPrompt, Reading
  <2> QED BY <2>1, <2>2
<1>a. ASSUME NEW l, Reading(l), l # "prompt" PROVE mi # "auth"
  <2>1. 1 \in 1 .. Len(lines) /\ Head(lines) = lines[1]
    BY <1>q, <1>a DEF Reading
  <2> QED BY <1>a, <2>1, Zenon DEF SockInv, Reading
<1>10. CASE ReadInfo
  <2>1. "state" \in Calm /\ mi # "auth"
    BY <1>10, <1>a DEF Calm, ReadInfo
  <2> QED BY <1>10, <2>1, ButtonRead, Zenon DEF ReadInfo, Reading
<1>11. CASE ReadHold
  <2>1. /\ UNCHANGED <<sk, mi, daemon, holdFlag, ready, hwnd>> /\ UNCHANGED stopTimer
        /\ sk = "open" /\ hwnd = "open" /\ lines # <<>> /\ Head(lines) = "hold"
        /\ lines' = Tail(lines)
    BY <1>11, Zenon DEF ReadHold, Reading, Pumping
  <2>2. mi # "auth"
    BY <1>11, <1>a, Zenon DEF ReadHold
  <2>3. CASE Persistent /\ state \in {"disconnecting", "resuming"}
    <3>1. state' = "onhold" /\ disconnectBtn' = FALSE /\ UNCHANGED out
      BY <1>11, <2>3, Zenon DEF ReadHold, OnHold
    <3>2. FinishedInv' /\ EnabledInv' /\ AttachInv'
      BY <2>1, <2>2, <3>1, Zenon DEF FinishedInv, EnabledInv, AttachInv, Idle
    <3>3. holdFlag <=> holdFlag'
      BY <2>1
    <3>4. DisabledInv'
      <4>1. CASE state = "disconnecting"
        BY <1>i, <2>1, <2>3, <3>1, <3>3, <4>1, Zenon DEF DisabledInv, EnabledInv, Hup, Followed, Has
      <4>2. CASE state = "resuming" /\ mi = "ready"
        <5>1. Has(lines, "hold")
          BY <2>1, <1>q, HasTail, Zenon
        <5>2. daemon = "hold" /\ AllCalm(out)
          BY <1>i, <2>1, <2>3, <4>2, <5>1, Zenon DEF AttachInv
        <5>3. holdFlag
          BY <5>2, Zenon DEF SockInv
        <5>4. Followed(out, "release", "hold_sighup")
          BY <5>2, CalmWithout, FollowedNone, Zenon
        <5> QED BY <2>1, <3>1, <3>3, <5>2, <5>3, <5>4, Zenon DEF DisabledInv, Followed
      <4>3. CASE mi # "ready"
        BY <2>1, <4>3, Zenon DEF DisabledInv
      <4> QED BY <2>3, <4>1, <4>2, <4>3
    <3> QED BY <2>1, <3>2, <3>4, <1>t, Zenon DEF ButtonInv
  <2>4. CASE Persistent /\ state \notin {"disconnecting", "resuming"}
    <3>1. UNCHANGED state /\ disconnectBtn' = TRUE
      BY <1>11, <2>4, Zenon DEF ReadHold, OnHold
    <3>2. (FinishedInv /\ EnabledInv /\ AttachInv /\ DisabledInv)'
      BY <1>i, <2>1, <2>2, <2>4, <3>1, Zenon DEF FinishedInv, EnabledInv, AttachInv, DisabledInv, Idle
    <3> QED BY <2>1, <3>2, <1>t, Zenon DEF ButtonInv
  <2> QED BY <2>3, <2>4, <1>p
<1>12. CASE ReadConnected
  BY <1>12, <1>p, ButtonRead, Zenon DEF ReadConnected, Reading
<1>13. CASE ReadReconnecting
  BY <1>13, ButtonRead, Zenon DEF ReadReconnecting, Reading
<1>14. CASE ReadOther
  BY <1>14, ButtonRead, Zenon DEF ReadOther, Reading
<1>15. CASE FdClose
  <2>1. CloseManagement /\ OnStop(state, posted, stopTimer) /\ hwnd = "open"
    BY <1>15, Zenon DEF FdClose, Reading, Pumping
  <2>2. CASE DestroyWindow
    BY <2>2, <1>d
  <2>3. CASE ~DestroyWindow
    <3>1. /\ state' = "disconnected" \/ UNCHANGED state
          /\ state' = "disconnected" \/ UNCHANGED disconnectBtn
          /\ stopTimer' = stopTimer
      BY <2>1, <2>3, Zenon DEF OnStop, OnStopReported, OnStopQuiet, OnStopIgnored
    <3>2. UNCHANGED disconnectBtn => (disconnectBtn <=> disconnectBtn')
      OBVIOUS
    <3>3. Persistent => (FinishedInv /\ EnabledInv /\ AttachInv /\ DisabledInv)'
      BY <1>i, <1>m, <2>1, <3>1, <3>2, Zenon
         DEF FinishedInv, EnabledInv, AttachInv, DisabledInv, Idle
    <3> QED BY <3>1, <3>3, <1>t, Zenon DEF ButtonInv
  <2> QED BY <2>2, <2>3
<1>16. CASE ProcessExit
  BY <1>16, <1>p, Zenon DEF ProcessExit
<1>f. ASSUME NEW f, Innermost(f) PROVE Has(frames, f)
  BY <1>f, <1>q, HasTail, Zenon DEF Innermost
<1>17. CASE ConnectScriptDone
  BY <1>17, <1>f, <1>p, Zenon DEF ConnectScriptDone, ModeInv
<1>18. CASE DisconnectScriptDone
  BY <1>18, <1>f, <1>p, Zenon DEF DisconnectScriptDone, ModeInv
<1>19. CASE PopupDone
  <2>1. CASE DestroyWindow
    BY <2>1, <1>d
  <2>2. CASE ~DestroyWindow
    BY <1>19, <2>2, <1>t, ButtonKept, Zenon DEF PopupDone, CloseStatusWindow, KeepWindow
  <2> QED BY <2>1, <2>2
<1>20. CASE OpenFailedDone
  BY <1>20, <1>t, ButtonKept, Zenon DEF OpenFailedDone
<1>21. CASE ThreadExit
  BY <1>21, <1>t, ButtonGone, Zenon DEF ThreadExit
<1> QED
  BY <1>1, <1>2, <1>3, <1>4, <1>5, <1>6, <1>7, <1>8, <1>9, <1>10, <1>11, <1>12, <1>13,
     <1>14, <1>15, <1>16, <1>17, <1>18, <1>19, <1>20, <1>21
     DEF StatusThread, HandleMessage, ReadLine

LEMMA DaemonButton == DataOK /\ MiInv /\ SockInv /\ ButtonInv /\ Daemon => ButtonInv'
<1> SUFFICES ASSUME DataOK, MiInv, SockInv, ButtonInv, Daemon PROVE ButtonInv'
  OBVIOUS
<1>q. out \in Seq(Commands) /\ lines \in Seq(Lines)
  BY DEF DataOK
<1>u. UNCHANGED <<state, hwnd, sk, ready>> /\ UNCHANGED disconnectBtn /\ UNCHANGED stopTimer
  BY DaemonApart, Zenon
<1>b. disconnectBtn <=> disconnectBtn'
  BY <1>u
<1>i. Persistent /\ hwnd = "open" => FinishedInv /\ EnabledInv /\ AttachInv /\ DisabledInv
  BY Zenon DEF ButtonInv
\* What is left to show of a step of the daemon.
<1>s. ASSUME mi' = "auth" => mi = "auth",
             Persistent /\ hwnd = "open" => AttachInv' /\ DisabledInv'
      PROVE  ButtonInv'
  <2>1. Persistent /\ hwnd = "open" => FinishedInv' /\ EnabledInv'
    BY <1>s, <1>i, <1>u, <1>b, Zenon DEF FinishedInv, EnabledInv, Idle
  <2>2. Persistent => ~stopTimer'
    BY <1>u DEF ButtonInv
  <2> QED BY <1>s, <1>u, <2>1, <2>2, Zenon DEF ButtonInv
<1>n. mi' \notin {"auth", "ready"} => ButtonInv'
  <2>1. mi' \notin {"auth", "ready"} => AttachInv' /\ DisabledInv'
    BY Zenon DEF AttachInv, DisabledInv
  <2> QED BY <2>1, <1>s, Zenon
<1>c. out # <<>> => \A c : Has(out, c) => Head(out) = c \/ Has(Tail(out), c)
  BY <1>q, HasTail, Zenon
<1>f. out # <<>> /\ Followed(out, "release", "hold_sighup") =>
          /\ Followed(Tail(out), "release", "hold_sighup")
          /\ Head(out) = "release" => Has(Tail(out), "hold_sighup")
  BY <1>q, FollowedTail, Zenon
<1>o. out # <<>> => /\ AllCalm(out) => AllCalm(Tail(out)) /\ Head(out) \in Calm
                    /\ CalmAfterPassword(out) => CalmAfterPassword(Tail(out))
                    /\ CalmAfterPassword(out) /\ Head(out) = "password" => AllCalm(Tail(out))
  BY <1>q, CalmTail, Zenon
<1>w. {<<"info">>, <<"hold">>, <<>>, <<"prompt">>, <<"other">>, <<"connected_ok">>, <<"connected_err">>,
       <<"reconnecting">>, <<"reconnecting", "hold">>} \subseteq Seq(Lines)
  BY DEF Lines
<1>1. CASE DaemonListens
  BY <1>1, <1>n, Zenon DEF DaemonListens
<1>2. CASE DaemonAuth
  <2>1. /\ mi = "auth" /\ out # <<>> /\ out' = Tail(out)
        /\ UNCHANGED daemon /\ UNCHANGED holdFlag
    BY <1>2, Zenon DEF DaemonAuth, Commanded
  <2>2. CASE mi' = "auth"
    <3>1. Persistent /\ hwnd = "open" => AttachInv'
      BY <1>i, <1>o, <1>u, <2>1, <2>2, Zenon DEF AttachInv
    <3>2. DisabledInv'
      BY <2>2, Zenon DEF DisabledInv
    <3> QED BY <2>1, <3>1, <3>2, <1>s
  <2>3. CASE mi' = "ready" /\ Head(out) = "password"
    <3>1. lines' = lines \o (<<"info">> \o Held) /\ (daemon # "hold" => Held = <<>>)
      BY <1>2, <2>1, <2>3, Zenon DEF DaemonAuth, Emit, Held
    <3>2. Has(lines', "hold") => daemon = "hold"
      <4> SUFFICES ASSUME daemon # "hold" PROVE ~Has(lines', "hold")
        OBVIOUS
      <4>1. ~Has(lines, "hold")
        BY <2>1, Zenon DEF SockInv, Has
      <4>2. ~Has(<<"info">>, "hold") /\ ~Has(<<>>, "hold")
        BY HasWords, Zenon
      <4>3. <<"info">> \o <<>> \in Seq(Lines)
        BY <1>w
      <4>4. ~Has(<<"info">> \o <<>>, "hold")
        BY <1>w, <4>2, HasConcat, Zenon
      <4>5. ~Has(lines \o (<<"info">> \o <<>>), "hold")
        BY <1>q, <4>1, <4>3, <4>4, HasConcat, Zenon
      <4> QED BY <3>1, <4>5, Zenon
    <3>3. Persistent /\ hwnd = "open" => AttachInv'
      BY <1>i, <1>o, <1>u, <2>1, <2>3, <3>2, Zenon DEF AttachInv
    <3>4. Persistent /\ hwnd = "open" => DisabledInv'
      BY <1>i, <1>b, <2>1, Zenon DEF DisabledInv, EnabledInv
    <3> QED BY <2>3, <3>3, <3>4, <1>s
  <2> QED BY <1>2, <2>1, <2>2, <2>3, Zenon DEF DaemonAuth
\* A command is carried out: what it leaves of the others.
<1>3. CASE DaemonRelease
  <2>1. /\ mi = "ready" /\ out # <<>> /\ out' = Tail(out) /\ Head(out) = "release"
        /\ UNCHANGED mi /\ UNCHANGED lines
    BY <1>3, Zenon DEF DaemonRelease, Commanded
  <2>2. "release" \notin Calm
    BY DEF Calm
  <2>3. Persistent /\ hwnd = "open" => AttachInv'
    BY <1>i, <1>o, <1>u, <2>1, <2>2, Zenon DEF AttachInv
  <2>4. Persistent /\ hwnd = "open" => DisabledInv'
    BY <1>i, <1>f, <1>b, <2>1, Zenon DEF DisabledInv, Hup
  <2> QED BY <2>1, <2>3, <2>4, <1>s
<1>4. CASE DaemonHup
  <2>1. /\ mi = "ready" /\ out # <<>> /\ out' = Tail(out)
        /\ Head(out) \in {"sighup", "hold_sighup"} /\ UNCHANGED mi
    BY <1>4, Zenon DEF DaemonHup, Commanded
  <2>2. "sighup" \notin Calm /\ "hold_sighup" \notin Calm
    BY DEF Calm
  <2>3. Persistent /\ hwnd = "open" => AttachInv'
    BY <1>i, <1>o, <1>u, <2>1, <2>2, Zenon DEF AttachInv
  <2>4. /\ holdFlag => holdFlag'
        /\ Head(out) = "hold_sighup" => holdFlag'
        /\ holdFlag' => daemon' = "hold"
    <3>1. holdFlag' = (holdFlag \/ Head(out) = "hold_sighup") /\ (holdFlag' => daemon' = "hold")
      BY <1>4, Zenon DEF DaemonHup
    <3> QED BY <3>1
  <2>5. Persistent /\ hwnd = "open" => DisabledInv'
    BY <1>i, <1>f, <1>c, <1>b, <2>1, <2>4, Zenon DEF DisabledInv, Hup
  <2> QED BY <2>1, <2>3, <2>5, <1>s
<1>5. CASE DaemonReplies
  <2>1. /\ mi = "ready" /\ out # <<>> /\ out' = Tail(out)
        /\ Head(out) \in {"state", "password"}
        /\ UNCHANGED mi /\ UNCHANGED daemon /\ UNCHANGED holdFlag
    BY <1>5, Zenon DEF DaemonReplies, Commanded
  <2>2. \E l \in {"other", "connected_ok", "connected_err"} : lines' = lines \o <<l>>
    BY <1>5, Zenon DEF DaemonReplies, Emit, StateReply
  <2>3. Has(lines', "hold") => Has(lines, "hold")
    <3>1. PICK l \in {"other", "connected_ok", "connected_err"} : lines' = lines \o <<l>>
      BY <2>2
    <3>2. <<l>> \in Seq(Lines)
      BY DEF Lines
    <3>3. ~Has(<<l>>, "hold")
      BY HasWords, Zenon
    <3> QED BY <1>q, <3>1, <3>2, <3>3, HasConcat, Zenon
  <2>4. Persistent /\ hwnd = "open" => AttachInv'
    BY <1>i, <1>o, <1>u, <2>1, <2>3, Zenon DEF AttachInv
  <2>5. holdFlag <=> holdFlag'
    BY <2>1
  <2>6. Persistent /\ hwnd = "open" => DisabledInv'
    BY <1>i, <1>f, <1>c, <1>b, <2>1, <2>5, Zenon DEF DisabledInv, Hup
  <2> QED BY <2>1, <2>4, <2>6, <1>s
\* The daemon was not in a hold: it is only where Disconnect is enabled, or will be again.
<1>e. ASSUME daemon # "hold", UNCHANGED <<mi, out, holdFlag>>,
             daemon' # "hold" => (Has(lines', "hold") => Has(lines, "hold"))
      PROVE  ButtonInv'
  <2>1. holdFlag <=> holdFlag'
    BY <1>e
  <2>2. Persistent /\ hwnd = "open" => DisabledInv'
    BY <1>e, <1>i, <1>b, <2>1, Zenon DEF DisabledInv, Hup, Followed, Has
  <2>3. Persistent /\ hwnd = "open" => AttachInv'
    BY <1>e, <1>i, <1>u, Zenon DEF AttachInv, CalmAfterPassword, AllCalm
  <2> QED BY <1>e, <2>2, <2>3, <1>s, Zenon
<1>6. CASE DaemonConnects
  <2>1. /\ UNCHANGED <<mi, out, holdFlag>> /\ daemon = "connecting"
        /\ daemon' \in {"connected_ok", "connected_err"}
        /\ UNCHANGED lines \/ lines' = lines \o <<daemon'>>
    BY <1>6, Zenon DEF DaemonConnects, Tell, Emit
  <2>2. <<daemon'>> \in Seq(Lines)
    BY <2>1 DEF Lines
  <2>3. ~Has(<<daemon'>>, "hold")
    BY <2>1, HasWords, Zenon
  <2>4. Has(lines', "hold") => Has(lines, "hold")
    <3>1. CASE UNCHANGED lines
      BY <3>1, Zenon DEF Has
    <3>2. CASE lines' = lines \o <<daemon'>>
      BY <1>q, <2>2, <2>3, <3>2, HasConcat, Zenon
    <3> QED BY <2>1, <3>1, <3>2
  <2> QED BY <2>1, <2>4, <1>e, Zenon
<1>7. CASE DaemonReconnects
  <2>1. UNCHANGED <<mi, out, holdFlag>> /\ daemon # "hold"
    BY <1>7, Zenon DEF DaemonReconnects
  <2>2. daemon' # "hold" => UNCHANGED lines \/ lines' = lines \o <<"reconnecting">>
    BY <1>7, Zenon DEF DaemonReconnects, Tell, Emit
  <2>3. <<"reconnecting">> \in Seq(Lines) /\ ~Has(<<"reconnecting">>, "hold")
    <3>1. ~Has(<<"reconnecting">>, "hold")
      BY HasWords, Zenon
    <3> QED BY <1>w, <3>1
  <2>4. daemon' # "hold" => (Has(lines', "hold") => Has(lines, "hold"))
    <3>1. CASE UNCHANGED lines
      BY <3>1, Zenon DEF Has
    <3>2. CASE lines' = lines \o <<"reconnecting">>
      BY <1>q, <2>3, <3>2, HasConcat, Zenon
    <3> QED BY <2>2, <3>1, <3>2
  <2> QED BY <2>1, <2>4, <1>e, Zenon
<1>8. CASE DaemonExits
  BY <1>8, <1>n, Zenon DEF DaemonExits
<1>9. CASE ServiceRestarts
  BY <1>9, <1>n, Zenon DEF ServiceRestarts, MiInv
<1>10. CASE DaemonDropsClient
  BY <1>10, <1>n, Zenon DEF DaemonDropsClient
<1> QED BY <1>1, <1>2, <1>3, <1>4, <1>5, <1>6, <1>7, <1>8, <1>9, <1>10 DEF Daemon

\* A daemon of this GUI: where Disconnect is disabled the stop timer runs, or the
\* connection has ended.
DirectInv ==
    ~Persistent /\ ~KillMayFail /\ hwnd = "open" /\ ~disconnectBtn =>
        stopTimer \/ daemon = "down" \/ sk = "closed"

LEMMA DirectKept ==
    ASSUME DirectInv, hwnd' = "open" => hwnd = "open", UNCHANGED disconnectBtn,
           UNCHANGED stopTimer, UNCHANGED daemon, sk = "closed" => sk' = "closed"
    PROVE  DirectInv'
<1>1. (disconnectBtn <=> disconnectBtn') /\ (stopTimer <=> stopTimer')
  OBVIOUS
<1> QED BY <1>1, Zenon DEF DirectInv

LEMMA StartDirect ==
    ASSUME NEW st, DirectInv, StartBody(st) PROVE DirectInv'
<1>1. CASE Post("RELEASE")
  BY <1>1, DirectKept, Zenon DEF Post
<1>2. CASE StartIgnored(st)
  BY <1>2, DirectKept, Zenon DEF StartIgnored
<1>3. CASE Launch(st)
  BY <1>3, Zenon DEF Launch, DirectInv
<1>4. CASE LaunchFails(st)
  BY <1>4, DirectKept, Zenon DEF LaunchFails
<1> QED BY <1>1, <1>2, <1>3, <1>4 DEF StartBody

LEMMA MainDirect == DirectInv /\ Main => DirectInv'
<1> SUFFICES ASSUME DirectInv, Main PROVE DirectInv'
  OBVIOUS
<1>1. CASE StartOpenVPN
  BY <1>1, StartDirect DEF StartOpenVPN
<1>2. CASE StopOpenVPN
  BY <1>2, DirectKept, Zenon DEF StopOpenVPN, Post
<1>3. CASE RestartOpenVPN
  <2>1. CASE Post("RELEASE") \/ Post("RESTART")
    BY <2>1, DirectKept, Zenon DEF Post
  <2>2. CASE StartBody(state)
    BY <2>2, StartDirect
  <2> QED BY <1>3, <2>1, <2>2 DEF RestartOpenVPN
<1>4. CASE DetachOpenVPN
  BY <1>4, DirectKept, Zenon DEF DetachOpenVPN, Post
<1>5. CASE ManagePersistent
  BY <1>5, StartDirect, Zenon DEF ManagePersistent
<1>6. CASE HandleSessionLock
  BY <1>6, DirectKept, Zenon DEF HandleSessionLock
<1>7. CASE HandleSessionUnlock
  BY <1>7, DirectKept, Zenon DEF HandleSessionUnlock
<1> QED BY <1>1, <1>2, <1>3, <1>4, <1>5, <1>6, <1>7 DEF Main

LEMMA StatusThreadDirect == DirectInv /\ StatusThread => DirectInv'
<1> SUFFICES ASSUME DirectInv, StatusThread PROVE DirectInv'
  OBVIOUS
<1>d. hwnd' # "open" \/ daemon' = "down" \/ sk' = "closed" => DirectInv'
  BY Zenon DEF DirectInv
<1>w. DestroyWindow => hwnd' # "open"
  BY Zenon DEF DestroyWindow
<1>m. CloseManagement => sk' = "closed"
  BY Zenon DEF CloseManagement
<1>e. disconnectBtn' = TRUE => DirectInv'
  BY Zenon DEF DirectInv
<1>s. SignalExit => DirectInv'
  BY Zenon DEF SignalExit, DirectInv
<1>1. CASE ThreadInit
  <2>1. CASE disconnectBtn' = TRUE
    BY <2>1, <1>e
  <2>2. CASE disconnectBtn' # TRUE
    BY <1>1, <2>2, DirectKept, Zenon DEF ThreadInit
  <2> QED BY <2>1, <2>2, Zenon
<1>2. CASE HandleStop
  <2>1. CASE Persistent
    BY <2>1, Zenon DEF DirectInv
  <2>2. CASE SignalExit
    BY <2>2, <1>s
  <2>3. CASE ~Persistent /\ ~SignalExit
    BY <1>2, <2>3, DirectKept, Zenon DEF HandleStop, KeepWindow
  <2> QED BY <2>1, <2>2, <2>3
<1>3. CASE HandleRelease
  BY <1>3, <1>e, Zenon DEF HandleRelease, OnHold
<1>4. CASE HandleRestart
  BY <1>4, DirectKept, Zenon DEF HandleRestart, KeepWindow
<1>5. CASE HandleDetach
  BY <1>5, <1>w, <1>d, Zenon DEF HandleDetach, OnStopQuiet
<1>6. CASE StopTimeout
  BY <1>6, <1>d, Zenon DEF StopTimeout, DirectInv
<1>7. CASE FdConnect
  BY <1>7, <1>m, <1>d, DirectKept, Zenon DEF FdConnect
<1>8. CASE ConnectTimeout
  BY <1>8, DirectKept, Zenon DEF ConnectTimeout
<1>9. CASE ReadPrompt
  BY <1>9, <1>m, <1>d, DirectKept, Zenon DEF ReadPrompt
<1>10. CASE ReadInfo
  BY <1>10, DirectKept, Zenon DEF ReadInfo
<1>11. CASE ReadHold
  <2>1. CASE Persistent
    BY <2>1, Zenon DEF DirectInv
  <2>2. CASE ~Persistent
    BY <1>11, <2>2, <1>e, Zenon DEF ReadHold, OnHold
  <2> QED BY <2>1, <2>2
<1>12. CASE ReadConnected
  BY <1>12, DirectKept, Zenon DEF ReadConnected
<1>13. CASE ReadReconnecting
  BY <1>13, DirectKept, Zenon DEF ReadReconnecting
<1>14. CASE ReadOther
  BY <1>14, DirectKept, Zenon DEF ReadOther
<1>15. CASE FdClose
  BY <1>15, <1>m, <1>d, Zenon DEF FdClose
<1>16. CASE ProcessExit
  BY <1>16, <1>d, Zenon DEF ProcessExit
<1>17. CASE ConnectScriptDone
  BY <1>17, DirectKept, Zenon DEF ConnectScriptDone
<1>18. CASE DisconnectScriptDone
  BY <1>18, <1>s, Zenon DEF DisconnectScriptDone
<1>19. CASE PopupDone
  <2>1. CASE DestroyWindow
    BY <2>1, <1>w, <1>d
  <2>2. CASE ~DestroyWindow
    BY <1>19, <2>2, DirectKept, Zenon DEF PopupDone, CloseStatusWindow, KeepWindow
  <2> QED BY <2>1, <2>2
<1>20. CASE OpenFailedDone
  BY <1>20, DirectKept, Zenon DEF OpenFailedDone
<1>21. CASE ThreadExit
  BY <1>21, <1>d, Zenon DEF ThreadExit
<1> QED
  BY <1>1, <1>2, <1>3, <1>4, <1>5, <1>6, <1>7, <1>8, <1>9, <1>10, <1>11, <1>12, <1>13,
     <1>14, <1>15, <1>16, <1>17, <1>18, <1>19, <1>20, <1>21
     DEF StatusThread, HandleMessage, ReadLine

LEMMA DaemonDirect == DirectInv /\ MiInv /\ Daemon => DirectInv'
<1> SUFFICES ASSUME DirectInv, MiInv, Daemon PROVE DirectInv'
  OBVIOUS
<1>1. UNCHANGED hwnd /\ UNCHANGED disconnectBtn /\ UNCHANGED stopTimer /\ UNCHANGED sk
  BY DaemonApart, Zenon
<1>2. (disconnectBtn <=> disconnectBtn') /\ (stopTimer <=> stopTimer')
  BY <1>1
<1>3. daemon = "down" => daemon' = "down" \/ Persistent
  BY DaemonMi
<1> QED BY <1>1, <1>2, <1>3, Zenon DEF DirectInv

-----------------------------------------------------------------------------
(* Both sides agree once all is said and heard *)

SyncInv == MiInv /\ SockInv /\ ModeInv /\ HeldInv /\ ConnectedInv /\ ButtonInv /\ DirectInv

LEMMA SyncInductive == TypeOK /\ ThreadInv /\ SyncInv /\ [Next]_vars => SyncInv'
<1> SUFFICES ASSUME DataOK, ThreadInv, SyncInv, [Next]_vars PROVE SyncInv'
  BY Zenon DEF TypeOK
<1> USE DEF SyncInv
<1>1. CASE Main
  BY <1>1, MainMi, MainSock, MainMode, MainHeld, MainConnected, MainButton, MainDirect, Zenon
<1>2. CASE StatusThread
  BY <1>2, StatusThreadMi, StatusThreadSock, StatusThreadMode, StatusThreadHeld,
     StatusThreadConnected, StatusThreadButton, StatusThreadDirect, Zenon
<1>3. CASE Daemon
  <2>1. ModeInv'
    BY <1>3, DaemonApart, SameMode, Zenon
  <2> QED BY <1>3, <2>1, DaemonMi, DaemonSock, DaemonHeld, DaemonConnected, DaemonButton,
         DaemonDirect, Zenon
<1>4. CASE UNCHANGED vars
  <2>1. Persistent => ~stopTimer'
    BY <1>4 DEF ButtonInv, vars
  <2>2. MiInv' /\ SockInv' /\ ModeInv'
    BY <1>4, SameMi, SameSock, SameMode, Zenon DEF vars
  <2>3. HeldInv' /\ ConnectedInv'
    BY <1>4, HeldKept, ConnectedKept, Zenon DEF vars, SameOut
  <2>4. ButtonInv' /\ DirectInv'
    BY <1>4, <2>1, ButtonKept, DirectKept, Zenon DEF vars
  <2> QED BY <2>2, <2>3, <2>4
<1> QED BY <1>1, <1>2, <1>3, <1>4 DEF Next

LEMMA SyncInit == Init => SyncInv
<1> SUFFICES ASSUME Init PROVE SyncInv
  OBVIOUS
<1>1. MiInv
  BY Zenon DEF Init, MiInv
<1>2. ~Has(<<>>, "password") /\ ~Has(<<>>, "up_script") /\ ~Has(<<>>, "down_script")
  BY HasWords, Zenon
<1>3. SockInv /\ ModeInv
  BY <1>2, Zenon DEF Init, SockInv, ModeInv
<1>4. HeldInv /\ ConnectedInv /\ ButtonInv /\ DirectInv
  BY Zenon DEF Init, HeldInv, ConnectedInv, ButtonInv, DirectInv
<1> QED BY <1>1, <1>3, <1>4 DEF SyncInv

LEMMA Sync == Spec => []SyncInv
BY SyncInit, SyncInductive, TypeCorrect, ThreadLife, PTL DEF Spec

\* Once all that was said has been heard, a daemon that waits in a hold is shown as on
\* hold: neither side waits for the other one, whatever was asked, lost or restarted.
THEOREM HoldShown == Spec => []HoldIsShown
<1>1. SyncInv => HoldIsShown
  <2> SUFFICES ASSUME SyncInv, Quiet, daemon = "hold" PROVE state = "onhold"
    BY Zenon DEF HoldIsShown
  <2>1. lines = <<>> /\ out = <<>> /\ hwnd = "open" /\ mi = "ready"
    BY Zenon DEF Quiet, Pumping
  <2>2. /\ ~Has(<<>>, "hold") /\ ~Has(<<>>, "release") /\ ~Has(<<>>, "sighup")
        /\ ~Has(<<>>, "hold_sighup")
    BY HasWords, Zenon
  <2> QED BY <2>1, <2>2, Zenon DEF SyncInv, HeldInv, Hup
<1> QED BY <1>1, Sync, PTL

\* ... and where no connect script is waited for, a connection shown as connected is.
THEOREM ConnectedShown == Spec => [](~Scripts \/ Persistent => ConnectedIsTrue)
<1>1. SyncInv => (~Scripts \/ Persistent => ConnectedIsTrue)
  <2> SUFFICES ASSUME ~Scripts \/ Persistent, SyncInv, Quiet, state = "connected"
               PROVE  daemon = "connected_ok"
    BY Zenon DEF ConnectedIsTrue
  <2>1. lines = <<>> /\ hwnd = "open" /\ mi = "ready"
    BY Zenon DEF Quiet, Pumping
  <2>2. ~Has(<<>>, "reconnecting")
    BY HasWords, Zenon
  <2> QED BY <2>1, <2>2, Zenon DEF SyncInv, ConnectedInv
<1> QED BY <1>1, Sync, PTL

\* A connection that is neither on hold nor over can be stopped by the user whenever
\* nothing is under way, unless its daemon cannot even be killed: Disconnect is enabled
\* or a stop has its deadline.
THEOREM Stoppable == Spec => [](Persistent \/ ~KillMayFail => AlwaysStoppable)
<1>1. SyncInv => (Persistent \/ ~KillMayFail => AlwaysStoppable)
  <2> SUFFICES ASSUME SyncInv, Quiet, state \notin {"onhold", "disconnected"},
                      ~disconnectBtn, ~stopTimer, Persistent \/ ~KillMayFail
               PROVE  FALSE
    BY Zenon DEF AlwaysStoppable
  <2>1. lines = <<>> /\ out = <<>> /\ hwnd = "open" /\ mi = "ready" /\ sk = "open"
    BY Zenon DEF Quiet, Pumping
  <2>2. /\ ~Has(<<>>, "hold") /\ ~Has(<<>>, "release") /\ ~Has(<<>>, "sighup")
        /\ ~Has(<<>>, "hold_sighup")
    BY HasWords, Zenon
  <2>3. CASE Persistent
    <3>1. daemon = "hold"
      BY <2>1, <2>2, <2>3, Zenon DEF SyncInv, ButtonInv, DisabledInv, Hup
    <3> QED BY <2>1, <2>2, <3>1, Zenon DEF SyncInv, HeldInv, Hup
  <2>4. CASE ~Persistent
    BY <2>1, <2>4, Zenon DEF SyncInv, DirectInv, MiInv
  <2> QED BY <2>3, <2>4
<1> QED BY <1>1, Sync, PTL

=============================================================================
