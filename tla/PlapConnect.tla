----------------------------- MODULE PlapConnect -----------------------------
(***************************************************************************)
(* Start-before-logon: the operations LogonUI calls on a connection tile   *)
(* (plap_connection.c) and what they do through ui_glue.c to the status    *)
(* thread of a persistent profile.  Connect, Disconnect and the deletion   *)
(* of the user interface run on LogonUI's thread, which waits on the state *)
(* of status threads it does not control; ui_glue.c replaces the handlers  *)
(* that would ask a user who may be looking at another tile.               *)
(*                                                                         *)
(* The status thread and the daemon are those of module Connection, with   *)
(* less detail: the management password is not modelled, and commands that *)
(* are issued together are one element of the channel.                     *)
(***************************************************************************)
EXTENDS Naturals, Sequences

CONSTANTS
    Profiles,    \* persistent profiles, each with its tile
    Startable,   \* those whose management address is still good
    MaxPosted,   \* bound: messages waiting when LogonUI posts another
    MaxOut,      \* bound: commands under way when a message is handled
    MaxLines,    \* bound: unread management lines when the daemon writes
    MaxFaults    \* bound: tunnels lost and daemons restarted

VARIABLES
    pc,         \* where LogonUI's thread is
    cur,        \* the tile it works on
    res,        \* the button the progress dialog ended with
    active,     \* active_profile
    state,      \* c->state
    thread,     \* its status thread; "open" and "closing": hwndStatus is set
    ready,      \* c->manage.connected; 3 stands for a socket still connecting
    posted,     \* messages posted to the status window
    button,     \* its Disconnect button is enabled
    query,      \* the dialog about its daemon's question: "none", "open", "declined"
    out, lines, \* the management channel
    daemon,     \* the persistent daemon
    holdFlag,   \* its hold flag
    stopAsked,  \* history: a stop was accepted, no connect was asked since
    faults

logonVars  == <<pc, cur, res, active>>
threadVars == <<state, thread, ready, posted, button, query>>
channel    == <<out, lines>>
daemonVars == <<daemon, holdFlag, faults>>
vars == <<logonVars, threadVars, channel, daemonVars, stopAsked>>

None == "none"
Finished(c) == state[c] \in {"connected", "disconnected"}

Post(c, m) ==
    posted' = IF thread[c] = "open" THEN [posted EXCEPT ![c] = Append(@, m)] ELSE posted
Send(c, cmd) == out' = [out EXCEPT ![c] = Append(@, cmd)]
SetState(c, s) == state' = [state EXCEPT ![c] = s]
SetThread(c, s) == thread' = [thread EXCEPT ![c] = s]
SetButton(c, b) == button' = [button EXCEPT ![c] = b]
Take(c) == lines' = [lines EXCEPT ![c] = Tail(@)]

-----------------------------------------------------------------------------
(* LogonUI's thread *)

\* StartOpenVPN of an idle profile: a new status thread, or nothing if the old
\* one still has its window or the management address is not usable.
Start(c) ==
    /\ state[c] = "disconnected"
    /\ IF c \in Startable /\ thread[c] = "none"
       THEN SetThread(c, "starting") /\ SetState(c, "connecting")
       ELSE UNCHANGED <<thread, state>>
    /\ UNCHANGED posted

\* Start an idle profile, release a held one; one that is under way is left alone.
ConnectHelper(c) ==
    /\ stopAsked' = [stopAsked EXCEPT ![c] = FALSE]
    /\ \/ Start(c)
       \/ state[c] = "onhold" /\ Post(c, "RELEASE") /\ UNCHANGED <<state, thread>>
       \/ /\ state[c] \notin {"disconnected", "onhold"}
          /\ UNCHANGED <<state, thread, posted>>

\* The label "again" of Connect, and its entry.
Again(c) ==
    /\ active' = c
    /\ ConnectHelper(c)
    /\ pc' = "wait"

Callable(c) == pc = "idle" /\ Len(posted[c]) < MaxPosted

Connect(c) ==
    /\ Callable(c) /\ cur' = c /\ res' = None
    /\ Again(c)
    /\ UNCHANGED <<ready, button, query, channel, daemonVars>>

Return == pc' = "idle" /\ active' = None /\ cur' = None /\ res' = None

\* OVPNMsgWait(100) is over: done already, or the progress dialog is shown.
Waited ==
    /\ pc = "wait"
    /\ IF Finished(cur) THEN Return ELSE pc' = "dialog" /\ UNCHANGED <<cur, res, active>>
    /\ UNCHANGED <<threadVars, channel, daemonVars, stopAsked>>

EndDialog(choice) ==
    /\ pc' = "chosen" /\ res' = choice
    /\ UNCHANGED <<cur, active, state, thread, posted, stopAsked>>

\* Mutant of DialogTimer: only a connection that is up ends the dialog.
DialogTimerUp ==
    /\ pc = "dialog"
    /\ \/ state[cur] = "connected" /\ EndDialog("cancel")
       \/ /\ state[cur] = "onhold" /\ Len(posted[cur]) < MaxPosted
          /\ ConnectHelper(cur)
          /\ UNCHANGED logonVars
    /\ UNCHANGED <<ready, button, query, channel, daemonVars>>

\* ProgressCallback on its timer: WM_CLOSE (it ends the dialog as Cancel does)
\* when the connection is up or gone; a profile found on hold is released.
DialogTimer ==
    /\ pc = "dialog"
    /\ \/ Finished(cur) /\ EndDialog("cancel")
       \/ /\ state[cur] = "onhold" /\ Len(posted[cur]) < MaxPosted
          /\ ConnectHelper(cur)
          /\ UNCHANGED logonVars
    /\ UNCHANGED <<ready, button, query, channel, daemonVars>>

\* ProgressCallback, TDN_BUTTON_CLICKED; LogonUI's QueryContinue failing ends the
\* dialog like Cancel.
ClickCancel ==
    /\ pc = "dialog" /\ EndDialog("cancel")
    /\ UNCHANGED <<ready, button, query, channel, daemonVars>>

ClickRetry ==
    /\ pc = "dialog" /\ Len(posted[cur]) < MaxPosted
    /\ IF state[cur] = "onhold"
       THEN ConnectHelper(cur) /\ UNCHANGED logonVars
       ELSE EndDialog("retry")
    /\ UNCHANGED <<ready, button, query, channel, daemonVars>>

\* DisconnectHelper returns at once: nothing to stop, or nobody to tell yet.
NothingToStop(c) == state[c] \in {"disconnected", "onhold"} \/ ready[c] # 2

\* The end of the progress dialog in Connect.
Chosen ==
    /\ pc = "chosen"
    /\ \/ /\ res = "retry" /\ state[cur] # "connected"
          /\ IF NothingToStop(cur)
             THEN Again(cur)
             ELSE /\ pc' = "stopping" /\ Post(cur, "STOP")
                  /\ UNCHANGED <<active, state, thread, stopAsked>>
          /\ UNCHANGED <<cur, res>>
       \/ /\ res = "cancel" /\ ~Finished(cur)
          /\ IF NothingToStop(cur)
             THEN Return /\ UNCHANGED posted
             ELSE pc' = "stopping" /\ Post(cur, "STOP") /\ UNCHANGED <<cur, res, active>>
          /\ UNCHANGED <<state, thread, stopAsked>>
       \/ /\ IF res = "retry" THEN state[cur] = "connected" ELSE Finished(cur)
          /\ Return
          /\ UNCHANGED <<state, thread, posted, stopAsked>>
    /\ UNCHANGED <<ready, button, query, channel, daemonVars>>

\* Mutant of Stopped: DisconnectHelper waits for the state without a limit.
StoppedNoTimeout ==
    /\ pc = "stopping" /\ state[cur] \in {"onhold", "disconnected"}
    /\ IF res = "retry"
       THEN Again(cur) /\ UNCHANGED <<cur, res>>
       ELSE Return /\ UNCHANGED <<state, thread, posted, stopAsked>>
    /\ UNCHANGED <<ready, button, query, channel, daemonVars>>

\* DisconnectHelper has seen the stop, or its 5 seconds are over.
Stopped ==
    /\ pc = "stopping"
    /\ IF res = "retry"
       THEN Again(cur) /\ UNCHANGED <<cur, res>>
       ELSE Return /\ UNCHANGED <<state, thread, posted, stopAsked>>
    /\ UNCHANGED <<ready, button, query, channel, daemonVars>>

Disconnect(c) ==
    /\ Callable(c) /\ ~NothingToStop(c)
    /\ pc' = "stopping" /\ cur' = c /\ res' = None
    /\ Post(c, "STOP")
    /\ UNCHANGED <<active, state, thread, ready, button, query, channel, daemonVars,
                   stopAsked>>

\* The last reference to the provider is gone: DeleteUI asks every status
\* thread to detach ...
DetachAllOpenVPN ==
    /\ pc = "idle" /\ pc' = "detaching"
    /\ posted' = [c \in Profiles |->
                    IF thread[c] = "open" /\ state[c] # "disconnected"
                    THEN Append(posted[c], "DETACH") ELSE posted[c]]
    /\ UNCHANGED <<cur, res, active, state, thread, ready, button, query, channel,
                   daemonVars, stopAsked>>

\* ... waits for a second, kills the threads that still have a window, and
\* frees the list of profiles.
DeleteUI ==
    /\ pc = "detaching" /\ pc' = "deleted"
    /\ thread' = [c \in Profiles |->
                    IF thread[c] \in {"open", "closing"} THEN "none" ELSE thread[c]]
    /\ UNCHANGED <<cur, res, active, state, ready, posted, button, query, channel,
                   daemonVars, stopAsked>>

LogonUI ==
    \/ \E c \in Profiles : Connect(c) \/ Disconnect(c)
    \/ Waited \/ DialogTimer \/ ClickCancel \/ ClickRetry
    \/ Chosen \/ Stopped \/ DetachAllOpenVPN \/ DeleteUI

-----------------------------------------------------------------------------
(* The status threads.  Their memory goes with the list of profiles: nothing is
   said of what they do after it is freed. *)

Received(c, m) ==
    thread[c] = "open" /\ pc # "deleted" /\ posted[c] # <<>> /\ Head(posted[c]) = m
    /\ Len(out[c]) < MaxOut
Runs(c) == pc # "deleted" /\ thread[c] = "open"
Reading(c, line) == Runs(c) /\ ready[c] \in {1, 2} /\ lines[c] # <<>> /\ Head(lines[c]) = line

ThreadInit(c) ==
    /\ pc # "deleted" /\ thread[c] = "starting"
    /\ \/ /\ SetThread(c, "open") /\ ready' = [ready EXCEPT ![c] = 3]
          /\ SetButton(c, TRUE) /\ UNCHANGED state
       \/ /\ SetThread(c, "none") /\ SetState(c, "disconnected")
          /\ UNCHANGED <<ready, button>>
    /\ UNCHANGED <<logonVars, posted, query, channel, daemonVars, stopAsked>>

\* WM_CLOSE of a finished connection: the window, its messages and the dialogs
\* of the thread go, and WM_QUIT is posted.
CloseWindow(c) ==
    /\ SetState(c, "disconnected") /\ SetThread(c, "closing")
    /\ posted' = [posted EXCEPT ![c] = <<>>]
    /\ SetButton(c, FALSE)
    /\ query' = [query EXCEPT ![c] = None]

\* Cleanup
ThreadExit(c) ==
    /\ pc # "deleted" /\ thread[c] = "closing" /\ SetThread(c, "none")
    /\ ready' = [ready EXCEPT ![c] = 0]
    /\ out' = [out EXCEPT ![c] = <<>>] /\ lines' = [lines EXCEPT ![c] = <<>>]
    /\ UNCHANGED <<logonVars, state, posted, button, query, daemonVars, stopAsked>>

\* Messages of the status window (openvpn.c); a persistent daemon is told to
\* hold and restart, one that takes no commands yet is left alone.
HandleStop(c) ==
    /\ Received(c, "STOP")
    /\ \/ /\ ~button[c] \/ state[c] = "onhold"
          /\ posted' = [posted EXCEPT ![c] = Tail(@)]
          /\ UNCHANGED <<state, thread, button, query, out, stopAsked>>
       \/ /\ button[c] /\ state[c] # "onhold"
          /\ stopAsked' = [stopAsked EXCEPT ![c] = TRUE]
          /\ IF ready[c] = 2
             THEN /\ SetState(c, "disconnecting") /\ Send(c, "hold_sighup")
                  /\ SetButton(c, FALSE)
                  /\ posted' = [posted EXCEPT ![c] = Tail(@)]
                  /\ UNCHANGED <<thread, query>>
             ELSE CloseWindow(c) /\ UNCHANGED out
    /\ UNCHANGED <<logonVars, ready, lines, daemonVars>>

\* OnHold with c->state = s
OnHold(c, s) ==
    IF s \in {"disconnecting", "resuming"}
    THEN SetState(c, "onhold") /\ SetButton(c, FALSE) /\ UNCHANGED out
    ELSE SetState(c, s) /\ SetButton(c, TRUE) /\ Send(c, "release")

HandleRelease(c) ==
    /\ Received(c, "RELEASE")
    /\ posted' = [posted EXCEPT ![c] = Tail(@)]
    /\ OnHold(c, "reconnecting")
    /\ UNCHANGED <<logonVars, thread, ready, query, lines, daemonVars, stopAsked>>

HandleDetach(c) ==
    /\ Received(c, "DETACH")
    /\ CloseWindow(c)
    /\ UNCHANGED <<logonVars, ready, channel, daemonVars, stopAsked>>

ReadReady(c) ==
    /\ Reading(c, "info") /\ Take(c)
    /\ ready' = [ready EXCEPT ![c] = 2] /\ Send(c, "state")
    /\ UNCHANGED <<logonVars, state, thread, posted, button, query, daemonVars, stopAsked>>

ReadHold(c) ==
    /\ Reading(c, "hold") /\ Take(c)
    /\ OnHold(c, state[c])
    /\ UNCHANGED <<logonVars, thread, ready, posted, query, daemonVars, stopAsked>>

\* OnStateChange_: a connection that completes while it is being disconnected
\* does not count.
ReadConnected(c) ==
    /\ Reading(c, "connected") /\ Take(c)
    /\ SetState(c, IF state[c] = "disconnecting" THEN "disconnecting" ELSE "connected")
    /\ UNCHANGED <<logonVars, thread, ready, posted, button, query, out, daemonVars, stopAsked>>

\* The answer to OnReady's own "state" goes to OnStateChange directly.
ReadStateReply(c) ==
    /\ Reading(c, "state_connected") /\ Take(c)
    /\ SetState(c, "connected")
    /\ UNCHANGED <<logonVars, thread, ready, posted, button, query, out, daemonVars, stopAsked>>

ReadReconnecting(c) ==
    /\ Reading(c, "reconnecting") /\ Take(c)
    /\ SetState(c, IF state[c] = "connected" THEN "reconnecting" ELSE state[c])
    /\ UNCHANGED <<logonVars, thread, ready, posted, button, query, out, daemonVars, stopAsked>>

\* Mutant of ReadQuestion: a question of another profile is dropped.
ReadQuestionDropped(c) ==
    /\ Reading(c, "question") /\ Take(c)
    /\ query' = [query EXCEPT ![c] = IF c = active THEN "open" ELSE @]
    /\ UNCHANGED <<logonVars, state, thread, ready, posted, button, out, daemonVars, stopAsked>>

\* OnPassword_, OnNeedOk_, OnNeedStr_, OnProxy_, OnInfoMsg_: the user is asked
\* about the active profile only; "next attach will handle" the others.
ReadQuestion(c) ==
    /\ Reading(c, "question") /\ Take(c)
    /\ IF c = active
       THEN query' = [query EXCEPT ![c] = "open"] /\ UNCHANGED posted
       ELSE Post(c, "DETACH") /\ UNCHANGED query
    /\ UNCHANGED <<logonVars, state, thread, ready, button, out, daemonVars, stopAsked>>

\* FD_CLOSE, OnStop_: no message box, the window is closed at once.
ReadEof(c) ==
    /\ Reading(c, "eof")
    /\ CloseWindow(c)
    /\ ready' = [ready EXCEPT ![c] = 0]
    /\ out' = [out EXCEPT ![c] = <<>>] /\ lines' = [lines EXCEPT ![c] = <<>>]
    /\ UNCHANGED <<logonVars, daemonVars, stopAsked>>

\* The user answers or cancels a dialog of the status thread.
Answer(c) ==
    /\ Runs(c) /\ query[c] = "open"
    /\ \/ /\ query' = [query EXCEPT ![c] = None]
          /\ Send(c, "answer") /\ UNCHANGED posted
       \/ /\ query' = [query EXCEPT ![c] = "declined"]
          /\ Post(c, "STOP") /\ UNCHANGED out
    /\ UNCHANGED <<logonVars, state, thread, ready, button, lines, daemonVars, stopAsked>>

StatusThread(c) ==
    \/ ThreadInit(c) \/ ThreadExit(c)
    \/ HandleStop(c) \/ HandleRelease(c) \/ HandleDetach(c)
    \/ ReadReady(c) \/ ReadHold(c) \/ ReadConnected(c) \/ ReadStateReply(c)
    \/ ReadReconnecting(c) \/ ReadQuestion(c) \/ ReadEof(c) \/ Answer(c)

-----------------------------------------------------------------------------
(* The daemon of each profile, run by the service (external) *)

daemonOnly == <<logonVars, threadVars, stopAsked>>
Attached(c) == ready[c] \in {1, 2} /\ thread[c] # "none"
Room(c) == Len(lines[c]) < MaxLines
Emit(c, s) == lines' = [lines EXCEPT ![c] = IF Attached(c) THEN @ \o s ELSE @]
Waiting(c) == CASE daemon[c] = "hold"     -> <<"hold">>
                [] daemon[c] = "question" -> <<"question">>
                [] OTHER                  -> <<>>

\* The management interface takes its client.
DaemonAccepts(c) ==
    /\ Runs(c) /\ ready[c] = 3 /\ ready' = [ready EXCEPT ![c] = 1]
    /\ lines' = [lines EXCEPT ![c] = <<"info">> \o Waiting(c)]
    /\ UNCHANGED <<logonVars, state, thread, posted, button, query, out, daemonVars, stopAsked>>

DaemonReads(c) ==
    /\ Attached(c) /\ out[c] # <<>> /\ Room(c)
    /\ out' = [out EXCEPT ![c] = Tail(@)]
    /\ \/ /\ Head(out[c]) = "state"
          /\ Emit(c, IF daemon[c] = "connected" THEN <<"state_connected">> ELSE <<>>)
          /\ UNCHANGED <<daemon, holdFlag>>
       \/ /\ Head(out[c]) = "release"
          /\ holdFlag' = [holdFlag EXCEPT ![c] = FALSE]
          /\ daemon' = [daemon EXCEPT ![c] = IF @ = "hold" THEN "connecting" ELSE @]
          /\ UNCHANGED lines
       \/ /\ Head(out[c]) = "answer"
          /\ daemon' = [daemon EXCEPT ![c] = IF @ = "question" THEN "connecting" ELSE @]
          /\ UNCHANGED <<holdFlag, lines>>
       \/ /\ Head(out[c]) = "hold_sighup"
          /\ holdFlag' = [holdFlag EXCEPT ![c] = TRUE]
          /\ daemon' = [daemon EXCEPT ![c] = "hold"]
          /\ Emit(c, <<"reconnecting", "hold">>)
    /\ UNCHANGED <<daemonOnly, faults>>

DaemonConnects(c) ==
    /\ daemon[c] = "connecting" /\ Room(c)
    /\ daemon' = [daemon EXCEPT ![c] = "connected"] /\ Emit(c, <<"connected">>)
    /\ UNCHANGED <<daemonOnly, out, holdFlag, faults>>

\* It needs the user: a password, a certificate, a message to be confirmed.
DaemonAsks(c) ==
    /\ daemon[c] = "connecting" /\ Room(c)
    /\ daemon' = [daemon EXCEPT ![c] = "question"] /\ Emit(c, <<"question">>)
    /\ UNCHANGED <<daemonOnly, out, holdFlag, faults>>

DaemonReconnects(c) ==
    /\ daemon[c] = "connected" /\ Room(c) /\ faults < MaxFaults
    /\ faults' = faults + 1
    /\ IF holdFlag[c]
       THEN daemon' = [daemon EXCEPT ![c] = "hold"] /\ Emit(c, <<"reconnecting", "hold">>)
       ELSE daemon' = [daemon EXCEPT ![c] = "connecting"] /\ Emit(c, <<"reconnecting">>)
    /\ UNCHANGED <<daemonOnly, out, holdFlag>>

\* The daemon ends, and the service starts it again, on hold or not.
DaemonRestarts(c) ==
    /\ Room(c) /\ faults < MaxFaults /\ faults' = faults + 1
    /\ Emit(c, <<"eof">>)
    /\ holdFlag' \in [Profiles -> BOOLEAN]
    /\ \A d \in Profiles \ {c} : holdFlag'[d] = holdFlag[d]
    /\ daemon' = [daemon EXCEPT ![c] = IF holdFlag'[c] THEN "hold" ELSE "connecting"]
    /\ UNCHANGED <<daemonOnly, out>>

Daemon(c) ==
    /\ pc # "deleted"
    /\ \/ DaemonAccepts(c) \/ DaemonReads(c) \/ DaemonConnects(c) \/ DaemonAsks(c)
       \/ DaemonReconnects(c) \/ DaemonRestarts(c)

-----------------------------------------------------------------------------
Init ==
    /\ pc = "idle" /\ cur = None /\ res = None /\ active = None
    /\ state = [c \in Profiles |-> "disconnected"]
    /\ thread = [c \in Profiles |-> "none"]
    /\ ready = [c \in Profiles |-> 0]
    /\ posted = [c \in Profiles |-> <<>>]
    /\ query = [c \in Profiles |-> None] /\ button = [c \in Profiles |-> FALSE]
    /\ out = [c \in Profiles |-> <<>>] /\ lines = [c \in Profiles |-> <<>>]
    /\ daemon \in [Profiles -> {"hold", "connected"}]
    /\ holdFlag = [c \in Profiles |-> TRUE]
    /\ stopAsked = [c \in Profiles |-> FALSE]
    /\ faults = 0

Next == LogonUI \/ \E c \in Startable : StatusThread(c) \/ Daemon(c)

Spec == Init /\ [][Next]_vars

-----------------------------------------------------------------------------
(* Every variable has its type. *)
TypeOK ==
    /\ pc \in {"idle", "wait", "dialog", "chosen", "stopping", "detaching", "deleted"}
    /\ cur \in Profiles \cup {None} /\ res \in {None, "cancel", "retry"}
    /\ active \in Profiles \cup {None}
    /\ state \in [Profiles -> {"disconnected", "onhold", "connecting", "reconnecting",
                               "connected", "disconnecting"}]
    /\ thread \in [Profiles -> {"none", "starting", "open", "closing"}]
    /\ ready \in [Profiles -> 0 .. 3]
    /\ \A c \in Profiles :
          /\ posted[c] \in Seq({"STOP", "RELEASE", "DETACH"})
          /\ out[c] \in Seq({"state", "release", "answer", "hold_sighup"})
          /\ lines[c] \in Seq({"info", "hold", "question", "connected",
                               "state_connected", "reconnecting", "eof"})
    /\ query \in [Profiles -> {None, "open", "declined"}] /\ button \in [Profiles -> BOOLEAN]
    /\ daemon \in [Profiles -> {"hold", "connecting", "question", "connected"}]
    /\ holdFlag \in [Profiles -> BOOLEAN] /\ stopAsked \in [Profiles -> BOOLEAN]
    /\ faults \in 0 .. MaxFaults

\* A daemon that waits for the user is attended: once everything said has been
\* heard, its dialog is or was open, or nobody is attached to it.  Without this a tile
\* that is connected later would wait on a question nobody sees (ui_glue.c:81).
NoSilentQuestion ==
    \A c \in Profiles :
        /\ Runs(c) /\ Attached(c) /\ daemon[c] = "question"
        /\ lines[c] = <<>> /\ out[c] = <<>> /\ posted[c] = <<>>
        => query[c] # None

\* When the list of profiles is freed no status thread that uses it has a window
\* left, however slow its end (ui_glue.c:432).
KilledBeforeFree ==
    pc = "deleted" => \A c \in Profiles : thread[c] \notin {"open", "closing"}

\* What the comment at ui_glue.c:439 says, threads that are only starting included.
\* Not checked, it does not hold: a thread without a window gets no WM_CLOSE.
NoThreadWhenFreed == pc = "deleted" => \A c \in Profiles : thread[c] = "none"

\* Until LogonUI wants a profile connected again, a daemon that was told to hold
\* is not released (OnStateChange_, ui_glue.c:145).
\* Not checked, it does not hold: the answer to OnReady's own query
\* goes around OnStateChange_.
HoldRetained ==
    [][\A c \in Profiles :
         stopAsked[c] /\ stopAsked'[c] => out'[c] # Append(out[c], "release")]_vars

-----------------------------------------------------------------------------
(* Liveness.  LogonUI's thread and its timers run; nothing is assumed of the
   status threads, of the daemons or of the user. *)
Fairness ==
    WF_vars(Waited) /\ WF_vars(DialogTimer) /\ WF_vars(Chosen) /\ WF_vars(Stopped)
FairSpec == Spec /\ Fairness

\* A dialog that was ended gives LogonUI its thread back, or starts again: the
\* logon screen does not hang on a status thread or a daemon that does nothing.
CancelReturns == pc \in {"chosen", "stopping"} ~> pc \in {"idle", "wait"}

\* The progress dialog does not stay open over a connection that is settled.
DialogCloses == ~<>[](pc = "dialog" /\ Finished(cur))
=============================================================================
