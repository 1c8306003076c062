------------------------------- MODULE Launch --------------------------------
(***************************************************************************)
(* How a daemon that the GUI owns is launched and watched until its        *)
(* management interface answers: LaunchOpenVPN, the pipe to the            *)
(* interactive service (InitServiceIO, ValidatePipe, WritePipe,            *)
(* HandleServiceIO, OnService), the process handle (OnProcess,             *)
(* TerminateOpenVPN), all in openvpn.c, and AuthorizeConfig in access.c.   *)
(*                                                                         *)
(* The status thread learns that the daemon has died in one of three ways: *)
(* a message, or the end, of the service's pipe, read by an asynchronous   *)
(* call that is queued anew after each message; the process handle, if it  *)
(* started the daemon itself; the end of the management connection, once   *)
(* there is one.  Before that a timeout only tries again.                  *)
(*                                                                         *)
(* One profile that is not persistent.  What is said over the management   *)
(* interface is module Connection; a start dispatched inside the question  *)
(* of AuthorizeConfig is module Session.                                   *)
(***************************************************************************)
EXTENDS Naturals, Sequences, SequencesExt

CONSTANTS
    MaxStarts    \* bound: starts of the profile

VARIABLES
    useService,  \* use_iservice: always, or because the user is no administrator
    global,      \* the configuration is below o.global_config_dir
    member,      \* the user is in a group that may start any configuration
    service,     \* the interactive service runs
    asking,      \* AuthorizeConfig asks whether to add the user to the group
    semaphore,   \* o.netcmd_semaphore is free
    state,       \* c->state
    thread,      \* the status thread: "none", "starting", in its "loop", in a "box"
    exitEvent,   \* c->exit_event: "null", "open", "closed" (not NULL, but closed)
    exitSet,     \* it is signalled; Disconnect is disabled
    pipe,        \* c->iserv: "null", "open", "broken" (the other end is gone)
    inPipe,      \* messages of the service that are not read
    reading,     \* ReadFileEx is under way
    readDone,    \* c->iserv.hEvent is signalled
    readbuf,     \* c->iserv.readbuf
    hProcess,    \* c->hProcess: "null", "open"
    waitEvent,   \* what the thread waits for: "service", "process"
    daemon,      \* "none", "asked" (the service has the request), "up", "gone"
    mgmt,        \* the management socket: "closed", "connecting", "up"
    stopTimer,   \* IDT_STOP_TIMER
    sent, handled,   \* history: messages of the service, and those OnService saw
    starts       \* counted for the bound

setupVars == <<useService, global, member, service>>
startVars == <<asking, semaphore, starts>>
eventVars == <<exitEvent, exitSet, stopTimer>>
pipeVars  == <<pipe, inPipe, reading, readDone, readbuf>>
msgVars   == <<sent, handled>>
vars == <<setupVars, startVars, state, thread, eventVars, pipeVars, hProcess,
          waitEvent, daemon, mgmt, msgVars>>

-----------------------------------------------------------------------------
(* LaunchOpenVPN *)

\* CheckConfigPath (no access control without the service), IsUserInGroup
Authorized == ~service \/ global \/ member

\* StartOpenVPN after a successful launch: the thread is resumed.
Resume(how) ==
    /\ state' = "connecting" /\ thread' = "starting" /\ waitEvent' = how
    /\ sent' = <<>> /\ handled' = <<>>
    /\ UNCHANGED <<exitSet, stopTimer, inPipe, reading, readDone, readbuf, mgmt>>

\* Failure: the event is closed, c->exit_event keeps its value; the suspended
\* thread is terminated.
LaunchFails ==
    /\ exitEvent' = "closed" /\ pipe' = "null"
    /\ UNCHANGED <<state, thread, exitSet, stopTimer, inPipe, reading, readDone, readbuf,
                   hProcess, waitEvent, daemon, mgmt, msgVars>>

\* The request is written; or the other end is not the service, or takes nothing
\* within IO_TIMEOUT.
LaunchByService ==
    \/ /\ pipe' = "open" /\ exitEvent' = "open" /\ hProcess' = "null" /\ daemon' = "asked"
       /\ Resume("service")
    \/ LaunchFails

\* Mutant of LaunchDirectly: the thread waits for the service's event all the same.
LaunchDirectlyDeaf ==
    \/ /\ pipe' = "null" /\ exitEvent' = "open" /\ hProcess' = "open" /\ daemon' = "up"
       /\ Resume("service")
    \/ LaunchFails

LaunchDirectly ==
    \/ /\ pipe' = "null" /\ exitEvent' = "open" /\ hProcess' = "open" /\ daemon' = "up"
       /\ Resume("process")
    \/ LaunchFails

\* An open pipe decides; without it, or without authorization, the GUI starts the
\* daemon itself.
Launch(authorized) ==
    \/ useService /\ authorized /\ service /\ LaunchByService
    \/ LaunchDirectly

\* StartOpenVPN of an idle profile, up to the question if there is one.
StartOpenVPN ==
    /\ state = "disconnected" /\ thread = "none" /\ ~asking
    /\ starts < MaxStarts /\ starts' = starts + 1
    /\ \/ Launch(Authorized) /\ UNCHANGED <<asking, semaphore>>
       \/ /\ useService /\ ~Authorized /\ semaphore
          /\ asking' = TRUE /\ semaphore' = FALSE /\ exitEvent' = "open"
          /\ UNCHANGED <<state, thread, exitSet, stopTimer, pipeVars, hProcess, waitEvent,
                         daemon, mgmt, msgVars>>
    /\ UNCHANGED setupVars

\* The user refuses, or is added to the group, or the command fails.
AuthorizeAnswered ==
    /\ asking /\ asking' = FALSE /\ semaphore' = TRUE
    /\ \E ok \in BOOLEAN : member' = ok /\ Launch(ok)
    /\ UNCHANGED <<useService, global, service, starts>>

-----------------------------------------------------------------------------
(* The status thread *)

\* ReadFileEx starts a read unless it fails at once, which nobody looks at.
CanRead == pipe = "open" \/ inPipe # <<>>

Cleanup ==
    /\ thread' = "none" /\ mgmt' = "closed" /\ hProcess' = "null"
    /\ pipe' = "null" /\ inPipe' = <<>> /\ reading' = FALSE /\ readDone' = FALSE
    /\ exitEvent' = "null" /\ exitSet' = FALSE /\ stopTimer' = FALSE
    /\ UNCHANGED readbuf

\* The window is there and the read loop starts; or it is not, and all is undone.
ThreadStarts ==
    /\ thread = "starting"
    /\ \/ /\ thread' = "loop" /\ mgmt' = "connecting"
          /\ reading' = (waitEvent = "service" /\ CanRead)
          /\ UNCHANGED <<state, eventVars, pipe, inPipe, readDone, readbuf, hProcess>>
       \/ Cleanup /\ state' = "disconnected"
    /\ UNCHANGED <<setupVars, startVars, waitEvent, daemon, msgVars>>

\* OnStop: a message box, or the end of the thread if the user asked for it.
OnStop ==
    IF state = "disconnecting"
    THEN Cleanup /\ state' = "disconnected"
    ELSE /\ thread' = "box" /\ state' = "disconnected"
         /\ UNCHANGED <<mgmt, hProcess, pipe, inPipe, exitEvent, exitSet, stopTimer, readbuf>>

\* HandleServiceIO, called back in an alertable wait.
ReadCompletes ==
    /\ thread = "loop" /\ reading
    /\ \/ inPipe # <<>> /\ readbuf' = Head(inPipe) /\ inPipe' = Tail(inPipe)
       \/ inPipe = <<>> /\ pipe = "broken" /\ readbuf' = "broken" /\ UNCHANGED inPipe
    /\ reading' = FALSE /\ readDone' = TRUE
    /\ UNCHANGED <<setupVars, startVars, state, thread, eventVars, pipe, hProcess, waitEvent,
                   daemon, mgmt, msgVars>>

HandleMessage(m) ==
    /\ handled' = Append(handled, m)
    /\ IF m = "pid"
       THEN /\ hProcess' \in {"open", "null"} /\ reading' = CanRead /\ readDone' = FALSE
            /\ UNCHANGED <<state, thread, eventVars, pipe, inPipe, readbuf, mgmt>>
       ELSE /\ OnStop
            /\ thread' # "none" => reading' = CanRead /\ readDone' = FALSE

\* Mutant of OnService: the next read is queued, and fills the buffer, before it is
\* copied.
OnServiceLate ==
    /\ thread = "loop" /\ waitEvent = "service" /\ readDone
    /\ HandleMessage(IF inPipe # <<>> THEN Head(inPipe) ELSE readbuf)
    /\ UNCHANGED <<setupVars, startVars, waitEvent, daemon, sent>>

\* The buffer is copied, the next read queued, the copy acted upon.
OnService ==
    /\ thread = "loop" /\ waitEvent = "service" /\ readDone
    /\ HandleMessage(readbuf)
    /\ UNCHANGED <<setupVars, startVars, waitEvent, daemon, sent>>

OnProcess ==
    /\ thread = "loop" /\ waitEvent = "process" /\ daemon = "gone"
    /\ OnStop
    /\ thread' # "none" => UNCHANGED <<reading, readDone>>
    /\ UNCHANGED <<setupVars, startVars, waitEvent, daemon, msgVars>>

\* FD_CONNECT and what follows; or the time is over: OnTimeout opens the socket again.
FdConnect ==
    /\ thread = "loop" /\ mgmt = "connecting"
    /\ \/ daemon = "up" /\ mgmt' = "up" /\ UNCHANGED state
       \/ state' = "connecting" /\ UNCHANGED mgmt
    /\ UNCHANGED <<setupVars, startVars, thread, eventVars, pipeVars, hProcess, waitEvent,
                   daemon, msgVars>>

Connected ==
    /\ thread = "loop" /\ mgmt = "up" /\ state = "connecting" /\ state' = "connected"
    /\ UNCHANGED <<setupVars, startVars, thread, eventVars, pipeVars, hProcess, waitEvent,
                   daemon, mgmt, msgVars>>

FdClose ==
    /\ thread = "loop" /\ mgmt = "up" /\ daemon = "gone"
    /\ OnStop
    /\ thread' # "none" => UNCHANGED <<reading, readDone>>
    /\ UNCHANGED <<setupVars, startVars, waitEvent, daemon, msgVars>>

\* WM_OVPN_STOP
Disconnect ==
    /\ thread = "loop" /\ ~exitSet
    /\ state' = "disconnecting" /\ exitSet' = TRUE /\ stopTimer' = TRUE
    /\ UNCHANGED <<setupVars, startVars, thread, exitEvent, pipeVars, hProcess, waitEvent,
                   daemon, mgmt, msgVars>>

\* WM_TIMER: TerminateOpenVPN, if there is a handle, and OnStop.
StopTimeout ==
    /\ thread = "loop" /\ stopTimer
    /\ daemon' \in (IF hProcess = "open" /\ daemon = "up" THEN {"up", "gone"} ELSE {daemon})
    /\ OnStop
    /\ thread' # "none" => UNCHANGED <<reading, readDone>>
    /\ UNCHANGED <<setupVars, startVars, waitEvent, msgVars>>

BoxDone ==
    /\ thread = "box" /\ Cleanup
    /\ UNCHANGED <<setupVars, startVars, state, waitEvent, daemon, msgVars>>

-----------------------------------------------------------------------------
(* The service and the daemon (external) *)

Says(m) == inPipe' = Append(inPipe, m) /\ sent' = Append(sent, m)

others == <<useService, global, member, startVars, state, thread, eventVars, reading, readDone,
            readbuf, hProcess, waitEvent, mgmt, handled>>

ServiceAnswers ==
    /\ service /\ pipe = "open" /\ daemon = "asked"
    /\ \/ daemon' = "up" /\ Says("pid")
       \/ daemon' = "none" /\ Says("error")
    /\ UNCHANGED <<others, service, pipe>>

\* The daemon of this pipe is gone: its error, if it failed, and the end.
ServiceHangsUp ==
    /\ service /\ pipe = "open" /\ daemon \in {"none", "gone"} /\ pipe' = "broken"
    /\ Says("error") \/ UNCHANGED <<inPipe, sent>>
    /\ UNCHANGED <<others, service, daemon>>

ServiceStops ==
    /\ service /\ service' = FALSE
    /\ pipe' = IF pipe = "open" THEN "broken" ELSE pipe
    /\ daemon' = IF daemon = "asked" THEN "none" ELSE daemon
    /\ UNCHANGED <<others, inPipe, sent>>

DaemonExits ==
    /\ daemon = "up" /\ daemon' = "gone"
    /\ UNCHANGED <<others, service, pipe, inPipe, sent>>

-----------------------------------------------------------------------------
Init ==
    /\ useService \in BOOLEAN /\ global \in BOOLEAN /\ member \in BOOLEAN /\ service = useService
    /\ asking = FALSE /\ semaphore = TRUE /\ starts = 0
    /\ state = "disconnected" /\ thread = "none" /\ exitEvent = "null" /\ exitSet = FALSE
    /\ pipe = "null" /\ inPipe = <<>> /\ reading = FALSE /\ readDone = FALSE
    /\ readbuf = "none" /\ hProcess = "null" /\ waitEvent = "process" /\ daemon = "none"
    /\ mgmt = "closed" /\ stopTimer = FALSE /\ sent = <<>> /\ handled = <<>>

StatusThread ==
    ThreadStarts \/ ReadCompletes \/ OnService \/ OnProcess \/ FdConnect \/ Connected
      \/ FdClose \/ StopTimeout \/ BoxDone

External == ServiceAnswers \/ ServiceHangsUp \/ ServiceStops \/ DaemonExits

Next == StartOpenVPN \/ AuthorizeAnswered \/ Disconnect \/ StatusThread \/ External

\* The thread starts, its loop waits for one event, reads complete, the user closes
\* message boxes; timers run.
Fairness ==
    /\ WF_vars(ThreadStarts) /\ WF_vars(ReadCompletes) /\ WF_vars(OnService)
    /\ WF_vars(OnProcess) /\ WF_vars(FdClose) /\ WF_vars(StopTimeout) /\ WF_vars(BoxDone)
    /\ WF_vars(ServiceHangsUp)

Spec == Init /\ [][Next]_vars
FairSpec == Spec /\ Fairness

-----------------------------------------------------------------------------
(* Every variable has its type. *)
Messages == {"pid", "error", "broken"}
TypeOK ==
    /\ {useService, global, member, service, asking, semaphore, exitSet, reading, readDone,
        stopTimer} \subseteq BOOLEAN
    /\ state \in {"disconnected", "connecting", "connected", "disconnecting"}
    /\ thread \in {"none", "starting", "loop", "box"}
    /\ exitEvent \in {"null", "open", "closed"} /\ pipe \in {"null", "open", "broken"}
    /\ inPipe \in Seq(Messages) /\ readbuf \in Messages \cup {"none"}
    /\ hProcess \in {"null", "open"} /\ waitEvent \in {"service", "process"}
    /\ daemon \in {"none", "asked", "up", "gone"} /\ mgmt \in {"closed", "connecting", "up"}
    /\ sent \in Seq(Messages) /\ handled \in Seq(Messages) /\ starts \in 0 .. MaxStarts

\* OnService acts on every message of the service once and in the order they were
\* sent, and on the end of the pipe after the last of them, though there is one buffer
\* and the next read is queued before the message is looked at (OnService,
\* HandleServiceIO).
MessagesInOrder == IsPrefix(handled, Append(sent, "broken"))

\* A launch that failed, at whatever step, and a thread that ended leave no pipe, no
\* process, no event and no lock behind (LaunchOpenVPN, Cleanup, AuthorizeConfig).
NothingLeaks ==
    thread = "none" /\ ~asking =>
        pipe = "null" /\ hProcess = "null" /\ exitEvent # "open" /\ ~reading /\ semaphore

LaunchIsClean == MessagesInOrder /\ NothingLeaks

\* The end of a daemon that the GUI started itself ends the thread, before and after
\* the management interface has answered, and also during a disconnect (OnProcess).
DirectEndNoticed ==
    pipe = "null" /\ thread # "none" /\ daemon = "gone" ~> thread = "none"

\* OnTimeout keeps "trying unless killed by a startup error from service or from openvpn
\* daemon process" (openvpn.c:1577): the thread does not wait for ever for a daemon
\* that is gone.
DeadDaemonNoticed == thread = "loop" /\ daemon \in {"none", "gone"} ~> thread # "loop"
=============================================================================
