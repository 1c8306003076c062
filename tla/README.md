# OpenVPN GUI in TLA+

OpenVPN GUI for Windows starts, watches and stops `openvpn.exe` processes (the *daemons*), one per
*profile* (`connection_t`, options.h), talks to them over the OpenVPN management interface, and asks
the user for what they need.  These modules model its control: which thread does what when, what a
message that arrives inside another message's handler may find, what is left when one side ends
first.  TLC checks them on small instances; TLAPS proves the main safety properties for every value
of the constants.

    tlc -workers 2 -config Connection_direct.cfg MCConnection      # a run
    tlapm Connection_proofs.tla                                    # the proofs

## 1. The system

### Threads, and why the code is hard

* The **GUI main thread** (main.c): a message loop for the tray icon, menus, `WM_COPYDATA` commands
  of second instances, session lock and logoff, and a timer (`ManagePersistent`).
* One **status thread** per running profile (`ThreadOpenVPNStatus`, openvpn.c): a loop over window
  messages (buttons, timers, `WM_OVPN_*` requests, `WM_SOCKET` events of the management socket) and
  over one handle (the daemon's process, or the interactive service's pipe).
* The **daemons**, started by the GUI, by the interactive service, or (persistent profiles) by the
  automatic service, which keeps them running when the GUI lets go of them.

There are no locks.  The threads share `connection_t` (state, `hwndStatus`, flags, `auto_connect`)
and post messages to each other.  The real difficulty is not the two threads but the *nested message
pumps*: `MessageBoxExW`, `DialogBoxParam`, and `OVPNMsgWait` (misc.c, the wait for a script and for
connections to end) dispatch every other message of the thread inside the handler that called them.
The handler goes on afterwards with what it had read before.  Nothing in the C code shows this, and a
test hardly reaches it: it takes a script, a dialog, or a message box that is still open when the
network, the daemon, or the user does something else.

### Components

| Component | State | Operations | Talks to | Hard | Correct if |
|---|---|---|---|---|---|
| connection life cycle (openvpn.c) | `state`, `hwndStatus`, flags, `exit_event`, timers, buttons | start, stop, restart, release, detach; OnReady, OnHold, OnStateChange, OnStop, OnTimeout, OnProcess | main thread, daemon, scripts | both threads write `state`; pumps; lines under way when the user acts | one thread per profile; it can always be started again; a stop ends; what is shown is true |
| management queue and reader (manage.c) | `cmd_queue`, `connected`, `password`, `saved_data` | ManagementCommand, SendCommand, UnqueueCommand, OnManagement | daemon, all handlers | partial and blocked sends, answers with no identifier, two-part answers, re-entrant reads | FIFO; each answer to its own command |
| launching and exiting (main.c, scripts.c, openvpn.c) | all profiles, `auto_restart_list`, the icon | StartOpenVPN, LaunchOpenVPN, StopAllOpenVPN, CloseApplication, session end, auto-start | user, other instances, Windows | everything can be dispatched in the waits of everything | one launch per profile; exit ends and leaves nothing; what ran is started again |
| authentication dialogs (openvpn.c, proxy.c) | dialogs, `dynamic_cr`, failure counters, timer | OnPassword, OnInfoMsg, dialog procedures, AutoCloseHandler | daemon, user, saved passwords | modal dialogs in the reader, state changes that end them, refusals, challenges | the question that waits is the one shown; no refused password is repeated |
| saved passwords (save_pass.c, registry) | registry values, `FLAG_SAVE_*` | Save/Recall/Delete, ResetSavePasswords, echo directives | dialogs, menus, daemon | three writers | kept only if wanted and allowed; bare |
| launching a daemon (openvpn.c, access.c) | `iserv`, `exit_event`, `hProcess`, group membership | LaunchOpenVPN, HandleServiceIO, OnService, OnProcess, AuthorizeConfig | interactive service, daemon | completions in alertable waits, one buffer, eight ways to fail | every message once; nothing left behind; a dead daemon is noticed |
| echo messages (echo.c) | text, digests, registry value | `echo msg*`, persist, recall | daemon, registry, message window | repeated messages, threads that end and start, late windows | not shown twice within the mute interval |
| profiles and menus (openvpn_config.c, tray.c) | list, groups, menus, positions | BuildFileList, CreatePopupMenus, SetMenuStatus | files, status threads | positions used long after they were counted | every profile reachable, marks on the right items |
| script environment (env_set.c, scripts.c) | sorted list | insert, delete, merge, start of a script | echo `setenv`, scripts | case, replacement, two copies of the code that starts a script | sorted, one entry per name, the server's value |
| PKCS#11 selection (pkcs11.c) | certificate list | OnPkcs11, list and get commands, dialog | daemon, user | a list shared by dialogs that overlap | what is sent is what was picked |
| proxy settings (proxy.c) | `o`, registry, page | the page, OnProxy | user, status threads, Windows | two proxies in one pair of fields | a proxy that can be used |
| profile import (as.c, misc.c, main.c) | dialogs, temporary file | download, challenge, copy, rescan | server, user, other instances | everything nests in everything | nothing replaced unasked, nothing left |
| start-before-logon (plap/) | COM objects, progress dialog, `active_profile` | Connect, Disconnect, AddRef, Release, DeleteUI | LogonUI, the same connection code | the logon screen waits on threads it does not control; reference counts | the wait ends; no silent question; objects live as long as they are used |
| configuration parser, registry, localization, log viewer, QR code, command line | display, settings, text | - | - | - | - |

PROJECT.json lists each with what of it is modelled, and under "hazards" every place where the code is
exposed, with the property that watches over it or the reason why none does.

## 2. Modules

    MgmtChannel <--refines-- MgmtQueue      Connection       Auth          Session
        (abstract)              |               |              |              |
                         MgmtQueue_proofs  Connection_proofs  Auth_proofs  Session_proofs

    MgmtReader  Launch  Profiles  Pkcs11  Echo  EnvSet  Proxy  Import  PlapConnect  PlapObjects
        \_______ all instantiated side by side in Desktop (values: MCDesktop); Launch also in MCLaunch

    Desktop_proofs  extends Desktop, and uses MgmtReader_proofs, Launch_proofs, PlapObjects_proofs
    Picks           one operator of Profiles, Import and EnvSet: the elements of a sequence that are in a set, in order

The modules meet at named interfaces rather than in one product, which would have no useful size.
`Connection` sends its commands through a FIFO channel `out`; `MgmtQueue` shows that the real list is
one (`IsChannel`), provided that answers are read in order, which `MgmtReader` looks into.  `Connection` has one profile and every message of its thread; `Session` has all
profiles and every wait of the main thread, and keeps of each status thread only what the main thread
can see.  `Auth` looks inside the handler of two notifications that `Connection` reads in one step.

### Connection

One profile.  `thread`, `hwnd`, `quit` follow `ThreadOpenVPNStatus` from `CreateThread` to `Cleanup`;
`posted` is the window's queue of `WM_OVPN_*` messages; `frames` is the stack of nested pumps, innermost
first: while a frame is there any other message may be handled, and the code behind the pump runs when
its frame is the head.  `disconnectBtn`, `restartBtn`, `stopTimer`, `exitEvent`, `sk`, `ready`, `pw`,
`autoConnect`, `waitUnlock`, `locked` are the fields and handles of these names in the code.  `daemon`,
`mi`, `lines` and `out` are the external side: what openvpn does, its management interface, its unread
lines and the commands on their way.

Actions are the handlers: `StartOpenVPN`, `StopOpenVPN`, `RestartOpenVPN`, `DetachOpenVPN`, `ManagePersistent`,
`HandleSessionLock/Unlock` in the main thread; `HandleMessage` and the buttons, `StopTimeout`, `ConnectTimeout`,
`ProcessExit`, `Fd*`, one `Read*` per kind of line, and the `*Done` actions behind each pump in the status
thread.  `OnStop` is one operator with the cases of its switch.

### MgmtQueue, MgmtChannel

The list of commands of manage.c.  `queue` holds what `mgmt_cmd_t` holds: the command, the part `send` has
not taken (`left`), its type.  `SendCommand` sends the head if the socket is up and nothing blocks;
`UnqueueCommand` removes it on its last answer, or makes the *combined* command wait for its second one.
The socket may take part of a command or none (`FD_WRITE` follows only a send that would block, as Windows
says).  `MgmtChannel` is what callers may assume: every command whole, once, in order, or the connection
ends and all that was not delivered is dropped.  The refinement mapping hides the head once the daemon has it.

### MgmtReader

The other half of manage.c: how output is cut into lines.  `buffers` is the stack of activations of `OnManagement`,
each with the rest of its buffer and whether a handler pumps messages in it; `saved` is `saved_data`.  `FdRead`, `HandleLine`,
`HandlerReturns` and `SaveRest` are the loop over the lines, which goes on after a nested read and even after a nested
`CloseManagement`.  A line has two pieces, so that output can be cut inside it; an answer is data and an end.

### Auth

The questions of one attachment.  `dialogs` is the stack of modal dialogs, each with the rest of the buffer
that its caller still has to read: lines behind a question wait for its dialog, lines of later buffers are
read inside it.  `EndDialog` on a dialog below another one only closes it; it returns later.  The timer that
presses OK, the two failure counters, dynamic challenges with their number, the box of the dialog, echo
directives, `ResetSavePasswords` and a daemon that accepts, refuses, restarts and moves on complete it.

### Session

All profiles, over several sessions of the program.  `frames` is the stack of the main thread's waits: the
pre-connect script inside `StartOpenVPN` (`pre`), the question before exit (`ask`), `StopAllOpenVPN` (`stopall`,
`destroy`, `endsession`) and `WM_CREATE` (`auto`).  `Dispatch` is what may be handled in them.
`StartOpenVPN(c, below)` is the function with the stack below the frame it may push.  `list` is the registry
value of `SaveAutoRestartList`, the only thing that survives the process.  Of a status thread there is left:
its window opens and closes, the connection attaches and finishes.

### The desktop modules

Nine modules for the parts around the connection (and `MgmtReader`).  They share no state with each other (each touches a part of
`connection_t` or `o` that nothing else writes, or only the thing named in its header), so their product says nothing
that they do not say alone: `Desktop` instantiates all ten, with the constants of all, and lets the initial state choose
which one moves; `MCDesktop` and `Desktop.cfg` give the constants values.

* **Launch**: from `StartOpenVPN` to the first byte of the management interface, for a daemon the GUI owns.  `pipe`, `inPipe`,
  `reading`, `readDone`, `readbuf` are `c->iserv`: the asynchronous read completes (`ReadCompletes`) in an alertable wait,
  `OnService` copies the one buffer, queues the next read and acts on the copy.  `ReadFileEx` may fail at once.  The
  question of `AuthorizeConfig` and its lock are part of the start; service and daemon are external.
* **Profiles**: `Scan` is `BuildFileList` over the directories in the order of the recursion, `Activated` is
  `ActivateConfigGroups`, `CreatePopupMenus` computes the items of every menu and, separately as the code does, the places
  `SetMenuStatus` will use.  Files, directories and the automatic service change at any time.
* **Pkcs11**: `list` is `c->pkcs11_list`, `dialogs` the stack of dialogs with their timers and rows, `requests` the commands
  under way.  Certificates carry the time the token was changed, so that a stale one can be told from a new one; `settled`
  remembers of a dialog whether an answer was still to come when its rows were inserted.
* **Echo**: `history` is the list in memory, `stored` the registry value, `pending` a window message whose sender gave up.
* **EnvSet**: names are numbers in the order of the comparison with the case they are written in; `Merge` follows the two
  pointers of `merge_env_block`.  `RunConnectScript` passes the merged block on, `RunDisconnectScript` does not (scripts.c:330).  The
  pre-connect script inherits the GUI's environment by design (scripts.c:95) and is not an action here.
* **Proxy**: `page` holds the controls, `opts` the global options, `registry` what is stored.
* **Import**: `loops` is the stack of modal loops of the main thread, `tmp` the files in the temporary directory.
* **PlapConnect**: `pc`, `cur`, `res` are LogonUI's thread in `Connect`, `Disconnect` and `DeleteUI`; each profile has a status
  thread and a daemon as in `Connection`, with less detail.  The handlers are those ui_glue.c installs.
* **PlapObjects**: `refs` are the counts of provider and tiles, `held` the references of the client, `dllRefs` the count
  `DllCanUnloadNow` looks at; `semaphore`, `richEdit`, `ui` what `InitializeUI` and `DeleteUI` leave.

## 3. Runs

| Run | Bounds | Distinct states | Shows |
|---|---|---|---|
| `direct` | 1 fault, 2 posted, 2 commands, 3 lines | 334,816 | `TypeOK`, `IdleWithoutThread`, `StopHasDeadline`, `ConnectedIsTrue` for a daemon the GUI starts, without scripts |
| `persistent` | same, 2 lines | 707,909 | `OneThread`, `HoldIsShown`, `AlwaysStoppable` for a daemon of the service |
| `scripts` | 1 fault, 1 posted, 1 command, nesting 2 | 84,746 | `FinishedWindowHasPopup`, `StopReachesDaemon`, and `StopEnds` (liveness) with scripts |
| `mgmt_queue` | 3 commands, one combined, of 2 pieces; 4 issued | 6,022 | `ReplyToHead`, `NeverStuck`, `IsChannel` (refinement), `Delivered` (liveness) |
| `auth` | 2 questions, 3 lines, 2 other events, 3 settings | 2,289,175 | `TypeOK`, `RequestShown`, `SavedIsBare`, `NothingSavedIfDisabled`, `AutoNotAfterRefusal`, `StaysWanted` |
| `session` | 3 profiles, 3 commands, nesting 3, 2 sessions | 1,421,762 | `TypeOK`, `OneThreadEach`, `IconShown`, `RestartsWhatRan`, `Leaves` (liveness) |
| `desktop` | see below | 560,799 | fifteen properties of the ten modules in it, four of them temporal |

Why these bounds are enough to see the interesting cases: a race in `Connection` needs one message under way
while another is handled, a line behind it, and one pump inside another; two of each is the least that has
them all, and one fault is a crash or a lost link at every point.  Two pieces per command are the least that can
be cut; three commands the least with one before and one behind a combined one.  Two questions give a dialog
above another one and the challenge of a later failure.  Three commands are a start, an exit inside it, and a
command inside that; of the three profiles one has a pre-connect script, one is persistent, one is plain.

The instances of `desktop` (`MCDesktop`, `Desktop.cfg`), with the distinct states of each:

| Module | Instance | States | Properties |
|---|---|---|---|
| PlapConnect | 2 profiles, one of them with a bad management address; 1 posted, 2 commands, 1 line, 1 fault | 271,468 | `LogonAttended`, `CancelReturns`, `DialogCloses` |
| PlapObjects | 2 providers one after the other, 2 profiles, 1 reference, allocation faults | 656 | `ObjectsAreCounted` |
| Profiles | 2 names, 2 nested directories, 1 edit | 103,134 | `ProfilesReachable`, `UpIsMarked` |
| Launch | 2 starts, all settings | 6,308 | `LaunchIsClean`, `DirectEndNoticed` |
| Pkcs11 | 2 certificates, 2 questions, 1 change of token, 1 Retry | 98,516 | `AnswerIsChosen` |
| Echo | 1 text, 2 digests in the registry, 1 tick, 3 messages, 2 threads | 38,684 | `NotTwice` |
| EnvSet | 2 names in 2 cases, 2 values, 3 messages | 8,676 | `ConnectEnvironment` |
| Proxy | 4 lists of up to 3 tokens, 6 edits, 1 question | 2,453 | `ProxyUsable` |
| Import | 2 imports, 1 name, 2 edits | 3,974 | `ImportIsCareful` |
| MgmtReader | 3 lines of 2 pieces, 3 activations, 2 connections | 26,930 | `ReadsLines` |

Two profiles are an active tile and another; two names in two directories one inside the other are the least
with a duplicate, a group that is squashed and one that is not; two dialogs over one list with one change of the token make a
stale answer; one import inside another's question is the least that nests; three lines are an event and an answer behind it.  `TypeOK`
of the run is that of all ten.  `ReadsLines` excuses what is read while an outer buffer ends inside a line or an answer.

Some properties name what they excuse, by a history variable, because the code is wrong there:

* `RequestShown` excuses, once in a run, a question that was *closed* with X or could not be parsed (openvpn.c:1062, 1507); a
  question whose predecessor's answer the daemon took for its own (*crossed*: two dialogs of a kind are answered in the
  order of the stack, and the GUI's answers carry no number); and a challenge that was *dropped*: a dialog of an older challenge
  clears `dynamic_cr` when it returns, also if a later refusal has set it since, and a question read late from the rest
  of an old buffer uses up a challenge that belongs to a later one.  `AutoNotAfterRefusal` excuses what is crossed.  The last two need
  four questions to happen, more than the run has: they were found in the attempt to prove the properties without them.
* `AnswerIsChosen` excuses rows inserted while an answer was still to come.  Without it (`AlwaysChosen`) three questions and a
  change of the token suffice to send the id of another certificate than the one picked; this too a proof attempt found.
* `NotTwice` says nothing of threads that ended unsaved, nor once more messages were shown than the registry keeps.

Every checked property is known to fail for a plausible mistake in the code: the modules keep that mistake as a
definition next to the original ("Mutant of ..."), and PROJECT.json says which run refutes which.

Deadlock is checked in `Connection` and `MgmtQueue`.  It is not in `Auth`, which ends with the daemon's exit, in
`Session`, which ends with the last session, nor in the desktop modules, whose users stop at their bounds.

### Disagreements between the code and what it says

| Run | Line | What happens |
|---|---|---|
| `stuck` | openvpn.c:416 | `state = connected` after the connect script's pump, in which the connection may have ended: the profile has no thread, is not idle, and can never be started again.  The same line makes `ConnectedIsTrue` hold only without scripts: a RECONNECTING read in the pump is overwritten too. |
| `hold_retained` | openvpn.c:161, 416 | A CONNECTED or RECONNECTING line under way when the user disconnects overwrites `disconnecting`, and `OnHold` releases the hold it promises to retain. |
| `auth_late` | openvpn.c:809 | `EndDialog` of a dialog below another one only hides it; its timer still presses OK and sends the saved password. |
| `session_left` | openvpn.c:2987 | An exit inside the pre-connect script's pump finds nothing to stop; the daemon is launched after it and left behind. |
| `service_loss` | openvpn.c:2031 | `OnService` handles the daemon's pid and queues the next read on a pipe that is closed by then: `ReadFileEx` fails at once, no completion comes, and the thread waits for ever for a daemon that is gone. |

Others have no run.  In the models, with the property that fails where a module states one:

* main.c:560: the re-attach timer uses up `auto_connect` even if the window of the previous attachment is still closing.
* manage.c:327: Reconnect before the password was asked for sends `signal SIGHUP` as the password; the second request
  is taken for a wrong password.
* openvpn.c:2987: a second start inside the pre-connect script's pump passes the tests of the first one: two threads and
  two daemons share one `connection_t`.
* manage.c:344 (`LinesWhole`, `AnswersInOrder`, `NothingLost`): where a buffer ends in the middle of a line, the buffer read inside one
  of its handlers begins with the rest of that line, and neither is understood; where it ends in the middle of an answer, the end
  is handled first, so that the data goes to the next command.  A part saved after a nested close starts the next connection.
* ui_glue.c:439 (`NoThreadWhenFreed`): a status thread that has no window yet survives `DeleteUI`, which frees its profile.
* ui_glue.c:145 (`HoldRetained` of PlapConnect): the answer to `OnReady`'s state query goes around `OnStateChange_`.
* ui_glue.c:184 (`ReadyWhenAsked`): the test for the rich edit library is inverted; a second provider in the process fails,
  and keeps the semaphore.
* openvpn_config.c:377 (`FoundIsUsable`): a file moved to another directory keeps its old, disabled entry.
* pkcs11.c (`AnswerIsCertificate`, `RoomForAll`, `AlwaysChosen`): the id of an undecodable certificate is freed and can be picked; a second
  answer to the count, after a Retry, may exceed the list that was allocated for the first; answers to a listing that was given
  up fill the next list, and those to its own then change it under the rows the user sees.
* openvpn.c (`RequestShown`): see `crossed` and `dropped` above.
* echo.c:305 (`MutedWasShown`): a message whose window timed out is muted later as if it had been seen.
* proxy.c (`spinning`): a `[` without `]` in Windows' proxy list is scanned for ever.
* scripts.c:330 (`DisconnectEnvironment`): "make an env array with confg specific env appended to the process's env", says line 319,
  and `RunDisconnectScript` makes it; but `CreateProcess` is given NULL where `RunConnectScript` gives `env` (line 198), so that
  `_down.bat` never sees a variable of the server.  One `setenv` and the script are enough for TLC to show it.
* misc.c:793 (`ImportedIsListed`): a file imported under the name of a system profile is copied and never listed.

### Fairness

* `Connection`: weak fairness of the status thread's own steps (messages, lines, the stop timer, the process
  handle, the end of a wait).  Windows delivers posted messages and timers; `OVPNMsgWait` has a time limit; the user
  closes message boxes.  Nothing is assumed of the daemon: a stop must end even if it hangs (`KillMayFail`
  is FALSE there: `TerminateProcess` of a process the GUI started).
* `MgmtQueue`: the status thread handles `FD_WRITE` and `FD_READ`, the daemon reads and answers.  No fairness
  of the callers.  `Delivered` excuses a command cut short, which nothing resends (hazard manage.c:109).
* `Session`: each wait of the main thread ends (script time-out, 20 rounds of 250 ms, the message loop), and
  the user answers the question before exit.  None for users' commands, status threads or daemons: `Leaves`
  shows that the program gets away from connections that never end.

* `PlapConnect`: LogonUI's own thread runs and its waits have limits (100 ms, the dialog's 200 ms timer, 5 s).  None for status threads,
  daemons or the user: `CancelReturns` and `DialogCloses` hold although they do nothing.
* `Launch`: the status thread starts and its loop runs, asynchronous reads complete, the user closes message boxes, and
  the service closes the pipe of a daemon that has ended.  None for the daemon.

## 4. Proofs

All theorems hold for every value of the constants that satisfies the named assumption of the module.  The assumptions only
state the types of the constants (`BoundsAssumption`: the bounds are natural numbers), that profiles with a pre-connect script are not persistent (`LaunchOpenVPN` is not called
for those), that LogonUI knows finitely many providers and profiles, that the fields of the proxy page may be empty, that no value of a script's
variable is the mark for an unset one, and (`MenuAssumption`) that
the directories are a tree which the scan walks through once, each directory after the one it is in, and that no profile is named
like one of the two fixed groups.  The last is a restriction: openvpn_config.c:266 takes a group whose only profile has the name of the
group out of the menu, and a lone persistent profile named "Persistent Profiles" would be left without one.
Where a theorem has a condition on a setting (`~Scripts`, `~KillMayFail`), the run that checks the property has it too.

**Connection_proofs.**  `TypeCorrect`: all variables keep their types; lemmas split it into flags and data, and by
thread.  `ThreadLife`: `ThreadInv`, the facts the code relies on around the status thread's life; it is inductive
given the types.  `AtMostOneThread` follows: `OneThread` alone is not inductive, since a start looks at the
window and the state, not at the thread.  `Restartable`: without scripts, a profile without a thread is
idle; `IdleInv` adds that a destroyed window is idle and that only message boxes are on the stack.  With scripts
it is false (run `stuck`).  `StopDelivered`: an accepted stop sets the exit event, or its script is still waited for.
`WindowGoes`: the window of a finished connection is open only behind a message box.  `StopTimed`: an accepted stop has
its deadline.  `DeadlineInv` says it without the message box: the timer is set, or the script before it is waited for, as
long as the window is open and the daemon there; it needs that a stop is never accepted while the thread is starting
and that a daemon that is gone does not serve its interface (`MiInv`).

`HoldShown`, `ConnectedShown` and `Stoppable` are about the moments in which all that was said has been heard (`HoldIsShown`,
`ConnectedIsTrue`, `AlwaysStoppable`).  For those one must know at every other moment what is still on its way, and in which
order: `SyncInv` relates `state`, the buttons and the daemon to the lines and the commands under way.  `SockInv`: a socket has a
thread, and starts with password prompts only.  `HeldInv`: while the daemon waits in its hold, the GUI shows it, will
read of it, or has sent what ends it, and a "connected" still to be read is older.  `ConnectedInv`: what is shown as connected was
written on this connection, and a daemon that has left it has said so.  `ButtonInv`: where Disconnect is disabled the daemon is
or will be held, and nothing under way takes it out.  `DirectInv`: or the stop timer runs.  The elements of `lines` and `out` are counted by
`Has` and ordered by `Followed`, and lemmas say once what an append or a removal does to both.

**MgmtQueue_proofs.**  The inductive invariant is `TypeOK /\ WireInv /\ KindInv /\ ReplyInv`.  `ReplyToHead` says
that an answer belongs to the head; for that one must know what of the head is on the wire (`WireInv`), which
commands still owe two answers (`KindInv`), and that the unread lines are one answer of a head that has been taken
(`ReplyInv`).  `SendEffect` says once what `SendCommand` does to any list, and each action that sends uses only
that.  `RightCommand` and `ImplementsChannel` (initial states and every step of the list map to `MgmtChannel`) follow.
`SomethingMoves` (`NeverStuck`) assumes that no combined command is refused; its `WaitInv` says why something will move the list:
a taken head has its answer under way, two ends of it if it is combined, and a head of which nothing is sent has its `FD_WRITE`.

**MgmtReader_proofs.**  `TypeCorrect` and `ReadsAllLines` (`ReadsLines`), at any depth of nesting.  The activations, the saved part and the
unread output form one stream; `RInv` says that pieces and lines are in order along it (`Ordering`), that every line written was
handled once or is still in it (`Counting`), that the only line cut is at the end of what was read (`Cutting`), and which
answers the command in front still waits for (`Answering`).

**Auth_proofs.**  `IInv` has one part per group of variables.  It is stronger than the types where the properties need it: the
password of a dialog is what the user typed or the registry held, never one with a response appended (`BareSaved`), and
where saving is disabled the flags stay clear too (`SavingDisabled`), so that no dialog and no echo directive can save.
`WantedStays` is an action property: each step that changes a flag or the registry keeps what is saved wanted.
`NoAutoRetry` (`AutoNotAfterRefusal`, an action property) needs that whatever answers a question is older than the next one (`Numbers`), and that
outcomes are read in order and before the next question (`InOrder`), so that a refusal is counted before a dialog can press its own OK.
`QuestionIsShown` (`RequestShown`) says where the question is at every moment: in the output, in the buffer, in the rest that waits
for the innermost dialog, in that dialog, or answered (`Found`), behind it only lines that do not end a dialog; and that its challenge is the
latest one and not dropped (`Fresh`).  `Moves` says once how lines and dialogs move in a step, so that each part is proved of few cases.

**Session_proofs.**  `TypeCorrect` and `StartedOnce` (`OneThreadEach`).  The invariant `ThreadCount` counts: a profile
without a pre-connect script has exactly one thread while it is not idle or its window is there.  The proof
needs that only profiles with such a script are waited for (`FrameSet`): otherwise the start behind a wait
would go on with a test that is no longer true (openvpn.c:2987).  `IconStays` (`IconShown`) is inductive with them.
`ListRestarted` (`RestartsWhatRan`) follows from `Listed`: a program that leaves has saved the list of what ran, and no wait that leads to
the end of the session is there before it leaves.

**Launch_proofs.**  `TypeCorrect`, and `CleanLaunch` (`LaunchIsClean`).  Its part `LeavesNothing` says nothing of the moment in which the
user is asked for authorization, when the event is open and the lock taken without a thread; `LInv` ties them to that question.  `PipeInv` follows
a message from the service's write to its handler: what was sent is what was handled, then the buffer, then the pipe.

**PlapObjects_proofs.**  `TypeCorrect` and `Counted` (`ObjectsAreCounted`), for any number of providers, profiles and references.
`OInv` counts what each object owes its life to (`CountedOnce`: the client's references, and one for the array it is in) and what
`dll_ref_count` counts.  That tiles have profiles needs that LogonUI has one provider at a time (`~Overlap`).

**Desktop_proofs** states the properties of the run `desktop` for its specification.  Seven components have their invariants here.
`LogonIsAttended` (`LogonAttended`): `Attended` says of each profile where its question, or the end of its connection, still is:
in a line, a command, a message, or in `query`.  `ShownOnce` (`NotTwice`): `Remembered` says that what was shown is in the history of the
thread that runs, or stored; that needs that a digest is there once (`OnePerDigest`) and that the list never outgrows what the registry
keeps.  `AnswersAreChosen` (`AnswerIsChosen`): only the innermost dialog can be open (`OneOpen`), the rows of a settled one are
those of a list that nothing changes any more (`RowsAreTrue`), and nothing happens between OK and the return (`PickIsTrue`).
`ProxiesAreUsable` (`ProxyUsable`): settings in force and settings stored are complete.

`ImportsAreCareful` (`ImportIsCareful`): an import that asks waits in a loop it has entered (`Asked`), and the file in the temporary directory is that
of a download that asks about it inside the loops of every other one that saved under this name (`Saved`).  So the one that goes
on first finds its own file, takes it away, and leaves nothing the others could take for theirs.

`MenuReaches` (`ProfilesReachable`) and `MenuMarks` (`UpIsMarked`) hold for any tree of directories, any files and both views.  `MenuInv` says three things.
The list is *fine* (`FineList`): names are unique, and the groups of its entries are groups whose parents are groups too (`FineGroups`); a scan keeps
that, whatever it adds to a list whose groups stay (`ScanKeeps`).  From the root menu to every profile, the place that the code counted for a
group or profile is the one at which its item was appended (`LeadsAll`, from `LeadsToGroup` and `LeadsToProfile`: an item's
place is the number of items appended before it).  And the profiles that are up are marked all the way (`MarksAll`).  A profile that
goes down takes only its own mark: since every place leads to its own item, that item is in no chain of another profile (`Apart`).

`ConnectScriptSeesWhatIsMeant` (`ConnectEnvironment`) is about the connect script alone (of the disconnect script it is false, see section 3) and
holds for any list, any environment of the GUI and any number of messages.  `EnvInv`: both lists are sorted,
and the server's holds exactly what it last set (`EnvHolds`), which `Insert` and `Delete` keep.  `Merged` says what `Merge` makes of what is left of the
two lists at any two places of its pointers: sorted, all of the list, of the block what the list does not cover, and its entries
with the empty name at their places.  It holds where one list is over and goes back one step from each place (`ListNext`, `BlockNext`), so it
holds at the first places (`MergeGood`).

Induction over data is stated first-order here: of a set of numbers (`NaturalSet`, `LeastNatural`), of a fold over a sequence
(`FoldExists`, `FoldStays`), and of a function defined along a way that descends (`Recursion`, `Descent`), which is how the functions on the tree of
directories (`RootOf`, `Reached`, `Ancestors`) and the one `Merge` computes are known to exist.  `OnlyRanks` says of `Only` where each element it picks is found.  `SelectSeq` has no meaning
for the prover, which is why these modules use `Only`.

`ClientIsCounted`, `LinesAreRead` and `LaunchesAreClean` carry the theorems of PlapObjects, MgmtReader and Launch over: a step of the desktop is a step
of the component, or leaves its variables alone (`ObjectsRun`, `ReaderRuns`, `LaunchRuns`).

`TypeCorrect` (`TypeOK`): the types of the ten components.  The invariants above hold most of them; `PlapRest`, `EchoBounds`, `CertBounds`,
`ProxyBounds` and `EnvBounds` add what they leave open, which is mostly that a counter stays within its bound, and are kept beside them.  The types of
the other three come with what is carried over.

**Only model-checked**:

* liveness and whatever needs ENABLED (`StopEnds`, `Delivered`, `Leaves`, `CancelReturns`, `DialogCloses`, `DirectEndNoticed`).

Bounds of the components were also raised by one in single runs of the module (three imports, three names and four
messages in EnvSet, two edits of the files), with the same result.

## 5. What is abstracted, and what is not modelled

* The daemon and the server are external: any order of answers the GUI's code provides for.
* Lines are names.  Their text, the status window's log, menus, icons (but for its presence in `Session`), balloons and
  resources are left out.  A `FD_READ` brings one line in `Connection`; buffers of several lines matter in `Auth`
  and are there.
* Commands the code always issues together are one element of `out` (header of `Connection`).
* Time is a choice: a timer or a wait may end whenever it is set.
* `Session` lets Windows end the process after `WM_ENDSESSION`; a logoff that is cancelled afterwards is a hazard
  without a property.  `suspending`, `suspended`: no code posts `WM_OVPN_SUSPEND`, the states are unreachable.
* In `Session` the boxes that report a failed start are not waits, the icon is not re-registered when the taskbar
  restarts, and `ErrorExit` is left out.
* In `Connection` the status window is always made whole: that `WM_INITDIALOG` fails to attach the connection or to make
  the log window (openvpn.c:2415 to 2450) is left out.
* `Connection` launches in one step; how is in `Launch`.  There the pipe is that of OpenVPN 2's interactive service, a message pipe, and
  carries whole messages.  The agent of OpenVPN 3 (built only with `CLI_OVPN3`, off by default), whose pipe is read as bytes
  (openvpn.c:1971), is not modelled.
* `PlapConnect`: a management socket that is refused is tried again for ever, since its daemons are persistent (manage.c:226): the
  connection stays as it is, and `OnTimeout`, which ui_glue.c installs too, is not called for them.
* `MgmtQueue`: a combined command that is refused stops the list for good (manage.c:471).  No property covers that: `ReplyToHead` holds
  all the same, and `NeverStuck` is checked and proved under `~CombinedErrors`.
* `Auth`: `StaysWanted` excludes the time between the two steps of `ResetSavePasswords` (openvpn.c:3470), whose race it would report.
* `Profiles`: the depth limit of the recursion, the warnings and more than 25 profiles (the automatic choice of the view) are left
  out; the view is a switch.  `Import`: HTTP, URL syntax and the rules for profile names are an outcome.  `Proxy`: WinHTTP and PAC
  scripts are external.  Allocation failures are modelled only in `PlapObjects`.
* Not modelled, as there is no state that steps of several actors share: localization, log viewer, QR code drawing, tray icon and
  balloons, the registry as such, DPAPI, parsing of the command line.  The configuration parser is a pure function of text.

## 6. Plan

1. Merge `direct`, `persistent` and `scripts` by choosing the settings in the initial state, as `Auth` does.
2. Liveness of re-attachment (main.c:539) over `Session`, under the timer's fairness.
3. A run for `DisconnectEnvironment`.
