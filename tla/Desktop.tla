-------------------------------- MODULE Desktop --------------------------------
(***************************************************************************)
(* The components of the program that do not share state with each other,  *)
(* side by side: "which" names the one that runs, the others stay as they  *)
(* were at the start.  Constants and variables that two of the modules     *)
(* name alike are told apart by a prefix.                                  *)
(***************************************************************************)
EXTENDS Naturals, Sequences, FiniteSets

Components == {"plap", "objects", "profiles", "launch", "pkcs11", "echo", "env", "proxy", "import",
               "reader"}

VARIABLE which

-----------------------------------------------------------------------------
(* The start-before-logon provider *)

CONSTANTS Profiles, Startable, MaxPosted, MaxOut, MaxLines, MaxFaults

VARIABLES pc, cur, res, active, pState, pThread, ready, posted, button, query, out, lines,
          pDaemon, holdFlag, stopAsked, faults
Plap == INSTANCE PlapConnect WITH state <- pState, thread <- pThread, daemon <- pDaemon

CONSTANTS Providers, MaxRefs

VARIABLES dllRefs, factory, locks, refs, held, made, conns, answer, stale, ui, oSemaphore, richEdit
Objects == INSTANCE PlapObjects WITH Overlap <- FALSE, Faults <- TRUE, semaphore <- oSemaphore

-----------------------------------------------------------------------------
(* The profiles and their menu *)

CONSTANTS Names, SubDirs, ParentDir, Walk, MaxFileEdits

VARIABLES files, present, autoService, profiles, groups, menu, pos, gpos, marked, nested, built,
          onScreen, up, fileEdits
Menus == INSTANCE Profiles WITH
            MaxEdits <- MaxFileEdits, service <- autoService, list <- profiles,
            shown <- onScreen, edits <- fileEdits

-----------------------------------------------------------------------------
(* The launch of a connection *)

CONSTANT MaxStarts

VARIABLES useService, global, member, service, asking, semaphore, state, thread, exitEvent,
          exitSet, pipe, inPipe, reading, readDone, readbuf, hProcess, waitEvent, daemon, mgmt,
          stopTimer, sent, handled, starts
Starting == INSTANCE Launch

-----------------------------------------------------------------------------
(* Certificates, echo messages, script environment, proxies and imports *)

CONSTANTS MaxCerts, MaxAsks, MaxChanges, MaxRetries

VARIABLES token, question, requests, certs, dialogs, answers, asks, retries
Tokens == INSTANCE Pkcs11 WITH list <- certs

CONSTANTS Lines, Titles, MaxText, Mute, MaxHistory, MaxTime, MaxShown

VARIABLES running, text, history, stored, pending, shown, eThread, tried, lost, now
Messages == INSTANCE Echo WITH thread <- eThread

CONSTANTS MaxName, Cases, Values, MaxEcho

VARIABLES es, process, ran, meant, echoes
Env == INSTANCE EnvSet

CONSTANTS Fields, Usable, WinLists, MaxPageEdits, MaxTold

VARIABLES opts, registry, page, told, spinning, pageEdits
Proxies == INSTANCE Proxy WITH
              MaxEdits <- MaxPageEdits, MaxAsks <- MaxTold, answers <- told, edits <- pageEdits

CONSTANTS Jobs, Files, MaxDiskEdits

VARIABLES job, loops, tmp, disk, known, copied, diskEdits
Imports == INSTANCE Import WITH
              Names <- Files, MaxEdits <- MaxDiskEdits, list <- known, edits <- diskEdits

-----------------------------------------------------------------------------
(* The reader of the management interface *)

CONSTANTS MaxUnread, MaxDepth, MaxOpens

VARIABLES linkUp, opens, unread, saved, buffers, cmd, calls, written, half, owed, torn
Reader == INSTANCE MgmtReader WITH MaxLines <- MaxUnread, up <- linkUp

ASSUME DesktopAssumption ==
    /\ Startable \subseteq Profiles
    /\ IsFiniteSet(Providers) /\ IsFiniteSet(Profiles)
    /\ Providers \cap Objects!Tiles = {}   \* a provider is not a pair of two things
    /\ MaxRefs \in Nat \ {0}
    /\ Mute \in Nat /\ MaxHistory \in Nat
    /\ MaxUnread \in Nat /\ MaxDepth \in Nat /\ MaxOpens \in Nat
    /\ MaxCerts \in Nat /\ MaxAsks \in Nat /\ MaxChanges \in Nat
    /\ "" \in Fields    \* the fields are empty at first

\* The directories are a tree, and each is met once, after the one it is in; no profile
\* has the name of the group of system or of persistent profiles.
ASSUME MenuAssumption ==
    /\ IsFiniteSet(Names) /\ Names \cap {"global", "auto"} = {} /\ MaxFileEdits \in Nat
    /\ SubDirs \cap Menus!Roots = {} /\ ParentDir \in [SubDirs -> Menus!Dirs]
    /\ Walk \in Seq(Menus!Dirs) /\ \A d \in Menus!Dirs : \E i \in DOMAIN Walk : Walk[i] = d
    /\ \A i, j \in DOMAIN Walk : /\ Walk[i] = Walk[j] => i = j
                                 /\ Walk[j] \in SubDirs /\ ParentDir[Walk[j]] = Walk[i] => i < j

\* A value is not "unset".
ASSUME EnvAssumption == MaxName \in Nat /\ "unset" \notin Values

ASSUME ImportAssumption == MaxDiskEdits \in Nat

\* What the bounds of the other components are.
ASSUME BoundsAssumption ==
    {MaxFaults, MaxStarts, MaxRetries, MaxTime, MaxEcho, MaxPageEdits} \subseteq Nat

-----------------------------------------------------------------------------
plapVars == <<pc, cur, res, active, pState, pThread, ready, posted, button, query, out, lines,
              pDaemon, holdFlag, stopAsked, faults>>
objectVars == <<dllRefs, factory, locks, refs, held, made, conns, answer, stale, ui, oSemaphore,
                richEdit>>
menuVars == <<files, present, autoService, profiles, groups, menu, pos, gpos, marked, nested,
              built, onScreen, up, fileEdits>>
launchVars == <<useService, global, member, service, asking, semaphore, state, thread, exitEvent,
                exitSet, pipe, inPipe, reading, readDone, readbuf, hProcess, waitEvent, daemon,
                mgmt, stopTimer, sent, handled, starts>>
tokenVars == <<token, question, requests, certs, dialogs, answers, asks, retries>>
echoVars == <<running, text, history, stored, pending, shown, eThread, tried, lost, now>>
envVars == <<es, process, ran, meant, echoes>>
proxyVars == <<opts, registry, page, told, spinning, pageEdits>>
importVars == <<job, loops, tmp, disk, known, copied, diskEdits>>
readerVars == <<linkUp, opens, unread, saved, buffers, cmd, calls, written, half, owed, torn>>
vars == <<which, plapVars, objectVars, menuVars, launchVars, tokenVars, echoVars, envVars,
          proxyVars, importVars, readerVars>>

\* A component that does not run has one initial state.
Init ==
    /\ which \in Components
    /\ Plap!Init /\ (which = "plap" \/ pDaemon = [c \in Profiles |-> "hold"])
    /\ Objects!Init
    /\ Menus!Init
    /\ \/ which = "profiles"
       \/ files = [d \in Menus!Dirs |-> {}] /\ present = {} /\ ~autoService /\ ~nested
    /\ Starting!Init /\ (which = "launch" \/ ~(useService \/ global \/ member))
    /\ Tokens!Init /\ (which = "pkcs11" \/ (token.count = 0 /\ token.bad = {}))
    /\ Messages!Init
    /\ Env!Init /\ (which = "env" \/ process = <<>>)
    /\ Proxies!Init
    /\ Reader!Init
    /\ Imports!Init
    /\ which = "import" \/ (disk = [n \in Files |-> "none"] /\ known = disk)

PlapStep == which = "plap" /\ Plap!Next
    /\ UNCHANGED <<which, objectVars, menuVars, launchVars, tokenVars, echoVars,
                   envVars, proxyVars, importVars, readerVars>>
ObjectsStep == which = "objects" /\ Objects!Next
    /\ UNCHANGED <<which, plapVars, menuVars, launchVars, tokenVars, echoVars,
                   envVars, proxyVars, importVars, readerVars>>
MenusStep == which = "profiles" /\ Menus!Next
    /\ UNCHANGED <<which, plapVars, objectVars, launchVars, tokenVars, echoVars,
                   envVars, proxyVars, importVars, readerVars>>
StartingStep == which = "launch" /\ Starting!Next
    /\ UNCHANGED <<which, plapVars, objectVars, menuVars, tokenVars, echoVars,
                   envVars, proxyVars, importVars, readerVars>>
TokensStep == which = "pkcs11" /\ Tokens!Next
    /\ UNCHANGED <<which, plapVars, objectVars, menuVars, launchVars, echoVars,
                   envVars, proxyVars, importVars, readerVars>>
MessagesStep == which = "echo" /\ Messages!Next
    /\ UNCHANGED <<which, plapVars, objectVars, menuVars, launchVars, tokenVars,
                   envVars, proxyVars, importVars, readerVars>>
EnvStep == which = "env" /\ Env!Next
    /\ UNCHANGED <<which, plapVars, objectVars, menuVars, launchVars, tokenVars,
                   echoVars, proxyVars, importVars, readerVars>>
ProxiesStep == which = "proxy" /\ Proxies!Next
    /\ UNCHANGED <<which, plapVars, objectVars, menuVars, launchVars, tokenVars,
                   echoVars, envVars, importVars, readerVars>>
ImportsStep == which = "import" /\ Imports!Next
    /\ UNCHANGED <<which, plapVars, objectVars, menuVars, launchVars, tokenVars,
                   echoVars, envVars, proxyVars, readerVars>>
ReaderStep == which = "reader" /\ Reader!Next
    /\ UNCHANGED <<which, plapVars, objectVars, menuVars, launchVars, tokenVars,
                   echoVars, envVars, proxyVars, importVars>>

Next ==
    \/ PlapStep \/ ObjectsStep \/ MenusStep \/ StartingStep \/ TokensStep \/ MessagesStep
    \/ EnvStep \/ ProxiesStep \/ ImportsStep \/ ReaderStep

\* The fairness of the two modules that have one; none of its actions is enabled in the
\* initial state of a component that does not run.
Fairness == Plap!Fairness /\ Starting!Fairness

Spec == Init /\ [][Next]_vars /\ Fairness

-----------------------------------------------------------------------------
(* Every variable has its type. *)
TypeOK ==
    /\ which \in Components
    /\ Plap!TypeOK /\ Objects!TypeOK /\ Menus!TypeOK /\ Starting!TypeOK /\ Tokens!TypeOK
    /\ Messages!TypeOK /\ Env!TypeOK /\ Proxies!TypeOK /\ Imports!TypeOK
    /\ Reader!TypeOK

\* PlapConnect: the daemon of a tile never waits on a question nobody sees, and the
\* list of profiles is not freed under a status thread.
LogonAttended == Plap!NoSilentQuestion /\ Plap!KilledBeforeFree

\* PlapConnect: a dialog that was ended gives LogonUI its thread back.
CancelReturns == Plap!CancelReturns

\* PlapConnect: the progress dialog does not stay open over a settled connection.
DialogCloses == Plap!DialogCloses

\* PlapObjects: what the client holds is alive and the DLL stays loaded as long as
\* anything of it is in use, and no longer; a tile has a profile to connect.
ObjectsAreCounted == Objects!ObjectsAreCounted

\* Profiles: every profile can be reached in the menu on the screen, and names are unique.
ProfilesReachable == Menus!ProfilesReachable /\ Menus!NamesUnique

\* Profiles: a profile that is up is marked from the main menu down to its own item.
UpIsMarked == Menus!UpIsMarked

\* Launch: messages of the service are handled once and in order, and a launch that
\* failed or ended leaves nothing behind.
LaunchIsClean == Starting!LaunchIsClean

\* Launch: the end of a daemon the GUI started itself ends the thread.
DirectEndNoticed == Starting!DirectEndNoticed

\* Pkcs11: the id sent is that of the certificate in the row the user picked.
AnswerIsChosen == Tokens!AnswerIsChosen

\* Echo: a message is not shown twice within the mute interval.
NotTwice == Messages!NotTwice

\* EnvSet: the environment of the connect script is sorted, without duplicates, the
\* server's first.
ConnectEnvironment == [][Env!ConnectBlock]_envVars

\* Proxy: the daemon is told only of proxies it can use.
ProxyUsable == Proxies!ProxyUsable

\* Import: no file is replaced unasked or by another's, and no download left behind.
ImportIsCareful == Imports!ImportIsCareful

\* MgmtReader: lines and answers are read whole, once and in order, unless a buffer that
\* ends in the middle of one is pumped in.
ReadsLines == Reader!ReadsLines
=============================================================================
