----------------------------- MODULE PlapObjects -----------------------------
(***************************************************************************)
(* The COM objects of the start-before-logon provider: the class factory   *)
(* and the reference count of the dll (plap_dll.c), providers and their    *)
(* arrays of tiles (plap_provider.c, plap_connection.c), and the one user  *)
(* interface of the process that they share (InitializeUI and DeleteUI in  *)
(* ui_glue.c).  LogonUI is the client: it takes and drops references.      *)
(*                                                                         *)
(* A tile keeps a pointer into the list of profiles that InitializeUI      *)
(* builds and DeleteUI frees; "stale" marks the tiles whose list is gone.  *)
(***************************************************************************)
EXTENDS Naturals, FiniteSets

CONSTANTS
    Providers,   \* provider objects; one is used again after it was freed
    Profiles,    \* the persistent profiles FindPLAPConnections finds
    Overlap,     \* LogonUI creates a provider while another one lives
    Faults,      \* WSAStartup or an allocation may fail
    MaxRefs      \* bound: references the client holds to one object

Tiles == Providers \X Profiles
Objects == Providers \cup Tiles

VARIABLES
    dllRefs,   \* dll_ref_count
    factory,   \* references the client holds to the class factory
    locks,     \* LockServer(TRUE) calls not yet undone
    refs,      \* ref_count of each object; 0: not allocated
    held,      \* references the client holds to it
    made,      \* ui_initialized of each provider
    conns,     \* connections[] of each provider, as a set of profiles
    answer,    \* what SetUsageScenario returned last
    stale,     \* the tile's profile has been freed
    ui,        \* o: "off", "partial" (WSAStartup failed), "ready"
    semaphore, \* the session semaphore: "free", "held", "lost" (no handle left)
    richEdit   \* RICHED20.DLL is loaded in this process

clientVars == <<factory, locks, held>>
objectVars == <<refs, made, conns, answer, stale>>
uiVars     == <<ui, semaphore, richEdit>>
vars == <<dllRefs, clientVars, objectVars, uiVars>>

Alive(x) == refs[x] > 0
TilesOf(p) == {p} \X conns[p]

-----------------------------------------------------------------------------
(* plap_dll.c *)

\* DllGetClassObject: AddRef, QueryInterface and Release of the static factory
\* leave one reference with the client.
DllGetClassObject ==
    /\ factory < MaxRefs /\ factory' = factory + 1
    /\ dllRefs' = dllRefs + 1
    /\ UNCHANGED <<locks, held, objectVars, uiVars>>

ReleaseFactory ==
    /\ factory > 0 /\ factory' = factory - 1
    /\ dllRefs' = dllRefs - 1
    /\ UNCHANGED <<locks, held, objectVars, uiVars>>

LockServer(lock) ==
    /\ factory > 0
    /\ IF lock THEN locks < MaxRefs /\ locks' = locks + 1 /\ dllRefs' = dllRefs + 1
               ELSE locks > 0 /\ locks' = locks - 1 /\ dllRefs' = dllRefs - 1
    /\ UNCHANGED <<factory, held, objectVars, uiVars>>

-----------------------------------------------------------------------------
(* plap_provider.c *)

\* IClassFactory::CreateInstance: the constructor's reference is exchanged for
\* the one QueryInterface gives the client.
CreateInstance(p) ==
    /\ factory > 0
    /\ ~Alive(p) /\ \A c \in Profiles : ~Alive(<<p, c>>)
    /\ Overlap \/ \A q \in Providers : ~Alive(q)
    /\ refs' = [refs EXCEPT ![p] = 1] /\ held' = [held EXCEPT ![p] = 1]
    /\ made' = [made EXCEPT ![p] = FALSE] /\ conns' = [conns EXCEPT ![p] = {}]
    /\ answer' = [answer EXCEPT ![p] = "none"]
    /\ dllRefs' = dllRefs + 1
    /\ UNCHANGED <<factory, locks, stale, uiVars>>

AddRefProvider(p) ==
    /\ held[p] \in 1 .. MaxRefs - 1
    /\ held' = [held EXCEPT ![p] = @ + 1] /\ refs' = [refs EXCEPT ![p] = @ + 1]
    /\ UNCHANGED <<dllRefs, factory, locks, made, conns, answer, stale, uiVars>>

\* InitializeUI returns 0: this call built the interface, or it is there already.
FirstUI ==
    /\ semaphore = "free" /\ ~richEdit
    /\ ui' = "ready" /\ semaphore' = "held" /\ richEdit' = TRUE
SecondUI == semaphore # "free" /\ ui # "off" /\ UNCHANGED uiVars

\* ... or it fails: the semaphore belongs to somebody else; the rich edit
\* library is loaded already, and the semaphore is kept; WSAStartup fails.
UIFails ==
    \/ semaphore # "free" /\ ui = "off" /\ UNCHANGED uiVars
    \/ /\ semaphore = "free" /\ richEdit
       /\ semaphore' = "lost" /\ UNCHANGED <<ui, richEdit>>
    \/ /\ Faults /\ semaphore = "free" /\ ~richEdit
       /\ ui' = "partial" /\ semaphore' = "held" /\ richEdit' = TRUE

\* The profiles that get a tile; with no memory left the array stays short.
ListedProfiles(state) ==
    IF state # "ready" THEN {{}} ELSE IF Faults THEN SUBSET Profiles ELSE {Profiles}

\* SetUsageScenario(CPUS_PLAP), CreateOVPNConnectionArray: a tile for every
\* profile of the list, each with the array's reference.
SetUsageScenario(p) ==
    /\ held[p] > 0 /\ ~made[p]
    /\ \/ /\ FirstUI \/ SecondUI
          /\ made' = [made EXCEPT ![p] = TRUE]
          /\ \E list \in ListedProfiles(ui') :
                /\ conns' = [conns EXCEPT ![p] = list]
                /\ refs' = [x \in Objects |-> IF x \in {p} \X list THEN 1 ELSE refs[x]]
                /\ stale' = [t \in Tiles |-> t \notin {p} \X list /\ stale[t]]
                /\ dllRefs' = dllRefs + Cardinality(list)
                /\ answer' = [answer EXCEPT ![p] =
                                IF ui' = "ready" /\ list # Profiles THEN "failed" ELSE "ok"]
       \/ /\ UIFails
          /\ answer' = [answer EXCEPT ![p] = "failed"]
          /\ UNCHANGED <<dllRefs, refs, made, conns, stale>>
    /\ UNCHANGED clientVars

\* DeleteUI frees the list of profiles whoever else uses it.
DeleteUI ==
    /\ ui' = "off"
    /\ semaphore' = IF ui = "off" THEN semaphore ELSE "free"
    /\ stale' = [t \in Tiles |-> TRUE]
    /\ UNCHANGED richEdit

\* Mutant of FreeProvider: the tiles are freed without telling the dll.
FreeProviderQuietly(p) ==
    /\ refs' = [x \in Objects |-> IF x = p THEN 0
                                  ELSE IF x \in TilesOf(p) THEN refs[x] - 1 ELSE refs[x]]
    /\ dllRefs' = dllRefs - 1 - Cardinality({t \in TilesOf(p) : refs[t] > 1})
    /\ DeleteUI

\* OpenVPNProvider_free: the array's tiles are released, those nobody else holds
\* are freed, and the user interface is deleted.
FreeProvider(p) ==
    /\ refs' = [x \in Objects |-> IF x = p THEN 0
                                  ELSE IF x \in TilesOf(p) THEN refs[x] - 1 ELSE refs[x]]
    /\ dllRefs' = dllRefs - 1 - Cardinality({t \in TilesOf(p) : refs[t] = 1})
    /\ DeleteUI

ReleaseProvider(p) ==
    /\ held[p] > 0 /\ held' = [held EXCEPT ![p] = @ - 1]
    /\ IF refs[p] = 1 THEN FreeProvider(p)
       ELSE refs' = [refs EXCEPT ![p] = @ - 1] /\ UNCHANGED <<dllRefs, stale, uiVars>>
    /\ UNCHANGED <<factory, locks, made, conns, answer>>

GetCredentialAt(p, c) ==
    /\ held[p] > 0 /\ c \in conns[p] /\ held[<<p, c>>] < MaxRefs
    /\ held' = [held EXCEPT ![<<p, c>>] = @ + 1]
    /\ refs' = [refs EXCEPT ![<<p, c>>] = @ + 1]
    /\ UNCHANGED <<dllRefs, factory, locks, made, conns, answer, stale, uiVars>>

-----------------------------------------------------------------------------
(* plap_connection.c *)

\* Mutant of ReleaseTile: every release tells the dll that the tile is gone.
ReleaseTileAlways(t) ==
    /\ held[t] > 0 /\ held' = [held EXCEPT ![t] = @ - 1]
    /\ refs' = [refs EXCEPT ![t] = @ - 1]
    /\ dllRefs' = dllRefs - 1
    /\ UNCHANGED <<factory, locks, made, conns, answer, stale, uiVars>>

ReleaseTile(t) ==
    /\ held[t] > 0 /\ held' = [held EXCEPT ![t] = @ - 1]
    /\ refs' = [refs EXCEPT ![t] = @ - 1]
    /\ dllRefs' = IF refs[t] = 1 THEN dllRefs - 1 ELSE dllRefs
    /\ UNCHANGED <<factory, locks, made, conns, answer, stale, uiVars>>

-----------------------------------------------------------------------------
Init ==
    /\ dllRefs = 0 /\ factory = 0 /\ locks = 0
    /\ refs = [x \in Objects |-> 0] /\ held = [x \in Objects |-> 0]
    /\ made = [p \in Providers |-> FALSE] /\ conns = [p \in Providers |-> {}]
    /\ answer = [p \in Providers |-> "none"]
    /\ stale = [t \in Tiles |-> TRUE]
    /\ ui = "off" /\ semaphore = "free" /\ richEdit = FALSE

Next ==
    \/ DllGetClassObject \/ ReleaseFactory \/ \E b \in BOOLEAN : LockServer(b)
    \/ \E p \in Providers :
          \/ CreateInstance(p) \/ AddRefProvider(p) \/ SetUsageScenario(p)
          \/ ReleaseProvider(p) \/ \E c \in Profiles : GetCredentialAt(p, c)
    \/ \E t \in Tiles : ReleaseTile(t)

Spec == Init /\ [][Next]_vars

-----------------------------------------------------------------------------
(* Every variable has its type. *)
TypeOK ==
    /\ dllRefs \in Nat /\ factory \in 0 .. MaxRefs /\ locks \in 0 .. MaxRefs
    /\ refs \in [Objects -> Nat] /\ held \in [Objects -> 0 .. MaxRefs]
    /\ made \in [Providers -> BOOLEAN] /\ conns \in [Providers -> SUBSET Profiles]
    /\ answer \in [Providers -> {"none", "ok", "failed"}]
    /\ stale \in [Tiles -> BOOLEAN]
    /\ ui \in {"off", "partial", "ready"} /\ semaphore \in {"free", "held", "lost"}
    /\ richEdit \in BOOLEAN

\* An object lives as long as somebody has a reference to it: the client, or the
\* array of a provider that lives (Release, plap_connection.c:206).
InArray(x) == x \in Tiles /\ Alive(x[1]) /\ x[2] \in conns[x[1]]
HeldIsAlive ==
    \A x \in Objects : held[x] > 0 \/ InArray(x) => Alive(x)

\* DllCanUnloadNow says yes only when no object, no factory reference and no lock
\* is left, and it does say yes then: dll_ref_count counts exactly these.
UnloadIsSafe ==
    dllRefs = factory + locks + Cardinality({x \in Objects : Alive(x)})

\* A tile of a living provider that was made ready has a profile to connect: the
\* list it points into is there and the session semaphore guards it.
TilesHaveProfiles ==
    \A p \in Providers : Alive(p) /\ conns[p] # {} =>
        /\ ui = "ready" /\ semaphore = "held"
        /\ \A c \in conns[p] : ~stale[<<p, c>>]

\* What the client holds is alive, the count keeps the dll loaded as long as anything of
\* it is in use, and no longer; a tile has a profile to connect, where LogonUI has one
\* provider at a time.
ObjectsAreCounted == HeldIsAlive /\ UnloadIsSafe /\ (Overlap \/ TilesHaveProfiles)

\* "After this, we should be ready to service calls" (plap_provider.c:214): when
\* no resource fails, a provider LogonUI asked for the scenario has its tiles.
\* Not checked, it does not hold: the test for the rich edit library (ui_glue.c:184) fails
\* for a second provider.
ReadyWhenAsked == ~Faults => \A p \in Providers : Alive(p) => answer[p] # "failed"
=============================================================================
