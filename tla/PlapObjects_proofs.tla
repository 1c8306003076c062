-------------------------- MODULE PlapObjects_proofs --------------------------
(***************************************************************************)
(* The reference counts of the start-before-logon provider, for any number *)
(* of providers, profiles and references.                                  *)
(*                                                                         *)
(* ObjectsAreCounted is not inductive: nothing in it says that a tile's    *)
(* count is the client's references and the array's one, and no others, so *)
(* a release could take the last one too early or too late.                *)
(***************************************************************************)
EXTENDS PlapObjects, FiniteSetTheorems, TLAPS

\* A provider is not a pair of a provider and a profile, and LogonUI knows finitely many.
ObjectsAssumption ==
    /\ IsFiniteSet(Providers) /\ IsFiniteSet(Profiles)
    /\ Providers \cap Tiles = {}
    /\ MaxRefs \in Nat \ {0}

Living == {x \in Objects : Alive(x)}

Types ==
    /\ dllRefs \in Int /\ factory \in 0 .. MaxRefs /\ locks \in 0 .. MaxRefs
    /\ refs \in [Objects -> Nat] /\ held \in [Objects -> 0 .. MaxRefs]
    /\ made \in [Providers -> BOOLEAN] /\ conns \in [Providers -> SUBSET Profiles]
    /\ answer \in [Providers -> {"none", "ok", "failed"}]
    /\ stale \in [Tiles -> BOOLEAN]
    /\ ui \in {"off", "partial", "ready"} /\ semaphore \in {"free", "held", "lost"}
    /\ richEdit \in BOOLEAN

\* The count of an object is the client's references, and one for the array it is in.
CountedOnce ==
    /\ \A p \in Providers : refs[p] = held[p]
    /\ \A t \in Tiles : refs[t] = held[t] + IF InArray(t) THEN 1 ELSE 0

\* Before the scenario is set a living provider has no tiles, not even forgotten ones.
NoneBefore ==
    \A p \in Providers : Alive(p) /\ ~made[p] =>
        conns[p] = {} /\ \A c \in Profiles : refs[<<p, c>>] = 0

\* The user interface holds the session semaphore.
Guarded == ui # "off" => semaphore = "held"

\* LogonUI's promise, and what it gives.
OneAtATime ==
    Overlap \/ (TilesHaveProfiles /\ \A p, q \in Providers : Alive(p) /\ Alive(q) => p = q)

\* Checked as an invariant before it was proved.
OInv == Types /\ CountedOnce /\ NoneBefore /\ UnloadIsSafe /\ Guarded /\ OneAtATime

-----------------------------------------------------------------------------
(* Counting *)

LEMMA ObjectsFinite ==
    ASSUME ObjectsAssumption
    PROVE  IsFiniteSet(Objects) /\ IsFiniteSet(Living) /\ IsFiniteSet(Living')
<1>1. IsFiniteSet(Tiles)
  BY FS_Product DEF ObjectsAssumption, Tiles
<1>2. IsFiniteSet(Objects)
  BY <1>1, FS_Union DEF ObjectsAssumption, Objects
<1>3. Living \in SUBSET Objects /\ Living' \in SUBSET Objects
  BY DEF Living
<1>4. IsFiniteSet(Living)
  BY <1>2, <1>3, FS_Subset
<1>5. IsFiniteSet(Living')
  BY <1>2, <1>3, FS_Subset
<1> QED BY <1>2, <1>4, <1>5

LEMMA OneMore ==
    ASSUME ObjectsAssumption, NEW x \in Objects, x \notin Living, Living' = Living \cup {x}
    PROVE  Cardinality(Living') = Cardinality(Living) + 1
BY ObjectsFinite, FS_AddElement

LEMMA OneLess ==
    ASSUME ObjectsAssumption, NEW x \in Living, Living' = Living \ {x}
    PROVE  Cardinality(Living') = Cardinality(Living) - 1
BY ObjectsFinite, FS_RemoveElement

LEMMA SomeMore ==
    ASSUME ObjectsAssumption, NEW p, NEW list \in SUBSET Profiles,
           ({p} \X list) \cap Living = {}, Living' = Living \cup ({p} \X list)
    PROVE  Cardinality(Living') = Cardinality(Living) + Cardinality(list)
<1>1. IsFiniteSet(list) /\ Cardinality(list) \in Nat
  BY FS_Subset, FS_CardinalityType DEF ObjectsAssumption
<1>2. IsFiniteSet({p}) /\ Cardinality({p}) = 1
  BY FS_Singleton
<1>3. IsFiniteSet({p} \X list) /\ Cardinality({p} \X list) = 1 * Cardinality(list)
  BY <1>1, <1>2, FS_Product
<1>4. Cardinality(Living) \in Nat
  BY ObjectsFinite, FS_CardinalityType
<1>5. Cardinality(Living') =
        Cardinality(Living) + Cardinality({p} \X list) - Cardinality(({p} \X list) \cap Living)
  <2>1. ({p} \X list) \cap Living = Living \cap ({p} \X list)
    OBVIOUS
  <2> QED BY <1>3, <2>1, ObjectsFinite, FS_Union
<1>6. Cardinality(({p} \X list) \cap Living) = 0
  BY FS_EmptySet
<1> QED BY <1>1, <1>3, <1>4, <1>5, <1>6

LEMMA SomeLess ==
    ASSUME ObjectsAssumption, NEW gone \in SUBSET Living, NEW x \in Living, x \notin gone,
           Living' = Living \ (gone \cup {x})
    PROVE  Cardinality(Living') = Cardinality(Living) - 1 - Cardinality(gone)
<1> DEFINE rest == Living \ {x}
<1>1. IsFiniteSet(rest) /\ Cardinality(rest) = Cardinality(Living) - 1
  BY ObjectsFinite, FS_RemoveElement
<1>2. rest \cap gone = gone /\ Living' = rest \ gone
  OBVIOUS
<1>3. Cardinality(rest \ gone) = Cardinality(rest) - Cardinality(rest \cap gone)
  BY <1>1, FS_Difference
<1> QED BY <1>1, <1>2, <1>3

\* A provider and a tile are never the same object.
LEMMA Apart ==
    ASSUME ObjectsAssumption
    PROVE  /\ \A p \in Providers : p \in Objects /\ p \notin Tiles
           /\ \A t \in Tiles : t \in Objects /\ t \notin Providers
           /\ \A t \in Tiles : t[1] \in Providers /\ t[2] \in Profiles /\ t = <<t[1], t[2]>>
           /\ \A p \in Providers, c \in Profiles : <<p, c>> \in Tiles
BY DEF ObjectsAssumption, Objects, Tiles

\* A living array's tiles are alive.
LEMMA Alives ==
    ASSUME ObjectsAssumption, Types, CountedOnce
    PROVE  /\ HeldIsAlive
           /\ \A x \in Objects : refs[x] \in Nat /\ held[x] \in Nat /\ (x \in Living <=> refs[x] > 0)
<1>1. \A x \in Objects : refs[x] \in Nat /\ held[x] \in Nat
  BY DEF Types, ObjectsAssumption
<1>2. \A x \in Objects : x \in Living <=> refs[x] > 0
  BY DEF Living, Alive
<1>3. HeldIsAlive
  BY <1>1 DEF HeldIsAlive, Objects, CountedOnce, InArray, Alive
<1> QED BY <1>1, <1>2, <1>3

-----------------------------------------------------------------------------
(* Steps *)

others == <<made, conns, answer, stale, ui, semaphore, richEdit>>

\* What does not depend on counts stays where no object comes or goes.
LEMMA OthersStay ==
    ASSUME OInv, UNCHANGED others, \A p \in Providers : Alive(p)' <=> Alive(p)
    PROVE  Guarded' /\ OneAtATime' /\ \A x : InArray(x)' <=> InArray(x)
<1>1. Guarded'
  BY DEF OInv, Guarded, others
<1>2. TilesHaveProfiles => TilesHaveProfiles'
  BY DEF TilesHaveProfiles, others
<1>3. OneAtATime'
  BY <1>2 DEF OInv, OneAtATime
<1>4. \A x : InArray(x)' <=> InArray(x)
  BY DEF InArray, others, Tiles
<1> QED BY <1>1, <1>3, <1>4

LEMMA ClassFactory ==
    ASSUME ObjectsAssumption, OInv,
           DllGetClassObject \/ ReleaseFactory \/ (\E b \in BOOLEAN : LockServer(b))
    PROVE  OInv'
<1>1. UNCHANGED <<held, refs, others>>
  BY DEF DllGetClassObject, ReleaseFactory, LockServer, objectVars, uiVars, others
<1>2. /\ factory' \in 0 .. MaxRefs /\ locks' \in 0 .. MaxRefs /\ dllRefs' \in Int
      /\ dllRefs' - factory' - locks' = dllRefs - factory - locks
  BY DEF DllGetClassObject, ReleaseFactory, LockServer, OInv, Types, ObjectsAssumption
<1>3. Types'
  BY <1>1, <1>2 DEF OInv, Types, others
<1>4. \A x : Alive(x)' <=> Alive(x)
  BY <1>1 DEF Alive
<1>5. Guarded' /\ OneAtATime' /\ \A x : InArray(x)' <=> InArray(x)
  BY <1>1, <1>4, OthersStay
<1>6. CountedOnce' /\ NoneBefore'
  BY <1>1, <1>4, <1>5 DEF OInv, CountedOnce, NoneBefore, others
<1>7. UnloadIsSafe'
  <2>1. Cardinality(Living) \in Nat
    BY ObjectsFinite, FS_CardinalityType
  <2>2. Living' = Living
    BY <1>1 DEF Living, Alive
  <2>3. dllRefs = factory + locks + Cardinality(Living)
    BY DEF OInv, UnloadIsSafe, Living
  <2>4. dllRefs' = factory' + locks' + Cardinality(Living')
    BY <1>2, <2>1, <2>2, <2>3 DEF OInv, Types, ObjectsAssumption
  <2> QED BY <2>4 DEF UnloadIsSafe, Living
<1> QED BY <1>3, <1>5, <1>6, <1>7 DEF OInv

\* The client takes one more reference to an object that lives.
LEMMA Taken ==
    ASSUME ObjectsAssumption, OInv, NEW x \in Living, held[x] < MaxRefs,
           held' = [held EXCEPT ![x] = @ + 1], refs' = [refs EXCEPT ![x] = @ + 1],
           UNCHANGED <<dllRefs, factory, locks, others>>
    PROVE  OInv'
<1>0. x \in Objects /\ Types /\ CountedOnce
  BY DEF Living, OInv
<1>1. \A y \in Objects : refs[y] \in Nat /\ held[y] \in Nat /\ (y \in Living <=> refs[y] > 0)
  BY <1>0, Alives
<1>2. \A y \in Objects : /\ refs'[y] = refs[y] + (IF y = x THEN 1 ELSE 0)
                         /\ held'[y] = held[y] + (IF y = x THEN 1 ELSE 0)
  BY <1>0, <1>1 DEF Types
<1>3. Types'
  <2>1. held[x] + 1 \in 0 .. MaxRefs /\ refs[x] + 1 \in Nat
    BY <1>0, <1>1 DEF ObjectsAssumption
  <2>2. refs' \in [Objects -> Nat] /\ held' \in [Objects -> 0 .. MaxRefs]
    BY <1>0, <2>1 DEF Types
  <2> QED BY <1>0, <2>2 DEF Types, others
<1>4. \A y \in Objects : Alive(y)' <=> Alive(y)
  BY <1>0, <1>1, <1>2 DEF Alive, Living
<1>5. Guarded' /\ OneAtATime' /\ \A y : InArray(y)' <=> InArray(y)
  BY <1>4, OthersStay, Apart
<1>6. CountedOnce'
  <2>1. \A p \in Providers : refs'[p] = held'[p]
    BY <1>0, <1>2, Apart DEF CountedOnce
  <2>2. ASSUME NEW t \in Tiles
        PROVE  refs'[t] = held'[t] + IF InArray(t)' THEN 1 ELSE 0
    BY <1>0, <1>1, <1>2, <1>5, Apart DEF CountedOnce
  <2> QED BY <2>1, <2>2 DEF CountedOnce
<1>7. NoneBefore'
  <2>1. ASSUME NEW p \in Providers, Alive(p)', ~made'[p]
        PROVE  conns'[p] = {} /\ \A c \in Profiles : refs'[<<p, c>>] = 0
    <3>1. Alive(p) /\ ~made[p]
      BY <1>4, <2>1, Apart DEF others
    <3>2. conns[p] = {} /\ \A c \in Profiles : refs[<<p, c>>] = 0
      BY <3>1 DEF OInv, NoneBefore
    <3>3. \A c \in Profiles : <<p, c>> \in Objects /\ <<p, c>> # x
      BY <1>1, <3>2, Apart
    <3> QED BY <1>2, <1>1, <3>2, <3>3 DEF others
  <2> QED BY <2>1 DEF NoneBefore
<1>8. UnloadIsSafe'
  <2>1. Living' = Living
    BY <1>4 DEF Living
  <2> QED BY <2>1 DEF OInv, UnloadIsSafe, Living
<1> QED BY <1>3, <1>5, <1>6, <1>7, <1>8 DEF OInv

\* The client drops a reference: a tile's, or one of a provider that is not its last.
LEMMA Dropped ==
    ASSUME ObjectsAssumption, OInv, NEW x \in Objects, held[x] > 0,
           x \in Tiles \/ refs[x] # 1,
           held' = [held EXCEPT ![x] = @ - 1], refs' = [refs EXCEPT ![x] = @ - 1],
           dllRefs' = IF refs[x] = 1 THEN dllRefs - 1 ELSE dllRefs,
           UNCHANGED <<factory, locks, others>>
    PROVE  OInv'
<1>0. Types /\ CountedOnce
  BY DEF OInv
<1>1. /\ \A y \in Objects : refs[y] \in Nat /\ held[y] \in Nat /\ (y \in Living <=> refs[y] > 0)
      /\ x \in Living
  BY <1>0, Alives DEF HeldIsAlive, Living
<1>2. \A y \in Objects : /\ refs'[y] = refs[y] - (IF y = x THEN 1 ELSE 0)
                         /\ held'[y] = held[y] - (IF y = x THEN 1 ELSE 0)
  BY <1>0, <1>1 DEF Types
<1>3. Types'
  <2>1. held[x] \in 0 .. MaxRefs
    BY <1>0 DEF Types
  <2>2. held[x] - 1 \in 0 .. MaxRefs /\ refs[x] - 1 \in Nat
    BY <1>1, <2>1 DEF ObjectsAssumption
  <2>3. refs' \in [Objects -> Nat] /\ held' \in [Objects -> 0 .. MaxRefs]
    BY <1>0, <2>2 DEF Types
  <2> QED BY <1>0, <2>3 DEF Types, others
<1>4. /\ \A y \in Objects : y # x => (Alive(y)' <=> Alive(y))
      /\ Alive(x)' <=> refs[x] # 1
  BY <1>1, <1>2 DEF Alive
<1>5. \A p \in Providers : Alive(p)' <=> Alive(p)
  <2>1. x \in Tiles \/ (Alive(x)' /\ Alive(x))
    BY <1>1, <1>4 DEF Living
  <2> QED BY <1>4, <2>1, Apart
<1>6. Guarded' /\ OneAtATime' /\ \A y : InArray(y)' <=> InArray(y)
  BY <1>5, OthersStay
<1>7. CountedOnce'
  <2>1. \A p \in Providers : refs'[p] = held'[p]
    BY <1>0, <1>2, Apart DEF CountedOnce
  <2>2. ASSUME NEW t \in Tiles
        PROVE  refs'[t] = held'[t] + IF InArray(t)' THEN 1 ELSE 0
    BY <1>0, <1>1, <1>2, <1>6, Apart DEF CountedOnce
  <2> QED BY <2>1, <2>2 DEF CountedOnce
<1>8. NoneBefore'
  <2>1. ASSUME NEW p \in Providers, Alive(p)', ~made'[p]
        PROVE  conns'[p] = {} /\ \A c \in Profiles : refs'[<<p, c>>] = 0
    <3>1. Alive(p) /\ ~made[p]
      BY <1>5, <2>1 DEF others
    <3>2. conns[p] = {} /\ \A c \in Profiles : refs[<<p, c>>] = 0
      BY <3>1 DEF OInv, NoneBefore
    <3>3. \A c \in Profiles : <<p, c>> \in Objects /\ <<p, c>> # x
      BY <1>1, <3>2, Apart
    <3> QED BY <1>2, <1>1, <3>2, <3>3 DEF others
  <2> QED BY <2>1 DEF NoneBefore
<1>9. UnloadIsSafe'
  <2>1. Cardinality(Living) \in Nat
    BY ObjectsFinite, FS_CardinalityType
  <2>2. dllRefs = factory + locks + Cardinality(Living)
    BY DEF OInv, UnloadIsSafe, Living
  <2>3. Living' = IF refs[x] = 1 THEN Living \ {x} ELSE Living
    BY <1>1, <1>4 DEF Living
  <2>4. Cardinality(Living') = IF refs[x] = 1 THEN Cardinality(Living) - 1 ELSE Cardinality(Living)
    BY <1>1, <2>3, OneLess
  <2>5. dllRefs' = factory' + locks' + Cardinality(Living')
    BY <1>0, <2>1, <2>2, <2>4 DEF Types, ObjectsAssumption
  <2> QED BY <2>5 DEF UnloadIsSafe, Living
<1> QED BY <1>3, <1>6, <1>7, <1>8, <1>9 DEF OInv

LEMMA Created ==
    ASSUME ObjectsAssumption, OInv, NEW p \in Providers, CreateInstance(p)
    PROVE  OInv'
<1>0. Types /\ CountedOnce /\ p \in Objects
  BY Apart DEF OInv
<1>1. \A y \in Objects : refs[y] \in Nat /\ held[y] \in Nat /\ (y \in Living <=> refs[y] > 0)
  BY <1>0, Alives
<1>2. /\ \A y \in Objects : refs'[y] = (IF y = p THEN 1 ELSE refs[y])
                         /\ held'[y] = (IF y = p THEN 1 ELSE held[y])
      /\ \A q \in Providers : /\ made'[q] = (IF q = p THEN FALSE ELSE made[q])
                              /\ conns'[q] = (IF q = p THEN {} ELSE conns[q])
      /\ UNCHANGED <<factory, locks, stale, ui, semaphore, richEdit>>
  BY <1>0 DEF Types, CreateInstance, uiVars
<1>3. ~Alive(p) /\ \A c \in Profiles : ~Alive(<<p, c>>)
  BY DEF CreateInstance
<1>4. Types'
  <2>1. 1 \in 0 .. MaxRefs
    BY DEF ObjectsAssumption
  <2>2. refs' \in [Objects -> Nat] /\ held' \in [Objects -> 0 .. MaxRefs]
    BY <1>0, <2>1 DEF Types, CreateInstance
  <2>3. made' \in [Providers -> BOOLEAN] /\ conns' \in [Providers -> SUBSET Profiles]
        /\ answer' \in [Providers -> {"none", "ok", "failed"}]
    BY <1>0 DEF Types, CreateInstance
  <2>4. dllRefs' \in Int
    BY <1>0 DEF Types, CreateInstance
  <2> QED BY <1>0, <1>2, <2>2, <2>3, <2>4 DEF Types
<1>5. \A y \in Objects : Alive(y)' <=> Alive(y) \/ y = p
  BY <1>2 DEF Alive
<1>6. \A t \in Tiles : InArray(t)' <=> InArray(t)
  <2>1. ASSUME NEW t \in Tiles
        PROVE  InArray(t)' <=> InArray(t)
    <3>1. t[1] \in Providers
      BY Apart
    <3>2. CASE t[1] = p
      BY <1>2, <1>3, <3>2 DEF InArray
    <3>3. CASE t[1] # p
      BY <1>2, <1>5, <3>1, <3>3, Apart DEF InArray
    <3> QED BY <3>2, <3>3
  <2> QED BY <2>1
<1>7. CountedOnce'
  <2>1. \A q \in Providers : refs'[q] = held'[q]
    BY <1>0, <1>2, Apart DEF CountedOnce
  <2>2. ASSUME NEW t \in Tiles
        PROVE  refs'[t] = held'[t] + IF InArray(t)' THEN 1 ELSE 0
    BY <1>0, <1>1, <1>2, <1>6, Apart DEF CountedOnce
  <2> QED BY <2>1, <2>2 DEF CountedOnce
<1>8. NoneBefore'
  <2>1. ASSUME NEW q \in Providers, Alive(q)', ~made'[q]
        PROVE  conns'[q] = {} /\ \A c \in Profiles : refs'[<<q, c>>] = 0
    <3>0. \A c \in Profiles : <<q, c>> \in Objects /\ <<q, c>> # p
      BY Apart
    <3>1. CASE q = p
      <4>1. ASSUME NEW c \in Profiles
            PROVE  refs'[<<q, c>>] = 0
        <5>1. refs[<<p, c>>] = 0
          BY <1>1, <1>3, <3>0, <3>1 DEF Alive
        <5> QED BY <1>2, <3>0, <3>1, <5>1
      <4> QED BY <1>2, <3>1, <4>1
    <3>2. CASE q # p
      <4>1. Alive(q) /\ ~made[q]
        BY <1>2, <1>5, <2>1, <3>2, Apart
      <4>2. conns[q] = {} /\ \A c \in Profiles : refs[<<q, c>>] = 0
        BY <4>1 DEF OInv, NoneBefore
      <4> QED BY <1>2, <3>0, <3>2, <4>2
    <3> QED BY <3>1, <3>2
  <2> QED BY <2>1 DEF NoneBefore
<1>9. UnloadIsSafe'
  <2>1. Cardinality(Living) \in Nat
    BY ObjectsFinite, FS_CardinalityType
  <2>2. dllRefs = factory + locks + Cardinality(Living)
    BY DEF OInv, UnloadIsSafe, Living
  <2>3. Living' = Living \cup {p} /\ p \notin Living
    BY <1>0, <1>3, <1>5 DEF Living
  <2>4. Cardinality(Living') = Cardinality(Living) + 1
    BY <1>0, <2>3, OneMore
  <2>5. dllRefs' = factory' + locks' + Cardinality(Living')
    BY <1>0, <1>2, <2>1, <2>2, <2>4 DEF Types, ObjectsAssumption, CreateInstance
  <2> QED BY <2>5 DEF UnloadIsSafe, Living
<1>10. Guarded'
  BY <1>2 DEF OInv, Guarded
<1>11. OneAtATime'
  <2> SUFFICES ASSUME ~Overlap
               PROVE  TilesHaveProfiles' /\ \A q, r \in Providers : Alive(q)' /\ Alive(r)' => q = r
    BY DEF OneAtATime
  <2>1. \A q \in Providers : Alive(q)' => q = p
    BY <1>5, Apart DEF CreateInstance
  <2>2. TilesHaveProfiles'
    BY <1>2, <2>1 DEF TilesHaveProfiles
  <2> QED BY <2>1, <2>2
<1> QED BY <1>4, <1>7, <1>8, <1>9, <1>10, <1>11 DEF OInv

\* What InitializeUI leaves.
LEMMA Initialized ==
    ASSUME Types, Guarded, FirstUI \/ SecondUI \/ UIFails
    PROVE  /\ ui' \in {"off", "partial", "ready"} /\ semaphore' \in {"free", "held", "lost"}
           /\ richEdit' \in BOOLEAN /\ Guarded'
           /\ ui = "ready" => ui' = "ready"
BY DEF Types, Guarded, FirstUI, SecondUI, UIFails, uiVars

LEMMA ScenarioSet ==
    ASSUME ObjectsAssumption, OInv, NEW p \in Providers, SetUsageScenario(p)
    PROVE  OInv'
<1>0. Types /\ CountedOnce /\ p \in Objects /\ Guarded
  BY Apart DEF OInv
<1>1. \A y \in Objects : refs[y] \in Nat /\ held[y] \in Nat /\ (y \in Living <=> refs[y] > 0)
  BY <1>0, Alives
<1>2. Alive(p) /\ ~made[p] /\ UNCHANGED clientVars
  BY <1>0, <1>1, Alives DEF SetUsageScenario, HeldIsAlive
<1>3. conns[p] = {} /\ \A c \in Profiles : refs[<<p, c>>] = 0
  BY <1>2 DEF OInv, NoneBefore
<1>4. FirstUI \/ SecondUI \/ UIFails
  BY DEF SetUsageScenario
<1>5. /\ ui' \in {"off", "partial", "ready"} /\ semaphore' \in {"free", "held", "lost"}
      /\ richEdit' \in BOOLEAN /\ Guarded' /\ (ui = "ready" => ui' = "ready")
  BY <1>0, <1>4, Initialized
<1>6. CASE UIFails /\ UNCHANGED <<dllRefs, refs, made, conns, stale>>
           /\ answer' = [answer EXCEPT ![p] = "failed"]
  <2>1. Types'
    <3>1. answer' \in [Providers -> {"none", "ok", "failed"}]
      BY <1>0, <1>6 DEF Types
    <3> QED BY <1>0, <1>2, <1>5, <1>6, <3>1 DEF Types, clientVars
  <2>2. \A y : (Alive(y)' <=> Alive(y)) /\ (InArray(y)' <=> InArray(y))
    BY <1>6 DEF Alive, InArray, Tiles
  <2>3. CountedOnce' /\ NoneBefore'
    BY <1>0, <1>2, <1>6, <2>2 DEF OInv, CountedOnce, NoneBefore, clientVars
  <2>4. UnloadIsSafe'
    <3>1. Living' = Living
      BY <2>2 DEF Living
    <3> QED BY <1>2, <1>6, <3>1 DEF OInv, UnloadIsSafe, Living, clientVars
  <2>5. OneAtATime'
    <3>1. ui' = "ready" => semaphore' = "held"
      BY <1>5 DEF Guarded
    <3>2. TilesHaveProfiles => TilesHaveProfiles'
      BY <1>5, <1>6, <2>2, <3>1 DEF TilesHaveProfiles
    <3> QED BY <2>2, <3>2 DEF OInv, OneAtATime
  <2> QED BY <1>5, <2>1, <2>3, <2>4, <2>5 DEF OInv
<1>7. CASE /\ made' = [made EXCEPT ![p] = TRUE]
           /\ \E list \in ListedProfiles(ui') :
                /\ conns' = [conns EXCEPT ![p] = list]
                /\ refs' = [x \in Objects |-> IF x \in {p} \X list THEN 1 ELSE refs[x]]
                /\ stale' = [t \in Tiles |-> t \notin {p} \X list /\ stale[t]]
                /\ dllRefs' = dllRefs + Cardinality(list)
                /\ answer' = [answer EXCEPT ![p] =
                                IF ui' = "ready" /\ list # Profiles THEN "failed" ELSE "ok"]
  <2>0. PICK list \in ListedProfiles(ui') :
            /\ conns' = [conns EXCEPT ![p] = list]
            /\ refs' = [x \in Objects |-> IF x \in {p} \X list THEN 1 ELSE refs[x]]
            /\ stale' = [t \in Tiles |-> t \notin {p} \X list /\ stale[t]]
            /\ dllRefs' = dllRefs + Cardinality(list)
            /\ answer' = [answer EXCEPT ![p] =
                            IF ui' = "ready" /\ list # Profiles THEN "failed" ELSE "ok"]
    BY <1>7
  <2>1. list \in SUBSET Profiles /\ (list # {} => ui' = "ready")
    <3>1. ListedProfiles(ui') = {{}} \/ ListedProfiles(ui') \subseteq SUBSET Profiles
      BY DEF ListedProfiles
    <3>2. ui' # "ready" => ListedProfiles(ui') = {{}}
      BY DEF ListedProfiles
    <3> QED BY <2>0, <3>1, <3>2
  <2>2. Cardinality(list) \in Nat /\ IsFiniteSet(list)
    BY <2>1, FS_Subset, FS_CardinalityType DEF ObjectsAssumption
  <2>3. \A x \in {p} \X list : x \in Tiles /\ x \in Objects /\ refs[x] = 0 /\ x[1] = p /\ x[2] \in list
    BY <1>3, <2>1, Apart
  <2>4. \A q \in Providers : q \notin {p} \X list /\ refs'[q] = refs[q]
    BY <2>0, <2>3, Apart
  <2>5. Types'
    <3>1. refs' \in [Objects -> Nat]
      BY <1>0, <2>0 DEF Types
    <3>2. made' \in [Providers -> BOOLEAN] /\ conns' \in [Providers -> SUBSET Profiles]
      BY <1>0, <1>7, <2>0, <2>1 DEF Types
    <3>3. answer' \in [Providers -> {"none", "ok", "failed"}]
      BY <1>0, <2>0 DEF Types
    <3>4. stale' \in [Tiles -> BOOLEAN]
      BY <1>0, <2>0 DEF Types
    <3>5. dllRefs' \in Int
      BY <1>0, <2>0, <2>2 DEF Types
    <3> QED BY <1>0, <1>2, <1>5, <3>1, <3>2, <3>3, <3>4, <3>5 DEF Types, clientVars
  <2>6. /\ \A q \in Providers : /\ Alive(q)' <=> Alive(q)
                                /\ conns'[q] = (IF q = p THEN list ELSE conns[q])
        /\ \A x \in Objects : Alive(x)' <=> Alive(x) \/ x \in {p} \X list
    BY <1>0, <2>0, <2>3, <2>4 DEF Alive, Types, Objects
  <2>7. CountedOnce'
    <3>1. \A q \in Providers : refs'[q] = held'[q]
      BY <1>0, <1>2, <2>4 DEF CountedOnce, clientVars
    <3>2. ASSUME NEW t \in Tiles
          PROVE  refs'[t] = held'[t] + IF InArray(t)' THEN 1 ELSE 0
      <4>0. t \in Objects /\ t[1] \in Providers /\ t = <<t[1], t[2]>> /\ held'[t] = held[t]
            /\ refs[t] = held[t] + IF InArray(t) THEN 1 ELSE 0
        BY <1>0, <1>2, Apart DEF CountedOnce, clientVars
      <4>1. CASE t[1] = p
        <5>1. ~InArray(t) /\ refs[t] = 0 /\ held[t] = 0
          BY <1>1, <1>3, <4>0, <4>1, Apart DEF InArray
        <5>2. InArray(t)' <=> t[2] \in list
          BY <1>2, <2>6, <4>0, <4>1 DEF InArray
        <5>3. t \in {p} \X list <=> t[2] \in list
          BY <4>0, <4>1
        <5> QED BY <2>0, <4>0, <5>1, <5>2, <5>3
      <4>2. CASE t[1] # p
        <5>1. InArray(t)' <=> InArray(t)
          BY <2>6, <4>0, <4>2 DEF InArray
        <5>2. t \notin {p} \X list
          BY <2>3, <4>2
        <5> QED BY <2>0, <4>0, <5>1, <5>2
      <4> QED BY <4>1, <4>2
    <3> QED BY <3>1, <3>2 DEF CountedOnce
  <2>8. NoneBefore'
    <3>1. ASSUME NEW q \in Providers, Alive(q)', ~made'[q]
          PROVE  conns'[q] = {} /\ \A c \in Profiles : refs'[<<q, c>>] = 0
      <4>1. q # p /\ ~made[q] /\ Alive(q)
        BY <1>0, <1>7, <2>6, <3>1 DEF Types
      <4>2. conns[q] = {} /\ \A c \in Profiles : refs[<<q, c>>] = 0
        BY <4>1 DEF OInv, NoneBefore
      <4>3. \A c \in Profiles : <<q, c>> \in Objects /\ <<q, c>> \notin {p} \X list
        BY <4>1, Apart
      <4> QED BY <2>0, <2>6, <4>1, <4>2, <4>3
    <3> QED BY <3>1 DEF NoneBefore
  <2>9. UnloadIsSafe'
    <3>1. Cardinality(Living) \in Nat
      BY ObjectsFinite, FS_CardinalityType
    <3>2. dllRefs = factory + locks + Cardinality(Living)
      BY DEF OInv, UnloadIsSafe, Living
    <3>3. Living' = Living \cup ({p} \X list)
      BY <2>3, <2>6 DEF Living
    <3>4. ({p} \X list) \cap Living = {}
      BY <1>1, <2>3
    <3>5. Cardinality(Living') = Cardinality(Living) + Cardinality(list)
      BY <2>1, <3>3, <3>4, SomeMore
    <3>6. dllRefs' = factory' + locks' + Cardinality(Living')
      BY <1>0, <1>2, <2>0, <2>2, <3>1, <3>2, <3>5 DEF Types, ObjectsAssumption, clientVars
    <3> QED BY <3>6 DEF UnloadIsSafe, Living
  <2>10. OneAtATime'
    <3> SUFFICES ASSUME ~Overlap
                 PROVE  TilesHaveProfiles' /\ \A q, r \in Providers : Alive(q)' /\ Alive(r)' => q = r
      BY DEF OneAtATime
    <3>1. \A q, r \in Providers : Alive(q)' /\ Alive(r)' => q = r
      BY <2>6 DEF OInv, OneAtATime
    <3>2. ASSUME NEW q \in Providers, Alive(q)', conns'[q] # {}
          PROVE  ui' = "ready" /\ semaphore' = "held" /\ \A c \in conns'[q] : ~stale'[<<q, c>>]
      <4>1. q = p /\ conns'[q] = list
        BY <1>2, <2>6, <3>1, <3>2
      <4>2. ui' = "ready" /\ semaphore' = "held"
        BY <1>5, <2>1, <3>2, <4>1 DEF Guarded
      <4>3. \A c \in list : <<p, c>> \in Tiles /\ <<p, c>> \in {p} \X list
        BY <2>1, Apart
      <4> QED BY <2>0, <4>1, <4>2, <4>3
    <3> QED BY <3>1, <3>2 DEF TilesHaveProfiles
  <2> QED BY <1>5, <2>5, <2>7, <2>8, <2>9, <2>10 DEF OInv
<1> QED BY <1>6, <1>7 DEF SetUsageScenario

\* The last reference to a provider: the array's tiles go with it, unless the client
\* still holds them.
LEMMA ProviderFreed ==
    ASSUME ObjectsAssumption, OInv, NEW p \in Providers, held[p] > 0, refs[p] = 1,
           held' = [held EXCEPT ![p] = @ - 1], FreeProvider(p),
           UNCHANGED <<factory, locks, made, conns, answer>>
    PROVE  OInv'
<1>0. Types /\ CountedOnce /\ p \in Objects
  BY Apart DEF OInv
<1>1. \A y \in Objects : refs[y] \in Nat /\ held[y] \in Nat /\ (y \in Living <=> refs[y] > 0)
  BY <1>0, Alives
<1>2. /\ Alive(p)
      /\ \A t \in TilesOf(p) : t \in Tiles /\ t \in Objects /\ t # p /\ InArray(t) /\ refs[t] > 0
  <2>1. Alive(p)
    BY DEF Alive
  <2>2. ASSUME NEW t \in TilesOf(p)
        PROVE  t \in Tiles /\ t \in Objects /\ t # p /\ InArray(t) /\ refs[t] > 0
    <3>1. conns[p] \subseteq Profiles
      BY <1>0 DEF Types
    <3>2. t \in Tiles /\ t \in Objects /\ t # p /\ t[1] = p /\ t[2] \in conns[p]
      BY <3>1, Apart DEF TilesOf
    <3>3. InArray(t)
      BY <2>1, <3>2 DEF InArray
    <3> QED BY <1>0, <1>1, <3>2, <3>3 DEF CountedOnce
  <2> QED BY <2>1, <2>2
<1>3. /\ refs'[p] = 0 /\ held'[p] = 0
      /\ \A y \in TilesOf(p) : refs'[y] = refs[y] - 1 /\ held'[y] = held[y]
      /\ \A y \in Objects : y # p /\ y \notin TilesOf(p) => refs'[y] = refs[y] /\ held'[y] = held[y]
  BY <1>0, <1>2 DEF Types, CountedOnce, FreeProvider
<1>4. Types'
  <2>1. refs' \in [Objects -> Nat]
    <3>1. \A y \in Objects : refs'[y] \in Nat
      BY <1>1, <1>2, <1>3
    <3>2. refs' = [y \in Objects |-> refs'[y]]
      BY DEF FreeProvider
    <3> QED BY <3>1, <3>2
  <2>2. held' \in [Objects -> 0 .. MaxRefs]
    <3>1. held[p] \in 0 .. MaxRefs
      BY <1>0 DEF Types
    <3>2. held[p] - 1 \in 0 .. MaxRefs
      BY <3>1 DEF ObjectsAssumption
    <3> QED BY <1>0, <3>2 DEF Types
  <2>3. IsFiniteSet({t \in TilesOf(p) : refs[t] = 1})
    <3>1. {t \in TilesOf(p) : refs[t] = 1} \in SUBSET Objects
      BY <1>2
    <3>2. {t \in TilesOf(p) : refs[t] = 1} \in SUBSET Living
      BY <1>1, <1>2
    <3> QED BY <3>2, ObjectsFinite, FS_Subset
  <2>4. dllRefs' \in Int
    BY <1>0, <2>3, FS_CardinalityType DEF FreeProvider, Types
  <2>5. ui' \in {"off", "partial", "ready"} /\ semaphore' \in {"free", "held", "lost"}
        /\ richEdit' \in BOOLEAN /\ stale' \in [Tiles -> BOOLEAN]
    BY <1>0 DEF FreeProvider, DeleteUI, Types
  <2> QED BY <1>0, <2>1, <2>2, <2>4, <2>5 DEF Types
<1>5. \A q \in Providers : Alive(q)' <=> Alive(q) /\ q # p
  BY <1>2, <1>3, Apart DEF Alive
<1>6. CountedOnce'
  <2>1. \A q \in Providers : refs'[q] = held'[q]
    BY <1>0, <1>2, <1>3, Apart DEF CountedOnce
  <2>2. ASSUME NEW t \in Tiles
        PROVE  refs'[t] = held'[t] + IF InArray(t)' THEN 1 ELSE 0
    <3>0. t \in Objects /\ t # p /\ t[1] \in Providers /\ t = <<t[1], t[2]>>
          /\ refs[t] = held[t] + IF InArray(t) THEN 1 ELSE 0
      BY <1>0, Apart DEF CountedOnce
    <3>1. CASE t \in TilesOf(p)
      <4>1. ~InArray(t)'
        BY <1>5, <3>0, <3>1 DEF InArray, TilesOf
      <4> QED BY <1>1, <1>2, <1>3, <3>0, <3>1, <4>1
    <3>2. CASE t \notin TilesOf(p)
      <4>1. InArray(t)' <=> InArray(t)
        BY <1>5, <3>0, <3>2 DEF InArray, TilesOf
      <4> QED BY <1>3, <3>0, <3>2, <4>1
    <3> QED BY <3>1, <3>2
  <2> QED BY <2>1, <2>2 DEF CountedOnce
<1>7. NoneBefore'
  <2>1. ASSUME NEW q \in Providers, Alive(q)', ~made'[q]
        PROVE  conns'[q] = {} /\ \A c \in Profiles : refs'[<<q, c>>] = 0
    <3>1. q # p /\ conns[q] = {} /\ \A c \in Profiles : refs[<<q, c>>] = 0
      BY <1>5, <2>1 DEF OInv, NoneBefore
    <3>2. \A c \in Profiles : <<q, c>> \in Objects /\ <<q, c>> # p /\ <<q, c>> \notin TilesOf(p)
      BY <3>1, Apart DEF TilesOf
    <3> QED BY <1>3, <3>1, <3>2
  <2> QED BY <2>1 DEF NoneBefore
<1>8. UnloadIsSafe'
  <2> DEFINE gone == {t \in TilesOf(p) : refs[t] = 1}
  <2>1. Cardinality(Living) \in Nat
    BY ObjectsFinite, FS_CardinalityType
  <2>2. dllRefs = factory + locks + Cardinality(Living)
    BY DEF OInv, UnloadIsSafe, Living
  <2>3. gone \in SUBSET Living /\ p \in Living /\ p \notin gone
    BY <1>0, <1>1, <1>2
  <2>4. Living' = Living \ (gone \cup {p})
    <3>1. ASSUME NEW y \in Objects
          PROVE  refs'[y] > 0 <=> refs[y] > 0 /\ y \notin gone /\ y # p
      BY <1>1, <1>2, <1>3
    <3> QED BY <3>1 DEF Living, Alive
  <2>5. Cardinality(Living') = Cardinality(Living) - 1 - Cardinality(gone)
    BY <2>3, <2>4, SomeLess
  <2>6. Cardinality(gone) \in Nat
    BY <2>3, ObjectsFinite, FS_Subset, FS_CardinalityType
  <2>7. dllRefs' = factory' + locks' + Cardinality(Living')
    BY <1>0, <2>1, <2>2, <2>5, <2>6 DEF Types, ObjectsAssumption, FreeProvider
  <2> QED BY <2>7 DEF UnloadIsSafe, Living
<1>9. Guarded'
  BY DEF Guarded, FreeProvider, DeleteUI
<1>10. OneAtATime'
  <2>1. ~Overlap => \A q \in Providers : ~Alive(q)'
    BY <1>2, <1>5 DEF OInv, OneAtATime
  <2> QED BY <2>1 DEF OneAtATime, TilesHaveProfiles
<1> QED BY <1>4, <1>6, <1>7, <1>8, <1>9, <1>10 DEF OInv

-----------------------------------------------------------------------------
LEMMA OInit ==
    ASSUME ObjectsAssumption, Init
    PROVE  OInv
<1>1. Types
  <2>1. MaxRefs \in Nat /\ 0 \in 0 .. MaxRefs
    BY DEF ObjectsAssumption
  <2>2. refs \in [Objects -> Nat] /\ held \in [Objects -> 0 .. MaxRefs]
    BY <2>1 DEF Init
  <2>3. made \in [Providers -> BOOLEAN] /\ conns \in [Providers -> SUBSET Profiles]
        /\ answer \in [Providers -> {"none", "ok", "failed"}] /\ stale \in [Tiles -> BOOLEAN]
    BY DEF Init
  <2>4. dllRefs = 0 /\ factory = 0 /\ locks = 0 /\ ui = "off" /\ semaphore = "free" /\ ~richEdit
    BY DEF Init
  <2>5. richEdit \in BOOLEAN
    BY DEF Init
  <2> QED BY <2>1, <2>2, <2>3, <2>4, <2>5 DEF Types
<1>2. \A x \in Objects : refs[x] = 0 /\ held[x] = 0 /\ ~Alive(x)
  BY DEF Init, Alive
<1>3. CountedOnce
  BY <1>2, Apart DEF CountedOnce, InArray
<1>4. NoneBefore /\ OneAtATime
  BY <1>2, Apart DEF NoneBefore, OneAtATime, TilesHaveProfiles
<1>5. UnloadIsSafe
  <2>1. {x \in Objects : Alive(x)} = {}
    BY <1>2
  <2> QED BY <2>1, FS_EmptySet DEF UnloadIsSafe, Init
<1>6. Guarded
  BY DEF Init, Guarded
<1> QED BY <1>1, <1>3, <1>4, <1>5, <1>6 DEF OInv

LEMMA OStep ==
    ASSUME ObjectsAssumption, OInv, [Next]_vars
    PROVE  OInv'
<1>0. Types /\ CountedOnce
  BY DEF OInv
<1>1. CASE DllGetClassObject \/ ReleaseFactory \/ \E b \in BOOLEAN : LockServer(b)
  BY <1>1, ClassFactory
<1>2. CASE \E p \in Providers : CreateInstance(p)
  BY <1>2, Created
<1>3. CASE \E p \in Providers : SetUsageScenario(p)
  BY <1>3, ScenarioSet
<1>4. ASSUME NEW p \in Providers, AddRefProvider(p)
      PROVE  OInv'
  <2>1. p \in Objects /\ held[p] > 0 /\ held[p] < MaxRefs
    BY <1>4, Apart DEF AddRefProvider, ObjectsAssumption
  <2>2. p \in Living
    BY <1>0, <2>1, Alives DEF HeldIsAlive, Living
  <2> QED BY <1>4, <2>1, <2>2, Taken DEF AddRefProvider, others, uiVars
<1>5. ASSUME NEW p \in Providers, NEW c \in Profiles, GetCredentialAt(p, c)
      PROVE  OInv'
  <2>1. <<p, c>> \in Tiles /\ <<p, c>> \in Objects
    BY Apart
  <2>2. Alive(p)
    BY <1>0, <1>5, Alives, Apart DEF HeldIsAlive, GetCredentialAt
  <2>3. InArray(<<p, c>>)
    BY <1>5, <2>1, <2>2 DEF InArray, GetCredentialAt
  <2>4. <<p, c>> \in Living
    BY <1>0, <2>1, <2>3, Alives DEF HeldIsAlive, Living
  <2> QED BY <1>5, <2>1, <2>4, Taken DEF GetCredentialAt, others, uiVars
<1>6. ASSUME NEW p \in Providers, ReleaseProvider(p)
      PROVE  OInv'
  <2>1. CASE refs[p] = 1
    BY <1>6, <2>1, ProviderFreed DEF ReleaseProvider
  <2>2. CASE refs[p] # 1
    <3>1. /\ p \in Objects /\ held[p] > 0 /\ held' = [held EXCEPT ![p] = @ - 1]
          /\ refs' = [refs EXCEPT ![p] = @ - 1]
          /\ dllRefs' = IF refs[p] = 1 THEN dllRefs - 1 ELSE dllRefs
          /\ UNCHANGED <<factory, locks, others>>
      BY <1>6, <2>2, Apart DEF ReleaseProvider, others, uiVars
    <3> QED BY <2>2, <3>1, Dropped
  <2> QED BY <2>1, <2>2
<1>7. ASSUME NEW t \in Tiles, ReleaseTile(t)
      PROVE  OInv'
  <2>1. /\ t \in Objects /\ held[t] > 0 /\ held' = [held EXCEPT ![t] = @ - 1]
        /\ refs' = [refs EXCEPT ![t] = @ - 1]
        /\ dllRefs' = IF refs[t] = 1 THEN dllRefs - 1 ELSE dllRefs
        /\ UNCHANGED <<factory, locks, others>>
    BY <1>7, Apart DEF ReleaseTile, others, uiVars
  <2> QED BY <2>1, Dropped
<1>8. CASE UNCHANGED vars
  <2>1. UNCHANGED <<dllRefs, factory, locks, refs, held, others>>
    BY <1>8 DEF vars, clientVars, objectVars, uiVars, others
  <2>2. Types' /\ \A x : Alive(x)' <=> Alive(x)
    BY <1>0, <2>1 DEF Types, Alive, others
  <2>3. Guarded' /\ OneAtATime' /\ \A x : InArray(x)' <=> InArray(x)
    BY <2>1, <2>2, OthersStay
  <2>4. CountedOnce' /\ NoneBefore'
    BY <2>1, <2>2, <2>3 DEF OInv, CountedOnce, NoneBefore, others
  <2>5. UnloadIsSafe'
    <3>1. Living' = Living
      BY <2>2 DEF Living
    <3> QED BY <2>1, <3>1 DEF OInv, UnloadIsSafe, Living
  <2> QED BY <2>2, <2>3, <2>4, <2>5 DEF OInv
<1> QED BY <1>1, <1>2, <1>3, <1>4, <1>5, <1>6, <1>7, <1>8 DEF Next

LEMMA OHolds ==
    ObjectsAssumption => (Spec => []OInv)
<1> SUFFICES ASSUME ObjectsAssumption
             PROVE  Spec => []OInv
  OBVIOUS
<1>1. Init => OInv
  BY OInit
<1>2. OInv /\ [Next]_vars => OInv'
  BY OStep
<1> QED BY <1>1, <1>2, PTL DEF Spec

\* Every variable has its type; dll_ref_count (plap_dll.c) never falls below zero.
THEOREM TypeCorrect ==
    ObjectsAssumption => (Spec => []TypeOK)
<1> SUFFICES ASSUME ObjectsAssumption
             PROVE  Spec => []TypeOK
  OBVIOUS
<1>1. OInv => TypeOK
  <2> SUFFICES ASSUME OInv
               PROVE  TypeOK
    OBVIOUS
  <2>1. Types /\ dllRefs = factory + locks + Cardinality(Living)
    BY DEF OInv, UnloadIsSafe, Living
  <2>2. Cardinality(Living) \in Nat
    BY ObjectsFinite, FS_CardinalityType
  <2>3. dllRefs \in Nat
    BY <2>1, <2>2 DEF Types, ObjectsAssumption
  <2> QED BY <2>1, <2>3 DEF Types, TypeOK
<1> QED BY <1>1, OHolds, PTL

\* However LogonUI takes and drops references: what it holds is alive (Release in
\* plap_connection.c and plap_provider.c), dll_ref_count counts the living objects, the
\* factory's references and the locks, and a provider that is alone has the profiles its
\* tiles point into.
THEOREM Counted ==
    ObjectsAssumption => (Spec => []ObjectsAreCounted)
<1> SUFFICES ASSUME ObjectsAssumption
             PROVE  Spec => []ObjectsAreCounted
  OBVIOUS
<1>1. OInv => ObjectsAreCounted
  BY Alives DEF OInv, ObjectsAreCounted, OneAtATime
<1> QED BY <1>1, OHolds, PTL
=============================================================================
