-------------------------------- MODULE EnvSet --------------------------------
(***************************************************************************)
(* The variables a server sets for the scripts of a connection             *)
(* (env_set.c, scripts.c).  "setenv" keeps them in a list sorted by name;  *)
(* the connect script runs with a block in which this list and the         *)
(* environment of the GUI, sorted too, are merged.  The same block is made *)
(* for the disconnect script, which is started without it.                 *)
(*                                                                         *)
(* A name is a number, in the order of env_name_compare, with the case it  *)
(* is written in, which the comparison ignores.  0 is the empty name       *)
(* Windows gives to its "=C:" entries: there may be several, and they      *)
(* never come from a server, whose names start with OPENVPN_.              *)
(***************************************************************************)
EXTENDS Naturals, Sequences, FiniteSets, Picks

CONSTANTS
    MaxName,  \* names are 1 .. MaxName
    Cases,    \* ways to write a name
    Values,
    MaxEcho   \* bound: messages of the server

Item(n, c, v) == [name |-> n, case |-> c, value |-> v]
Items == [name : 1 .. MaxName, case : Cases, value : Values]

VARIABLES
    es,       \* c->es
    process,  \* the environment block of the GUI
    ran,      \* the block of the last script, or <<>>
    meant,    \* history: what the server set last, by name
    echoes

vars == <<es, process, ran, meant, echoes>>

Unset == "unset"

\* Mutant of Insert: names are compared with their case.
InsertCased(l, item) ==
    LET before == Only(l, {x \in Items : \/ x.name < item.name
                                         \/ x.name = item.name /\ x.case # item.case})
        after  == Only(l, {x \in Items : x.name > item.name})
    IN  before \o <<item>> \o after

\* env_item_insert: in order, in place of an item of that name.
Insert(l, item) ==
    LET before == Only(l, {x \in Items : x.name < item.name})
        after  == Only(l, {x \in Items : x.name > item.name})
    IN  before \o <<item>> \o after

\* env_item_del
Delete(l, n) == Only(l, {x \in Items : x.name # n})

\* merge_env_block
Merge(l, block) ==
    LET m[p \in (1 .. Len(l) + 1) \X (1 .. Len(block) + 1)] ==
          LET i == p[1]
              j == p[2]
          IN  IF i > Len(l) THEN SubSeq(block, j, Len(block))
              ELSE IF j > Len(block) THEN SubSeq(l, i, Len(l))
              ELSE IF l[i].name < block[j].name THEN <<l[i]>> \o m[<<i + 1, j>>]
              ELSE IF l[i].name = block[j].name THEN <<l[i]>> \o m[<<i + 1, j + 1>>]
              ELSE <<block[j]>> \o m[<<i, j + 1>>]
    IN  m[<<1, 1>>]

-----------------------------------------------------------------------------
Echoed == echoes < MaxEcho /\ echoes' = echoes + 1

\* process_setenv with a name and a value, also the empty one.
SetEnv(item) ==
    /\ Echoed /\ es' = Insert(es, item)
    /\ meant' = [meant EXCEPT ![item.name] = item.value]
    /\ UNCHANGED <<process, ran>>

\* A name alone deletes; an illegal one is refused, the one with "=" quietly.
UnsetEnv(n) ==
    /\ Echoed /\ es' = Delete(es, n)
    /\ meant' = [meant EXCEPT ![n] = Unset]
    /\ UNCHANGED <<process, ran>>

IllegalName == Echoed /\ UNCHANGED <<es, process, ran, meant>>

\* CreateProcess gets the merged block, or NULL without variables of the server: the
\* script then inherits the environment.
RunConnectScript ==
    /\ ran' = IF es = <<>> THEN process ELSE Merge(es, process)
    /\ UNCHANGED <<es, process, meant, echoes>>

\* The merged block is made and freed again; CreateProcess gets NULL whatever the server set.
RunDisconnectScript ==
    /\ ran' = process
    /\ UNCHANGED <<es, process, meant, echoes>>

\* Cleanup: env_item_del_all
Cleanup ==
    /\ es # <<>> /\ es' = <<>> /\ meant' = [n \in DOMAIN meant |-> Unset]
    /\ UNCHANGED <<process, ran, echoes>>

\* The environment of the GUI: sorted, a name once, "=C:" and "=D:" before them.
Environment(d, S) ==
    [k \in 1 .. d |-> Item(0, "drive", "c")] \o
      Only([n \in 1 .. MaxName |-> Item(n, "process", "p")], {Item(n, "process", "p") : n \in S})

Init ==
    /\ \E d \in 0 .. 2, S \in SUBSET (1 .. MaxName) : process = Environment(d, S)
    /\ es = <<>> /\ ran = <<>>
    /\ meant = [n \in 1 .. MaxName |-> Unset] /\ echoes = 0

Next ==
    \/ \E item \in Items : SetEnv(item)
    \/ \E n \in 1 .. MaxName : UnsetEnv(n)
    \/ IllegalName \/ RunConnectScript \/ RunDisconnectScript \/ Cleanup

Spec == Init /\ [][Next]_vars

-----------------------------------------------------------------------------
(* Every variable has its type. *)
Entries == [name : 0 .. MaxName, case : Cases \cup {"process", "drive"}, value : Values \cup {"p", "c"}]
TypeOK ==
    /\ es \in Seq(Items) /\ process \in Seq(Entries) /\ ran \in Seq(Entries)
    /\ meant \in [1 .. MaxName -> Values \cup {Unset}] /\ echoes \in 0 .. MaxEcho

ValueIn(block, n) == {block[k].value : k \in {j \in DOMAIN block : block[j].name = n}}

\* A block is sorted, as Windows requires, names each variable once however the server
\* wrote it, and gives it the server's last value, or else that of the GUI's environment,
\* of which nothing is lost.
Appended(block) ==
    /\ \A j, k \in DOMAIN block : j < k => block[j].name <= block[k].name
    /\ \A n \in 1 .. MaxName :
          /\ Cardinality({j \in DOMAIN block : block[j].name = n}) <= 1
          /\ ValueIn(block, n) = IF meant[n] # Unset THEN {meant[n]} ELSE ValueIn(process, n)
    /\ Only(block, {x \in Entries : x.name = 0}) = Only(process, {x \in Entries : x.name = 0})

\* The connect script gets such a block (scripts.c:187).
ConnectBlock == RunConnectScript => Appended(ran')

\* "make an env array with confg specific env appended to the process's env" (scripts.c:319):
\* the disconnect script gets such a block.
\* Not checked, it does not hold: scripts.c:330 passes NULL.
DisconnectEnvironment == [][RunDisconnectScript => Appended(ran')]_vars
=============================================================================
