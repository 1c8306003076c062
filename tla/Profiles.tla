------------------------------- MODULE Profiles -------------------------------
(***************************************************************************)
(* The list of profiles, the groups it is shown in and the tray menu built *)
(* from both: BuildFileList (openvpn_config.c) and CreatePopupMenus,       *)
(* RecreatePopupMenus and SetMenuStatus (tray.c).  The configuration files *)
(* belong to the user, who adds, moves and removes them while the GUI runs *)
(* and the profiles connect; every opening of the menu scans them again.   *)
(*                                                                         *)
(* A group is identified with the directory it stands for: "user" is the   *)
(* root group, "auto" the group of persistent profiles, "global" that of   *)
(* system profiles, and every other directory has its own group if it was  *)
(* there when the list was first built.  A menu is the sequence of its     *)
(* items: <<"group", directory>> opens a sub-menu, <<"profile", i>> the    *)
(* actions of the i-th profile.                                            *)
(***************************************************************************)
EXTENDS Naturals, Sequences, FiniteSets, Picks

CONSTANTS
    Names,      \* names of configuration files
    SubDirs,    \* directories below the three configured ones
    ParentDir,  \* the directory each of them is in
    Walk,       \* all directories in the order the recursion meets them
    MaxEdits    \* bound: changes the user makes to the files

Roots == {"user", "global", "auto"}
Dirs == Roots \cup SubDirs

VARIABLES
    files,    \* readable configuration files of each directory
    present,  \* the subdirectories that exist
    service,  \* the automatic service runs: its directory is scanned
    list,     \* o.chead: the profiles in the order they were found
    groups,   \* o.groups
    menu,     \* the items of each group's menu; <<>> where there is none
    pos,      \* c->pos: the place of each profile in the menu that holds it
    gpos,     \* "pos" of each group: its place in its parent's menu, or 0
    marked,   \* checked items, as <<group, place>>
    nested,   \* USE_NESTED_CONFIG_MENU
    built,    \* a menu has been built
    shown,    \* it is on the screen: TrackPopupMenu has not returned
    up,       \* profiles that are connected or on their way, by name
    edits

diskVars == <<files, present, service, edits>>
menuVars == <<menu, pos, gpos, marked, built, nested, shown>>
vars == <<diskVars, list, groups, menuVars, up>>

-----------------------------------------------------------------------------
(* openvpn_config.c *)

\* The group of a directory's files: NewConfigGroup returns the parent's when
\* no groups are added.
GroupOfDir(gs) ==
    LET g[d \in Dirs] == IF d \in gs THEN d ELSE g[ParentDir[d]] IN g

RootOf == LET r[d \in Dirs] == IF d \in Roots THEN d ELSE r[ParentDir[d]] IN r
Reached ==
    LET r[d \in Dirs] == IF d \in Roots THEN TRUE ELSE d \in present /\ r[ParentDir[d]] IN r
Scanned(d) == Reached[d] /\ (RootOf[d] = "auto" => service)

\* BuildFileList: groups are made with the first list and kept with it.
ScannedGroups ==
    IF list = <<>> THEN Roots \cup {d \in present : Scanned(d)} ELSE groups

ConfigAlreadyExists(l, n) == \E i \in DOMAIN l : l[i].name = n

\* AddConfigFileToList
Entry(d, n, gs) ==
    [name |-> n, dir |-> d, group |-> GroupOfDir(gs)[d],
     persistent |-> RootOf[d] = "auto", disabled |-> FALSE]

AddFile(l, d, n, gs) ==
    IF n \in files[d] /\ ~ConfigAlreadyExists(l, n) THEN Append(l, Entry(d, n, gs)) ELSE l

\* BuildFileList0 for every directory that is scanned, its files in order and
\* before its subdirectories.
Scan(gs) ==
    LET OneDir(l, d) ==
            IF Scanned(d)
            THEN FoldLeft(LAMBDA acc, n : AddFile(acc, d, n, gs), l, SetToSeq(Names))
            ELSE l
    IN  FoldLeft(OneDir, list, Walk)

\* PARENT_GROUP; the roots of system and persistent profiles are in the root.
ParentGroup(g) == IF g \in Roots THEN "user" ELSE ParentDir[g]
Ancestors == LET a[g \in Dirs] == IF g = "user" THEN {g} ELSE {g} \cup a[ParentGroup(g)]
             IN  a

Children(l, gs, g) ==
    Cardinality({i \in DOMAIN l : l[i].group = g})
      + Cardinality({h \in gs \ {"user"} : ParentGroup(h) = g})

\* ActivateConfigGroups: a profile alone in a group of its own name moves up,
\* one whose file cannot be read any more is disabled.
Squashed(l, gs, e) ==
    e.group # "user" /\ e.group = e.name /\ Children(l, gs, e.group) = 1

Activated(l, gs) ==
    [i \in DOMAIN l |->
       [l[i] EXCEPT !.group = IF Squashed(l, gs, l[i]) THEN ParentGroup(@) ELSE @,
                    !.disabled = l[i].name \notin files[l[i].dir]]]

ActiveGroups(l) == {"user"} \cup UNION {Ancestors[l[i].group] : i \in DOMAIN l}

-----------------------------------------------------------------------------
(* tray.c: CreatePopupMenus *)

\* The order in which groups were made: the three roots, then the directories.
GroupOrder(gs) ==
    <<"user", "auto", "global">> \o Only(Walk, gs \ Roots)

\* Sub-menus that are attached: all of them, or only that of persistent profiles.
Attached(l, gs) ==
    Only(Tail(GroupOrder(gs)), {g \in ActiveGroups(l) : nested \/ g = "auto"})

\* The group whose menu holds a profile.
HolderOf(e) == IF nested THEN e.group ELSE IF e.persistent THEN "auto" ELSE "user"

SubMenus(l, gs, g) == Only(Attached(l, gs), {h \in Dirs : ParentGroup(h) = g})

\* Items are appended group by group, then profile by profile.
Group(g) == <<"group", g>>
Profile(i) == <<"profile", i>>
ItemsOf(l, gs, g) ==
    LET subs == SubMenus(l, gs, g)
        own  == Only([i \in DOMAIN l |-> i], {i \in DOMAIN l : HolderOf(l[i]) = g})
    IN  [k \in DOMAIN subs |-> Group(subs[k])] \o [k \in DOMAIN own |-> Profile(own[k])]

\* parent->children++ : the items a menu has when the next one is appended.
GroupPlace(l, gs, g) ==
    LET before == SubMenus(l, gs, ParentGroup(g))
    IN  IF g \in ToSet(before) THEN CHOOSE k \in DOMAIN before : before[k] = g ELSE 0

\* Mutant of ProfilePlace: sub-menus are not counted.
ProfilePlaceNoGroups(l, gs, i) ==
    Cardinality({j \in 1 .. i : HolderOf(l[j]) = HolderOf(l[i])})

ProfilePlace(l, gs, i) ==
    Cardinality({h \in ToSet(Attached(l, gs)) : ParentGroup(h) = HolderOf(l[i])})
      + Cardinality({j \in 1 .. i : HolderOf(l[j]) = HolderOf(l[i])})

\* SetMenuStatus of a profile that is up checks its item and those of the
\* groups above it; of one that is not, it clears the profile's item.
Chain(l, p, gp, i) ==
    {<<HolderOf(l[i]), p[i]>>}
      \cup {<<ParentGroup(g), gp[g]>> : g \in Ancestors[HolderOf(l[i])] \ {"user"}}

\* Mutant of StatusMarks: only the profile's own item is checked.
StatusMarksOwn(l, p, gp, i, on, m) ==
    IF on THEN m \cup {<<HolderOf(l[i]), p[i]>>} ELSE m \ {<<HolderOf(l[i]), p[i]>>}

StatusMarks(l, p, gp, i, on, m) ==
    IF on THEN m \cup Chain(l, p, gp, i) ELSE m \ {<<HolderOf(l[i]), p[i]>>}

\* With a single profile its actions are in the main menu: there are no items.
SingleMenu(l) == Len(l) = 1

CreatePopupMenus(l, gs) ==
    /\ menu' = [g \in Dirs |-> IF SingleMenu(l) \/ g \notin ActiveGroups(l) THEN <<>>
                               ELSE ItemsOf(l, gs, g)]
    /\ pos' = [i \in DOMAIN l |-> ProfilePlace(l, gs, i)]
    /\ gpos' = [g \in Dirs |-> GroupPlace(l, gs, g)]
    /\ marked' = IF SingleMenu(l) THEN {}
                 ELSE FoldLeft(LAMBDA m, i : StatusMarks(l, pos', gpos', i, l[i].name \in up, m),
                               {}, [i \in DOMAIN l |-> i])
    /\ built' = TRUE

-----------------------------------------------------------------------------
(* Actions *)

RecreatePopupMenus(on) ==
    LET gs == ScannedGroups
        l  == Activated(Scan(gs), gs)
    IN  /\ list' = l /\ groups' = gs
        /\ CreatePopupMenus(l, gs)
        /\ shown' = on
        /\ UNCHANGED <<diskVars, nested, up>>

\* OnNotifyTray, WM_CONTEXTMENU; the message loop of the menu runs the others.
OpenMenu == ~shown /\ RecreatePopupMenus(TRUE)

\* WM_OVPN_RESCAN, a double-click on the icon, an import: a menu that is on the
\* screen is destroyed.
Rescan == RecreatePopupMenus(FALSE)

\* The user picks an item or leaves the menu; the settings are one of the items.
CloseMenu ==
    /\ shown /\ shown' = FALSE
    /\ UNCHANGED <<diskVars, list, groups, menu, pos, gpos, marked, built, nested, up>>

\* The advanced settings change the view; the menu stays as it was built.
ChangeView ==
    /\ built /\ ~shown /\ nested' = ~nested
    /\ UNCHANGED <<diskVars, list, groups, menu, pos, gpos, marked, built, shown, up>>

\* A status thread changes the state of its profile and calls SetMenuStatus.
StateChanges(i) ==
    /\ built
    /\ ~list[i].disabled \/ list[i].name \in up
    /\ up' = IF list[i].name \in up THEN up \ {list[i].name} ELSE up \cup {list[i].name}
    /\ marked' = IF SingleMenu(list) THEN marked
                 ELSE StatusMarks(list, pos, gpos, i, list[i].name \in up', marked)
    /\ UNCHANGED <<diskVars, list, groups, menu, pos, gpos, built, nested, shown>>

\* The user's files (external).
Edit == edits < MaxEdits /\ edits' = edits + 1
UserEdits ==
    /\ Edit
    /\ \/ \E d \in Dirs, n \in Names :
             /\ d \in Roots \cup present
             /\ files' = [files EXCEPT ![d] = IF n \in @ THEN @ \ {n} ELSE @ \cup {n}]
             /\ UNCHANGED <<present, service>>
       \/ \E d, e \in Roots \cup present, n \in Names :
             /\ n \in files[d] \ files[e]
             /\ files' = [files EXCEPT ![d] = @ \ {n}, ![e] = @ \cup {n}]
             /\ UNCHANGED <<present, service>>
       \/ \E d \in SubDirs \ present :
             present' = present \cup {d} /\ UNCHANGED <<files, service>>
       \/ service' = ~service /\ UNCHANGED <<files, present>>
    /\ UNCHANGED <<list, groups, menuVars, up>>

Init ==
    /\ files \in [Dirs -> {{}, Names}] /\ present \in SUBSET SubDirs
    /\ \A d \in SubDirs \ present : files[d] = {}
    /\ service \in BOOLEAN
    /\ list = <<>> /\ groups = {} /\ built = FALSE
    /\ menu = [g \in Dirs |-> <<>>] /\ pos = <<>> /\ gpos = [g \in Dirs |-> 0] /\ marked = {} /\ shown = FALSE
    /\ nested \in BOOLEAN
    /\ up = {} /\ edits = 0

Next ==
    \/ OpenMenu \/ Rescan \/ CloseMenu \/ ChangeView \/ UserEdits
    \/ \E i \in DOMAIN list : StateChanges(i)

Spec == Init /\ [][Next]_vars

-----------------------------------------------------------------------------
(* Every variable has its type. *)
TypeOK ==
    /\ files \in [Dirs -> SUBSET Names] /\ present \subseteq SubDirs
    /\ {service, built, nested, shown} \subseteq BOOLEAN /\ edits \in 0 .. MaxEdits
    /\ \A i \in DOMAIN list : list[i] \in [name : Names, dir : Dirs, group : Dirs,
                                           persistent : BOOLEAN, disabled : BOOLEAN]
    /\ groups \subseteq Dirs
    /\ \A g \in Dirs : ToSet(menu[g]) \subseteq {Group(h) : h \in Dirs} \cup {Profile(i) : i \in DOMAIN list}
    /\ pos \in Seq(Nat) /\ Len(pos) <= Len(list) /\ gpos \in [Dirs -> Nat]
    /\ marked \subseteq Dirs \X Nat /\ up \subseteq Names

\* In the menu on the screen SetMenuStatus finds a profile where it looks for it,
\* below groups found from the main menu in the same way: every profile that was
\* ever listed can be reached, and no other item is marked for it.
Leads(place, item, g) == place \in DOMAIN menu[g] /\ menu[g][place] = item
ProfilesReachable ==
    shown /\ ~SingleMenu(list) =>
        \A i \in DOMAIN list :
            /\ Leads(pos[i], Profile(i), HolderOf(list[i]))
            /\ \A g \in Ancestors[HolderOf(list[i])] \ {"user"} :
                  Leads(gpos[g], Group(g), ParentGroup(g))

\* In the menu on the screen a profile that is up is marked all the way from the
\* main menu, whatever was scanned, moved, rebuilt or switched since it started.
UpIsMarked ==
    shown /\ ~SingleMenu(list) =>
        \A i \in DOMAIN list : list[i].name \in up => Chain(list, pos, gpos, i) \subseteq marked

\* There is one profile of each name: names are what commands, saved passwords
\* and the registry know profiles by.
NamesUnique == \A i, j \in DOMAIN list : list[i].name = list[j].name => i = j

\* A rescan adds "any new one's found" (openvpn_config.c:377): right after it,
\* every readable file of a scanned directory can be started.
\* Not checked, it does not hold: a file that has been moved keeps its old, disabled entry.
FoundIsUsable ==
    [][OpenMenu =>
         \A d \in Dirs, n \in Names : Scanned(d) /\ n \in files[d] =>
            \E i \in DOMAIN list' : list'[i].name = n /\ ~list'[i].disabled]_vars
=============================================================================
