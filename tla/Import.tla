-------------------------------- MODULE Import --------------------------------
(***************************************************************************)
(* The import of profiles: from a URL or an Access Server (as.c), from a   *)
(* file the user picks (main.c), or from one another process names with    *)
(* "--import"; all of them end in ImportConfigFile (misc.c), which copies  *)
(* the file into the user's directory and scans the directories again.     *)
(*                                                                         *)
(* All of this runs in the main thread, but every dialog and every message *)
(* runs a message loop in which another import may start: a loop returns   *)
(* only when those that started inside it have.  A download is saved under *)
(* the name of the profile in the one temporary directory.                 *)
(***************************************************************************)
EXTENDS Naturals, Sequences, Picks

CONSTANTS
    Jobs,      \* imports
    Names,     \* names of profiles
    MaxEdits   \* bound: changes the user makes to the files

VARIABLES
    job,      \* kind, stage, name and question of each import
    loops,    \* the imports whose modal loops run, innermost first
    tmp,      \* the temporary file of each name: the import that wrote it, or "none"
    disk,     \* the file of each name in the user's directory: who wrote it, or "none"
    list,     \* what the list knows of each name: "none", "user" or "global"
    copied,   \* history: successful copies
    edits

vars == <<job, loops, tmp, disk, list, copied, edits>>

None == "none"
Idle == [kind |-> None, stage |-> "idle", name |-> None]
Download(k) == k \in {"as", "url"}

\* Loops are entered and left innermost first.
Innermost(j) == loops # <<>> /\ Head(loops) = j
Set(j, r) == job' = [job EXCEPT ![j] = r]
At(j, stage) == [job[j] EXCEPT !.stage = stage]

-----------------------------------------------------------------------------
(* ImportConfigFile *)

\* The source: the temporary file of a download, as it is now.
SourceOf(t, j, n) == IF Download(job[j].kind) THEN t[n] ELSE j

\* _wunlink after the import of a download, however it went.
Unlinked(t, j, n) == IF Download(job[j].kind) THEN [t EXCEPT ![n] = None] ELSE t

\* The loops an import leaves: that of its question, and that of its dialog.
Left(j) == Only(loops, Jobs \ {j})

Finish(j, t, n) ==
    /\ tmp' = Unlinked(t, j, n) /\ Set(j, [Idle EXCEPT !.stage = "done"]) /\ loops' = Left(j)

\* BuildFileList: a name that is known stays where it was found.
Rescanned(d) == [n \in Names |-> IF list[n] = None /\ d[n] # None THEN "user" ELSE list[n]]

\* Mutant of CopyFile: whatever is there is replaced.
CopyFileAlways(j, t, n, overwrite) ==
    /\ IF SourceOf(t, j, n) = None
       THEN UNCHANGED <<disk, list, copied>>
       ELSE /\ disk' = [disk EXCEPT ![n] = SourceOf(t, j, n)]
            /\ copied' = Append(copied, [by |-> j, content |-> SourceOf(t, j, n),
                                         replaced |-> disk[n] # None, agreed |-> overwrite])
            /\ list' = Rescanned(disk')
    /\ Finish(j, t, n)

\* An existing file is only replaced if the user was asked; the rest fails with a message.
CopyFile(j, t, n, overwrite) ==
    /\ IF SourceOf(t, j, n) = None \/ (disk[n] # None /\ ~overwrite)
       THEN UNCHANGED <<disk, list, copied>>
       ELSE /\ disk' = [disk EXCEPT ![n] = SourceOf(t, j, n)]
            /\ copied' = Append(copied, [by |-> j, content |-> SourceOf(t, j, n),
                                         replaced |-> disk[n] # None, agreed |-> overwrite])
            /\ list' = Rescanned(disk')
    /\ Finish(j, t, n)

\* A profile of that name in the user's directory: "overwrite?"; no such profile, but a
\* file named by another process: "import?"; otherwise the file is copied at once.
\* ls: the loops that run when it is called.
ImportConfigFile(j, kind, t, n, ls) ==
    IF list[n] = "user" \/ kind = "arg"
    THEN /\ Set(j, [kind |-> kind, stage |-> IF list[n] = "user" THEN "overwrite" ELSE "import",
                    name |-> n])
         /\ loops' = <<j>> \o ls /\ tmp' = t
         /\ UNCHANGED <<disk, list, copied>>
    ELSE CopyFile(j, t, n, FALSE)

\* The answer to either question.
AnswerQuestion(j, yes) ==
    /\ job[j].stage \in {"overwrite", "import"} /\ Innermost(j)
    /\ IF yes
       THEN CopyFile(j, tmp, job[j].name, job[j].stage = "overwrite")
       ELSE Finish(j, tmp, job[j].name) /\ UNCHANGED <<disk, list, copied>>
    /\ UNCHANGED edits

-----------------------------------------------------------------------------
(* The sources *)

\* ImportConfigFromAS, ImportConfigFromURL, ImportConfigFileFromDisk: a dialog.
OpenDialog(j, kind) ==
    /\ job[j].stage = "idle" /\ Set(j, [kind |-> kind, stage |-> "dialog", name |-> None])
    /\ loops' = <<j>> \o loops
    /\ UNCHANGED <<tmp, disk, list, copied, edits>>

\* WM_COPYDATA or the command line; a file in one of the directories is refused.
ImportArgument(j, n) ==
    /\ job[j].stage = "idle" /\ ImportConfigFile(j, "arg", tmp, n, loops) /\ UNCHANGED edits

\* DownloadProfile: it fails with a message, is challenged, or brings a profile whose
\* name and content are the server's; an unparsable challenge is a failure.
Response(j, ls) ==
    \/ Set(j, At(j, "dialog")) /\ loops' = ls /\ UNCHANGED <<tmp, disk, list, copied>>
    \/ Set(j, At(j, "challenge")) /\ loops' = <<j>> \o ls /\ UNCHANGED <<tmp, disk, list, copied>>
    \/ \E n \in Names : ImportConfigFile(j, job[j].kind, [tmp EXCEPT ![n] = j], n, ls)

\* OK of a dialog, handled by whichever loop is innermost.  Pressed again while the
\* challenge is shown it starts another download, as a second dialog would.
PressOk(j) ==
    /\ job[j].stage = "dialog"
    /\ IF Download(job[j].kind)
       THEN Response(j, loops)
       ELSE /\ Innermost(j)
            /\ \E n \in Names : ImportConfigFile(j, "disk", tmp, n, loops)
    /\ UNCHANGED edits

\* CRDialogFunc: the response is the next password, "goto again"; Cancel is an error 401.
AnswerChallenge(j) ==
    /\ job[j].stage = "challenge" /\ Innermost(j)
    /\ Response(j, Tail(loops)) /\ UNCHANGED edits

CancelDialog(j) ==
    /\ job[j].stage = "dialog" /\ Innermost(j)
    /\ Set(j, [Idle EXCEPT !.stage = "done"]) /\ loops' = Left(j)
    /\ UNCHANGED <<tmp, disk, list, copied, edits>>

\* Files are put into the directory and removed from it, and the tray menu scans it.
UserEdits ==
    /\ edits < MaxEdits /\ edits' = edits + 1
    /\ \/ \E n \in Names : disk' = [disk EXCEPT ![n] = IF @ = None THEN "user" ELSE None]
                           /\ UNCHANGED list
       \/ list' = Rescanned(disk) /\ UNCHANGED disk
    /\ UNCHANGED <<job, loops, tmp, copied>>

Init ==
    /\ job = [j \in Jobs |-> Idle] /\ loops = <<>>
    /\ tmp = [n \in Names |-> None] /\ copied = <<>> /\ edits = 0
    /\ disk \in [Names -> {None, "user"}]
    /\ list \in {l \in [Names -> {None, "user", "global"}] :
                    \A n \in Names : (disk[n] # None) => l[n] # None}

Next ==
    \E j \in Jobs :
        \/ PressOk(j) \/ AnswerChallenge(j) \/ CancelDialog(j) \/ UserEdits
        \/ \E kind \in {"as", "url", "disk"} : OpenDialog(j, kind)
        \/ \E n \in Names : ImportArgument(j, n)
        \/ \E yes \in BOOLEAN : AnswerQuestion(j, yes)

Spec == Init /\ [][Next]_vars

-----------------------------------------------------------------------------
(* Every variable has its type. *)
TypeOK ==
    /\ job \in [Jobs -> [kind : {None, "as", "url", "disk", "arg"},
                         stage : {"idle", "dialog", "challenge", "overwrite", "import", "done"},
                         name : Names \cup {None}]]
    /\ loops \in Seq(Jobs) /\ edits \in 0 .. MaxEdits
    /\ tmp \in [Names -> Jobs \cup {None}] /\ disk \in [Names -> Jobs \cup {None, "user"}]
    /\ list \in [Names -> {None, "user", "global"}]

\* A file of the user is replaced only by an import the user allowed to replace it,
\* though the list may not know the file yet and other imports finish while the question
\* is on the screen; what is copied is what this import downloaded, though another may
\* have saved its own under the same name meanwhile; and no download is left behind when
\* the imports are over.
ImportIsCareful ==
    /\ \A i \in DOMAIN copied :
          (copied[i].replaced => copied[i].agreed) /\ copied[i].content = copied[i].by
    /\ loops = <<>> => tmp = [n \in Names |-> None]

\* An imported profile can be used: its name stands for the copied file.
\* Not checked, it does not hold: under the name of a system profile it is not (misc.c:793).
ImportedIsListed == copied # <<>> => \E n \in Names : list[n] = "user"
=============================================================================
