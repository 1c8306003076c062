------------------------------ MODULE MgmtQueue ------------------------------
(***************************************************************************)
(* The queue of management commands of one connection (manage.c): the      *)
(* commands wait in a list, only the head is given to the non-blocking     *)
(* socket, and the answer of the daemon removes it.  The status thread is  *)
(* the only one to touch the list; what is hard are partial and blocked    *)
(* sends, commands with two answers ("combined"), and the life of the      *)
(* list across connections.                                                *)
(*                                                                         *)
(* A command is Size pieces of Command on the wire.  The daemon answers    *)
(* each whole command before it looks at the next one (external).          *)
(***************************************************************************)
EXTENDS Naturals, Sequences

CONSTANTS
    Command,        \* management commands
    Combined,       \* those issued as "combined": SUCCESS, then a list
    Size,           \* pieces of a command
    PartialSends,   \* send() may take a part of a command
    CombinedErrors, \* the daemon may refuse a combined command
    MaxIssued       \* bound: commands of one connection

ASSUME MgmtQueueAssumption ==
    /\ Combined \subseteq Command
    /\ Size \in Nat \ {0} /\ MaxIssued \in Nat
    /\ PartialSends \in BOOLEAN /\ CombinedErrors \in BOOLEAN

VARIABLES
    sk,         \* c->manage.sk: "closed", "connecting", "open"
    queue,      \* c->manage.cmd_queue, head first
    writeDue,   \* FD_WRITE will be posted
    wire,       \* pieces the daemon has that are no whole command yet
    replies,    \* output of the daemon not yet read
    got         \* history: commands the daemon read over this connection

vars == <<sk, queue, writeDue, wire, replies, got>>

\* mgmt_cmd_t; left is what send() has not taken yet.
Entry == [cmd : Command, left : 0 .. Size, type : {"regular", "combined"}]
NewEntry(c) == [cmd |-> c, left |-> Size,
                type |-> IF c \in Combined THEN "combined" ELSE "regular"]

\* A line of an answer; "data" is any line that does not end one, "SUCCESS" also
\* stands for the notifications PKCS11ID, which are answers.
Reply == [to : Command, line : {"SUCCESS", "ERROR", "END", "data"}]

-----------------------------------------------------------------------------
(* SendCommand: q is the list it finds *)

Left(q) == IF q = <<>> THEN 0 ELSE Head(q).left

NothingToSend(q) ==
    /\ Left(q) = 0 \/ sk # "open"
    /\ queue' = q /\ UNCHANGED wire

Transmit(q) ==
    /\ sk = "open"
    /\ \E n \in 1 .. Left(q) :
        /\ PartialSends \/ n = Left(q)
        /\ queue' = [q EXCEPT ![1].left = @ - n]
        /\ wire' = wire \o [i \in 1 .. n |-> Head(q).cmd]

\* Mutant of Blocked: the -1 that send() returns is subtracted like a size.
BlockedUnchecked(q) ==
    /\ sk = "open" /\ Left(q) > 0
    /\ queue' = [q EXCEPT ![1].left = @ + 1]
    /\ writeDue' = TRUE /\ UNCHANGED wire

\* send() takes nothing; Windows posts FD_WRITE when there is room again.
Blocked(q) ==
    /\ sk = "open" /\ Left(q) > 0
    /\ queue' = q /\ writeDue' = TRUE /\ UNCHANGED wire

SendCommand(q) ==
    \/ NothingToSend(q) /\ UNCHANGED writeDue
    \/ Transmit(q) /\ UNCHANGED writeDue
    \/ Blocked(q)

\* Mutant of ManagementCommand: every new command is sent at once.
ManagementCommandEager(c) ==
    /\ Len(got) + Len(queue) < MaxIssued
    /\ IF sk = "open"
       THEN /\ queue' = Append(queue, [NewEntry(c) EXCEPT !.left = 0])
            /\ wire' = wire \o [i \in 1 .. Size |-> c]
            /\ UNCHANGED writeDue
       ELSE queue' = Append(queue, NewEntry(c)) /\ UNCHANGED <<wire, writeDue>>
    /\ UNCHANGED <<sk, replies, got>>

\* The new command is sent if it is the only one.  The socket is not looked at:
\* a command issued without a connection waits for the next one.
ManagementCommand(c) ==
    /\ Len(got) + Len(queue) < MaxIssued
    /\ IF queue = <<>>
       THEN SendCommand(<<NewEntry(c)>>)
       ELSE queue' = Append(queue, NewEntry(c)) /\ UNCHANGED <<wire, writeDue>>
    /\ UNCHANGED <<sk, replies, got>>

\* Mutants of UnqueueCommand: a combined command is gone with its first answer;
\* the next command is left for later.
UnqueueAll == SendCommand(Tail(queue))
UnqueueNoSend ==
    /\ IF Head(queue).type = "combined"
       THEN queue' = [queue EXCEPT ![1].type = "regular"]
       ELSE queue' = Tail(queue)
    /\ UNCHANGED <<wire, writeDue>>

\* The first answer of a combined command makes it a regular one; the answer of
\* a regular one removes it and sends the next.
UnqueueCommand ==
    IF Head(queue).type = "combined"
    THEN /\ queue' = [queue EXCEPT ![1].type = "regular"]
         /\ UNCHANGED <<wire, writeDue>>
    ELSE SendCommand(Tail(queue))

-----------------------------------------------------------------------------
(* Socket events *)

OpenManagement ==
    /\ sk = "closed" /\ sk' = "connecting"
    /\ UNCHANGED <<queue, writeDue, wire, replies, got>>

\* FD_CONNECT; Windows posts a first FD_WRITE with it.
FdConnect ==
    /\ sk = "connecting" /\ sk' = "open" /\ writeDue' = TRUE
    /\ UNCHANGED <<queue, wire, replies, got>>

FdWrite ==
    /\ sk = "open" /\ writeDue /\ writeDue' = FALSE
    /\ NothingToSend(queue) \/ Transmit(queue)
    /\ UNCHANGED <<sk, replies, got>>

\* FD_READ of one line of an answer.
ReadReply ==
    /\ sk = "open" /\ replies # <<>> /\ replies' = Tail(replies)
    /\ IF queue = <<>> \/ Head(replies).line = "data"
       THEN UNCHANGED <<queue, wire, writeDue>>
       ELSE UnqueueCommand
    /\ UNCHANGED <<sk, got>>

\* FD_CLOSE, a failed connection, or the end of the thread: the list is emptied.
CloseManagement ==
    /\ sk # "closed" /\ sk' = "closed"
    /\ queue' = <<>> /\ writeDue' = FALSE
    /\ wire' = <<>> /\ replies' = <<>> /\ got' = <<>>

-----------------------------------------------------------------------------
(* The daemon (external) *)

Answers(c) ==
    IF c \in Combined
    THEN {<<"SUCCESS", "END">>, <<"SUCCESS", "data", "END">>}
         \union (IF CombinedErrors THEN {<<"ERROR">>} ELSE {})
    ELSE {<<"SUCCESS">>, <<"ERROR">>, <<"data", "END">>}

\* A command is whole when Size pieces are there; pieces of different commands
\* would be no command at all.
Whole == Len(wire) >= Size /\ \A i \in 1 .. Size : wire[i] = wire[1]

DaemonReads ==
    /\ sk = "open" /\ Whole
    /\ wire' = SubSeq(wire, Size + 1, Len(wire))
    /\ got' = Append(got, wire[1])
    /\ \E a \in Answers(wire[1]) :
         replies' = replies \o [i \in 1 .. Len(a) |-> [to |-> wire[1], line |-> a[i]]]
    /\ UNCHANGED <<sk, queue, writeDue>>

-----------------------------------------------------------------------------
Init ==
    /\ sk = "closed" /\ queue = <<>> /\ writeDue = FALSE
    /\ wire = <<>> /\ replies = <<>> /\ got = <<>>

Next ==
    \/ \E c \in Command : ManagementCommand(c)
    \/ OpenManagement \/ FdConnect \/ FdWrite \/ ReadReply \/ CloseManagement
    \/ DaemonReads

Spec == Init /\ [][Next]_vars

\* The status thread handles its socket messages and the daemon answers.
FairSpec == /\ Spec
            /\ WF_vars(FdWrite) /\ WF_vars(ReadReply) /\ WF_vars(DaemonReads)

-----------------------------------------------------------------------------
(* Properties *)

\* Every variable has its type.
TypeOK ==
    /\ sk \in {"closed", "connecting", "open"}
    /\ queue \in Seq(Entry) /\ writeDue \in BOOLEAN
    /\ wire \in Seq(Command) /\ replies \in Seq(Reply) /\ got \in Seq(Command)

\* The daemon has read the head, whose answer is under way.
HeadTaken == sk = "open" /\ queue # <<>> /\ Left(queue) = 0 /\ wire = <<>>

\* The channel this list implements: what the daemon has not got yet.
Cmds(q) == [i \in 1 .. Len(q) |-> q[i].cmd]
Chan == IF HeadTaken THEN Tail(Cmds(queue)) ELSE Cmds(queue)
Channel == INSTANCE MgmtChannel WITH chan <- Chan, up <- (sk = "open")

\* The list is a FIFO channel: no partial send, blocked send or answer makes a
\* command overtake, repeat or cut another one.
IsChannel == Channel!Spec

\* An answer is given to the command it belongs to, whose handler will be called.
ReplyToHead ==
    \A i \in 1 .. Len(replies) : queue # <<>> /\ Head(queue).cmd = replies[i].to

\* What of the list is with the daemon (inductive): nothing without a connection;
\* else pieces of the head, all of them when nothing of it is left, until the
\* daemon takes them.  Commands behind the head are untouched.
WireInv ==
    /\ sk # "open" => wire = <<>> /\ replies = <<>> /\ got = <<>> /\ Left(queue) \in {0, Size}
    /\ sk # "open" /\ queue # <<>> => Left(queue) = Size
    /\ \A i \in 2 .. Len(queue) : queue[i].left = Size
    /\ queue = <<>> => wire = <<>>
    /\ \A i \in 1 .. Len(wire) : wire[i] = Head(queue).cmd
    /\ Left(queue) > 0 => Len(wire) = Size - Left(queue)
    /\ Left(queue) = 0 => wire = <<>> \/ Len(wire) = Size

\* A command still owes both its answers, or is the head and has one (inductive).
KindInv ==
    \A i \in 1 .. Len(queue) :
        \/ queue[i].type = NewEntry(queue[i].cmd).type
        \/ i = 1 /\ HeadTaken

\* What the unread answers are (inductive): those of a head the daemon has
\* taken, and exactly its last line ends it; a combined one ends twice.
ReplyInv ==
    replies # <<>> =>
        /\ HeadTaken
        /\ \A i \in 1 .. Len(replies) : replies[i].to = Head(queue).cmd
        /\ replies[Len(replies)].line # "data"
        /\ \A i \in 2 .. Len(replies) - 1 : replies[i].line = "data"
        /\ Head(queue).type = "combined" => replies[1].line # "data"
        /\ Head(queue).type = "regular" /\ Len(replies) > 1 => replies[1].line = "data"

\* A command that send() took in part; nothing sends the rest before FD_WRITE.
CutShort == Left(queue) \in 1 .. Size - 1

\* The list never waits for nothing: the rest of the head will be sent, or the
\* daemon has it, or its answer is there.
NeverStuck ==
    sk = "open" /\ queue # <<>> =>
        \/ writeDue \/ CutShort
        \/ Left(queue) = 0 /\ (wire # <<>> \/ replies # <<>>)

\* Every command is delivered or the connection ends, unless one was cut short.
Delivered ==
    \A n \in 0 .. MaxIssued :
        sk = "open" /\ Len(got) = n /\ Chan # <<>> ~> sk # "open" \/ Len(got) > n \/ CutShort
=============================================================================
