------------------------------ MODULE MgmtReader ------------------------------
(***************************************************************************)
(* How OnManagement cuts what it reads into lines (manage.c): the end of a *)
(* buffer that is no whole line is saved and put before the next buffer.   *)
(* A handler may pump messages (a dialog, a message box, a script), and    *)
(* the next buffer is then read inside it, before the rest of the buffer   *)
(* it stands in: buffers is the stack of these activations, inner first.   *)
(*                                                                         *)
(* A line comes in two pieces, the second of which ends it with a newline; *)
(* the prompt for the management password is a line that ends with its     *)
(* colon.  Lines are events (real-time messages) or belong to the answer   *)
(* to the one command the daemon has: data, then end.  The daemon is       *)
(* external; what handlers do with a line is in Connection, Auth, Pkcs11.  *)
(***************************************************************************)
EXTENDS Naturals, Sequences

CONSTANTS
    MaxLines,   \* bound: lines of one connection
    MaxDepth,   \* bound: activations of OnManagement
    MaxOpens    \* bound: connections of the profile

VARIABLES
    up,         \* c->manage.sk is connected
    opens,      \* bound
    unread,     \* pieces in the socket
    saved,      \* c->manage.saved_data
    buffers,    \* activations: what is left of data, and whether a handler pumps
    cmd,        \* the head of cmd_queue is with the daemon
    calls,      \* history: the lines the loop has found, of this connection
    written,    \* number of lines the daemon has begun
    half,       \* kind of the line of which it has written the first piece
    owed,       \* what of the answer is to come
    torn        \* history: where buffers ended (Cut) when an inner one was read in them

vars == <<up, opens, unread, saved, buffers, cmd, calls, written, half, owed, torn>>
daemonVars == <<written, half, owed>>

Piece == [n : 1 .. MaxLines, kind : {"event", "data", "end"}, part : {"first", "last"}]

\* Messages of the thread are dispatched: by its loop, or by the handler inside.
Pumping == buffers # <<>> => Head(buffers).pumping

\* Where the buffers that are not yet done end: in the middle of a line, of an answer.
MidLine(b) == b # <<>> /\ b[Len(b)].part = "first"
MidAnswer(b) ==
    \E j \in 1 .. Len(b) : b[j].kind = "data" /\ \A k \in j .. Len(b) : b[k].kind # "end"
Cut == {w \in {"line", "answer"} :
            \E i \in 1 .. Len(buffers) : IF w = "line" THEN MidLine(buffers[i].rest)
                                                      ELSE MidAnswer(buffers[i].rest)}

-----------------------------------------------------------------------------
(* The reader *)

\* Mutant of FdRead: what was saved is not forgotten.
FdReadKeeps ==
    /\ up /\ unread # <<>> /\ Pumping /\ Len(buffers) < MaxDepth
    /\ buffers' = <<[rest |-> saved \o unread, pumping |-> FALSE]>> \o buffers
    /\ unread' = <<>>
    /\ torn' = torn \cup Cut
    /\ UNCHANGED <<up, opens, saved, cmd, calls, daemonVars>>

\* FD_READ: all there is, behind what was saved; if an inner activation has read
\* it already, the message finds nothing.
FdRead ==
    /\ up /\ unread # <<>> /\ Pumping /\ Len(buffers) < MaxDepth
    /\ buffers' = <<[rest |-> saved \o unread, pumping |-> FALSE]>> \o buffers
    /\ unread' = <<>> /\ saved' = <<>>
    /\ torn' = torn \cup Cut
    /\ UNCHANGED <<up, opens, cmd, calls, daemonVars>>

\* The places where a line of b ends (memchr finds the first one).
Ends(b) == {i \in 1 .. Len(b) : b[i].part = "last"}

\* One round of the loop: the handler of a line is called, whether or not the socket
\* has been closed by an earlier one.  An answer without a command is dropped; the end
\* of an answer unqueues the command.
HandleLine ==
    /\ buffers # <<>> /\ ~Head(buffers).pumping
    /\ LET b == Head(buffers).rest IN
       \E k \in Ends(b), pumps \in BOOLEAN :
         /\ \A i \in Ends(b) : k <= i
         /\ pumps => b[1].kind = "event" \/ (b[1].kind = "data" /\ cmd)
         /\ calls' = Append(calls, SubSeq(b, 1, k))
         /\ buffers' = [buffers EXCEPT ![1] = [rest |-> SubSeq(b, k + 1, Len(b)), pumping |-> pumps]]
         /\ cmd' = (cmd /\ b[1].kind # "end")
    /\ UNCHANGED <<up, opens, unread, saved, torn, daemonVars>>

HandlerReturns ==
    /\ buffers # <<>> /\ Head(buffers).pumping
    /\ buffers' = [buffers EXCEPT ![1].pumping = FALSE]
    /\ UNCHANGED <<up, opens, unread, saved, cmd, calls, torn, daemonVars>>

\* No line is left: what there is of one is saved, in place of what an inner
\* activation may have saved, and also if the socket has been closed since.
SaveRest ==
    /\ buffers # <<>> /\ ~Head(buffers).pumping /\ Ends(Head(buffers).rest) = {}
    /\ saved' = IF Head(buffers).rest = <<>> THEN saved ELSE Head(buffers).rest
    /\ buffers' = Tail(buffers)
    /\ UNCHANGED <<up, opens, unread, cmd, calls, torn, daemonVars>>

CloseManagement ==
    /\ up /\ Pumping
    /\ up' = FALSE /\ saved' = <<>> /\ unread' = <<>> /\ cmd' = FALSE
    /\ half' = "none" /\ owed' = "none"
    /\ torn' = torn \cup Cut
    /\ UNCHANGED <<opens, buffers, calls, written>>

\* By the next status thread of the profile; saved_data is not looked at.
OpenManagement ==
    /\ ~up /\ buffers = <<>> /\ opens < MaxOpens
    /\ up' = TRUE /\ opens' = opens + 1 /\ calls' = <<>> /\ written' = 0
    /\ UNCHANGED <<unread, saved, buffers, cmd, half, owed, torn>>

\* The next command goes out when none is with the daemon (MgmtQueue).
ManagementCommand ==
    /\ up /\ ~cmd /\ cmd' = TRUE /\ owed' = "data"
    /\ UNCHANGED <<up, opens, unread, saved, buffers, calls, written, half, torn>>

-----------------------------------------------------------------------------
(* The daemon (external): TCP may cut its output anywhere *)

WriteFirst ==
    /\ up /\ half = "none" /\ written < MaxLines
    /\ \E k \in {"event", owed} \ {"none"} :
         half' = k /\ unread' = Append(unread, [n |-> written + 1, kind |-> k, part |-> "first"])
    /\ written' = written + 1
    /\ UNCHANGED <<up, opens, saved, buffers, cmd, calls, owed, torn>>

WriteLast ==
    /\ up /\ half # "none"
    /\ unread' = Append(unread, [n |-> written, kind |-> half, part |-> "last"])
    /\ owed' = CASE half = "data" -> "end" [] half = "end" -> "none" [] OTHER -> owed
    /\ half' = "none"
    /\ UNCHANGED <<up, opens, saved, buffers, cmd, calls, written, torn>>

-----------------------------------------------------------------------------
Init ==
    /\ up = FALSE /\ opens = 0 /\ unread = <<>> /\ saved = <<>> /\ buffers = <<>>
    /\ cmd = FALSE /\ calls = <<>> /\ written = 0 /\ half = "none" /\ owed = "none"
    /\ torn = {}

Next ==
    \/ FdRead \/ HandleLine \/ HandlerReturns \/ SaveRest
    \/ CloseManagement \/ OpenManagement \/ ManagementCommand
    \/ WriteFirst \/ WriteLast

Spec == Init /\ [][Next]_vars

-----------------------------------------------------------------------------
(* Properties *)

TypeOK ==
    /\ up \in BOOLEAN /\ cmd \in BOOLEAN /\ torn \subseteq {"line", "answer"}
    /\ opens \in 0 .. MaxOpens /\ written \in 0 .. MaxLines
    /\ unread \in Seq(Piece) /\ saved \in Seq(Piece) /\ calls \in Seq(Seq(Piece))
    /\ buffers \in Seq([rest : Seq(Piece), pumping : BOOLEAN])
    /\ half \in {"none", "event", "data", "end"} /\ owed \in {"none", "data", "end"}

WholeLine(t) == Len(t) = 2 /\ t[1].n = t[2].n /\ t[1].part = "first" /\ t[2].part = "last"

\* Every handler gets a whole line, and no line is handled twice (saved_data).
LinesWhole ==
    /\ \A i \in 1 .. Len(calls) : WholeLine(calls[i])
    /\ \A i, j \in 1 .. Len(calls) : i # j => calls[i][1].n # calls[j][1].n

\* Answers are read in order: events of an inner buffer may overtake what is left of
\* the outer one, but the next command waits for the end of the answer before.  This
\* is what MgmtQueue relies on.
AnswersInOrder ==
    \A i, j \in 1 .. Len(calls) :
        i < j /\ calls[i][1].kind # "event" /\ calls[j][1].kind # "event"
            => calls[i][1].n < calls[j][1].n

\* When no activation is left, every line has been handled but for those still to be
\* read, and nothing of a closed connection is left for the next one.
NothingLost ==
    buffers = <<>> =>
        IF up THEN {calls[i][1].n : i \in 1 .. Len(calls)} =
                       (1 .. written) \ {(saved \o unread)[i].n : i \in 1 .. Len(saved \o unread)}
        ELSE saved = <<>>

\* None of them holds for every way the output may be cut: where a buffer ends in the
\* middle of a line, a buffer read inside one of its handlers begins with the rest of
\* that line; where it ends in the middle of an answer, the end of the answer is read
\* before its data.  Nothing else can break them, however handlers and buffers nest
\* and wherever the connection is closed.
ReadsLines ==
    /\ "line" \notin torn => LinesWhole /\ NothingLost
    /\ torn = {} => AnswersInOrder
=============================================================================
