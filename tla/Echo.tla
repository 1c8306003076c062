--------------------------------- MODULE Echo ---------------------------------
(***************************************************************************)
(* Messages the server pushes for the user (echo.c).  "msg" and "msg-n"    *)
(* collect a text, "msg-window" and "msg-notify" give it a title and show  *)
(* it, unless a message with the same digest was shown less than           *)
(* popup_mute_interval ago.  The digests are kept by the connection while  *)
(* its status thread runs and in the registry between threads, at most     *)
(* MaxHistory of them.  A daemon repeats its old messages, with their old  *)
(* times, whenever the GUI attaches to it again, and the window belongs to *)
(* another thread, which may not answer in time.                           *)
(***************************************************************************)
EXTENDS Naturals, Sequences, FiniteSets, SequencesExt

CONSTANTS
    Lines,       \* pieces of text
    Titles,      \* titles
    MaxText,     \* bound: lines of a message
    Mute,        \* popup_mute_interval
    MaxHistory,  \* digests kept in the registry: 100
    MaxTime,     \* bound: the clock
    MaxShown     \* bound: messages sent to the user, of which one may be late

VARIABLES
    running,  \* the status thread runs
    text,     \* c->echo_msg.text
    history,  \* c->echo_msg.history, newest first
    stored,   \* "echo_msg_history" in the registry
    pending,  \* WM_OVPN_ECHOMSG messages that timed out and may still be handled
    shown,    \* history: the messages shown, with the thread that showed them
    thread,   \* the number of the thread
    tried,    \* history: the digests of the messages that were not muted
    lost,     \* threads that ended without Cleanup
    now

vars == <<running, text, history, stored, pending, shown, thread, tried, lost, now>>

\* echo_msg_add_fp: the digest of the text followed by the title.
Digest(t, title) == Append(t, title)

\* echo_msg_recall
Recall(h, d) == {i \in DOMAIN h : h[i].digest = d}

\* Mutant of Save: the time of a known message is not updated.
SaveOnce(h, d, time) ==
    IF Recall(h, d) # {} THEN h ELSE <<[digest |-> d, time |-> time]>> \o h

\* echo_msg_save: one entry per digest.
Save(h, d, time) ==
    IF Recall(h, d) # {}
    THEN [i \in DOMAIN h |-> IF h[i].digest = d THEN [h[i] EXCEPT !.time = time] ELSE h[i]]
    ELSE <<[digest |-> d, time |-> time]>> \o h

\* echo_msg_repeated
Repeated(d, time) == \E i \in Recall(history, d) : history[i].time + Mute > time

Shown(d, time, how) == [digest |-> d, time |-> time, how |-> how, thread |-> thread]

-----------------------------------------------------------------------------
\* echo_msg_load puts each stored entry before the ones already read.
Start ==
    /\ ~running /\ thread < 2 /\ thread' = thread + 1
    /\ running' = TRUE /\ history' = Reverse(stored)
    /\ UNCHANGED <<text, stored, pending, shown, lost, now, tried>>

\* msg and msg-n
MsgAppend ==
    /\ running /\ Len(text) < MaxText
    /\ \E l \in Lines : text' = Append(text, l)
    /\ UNCHANGED <<running, history, stored, pending, shown, thread, lost, now, tried>>

\* msg-window and msg-notify, new or repeated by the daemon.  A window that does not
\* answer within 5 s is taken for one that showed the message: it goes to the history.
\* FLAG_DISABLE_ECHO_MSG mutes all of them.
Display ==
    /\ running /\ Len(shown) + Cardinality(pending) < MaxShown
    /\ \E title \in Titles, time \in 0 .. now :
          LET d == Digest(text, title) IN
          IF Repeated(d, time)
          THEN UNCHANGED <<history, shown, pending, tried>>
          ELSE /\ history' = Save(history, d, time)
               /\ tried' = tried \cup {d}
               /\ \/ shown' = Append(shown, Shown(d, time, "whole")) /\ UNCHANGED pending
                  \/ pending = {} /\ pending' = pending \cup {time} /\ UNCHANGED shown
    /\ text' = <<>>
    /\ UNCHANGED <<running, stored, thread, lost, now>>

\* The window handles a message whose sender went on: what it reads is what the
\* connection holds by then, a text without a title.
LateDisplay ==
    /\ running /\ \E time \in pending :
          /\ pending' = pending \ {time}
          /\ shown' = Append(shown, Shown(text, time, "late"))
    /\ UNCHANGED <<running, text, history, stored, thread, lost, now, tried>>

\* RECONNECTING: echo_msg_clear without the history.
Reconnecting ==
    /\ running /\ text # <<>> /\ text' = <<>>
    /\ UNCHANGED <<running, history, stored, pending, shown, thread, lost, now, tried>>

\* echo_msg_persist: the first MaxHistory entries; nothing is written for none.
Persisted == IF history = <<>> THEN stored
             ELSE SubSeq(history, 1, IF Len(history) < MaxHistory THEN Len(history) ELSE MaxHistory)

\* Cleanup: echo_msg_clear with the history.
Cleanup ==
    /\ running /\ running' = FALSE
    /\ stored' = Persisted /\ history' = <<>> /\ text' = <<>>
    /\ UNCHANGED <<pending, shown, thread, lost, now, tried>>

\* The process ends while the thread runs, or the registry refuses the value.
EndsUnsaved ==
    /\ running /\ running' = FALSE /\ lost' = lost \cup {thread}
    /\ history' = <<>> /\ text' = <<>>
    /\ UNCHANGED <<stored, pending, shown, thread, now, tried>>

Tick ==
    /\ now < MaxTime /\ now' = now + 1
    /\ UNCHANGED <<running, text, history, stored, pending, shown, thread, lost, tried>>

Init ==
    /\ running = FALSE /\ text = <<>> /\ history = <<>> /\ stored = <<>>
    /\ pending = {} /\ shown = <<>> /\ thread = 0 /\ tried = {} /\ lost = {} /\ now = 0

Next ==
    \/ Start \/ MsgAppend \/ Display \/ LateDisplay \/ Reconnecting \/ Cleanup
    \/ EndsUnsaved \/ Tick

Spec == Init /\ [][Next]_vars

-----------------------------------------------------------------------------
(* Every variable has its type. *)
Fingerprints == [digest : Seq(Lines \cup Titles), time : 0 .. MaxTime]
TypeOK ==
    /\ running \in BOOLEAN /\ text \in Seq(Lines) /\ now \in 0 .. MaxTime
    /\ history \in Seq(Fingerprints) /\ stored \in Seq(Fingerprints)
    /\ pending \subseteq 0 .. MaxTime /\ thread \in 0 .. 2 /\ lost \subseteq 1 .. 2
    /\ tried \subseteq Seq(Lines \cup Titles)
    /\ shown \in Seq([digest : Seq(Lines \cup Titles), time : 0 .. MaxTime,
                      how : {"whole", "late"}, thread : 1 .. 2])

\* A message shown is not shown again before the mute interval has passed, whether the
\* daemon repeats it in the same session or after a restart of the thread, as long as
\* the threads ended regularly and showed no more messages than the registry keeps.
NotTwice ==
    Cardinality(tried) <= MaxHistory =>
        \A j \in DOMAIN shown : \A i \in 1 .. j - 1 :
            /\ shown[i].how = "whole" /\ shown[j].how = "whole"
            /\ shown[i].digest = shown[j].digest
            /\ shown[i].thread = shown[j].thread \/ shown[i].thread \notin lost
            => shown[j].time >= shown[i].time + Mute

\* A message that is muted was "recently shown" (echo.c:234).
\* Not checked, it does not hold: a window that times out (echo.c:305) counts as shown.
MutedWasShown ==
    \A i \in DOMAIN history : \E j \in DOMAIN shown : shown[j].digest = history[i].digest
=============================================================================
