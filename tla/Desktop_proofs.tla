----------------------------- MODULE Desktop_proofs -----------------------------
(***************************************************************************)
(* What holds of the components of the desktop for all values of their     *)
(* constants: PlapConnect, Echo, Pkcs11, Proxy, Import, Profiles and       *)
(* EnvSet, each with an inductive invariant of its own (PlapInv, EchoInv,  *)
(* CertInv, ProxyInv, ImportInv, MenuInv, EnvInv), and PlapObjects,        *)
(* MgmtReader and Launch, for which a step of the desktop is a step of the *)
(* component or leaves it alone, so that what is proved of the component   *)
(* alone carries over.  TypeCorrect puts the types of all together: the    *)
(* invariants hold most, PlapRest and the four Bounds the rest.            *)
(***************************************************************************)
EXTENDS Desktop, Picks, SequenceTheorems, FiniteSetTheorems, FunctionTheorems,
        WellFoundedInduction, TLAPS

\* One of a queue.
Among(x, s) == \E i \in 1 .. Len(s) : s[i] = x

\* What is in a queue stays when another is appended.
LEMMA AmongAppend ==
    ASSUME NEW S, NEW s \in Seq(S), NEW x \in S, NEW y, Among(y, s)
    PROVE  Among(y, Append(s, x))
BY DEF Among

\* What is appended to a queue is in it.
LEMMA AmongLast ==
    ASSUME NEW S, NEW s \in Seq(S), NEW x \in S
    PROVE  Among(x, Append(s, x))
<1>1. Len(s) + 1 \in 1 .. Len(Append(s, x)) /\ Append(s, x)[Len(s) + 1] = x
  OBVIOUS
<1> QED
  BY <1>1 DEF Among

\* What is in one of two queues is in the two joined.
LEMMA AmongConcat ==
    ASSUME NEW S, NEW s \in Seq(S), NEW t \in Seq(S), NEW y, Among(y, s) \/ Among(y, t)
    PROVE  Among(y, s \o t)
<1>1. CASE Among(y, s)
  BY <1>1 DEF Among
<1>2. CASE Among(y, t)
  <2>1. PICK i \in 1 .. Len(t) : t[i] = y
    BY <1>2 DEF Among
  <2>2. Len(s) + i \in 1 .. Len(s \o t) /\ (s \o t)[Len(s) + i] = y
    BY <2>1
  <2> QED
    BY <2>2 DEF Among
<1> QED
  BY <1>1, <1>2

\* What is in a queue and is not its head is in its tail.
LEMMA AmongTail ==
    ASSUME NEW S, NEW s \in Seq(S), s # <<>>, NEW y, Among(y, s), Head(s) # y
    PROVE  Among(y, Tail(s))
<1>1. PICK i \in 1 .. Len(s) : s[i] = y
  BY DEF Among
<1>2. i # 1
  BY <1>1
<1>3. i - 1 \in 1 .. Len(Tail(s)) /\ Tail(s)[i - 1] = y
  BY <1>1, <1>2
<1> QED
  BY <1>3 DEF Among

-----------------------------------------------------------------------------
(* PlapConnect *)

PlapMessages == {"STOP", "RELEASE", "DETACH"}
PlapCommands == {"state", "release", "answer", "hold_sighup"}
PlapLines == {"info", "hold", "question", "connected", "state_connected", "reconnecting", "eof"}

PlapTypes ==
    /\ pc \in {"idle", "wait", "dialog", "chosen", "stopping", "detaching", "deleted"}
    /\ cur \in Profiles \cup {"none"}
    /\ pc \in {"wait", "dialog", "chosen", "stopping"} => cur \in Profiles
    /\ pThread \in [Profiles -> {"none", "starting", "open", "closing"}]
    /\ ready \in [Profiles -> 0 .. 3]
    /\ posted \in [Profiles -> Seq(PlapMessages)]
    /\ out \in [Profiles -> Seq(PlapCommands)]
    /\ lines \in [Profiles -> Seq(PlapLines)]
    /\ query \in [Profiles -> {"none", "open", "declined"}]
    /\ pDaemon \in [Profiles -> {"hold", "connecting", "question", "connected"}]

\* What the helpers of the model do to a queue.
LEMMA PlapQueues ==
    ASSUME PlapTypes, NEW c \in Profiles
    PROVE  /\ \A m \in PlapMessages : Plap!Post(c, m) => posted' \in [Profiles -> Seq(PlapMessages)]
           /\ \A m \in PlapCommands : Plap!Send(c, m) => out' \in [Profiles -> Seq(PlapCommands)]
           /\ lines[c] # <<>> /\ Plap!Take(c) => lines' \in [Profiles -> Seq(PlapLines)]
           /\ posted[c] # <<>> /\ posted' = [posted EXCEPT ![c] = Tail(@)]
              => posted' \in [Profiles -> Seq(PlapMessages)]
           /\ posted' = [posted EXCEPT ![c] = <<>>] => posted' \in [Profiles -> Seq(PlapMessages)]
           /\ out' = [out EXCEPT ![c] = <<>>] => out' \in [Profiles -> Seq(PlapCommands)]
           /\ lines' = [lines EXCEPT ![c] = <<>>] => lines' \in [Profiles -> Seq(PlapLines)]
<1> USE DEF PlapTypes
<1>1. ASSUME NEW m \in PlapMessages, Plap!Post(c, m)
      PROVE  posted' \in [Profiles -> Seq(PlapMessages)]
  <2>1. Append(posted[c], m) \in Seq(PlapMessages)
    OBVIOUS
  <2> QED
    BY <1>1, <2>1 DEF Plap!Post
<1>2. ASSUME NEW m \in PlapCommands, Plap!Send(c, m)
      PROVE  out' \in [Profiles -> Seq(PlapCommands)]
  <2>1. Append(out[c], m) \in Seq(PlapCommands)
    OBVIOUS
  <2> QED
    BY <1>2, <2>1 DEF Plap!Send
<1>3. ASSUME lines[c] # <<>>, Plap!Take(c)
      PROVE  lines' \in [Profiles -> Seq(PlapLines)]
  <2>1. Tail(lines[c]) \in Seq(PlapLines)
    BY <1>3
  <2> QED
    BY <1>3, <2>1 DEF Plap!Take
<1>4. ASSUME posted[c] # <<>>, posted' = [posted EXCEPT ![c] = Tail(@)]
      PROVE  posted' \in [Profiles -> Seq(PlapMessages)]
  <2>1. Tail(posted[c]) \in Seq(PlapMessages)
    BY <1>4
  <2> QED
    BY <1>4, <2>1
<1>5. /\ posted' = [posted EXCEPT ![c] = <<>>] => posted' \in [Profiles -> Seq(PlapMessages)]
      /\ out' = [out EXCEPT ![c] = <<>>] => out' \in [Profiles -> Seq(PlapCommands)]
      /\ lines' = [lines EXCEPT ![c] = <<>>] => lines' \in [Profiles -> Seq(PlapLines)]
  <2>1. <<>> \in Seq(PlapMessages) /\ <<>> \in Seq(PlapCommands) /\ <<>> \in Seq(PlapLines)
    OBVIOUS
  <2> QED
    BY <2>1
<1> QED
  BY <1>1, <1>2, <1>3, <1>4, <1>5, Zenon

\* ConnectHelper of the provider types what it posts and the thread it starts.
LEMMA ConnectHelperTypes ==
    ASSUME PlapTypes, NEW c \in Profiles, Plap!ConnectHelper(c)
    PROVE  /\ posted' \in [Profiles -> Seq(PlapMessages)]
           /\ pThread' \in [Profiles -> {"none", "starting", "open", "closing"}]
<1>1. "RELEASE" \in PlapMessages
  BY DEF PlapMessages
<1>2. CASE Plap!Start(c)
  BY <1>2 DEF PlapTypes, Plap!Start, Plap!SetThread
<1>3. CASE Plap!Post(c, "RELEASE") /\ UNCHANGED pThread
  BY <1>1, <1>3, PlapQueues DEF PlapTypes
<1> QED
  BY <1>2, <1>3 DEF Plap!ConnectHelper, PlapTypes

\* The thread of LogonUI keeps the types.
LEMMA LogonTypes ==
    ASSUME PlapTypes, Plap!LogonUI
    PROVE  PlapTypes'
<1> USE PlapQueues, ConnectHelperTypes
    DEF PlapTypes, Plap!Again, Plap!Return, Plap!EndDialog, Plap!None, Plap!logonVars, Plap!threadVars,
        Plap!channel, Plap!daemonVars
<1>m. {"STOP", "RELEASE", "DETACH"} \subseteq PlapMessages
  BY DEF PlapMessages
<1>1. ASSUME NEW c \in Profiles, Plap!Connect(c)
      PROVE  PlapTypes'
  BY <1>1 DEF Plap!Connect, Plap!Callable
<1>2. ASSUME NEW c \in Profiles, Plap!Disconnect(c)
      PROVE  PlapTypes'
  BY <1>2, <1>m DEF Plap!Disconnect, Plap!Callable
<1>3. CASE Plap!Waited
  BY <1>3 DEF Plap!Waited
<1>4. CASE Plap!DialogTimer
  BY <1>4 DEF Plap!DialogTimer
<1>5. CASE Plap!ClickCancel
  BY <1>5 DEF Plap!ClickCancel
<1>6. CASE Plap!ClickRetry
  BY <1>6 DEF Plap!ClickRetry
<1>7. CASE Plap!Chosen
  BY <1>7, <1>m DEF Plap!Chosen
<1>8. CASE Plap!Stopped
  BY <1>8 DEF Plap!Stopped
<1>9. CASE Plap!DetachAllOpenVPN
  <2>1. \A c \in Profiles : Append(posted[c], "DETACH") \in Seq(PlapMessages)
    BY <1>m
  <2> QED
    BY <1>9, <2>1 DEF Plap!DetachAllOpenVPN
<1>10. CASE Plap!DeleteUI
  BY <1>10 DEF Plap!DeleteUI
<1> QED
  BY <1>1, <1>2, <1>3, <1>4, <1>5, <1>6, <1>7, <1>8, <1>9, <1>10 DEF Plap!LogonUI

\* A status thread keeps the types.
LEMMA StatusTypes ==
    ASSUME PlapTypes, NEW c \in Profiles, Plap!StatusThread(c)
    PROVE  PlapTypes'
<1>1. CASE Plap!ThreadInit(c)
  <2>1. pThread' \in [Profiles -> {"none", "starting", "open", "closing"}]
    BY <1>1 DEF Plap!ThreadInit, Plap!SetThread, PlapTypes
  <2>2. ready' = ready \/ ready' = [ready EXCEPT ![c] = 3]
    BY <1>1 DEF Plap!ThreadInit
  <2>n. 3 \in 0 .. 3 /\ ready \in [Profiles -> 0 .. 3]
    BY DEF PlapTypes
  <2>3. ready' \in [Profiles -> 0 .. 3]
    BY <2>2, <2>n, Zenon
  <2> QED
    BY <1>1, <2>1, <2>3 DEF Plap!ThreadInit, Plap!logonVars, Plap!channel, Plap!daemonVars, PlapTypes
<1> USE PlapQueues
    DEF PlapTypes, Plap!SetState, Plap!SetThread, Plap!SetButton, Plap!Received, Plap!Reading,
        Plap!Runs, Plap!CloseWindow, Plap!OnHold, Plap!None, Plap!logonVars, Plap!threadVars,
        Plap!channel, Plap!daemonVars
<1>m. /\ {"STOP", "RELEASE", "DETACH"} \subseteq PlapMessages
      /\ {"state", "release", "answer", "hold_sighup"} \subseteq PlapCommands
  BY DEF PlapMessages, PlapCommands
<1>2. CASE Plap!ThreadExit(c)
  BY <1>2 DEF Plap!ThreadExit
<1>3. CASE Plap!HandleStop(c)
  BY <1>3, <1>m DEF Plap!HandleStop
<1>4. CASE Plap!HandleRelease(c)
  BY <1>4, <1>m DEF Plap!HandleRelease
<1>5. CASE Plap!HandleDetach(c)
  BY <1>5 DEF Plap!HandleDetach
<1>6. CASE Plap!ReadReady(c)
  BY <1>6, <1>m DEF Plap!ReadReady
<1>7. CASE Plap!ReadHold(c)
  BY <1>7, <1>m DEF Plap!ReadHold
<1>8. CASE Plap!ReadConnected(c)
  BY <1>8 DEF Plap!ReadConnected
<1>9. CASE Plap!ReadStateReply(c)
  BY <1>9 DEF Plap!ReadStateReply
<1>10. CASE Plap!ReadReconnecting(c)
  BY <1>10 DEF Plap!ReadReconnecting
<1>11. CASE Plap!ReadQuestion(c)
  BY <1>11, <1>m DEF Plap!ReadQuestion
<1>12. CASE Plap!ReadEof(c)
  BY <1>12 DEF Plap!ReadEof
<1>13. CASE Plap!Answer(c)
  BY <1>13, <1>m DEF Plap!Answer
<1> QED
  BY <1>1, <1>2, <1>3, <1>4, <1>5, <1>6, <1>7, <1>8, <1>9, <1>10, <1>11, <1>12, <1>13 DEF Plap!StatusThread
\* What the daemon says reaches who is attached to it.
LEMMA EmitTypes ==
    ASSUME PlapTypes, NEW c \in Profiles, NEW s \in Seq(PlapLines), Plap!Emit(c, s)
    PROVE  lines' \in [Profiles -> Seq(PlapLines)]
<1>1. lines[c] \o s \in Seq(PlapLines)
  BY DEF PlapTypes
<1> QED
  BY <1>1 DEF Plap!Emit, PlapTypes

\* A daemon keeps the types.
LEMMA DaemonTypes ==
    ASSUME PlapTypes, NEW c \in Profiles, Plap!Daemon(c)
    PROVE  PlapTypes'
<1> USE DEF PlapTypes, Plap!daemonOnly, Plap!logonVars, Plap!threadVars
<1>s. /\ <<>> \in Seq(PlapLines) /\ <<"connected">> \in Seq(PlapLines) /\ <<"question">> \in Seq(PlapLines)
      /\ <<"reconnecting">> \in Seq(PlapLines) /\ <<"reconnecting", "hold">> \in Seq(PlapLines)
      /\ <<"eof">> \in Seq(PlapLines) /\ <<"state_connected">> \in Seq(PlapLines)
      /\ <<"info">> \o Plap!Waiting(c) \in Seq(PlapLines)
  <2>1. Plap!Waiting(c) \in {<<"hold">>, <<"question">>, <<>>}
    BY DEF Plap!Waiting
  <2>2. /\ <<>> \in Seq(PlapLines) /\ <<"hold">> \in Seq(PlapLines) /\ <<"question">> \in Seq(PlapLines)
        /\ <<"info">> \in Seq(PlapLines)
    BY DEF PlapLines
  <2>3. Plap!Waiting(c) \in Seq(PlapLines)
    BY <2>1, <2>2
  <2>4. <<"info">> \o Plap!Waiting(c) \in Seq(PlapLines)
    BY <2>2, <2>3, ConcatProperties
  <2> QED
    BY <2>4 DEF PlapLines
<1>1. CASE Plap!DaemonAccepts(c)
  <2>1. lines' \in [Profiles -> Seq(PlapLines)]
    BY <1>1, <1>s DEF Plap!DaemonAccepts
  <2>2. ready' \in [Profiles -> 0 .. 3]
    BY <1>1 DEF Plap!DaemonAccepts
  <2> QED
    BY <1>1, <2>1, <2>2 DEF Plap!DaemonAccepts, Plap!daemonVars
<1>2. CASE Plap!DaemonReads(c)
  <2>1. out' \in [Profiles -> Seq(PlapCommands)]
    <3>1. Tail(out[c]) \in Seq(PlapCommands)
      BY <1>2 DEF Plap!DaemonReads
    <3> QED
      BY <1>2, <3>1 DEF Plap!DaemonReads
  <2>2. lines' \in [Profiles -> Seq(PlapLines)]
    BY <1>2, <1>s, EmitTypes DEF Plap!DaemonReads
  <2>3. pDaemon' \in [Profiles -> {"hold", "connecting", "question", "connected"}]
    BY <1>2 DEF Plap!DaemonReads
  <2> QED
    BY <1>2, <2>1, <2>2, <2>3 DEF Plap!DaemonReads
<1>3. CASE Plap!DaemonConnects(c)
  BY <1>3, <1>s, EmitTypes DEF Plap!DaemonConnects
<1>4. CASE Plap!DaemonAsks(c)
  BY <1>4, <1>s, EmitTypes DEF Plap!DaemonAsks
<1>5. CASE Plap!DaemonReconnects(c)
  BY <1>5, <1>s, EmitTypes DEF Plap!DaemonReconnects
<1>6. CASE Plap!DaemonRestarts(c)
  BY <1>6, <1>s, EmitTypes DEF Plap!DaemonRestarts
<1> QED
  BY <1>1, <1>2, <1>3, <1>4, <1>5, <1>6 DEF Plap!Daemon

\* A daemon that waits for the user while its thread runs: the user has been asked, or
\* the question or the end of the daemon is still to be read, or an answer is under way,
\* or the thread is about to detach.
Attended(c) ==
    Plap!Runs(c) /\ Plap!Attached(c) /\ pDaemon[c] = "question" =>
        \/ query[c] # "none"
        \/ Among("question", lines[c]) \/ Among("eof", lines[c])
        \/ Among("answer", out[c])
        \/ Among("DETACH", posted[c])

PlapInv == PlapTypes /\ (\A c \in Profiles : Attended(c)) /\ Plap!KilledBeforeFree

\* LogonUI's thread starts and kills status threads and posts to them, no more.
LEMMA LogonPosts ==
    ASSUME PlapTypes, Plap!LogonUI
    PROVE  /\ UNCHANGED <<ready, query, out, lines, pDaemon>>
           /\ pc # "deleted"
           /\ \A c \in Profiles :
                 /\ pThread'[c] = "open" => pThread[c] = "open"
                 /\ \A m : Among(m, posted[c]) => Among(m, posted'[c])
<1>1. ASSUME NEW c \in Profiles, NEW d \in Profiles, NEW m \in PlapMessages, Plap!Post(d, m),
             NEW x, Among(x, posted[c])
      PROVE  Among(x, posted'[c])
  <2>1. Among(x, Append(posted[c], m))
    BY <1>1, AmongAppend DEF PlapTypes
  <2> QED
    BY <1>1, <2>1 DEF Plap!Post, PlapTypes
<1>m. {"STOP", "RELEASE", "DETACH"} \subseteq PlapMessages
  BY DEF PlapMessages
<1>2. ASSUME NEW c \in Profiles, Plap!ConnectHelper(c)
      PROVE  \A d \in Profiles :
                /\ pThread'[d] = "open" => pThread[d] = "open"
                /\ \A m : Among(m, posted[d]) => Among(m, posted'[d])
  <2>1. UNCHANGED posted \/ Plap!Post(c, "RELEASE")
    BY <1>2 DEF Plap!ConnectHelper, Plap!Start
  <2>2. pThread' = [pThread EXCEPT ![c] = "starting"] \/ UNCHANGED pThread
    BY <1>2 DEF Plap!ConnectHelper, Plap!Start, Plap!SetThread
  <2> QED
    BY <1>1, <1>m, <2>1, <2>2 DEF PlapTypes
<1>3. UNCHANGED <<ready, query, out, lines, pDaemon>> /\ pc # "deleted"
  BY DEF Plap!LogonUI, Plap!Connect, Plap!Disconnect, Plap!Callable, Plap!Waited, Plap!DialogTimer,
         Plap!ClickCancel, Plap!ClickRetry, Plap!Chosen, Plap!Stopped, Plap!DetachAllOpenVPN,
         Plap!DeleteUI, Plap!threadVars, Plap!channel, Plap!daemonVars
<1> DEFINE Posts == \A c \in Profiles :
                       /\ pThread'[c] = "open" => pThread[c] = "open"
                       /\ \A m : Among(m, posted[c]) => Among(m, posted'[c])
<1> SUFFICES Posts
  BY <1>3
<1>4. ASSUME UNCHANGED <<pThread, posted>>
      PROVE  Posts
  BY <1>4
<1>5. ASSUME NEW c \in Profiles, Plap!Post(c, "STOP"), UNCHANGED pThread
      PROVE  Posts
  BY <1>1, <1>5, <1>m
<1>6. CASE Plap!DetachAllOpenVPN
  <2>1. ASSUME NEW c \in Profiles, NEW m, Among(m, posted[c])
        PROVE  Among(m, posted'[c])
    <3>1. Among(m, Append(posted[c], "DETACH"))
      BY <2>1, <1>m, AmongAppend DEF PlapTypes
    <3> QED
      BY <1>6, <2>1, <3>1 DEF Plap!DetachAllOpenVPN
  <2> QED
    BY <1>6, <2>1 DEF Plap!DetachAllOpenVPN
<1>7. CASE Plap!DeleteUI
  BY <1>7 DEF Plap!DeleteUI, PlapTypes
<1>8. CASE \E c \in Profiles : Plap!Connect(c) \/ Plap!Disconnect(c)
  BY <1>2, <1>5, <1>8 DEF Plap!Connect, Plap!Disconnect, Plap!Again
<1>9. CASE Plap!Waited
  BY <1>4, <1>9 DEF Plap!Waited, Plap!threadVars
<1>10. CASE Plap!DialogTimer
  BY <1>2, <1>4, <1>10 DEF Plap!DialogTimer, Plap!EndDialog, PlapTypes
<1>11. CASE Plap!ClickCancel
  BY <1>4, <1>11 DEF Plap!ClickCancel, Plap!EndDialog
<1>12. CASE Plap!ClickRetry
  BY <1>2, <1>4, <1>12 DEF Plap!ClickRetry, Plap!EndDialog, PlapTypes
<1>13. CASE Plap!Chosen
  BY <1>2, <1>4, <1>5, <1>13 DEF Plap!Chosen, Plap!Again, PlapTypes
<1>14. CASE Plap!Stopped
  BY <1>2, <1>4, <1>14 DEF Plap!Stopped, Plap!Again, PlapTypes
<1> QED
  BY <1>3, <1>6, <1>7, <1>8, <1>9, <1>10, <1>11, <1>12, <1>13, <1>14 DEF Plap!LogonUI

\* What LogonUI does leaves every waiting daemon attended.
LEMMA LogonAttends ==
    ASSUME PlapInv, Plap!LogonUI
    PROVE  PlapInv'
<1>1. PlapTypes'
  BY LogonTypes DEF PlapInv
<1>2. ASSUME NEW c \in Profiles
      PROVE  Attended(c)'
  <2>1. UNCHANGED <<ready, query, out, lines, pDaemon>> /\ pc # "deleted"
    BY LogonPosts DEF PlapInv
  <2>2. pThread'[c] = "open" => pThread[c] = "open"
    BY LogonPosts DEF PlapInv
  <2>3. Among("DETACH", posted[c]) => Among("DETACH", posted'[c])
    BY LogonPosts DEF PlapInv
  <2>4. (Plap!Runs(c) /\ Plap!Attached(c))' => Plap!Runs(c) /\ Plap!Attached(c)
    BY <2>1, <2>2 DEF Plap!Runs, Plap!Attached
  <2> QED
    BY <2>1, <2>3, <2>4, Zenon DEF Attended, PlapInv
<1>3. Plap!KilledBeforeFree'
  <2>1. pc' = "deleted" => Plap!DeleteUI
    BY LogonPosts DEF Plap!LogonUI, Plap!Connect, Plap!Disconnect, Plap!Waited, Plap!DialogTimer,
         Plap!ClickCancel, Plap!ClickRetry, Plap!Chosen, Plap!Stopped, Plap!DetachAllOpenVPN, Plap!Again,
         Plap!EndDialog, Plap!Return, Plap!logonVars, PlapInv
  <2> QED
    BY <2>1 DEF Plap!DeleteUI, Plap!KilledBeforeFree, PlapInv, PlapTypes
<1> QED
  BY <1>1, <1>2, <1>3 DEF PlapInv

\* A status thread and a daemon touch only their own profile.
LEMMA PlapOthers ==
    ASSUME PlapTypes, NEW c \in Profiles, Plap!StatusThread(c) \/ Plap!Daemon(c),
           NEW d \in Profiles \ {c}, Attended(d)
    PROVE  Attended(d)'
<1>1. /\ pThread'[d] = pThread[d] /\ ready'[d] = ready[d] /\ query'[d] = query[d]
      /\ pDaemon'[d] = pDaemon[d] /\ pc' = pc
  BY DEF PlapTypes, Plap!StatusThread, Plap!ThreadInit, Plap!ThreadExit, Plap!HandleStop,
         Plap!HandleRelease, Plap!HandleDetach, Plap!ReadReady, Plap!ReadHold, Plap!ReadConnected,
         Plap!ReadStateReply, Plap!ReadReconnecting, Plap!ReadQuestion, Plap!ReadEof, Plap!Answer,
         Plap!SetThread, Plap!CloseWindow, Plap!logonVars, Plap!daemonVars, Plap!Daemon,
         Plap!DaemonAccepts, Plap!DaemonReads, Plap!DaemonConnects, Plap!DaemonAsks,
         Plap!DaemonReconnects, Plap!DaemonRestarts, Plap!daemonOnly, Plap!threadVars
<1>2. posted'[d] = posted[d]
  BY DEF PlapTypes, Plap!StatusThread, Plap!ThreadInit, Plap!ThreadExit, Plap!HandleStop,
         Plap!HandleRelease, Plap!HandleDetach, Plap!ReadReady, Plap!ReadHold, Plap!ReadConnected,
         Plap!ReadStateReply, Plap!ReadReconnecting, Plap!ReadQuestion, Plap!ReadEof, Plap!Answer,
         Plap!CloseWindow, Plap!Post, Plap!Daemon,
         Plap!DaemonAccepts, Plap!DaemonReads, Plap!DaemonConnects, Plap!DaemonAsks,
         Plap!DaemonReconnects, Plap!DaemonRestarts, Plap!daemonOnly, Plap!threadVars
<1>3. out'[d] = out[d] /\ lines'[d] = lines[d]
  BY DEF PlapTypes, Plap!StatusThread, Plap!ThreadInit, Plap!ThreadExit, Plap!HandleStop,
         Plap!HandleRelease, Plap!HandleDetach, Plap!ReadReady, Plap!ReadHold, Plap!ReadConnected,
         Plap!ReadStateReply, Plap!ReadReconnecting, Plap!ReadQuestion, Plap!ReadEof, Plap!Answer,
         Plap!CloseWindow, Plap!OnHold, Plap!Send, Plap!Take, Plap!channel, Plap!Daemon, Plap!Emit,
         Plap!DaemonAccepts, Plap!DaemonReads, Plap!DaemonConnects, Plap!DaemonAsks,
         Plap!DaemonReconnects, Plap!DaemonRestarts
<1> QED
  BY <1>1, <1>2, <1>3 DEF Attended, Plap!Runs, Plap!Attached

\* The same for the profile itself: what is read off its queues asks the user, answers
\* the daemon or closes the window.
LEMMA StatusAttends ==
    ASSUME PlapTypes, NEW c \in Profiles, Plap!StatusThread(c), Attended(c)
    PROVE  Attended(c)'
<1> SUFFICES ASSUME (Plap!Runs(c) /\ Plap!Attached(c) /\ pDaemon[c] = "question")'
             PROVE  \/ query'[c] # "none"
                    \/ Among("question", lines'[c]) \/ Among("eof", lines'[c])
                    \/ Among("answer", out'[c])
                    \/ Among("DETACH", posted'[c])
  BY DEF Attended
<1>0. pThread'[c] = "open" /\ pc' # "deleted" /\ ready'[c] \in {1, 2} /\ pDaemon'[c] = "question"
  BY DEF Plap!Runs, Plap!Attached
<1>s. /\ posted[c] \in Seq(PlapMessages) /\ out[c] \in Seq(PlapCommands) /\ lines[c] \in Seq(PlapLines)
      /\ "DETACH" \in PlapMessages /\ "STOP" \in PlapMessages /\ "answer" \in PlapCommands
      /\ {"state", "release", "hold_sighup"} \subseteq PlapCommands
  BY DEF PlapTypes, PlapMessages, PlapCommands
<1>t. /\ posted' \in [Profiles -> Seq(PlapMessages)] /\ pThread \in [Profiles -> {"none", "starting", "open", "closing"}]
      /\ out \in [Profiles -> Seq(PlapCommands)] /\ lines \in [Profiles -> Seq(PlapLines)]
      /\ posted \in [Profiles -> Seq(PlapMessages)] /\ query \in [Profiles -> {"none", "open", "declined"}]
      /\ ready \in [Profiles -> 0 .. 3]
  BY StatusTypes DEF PlapTypes
\* What was there is still there, unless it is what this step took.
<1>k. /\ \A x \in PlapCommands : \A m : out'[c] = Append(out[c], x) /\ Among(m, out[c]) => Among(m, out'[c])
      /\ \A x \in PlapMessages : \A m : posted'[c] = Append(posted[c], x) /\ Among(m, posted[c])
                                => Among(m, posted'[c])
      /\ \A m : lines[c] # <<>> /\ lines'[c] = Tail(lines[c]) /\ Among(m, lines[c])
              => Head(lines[c]) = m \/ Among(m, lines'[c])
      /\ \A m : posted[c] # <<>> /\ posted'[c] = Tail(posted[c]) /\ Among(m, posted[c])
              => Head(posted[c]) = m \/ Among(m, posted'[c])
  BY <1>s, AmongAppend, AmongTail
<1>w. ASSUME Plap!Runs(c), ready[c] \in {1, 2}, pDaemon[c] = "question"
      PROVE  \/ query[c] # "none"
             \/ Among("question", lines[c]) \/ Among("eof", lines[c])
             \/ Among("answer", out[c])
             \/ Among("DETACH", posted[c])
  BY <1>w DEF Attended, Plap!Attached, Plap!Runs
<1>1. CASE Plap!ThreadInit(c)
  <2>1. ready'[c] = 3 \/ pThread'[c] = "none"
    BY <1>1, <1>t DEF Plap!ThreadInit, Plap!SetThread
  <2> QED
    BY <2>1, <1>0
<1>2. CASE Plap!ThreadExit(c)
  BY <1>2, <1>0, <1>t DEF Plap!ThreadExit, Plap!SetThread
<1>c. ASSUME Plap!CloseWindow(c)
      PROVE  FALSE
  BY <1>c, <1>0, <1>t DEF Plap!CloseWindow, Plap!SetThread
<1>q. pDaemon' = pDaemon
  BY DEF Plap!StatusThread, Plap!ThreadInit, Plap!ThreadExit, Plap!HandleStop,
         Plap!HandleRelease, Plap!HandleDetach, Plap!ReadReady, Plap!ReadHold, Plap!ReadConnected,
         Plap!ReadStateReply, Plap!ReadReconnecting, Plap!ReadQuestion, Plap!ReadEof, Plap!Answer,
         Plap!daemonVars
<1>3. CASE Plap!HandleStop(c)
  <2>1. /\ Plap!Runs(c) /\ ready' = ready /\ lines' = lines /\ query' = query
        /\ posted[c] # <<>> /\ Head(posted[c]) = "STOP"
    BY <1>3, <1>c DEF Plap!HandleStop, Plap!Received, Plap!Runs
  <2>2. posted'[c] = Tail(posted[c])
    BY <1>3, <1>c, <1>t DEF Plap!HandleStop
  <2>3. out' = out \/ out'[c] = Append(out[c], "hold_sighup")
    BY <1>3, <1>c, <1>t DEF Plap!HandleStop, Plap!Send
  <2> QED
    BY <2>1, <2>2, <2>3, <1>k, <1>w, <1>q, <1>0, <1>s
<1>4. CASE Plap!HandleRelease(c)
  <2>1. /\ Plap!Runs(c) /\ ready' = ready /\ lines' = lines /\ query' = query
        /\ posted[c] # <<>> /\ Head(posted[c]) = "RELEASE"
    BY <1>4 DEF Plap!HandleRelease, Plap!Received, Plap!Runs
  <2>2. posted'[c] = Tail(posted[c])
    BY <1>4, <1>t DEF Plap!HandleRelease
  <2>3. out' = out \/ out'[c] = Append(out[c], "release")
    BY <1>4, <1>t DEF Plap!HandleRelease, Plap!Send, Plap!OnHold
  <2> QED
    BY <2>1, <2>2, <2>3, <1>k, <1>w, <1>q, <1>0, <1>s
<1>5. CASE Plap!HandleDetach(c)
  BY <1>5, <1>c DEF Plap!HandleDetach
<1>6. CASE Plap!ReadReady(c)
  <2>1. /\ Plap!Runs(c) /\ ready[c] \in {1, 2} /\ query' = query /\ posted' = posted
        /\ lines[c] # <<>> /\ Head(lines[c]) = "info"
    BY <1>6 DEF Plap!ReadReady, Plap!Reading
  <2>2. lines'[c] = Tail(lines[c]) /\ out'[c] = Append(out[c], "state")
    BY <1>6, <1>t DEF Plap!ReadReady, Plap!Take, Plap!Send
  <2> QED
    BY <2>1, <2>2, <1>k, <1>w, <1>q, <1>0, <1>s
<1>7. CASE Plap!ReadHold(c)
  <2>1. /\ Plap!Runs(c) /\ ready[c] \in {1, 2} /\ query' = query /\ posted' = posted
        /\ lines[c] # <<>> /\ Head(lines[c]) = "hold"
    BY <1>7 DEF Plap!ReadHold, Plap!Reading
  <2>2. lines'[c] = Tail(lines[c]) /\ (out' = out \/ out'[c] = Append(out[c], "release"))
    BY <1>7, <1>t DEF Plap!ReadHold, Plap!Take, Plap!Send, Plap!OnHold
  <2> QED
    BY <2>1, <2>2, <1>k, <1>w, <1>q, <1>0, <1>s
<1>8. CASE Plap!ReadConnected(c) \/ Plap!ReadStateReply(c) \/ Plap!ReadReconnecting(c)
  <2>1. /\ Plap!Runs(c) /\ ready[c] \in {1, 2} /\ query' = query /\ posted' = posted /\ out' = out
        /\ lines[c] # <<>> /\ Head(lines[c]) \notin {"question", "eof"}
    BY <1>8 DEF Plap!ReadConnected, Plap!ReadStateReply, Plap!ReadReconnecting, Plap!Reading
  <2>2. lines'[c] = Tail(lines[c])
    BY <1>8, <1>t DEF Plap!ReadConnected, Plap!ReadStateReply, Plap!ReadReconnecting, Plap!Take
  <2> QED
    BY <2>1, <2>2, <1>k, <1>w, <1>q, <1>0, <1>s
<1>9. CASE Plap!ReadQuestion(c)
  <2>1. CASE query' = [query EXCEPT ![c] = "open"]
    BY <2>1, <1>t
  <2>2. CASE Plap!Post(c, "DETACH")
    <3>1. posted'[c] = Append(posted[c], "DETACH")
      BY <1>9, <2>2, <1>t DEF Plap!Post, Plap!ReadQuestion, Plap!Reading, Plap!Runs
    <3> QED
      BY <3>1, <1>s, AmongLast
  <2> QED
    BY <1>9, <2>1, <2>2 DEF Plap!ReadQuestion
<1>10. CASE Plap!ReadEof(c)
  BY <1>10, <1>c DEF Plap!ReadEof
<1>11. CASE Plap!Answer(c)
  <2>1. CASE Plap!Send(c, "answer")
    <3>1. out'[c] = Append(out[c], "answer")
      BY <2>1, <1>t DEF Plap!Send
    <3> QED
      BY <3>1, <1>s, AmongLast
  <2>2. CASE query' = [query EXCEPT ![c] = "declined"]
    BY <2>2, <1>t
  <2> QED
    BY <1>11, <2>1, <2>2 DEF Plap!Answer
<1> QED
  BY <1>1, <1>2, <1>3, <1>4, <1>5, <1>6, <1>7, <1>8, <1>9, <1>10, <1>11 DEF Plap!StatusThread

\* A daemon that waits is attended.
LEMMA DaemonAttends ==
    ASSUME PlapTypes, NEW c \in Profiles, Plap!Daemon(c), Attended(c)
    PROVE  Attended(c)'
<1> SUFFICES ASSUME (Plap!Runs(c) /\ Plap!Attached(c) /\ pDaemon[c] = "question")'
             PROVE  \/ query'[c] # "none"
                    \/ Among("question", lines'[c]) \/ Among("eof", lines'[c])
                    \/ Among("answer", out'[c])
                    \/ Among("DETACH", posted'[c])
  BY DEF Attended
<1>0. pThread'[c] = "open" /\ pc' # "deleted" /\ ready'[c] \in {1, 2} /\ pDaemon'[c] = "question"
  BY DEF Plap!Runs, Plap!Attached
<1>s. /\ out[c] \in Seq(PlapCommands) /\ lines[c] \in Seq(PlapLines)
      /\ {"question", "state_connected"} \subseteq PlapLines
  BY DEF PlapTypes, PlapLines
<1>t. /\ pDaemon \in [Profiles -> {"hold", "connecting", "question", "connected"}]
      /\ out \in [Profiles -> Seq(PlapCommands)] /\ lines \in [Profiles -> Seq(PlapLines)]
  BY DEF PlapTypes
<1>w. ASSUME Plap!Runs(c), ready[c] \in {1, 2}, pDaemon[c] = "question"
      PROVE  \/ query[c] # "none"
             \/ Among("question", lines[c]) \/ Among("eof", lines[c])
             \/ Among("answer", out[c])
             \/ Among("DETACH", posted[c])
  BY <1>w DEF Attended, Plap!Attached, Plap!Runs
<1>1. CASE Plap!DaemonAccepts(c)
  <2>1. pDaemon[c] = "question"
    BY <1>1, <1>0 DEF Plap!DaemonAccepts, Plap!daemonVars
  <2>2. lines'[c] = <<"info">> \o <<"question">>
    BY <1>1, <1>t, <2>1 DEF Plap!DaemonAccepts, Plap!Waiting
  <2>3. lines'[c][2] = "question" /\ 2 \in 1 .. Len(lines'[c])
    BY <2>2
  <2> QED
    BY <2>3 DEF Among
<1>2. CASE Plap!DaemonReads(c)
  <2>1. pDaemon' = pDaemon \/ pDaemon'[c] = pDaemon[c]
    BY <1>2, <1>0, <1>t DEF Plap!DaemonReads
  <2>2. Head(out[c]) # "answer" /\ out[c] # <<>> /\ out'[c] = Tail(out[c])
    BY <1>2, <1>0, <1>t DEF Plap!DaemonReads
  <2>3. UNCHANGED <<pc, pThread, ready, query, posted>>
    BY <1>2 DEF Plap!DaemonReads, Plap!daemonOnly, Plap!logonVars, Plap!threadVars
  <2>4. Among("answer", out[c]) => Among("answer", out'[c])
    BY <2>2, <1>s, AmongTail
  <2>5. \A m : Among(m, lines[c]) => Among(m, lines'[c])
    <3>1. lines' = lines \/ Plap!Emit(c, <<>>) \/ Plap!Emit(c, <<"state_connected">>)
      BY <1>2, <1>0, <1>t DEF Plap!DaemonReads
    <3>2. <<>> \in Seq(PlapLines) /\ <<"state_connected">> \in Seq(PlapLines)
      BY <1>s
    <3>3. \A m : Among(m, lines[c]) =>
             Among(m, lines[c] \o <<>>) /\ Among(m, lines[c] \o <<"state_connected">>)
      BY <1>s, <3>2, AmongConcat
    <3> QED
      BY <3>1, <3>3, <1>t DEF Plap!Emit
  <2> QED
    BY <2>1, <2>3, <2>4, <2>5, <1>w, <1>0 DEF Plap!Runs
<1>3. CASE Plap!DaemonConnects(c) \/ Plap!DaemonReconnects(c) \/ Plap!DaemonRestarts(c)
  BY <1>3, <1>0, <1>t DEF Plap!DaemonConnects, Plap!DaemonReconnects, Plap!DaemonRestarts
<1>4. CASE Plap!DaemonAsks(c)
  <2>1. Plap!Attached(c)
    BY <1>4, <1>0 DEF Plap!DaemonAsks, Plap!daemonOnly, Plap!threadVars, Plap!Attached
  <2>2. lines'[c] = lines[c] \o <<"question">>
    BY <1>4, <2>1, <1>t DEF Plap!DaemonAsks, Plap!Emit
  <2>3. <<"question">> \in Seq(PlapLines) /\ Among("question", <<"question">>)
    BY <1>s DEF Among
  <2> QED
    BY <2>2, <2>3, <1>s, AmongConcat
<1> QED
  BY <1>1, <1>2, <1>3, <1>4 DEF Plap!Daemon

\* Every step of the provider keeps its invariant.
LEMMA PlapStepAttends ==
    ASSUME PlapInv, Plap!Next \/ UNCHANGED plapVars
    PROVE  PlapInv'
<1>1. CASE UNCHANGED plapVars
  BY <1>1 DEF plapVars, PlapInv, PlapTypes, Attended, Plap!KilledBeforeFree, Plap!Runs, Plap!Attached
<1>2. ASSUME NEW c \in Startable, Plap!StatusThread(c) \/ Plap!Daemon(c)
      PROVE  PlapInv'
  <2>1. c \in Profiles
    BY DesktopAssumption, Zenon DEF DesktopAssumption
  <2>2. PlapTypes'
    BY <1>2, <2>1, StatusTypes, DaemonTypes DEF PlapInv
  <2>3. ASSUME NEW d \in Profiles
        PROVE  Attended(d)'
    <3>1. CASE d = c
      BY <1>2, <2>1, <3>1, StatusAttends, DaemonAttends DEF PlapInv
    <3>2. CASE d # c
      BY <1>2, <2>1, <3>2, PlapOthers DEF PlapInv
    <3> QED
      BY <3>1, <3>2
  <2>4. pc # "deleted" /\ pc' = pc
    BY <1>2 DEF Plap!StatusThread, Plap!ThreadInit, Plap!ThreadExit, Plap!HandleStop, Plap!Received,
         Plap!HandleRelease, Plap!HandleDetach, Plap!ReadReady, Plap!ReadHold, Plap!ReadConnected,
         Plap!ReadStateReply, Plap!ReadReconnecting, Plap!ReadQuestion, Plap!ReadEof, Plap!Answer,
         Plap!Reading, Plap!Runs, Plap!logonVars, Plap!Daemon, Plap!DaemonAccepts, Plap!DaemonReads,
         Plap!DaemonConnects, Plap!DaemonAsks, Plap!DaemonReconnects, Plap!DaemonRestarts,
         Plap!daemonOnly
  <2> QED
    BY <2>2, <2>3, <2>4 DEF PlapInv, Plap!KilledBeforeFree
<1> QED
  BY <1>1, <1>2, LogonAttends DEF Plap!Next

\* PlapInv holds of every state.
LEMMA PlapKept == Spec => []PlapInv
<1>1. Init => PlapInv
  <2> SUFFICES ASSUME Plap!Init
               PROVE  PlapInv
    BY DEF Init
  <2>1. PlapTypes
    <3>1. <<>> \in Seq(PlapMessages) /\ <<>> \in Seq(PlapCommands) /\ <<>> \in Seq(PlapLines)
      OBVIOUS
    <3> QED
      BY <3>1 DEF Plap!Init, PlapTypes, Plap!None
  <2>2. \A c \in Profiles : pThread[c] = "none"
    BY DEF Plap!Init
  <2> QED
    BY <2>1, <2>2 DEF PlapInv, Attended, Plap!Runs, Plap!KilledBeforeFree
<1>2. PlapInv /\ [Next]_vars => PlapInv'
  <2>1. [Next]_vars => Plap!Next \/ UNCHANGED plapVars
    BY DEF Next, vars, PlapStep, ObjectsStep, MenusStep, StartingStep, TokensStep, MessagesStep,
           EnvStep, ProxiesStep, ImportsStep, ReaderStep
  <2> QED
    BY <2>1, PlapStepAttends
<1> QED
  BY <1>1, <1>2, PTL DEF Spec

\* At the logon screen no daemon waits on a question nobody sees, and the list of
\* profiles is not freed under a status thread, whatever LogonUI does with its tiles
\* while profiles connect (plap_connection.c, ui_glue.c).
THEOREM LogonIsAttended == Spec => []LogonAttended
<1>1. PlapInv => LogonAttended
  <2> SUFFICES ASSUME PlapInv, NEW c \in Profiles, Plap!Runs(c) /\ Plap!Attached(c),
                      pDaemon[c] = "question", lines[c] = <<>>, out[c] = <<>>, posted[c] = <<>>
               PROVE  query[c] # "none"
    BY DEF LogonAttended, Plap!NoSilentQuestion, PlapInv, Plap!None
  <2>1. ~Among("question", <<>>) /\ ~Among("eof", <<>>) /\ ~Among("answer", <<>>)
        /\ ~Among("DETACH", <<>>)
    BY DEF Among
  <2> QED
    BY <2>1 DEF PlapInv, Attended
<1> QED
  BY <1>1, PlapKept, PTL

-----------------------------------------------------------------------------
(* Echo *)

Digests == Seq(Lines \cup Titles)
Prints == [digest : Digests, time : Nat]

EchoTypes ==
    /\ running \in BOOLEAN /\ text \in Seq(Lines) /\ now \in Nat /\ eThread \in Nat
    /\ history \in Seq(Prints) /\ stored \in Seq(Prints)
    /\ tried \subseteq Digests /\ IsFiniteSet(tried) /\ pending \subseteq Nat
    /\ shown \in Seq([digest : Digests, time : Nat, how : {"whole", "late"}, thread : Nat])

\* The thread that runs has not ended, and no message was shown by one to come.
Threads ==
    /\ \A n \in lost : n \in Nat /\ n <= eThread /\ (running => n # eThread)
    /\ \A i \in 1 .. Len(shown) : shown[i].thread <= eThread

\* One entry per digest, each of a message that was not muted.
OnePerDigest(h) ==
    /\ \A k, m \in 1 .. Len(h) : h[k].digest = h[m].digest => k = m
    /\ \A k \in 1 .. Len(h) : h[k].digest \in tried

\* Message i is known, with a time that is not before its own.
Knows(h, i) == \E k \in 1 .. Len(h) : h[k].digest = shown[i].digest /\ h[k].time >= shown[i].time

\* What was shown by threads that did not end unsaved is known: in memory while a thread
\* runs, and in the registry but for what this thread has shown.
Remembered ==
    Cardinality(tried) <= MaxHistory =>
        \A i \in 1 .. Len(shown) :
            shown[i].how = "whole" /\ shown[i].thread \notin lost =>
                /\ running => Knows(history, i)
                /\ (running /\ shown[i].thread = eThread) \/ Knows(stored, i)

SpacedOut ==
    Cardinality(tried) <= MaxHistory =>
        \A j \in 1 .. Len(shown) : \A i \in 1 .. j - 1 :
            /\ shown[i].how = "whole" /\ shown[j].how = "whole"
            /\ shown[i].digest = shown[j].digest
            /\ shown[i].thread = shown[j].thread \/ shown[i].thread \notin lost
            => shown[j].time >= shown[i].time + Mute

EchoInv ==
    /\ EchoTypes /\ Threads /\ OnePerDigest(history) /\ OnePerDigest(stored)
    /\ Remembered /\ SpacedOut

\* The module's own Cardinality is that of FiniteSets.
LEMMA EchoCardinality == \A S : Messages!Cardinality(S) = Cardinality(S)
BY Zenon DEF Messages!Cardinality, Cardinality

\* The prints of a history, one by one.
LEMMA PrintFacts ==
    ASSUME NEW h \in Seq(Prints)
    PROVE  /\ Len(h) \in Nat /\ DOMAIN h = 1 .. Len(h)
           /\ \A k \in 1 .. Len(h) : h[k] \in Prints /\ h[k].time \in Nat /\ k \in DOMAIN h
<1>1. Len(h) \in Nat /\ DOMAIN h = 1 .. Len(h) /\ \A k \in 1 .. Len(h) : h[k] \in Prints
  OBVIOUS
<1> QED
  BY <1>1 DEF Prints

\* The messages shown, one by one.
LEMMA ShownFacts ==
    ASSUME EchoTypes
    PROVE  /\ Len(shown) \in Nat
           /\ \A i \in 1 .. Len(shown) : shown[i].time \in Nat /\ shown[i].thread \in Nat
<1> DEFINE Row == [digest : Digests, time : Nat, how : {"whole", "late"}, thread : Nat]
<1>1. shown \in Seq(Row)
  BY DEF EchoTypes
<1> HIDE DEF Row
<1>2. Len(shown) \in Nat /\ \A i \in 1 .. Len(shown) : shown[i] \in Row
  BY <1>1
<1> QED
  BY <1>2 DEF Row

\* As many entries as digests: a history of messages that were tried has room for all.
LEMMA HistoryFits ==
    ASSUME NEW h \in Seq(Prints), OnePerDigest(h), IsFiniteSet(tried)
    PROVE  Len(h) <= Cardinality(tried)
<1> DEFINE f == [k \in 1 .. Len(h) |-> h[k].digest]
<1>1. f \in Injection(1 .. Len(h), tried)
  <2>1. f \in [1 .. Len(h) -> tried] /\ \A k, m \in 1 .. Len(h) : f[k] = f[m] => k = m
    BY DEF OnePerDigest
  <2> QED
    BY <2>1, Fun_IsInj
<1>2. Cardinality(1 .. Len(h)) <= Cardinality(tried)
  BY <1>1, FS_Injection
<1>3. Cardinality(1 .. Len(h)) = Len(h)
  <2>1. Len(h) \in Nat /\ 1 \in Int /\ Len(h) \in Int
    OBVIOUS
  <2>2. Cardinality(1 .. Len(h)) = IF 1 > Len(h) THEN 0 ELSE Len(h) - 1 + 1
    BY <2>1, FS_Interval
  <2> QED
    BY <2>1, <2>2
<1> QED
  BY <1>2, <1>3

\* A message that is not muted enters the history or renews its entry.
LEMMA SaveRemembers ==
    ASSUME NEW h \in Seq(Prints), NEW d \in Digests, NEW time \in Nat,
           \A k \in 1 .. Len(h) : h[k].digest = d => h[k].time <= time,
           \A k, m \in 1 .. Len(h) : h[k].digest = h[m].digest => k = m
    PROVE  LET g == Messages!Save(h, d, time) IN
           /\ g \in Seq(Prints)
           /\ \A k, m \in 1 .. Len(g) : g[k].digest = g[m].digest => k = m
           /\ \A k \in 1 .. Len(g) : g[k].digest = d \/ \E m \in 1 .. Len(h) : h[m].digest = g[k].digest
           /\ \E k \in 1 .. Len(g) : g[k].digest = d /\ g[k].time = time
           /\ \A m \in 1 .. Len(h) : \E k \in 1 .. Len(g) :
                 g[k].digest = h[m].digest /\ g[k].time >= h[m].time
<1> DEFINE g == Messages!Save(h, d, time)
<1>0. /\ DOMAIN h = 1 .. Len(h) /\ Len(h) \in Nat
      /\ \A k \in 1 .. Len(h) : h[k] \in Prints /\ h[k].time \in Nat
  <2>1. DOMAIN h = 1 .. Len(h) /\ Len(h) \in Nat /\ \A k \in 1 .. Len(h) : h[k] \in Prints
    OBVIOUS
  <2> QED
    BY <2>1 DEF Prints
<1>1. CASE Messages!Recall(h, d) # {}
  <2>1. g = [i \in 1 .. Len(h) |-> IF h[i].digest = d THEN [h[i] EXCEPT !.time = time] ELSE h[i]]
    BY <1>0, <1>1 DEF Messages!Save
  <2>2. \A i \in 1 .. Len(h) : [h[i] EXCEPT !.time = time] \in Prints
    BY <1>0 DEF Prints
  <2>3. g \in Seq(Prints) /\ Len(g) = Len(h)
    BY <1>0, <2>1, <2>2
  <2>4. \A i \in 1 .. Len(h) :
           g[i].digest = h[i].digest /\ g[i].time = IF h[i].digest = d THEN time ELSE h[i].time
    BY <1>0, <2>1 DEF Prints
  <2>5. PICK i \in 1 .. Len(h) : h[i].digest = d
    BY <1>0, <1>1 DEF Messages!Recall
  <2> QED
    BY <1>0, <2>3, <2>4, <2>5
<1>2. CASE Messages!Recall(h, d) = {}
  <2> DEFINE e == [digest |-> d, time |-> time]
  <2>1. g = <<e>> \o h
    BY <1>2 DEF Messages!Save
  <2>2. e \in Prints /\ e.digest = d /\ e.time = time
    BY DEF Prints
  <2> HIDE DEF e
  <2>3. /\ g \in Seq(Prints) /\ Len(g) = Len(h) + 1 /\ g[1] = e
        /\ \A i \in 2 .. Len(g) : g[i] = h[i - 1]
    BY <1>0, <2>1, <2>2
  <2> HIDE DEF g
  <2>4. \A i \in 1 .. Len(h) : h[i].digest # d
    BY <1>0, <1>2 DEF Messages!Recall
  <2>5. 1 \in 1 .. Len(g) /\ \A i \in 1 .. Len(h) : i + 1 \in 1 .. Len(g) /\ g[i + 1] = h[i]
    <3>1. 1 \in 1 .. Len(g) /\ \A i \in 1 .. Len(h) : i + 1 \in 2 .. Len(g) /\ (i + 1) - 1 = i
      <4>1. Len(h) \in Nat /\ Len(g) = Len(h) + 1
        BY <1>0, <2>3
      <4> QED
        BY ONLY <4>1
    <3>2. \A i \in 1 .. Len(h) : i + 1 \in 1 .. Len(g)
      <4>1. Len(h) \in Nat /\ Len(g) = Len(h) + 1
        BY <1>0, <2>3
      <4> QED
        BY ONLY <4>1
    <3>3. \A i \in 1 .. Len(h) : g[i + 1] = h[i]
      BY <2>3, <3>1, Zenon
    <3> QED
      BY <3>1, <3>2, <3>3, Zenon
  <2>s. \A i \in 1 .. Len(g) : i = 1 \/ (i \in 2 .. Len(g) /\ i - 1 \in 1 .. Len(h) /\ g[i] = h[i - 1])
    <3> SUFFICES ASSUME NEW i \in 1 .. Len(g), i # 1
                 PROVE  i \in 2 .. Len(g) /\ i - 1 \in 1 .. Len(h) /\ g[i] = h[i - 1]
      OBVIOUS
    <3>1. Len(h) \in Nat /\ Len(g) = Len(h) + 1
      BY <1>0, <2>3
    <3>2. i \in 2 .. Len(g) /\ i - 1 \in 1 .. Len(h)
      BY <3>1
    <3> QED
      BY <2>3, <3>2
  <2>6. \A k, m \in 1 .. Len(g) : g[k].digest = g[m].digest => k = m
    <3> SUFFICES ASSUME NEW k \in 1 .. Len(g), NEW m \in 1 .. Len(g), g[k].digest = g[m].digest
                 PROVE  k = m
      OBVIOUS
    <3>2. CASE k = 1 \/ m = 1
      <4>1. g[1].digest = d /\ \A i \in 1 .. Len(g) : i = 1 \/ g[i].digest # d
        BY <2>s, <2>2, <2>3, <2>4
      <4> QED
        BY <3>2, <4>1
    <3>3. CASE k # 1 /\ m # 1
      <4>3. /\ k - 1 \in 1 .. Len(h) /\ g[k] = h[k - 1]
            /\ m - 1 \in 1 .. Len(h) /\ g[m] = h[m - 1]
        BY <3>3, <2>s, Zenon
      <4>4. h[k - 1].digest = h[m - 1].digest
        BY <4>3
      <4>5. \A a, c \in 1 .. Len(h) : h[a].digest = h[c].digest => a = c
        OBVIOUS
      <4>1. k - 1 = m - 1
        BY <4>3, <4>4, <4>5, Zenon
      <4>2. k \in Int /\ m \in Int
        BY <2>3
      <4> QED
        BY <4>1, <4>2
    <3> QED
      BY <3>2, <3>3
  <2>7. \A k \in 1 .. Len(g) : g[k].digest = d \/ \E m \in 1 .. Len(h) : h[m].digest = g[k].digest
    BY <2>s, <2>2, <2>3
  <2>8. \A m \in 1 .. Len(h) : \E k \in 1 .. Len(g) :
                 g[k].digest = h[m].digest /\ g[k].time >= h[m].time
    <3> SUFFICES ASSUME NEW m \in 1 .. Len(h)
                 PROVE  \E k \in 1 .. Len(g) :
                           g[k].digest = h[m].digest /\ g[k].time >= h[m].time
      OBVIOUS
    <3>1. m + 1 \in 1 .. Len(g) /\ g[m + 1] = h[m] /\ h[m].time \in Nat
      BY <1>0, <2>5, Zenon
    <3>2. h[m].time >= h[m].time
      BY <3>1
    <3> QED
      BY <3>1, <3>2, Zenon
  <2> QED
    BY <2>2, <2>3, <2>5, <2>6, <2>7, <2>8 DEF g
<1> QED
  BY <1>1, <1>2

\* The invariant looks at nothing else.
LEMMA EchoSame ==
    ASSUME EchoInv, UNCHANGED <<running, history, stored, shown, eThread, tried, lost>>,
           text' \in Seq(Lines), now' \in Nat, pending' \subseteq Nat
    PROVE  EchoInv'
<1>1. EchoTypes' /\ Threads' /\ OnePerDigest(history)' /\ OnePerDigest(stored)'
  BY DEF EchoInv, EchoTypes, Threads, OnePerDigest
<1>2. Remembered'
  BY DEF EchoInv, Remembered, Knows
<1>3. SpacedOut'
  BY DEF EchoInv, SpacedOut
<1> QED
  BY <1>1, <1>2, <1>3 DEF EchoInv

\* What the reading of the registry yields is the same in the other order.
LEMMA StartRemembers ==
    ASSUME EchoInv, Messages!Start
    PROVE  EchoInv'
<1> DEFINE n == Len(stored)
<1>0. /\ n \in Nat /\ stored \in Seq(Prints)
      /\ \A k \in 1 .. n : stored[k] \in Prints /\ n - k + 1 \in 1 .. n /\ n - (n - k + 1) + 1 = k
  BY DEF EchoInv, EchoTypes
<1>1. history' = [k \in 1 .. n |-> stored[n - k + 1]]
  BY DEF Messages!Start, Messages!Reverse
<1>2. /\ history' \in Seq(Prints) /\ Len(history') = n
      /\ \A k \in 1 .. n : history'[k] = stored[n - k + 1] /\ history'[n - k + 1] = stored[k]
  BY <1>0, <1>1
<1>3. /\ ~running /\ running' /\ eThread' = eThread + 1 /\ eThread \in Nat
      /\ UNCHANGED <<text, stored, pending, shown, lost, now, tried>>
  BY DEF Messages!Start, EchoInv, EchoTypes
<1>4. EchoTypes'
  BY <1>2, <1>3 DEF EchoInv, EchoTypes
<1>5. Threads'
  <2>1. \A k \in lost : k \in Nat /\ k <= eThread
    BY DEF EchoInv, Threads
  <2>2. \A i \in 1 .. Len(shown) : shown[i].thread <= eThread /\ shown[i].thread \in Nat
    BY ShownFacts DEF EchoInv, Threads
  <2> QED
    BY <1>3, <2>1, <2>2 DEF Threads
<1>6. OnePerDigest(history)' /\ OnePerDigest(stored)'
  <2>1. OnePerDigest(stored)
    BY DEF EchoInv
  <2>2. \A k, m \in 1 .. n : history'[k].digest = history'[m].digest => k = m
    <3> SUFFICES ASSUME NEW k \in 1 .. n, NEW m \in 1 .. n, history'[k].digest = history'[m].digest
                 PROVE  k = m
      OBVIOUS
    <3>0. /\ n - k + 1 \in 1 .. n /\ n - m + 1 \in 1 .. n
          /\ stored[n - k + 1].digest = stored[n - m + 1].digest
      BY <1>0, <1>2
    <3>1. n - k + 1 = n - m + 1
      BY <2>1, <3>0, Zenon DEF OnePerDigest
    <3> QED
      BY <3>1, <1>0
  <2> QED
    BY <2>1, <2>2, <1>0, <1>2, <1>3 DEF OnePerDigest
<1>7. ASSUME NEW i \in 1 .. Len(shown), Knows(stored, i)
      PROVE  Knows(stored, i)' /\ Knows(history, i)'
  <2>1. PICK k \in 1 .. n : stored[k].digest = shown[i].digest /\ stored[k].time >= shown[i].time
    BY <1>7 DEF Knows
  <2>2. n - k + 1 \in 1 .. n /\ history'[n - k + 1] = stored[k]
    BY <1>0, <1>2
  <2> QED
    BY <2>1, <2>2, <1>2, <1>3 DEF Knows
<1>8. Remembered'
  BY <1>3, <1>7 DEF EchoInv, Remembered
<1>9. SpacedOut'
  BY <1>3 DEF EchoInv, SpacedOut
<1> QED
  BY <1>4, <1>5, <1>6, <1>8, <1>9 DEF EchoInv

\* A title ends a digest.
LEMMA DigestType ==
    ASSUME NEW t \in Seq(Lines), NEW title \in Titles
    PROVE  Messages!Digest(t, title) \in Digests
<1>1. t \in Seq(Lines \cup Titles)
  OBVIOUS
<1> QED
  BY <1>1 DEF Messages!Digest, Digests

\* One more digest tried is not less of them.
LEMMA TriedGrows ==
    ASSUME EchoTypes, NEW d, tried' = tried \cup {d}
    PROVE  /\ IsFiniteSet(tried')
           /\ Cardinality(tried) \in Nat /\ Cardinality(tried') \in Nat
           /\ Cardinality(tried) <= Cardinality(tried')
<1>1. IsFiniteSet(tried')
  BY FS_AddElement DEF EchoTypes
<1>2. tried \in SUBSET tried'
  OBVIOUS
<1> QED
  BY <1>1, <1>2, FS_Subset, FS_CardinalityType DEF EchoTypes

\* A message that is shown was not muted: what was shown with its digest is older by the
\* mute interval, and the history knows it from now on.
LEMMA DisplayRemembers ==
    ASSUME EchoInv, Messages!Display
    PROVE  EchoInv'
<1>1. PICK title \in Titles, time \in 0 .. now :
         LET d == Messages!Digest(text, title) IN
         IF Messages!Repeated(d, time)
         THEN UNCHANGED <<history, shown, pending, tried>>
         ELSE /\ history' = Messages!Save(history, d, time)
              /\ tried' = tried \cup {d}
              /\ \/ shown' = Append(shown, Messages!Shown(d, time, "whole")) /\ UNCHANGED pending
                 \/ pending = {} /\ pending' = pending \cup {time} /\ UNCHANGED shown
  BY DEF Messages!Display
<1> DEFINE d == Messages!Digest(text, title)
<1>2. /\ running /\ text' = <<>> /\ UNCHANGED <<running, stored, eThread, lost, now>>
      /\ running' /\ <<>> \in Seq(Lines) /\ now \in Nat /\ time \in Nat /\ eThread \in Nat
  BY DEF Messages!Display, EchoInv, EchoTypes
<1>3. CASE Messages!Repeated(d, time)
  BY <1>1, <1>2, <1>3, EchoSame DEF EchoInv, EchoTypes
<1>4. CASE ~Messages!Repeated(d, time)
  <2> DEFINE g == Messages!Save(history, d, time)
  <2>1. d \in Digests /\ history \in Seq(Prints) /\ Mute \in Nat /\ MaxHistory \in Nat
    BY DigestType, DesktopAssumption, Zenon DEF EchoInv, EchoTypes, DesktopAssumption
  <2>2. \A k \in 1 .. Len(history) : history[k].digest = d =>
           history[k].time \in Nat /\ history[k].time + Mute <= time
    <3>1. \A k \in 1 .. Len(history) : history[k].time \in Nat /\ k \in DOMAIN history
      BY <2>1, PrintFacts
    <3> QED
      BY <3>1, <1>2, <1>4, <2>1 DEF Messages!Repeated, Messages!Recall
  <2>3. /\ \A k \in 1 .. Len(history) : history[k].digest = d => history[k].time <= time
        /\ \A k, m \in 1 .. Len(history) : history[k].digest = history[m].digest => k = m
    BY <2>1, <2>2, <1>2 DEF EchoInv, OnePerDigest
  <2>4. history' = g /\ tried' = tried \cup {d}
    BY <1>1, <1>4
  <2> HIDE DEF d
  <2>a. /\ g \in Seq(Prints)
        /\ \A k, m \in 1 .. Len(g) : g[k].digest = g[m].digest => k = m
        /\ \A k \in 1 .. Len(g) : g[k].digest = d
             \/ \E m \in 1 .. Len(history) : history[m].digest = g[k].digest
        /\ \E k \in 1 .. Len(g) : g[k].digest = d /\ g[k].time = time
        /\ \A m \in 1 .. Len(history) : \E k \in 1 .. Len(g) :
              g[k].digest = history[m].digest /\ g[k].time >= history[m].time
    BY <2>1, <2>3, <1>2, SaveRemembers
  <2> HIDE DEF g
  <2>5. /\ history' \in Seq(Prints)
        /\ \A k, m \in 1 .. Len(history') : history'[k].digest = history'[m].digest => k = m
        /\ \A k \in 1 .. Len(history') : history'[k].digest = d
             \/ \E m \in 1 .. Len(history) : history[m].digest = history'[k].digest
        /\ \E k \in 1 .. Len(history') : history'[k].digest = d /\ history'[k].time = time
        /\ \A m \in 1 .. Len(history) : \E k \in 1 .. Len(history') :
              history'[k].digest = history[m].digest /\ history'[k].time >= history[m].time
    BY <2>4, <2>a
  <2>6. /\ IsFiniteSet(tried') /\ tried' \subseteq Digests
        /\ Cardinality(tried') <= MaxHistory => Cardinality(tried) <= MaxHistory
    <3>1. /\ IsFiniteSet(tried') /\ Cardinality(tried) \in Nat /\ Cardinality(tried') \in Nat
          /\ Cardinality(tried) <= Cardinality(tried')
      BY <2>4, TriedGrows DEF EchoInv
    <3>2. tried' \subseteq Digests
      BY <2>1, <2>4 DEF EchoInv, EchoTypes
    <3> QED
      BY <3>1, <3>2, <2>1
  <2>7. OnePerDigest(history)' /\ OnePerDigest(stored)'
    <3>1. /\ \A m \in 1 .. Len(history) : history[m].digest \in tried
          /\ OnePerDigest(stored)
      BY DEF EchoInv, OnePerDigest
    <3>2. \A k \in 1 .. Len(history') : history'[k].digest \in tried'
      BY <2>4, <2>5, <3>1
    <3>3. OnePerDigest(history)'
      BY <2>5, <3>2 DEF OnePerDigest
    <3> QED
      BY <2>4, <3>1, <3>3, <1>2 DEF OnePerDigest
  <2> DEFINE Row == [digest : Digests, time : Nat, how : {"whole", "late"}, thread : Nat]
             Same == \A i \in 1 .. Len(shown) : i \in 1 .. Len(shown') /\ shown'[i] = shown[i]
  <2>s. shown \in Seq(Row) /\ Len(shown) \in Nat /\ \A i \in 1 .. Len(shown) : shown[i].time \in Nat
    BY ShownFacts DEF EchoInv, EchoTypes
  <2>8. ASSUME NEW i \in 1 .. Len(shown), Same, Knows(history, i)
        PROVE  Knows(history, i)'
    <3>1. PICK m \in 1 .. Len(history) :
             history[m].digest = shown[i].digest /\ history[m].time >= shown[i].time
      BY <2>8 DEF Knows
    <3>2. PICK k \in 1 .. Len(history') :
             history'[k].digest = history[m].digest /\ history'[k].time >= history[m].time
      BY <2>5
    <3>3. history'[k].time \in Nat /\ history[m].time \in Nat
      BY <2>1, <2>5, PrintFacts
    <3>4. shown[i].time \in Nat
      BY ONLY <2>s, i \in 1 .. Len(shown)
    <3>5. \A a, b, c \in Nat : a >= b /\ b >= c => a >= c
      OBVIOUS
    <3>6. history'[k].time >= shown[i].time
      BY ONLY <3>1, <3>2, <3>3, <3>4, <3>5, Zenon
    <3> QED
      BY <3>1, <3>2, <3>6, <2>8 DEF Knows
  <2>9. ASSUME NEW i \in 1 .. Len(shown), Same, Knows(stored, i)
        PROVE  Knows(stored, i)'
    BY <2>9, <1>2 DEF Knows
  <2>10. CASE UNCHANGED shown
    <3>1. pending' \subseteq Nat
      BY <1>1, <1>2, <1>4 DEF EchoInv, EchoTypes
    <3>2. EchoTypes' /\ Threads'
      BY <3>1, <1>2, <2>5, <2>6, <2>10 DEF EchoInv, EchoTypes, Threads
    <3>3. Remembered'
      BY <2>6, <2>8, <2>9, <2>10, <1>2 DEF EchoInv, Remembered
    <3>4. SpacedOut'
      BY <2>6, <2>10, <1>2 DEF EchoInv, SpacedOut
    <3> QED
      BY <3>2, <3>3, <3>4, <2>7 DEF EchoInv
  <2>11. CASE shown' = Append(shown, Messages!Shown(d, time, "whole")) /\ UNCHANGED pending
    <3> DEFINE new == Messages!Shown(d, time, "whole")
    <3>1. /\ new \in Row /\ new.digest = d /\ new.time = time /\ new.how = "whole"
          /\ new.thread = eThread
      BY <2>1, <1>2 DEF Messages!Shown
    <3> HIDE DEF new
    <3>2. /\ shown' \in Seq(Row) /\ Len(shown') = Len(shown) + 1 /\ shown'[Len(shown')] = new
          /\ Same
          /\ \A i \in 1 .. Len(shown') : i = Len(shown') \/ i \in 1 .. Len(shown)
      BY <2>s, <2>11, <3>1 DEF new
    <3>3. EchoTypes' /\ Threads'
      <4>3. shown' \in Seq(Row)
        BY <3>2
      <4>4. history' \in Seq(Prints)
        BY <2>5
      <4>5. /\ running' \in BOOLEAN /\ now' \in Nat /\ eThread' \in Nat
            /\ stored' \in Seq(Prints) /\ pending' \subseteq Nat /\ text' \in Seq(Lines)
        BY <1>2, <2>11 DEF EchoInv, EchoTypes
      <4>6. tried' \subseteq Digests /\ IsFiniteSet(tried')
        BY <2>6
      <4>1. EchoTypes'
        BY ONLY <4>3, <4>4, <4>5, <4>6, Zenon DEF EchoTypes, Row
      <4>2. \A i \in 1 .. Len(shown') : shown'[i].thread <= eThread
        <5>1. eThread <= eThread /\ \A i \in 1 .. Len(shown) : shown[i].thread <= eThread
          BY <1>2 DEF EchoInv, Threads
        <5> QED
          BY <3>1, <3>2, <5>1, Zenon DEF Same
      <4> QED
        BY <4>1, <4>2, <1>2 DEF EchoInv, Threads
    <3>4. Remembered'
      <4> SUFFICES ASSUME Cardinality(tried') <= MaxHistory, NEW i \in 1 .. Len(shown'),
                          shown'[i].how = "whole" /\ shown'[i].thread \notin lost'
                   PROVE  /\ Knows(history, i)'
                          /\ shown'[i].thread = eThread' \/ Knows(stored, i)'
        BY <1>2 DEF Remembered
      <4>1. CASE i = Len(shown')
        <5>1. PICK k \in 1 .. Len(history') : history'[k].digest = d /\ history'[k].time = time
          BY <2>5
        <5>2. Knows(history, i)'
          BY <5>1, <4>1, <3>1, <3>2, <1>2 DEF Knows
        <5> QED
          BY <5>2, <4>1, <3>1, <3>2, <1>2
      <4>2. CASE i \in 1 .. Len(shown)
        BY <4>2, <2>6, <2>8, <2>9, <3>2, <1>2 DEF EchoInv, Remembered
      <4> QED
        BY <4>1, <4>2, <3>2
    <3>5. SpacedOut'
      <4> SUFFICES ASSUME Cardinality(tried') <= MaxHistory, NEW j \in 1 .. Len(shown'),
                          NEW i \in 1 .. j - 1,
                          /\ shown'[i].how = "whole" /\ shown'[j].how = "whole"
                          /\ shown'[i].digest = shown'[j].digest
                          /\ shown'[i].thread = shown'[j].thread \/ shown'[i].thread \notin lost'
                   PROVE  shown'[j].time >= shown'[i].time + Mute
        BY DEF SpacedOut
      <4>1. i \in 1 .. Len(shown) /\ shown'[i] = shown[i]
        <5>1. Len(shown) \in Nat /\ Len(shown') = Len(shown) + 1
          BY <2>s, <3>2
        <5>2. i \in 1 .. Len(shown)
          BY <5>1
        <5> QED
          BY <5>2, <3>2
      <4>2. CASE j = Len(shown')
        <5>1. eThread \notin lost
          BY <1>2 DEF EchoInv, Threads
        <5>2. Knows(history, i)
          BY <4>1, <4>2, <5>1, <2>6, <3>1, <3>2, <1>2 DEF EchoInv, Remembered
        <5>3. PICK k \in 1 .. Len(history) :
                 history[k].digest = shown[i].digest /\ history[k].time >= shown[i].time
          BY <5>2 DEF Knows
        <5>4. history[k].time \in Nat /\ history[k].time + Mute <= time
          BY <5>3, <4>1, <4>2, <3>1, <3>2, <2>2
        <5>5. shown[i].time \in Nat /\ shown'[j].time = time
          BY <4>1, <4>2, <3>1, <3>2, <2>s
        <5>6. shown'[i] = shown[i] /\ Mute \in Nat /\ time \in Nat
          BY <4>1, <2>1, <1>2
        <5>7. \A a, b, c, d1 \in Nat : a >= b /\ a + c <= d1 => d1 >= b + c
          OBVIOUS
        <5> QED
          BY ONLY <5>3, <5>4, <5>5, <5>6, <5>7
      <4>3. CASE j \in 1 .. Len(shown)
        BY <4>1, <4>3, <2>6, <3>2, <1>2 DEF EchoInv, SpacedOut
      <4> QED
        BY <4>2, <4>3, <3>2
    <3> QED
      BY <3>3, <3>4, <3>5, <2>7 DEF EchoInv
  <2> QED
    BY <2>10, <2>11, <1>1, <1>4 DEF d
<1> QED
  BY <1>3, <1>4

\* A thread that ends regularly leaves what it knows in the registry; nothing is written
\* only where nothing is known.
LEMMA CleanupRemembers ==
    ASSUME EchoInv, Messages!Cleanup
    PROVE  EchoInv'
<1>1. /\ running /\ running' = FALSE /\ history' = <<>> /\ text' = <<>> /\ stored' = Messages!Persisted
      /\ UNCHANGED <<pending, shown, eThread, lost, now, tried>>
  BY DEF Messages!Cleanup, EchoInv, EchoTypes
<1>2. /\ history \in Seq(Prints) /\ Len(history) \in Nat /\ stored \in Seq(Prints)
      /\ IsFiniteSet(tried) /\ MaxHistory \in Nat /\ Cardinality(tried) \in Nat
  BY PrintFacts, FS_CardinalityType, DesktopAssumption, Zenon DEF EchoInv, EchoTypes, DesktopAssumption
<1>3. \/ stored' = stored /\ history = <<>>
      \/ \E n \in 0 .. Len(history) :
            /\ stored' = SubSeq(history, 1, n)
            /\ Len(history) <= MaxHistory => n = Len(history)
  <2>1. CASE history = <<>>
    BY <1>1, <2>1 DEF Messages!Persisted
  <2>2. CASE history # <<>>
    <3> DEFINE n == IF Len(history) < MaxHistory THEN Len(history) ELSE MaxHistory
    <3>1. n \in 0 .. Len(history) /\ (Len(history) <= MaxHistory => n = Len(history))
      BY <1>2
    <3>2. stored' = SubSeq(history, 1, n)
      BY <1>1, <2>2 DEF Messages!Persisted
    <3> QED
      BY <3>1, <3>2
  <2> QED
    BY <2>1, <2>2
<1>4. CASE stored' = stored /\ history = <<>>
  <2>1. \A i \in 1 .. Len(shown) : ~Knows(history, i)
    BY <1>4 DEF Knows
  <2>2. Remembered'
    BY <2>1, <1>1, <1>4 DEF EchoInv, Remembered
  <2>3. EchoTypes' /\ Threads' /\ OnePerDigest(history)' /\ OnePerDigest(stored)'
    <3>1. <<>> \in Seq(Prints) /\ <<>> \in Seq(Lines)
      OBVIOUS
    <3> QED
      BY <3>1, <1>1, <1>4 DEF EchoInv, EchoTypes, Threads, OnePerDigest
  <2>4. SpacedOut'
    BY <1>1 DEF EchoInv, SpacedOut
  <2> QED
    BY <2>2, <2>3, <2>4 DEF EchoInv
<1>5. ASSUME NEW n \in 0 .. Len(history), stored' = SubSeq(history, 1, n),
             Len(history) <= MaxHistory => n = Len(history)
      PROVE  EchoInv'
  <2>1. /\ stored' \in Seq(Prints) /\ Len(stored') = n
        /\ \A k \in 1 .. n : stored'[k] = history[k] /\ k \in 1 .. Len(history)
    BY <1>2, <1>5
  <2>2. EchoTypes' /\ Threads'
    <3>1. <<>> \in Seq(Prints) /\ <<>> \in Seq(Lines)
      OBVIOUS
    <3> QED
      BY <3>1, <1>1, <2>1 DEF EchoInv, EchoTypes, Threads
  <2>3. OnePerDigest(history)' /\ OnePerDigest(stored)'
    BY <1>1, <2>1 DEF EchoInv, OnePerDigest
  <2>4. Remembered'
    <3> SUFFICES ASSUME Cardinality(tried) <= MaxHistory, NEW i \in 1 .. Len(shown),
                        shown[i].how = "whole", shown[i].thread \notin lost
                 PROVE  Knows(stored, i)'
      BY <1>1 DEF Remembered
    <3>1. Len(history) <= Cardinality(tried)
      BY <1>2, HistoryFits DEF EchoInv
    <3>2. n = Len(history)
      BY <3>1, <1>2, <1>5
    <3>3. Knows(history, i)
      BY <1>1 DEF EchoInv, Remembered
    <3> QED
      BY <3>2, <3>3, <2>1, <1>1 DEF Knows
  <2>5. SpacedOut'
    BY <1>1 DEF EchoInv, SpacedOut
  <2> QED
    BY <2>2, <2>3, <2>4, <2>5 DEF EchoInv
<1> QED
  BY <1>3, <1>4, <1>5

\* A thread that ends otherwise is excused: what the others have shown is in the registry.
LEMMA EndRemembers ==
    ASSUME EchoInv, Messages!EndsUnsaved
    PROVE  EchoInv'
<1>1. /\ running /\ running' = FALSE /\ history' = <<>> /\ text' = <<>> /\ lost' = lost \cup {eThread}
      /\ UNCHANGED <<stored, pending, shown, eThread, now, tried>>
  BY DEF Messages!EndsUnsaved, EchoInv, EchoTypes
<1>2. EchoTypes' /\ Threads' /\ OnePerDigest(history)' /\ OnePerDigest(stored)'
  <2>1. <<>> \in Seq(Prints) /\ <<>> \in Seq(Lines)
    OBVIOUS
  <2>2. EchoTypes'
    BY <1>1, <2>1 DEF EchoInv, EchoTypes
  <2>3. Threads'
    BY <1>1 DEF EchoInv, EchoTypes, Threads
  <2>4. OnePerDigest(history)' /\ OnePerDigest(stored)'
    BY <1>1 DEF EchoInv, OnePerDigest
  <2> QED
    BY <2>2, <2>3, <2>4
<1>3. Remembered'
  BY <1>1 DEF EchoInv, Remembered, Knows
<1>4. SpacedOut'
  BY <1>1 DEF EchoInv, SpacedOut
<1> QED
  BY <1>2, <1>3, <1>4 DEF EchoInv

\* A late window shows something, but not a whole message.
LEMMA LateRemembers ==
    ASSUME EchoInv, Messages!LateDisplay
    PROVE  EchoInv'
<1> DEFINE Row == [digest : Digests, time : Nat, how : {"whole", "late"}, thread : Nat]
<1>1. PICK time \in pending : /\ pending' = pending \ {time}
                              /\ shown' = Append(shown, Messages!Shown(text, time, "late"))
  BY DEF Messages!LateDisplay
<1>2. /\ UNCHANGED <<running, text, history, stored, eThread, lost, now, tried>>
      /\ time \in Nat /\ eThread \in Nat /\ text \in Seq(Lines \cup Titles)
  <2>1. text \in Seq(Lines) /\ pending \subseteq Nat /\ eThread \in Nat
    BY DEF EchoInv, EchoTypes
  <2>2. text \in Seq(Lines \cup Titles)
    BY <2>1
  <2> QED
    BY <2>1, <2>2, <1>1 DEF Messages!LateDisplay
<1> DEFINE new == Messages!Shown(text, time, "late")
<1>3. new \in Row /\ new.how = "late" /\ new.thread = eThread
  BY <1>2 DEF Messages!Shown, Digests
<1> HIDE DEF new
<1>4. shown \in Seq(Row)
  BY DEF EchoInv, EchoTypes
<1>5. /\ shown' \in Seq(Row) /\ Len(shown') = Len(shown) + 1 /\ shown'[Len(shown')] = new
      /\ \A i \in 1 .. Len(shown) : i \in 1 .. Len(shown') /\ shown'[i] = shown[i]
      /\ \A i \in 1 .. Len(shown') : i = Len(shown') \/ i \in 1 .. Len(shown)
      /\ \A j \in 1 .. Len(shown) : \A i \in 1 .. j - 1 : i \in 1 .. Len(shown)
  BY <1>1, <1>3, <1>4 DEF new
<1>6. EchoTypes'
  BY <1>1, <1>2, <1>5 DEF EchoInv, EchoTypes
<1>7. Threads'
  BY <1>2, <1>3, <1>5 DEF EchoInv, Threads
<1>8. OnePerDigest(history)' /\ OnePerDigest(stored)'
  BY <1>2 DEF EchoInv, OnePerDigest
<1>9. Remembered'
  <2>1. \A i \in 1 .. Len(shown') : shown'[i].how = "whole" => i \in 1 .. Len(shown)
    BY <1>3, <1>5
  <2>2. ASSUME NEW i \in 1 .. Len(shown)
        PROVE  /\ Knows(history, i) => Knows(history, i)'
               /\ Knows(stored, i) => Knows(stored, i)'
    BY <1>2, <1>5 DEF Knows
  <2> QED
    BY <2>1, <2>2, <1>2, <1>5 DEF EchoInv, Remembered
<1>10. SpacedOut'
  <2>1. \A i \in 1 .. Len(shown') : shown'[i].how = "whole" => i \in 1 .. Len(shown)
    BY <1>3, <1>5
  <2> QED
    BY <2>1, <1>2, <1>5 DEF EchoInv, SpacedOut
<1> QED
  BY <1>6, <1>7, <1>8, <1>9, <1>10 DEF EchoInv

\* Every step of the messages keeps their invariant.
LEMMA EchoStep ==
    ASSUME EchoInv, Messages!Next \/ UNCHANGED echoVars
    PROVE  EchoInv'
<1> USE DEF EchoInv, EchoTypes
<1>1. CASE UNCHANGED echoVars
  BY <1>1, EchoSame DEF echoVars
<1>2. CASE Messages!MsgAppend
  <2>1. text' \in Seq(Lines)
    BY <1>2 DEF Messages!MsgAppend
  <2> QED
    BY <1>2, <2>1, EchoSame DEF Messages!MsgAppend
<1>3. CASE Messages!Reconnecting
  <2>1. <<>> \in Seq(Lines)
    OBVIOUS
  <2> QED
    BY <1>3, <2>1, EchoSame DEF Messages!Reconnecting
<1>4. CASE Messages!Tick
  BY <1>4, EchoSame DEF Messages!Tick
<1> QED
  BY <1>1, <1>2, <1>3, <1>4, StartRemembers, DisplayRemembers, CleanupRemembers, EndRemembers,
     LateRemembers DEF Messages!Next

\* EchoInv holds of every state.
LEMMA EchoKept == Spec => []EchoInv
<1>1. Init => EchoInv
  <2> SUFFICES ASSUME Messages!Init
               PROVE  EchoInv
    BY DEF Init
  <2>1. /\ <<>> \in Seq(Prints) /\ <<>> \in Seq(Lines)
        /\ <<>> \in Seq([digest : Digests, time : Nat, how : {"whole", "late"}, thread : Nat])
    OBVIOUS
  <2>2. EchoTypes
    BY <2>1, FS_EmptySet DEF Messages!Init, EchoTypes
  <2>3. Threads /\ OnePerDigest(history) /\ OnePerDigest(stored)
    BY DEF Messages!Init, Threads, OnePerDigest
  <2>4. Remembered /\ SpacedOut
    BY DEF Messages!Init, Remembered, SpacedOut
  <2> QED
    BY <2>2, <2>3, <2>4 DEF EchoInv
<1>2. EchoInv /\ [Next]_vars => EchoInv'
  <2>1. [Next]_vars => Messages!Next \/ UNCHANGED echoVars
    BY DEF Next, vars, PlapStep, ObjectsStep, MenusStep, StartingStep, TokensStep, MessagesStep,
           EnvStep, ProxiesStep, ImportsStep, ReaderStep
  <2> QED
    BY <2>1, EchoStep
<1> QED
  BY <1>1, <1>2, PTL DEF Spec

\* A message that was shown is not shown again within the mute interval, however often the
\* daemon repeats it and threads end and start (echo_msg_repeated, echo_msg_persist).
THEOREM ShownOnce == Spec => []NotTwice
<1>1. EchoInv => NotTwice
  <2>1. EchoInv => DOMAIN shown = 1 .. Len(shown)
    BY DEF EchoInv, EchoTypes
  <2> QED
    BY <2>1, EchoCardinality DEF NotTwice, Messages!NotTwice, EchoInv, SpacedOut
<1> QED
  BY <1>1, EchoKept, PTL

-----------------------------------------------------------------------------
(* Pkcs11 *)

TokenEntries == {"empty", "freed", "undefined", "cert"} \X Nat \X Nat
Rows == [at : Nat, entry : TokenEntries]
CertLists == [getCount : BOOLEAN, getEntry : BOOLEAN, filled : BOOLEAN, picked : BOOLEAN,
              selected : Nat, count : Nat, pe : Seq(TokenEntries)]
CertDialogs == [open : BOOLEAN, timer : BOOLEAN, ready : BOOLEAN, retry : BOOLEAN, rows : Seq(Rows),
                settled : BOOLEAN, result : {"none", "ok", "cancel", "state"}, chosen : TokenEntries]
CertRequests == {"count", "get"} \X Nat

CertTypes ==
    /\ token \in Tokens!Tokens
    /\ question \in Nat /\ asks \in Nat
    /\ requests \in Seq(CertRequests)
    /\ certs \in CertLists
    /\ dialogs \in Seq(CertDialogs)
    /\ answers \in Seq(TokenEntries \X TokenEntries \X BOOLEAN)

\* Only the innermost dialog can be open or have its answer still to give, and while none is
\* asked for, none is open; a dialog whose timer runs has no rows.
OneOpen ==
    /\ \A k \in 1 .. Len(dialogs) :
          /\ dialogs[k].open => dialogs[k].result = "none" /\ question # 0
          /\ k > 1 => ~dialogs[k].open /\ dialogs[k].result # "ok"
          /\ dialogs[k].timer => dialogs[k].rows = <<>>

\* Rows inserted when no answer was to come are those of a list that nothing changes any more.
RowsAreTrue ==
    dialogs # <<>> /\ dialogs[1].open /\ dialogs[1].settled /\ dialogs[1].rows # <<>> =>
        /\ certs.filled /\ requests = <<>>
        /\ \A i \in 1 .. Len(dialogs[1].rows) :
              dialogs[1].rows[i].entry = Tokens!EntryAt(dialogs[1].rows[i].at)

\* From the press of OK until the dialog returns nothing changes the list either.
PickIsTrue ==
    dialogs # <<>> /\ dialogs[1].result = "ok" /\ dialogs[1].settled =>
        dialogs[1].chosen = Tokens!EntryAt(certs.selected)

CertInv == CertTypes /\ OneOpen /\ RowsAreTrue /\ PickIsTrue /\ Tokens!AnswerIsChosen

\* An entry read at any index is an entry of a token.
LEMMA EntriesTyped ==
    ASSUME CertTypes
    PROVE  \A i \in Nat : Tokens!EntryAt(i) \in TokenEntries
<1> SUFFICES ASSUME NEW i \in Nat
             PROVE  Tokens!EntryAt(i) \in TokenEntries
  OBVIOUS
<1>1. certs.pe \in Seq(TokenEntries)
  BY DEF CertTypes, CertLists
<1>2. Tokens!Undefined \in TokenEntries
  BY DEF Tokens!Undefined, TokenEntries
<1> QED
  BY <1>1, <1>2 DEF Tokens!EntryAt

\* OnPkcs11 keeps the invariant.
LEMMA AskStep ==
    ASSUME CertInv, Tokens!OnPkcs11
    PROVE  CertInv'
<1> DEFINE d == Tokens!NewDialog
<1>1. d \in CertDialogs
  <2>1. <<>> \in Seq(Rows)
    OBVIOUS
  <2> QED
    BY <2>1 DEF Tokens!NewDialog, CertDialogs, Tokens!Empty, TokenEntries
<1>2. d.open /\ d.rows = <<>> /\ d.result = "none"
  BY DEF Tokens!NewDialog
<1> HIDE DEF d
<1>3. /\ dialogs' = <<d>> \o dialogs /\ question' = asks' /\ asks' = asks + 1
      /\ question = 0 /\ Tokens!Reading
      /\ certs' = [Tokens!Cleared EXCEPT !.selected = Tokens!Nobody]
      /\ UNCHANGED <<token, requests, answers>>
  BY DEF Tokens!OnPkcs11, d
<1>4. certs' \in CertLists
  <2>1. <<>> \in Seq(TokenEntries)
    OBVIOUS
  <2> QED
    BY <1>3, <2>1, DesktopAssumption, Zenon
       DEF Tokens!Cleared, Tokens!Nobody, CertLists, DesktopAssumption
<1>5. /\ dialogs' \in Seq(CertDialogs) /\ Len(dialogs') = Len(dialogs) + 1 /\ dialogs'[1] = d
      /\ \A k \in 2 .. Len(dialogs) + 1 : dialogs'[k] = dialogs[k - 1]
  BY <1>1, <1>3 DEF CertInv, CertTypes
<1>6. CertTypes'
  BY <1>3, <1>4, <1>5 DEF CertInv, CertTypes
<1>7. question' # 0
  BY <1>3 DEF CertInv, CertTypes
<1>8. \A k \in 1 .. Len(dialogs) : ~dialogs[k].open /\ dialogs[k].result # "ok"
  <2>1. DOMAIN dialogs = 1 .. Len(dialogs)
    BY DEF CertInv, CertTypes
  <2> QED
    BY <1>3, <2>1 DEF CertInv, OneOpen, CertTypes, Tokens!Reading, CertDialogs
<1>9. OneOpen'
  <2> SUFFICES ASSUME NEW k \in 1 .. Len(dialogs) + 1
               PROVE  /\ dialogs'[k].open => dialogs'[k].result = "none"
                      /\ k > 1 => ~dialogs'[k].open /\ dialogs'[k].result # "ok"
                      /\ dialogs'[k].timer => dialogs'[k].rows = <<>>
    BY <1>5, <1>7 DEF OneOpen
  <2>1. CASE k = 1
    BY <1>2, <1>5, <2>1
  <2>2. CASE k > 1
    <3>1. k - 1 \in 1 .. Len(dialogs) /\ dialogs'[k] = dialogs[k - 1]
      BY <1>5, <2>2 DEF CertInv, CertTypes
    <3> QED
      BY <1>8, <3>1 DEF CertInv, OneOpen
  <2> QED
    BY <2>1, <2>2
<1> QED
  BY <1>2, <1>3, <1>5, <1>6, <1>9 DEF CertInv, RowsAreTrue, PickIsTrue, Tokens!AnswerIsChosen

\* The return of a certificate dialog keeps the invariant.
LEMMA ReturnStep ==
    ASSUME CertInv, Tokens!DialogReturns
    PROVE  CertInv'
<1>1. dialogs \in Seq(CertDialogs) /\ dialogs # <<>> /\ Head(dialogs) = dialogs[1]
  BY DEF CertInv, CertTypes, Tokens!DialogReturns
<1>2. /\ dialogs' = Tail(dialogs) /\ ~dialogs[1].open
      /\ UNCHANGED <<token, requests, certs, asks>>
  BY <1>1 DEF Tokens!DialogReturns
<1>3. /\ dialogs' \in Seq(CertDialogs) /\ Len(dialogs') = Len(dialogs) - 1
      /\ \A k \in 1 .. Len(dialogs) - 1 : dialogs'[k] = dialogs[k + 1]
  BY <1>1, <1>2
<1>4. ASSUME NEW k \in 1 .. Len(dialogs')
      PROVE  /\ ~dialogs'[k].open /\ dialogs'[k].result # "ok"
             /\ dialogs'[k].timer => dialogs'[k].rows = <<>>
  <2>1. k + 1 \in 1 .. Len(dialogs) /\ k + 1 > 1 /\ dialogs'[k] = dialogs[k + 1]
    BY <1>1, <1>3
  <2> QED
    BY <2>1 DEF CertInv, OneOpen
<1>5. OneOpen'
  BY <1>4 DEF OneOpen
<1>6. RowsAreTrue' /\ PickIsTrue'
  <2>1. dialogs' # <<>> => 1 \in 1 .. Len(dialogs')
    BY <1>3
  <2> QED
    BY <1>4, <2>1 DEF RowsAreTrue, PickIsTrue
<1>7. CASE UNCHANGED <<answers, question>>
  BY <1>2, <1>3, <1>5, <1>6, <1>7 DEF CertInv, CertTypes, Tokens!AnswerIsChosen
<1>8. CASE ~UNCHANGED <<answers, question>>
  <2> DEFINE e == Tokens!EntryAt(certs.selected)
             t == <<e, dialogs[1].chosen, dialogs[1].settled>>
  <2>1. /\ dialogs[1].result = "ok" /\ question' = 0 /\ answers' = Append(answers, t)
    BY <1>1, <1>8 DEF Tokens!DialogReturns
  <2>2. e \in TokenEntries
    BY EntriesTyped DEF CertInv, CertTypes, CertLists
  <2>3. dialogs[1].settled => dialogs[1].chosen = e
    BY <1>1, <2>1 DEF CertInv, PickIsTrue
  <2>4. dialogs[1].chosen \in TokenEntries /\ dialogs[1].settled \in BOOLEAN
    <3>1. dialogs[1] \in CertDialogs
      BY <1>1
    <3> QED
      BY <3>1 DEF CertDialogs
  <2> HIDE DEF e
  <2>5. t \in TokenEntries \X TokenEntries \X BOOLEAN /\ (t[3] => t[1] = t[2])
    BY <2>2, <2>3, <2>4
  <2> HIDE DEF t
  <2>6. answers' \in Seq(TokenEntries \X TokenEntries \X BOOLEAN)
    BY <2>1, <2>5 DEF CertInv, CertTypes
  <2>7. ASSUME NEW j \in DOMAIN answers'
        PROVE  (j \in DOMAIN answers /\ answers'[j] = answers[j]) \/ answers'[j] = t
    BY <2>1 DEF CertInv, CertTypes
  <2>8. Tokens!AnswerIsChosen'
    BY <2>5, <2>7 DEF CertInv, Tokens!AnswerIsChosen
  <2> QED
    BY <1>2, <1>3, <1>5, <1>6, <2>1, <2>6, <2>8 DEF CertInv, CertTypes
<1> QED
  BY <1>7, <1>8


\* A list of count entries, in the order of their indices.
LEMMA ListsTyped ==
    ASSUME CertTypes
    PROVE  /\ Tokens!RowsOfList \in Seq(Rows)
           /\ Len(Tokens!RowsOfList) = certs.count
           /\ \A i \in 1 .. certs.count :
                 Tokens!RowsOfList[i].entry = Tokens!EntryAt(Tokens!RowsOfList[i].at)
           /\ [i \in 1 .. certs.count |-> Tokens!Get(i - 1)] \in Seq(CertRequests)
           /\ [i \in 1 .. certs.count |-> Tokens!Empty] \in Seq(TokenEntries)
<1>1. certs.count \in Nat
  BY DEF CertTypes, CertLists
<1>2. Tokens!Empty \in TokenEntries
  BY DEF Tokens!Empty, TokenEntries
<1>3. [i \in 1 .. certs.count |-> Tokens!Empty] \in Seq(TokenEntries)
  BY <1>1, <1>2
<1>4. [i \in 1 .. certs.count |-> Tokens!Get(i - 1)] \in Seq(CertRequests)
  <2>1. \A i \in 1 .. certs.count : Tokens!Get(i - 1) \in CertRequests
    BY <1>1 DEF Tokens!Get, CertRequests
  <2> QED
    BY <1>1, <2>1
<1>5. \A i \in 1 .. certs.count :
         /\ i - 1 \in Nat
         /\ [at |-> i - 1, entry |-> Tokens!EntryAt(i - 1)] \in Rows
  <2>1. \A i \in 1 .. certs.count : i - 1 \in Nat
    BY <1>1
  <2> QED
    BY <2>1, EntriesTyped DEF Rows
<1>6. Tokens!RowsOfList \in Seq(Rows) /\ Len(Tokens!RowsOfList) = certs.count
  BY <1>1, <1>5 DEF Tokens!RowsOfList
<1>7. \A i \in 1 .. certs.count :
         Tokens!RowsOfList[i] = [at |-> i - 1, entry |-> Tokens!EntryAt(i - 1)]
  BY DEF Tokens!RowsOfList
<1>8. \A i \in 1 .. certs.count :
         Tokens!RowsOfList[i].entry = Tokens!EntryAt(Tokens!RowsOfList[i].at)
  <2> TAKE i \in 1 .. certs.count
  <2>1. Tokens!RowsOfList[i] = [at |-> i - 1, entry |-> Tokens!EntryAt(i - 1)]
    BY <1>7, Zenon
  <2>2. Tokens!RowsOfList[i].at = i - 1 /\ Tokens!RowsOfList[i].entry = Tokens!EntryAt(i - 1)
    BY <2>1
  <2> QED
    BY <2>2, Zenon
<1> QED
  BY <1>3, <1>4, <1>6, <1>8, Zenon

\* A dialog on the screen is the innermost one and changes; the others stay.
LEMMA SetDialogEffect ==
    ASSUME CertTypes, NEW k \in 1 .. Len(dialogs), NEW d \in CertDialogs, Tokens!SetDialog(k, d)
    PROVE  /\ dialogs' \in Seq(CertDialogs) /\ Len(dialogs') = Len(dialogs) /\ dialogs'[k] = d
           /\ \A j \in 1 .. Len(dialogs) : j # k => dialogs'[j] = dialogs[j]
BY DEF CertTypes, Tokens!SetDialog

\* Filling the list of a dialog keeps the invariant.
LEMMA FillStep ==
    ASSUME CertInv, NEW k \in 1 .. Len(dialogs), Tokens!ListViewFill(k)
    PROVE  CertInv'
<1>1. dialogs \in Seq(CertDialogs) /\ dialogs # <<>> /\ Head(dialogs) = dialogs[1]
  BY DEF CertInv, CertTypes
<1>2. /\ dialogs[k].timer /\ dialogs[1].open /\ UNCHANGED <<token, question, answers, asks>>
      /\ dialogs[1].result = "none" /\ dialogs[k].rows = <<>>
  BY <1>1 DEF Tokens!ListViewFill, CertInv, OneOpen
<1>3. Tokens!AnswerIsChosen'
  BY <1>2 DEF CertInv, Tokens!AnswerIsChosen
<1>4. CASE ~certs.filled
  <2>1. Tokens!ListUpdate /\ UNCHANGED dialogs
    BY <1>4 DEF Tokens!ListViewFill
  <2>2. certs' \in CertLists /\ requests' \in Seq(CertRequests)
    <3>1. CASE UNCHANGED <<requests, certs>>
      BY <3>1 DEF CertInv, CertTypes
    <3>2. ASSUME /\ requests' = Append(requests, <<"count", 0>>)
                 /\ certs' = [certs EXCEPT !.getCount = TRUE]
          PROVE  certs' \in CertLists /\ requests' \in Seq(CertRequests)
      <4>1. <<"count", 0>> \in CertRequests
        BY DEF CertRequests
      <4>2. certs' \in CertLists
        BY <3>2 DEF CertInv, CertTypes, CertLists
      <4> QED
        BY <3>2, <4>1, <4>2 DEF CertInv, CertTypes
    <3>3. ASSUME /\ requests' = requests \o [i \in 1 .. certs.count |-> Tokens!Get(i - 1)]
                 /\ certs' = [certs EXCEPT !.getEntry = TRUE,
                                !.pe = IF @ = <<>>
                                       THEN [i \in 1 .. certs.count |-> Tokens!Empty] ELSE @]
          PROVE  certs' \in CertLists /\ requests' \in Seq(CertRequests)
      <4>1. requests' \in Seq(CertRequests)
        BY <3>3, ListsTyped DEF CertInv, CertTypes
      <4> DEFINE es1 == [i \in 1 .. certs.count |-> Tokens!Empty]
      <4>2. es1 \in Seq(TokenEntries)
        BY ListsTyped DEF CertInv
      <4> HIDE DEF es1
      <4>3. certs' = [certs EXCEPT !.getEntry = TRUE, !.pe = IF @ = <<>> THEN es1 ELSE @]
        BY <3>3 DEF es1
      <4>4. certs' \in CertLists
        BY <4>2, <4>3 DEF CertInv, CertTypes, CertLists
      <4> QED
        BY <4>1, <4>4
    <3> QED
      BY <2>1, <3>1, <3>2, <3>3 DEF Tokens!ListUpdate
  <2>3. CertTypes' /\ OneOpen'
    BY <1>2, <2>1, <2>2 DEF CertInv, CertTypes, OneOpen
  <2>4. RowsAreTrue' /\ PickIsTrue'
    BY <1>1, <1>2, <1>4, <2>1 DEF CertInv, RowsAreTrue, PickIsTrue
  <2> QED
    BY <1>3, <2>3, <2>4 DEF CertInv
<1>5. CASE certs.filled
  <2> DEFINE rs == Tokens!RowsOfList \o dialogs[k].rows
             d == [dialogs[k] EXCEPT !.timer = FALSE, !.retry = TRUE, !.ready = certs.count > 0,
                                     !.settled = requests = <<>>,
                                     !.rows = Tokens!RowsOfList \o @]
  <2>1. Tokens!SetDialog(k, d) /\ UNCHANGED <<requests, certs>>
    BY <1>5 DEF Tokens!ListViewFill
  <2>2. rs = Tokens!RowsOfList /\ rs \in Seq(Rows)
    BY <1>2, ListsTyped DEF CertInv
  <2>3. dialogs[k] \in CertDialogs
    BY <1>1
  <2>4. /\ d \in CertDialogs /\ d.rows = rs /\ ~d.timer /\ d.open = dialogs[k].open
        /\ d.result = dialogs[k].result /\ d.settled = (requests = <<>>)
    <3> DEFINE some == certs.count > 0
               none == requests = <<>>
    <3>1. some \in BOOLEAN /\ none \in BOOLEAN
      OBVIOUS
    <3>2. d = [dialogs[k] EXCEPT !.timer = FALSE, !.retry = TRUE, !.ready = some,
                                 !.settled = none, !.rows = rs]
      OBVIOUS
    <3> HIDE DEF rs, some, none, d
    <3>3. /\ d \in CertDialogs /\ d.rows = rs /\ ~d.timer /\ d.open = dialogs[k].open
          /\ d.result = dialogs[k].result /\ d.settled = none
      BY <2>2, <2>3, <3>1, <3>2 DEF CertDialogs
    <3> QED
      BY <3>3 DEF none
  <2> HIDE DEF d, rs
  <2>5. /\ dialogs' \in Seq(CertDialogs) /\ Len(dialogs') = Len(dialogs) /\ dialogs'[k] = d
        /\ \A j \in 1 .. Len(dialogs) : j # k => dialogs'[j] = dialogs[j]
    BY <2>1, <2>4, SetDialogEffect DEF CertInv
  <2>6. CertTypes'
    BY <1>2, <2>1, <2>5 DEF CertInv, CertTypes
  <2>7. OneOpen'
    BY <1>2, <2>4, <2>5 DEF CertInv, OneOpen
  <2>8. dialogs' # <<>> /\ dialogs'[1].result = "none"
    BY <1>1, <1>2, <2>4, <2>5
  <2>9. RowsAreTrue'
    <3>1. CASE k # 1
      <4>1. dialogs'[1] = dialogs[1]
        BY <1>1, <2>5, <3>1
      <4> QED
        BY <1>1, <2>1, <4>1 DEF CertInv, RowsAreTrue, Tokens!EntryAt
    <3>2. CASE k = 1
      <4>1. \A i \in 1 .. Len(rs) : rs[i].entry = Tokens!EntryAt(rs[i].at)
        BY <2>2, ListsTyped DEF CertInv
      <4> QED
        BY <1>5, <2>1, <2>4, <2>5, <3>2, <4>1 DEF RowsAreTrue, Tokens!EntryAt
    <3> QED
      BY <3>1, <3>2
  <2> QED
    BY <1>3, <2>6, <2>7, <2>8, <2>9 DEF CertInv, PickIsTrue
<1> QED
  BY <1>4, <1>5

\* A step that leaves the dialogs, and comes while none of them is being answered.
LEMMA DaemonStep ==
    ASSUME CertInv, Tokens!DaemonAnswers
    PROVE  CertInv'
<1>1. requests # <<>> /\ requests \in Seq(CertRequests) /\ certs \in CertLists
  BY DEF CertInv, CertTypes, Tokens!DaemonAnswers
<1>2. /\ Tokens!Reading /\ requests' = Tail(requests)
      /\ UNCHANGED <<token, question, dialogs, answers, asks>>
  BY DEF Tokens!DaemonAnswers
<1>3. Head(requests)[2] \in Nat
  <2>1. Head(requests) \in CertRequests
    BY <1>1
  <2> QED
    BY <2>1 DEF CertRequests
<1>4. token.when \in Nat /\ token.count \in Nat
  <2>1. token.when \in 0 .. MaxChanges /\ token.count \in 0 .. MaxCerts
    BY DEF CertInv, CertTypes, Tokens!Tokens
  <2>2. MaxChanges \in Nat /\ MaxCerts \in Nat
    BY DesktopAssumption, Zenon DEF DesktopAssumption
  <2> QED
    BY <2>1, <2>2
<1>5. certs' \in CertLists
  <2>1. ASSUME Tokens!CountReceived(token.count) \/ Tokens!CountRefused
        PROVE  certs' \in CertLists
    BY <1>1, <1>4, <2>1 DEF Tokens!CountReceived, Tokens!CountRefused, CertLists
  <2>2. ASSUME NEW i \in Nat, Tokens!EntryReceived(i)
        PROVE  certs' \in CertLists
    <3>1. CASE UNCHANGED certs
      BY <1>1, <3>1
    <3>2. ASSUME NEW e \in TokenEntries, i + 1 <= Len(certs.pe)
          PROVE  Tokens!Put(i, e) \in Seq(TokenEntries)
      <4>1. certs.pe \in Seq(TokenEntries)
        BY <1>1 DEF CertLists
      <4>2. i + 1 \in 1 .. Len(certs.pe)
        BY <2>2, <3>2, <4>1
      <4> QED
        BY <4>1, <4>2 DEF Tokens!Put
    <3>3. Tokens!Freed \in TokenEntries /\ Tokens!Cert(token.when, i) \in TokenEntries
      BY <1>4 DEF Tokens!Freed, Tokens!Cert, TokenEntries
    <3>6. CASE ~(i + 1 <= Len(certs.pe))
      <4>1. i + 1 > Len(certs.pe)
        BY <1>1, <3>6 DEF CertLists
      <4> QED
        BY <2>2, <3>1, <4>1 DEF Tokens!EntryReceived
    <3>4. CASE i + 1 <= Len(certs.pe) /\ certs' = [certs EXCEPT !.pe = Tokens!Put(i, Tokens!Freed)]
      BY <1>1, <3>2, <3>3, <3>4 DEF CertLists
    <3>5. CASE /\ i + 1 <= Len(certs.pe)
               /\ certs' = [certs EXCEPT !.pe = Tokens!Put(i, Tokens!Cert(token.when, i)),
                                         !.filled = @ \/ i + 1 = certs.count]
      <4> DEFINE p == Tokens!Put(i, Tokens!Cert(token.when, i))
      <4>1. p \in Seq(TokenEntries)
        BY <3>2, <3>3, <3>5
      <4> HIDE DEF p
      <4>2. certs' = [certs EXCEPT !.pe = p, !.filled = @ \/ i + 1 = certs.count]
        BY <3>5 DEF p
      <4> QED
        BY <1>1, <4>1, <4>2 DEF CertLists
    <3> QED
      BY <2>2, <3>1, <3>4, <3>5, <3>6 DEF Tokens!EntryReceived
  <2> QED
    BY <1>1, <1>3, <2>1, <2>2 DEF Tokens!DaemonAnswers
<1>6. CertTypes' /\ OneOpen'
  BY <1>1, <1>2, <1>5 DEF CertInv, CertTypes, OneOpen
<1>7. RowsAreTrue'
  BY <1>1, <1>2 DEF CertInv, RowsAreTrue
<1>8. PickIsTrue'
  <2>1. dialogs # <<>> => 1 \in DOMAIN dialogs
    BY DEF CertInv, CertTypes
  <2> QED
    BY <1>2, <2>1 DEF PickIsTrue, Tokens!Reading
<1> QED
  BY <1>2, <1>6, <1>7, <1>8 DEF CertInv, Tokens!AnswerIsChosen

\* What the user does in a dialog keeps the invariant.
LEMMA UserStep ==
    ASSUME CertInv, NEW k \in 1 .. Len(dialogs), Tokens!User(k)
    PROVE  CertInv'
<1>1. /\ k = 1 /\ dialogs[1].open /\ dialogs # <<>> /\ dialogs[1] \in CertDialogs
      /\ dialogs[1].result = "none" /\ UNCHANGED <<token, requests, answers>>
  <2>1. k = 1 /\ dialogs[1].open /\ UNCHANGED <<token, requests, answers>>
    BY Zenon DEF Tokens!User, Tokens!Pick, Tokens!Cancel, Tokens!Retry, Tokens!Shown
  <2>2. dialogs # <<>> /\ dialogs[1] \in CertDialogs
    BY <2>1 DEF CertInv, CertTypes
  <2> QED
    BY <2>1, <2>2 DEF CertInv, OneOpen
<1>2. Tokens!AnswerIsChosen'
  BY <1>1 DEF CertInv, Tokens!AnswerIsChosen
<1>3. CASE Tokens!Pick(1)
  <2>1. PICK i \in DOMAIN dialogs[1].rows :
           /\ certs' = [certs EXCEPT !.selected = dialogs[1].rows[i].at, !.picked = TRUE]
           /\ Tokens!SetDialog(1, [Tokens!End(dialogs[1], "ok") EXCEPT
                                      !.chosen = dialogs[1].rows[i].entry])
    BY <1>3, Zenon DEF Tokens!Pick
  <2> DEFINE r == dialogs[1].rows[i]
             d == [Tokens!End(dialogs[1], "ok") EXCEPT !.chosen = r.entry]
  <2>2. r \in Rows /\ i \in 1 .. Len(dialogs[1].rows)
    BY <1>1 DEF CertDialogs
  <2>3. r.at \in Nat /\ r.entry \in TokenEntries
    BY <2>2 DEF Rows
  <2>4. Tokens!SetDialog(1, d) /\ certs' = [certs EXCEPT !.selected = r.at, !.picked = TRUE]
    BY <2>1
  <2>5. dialogs[1].settled => r.entry = Tokens!EntryAt(r.at)
    BY <1>1, <2>2 DEF CertInv, RowsAreTrue, CertDialogs
  <2> HIDE DEF r
  <2>6. /\ d \in CertDialogs /\ ~d.open /\ d.result = "ok" /\ d.chosen = r.entry
        /\ d.settled = dialogs[1].settled /\ d.timer = dialogs[1].timer /\ d.rows = dialogs[1].rows
    BY <1>1, <2>3 DEF Tokens!End, CertDialogs
  <2> HIDE DEF d
  <2>7. certs' \in CertLists /\ certs'.selected = r.at /\ certs'.pe = certs.pe
    BY <2>3, <2>4 DEF CertInv, CertTypes, CertLists
  <2>8. /\ dialogs' \in Seq(CertDialogs) /\ Len(dialogs') = Len(dialogs) /\ dialogs'[1] = d
        /\ \A j \in 1 .. Len(dialogs) : j # 1 => dialogs'[j] = dialogs[j]
    BY <1>1, <2>4, <2>6, SetDialogEffect DEF CertInv
  <2>9. UNCHANGED <<question, asks>>
    BY <1>3 DEF Tokens!Pick
  <2>10. CertTypes'
    BY <1>1, <2>7, <2>8, <2>9 DEF CertInv, CertTypes
  <2>11. OneOpen'
    BY <2>6, <2>8, <2>9 DEF CertInv, OneOpen
  <2>12. RowsAreTrue' /\ PickIsTrue'
    BY <2>5, <2>6, <2>7, <2>8 DEF RowsAreTrue, PickIsTrue, Tokens!EntryAt
  <2> QED
    BY <1>2, <2>10, <2>11, <2>12 DEF CertInv
<1>4. CASE Tokens!Cancel(1)
  <2> DEFINE d == Tokens!End(dialogs[1], "cancel")
  <2>1. /\ d \in CertDialogs /\ ~d.open /\ d.result = "cancel"
        /\ d.timer = dialogs[1].timer /\ d.rows = dialogs[1].rows
    BY <1>1 DEF Tokens!End, CertDialogs
  <2>2. Tokens!SetDialog(1, d) /\ question' = 0 /\ asks' = MaxAsks /\ UNCHANGED certs
    BY <1>4 DEF Tokens!Cancel
  <2> HIDE DEF d
  <2>3. /\ dialogs' \in Seq(CertDialogs) /\ Len(dialogs') = Len(dialogs) /\ dialogs'[1] = d
        /\ \A j \in 1 .. Len(dialogs) : j # 1 => dialogs'[j] = dialogs[j]
    BY <1>1, <2>1, <2>2, SetDialogEffect DEF CertInv
  <2>4. CertTypes'
    BY <1>1, <2>2, <2>3, DesktopAssumption, Zenon DEF CertInv, CertTypes, DesktopAssumption
  <2>5. OneOpen'
    BY <2>1, <2>3 DEF CertInv, OneOpen
  <2>6. RowsAreTrue' /\ PickIsTrue'
    BY <2>1, <2>3 DEF RowsAreTrue, PickIsTrue
  <2> QED
    BY <1>2, <2>4, <2>5, <2>6 DEF CertInv
<1>5. CASE Tokens!Retry(1)
  <2> DEFINE d == [dialogs[1] EXCEPT !.timer = TRUE, !.ready = FALSE, !.retry = FALSE, !.rows = <<>>]
  <2>1. <<>> \in Seq(Rows) /\ <<>> \in Seq(TokenEntries)
    OBVIOUS
  <2>2. d \in CertDialogs /\ d.open /\ d.result = "none" /\ d.rows = <<>>
    BY <1>1, <2>1 DEF CertDialogs
  <2>3. Tokens!SetDialog(1, d) /\ certs' = Tokens!Cleared /\ UNCHANGED <<question, asks>>
    BY <1>5 DEF Tokens!Retry
  <2> HIDE DEF d
  <2>4. /\ dialogs' \in Seq(CertDialogs) /\ Len(dialogs') = Len(dialogs) /\ dialogs'[1] = d
        /\ \A j \in 1 .. Len(dialogs) : j # 1 => dialogs'[j] = dialogs[j]
    BY <1>1, <2>2, <2>3, SetDialogEffect DEF CertInv
  <2>5. certs' \in CertLists
    BY <2>1, <2>3 DEF Tokens!Cleared, CertLists
  <2>6. CertTypes'
    BY <1>1, <2>3, <2>4, <2>5 DEF CertInv, CertTypes
  <2>7. OneOpen'
    BY <1>1, <2>2, <2>3, <2>4 DEF CertInv, OneOpen
  <2>8. RowsAreTrue' /\ PickIsTrue'
    BY <2>2, <2>4 DEF RowsAreTrue, PickIsTrue
  <2> QED
    BY <1>2, <2>6, <2>7, <2>8 DEF CertInv
<1> QED
  BY <1>1, <1>3, <1>4, <1>5 DEF Tokens!User

\* A change of the state of the connection keeps the invariant.
LEMMA StateStep ==
    ASSUME CertInv, Tokens!StateChanges
    PROVE  CertInv'
<1> DEFINE E(d) == IF d.open THEN Tokens!End(d, "state") ELSE d
<1>1. /\ Tokens!Reading /\ question' = 0 /\ UNCHANGED <<token, requests, certs, answers, asks>>
      /\ dialogs' = [k \in DOMAIN dialogs |-> E(dialogs[k])]
  BY DEF Tokens!StateChanges
<1>2. ASSUME NEW d \in CertDialogs
      PROVE  /\ E(d) \in CertDialogs /\ ~E(d).open /\ E(d).timer = d.timer /\ E(d).rows = d.rows
             /\ d.result # "ok" => E(d).result # "ok"
  BY DEF Tokens!End, CertDialogs
<1>3. dialogs \in Seq(CertDialogs) /\ DOMAIN dialogs = 1 .. Len(dialogs)
  BY DEF CertInv, CertTypes
<1> HIDE DEF E
<1>4. /\ dialogs' \in Seq(CertDialogs) /\ Len(dialogs') = Len(dialogs)
      /\ \A k \in 1 .. Len(dialogs) : dialogs'[k] = E(dialogs[k])
  BY <1>1, <1>2, <1>3
<1>5. ASSUME NEW k \in 1 .. Len(dialogs)
      PROVE  /\ ~dialogs'[k].open /\ dialogs'[k].result # "ok"
             /\ dialogs'[k].timer => dialogs'[k].rows = <<>>
  <2>1. dialogs[k].result # "ok" /\ dialogs[k] \in CertDialogs
    BY <1>1, <1>3 DEF Tokens!Reading
  <2> QED
    BY <1>2, <1>4, <2>1 DEF CertInv, OneOpen
<1>6. CertTypes'
  BY <1>1, <1>4 DEF CertInv, CertTypes
<1>7. OneOpen'
  BY <1>4, <1>5 DEF OneOpen
<1>8. dialogs' # <<>> => 1 \in 1 .. Len(dialogs)
  BY <1>4
<1> QED
  BY <1>1, <1>5, <1>6, <1>7, <1>8
  DEF CertInv, RowsAreTrue, PickIsTrue, Tokens!AnswerIsChosen

\* What is sent to the daemon is the id of the certificate the user picked, unless an answer
\* was to come when the rows were inserted, however dialogs nest and tokens change
\* (OnPkcs11, pkcs11_listview_fill).
THEOREM AnswersAreChosen == Spec => []AnswerIsChosen
<1>1. Init => CertInv
  <2> SUFFICES ASSUME Tokens!Init
               PROVE  CertInv
    BY DEF Init
  <2>1. /\ <<>> \in Seq(CertDialogs) /\ <<>> \in Seq(CertRequests) /\ <<>> \in Seq(TokenEntries)
        /\ <<>> \in Seq(TokenEntries \X TokenEntries \X BOOLEAN)
    OBVIOUS
  <2>2. certs \in CertLists
    BY <2>1 DEF Tokens!Init, Tokens!Cleared, CertLists
  <2>3. CertTypes
    BY <2>1, <2>2 DEF Tokens!Init, CertTypes
  <2>4. dialogs = <<>> /\ answers = <<>> /\ 1 .. Len(dialogs) = {}
    BY DEF Tokens!Init
  <2>5. DOMAIN answers = 1 .. 0
    BY <2>3, <2>4 DEF CertTypes
  <2>6. OneOpen /\ RowsAreTrue /\ PickIsTrue
    BY <2>4 DEF OneOpen, RowsAreTrue, PickIsTrue
  <2>7. Tokens!AnswerIsChosen
    BY <2>5 DEF Tokens!AnswerIsChosen
  <2> QED
    BY <2>3, <2>6, <2>7 DEF CertInv
<1>2. CertInv /\ [Next]_vars => CertInv'
  <2> SUFFICES ASSUME CertInv, Tokens!Next \/ UNCHANGED tokenVars
               PROVE  CertInv'
    BY DEF Next, vars, PlapStep, ObjectsStep, MenusStep, StartingStep, TokensStep, MessagesStep,
           EnvStep, ProxiesStep, ImportsStep, ReaderStep
  <2>1. CASE UNCHANGED tokenVars
    BY <2>1 DEF tokenVars, CertInv, CertTypes, OneOpen, RowsAreTrue, PickIsTrue,
                Tokens!AnswerIsChosen, Tokens!EntryAt
  <2>2. CASE Tokens!TokenChanges
    BY <2>2 DEF Tokens!TokenChanges, CertInv, CertTypes, OneOpen, RowsAreTrue, PickIsTrue,
                Tokens!AnswerIsChosen, Tokens!EntryAt
  <2>3. ASSUME NEW k \in DOMAIN dialogs, Tokens!ListViewFill(k) \/ Tokens!User(k)
        PROVE  CertInv'
    <3>1. k \in 1 .. Len(dialogs)
      BY DEF CertInv, CertTypes
    <3> QED
      BY <2>3, <3>1, FillStep, UserStep
  <2> QED
    BY <2>1, <2>2, <2>3, AskStep, ReturnStep, DaemonStep, StateStep DEF Tokens!Next
<1>3. CertInv => AnswerIsChosen
  BY DEF CertInv, AnswerIsChosen
<1> QED
  BY <1>1, <1>2, <1>3, PTL DEF Spec

-----------------------------------------------------------------------------
(* Proxy *)

\* A manual proxy can be used.
Complete(s) == s.source = "manual" => Proxies!FieldOf(s, s.type) \in Usable

Controls == [source : Proxies!Sources, type : Proxies!Types, field : Fields]

\* The settings in force and those stored are complete: the page is only left with a field
\* that can be used, and that field is the one its settings use.
ProxyInv ==
    /\ opts \in Proxies!Settings /\ Complete(opts)
    /\ registry \in Proxies!Settings /\ Complete(registry)
    /\ page = <<>> \/ \E p \in Controls : page = <<p>>
    /\ \E S : told \in Seq(S)
    /\ Proxies!ProxyUsable

\* What applying the page puts into force.
LEMMA AppliedIsComplete ==
    ASSUME ProxyInv, Proxies!Apply
    PROVE  /\ opts' \in Proxies!Settings /\ Complete(opts)'
           /\ registry' \in Proxies!Settings /\ Complete(registry)'
           /\ page' = <<>>
<1>1. PICK p \in Controls : page = <<p>>
  BY DEF ProxyInv, Proxies!Apply
<1>2. page[1] = p
  BY <1>1
<1> DEFINE s == [opts EXCEPT !.source = p.source, !.type = p.type,
                             !.http = IF p.type = "http" THEN p.field ELSE @,
                             !.socks = IF p.type = "socks" THEN p.field ELSE @]
<1>3. opts' = s /\ registry' \in {s, registry} /\ page' = <<>>
  BY <1>2 DEF Proxies!Apply
<1>4. s \in Proxies!Settings
  BY DEF ProxyInv, Proxies!Settings, Controls
<1>5. s.source = p.source /\ s.type = p.type /\ Proxies!FieldOf(s, s.type) = p.field
  BY DEF ProxyInv, Proxies!Settings, Controls, Proxies!Types, Proxies!FieldOf
<1>6. p.source = "manual" => p.field \in Usable
  BY <1>2 DEF Proxies!Apply, Proxies!CheckProxySettings
<1>7. Complete(s)
  BY <1>5, <1>6 DEF Complete
<1> HIDE DEF s
<1>8. Complete(registry')
  BY <1>3, <1>7 DEF ProxyInv
<1> QED
  BY <1>3, <1>4, <1>7, <1>8 DEF ProxyInv, Complete

\* What the daemon is told can be used, whatever the lists of Windows hold.
LEMMA AnswersAreUsable ==
    ASSUME ProxyInv, NEW proto \in Proxies!Protocols, NEW list, Proxies!OnProxy(proto, list)
    PROVE  (\E S : told' \in Seq(S)) /\ Proxies!ProxyUsable'
<1> DEFINE a == Proxies!Answer(proto, list)
           t == [proto |-> proto, type |-> a.type, field |-> a.field, source |-> opts.source]
<1>1. PICK S : told \in Seq(S)
  BY DEF ProxyInv
<1>2. told' = told \/ told' = Append(told, t)
  BY DEF Proxies!OnProxy
<1>3. t.type = "HTTP" => proto = "TCP"
  BY DEF Proxies!Answer, Proxies!ParseProxyString, Proxies!Protocols
<1>4. t.source = "manual" /\ t.type # "NONE" => t.field \in Usable
  BY DEF Proxies!Answer, ProxyInv, Complete, Proxies!FieldOf, Proxies!Settings, Proxies!Types
<1>5. t.proto = proto
  OBVIOUS
<1> HIDE DEF t, a
<1>6. CASE told' = Append(told, t)
  <2>1. told \in Seq(S \cup {t})
    BY <1>1
  <2>2. told' \in Seq(S \cup {t})
    BY <1>6, <2>1
  <2>3. ASSUME NEW i \in DOMAIN told'
        PROVE  (i \in DOMAIN told /\ told'[i] = told[i]) \/ told'[i] = t
    BY <1>6, <2>1
  <2> QED
    BY <2>2, <2>3, <1>3, <1>4, <1>5 DEF ProxyInv, Proxies!ProxyUsable
<1> QED
  BY <1>1, <1>2, <1>6 DEF ProxyInv, Proxies!ProxyUsable

\* ProxyInv holds of every state.
LEMMA ProxyKept == Spec => []ProxyInv
<1>1. Init => ProxyInv
  <2> SUFFICES ASSUME Proxies!Init
               PROVE  ProxyInv
    BY DEF Init
  <2>1. opts \in Proxies!Settings
    BY DesktopAssumption, Zenon DEF DesktopAssumption, Proxies!Init, Proxies!Settings, Proxies!Sources,
                             Proxies!Types
  <2>2. <<>> \in Seq(Nat)
    OBVIOUS
  <2>3. told \in Seq(Nat)
    BY <2>2, Zenon DEF Proxies!Init
  <2>4. \E S : told \in Seq(S)
    BY <2>3
  <2>5. Complete(opts) /\ registry = opts
    BY Zenon DEF Proxies!Init, Complete
  <2>6. Proxies!ProxyUsable
    <3>1. told = <<>>
      BY Zenon DEF Proxies!Init
    <3>2. DOMAIN told = 1 .. 0
      BY <2>3, <3>1
    <3> QED
      BY <3>2 DEF Proxies!ProxyUsable
  <2> QED
    BY <2>1, <2>4, <2>5, <2>6, Zenon DEF Proxies!Init, ProxyInv
<1>2. ProxyInv /\ [Next]_vars => ProxyInv'
  <2> SUFFICES ASSUME ProxyInv, Proxies!Next \/ UNCHANGED proxyVars
               PROVE  ProxyInv'
    BY DEF Next, vars, PlapStep, ObjectsStep, MenusStep, StartingStep, TokensStep, MessagesStep,
           EnvStep, ProxiesStep, ImportsStep, ReaderStep
  <2>1. CASE UNCHANGED proxyVars
    BY <2>1 DEF proxyVars, ProxyInv, Complete, Proxies!ProxyUsable
  <2>2. CASE Proxies!Open
    <3>1. [source |-> opts.source, type |-> opts.type,
           field |-> Proxies!FieldOf(opts, opts.type)] \in Controls
      BY DEF ProxyInv, Proxies!Settings, Controls, Proxies!FieldOf
    <3> QED
      BY <2>2, <3>1 DEF Proxies!Open, ProxyInv, Complete, Proxies!ProxyUsable
  <2>3. CASE Proxies!Apply
    BY <2>3, AppliedIsComplete DEF Proxies!Apply, ProxyInv, Proxies!ProxyUsable
  <2>4. CASE Proxies!Cancel \/ Proxies!Restart
    BY <2>4 DEF Proxies!Cancel, Proxies!Restart, ProxyInv, Complete, Proxies!ProxyUsable
  <2>5. ASSUME \/ \E s \in Proxies!Sources : Proxies!PickSource(s)
               \/ \E t \in Proxies!Types : Proxies!PickType(t)
               \/ \E f \in Fields : Proxies!TypeField(f)
        PROVE  ProxyInv'
    <3>1. PICK p \in Controls : page = <<p>>
      BY <2>5, Zenon DEF ProxyInv, Proxies!PickSource, Proxies!PickType, Proxies!TypeField, Proxies!Editing
    <3>2. page[1] = p
      BY <3>1
    <3>3. /\ \A s \in Proxies!Sources : [p EXCEPT !.source = s] \in Controls
          /\ \A t \in Proxies!Types :
                [p EXCEPT !.type = t, !.field = Proxies!FieldOf(opts, t)] \in Controls
          /\ \A f \in Fields : [p EXCEPT !.field = f] \in Controls
      BY Zenon DEF Controls, ProxyInv, Proxies!Settings, Proxies!FieldOf
    <3>4. \E q \in Controls : page' = <<q>>
      BY <2>5, <3>2, <3>3, Zenon DEF Proxies!PickSource, Proxies!PickType, Proxies!TypeField
    <3>5. UNCHANGED <<opts, registry, told>>
      BY <2>5, Zenon DEF Proxies!PickSource, Proxies!PickType, Proxies!TypeField
    <3> QED
      BY <3>4, <3>5 DEF ProxyInv, Complete, Proxies!ProxyUsable
  <2>6. ASSUME NEW proto \in Proxies!Protocols, NEW l \in WinLists, Proxies!OnProxy(proto, l)
        PROVE  ProxyInv'
    <3>1. UNCHANGED <<opts, registry, page>>
      BY <2>6 DEF Proxies!OnProxy
    <3> QED
      BY <2>6, <3>1, AnswersAreUsable DEF ProxyInv, Complete
  <2> QED
    BY <2>1, <2>2, <2>3, <2>4, <2>5, <2>6 DEF Proxies!Next
<1> QED
  BY <1>1, <1>2, PTL DEF Spec

\* The daemon is told to use only proxies that can be used, and HTTP proxies only for TCP
\* (CheckProxySettings, SaveProxySettings, OnProxy).
THEOREM ProxiesAreUsable == Spec => []ProxyUsable
<1>1. ProxyInv => ProxyUsable
  BY DEF ProxyInv, ProxyUsable
<1> QED
  BY <1>1, ProxyKept, PTL

-----------------------------------------------------------------------------
(* Folds over sequences *)

\* A set of numbers that has an element has a least one.
LEMMA LeastNatural ==
    ASSUME NEW T, T \subseteq Nat, T # {}
    PROVE  \E n \in T : \A m \in T : n <= m
<1>1. PICK n \in T : \A m \in T : ~ (<<m, n>> \in OpToRel(<, Nat))
  BY NatLessThanWellFounded, WFMin, Zenon
<1>2. \A m \in T : ~ (m < n)
  BY <1>1 DEF OpToRel
<1> QED
  BY <1>2

\* Induction, told of a set of numbers.
LEMMA NaturalSet ==
    ASSUME NEW T, 0 \in T, \A n \in Nat : n \in T => n + 1 \in T
    PROVE  \A n \in Nat : n \in T
<1> SUFFICES ASSUME Nat \ T # {} PROVE FALSE
  OBVIOUS
<1>1. PICK n \in Nat \ T : \A m \in Nat \ T : n <= m
  BY LeastNatural
<1>2. n # 0 /\ n - 1 \in Nat
  BY <1>1
<1>3. n - 1 \in T /\ (n - 1) + 1 = n
  BY <1>1, <1>2
<1> QED
  BY <1>1, <1>2, <1>3

\* The greatest of a set of numbers up to n, if n is one of them.
LEMMA MaxIsLast ==
    ASSUME NEW n \in Nat, NEW S \in SUBSET (1 .. n), n \in S
    PROVE  Max(S) = n
<1>1. \A y \in S : n >= y /\ y \in Nat
  OBVIOUS
<1>2. \A x \in S : (\A y \in S : x >= y) => x = n
  BY <1>1
<1> QED
  BY <1>1, <1>2 DEF Max

\* A set of indices that is not empty has a greatest one.
LEMMA MaxAmong ==
    ASSUME NEW n \in Nat, NEW S \in SUBSET (1 .. n), S # {}
    PROVE  Max(S) \in S /\ Max(S) \in 1 .. n
<1> DEFINE U == {n - x : x \in S}
<1>1. U \subseteq Nat /\ U # {}
  <2>1. \A x \in S : n - x \in Nat
    OBVIOUS
  <2>2. PICK x \in S : TRUE
    OBVIOUS
  <2>3. n - x \in U
    BY <2>2
  <2> QED
    BY <2>1, <2>3
<1>2. PICK u \in U : \A v \in U : u <= v
  BY <1>1, LeastNatural
<1>3. PICK m \in S : u = n - m
  BY <1>2
<1>4. \A y \in S : m >= y
  BY <1>2, <1>3
<1> QED
  BY <1>3, <1>4 DEF Max

\* What a fold over the indices up to n gives for a subset of them.
IsFold(f, n, T, base, step) ==
    /\ f \in [SUBSET (1 .. n) -> T]
    /\ f[{}] = base
    /\ \A S \in SUBSET (1 .. n) : S # {} => f[S] = step[<<f[S \ {Max(S)}], Max(S)>>]

\* A step that stays within T can be folded over n indices.
LEMMA FoldExists ==
    ASSUME NEW n \in Nat, NEW T, NEW base \in T, NEW step \in [T \X (1 .. n) -> T]
    PROVE  \E f : IsFold(f, n, T, base, step)
<1> DEFINE N == {k \in Nat : k <= n => \E f : IsFold(f, k, T, base, step)}
<1>1. 0 \in N
  <2>1. IsFold([S \in SUBSET (1 .. 0) |-> base], 0, T, base, step)
    <3>1. 1 .. 0 = {}
      OBVIOUS
    <3> QED
      BY <3>1, Zenon DEF IsFold
  <2> QED
    BY <2>1
<1>2. ASSUME NEW k \in Nat, k \in N
      PROVE  k + 1 \in N
  <2> SUFFICES ASSUME k + 1 <= n
               PROVE  \E f : IsFold(f, k + 1, T, base, step)
    OBVIOUS
  <2>1. k <= n
    OBVIOUS
  <2>2. PICK f : IsFold(f, k, T, base, step)
    BY <1>2, <2>1
  <2> DEFINE m == k + 1
             g == [S \in SUBSET (1 .. m) |->
                     IF m \in S THEN step[<<f[S \ {m}], m>>] ELSE f[S]]
  <2>3. /\ m \in 1 .. n /\ m \in Nat
        /\ \A S \in SUBSET (1 .. m) : S \ {m} \in SUBSET (1 .. k)
        /\ \A S \in SUBSET (1 .. m) : m \notin S => S \in SUBSET (1 .. k)
        /\ \A S \in SUBSET (1 .. k) : S \in SUBSET (1 .. m) /\ m \notin S
    OBVIOUS
  <2> HIDE DEF m
  <2>4. f \in [SUBSET (1 .. k) -> T]
    BY <2>2 DEF IsFold
  <2>5. \A S \in SUBSET (1 .. m) : g[S] \in T
    <3> TAKE S \in SUBSET (1 .. m)
    <3>1. CASE m \in S
      <4>1. f[S \ {m}] \in T
        BY <2>3, <2>4
      <4>2. step[<<f[S \ {m}], m>>] \in T
        BY <4>1, <2>3
      <4> QED
        BY <3>1, <4>2
    <3>2. CASE m \notin S
      BY <3>2, <2>3, <2>4
    <3> QED
      BY <3>1, <3>2
  <2>6. g[{}] = base
    BY <2>2, <2>3 DEF IsFold
  <2>7. ASSUME NEW S \in SUBSET (1 .. m), S # {}
        PROVE  g[S] = step[<<g[S \ {Max(S)}], Max(S)>>]
    <3>1. CASE m \in S
      <4>1. Max(S) = m
        BY <3>1, <2>3, MaxIsLast
      <4>2. g[S \ {m}] = f[S \ {m}]
        <5>1. S \ {m} \in SUBSET (1 .. m) /\ m \notin S \ {m}
          OBVIOUS
        <5> QED
          BY <5>1
      <4> QED
        BY <3>1, <4>1, <4>2
    <3>2. CASE m \notin S
      <4>1. S \in SUBSET (1 .. k)
        BY <3>2, <2>3
      <4>2. f[S] = step[<<f[S \ {Max(S)}], Max(S)>>]
        BY <2>2, <2>7, <4>1 DEF IsFold
      <4>3. S \ {Max(S)} \in SUBSET (1 .. m) /\ m \notin S \ {Max(S)}
        BY <3>2
      <4> QED
        BY <3>2, <4>2, <4>3
    <3> QED
      BY <3>1, <3>2
  <2>8. IsFold(g, m, T, base, step)
    BY <2>5, <2>6, <2>7 DEF IsFold
  <2> QED
    BY <2>8 DEF m
<1>3. \A k \in Nat : k \in N
  <2> HIDE DEF N
  <2> QED
    BY <1>1, <1>2, NaturalSet
<1> QED
  BY <1>3

\* The initial segments of the indices, which a left fold goes through.
LEMMA InitialSegments ==
    ASSUME NEW n \in Nat
    PROVE  /\ 1 .. 0 = {}
           /\ \A k \in 1 .. n : /\ 1 .. k \in SUBSET (1 .. n) /\ 1 .. k # {}
                               /\ Max(1 .. k) = k /\ (1 .. k) \ {k} = 1 .. (k - 1)
<1>1. ASSUME NEW k \in 1 .. n
      PROVE  /\ 1 .. k \in SUBSET (1 .. n) /\ 1 .. k # {}
             /\ Max(1 .. k) = k /\ (1 .. k) \ {k} = 1 .. (k - 1)
  <2>1. k \in Nat /\ k \in 1 .. k /\ \A x \in 1 .. k : x \in 1 .. n
    OBVIOUS
  <2>2. Max(1 .. k) = k
    BY <2>1, MaxIsLast
  <2>3. (1 .. k) \ {k} = 1 .. (k - 1)
    <3>1. \A x : x \in (1 .. k) \ {k} <=> x \in 1 .. (k - 1)
      BY <2>1
    <3> QED
      BY <3>1
  <2> QED
    BY <2>1, <2>2, <2>3
<1> QED
  BY <1>1

-----------------------------------------------------------------------------
\* The elements of a sequence that are in a set: the fold that picks them.
LEMMA OnlyFolds ==
    ASSUME NEW E, NEW s \in Seq(E), NEW S
    PROVE  \E f \in [0 .. Len(s) -> Seq(E)] :
             /\ f[0] = <<>> /\ f[Len(s)] = Only(s, S)
             /\ \A k \in 1 .. Len(s) :
                   f[k] = IF s[k] \in S THEN Append(f[k - 1], s[k]) ELSE f[k - 1]
<1> DEFINE n == Len(s)
           T == Seq(E)
           step == [p \in T \X (1 .. n) |-> IF s[p[2]] \in S THEN Append(p[1], s[p[2]]) ELSE p[1]]
           Folds(iter) ==
               iter = [Z \in SUBSET DOMAIN s |->
                         IF Z = {} THEN <<>>
                         ELSE IF s[Max(Z)] \in S THEN Append(iter[Z \ {Max(Z)}], s[Max(Z)])
                              ELSE iter[Z \ {Max(Z)}]]
           it == CHOOSE iter : Folds(iter)
<1>1. n \in Nat /\ DOMAIN s = 1 .. n /\ <<>> \in T /\ \A k \in 1 .. n : s[k] \in E
  OBVIOUS
<1>2. step \in [T \X (1 .. n) -> T]
  BY <1>1
<1>3. Only(s, S) = it[1 .. n]
  BY <1>1 DEF Only, FoldLeft, MapThenFoldSet
<1>4. \E iter : Folds(iter)
  <2> HIDE DEF step, T, n
  <2>1. PICK iter : IsFold(iter, n, T, <<>>, step)
    BY <1>1, <1>2, FoldExists
  <2>2. ASSUME NEW Z \in SUBSET (1 .. n), Z # {}
        PROVE  iter[Z] = IF s[Max(Z)] \in S THEN Append(iter[Z \ {Max(Z)}], s[Max(Z)])
                         ELSE iter[Z \ {Max(Z)}]
    <3>1. iter[Z \ {Max(Z)}] \in T /\ Max(Z) \in 1 .. n
      BY <2>1, <2>2, <1>1, MaxAmong DEF IsFold
    <3>2. iter[Z] = step[<<iter[Z \ {Max(Z)}], Max(Z)>>]
      BY <2>1, <2>2 DEF IsFold
    <3> QED
      BY <3>1, <3>2 DEF step
  <2>3. Folds(iter)
    BY <2>1, <2>2, <1>1 DEF IsFold
  <2> QED
    BY <2>3
<1>5. Folds(it)
  <2> HIDE DEF Folds
  <2> QED
    BY <1>4
<1> DEFINE f == [k \in 0 .. n |-> it[1 .. k]]
<1> HIDE DEF it
<1>6. /\ f[0] = <<>>
      /\ \A k \in 1 .. n : f[k] = IF s[k] \in S THEN Append(f[k - 1], s[k]) ELSE f[k - 1]
  <2>1. it[1 .. 0] = <<>>
    BY <1>1, <1>5, InitialSegments
  <2>2. ASSUME NEW k \in 1 .. n
        PROVE  f[k] = IF s[k] \in S THEN Append(f[k - 1], s[k]) ELSE f[k - 1]
    <3>1. /\ 1 .. k \in SUBSET DOMAIN s /\ 1 .. k # {}
          /\ Max(1 .. k) = k /\ (1 .. k) \ {k} = 1 .. (k - 1)
      BY <1>1, InitialSegments
    <3>2. it[1 .. k] = IF s[k] \in S THEN Append(it[1 .. (k - 1)], s[k]) ELSE it[1 .. (k - 1)]
      BY <1>5, <3>1
    <3>3. k \in 0 .. n /\ k - 1 \in 0 .. n
      BY <1>1
    <3> QED
      BY <3>2, <3>3
  <2>3. 0 \in 0 .. n
    BY <1>1
  <2> QED
    BY <2>1, <2>2, <2>3
<1> DEFINE N == {k \in Nat : k <= n => f[k] \in T}
<1>7. 0 \in N
  BY <1>1, <1>6
<1>8. ASSUME NEW k \in Nat, k \in N
      PROVE  k + 1 \in N
  <2> SUFFICES ASSUME k + 1 <= n
               PROVE  f[k + 1] \in T
    OBVIOUS
  <2> HIDE DEF f
  <2>1. k + 1 \in 1 .. n /\ (k + 1) - 1 = k /\ f[k] \in T
    BY <1>1, <1>8
  <2>2. f[k + 1] = IF s[k + 1] \in S THEN Append(f[k], s[k + 1]) ELSE f[k]
    BY <1>6, <2>1
  <2> QED
    BY <1>1, <2>1, <2>2
<1>9. \A k \in Nat : k \in N
  <2> HIDE DEF N
  <2> QED
    BY <1>7, <1>8, NaturalSet
<1>10. f \in [0 .. n -> T]
  <2>1. \A k \in 0 .. n : f[k] \in T
    <3> HIDE DEF f
    <3> QED
      BY <1>1, <1>9
  <2> QED
    BY <2>1, Zenon
<1>11. f[n] = Only(s, S)
  BY <1>1, <1>3
<1> QED
  BY <1>6, <1>10, <1>11

\* How many of the first k elements of a sequence are in a set.
Rank(s, S, k) == Cardinality({j \in 1 .. k : s[j] \in S})

\* None of the first none is in the set.
LEMMA RankZero == \A s, S : Rank(s, S, 0) = 0
<1> SUFFICES ASSUME NEW s, NEW S PROVE Rank(s, S, 0) = 0
  OBVIOUS
<1>1. {j \in 1 .. 0 : s[j] \in S} = {}
  OBVIOUS
<1> QED
  BY <1>1, FS_EmptySet DEF Rank

\* A rank is a number.
LEMMA RankType ==
    ASSUME NEW s, NEW S, NEW k \in Nat
    PROVE  Rank(s, S, k) \in Nat /\ IsFiniteSet({j \in 1 .. k : s[j] \in S})
<1> DEFINE R == {j \in 1 .. k : s[j] \in S}
<1>1. IsFiniteSet(1 .. k) /\ R \subseteq 1 .. k
  BY FS_Interval
<1>2. Rank(s, S, k) = Cardinality(R)
  BY Zenon DEF Rank
<1> HIDE DEF R
<1>3. IsFiniteSet(R) /\ Rank(s, S, k) \in Nat
  BY <1>1, <1>2, FS_Subset, FS_CardinalityType
<1> QED
  BY <1>3 DEF R

\* The next element counts if it is in the set.
LEMMA RankNext ==
    ASSUME NEW s, NEW S, NEW k \in Nat
    PROVE  Rank(s, S, k + 1) = IF s[k + 1] \in S THEN Rank(s, S, k) + 1 ELSE Rank(s, S, k)
<1> DEFINE R(m) == {j \in 1 .. m : s[j] \in S}
<1>1. Rank(s, S, k) = Cardinality(R(k)) /\ Rank(s, S, k + 1) = Cardinality(R(k + 1))
  BY Zenon DEF Rank
<1>2. IsFiniteSet(R(k))
  BY RankType
<1>3. CASE s[k + 1] \in S
  <2>1. R(k + 1) = R(k) \cup {k + 1} /\ k + 1 \notin R(k)
    <3>1. \A j : j \in R(k + 1) <=> j \in R(k) \cup {k + 1}
      BY <1>3
    <3> QED
      BY <3>1
  <2> HIDE DEF R
  <2> QED
    BY <1>1, <1>2, <1>3, <2>1, FS_AddElement
<1>4. CASE s[k + 1] \notin S
  <2>1. R(k + 1) = R(k)
    <3>1. \A j : j \in R(k + 1) <=> j \in R(k)
      BY <1>4
    <3> QED
      BY <3>1
  <2> HIDE DEF R
  <2> QED
    BY <1>1, <1>4, <2>1
<1> QED
  BY <1>3, <1>4

\* A later element that is in the set has a greater rank.
LEMMA RankGrows ==
    ASSUME NEW s, NEW S, NEW i \in Nat, NEW k \in Nat, i < k
    PROVE  /\ Rank(s, S, i) <= Rank(s, S, k)
           /\ s[k] \in S => Rank(s, S, i) < Rank(s, S, k)
<1> DEFINE R(m) == {j \in 1 .. m : s[j] \in S}
           h == k - 1
<1>1. h \in Nat /\ i <= h /\ k = h + 1 /\ i <= k
  OBVIOUS
<1> HIDE DEF h
<1>2. ASSUME NEW m \in Nat, i <= m
      PROVE  Rank(s, S, i) <= Rank(s, S, m)
  <2>1. R(i) \subseteq R(m)
    BY <1>2
  <2>2. Rank(s, S, i) = Cardinality(R(i)) /\ Rank(s, S, m) = Cardinality(R(m))
    BY Zenon DEF Rank
  <2>3. IsFiniteSet(R(m))
    BY RankType
  <2> HIDE DEF R
  <2> QED
    BY <2>1, <2>2, <2>3, FS_Subset
<1>3. Rank(s, S, i) <= Rank(s, S, k) /\ Rank(s, S, i) <= Rank(s, S, h)
  BY <1>1, <1>2
<1>4. Rank(s, S, h + 1) = IF s[h + 1] \in S THEN Rank(s, S, h) + 1 ELSE Rank(s, S, h)
  <2>1. h \in Nat
    BY <1>1
  <2> QED
    BY ONLY <2>1, RankNext
<1>5. Rank(s, S, i) \in Nat /\ Rank(s, S, h) \in Nat
  BY <1>1, RankType
<1> QED
  BY <1>1, <1>3, <1>4, <1>5

\* Each of the elements picked is where its rank says.
LEMMA OnlyRanks ==
    ASSUME NEW E, NEW s \in Seq(E), NEW S
    PROVE  /\ Only(s, S) \in Seq(E) /\ Len(Only(s, S)) = Rank(s, S, Len(s))
           /\ \A i \in 1 .. Len(s) : s[i] \in S =>
                 Rank(s, S, i) \in 1 .. Len(Only(s, S)) /\ Only(s, S)[Rank(s, S, i)] = s[i]
           /\ \A k \in 1 .. Len(Only(s, S)) :
                 \E i \in 1 .. Len(s) : s[i] \in S /\ Rank(s, S, i) = k /\ Only(s, S)[k] = s[i]
<1> DEFINE n == Len(s)
           R(k) == Rank(s, S, k)
           Good(t, m) ==
               /\ t \in Seq(E) /\ Len(t) = R(m)
               /\ \A i \in 1 .. m : s[i] \in S => R(i) \in 1 .. Len(t) /\ t[R(i)] = s[i]
               /\ \A k \in 1 .. Len(t) : \E i \in 1 .. m : s[i] \in S /\ R(i) = k /\ t[k] = s[i]
<1>1. n \in Nat /\ <<>> \in Seq(E) /\ \A k \in 1 .. n : s[k] \in E
  OBVIOUS
<1>2. PICK f \in [0 .. Len(s) -> Seq(E)] :
         /\ f[0] = <<>> /\ f[Len(s)] = Only(s, S)
         /\ \A k \in 1 .. Len(s) :
               f[k] = IF s[k] \in S THEN Append(f[k - 1], s[k]) ELSE f[k - 1]
  <2> DEFINE o == Only(s, S)
  <2>1. o = Only(s, S)
    OBVIOUS
  <2> HIDE DEF n, R, Good, o
  <2> QED
    BY <2>1, OnlyFolds
<1> DEFINE N == {m \in Nat : m <= n => Good(f[m], m)}
<1>3. 0 \in N
  <2>1. R(0) = 0 /\ Len(<<>>) = 0 /\ 1 .. 0 = {}
    BY RankZero
  <2> HIDE DEF R
  <2>2. Good(<<>>, 0)
    <3>1. 1 .. Len(<<>>) = {}
      BY <2>1
    <3>2. /\ <<>> \in Seq(E) /\ Len(<<>>) = R(0)
          /\ \A i \in 1 .. 0 : s[i] \in S => R(i) \in 1 .. Len(<<>>) /\ <<>>[R(i)] = s[i]
          /\ \A k \in 1 .. Len(<<>>) : \E i \in 1 .. 0 : s[i] \in S /\ R(i) = k /\ <<>>[k] = s[i]
      BY <1>1, <2>1, <3>1, Zenon
    <3> QED
      BY <3>2, Zenon
  <2> QED
    <3> HIDE DEF Good, R
    <3>1. Good(f[0], 0)
      BY <1>2, <2>2, Zenon
    <3> QED
      BY <1>1, <3>1
<1>4. ASSUME NEW m \in Nat, m \in N
      PROVE  m + 1 \in N
  <2> SUFFICES ASSUME m + 1 <= n
               PROVE  Good(f[m + 1], m + 1)
    OBVIOUS
  <2> DEFINE t == f[m]
             u == f[m + 1]
             x == s[m + 1]
  <2>1. /\ m + 1 \in 1 .. n /\ m \in 0 .. n /\ (m + 1) - 1 = m /\ x \in E
        /\ \A i \in 1 .. m + 1 : i = m + 1 \/ i \in 1 .. m
        /\ \A i \in 1 .. m : i \in 1 .. m + 1 /\ i \in Nat
    BY <1>1
  <2>2. Good(t, m)
    BY <1>4, <2>1
  <2> SUFFICES Good(u, m + 1)
    OBVIOUS
  <2>3. u = IF x \in S THEN Append(t, x) ELSE t
    BY <1>2, <2>1
  <2>4. R(m + 1) = (IF x \in S THEN R(m) + 1 ELSE R(m)) /\ R(m) \in Nat
    <3>1. Rank(s, S, m + 1) = IF s[m + 1] \in S THEN Rank(s, S, m) + 1 ELSE Rank(s, S, m)
      BY ONLY m \in Nat, RankNext
    <3>2. Rank(s, S, m) \in Nat
      BY RankType
    <3> QED
      BY <3>1, <3>2
  <2> HIDE DEF t, u, x, R
  <2>5. CASE x \notin S
    BY <2>1, <2>2, <2>3, <2>4, <2>5 DEF x
  <2>6. CASE x \in S
    <3>1. /\ u \in Seq(E) /\ Len(u) = Len(t) + 1 /\ u[Len(t) + 1] = x
          /\ \A i \in 1 .. Len(t) : u[i] = t[i]
      BY <2>1, <2>2, <2>3, <2>6
    <3>2. Len(t) = R(m) /\ R(m + 1) = Len(t) + 1 /\ Len(t) \in Nat
      BY <2>2, <2>4, <2>6
    <3>3. ASSUME NEW i \in 1 .. m + 1, s[i] \in S
          PROVE  R(i) \in 1 .. Len(u) /\ u[R(i)] = s[i]
      <4>1. CASE i = m + 1
        BY <3>1, <3>2, <4>1 DEF x
      <4>2. CASE i \in 1 .. m
        BY <2>2, <3>1, <3>2, <3>3, <4>2
      <4> QED
        BY <2>1, <4>1, <4>2
    <3>4. ASSUME NEW k \in 1 .. Len(u)
          PROVE  \E i \in 1 .. m + 1 : s[i] \in S /\ R(i) = k /\ u[k] = s[i]
      <4>1. CASE k = Len(t) + 1
        BY <2>1, <2>6, <3>1, <3>2, <4>1 DEF x
      <4>2. CASE k \in 1 .. Len(t)
        BY <2>1, <2>2, <3>1, <4>2
      <4> QED
        BY <3>1, <3>2, <4>1, <4>2
    <3> QED
      BY <3>1, <3>2, <3>3, <3>4
  <2> QED
    BY <2>5, <2>6 DEF u, t
<1>5. \A m \in Nat : m \in N
  <2> HIDE DEF N
  <2> QED
    BY <1>3, <1>4, NaturalSet
<1>6. Good(Only(s, S), n)
  <2> HIDE DEF Good
  <2> QED
    BY <1>1, <1>2, <1>5
<1> QED
  BY <1>6

-----------------------------------------------------------------------------
(* Import *)

ImportStages == {"idle", "dialog", "challenge", "overwrite", "import", "done"}
ImportJobs ==
    {r \in [kind : {"none", "as", "url", "disk", "arg"}, stage : ImportStages,
            name : Files \cup {"none"}] :
        /\ r.stage = "dialog" => r.kind \in {"as", "url", "disk"}
        /\ r.stage = "challenge" => Imports!Download(r.kind)}
ImportCopies == [by : Jobs, content : Jobs, replaced : BOOLEAN, agreed : BOOLEAN]

ImportTypes ==
    /\ job \in [Jobs -> ImportJobs]
    /\ loops \in Seq(Jobs) /\ diskEdits \in 0 .. MaxDiskEdits
    /\ tmp \in [Files -> Jobs \cup {"none"}] /\ disk \in [Files -> Jobs \cup {"none", "user"}]
    /\ known \in [Files -> {"none", "user", "global"}]
    /\ copied \in Seq(ImportCopies)

\* The import asks the user, in a loop of its own, about a file it has a name for.
Asks(j) == job[j].stage \in {"overwrite", "import"}
Waits(j, s) == \E p \in 1 .. Len(s) : s[p] = j

\* One loop of k was entered after all of j.
Inside(k, j, s) ==
    \E p \in 1 .. Len(s) : s[p] = k /\ \A q \in 1 .. Len(s) : s[q] = j => p < q

\* What is saved was saved by a download that asks about it; it asks before any other that
\* has saved something under this name.
Saved ==
    \A n \in Files : tmp[n] # "none" =>
        /\ Imports!Download(job[tmp[n]].kind) /\ Asks(tmp[n]) /\ job[tmp[n]].name = n
        /\ \A j \in Jobs : j # tmp[n] /\ Imports!Download(job[j].kind) /\ Asks(j) /\ job[j].name = n
                           => Inside(tmp[n], j, loops)

Asked ==
    \A j \in Jobs : Asks(j) => job[j].name \in Files /\ Waits(j, loops)

Copied ==
    \A i \in 1 .. Len(copied) : (copied[i].replaced => copied[i].agreed) /\ copied[i].content = copied[i].by

ImportInv == ImportTypes /\ Saved /\ Asked /\ Copied

\* The instance of the desktop picks as the module itself does.
LEMMA ImportOnly == \A s, S : Imports!Only(s, S) = Only(s, S)
BY Zenon DEF Imports!Only, Only, Imports!FoldLeft, FoldLeft, Imports!MapThenFoldSet, MapThenFoldSet,
             Imports!Max, Max

\* The loops of the others are still there, in their order.
Others(j, s) ==
    /\ s \in Seq(Jobs)
    /\ \A i \in Jobs : i # j /\ Waits(i, loops) => Waits(i, s)
    /\ \A k, i \in Jobs : k # j /\ i # j /\ Inside(k, i, loops) => Inside(k, i, s)

\* Nothing is entered or left.
LEMMA OthersStay ==
    ASSUME loops \in Seq(Jobs), NEW j \in Jobs
    PROVE  Others(j, loops)
BY DEF Others

\* A loop is entered: it is inside all others.
LEMMA LoopEntered ==
    ASSUME NEW j \in Jobs, NEW s, Others(j, s)
    PROVE  /\ Others(j, <<j>> \o s) /\ Waits(j, <<j>> \o s)
           /\ \A i \in Jobs : i # j => Inside(j, i, <<j>> \o s)
<1> DEFINE t == <<j>> \o s
<1>1. /\ s \in Seq(Jobs) /\ t \in Seq(Jobs) /\ Len(t) = Len(s) + 1 /\ t[1] = j
      /\ \A p \in 1 .. Len(s) : p + 1 \in 1 .. Len(t) /\ t[p + 1] = s[p]
      /\ \A q \in 1 .. Len(t) : q = 1 \/ (q - 1 \in 1 .. Len(s) /\ t[q] = s[q - 1])
      /\ 1 \in 1 .. Len(t) /\ Len(s) \in Nat
  BY DEF Others
<1> HIDE DEF t
<1>2. Waits(j, t)
  BY <1>1 DEF Waits
<1>3. ASSUME NEW i \in Jobs, Waits(i, s)
      PROVE  Waits(i, t)
  BY <1>1, <1>3 DEF Waits
<1>4. ASSUME NEW k \in Jobs, NEW i \in Jobs, i # j, Inside(k, i, s)
      PROVE  Inside(k, i, t)
  <2>1. PICK p \in 1 .. Len(s) : s[p] = k /\ \A q \in 1 .. Len(s) : s[q] = i => p < q
    BY <1>4 DEF Inside
  <2>2. ASSUME NEW q \in 1 .. Len(t), t[q] = i
        PROVE  p + 1 < q
    <3>1. q # 1
      BY <1>1, <1>4, <2>2
    <3>2. q - 1 \in 1 .. Len(s) /\ s[q - 1] = i
      BY <1>1, <2>2, <3>1
    <3>3. p < q - 1
      BY <2>1, <3>2
    <3> QED
      BY <1>1, <3>3
  <2>3. p + 1 \in 1 .. Len(t) /\ t[p + 1] = k
    BY <1>1, <2>1
  <2> QED
    BY <2>2, <2>3 DEF Inside
<1>5. ASSUME NEW i \in Jobs, i # j
      PROVE  Inside(j, i, t)
  <2>1. ASSUME NEW q \in 1 .. Len(t), t[q] = i
        PROVE  1 < q
    BY <1>1, <1>5, <2>1
  <2> QED
    BY <1>1, <2>1 DEF Inside
<1>6. Others(j, t)
  BY <1>1, <1>3, <1>4 DEF Others
<1> QED
  BY <1>2, <1>5, <1>6 DEF t

\* The innermost loop returns.
LEMMA LoopReturns ==
    ASSUME loops \in Seq(Jobs), NEW j \in Jobs, Imports!Innermost(j)
    PROVE  Others(j, Tail(loops))
<1> DEFINE t == Tail(loops)
<1>1. /\ t \in Seq(Jobs) /\ Len(t) = Len(loops) - 1 /\ loops[1] = j /\ Len(loops) \in Nat
      /\ \A q \in 1 .. Len(t) : q + 1 \in 1 .. Len(loops) /\ t[q] = loops[q + 1]
      /\ \A p \in 1 .. Len(loops) : p # 1 => p - 1 \in 1 .. Len(t) /\ t[p - 1] = loops[p]
  BY DEF Imports!Innermost
<1> HIDE DEF t
<1>2. ASSUME NEW i \in Jobs, i # j, Waits(i, loops)
      PROVE  Waits(i, t)
  <2>1. PICK p \in 1 .. Len(loops) : loops[p] = i
    BY <1>2 DEF Waits
  <2> QED
    BY <1>1, <1>2, <2>1 DEF Waits
<1>3. ASSUME NEW k \in Jobs, NEW i \in Jobs, k # j, i # j, Inside(k, i, loops)
      PROVE  Inside(k, i, t)
  <2>1. PICK p \in 1 .. Len(loops) :
           loops[p] = k /\ \A q \in 1 .. Len(loops) : loops[q] = i => p < q
    BY <1>3 DEF Inside
  <2>2. p - 1 \in 1 .. Len(t) /\ t[p - 1] = k
    BY <1>1, <1>3, <2>1
  <2>3. ASSUME NEW q \in 1 .. Len(t), t[q] = i
        PROVE  p - 1 < q
    <3>1. q + 1 \in 1 .. Len(loops) /\ loops[q + 1] = i
      BY <1>1, <2>3
    <3>2. p < q + 1
      BY <2>1, <3>1
    <3> QED
      BY <1>1, <3>2
  <2> QED
    BY <2>2, <2>3 DEF Inside
<1> QED
  BY <1>1, <1>2, <1>3 DEF Others, t

\* An import that is over leaves all its loops.
LEMMA LoopsLeft ==
    ASSUME loops \in Seq(Jobs), NEW j \in Jobs
    PROVE  Others(j, Imports!Left(j))
<1> DEFINE t == Only(loops, Jobs \ {j})
           R(p) == Rank(loops, Jobs \ {j}, p)
           S == Jobs \ {j}
<1>0. t = Only(loops, S)
  OBVIOUS
<1>1. Imports!Left(j) = t
  BY ImportOnly DEF Imports!Left
<1> HIDE DEF t
<1>2. /\ t \in Seq(Jobs)
      /\ \A p \in 1 .. Len(loops) : loops[p] \in Jobs \ {j} => R(p) \in 1 .. Len(t) /\ t[R(p)] = loops[p]
      /\ \A q \in 1 .. Len(t) :
            \E p \in 1 .. Len(loops) : loops[p] \in Jobs \ {j} /\ R(p) = q /\ t[q] = loops[p]
  <2>1. \A p : R(p) = Rank(loops, S, p)
    OBVIOUS
  <2> HIDE DEF S, R
  <2>2. /\ t \in Seq(Jobs)
        /\ \A p \in 1 .. Len(loops) : loops[p] \in S => R(p) \in 1 .. Len(t) /\ t[R(p)] = loops[p]
        /\ \A q \in 1 .. Len(t) :
              \E p \in 1 .. Len(loops) : loops[p] \in S /\ R(p) = q /\ t[q] = loops[p]
    BY <1>0, <2>1, OnlyRanks
  <2> QED
    BY <2>2 DEF S
<1>3. \A p, q \in 1 .. Len(loops) : p < q /\ loops[q] \in Jobs \ {j} => R(p) < R(q)
  <2> SUFFICES ASSUME NEW p \in 1 .. Len(loops), NEW q \in 1 .. Len(loops), p < q,
                      loops[q] \in Jobs \ {j}
               PROVE  R(p) < R(q)
    OBVIOUS
  <2>1. p \in Nat /\ q \in Nat
    OBVIOUS
  <2> QED
    BY ONLY <2>1, p < q, loops[q] \in Jobs \ {j}, RankGrows
<1> HIDE DEF R
<1>4. ASSUME NEW i \in Jobs, i # j, Waits(i, loops)
      PROVE  Waits(i, t)
  BY <1>2, <1>4 DEF Waits
<1>5. ASSUME NEW k \in Jobs, NEW i \in Jobs, k # j, i # j, Inside(k, i, loops)
      PROVE  Inside(k, i, t)
  <2>1. PICK p \in 1 .. Len(loops) :
           loops[p] = k /\ \A q \in 1 .. Len(loops) : loops[q] = i => p < q
    BY <1>5 DEF Inside
  <2>2. R(p) \in 1 .. Len(t) /\ t[R(p)] = k
    BY <1>2, <1>5, <2>1
  <2>3. ASSUME NEW q \in 1 .. Len(t), t[q] = i
        PROVE  R(p) < q
    <3>1. PICK m \in 1 .. Len(loops) : loops[m] \in Jobs \ {j} /\ R(m) = q /\ t[q] = loops[m]
      BY <1>2
    <3>2. p < m
      BY <2>1, <2>3, <3>1
    <3> QED
      BY <1>3, <3>1, <3>2
  <2> QED
    BY <2>2, <2>3 DEF Inside
<1> QED
  BY <1>1, <1>2, <1>4, <1>5 DEF Others

\* The state of one import changes, that of the others does not.
LEMMA JobFacts ==
    ASSUME ImportTypes, NEW j \in Jobs, NEW r \in ImportJobs, job' = [job EXCEPT ![j] = r]
    PROVE  /\ job' \in [Jobs -> ImportJobs] /\ job'[j] = r
           /\ \A i \in Jobs : i # j => job'[i] = job[i]
BY DEF ImportTypes, ImportJobs

\* An import that does not ask moves on, and the others stay inside each other as they were.
LEMMA ImportMoves ==
    ASSUME ImportInv, NEW j \in Jobs, NEW r \in ImportJobs, job' = [job EXCEPT ![j] = r],
           ~Asks(j), r.stage \notin {"overwrite", "import"}, Others(j, loops'), tmp' = tmp
    PROVE  Saved' /\ Asked'
<1>1. /\ job'[j] = r /\ \A i \in Jobs : i # j => job'[i] = job[i]
      /\ tmp \in [Files -> Jobs \cup {"none"}]
  BY JobFacts DEF ImportInv, ImportTypes
<1>2. ~Asks(j)' /\ \A i \in Jobs : i # j => (Asks(i)' <=> Asks(i))
  BY <1>1 DEF Asks
<1>3. Asked'
  BY <1>1, <1>2 DEF ImportInv, Asked, Others, Waits
<1>4. Saved'
  <2> SUFFICES ASSUME NEW n \in Files, tmp'[n] # "none"
               PROVE  /\ Imports!Download(job'[tmp'[n]].kind) /\ Asks(tmp[n])' /\ job'[tmp'[n]].name = n
                      /\ \A i \in Jobs : i # tmp'[n] /\ Imports!Download(job'[i].kind) /\ Asks(i)'
                                         /\ job'[i].name = n => Inside(tmp'[n], i, loops')
    BY DEF Saved
  <2> DEFINE k == tmp[n]
  <2>1. k \in Jobs /\ k # "none" /\ tmp'[n] = k
    BY <1>1
  <2>2. Imports!Download(job[k].kind) /\ Asks(k) /\ job[k].name = n
    BY <2>1 DEF ImportInv, Saved
  <2>3. k # j /\ job'[k] = job[k]
    BY <1>1, <2>1, <2>2
  <2>4. ASSUME NEW i \in Jobs, i # k, Imports!Download(job'[i].kind), Asks(i)', job'[i].name = n
        PROVE  Inside(k, i, loops')
    <3>1. i # j /\ Asks(i) /\ job'[i] = job[i]
      BY <1>1, <1>2, <2>4
    <3>2. Inside(k, i, loops)
      BY <2>1, <2>4, <3>1 DEF ImportInv, Saved
    <3> QED
      BY <2>1, <2>3, <3>1, <3>2 DEF Others
  <2> QED
    BY <1>2, <2>1, <2>2, <2>3, <2>4
<1> QED
  BY <1>3, <1>4

\* An import asks: what it has saved is now in the place of what another had.
LEMMA ImportAsks ==
    ASSUME ImportInv, NEW j \in Jobs, NEW r \in ImportJobs, job' = [job EXCEPT ![j] = r],
           ~Asks(j), r.stage \in {"overwrite", "import"}, r.name \in Files, NEW s, Others(j, s),
           loops' = <<j>> \o s,
           \/ tmp' = tmp /\ ~Imports!Download(r.kind)
           \/ tmp' = [tmp EXCEPT ![r.name] = j] /\ Imports!Download(r.kind)
    PROVE  Saved' /\ Asked'
<1>1. /\ job'[j] = r /\ \A i \in Jobs : i # j => job'[i] = job[i]
      /\ tmp \in [Files -> Jobs \cup {"none"}]
  BY JobFacts DEF ImportInv, ImportTypes
<1>2. Asks(j)' /\ \A i \in Jobs : i # j => (Asks(i)' <=> Asks(i))
  BY <1>1 DEF Asks
<1>3. /\ Others(j, loops') /\ Waits(j, loops')
      /\ \A i \in Jobs : i # j => Inside(j, i, loops')
  BY LoopEntered
<1>4. Asked'
  BY <1>1, <1>2, <1>3 DEF ImportInv, Asked, Others, Waits
<1>5. Saved'
  <2> SUFFICES ASSUME NEW n \in Files, tmp'[n] # "none"
               PROVE  /\ Imports!Download(job'[tmp'[n]].kind) /\ Asks(tmp[n])' /\ job'[tmp'[n]].name = n
                      /\ \A i \in Jobs : i # tmp'[n] /\ Imports!Download(job'[i].kind) /\ Asks(i)'
                                         /\ job'[i].name = n => Inside(tmp'[n], i, loops')
    BY DEF Saved
  <2>1. CASE tmp'[n] = j
    <3>1. tmp[n] # j
      <4>1. tmp[n] = j /\ j # "none" => Asks(j)
        BY <1>1 DEF ImportInv, Saved
      <4> QED
        BY <2>1, <4>1
    <3>2. n = r.name /\ Imports!Download(r.kind)
      BY <1>1, <2>1, <3>1
    <3> QED
      BY <1>1, <1>2, <1>3, <2>1, <3>2
  <2>2. CASE tmp'[n] # j
    <3> DEFINE k == tmp[n]
    <3>1. k \in Jobs /\ k # "none" /\ tmp'[n] = k /\ k # j
      BY <1>1, <2>2
    <3>2. Imports!Download(job[k].kind) /\ Asks(k) /\ job[k].name = n
      BY <3>1 DEF ImportInv, Saved
    <3>3. ASSUME NEW i \in Jobs, i # k, Imports!Download(job'[i].kind), Asks(i)', job'[i].name = n
          PROVE  Inside(k, i, loops')
      <4>1. i # j
        BY <1>1, <2>2, <3>3
      <4>2. Asks(i) /\ job'[i] = job[i]
        BY <1>1, <1>2, <3>3, <4>1
      <4>3. Inside(k, i, loops)
        BY <3>1, <3>3, <4>2 DEF ImportInv, Saved
      <4> QED
        BY <1>3, <3>1, <4>1, <4>3 DEF Others
    <3> QED
      BY <1>1, <1>2, <3>1, <3>2, <3>3
  <2> QED
    BY <2>1, <2>2
<1> QED
  BY <1>4, <1>5

\* An import is over: its file and its loops are gone.
LEMMA ImportEnds ==
    ASSUME ImportInv, NEW j \in Jobs, NEW r \in ImportJobs, job' = [job EXCEPT ![j] = r],
           r.stage \notin {"overwrite", "import"}, Others(j, loops'),
           tmp' \in [Files -> Jobs \cup {"none"}],
           \A n \in Files : tmp'[n] = "none" \/ (tmp'[n] = tmp[n] /\ tmp[n] # j)
    PROVE  Saved' /\ Asked'
<1>1. /\ job'[j] = r /\ \A i \in Jobs : i # j => job'[i] = job[i]
      /\ tmp \in [Files -> Jobs \cup {"none"}]
  BY JobFacts DEF ImportInv, ImportTypes
<1>2. ~Asks(j)' /\ \A i \in Jobs : i # j => (Asks(i)' <=> Asks(i))
  BY <1>1 DEF Asks
<1>3. Asked'
  BY <1>1, <1>2 DEF ImportInv, Asked, Others, Waits
<1>4. Saved'
  <2> SUFFICES ASSUME NEW n \in Files, tmp'[n] # "none"
               PROVE  /\ Imports!Download(job'[tmp'[n]].kind) /\ Asks(tmp[n])' /\ job'[tmp'[n]].name = n
                      /\ \A i \in Jobs : i # tmp'[n] /\ Imports!Download(job'[i].kind) /\ Asks(i)'
                                         /\ job'[i].name = n => Inside(tmp'[n], i, loops')
    BY DEF Saved
  <2> DEFINE k == tmp[n]
  <2>1. k \in Jobs /\ k # "none" /\ tmp'[n] = k /\ k # j
    BY <1>1
  <2>2. Imports!Download(job[k].kind) /\ Asks(k) /\ job[k].name = n
    BY <2>1 DEF ImportInv, Saved
  <2>4. ASSUME NEW i \in Jobs, i # k, Imports!Download(job'[i].kind), Asks(i)', job'[i].name = n
        PROVE  Inside(k, i, loops')
    <3>1. i # j /\ Asks(i) /\ job'[i] = job[i]
      BY <1>1, <1>2, <2>4
    <3>2. Inside(k, i, loops)
      BY <2>1, <2>4, <3>1 DEF ImportInv, Saved
    <3> QED
      BY <2>1, <3>1, <3>2 DEF Others
  <2> QED
    BY <1>1, <1>2, <2>1, <2>2, <2>4
<1> QED
  BY <1>3, <1>4

\* What is copied is what this import saved, or the file the user picked.
LEMMA WhatIsCopied ==
    ASSUME ImportInv, NEW j \in Jobs, NEW n \in Files, NEW overwrite \in BOOLEAN, NEW t,
           Imports!SourceOf(t, j, n) \in {j, "none"}, Imports!CopyFile(j, t, n, overwrite)
    PROVE  /\ disk' \in [Files -> Jobs \cup {"none", "user"}]
           /\ known' \in [Files -> {"none", "user", "global"}]
           /\ copied' \in Seq(ImportCopies) /\ Copied'
<1>1. /\ disk \in [Files -> Jobs \cup {"none", "user"}]
      /\ known \in [Files -> {"none", "user", "global"}]
      /\ copied \in Seq(ImportCopies) /\ Copied
  BY DEF ImportInv, ImportTypes
<1>2. CASE UNCHANGED <<disk, known, copied>>
  BY <1>1, <1>2 DEF Copied
<1> DEFINE row == [by |-> j, content |-> j, replaced |-> disk[n] # "none", agreed |-> overwrite]
<1>3. CASE /\ disk' = [disk EXCEPT ![n] = j] /\ copied' = Append(copied, row)
           /\ known' = Imports!Rescanned(disk') /\ (disk[n] # "none" => overwrite)
  <2>1. disk' \in [Files -> Jobs \cup {"none", "user"}]
    BY <1>1, <1>3
  <2>2. known' \in [Files -> {"none", "user", "global"}]
    BY <1>1, <1>3 DEF Imports!Rescanned, Imports!None
  <2>3. row \in ImportCopies /\ row.content = row.by /\ (row.replaced => row.agreed)
    <3>1. (disk[n] # "none") \in BOOLEAN
      OBVIOUS
    <3>2. row \in ImportCopies
      BY <3>1, Zenon DEF ImportCopies
    <3> QED
      BY <1>3, <3>2
  <2> HIDE DEF row
  <2>4. /\ copied' \in Seq(ImportCopies) /\ Len(copied') = Len(copied) + 1
        /\ copied'[Len(copied) + 1] = row /\ Len(copied) \in Nat
        /\ \A i \in 1 .. Len(copied) : copied'[i] = copied[i]
    BY <1>1, <1>3, <2>3
  <2>5. Copied'
    <3> SUFFICES ASSUME NEW i \in 1 .. Len(copied')
                 PROVE  (copied'[i].replaced => copied'[i].agreed) /\ copied'[i].content = copied'[i].by
      BY DEF Copied
    <3>1. CASE i = Len(copied) + 1
      BY <2>3, <2>4, <3>1
    <3>2. CASE i \in 1 .. Len(copied)
      BY <1>1, <2>4, <3>2 DEF Copied
    <3> QED
      BY <2>4, <3>1, <3>2
  <2> QED
    BY <2>1, <2>2, <2>4, <2>5
<1>4. \/ UNCHANGED <<disk, known, copied>>
      \/ /\ disk' = [disk EXCEPT ![n] = j] /\ copied' = Append(copied, row)
         /\ known' = Imports!Rescanned(disk') /\ (disk[n] # "none" => overwrite)
  BY Zenon DEF Imports!CopyFile, Imports!None
<1> QED
  BY <1>2, <1>3, <1>4

\* A finished import.
LEMMA DoneJobs ==
    /\ [kind |-> "none", stage |-> "done", name |-> "none"] \in ImportJobs
    /\ [Imports!Idle EXCEPT !.stage = "done"] = [kind |-> "none", stage |-> "done", name |-> "none"]
BY DEF ImportJobs, ImportStages, Imports!Idle, Imports!None

\* Entering, leaving and returning from a loop changes those of one import.
LEMMA LoopTypes ==
    ASSUME ImportInv, NEW j \in Jobs
    PROVE  /\ Others(j, loops) /\ Others(j, Imports!Left(j))
           /\ Imports!Innermost(j) => Others(j, Tail(loops))
BY OthersStay, LoopsLeft, LoopReturns DEF ImportInv, ImportTypes

\* ImportConfigFile of an import that does not ask yet, with what it has downloaded, if it
\* has, and the loops it runs in.
LEMMA ImportBegins ==
    ASSUME ImportInv, NEW j \in Jobs, NEW n \in Files, NEW kind \in {"as", "url", "disk", "arg"},
           ~Asks(j), NEW s, Others(j, s), NEW t, diskEdits' = diskEdits,
           \/ t = tmp /\ ~Imports!Download(kind)
           \/ t = [tmp EXCEPT ![n] = j] /\ Imports!Download(kind),
           kind # "arg" => job[j].kind = kind,
           Imports!ImportConfigFile(j, kind, t, n, s)
    PROVE  ImportInv'
<1>0. /\ tmp \in [Files -> Jobs \cup {"none"}] /\ t \in [Files -> Jobs \cup {"none"}]
      /\ job \in [Jobs -> ImportJobs]
  BY DEF ImportInv, ImportTypes, ImportJobs
<1>1. CASE known[n] = "user" \/ kind = "arg"
  <2> DEFINE r == [kind |-> kind, stage |-> IF known[n] = "user" THEN "overwrite" ELSE "import",
                   name |-> n]
  <2>1. /\ job' = [job EXCEPT ![j] = r] /\ loops' = <<j>> \o s /\ tmp' = t
        /\ UNCHANGED <<disk, known, copied>>
    BY <1>1, Zenon DEF Imports!ImportConfigFile, Imports!Set
  <2>2. /\ r \in ImportJobs /\ r.stage \in {"overwrite", "import"} /\ r.name = n /\ r.kind = kind
    BY DEF ImportJobs, ImportStages
  <2> HIDE DEF r
  <2>3. Saved' /\ Asked'
    BY <2>1, <2>2, ImportAsks
  <2>4. loops' \in Seq(Jobs)
    BY <2>1, LoopEntered DEF Others
  <2>5. job' \in [Jobs -> ImportJobs]
    BY <2>1, <2>2, JobFacts DEF ImportInv
  <2> QED
    BY <1>0, <2>1, <2>3, <2>4, <2>5 DEF ImportInv, ImportTypes, ImportJobs, Copied
<1>2. CASE ~(known[n] = "user" \/ kind = "arg")
  <2>1. Imports!CopyFile(j, t, n, FALSE)
    BY <1>2, Zenon DEF Imports!ImportConfigFile
  <2>2. job[j].kind = kind
    BY <1>2
  <2>3. Imports!SourceOf(t, j, n) \in {j, "none"}
    BY <1>0, <2>2 DEF Imports!SourceOf
  <2> DEFINE r == [kind |-> "none", stage |-> "done", name |-> "none"]
  <2>4. /\ job' = [job EXCEPT ![j] = r] /\ loops' = Imports!Left(j)
        /\ tmp' = Imports!Unlinked(t, j, n)
    BY <2>1, DoneJobs, Zenon DEF Imports!CopyFile, Imports!Finish, Imports!Set
  <2>5. r \in ImportJobs /\ r.stage \notin {"overwrite", "import"}
    BY DoneJobs
  <2> HIDE DEF r
  <2>6. /\ tmp' \in [Files -> Jobs \cup {"none"}]
        /\ \A m \in Files : tmp'[m] = "none" \/ (tmp'[m] = tmp[m] /\ tmp[m] # j)
    <3>1. \A m \in Files : tmp[m] = "none" \/ tmp[m] # j
      BY DEF ImportInv, Saved
    <3>2. tmp' = tmp \/ tmp' = [tmp EXCEPT ![n] = "none"]
      BY <1>0, <2>2, <2>4 DEF Imports!Unlinked, Imports!None
    <3> QED
      BY <1>0, <3>1, <3>2
  <2>7. Others(j, loops')
    BY <2>4, LoopTypes
  <2>8. Saved' /\ Asked'
    BY <2>4, <2>5, <2>6, <2>7, ImportEnds
  <2>9. job' \in [Jobs -> ImportJobs]
    BY <2>4, <2>5, JobFacts DEF ImportInv
  <2>10. /\ disk' \in [Files -> Jobs \cup {"none", "user"}]
         /\ known' \in [Files -> {"none", "user", "global"}]
         /\ copied' \in Seq(ImportCopies) /\ Copied'
    <3> DEFINE o == FALSE
    <3>1. o \in BOOLEAN /\ Imports!CopyFile(j, t, n, o)
      BY <2>1
    <3> HIDE DEF o
    <3> QED
      BY <2>3, <3>1, WhatIsCopied
  <2> QED
    BY <2>6, <2>7, <2>8, <2>9, <2>10 DEF ImportInv, ImportTypes, ImportJobs, Others
<1> QED
  BY <1>1, <1>2

\* The import that answers is the innermost: what is saved under its name is its own.
LEMMA OwnFile ==
    ASSUME ImportInv, NEW j \in Jobs, Asks(j), Imports!Innermost(j)
    PROVE  /\ job[j].name \in Files
           /\ Imports!SourceOf(tmp, j, job[j].name) \in {j, "none"}
           /\ \A m \in Files : tmp[m] = j => j = "none" \/ (m = job[j].name /\ Imports!Download(job[j].kind))
<1> DEFINE n == job[j].name
           k == tmp[n]
<1>1. n \in Files /\ tmp \in [Files -> Jobs \cup {"none"}] /\ loops \in Seq(Jobs)
  BY DEF ImportInv, Asked, ImportTypes
<1>2. ASSUME Imports!Download(job[j].kind), k # "none", k # j
      PROVE  FALSE
  <2>1. Inside(k, j, loops)
    BY <1>1, <1>2 DEF ImportInv, Saved
  <2>2. PICK p \in 1 .. Len(loops) : \A q \in 1 .. Len(loops) : loops[q] = j => p < q
    BY <2>1 DEF Inside
  <2>3. loops[1] = j /\ 1 \in 1 .. Len(loops)
    BY <1>1 DEF Imports!Innermost
  <2> QED
    BY <2>2, <2>3
<1>3. Imports!SourceOf(tmp, j, n) \in {j, "none"}
  BY <1>1, <1>2 DEF Imports!SourceOf
<1>4. \A m \in Files : tmp[m] = j => j = "none" \/ (m = n /\ Imports!Download(job[j].kind))
  BY DEF ImportInv, Saved
<1> QED
  BY <1>1, <1>3, <1>4

\* The answer to the question of an import keeps the invariant.
LEMMA AnswerKeeps ==
    ASSUME ImportInv, NEW j \in Jobs, NEW yes \in BOOLEAN, Imports!AnswerQuestion(j, yes)
    PROVE  ImportInv'
<1> DEFINE n == job[j].name
           r == [kind |-> "none", stage |-> "done", name |-> "none"]
<1>0. Asks(j) /\ Imports!Innermost(j) /\ diskEdits' = diskEdits
  BY DEF Imports!AnswerQuestion, Asks
<1>1. /\ n \in Files /\ Imports!SourceOf(tmp, j, n) \in {j, "none"}
      /\ \A m \in Files : tmp[m] = j => j = "none" \/ (m = n /\ Imports!Download(job[j].kind))
      /\ tmp \in [Files -> Jobs \cup {"none"}]
  BY <1>0, OwnFile DEF ImportInv, ImportTypes
<1>2. /\ job' = [job EXCEPT ![j] = r] /\ loops' = Imports!Left(j)
      /\ tmp' = Imports!Unlinked(tmp, j, n)
  BY DoneJobs, Zenon DEF Imports!AnswerQuestion, Imports!CopyFile, Imports!Finish, Imports!Set
<1>3. r \in ImportJobs /\ r.stage \notin {"overwrite", "import"}
  BY DoneJobs
<1>4. /\ disk' \in [Files -> Jobs \cup {"none", "user"}]
      /\ known' \in [Files -> {"none", "user", "global"}]
      /\ copied' \in Seq(ImportCopies) /\ Copied'
  <2>1. CASE yes
    <3> DEFINE o == job[j].stage = "overwrite"
    <3>1. o \in BOOLEAN /\ Imports!CopyFile(j, tmp, n, o)
      BY <2>1 DEF Imports!AnswerQuestion
    <3> HIDE DEF o
    <3> QED
      BY <1>1, <3>1, WhatIsCopied
  <2>2. CASE ~yes
    <3>1. UNCHANGED <<disk, known, copied>>
      BY <2>2 DEF Imports!AnswerQuestion
    <3> QED
      BY <3>1 DEF ImportInv, ImportTypes, Copied
  <2> QED
    BY <2>1, <2>2
<1> HIDE DEF r, n
<1>5. /\ tmp' \in [Files -> Jobs \cup {"none"}]
      /\ \A m \in Files : tmp'[m] = "none" \/ (tmp'[m] = tmp[m] /\ tmp[m] # j)
  BY <1>1, <1>2 DEF Imports!Unlinked, Imports!None
<1>6. Others(j, loops')
  BY <1>2, LoopTypes
<1>7. Saved' /\ Asked'
  BY <1>2, <1>3, <1>5, <1>6, ImportEnds
<1>8. job' \in [Jobs -> ImportJobs]
  BY <1>2, <1>3, JobFacts DEF ImportInv
<1> QED
  BY <1>0, <1>4, <1>5, <1>6, <1>7, <1>8 DEF ImportInv, ImportTypes, ImportJobs, Others

\* What DownloadProfile brings while its dialog, or its challenge, is open.
LEMMA ResponseKeeps ==
    ASSUME ImportInv, NEW j \in Jobs, job[j].stage \in {"dialog", "challenge"},
           Imports!Download(job[j].kind), NEW s, Others(j, s), Imports!Response(j, s),
           diskEdits' = diskEdits
    PROVE  ImportInv'
<1>0. /\ ~Asks(j) /\ job[j] \in ImportJobs /\ job \in [Jobs -> ImportJobs]
      /\ job[j].kind \in {"as", "url", "disk", "arg"}
  <2>1. job \in [Jobs -> ImportJobs]
    BY DEF ImportInv, ImportTypes, ImportJobs
  <2>2. job[j].kind \in {"as", "url"}
    BY DEF Imports!Download
  <2> QED
    BY <2>1, <2>2 DEF Asks
<1>1. ASSUME NEW stage \in {"dialog", "challenge"}, job' = [job EXCEPT ![j] = Imports!At(j, stage)],
             Others(j, loops'), UNCHANGED <<tmp, disk, known, copied>>
      PROVE  ImportInv'
  <2> DEFINE r == Imports!At(j, stage)
  <2>1. r \in ImportJobs /\ r.stage \notin {"overwrite", "import"}
    <3> DEFINE Job == [kind : {"none", "as", "url", "disk", "arg"}, stage : ImportStages,
                       name : Files \cup {"none"}]
    <3>1. r = [job[j] EXCEPT !.stage = stage] /\ job[j] \in Job
      BY <1>0 DEF Imports!At, ImportJobs
    <3>2. r \in Job /\ r.stage = stage /\ r.kind = job[j].kind
      BY <3>1 DEF ImportStages
    <3>3. r.kind \in {"as", "url"}
      BY <3>2 DEF Imports!Download
    <3> HIDE DEF r, Job
    <3>4. r \in ImportJobs
      BY <3>2, <3>3 DEF ImportJobs, Job, Imports!Download
    <3> QED
      BY <3>2, <3>4
  <2> HIDE DEF r
  <2>2. job' = [job EXCEPT ![j] = r] /\ tmp' = tmp
    BY <1>1 DEF r
  <2>3. Saved' /\ Asked'
    BY <1>0, <1>1, <2>1, <2>2, ImportMoves
  <2>4. job' \in [Jobs -> ImportJobs]
    BY <2>1, <2>2, JobFacts DEF ImportInv
  <2> QED
    BY <1>1, <2>3, <2>4 DEF ImportInv, ImportTypes, ImportJobs, Copied, Others
<1>2. CASE Imports!Set(j, Imports!At(j, "dialog")) /\ loops' = s /\ UNCHANGED <<tmp, disk, known, copied>>
  BY <1>1, <1>2 DEF Imports!Set
<1>3. CASE /\ Imports!Set(j, Imports!At(j, "challenge")) /\ loops' = <<j>> \o s
           /\ UNCHANGED <<tmp, disk, known, copied>>
  <2>1. Others(j, loops')
    BY <1>3, LoopEntered
  <2> QED
    BY <1>1, <1>3, <2>1 DEF Imports!Set
<1>4. CASE \E n \in Files :
             Imports!ImportConfigFile(j, job[j].kind, [tmp EXCEPT ![n] = j], n, s)
  <2>1. PICK n \in Files : Imports!ImportConfigFile(j, job[j].kind, [tmp EXCEPT ![n] = j], n, s)
    BY <1>4
  <2> DEFINE t == [tmp EXCEPT ![n] = j]
             kind == job[j].kind
  <2>2. /\ t = [tmp EXCEPT ![n] = j] /\ Imports!Download(kind) /\ kind \in {"as", "url", "disk", "arg"}
        /\ job[j].kind = kind /\ Imports!ImportConfigFile(j, kind, t, n, s)
    BY <1>0, <2>1
  <2> HIDE DEF t, kind
  <2> QED
    BY <1>0, <2>2, ImportBegins
<1> QED
  BY <1>2, <1>3, <1>4, Zenon DEF Imports!Response

\* Opening and cancelling the dialog of an import keep the invariant.
LEMMA DialogKeeps ==
    ASSUME ImportInv, NEW j \in Jobs,
           \/ \E kind \in {"as", "url", "disk"} : Imports!OpenDialog(j, kind)
           \/ Imports!CancelDialog(j)
    PROVE  ImportInv'
<1>0. Others(j, loops) /\ Others(j, Imports!Left(j))
  BY LoopTypes
<1>1. CASE \E kind \in {"as", "url", "disk"} : Imports!OpenDialog(j, kind)
  <2>1. PICK kind \in {"as", "url", "disk"} : Imports!OpenDialog(j, kind)
    BY <1>1
  <2> DEFINE r == [kind |-> kind, stage |-> "dialog", name |-> "none"]
  <2>2. /\ r \in ImportJobs /\ r.stage \notin {"overwrite", "import"}
    BY DEF ImportJobs, ImportStages
  <2>3. /\ job' = [job EXCEPT ![j] = r] /\ tmp' = tmp /\ ~Asks(j) /\ loops' = <<j>> \o loops
        /\ UNCHANGED <<disk, known, copied, diskEdits>>
    BY <2>1 DEF Imports!OpenDialog, Imports!Set, Imports!None, Asks
  <2> HIDE DEF r
  <2>4. Others(j, loops')
    BY <1>0, <2>3, LoopEntered
  <2>5. Saved' /\ Asked' /\ job' \in [Jobs -> ImportJobs]
    BY <2>2, <2>3, <2>4, ImportMoves, JobFacts DEF ImportInv
  <2> QED
    BY <2>3, <2>4, <2>5 DEF ImportInv, ImportTypes, ImportJobs, Copied, Others
<1>2. CASE Imports!CancelDialog(j)
  <2> DEFINE r == [kind |-> "none", stage |-> "done", name |-> "none"]
  <2>1. /\ job' = [job EXCEPT ![j] = r] /\ tmp' = tmp /\ loops' = Imports!Left(j)
        /\ UNCHANGED <<disk, known, copied, diskEdits>>
    BY <1>2, DoneJobs, Zenon DEF Imports!CancelDialog, Imports!Set
  <2>2. ~Asks(j) /\ r \in ImportJobs /\ r.stage \notin {"overwrite", "import"}
    BY <1>2, DoneJobs DEF Imports!CancelDialog, Asks
  <2> HIDE DEF r
  <2>3. Others(j, loops')
    BY <1>0, <2>1
  <2>4. Saved' /\ Asked' /\ job' \in [Jobs -> ImportJobs]
    BY <2>1, <2>2, <2>3, ImportMoves, JobFacts DEF ImportInv
  <2> QED
    BY <2>1, <2>3, <2>4 DEF ImportInv, ImportTypes, ImportJobs, Copied, Others
<1> QED
  BY <1>1, <1>2

\* OK in a dialog and the argument of the command line keep the invariant.
LEMMA OkKeeps ==
    ASSUME ImportInv, NEW j \in Jobs,
           \/ Imports!PressOk(j) \/ Imports!AnswerChallenge(j)
           \/ \E n \in Files : Imports!ImportArgument(j, n)
    PROVE  ImportInv'
<1>0. /\ Others(j, loops) /\ (Imports!Innermost(j) => Others(j, Tail(loops)))
      /\ job[j] \in ImportJobs
  BY LoopTypes DEF ImportInv, ImportTypes, ImportJobs
<1>1. CASE Imports!PressOk(j) /\ Imports!Download(job[j].kind)
  <2>1. job[j].stage = "dialog" /\ Imports!Response(j, loops) /\ diskEdits' = diskEdits
    BY <1>1 DEF Imports!PressOk
  <2>2. job[j].stage \in {"dialog", "challenge"}
    BY <2>1
  <2> QED
    BY <1>0, <1>1, <2>1, <2>2, ResponseKeeps
<1>2. CASE Imports!PressOk(j) /\ ~Imports!Download(job[j].kind)
  <2>1. PICK n \in Files : Imports!ImportConfigFile(j, "disk", tmp, n, loops)
    BY <1>2 DEF Imports!PressOk
  <2> DEFINE kind == "disk"
  <2>2. ~Asks(j) /\ diskEdits' = diskEdits
    BY <1>2 DEF Imports!PressOk, Asks
  <2>3. /\ kind \in {"as", "url", "disk", "arg"} /\ ~Imports!Download(kind)
        /\ job[j].kind = kind /\ Imports!ImportConfigFile(j, kind, tmp, n, loops)
    <3>1. job[j].stage = "dialog"
      BY <1>2 DEF Imports!PressOk
    <3>2. job[j].kind = "disk"
      BY <1>0, <1>2, <3>1 DEF ImportJobs, Imports!Download
    <3> QED
      BY <2>1, <3>2 DEF Imports!Download
  <2> HIDE DEF kind
  <2> QED
    BY <1>0, <2>2, <2>3, ImportBegins
<1>3. CASE Imports!AnswerChallenge(j)
  <2>1. /\ job[j].stage \in {"dialog", "challenge"} /\ Imports!Response(j, Tail(loops))
        /\ diskEdits' = diskEdits /\ Imports!Innermost(j)
    BY <1>3 DEF Imports!AnswerChallenge
  <2>2. Imports!Download(job[j].kind)
    BY <1>0, <1>3 DEF ImportJobs, Imports!AnswerChallenge
  <2> QED
    BY <1>0, <2>1, <2>2, ResponseKeeps
<1>4. CASE \E n \in Files : Imports!ImportArgument(j, n)
  <2>1. PICK n \in Files : Imports!ImportArgument(j, n)
    BY <1>4
  <2> DEFINE kind == "arg"
  <2>2. /\ kind \in {"as", "url", "disk", "arg"} /\ ~Imports!Download(kind) /\ kind = "arg"
        /\ Imports!ImportConfigFile(j, kind, tmp, n, loops)
        /\ ~Asks(j) /\ diskEdits' = diskEdits
    BY <2>1 DEF Imports!ImportArgument, Imports!Download, Asks
  <2> HIDE DEF kind
  <2> QED
    BY <1>0, <2>2, ImportBegins
<1> QED
  BY <1>1, <1>2, <1>3, <1>4

\* What the user does with the files keeps the invariant.
LEMMA EditsKeep ==
    ASSUME ImportInv, Imports!UserEdits
    PROVE  ImportInv'
<1>1. /\ disk \in [Files -> Jobs \cup {"none", "user"}] /\ known \in [Files -> {"none", "user", "global"}]
      /\ diskEdits' \in 0 .. MaxDiskEdits /\ UNCHANGED <<job, loops, tmp, copied>>
  BY ImportAssumption DEF ImportInv, ImportTypes, Imports!UserEdits
<1>2. disk' \in [Files -> Jobs \cup {"none", "user"}] /\ known' \in [Files -> {"none", "user", "global"}]
  BY <1>1 DEF Imports!UserEdits, Imports!Rescanned, Imports!None
<1>3. Saved' /\ Asked' /\ Copied'
  BY <1>1 DEF ImportInv, Saved, Asked, Copied, Asks
<1> QED
  BY <1>1, <1>2, <1>3 DEF ImportInv, ImportTypes

\* ImportInv holds of every state.
LEMMA ImportKept == Spec => []ImportInv
<1>1. Init => ImportInv
  <2> SUFFICES ASSUME Imports!Init
               PROVE  ImportInv
    BY DEF Init
  <2>1. /\ job = [j \in Jobs |-> Imports!Idle] /\ loops = <<>>
        /\ tmp = [n \in Files |-> "none"] /\ copied = <<>> /\ diskEdits = 0
        /\ disk \in [Files -> {"none", "user"}] /\ known \in [Files -> {"none", "user", "global"}]
    BY DEF Imports!Init, Imports!None
  <2>2. Imports!Idle \in ImportJobs /\ Imports!Idle.stage = "idle"
    BY DEF Imports!Idle, Imports!None, ImportJobs, ImportStages
  <2>3. ImportTypes
    <3>1. /\ job \in [Jobs -> ImportJobs] /\ tmp \in [Files -> Jobs \cup {"none"}]
          /\ disk \in [Files -> Jobs \cup {"none", "user"}]
      BY <2>1, <2>2
    <3>2. loops \in Seq(Jobs) /\ copied \in Seq(ImportCopies)
      BY <2>1
    <3>3. diskEdits \in 0 .. MaxDiskEdits
      BY <2>1, ImportAssumption
    <3> QED
      BY <2>1, <3>1, <3>2, <3>3 DEF ImportTypes
  <2>4. Saved /\ Asked
    BY <2>1, <2>2 DEF Saved, Asked, Asks
  <2>5. Copied
    BY <2>1 DEF Copied
  <2> QED
    BY <2>3, <2>4, <2>5 DEF ImportInv
<1>2. ImportInv /\ [Next]_vars => ImportInv'
  <2> SUFFICES ASSUME ImportInv, [Next]_vars
               PROVE  ImportInv'
    OBVIOUS
  <2>1. Imports!Next \/ UNCHANGED importVars
    BY DEF Next, vars, PlapStep, ObjectsStep, MenusStep, StartingStep, TokensStep, MessagesStep,
           EnvStep, ProxiesStep, ImportsStep, ReaderStep
  <2>2. CASE UNCHANGED importVars
    BY <2>2 DEF importVars, ImportInv, ImportTypes, Saved, Asked, Copied, Asks
  <2>3. CASE Imports!Next
    <3>1. PICK j \in Jobs :
             \/ Imports!PressOk(j) \/ Imports!AnswerChallenge(j) \/ Imports!CancelDialog(j)
             \/ Imports!UserEdits
             \/ \E kind \in {"as", "url", "disk"} : Imports!OpenDialog(j, kind)
             \/ \E n \in Files : Imports!ImportArgument(j, n)
             \/ \E yes \in BOOLEAN : Imports!AnswerQuestion(j, yes)
      BY <2>3 DEF Imports!Next
    <3> QED
      BY <3>1, OkKeeps, DialogKeeps, EditsKeep, AnswerKeeps
  <2> QED
    BY <2>1, <2>2, <2>3
<1> QED
  BY <1>1, <1>2, PTL DEF Spec

\* An import replaces no file unasked, copies nothing but its own, and leaves no download.
THEOREM ImportsAreCareful == Spec => []ImportIsCareful
<1>1. ImportInv => ImportIsCareful
  <2> SUFFICES ASSUME ImportInv
               PROVE  Imports!ImportIsCareful
    BY DEF ImportIsCareful
  <2>1. DOMAIN copied = 1 .. Len(copied) /\ tmp \in [Files -> Jobs \cup {"none"}]
    BY DEF ImportInv, ImportTypes
  <2>2. loops = <<>> => \A n \in Files : tmp[n] = "none"
    <3> SUFFICES ASSUME loops = <<>>, NEW n \in Files, tmp[n] # "none"
                 PROVE  FALSE
      OBVIOUS
    <3>1. tmp[n] \in Jobs /\ Asks(tmp[n])
      BY <2>1 DEF ImportInv, Saved
    <3>2. Waits(tmp[n], <<>>)
      BY <3>1 DEF ImportInv, Asked
    <3> QED
      BY <3>2 DEF Waits
  <2> QED
    BY <2>1, <2>2 DEF ImportInv, Copied, Imports!ImportIsCareful, Imports!None
<1> QED
  BY <1>1, ImportKept, PTL

-----------------------------------------------------------------------------
(* Functions defined along a way that descends *)

\* What leads down to "Stop" by smaller and smaller numbers, and a function computed along it.
Descends(D, Stop, next, mu, b) ==
    /\ Stop \in SUBSET D /\ next \in [D -> D] /\ mu \in [D -> Nat] /\ b \in Nat
    /\ \A d \in D \ Stop : mu[next[d]] < mu[d]
    /\ \A d \in D : mu[d] < b

Computes(g, D, T, Stop, next, base, step) ==
    /\ g \in [D -> T]
    /\ \A d \in D : g[d] = IF d \in Stop THEN base[d] ELSE step[<<d, g[next[d]]>>]

\* A function defined along a way that descends exists.
LEMMA Recursion ==
    ASSUME NEW D, NEW T, NEW Stop, NEW next, NEW mu, NEW b, Descends(D, Stop, next, mu, b),
           NEW base \in [D -> T], NEW step \in [D \X T -> T]
    PROVE  \E g : Computes(g, D, T, Stop, next, base, step)
<1>0. /\ Stop \in SUBSET D /\ next \in [D -> D] /\ mu \in [D -> Nat] /\ b \in Nat
      /\ \A d \in D \ Stop : mu[next[d]] < mu[d]
      /\ \A d \in D : mu[d] < b
  BY DEF Descends
<1> DEFINE Value(g, d) == IF d \in Stop THEN base[d] ELSE step[<<d, g[next[d]]>>]
           N == {m \in Nat : \E g \in [D -> T] : \A d \in D : mu[d] < m => g[d] = Value(g, d)}
<1>1. 0 \in N
  <2>1. \A d \in D : ~ (mu[d] < 0)
    BY <1>0
  <2> QED
    BY <2>1
<1>2. ASSUME NEW m \in Nat, m \in N
      PROVE  m + 1 \in N
  <2>1. PICK g \in [D -> T] : \A d \in D : mu[d] < m => g[d] = Value(g, d)
    BY <1>2
  <2> DEFINE h == [d \in D |-> Value(g, d)]
  <2>2. h \in [D -> T]
    <3>1. \A d \in D : Value(g, d) \in T
      BY <1>0
    <3> QED
      BY <3>1, Zenon
  <2>3. ASSUME NEW d \in D, mu[d] < m + 1
        PROVE  h[d] = Value(h, d)
    <3>1. CASE d \in Stop
      BY <3>1
    <3>2. CASE d \notin Stop
      <4>1. next[d] \in D /\ mu[next[d]] < m
        <5>1. mu[next[d]] < mu[d] /\ mu[next[d]] \in Nat /\ mu[d] \in Nat
          BY <3>2, <1>0
        <5> QED
          BY <2>3, <5>1, <1>0
      <4>2. h[next[d]] = g[next[d]]
        BY <2>1, <4>1
      <4> QED
        BY <3>2, <4>2
    <3> QED
      BY <3>1, <3>2
  <2> HIDE DEF h, Value
  <2> QED
    BY <2>2, <2>3
<1>3. \A m \in Nat : m \in N
  <2> HIDE DEF N
  <2> QED
    BY <1>1, <1>2, NaturalSet
<1>4. PICK g \in [D -> T] : \A d \in D : mu[d] < b => g[d] = Value(g, d)
  BY <1>0, <1>3
<1> QED
  BY <1>0, <1>4 DEF Computes

\* What holds at the ends, and of all that leads to where it holds, holds everywhere.
LEMMA Descent ==
    ASSUME NEW D, NEW Stop, NEW next, NEW mu, NEW b, Descends(D, Stop, next, mu, b),
           NEW P, \A d \in D : d \in Stop \/ next[d] \in P => d \in P
    PROVE  \A d \in D : d \in P
<1>0. /\ Stop \in SUBSET D /\ next \in [D -> D] /\ mu \in [D -> Nat]
      /\ \A d \in D \ Stop : mu[next[d]] < mu[d]
  BY DEF Descends
<1> SUFFICES ASSUME NEW c \in D \ P
             PROVE  FALSE
  OBVIOUS
<1> DEFINE M == {mu[d] : d \in D \ P}
<1>1. M \subseteq Nat /\ M # {}
  BY <1>0
<1>2. PICK n \in M : \A m \in M : n <= m
  BY <1>1, LeastNatural
<1>3. PICK d \in D \ P : n = mu[d]
  BY <1>2
<1>4. d \notin Stop /\ next[d] \in D \ P
  BY <1>0
<1>5. mu[next[d]] \in M /\ mu[next[d]] < mu[d]
  BY <1>0, <1>4
<1>6. mu[next[d]] \in Nat /\ mu[d] \in Nat
  BY <1>0
<1> QED
  BY <1>2, <1>3, <1>5, <1>6

-----------------------------------------------------------------------------
(* Profiles *)

\* The directory each is in, and the place of each in the walk.
UpDir == [d \in Menus!Dirs |-> IF d \in SubDirs THEN ParentDir[d] ELSE d]
PlaceOf == [d \in Menus!Dirs |-> CHOOSE i \in 1 .. Len(Walk) : Walk[i] = d]

\* The directories of the menus and their roots.
LEMMA DirFacts ==
    /\ Menus!Roots \subseteq Menus!Dirs /\ SubDirs \subseteq Menus!Dirs
    /\ "user" \in Menus!Roots /\ "auto" \in Menus!Roots /\ "global" \in Menus!Roots
    /\ \A d \in Menus!Dirs : d \notin Menus!Roots <=> d \in SubDirs
    /\ \A d \in SubDirs : ParentDir[d] \in Menus!Dirs
    /\ UpDir \in [Menus!Dirs -> Menus!Dirs] /\ \A d \in SubDirs : UpDir[d] = ParentDir[d]
BY MenuAssumption DEF Menus!Dirs, Menus!Roots, UpDir

\* Where the walk first meets a directory.
LEMMA Places ==
    /\ PlaceOf \in [Menus!Dirs -> Nat]
    /\ \A d \in Menus!Dirs : PlaceOf[d] \in 1 .. Len(Walk) /\ Walk[PlaceOf[d]] = d
    /\ \A d \in Menus!Dirs \ Menus!Roots : PlaceOf[UpDir[d]] < PlaceOf[d]
    /\ Len(Walk) \in Nat
<1>1. Len(Walk) \in Nat /\ DOMAIN Walk = 1 .. Len(Walk) /\ 1 .. Len(Walk) \subseteq Nat
  BY MenuAssumption
<1>2. ASSUME NEW d \in Menus!Dirs
      PROVE  PlaceOf[d] \in 1 .. Len(Walk) /\ Walk[PlaceOf[d]] = d
  <2>1. \E i \in 1 .. Len(Walk) : Walk[i] = d
    BY <1>1, MenuAssumption
  <2>2. PlaceOf[d] = CHOOSE i \in 1 .. Len(Walk) : Walk[i] = d
    BY Zenon DEF PlaceOf
  <2> QED
    BY <2>1, <2>2
<1>3. PlaceOf \in [Menus!Dirs -> Nat]
  <2>1. \A d \in Menus!Dirs : PlaceOf[d] \in Nat
    BY <1>1, <1>2
  <2> QED
    BY <2>1, Zenon DEF PlaceOf
<1>4. ASSUME NEW d \in Menus!Dirs \ Menus!Roots
      PROVE  PlaceOf[UpDir[d]] < PlaceOf[d]
  <2>1. d \in SubDirs /\ UpDir[d] = ParentDir[d] /\ UpDir[d] \in Menus!Dirs
    BY DirFacts
  <2> DEFINE i == PlaceOf[UpDir[d]]
             j == PlaceOf[d]
  <2>2. i \in DOMAIN Walk /\ j \in DOMAIN Walk /\ Walk[i] = UpDir[d] /\ Walk[j] = d
    BY <1>1, <1>2, <2>1
  <2> HIDE DEF i, j
  <2>3. i < j
    BY <2>1, <2>2, MenuAssumption
  <2> QED
    BY <2>3 DEF i, j
<1> QED
  BY <1>1, <1>2, <1>3, <1>4

\* From a directory to the one it is in, the walk goes back.
LEMMA DirsDescend ==
    ASSUME NEW Stop \in SUBSET Menus!Dirs, Menus!Roots \subseteq Stop
    PROVE  Descends(Menus!Dirs, Stop, UpDir, PlaceOf, Len(Walk) + 1)
<1>1. Len(Walk) + 1 \in Nat /\ \A d \in Menus!Dirs : PlaceOf[d] < Len(Walk) + 1
  BY Places
<1>2. \A d \in Menus!Dirs \ Stop : PlaceOf[UpDir[d]] < PlaceOf[d]
  BY Places
<1>3. UpDir \in [Menus!Dirs -> Menus!Dirs] /\ PlaceOf \in [Menus!Dirs -> Nat]
  BY DirFacts, Places
<1> QED
  BY <1>1, <1>2, <1>3 DEF Descends

\* What holds of the roots and goes from a directory to those in it holds of all.
LEMMA DirDescent ==
    ASSUME NEW P, Menus!Roots \subseteq P, \A d \in SubDirs : ParentDir[d] \in P => d \in P
    PROVE  \A d \in Menus!Dirs : d \in P
<1>1. Descends(Menus!Dirs, Menus!Roots, UpDir, PlaceOf, Len(Walk) + 1)
  BY DirFacts, DirsDescend
<1>2. \A d \in Menus!Dirs : d \in Menus!Roots \/ UpDir[d] \in P => d \in P
  BY DirFacts
<1> QED
  BY ONLY <1>1, <1>2, Descent

\* The directory among "gs" that a directory is, or is in.
LEMMA GroupOfDirFacts ==
    ASSUME NEW gs \in SUBSET Menus!Dirs, Menus!Roots \subseteq gs
    PROVE  /\ Menus!GroupOfDir(gs) \in [Menus!Dirs -> gs]
           /\ \A d \in Menus!Dirs : Menus!GroupOfDir(gs)[d] =
                 IF d \in gs THEN d ELSE Menus!GroupOfDir(gs)[ParentDir[d]]
<1> DEFINE D == Menus!Dirs
           Is(g) == g = [d \in D |-> IF d \in gs THEN d ELSE g[ParentDir[d]]]
           group == CHOOSE g : Is(g)
           base == [d \in D |-> IF d \in gs THEN d ELSE "user"]
           step == [p \in D \X gs |-> p[2]]
<1>1. base \in [D -> gs] /\ step \in [D \X gs -> gs]
  BY DirFacts
<1>2. Descends(D, gs, UpDir, PlaceOf, Len(Walk) + 1)
  BY DirsDescend
<1>3. PICK g : Computes(g, D, gs, gs, UpDir, base, step)
  <2> HIDE DEF D, base, step
  <2> QED
    BY ONLY <1>1, <1>2, Recursion
<1>4. g \in [D -> gs]
  BY <1>3 DEF Computes
<1>5. ASSUME NEW d \in D
      PROVE  g[d] = IF d \in gs THEN d ELSE g[ParentDir[d]]
  <2>1. CASE d \in gs
    BY <1>3, <2>1 DEF Computes
  <2>2. CASE d \notin gs
    <3>1. UpDir[d] = ParentDir[d] /\ ParentDir[d] \in D
      BY <2>2, DirFacts
    <3>2. g[d] = step[<<d, g[UpDir[d]]>>]
      BY <1>3, <2>2 DEF Computes
    <3>3. g[ParentDir[d]] \in gs
      BY <1>4, <3>1
    <3> QED
      BY <2>2, <3>1, <3>2, <3>3
  <2> QED
    BY <2>1, <2>2
<1>6. Is(g)
  BY <1>4, <1>5
<1>7. Is(group)
  <2> HIDE DEF Is
  <2> QED
    BY <1>6
<1>8. group = Menus!GroupOfDir(gs)
  BY Zenon DEF Menus!GroupOfDir
<1> HIDE DEF group
<1>9. DOMAIN group = D /\ \A d \in D : group[d] = IF d \in gs THEN d ELSE group[ParentDir[d]]
  BY <1>7
<1>10. \A d \in D : group[d] \in gs
  <2> DEFINE P == {d \in D : group[d] \in gs}
  <2>1. Menus!Roots \subseteq P
    BY <1>9, DirFacts
  <2>2. \A d \in SubDirs : ParentDir[d] \in P => d \in P
    BY <1>9, DirFacts
  <2>3. \A d \in D : d \in P
    <3> HIDE DEF P
    <3> QED
      BY <2>1, <2>2, DirDescent
  <2> QED
    BY <2>3
<1> QED
  BY <1>7, <1>8, <1>9, <1>10

\* The root a directory is below.
LEMMA RootOfFacts ==
    /\ Menus!RootOf \in [Menus!Dirs -> Menus!Roots]
    /\ \A d \in Menus!Dirs : Menus!RootOf[d] = IF d \in Menus!Roots THEN d ELSE Menus!RootOf[ParentDir[d]]
<1> DEFINE D == Menus!Dirs
           R == Menus!Roots
           Is(g) == g = [d \in D |-> IF d \in R THEN d ELSE g[ParentDir[d]]]
           root == CHOOSE g : Is(g)
           base == [d \in D |-> IF d \in R THEN d ELSE "user"]
           step == [p \in D \X R |-> p[2]]
<1>1. base \in [D -> R] /\ step \in [D \X R -> R]
  BY DirFacts
<1>2. Descends(D, R, UpDir, PlaceOf, Len(Walk) + 1)
  BY DirFacts, DirsDescend
<1>3. PICK g : Computes(g, D, R, R, UpDir, base, step)
  <2> HIDE DEF D, R, base, step
  <2> QED
    BY ONLY <1>1, <1>2, Recursion
<1>4. g \in [D -> R]
  BY <1>3 DEF Computes
<1>5. ASSUME NEW d \in D
      PROVE  g[d] = IF d \in R THEN d ELSE g[ParentDir[d]]
  <2>1. CASE d \in R
    BY <1>3, <2>1 DEF Computes
  <2>2. CASE d \notin R
    <3>1. UpDir[d] = ParentDir[d] /\ ParentDir[d] \in D
      BY <2>2, DirFacts
    <3>2. g[d] = step[<<d, g[UpDir[d]]>>]
      BY <1>3, <2>2 DEF Computes
    <3>3. g[ParentDir[d]] \in R
      BY <1>4, <3>1
    <3> QED
      BY <2>2, <3>1, <3>2, <3>3
  <2> QED
    BY <2>1, <2>2
<1>6. Is(g)
  BY <1>4, <1>5
<1>7. Is(root)
  <2> HIDE DEF Is
  <2> QED
    BY <1>6
<1>8. root = Menus!RootOf
  BY Zenon DEF Menus!RootOf
<1> HIDE DEF root
<1>9. DOMAIN root = D /\ \A d \in D : root[d] = IF d \in R THEN d ELSE root[ParentDir[d]]
  BY <1>7
<1>10. \A d \in D : root[d] \in R
  <2> DEFINE P == {d \in D : root[d] \in R}
  <2>1. Menus!Roots \subseteq P
    BY <1>9, DirFacts
  <2>2. \A d \in SubDirs : ParentDir[d] \in P => d \in P
    BY <1>9, DirFacts
  <2>3. \A d \in D : d \in P
    <3> HIDE DEF P
    <3> QED
      BY <2>1, <2>2, DirDescent
  <2> QED
    BY <2>3
<1> QED
  BY <1>7, <1>8, <1>9, <1>10

\* Whether the recursion gets to a directory.
LEMMA ReachedFacts ==
    /\ Menus!Reached \in [Menus!Dirs -> BOOLEAN]
    /\ \A d \in Menus!Dirs : Menus!Reached[d] =
          IF d \in Menus!Roots THEN TRUE ELSE d \in present /\ Menus!Reached[ParentDir[d]]
<1> DEFINE D == Menus!Dirs
           R == Menus!Roots
           Is(g) == g = [d \in D |-> IF d \in R THEN TRUE ELSE d \in present /\ g[ParentDir[d]]]
           reach == CHOOSE g : Is(g)
           base == [d \in D |-> TRUE]
           step == [p \in D \X BOOLEAN |-> p[1] \in present /\ p[2]]
<1>1. base \in [D -> BOOLEAN] /\ step \in [D \X BOOLEAN -> BOOLEAN]
  BY Zenon
<1>2. Descends(D, R, UpDir, PlaceOf, Len(Walk) + 1)
  BY DirFacts, DirsDescend
<1>3. PICK g : Computes(g, D, BOOLEAN, R, UpDir, base, step)
  <2> HIDE DEF D, R, base, step
  <2> QED
    BY ONLY <1>1, <1>2, Recursion
<1>4. g \in [D -> BOOLEAN]
  BY <1>3 DEF Computes
<1>5. ASSUME NEW d \in D
      PROVE  g[d] = IF d \in R THEN TRUE ELSE d \in present /\ g[ParentDir[d]]
  <2>1. CASE d \in R
    BY <1>3, <2>1 DEF Computes
  <2>2. CASE d \notin R
    <3>1. UpDir[d] = ParentDir[d] /\ ParentDir[d] \in D
      BY <2>2, DirFacts
    <3>2. g[d] = step[<<d, g[UpDir[d]]>>]
      BY <1>3, <2>2 DEF Computes
    <3>3. g[ParentDir[d]] \in BOOLEAN
      BY <1>4, <3>1
    <3>4. step[<<d, g[ParentDir[d]]>>] = (d \in present /\ g[ParentDir[d]])
      BY <3>3, Zenon
    <3> QED
      BY <2>2, <3>1, <3>2, <3>4
  <2> QED
    BY <2>1, <2>2
<1>6. Is(g)
  <2>1. \A d \in D : g[d] = [e \in D |-> IF e \in R THEN TRUE ELSE e \in present /\ g[ParentDir[e]]][d]
    BY <1>5, Zenon
  <2> QED
    BY <1>4, <2>1, Zenon
<1>7. Is(reach)
  <2> HIDE DEF Is
  <2> QED
    BY <1>6
<1>8. reach = Menus!Reached
  BY Zenon DEF Menus!Reached
<1> HIDE DEF reach
<1>9. DOMAIN reach = D /\ \A d \in D : reach[d] = IF d \in R THEN TRUE ELSE d \in present /\ reach[ParentDir[d]]
  BY <1>7, Zenon
<1>10. \A d \in D : reach[d] \in BOOLEAN
  <2> TAKE d \in D
  <2>1. reach[d] = IF d \in R THEN TRUE ELSE d \in present /\ reach[ParentDir[d]]
    BY <1>9
  <2> QED
    BY <2>1, Zenon
<1>11. reach \in [D -> BOOLEAN]
  BY <1>7, <1>10, Zenon
<1> QED
  BY <1>8, <1>9, <1>11, Zenon

\* The groups above a group, up to the root of all.
UpGroup == [g \in Menus!Dirs |-> Menus!ParentGroup(g)]
LevelOf == [g \in Menus!Dirs |-> IF g = "user" THEN 0 ELSE IF g \in Menus!Roots THEN 1
                                 ELSE PlaceOf[g] + 1]

\* From a group to its parent the way descends to the group of the user.
LEMMA GroupsDescend ==
    /\ \A g \in Menus!Dirs : Menus!ParentGroup(g) \in Menus!Dirs /\ UpGroup[g] = Menus!ParentGroup(g)
    /\ Descends(Menus!Dirs, {"user"}, UpGroup, LevelOf, Len(Walk) + 3)
<1>1. \A g \in Menus!Dirs : Menus!ParentGroup(g) \in Menus!Dirs /\ UpGroup[g] = Menus!ParentGroup(g)
  BY DirFacts DEF Menus!ParentGroup, UpGroup
<1>2. UpGroup \in [Menus!Dirs -> Menus!Dirs]
  BY <1>1, Zenon DEF UpGroup
<1>3. ASSUME NEW g \in Menus!Dirs
      PROVE  LevelOf[g] \in Nat /\ LevelOf[g] < Len(Walk) + 3
  BY Places DEF LevelOf
<1>4. LevelOf \in [Menus!Dirs -> Nat]
  BY <1>3, Zenon DEF LevelOf
<1>5. ASSUME NEW g \in Menus!Dirs \ {"user"}
      PROVE  LevelOf[UpGroup[g]] < LevelOf[g]
  <2>1. CASE g \in Menus!Roots
    <3>1. UpGroup[g] = "user" /\ "user" \in Menus!Dirs
      BY <1>1, <2>1, DirFacts DEF Menus!ParentGroup
    <3> QED
      BY <2>1, <3>1 DEF LevelOf
  <2>2. CASE g \notin Menus!Roots
    <3>1. g \in SubDirs /\ UpGroup[g] = ParentDir[g] /\ UpGroup[g] = UpDir[g] /\ UpDir[g] \in Menus!Dirs
      BY <1>1, <2>2, DirFacts DEF Menus!ParentGroup
    <3>2. PlaceOf[UpDir[g]] < PlaceOf[g] /\ PlaceOf[g] \in 1 .. Len(Walk) /\ PlaceOf[UpDir[g]] \in 1 .. Len(Walk)
          /\ Len(Walk) \in Nat
      BY <2>2, <3>1, Places
    <3>3. LevelOf[g] = PlaceOf[g] + 1
      BY <2>2, DirFacts DEF LevelOf
    <3>4. LevelOf[UpDir[g]] \in {0, 1, PlaceOf[UpDir[g]] + 1}
      BY <3>1 DEF LevelOf
    <3> QED
      BY <3>1, <3>2, <3>3, <3>4
  <2> QED
    BY <2>1, <2>2
<1>6. Len(Walk) + 3 \in Nat /\ {"user"} \in SUBSET Menus!Dirs
  BY Places, DirFacts
<1> QED
  BY <1>1, <1>2, <1>3, <1>4, <1>5, <1>6 DEF Descends

\* The ancestors of a group are itself and those of its parent.
LEMMA AncestorsFacts ==
    /\ Menus!Ancestors \in [Menus!Dirs -> SUBSET Menus!Dirs]
    /\ \A g \in Menus!Dirs : Menus!Ancestors[g] =
          IF g = "user" THEN {g} ELSE {g} \cup Menus!Ancestors[Menus!ParentGroup(g)]
<1> DEFINE D == Menus!Dirs
           U == {"user"}
           T == SUBSET D
           Is(a) == a = [g \in D |-> IF g = "user" THEN {g} ELSE {g} \cup a[Menus!ParentGroup(g)]]
           all == CHOOSE a : Is(a)
           base == [g \in D |-> {g}]
           step == [p \in D \X T |-> {p[1]} \cup p[2]]
<1>1. base \in [D -> T] /\ step \in [D \X T -> T]
  OBVIOUS
<1>2. Descends(D, U, UpGroup, LevelOf, Len(Walk) + 3)
  BY GroupsDescend
<1>3. PICK a : Computes(a, D, T, U, UpGroup, base, step)
  <2> HIDE DEF D, U, T, base, step
  <2> QED
    BY ONLY <1>1, <1>2, Recursion
<1>4. a \in [D -> T]
  BY <1>3 DEF Computes
<1>5. ASSUME NEW g \in D
      PROVE  a[g] = IF g = "user" THEN {g} ELSE {g} \cup a[Menus!ParentGroup(g)]
  <2>1. CASE g = "user"
    BY <1>3, <2>1 DEF Computes
  <2>2. CASE g # "user"
    <3>1. UpGroup[g] = Menus!ParentGroup(g) /\ UpGroup[g] \in D
      BY GroupsDescend
    <3>2. a[g] = step[<<g, a[UpGroup[g]]>>]
      BY <1>3, <2>2 DEF Computes
    <3>3. a[UpGroup[g]] \in T
      BY <1>4, <3>1
    <3> QED
      BY <2>2, <3>1, <3>2, <3>3
  <2> QED
    BY <2>1, <2>2
<1>6. Is(a)
  BY <1>4, <1>5
<1>7. Is(all)
  <2> HIDE DEF Is
  <2> QED
    BY <1>6
<1>8. all = Menus!Ancestors
  BY Zenon DEF Menus!Ancestors
<1> HIDE DEF all
<1>9. DOMAIN all = D /\ \A g \in D : all[g] = IF g = "user" THEN {g} ELSE {g} \cup all[Menus!ParentGroup(g)]
  BY <1>7
<1>10. \A g \in D : all[g] \in T
  <2> DEFINE P == {g \in D : all[g] \in T}
  <2>1. \A g \in D : g \in U \/ UpGroup[g] \in P => g \in P
    <3> TAKE g \in D
    <3>1. UpGroup[g] = Menus!ParentGroup(g)
      BY GroupsDescend
    <3>2. CASE g = "user"
      BY <1>9, <3>2
    <3>3. CASE g # "user" /\ UpGroup[g] \in P
      BY <1>9, <3>1, <3>3
    <3> QED
      BY <3>2, <3>3
  <2>2. \A g \in D : g \in P
    <3> HIDE DEF P, U, D
    <3> QED
      BY ONLY <1>2, <2>1, Descent
  <2> QED
    BY <2>2
<1> QED
  BY <1>7, <1>8, <1>9, <1>10

FineGroups(gs) ==
    /\ gs \in SUBSET Menus!Dirs /\ Menus!Roots \subseteq gs
    /\ \A g \in gs : Menus!ParentGroup(g) \in gs

\* A group is its own ancestor, and the parent of an ancestor is one.
LEMMA AncestorsClosed ==
    ASSUME NEW g \in Menus!Dirs
    PROVE  /\ g \in Menus!Ancestors[g]
           /\ \A h \in Menus!Ancestors[g] \ {"user"} : Menus!ParentGroup(h) \in Menus!Ancestors[g]
<1> DEFINE D == Menus!Dirs
           U == {"user"}
           P == {f \in D : /\ f \in Menus!Ancestors[f]
                           /\ \A h \in Menus!Ancestors[f] \ U : Menus!ParentGroup(h) \in Menus!Ancestors[f]}
<1>1. \A f \in D : f \in U \/ UpGroup[f] \in P => f \in P
  <2> TAKE f \in D
  <2>1. Menus!Ancestors[f] = IF f = "user" THEN {f} ELSE {f} \cup Menus!Ancestors[Menus!ParentGroup(f)]
    BY AncestorsFacts
  <2>2. UpGroup[f] = Menus!ParentGroup(f)
    BY GroupsDescend
  <2> QED
    BY <2>1, <2>2
<1>2. Descends(D, U, UpGroup, LevelOf, Len(Walk) + 3)
  BY GroupsDescend
<1>3. \A f \in D : f \in P
  <2> HIDE DEF P, U, D
  <2> QED
    BY ONLY <1>1, <1>2, Descent
<1> QED
  BY <1>3

\* The ancestors of a group of the list are groups of the list.
LEMMA AncestorsAmong ==
    ASSUME NEW gs, FineGroups(gs), NEW g \in gs
    PROVE  Menus!Ancestors[g] \subseteq gs
<1> DEFINE D == Menus!Dirs
           U == {"user"}
           P == {f \in D : f \in gs => Menus!Ancestors[f] \subseteq gs}
<1>1. \A f \in D : f \in U \/ UpGroup[f] \in P => f \in P
  <2> TAKE f \in D
  <2>1. Menus!Ancestors[f] = IF f = "user" THEN {f} ELSE {f} \cup Menus!Ancestors[Menus!ParentGroup(f)]
    BY AncestorsFacts
  <2>2. UpGroup[f] = Menus!ParentGroup(f)
    BY GroupsDescend
  <2> QED
    BY <2>1, <2>2 DEF FineGroups
<1>2. Descends(D, U, UpGroup, LevelOf, Len(Walk) + 3)
  BY GroupsDescend
<1>3. \A f \in D : f \in P
  <2> HIDE DEF P, U, D
  <2> QED
    BY ONLY <1>1, <1>2, Descent
<1> QED
  BY <1>3 DEF FineGroups

\* The root of a directory is above its group.
LEMMA RootAbove ==
    ASSUME NEW gs, FineGroups(gs), NEW d \in Menus!Dirs
    PROVE  Menus!RootOf[d] \in Menus!Ancestors[Menus!GroupOfDir(gs)[d]]
<1> DEFINE D == Menus!Dirs
           G == Menus!GroupOfDir(gs)
           P == {f \in D : Menus!RootOf[f] \in Menus!Ancestors[f]}
           Q == {f \in D : Menus!RootOf[G[f]] = Menus!RootOf[f]}
<1>1. /\ G \in [D -> gs] /\ gs \subseteq D /\ Menus!Roots \subseteq gs
      /\ \A f \in D : G[f] = IF f \in gs THEN f ELSE G[ParentDir[f]]
  BY GroupOfDirFacts DEF FineGroups
<1> HIDE DEF G
<1>2. \A f \in D : f \in P
  <2>1. Menus!Roots \subseteq P
    BY RootOfFacts, AncestorsClosed, DirFacts
  <2>2. ASSUME NEW f \in SubDirs, ParentDir[f] \in P
        PROVE  f \in P
    <3>1. f \in D /\ f \notin Menus!Roots /\ f # "user"
      BY DirFacts
    <3>2. Menus!RootOf[f] = Menus!RootOf[ParentDir[f]] /\ Menus!ParentGroup(f) = ParentDir[f]
      BY <3>1, RootOfFacts DEF Menus!ParentGroup
    <3>3. Menus!Ancestors[f] = {f} \cup Menus!Ancestors[ParentDir[f]]
      BY <3>1, <3>2, AncestorsFacts
    <3> QED
      BY <2>2, <3>1, <3>2, <3>3
  <2> HIDE DEF P
  <2> QED
    BY <2>1, <2>2, DirDescent
<1>3. \A f \in D : f \in Q
  <2>1. Menus!Roots \subseteq Q
    BY <1>1, DirFacts
  <2>2. ASSUME NEW f \in SubDirs, ParentDir[f] \in Q
        PROVE  f \in Q
    <3>1. f \in D /\ f \notin Menus!Roots
      BY DirFacts
    <3>2. Menus!RootOf[f] = Menus!RootOf[ParentDir[f]]
      BY <3>1, RootOfFacts
    <3> QED
      BY <1>1, <2>2, <3>1, <3>2
  <2> HIDE DEF Q
  <2> QED
    BY <2>1, <2>2, DirDescent
<1>4. Menus!RootOf[G[d]] \in Menus!Ancestors[G[d]] /\ Menus!RootOf[G[d]] = Menus!RootOf[d]
  BY <1>1, <1>2, <1>3
<1> QED
  BY <1>4 DEF G

\* The groups of the first list are a tree.
LEMMA ScannedTree ==
    ASSUME present \subseteq SubDirs, profiles # <<>> => FineGroups(groups)
    PROVE  FineGroups(Menus!ScannedGroups)
<1> DEFINE gs == Menus!Roots \cup {d \in present : Menus!Scanned(d)}
<1>1. ASSUME NEW g \in gs
      PROVE  Menus!ParentGroup(g) \in gs
  <2>1. CASE g \in Menus!Roots
    BY <2>1, DirFacts DEF Menus!ParentGroup
  <2>2. CASE g \notin Menus!Roots
    <3>1. /\ g \in present /\ g \in SubDirs /\ Menus!Scanned(g) /\ g \in Menus!Dirs
          /\ ParentDir[g] \in Menus!Dirs /\ Menus!ParentGroup(g) = ParentDir[g]
      BY <2>2, DirFacts DEF Menus!ParentGroup
    <3>2. /\ Menus!Reached[g] = (g \in present /\ Menus!Reached[ParentDir[g]])
          /\ Menus!RootOf[g] = Menus!RootOf[ParentDir[g]]
      BY <2>2, <3>1, RootOfFacts, ReachedFacts
    <3>3. Menus!Scanned(ParentDir[g])
      BY <3>1, <3>2 DEF Menus!Scanned
    <3>4. ParentDir[g] \in Menus!Roots \/ ParentDir[g] \in present
      BY <3>1, <3>3, ReachedFacts DEF Menus!Scanned
    <3> QED
      BY <3>1, <3>3, <3>4
  <2> QED
    BY <2>1, <2>2
<1>2. gs \in SUBSET Menus!Dirs /\ Menus!Roots \subseteq gs
  BY DirFacts
<1>3. FineGroups(gs)
  BY <1>1, <1>2 DEF FineGroups
<1> QED
  BY <1>3 DEF Menus!ScannedGroups

-----------------------------------------------------------------------------
\* The instance of the desktop picks as the module itself does.
LEMMA MenusOnly == \A s, S : Menus!Only(s, S) = Only(s, S)
BY Zenon DEF Menus!Only, Only, Menus!FoldLeft, FoldLeft, Menus!MapThenFoldSet, MapThenFoldSet,
             Menus!Max, Max

\* The instance of the desktop counts as the module itself does.
LEMMA MenusCardinality == \A S : Menus!Cardinality(S) = Cardinality(S)
BY Zenon DEF Menus!Cardinality, Cardinality

\* A sequence in which nothing is twice.
Once(s) == \A i, k \in 1 .. Len(s) : s[i] = s[k] => i = k

\* What is picked from such a sequence is another one, of all the elements that are in the set.
LEMMA PickedOnce ==
    ASSUME NEW E, NEW s \in Seq(E), Once(s), NEW S, NEW t, t = Only(s, S)
    PROVE  /\ t \in Seq(E) /\ Once(t)
           /\ \A k \in 1 .. Len(t) : t[k] \in S /\ \E i \in 1 .. Len(s) : s[i] = t[k]
           /\ \A i \in 1 .. Len(s) : s[i] \in S => \E k \in 1 .. Len(t) : t[k] = s[i]
<1> DEFINE R(i) == Rank(s, S, i)
<1>1. /\ t \in Seq(E)
      /\ \A i \in 1 .. Len(s) : s[i] \in S => R(i) \in 1 .. Len(t) /\ t[R(i)] = s[i]
      /\ \A k \in 1 .. Len(t) : \E i \in 1 .. Len(s) : s[i] \in S /\ R(i) = k /\ t[k] = s[i]
  <2>1. \A i : R(i) = Rank(s, S, i)
    OBVIOUS
  <2> HIDE DEF R
  <2> QED
    BY <2>1, OnlyRanks
<1> HIDE DEF R
<1>2. Once(t)
  <2> SUFFICES ASSUME NEW k \in 1 .. Len(t), NEW m \in 1 .. Len(t), t[k] = t[m]
               PROVE  k = m
    BY DEF Once
  <2>1. PICK i \in 1 .. Len(s) : R(i) = k /\ t[k] = s[i]
    BY <1>1
  <2>2. PICK j \in 1 .. Len(s) : R(j) = m /\ t[m] = s[j]
    BY <1>1
  <2>3. i = j
    BY <2>1, <2>2 DEF Once
  <2> QED
    BY <2>1, <2>2, <2>3
<1> QED
  BY <1>1, <1>2

\* A sequence without repetition is as long as the set of its elements.
LEMMA OnceLength ==
    ASSUME NEW E, NEW s \in Seq(E), Once(s)
    PROVE  Cardinality({s[i] : i \in 1 .. Len(s)}) = Len(s)
<1> DEFINE T == {s[i] : i \in 1 .. Len(s)}
           f == [i \in 1 .. Len(s) |-> s[i]]
           I == 1 .. Len(s)
<1>1. IsFiniteSet(I) /\ Cardinality(I) = Len(s)
  <2> DEFINE n == Len(s)
  <2>1. n \in Nat
    OBVIOUS
  <2> HIDE DEF n
  <2>2. IsFiniteSet(1 .. n) /\ Cardinality(1 .. n) = n
    BY <2>1, FS_Interval
  <2> QED
    BY <2>2 DEF n
<1>2. f \in [I -> T] /\ (\A a, b \in I : f[a] = f[b] => a = b) /\ (\A t \in T : \E i \in I : f[i] = t)
  BY DEF Once
<1> HIDE DEF f, T, I
<1>3. f \in Bijection(I, T)
  BY <1>2, Fun_IsBij
<1>4. ExistsBijection(I, T)
  BY <1>3 DEF ExistsBijection
<1>5. Cardinality(T) = Cardinality(I)
  BY <1>1, <1>4, FS_Bijection
<1> QED
  BY <1>1, <1>5 DEF T

ListEntries == [name : Names, dir : Menus!Dirs, group : Menus!Dirs, persistent : BOOLEAN,
                disabled : BOOLEAN]

FineList(l, gs) ==
    /\ l \in Seq(ListEntries)
    /\ \A i, k \in 1 .. Len(l) : l[i].name = l[k].name => i = k
    /\ \A i \in 1 .. Len(l) : l[i].group \in gs /\ (l[i].persistent => "auto" \in Menus!Ancestors[l[i].group])

\* Each group with a menu is attached once, except the root of the tray menu.
LEMMA AttachedFacts ==
    ASSUME NEW gs, FineGroups(gs), NEW l, NEW A, A = Menus!Attached(l, gs)
    PROVE  /\ A \in Seq(Menus!Dirs) /\ Once(A)
           /\ \A g \in gs \ {"user"} : g \in Menus!ActiveGroups(l) /\ (nested \/ g = "auto")
                 => \E k \in 1 .. Len(A) : A[k] = g
<1> DEFINE S == gs \ Menus!Roots
           W == Only(Walk, S)
           B == <<"auto", "global">> \o W
           V == {g \in Menus!ActiveGroups(l) : nested \/ g = "auto"}
<1>1. Walk \in Seq(Menus!Dirs) /\ Once(Walk) /\ \A d \in Menus!Dirs : \E i \in 1 .. Len(Walk) : Walk[i] = d
  <2>1. Walk \in Seq(Menus!Dirs) /\ DOMAIN Walk = 1 .. Len(Walk)
    BY MenuAssumption
  <2>2. Once(Walk)
    <3>1. \A i, k \in DOMAIN Walk : Walk[i] = Walk[k] => i = k
      BY MenuAssumption, Zenon
    <3> QED
      BY ONLY <2>1, <3>1 DEF Once
  <2>3. \A d \in Menus!Dirs : \E i \in 1 .. Len(Walk) : Walk[i] = d
    BY <2>1, MenuAssumption
  <2> QED
    BY <2>1, <2>2, <2>3
<1>2. /\ W \in Seq(Menus!Dirs) /\ Once(W) /\ \A k \in 1 .. Len(W) : W[k] \in S
      /\ \A i \in 1 .. Len(Walk) : Walk[i] \in S => \E k \in 1 .. Len(W) : W[k] = Walk[i]
  <2>1. W = Only(Walk, S)
    OBVIOUS
  <2>2. Walk \in Seq(Menus!Dirs) /\ Once(Walk)
    BY <1>1
  <2> HIDE DEF W, S
  <2> QED
    BY ONLY <2>1, <2>2, PickedOnce
<1>3. /\ B \in Seq(Menus!Dirs) /\ Len(B) = Len(W) + 2 /\ B[1] = "auto" /\ B[2] = "global"
      /\ \A k \in 1 .. Len(W) : B[k + 2] = W[k]
  <2> HIDE DEF W
  <2> QED
    BY <1>2, DirFacts
<1>4. A = Only(B, V)
  <2>1. Menus!GroupOrder(gs) = <<"user", "auto", "global">> \o W
    BY MenusOnly DEF Menus!GroupOrder
  <2>2. Tail(<<"user", "auto", "global">> \o W) = B
    <3> HIDE DEF W
    <3> QED
      BY <1>2
  <2> HIDE DEF B, W
  <2>3. Menus!Attached(l, gs) = Menus!Only(B, V)
    BY <2>1, <2>2 DEF Menus!Attached
  <2> HIDE DEF V
  <2> QED
    BY <2>3, MenusOnly
<1> HIDE DEF B, W, V
<1>5. Once(B)
  <2>1. \A k \in 1 .. Len(B) : k = 1 \/ k = 2 \/ (k - 2 \in 1 .. Len(W) /\ B[k] = W[k - 2] /\ B[k] \notin Menus!Roots)
    <3> TAKE k \in 1 .. Len(B)
    <3>1. Len(W) \in Nat
      BY <1>2
    <3>2. k = 1 \/ k = 2 \/ k - 2 \in 1 .. Len(W)
      BY <1>3, <3>1
    <3>3. k - 2 \in 1 .. Len(W) => B[(k - 2) + 2] = W[k - 2] /\ (k - 2) + 2 = k
      BY <1>3
    <3> QED
      BY <1>2, <3>2, <3>3
  <2>2. "auto" \in Menus!Roots /\ "global" \in Menus!Roots /\ "auto" # "global"
    BY DirFacts
  <2> SUFFICES ASSUME NEW i \in 1 .. Len(B), NEW k \in 1 .. Len(B), B[i] = B[k]
               PROVE  i = k
    BY DEF Once
  <2>3. CASE i \in {1, 2} \/ k \in {1, 2}
    BY <1>3, <2>1, <2>2, <2>3
  <2>4. CASE ~ (i \in {1, 2} \/ k \in {1, 2})
    <3>1. i - 2 \in 1 .. Len(W) /\ k - 2 \in 1 .. Len(W) /\ W[i - 2] = W[k - 2]
      BY <2>1, <2>4
    <3>2. i - 2 = k - 2
      BY <1>2, <3>1 DEF Once
    <3> QED
      BY <3>2
  <2> QED
    BY <2>3, <2>4
<1>6. \A g \in gs \ {"user"} : \E k \in 1 .. Len(B) : B[k] = g
  <2> TAKE g \in gs \ {"user"}
  <2>1. Len(W) \in Nat
    BY <1>2
  <2>2. CASE g \in Menus!Roots
    BY <1>3, <2>1, <2>2 DEF Menus!Roots
  <2>3. CASE g \notin Menus!Roots
    <3>1. g \in Menus!Dirs
      BY DEF FineGroups
    <3>2. PICK i \in 1 .. Len(Walk) : Walk[i] = g
      BY <1>1, <3>1
    <3>3. PICK k \in 1 .. Len(W) : W[k] = g
      BY <1>2, <2>3, <3>2
    <3>4. k + 2 \in 1 .. Len(B) /\ B[k + 2] = g
      BY <1>3, <2>1, <3>3
    <3> QED
      BY <3>4
  <2> QED
    BY <2>2, <2>3
<1>7. /\ A \in Seq(Menus!Dirs) /\ Once(A)
      /\ \A i \in 1 .. Len(B) : B[i] \in V => \E k \in 1 .. Len(A) : A[k] = B[i]
  <2>1. B \in Seq(Menus!Dirs)
    BY <1>3
  <2> QED
    BY ONLY <2>1, <1>4, <1>5, PickedOnce
<1> QED
  BY <1>6, <1>7 DEF V

\* The sub-menus of a menu, in order: what is attached below it.
LEMMA SubMenusFacts ==
    ASSUME NEW gs, FineGroups(gs), NEW l, NEW p \in Menus!Dirs, NEW t, t = Menus!SubMenus(l, gs, p)
    PROVE  /\ t \in Seq(Menus!Dirs)
           /\ Cardinality({h \in Menus!ToSet(Menus!Attached(l, gs)) : Menus!ParentGroup(h) = p}) = Len(t)
           /\ \A g \in gs \ {"user"} : /\ g \in Menus!ActiveGroups(l) /\ (nested \/ g = "auto")
                                       /\ Menus!ParentGroup(g) = p
                 => \E k \in 1 .. Len(t) : t[k] = g
<1> DEFINE A == Menus!Attached(l, gs)
           V == {h \in Menus!Dirs : Menus!ParentGroup(h) = p}
<1>1. /\ A \in Seq(Menus!Dirs) /\ Once(A)
      /\ \A g \in gs \ {"user"} : g \in Menus!ActiveGroups(l) /\ (nested \/ g = "auto")
            => \E k \in 1 .. Len(A) : A[k] = g
  <2>1. A = Menus!Attached(l, gs)
    OBVIOUS
  <2> HIDE DEF A
  <2> QED
    BY ONLY <2>1, FineGroups(gs), AttachedFacts
<1>2. t = Only(A, V)
  BY MenusOnly DEF Menus!SubMenus
<1> HIDE DEF A
<1>3. /\ t \in Seq(Menus!Dirs) /\ Once(t)
      /\ \A k \in 1 .. Len(t) : t[k] \in V /\ \E i \in 1 .. Len(A) : A[i] = t[k]
      /\ \A i \in 1 .. Len(A) : A[i] \in V => \E k \in 1 .. Len(t) : t[k] = A[i]
  <2> HIDE DEF V
  <2> QED
    BY <1>1, <1>2, PickedOnce
<1>4. {h \in Menus!ToSet(A) : Menus!ParentGroup(h) = p} = {t[k] : k \in 1 .. Len(t)}
  <2>1. Menus!ToSet(A) = {A[i] : i \in 1 .. Len(A)}
    BY <1>1 DEF Menus!ToSet
  <2>2. \A i \in 1 .. Len(A) : A[i] \in Menus!Dirs
    BY <1>1
  <2>3. \A g : g \in {h \in Menus!ToSet(A) : Menus!ParentGroup(h) = p} <=> g \in {t[k] : k \in 1 .. Len(t)}
    BY <1>3, <2>1, <2>2
  <2> QED
    BY <2>3
<1>5. Cardinality({t[k] : k \in 1 .. Len(t)}) = Len(t)
  BY <1>3, OnceLength
<1>6. \A g \in gs : g \in Menus!Dirs
  BY DEF FineGroups
<1>7. ASSUME NEW g \in gs \ {"user"}, g \in Menus!ActiveGroups(l), nested \/ g = "auto",
             Menus!ParentGroup(g) = p
      PROVE  \E k \in 1 .. Len(t) : t[k] = g
  <2>1. PICK i \in 1 .. Len(A) : A[i] = g
    BY <1>1, <1>7, Zenon
  <2>2. A[i] \in V
    BY <1>6, <1>7, <2>1, Zenon
  <2> QED
    BY <1>3, <2>1, <2>2, Zenon
<1>8. Cardinality({h \in Menus!ToSet(Menus!Attached(l, gs)) : Menus!ParentGroup(h) = p}) = Len(t)
  BY <1>4, <1>5, Zenon DEF A
<1> QED
  BY <1>3, <1>7, <1>8, Zenon

-----------------------------------------------------------------------------
\* The menu that holds a profile and those above it are active and attached.
LEMMA HolderActive ==
    ASSUME NEW gs, FineGroups(gs), NEW l, FineList(l, gs), nested \in BOOLEAN,
           NEW i \in 1 .. Len(l), NEW h, h = Menus!HolderOf(l[i])
    PROVE  /\ h \in gs /\ h \in Menus!Dirs /\ h \in Menus!ActiveGroups(l)
           /\ \A g \in Menus!Ancestors[h] \ {"user"} :
                 /\ g \in gs /\ g \in Menus!Dirs /\ g \in Menus!ActiveGroups(l) /\ (nested \/ g = "auto")
                 /\ Menus!ParentGroup(g) \in Menus!ActiveGroups(l) /\ Menus!ParentGroup(g) \in Menus!Dirs
<1> DEFINE e == l[i]
<1>1. /\ e \in ListEntries /\ e.group \in gs /\ e.group \in Menus!Dirs /\ e.persistent \in BOOLEAN
      /\ (e.persistent => "auto" \in Menus!Ancestors[e.group])
  <2>1. e \in ListEntries
    BY DEF FineList
  <2> QED
    BY <2>1 DEF FineList, ListEntries, FineGroups
<1>2. Menus!Ancestors[e.group] \subseteq Menus!ActiveGroups(l) /\ "user" \in Menus!ActiveGroups(l)
  <2>1. i \in DOMAIN l
    BY DEF FineList
  <2> QED
    BY <2>1 DEF Menus!ActiveGroups
<1> HIDE DEF e
<1>3. /\ e.group \in Menus!Ancestors[e.group] /\ Menus!Ancestors[e.group] \subseteq gs
      /\ \A g \in Menus!Ancestors[e.group] \ {"user"} : Menus!ParentGroup(g) \in Menus!Ancestors[e.group]
  BY <1>1, AncestorsClosed, AncestorsAmong
<1>4. gs \subseteq Menus!Dirs /\ Menus!Roots \subseteq gs
  BY DEF FineGroups
<1>5. CASE nested
  <2>1. h = e.group
    BY <1>5 DEF Menus!HolderOf, e
  <2> QED
    BY <1>1, <1>2, <1>3, <1>4, <1>5, <2>1
<1>6. CASE ~nested
  <2>1. h = IF e.persistent THEN "auto" ELSE "user"
    BY <1>6 DEF Menus!HolderOf, e
  <2>2. Menus!Ancestors["user"] = {"user"} /\ Menus!Ancestors["auto"] = {"auto", "user"}
    <3>1. "auto" \in Menus!Dirs /\ "user" \in Menus!Dirs /\ "auto" # "user" /\ Menus!ParentGroup("auto") = "user"
      BY DirFacts DEF Menus!ParentGroup
    <3>2. Menus!Ancestors["user"] = {"user"}
      BY <3>1, AncestorsFacts
    <3>3. Menus!Ancestors["auto"] = {"auto"} \cup Menus!Ancestors["user"]
      BY <3>1, AncestorsFacts
    <3> QED
      BY <3>2, <3>3
  <2>3. Menus!ParentGroup("auto") = "user" /\ "user" \in gs /\ "auto" \in gs
    BY <1>4, DirFacts DEF Menus!ParentGroup
  <2>4. CASE e.persistent
    BY <1>1, <1>2, <1>3, <1>4, <2>1, <2>2, <2>3, <2>4
  <2>5. CASE ~e.persistent
    BY <1>1, <1>2, <1>4, <2>1, <2>2, <2>3, <2>5
  <2> QED
    BY <1>1, <2>4, <2>5
<1> QED
  BY <1>5, <1>6

\* The items menus are made of, and the places of the profiles among all.
ItemsOfList(l) == {Menus!Group(h) : h \in Menus!Dirs} \cup {Menus!Profile(i) : i \in 1 .. Len(l)}
Held(l, h) == Only([i \in DOMAIN l |-> i], {i \in DOMAIN l : Menus!HolderOf(l[i]) = h})

\* The profiles held by a group, each once.
LEMMA HeldFacts ==
    ASSUME NEW l \in Seq(ListEntries), NEW h, NEW t, t = Held(l, h)
    PROVE  /\ t \in Seq(1 .. Len(l))
           /\ \A i \in 1 .. Len(l) : Menus!HolderOf(l[i]) = h =>
                 LET r == Cardinality({j \in 1 .. i : Menus!HolderOf(l[j]) = h})
                 IN  r \in 1 .. Len(t) /\ t[r] = i
<1> DEFINE s == [i \in DOMAIN l |-> i]
           S == {i \in DOMAIN l : Menus!HolderOf(l[i]) = h}
           R(i) == Rank(s, S, i)
<1>1. DOMAIN l = 1 .. Len(l) /\ Len(l) \in Nat
  OBVIOUS
<1>2. s \in Seq(1 .. Len(l)) /\ Len(s) = Len(l) /\ \A i \in 1 .. Len(l) : s[i] = i
  BY <1>1
<1>3. t = Only(s, S)
  BY DEF Held
<1>4. \A i \in 1 .. Len(l) : s[i] \in S <=> Menus!HolderOf(l[i]) = h
  BY <1>1, <1>2
<1>5. \A i \in 1 .. Len(l) : R(i) = Cardinality({j \in 1 .. i : Menus!HolderOf(l[j]) = h})
  <2> TAKE i \in 1 .. Len(l)
  <2> HIDE DEF s, S
  <2>1. \A j \in 1 .. i : j \in 1 .. Len(l)
    BY <1>1
  <2>2. {j \in 1 .. i : s[j] \in S} = {j \in 1 .. i : Menus!HolderOf(l[j]) = h}
    BY <1>4, <2>1
  <2> QED
    BY <2>2 DEF Rank
<1>6. /\ t \in Seq(1 .. Len(l))
      /\ \A i \in 1 .. Len(s) : s[i] \in S => R(i) \in 1 .. Len(t) /\ t[R(i)] = s[i]
  <2> DEFINE E == 1 .. Len(l)
  <2>1. \A i : R(i) = Rank(s, S, i)
    OBVIOUS
  <2>2. s \in Seq(E)
    BY <1>2
  <2> HIDE DEF R, s, S, E
  <2>3. /\ t \in Seq(E)
        /\ \A i \in 1 .. Len(s) : s[i] \in S => R(i) \in 1 .. Len(t) /\ t[R(i)] = s[i]
    BY <1>3, <2>1, <2>2, OnlyRanks
  <2> QED
    BY <2>3 DEF E
<1> HIDE DEF s, S, R
<1> QED
  BY <1>2, <1>4, <1>5, <1>6

\* The items of a menu: its sub-menus, then its profiles.
LEMMA ItemsFacts ==
    ASSUME NEW gs, FineGroups(gs), NEW l, FineList(l, gs), NEW g \in Menus!Dirs,
           NEW subs, subs = Menus!SubMenus(l, gs, g), NEW own, own = Held(l, g),
           NEW items, items = Menus!ItemsOf(l, gs, g)
    PROVE  /\ items \in Seq(ItemsOfList(l)) /\ Len(items) = Len(subs) + Len(own)
           /\ \A k \in 1 .. Len(subs) : items[k] = Menus!Group(subs[k])
           /\ \A k \in 1 .. Len(own) : items[Len(subs) + k] = Menus!Profile(own[k])
<1> DEFINE a == [k \in DOMAIN subs |-> Menus!Group(subs[k])]
           b == [k \in DOMAIN own |-> Menus!Profile(own[k])]
           T == ItemsOfList(l)
<1>1. items = a \o b
  BY MenusOnly DEF Menus!ItemsOf, Held
<1>2. subs \in Seq(Menus!Dirs)
  BY SubMenusFacts
<1>3. own \in Seq(1 .. Len(l))
  BY HeldFacts DEF FineList
<1>4. a \in Seq(T) /\ Len(a) = Len(subs) /\ \A k \in 1 .. Len(subs) : a[k] = Menus!Group(subs[k])
  BY <1>2 DEF ItemsOfList
<1>5. b \in Seq(T) /\ Len(b) = Len(own) /\ \A k \in 1 .. Len(own) : b[k] = Menus!Profile(own[k])
  BY <1>3 DEF ItemsOfList
<1> HIDE DEF a, b, T
<1>6. /\ items \in Seq(T) /\ Len(items) = Len(subs) + Len(own)
      /\ \A k \in 1 .. Len(subs) : items[k] = a[k]
      /\ \A k \in 1 .. Len(own) : items[Len(subs) + k] = b[k]
  <2>1. a \o b \in Seq(T) /\ Len(a \o b) = Len(a) + Len(b)
    BY ONLY <1>4, <1>5
  <2>2. \A k \in 1 .. Len(a) : (a \o b)[k] = a[k]
    BY ONLY <1>4, <1>5
  <2>3. \A k \in 1 .. Len(b) : (a \o b)[Len(a) + k] = b[k]
    BY ONLY <1>4, <1>5
  <2> QED
    BY ONLY <1>1, <1>4, <1>5, <2>1, <2>2, <2>3
<1> QED
  BY <1>4, <1>5, <1>6 DEF T

\* The place of a sub-menu is where it is.
LEMMA LeadsToGroup ==
    ASSUME NEW gs, FineGroups(gs), NEW l, FineList(l, gs), nested \in BOOLEAN,
           NEW i \in 1 .. Len(l), NEW g \in Menus!Ancestors[Menus!HolderOf(l[i])] \ {"user"},
           NEW items, items = Menus!ItemsOf(l, gs, Menus!ParentGroup(g)),
           NEW k, k = Menus!GroupPlace(l, gs, g)
    PROVE  k \in DOMAIN items /\ items[k] = Menus!Group(g)
<1> DEFINE p == Menus!ParentGroup(g)
           subs == Menus!SubMenus(l, gs, p)
           own == Held(l, p)
           h == Menus!HolderOf(l[i])
<1>1. /\ g \in gs \ {"user"} /\ g \in Menus!ActiveGroups(l) /\ (nested \/ g = "auto")
      /\ p \in Menus!Dirs
  <2>1. h = Menus!HolderOf(l[i]) /\ g \in Menus!Ancestors[h] \ {"user"}
    OBVIOUS
  <2> HIDE DEF h
  <2> QED
    BY <2>1, HolderActive
<1>2. subs \in Seq(Menus!Dirs) /\ \E m \in 1 .. Len(subs) : subs[m] = g
  <2>1. subs = Menus!SubMenus(l, gs, p)
    OBVIOUS
  <2> DEFINE q == p
  <2>2. q = Menus!ParentGroup(g) /\ subs = Menus!SubMenus(l, gs, q) /\ q \in Menus!Dirs
    BY <1>1
  <2>4. FineGroups(gs)
    OBVIOUS
  <2> HIDE DEF q, subs
  <2>3. /\ subs \in Seq(Menus!Dirs)
        /\ Cardinality({f \in Menus!ToSet(Menus!Attached(l, gs)) : Menus!ParentGroup(f) = q}) = Len(subs)
        /\ \A f \in gs \ {"user"} : /\ f \in Menus!ActiveGroups(l) /\ (nested \/ f = "auto")
                                    /\ Menus!ParentGroup(f) = q
              => \E m \in 1 .. Len(subs) : subs[m] = f
    BY ONLY <2>2, <2>4, SubMenusFacts
  <2> QED
    BY ONLY <1>1, <2>2, <2>3, Zenon
<1>3. k \in 1 .. Len(subs) /\ subs[k] = g
  <2>1. k = IF g \in Menus!ToSet(subs) THEN CHOOSE m \in DOMAIN subs : subs[m] = g ELSE 0
    BY DEF Menus!GroupPlace
  <2> HIDE DEF subs
  <2>2. g \in Menus!ToSet(subs)
    BY <1>2 DEF Menus!ToSet
  <2> QED
    BY <1>2, <2>1, <2>2
<1>4. /\ items \in Seq(ItemsOfList(l)) /\ Len(items) = Len(subs) + Len(own)
      /\ \A m \in 1 .. Len(subs) : items[m] = Menus!Group(subs[m])
  <2>1. p = Menus!ParentGroup(g) /\ subs = Menus!SubMenus(l, gs, p) /\ own = Held(l, p)
    OBVIOUS
  <2>2. items = Menus!ItemsOf(l, gs, p)
    OBVIOUS
  <2>3. p \in Menus!Dirs
    BY <1>1
  <2> HIDE DEF p, subs, own
  <2> QED
    BY ONLY <2>1, <2>2, <2>3, FineGroups(gs), FineList(l, gs), ItemsFacts
<1>5. own \in Seq(1 .. Len(l))
  <2>1. own = Held(l, p) /\ l \in Seq(ListEntries)
    BY DEF FineList
  <2> HIDE DEF own
  <2> QED
    BY <2>1, HeldFacts
<1> HIDE DEF subs, own
<1> QED
  BY <1>2, <1>3, <1>4, <1>5

\* The place of a profile is where it is.
LEMMA LeadsToProfile ==
    ASSUME NEW gs, FineGroups(gs), NEW l, FineList(l, gs), nested \in BOOLEAN,
           NEW i \in 1 .. Len(l), NEW h, h = Menus!HolderOf(l[i]),
           NEW items, items = Menus!ItemsOf(l, gs, h),
           NEW k, k = Menus!ProfilePlace(l, gs, i)
    PROVE  k \in DOMAIN items /\ items[k] = Menus!Profile(i) /\ k \in Nat
<1> DEFINE subs == Menus!SubMenus(l, gs, h)
           own == Held(l, h)
           r == Cardinality({j \in 1 .. i : Menus!HolderOf(l[j]) = h})
<1>1. h \in Menus!Dirs
  BY HolderActive
<1>2. /\ subs \in Seq(Menus!Dirs)
      /\ Cardinality({f \in Menus!ToSet(Menus!Attached(l, gs)) : Menus!ParentGroup(f) = h}) = Len(subs)
  <2>1. subs = Menus!SubMenus(l, gs, h)
    OBVIOUS
  <2> HIDE DEF subs
  <2> QED
    BY ONLY <1>1, <2>1, FineGroups(gs), SubMenusFacts
<1>3. k = Len(subs) + r
  <2> DEFINE A == Menus!ToSet(Menus!Attached(l, gs))
  <2>1. k = Cardinality({f \in A : Menus!ParentGroup(f) = Menus!HolderOf(l[i])})
              + Cardinality({j \in 1 .. i : Menus!HolderOf(l[j]) = Menus!HolderOf(l[i])})
    BY MenusCardinality DEF Menus!ProfilePlace
  <2> HIDE DEF A
  <2>2. {f \in A : Menus!ParentGroup(f) = Menus!HolderOf(l[i])} = {f \in A : Menus!ParentGroup(f) = h}
    OBVIOUS
  <2>3. {j \in 1 .. i : Menus!HolderOf(l[j]) = Menus!HolderOf(l[i])} = {j \in 1 .. i : Menus!HolderOf(l[j]) = h}
    OBVIOUS
  <2>4. Cardinality({f \in A : Menus!ParentGroup(f) = h}) = Len(subs)
    BY <1>2 DEF A
  <2> HIDE DEF subs, r
  <2> QED
    BY <2>1, <2>2, <2>3, <2>4 DEF r
<1>4. own \in Seq(1 .. Len(l)) /\ r \in 1 .. Len(own) /\ own[r] = i
  <2>1. own = Held(l, h) /\ l \in Seq(ListEntries) /\ Menus!HolderOf(l[i]) = h
    BY DEF FineList
  <2> HIDE DEF own
  <2> QED
    BY <2>1, HeldFacts
<1>5. /\ items \in Seq(ItemsOfList(l)) /\ Len(items) = Len(subs) + Len(own)
      /\ \A m \in 1 .. Len(own) : items[Len(subs) + m] = Menus!Profile(own[m])
  <2>1. subs = Menus!SubMenus(l, gs, h) /\ own = Held(l, h)
    OBVIOUS
  <2> HIDE DEF subs, own
  <2> QED
    BY ONLY <1>1, <2>1, items = Menus!ItemsOf(l, gs, h), FineGroups(gs), FineList(l, gs), ItemsFacts
<1> HIDE DEF subs, own, r
<1> QED
  BY <1>2, <1>3, <1>4, <1>5

\* A function that is built by the steps of a fold as long as these stay within T.
Repeats(it, n, T, base, step) ==
    /\ it[{}] = base
    /\ \A Z \in SUBSET (1 .. n) : Z # {} /\ it[Z \ {Max(Z)}] \in T
          => it[Z] = step[<<it[Z \ {Max(Z)}], Max(Z)>>]

\* Its values for the initial segments are the states of the fold.
Folded(it, n, T, base, step) ==
    /\ \A k \in 0 .. n : it[1 .. k] \in T
    /\ \A k \in 1 .. n : it[1 .. k] = step[<<it[1 .. (k - 1)], k>>]
    /\ it[1 .. 0] = base

\* A fold of a step that stays within T stays within T.
LEMMA FoldStays ==
    ASSUME NEW n \in Nat, NEW T, NEW base \in T, NEW step \in [T \X (1 .. n) -> T], NEW it,
           Repeats(it, n, T, base, step)
    PROVE  Folded(it, n, T, base, step)
<1> DEFINE N == {k \in Nat : k <= n => it[1 .. k] \in T}
<1>1. it[1 .. 0] = base
  <2>1. 1 .. 0 = {}
    OBVIOUS
  <2> QED
    BY <2>1 DEF Repeats
<1>2. ASSUME NEW k \in 1 .. n, it[1 .. (k - 1)] \in T
      PROVE  it[1 .. k] = step[<<it[1 .. (k - 1)], k>>] /\ it[1 .. k] \in T
  <2>1. /\ 1 .. k \in SUBSET (1 .. n) /\ 1 .. k # {}
        /\ Max(1 .. k) = k /\ (1 .. k) \ {k} = 1 .. (k - 1)
    BY InitialSegments
  <2>2. it[1 .. k] = step[<<it[1 .. (k - 1)], k>>]
    BY <1>2, <2>1 DEF Repeats
  <2> QED
    BY <1>2, <2>2
<1>3. ASSUME NEW k \in Nat, k \in N
      PROVE  k + 1 \in N
  <2> SUFFICES ASSUME k + 1 <= n
               PROVE  it[1 .. (k + 1)] \in T
    OBVIOUS
  <2>1. k + 1 \in 1 .. n /\ (k + 1) - 1 = k /\ it[1 .. k] \in T
    BY <1>3
  <2>2. it[1 .. ((k + 1) - 1)] \in T
    BY <2>1
  <2> QED
    BY <1>2, <2>1, <2>2
<1>4. \A k \in Nat : k \in N
  <2>1. 0 \in N
    BY <1>1
  <2> HIDE DEF N
  <2> QED
    BY <1>3, <2>1, NaturalSet
<1>5. \A k \in 0 .. n : it[1 .. k] \in T
  BY <1>4
<1>6. ASSUME NEW k \in 1 .. n
      PROVE  it[1 .. k] = step[<<it[1 .. (k - 1)], k>>]
  <2>1. k - 1 \in 0 .. n
    OBVIOUS
  <2> QED
    BY <1>2, <1>5, <2>1
<1> QED
  BY <1>1, <1>5, <1>6 DEF Folded

\* The names of profiles can be put in an order.
LEMMA NamesInOrder == Menus!SetToSeq(Names) \in Seq(Names)
<1> DEFINE I == 1 .. Cardinality(Names)
           c == Cardinality(Names)
<1>1. IsFiniteSet(Names) /\ c \in Nat
  BY MenuAssumption, FS_CardinalityType
<1>2. IsFiniteSet(I) /\ Cardinality(I) = c
  <2> HIDE DEF c
  <2>1. IsFiniteSet(1 .. c) /\ Cardinality(1 .. c) = c
    BY <1>1, FS_Interval
  <2> QED
    BY <2>1 DEF c
<1>3. ExistsBijection(I, Names)
  <2> HIDE DEF I
  <2> QED
    BY <1>1, <1>2, FS_SameCardinalityBij DEF c
<1>4. PICK f \in [I -> Names] : IsInjective(f)
  BY <1>3 DEF ExistsBijection, Bijection, Injection
<1>5. Menus!SetToSeq(Names) = CHOOSE g \in [I -> Names] : IsInjective(g)
  BY MenusCardinality, Zenon DEF Menus!SetToSeq, Menus!IsInjective, IsInjective
<1>6. Menus!SetToSeq(Names) \in [I -> Names]
  BY <1>4, <1>5
<1> QED
  BY <1>1, <1>6

\* A file that is added has a name of its own and is in a group of the list.
LEMMA AddFileKeeps ==
    ASSUME NEW gs, FineGroups(gs), NEW l, FineList(l, gs), NEW d \in Menus!Dirs, NEW n \in Names
    PROVE  FineList(Menus!AddFile(l, d, n, gs), gs)
<1> DEFINE e == Menus!Entry(d, n, gs)
<1>1. l \in Seq(ListEntries) /\ DOMAIN l = 1 .. Len(l) /\ Len(l) \in Nat
  BY DEF FineList
<1>2. Menus!GroupOfDir(gs)[d] \in gs /\ gs \subseteq Menus!Dirs
  BY GroupOfDirFacts DEF FineGroups
<1>3. /\ e \in ListEntries /\ e.name = n /\ e.group \in gs
      /\ e.persistent => "auto" \in Menus!Ancestors[e.group]
  <2>1. /\ e.name = n /\ e.group = Menus!GroupOfDir(gs)[d]
        /\ (e.persistent <=> Menus!RootOf[d] = "auto")
    BY Zenon DEF Menus!Entry
  <2>2. e \in ListEntries
    <3>1. (Menus!RootOf[d] = "auto") \in BOOLEAN /\ FALSE \in BOOLEAN
      OBVIOUS
    <3>2. Menus!GroupOfDir(gs)[d] \in Menus!Dirs
      BY <1>2
    <3> QED
      BY <3>1, <3>2, Zenon DEF Menus!Entry, ListEntries
  <2> QED
    BY <1>2, <2>1, <2>2, RootAbove
<1> HIDE DEF e
<1>4. CASE Menus!AddFile(l, d, n, gs) = l
  BY <1>4
<1>5. CASE Menus!AddFile(l, d, n, gs) = Append(l, e) /\ \A i \in 1 .. Len(l) : l[i].name # n
  <2> DEFINE m == Append(l, e)
  <2>1. /\ m \in Seq(ListEntries) /\ Len(m) = Len(l) + 1 /\ m[Len(l) + 1] = e
        /\ \A i \in 1 .. Len(l) : m[i] = l[i]
        /\ \A i \in 1 .. Len(m) : i = Len(l) + 1 \/ i \in 1 .. Len(l)
    BY <1>1, <1>3
  <2> HIDE DEF m
  <2>2. FineList(m, gs)
    BY <1>3, <1>5, <2>1 DEF FineList
  <2> QED
    BY <1>5, <2>2 DEF m
<1> QED
  BY <1>1, <1>4, <1>5, Zenon DEF Menus!AddFile, Menus!ConfigAlreadyExists, e

\* The files of a directory are added one after the other.
LEMMA FilesKeep ==
    ASSUME NEW gs, FineGroups(gs), NEW l, FineList(l, gs), NEW d \in Menus!Dirs
    PROVE  FineList(Menus!FoldLeft(LAMBDA acc, n : Menus!AddFile(acc, d, n, gs), l,
                                   Menus!SetToSeq(Names)), gs)
<1> DEFINE s == Menus!SetToSeq(Names)
           n == Len(s)
           T == {m \in Seq(ListEntries) : FineList(m, gs)}
           step == [p \in T \X (1 .. n) |-> Menus!AddFile(p[1], d, s[p[2]], gs)]
           Folds(iter) ==
               iter = [Z \in SUBSET DOMAIN s |->
                         IF Z = {} THEN l
                         ELSE Menus!AddFile(iter[Z \ {Max(Z)}], d, s[Max(Z)], gs)]
           it == CHOOSE iter : Folds(iter)
<1>1. n \in Nat /\ DOMAIN s = 1 .. n /\ (\A k \in 1 .. n : s[k] \in Names) /\ l \in T
  <2>1. s \in Seq(Names)
    BY NamesInOrder
  <2> HIDE DEF s
  <2> QED
    BY <2>1 DEF FineList
<1>2. Menus!FoldLeft(LAMBDA acc, x : Menus!AddFile(acc, d, x, gs), l, s) = it[1 .. n]
  <2> HIDE DEF s, n
  <2> QED
    BY <1>1 DEF Menus!FoldLeft, Menus!MapThenFoldSet, Menus!Max, Max
<1>3. step \in [T \X (1 .. n) -> T]
  <2>1. ASSUME NEW p \in T \X (1 .. n)
        PROVE  Menus!AddFile(p[1], d, s[p[2]], gs) \in T
    <3>1. FineList(p[1], gs) /\ s[p[2]] \in Names
      BY <1>1
    <3>2. FineList(Menus!AddFile(p[1], d, s[p[2]], gs), gs)
      BY <3>1, AddFileKeeps
    <3> QED
      BY <3>2 DEF FineList
  <2> HIDE DEF T, s, n
  <2> QED
    BY <2>1
<1>4. Folds(it)
  <2>1. PICK iter : IsFold(iter, n, T, l, step)
    <3> HIDE DEF T, step, n
    <3> QED
      BY <1>1, <1>3, FoldExists
  <2>2. ASSUME NEW Z \in SUBSET (1 .. n), Z # {}
        PROVE  iter[Z] = Menus!AddFile(iter[Z \ {Max(Z)}], d, s[Max(Z)], gs)
    <3> HIDE DEF T, n, s
    <3>1. iter[Z \ {Max(Z)}] \in T /\ Max(Z) \in 1 .. n
      BY <2>1, <2>2, <1>1, MaxAmong DEF IsFold
    <3>2. iter[Z] = step[<<iter[Z \ {Max(Z)}], Max(Z)>>]
      BY <2>1, <2>2 DEF IsFold
    <3> QED
      BY <3>1, <3>2
  <2>3. Folds(iter)
    <3> HIDE DEF T, s, step
    <3> QED
      BY <2>1, <2>2, <1>1 DEF IsFold
  <2> HIDE DEF Folds
  <2> QED
    BY <2>3
<1> HIDE DEF it
<1>5. Repeats(it, n, T, l, step)
  <2>1. it[{}] = l
    BY <1>4
  <2>2. ASSUME NEW Z \in SUBSET (1 .. n), Z # {}, it[Z \ {Max(Z)}] \in T
        PROVE  it[Z] = step[<<it[Z \ {Max(Z)}], Max(Z)>>]
    <3>1. Max(Z) \in 1 .. n
      <4> HIDE DEF n
      <4> QED
        BY <1>1, <2>2, MaxAmong
    <3>2. it[Z] = Menus!AddFile(it[Z \ {Max(Z)}], d, s[Max(Z)], gs)
      BY <1>1, <1>4, <2>2
    <3> HIDE DEF T, n, s
    <3> QED
      BY <2>2, <3>1, <3>2
  <2> HIDE DEF T, step
  <2> QED
    BY <2>1, <2>2 DEF Repeats
<1>6. it[1 .. n] \in T
  <2> HIDE DEF T, step, n
  <2>1. Folded(it, n, T, l, step)
    BY <1>1, <1>3, <1>5, FoldStays
  <2> QED
    BY <1>1, <2>1 DEF Folded
<1> QED
  BY <1>2, <1>6, Zenon

\* What a directory adds to the list.
Listed(l, d, gs) ==
    IF Menus!Scanned(d)
    THEN Menus!FoldLeft(LAMBDA acc, n : Menus!AddFile(acc, d, n, gs), l, Menus!SetToSeq(Names))
    ELSE l

\* A scan leaves a list whose entries are found where they say.
LEMMA ScanKeeps ==
    ASSUME NEW gs, FineGroups(gs), FineList(profiles, gs)
    PROVE  FineList(Menus!Scan(gs), gs)
<1> DEFINE s == Walk
           n == Len(s)
           l == profiles
           T == {m \in Seq(ListEntries) : FineList(m, gs)}
           step == [p \in T \X (1 .. n) |-> Listed(p[1], s[p[2]], gs)]
           Folds(iter) ==
               iter = [Z \in SUBSET DOMAIN s |->
                         IF Z = {} THEN l ELSE Listed(iter[Z \ {Max(Z)}], s[Max(Z)], gs)]
           it == CHOOSE iter : Folds(iter)
<1>1. n \in Nat /\ DOMAIN s = 1 .. n /\ (\A k \in 1 .. n : s[k] \in Menus!Dirs) /\ l \in T
  <2>1. s \in Seq(Menus!Dirs)
    BY MenuAssumption
  <2> HIDE DEF s
  <2> QED
    BY <2>1 DEF FineList
<1>2. Menus!Scan(gs) = it[1 .. n]
  <2> HIDE DEF n
  <2> QED
    BY <1>1 DEF Menus!Scan, Menus!FoldLeft, Menus!MapThenFoldSet, Menus!Max, Max, Listed
<1>3. step \in [T \X (1 .. n) -> T]
  <2>1. ASSUME NEW p \in T \X (1 .. n)
        PROVE  Listed(p[1], s[p[2]], gs) \in T
    <3>1. FineList(p[1], gs) /\ s[p[2]] \in Menus!Dirs
      BY <1>1
    <3>2. FineList(Listed(p[1], s[p[2]], gs), gs)
      BY <3>1, FilesKeep, Zenon DEF Listed
    <3> QED
      BY <3>2 DEF FineList
  <2> HIDE DEF T, s, n
  <2> QED
    BY <2>1
<1>4. Folds(it)
  <2>1. PICK iter : IsFold(iter, n, T, l, step)
    <3> HIDE DEF T, step, n
    <3> QED
      BY <1>1, <1>3, FoldExists
  <2>2. ASSUME NEW Z \in SUBSET (1 .. n), Z # {}
        PROVE  iter[Z] = Listed(iter[Z \ {Max(Z)}], s[Max(Z)], gs)
    <3> HIDE DEF T, n, s
    <3>1. iter[Z \ {Max(Z)}] \in T /\ Max(Z) \in 1 .. n
      BY <2>1, <2>2, <1>1, MaxAmong DEF IsFold
    <3>2. iter[Z] = step[<<iter[Z \ {Max(Z)}], Max(Z)>>]
      BY <2>1, <2>2 DEF IsFold
    <3> QED
      BY <3>1, <3>2
  <2>3. Folds(iter)
    <3> HIDE DEF T, s, step
    <3> QED
      BY <2>1, <2>2, <1>1 DEF IsFold
  <2> HIDE DEF Folds
  <2> QED
    BY <2>3
<1> HIDE DEF it
<1>5. Repeats(it, n, T, l, step)
  <2>1. it[{}] = l
    BY <1>4
  <2>2. ASSUME NEW Z \in SUBSET (1 .. n), Z # {}, it[Z \ {Max(Z)}] \in T
        PROVE  it[Z] = step[<<it[Z \ {Max(Z)}], Max(Z)>>]
    <3>1. Max(Z) \in 1 .. n
      <4> HIDE DEF n
      <4> QED
        BY <1>1, <2>2, MaxAmong
    <3>2. it[Z] = Listed(it[Z \ {Max(Z)}], s[Max(Z)], gs)
      BY <1>1, <1>4, <2>2
    <3> HIDE DEF T, n, s
    <3> QED
      BY <2>2, <3>1, <3>2
  <2> HIDE DEF T, step
  <2> QED
    BY <2>1, <2>2 DEF Repeats
<1>6. it[1 .. n] \in T
  <2> HIDE DEF T, step, n
  <2>1. Folded(it, n, T, l, step)
    BY <1>1, <1>3, <1>5, FoldStays
  <2> QED
    BY <1>1, <2>1 DEF Folded
<1> QED
  BY <1>2, <1>6

\* Profiles move up or are disabled, they keep their names.
LEMMA ActivatedKeeps ==
    ASSUME NEW gs, FineGroups(gs), NEW l, FineList(l, gs)
    PROVE  FineList(Menus!Activated(l, gs), gs)
<1> DEFINE m == Menus!Activated(l, gs)
<1>1. l \in Seq(ListEntries) /\ DOMAIN l = 1 .. Len(l) /\ Len(l) \in Nat
  BY DEF FineList
<1>2. ASSUME NEW i \in 1 .. Len(l)
      PROVE  /\ m[i] \in ListEntries /\ m[i].name = l[i].name
             /\ m[i].group \in gs /\ (m[i].persistent => "auto" \in Menus!Ancestors[m[i].group])
  <2> DEFINE e == l[i]
             on == Menus!Squashed(l, gs, l[i])
             g == IF on THEN Menus!ParentGroup(e.group) ELSE e.group
             off == e.name \notin files[e.dir]
  <2>1. m[i] = [e EXCEPT !.group = g, !.disabled = off]
    BY <1>1 DEF Menus!Activated
  <2>2. /\ e \in ListEntries /\ e.group \in gs /\ e.group \in Menus!Dirs
        /\ (e.persistent => "auto" \in Menus!Ancestors[e.group])
    <3>1. e \in ListEntries
      BY <1>1
    <3> QED
      BY <3>1 DEF FineList, ListEntries
  <2>3. off \in BOOLEAN
    OBVIOUS
  <2>4. g \in gs /\ g \in Menus!Dirs /\ (e.persistent => "auto" \in Menus!Ancestors[g])
    <3>1. CASE ~on
      BY <2>2, <3>1
    <3>2. CASE on
      <4>1. e.group = e.name /\ e.group # "user" /\ e.name \in Names
        BY <2>2, <3>2 DEF Menus!Squashed, ListEntries
      <4>2. e.group # "auto"
        BY <4>1, MenuAssumption
      <4>3. Menus!Ancestors[e.group] = {e.group} \cup Menus!Ancestors[Menus!ParentGroup(e.group)]
        BY <2>2, <4>1, AncestorsFacts
      <4> QED
        BY <2>2, <3>2, <4>2, <4>3 DEF FineGroups
    <3> QED
      BY <3>1, <3>2
  <2> HIDE DEF e, on, off, g
  <2>5. m[i] \in ListEntries /\ m[i].name = e.name /\ m[i].group = g /\ m[i].persistent = e.persistent
    BY <2>1, <2>2, <2>3, <2>4 DEF ListEntries
  <2> QED
    BY <2>4, <2>5 DEF e
<1>3. m \in Seq(ListEntries) /\ Len(m) = Len(l)
  <2>1. DOMAIN m = 1 .. Len(l) /\ m = [i \in 1 .. Len(l) |-> m[i]]
    BY <1>1 DEF Menus!Activated
  <2> HIDE DEF m
  <2>2. \A i \in 1 .. Len(l) : m[i] \in ListEntries
    BY <1>2
  <2> QED
    BY <1>1, <2>1, <2>2
<1> HIDE DEF m
<1>4. FineList(m, gs)
  BY <1>2, <1>3 DEF FineList
<1> QED
  BY <1>4 DEF m

\* The menu, the places and the marks of a list, told of given values.
HolderAt(nest, e) == IF nest THEN e.group ELSE IF e.persistent THEN "auto" ELSE "user"

ChainAt(nest, l, p, gp, i) ==
    {<<HolderAt(nest, l[i]), p[i]>>}
      \cup {<<Menus!ParentGroup(g), gp[g]>> : g \in Menus!Ancestors[HolderAt(nest, l[i])] \ {"user"}}

LeadsAll(nest, mn, l, p, gp) ==
    \A i \in 1 .. Len(l) :
        /\ p[i] \in DOMAIN mn[HolderAt(nest, l[i])]
        /\ mn[HolderAt(nest, l[i])][p[i]] = Menus!Profile(i)
        /\ \A g \in Menus!Ancestors[HolderAt(nest, l[i])] \ {"user"} :
              /\ gp[g] \in DOMAIN mn[Menus!ParentGroup(g)]
              /\ mn[Menus!ParentGroup(g)][gp[g]] = Menus!Group(g)

MarksAll(nest, l, p, gp, u, m) ==
    \A i \in 1 .. Len(l) : l[i].name \in u => ChainAt(nest, l, p, gp, i) \subseteq m

\* The group that holds a profile, in the view of the state.
LEMMA HolderHere == \A e : Menus!HolderOf(e) = HolderAt(nested, e)
BY DEF Menus!HolderOf, HolderAt

\* The items that lead to a profile, in the view of the state.
LEMMA ChainHere == \A l, p, gp, i : Menus!Chain(l, p, gp, i) = ChainAt(nested, l, p, gp, i)
BY HolderHere, Zenon DEF Menus!Chain, ChainAt

\* No profile is marked by the marks of another.
LEMMA Apart ==
    ASSUME NEW nest, NEW mn, NEW l, NEW p, NEW gp, LeadsAll(nest, mn, l, p, gp),
           NEW i \in 1 .. Len(l), NEW k \in 1 .. Len(l), i # k
    PROVE  <<HolderAt(nest, l[i]), p[i]>> \notin ChainAt(nest, l, p, gp, k)
<1> DEFINE h == HolderAt(nest, l[i])
<1>1. mn[h][p[i]] = Menus!Profile(i)
  BY DEF LeadsAll
<1>2. ASSUME h = HolderAt(nest, l[k]), p[i] = p[k]
      PROVE  FALSE
  <2>1. mn[HolderAt(nest, l[k])][p[k]] = Menus!Profile(k)
    BY DEF LeadsAll
  <2>2. Menus!Profile(i) = Menus!Profile(k)
    BY <1>1, <1>2, <2>1
  <2> QED
    BY <2>2 DEF Menus!Profile
<1>3. ASSUME NEW g \in Menus!Ancestors[HolderAt(nest, l[k])] \ {"user"},
             h = Menus!ParentGroup(g), p[i] = gp[g]
      PROVE  FALSE
  <2>1. mn[Menus!ParentGroup(g)][gp[g]] = Menus!Group(g)
    BY DEF LeadsAll
  <2>2. Menus!Profile(i) = Menus!Group(g)
    BY <1>1, <1>3, <2>1
  <2> QED
    BY <2>2 DEF Menus!Profile, Menus!Group
<1> HIDE DEF h
<1> SUFFICES ASSUME <<h, p[i]>> \in ChainAt(nest, l, p, gp, k)
             PROVE  FALSE
  BY DEF h
<1>4. \/ <<h, p[i]>> = <<HolderAt(nest, l[k]), p[k]>>
      \/ \E g \in Menus!Ancestors[HolderAt(nest, l[k])] \ {"user"} :
            <<h, p[i]>> = <<Menus!ParentGroup(g), gp[g]>>
  BY DEF ChainAt
<1> QED
  BY <1>2, <1>3, <1>4

\* The items that lead to a profile are items of menus.
LEMMA ChainType ==
    ASSUME NEW gs, gs \subseteq Menus!Dirs, NEW l, FineList(l, gs), nested \in BOOLEAN,
           NEW p \in Seq(Nat), Len(p) = Len(l), NEW gp \in [Menus!Dirs -> Nat], NEW i \in 1 .. Len(l)
    PROVE  /\ HolderAt(nested, l[i]) \in Menus!Dirs
           /\ ChainAt(nested, l, p, gp, i) \in SUBSET (Menus!Dirs \X Nat)
<1>1. l[i] \in ListEntries /\ l[i].group \in Menus!Dirs
  <2>1. l[i] \in ListEntries
    BY DEF FineList
  <2> QED
    BY <2>1 DEF ListEntries
<1>2. HolderAt(nested, l[i]) \in Menus!Dirs
  BY <1>1, DirFacts DEF HolderAt
<1>3. p[i] \in Nat
  OBVIOUS
<1>4. \A g \in Menus!Ancestors[HolderAt(nested, l[i])] \ {"user"} :
         Menus!ParentGroup(g) \in Menus!Dirs /\ gp[g] \in Nat
  BY <1>2, AncestorsFacts, GroupsDescend
<1> QED
  BY <1>2, <1>3, <1>4 DEF ChainAt

\* The marks of one status are set or cleared, those of the other profiles stay.
LEMMA StatusMarksKeep ==
    ASSUME NEW mn, NEW l, NEW p, NEW gp, LeadsAll(nested, mn, l, p, gp),
           NEW i \in 1 .. Len(l), NEW on \in BOOLEAN, NEW m, NEW m2,
           m2 = Menus!StatusMarks(l, p, gp, i, on, m)
    PROVE  /\ on => ChainAt(nested, l, p, gp, i) \subseteq m2
           /\ \A k \in 1 .. Len(l) : k # i /\ ChainAt(nested, l, p, gp, k) \subseteq m
                                     => ChainAt(nested, l, p, gp, k) \subseteq m2
<1>1. m2 = IF on THEN m \cup ChainAt(nested, l, p, gp, i)
           ELSE m \ {<<HolderAt(nested, l[i]), p[i]>>}
  BY HolderHere, ChainHere DEF Menus!StatusMarks
<1>2. \A k \in 1 .. Len(l) : k # i => <<HolderAt(nested, l[i]), p[i]>> \notin ChainAt(nested, l, p, gp, k)
  BY Apart
<1> QED
  BY <1>1, <1>2

\* The marked items are items of menus.
LEMMA StatusMarksType ==
    ASSUME NEW gs, gs \subseteq Menus!Dirs, NEW l, FineList(l, gs), nested \in BOOLEAN,
           NEW p \in Seq(Nat), Len(p) = Len(l), NEW gp \in [Menus!Dirs -> Nat],
           NEW i \in 1 .. Len(l), NEW on, NEW m \in SUBSET (Menus!Dirs \X Nat)
    PROVE  Menus!StatusMarks(l, p, gp, i, on, m) \in SUBSET (Menus!Dirs \X Nat)
<1>1. ChainAt(nested, l, p, gp, i) \in SUBSET (Menus!Dirs \X Nat)
  BY ChainType
<1> QED
  BY <1>1, HolderHere, ChainHere DEF Menus!StatusMarks

Placed(gs, l, mn, p, gp) ==
    /\ gs \subseteq Menus!Dirs /\ FineList(l, gs) /\ nested \in BOOLEAN
    /\ p \in Seq(Nat) /\ Len(p) = Len(l) /\ gp \in [Menus!Dirs -> Nat]
    /\ LeadsAll(nested, mn, l, p, gp)

AllMarks(l, p, gp) ==
    Menus!FoldLeft(LAMBDA m, i : Menus!StatusMarks(l, p, gp, i, l[i].name \in up, m),
                   {}, [i \in DOMAIN l |-> i])

\* After the marks of all profiles are set in turn, those of all that are up are there.
LEMMA AllMarked ==
    ASSUME NEW gs, NEW l, NEW mn, NEW p, NEW gp, Placed(gs, l, mn, p, gp), NEW M, M = AllMarks(l, p, gp)
    PROVE  M \in SUBSET (Menus!Dirs \X Nat) /\ MarksAll(nested, l, p, gp, up, M)
<1> DEFINE s == [i \in DOMAIN l |-> i]
           n == Len(l)
           T == SUBSET (Menus!Dirs \X Nat)
           Next1(m, i) == Menus!StatusMarks(l, p, gp, i, l[i].name \in up, m)
           step == [q \in T \X (1 .. n) |-> Next1(q[1], q[2])]
           Folds(iter) ==
               iter = [Z \in SUBSET DOMAIN s |->
                         IF Z = {} THEN {} ELSE Next1(iter[Z \ {Max(Z)}], s[Max(Z)])]
           it == CHOOSE iter : Folds(iter)
<1>0. /\ gs \subseteq Menus!Dirs /\ FineList(l, gs) /\ nested \in BOOLEAN
      /\ p \in Seq(Nat) /\ Len(p) = Len(l) /\ gp \in [Menus!Dirs -> Nat]
      /\ LeadsAll(nested, mn, l, p, gp)
  BY DEF Placed
<1>1. n \in Nat /\ DOMAIN s = 1 .. n /\ Len(s) = n /\ (\A k \in 1 .. n : s[k] = k) /\ {} \in T
  <2>1. DOMAIN l = 1 .. Len(l) /\ Len(l) \in Nat
    BY <1>0 DEF FineList
  <2> QED
    BY <2>1
<1>2. M = it[1 .. n]
  <2> HIDE DEF n
  <2> QED
    BY <1>1 DEF AllMarks, Menus!FoldLeft, Menus!MapThenFoldSet, Menus!Max, Max
<1>3. step \in [T \X (1 .. n) -> T]
  <2>1. ASSUME NEW q \in T \X (1 .. n)
        PROVE  Next1(q[1], q[2]) \in T
    <3>1. q[1] \in T /\ q[2] \in 1 .. n
      OBVIOUS
    <3> QED
      BY <1>0, <3>1, StatusMarksType
  <2> HIDE DEF T, s, n, Next1
  <2> QED
    BY <2>1
<1> HIDE DEF Next1
<1>4. Folds(it)
  <2>1. PICK iter : IsFold(iter, n, T, {}, step)
    <3> HIDE DEF T, step, n
    <3> QED
      BY <1>1, <1>3, FoldExists
  <2>2. ASSUME NEW Z \in SUBSET (1 .. n), Z # {}
        PROVE  iter[Z] = Next1(iter[Z \ {Max(Z)}], s[Max(Z)])
    <3> HIDE DEF T, n, s
    <3>1. iter[Z \ {Max(Z)}] \in T /\ Max(Z) \in 1 .. n
      BY <2>1, <2>2, <1>1, MaxAmong DEF IsFold
    <3>2. iter[Z] = step[<<iter[Z \ {Max(Z)}], Max(Z)>>]
      BY <2>1, <2>2 DEF IsFold
    <3> QED
      BY <1>1, <3>1, <3>2
  <2>3. Folds(iter)
    <3> HIDE DEF T, s, step
    <3> QED
      BY <2>1, <2>2, <1>1 DEF IsFold
  <2> HIDE DEF Folds
  <2> QED
    BY <2>3
<1> HIDE DEF it
<1>5. Repeats(it, n, T, {}, step)
  <2>1. it[{}] = {}
    BY <1>4
  <2>2. ASSUME NEW Z \in SUBSET (1 .. n), Z # {}, it[Z \ {Max(Z)}] \in T
        PROVE  it[Z] = step[<<it[Z \ {Max(Z)}], Max(Z)>>]
    <3>1. Max(Z) \in 1 .. n
      <4> HIDE DEF n
      <4> QED
        BY <1>1, <2>2, MaxAmong
    <3>2. it[Z] = Next1(it[Z \ {Max(Z)}], Max(Z))
      BY <1>1, <1>4, <2>2, <3>1
    <3> HIDE DEF T, n, s
    <3> QED
      BY <2>2, <3>1, <3>2
  <2> HIDE DEF T, step
  <2> QED
    BY <2>1, <2>2 DEF Repeats
<1>6. /\ \A k \in 0 .. n : it[1 .. k] \in T
      /\ \A k \in 1 .. n : it[1 .. k] = step[<<it[1 .. (k - 1)], k>>]
  <2> DEFINE none == {}
  <2>0. /\ n \in Nat /\ none \in T /\ step \in [T \X (1 .. n) -> T]
        /\ Repeats(it, n, T, none, step)
    BY <1>1, <1>3, <1>5
  <2> HIDE DEF T, step, n, none
  <2>1. Folded(it, n, T, none, step)
    BY ONLY <2>0, FoldStays
  <2> QED
    BY <2>1 DEF Folded
<1>7. \A k \in 1 .. n : it[1 .. k] = Next1(it[1 .. (k - 1)], k)
  <2> TAKE k \in 1 .. n
  <2>1. k - 1 \in 0 .. n
    BY <1>1
  <2> HIDE DEF T, n
  <2> QED
    BY <1>6, <2>1
<1> DEFINE Marked(k) == \A i \in 1 .. k : l[i].name \in up => ChainAt(nested, l, p, gp, i) \subseteq it[1 .. k]
           N == {k \in Nat : k <= n => Marked(k)}
<1>8. ASSUME NEW k \in Nat, k \in N
      PROVE  k + 1 \in N
  <2> SUFFICES ASSUME k + 1 <= n, NEW i \in 1 .. k + 1, l[i].name \in up
               PROVE  ChainAt(nested, l, p, gp, i) \subseteq it[1 .. (k + 1)]
    OBVIOUS
  <2> DEFINE m == it[1 .. k]
             m2 == it[1 .. (k + 1)]
             on == l[k + 1].name \in up
  <2>1. k + 1 \in 1 .. Len(l) /\ (k + 1) - 1 = k /\ Marked(k) /\ on \in BOOLEAN /\ i \in 1 .. Len(l)
    BY <1>1, <1>8
  <2>2. m2 = Menus!StatusMarks(l, p, gp, k + 1, on, m)
    BY <1>7, <2>1 DEF Next1
  <2> DEFINE j == k + 1
  <2>5. /\ on => ChainAt(nested, l, p, gp, j) \subseteq m2
        /\ \A h \in 1 .. Len(l) : h # j /\ ChainAt(nested, l, p, gp, h) \subseteq m
                                 => ChainAt(nested, l, p, gp, h) \subseteq m2
    <3>1. j \in 1 .. Len(l) /\ on \in BOOLEAN /\ m2 = Menus!StatusMarks(l, p, gp, j, on, m)
      BY <2>1, <2>2
    <3> HIDE DEF m, m2, on, j
    <3> QED
      BY ONLY <1>0, <3>1, StatusMarksKeep
  <2>3. CASE i = k + 1
    <3>1. on
      BY <2>3
    <3> HIDE DEF m, m2, on
    <3>2. on => ChainAt(nested, l, p, gp, k + 1) \subseteq m2
      BY <2>5
    <3> QED
      BY <2>3, <3>1, <3>2 DEF m2
  <2>4. CASE i \in 1 .. k
    <3>1. i # k + 1 /\ ChainAt(nested, l, p, gp, i) \subseteq m
      BY <2>1, <2>4
    <3> HIDE DEF m, m2, on
    <3>2. \A h \in 1 .. Len(l) : h # k + 1 /\ ChainAt(nested, l, p, gp, h) \subseteq m
                                 => ChainAt(nested, l, p, gp, h) \subseteq m2
      BY <2>5
    <3> QED
      BY <2>1, <3>1, <3>2 DEF m2
  <2> QED
    BY <2>3, <2>4
<1>9. Marked(n)
  <2>1. 0 \in N
    OBVIOUS
  <2>2. \A k \in Nat : k \in N
    <3> HIDE DEF N
    <3> QED
      BY <1>8, <2>1, NaturalSet
  <2> HIDE DEF Marked
  <2> QED
    BY <1>1, <2>2
<1>10. n \in 0 .. n
  BY <1>1
<1> HIDE DEF T
<1>11. M \in T
  BY <1>2, <1>6, <1>10
<1> QED
  BY <1>2, <1>9, <1>11 DEF MarksAll, T

\* What CreatePopupMenus builds for a list.
LEMMA MenuBuilt ==
    ASSUME NEW gs, FineGroups(gs), NEW l, FineList(l, gs), nested \in BOOLEAN,
           Menus!CreatePopupMenus(l, gs)
    PROVE  /\ menu' \in [Menus!Dirs -> Seq(ItemsOfList(l))]
           /\ pos' \in Seq(Nat) /\ Len(pos') = Len(l) /\ gpos' \in [Menus!Dirs -> Nat]
           /\ marked' \in SUBSET (Menus!Dirs \X Nat) /\ built' = TRUE
           /\ Len(l) # 1 => /\ LeadsAll(nested, menu', l, pos', gpos')
                            /\ MarksAll(nested, l, pos', gpos', up, marked')
<1> DEFINE T == ItemsOfList(l)
<1>1. l \in Seq(ListEntries) /\ DOMAIN l = 1 .. Len(l) /\ Len(l) \in Nat /\ gs \subseteq Menus!Dirs
  BY DEF FineList, FineGroups
<1>2. /\ menu' = [g \in Menus!Dirs |-> IF Menus!SingleMenu(l) \/ g \notin Menus!ActiveGroups(l) THEN <<>>
                                       ELSE Menus!ItemsOf(l, gs, g)]
      /\ pos' = [i \in DOMAIN l |-> Menus!ProfilePlace(l, gs, i)]
      /\ gpos' = [g \in Menus!Dirs |-> Menus!GroupPlace(l, gs, g)]
      /\ marked' = (IF Menus!SingleMenu(l) THEN {} ELSE AllMarks(l, pos', gpos'))
      /\ built' = TRUE
  BY Zenon DEF Menus!CreatePopupMenus, AllMarks
<1>3. Menus!SingleMenu(l) <=> Len(l) = 1
  BY DEF Menus!SingleMenu
<1>4. menu' \in [Menus!Dirs -> Seq(T)]
  <2>1. ASSUME NEW g \in Menus!Dirs
        PROVE  Menus!ItemsOf(l, gs, g) \in Seq(T)
    <3> DEFINE items == Menus!ItemsOf(l, gs, g)
               subs == Menus!SubMenus(l, gs, g)
               own == Held(l, g)
    <3>1. items = Menus!ItemsOf(l, gs, g) /\ subs = Menus!SubMenus(l, gs, g) /\ own = Held(l, g)
      OBVIOUS
    <3> HIDE DEF items, subs, own
    <3>2. /\ items \in Seq(ItemsOfList(l)) /\ Len(items) = Len(subs) + Len(own)
          /\ \A k \in 1 .. Len(subs) : items[k] = Menus!Group(subs[k])
          /\ \A k \in 1 .. Len(own) : items[Len(subs) + k] = Menus!Profile(own[k])
      BY ONLY <2>1, <3>1, FineGroups(gs), FineList(l, gs), ItemsFacts
    <3> QED
      BY <3>1, <3>2
  <2> HIDE DEF T
  <2>2. <<>> \in Seq(T)
    OBVIOUS
  <2> QED
    BY <1>2, <2>1, <2>2
<1>5. pos' \in Seq(Nat) /\ Len(pos') = Len(l)
  <2>1. ASSUME NEW i \in 1 .. Len(l)
        PROVE  Menus!ProfilePlace(l, gs, i) \in Nat
    <3> DEFINE h == Menus!HolderOf(l[i])
               items == Menus!ItemsOf(l, gs, h)
               k == Menus!ProfilePlace(l, gs, i)
    <3>1. h = Menus!HolderOf(l[i]) /\ items = Menus!ItemsOf(l, gs, h) /\ k = Menus!ProfilePlace(l, gs, i)
      OBVIOUS
    <3> HIDE DEF h, items, k
    <3>2. k \in DOMAIN items /\ items[k] = Menus!Profile(i) /\ k \in Nat
      BY <3>1, LeadsToProfile
    <3> QED
      BY <3>1, <3>2
  <2>2. pos' \in [1 .. Len(l) -> Nat] /\ Len(l) \in Nat
    BY <1>1, <1>2, <2>1
  <2> QED
    BY ONLY <2>2
<1>6. gpos' \in [Menus!Dirs -> Nat]
  <2>1. ASSUME NEW g \in Menus!Dirs
        PROVE  Menus!GroupPlace(l, gs, g) \in Nat
    <3> DEFINE q == Menus!ParentGroup(g)
               subs == Menus!SubMenus(l, gs, q)
    <3>1. subs = Menus!SubMenus(l, gs, q) /\ q \in Menus!Dirs
      BY GroupsDescend
    <3>2. Menus!GroupPlace(l, gs, g) =
             IF g \in Menus!ToSet(subs) THEN CHOOSE k \in DOMAIN subs : subs[k] = g ELSE 0
      BY DEF Menus!GroupPlace
    <3> HIDE DEF q, subs
    <3>3. subs \in Seq(Menus!Dirs)
      BY <3>1, SubMenusFacts
    <3>4. g \in Menus!ToSet(subs) => \E k \in DOMAIN subs : subs[k] = g
      BY DEF Menus!ToSet
    <3>5. DOMAIN subs \subseteq Nat
      BY <3>3
    <3> QED
      BY <3>2, <3>4, <3>5
  <2> QED
    BY <1>2, <2>1
<1>7. ASSUME Len(l) # 1
      PROVE  LeadsAll(nested, menu', l, pos', gpos')
  <2> SUFFICES ASSUME NEW i \in 1 .. Len(l), NEW h, h = HolderAt(nested, l[i])
               PROVE  /\ pos'[i] \in DOMAIN menu'[h] /\ menu'[h][pos'[i]] = Menus!Profile(i)
                      /\ \A g \in Menus!Ancestors[h] \ {"user"} :
                            /\ gpos'[g] \in DOMAIN menu'[Menus!ParentGroup(g)]
                            /\ menu'[Menus!ParentGroup(g)][gpos'[g]] = Menus!Group(g)
    BY DEF LeadsAll
  <2>1. h = Menus!HolderOf(l[i])
    BY HolderHere
  <2>2. /\ h \in gs /\ h \in Menus!Dirs /\ h \in Menus!ActiveGroups(l)
        /\ \A g \in Menus!Ancestors[h] \ {"user"} :
              /\ g \in gs /\ g \in Menus!Dirs /\ g \in Menus!ActiveGroups(l) /\ (nested \/ g = "auto")
              /\ Menus!ParentGroup(g) \in Menus!ActiveGroups(l) /\ Menus!ParentGroup(g) \in Menus!Dirs
    BY ONLY <2>1, FineGroups(gs), FineList(l, gs), nested \in BOOLEAN, HolderActive
  <2>3. \A g \in Menus!Dirs : g \in Menus!ActiveGroups(l) => menu'[g] = Menus!ItemsOf(l, gs, g)
    BY <1>2, <1>3, <1>7
  <2>4. pos'[i] = Menus!ProfilePlace(l, gs, i) /\ \A g \in Menus!Dirs : gpos'[g] = Menus!GroupPlace(l, gs, g)
    BY <1>1, <1>2
  <2>5. pos'[i] \in DOMAIN menu'[h] /\ menu'[h][pos'[i]] = Menus!Profile(i)
    <3> DEFINE items == menu'[h]
               k == pos'[i]
    <3>1. items = Menus!ItemsOf(l, gs, h) /\ k = Menus!ProfilePlace(l, gs, i)
      BY <2>2, <2>3, <2>4
    <3> HIDE DEF items, k
    <3>2. k \in DOMAIN items /\ items[k] = Menus!Profile(i) /\ k \in Nat
      BY <2>1, <3>1, LeadsToProfile
    <3> QED
      BY <3>2 DEF items, k
  <2>6. ASSUME NEW g \in Menus!Ancestors[h] \ {"user"}
        PROVE  /\ gpos'[g] \in DOMAIN menu'[Menus!ParentGroup(g)]
               /\ menu'[Menus!ParentGroup(g)][gpos'[g]] = Menus!Group(g)
    <3> DEFINE items == menu'[Menus!ParentGroup(g)]
               k == gpos'[g]
    <3>1. items = Menus!ItemsOf(l, gs, Menus!ParentGroup(g)) /\ k = Menus!GroupPlace(l, gs, g)
      BY <2>2, <2>3, <2>4
    <3>2. g \in Menus!Ancestors[Menus!HolderOf(l[i])] \ {"user"}
      BY <2>1
    <3> HIDE DEF items, k
    <3>3. k \in DOMAIN items /\ items[k] = Menus!Group(g)
      BY <3>1, <3>2, LeadsToGroup
    <3> QED
      BY <3>3 DEF items, k
  <2> QED
    BY <2>5, <2>6
<1>8. ASSUME Len(l) # 1
      PROVE  marked' \in SUBSET (Menus!Dirs \X Nat) /\ MarksAll(nested, l, pos', gpos', up, marked')
  <2> DEFINE mn == menu'
             p == pos'
             gp == gpos'
             M == marked'
  <2>1. Placed(gs, l, mn, p, gp)
    BY <1>1, <1>5, <1>6, <1>7, <1>8 DEF Placed
  <2>2. M = AllMarks(l, p, gp)
    BY <1>2, <1>3, <1>8
  <2> HIDE DEF mn, p, gp, M
  <2>3. M \in SUBSET (Menus!Dirs \X Nat) /\ MarksAll(nested, l, p, gp, up, M)
    BY ONLY <2>1, <2>2, AllMarked
  <2> QED
    BY <2>3 DEF p, gp, M
<1>9. Len(l) = 1 => marked' \in SUBSET (Menus!Dirs \X Nat)
  BY <1>2, <1>3
<1> QED
  BY <1>2, <1>4, <1>5, <1>6, <1>7, <1>8, <1>9

-----------------------------------------------------------------------------
MenuTypes ==
    /\ files \in [Menus!Dirs -> SUBSET Names] /\ present \subseteq SubDirs
    /\ autoService \in BOOLEAN /\ built \in BOOLEAN /\ nested \in BOOLEAN /\ onScreen \in BOOLEAN
    /\ fileEdits \in 0 .. MaxFileEdits /\ groups \subseteq Menus!Dirs /\ up \subseteq Names
    /\ menu \in [Menus!Dirs -> Seq(ItemsOfList(profiles))]
    /\ pos \in Seq(Nat) /\ Len(pos) = Len(profiles) /\ gpos \in [Menus!Dirs -> Nat]
    /\ marked \in SUBSET (Menus!Dirs \X Nat)

\* The menu on the screen is that of the list, in the view it was built for.
MenuInv ==
    /\ MenuTypes
    /\ FineList(profiles, groups) /\ (profiles # <<>> => FineGroups(groups))
    /\ onScreen /\ Len(profiles) # 1 =>
          /\ LeadsAll(nested, menu, profiles, pos, gpos)
          /\ MarksAll(nested, profiles, pos, gpos, up, marked)

\* Building the menus anew.
LEMMA RecreateKeeps ==
    ASSUME MenuInv, NEW on \in BOOLEAN, Menus!RecreatePopupMenus(on)
    PROVE  MenuInv'
<1> DEFINE gs == Menus!ScannedGroups
           l == Menus!Activated(Menus!Scan(gs), gs)
<1>1. FineGroups(gs)
  BY ScannedTree DEF MenuInv, MenuTypes
<1>2. FineList(profiles, gs)
  <2>1. CASE profiles = <<>>
    <3>1. 1 .. Len(<<>>) = {} /\ <<>> \in Seq(ListEntries)
      OBVIOUS
    <3> QED
      BY <2>1, <3>1 DEF FineList
  <2>2. CASE profiles # <<>>
    BY <2>2 DEF MenuInv, Menus!ScannedGroups
  <2> QED
    BY <2>1, <2>2
<1>3. FineList(l, gs)
  <2> DEFINE scan == Menus!Scan(gs)
  <2>1. FineList(scan, gs)
    BY <1>1, <1>2, ScanKeeps
  <2> HIDE DEF scan, gs
  <2>2. FineList(Menus!Activated(scan, gs), gs)
    BY <1>1, <2>1, ActivatedKeeps
  <2> QED
    BY <2>2 DEF scan
<1>4. /\ profiles' = l /\ groups' = gs /\ Menus!CreatePopupMenus(l, gs) /\ onScreen' = on
      /\ nested' = nested /\ up' = up
      /\ files' = files /\ present' = present /\ autoService' = autoService /\ fileEdits' = fileEdits
  BY DEF Menus!RecreatePopupMenus, Menus!diskVars
<1>5. nested \in BOOLEAN
  BY DEF MenuInv, MenuTypes
<1> HIDE DEF l, gs
<1>6. /\ menu' \in [Menus!Dirs -> Seq(ItemsOfList(l))]
      /\ pos' \in Seq(Nat) /\ Len(pos') = Len(l) /\ gpos' \in [Menus!Dirs -> Nat]
      /\ marked' \in SUBSET (Menus!Dirs \X Nat) /\ built' = TRUE
      /\ Len(l) # 1 => /\ LeadsAll(nested, menu', l, pos', gpos')
                       /\ MarksAll(nested, l, pos', gpos', up, marked')
  BY ONLY <1>1, <1>3, <1>4, <1>5, MenuBuilt
<1>7. MenuTypes'
  BY <1>1, <1>4, <1>6 DEF MenuInv, MenuTypes, FineGroups
<1>8. FineList(profiles', groups') /\ FineGroups(groups')
  BY <1>1, <1>3, <1>4
<1>9. (onScreen /\ Len(profiles) # 1 => LeadsAll(nested, menu, profiles, pos, gpos)
                                        /\ MarksAll(nested, profiles, pos, gpos, up, marked))'
  BY <1>4, <1>6
<1> QED
  BY <1>7, <1>8, <1>9 DEF MenuInv

\* The menu is left, or the view of the next one chosen, or the user's files change.
LEMMA ListStays ==
    ASSUME MenuInv, Menus!CloseMenu \/ Menus!ChangeView \/ Menus!UserEdits
    PROVE  MenuInv'
<1>1. MenuTypes
  BY DEF MenuInv
<1>2. UNCHANGED <<profiles, groups, menu, pos, gpos, marked, built, up>>
  BY DEF Menus!CloseMenu, Menus!ChangeView, Menus!UserEdits, Menus!menuVars
<1>3. /\ nested' \in BOOLEAN /\ onScreen' \in BOOLEAN
      /\ onScreen' => onScreen /\ nested' = nested
  <2>1. CASE Menus!CloseMenu
    BY <1>1, <2>1 DEF Menus!CloseMenu, MenuTypes
  <2>2. CASE Menus!ChangeView
    <3>1. nested' = ~nested /\ onScreen' = onScreen /\ ~onScreen
      BY <2>2 DEF Menus!ChangeView
    <3>2. nested' \in BOOLEAN
      BY <3>1
    <3> QED
      BY <1>1, <3>1, <3>2 DEF MenuTypes
  <2>3. CASE Menus!UserEdits
    BY <1>1, <2>3 DEF Menus!UserEdits, Menus!menuVars, MenuTypes
  <2> QED
    BY <2>1, <2>2, <2>3
<1>4. /\ files' \in [Menus!Dirs -> SUBSET Names] /\ present' \subseteq SubDirs
      /\ autoService' \in BOOLEAN /\ fileEdits' \in 0 .. MaxFileEdits
  <2>1. CASE UNCHANGED <<files, present, autoService, fileEdits>>
    BY <1>1, <2>1 DEF MenuTypes
  <2>2. CASE Menus!UserEdits
    <3>1. fileEdits' \in 0 .. MaxFileEdits
      BY <1>1, <2>2, MenuAssumption DEF Menus!UserEdits, Menus!Edit, MenuTypes
    <3>2. CASE \E d \in Menus!Dirs, n \in Names :
                  /\ files' = [files EXCEPT ![d] = IF n \in @ THEN @ \ {n} ELSE @ \cup {n}]
                  /\ UNCHANGED <<present, autoService>>
      BY <1>1, <3>1, <3>2 DEF MenuTypes
    <3>3. CASE \E d, e \in Menus!Roots \cup present, n \in Names :
                  /\ files' = [files EXCEPT ![d] = @ \ {n}, ![e] = @ \cup {n}]
                  /\ UNCHANGED <<present, autoService>>
      <4>1. PICK d \in Menus!Roots \cup present, e \in Menus!Roots \cup present, n \in Names :
               files' = [files EXCEPT ![d] = @ \ {n}, ![e] = @ \cup {n}] /\ UNCHANGED <<present, autoService>>
        BY <3>3
      <4>2. d \in Menus!Dirs /\ e \in Menus!Dirs
        BY <1>1, DirFacts DEF MenuTypes
      <4>3. files \in [Menus!Dirs -> SUBSET Names] /\ files[d] \subseteq Names
        BY <1>1, <4>2 DEF MenuTypes
      <4> DEFINE f == [files EXCEPT ![d] = @ \ {n}]
      <4>4. f \in [Menus!Dirs -> SUBSET Names]
        BY <4>2, <4>3
      <4>5. files' = [f EXCEPT ![e] = @ \cup {n}]
        BY <4>1
      <4> HIDE DEF f
      <4>6. files' \in [Menus!Dirs -> SUBSET Names]
        BY <4>2, <4>4, <4>5
      <4> QED
        BY <1>1, <3>1, <4>1, <4>6 DEF MenuTypes
    <3>4. CASE \E d \in SubDirs \ present : present' = present \cup {d} /\ UNCHANGED <<files, autoService>>
      BY <1>1, <3>1, <3>4 DEF MenuTypes
    <3>5. CASE autoService' = ~autoService /\ UNCHANGED <<files, present>>
      <4>1. autoService' \in BOOLEAN
        BY <3>5
      <4> QED
        BY <1>1, <3>1, <3>5, <4>1 DEF MenuTypes
    <3> QED
      BY <2>2, <3>2, <3>3, <3>4, <3>5 DEF Menus!UserEdits
  <2> QED
    BY <2>1, <2>2 DEF Menus!CloseMenu, Menus!ChangeView, Menus!diskVars
<1>5. MenuTypes'
  BY <1>1, <1>2, <1>3, <1>4 DEF MenuTypes
<1>6. (FineList(profiles, groups) /\ (profiles # <<>> => FineGroups(groups)))'
  BY <1>2 DEF MenuInv
<1>7. (onScreen /\ Len(profiles) # 1 => LeadsAll(nested, menu, profiles, pos, gpos)
                                        /\ MarksAll(nested, profiles, pos, gpos, up, marked))'
  BY <1>2, <1>3 DEF MenuInv
<1> QED
  BY <1>5, <1>6, <1>7 DEF MenuInv

\* The state of a profile changes, and with it its marks and no other's.
LEMMA StateChangesKeep ==
    ASSUME MenuInv, NEW i \in DOMAIN profiles, Menus!StateChanges(i)
    PROVE  MenuInv'
<1>1. MenuTypes /\ FineList(profiles, groups) /\ i \in 1 .. Len(profiles)
  BY DEF MenuInv, FineList
<1> DEFINE l == profiles
           name == l[i].name
           on == name \in up'
           m2 == Menus!StatusMarks(l, pos, gpos, i, on, marked)
<1>2. /\ up' = (IF name \in up THEN up \ {name} ELSE up \cup {name})
      /\ marked' = (IF Menus!SingleMenu(l) THEN marked ELSE m2)
  BY DEF Menus!StateChanges
<1>3. UNCHANGED <<files, present, autoService, fileEdits, profiles, groups, menu, pos, gpos, built,
                  nested, onScreen>>
  BY DEF Menus!StateChanges, Menus!diskVars
<1>4. name \in Names /\ up' \subseteq Names
  <2>1. l[i] \in ListEntries
    BY <1>1 DEF FineList
  <2>2. name \in Names
    BY <2>1 DEF ListEntries
  <2> QED
    BY <1>1, <1>2, <2>2 DEF MenuTypes
<1>5. marked' \in SUBSET (Menus!Dirs \X Nat)
  <2>1. m2 \in SUBSET (Menus!Dirs \X Nat)
    <3> HIDE DEF on
    <3>1. /\ groups \subseteq Menus!Dirs /\ nested \in BOOLEAN /\ pos \in Seq(Nat) /\ Len(pos) = Len(l)
          /\ gpos \in [Menus!Dirs -> Nat] /\ marked \in SUBSET (Menus!Dirs \X Nat) /\ FineList(l, groups)
      BY <1>1 DEF MenuTypes
    <3> HIDE DEF l
    <3> QED
      BY <1>1, <3>1, StatusMarksType DEF l
  <2>2. marked \in SUBSET (Menus!Dirs \X Nat)
    BY <1>1 DEF MenuTypes
  <2> QED
    BY <1>2, <2>1, <2>2
<1>6. ASSUME onScreen, Len(l) # 1
      PROVE  LeadsAll(nested, menu, l, pos, gpos) /\ MarksAll(nested, l, pos, gpos, up', marked')
  <2>1. LeadsAll(nested, menu, l, pos, gpos) /\ MarksAll(nested, l, pos, gpos, up, marked)
    BY <1>6 DEF MenuInv
  <2>2. marked' = m2
    BY <1>2, <1>6 DEF Menus!SingleMenu
  <2>3. /\ on => ChainAt(nested, l, pos, gpos, i) \subseteq m2
        /\ \A k \in 1 .. Len(l) : k # i /\ ChainAt(nested, l, pos, gpos, k) \subseteq marked
                                 => ChainAt(nested, l, pos, gpos, k) \subseteq m2
    <3>1. /\ LeadsAll(nested, menu, l, pos, gpos) /\ i \in 1 .. Len(l) /\ on \in BOOLEAN
          /\ m2 = Menus!StatusMarks(l, pos, gpos, i, on, marked)
      BY <1>1, <2>1
    <3> HIDE DEF on, m2, l
    <3> QED
      BY ONLY <3>1, StatusMarksKeep
  <2>4. ASSUME NEW k \in 1 .. Len(l), l[k].name \in up'
        PROVE  ChainAt(nested, l, pos, gpos, k) \subseteq marked'
    <3>1. CASE k = i
      <4>1. on
        BY <2>4, <3>1
      <4> HIDE DEF on, m2, l
      <4> QED
        BY <2>2, <2>3, <3>1, <4>1
    <3>2. CASE k # i
      <4>1. l[k].name # name
        BY <1>1, <3>2 DEF FineList
      <4>2. l[k].name \in up
        BY <1>2, <2>4, <4>1
      <4>3. ChainAt(nested, l, pos, gpos, k) \subseteq marked
        BY <2>1, <4>2 DEF MarksAll
      <4> HIDE DEF on, m2, l
      <4> QED
        BY <2>2, <2>3, <3>2, <4>3
    <3> QED
      BY <3>1, <3>2
  <2> HIDE DEF m2, l
  <2> QED
    BY <2>1, <2>4 DEF MarksAll
<1>7. MenuTypes'
  BY <1>1, <1>3, <1>4, <1>5 DEF MenuTypes
<1>8. (FineList(profiles, groups) /\ (profiles # <<>> => FineGroups(groups)))'
  BY <1>3 DEF MenuInv
<1>9. (onScreen /\ Len(profiles) # 1 => LeadsAll(nested, menu, profiles, pos, gpos)
                                        /\ MarksAll(nested, profiles, pos, gpos, up, marked))'
  BY <1>3, <1>6
<1> QED
  BY <1>7, <1>8, <1>9 DEF MenuInv

\* The lists and the menus agree, always.
LEMMA MenuKept == Spec => []MenuInv
<1>1. Init => MenuInv
  <2> SUFFICES ASSUME Init
               PROVE  MenuInv
    OBVIOUS
  <2>1. Menus!Init
    BY DEF Init
  <2>2. /\ profiles = <<>> /\ groups = {} /\ built = FALSE /\ pos = <<>> /\ marked = {}
        /\ menu = [g \in Menus!Dirs |-> <<>>] /\ gpos = [g \in Menus!Dirs |-> 0]
        /\ onScreen = FALSE /\ nested \in BOOLEAN /\ up = {} /\ fileEdits = 0
        /\ files \in [Menus!Dirs -> {{}, Names}] /\ present \in SUBSET SubDirs /\ autoService \in BOOLEAN
    BY <2>1 DEF Menus!Init
  <2>3. MenuTypes
    <3>1. files \in [Menus!Dirs -> SUBSET Names]
      BY <2>2
    <3>2. <<>> \in Seq(ItemsOfList(<<>>)) /\ <<>> \in Seq(Nat) /\ Len(<<>>) = Len(<<>>)
      OBVIOUS
    <3>3. menu \in [Menus!Dirs -> Seq(ItemsOfList(profiles))]
      BY <2>2, <3>2
    <3>4. gpos \in [Menus!Dirs -> Nat] /\ 0 \in 0 .. MaxFileEdits
      BY <2>2, MenuAssumption
    <3> QED
      BY <2>2, <3>1, <3>2, <3>3, <3>4 DEF MenuTypes
  <2>4. FineList(profiles, groups)
    <3>1. 1 .. Len(<<>>) = {} /\ <<>> \in Seq(ListEntries)
      OBVIOUS
    <3> QED
      BY <2>2, <3>1 DEF FineList
  <2> QED
    BY <2>2, <2>3, <2>4 DEF MenuInv
<1>2. MenuInv /\ [Next]_vars => MenuInv'
  <2> SUFFICES ASSUME MenuInv, [Next]_vars
               PROVE  MenuInv'
    OBVIOUS
  <2>1. Menus!Next \/ UNCHANGED menuVars
    BY DEF Next, vars, PlapStep, ObjectsStep, MenusStep, StartingStep, TokensStep, MessagesStep,
           EnvStep, ProxiesStep, ImportsStep, ReaderStep
  <2>2. CASE UNCHANGED menuVars
    BY <2>2 DEF menuVars, MenuInv, MenuTypes
  <2>3. CASE Menus!Next
    <3>1. CASE Menus!OpenMenu \/ Menus!Rescan
      <4>1. PICK on \in BOOLEAN : Menus!RecreatePopupMenus(on)
        BY <3>1 DEF Menus!OpenMenu, Menus!Rescan
      <4> QED
        BY <4>1, RecreateKeeps
    <3>2. CASE Menus!CloseMenu \/ Menus!ChangeView \/ Menus!UserEdits
      BY <3>2, ListStays
    <3>3. CASE \E i \in DOMAIN profiles : Menus!StateChanges(i)
      BY <3>3, StateChangesKeep
    <3> QED
      BY <2>3, <3>1, <3>2, <3>3 DEF Menus!Next
  <2> QED
    BY <2>1, <2>2, <2>3
<1> QED
  BY <1>1, <1>2, PTL DEF Spec

\* Every profile can be reached in the menu on the screen, and names are unique.
THEOREM MenuReaches == Spec => []ProfilesReachable
<1>1. MenuInv => ProfilesReachable
  <2> SUFFICES ASSUME MenuInv
               PROVE  Menus!ProfilesReachable /\ Menus!NamesUnique
    BY DEF ProfilesReachable
  <2>1. FineList(profiles, groups) /\ DOMAIN profiles = 1 .. Len(profiles)
    BY DEF MenuInv, FineList
  <2>2. Menus!NamesUnique
    BY <2>1 DEF FineList, Menus!NamesUnique
  <2>3. Menus!ProfilesReachable
    <3> SUFFICES ASSUME onScreen, Len(profiles) # 1, NEW i \in 1 .. Len(profiles)
                 PROVE  /\ Menus!Leads(pos[i], Menus!Profile(i), Menus!HolderOf(profiles[i]))
                        /\ \A g \in Menus!Ancestors[Menus!HolderOf(profiles[i])] \ {"user"} :
                              Menus!Leads(gpos[g], Menus!Group(g), Menus!ParentGroup(g))
      BY <2>1 DEF Menus!ProfilesReachable, Menus!SingleMenu
    <3>1. LeadsAll(nested, menu, profiles, pos, gpos)
      BY DEF MenuInv
    <3> QED
      BY <3>1, HolderHere DEF LeadsAll, Menus!Leads
  <2> QED
    BY <2>2, <2>3
<1> QED
  BY <1>1, MenuKept, PTL

\* A profile that is up is marked from the main menu down to its own item.
THEOREM MenuMarks == Spec => []UpIsMarked
<1>1. MenuInv => UpIsMarked
  <2> SUFFICES ASSUME MenuInv
               PROVE  Menus!UpIsMarked
    BY DEF UpIsMarked
  <2>1. DOMAIN profiles = 1 .. Len(profiles)
    BY DEF MenuInv, FineList
  <2> SUFFICES ASSUME onScreen, Len(profiles) # 1, NEW i \in 1 .. Len(profiles), profiles[i].name \in up
               PROVE  Menus!Chain(profiles, pos, gpos, i) \subseteq marked
    BY <2>1 DEF Menus!UpIsMarked, Menus!SingleMenu
  <2>2. MarksAll(nested, profiles, pos, gpos, up, marked)
    BY DEF MenuInv
  <2> QED
    BY <2>2, ChainHere DEF MarksAll
<1> QED
  BY <1>1, MenuKept, PTL

-----------------------------------------------------------------------------
(* EnvSet *)

\* Sorted by name; there may be several of the empty name, which come first.
Ordered(s) ==
    \A i, k \in 1 .. Len(s) : i < k => s[i].name < s[k].name \/ (s[i].name = 0 /\ s[k].name = 0)

\* The list of the server and the block of the GUI, as merge_env_block expects them.
Fit(l, b) ==
    /\ l \in Seq(Env!Items) /\ Ordered(l)
    /\ b \in Seq(Env!Entries) /\ Ordered(b)

\* The instance of the desktop picks as the module itself does.
LEMMA EnvOnly == \A s, S : Env!Only(s, S) = Only(s, S)
BY Zenon DEF Env!Only, Only, Env!FoldLeft, FoldLeft, Env!MapThenFoldSet, MapThenFoldSet,
             Env!Max, Max

\* The instance of the desktop counts as the module itself does.
LEMMA EnvCardinality == \A S : Env!Cardinality(S) = Cardinality(S)
BY Zenon DEF Env!Cardinality, Cardinality

\* What is behind a place of a sequence.
LEMMA Suffix ==
    ASSUME NEW S, NEW s \in Seq(S), NEW i \in 1 .. Len(s) + 1, NEW t, t = SubSeq(s, i, Len(s))
    PROVE  /\ t \in Seq(S) /\ Len(t) = Len(s) - i + 1
           /\ \A k \in 1 .. Len(t) : k + i - 1 \in i .. Len(s) /\ t[k] = s[k + i - 1]
           /\ \A k \in i .. Len(s) : k - i + 1 \in 1 .. Len(t) /\ t[k - i + 1] = s[k]
<1>1. Len(s) \in Nat /\ \A k \in 1 .. Len(s) : s[k] \in S
  OBVIOUS
<1>2. t = [k \in 1 .. (Len(s) - i + 1) |-> s[i + k - 1]]
  BY <1>1
<1>3. Len(s) - i + 1 \in Nat
  BY <1>1
<1>4. \A k \in 1 .. (Len(s) - i + 1) : i + k - 1 \in 1 .. Len(s)
  BY <1>1
<1>5. t \in Seq(S) /\ Len(t) = Len(s) - i + 1
  BY <1>1, <1>2, <1>3, <1>4
<1>6. \A k \in 1 .. Len(t) : k + i - 1 \in i .. Len(s) /\ k + i - 1 = i + k - 1
  BY <1>1, <1>5
<1>7. \A k \in 1 .. Len(t) : t[k] = s[k + i - 1]
  BY <1>2, <1>5, <1>6
<1>8. \A k \in i .. Len(s) : k - i + 1 \in 1 .. Len(t) /\ (k - i + 1) + i - 1 = k
  BY <1>1, <1>5
<1> QED
  BY <1>5, <1>6, <1>7, <1>8

\* One element in front of a sequence.
LEMMA InFront ==
    ASSUME NEW S, NEW x \in S, NEW t \in Seq(S), NEW u, u = <<x>> \o t
    PROVE  /\ u \in Seq(S) /\ Len(u) = Len(t) + 1 /\ Len(t) \in Nat /\ u[1] = x /\ 1 \in 1 .. Len(u)
           /\ \A k \in 1 .. Len(t) : k + 1 \in 1 .. Len(u) /\ u[k + 1] = t[k]
           /\ \A k \in 1 .. Len(u) : k = 1 \/ (k - 1 \in 1 .. Len(t) /\ u[k] = t[k - 1])
<1>1. u \in Seq(S) /\ Len(u) = Len(t) + 1 /\ Len(t) \in Nat /\ u[1] = x
  OBVIOUS
<1>2. \A k \in 1 .. Len(t) : k + 1 \in 1 .. Len(u) /\ u[k + 1] = t[k]
  OBVIOUS
<1>3. \A k \in 1 .. Len(u) : k = 1 \/ (k - 1 \in 1 .. Len(t) /\ (k - 1) + 1 = k)
  BY <1>1
<1> QED
  BY <1>1, <1>2, <1>3

\* The list has a name that n is hidden by.
Covered(l, i, n) == \E a \in i .. Len(l) : l[a].name = n

\* s is what becomes of the list from place i and the block from place j.
Merged(s, l, b, i, j) ==
    /\ s \in Seq(Env!Entries) /\ Ordered(s)
    /\ \A k \in 1 .. Len(s) : \/ \E a \in i .. Len(l) : s[k] = l[a]
                              \/ \E c \in j .. Len(b) : s[k] = b[c] /\ ~Covered(l, i, b[c].name)
    /\ \A a \in i .. Len(l) : \E k \in 1 .. Len(s) : s[k] = l[a]
    /\ \A c \in j .. Len(b) : Covered(l, i, b[c].name) \/ \E k \in 1 .. Len(s) : s[k] = b[c]
    /\ \A k \in 1 .. Len(s) : s[k].name = 0 => k + j - 1 \in j .. Len(b) /\ s[k] = b[k + j - 1]
    /\ \A c \in j .. Len(b) : b[c].name = 0 => c - j + 1 \in 1 .. Len(s) /\ s[c - j + 1] = b[c]

\* The names of both are numbers that grow; those of the list are not empty.
LEMMA FitFacts ==
    ASSUME NEW l, NEW b, Fit(l, b), EnvAssumption
    PROVE  /\ Len(l) \in Nat /\ Len(b) \in Nat
           /\ \A a \in 1 .. Len(l) : l[a] \in Env!Entries /\ l[a].name \in Nat \ {0}
           /\ \A c \in 1 .. Len(b) : b[c] \in Env!Entries /\ b[c].name \in Nat
           /\ \A a, d \in 1 .. Len(l) : a < d => l[a].name < l[d].name
           /\ \A c, d \in 1 .. Len(b) : c < d => b[c].name < b[d].name \/ (b[c].name = 0 /\ b[d].name = 0)
<1>1. Len(l) \in Nat /\ Len(b) \in Nat /\ \A a \in 1 .. Len(l) : l[a] \in Env!Items
  BY DEF Fit
<1>2. \A c \in 1 .. Len(b) : b[c] \in Env!Entries
  BY DEF Fit
<1>3. \A x \in Env!Items : x \in Env!Entries /\ x.name \in Nat \ {0}
  BY EnvAssumption DEF Env!Items, Env!Entries, EnvAssumption
<1>4. \A x \in Env!Entries : x.name \in Nat
  BY EnvAssumption DEF Env!Entries, EnvAssumption
<1>5. \A a, d \in 1 .. Len(l) : a < d => l[a].name < l[d].name
  <2> SUFFICES ASSUME NEW a \in 1 .. Len(l), NEW d \in 1 .. Len(l), a < d
               PROVE  l[a].name < l[d].name
    OBVIOUS
  <2>1. l[a].name # 0
    BY <1>1, <1>3
  <2> QED
    BY <2>1 DEF Fit, Ordered
<1>6. \A c, d \in 1 .. Len(b) : c < d => b[c].name < b[d].name \/ (b[c].name = 0 /\ b[d].name = 0)
  BY DEF Fit, Ordered
<1> QED
  BY <1>1, <1>2, <1>3, <1>4, <1>5, <1>6

\* The list is over: the rest of the block follows.
LEMMA ListOver ==
    ASSUME NEW l, NEW b, Fit(l, b), EnvAssumption, NEW j \in 1 .. Len(b) + 1,
           NEW i \in Nat, i > Len(l), NEW s, s = SubSeq(b, j, Len(b))
    PROVE  Merged(s, l, b, i, j)
<1> DEFINE E == Env!Entries
<1>0. Len(l) \in Nat /\ Len(b) \in Nat
  BY FitFacts
<1>1. /\ s \in Seq(E) /\ Len(s) = Len(b) - j + 1
      /\ \A k \in 1 .. Len(s) : k + j - 1 \in j .. Len(b) /\ s[k] = b[k + j - 1]
      /\ \A c \in j .. Len(b) : c - j + 1 \in 1 .. Len(s) /\ s[c - j + 1] = b[c]
  <2>1. b \in Seq(E)
    BY DEF Fit
  <2> HIDE DEF E
  <2> QED
    BY ONLY <2>1, s = SubSeq(b, j, Len(b)), j \in 1 .. Len(b) + 1, Suffix
<1>2. i .. Len(l) = {} /\ \A n : ~Covered(l, i, n)
  BY <1>0 DEF Covered
<1>3. Ordered(s)
  <2> SUFFICES ASSUME NEW k \in 1 .. Len(s), NEW m \in 1 .. Len(s), k < m
               PROVE  s[k].name < s[m].name \/ (s[k].name = 0 /\ s[m].name = 0)
    BY DEF Ordered
  <2>1. /\ k + j - 1 \in 1 .. Len(b) /\ m + j - 1 \in 1 .. Len(b) /\ k + j - 1 < m + j - 1
    BY <1>0, <1>1
  <2>2. s[k] = b[k + j - 1] /\ s[m] = b[m + j - 1]
    BY <1>1
  <2> QED
    BY <2>1, <2>2, FitFacts
<1>4. \A k \in 1 .. Len(s) : \E c \in j .. Len(b) : s[k] = b[c] /\ ~Covered(l, i, b[c].name)
  BY <1>1, <1>2
<1>5. \A c \in j .. Len(b) : \E k \in 1 .. Len(s) : s[k] = b[c]
  BY <1>1
<1> QED
  BY <1>1, <1>2, <1>3, <1>4, <1>5 DEF Merged

\* The block is over: the rest of the list follows.
LEMMA BlockOver ==
    ASSUME NEW l, NEW b, Fit(l, b), EnvAssumption, NEW i \in 1 .. Len(l) + 1,
           NEW j \in Nat, j > Len(b), NEW s, s = SubSeq(l, i, Len(l))
    PROVE  Merged(s, l, b, i, j)
<1> DEFINE E == Env!Entries
<1>0. Len(l) \in Nat /\ Len(b) \in Nat
  BY FitFacts
<1>1. /\ s \in Seq(E) /\ Len(s) = Len(l) - i + 1
      /\ \A k \in 1 .. Len(s) : k + i - 1 \in i .. Len(l) /\ s[k] = l[k + i - 1]
      /\ \A c \in i .. Len(l) : c - i + 1 \in 1 .. Len(s) /\ s[c - i + 1] = l[c]
  <2>1. l \in Seq(E)
    <3>1. Len(l) \in Nat /\ l \in Seq(Env!Items) /\ \A k \in 1 .. Len(l) : l[k] \in E
      BY FitFacts DEF Fit
    <3> HIDE DEF E
    <3> QED
      BY <3>1
  <2> HIDE DEF E
  <2> QED
    BY ONLY <2>1, s = SubSeq(l, i, Len(l)), i \in 1 .. Len(l) + 1, Suffix
<1>2. j .. Len(b) = {}
  BY <1>0
<1>3. Ordered(s)
  <2> SUFFICES ASSUME NEW k \in 1 .. Len(s), NEW m \in 1 .. Len(s), k < m
               PROVE  s[k].name < s[m].name
    BY DEF Ordered
  <2>1. /\ k + i - 1 \in 1 .. Len(l) /\ m + i - 1 \in 1 .. Len(l) /\ k + i - 1 < m + i - 1
    BY <1>0, <1>1
  <2>2. s[k] = l[k + i - 1] /\ s[m] = l[m + i - 1]
    BY <1>1
  <2> QED
    BY <2>1, <2>2, FitFacts
<1>4. \A k \in 1 .. Len(s) : s[k].name # 0
  <2> TAKE k \in 1 .. Len(s)
  <2>1. k + i - 1 \in 1 .. Len(l) /\ s[k] = l[k + i - 1]
    BY <1>0, <1>1
  <2> QED
    BY <2>1, FitFacts
<1>5. \A k \in 1 .. Len(s) : \E a \in i .. Len(l) : s[k] = l[a]
  BY <1>1
<1>6. \A a \in i .. Len(l) : \E k \in 1 .. Len(s) : s[k] = l[a]
  BY <1>1
<1> QED
  BY <1>1, <1>2, <1>3, <1>4, <1>5, <1>6 DEF Merged

\* What is next in the list comes first: the block is behind it, or hidden by it.
LEMMA ListNext ==
    ASSUME NEW l, NEW b, Fit(l, b), EnvAssumption, NEW i \in 1 .. Len(l), NEW j \in 1 .. Len(b),
           l[i].name <= b[j].name, NEW t,
           Merged(t, l, b, i + 1, IF l[i].name = b[j].name THEN j + 1 ELSE j),
           NEW s, s = <<l[i]>> \o t
    PROVE  Merged(s, l, b, i, j)
<1> DEFINE h == IF l[i].name = b[j].name THEN j + 1 ELSE j
           E == Env!Entries
           x == l[i]
<1>0. /\ Len(l) \in Nat /\ Len(b) \in Nat /\ h \in {j, j + 1} /\ x \in E /\ x.name \in Nat \ {0}
      /\ b[j].name \in Nat /\ (h = j + 1 => b[j].name = x.name) /\ (h = j => x.name < b[j].name)
  BY FitFacts
<1>t. Merged(t, l, b, i + 1, h)
  OBVIOUS
<1> HIDE DEF h, E, x
<1>1. /\ s \in Seq(E) /\ Len(s) = Len(t) + 1 /\ Len(t) \in Nat /\ s[1] = x /\ 1 \in 1 .. Len(s)
      /\ \A k \in 1 .. Len(t) : k + 1 \in 1 .. Len(s) /\ s[k + 1] = t[k]
      /\ \A k \in 1 .. Len(s) : k = 1 \/ (k - 1 \in 1 .. Len(t) /\ s[k] = t[k - 1])
  <2>1. t \in Seq(E) /\ s = <<x>> \o t /\ x \in E
    BY <1>0, <1>t DEF Merged, x, E
  <2> QED
    BY ONLY <2>1, InFront
<1>2. \A a \in i + 1 .. Len(l) : a \in 1 .. Len(l) /\ x.name < l[a].name /\ l[a].name \in Nat
  <2> TAKE a \in i + 1 .. Len(l)
  <2>1. a \in 1 .. Len(l) /\ i < a
    BY <1>0
  <2> QED
    BY <2>1, FitFacts DEF x
<1>3. \A c \in j .. Len(b) : c \in 1 .. Len(b) /\ b[c].name \in Nat /\ (c = j \/ b[j].name < b[c].name)
  <2> TAKE c \in j .. Len(b)
  <2>1. c \in 1 .. Len(b) /\ (c = j \/ j < c)
    BY <1>0
  <2>2. b[j].name # 0
    BY <1>0
  <2> QED
    BY <2>1, <2>2, FitFacts
<1>4. \A c \in h .. Len(b) : c \in j .. Len(b) /\ x.name < b[c].name
  <2> TAKE c \in h .. Len(b)
  <2>1. c \in j .. Len(b) /\ (h = j + 1 => c # j)
    BY <1>0
  <2> QED
    BY <1>0, <1>3, <2>1
<1>5. \A k \in 1 .. Len(t) : x.name < t[k].name
  BY <1>t, <1>2, <1>4 DEF Merged
<1>6. Ordered(s)
  <2> SUFFICES ASSUME NEW k \in 1 .. Len(s), NEW m \in 1 .. Len(s), k < m
               PROVE  s[k].name < s[m].name \/ (s[k].name = 0 /\ s[m].name = 0)
    BY DEF Ordered
  <2>1. m - 1 \in 1 .. Len(t) /\ s[m] = t[m - 1]
    BY <1>1
  <2>2. CASE k = 1
    BY <1>1, <1>5, <2>1, <2>2
  <2>3. CASE k # 1
    <3>1. k - 1 \in 1 .. Len(t) /\ s[k] = t[k - 1] /\ k - 1 < m - 1
      BY <1>1, <2>3
    <3>2. \A p, q \in 1 .. Len(t) : p < q => t[p].name < t[q].name \/ (t[p].name = 0 /\ t[q].name = 0)
      BY <1>t DEF Merged, Ordered
    <3> QED
      BY ONLY <2>1, <3>1, <3>2
  <2> QED
    BY <2>2, <2>3
<1>7. \A a \in i .. Len(l) : a = i \/ a \in i + 1 .. Len(l)
  OBVIOUS
<1>8. \A n : Covered(l, i, n) <=> n = x.name \/ Covered(l, i + 1, n)
  <2> DEFINE I == i .. Len(l)
             J == i + 1 .. Len(l)
  <2>1. i \in I /\ (\A a \in J : a \in I) /\ \A a \in I : a = i \/ a \in J
    BY <1>0, <1>7
  <2>2. \A n : (Covered(l, i, n) <=> \E a \in I : l[a].name = n)
             /\ (Covered(l, i + 1, n) <=> \E a \in J : l[a].name = n)
    BY Zenon DEF Covered
  <2> HIDE DEF I, J
  <2> QED
    BY ONLY <2>1, <2>2 DEF x
<1>9. \A k \in 1 .. Len(s) : \/ \E a \in i .. Len(l) : s[k] = l[a]
                             \/ \E c \in j .. Len(b) : s[k] = b[c] /\ ~Covered(l, i, b[c].name)
  <2> TAKE k \in 1 .. Len(s)
  <2>1. CASE k = 1
    <3>1. i \in i .. Len(l)
      BY <1>0
    <3> QED
      BY <1>1, <2>1, <3>1 DEF x
  <2>2. CASE k # 1
    <3>1. k - 1 \in 1 .. Len(t) /\ s[k] = t[k - 1]
      BY <1>1, <2>2
    <3>2. CASE \E a \in i + 1 .. Len(l) : t[k - 1] = l[a]
      <4>1. PICK a \in i + 1 .. Len(l) : t[k - 1] = l[a]
        BY <3>2
      <4>2. a \in i .. Len(l)
        BY <1>0
      <4> QED
        BY <3>1, <4>1, <4>2
    <3>3. CASE \E c \in h .. Len(b) : t[k - 1] = b[c] /\ ~Covered(l, i + 1, b[c].name)
      <4>1. PICK c \in h .. Len(b) : t[k - 1] = b[c] /\ ~Covered(l, i + 1, b[c].name)
        BY <3>3
      <4>2. c \in j .. Len(b) /\ x.name < b[c].name
        BY <1>4
      <4>3. ~Covered(l, i, b[c].name)
        BY <1>0, <1>3, <1>8, <4>1, <4>2
      <4> QED
        BY <3>1, <4>1, <4>2, <4>3
    <3> QED
      BY <1>t, <3>1, <3>2, <3>3 DEF Merged
  <2> QED
    BY <2>1, <2>2
<1>10. \A a \in i .. Len(l) : \E k \in 1 .. Len(s) : s[k] = l[a]
  <2> TAKE a \in i .. Len(l)
  <2>1. CASE a = i
    BY <1>1, <2>1 DEF x
  <2>2. CASE a \in i + 1 .. Len(l)
    <3>1. PICK k \in 1 .. Len(t) : t[k] = l[a]
      BY <1>t, <2>2 DEF Merged
    <3> QED
      BY <1>1, <3>1
  <2> QED
    BY <1>7, <2>1, <2>2
<1>11. \A c \in j .. Len(b) : Covered(l, i, b[c].name) \/ \E k \in 1 .. Len(s) : s[k] = b[c]
  <2> SUFFICES ASSUME NEW c \in j .. Len(b), ~Covered(l, i, b[c].name)
               PROVE  \E k \in 1 .. Len(s) : s[k] = b[c]
    OBVIOUS
  <2>1. b[c].name # x.name /\ ~Covered(l, i + 1, b[c].name)
    BY <1>8
  <2>2. c \in h .. Len(b)
    BY <1>0, <2>1
  <2>3. PICK k \in 1 .. Len(t) : t[k] = b[c]
    BY <1>t, <2>1, <2>2 DEF Merged
  <2> QED
    BY <1>1, <2>3
<1>12. \A k \in 1 .. Len(s) : s[k].name # 0
  <2> TAKE k \in 1 .. Len(s)
  <2>1. CASE k = 1
    BY <1>0, <1>1, <2>1
  <2>2. CASE k # 1
    <3>1. k - 1 \in 1 .. Len(t) /\ s[k] = t[k - 1]
      BY <1>1, <2>2
    <3>2. x.name < t[k - 1].name
      BY <1>5, <3>1
    <3> QED
      BY <1>0, <3>1, <3>2
  <2> QED
    BY <2>1, <2>2
<1>13. \A c \in j .. Len(b) : b[c].name # 0
  BY <1>0, <1>3
<1> QED
  BY <1>1, <1>6, <1>9, <1>10, <1>11, <1>12, <1>13 DEF Merged, E

\* What is next in the block comes before what is next in the list.
LEMMA BlockNext ==
    ASSUME NEW l, NEW b, Fit(l, b), EnvAssumption, NEW i \in 1 .. Len(l), NEW j \in 1 .. Len(b),
           b[j].name < l[i].name, NEW t, Merged(t, l, b, i, j + 1), NEW s, s = <<b[j]>> \o t
    PROVE  Merged(s, l, b, i, j)
<1> DEFINE E == Env!Entries
           x == b[j]
<1>0. /\ Len(l) \in Nat /\ Len(b) \in Nat /\ x \in E /\ x.name \in Nat /\ x.name < l[i].name
  BY FitFacts
<1> HIDE DEF E, x
<1>1. /\ s \in Seq(E) /\ Len(s) = Len(t) + 1 /\ Len(t) \in Nat /\ s[1] = x /\ 1 \in 1 .. Len(s)
      /\ \A k \in 1 .. Len(t) : k + 1 \in 1 .. Len(s) /\ s[k + 1] = t[k]
      /\ \A k \in 1 .. Len(s) : k = 1 \/ (k - 1 \in 1 .. Len(t) /\ s[k] = t[k - 1])
  <2>1. t \in Seq(E) /\ s = <<x>> \o t /\ x \in E
    BY <1>0 DEF Merged, x, E
  <2> QED
    BY ONLY <2>1, InFront
<1>2. \A a \in i .. Len(l) : x.name < l[a].name /\ l[a].name \in Nat
  <2> TAKE a \in i .. Len(l)
  <2>1. a \in 1 .. Len(l) /\ (a = i \/ i < a) /\ l[i].name \in Nat
    BY <1>0, FitFacts
  <2> QED
    BY <1>0, <2>1, FitFacts
<1>3. \A c \in j + 1 .. Len(b) : /\ c \in j .. Len(b) /\ b[c].name \in Nat
                                 /\ x.name < b[c].name \/ (x.name = 0 /\ b[c].name = 0)
  <2> TAKE c \in j + 1 .. Len(b)
  <2>1. c \in 1 .. Len(b) /\ j < c /\ c \in j .. Len(b)
    BY <1>0
  <2> QED
    BY <2>1, FitFacts DEF x
<1>4. \A k \in 1 .. Len(t) : x.name < t[k].name \/ (x.name = 0 /\ t[k].name = 0)
  <2> TAKE k \in 1 .. Len(t)
  <2>1. \/ \E a \in i .. Len(l) : t[k] = l[a]
        \/ \E c \in j + 1 .. Len(b) : t[k] = b[c]
    BY DEF Merged
  <2> QED
    BY <1>2, <1>3, <2>1
<1>5. Ordered(s)
  <2> SUFFICES ASSUME NEW k \in 1 .. Len(s), NEW m \in 1 .. Len(s), k < m
               PROVE  s[k].name < s[m].name \/ (s[k].name = 0 /\ s[m].name = 0)
    BY DEF Ordered
  <2>1. m - 1 \in 1 .. Len(t) /\ s[m] = t[m - 1]
    BY <1>1
  <2>2. CASE k = 1
    BY <1>1, <1>4, <2>1, <2>2
  <2>3. CASE k # 1
    <3>1. k - 1 \in 1 .. Len(t) /\ s[k] = t[k - 1] /\ k - 1 < m - 1
      BY <1>1, <2>3
    <3>2. \A p, q \in 1 .. Len(t) : p < q => t[p].name < t[q].name \/ (t[p].name = 0 /\ t[q].name = 0)
      BY DEF Merged, Ordered
    <3> QED
      BY ONLY <2>1, <3>1, <3>2
  <2> QED
    BY <2>2, <2>3
<1>6. ~Covered(l, i, x.name)
  BY <1>0, <1>2 DEF Covered
<1>7. \A c \in j .. Len(b) : c = j \/ c \in j + 1 .. Len(b)
  BY <1>0
<1>8. \A k \in 1 .. Len(s) : \/ \E a \in i .. Len(l) : s[k] = l[a]
                             \/ \E c \in j .. Len(b) : s[k] = b[c] /\ ~Covered(l, i, b[c].name)
  <2> TAKE k \in 1 .. Len(s)
  <2>1. CASE k = 1
    <3>1. j \in j .. Len(b)
      BY <1>0
    <3> QED
      BY <1>1, <1>6, <2>1, <3>1 DEF x
  <2>2. CASE k # 1
    <3>1. k - 1 \in 1 .. Len(t) /\ s[k] = t[k - 1]
      BY <1>1, <2>2
    <3>2. \/ \E a \in i .. Len(l) : t[k - 1] = l[a]
          \/ \E c \in j + 1 .. Len(b) : t[k - 1] = b[c] /\ ~Covered(l, i, b[c].name)
      BY <3>1 DEF Merged
    <3> QED
      BY <1>3, <3>1, <3>2
  <2> QED
    BY <2>1, <2>2
<1>9. \A a \in i .. Len(l) : \E k \in 1 .. Len(s) : s[k] = l[a]
  <2> TAKE a \in i .. Len(l)
  <2>1. PICK k \in 1 .. Len(t) : t[k] = l[a]
    BY DEF Merged
  <2> QED
    BY <1>1, <2>1
<1>10. \A c \in j .. Len(b) : Covered(l, i, b[c].name) \/ \E k \in 1 .. Len(s) : s[k] = b[c]
  <2> SUFFICES ASSUME NEW c \in j .. Len(b), ~Covered(l, i, b[c].name)
               PROVE  \E k \in 1 .. Len(s) : s[k] = b[c]
    OBVIOUS
  <2>1. CASE c = j
    BY <1>1, <2>1 DEF x
  <2>2. CASE c \in j + 1 .. Len(b)
    <3>1. PICK k \in 1 .. Len(t) : t[k] = b[c]
      BY <2>2 DEF Merged
    <3> QED
      BY <1>1, <3>1
  <2> QED
    BY <1>7, <2>1, <2>2
<1>11. \A k \in 1 .. Len(s) : s[k].name = 0 => k + j - 1 \in j .. Len(b) /\ s[k] = b[k + j - 1]
  <2> SUFFICES ASSUME NEW k \in 1 .. Len(s), s[k].name = 0
               PROVE  k + j - 1 \in j .. Len(b) /\ s[k] = b[k + j - 1]
    OBVIOUS
  <2>1. CASE k = 1
    <3>1. k + j - 1 = j /\ j \in j .. Len(b)
      BY <1>0, <2>1
    <3> QED
      BY <1>1, <2>1, <3>1 DEF x
  <2>2. CASE k # 1
    <3>1. k - 1 \in 1 .. Len(t) /\ s[k] = t[k - 1] /\ (k - 1) + (j + 1) - 1 = k + j - 1
      BY <1>1, <2>2
    <3>2. (k - 1) + (j + 1) - 1 \in j + 1 .. Len(b) /\ t[k - 1] = b[(k - 1) + (j + 1) - 1]
      BY <3>1 DEF Merged
    <3>3. k + j - 1 \in j + 1 .. Len(b) /\ s[k] = b[k + j - 1]
      BY <3>1, <3>2
    <3> QED
      BY <1>3, <3>3
  <2> QED
    BY <2>1, <2>2
<1>12. \A c \in j .. Len(b) : b[c].name = 0 => c - j + 1 \in 1 .. Len(s) /\ s[c - j + 1] = b[c]
  <2> SUFFICES ASSUME NEW c \in j .. Len(b), b[c].name = 0
               PROVE  c - j + 1 \in 1 .. Len(s) /\ s[c - j + 1] = b[c]
    OBVIOUS
  <2>1. CASE c = j
    <3>1. c - j + 1 = 1
      BY <2>1
    <3> QED
      BY <1>1, <2>1, <3>1 DEF x
  <2>2. CASE c \in j + 1 .. Len(b)
    <3>1. c - (j + 1) + 1 \in 1 .. Len(t) /\ t[c - (j + 1) + 1] = b[c]
      BY <2>2 DEF Merged
    <3>2. (c - (j + 1) + 1) + 1 = c - j + 1
      BY <2>2
    <3>3. (c - (j + 1) + 1) + 1 \in 1 .. Len(s) /\ s[(c - (j + 1) + 1) + 1] = b[c]
      BY <1>1, <3>1
    <3> QED
      BY <3>2, <3>3
  <2> QED
    BY <1>7, <2>1, <2>2
<1> QED
  BY <1>1, <1>5, <1>8, <1>9, <1>10, <1>11, <1>12 DEF Merged, E

\* The places of the two pointers, and how they move.
Pairs(l, b) == (1 .. Len(l) + 1) \X (1 .. Len(b) + 1)
Ended(l, b) == {p \in Pairs(l, b) : p[1] > Len(l) \/ p[2] > Len(b)}
NextPair(l, b) ==
    [p \in Pairs(l, b) |->
        IF p \in Ended(l, b) THEN p
        ELSE IF l[p[1]].name < b[p[2]].name THEN <<p[1] + 1, p[2]>>
        ELSE IF l[p[1]].name = b[p[2]].name THEN <<p[1] + 1, p[2] + 1>>
        ELSE <<p[1], p[2] + 1>>]
Togo(l, b) == [p \in Pairs(l, b) |-> (Len(l) + 1 - p[1]) + (Len(b) + 1 - p[2])]

\* The pointers move on.
LEMMA PairsDescend ==
    ASSUME NEW l, NEW b, Fit(l, b), EnvAssumption
    PROVE  Descends(Pairs(l, b), Ended(l, b), NextPair(l, b), Togo(l, b), Len(l) + Len(b) + 1)
<1> DEFINE D == Pairs(l, b)
           S == Ended(l, b)
<1>0. Len(l) \in Nat /\ Len(b) \in Nat
  BY FitFacts
<1>1. \A p \in D : p = <<p[1], p[2]>> /\ p[1] \in 1 .. Len(l) + 1 /\ p[2] \in 1 .. Len(b) + 1
  BY DEF Pairs
<1>2. \A p \in D \ S : p[1] \in 1 .. Len(l) /\ p[2] \in 1 .. Len(b)
  BY <1>0, <1>1 DEF Ended
<1>3. ASSUME NEW p \in D
      PROVE  Togo(l, b)[p] \in Nat /\ Togo(l, b)[p] < Len(l) + Len(b) + 1
             /\ Togo(l, b)[p] = (Len(l) + 1 - p[1]) + (Len(b) + 1 - p[2])
  BY <1>0, <1>1 DEF Togo
<1>4. Togo(l, b) \in [D -> Nat]
  BY <1>3, Zenon DEF Togo
<1>5. ASSUME NEW p \in D \ S
      PROVE  /\ NextPair(l, b)[p] \in D
             /\ Togo(l, b)[NextPair(l, b)[p]] < Togo(l, b)[p]
  <2> DEFINE q == NextPair(l, b)[p]
  <2>1. q \in {<<p[1] + 1, p[2]>>, <<p[1] + 1, p[2] + 1>>, <<p[1], p[2] + 1>>}
    BY DEF NextPair
  <2>2. /\ <<p[1] + 1, p[2]>> \in D /\ <<p[1] + 1, p[2] + 1>> \in D /\ <<p[1], p[2] + 1>> \in D
    BY <1>0, <1>2 DEF Pairs
  <2>3. q \in D
    BY <2>1, <2>2
  <2>4. q[1] + q[2] > p[1] + p[2] /\ q[1] \in Nat /\ q[2] \in Nat
    BY <1>2, <2>1
  <2> HIDE DEF q
  <2>5. /\ Togo(l, b)[p] = (Len(l) + 1 - p[1]) + (Len(b) + 1 - p[2])
        /\ Togo(l, b)[q] = (Len(l) + 1 - q[1]) + (Len(b) + 1 - q[2])
    <3>1. p \in D
      OBVIOUS
    <3> HIDE DEF D
    <3> QED
      BY ONLY <1>3, <2>3, <3>1
  <2>7. p[1] \in Nat /\ p[2] \in Nat
    BY <1>2
  <2>6. Togo(l, b)[q] < Togo(l, b)[p]
    <3> DEFINE ln == Len(l)
               bn == Len(b)
               p1 == p[1]
               p2 == p[2]
               q1 == q[1]
               q2 == q[2]
    <3>1. /\ ln \in Nat /\ bn \in Nat /\ p1 \in Nat /\ p2 \in Nat /\ q1 \in Nat /\ q2 \in Nat
          /\ q1 + q2 > p1 + p2
      BY <1>0, <2>4, <2>7
    <3> HIDE DEF ln, bn, p1, p2, q1, q2
    <3>2. (ln + 1 - q1) + (bn + 1 - q2) < (ln + 1 - p1) + (bn + 1 - p2)
      BY ONLY <3>1
    <3> QED
      BY <2>5, <3>2 DEF ln, bn, p1, p2, q1, q2
  <2> QED
    BY <2>3, <2>6 DEF q
<1>6. \A p \in S : p \in D /\ NextPair(l, b)[p] = p
  BY DEF Ended, NextPair
<1>7. \A p \in D : NextPair(l, b)[p] \in D
  BY <1>5, <1>6
<1>8. NextPair(l, b) \in [D -> D]
  BY <1>7, Zenon DEF NextPair
<1>9. S \in SUBSET D /\ Len(l) + Len(b) + 1 \in Nat
  BY <1>0 DEF Ended
<1> QED
  BY <1>3, <1>4, <1>5, <1>8, <1>9 DEF Descends

\* What merge_env_block adds at the places p, and then what comes at the next ones.
Merges(g, l, b) ==
    /\ g \in [Pairs(l, b) -> Seq(Env!Entries)]
    /\ \A p \in Pairs(l, b) :
          g[p] = IF p[1] > Len(l) THEN SubSeq(b, p[2], Len(b))
                 ELSE IF p[2] > Len(b) THEN SubSeq(l, p[1], Len(l))
                 ELSE IF l[p[1]].name < b[p[2]].name THEN <<l[p[1]]>> \o g[<<p[1] + 1, p[2]>>]
                 ELSE IF l[p[1]].name = b[p[2]].name THEN <<l[p[1]]>> \o g[<<p[1] + 1, p[2] + 1>>]
                 ELSE <<b[p[2]]>> \o g[<<p[1], p[2] + 1>>]

\* What merge_env_block returns is what is added from the first places on.
LEMMA MergeFacts ==
    ASSUME NEW l, NEW b, Fit(l, b), EnvAssumption
    PROVE  \E g : Merges(g, l, b) /\ Env!Merge(l, b) = g[<<1, 1>>]
<1> DEFINE D == Pairs(l, b)
           S == Ended(l, b)
           T == Seq(Env!Entries)
           First(p) == IF l[p[1]].name <= b[p[2]].name THEN l[p[1]] ELSE b[p[2]]
           base == [p \in D |-> IF p[1] > Len(l) THEN SubSeq(b, p[2], Len(b))
                                ELSE IF p[2] > Len(b) THEN SubSeq(l, p[1], Len(l)) ELSE <<>>]
           step == [x \in D \X T |-> IF x[1] \in S THEN <<>> ELSE <<First(x[1])>> \o x[2]]
<1>0. Len(l) \in Nat /\ Len(b) \in Nat
  BY FitFacts
<1>1. \A p \in D : p = <<p[1], p[2]>> /\ p[1] \in 1 .. Len(l) + 1 /\ p[2] \in 1 .. Len(b) + 1
  BY DEF Pairs
<1>2. \A p \in D \ S : p[1] \in 1 .. Len(l) /\ p[2] \in 1 .. Len(b)
  BY <1>0, <1>1 DEF Ended
<1>3. base \in [D -> T]
  <2>1. b \in T /\ l \in T
    <3>1. l \in Seq(Env!Items) /\ \A k \in 1 .. Len(l) : l[k] \in Env!Entries
      BY FitFacts DEF Fit
    <3> QED
      BY <3>1 DEF Fit
  <2>2. \A p \in D : SubSeq(b, p[2], Len(b)) \in T /\ SubSeq(l, p[1], Len(l)) \in T
    <3> TAKE p \in D
    <3>1. p[1] \in 1 .. Len(l) + 1 /\ p[2] \in 1 .. Len(b) + 1
      BY <1>1
    <3> HIDE DEF D
    <3> QED
      BY ONLY <2>1, <3>1, Suffix
  <2>3. <<>> \in T
    OBVIOUS
  <2> HIDE DEF T
  <2>4. \A p \in D : base[p] \in T
    BY <2>2, <2>3
  <2> QED
    BY <2>4, Zenon
<1>4. step \in [D \X T -> T]
  <2> SUFFICES ASSUME NEW p \in D, NEW t \in T
               PROVE  (IF p \in S THEN <<>> ELSE <<First(p)>> \o t) \in T
    OBVIOUS
  <2>1. CASE p \in S
    BY <2>1
  <2>2. CASE p \notin S
    <3>1. First(p) \in Env!Entries
      BY <1>2, <2>2, FitFacts
    <3> HIDE DEF First
    <3> QED
      BY <2>2, <3>1
  <2> QED
    BY <2>1, <2>2
<1>5. PICK g : Computes(g, D, T, S, NextPair(l, b), base, step)
  <2>1. Descends(D, S, NextPair(l, b), Togo(l, b), Len(l) + Len(b) + 1)
    BY PairsDescend
  <2> HIDE DEF D, S, T, base, step
  <2> QED
    BY ONLY <1>3, <1>4, <2>1, Recursion
<1>6. g \in [D -> T]
  BY <1>5 DEF Computes
<1> HIDE DEF T
<1>7. ASSUME NEW p \in D
      PROVE  g[p] = IF p[1] > Len(l) THEN SubSeq(b, p[2], Len(b))
                    ELSE IF p[2] > Len(b) THEN SubSeq(l, p[1], Len(l))
                    ELSE IF l[p[1]].name < b[p[2]].name THEN <<l[p[1]]>> \o g[<<p[1] + 1, p[2]>>]
                    ELSE IF l[p[1]].name = b[p[2]].name THEN <<l[p[1]]>> \o g[<<p[1] + 1, p[2] + 1>>]
                    ELSE <<b[p[2]]>> \o g[<<p[1], p[2] + 1>>]
  <2>1. CASE p \in S
    <3>1. g[p] = base[p]
      BY <1>5, <2>1 DEF Computes
    <3>2. p[1] > Len(l) \/ p[2] > Len(b)
      BY <2>1 DEF Ended
    <3> QED
      BY <3>1, <3>2
  <2>2. CASE p \notin S
    <3>1. p[1] \in 1 .. Len(l) /\ p[2] \in 1 .. Len(b) /\ ~(p[1] > Len(l)) /\ ~(p[2] > Len(b))
      BY <1>0, <1>2, <2>2
    <3>2. NextPair(l, b)[p] \in D
      BY PairsDescend DEF Descends
    <3>3. g[p] = step[<<p, g[NextPair(l, b)[p]]>>]
      BY <1>5, <2>2 DEF Computes
    <3>4. g[NextPair(l, b)[p]] \in T
      BY <1>6, <3>2
    <3>5. g[p] = <<First(p)>> \o g[NextPair(l, b)[p]]
      BY <2>2, <3>3, <3>4, Zenon
    <3>6. l[p[1]].name \in Nat /\ b[p[2]].name \in Nat
      BY <3>1, FitFacts
    <3>7. NextPair(l, b)[p] = IF l[p[1]].name < b[p[2]].name THEN <<p[1] + 1, p[2]>>
                              ELSE IF l[p[1]].name = b[p[2]].name THEN <<p[1] + 1, p[2] + 1>>
                              ELSE <<p[1], p[2] + 1>>
      BY <2>2 DEF NextPair
    <3> DEFINE x == l[p[1]].name
               y == b[p[2]].name
    <3>8. CASE x < y
      <4>1. First(p) = l[p[1]] /\ NextPair(l, b)[p] = <<p[1] + 1, p[2]>>
        BY <3>6, <3>7, <3>8
      <4> QED
        BY <3>1, <3>5, <3>8, <4>1
    <3>9. CASE x = y
      <4>1. ~(x < y) /\ x <= y
        BY <3>6, <3>9
      <4>2. First(p) = l[p[1]] /\ NextPair(l, b)[p] = <<p[1] + 1, p[2] + 1>>
        BY <3>7, <3>9, <4>1
      <4> QED
        BY <3>1, <3>5, <3>9, <4>1, <4>2
    <3>10. CASE y < x
      <4>1. ~(x < y) /\ ~(x <= y) /\ x # y
        BY <3>6, <3>10
      <4>2. First(p) = b[p[2]] /\ NextPair(l, b)[p] = <<p[1], p[2] + 1>>
        BY <3>7, <4>1
      <4> QED
        BY <3>1, <3>5, <4>1, <4>2
    <3>11. x < y \/ x = y \/ y < x
      BY <3>6
    <3> QED
      BY <3>8, <3>9, <3>10, <3>11
  <2> QED
    BY <2>1, <2>2
<1>8. Merges(g, l, b)
  BY <1>6, <1>7, Zenon DEF Merges, T
<1> DEFINE Is(m) == m = [p \in (1 .. Len(l) + 1) \X (1 .. Len(b) + 1) |->
                 IF p[1] > Len(l) THEN SubSeq(b, p[2], Len(b))
                 ELSE IF p[2] > Len(b) THEN SubSeq(l, p[1], Len(l))
                 ELSE IF l[p[1]].name < b[p[2]].name THEN <<l[p[1]]>> \o m[<<p[1] + 1, p[2]>>]
                 ELSE IF l[p[1]].name = b[p[2]].name THEN <<l[p[1]]>> \o m[<<p[1] + 1, p[2] + 1>>]
                 ELSE <<b[p[2]]>> \o m[<<p[1], p[2] + 1>>]]
           chosen == CHOOSE m : Is(m)
<1>9. Is(g)
  BY <1>6, <1>7 DEF Pairs
<1>10. Is(chosen)
  <2> HIDE DEF Is
  <2> QED
    BY <1>9
<1>11. Env!Merge(l, b) = chosen[<<1, 1>>]
  BY Zenon DEF Env!Merge
<1>12. chosen[<<1, 1>>] = g[<<1, 1>>]
  <2>1. \A p \in D : chosen[p] = IF p[1] > Len(l) THEN SubSeq(b, p[2], Len(b))
                    ELSE IF p[2] > Len(b) THEN SubSeq(l, p[1], Len(l))
                    ELSE IF l[p[1]].name < b[p[2]].name THEN <<l[p[1]]>> \o chosen[<<p[1] + 1, p[2]>>]
                    ELSE IF l[p[1]].name = b[p[2]].name THEN <<l[p[1]]>> \o chosen[<<p[1] + 1, p[2] + 1>>]
                    ELSE <<b[p[2]]>> \o chosen[<<p[1], p[2] + 1>>]
    <3> DEFINE m == chosen
    <3>1. Is(m)
      BY <1>10, Zenon
    <3> HIDE DEF chosen, m
    <3>2. \A p \in D : m[p] = IF p[1] > Len(l) THEN SubSeq(b, p[2], Len(b))
                    ELSE IF p[2] > Len(b) THEN SubSeq(l, p[1], Len(l))
                    ELSE IF l[p[1]].name < b[p[2]].name THEN <<l[p[1]]>> \o m[<<p[1] + 1, p[2]>>]
                    ELSE IF l[p[1]].name = b[p[2]].name THEN <<l[p[1]]>> \o m[<<p[1] + 1, p[2] + 1>>]
                    ELSE <<b[p[2]]>> \o m[<<p[1], p[2] + 1>>]
      BY <3>1, Zenon DEF Pairs
    <3> QED
      BY <3>2, Zenon DEF m
  <2> HIDE DEF chosen, Is
  <2> DEFINE P == {p \in D : chosen[p] = g[p]}
  <2>2. S \in SUBSET P
    <3> SUFFICES ASSUME NEW p \in S
                 PROVE  p \in D /\ chosen[p] = g[p]
      OBVIOUS
    <3>1. p \in D /\ (p[1] > Len(l) \/ p[2] > Len(b))
      BY DEF Ended
    <3> QED
      BY <1>7, <2>1, <3>1
  <2>3. ASSUME NEW p \in D \ S, NextPair(l, b)[p] \in P
        PROVE  p \in P
    <3>1. ~(p[1] > Len(l)) /\ ~(p[2] > Len(b)) /\ p \notin Ended(l, b)
      BY DEF Ended
    <3>2. NextPair(l, b)[p] = IF l[p[1]].name < b[p[2]].name THEN <<p[1] + 1, p[2]>>
                              ELSE IF l[p[1]].name = b[p[2]].name THEN <<p[1] + 1, p[2] + 1>>
                              ELSE <<p[1], p[2] + 1>>
      BY <3>1 DEF NextPair
    <3>3. chosen[NextPair(l, b)[p]] = g[NextPair(l, b)[p]]
      BY <2>3
    <3> HIDE DEF D, S
    <3>4. chosen[p] = IF l[p[1]].name < b[p[2]].name THEN <<l[p[1]]>> \o chosen[<<p[1] + 1, p[2]>>]
                    ELSE IF l[p[1]].name = b[p[2]].name THEN <<l[p[1]]>> \o chosen[<<p[1] + 1, p[2] + 1>>]
                    ELSE <<b[p[2]]>> \o chosen[<<p[1], p[2] + 1>>]
      BY <2>1, <2>3, <3>1
    <3>5. g[p] = IF l[p[1]].name < b[p[2]].name THEN <<l[p[1]]>> \o g[<<p[1] + 1, p[2]>>]
                 ELSE IF l[p[1]].name = b[p[2]].name THEN <<l[p[1]]>> \o g[<<p[1] + 1, p[2] + 1>>]
                 ELSE <<b[p[2]]>> \o g[<<p[1], p[2] + 1>>]
      BY <1>7, <2>3, <3>1
    <3>6. chosen[p] = g[p]
      <4> DEFINE less == l[p[1]].name < b[p[2]].name
                 same == l[p[1]].name = b[p[2]].name
                 q == NextPair(l, b)[p]
      <4>1. q = IF less THEN <<p[1] + 1, p[2]>>
                ELSE IF same THEN <<p[1] + 1, p[2] + 1>> ELSE <<p[1], p[2] + 1>>
        BY <3>2, Zenon
      <4>2. chosen[p] = IF less THEN <<l[p[1]]>> \o chosen[<<p[1] + 1, p[2]>>]
                      ELSE IF same THEN <<l[p[1]]>> \o chosen[<<p[1] + 1, p[2] + 1>>]
                      ELSE <<b[p[2]]>> \o chosen[<<p[1], p[2] + 1>>]
        BY <3>4, Zenon
      <4>3. g[p] = IF less THEN <<l[p[1]]>> \o g[<<p[1] + 1, p[2]>>]
                   ELSE IF same THEN <<l[p[1]]>> \o g[<<p[1] + 1, p[2] + 1>>]
                   ELSE <<b[p[2]]>> \o g[<<p[1], p[2] + 1>>]
        BY <3>5, Zenon
      <4>4. chosen[q] = g[q]
        BY <3>3
      <4> HIDE DEF less, same, q, chosen
      <4>5. CASE less
        BY ONLY <4>1, <4>2, <4>3, <4>4, <4>5
      <4>6. CASE ~less /\ same
        BY ONLY <4>1, <4>2, <4>3, <4>4, <4>6
      <4>7. CASE ~less /\ ~same
        BY ONLY <4>1, <4>2, <4>3, <4>4, <4>7
      <4> QED
        BY <4>5, <4>6, <4>7
    <3> QED
      BY <2>3, <3>6
  <2>4. Descends(D, S, NextPair(l, b), Togo(l, b), Len(l) + Len(b) + 1)
    BY PairsDescend
  <2>5. P \in SUBSET D
    OBVIOUS
  <2> HIDE DEF D, S, P
  <2>6. D \in SUBSET P
    <3>1. \A p \in D : p \in S \/ NextPair(l, b)[p] \in P => p \in P
      BY <2>2, <2>3
    <3>2. \A p \in D : p \in P
      BY ONLY <2>4, <3>1, Descent
    <3> QED
      BY <3>2
  <2>7. <<1, 1>> \in D
    BY <1>0 DEF D, Pairs
  <2> QED
    BY <2>6, <2>7 DEF P
<1> QED
  BY <1>8, <1>11, <1>12, Zenon

\* What merge_env_block makes of a list and a block: sorted, every name of either, those of
\* the list first, and the entries with the empty name as they are.
LEMMA MergeGood ==
    ASSUME NEW l, NEW b, Fit(l, b), EnvAssumption
    PROVE  Merged(Env!Merge(l, b), l, b, 1, 1)
<1> DEFINE D == Pairs(l, b)
           S == Ended(l, b)
<1>0. Len(l) \in Nat /\ Len(b) \in Nat
  BY FitFacts
<1>1. \A p \in D : p = <<p[1], p[2]>> /\ p[1] \in 1 .. Len(l) + 1 /\ p[2] \in 1 .. Len(b) + 1
  BY DEF Pairs
<1>2. PICK g : Merges(g, l, b) /\ Env!Merge(l, b) = g[<<1, 1>>]
  BY MergeFacts
<1>3. \A p \in D :
          g[p] = IF p[1] > Len(l) THEN SubSeq(b, p[2], Len(b))
                 ELSE IF p[2] > Len(b) THEN SubSeq(l, p[1], Len(l))
                 ELSE IF l[p[1]].name < b[p[2]].name THEN <<l[p[1]]>> \o g[<<p[1] + 1, p[2]>>]
                 ELSE IF l[p[1]].name = b[p[2]].name THEN <<l[p[1]]>> \o g[<<p[1] + 1, p[2] + 1>>]
                 ELSE <<b[p[2]]>> \o g[<<p[1], p[2] + 1>>]
  BY <1>2, Zenon DEF Merges
<1> DEFINE P == {p \in D : Merged(g[p], l, b, p[1], p[2])}
<1>4. ASSUME NEW p \in S
      PROVE  p \in P
  <2>1. p \in D /\ (p[1] > Len(l) \/ p[2] > Len(b))
    BY DEF Ended
  <2>2. p[1] \in 1 .. Len(l) + 1 /\ p[2] \in 1 .. Len(b) + 1 /\ p[1] \in Nat /\ p[2] \in Nat
    BY <1>0, <1>1, <2>1
  <2>3. CASE p[1] > Len(l)
    <3>1. g[p] = SubSeq(b, p[2], Len(b))
      BY <1>3, <2>1, <2>3
    <3>2. Merged(g[p], l, b, p[1], p[2])
      BY ONLY <2>2, <2>3, <3>1, ListOver, Fit(l, b), EnvAssumption
    <3> QED
      BY <2>1, <3>2
  <2>4. CASE ~(p[1] > Len(l))
    <3>1. g[p] = SubSeq(l, p[1], Len(l)) /\ p[2] > Len(b)
      BY <1>3, <2>1, <2>4
    <3>2. Merged(g[p], l, b, p[1], p[2])
      BY ONLY <2>2, <3>1, BlockOver, Fit(l, b), EnvAssumption
    <3> QED
      BY <2>1, <3>2
  <2> QED
    BY <2>3, <2>4
<1>5. ASSUME NEW p \in D \ S, NextPair(l, b)[p] \in P
      PROVE  p \in P
  <2>1. ~(p[1] > Len(l)) /\ ~(p[2] > Len(b)) /\ p \notin Ended(l, b)
    BY DEF Ended
  <2>2. p[1] \in 1 .. Len(l) /\ p[2] \in 1 .. Len(b)
    BY <1>0, <1>1, <2>1
  <2>3. l[p[1]].name \in Nat /\ b[p[2]].name \in Nat
    BY <2>2, FitFacts
  <2> DEFINE x == l[p[1]].name
             y == b[p[2]].name
             q == NextPair(l, b)[p]
  <2>4. q = IF x < y THEN <<p[1] + 1, p[2]>>
            ELSE IF x = y THEN <<p[1] + 1, p[2] + 1>> ELSE <<p[1], p[2] + 1>>
    BY <2>1, Zenon DEF NextPair
  <2>5. g[p] = IF x < y THEN <<l[p[1]]>> \o g[<<p[1] + 1, p[2]>>]
               ELSE IF x = y THEN <<l[p[1]]>> \o g[<<p[1] + 1, p[2] + 1>>]
               ELSE <<b[p[2]]>> \o g[<<p[1], p[2] + 1>>]
    BY <1>3, <2>1
  <2>6. Merged(g[q], l, b, q[1], q[2])
    BY <1>5
  <2>7. x \in Nat /\ y \in Nat
    BY <2>3
  <2> HIDE DEF q
  <2>8. CASE x < y
    <3>1. q = <<p[1] + 1, p[2]>> /\ g[p] = <<l[p[1]]>> \o g[q] /\ q[1] = p[1] + 1 /\ q[2] = p[2]
      <4> HIDE DEF x, y
      <4> QED
        BY ONLY <2>4, <2>5, <2>8
    <3>2. l[p[1]].name <= b[p[2]].name /\ l[p[1]].name # b[p[2]].name
      BY <2>7, <2>8
    <3>3. Merged(g[q], l, b, p[1] + 1, IF l[p[1]].name = b[p[2]].name THEN p[2] + 1 ELSE p[2])
      BY <2>6, <3>1, <3>2
    <3>4. Merged(g[p], l, b, p[1], p[2])
      BY ONLY <2>2, <3>1, <3>2, <3>3, ListNext, Fit(l, b), EnvAssumption
    <3> QED
      BY <3>4
  <2>9. CASE x = y
    <3>1. q = <<p[1] + 1, p[2] + 1>> /\ g[p] = <<l[p[1]]>> \o g[q] /\ q[1] = p[1] + 1 /\ q[2] = p[2] + 1
      <4>1. ~(x < y)
        BY <2>7, <2>9
      <4> HIDE DEF x, y
      <4> QED
        BY ONLY <2>4, <2>5, <2>9, <4>1
    <3>2. l[p[1]].name <= b[p[2]].name /\ l[p[1]].name = b[p[2]].name
      BY <2>7, <2>9
    <3>3. Merged(g[q], l, b, p[1] + 1, IF l[p[1]].name = b[p[2]].name THEN p[2] + 1 ELSE p[2])
      BY <2>6, <3>1, <3>2
    <3>4. Merged(g[p], l, b, p[1], p[2])
      BY ONLY <2>2, <3>1, <3>2, <3>3, ListNext, Fit(l, b), EnvAssumption
    <3> QED
      BY <3>4
  <2>10. CASE y < x
    <3>1. q = <<p[1], p[2] + 1>> /\ g[p] = <<b[p[2]]>> \o g[q] /\ q[1] = p[1] /\ q[2] = p[2] + 1
      <4>1. ~(x < y) /\ x # y
        BY <2>7, <2>10
      <4> HIDE DEF x, y
      <4> QED
        BY ONLY <2>4, <2>5, <4>1
    <3>2. Merged(g[p], l, b, p[1], p[2])
      <4>1. Merged(g[q], l, b, p[1], p[2] + 1)
        BY <2>6, <3>1
      <4>2. b[p[2]].name < l[p[1]].name
        BY <2>10
      <4> QED
        BY ONLY <2>2, <3>1, <4>1, <4>2, BlockNext, Fit(l, b), EnvAssumption
    <3> QED
      BY <3>2
  <2>11. x < y \/ x = y \/ y < x
    BY <2>7
  <2> QED
    BY <2>8, <2>9, <2>10, <2>11
<1>6. Descends(D, S, NextPair(l, b), Togo(l, b), Len(l) + Len(b) + 1)
  BY PairsDescend
<1>7. <<1, 1>> \in D
  BY <1>0 DEF Pairs
<1> HIDE DEF D, S, P
<1>8. \A p \in D : p \in S \/ NextPair(l, b)[p] \in P => p \in P
  BY <1>4, <1>5
<1>9. \A p \in D : p \in P
  BY ONLY <1>6, <1>8, Descent
<1>10. Merged(g[<<1, 1>>], l, b, 1, 1)
  BY <1>7, <1>9 DEF P
<1> QED
  BY <1>2, <1>10

\* What is picked from a sequence, element by element.
LEMMA PickedElements ==
    ASSUME NEW E, NEW s \in Seq(E), NEW S, NEW t, t = Only(s, S)
    PROVE  /\ t \in Seq(E)
           /\ \A k \in 1 .. Len(t) : t[k] \in S /\ \E i \in 1 .. Len(s) : s[i] = t[k]
           /\ \A i \in 1 .. Len(s) : s[i] \in S => \E k \in 1 .. Len(t) : t[k] = s[i]
<1>1. /\ Only(s, S) \in Seq(E)
      /\ \A i \in 1 .. Len(s) : s[i] \in S =>
            Rank(s, S, i) \in 1 .. Len(Only(s, S)) /\ Only(s, S)[Rank(s, S, i)] = s[i]
      /\ \A k \in 1 .. Len(Only(s, S)) :
            \E i \in 1 .. Len(s) : s[i] \in S /\ Rank(s, S, i) = k /\ Only(s, S)[k] = s[i]
  BY OnlyRanks
<1> QED
  BY <1>1

\* Names are numbers.
LEMMA EntryNames ==
    ASSUME EnvAssumption
    PROVE  /\ \A x \in Env!Entries : x.name \in Nat /\ x.name \in 0 .. MaxName
           /\ \A x \in Env!Items : x \in Env!Entries /\ x.name \in Nat \ {0} /\ x.name \in 1 .. MaxName
                                   /\ x.value \in Values
BY EnvAssumption DEF Env!Items, Env!Entries, EnvAssumption

\* What is picked from what is sorted is sorted.
LEMMA PickedOrdered ==
    ASSUME NEW E, NEW s \in Seq(E), NEW S, NEW t, t = Only(s, S), Ordered(s)
    PROVE  Ordered(t)
<1>1. /\ \A k \in 1 .. Len(t) : \E i \in 1 .. Len(s) : s[i] \in S /\ Rank(s, S, i) = k /\ t[k] = s[i]
      /\ t \in Seq(E)
  BY OnlyRanks
<1> SUFFICES ASSUME NEW i \in 1 .. Len(t), NEW k \in 1 .. Len(t), i < k
             PROVE  t[i].name < t[k].name \/ (t[i].name = 0 /\ t[k].name = 0)
  BY DEF Ordered
<1>2. PICK a \in 1 .. Len(s) : s[a] \in S /\ Rank(s, S, a) = i /\ t[i] = s[a]
  BY <1>1
<1>3. PICK c \in 1 .. Len(s) : s[c] \in S /\ Rank(s, S, c) = k /\ t[k] = s[c]
  BY <1>1
<1>4. a < c
  <2>1. a \in Nat /\ c \in Nat /\ i \in Nat /\ k \in Nat
    BY <1>1
  <2>2. CASE c < a
    <3>1. Rank(s, S, c) <= Rank(s, S, a)
      BY <2>1, <2>2, RankGrows
    <3> QED
      BY <1>2, <1>3, <2>1, <3>1
  <2>3. CASE c = a
    BY <1>2, <1>3, <2>1, <2>3
  <2> QED
    BY <2>1, <2>2, <2>3
<1>5. s[a].name < s[c].name \/ (s[a].name = 0 /\ s[c].name = 0)
  BY <1>4 DEF Ordered
<1> QED
  BY <1>2, <1>3, <1>5

\* The empty names are the first ones.
LEMMA ZerosFirst ==
    ASSUME NEW s \in Seq(Env!Entries), Ordered(s), EnvAssumption,
           NEW Z, \A x \in Env!Entries : x \in Z <=> x.name = 0, NEW t, t = Only(s, Z)
    PROVE  /\ t \in Seq(Env!Entries)
           /\ \A k \in 1 .. Len(t) : k \in 1 .. Len(s) /\ t[k] = s[k] /\ s[k].name = 0
           /\ \A k \in 1 .. Len(s) : s[k].name = 0 => k \in 1 .. Len(t)
<1> DEFINE E == Env!Entries
<1>0. Len(s) \in Nat /\ \A k \in 1 .. Len(s) : s[k] \in E /\ s[k].name \in Nat
  BY EntryNames
<1>1. /\ t \in Seq(E)
      /\ \A i \in 1 .. Len(s) : s[i] \in Z => Rank(s, Z, i) \in 1 .. Len(t) /\ t[Rank(s, Z, i)] = s[i]
      /\ \A k \in 1 .. Len(t) : \E i \in 1 .. Len(s) : s[i] \in Z /\ Rank(s, Z, i) = k /\ t[k] = s[i]
  BY OnlyRanks
<1>2. ASSUME NEW k \in 1 .. Len(s), s[k].name = 0
      PROVE  Rank(s, Z, k) = k
  <2>1. ASSUME NEW j \in 1 .. k
        PROVE  s[j] \in Z
    <3>1. j \in 1 .. Len(s) /\ (j < k \/ j = k)
      BY <1>0
    <3>2. s[j].name = 0
      <4>1. CASE j < k
        <5>1. s[j].name < s[k].name \/ s[j].name = 0
          BY <3>1, <4>1 DEF Ordered
        <5> QED
          BY <1>0, <1>2, <3>1, <5>1
      <4>2. CASE j = k
        BY <1>2, <4>2
      <4> QED
        BY <3>1, <4>1, <4>2
    <3> QED
      BY <1>0, <3>1, <3>2
  <2>2. {j \in 1 .. k : s[j] \in Z} = 1 .. k
    BY <2>1
  <2>3. k \in Nat /\ Cardinality(1 .. k) = k
    BY FS_Interval
  <2> QED
    BY <2>2, <2>3, Zenon DEF Rank
<1>3. \A k \in 1 .. Len(s) : s[k] \in Z <=> s[k].name = 0
  BY <1>0
<1> HIDE DEF E
<1>4. ASSUME NEW k \in 1 .. Len(t)
      PROVE  k \in 1 .. Len(s) /\ t[k] = s[k] /\ s[k].name = 0
  <2>1. PICK i \in 1 .. Len(s) : s[i] \in Z /\ Rank(s, Z, i) = k /\ t[k] = s[i]
    BY <1>1
  <2>2. i = k
    BY <1>2, <1>3, <2>1
  <2> QED
    BY <1>3, <2>1, <2>2
<1>5. ASSUME NEW k \in 1 .. Len(s), s[k].name = 0
      PROVE  k \in 1 .. Len(t)
  <2>1. s[k] \in Z
    BY <1>3, <1>5
  <2>2. Rank(s, Z, k) \in 1 .. Len(t)
    BY <1>1, <2>1
  <2> QED
    BY <1>2, <1>5, <2>2
<1> QED
  BY <1>1, <1>4, <1>5 DEF E

\* Blocks that have the same empty names at the same places agree on them.
LEMMA SameZeros ==
    ASSUME NEW r \in Seq(Env!Entries), Ordered(r), NEW b \in Seq(Env!Entries), Ordered(b),
           EnvAssumption, NEW Z, \A x \in Env!Entries : x \in Z <=> x.name = 0,
           \A k \in 1 .. Len(r) : r[k].name = 0 => k \in 1 .. Len(b) /\ r[k] = b[k],
           \A k \in 1 .. Len(b) : b[k].name = 0 => k \in 1 .. Len(r) /\ r[k] = b[k]
    PROVE  Only(r, Z) = Only(b, Z)
<1> DEFINE t == Only(r, Z)
           u == Only(b, Z)
           E == Env!Entries
<1>1. /\ t \in Seq(E)
      /\ \A k \in 1 .. Len(t) : k \in 1 .. Len(r) /\ t[k] = r[k] /\ r[k].name = 0
      /\ \A k \in 1 .. Len(r) : r[k].name = 0 => k \in 1 .. Len(t)
  BY ZerosFirst
<1>2. /\ u \in Seq(E)
      /\ \A k \in 1 .. Len(u) : k \in 1 .. Len(b) /\ u[k] = b[k] /\ b[k].name = 0
      /\ \A k \in 1 .. Len(b) : b[k].name = 0 => k \in 1 .. Len(u)
  BY ZerosFirst
<1>a. /\ \A k \in 1 .. Len(r) : r[k].name = 0 => k \in 1 .. Len(b) /\ r[k] = b[k]
      /\ \A k \in 1 .. Len(b) : b[k].name = 0 => k \in 1 .. Len(r) /\ r[k] = b[k]
  OBVIOUS
<1> HIDE DEF t, u, E
<1>3. \A k \in 1 .. Len(t) : k \in 1 .. Len(u) /\ t[k] = u[k]
  BY ONLY <1>1, <1>2, <1>a
<1>4. \A k \in 1 .. Len(u) : k \in 1 .. Len(t)
  BY ONLY <1>1, <1>2, <1>a
<1>5. Len(t) = Len(u)
  <2>1. Len(t) \in Nat /\ Len(u) \in Nat
    BY <1>1, <1>2
  <2>2. Len(t) <= Len(u)
    <3>1. Len(t) = 0 \/ Len(t) \in 1 .. Len(t)
      BY <2>1
    <3> QED
      BY <1>3, <2>1, <3>1
  <2>3. Len(u) <= Len(t)
    <3>1. Len(u) = 0 \/ Len(u) \in 1 .. Len(u)
      BY <2>1
    <3> QED
      BY <1>4, <2>1, <3>1
  <2> QED
    BY <2>1, <2>2, <2>3
<1>6. t = u
  <2>1. t = [k \in 1 .. Len(t) |-> t[k]] /\ u = [k \in 1 .. Len(u) |-> u[k]]
    BY <1>1, <1>2
  <2> QED
    BY <1>3, <1>5, <2>1
<1> QED
  BY <1>6 DEF t, u

\* A list of variables holds what the server means.
EnvHolds(l, m) ==
    /\ l \in Seq(Env!Items) /\ Ordered(l)
    /\ m \in [1 .. MaxName -> Values \cup {Env!Unset}]
    /\ \A k \in 1 .. Len(l) : m[l[k].name] = l[k].value
    /\ \A n \in 1 .. MaxName : m[n] # Env!Unset => \E k \in 1 .. Len(l) : l[k].name = n

\* The inductive invariant of the script environment.
EnvInv == EnvHolds(es, meant) /\ process \in Seq(Env!Entries) /\ Ordered(process)

\* An element between two sequences.
IsBetween(t, u, x, v) == t = u \o <<x>> \o v

PlacedBetween(t, S, u, x, v) ==
    /\ t \in Seq(S)
    /\ \A k \in 1 .. Len(t) : \/ k \in 1 .. Len(u) /\ t[k] = u[k]
                              \/ k = Len(u) + 1 /\ t[k] = x
                              \/ k > Len(u) + 1 /\ k - Len(u) - 1 \in 1 .. Len(v)
                                 /\ t[k] = v[k - Len(u) - 1]
    /\ \A k \in 1 .. Len(u) : \E j \in 1 .. Len(t) : t[j] = u[k]
    /\ \E j \in 1 .. Len(t) : t[j] = x
    /\ \A k \in 1 .. Len(v) : \E j \in 1 .. Len(t) : t[j] = v[k]

\* An element put between two sequences is behind the one and before the other.
LEMMA Between ==
    ASSUME NEW S, NEW u \in Seq(S), NEW x \in S, NEW v \in Seq(S), NEW t, IsBetween(t, u, x, v)
    PROVE  PlacedBetween(t, S, u, x, v)
<1> DEFINE w == u \o <<x>>
<1>1. /\ Len(u) \in Nat /\ Len(v) \in Nat /\ w \in Seq(S) /\ Len(w) = Len(u) + 1
      /\ \A k \in 1 .. Len(u) : w[k] = u[k]
      /\ w[Len(u) + 1] = x
  OBVIOUS
<1>2. t = w \o v
  <2>1. t = u \o <<x>> \o v
    BY Zenon DEF IsBetween
  <2> QED
    BY <2>1, Zenon
<1> HIDE DEF w
<1>3. /\ t \in Seq(S) /\ Len(t) = Len(w) + Len(v) /\ \A k \in 1 .. Len(w) : t[k] = w[k]
      /\ \A k \in 1 .. Len(v) : t[Len(w) + k] = v[k]
  <2> SUFFICES ASSUME NEW y, y = w \o v
               PROVE  /\ y \in Seq(S) /\ Len(y) = Len(w) + Len(v) /\ \A k \in 1 .. Len(w) : y[k] = w[k]
                      /\ \A k \in 1 .. Len(v) : y[Len(w) + k] = v[k]
    BY <1>2, Zenon
  <2>4. w \in Seq(S) /\ v \in Seq(S) /\ y = w \o v
    BY <1>1
  <2>1. y \in Seq(S) /\ Len(y) = Len(w) + Len(v)
    BY ONLY <2>4
  <2>2. \A k \in 1 .. Len(w) : y[k] = w[k]
    BY ONLY <2>4
  <2>3. \A k \in 1 .. Len(v) : y[Len(w) + k] = v[k]
    BY ONLY <2>4
  <2> QED
    BY <2>1, <2>2, <2>3
<1>4. ASSUME NEW k \in 1 .. Len(t)
      PROVE  \/ k \in 1 .. Len(u) /\ t[k] = u[k]
             \/ k = Len(u) + 1 /\ t[k] = x
             \/ k > Len(u) + 1 /\ k - Len(u) - 1 \in 1 .. Len(v) /\ t[k] = v[k - Len(u) - 1]
  <2>1. CASE k <= Len(u)
    BY <1>1, <1>3, <2>1
  <2>2. CASE k = Len(u) + 1
    BY <1>1, <1>3, <2>2
  <2>3. CASE k > Len(u) + 1
    <3> DEFINE d == k - Len(u) - 1
    <3>1. d \in 1 .. Len(v) /\ k = Len(w) + d
      BY <1>1, <1>3, <2>3
    <3> HIDE DEF d
    <3>2. t[k] = v[d]
      BY <1>3, <3>1
    <3> QED
      BY <2>3, <3>1, <3>2 DEF d
  <2> QED
    BY <1>1, <2>1, <2>2, <2>3
<1>5. /\ \A k \in 1 .. Len(u) : k \in 1 .. Len(t) /\ t[k] = u[k]
      /\ Len(u) + 1 \in 1 .. Len(t) /\ t[Len(u) + 1] = x
      /\ \A k \in 1 .. Len(v) : Len(w) + k \in 1 .. Len(t) /\ t[Len(w) + k] = v[k]
  BY <1>1, <1>3
<1>6. /\ \A k \in 1 .. Len(u) : \E j \in 1 .. Len(t) : t[j] = u[k]
      /\ \E j \in 1 .. Len(t) : t[j] = x
      /\ \A k \in 1 .. Len(v) : \E j \in 1 .. Len(t) : t[j] = v[k]
  BY <1>5, Zenon
<1>7. t \in Seq(S)
  BY <1>3
<1> QED
  BY ONLY <1>4, <1>6, <1>7, Zenon DEF PlacedBetween

\* env_item_insert: the variable has its new value, the others keep theirs.
LEMMA InsertHolds ==
    ASSUME NEW l, NEW m, EnvHolds(l, m), NEW item \in Env!Items, EnvAssumption
    PROVE  EnvHolds(Env!Insert(l, item), [m EXCEPT ![item.name] = item.value])
<1> DEFINE I == Env!Items
           n == item.name
           L == {x \in I : x.name < n}
           G == {x \in I : x.name > n}
           u == Only(l, L)
           v == Only(l, G)
           t == Env!Insert(l, item)
           f == [m EXCEPT ![n] = item.value]
<1>0. n \in Nat \ {0} /\ n \in 1 .. MaxName /\ item.value \in Values
  BY EntryNames
<1>1. l \in Seq(I) /\ Ordered(l) /\ \A k \in 1 .. Len(l) : l[k] \in I /\ l[k].name \in 1 .. MaxName
  <2>1. l \in Seq(I) /\ Ordered(l)
    BY DEF EnvHolds
  <2> QED
    BY <2>1, EntryNames
<1>2. IsBetween(t, u, item, v)
  <2>1. t = u \o <<item>> \o v
    BY EnvOnly, Zenon DEF Env!Insert
  <2> QED
    BY <2>1, Zenon DEF IsBetween
<1>3. /\ u \in Seq(I)
      /\ \A k \in 1 .. Len(u) : u[k] \in L /\ \E i \in 1 .. Len(l) : l[i] = u[k]
      /\ \A i \in 1 .. Len(l) : l[i] \in L => \E k \in 1 .. Len(u) : u[k] = l[i]
  <2> HIDE DEF I, L
  <2> QED
    BY <1>1, PickedElements
<1>4. /\ v \in Seq(I)
      /\ \A k \in 1 .. Len(v) : v[k] \in G /\ \E i \in 1 .. Len(l) : l[i] = v[k]
      /\ \A i \in 1 .. Len(l) : l[i] \in G => \E k \in 1 .. Len(v) : v[k] = l[i]
  <2> HIDE DEF I, G
  <2> QED
    BY <1>1, PickedElements
<1>5. Ordered(u) /\ Ordered(v)
  <2> HIDE DEF I, L, G
  <2> QED
    BY <1>1, PickedOrdered
<1> HIDE DEF u, v, t
<1>6. /\ t \in Seq(I)
      /\ \A k \in 1 .. Len(t) : \/ k \in 1 .. Len(u) /\ t[k] = u[k]
                                \/ k = Len(u) + 1 /\ t[k] = item
                                \/ k > Len(u) + 1 /\ k - Len(u) - 1 \in 1 .. Len(v)
                                   /\ t[k] = v[k - Len(u) - 1]
      /\ \A k \in 1 .. Len(u) : \E j \in 1 .. Len(t) : t[j] = u[k]
      /\ \E j \in 1 .. Len(t) : t[j] = item
      /\ \A k \in 1 .. Len(v) : \E j \in 1 .. Len(t) : t[j] = v[k]
  <2>1. item \in I
    OBVIOUS
  <2>2. u \in Seq(I) /\ v \in Seq(I)
    BY <1>3, <1>4
  <2> HIDE DEF I
  <2>3. PlacedBetween(t, I, u, item, v)
    BY ONLY <1>2, <2>1, <2>2, Between
  <2> QED
    BY ONLY <2>3, Zenon DEF PlacedBetween
<1>7. /\ \A k \in 1 .. Len(u) : u[k].name < n /\ u[k].name \in Nat
      /\ \A k \in 1 .. Len(v) : v[k].name > n /\ v[k].name \in Nat
  BY <1>3, <1>4, EntryNames
<1>8. Ordered(t)
  <2> SUFFICES ASSUME NEW i \in 1 .. Len(t), NEW k \in 1 .. Len(t), i < k
               PROVE  t[i].name < t[k].name \/ (t[i].name = 0 /\ t[k].name = 0)
    BY DEF Ordered
  <2>0. Len(u) \in Nat /\ i \in Nat /\ k \in Nat
    BY <1>3
  <2>1. CASE i \in 1 .. Len(u) /\ t[i] = u[i]
    <3>1. CASE k \in 1 .. Len(u) /\ t[k] = u[k]
      BY <1>5, <2>1, <3>1 DEF Ordered
    <3>2. CASE t[k] = item
      BY <1>7, <2>1, <3>2
    <3>3. CASE k - Len(u) - 1 \in 1 .. Len(v) /\ t[k] = v[k - Len(u) - 1]
      <4>1. t[i].name < n /\ n < t[k].name /\ t[i].name \in Nat /\ t[k].name \in Nat
        BY <1>7, <2>1, <3>3
      <4> QED
        BY <1>0, <4>1
    <3> QED
      BY <1>6, <3>1, <3>2, <3>3
  <2>2. CASE i = Len(u) + 1 /\ t[i] = item
    <3>1. k - Len(u) - 1 \in 1 .. Len(v) /\ t[k] = v[k - Len(u) - 1]
      BY <1>6, <2>0, <2>2
    <3>2. t[k].name > n /\ t[k].name \in Nat
      BY <1>7, <3>1
    <3> QED
      BY <1>0, <2>2, <3>2
  <2>3. CASE i > Len(u) + 1 /\ i - Len(u) - 1 \in 1 .. Len(v) /\ t[i] = v[i - Len(u) - 1]
    <3>1. k - Len(u) - 1 \in 1 .. Len(v) /\ t[k] = v[k - Len(u) - 1]
      BY <1>6, <2>0, <2>3
    <3>2. i - Len(u) - 1 < k - Len(u) - 1
      BY <2>0
    <3> QED
      BY <1>5, <2>3, <3>1, <3>2 DEF Ordered
  <2> QED
    BY <1>6, <2>1, <2>2, <2>3
<1>m. /\ m \in [1 .. MaxName -> Values \cup {Env!Unset}]
      /\ \A k \in 1 .. Len(l) : m[l[k].name] = l[k].value
      /\ \A a \in 1 .. MaxName : m[a] # Env!Unset => \E k \in 1 .. Len(l) : l[k].name = a
  BY DEF EnvHolds
<1>9. /\ f \in [1 .. MaxName -> Values \cup {Env!Unset}] /\ f[n] = item.value
      /\ \A a \in 1 .. MaxName : a # n => f[a] = m[a]
  BY <1>0, <1>m
<1> HIDE DEF f
<1>10. ASSUME NEW k \in 1 .. Len(t)
       PROVE  f[t[k].name] = t[k].value
  <2>1. CASE t[k] = item
    BY <1>9, <2>1
  <2>2. CASE t[k] # item
    <3>1. t[k].name # n /\ \E i \in 1 .. Len(l) : l[i] = t[k]
      <4>1. CASE k \in 1 .. Len(u) /\ t[k] = u[k]
        BY <1>0, <1>3, <1>7, <4>1
      <4>2. CASE k - Len(u) - 1 \in 1 .. Len(v) /\ t[k] = v[k - Len(u) - 1]
        BY <1>0, <1>4, <1>7, <4>2
      <4> QED
        BY <1>6, <2>2, <4>1, <4>2
    <3>2. PICK i \in 1 .. Len(l) : l[i] = t[k]
      BY <3>1
    <3> QED
      BY <1>1, <1>m, <1>9, <3>1, <3>2
  <2> QED
    BY <2>1, <2>2
<1>11. ASSUME NEW a \in 1 .. MaxName, f[a] # Env!Unset
       PROVE  \E k \in 1 .. Len(t) : t[k].name = a
  <2>1. CASE a = n
    BY <1>6, <2>1
  <2>2. CASE a # n
    <3>1. PICK i \in 1 .. Len(l) : l[i].name = a
      BY <1>m, <1>9, <1>11, <2>2
    <3>2. l[i] \in L \/ l[i] \in G
      BY <1>0, <1>1, <2>2, <3>1
    <3>3. \E k \in 1 .. Len(t) : t[k] = l[i]
      <4>1. CASE l[i] \in L
        <5>1. PICK k \in 1 .. Len(u) : u[k] = l[i]
          BY <1>3, <4>1
        <5> QED
          BY <1>6, <5>1
      <4>2. CASE l[i] \in G
        <5>1. PICK k \in 1 .. Len(v) : v[k] = l[i]
          BY <1>4, <4>2
        <5> QED
          BY <1>6, <5>1
      <4> QED
        BY <3>2, <4>1, <4>2
    <3> QED
      BY <3>1, <3>3
  <2> QED
    BY <2>1, <2>2
<1>12. EnvHolds(t, f)
  BY ONLY <1>6, <1>8, <1>9, <1>10, <1>11, Zenon DEF EnvHolds, I
<1> QED
  BY <1>12 DEF t, f

\* env_item_del: the variable has no value, the others keep theirs.
LEMMA DeleteHolds ==
    ASSUME NEW l, NEW m, EnvHolds(l, m), NEW n \in 1 .. MaxName, EnvAssumption
    PROVE  EnvHolds(Env!Delete(l, n), [m EXCEPT ![n] = Env!Unset])
<1> DEFINE I == Env!Items
           D == {x \in I : x.name # n}
           t == Env!Delete(l, n)
           f == [m EXCEPT ![n] = Env!Unset]
<1>1. l \in Seq(I) /\ Ordered(l) /\ \A k \in 1 .. Len(l) : l[k] \in I /\ l[k].name \in 1 .. MaxName
  <2>1. l \in Seq(I) /\ Ordered(l)
    BY DEF EnvHolds
  <2> QED
    BY <2>1, EntryNames
<1>2. t = Only(l, D)
  BY EnvOnly, Zenon DEF Env!Delete
<1> HIDE DEF t
<1>3. /\ t \in Seq(I) /\ Ordered(t)
      /\ \A k \in 1 .. Len(t) : t[k] \in D /\ \E i \in 1 .. Len(l) : l[i] = t[k]
      /\ \A i \in 1 .. Len(l) : l[i] \in D => \E k \in 1 .. Len(t) : t[k] = l[i]
  <2> HIDE DEF I, D
  <2> QED
    BY <1>1, <1>2, PickedElements, PickedOrdered
<1>m. /\ m \in [1 .. MaxName -> Values \cup {Env!Unset}]
      /\ \A k \in 1 .. Len(l) : m[l[k].name] = l[k].value
      /\ \A a \in 1 .. MaxName : m[a] # Env!Unset => \E k \in 1 .. Len(l) : l[k].name = a
  BY DEF EnvHolds
<1>4. /\ f \in [1 .. MaxName -> Values \cup {Env!Unset}] /\ f[n] = Env!Unset
      /\ \A a \in 1 .. MaxName : a # n => f[a] = m[a]
  BY <1>m
<1> HIDE DEF f
<1>5. ASSUME NEW k \in 1 .. Len(t)
      PROVE  f[t[k].name] = t[k].value
  <2>1. PICK i \in 1 .. Len(l) : l[i] = t[k]
    BY <1>3
  <2>2. t[k].name # n
    BY <1>3
  <2> QED
    BY <1>1, <1>4, <1>m, <2>1, <2>2
<1>6. ASSUME NEW a \in 1 .. MaxName, f[a] # Env!Unset
      PROVE  \E k \in 1 .. Len(t) : t[k].name = a
  <2>1. a # n
    BY <1>4, <1>6
  <2>2. PICK i \in 1 .. Len(l) : l[i].name = a
    BY <1>m, <1>4, <1>6, <2>1
  <2>3. l[i] \in D
    BY <1>1, <2>1, <2>2
  <2> QED
    BY <1>3, <2>2, <2>3
<1>7. EnvHolds(t, f)
  BY ONLY <1>3, <1>4, <1>5, <1>6, Zenon DEF EnvHolds, I
<1> QED
  BY <1>7 DEF t, f

\* env_item_del_all
LEMMA NothingHolds ==
    ASSUME EnvAssumption
    PROVE  EnvHolds(<<>>, [n \in 1 .. MaxName |-> Env!Unset])
<1>1. <<>> \in Seq(Env!Items) /\ 1 .. Len(<<>>) = {}
  OBVIOUS
<1>2. Ordered(<<>>)
  BY <1>1 DEF Ordered
<1> QED
  BY <1>1, <1>2 DEF EnvHolds

\* The environment Windows gave the GUI is sorted.
LEMMA EnvironmentFits ==
    ASSUME NEW d \in 0 .. 2, NEW U \in SUBSET (1 .. MaxName), NEW b, b = Env!Environment(d, U),
           EnvAssumption
    PROVE  b \in Seq(Env!Entries) /\ Ordered(b)
<1> DEFINE E == Env!Entries
           all == [n \in 1 .. MaxName |-> Env!Item(n, "process", "p")]
<1>0. MaxName \in Nat
  BY EnvAssumption DEF EnvAssumption
<1>1. PICK X : b = [k \in 1 .. d |-> Env!Item(0, "drive", "c")] \o Only(all, X)
  <2> DEFINE Z == {Env!Item(n, "process", "p") : n \in U}
  <2>1. b = [k \in 1 .. d |-> Env!Item(0, "drive", "c")] \o Env!Only(all, Z)
    BY Zenon DEF Env!Environment
  <2>2. Env!Only(all, Z) = Only(all, Z)
    BY EnvOnly, Zenon
  <2> HIDE DEF all, Z
  <2> QED
    BY <2>1, <2>2, Zenon
<1> DEFINE dr == [k \in 1 .. d |-> Env!Item(0, "drive", "c")]
           own == Only(all, X)
<1>2. /\ dr \in Seq(E) /\ Len(dr) = d /\ \A k \in 1 .. d : dr[k].name = 0
  <2>1. Env!Item(0, "drive", "c") \in E /\ Env!Item(0, "drive", "c").name = 0
    BY <1>0 DEF Env!Item, Env!Entries
  <2> HIDE DEF E
  <2>2. d \in Nat
    OBVIOUS
  <2> QED
    BY <2>1, <2>2
<1>3. /\ all \in Seq(E) /\ Len(all) = MaxName /\ \A k \in 1 .. MaxName : all[k].name = k
  <2>1. \A k \in 1 .. MaxName : Env!Item(k, "process", "p") \in E /\ Env!Item(k, "process", "p").name = k
    BY <1>0 DEF Env!Item, Env!Entries
  <2> HIDE DEF E
  <2> QED
    BY <1>0, <2>1
<1> HIDE DEF dr, all
<1>4. Ordered(all)
  BY <1>0, <1>3 DEF Ordered
<1>5. /\ own \in Seq(E) /\ Ordered(own)
      /\ \A k \in 1 .. Len(own) : \E i \in 1 .. Len(all) : all[i] = own[k]
  <2> HIDE DEF E
  <2> QED
    BY <1>3, <1>4, PickedElements, PickedOrdered
<1> HIDE DEF own
<1>6. \A k \in 1 .. Len(own) : own[k].name \in Nat \ {0}
  BY <1>0, <1>3, <1>5
<1>7. b = dr \o own
  BY <1>1 DEF dr, own
<1> HIDE DEF E
<1>8. d \in Nat /\ Len(own) \in Nat
  BY <1>5
<1>9. /\ b \in Seq(E) /\ Len(b) = d + Len(own)
      /\ \A k \in 1 .. Len(b) : \/ k \in 1 .. d /\ b[k].name = 0
                                \/ k > d /\ k - d \in 1 .. Len(own) /\ b[k] = own[k - d]
  <2>1. b \in Seq(E) /\ Len(b) = d + Len(own)
    BY <1>2, <1>5, <1>7
  <2>2. ASSUME NEW k \in 1 .. d
        PROVE  b[k].name = 0
    <3>1. b[k] = dr[k]
      BY <1>2, <1>5, <1>7
    <3> QED
      BY <1>2, <3>1
  <2>3. ASSUME NEW k \in 1 .. Len(b), k > d
        PROVE  k - d \in 1 .. Len(own) /\ b[k] = own[k - d]
    <3> DEFINE j == k - d
    <3>1. j \in 1 .. Len(own) /\ k = d + j
      BY <1>8, <2>1, <2>3
    <3> HIDE DEF j
    <3>2. b[k] = own[j]
      BY <1>2, <1>5, <1>7, <3>1
    <3> QED
      BY <3>1, <3>2 DEF j
  <2>4. \A k \in 1 .. Len(b) : k \in 1 .. d \/ k > d
    BY <1>8
  <2> QED
    BY <2>1, <2>2, <2>3, <2>4
<1>10. Ordered(b)
  <2> SUFFICES ASSUME NEW i \in 1 .. Len(b), NEW k \in 1 .. Len(b), i < k
               PROVE  b[i].name < b[k].name \/ (b[i].name = 0 /\ b[k].name = 0)
    BY DEF Ordered
  <2>0. i \in Nat /\ k \in Nat
    BY <1>9
  <2>1. CASE i \in 1 .. d /\ b[i].name = 0
    <3>1. CASE b[k].name = 0
      BY <2>1, <3>1
    <3>2. CASE k - d \in 1 .. Len(own) /\ b[k] = own[k - d]
      <4>1. b[k].name \in Nat \ {0}
        BY <1>6, <3>2
      <4> QED
        BY <2>1, <4>1
    <3> QED
      BY <1>9, <3>1, <3>2
  <2>2. CASE i > d /\ i - d \in 1 .. Len(own) /\ b[i] = own[i - d]
    <3>1. k > d /\ ~(k \in 1 .. d)
      BY <1>8, <2>0, <2>2
    <3>2. k - d \in 1 .. Len(own) /\ b[k] = own[k - d]
      BY <1>9, <3>1
    <3>3. i - d < k - d
      BY <1>8, <2>0
    <3> QED
      BY <1>5, <2>2, <3>2, <3>3 DEF Ordered
  <2> QED
    BY <1>9, <2>1, <2>2
<1> QED
  BY <1>9, <1>10 DEF E

\* Every operation keeps the invariant.
LEMMA EnvStepHolds ==
    ASSUME EnvInv, Env!Next \/ UNCHANGED envVars
    PROVE  EnvInv'
<1>0. EnvHolds(es, meant) /\ process \in Seq(Env!Entries) /\ Ordered(process) /\ EnvAssumption
  BY EnvAssumption DEF EnvInv
<1>1. ASSUME process' = process, EnvHolds(es', meant')
      PROVE  EnvInv'
  <2>1. EnvInv' <=> EnvHolds(es', meant') /\ process' \in Seq(Env!Entries) /\ Ordered(process')
    BY Zenon DEF EnvInv, EnvHolds, Ordered, Env!Items, Env!Entries, Env!Unset
  <2> QED
    BY <1>0, <1>1, <2>1, Zenon
<1>2. ASSUME NEW item \in Env!Items, Env!SetEnv(item)
      PROVE  EnvInv'
  <2>1. /\ es' = Env!Insert(es, item) /\ process' = process
        /\ meant' = [meant EXCEPT ![item.name] = item.value]
    BY <1>2, Zenon DEF Env!SetEnv
  <2>2. EnvHolds(es', meant')
    BY ONLY <1>0, <2>1, item \in Env!Items, InsertHolds
  <2> QED
    BY <1>1, <2>1, <2>2
<1>3. ASSUME NEW n \in 1 .. MaxName, Env!UnsetEnv(n)
      PROVE  EnvInv'
  <2>1. /\ es' = Env!Delete(es, n) /\ process' = process
        /\ meant' = [meant EXCEPT ![n] = Env!Unset]
    BY <1>3, Zenon DEF Env!UnsetEnv
  <2>2. EnvHolds(es', meant')
    BY ONLY <1>0, <2>1, n \in 1 .. MaxName, DeleteHolds
  <2> QED
    BY <1>1, <2>1, <2>2
<1>4. CASE Env!Cleanup
  <2>1. es' = <<>> /\ process' = process /\ meant' = [n \in DOMAIN meant |-> Env!Unset]
    BY <1>4, Zenon DEF Env!Cleanup
  <2>2. DOMAIN meant = 1 .. MaxName
    BY <1>0 DEF EnvHolds
  <2>3. EnvHolds(es', meant')
    BY ONLY <1>0, <2>1, <2>2, NothingHolds
  <2> QED
    BY <1>1, <2>1, <2>3
<1>5. CASE Env!IllegalName \/ Env!RunConnectScript \/ Env!RunDisconnectScript \/ UNCHANGED envVars
  <2>1. es' = es /\ process' = process /\ meant' = meant
    BY <1>5 DEF Env!IllegalName, Env!RunConnectScript, Env!RunDisconnectScript, envVars
  <2> QED
    BY <1>0, <1>1, <2>1, Zenon
<1> QED
  BY <1>2, <1>3, <1>4, <1>5 DEF Env!Next

\* A sorted block has a name once.
LEMMA NamedOnce ==
    ASSUME NEW r \in Seq(Env!Entries), Ordered(r), EnvAssumption, NEW n \in Nat \ {0}
    PROVE  Cardinality({j \in DOMAIN r : r[j].name = n}) <= 1
<1> DEFINE J == {j \in DOMAIN r : r[j].name = n}
<1>1. \A j, k \in J : j = k
  <2> SUFFICES ASSUME NEW j \in J, NEW k \in J, j # k PROVE FALSE
    OBVIOUS
  <2>1. j \in 1 .. Len(r) /\ k \in 1 .. Len(r) /\ r[j].name = n /\ r[k].name = n
    OBVIOUS
  <2>2. j < k \/ k < j
    BY <2>1
  <2>3. n < n \/ n = 0
    BY <2>1, <2>2 DEF Ordered
  <2> QED
    BY <2>3
<1> HIDE DEF J
<1>2. Cardinality(J) <= 1
  <2>1. CASE J = {}
    BY <2>1, FS_EmptySet
  <2>2. CASE J # {}
    <3>1. PICK j : j \in J
      BY <2>2
    <3>2. J = {j}
      BY <1>1, <3>1
    <3>3. Cardinality({j}) = 1
      BY FS_Singleton
    <3> QED
      BY <3>2, <3>3
  <2> QED
    BY <2>1, <2>2
<1> QED
  BY <1>2 DEF J

\* What the block of the connect script has to be (Appended of EnvSet).
RightBlock(r) ==
    /\ \A j, k \in DOMAIN r : j < k => r[j].name <= r[k].name
    /\ \A n \in 1 .. MaxName :
          /\ Cardinality({j \in DOMAIN r : r[j].name = n}) <= 1
          /\ Env!ValueIn(r, n) = IF meant[n] # Env!Unset THEN {meant[n]} ELSE Env!ValueIn(process, n)
    /\ Only(r, {x \in Env!Entries : x.name = 0}) = Only(process, {x \in Env!Entries : x.name = 0})

\* A sorted block is in order and names each variable once.
LEMMA OrderedBlock ==
    ASSUME NEW r \in Seq(Env!Entries), Ordered(r), EnvAssumption
    PROVE  /\ \A j, k \in DOMAIN r : j < k => r[j].name <= r[k].name
           /\ \A n \in 1 .. MaxName : Cardinality({j \in DOMAIN r : r[j].name = n}) <= 1
<1>1. DOMAIN r = 1 .. Len(r) /\ \A k \in 1 .. Len(r) : r[k].name \in Nat
  BY EntryNames
<1>2. \A j, k \in DOMAIN r : j < k => r[j].name <= r[k].name
  BY <1>1 DEF Ordered
<1>3. ASSUME NEW n \in 1 .. MaxName
      PROVE  Cardinality({j \in DOMAIN r : r[j].name = n}) <= 1
  <2>1. n \in Nat \ {0}
    BY EnvAssumption DEF EnvAssumption
  <2> QED
    BY ONLY <2>1, r \in Seq(Env!Entries), Ordered(r), EnvAssumption, NamedOnce
<1> QED
  BY <1>2, <1>3

\* The block a script gets is right: the list alone decides the names it has.
LEMMA BlockIsRight ==
    ASSUME EnvInv, NEW r, r = IF es = <<>> THEN process ELSE Env!Merge(es, process)
    PROVE  RightBlock(r)
<1> DEFINE Z == {x \in Env!Entries : x.name = 0}
<1>0. /\ es \in Seq(Env!Items) /\ Ordered(es) /\ process \in Seq(Env!Entries) /\ Ordered(process)
      /\ \A k \in 1 .. Len(es) : meant[es[k].name] = es[k].value
      /\ \A n \in 1 .. MaxName : meant[n] # Env!Unset => \E k \in 1 .. Len(es) : es[k].name = n
  BY DEF EnvInv, EnvHolds
<1>a. EnvAssumption
  BY EnvAssumption
<1>1. CASE es = <<>>
  <2>1. r = process
    BY <1>1
  <2>2. \A n \in 1 .. MaxName : meant[n] = Env!Unset
    <3>1. 1 .. Len(es) = {}
      BY <1>1
    <3> QED
      BY <1>0, <3>1
  <2>3. /\ \A j, k \in DOMAIN process : j < k => process[j].name <= process[k].name
        /\ \A n \in 1 .. MaxName : Cardinality({j \in DOMAIN process : process[j].name = n}) <= 1
    BY <1>0, <1>a, OrderedBlock
  <2> QED
    BY <2>1, <2>2, <2>3, Zenon DEF RightBlock
<1>2. CASE es # <<>>
  <2>1. Merged(r, es, process, 1, 1)
    <3>1. Fit(es, process)
      BY <1>0 DEF Fit
    <3>2. r = Env!Merge(es, process)
      BY <1>2
    <3>3. Merged(Env!Merge(es, process), es, process, 1, 1)
      BY ONLY <1>a, <3>1, MergeGood
    <3> QED
      BY <3>2, <3>3, Zenon
  <2>2. /\ r \in Seq(Env!Entries) /\ Ordered(r)
        /\ \A k \in 1 .. Len(r) : \/ \E a \in 1 .. Len(es) : r[k] = es[a]
                                  \/ \E c \in 1 .. Len(process) :
                                        r[k] = process[c] /\ ~Covered(es, 1, process[c].name)
        /\ \A a \in 1 .. Len(es) : \E k \in 1 .. Len(r) : r[k] = es[a]
        /\ \A c \in 1 .. Len(process) :
              Covered(es, 1, process[c].name) \/ \E k \in 1 .. Len(r) : r[k] = process[c]
    BY <2>1, Zenon DEF Merged
  <2>3. /\ \A j, k \in DOMAIN r : j < k => r[j].name <= r[k].name
        /\ \A n \in 1 .. MaxName : Cardinality({j \in DOMAIN r : r[j].name = n}) <= 1
    BY <2>2, <1>a, OrderedBlock
  <2>4. DOMAIN r = 1 .. Len(r) /\ DOMAIN process = 1 .. Len(process) /\ Len(process) \in Nat /\ Len(r) \in Nat
    BY <1>0, <2>2
  <2>5. ASSUME NEW n \in 1 .. MaxName
        PROVE  Env!ValueIn(r, n) = IF meant[n] # Env!Unset THEN {meant[n]} ELSE Env!ValueIn(process, n)
    <3>1. \A v : v \in Env!ValueIn(r, n) <=> \E k \in 1 .. Len(r) : r[k].name = n /\ v = r[k].value
      BY <2>4 DEF Env!ValueIn
    <3>2. \A v : v \in Env!ValueIn(process, n)
                   <=> \E k \in 1 .. Len(process) : process[k].name = n /\ v = process[k].value
      BY <2>4 DEF Env!ValueIn
    <3>3. CASE meant[n] # Env!Unset
      <4>1. PICK a \in 1 .. Len(es) : es[a].name = n
        BY <1>0, <3>3
      <4>2. PICK k \in 1 .. Len(r) : r[k] = es[a]
        BY <2>2
      <4>3. meant[n] = es[a].value
        BY <1>0, <4>1
      <4>4. Covered(es, 1, n)
        BY <4>1 DEF Covered
      <4>5. ASSUME NEW j \in 1 .. Len(r), r[j].name = n
            PROVE  r[j].value = meant[n]
        <5>1. PICK d \in 1 .. Len(es) : r[j] = es[d]
          BY <2>2, <4>4, <4>5
        <5> QED
          BY <1>0, <4>5, <5>1
      <4>6. \A v : v \in Env!ValueIn(r, n) <=> v = meant[n]
        BY <3>1, <4>1, <4>2, <4>3, <4>5
      <4>7. Env!ValueIn(r, n) = {meant[n]}
        BY <4>6
      <4> QED
        BY <3>3, <4>7
    <3>4. CASE meant[n] = Env!Unset
      <4>1. ~Covered(es, 1, n)
        <5> SUFFICES ASSUME NEW a \in 1 .. Len(es), es[a].name = n PROVE FALSE
          BY DEF Covered
        <5>1. es[a] \in Env!Items
          BY <1>0
        <5>2. es[a].value \in Values
          BY <1>a, <5>1, EntryNames
        <5>3. es[a].value = Env!Unset
          BY <1>0, <3>4
        <5> QED
          BY <1>a, <5>2, <5>3 DEF EnvAssumption, Env!Unset
      <4>2. ASSUME NEW j \in 1 .. Len(r), r[j].name = n
            PROVE  \E c \in 1 .. Len(process) : r[j] = process[c]
        <5>1. ~ \E a \in 1 .. Len(es) : r[j] = es[a]
          BY <4>1, <4>2 DEF Covered
        <5> QED
          BY <2>2, <5>1
      <4>3. ASSUME NEW c \in 1 .. Len(process), process[c].name = n
            PROVE  \E k \in 1 .. Len(r) : r[k] = process[c]
        BY <2>2, <4>1, <4>3
      <4>4. ASSUME NEW v
            PROVE  v \in Env!ValueIn(r, n) <=> v \in Env!ValueIn(process, n)
        <5>1. ASSUME v \in Env!ValueIn(r, n)
              PROVE  v \in Env!ValueIn(process, n)
          <6>1. PICK k \in 1 .. Len(r) : r[k].name = n /\ v = r[k].value
            BY <3>1, <5>1
          <6>2. PICK c \in 1 .. Len(process) : r[k] = process[c]
            BY <4>2, <6>1
          <6> QED
            BY <3>2, <6>1, <6>2
        <5>2. ASSUME v \in Env!ValueIn(process, n)
              PROVE  v \in Env!ValueIn(r, n)
          <6>1. PICK c \in 1 .. Len(process) : process[c].name = n /\ v = process[c].value
            BY <3>2, <5>2
          <6>2. PICK k \in 1 .. Len(r) : r[k] = process[c]
            BY <4>3, <6>1
          <6> QED
            BY <3>1, <6>1, <6>2
        <5> QED
          BY <5>1, <5>2
      <4>5. Env!ValueIn(r, n) = Env!ValueIn(process, n)
        <5>1. \A v : v \in Env!ValueIn(r, n) <=> v \in Env!ValueIn(process, n)
          BY <4>4
        <5> DEFINE A == Env!ValueIn(r, n)
                   C == Env!ValueIn(process, n)
        <5> HIDE DEF A, C
        <5>2. A = C
          BY <5>1 DEF A, C
        <5> QED
          BY <5>2 DEF A, C
      <4> QED
        BY <3>4, <4>5
    <3> QED
      BY <3>3, <3>4
  <2>6. Only(r, Z) = Only(process, Z)
    <3>1. /\ \A k \in 1 .. Len(r) : r[k].name = 0 =>
                k + 1 - 1 \in 1 .. Len(process) /\ r[k] = process[k + 1 - 1]
          /\ \A c \in 1 .. Len(process) : process[c].name = 0 =>
                c - 1 + 1 \in 1 .. Len(r) /\ r[c - 1 + 1] = process[c]
      BY <2>1, Zenon DEF Merged
    <3>2. /\ \A k \in 1 .. Len(r) : k + 1 - 1 = k
          /\ \A k \in 1 .. Len(process) : k - 1 + 1 = k
      BY <2>4
    <3>3. /\ \A k \in 1 .. Len(r) : r[k].name = 0 => k \in 1 .. Len(process) /\ r[k] = process[k]
          /\ \A k \in 1 .. Len(process) : process[k].name = 0 => k \in 1 .. Len(r) /\ r[k] = process[k]
      BY <3>1, <3>2
    <3>4. \A x \in Env!Entries : x \in Z <=> x.name = 0
      OBVIOUS
    <3>5. r \in Seq(Env!Entries) /\ Ordered(r)
      BY <2>2
    <3> HIDE DEF Z
    <3> QED
      BY ONLY <1>0, <1>a, <3>3, <3>4, <3>5, SameZeros
  <2> QED
    BY <2>3, <2>5, <2>6, Zenon DEF RightBlock
<1> QED
  BY <1>1, <1>2

\* EnvInv holds of every state.
LEMMA EnvKept == Spec => []EnvInv
<1>1. Init => EnvInv
  <2> SUFFICES ASSUME Env!Init
               PROVE  EnvInv
    BY DEF Init
  <2>1. es = <<>> /\ meant = [n \in 1 .. MaxName |-> Env!Unset]
    BY Zenon DEF Env!Init
  <2>4. PICK d \in 0 .. 2, U \in SUBSET (1 .. MaxName) : process = Env!Environment(d, U)
    BY Zenon DEF Env!Init
  <2>2. EnvHolds(es, meant)
    BY <2>1, EnvAssumption, NothingHolds
  <2>3. process \in Seq(Env!Entries) /\ Ordered(process)
    BY <2>4, EnvAssumption, EnvironmentFits
  <2> QED
    BY <2>2, <2>3 DEF EnvInv
<1>2. EnvInv /\ [Next]_vars => EnvInv'
  <2>1. [Next]_vars => Env!Next \/ UNCHANGED envVars
    BY DEF Next, vars, PlapStep, ObjectsStep, MenusStep, StartingStep, TokensStep, MessagesStep,
           EnvStep, ProxiesStep, ImportsStep, ReaderStep
  <2> QED
    BY <2>1, EnvStepHolds
<1> HIDE DEF EnvInv
<1> QED
  BY <1>1, <1>2, PTL DEF Spec

\* However the server sets and deletes its variables, the block of the connect script is
\* sorted, names each variable once, and gives it the server's last value, or else that of the
\* environment of the GUI, of which nothing is lost (env_item_insert, env_item_del,
\* merge_env_block, RunConnectScript).
THEOREM ConnectScriptSeesWhatIsMeant == Spec => ConnectEnvironment
<1>1. EnvInv /\ [Next]_vars => [Env!ConnectBlock]_envVars
  <2> SUFFICES ASSUME EnvInv, Env!RunConnectScript
               PROVE  Env!ConnectBlock
    BY Zenon DEF Env!ConnectBlock
  <2>1. ran' = IF es = <<>> THEN process ELSE Env!Merge(es, process)
    BY Zenon DEF Env!RunConnectScript
  <2> DEFINE r == ran'
  <2>2. RightBlock(r)
    <3>1. r = IF es = <<>> THEN process ELSE Env!Merge(es, process)
      BY <2>1, Zenon
    <3> HIDE DEF r
    <3> QED
      BY <3>1, BlockIsRight
  <2>3. /\ \A S : Env!Only(r, S) = Only(r, S) /\ Env!Only(process, S) = Only(process, S)
        /\ \A S : Env!Cardinality(S) = Cardinality(S)
    BY EnvOnly, EnvCardinality, Zenon
  <2>4. /\ \A j, k \in DOMAIN ran' : j < k => ran'[j].name <= ran'[k].name
        /\ \A n \in 1 .. MaxName :
              /\ Cardinality({j \in DOMAIN ran' : ran'[j].name = n}) <= 1
              /\ Env!ValueIn(ran', n)
                    = IF meant[n] # Env!Unset THEN {meant[n]} ELSE Env!ValueIn(process, n)
        /\ Only(ran', {x \in Env!Entries : x.name = 0}) = Only(process, {x \in Env!Entries : x.name = 0})
    BY <2>2, Zenon DEF RightBlock
  <2> QED
    BY <2>3, <2>4, Zenon DEF Env!ConnectBlock, Env!Appended
<1> HIDE DEF EnvInv
<1>2. Spec => []EnvInv /\ [][Next]_vars
  BY EnvKept, PTL DEF Spec
<1> QED
  BY <1>1, <1>2, PTL DEF ConnectEnvironment

-----------------------------------------------------------------------------
(* Types: what the invariants above leave open, and the bounds *)

\* c->state
PlapStates == {"disconnected", "onhold", "connecting", "reconnecting", "connected", "disconnecting"}

\* The variables PlapTypes says nothing of.
PlapRest ==
    /\ res \in {"none", "cancel", "retry"} /\ active \in Profiles \cup {"none"}
    /\ pState \in [Profiles -> PlapStates]
    /\ button \in [Profiles -> BOOLEAN] /\ holdFlag \in [Profiles -> BOOLEAN]
    /\ stopAsked \in [Profiles -> BOOLEAN] /\ faults \in 0 .. MaxFaults

\* A step of the provider keeps them.
LEMMA PlapRestStep ==
    ASSUME PlapTypes, PlapRest, Plap!Next \/ UNCHANGED plapVars
    PROVE  PlapRest'
<1> USE DEF PlapRest
<1>1. CASE UNCHANGED plapVars
  BY <1>1 DEF plapVars
<1>2. CASE Plap!LogonUI
  <2>1. \A c \in Profiles : Plap!ConnectHelper(c) =>
           pState' \in [Profiles -> PlapStates] /\ stopAsked' \in [Profiles -> BOOLEAN]
    BY DEF Plap!ConnectHelper, Plap!Start, Plap!SetState, PlapStates
  <2>2. \A c \in Profiles : Plap!Again(c) =>
           /\ pState' \in [Profiles -> PlapStates] /\ stopAsked' \in [Profiles -> BOOLEAN]
           /\ active' \in Profiles \cup {"none"}
    BY <2>1 DEF Plap!Again
  <2>3. pc \in {"wait", "dialog", "chosen", "stopping"} => cur \in Profiles
    BY DEF PlapTypes
  <2> USE DEF Plap!Return, Plap!EndDialog, Plap!None, Plap!logonVars, Plap!threadVars,
              Plap!channel, Plap!daemonVars
  <2>4. ASSUME NEW c \in Profiles, Plap!Connect(c) \/ Plap!Disconnect(c)
        PROVE  PlapRest'
    BY <2>4, <2>2 DEF Plap!Connect, Plap!Disconnect
  <2>5. CASE Plap!Waited
    BY <2>5 DEF Plap!Waited
  <2>6. CASE Plap!DialogTimer \/ Plap!ClickCancel \/ Plap!ClickRetry
    BY <2>6, <2>1, <2>3 DEF Plap!DialogTimer, Plap!ClickCancel, Plap!ClickRetry
  <2>7. CASE Plap!Chosen
    BY <2>7, <2>2, <2>3 DEF Plap!Chosen
  <2>8. CASE Plap!Stopped
    BY <2>8, <2>2, <2>3 DEF Plap!Stopped
  <2>9. CASE Plap!DetachAllOpenVPN \/ Plap!DeleteUI
    BY <2>9 DEF Plap!DetachAllOpenVPN, Plap!DeleteUI
  <2> QED
    BY <1>2, <2>4, <2>5, <2>6, <2>7, <2>8, <2>9 DEF Plap!LogonUI
<1>3. ASSUME NEW c \in Startable, Plap!StatusThread(c)
      PROVE  PlapRest'
  <2>1. c \in Profiles
    BY DesktopAssumption, Zenon DEF DesktopAssumption
  <2>2. pState[c] \in PlapStates
    BY <2>1
  <2>3. UNCHANGED <<res, active, holdFlag, faults>>
    BY <1>3 DEF Plap!StatusThread, Plap!ThreadInit, Plap!ThreadExit, Plap!HandleStop,
       Plap!HandleRelease, Plap!HandleDetach, Plap!ReadReady, Plap!ReadHold, Plap!ReadConnected,
       Plap!ReadStateReply, Plap!ReadReconnecting, Plap!ReadQuestion, Plap!ReadEof, Plap!Answer,
       Plap!logonVars, Plap!daemonVars
  <2>4. pState' = pState \/ \E s \in PlapStates : pState' = [pState EXCEPT ![c] = s]
    BY <1>3, <2>2 DEF Plap!StatusThread, Plap!ThreadInit, Plap!ThreadExit, Plap!HandleStop,
       Plap!HandleRelease, Plap!HandleDetach, Plap!ReadReady, Plap!ReadHold, Plap!ReadConnected,
       Plap!ReadStateReply, Plap!ReadReconnecting, Plap!ReadQuestion, Plap!ReadEof, Plap!Answer,
       Plap!CloseWindow, Plap!OnHold, Plap!SetState, PlapStates
  <2>5. button' = button \/ \E b \in BOOLEAN : button' = [button EXCEPT ![c] = b]
    BY <1>3 DEF Plap!StatusThread, Plap!ThreadInit, Plap!ThreadExit, Plap!HandleStop,
       Plap!HandleRelease, Plap!HandleDetach, Plap!ReadReady, Plap!ReadHold, Plap!ReadConnected,
       Plap!ReadStateReply, Plap!ReadReconnecting, Plap!ReadQuestion, Plap!ReadEof, Plap!Answer,
       Plap!CloseWindow, Plap!OnHold, Plap!SetButton
  <2>6. stopAsked' = stopAsked \/ stopAsked' = [stopAsked EXCEPT ![c] = TRUE]
    BY <1>3 DEF Plap!StatusThread, Plap!ThreadInit, Plap!ThreadExit, Plap!HandleStop,
       Plap!HandleRelease, Plap!HandleDetach, Plap!ReadReady, Plap!ReadHold, Plap!ReadConnected,
       Plap!ReadStateReply, Plap!ReadReconnecting, Plap!ReadQuestion, Plap!ReadEof, Plap!Answer,
       Plap!CloseWindow
  <2> QED
    BY <2>3, <2>4, <2>5, <2>6
<1>4. ASSUME NEW c \in Startable, Plap!Daemon(c)
      PROVE  PlapRest'
  <2>1. UNCHANGED <<res, active, pState, button, stopAsked>>
    BY <1>4 DEF Plap!Daemon, Plap!DaemonAccepts, Plap!DaemonReads, Plap!DaemonConnects,
       Plap!DaemonAsks, Plap!DaemonReconnects, Plap!DaemonRestarts, Plap!daemonOnly,
       Plap!logonVars, Plap!threadVars
  <2>2. faults' = faults \/ (faults < MaxFaults /\ faults' = faults + 1)
    BY <1>4 DEF Plap!Daemon, Plap!DaemonAccepts, Plap!DaemonReads, Plap!DaemonConnects,
       Plap!DaemonAsks, Plap!DaemonReconnects, Plap!DaemonRestarts, Plap!daemonVars
  <2>3. faults' \in 0 .. MaxFaults
    BY <2>2, BoundsAssumption DEF BoundsAssumption, PlapRest
  <2>4. holdFlag' \in [Profiles -> BOOLEAN]
    BY <1>4 DEF Plap!Daemon, Plap!DaemonAccepts, Plap!DaemonReads, Plap!DaemonConnects,
       Plap!DaemonAsks, Plap!DaemonReconnects, Plap!DaemonRestarts, Plap!daemonVars
  <2> QED
    BY <2>1, <2>3, <2>4
<1> QED
  BY <1>1, <1>2, <1>3, <1>4 DEF Plap!Next

\* Both together are the types of PlapConnect.
LEMMA PlapTyped == PlapTypes /\ PlapRest => Plap!TypeOK
BY DEF PlapTypes, PlapRest, Plap!TypeOK, PlapStates, PlapMessages, PlapCommands, PlapLines, Plap!None

\* They hold at first.
LEMMA PlapRestInit == Plap!Init => PlapRest
BY BoundsAssumption DEF BoundsAssumption, Plap!Init, PlapRest, PlapStates, Plap!None

\* Times are those of the clock, and there are two threads.
Times == 0 .. MaxTime
EchoBounds ==
    /\ now \in Times /\ eThread \in 0 .. 2 /\ pending \subseteq Times /\ lost \subseteq 1 .. 2
    /\ running => eThread # 0
    /\ \A k \in 1 .. Len(history) : history[k].time \in Times
    /\ \A k \in 1 .. Len(stored) : stored[k].time \in Times
    /\ \A i \in 1 .. Len(shown) : shown[i].time \in Times /\ shown[i].thread \in 1 .. 2

\* A step of the messages keeps them.
LEMMA EchoBoundsStep ==
    ASSUME EchoInv, EchoBounds, Messages!Next \/ UNCHANGED echoVars
    PROVE  EchoBounds'
<1> USE BoundsAssumption DEF BoundsAssumption, EchoBounds, Times
<1>h. \A s \in Seq(Prints) : Len(s) \in Nat /\ DOMAIN s = 1 .. Len(s)
  OBVIOUS
<1>t. /\ history \in Seq(Prints) /\ stored \in Seq(Prints)
      /\ shown \in Seq([digest : Digests, time : Nat, how : {"whole", "late"}, thread : Nat])
      /\ text \in Seq(Lines)
  BY DEF EchoInv, EchoTypes
<1>1. CASE UNCHANGED echoVars
  BY <1>1 DEF echoVars
<1>2. CASE Messages!MsgAppend \/ Messages!Reconnecting
  BY <1>2 DEF Messages!MsgAppend, Messages!Reconnecting
<1>3. CASE Messages!Tick
  BY <1>3 DEF Messages!Tick
<1>4. CASE Messages!EndsUnsaved
  <2>1. Len(<<>>) = 0 /\ 1 .. 0 = {}
    OBVIOUS
  <2> QED
    BY <1>4, <2>1 DEF Messages!EndsUnsaved
<1>5. CASE Messages!Start
  <2>1. /\ Len(history') = Len(stored)
        /\ \A k \in 1 .. Len(stored) : history'[k] = stored[Len(stored) - k + 1]
    BY <1>5, <1>t DEF Messages!Start, Messages!Reverse
  <2>2. ASSUME NEW k \in 1 .. Len(stored)
        PROVE  Len(stored) - k + 1 \in 1 .. Len(stored)
    BY <1>h, <1>t
  <2>3. \A k \in 1 .. Len(history') : history'[k].time \in Times
    BY ONLY <2>1, <2>2, EchoBounds DEF EchoBounds
  <2> QED
    BY <1>5, <2>3 DEF Messages!Start
<1>6. CASE Messages!Cleanup
  <2>1. \A k \in 1 .. Len(stored') : stored'[k].time \in Times
    <3>1. CASE history = <<>>
      BY <1>6, <3>1 DEF Messages!Cleanup, Messages!Persisted
    <3>2. CASE history # <<>>
      <4> DEFINE m == IF Len(history) < MaxHistory THEN Len(history) ELSE MaxHistory
      <4>1. stored' = SubSeq(history, 1, m)
        BY <1>6, <3>2 DEF Messages!Cleanup, Messages!Persisted
      <4>2. m \in 0 .. Len(history)
        <5>1. Len(history) \in Nat /\ MaxHistory \in Nat
          BY <1>t, <1>h, DesktopAssumption, Zenon DEF DesktopAssumption
        <5> QED
          BY ONLY <5>1
      <4> HIDE DEF m
      <4>3. Len(stored') = m /\ \A k \in 1 .. m : stored'[k] = history[k]
        BY <4>1, <4>2, <1>t
      <4> QED
        BY <4>2, <4>3
    <3> QED
      BY <3>1, <3>2
  <2>2. history' = <<>> /\ Len(<<>>) = 0
    BY <1>6 DEF Messages!Cleanup
  <2> QED
    BY <1>6, <2>1, <2>2 DEF Messages!Cleanup
<1>7. CASE Messages!LateDisplay
  <2>1. PICK time \in pending : /\ pending' = pending \ {time}
                                /\ shown' = Append(shown, Messages!Shown(text, time, "late"))
    BY <1>7 DEF Messages!LateDisplay
  <2>2. eThread \in 1 .. 2 /\ time \in Times
    BY <1>7 DEF Messages!LateDisplay
  <2>3. Len(shown') = Len(shown) + 1 /\ \A i \in 1 .. Len(shown') :
           IF i = Len(shown) + 1 THEN shown'[i] = Messages!Shown(text, time, "late")
           ELSE i \in 1 .. Len(shown) /\ shown'[i] = shown[i]
    BY <2>1, <1>t
  <2>4. \A i \in 1 .. Len(shown') : shown'[i].time \in Times /\ shown'[i].thread \in 1 .. 2
    BY <2>2, <2>3 DEF Messages!Shown
  <2> QED
    BY <1>7, <2>1, <2>4 DEF Messages!LateDisplay
<1>8. CASE Messages!Display
  <2>1. PICK title \in Titles, time \in 0 .. now :
          LET d == Messages!Digest(text, title) IN
          IF Messages!Repeated(d, time)
          THEN UNCHANGED <<history, shown, pending, tried>>
          ELSE /\ history' = Messages!Save(history, d, time)
               /\ \/ shown' = Append(shown, Messages!Shown(d, time, "whole")) /\ UNCHANGED pending
                  \/ pending' = pending \cup {time} /\ UNCHANGED shown
    BY <1>8 DEF Messages!Display
  <2> DEFINE d == Messages!Digest(text, title)
  <2>2. eThread \in 1 .. 2 /\ time \in Times
    BY <1>8 DEF Messages!Display
  <2>3. CASE Messages!Repeated(d, time)
    BY <1>8, <2>1, <2>3 DEF Messages!Display
  <2>4. CASE ~Messages!Repeated(d, time)
    <3>1. /\ history' = Messages!Save(history, d, time)
          /\ \/ shown' = Append(shown, Messages!Shown(d, time, "whole")) /\ UNCHANGED pending
             \/ pending' = pending \cup {time} /\ UNCHANGED shown
      BY <2>1, <2>4
    <3> HIDE DEF d
    <3>2. \A k \in 1 .. Len(history') : history'[k].time \in Times
      <4>1. CASE Messages!Recall(history, d) # {}
        <5>1. history' = [k \in 1 .. Len(history) |->
                            IF history[k].digest = d THEN [history[k] EXCEPT !.time = time]
                            ELSE history[k]]
          BY <3>1, <4>1, <1>t, <1>h DEF Messages!Save
        <5>2. Len(history') = Len(history)
          BY <5>1, <1>t
        <5>3. \A k \in 1 .. Len(history) : history[k] \in Prints
          BY <1>t
        <5> QED
          BY <5>1, <5>2, <5>3, <2>2 DEF Prints
      <4>2. CASE Messages!Recall(history, d) = {}
        <5>1. history' = <<[digest |-> d, time |-> time]>> \o history
          BY <3>1, <4>2 DEF Messages!Save
        <5>2. Len(history') = 1 + Len(history) /\ history'[1].time = time
              /\ \A k \in 2 .. Len(history') : history'[k] = history[k - 1]
          BY <5>1, <1>t
        <5>3. ASSUME NEW k \in 1 .. Len(history'), k # 1
              PROVE  k \in 2 .. Len(history') /\ k - 1 \in 1 .. Len(history)
          BY ONLY <5>2, <5>3, <1>h, <1>t
        <5> QED
          BY ONLY <5>2, <5>3, <2>2, EchoBounds DEF EchoBounds
      <4> QED
        BY <4>1, <4>2
    <3>3. \A i \in 1 .. Len(shown') : shown'[i].time \in Times /\ shown'[i].thread \in 1 .. 2
      <4>1. CASE UNCHANGED shown
        BY <4>1
      <4>2. CASE shown' = Append(shown, Messages!Shown(d, time, "whole"))
        <5>1. Len(shown') = Len(shown) + 1 /\ \A i \in 1 .. Len(shown') :
                 IF i = Len(shown) + 1 THEN shown'[i] = Messages!Shown(d, time, "whole")
                 ELSE i \in 1 .. Len(shown) /\ shown'[i] = shown[i]
          BY <4>2, <1>t
        <5> QED
          BY <5>1, <2>2 DEF Messages!Shown
      <4> QED
        BY <3>1, <4>1, <4>2
    <3>4. pending' \subseteq Times
      BY <3>1, <2>2
    <3> QED
      BY <1>8, <3>2, <3>3, <3>4 DEF Messages!Display
  <2> QED
    BY <2>3, <2>4
<1> QED
  BY <1>1, <1>2, <1>3, <1>4, <1>5, <1>6, <1>7, <1>8 DEF Messages!Next

\* A sequence whose elements are all in a set.
LEMMA SeqOfElements ==
    ASSUME NEW A, NEW B, NEW s \in Seq(A), \A k \in 1 .. Len(s) : s[k] \in B
    PROVE  s \in Seq(B)
<1>1. s = [k \in 1 .. Len(s) |-> s[k]] /\ Len(s) \in Nat
  OBVIOUS
<1> QED
  BY <1>1

\* With the invariant they give the types of Echo.
LEMMA EchoTyped == EchoInv /\ EchoBounds => Messages!TypeOK
<1> SUFFICES ASSUME EchoInv, EchoBounds
             PROVE  Messages!TypeOK
  OBVIOUS
<1> DEFINE F == Messages!Fingerprints
           W == [digest : Seq(Lines \cup Titles), time : 0 .. MaxTime,
                 how : {"whole", "late"}, thread : 1 .. 2]
<1>1. /\ \A k \in 1 .. Len(history) : history[k] \in F
      /\ \A k \in 1 .. Len(stored) : stored[k] \in F
  <2>1. /\ \A k \in 1 .. Len(history) : history[k] \in Prints
        /\ \A k \in 1 .. Len(stored) : stored[k] \in Prints
    BY DEF EchoInv, EchoTypes
  <2>2. \A p \in Prints : p.time \in Times => p \in F
    BY DEF Prints, Messages!Fingerprints, Digests, Times
  <2> QED
    BY <2>1, <2>2 DEF EchoBounds
<1>2. \A i \in 1 .. Len(shown) : shown[i] \in W
  <2>1. \A i \in 1 .. Len(shown) :
           shown[i] \in [digest : Digests, time : Nat, how : {"whole", "late"}, thread : Nat]
    <3> DEFINE R == [digest : Digests, time : Nat, how : {"whole", "late"}, thread : Nat]
    <3>1. shown \in Seq(R)
      BY DEF EchoInv, EchoTypes
    <3> HIDE DEF R
    <3>2. \A i \in 1 .. Len(shown) : shown[i] \in R
      BY ONLY <3>1
    <3> QED
      BY ONLY <3>2 DEF R
  <2>2. \A i \in 1 .. Len(shown) : shown[i].time \in 0 .. MaxTime /\ shown[i].thread \in 1 .. 2
    BY DEF EchoBounds, Times
  <2> HIDE DEF F
  <2>3. ASSUME NEW x \in [digest : Digests, time : Nat, how : {"whole", "late"}, thread : Nat],
               x.time \in 0 .. MaxTime /\ x.thread \in 1 .. 2
        PROVE  x \in W
    BY <2>3 DEF Digests
  <2> HIDE DEF W
  <2> QED
    BY ONLY <2>1, <2>2, <2>3
<1> HIDE DEF F, W
<1>3. history \in Seq(F) /\ stored \in Seq(F)
  <2>1. history \in Seq(Prints) /\ stored \in Seq(Prints)
    BY DEF EchoInv, EchoTypes
  <2> QED
    BY ONLY <1>1, <2>1, SeqOfElements
<1>4. shown \in Seq(W)
  <2>1. shown \in Seq([digest : Digests, time : Nat, how : {"whole", "late"}, thread : Nat])
    BY DEF EchoInv, EchoTypes
  <2> QED
    BY ONLY <1>2, <2>1, SeqOfElements
<1>5. /\ running \in BOOLEAN /\ text \in Seq(Lines) /\ now \in 0 .. MaxTime
      /\ pending \subseteq 0 .. MaxTime /\ eThread \in 0 .. 2 /\ lost \subseteq 1 .. 2
      /\ tried \subseteq Seq(Lines \cup Titles)
  BY DEF EchoInv, EchoTypes, EchoBounds, Times, Digests
<1> QED
  BY <1>3, <1>4, <1>5 DEF Messages!TypeOK, F, W

\* They hold at first.
LEMMA EchoBoundsInit == Messages!Init => EchoBounds
BY BoundsAssumption DEF BoundsAssumption, Messages!Init, EchoBounds, Times

\* What the variables hold: entries and indices of a token the daemon has had.
FineRows == [at : Tokens!Indices, entry : Tokens!Entries]
FineLists == [getCount : BOOLEAN, getEntry : BOOLEAN, filled : BOOLEAN, picked : BOOLEAN,
              selected : 0 .. MaxCerts, count : 0 .. MaxCerts, pe : Seq(Tokens!Entries)]
FineDialogs == [open : BOOLEAN, timer : BOOLEAN, ready : BOOLEAN, retry : BOOLEAN,
                rows : Seq(FineRows), settled : BOOLEAN,
                result : {"none", "ok", "cancel", "state"}, chosen : Tokens!Entries]
FineRequests == {"count", "get"} \X Tokens!Indices \cup {<<"count", 0>>}
FineAnswers == Tokens!Entries \X Tokens!Entries \X BOOLEAN

\* All the certificates hold is fine.
CertBounds ==
    /\ token \in Tokens!Tokens /\ question \in 0 .. MaxAsks /\ asks \in 0 .. MaxAsks
    /\ retries \in 0 .. MaxRetries
    /\ requests \in Seq(FineRequests) /\ certs \in FineLists
    /\ dialogs \in Seq(FineDialogs) /\ answers \in Seq(FineAnswers)

\* The entries there are.
LEMMA SomeEntries ==
    /\ {Tokens!Empty, Tokens!Freed, Tokens!Undefined} \subseteq Tokens!Entries
    /\ \A w \in 0 .. MaxChanges, i \in Tokens!Indices : Tokens!Cert(w, i) \in Tokens!Entries
BY SMT DEF Tokens!Entries

\* What is built from a fine list is fine.
LEMMA FineEntries ==
    ASSUME CertBounds
    PROVE  /\ \A i \in Nat : Tokens!EntryAt(i) \in Tokens!Entries
           /\ Tokens!RowsOfList \in Seq(FineRows)
           /\ [i \in 1 .. certs.count |-> Tokens!Get(i - 1)] \in Seq(FineRequests)
           /\ [i \in 1 .. certs.count |-> Tokens!Empty] \in Seq(Tokens!Entries)
<1>1. certs.pe \in Seq(Tokens!Entries) /\ certs.count \in 0 .. MaxCerts /\ MaxCerts \in Nat
  BY DesktopAssumption, Zenon DEF DesktopAssumption, CertBounds, FineLists
<1>2. \A i \in Nat : Tokens!EntryAt(i) \in Tokens!Entries
  BY <1>1, SomeEntries DEF Tokens!EntryAt
<1>3. \A i \in 1 .. certs.count : i - 1 \in Tokens!Indices /\ i - 1 \in Nat
  BY <1>1 DEF Tokens!Indices
<1>4. \A i \in 1 .. certs.count : [at |-> i - 1, entry |-> Tokens!EntryAt(i - 1)] \in FineRows
  BY <1>2, <1>3 DEF FineRows
<1>5. \A i \in 1 .. certs.count : Tokens!Get(i - 1) \in FineRequests
  BY <1>3 DEF Tokens!Get, FineRequests
<1>6. Tokens!RowsOfList = [i \in 1 .. certs.count |-> [at |-> i - 1, entry |-> Tokens!EntryAt(i - 1)]]
  BY Zenon DEF Tokens!RowsOfList
<1>7. certs.count \in Nat /\ Tokens!Empty \in Tokens!Entries
  BY <1>1, SomeEntries
<1>8. Tokens!RowsOfList \in Seq(FineRows)
  BY ONLY <1>4, <1>6, <1>7
<1>9. [i \in 1 .. certs.count |-> Tokens!Get(i - 1)] \in Seq(FineRequests)
  BY ONLY <1>5, <1>7
<1>10. [i \in 1 .. certs.count |-> Tokens!Empty] \in Seq(Tokens!Entries)
  BY ONLY <1>7
<1> QED
  BY <1>2, <1>8, <1>9, <1>10, Zenon

\* So is an empty list, with or without a selection.
LEMMA FineCleared == Tokens!Cleared \in FineLists
                     /\ [Tokens!Cleared EXCEPT !.selected = Tokens!Nobody] \in FineLists
<1>1. <<>> \in Seq(Tokens!Entries)
  OBVIOUS
<1>n. MaxCerts \in Nat
  BY DesktopAssumption, Zenon DEF DesktopAssumption
<1>2. 0 \in 0 .. MaxCerts /\ MaxCerts \in 0 .. MaxCerts
  BY ONLY <1>n
<1> QED
  BY ONLY <1>1, <1>2 DEF Tokens!Cleared, Tokens!Nobody, FineLists

\* A step of the certificates keeps them.
LEMMA CertBoundsStep ==
    ASSUME CertBounds, Tokens!Next \/ UNCHANGED tokenVars
    PROVE  CertBounds'
<1>n. MaxAsks \in Nat /\ MaxCerts \in Nat /\ MaxChanges \in Nat /\ MaxRetries \in Nat
  BY DesktopAssumption, BoundsAssumption, Zenon DEF DesktopAssumption, BoundsAssumption
<1>d. /\ DOMAIN dialogs = 1 .. Len(dialogs) /\ Len(dialogs) \in Nat
      /\ \A k \in DOMAIN dialogs : dialogs[k] \in FineDialogs
      /\ dialogs # <<>> => Head(dialogs) \in FineDialogs /\ Tail(dialogs) \in Seq(FineDialogs)
  BY DEF CertBounds
<1>s. \A k \in DOMAIN dialogs, d \in FineDialogs :
         Tokens!SetDialog(k, d) => dialogs' \in Seq(FineDialogs)
  BY DEF CertBounds, Tokens!SetDialog
<1>c. certs.count \in 0 .. MaxCerts /\ certs.selected \in 0 .. MaxCerts /\ certs.pe \in Seq(Tokens!Entries)
  BY DEF CertBounds, FineLists
<1>1. CASE UNCHANGED tokenVars
  BY <1>1 DEF tokenVars, CertBounds
<1>2. CASE Tokens!TokenChanges
  BY <1>2 DEF Tokens!TokenChanges, CertBounds
<1>3. CASE Tokens!StateChanges
  <2>1. ASSUME NEW d \in FineDialogs
        PROVE  Tokens!End(d, "state") \in FineDialogs
    BY DEF Tokens!End, FineDialogs
  <2>2. dialogs' \in Seq(FineDialogs)
    <3> DEFINE f == [k \in DOMAIN dialogs |->
                       IF dialogs[k].open THEN Tokens!End(dialogs[k], "state") ELSE dialogs[k]]
    <3>1. dialogs' = f
      BY <1>3 DEF Tokens!StateChanges
    <3>2. f \in Seq(FineDialogs)
      BY <1>d, <2>1
    <3> QED
      BY <3>1, <3>2
  <2> QED
    BY <1>3, <2>2, <1>n DEF Tokens!StateChanges, CertBounds
<1>4. CASE Tokens!OnPkcs11
  <2>1. Tokens!NewDialog \in FineDialogs
    <3>1. <<>> \in Seq(FineRows)
      OBVIOUS
    <3> QED
      BY <3>1, SomeEntries DEF Tokens!NewDialog, FineDialogs
  <2>2. <<Tokens!NewDialog>> \o dialogs \in Seq(FineDialogs)
    BY <2>1 DEF CertBounds
  <2>3. asks' \in 0 .. MaxAsks /\ question' \in 0 .. MaxAsks
    BY <1>4, <1>n DEF Tokens!OnPkcs11, CertBounds
  <2> QED
    BY <1>4, <2>2, <2>3, FineCleared DEF Tokens!OnPkcs11, CertBounds
<1>5. CASE Tokens!DialogReturns
  <2>1. dialogs' \in Seq(FineDialogs)
    BY <1>5, <1>d DEF Tokens!DialogReturns
  <2>2. answers' \in Seq(FineAnswers) /\ question' \in 0 .. MaxAsks
    <3> DEFINE t == <<Tokens!EntryAt(certs.selected), Head(dialogs).chosen, Head(dialogs).settled>>
    <3>1. t \in FineAnswers
      <4>1. Head(dialogs).chosen \in Tokens!Entries /\ Head(dialogs).settled \in BOOLEAN
        BY <1>5, <1>d DEF Tokens!DialogReturns, FineDialogs
      <4>2. Tokens!EntryAt(certs.selected) \in Tokens!Entries
        BY <1>c, <1>n, FineEntries
      <4> QED
        BY <4>1, <4>2 DEF FineAnswers
    <3>2. \/ answers' = Append(answers, t) /\ question' = 0
          \/ UNCHANGED <<answers, question>>
      BY <1>5 DEF Tokens!DialogReturns
    <3> HIDE DEF t
    <3>3. answers \in Seq(FineAnswers) /\ question \in 0 .. MaxAsks
      BY DEF CertBounds
    <3>4. answers' \in Seq(FineAnswers)
      BY ONLY <3>1, <3>2, <3>3
    <3> QED
      BY ONLY <3>2, <3>3, <3>4, <1>n
  <2> QED
    BY <1>5, <2>1, <2>2 DEF Tokens!DialogReturns, CertBounds
<1>6. CASE Tokens!DaemonAnswers
  <2>1. requests' \in Seq(FineRequests) /\ Head(requests) \in FineRequests
    BY <1>6 DEF Tokens!DaemonAnswers, CertBounds
  <2>2. certs' \in FineLists
    <3>1. CASE UNCHANGED certs
      BY <3>1 DEF CertBounds
    <3>2. CASE Tokens!CountReceived(token.count) \/ Tokens!CountRefused
      <4>1. token.count \in 0 .. MaxCerts
        BY DEF CertBounds, Tokens!Tokens
      <4> QED
        BY <3>2, <4>1 DEF Tokens!CountReceived, Tokens!CountRefused, CertBounds, FineLists
    <3>3. CASE Head(requests)[1] # "count" /\ Tokens!EntryReceived(Head(requests)[2]) /\ certs' # certs
      <4> DEFINE i == Head(requests)[2]
      <4>1. i \in Tokens!Indices
        BY <2>1, <3>3 DEF FineRequests
      <4>2. token.when \in 0 .. MaxChanges
        BY DEF CertBounds, Tokens!Tokens
      <4>3. Tokens!Cert(token.when, i) \in Tokens!Entries /\ Tokens!Freed \in Tokens!Entries
        BY <4>1, <4>2, SomeEntries
      <4> HIDE DEF i
      <4>4. \/ certs' = [certs EXCEPT !.pe = Tokens!Put(i, Tokens!Freed)]
            \/ certs' = [certs EXCEPT !.pe = Tokens!Put(i, Tokens!Cert(token.when, i)),
                                      !.filled = @ \/ i + 1 = certs.count]
        BY <3>3 DEF Tokens!EntryReceived, i
      <4>l. ~(i + 1 > Len(certs.pe))
        BY <3>3 DEF Tokens!EntryReceived, i
      <4>5. \A e \in Tokens!Entries : Tokens!Put(i, e) \in Seq(Tokens!Entries)
        <5> SUFFICES ASSUME NEW e \in Tokens!Entries
                     PROVE  [certs.pe EXCEPT ![i + 1] = e] \in Seq(Tokens!Entries)
          BY DEF Tokens!Put
        <5>2. certs.pe \in Seq(Tokens!Entries)
          BY <1>c
        <5>1. i + 1 \in 1 .. Len(certs.pe)
          BY <4>1, <4>l, <5>2, <1>n DEF Tokens!Indices
        <5> QED
          BY ONLY <5>1, <5>2
      <4>6. /\ Tokens!Put(i, Tokens!Freed) \in Seq(Tokens!Entries)
            /\ Tokens!Put(i, Tokens!Cert(token.when, i)) \in Seq(Tokens!Entries)
        BY <4>3, <4>5
      <4> QED
        BY <4>4, <4>6 DEF CertBounds, FineLists
    <3> QED
      BY <1>6, <3>1, <3>2, <3>3 DEF Tokens!DaemonAnswers
  <2> QED
    BY <1>6, <2>1, <2>2 DEF Tokens!DaemonAnswers, CertBounds
<1>7. ASSUME NEW k \in DOMAIN dialogs, Tokens!ListViewFill(k)
      PROVE  CertBounds'
  <2>1. CASE ~certs.filled
    <3>1. UNCHANGED <<token, question, answers, asks, retries, dialogs>> /\ Tokens!ListUpdate
      BY <1>7, <2>1 DEF Tokens!ListViewFill
    <3>2. requests' \in Seq(FineRequests)
      <4>1. <<"count", 0>> \in FineRequests
        BY DEF FineRequests
      <4>2. /\ requests \in Seq(FineRequests)
            /\ [i \in 1 .. certs.count |-> Tokens!Get(i - 1)] \in Seq(FineRequests)
        BY FineEntries DEF CertBounds
      <4>3. \/ requests' = requests
            \/ requests' = Append(requests, <<"count", 0>>)
            \/ requests' = requests \o [i \in 1 .. certs.count |-> Tokens!Get(i - 1)]
        BY <3>1 DEF Tokens!ListUpdate
      <4> DEFINE m == [i \in 1 .. certs.count |-> Tokens!Get(i - 1)]
      <4> HIDE DEF m
      <4>4. m \in Seq(FineRequests)
        BY <4>2 DEF m
      <4>5. requests \o m \in Seq(FineRequests) /\ Append(requests, <<"count", 0>>) \in Seq(FineRequests)
        BY <4>1, <4>2, <4>4
      <4> QED
        BY <4>2, <4>3, <4>5 DEF m
    <3>3. certs' \in FineLists
      <4> DEFINE p == IF certs.pe = <<>> THEN [i \in 1 .. certs.count |-> Tokens!Empty] ELSE certs.pe
      <4>1. p \in Seq(Tokens!Entries)
        BY <1>c, FineEntries
      <4>2. \/ certs' = certs \/ certs' = [certs EXCEPT !.getCount = TRUE]
            \/ certs' = [certs EXCEPT !.getEntry = TRUE, !.pe = p]
        BY <3>1 DEF Tokens!ListUpdate
      <4> HIDE DEF p
      <4> QED
        BY <4>1, <4>2 DEF CertBounds, FineLists
    <3> QED
      BY <3>1, <3>2, <3>3 DEF CertBounds
  <2>2. CASE certs.filled
    <3> DEFINE r == Tokens!RowsOfList \o dialogs[k].rows
               b == certs.count > 0
               s == requests = <<>>
               d == [dialogs[k] EXCEPT !.timer = FALSE, !.retry = TRUE, !.ready = b, !.settled = s,
                                       !.rows = r]
    <3>1. r \in Seq(FineRows)
      <4>1. dialogs[k].rows \in Seq(FineRows)
        BY <1>d DEF FineDialogs
      <4> QED
        BY <4>1, FineEntries, ConcatProperties
    <3>2. b \in BOOLEAN /\ s \in BOOLEAN
      OBVIOUS
    <3>3. Tokens!SetDialog(k, d) /\ UNCHANGED <<token, question, answers, asks, retries, requests, certs>>
      BY <1>7, <2>2 DEF Tokens!ListViewFill
    <3> HIDE DEF r, b, s
    <3>4. d \in FineDialogs
      BY <3>1, <3>2, <1>d DEF FineDialogs
    <3> HIDE DEF d
    <3>5. dialogs' \in Seq(FineDialogs)
      BY <3>3, <3>4, <1>s
    <3> QED
      BY <3>3, <3>5 DEF CertBounds
  <2> QED
    BY <2>1, <2>2
<1>8. ASSUME NEW k \in DOMAIN dialogs, Tokens!Pick(k)
      PROVE  CertBounds'
  <2>1. PICK i \in DOMAIN dialogs[k].rows :
          /\ certs' = [certs EXCEPT !.selected = dialogs[k].rows[i].at, !.picked = TRUE]
          /\ Tokens!SetDialog(k, [Tokens!End(dialogs[k], "ok")
                                    EXCEPT !.chosen = dialogs[k].rows[i].entry])
    BY <1>8, Zenon DEF Tokens!Pick
  <2>2. dialogs[k].rows[i] \in FineRows
    <3>1. dialogs[k].rows \in Seq(FineRows)
      BY <1>d DEF FineDialogs
    <3> QED
      BY <3>1
  <2>3. dialogs[k].rows[i].at \in 0 .. MaxCerts /\ dialogs[k].rows[i].entry \in Tokens!Entries
    BY <2>2, <1>n DEF FineRows, Tokens!Indices
  <2>4. certs' \in FineLists
    BY <2>1, <2>3 DEF CertBounds, FineLists
  <2>5. [Tokens!End(dialogs[k], "ok") EXCEPT !.chosen = dialogs[k].rows[i].entry] \in FineDialogs
    BY <2>3, <1>d DEF FineDialogs, Tokens!End
  <2>6. dialogs' \in Seq(FineDialogs)
    BY <2>1, <2>5, <1>s
  <2> QED
    BY <1>8, <2>4, <2>6 DEF Tokens!Pick, CertBounds
<1>9. ASSUME NEW k \in DOMAIN dialogs, Tokens!Cancel(k)
      PROVE  CertBounds'
  <2>1. Tokens!End(dialogs[k], "cancel") \in FineDialogs
    BY <1>d DEF Tokens!End, FineDialogs
  <2>2. dialogs' \in Seq(FineDialogs)
    BY <1>9, <2>1, <1>s DEF Tokens!Cancel
  <2> QED
    BY <1>9, <2>2, <1>n DEF Tokens!Cancel, CertBounds
<1>10. ASSUME NEW k \in DOMAIN dialogs, Tokens!Retry(k)
       PROVE  CertBounds'
  <2>1. [dialogs[k] EXCEPT !.timer = TRUE, !.ready = FALSE, !.retry = FALSE, !.rows = <<>>] \in FineDialogs
    <3>1. <<>> \in Seq(FineRows)
      OBVIOUS
    <3> QED
      BY <3>1, <1>d DEF FineDialogs
  <2>2. dialogs' \in Seq(FineDialogs)
    BY <1>10, <2>1, <1>s DEF Tokens!Retry
  <2>3. retries' \in 0 .. MaxRetries
    BY <1>10, <1>n DEF Tokens!Retry, CertBounds
  <2> QED
    BY <1>10, <2>2, <2>3, FineCleared DEF Tokens!Retry, CertBounds
<1> QED
  BY <1>1, <1>2, <1>3, <1>4, <1>5, <1>6, <1>7, <1>8, <1>9, <1>10 DEF Tokens!Next, Tokens!User

\* They hold at first.
LEMMA CertBoundsInit == Tokens!Init => CertBounds
<1>1. <<>> \in Seq(FineRequests) /\ <<>> \in Seq(FineDialogs) /\ <<>> \in Seq(FineAnswers)
  OBVIOUS
<1>n. MaxAsks \in Nat
  BY DesktopAssumption, Zenon DEF DesktopAssumption
<1>2. 0 \in 0 .. MaxAsks
  BY <1>n
<1>3. 0 \in 0 .. MaxRetries
  BY BoundsAssumption DEF BoundsAssumption
<1> QED
  BY <1>1, <1>2, <1>3, FineCleared DEF Tokens!Init, CertBounds

\* They are the types of Pkcs11.
LEMMA CertTyped == CertBounds => Tokens!TypeOK
<1> SUFFICES ASSUME CertBounds
             PROVE  Tokens!TypeOK
  OBVIOUS
<1>1. /\ \A j \in DOMAIN requests : requests[j] \in FineRequests
      /\ \A k \in DOMAIN dialogs : dialogs[k] \in FineDialogs
      /\ \A j \in DOMAIN answers : answers[j] \in FineAnswers
  BY DEF CertBounds
<1>2. /\ certs.pe \in Seq(Tokens!Entries) /\ certs.count \in 0 .. MaxCerts
      /\ certs.selected \in 0 .. MaxCerts
      /\ {certs.getCount, certs.getEntry, certs.filled, certs.picked} \subseteq BOOLEAN
  BY DEF CertBounds, FineLists
<1>3. \A d \in FineDialogs :
         /\ {d.open, d.timer, d.ready, d.retry, d.settled} \subseteq BOOLEAN
         /\ d.rows \in Seq(FineRows) /\ d.chosen \in Tokens!Entries
         /\ d.result \in {"none", "ok", "cancel", "state"}
  BY DEF FineDialogs
<1>4. /\ token \in Tokens!Tokens /\ question \in 0 .. MaxAsks
      /\ asks \in 0 .. MaxAsks /\ retries \in 0 .. MaxRetries
  BY DEF CertBounds
<1> QED
  BY <1>1, <1>2, <1>3, <1>4, Zenon DEF Tokens!TypeOK, FineRows, FineRequests, FineAnswers

\* Answers are of the types the daemon knows.
ProxyBounds ==
    /\ spinning \in BOOLEAN /\ pageEdits \in 0 .. MaxPageEdits
    /\ \A i \in DOMAIN told : told[i].type \in {"NONE", "HTTP", "SOCKS"}

\* A step of the settings keeps them.
LEMMA ProxyBoundsStep ==
    ASSUME ProxyInv, ProxyBounds, Proxies!Next \/ UNCHANGED proxyVars
    PROVE  ProxyBounds'
<1>1. pageEdits' \in 0 .. MaxPageEdits
  <2>1. pageEdits' = pageEdits \/ (pageEdits < MaxPageEdits /\ pageEdits' = pageEdits + 1)
    BY Zenon DEF proxyVars, Proxies!Next, Proxies!Open, Proxies!Apply, Proxies!Cancel, Proxies!Restart,
           Proxies!PickSource, Proxies!PickType, Proxies!TypeField, Proxies!OnProxy, Proxies!Editing
  <2> QED
    BY <2>1, BoundsAssumption DEF BoundsAssumption, ProxyBounds
<1>2. CASE UNCHANGED told
  <2>1. spinning' = spinning \/ spinning' \in BOOLEAN
    BY Zenon DEF proxyVars, Proxies!Next, Proxies!Open, Proxies!Apply, Proxies!Cancel, Proxies!Restart,
           Proxies!PickSource, Proxies!PickType, Proxies!TypeField, Proxies!OnProxy
  <2> QED
    BY <1>1, <1>2, <2>1 DEF ProxyBounds
<1>3. ASSUME NEW proto \in Proxies!Protocols, NEW l, Proxies!OnProxy(proto, l), told' # told
      PROVE  ProxyBounds'
  <2> DEFINE a == Proxies!Answer(proto, l)
             t == [proto |-> proto, type |-> a.type, field |-> a.field, source |-> opts.source]
  <2>1. a.type # "endless" /\ told' = Append(told, t) /\ UNCHANGED spinning
    BY <1>3 DEF Proxies!OnProxy
  <2>2. a.type \in {"NONE", "HTTP", "SOCKS"}
    BY <2>1 DEF Proxies!Answer, Proxies!ParseProxyString
  <2>3. t.type = a.type
    OBVIOUS
  <2> HIDE DEF t, a
  <2>4. PICK S : told \in Seq(S)
    BY DEF ProxyInv
  <2>5. \A i \in DOMAIN told' : (i \in DOMAIN told /\ told'[i] = told[i]) \/ told'[i] = t
    BY <2>1, <2>4
  <2> QED
    BY <1>1, <2>1, <2>2, <2>3, <2>5 DEF ProxyBounds
<1> QED
  BY <1>2, <1>3, Zenon DEF proxyVars, Proxies!Next, Proxies!Open, Proxies!Apply, Proxies!Cancel,
     Proxies!Restart, Proxies!PickSource, Proxies!PickType, Proxies!TypeField

\* With the invariant they give the types of Proxy.
LEMMA ProxyTyped == ProxyInv /\ ProxyBounds => Proxies!TypeOK
<1> SUFFICES ASSUME ProxyInv, ProxyBounds
             PROVE  Proxies!TypeOK
  OBVIOUS
<1>1. \A i \in DOMAIN page : page[i] \in Controls
  BY DEF ProxyInv
<1> QED
  BY <1>1 DEF ProxyInv, ProxyBounds, Proxies!TypeOK, Controls

\* They hold at first.
LEMMA ProxyBoundsInit == Proxies!Init => ProxyBounds
<1> SUFFICES ASSUME Proxies!Init
             PROVE  ProxyBounds
  OBVIOUS
<1>1. 0 \in 0 .. MaxPageEdits
  BY BoundsAssumption DEF BoundsAssumption
<1>2. told = <<>> /\ DOMAIN told = 1 .. 0
  <2>1. <<>> \in Seq(Nat) /\ Len(<<>>) = 0
    OBVIOUS
  <2>2. told = <<>>
    BY Zenon DEF Proxies!Init
  <2> QED
    BY <2>1, <2>2
<1>3. spinning = FALSE /\ pageEdits = 0
  BY Zenon DEF Proxies!Init
<1>4. DOMAIN told = {}
  BY <1>2
<1> QED
  BY ONLY <1>1, <1>3, <1>4 DEF ProxyBounds

\* A script got a block of entries.
EnvBounds == ran \in Seq(Env!Entries) /\ echoes \in 0 .. MaxEcho

\* A step of the environment keeps them: a merged block holds entries.
LEMMA EnvBoundsStep ==
    ASSUME EnvInv, EnvBounds, Env!Next \/ UNCHANGED envVars
    PROVE  EnvBounds'
<1>1. echoes' \in 0 .. MaxEcho
  <2>1. echoes' = echoes \/ (echoes < MaxEcho /\ echoes' = echoes + 1)
    BY DEF envVars, Env!Next, Env!SetEnv, Env!UnsetEnv, Env!IllegalName, Env!RunConnectScript,
           Env!RunDisconnectScript, Env!Cleanup, Env!Echoed
  <2> QED
    BY <2>1, BoundsAssumption DEF BoundsAssumption, EnvBounds
<1>2. CASE Env!RunConnectScript
  <2>1. /\ es \in Seq(Env!Items) /\ Ordered(es) /\ process \in Seq(Env!Entries) /\ Ordered(process)
        /\ EnvAssumption
    BY EnvAssumption DEF EnvInv, EnvHolds
  <2>2. Merged(Env!Merge(es, process), es, process, 1, 1)
    BY <2>1, MergeGood DEF Fit
  <2>3. Env!Merge(es, process) \in Seq(Env!Entries)
    BY <2>2, Zenon DEF Merged
  <2>4. ran' = process \/ ran' = Env!Merge(es, process)
    BY <1>2, Zenon DEF Env!RunConnectScript
  <2> QED
    BY <1>1, <2>1, <2>3, <2>4, Zenon DEF EnvBounds
<1>3. CASE Env!RunDisconnectScript
  <2>1. ran' = process /\ process \in Seq(Env!Entries)
    BY <1>3, Zenon DEF Env!RunDisconnectScript, EnvInv
  <2> QED
    BY <1>1, <2>1, Zenon DEF EnvBounds
<1>4. CASE ~Env!RunConnectScript /\ ~Env!RunDisconnectScript
  <2>1. ran' = ran
    BY <1>4 DEF envVars, Env!Next, Env!SetEnv, Env!UnsetEnv, Env!IllegalName, Env!Cleanup
  <2> QED
    BY <1>1, <2>1, Zenon DEF EnvBounds
<1> QED
  BY <1>2, <1>3, <1>4

\* With the invariant they give the types of EnvSet.
LEMMA EnvTyped == EnvInv /\ EnvBounds => Env!TypeOK
BY Zenon DEF EnvInv, EnvHolds, EnvBounds, Env!TypeOK

\* They hold at first.
LEMMA EnvBoundsInit == Env!Init => EnvBounds
<1>1. 0 \in 0 .. MaxEcho /\ <<>> \in Seq(Env!Entries)
  <2>1. MaxEcho \in Nat
    BY BoundsAssumption DEF BoundsAssumption
  <2> QED
    BY ONLY <2>1
<1> QED
  BY <1>1 DEF Env!Init, EnvBounds

\* The invariant of the imports says the types.
LEMMA ImportTyped == ImportInv => Imports!TypeOK
BY DEF ImportInv, ImportTypes, ImportJobs, ImportStages, Imports!TypeOK, Imports!None

\* The invariant of the menus says the types.
LEMMA MenuTyped == MenuInv => Menus!TypeOK
<1> SUFFICES ASSUME MenuInv
             PROVE  Menus!TypeOK
  OBVIOUS
<1>1. profiles \in Seq(ListEntries) /\ DOMAIN profiles = 1 .. Len(profiles)
  BY DEF MenuInv, FineList
<1>2. \A i \in DOMAIN profiles : profiles[i] \in ListEntries
  BY <1>1
<1>3. \A g \in Menus!Dirs : Menus!ToSet(menu[g]) \subseteq ItemsOfList(profiles)
  <2>1. \A g \in Menus!Dirs : menu[g] \in Seq(ItemsOfList(profiles))
    BY DEF MenuInv, MenuTypes
  <2> QED
    BY <2>1 DEF Menus!ToSet
<1>4. pos \in Seq(Nat) /\ Len(pos) <= Len(profiles)
  <2>1. pos \in Seq(Nat) /\ Len(pos) = Len(profiles)
    BY DEF MenuInv, MenuTypes
  <2> QED
    BY <2>1
<1> QED
  BY <1>1, <1>2, <1>3, <1>4
     DEF MenuInv, MenuTypes, Menus!TypeOK, ListEntries, ItemsOfList

\* The bounds hold with the invariants.
LEMMA BoundsKept ==
    Spec => [](PlapRest /\ EchoBounds /\ CertBounds /\ ProxyBounds /\ EnvBounds /\ which \in Components)
<1> DEFINE Inv == PlapInv /\ EchoInv /\ ProxyInv /\ EnvInv
           All == PlapRest /\ EchoBounds /\ CertBounds /\ ProxyBounds /\ EnvBounds /\ which \in Components
<1>1. Init => All
  <2> SUFFICES ASSUME Init
               PROVE  All
    OBVIOUS
  <2>1. /\ Plap!Init /\ Messages!Init /\ Tokens!Init /\ Proxies!Init /\ Env!Init
        /\ which \in Components
    BY Zenon DEF Init
  <2> QED
    BY <2>1, PlapRestInit, EchoBoundsInit, CertBoundsInit, ProxyBoundsInit, EnvBoundsInit, Zenon
<1>2. Inv /\ All /\ [Next]_vars => All'
  <2> SUFFICES ASSUME Inv, All, [Next]_vars
               PROVE  All'
    OBVIOUS
  <2>1. /\ Plap!Next \/ UNCHANGED plapVars
        /\ Messages!Next \/ UNCHANGED echoVars
        /\ Tokens!Next \/ UNCHANGED tokenVars
        /\ Proxies!Next \/ UNCHANGED proxyVars
        /\ Env!Next \/ UNCHANGED envVars
        /\ UNCHANGED which
    BY DEF Next, vars, PlapStep, ObjectsStep, MenusStep, StartingStep, TokensStep, MessagesStep,
           EnvStep, ProxiesStep, ImportsStep, ReaderStep
  <2>2. PlapRest'
    BY <2>1, PlapRestStep, Zenon DEF PlapInv
  <2>3. EchoBounds'
    BY <2>1, EchoBoundsStep, Zenon
  <2>4. CertBounds'
    BY <2>1, CertBoundsStep, Zenon
  <2>5. ProxyBounds'
    BY <2>1, ProxyBoundsStep, Zenon
  <2>6. EnvBounds'
    BY <2>1, EnvBoundsStep, Zenon
  <2> QED
    BY <2>1, <2>2, <2>3, <2>4, <2>5, <2>6, Zenon
<1>3. Spec => []Inv
  BY PlapKept, EchoKept, ProxyKept, EnvKept, PTL
<1> HIDE DEF Inv, All
<1>4. Spec => []All
  BY <1>1, <1>2, <1>3, PTL DEF Spec
<1> QED
  BY <1>4 DEF All

-----------------------------------------------------------------------------
(* PlapObjects, MgmtReader and Launch: what is proved of them alone holds here. *)

ObjectsP == INSTANCE PlapObjects_proofs WITH
                Overlap <- FALSE, Faults <- TRUE, semaphore <- oSemaphore
ReaderP == INSTANCE MgmtReader_proofs WITH MaxLines <- MaxUnread, up <- linkUp
StartingP == INSTANCE Launch_proofs

\* The objects of the client run as those of PlapObjects alone.
LEMMA ObjectsRun == Spec => ObjectsP!Spec
<1>1. Init => ObjectsP!Init
  BY Zenon DEF Init, ObjectsP!Init, Objects!Init, ObjectsP!Objects, Objects!Objects, ObjectsP!Tiles,
               Objects!Tiles
<1>2. [Next]_vars => [ObjectsP!Next]_(ObjectsP!vars)
  <2>1. [Next]_vars => Objects!Next \/ UNCHANGED objectVars
    BY DEF Next, vars, PlapStep, ObjectsStep, MenusStep, StartingStep, TokensStep, MessagesStep,
           EnvStep, ProxiesStep, ImportsStep, ReaderStep
  <2>2. Objects!Next => ObjectsP!Next
    BY Zenon DEF ObjectsP!Next, Objects!Next, ObjectsP!ReleaseTile, Objects!ReleaseTile,
                 ObjectsP!uiVars, Objects!uiVars, ObjectsP!GetCredentialAt, Objects!GetCredentialAt,
                 ObjectsP!ReleaseProvider, Objects!ReleaseProvider, ObjectsP!FreeProvider,
                 Objects!FreeProvider, ObjectsP!DeleteUI, Objects!DeleteUI, ObjectsP!Tiles,
                 Objects!Tiles, ObjectsP!TilesOf, Objects!TilesOf, ObjectsP!Objects,
                 Objects!Objects, ObjectsP!SetUsageScenario, Objects!SetUsageScenario,
                 ObjectsP!ListedProfiles, Objects!ListedProfiles, ObjectsP!UIFails, Objects!UIFails,
                 ObjectsP!SecondUI, Objects!SecondUI, ObjectsP!FirstUI, Objects!FirstUI,
                 ObjectsP!clientVars, Objects!clientVars, ObjectsP!AddRefProvider,
                 Objects!AddRefProvider, ObjectsP!CreateInstance, Objects!CreateInstance,
                 ObjectsP!Alive, Objects!Alive, ObjectsP!LockServer, Objects!LockServer,
                 ObjectsP!objectVars, Objects!objectVars, ObjectsP!ReleaseFactory,
                 Objects!ReleaseFactory, ObjectsP!DllGetClassObject, Objects!DllGetClassObject,
                 ObjectsP!Cardinality, Objects!Cardinality
  <2>3. UNCHANGED objectVars => UNCHANGED ObjectsP!vars
    BY DEF objectVars, ObjectsP!vars, ObjectsP!uiVars, ObjectsP!objectVars, ObjectsP!clientVars
  <2> QED
    BY <2>1, <2>2, <2>3
<1> QED
  BY <1>1, <1>2, PTL DEF Spec, ObjectsP!Spec

\* The client of the provider finds alive what it holds, and the dll loaded, whatever it
\* releases and in which order (plap_dll.c, plap_provider.c).
THEOREM ClientIsCounted == Spec => []ObjectsAreCounted
<1>1. ObjectsP!ObjectsAreCounted => ObjectsAreCounted
  BY Zenon DEF ObjectsAreCounted, ObjectsP!ObjectsAreCounted, Objects!ObjectsAreCounted,
               ObjectsP!TilesHaveProfiles, Objects!TilesHaveProfiles, ObjectsP!Alive, Objects!Alive,
               ObjectsP!UnloadIsSafe, Objects!UnloadIsSafe, ObjectsP!Objects, Objects!Objects,
               ObjectsP!Tiles, Objects!Tiles, ObjectsP!HeldIsAlive, Objects!HeldIsAlive,
               ObjectsP!InArray, Objects!InArray, ObjectsP!Cardinality, Objects!Cardinality
<1>2. ObjectsP!ObjectsAssumption
  BY DesktopAssumption, Zenon
     DEF DesktopAssumption, ObjectsP!ObjectsAssumption, ObjectsP!Tiles, Objects!Tiles,
         ObjectsP!IsFiniteSet, IsFiniteSet
<1>3. ObjectsP!Spec => []ObjectsP!ObjectsAreCounted
  BY <1>2, ObjectsP!Counted
<1> QED
  BY <1>1, <1>3, ObjectsRun, PTL

\* The reader runs as MgmtReader alone.
LEMMA ReaderRuns == Spec => ReaderP!Spec
<1>1. Init => ReaderP!Init
  BY Zenon DEF Init, ReaderP!Init, Reader!Init
<1>2. [Next]_vars => [ReaderP!Next]_(ReaderP!vars)
  <2>1. [Next]_vars => Reader!Next \/ UNCHANGED readerVars
    BY DEF Next, vars, PlapStep, ObjectsStep, MenusStep, StartingStep, TokensStep, MessagesStep,
           EnvStep, ProxiesStep, ImportsStep, ReaderStep
  <2>2. Reader!Next => ReaderP!Next
    BY Zenon DEF ReaderP!Next, Reader!Next, ReaderP!WriteLast, Reader!WriteLast, ReaderP!WriteFirst,
                 Reader!WriteFirst, ReaderP!ManagementCommand, Reader!ManagementCommand,
                 ReaderP!OpenManagement, Reader!OpenManagement, ReaderP!CloseManagement,
                 Reader!CloseManagement, ReaderP!Cut, Reader!Cut, ReaderP!MidAnswer,
                 Reader!MidAnswer, ReaderP!MidLine, Reader!MidLine, ReaderP!Pumping, Reader!Pumping,
                 ReaderP!SaveRest, Reader!SaveRest, ReaderP!Ends, Reader!Ends, ReaderP!daemonVars,
                 Reader!daemonVars, ReaderP!HandlerReturns, Reader!HandlerReturns,
                 ReaderP!HandleLine, Reader!HandleLine, ReaderP!FdRead, Reader!FdRead
  <2>3. UNCHANGED readerVars => UNCHANGED ReaderP!vars
    BY DEF readerVars, ReaderP!vars
  <2> QED
    BY <2>1, <2>2, <2>3
<1> QED
  BY <1>1, <1>2, PTL DEF Spec, ReaderP!Spec

\* Lines are read whole, once and in order, and so are answers, at any depth of nested
\* reads, unless one met a cut line or answer (OnManagement).
THEOREM LinesAreRead == Spec => []ReadsLines
<1>1. ReaderP!ReadsLines => ReadsLines
  BY Zenon DEF ReadsLines, ReaderP!ReadsLines, Reader!ReadsLines, ReaderP!NothingLost,
               Reader!NothingLost, ReaderP!AnswersInOrder, Reader!AnswersInOrder,
               ReaderP!LinesWhole, Reader!LinesWhole, ReaderP!WholeLine, Reader!WholeLine
<1>2. ReaderP!ReaderAssumption
  BY DesktopAssumption, Zenon DEF DesktopAssumption, ReaderP!ReaderAssumption
<1>3. ReaderP!Spec => []ReaderP!ReadsLines
  BY <1>2, ReaderP!ReadsAllLines
<1> QED
  BY <1>1, <1>3, ReaderRuns, PTL

\* The launch runs as Launch alone.
LEMMA LaunchRuns == Spec => StartingP!Spec
<1>1. Init => StartingP!Init
  BY Zenon DEF Init, StartingP!Init, Starting!Init
<1>2. [Next]_vars => [StartingP!Next]_(StartingP!vars)
  <2>1. [Next]_vars => Starting!Next \/ UNCHANGED launchVars
    BY DEF Next, vars, PlapStep, ObjectsStep, MenusStep, StartingStep, TokensStep, MessagesStep,
           EnvStep, ProxiesStep, ImportsStep, ReaderStep
  <2>2. Starting!Next => StartingP!Next
    BY Zenon DEF StartingP!Next, Starting!Next, StartingP!External, Starting!External,
                 StartingP!DaemonExits, Starting!DaemonExits, StartingP!others, Starting!others,
                 StartingP!eventVars, Starting!eventVars, StartingP!startVars, Starting!startVars,
                 StartingP!ServiceStops, Starting!ServiceStops, StartingP!ServiceHangsUp,
                 Starting!ServiceHangsUp, StartingP!Says, Starting!Says, StartingP!ServiceAnswers,
                 Starting!ServiceAnswers, StartingP!StatusThread, Starting!StatusThread,
                 StartingP!BoxDone, Starting!BoxDone, StartingP!Cleanup, Starting!Cleanup,
                 StartingP!msgVars, Starting!msgVars, StartingP!setupVars, Starting!setupVars,
                 StartingP!StopTimeout, Starting!StopTimeout, StartingP!OnStop, Starting!OnStop,
                 StartingP!FdClose, Starting!FdClose, StartingP!Connected, Starting!Connected,
                 StartingP!pipeVars, Starting!pipeVars, StartingP!FdConnect, Starting!FdConnect,
                 StartingP!OnProcess, Starting!OnProcess, StartingP!OnService, Starting!OnService,
                 StartingP!HandleMessage, Starting!HandleMessage, StartingP!CanRead,
                 Starting!CanRead, StartingP!ReadCompletes, Starting!ReadCompletes,
                 StartingP!ThreadStarts, Starting!ThreadStarts, StartingP!Disconnect,
                 Starting!Disconnect, StartingP!AuthorizeAnswered, Starting!AuthorizeAnswered,
                 StartingP!Launch, Starting!Launch, StartingP!LaunchDirectly,
                 Starting!LaunchDirectly, StartingP!LaunchFails, Starting!LaunchFails,
                 StartingP!Resume, Starting!Resume, StartingP!LaunchByService,
                 Starting!LaunchByService, StartingP!StartOpenVPN, Starting!StartOpenVPN,
                 StartingP!Authorized, Starting!Authorized
  <2>3. UNCHANGED launchVars => UNCHANGED StartingP!vars
    BY DEF launchVars, StartingP!vars, StartingP!msgVars, StartingP!pipeVars, StartingP!eventVars,
           StartingP!startVars, StartingP!setupVars
  <2> QED
    BY <2>1, <2>2, <2>3
<1> QED
  BY <1>1, <1>2, PTL DEF Spec, StartingP!Spec

\* What the service says of a launch is handled in the order it was sent, and a launch
\* that failed or ended leaves nothing behind (OnService, LaunchOpenVPN, Cleanup).
THEOREM LaunchesAreClean == Spec => []LaunchIsClean
<1>1. StartingP!LaunchIsClean => LaunchIsClean
  BY Zenon DEF LaunchIsClean, StartingP!LaunchIsClean, Starting!LaunchIsClean,
               StartingP!NothingLeaks, Starting!NothingLeaks, StartingP!MessagesInOrder,
               Starting!MessagesInOrder, StartingP!IsPrefix, Starting!IsPrefix
<1>2. StartingP!Spec => []StartingP!LaunchIsClean
  BY StartingP!CleanLaunch
<1> QED
  BY <1>1, <1>2, LaunchRuns, PTL

-----------------------------------------------------------------------------
(* The types of all components *)

\* The types proved of PlapObjects.
LEMMA ObjectsTyped == Spec => []Objects!TypeOK
<1>1. ObjectsP!ObjectsAssumption
  BY DesktopAssumption, Zenon
     DEF DesktopAssumption, ObjectsP!ObjectsAssumption, ObjectsP!Tiles, Objects!Tiles,
         ObjectsP!IsFiniteSet, IsFiniteSet
<1>2. ObjectsP!Spec => []ObjectsP!TypeOK
  BY <1>1, ObjectsP!TypeCorrect
<1>3. ObjectsP!TypeOK => Objects!TypeOK
  BY Zenon DEF ObjectsP!TypeOK, Objects!TypeOK, ObjectsP!Objects, Objects!Objects, ObjectsP!Tiles,
               Objects!Tiles
<1> QED
  BY <1>2, <1>3, ObjectsRun, PTL

\* The types proved of MgmtReader.
LEMMA ReaderTyped == Spec => []Reader!TypeOK
<1>1. ReaderP!ReaderAssumption
  BY DesktopAssumption, Zenon DEF DesktopAssumption, ReaderP!ReaderAssumption
<1>2. ReaderP!Spec => []ReaderP!TypeOK
  BY <1>1, ReaderP!TypeCorrect
<1>3. ReaderP!TypeOK => Reader!TypeOK
  BY Zenon DEF ReaderP!TypeOK, Reader!TypeOK, ReaderP!Piece, Reader!Piece
<1> QED
  BY <1>2, <1>3, ReaderRuns, PTL

\* The types proved of Launch.
LEMMA LaunchTyped == Spec => []Starting!TypeOK
<1>1. MaxStarts \in Nat
  BY BoundsAssumption DEF BoundsAssumption
<1>2. StartingP!Spec => []StartingP!TypeOK
  BY <1>1, StartingP!TypeCorrect
<1>3. StartingP!TypeOK => Starting!TypeOK
  BY Zenon DEF StartingP!TypeOK, Starting!TypeOK, StartingP!Messages, Starting!Messages
<1> QED
  BY <1>2, <1>3, LaunchRuns, PTL

\* Every variable of every component has its type, for all bounds.
THEOREM TypeCorrect == Spec => []TypeOK
<1>1. PlapInv /\ PlapRest => Plap!TypeOK
  BY PlapTyped DEF PlapInv
<1>2. EchoInv /\ EchoBounds => Messages!TypeOK
  BY EchoTyped
<1>3. CertBounds => Tokens!TypeOK
  BY CertTyped
<1>4. ProxyInv /\ ProxyBounds => Proxies!TypeOK
  BY ProxyTyped
<1>5. EnvInv /\ EnvBounds => Env!TypeOK
  BY EnvTyped
<1>6. ImportInv => Imports!TypeOK
  BY ImportTyped
<1>7. MenuInv => Menus!TypeOK
  BY MenuTyped
<1>8. /\ which \in Components
      /\ Plap!TypeOK /\ Objects!TypeOK /\ Menus!TypeOK /\ Starting!TypeOK /\ Tokens!TypeOK
      /\ Messages!TypeOK /\ Env!TypeOK /\ Proxies!TypeOK /\ Imports!TypeOK /\ Reader!TypeOK
      => TypeOK
  BY Zenon DEF TypeOK
<1> QED
  BY <1>1, <1>2, <1>3, <1>4, <1>5, <1>6, <1>7, <1>8, PlapKept, EchoKept, ProxyKept, EnvKept,
     ImportKept, MenuKept, BoundsKept, ObjectsTyped, ReaderTyped, LaunchTyped, PTL
=================================================================================
