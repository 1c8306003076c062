---------------------------- MODULE Launch_proofs ----------------------------
(***************************************************************************)
(* A launch leaves nothing behind, and the messages of the service are     *)
(* acted upon in order, for any number of starts and of messages.          *)
(*                                                                         *)
(* NothingLeaks is not inductive: it says nothing of the moment the user   *)
(* is asked, when the event is open and the lock taken without a thread.   *)
(* LInv ties the lock and the event to that question, and says that the    *)
(* question is asked only while no thread lives.                           *)
(*                                                                         *)
(* MessagesInOrder is not inductive either: PipeInv says where each message*)
(* is that was sent and not acted upon, the one in the buffer or the rest  *)
(* in the pipe, and that no read is under way while the buffer is full.    *)
(***************************************************************************)
EXTENDS Launch, SequenceTheorems, TLAPS

Idle == pipe = "null" /\ hProcess = "null" /\ ~reading

\* Checked as an invariant before it was proved.
LInv ==
    /\ thread = "none" => Idle
    /\ asking => thread = "none"
    /\ asking \/ semaphore
    /\ thread = "none" /\ ~asking => exitEvent # "open"

\* LInv speaks of these variables only.
linvVars == <<thread, pipe, hProcess, reading, asking, semaphore, exitEvent>>

\* A step of the thread that ends it, or goes on with it, after a start.
LEMMA ThreadStep ==
    ASSUME LInv, thread # "none", UNCHANGED startVars,
           thread' # "none" \/ Cleanup
    PROVE  LInv'
<1>1. ~asking /\ semaphore
  BY DEF LInv
<1>2. asking' = asking /\ semaphore' = semaphore
  BY DEF startVars
<1>3. CASE thread' # "none"
  BY <1>1, <1>2, <1>3, Zenon DEF LInv
<1>4. CASE Cleanup
  BY <1>1, <1>2, <1>4, Zenon DEF LInv, Cleanup, Idle
<1> QED BY <1>3, <1>4

\* A launch, successful or not, with the lock free.
LEMMA LaunchStep ==
    ASSUME LInv, thread = "none", NEW a \in BOOLEAN, Launch(a),
           ~asking', semaphore'
    PROVE  LInv'
<1>1. CASE LaunchFails
  <2>1. thread' = "none" /\ Idle' /\ exitEvent' = "closed"
    BY <1>1, Zenon DEF LaunchFails, LInv, Idle
  <2> QED BY <2>1, Zenon DEF LInv
<1>2. CASE thread' = "starting"
  BY <1>2, Zenon DEF LInv
<1> QED
  BY <1>1, <1>2, Zenon DEF Launch, LaunchByService, LaunchDirectly, Resume

LEMMA OnStopEnds ==
    ASSUME OnStop
    PROVE  thread' # "none" \/ Cleanup
BY Zenon DEF OnStop

LEMMA ThreadActs ==
    ASSUME LInv, StatusThread
    PROVE  LInv'
<1>1. CASE ThreadStarts
  <2>1. thread # "none" /\ UNCHANGED startVars /\ (thread' # "none" \/ Cleanup)
    BY <1>1, Zenon DEF ThreadStarts
  <2> QED BY <2>1, ThreadStep
<1>2. CASE ReadCompletes \/ FdConnect \/ Connected
  <2>1. thread # "none" /\ UNCHANGED startVars /\ thread' # "none"
    BY <1>2, Zenon DEF ReadCompletes, FdConnect, Connected
  <2> QED BY <2>1, ThreadStep
<1>3. CASE OnService
  <2>1. thread # "none" /\ UNCHANGED startVars
    BY <1>3, Zenon DEF OnService
  <2>2. (UNCHANGED thread) \/ OnStop
    BY <1>3, Zenon DEF OnService, HandleMessage
  <2> QED BY <2>1, <2>2, OnStopEnds, ThreadStep
<1>4. CASE OnProcess \/ FdClose \/ StopTimeout
  <2>1. thread # "none" /\ (UNCHANGED startVars) /\ OnStop
    BY <1>4, Zenon DEF OnProcess, FdClose, StopTimeout
  <2> QED BY <2>1, OnStopEnds, ThreadStep
<1>5. CASE BoxDone
  <2>1. thread # "none" /\ (UNCHANGED startVars) /\ Cleanup
    BY <1>5, Zenon DEF BoxDone
  <2> QED BY <2>1, ThreadStep
<1> QED BY <1>1, <1>2, <1>3, <1>4, <1>5 DEF StatusThread

LEMMA ExternalActs ==
    ASSUME LInv, External
    PROVE  LInv'
<1>1. UNCHANGED <<thread, hProcess, reading, asking, semaphore>>
  BY Zenon DEF External, ServiceAnswers, ServiceHangsUp, ServiceStops, DaemonExits,
               others, startVars
<1>2. UNCHANGED exitEvent
  BY Zenon DEF External, ServiceAnswers, ServiceHangsUp, ServiceStops, DaemonExits,
               others, eventVars
<1>3. pipe = "null" => pipe' = "null"
  BY SMT DEF External, ServiceAnswers, ServiceHangsUp, ServiceStops, DaemonExits
<1> QED BY <1>1, <1>2, <1>3, Zenon DEF LInv, Idle

LEMMA LInvStep ==
    ASSUME LInv, [Next]_vars
    PROVE  LInv'
<1>1. CASE StartOpenVPN
  <2>1. thread = "none" /\ ~asking /\ semaphore
    BY <1>1, Zenon DEF StartOpenVPN, LInv
  <2>2. CASE Launch(Authorized) /\ UNCHANGED <<asking, semaphore>>
    BY <2>1, <2>2, LaunchStep DEF Authorized
  <2>3. CASE asking' = TRUE /\ UNCHANGED <<thread, pipeVars, hProcess>>
    BY <2>1, <2>3, Zenon DEF LInv, Idle, pipeVars
  <2> QED BY <1>1, <2>2, <2>3, Zenon DEF StartOpenVPN
<1>2. CASE AuthorizeAnswered
  <2>1. thread = "none" /\ ~asking' /\ semaphore'
    BY <1>2, Zenon DEF AuthorizeAnswered, LInv
  <2>2. PICK ok \in BOOLEAN : Launch(ok)
    BY <1>2, Zenon DEF AuthorizeAnswered
  <2> QED BY <2>1, <2>2, LaunchStep
<1>3. CASE Disconnect
  <2>1. thread # "none" /\ (UNCHANGED startVars) /\ thread' # "none"
    BY <1>3, Zenon DEF Disconnect
  <2> QED BY <2>1, ThreadStep
<1>4. CASE StatusThread
  BY <1>4, ThreadActs
<1>5. CASE External
  BY <1>5, ExternalActs
<1>6. CASE UNCHANGED vars
  <2>1. UNCHANGED linvVars
    BY <1>6, Zenon DEF vars, linvVars, startVars, eventVars, pipeVars
  <2> QED BY <2>1, Zenon DEF LInv, Idle, linvVars
<1> QED BY <1>1, <1>2, <1>3, <1>4, <1>5, <1>6, Zenon DEF Next

-----------------------------------------------------------------------------
(* The messages of the service *)

Said == {"pid", "error"}
PipeTypes ==
    /\ inPipe \in Seq(Said) /\ sent \in Seq(Messages) /\ handled \in Seq(Messages)
    /\ readDone => readbuf \in Messages

\* What was sent has been handled, is in the buffer, or still in the pipe.
Delivered ==
    IF ~readDone THEN handled \o inPipe = sent
    ELSE IF readbuf # "broken" THEN Append(handled, readbuf) \o inPipe = sent
    ELSE handled = sent /\ inPipe = <<>> /\ pipe = "broken"

Handled == IsPrefix(handled, sent) \/ (handled = Append(sent, "broken") /\ pipe # "open")

\* Checked as an invariant before it was proved.
PipeInv ==
    /\ PipeTypes /\ Handled
    /\ thread \in {"starting", "loop"} => Delivered
    /\ thread = "none" => inPipe = <<>> /\ pipe = "null"
    /\ thread \in {"none", "starting"} \/ reading => ~readDone

\* PipeInv speaks of these variables only.
pinvVars == <<thread, pipe, inPipe, reading, readDone, readbuf, sent, handled>>

LEMMA SaidAreMessages ==
    ASSUME NEW s \in Seq(Said)
    PROVE  s \in Seq(Messages)
<1>1. Len(s) \in Nat /\ \A i \in 1 .. Len(s) : s[i] \in Said
  OBVIOUS
<1>2. s \in [1 .. Len(s) -> Messages]
  BY <1>1 DEF Said, Messages
<1> QED BY <1>1, <1>2, SeqDef, ZenonT(40)

\* A sequence is a prefix of itself and what comes behind it.
LEMMA PrefixOfConcat ==
    ASSUME NEW S, NEW s \in Seq(S), NEW t \in Seq(S)
    PROVE  IsPrefix(s, s \o t)
<1>1. /\ Len(s) \in Nat /\ Len(t) \in Nat /\ Len(s \o t) = Len(s) + Len(t)
      /\ \A i \in 1 .. Len(s) : (s \o t)[i] = s[i]
  OBVIOUS
<1>2. SubSeq(s, 1, Len(s)) = SubSeq(s \o t, 1, Len(s))
  BY <1>1
<1>3. Len(s) <= Len(s \o t)
  BY <1>1
<1> QED BY <1>2, <1>3, Zenon DEF IsPrefix

LEMMA PrefixOfAppend ==
    ASSUME NEW S, NEW s \in Seq(S), NEW t \in Seq(S), NEW x \in S, IsPrefix(s, t)
    PROVE  IsPrefix(s, Append(t, x))
<1>1. /\ Len(s) \in Nat /\ Len(t) \in Nat /\ Len(s) <= Len(t)
      /\ SubSeq(s, 1, Len(s)) = SubSeq(t, 1, Len(s))
  BY Zenon, LenProperties DEF IsPrefix
<1>2. /\ Len(Append(t, x)) = Len(t) + 1
      /\ \A i \in 1 .. Len(t) : Append(t, x)[i] = t[i]
  OBVIOUS
<1>3. SubSeq(Append(t, x), 1, Len(s)) = SubSeq(t, 1, Len(s))
  BY <1>1, <1>2
<1>4. Len(s) <= Len(Append(t, x))
  BY <1>1, <1>2
<1> QED BY <1>1, <1>3, <1>4, Zenon DEF IsPrefix

\* The first of t moves behind s.
LEMMA HeadMoves ==
    ASSUME NEW S, NEW s \in Seq(S), NEW t \in Seq(S), t # <<>>
    PROVE  Append(s, Head(t)) \o Tail(t) = s \o t
<1>1. /\ Head(t) \in S /\ Tail(t) \in Seq(S) /\ t = <<Head(t)>> \o Tail(t)
      /\ <<Head(t)>> \in Seq(S)
  OBVIOUS
<1>2. Append(s, Head(t)) = s \o <<Head(t)>>
  BY <1>1
<1>3. (s \o <<Head(t)>>) \o Tail(t) = s \o (<<Head(t)>> \o Tail(t))
  <2>1. \A b, c \in Seq(S) : (s \o b) \o c = s \o (b \o c)
    BY ConcatAssociative, SMTT(30)
  <2> QED BY <1>1, <2>1, Zenon
<1> QED BY <1>1, <1>2, <1>3, Zenon

LEMMA AppendBehind ==
    ASSUME NEW S, NEW s \in Seq(S), NEW t \in Seq(S), NEW x \in S
    PROVE  s \o Append(t, x) = Append(s \o t, x)
OBVIOUS

LEMMA EmptyBehind ==
    ASSUME NEW S, NEW s \in Seq(S)
    PROVE  s \o <<>> = s
OBVIOUS

\* A thread that ends, or stops in a message box, with what it has handled.
LEMMA ThreadStops ==
    ASSUME PipeTypes, thread' = "box" \/ Cleanup, UNCHANGED sent, Handled',
           handled' \in Seq(Messages), thread' = "box" => inPipe' \in Seq(Said),
           thread' = "box" => (readDone' => readbuf' \in Messages) /\ (reading' => ~readDone')
    PROVE  PipeInv'
<1>1. CASE thread' = "box"
  BY <1>1, Zenon DEF PipeTypes, PipeInv
<1>2. CASE Cleanup
  <2>1. thread' = "none" /\ inPipe' = <<>> /\ ~readDone' /\ pipe' = "null"
    BY <1>2, Zenon DEF Cleanup
  <2>2. <<>> \in Seq(Said)
    OBVIOUS
  <2> QED BY <2>1, <2>2, Zenon DEF PipeTypes, PipeInv
<1> QED BY <1>1, <1>2

LEMMA PipeRests ==
    ASSUME PipeInv, UNCHANGED pinvVars
    PROVE  PipeInv'
BY Zenon DEF PipeInv, PipeTypes, Handled, Delivered, pinvVars

LEMMA PipeLaunch ==
    ASSUME PipeInv, thread = "none", NEW a \in BOOLEAN, Launch(a)
    PROVE  PipeInv'
<1>1. inPipe = <<>> /\ ~readDone
  BY Zenon DEF PipeInv
<1>2. CASE LaunchFails
  <2>1. /\ UNCHANGED <<inPipe, readDone, thread, reading, readbuf, sent, handled>>
        /\ pipe' = "null"
    BY <1>2, Zenon DEF LaunchFails, msgVars
  <2>2. Handled'
    BY <2>1, Zenon DEF PipeInv, Handled
  <2> QED BY <1>1, <2>1, <2>2, Zenon DEF PipeInv, PipeTypes
<1>3. ASSUME NEW how, Resume(how)
      PROVE  PipeInv'
  <2>1. /\ thread' = "starting" /\ sent' = <<>> /\ handled' = <<>>
        /\ UNCHANGED <<inPipe, readDone>>
    BY <1>3, Zenon DEF Resume
  <2>2. <<>> \in Seq(Messages) /\ <<>> \o <<>> = <<>> /\ IsPrefix(<<>>, <<>>)
    BY DEF IsPrefix
  <2> QED BY <1>1, <2>1, <2>2, Zenon DEF PipeInv, PipeTypes, Handled, Delivered
<1> QED BY <1>2, <1>3, Zenon DEF Launch, LaunchByService, LaunchDirectly

LEMMA PipeRead ==
    ASSUME PipeInv, ReadCompletes
    PROVE  PipeInv'
<1>1. /\ thread = "loop" /\ reading /\ ~readDone /\ handled \o inPipe = sent
      /\ ~reading' /\ readDone' /\ UNCHANGED <<thread, pipe, sent, handled>>
  BY Zenon DEF ReadCompletes, PipeInv, Delivered, msgVars
<1>2. /\ inPipe \in Seq(Messages) /\ handled \in Seq(Messages) /\ sent \in Seq(Messages)
      /\ Handled /\ inPipe \in Seq(Said)
  BY SaidAreMessages, Zenon DEF PipeInv, PipeTypes
<1>3. Handled'
  BY <1>1, <1>2, Zenon DEF Handled
<1>4. CASE inPipe # <<>> /\ readbuf' = Head(inPipe) /\ inPipe' = Tail(inPipe)
  <2>1. readbuf' \in Said /\ inPipe' \in Seq(Said)
    BY <1>2, <1>4, HeadTailProperties, Zenon
  <2>2. Append(handled', readbuf') \o inPipe' = sent'
    BY <1>1, <1>2, <1>4, HeadMoves, Zenon
  <2>3. readbuf' # "broken" /\ readbuf' \in Messages
    BY <2>1 DEF Said, Messages
  <2> QED BY <1>1, <1>2, <1>3, <2>1, <2>2, <2>3, Zenon DEF PipeInv, PipeTypes, Delivered
<1>5. CASE inPipe = <<>> /\ pipe = "broken" /\ readbuf' = "broken" /\ UNCHANGED inPipe
  <2>1. handled = sent
    BY <1>1, <1>2, <1>5, EmptyBehind, Zenon
  <2> QED BY <1>1, <1>2, <1>3, <1>5, <2>1, Zenon DEF PipeInv, PipeTypes, Delivered, Messages
<1> QED BY <1>4, <1>5, Zenon DEF ReadCompletes

\* OnService has copied the buffer: m is the next message, or the end of the pipe.
LEMMA PipeService ==
    ASSUME PipeInv, OnService
    PROVE  PipeInv'
<1>1. /\ thread = "loop" /\ readDone /\ UNCHANGED sent /\ HandleMessage(readbuf)
      /\ handled' = Append(handled, readbuf)
  BY Zenon DEF OnService, HandleMessage
<1>2. /\ inPipe \in Seq(Said) /\ inPipe \in Seq(Messages) /\ handled \in Seq(Messages)
      /\ sent \in Seq(Messages) /\ readbuf \in Messages /\ ~reading
  BY <1>1, SaidAreMessages, Zenon DEF PipeInv, PipeTypes
<1>3. handled' \in Seq(Messages)
  BY <1>1, <1>2, AppendProperties, Zenon
<1>4. CASE readbuf # "broken"
  <2>1. handled' \o inPipe = sent
    BY <1>1, <1>4, Zenon DEF PipeInv, Delivered
  <2>2. IsPrefix(handled', sent)
    BY <1>2, <1>3, <2>1, PrefixOfConcat, Zenon
  <2>3. Handled'
    BY <1>1, <2>2, Zenon DEF Handled
  <2>4. CASE readbuf = "pid"
    <3>1. ~readDone' /\ UNCHANGED <<thread, pipe, inPipe>>
      BY <1>1, <2>4, Zenon DEF HandleMessage
    <3> QED BY <1>1, <1>2, <1>3, <2>1, <2>3, <3>1, Zenon DEF PipeInv, PipeTypes, Delivered
  <2>5. CASE readbuf # "pid"
    <3>1. OnStop /\ (thread' # "none" => ~readDone')
      BY <1>1, <2>5, Zenon DEF HandleMessage
    <3>2. Cleanup \/ (thread' = "box" /\ inPipe' = inPipe)
      BY <3>1, Zenon DEF OnStop
    <3>3. thread' = "box" => ~readDone' /\ inPipe' \in Seq(Said)
      BY <1>2, <3>1, <3>2 DEF Cleanup
    <3>4. PipeTypes
      BY DEF PipeInv
    <3> QED BY <1>1, <1>3, <2>3, <3>2, <3>3, <3>4, ThreadStops, Zenon
  <2> QED BY <2>4, <2>5
<1>5. CASE readbuf = "broken"
  <2>1. handled' = Append(sent, "broken") /\ pipe = "broken"
    BY <1>1, <1>5, Zenon DEF PipeInv, Delivered
  <2>2. OnStop /\ (thread' # "none" => ~readDone')
    BY <1>1, <1>5 DEF HandleMessage
  <2>3. (Cleanup /\ pipe' = "null") \/ (thread' = "box" /\ inPipe' = inPipe /\ pipe' = pipe)
    BY <2>2, Zenon DEF OnStop, Cleanup
  <2>4. pipe' # "open"
    BY <2>1, <2>3
  <2>5. Handled'
    BY <1>1, <2>1, <2>4, Zenon DEF Handled
  <2>6. thread' = "box" => ~readDone' /\ inPipe' \in Seq(Said)
    BY <1>2, <2>2, <2>3 DEF Cleanup
  <2>7. PipeTypes
    BY DEF PipeInv
  <2> QED BY <1>1, <1>3, <2>3, <2>5, <2>6, <2>7, ThreadStops, Zenon
<1> QED BY <1>4, <1>5

\* A step that ends the thread for another reason.
LEMMA PipeStops ==
    ASSUME PipeInv, thread = "loop" \/ thread = "box", OnStop \/ Cleanup,
           thread' # "none" => UNCHANGED <<reading, readDone>>,
           UNCHANGED msgVars
    PROVE  PipeInv'
<1>1. UNCHANGED <<sent, handled>> /\ Handled /\ PipeTypes /\ (reading => ~readDone)
  BY Zenon DEF PipeInv, msgVars
<1>2. \/ Cleanup /\ pipe' = "null"
      \/ thread' = "box" /\ UNCHANGED <<reading, readDone, inPipe, pipe, readbuf>>
  <2>1. CASE thread' = "none"
    BY <2>1 DEF OnStop, Cleanup
  <2>2. CASE thread' # "none"
    BY <2>2, Zenon DEF OnStop, Cleanup
  <2> QED BY <2>1, <2>2
<1>3. Handled'
  <2>1. pipe # "open" => pipe' # "open"
    BY <1>2
  <2> QED BY <1>1, <2>1, Zenon DEF Handled
<1>4. /\ handled' \in Seq(Messages)
      /\ thread' = "box" => inPipe' \in Seq(Said) /\ (readDone' => readbuf' \in Messages)
      /\ thread' = "box" => (reading' => ~readDone')
  BY <1>1, <1>2 DEF PipeTypes, Cleanup
<1> QED BY <1>1, <1>2, <1>3, <1>4, ThreadStops, Zenon

LEMMA PipeThread ==
    ASSUME PipeInv, StatusThread
    PROVE  PipeInv'
<1>1. CASE ThreadStarts
  <2>1. thread = "starting" /\ UNCHANGED msgVars /\ ~readDone /\ UNCHANGED <<sent, handled>>
    BY <1>1, Zenon DEF ThreadStarts, PipeInv, msgVars
  <2>2. CASE thread' = "loop" /\ UNCHANGED <<pipe, inPipe, readDone, readbuf>>
    <3>1. Handled' /\ Delivered'
      BY <2>1, <2>2, Zenon DEF PipeInv, Handled, Delivered
    <3> QED BY <2>1, <2>2, <3>1 DEF PipeInv, PipeTypes
  <2>3. CASE Cleanup
    <3>1. pipe' = "null"
      BY <2>3 DEF Cleanup
    <3>2. Handled'
      BY <2>1, <3>1 DEF PipeInv, Handled
    <3>3. /\ thread' # "box"
          /\ handled' \in Seq(Messages) /\ PipeTypes
      BY <2>1, <2>3 DEF PipeInv, PipeTypes, Cleanup
    <3> QED BY <2>1, <2>3, <3>2, <3>3, ThreadStops, Zenon
  <2> QED BY <1>1, <2>2, <2>3, Zenon DEF ThreadStarts
<1>2. CASE ReadCompletes
  BY <1>2, PipeRead
<1>3. CASE OnService
  BY <1>3, PipeService
<1>4. CASE OnProcess \/ FdClose \/ StopTimeout
  <2>1. /\ thread = "loop" /\ OnStop /\ UNCHANGED msgVars
        /\ thread' # "none" => UNCHANGED <<reading, readDone>>
    BY <1>4, Zenon DEF OnProcess, FdClose, StopTimeout
  <2> QED BY <2>1, PipeStops
<1>5. CASE FdConnect \/ Connected
  <2>1. UNCHANGED pinvVars
    BY <1>5, Zenon DEF FdConnect, Connected, pinvVars, pipeVars, msgVars
  <2> QED BY <2>1, PipeRests
<1>6. CASE BoxDone
  <2>1. thread = "box" /\ Cleanup /\ (UNCHANGED msgVars) /\ thread' = "none"
    BY <1>6, Zenon DEF BoxDone, Cleanup
  <2> QED BY <2>1, PipeStops
<1> QED BY <1>1, <1>2, <1>3, <1>4, <1>5, <1>6 DEF StatusThread

\* The service sends a message, or the pipe breaks, or both.
LEMMA PipeExternal ==
    ASSUME PipeInv, External
    PROVE  PipeInv'
<1>1. UNCHANGED <<thread, reading, readDone, readbuf, handled>>
  BY Zenon DEF External, ServiceAnswers, ServiceHangsUp, ServiceStops, DaemonExits, others
<1>2. /\ inPipe \in Seq(Said) /\ inPipe \in Seq(Messages) /\ handled \in Seq(Messages)
      /\ sent \in Seq(Messages) /\ Handled /\ (readDone => readbuf \in Messages)
  BY SaidAreMessages, Zenon DEF PipeInv, PipeTypes
<1>3. pipe' = pipe \/ (pipe = "open" /\ pipe' = "broken")
  BY DEF External, ServiceAnswers, ServiceHangsUp, ServiceStops, DaemonExits
<1>4. CASE UNCHANGED <<inPipe, sent>>
  <2>1. Handled' /\ (thread \in {"starting", "loop"} => Delivered')
    BY <1>1, <1>3, <1>4 DEF PipeInv, Handled, Delivered
  <2>2. PipeTypes'
    BY <1>1, <1>2, <1>4, Zenon DEF PipeTypes
  <2>3. pipe = "null" => pipe' = "null"
    BY <1>3
  <2> QED BY <1>1, <1>4, <2>1, <2>2, <2>3, Zenon DEF PipeInv
<1>5. ASSUME NEW m \in Said, Says(m), pipe = "open"
      PROVE  PipeInv'
  <2>1. inPipe' = Append(inPipe, m) /\ sent' = Append(sent, m) /\ m \in Messages
    BY <1>5 DEF Says, Said, Messages
  <2>2. /\ inPipe' \in Seq(Said) /\ sent' \in Seq(Messages)
    BY <1>2, <1>5, <2>1, AppendProperties, Zenon
  <2>3. PipeTypes'
    BY <1>1, <1>2, <2>2, Zenon DEF PipeTypes
  <2>4. IsPrefix(handled, sent)
    BY <1>2, <1>5, Zenon DEF Handled
  <2>5. Handled'
    BY <1>1, <1>2, <2>1, <2>4, PrefixOfAppend, Zenon DEF Handled
  <2>6. ASSUME thread \in {"starting", "loop"}
        PROVE  Delivered'
    <3>1. Delivered /\ (readDone => readbuf # "broken")
      BY <1>5, <2>6 DEF PipeInv, Delivered
    <3>2. CASE ~readDone
      <4>1. handled \o inPipe = sent /\ m \in Messages
        BY <2>1, <3>1, <3>2 DEF Delivered
      <4>2. handled \o Append(inPipe, m) = Append(handled \o inPipe, m)
        BY <1>2, <4>1, AppendBehind
      <4> QED BY <1>1, <2>1, <3>2, <4>1, <4>2, Zenon DEF Delivered
    <3>3. CASE readDone
      <4>1. Append(handled, readbuf) \in Seq(Messages) /\ Append(handled, readbuf) \o inPipe = sent
        BY <1>2, <3>1, <3>3, AppendProperties, Zenon DEF Delivered
      <4> DEFINE h == Append(handled, readbuf)
      <4>2. h \o Append(inPipe, m) = Append(sent, m)
        <5> HIDE DEF h
        <5>1. m \in Messages /\ h \in Seq(Messages) /\ h \o inPipe = sent
          BY <2>1, <4>1 DEF h
        <5>2. \A t \in Seq(Messages) : h \o Append(t, m) = Append(h \o t, m)
          BY <5>1, AppendBehind
        <5> QED BY <1>2, <5>1, <5>2, Zenon
      <4> QED BY <1>1, <2>1, <3>1, <3>3, <4>2, Zenon DEF Delivered
    <3> QED BY <3>2, <3>3
  <2>7. thread # "none"
    BY <1>5 DEF PipeInv
  <2> QED BY <1>1, <2>3, <2>5, <2>6, <2>7, Zenon DEF PipeInv
<1>6. (UNCHANGED <<inPipe, sent>>) \/ (pipe = "open" /\ \E m \in Said : Says(m))
  <2>1. "pid" \in Said /\ "error" \in Said
    BY DEF Said
  <2> QED
    BY <2>1, Zenon DEF External, ServiceAnswers, ServiceHangsUp, ServiceStops, DaemonExits
<1> QED BY <1>4, <1>5, <1>6

LEMMA PipeStep ==
    ASSUME LInv, PipeInv, [Next]_vars
    PROVE  PipeInv'
<1>1. CASE StartOpenVPN
  <2>1. CASE Launch(Authorized)
    BY <1>1, <2>1, PipeLaunch DEF StartOpenVPN, Authorized
  <2>2. CASE UNCHANGED <<thread, pipeVars, msgVars>>
    BY <2>2, PipeRests, Zenon DEF pinvVars, pipeVars, msgVars
  <2> QED BY <1>1, <2>1, <2>2, Zenon DEF StartOpenVPN
<1>2. CASE AuthorizeAnswered
  <2>1. thread = "none"
    BY <1>2, Zenon DEF AuthorizeAnswered, LInv
  <2>2. PICK ok \in BOOLEAN : Launch(ok)
    BY <1>2, Zenon DEF AuthorizeAnswered
  <2> QED BY <2>1, <2>2, PipeLaunch
<1>3. CASE Disconnect
  BY <1>3, PipeRests, Zenon DEF Disconnect, pinvVars, pipeVars, msgVars
<1>4. CASE StatusThread
  BY <1>4, PipeThread
<1>5. CASE External
  BY <1>5, PipeExternal
<1>6. CASE UNCHANGED vars
  BY <1>6, PipeRests, Zenon DEF vars, pinvVars, pipeVars, msgVars
<1> QED BY <1>1, <1>2, <1>3, <1>4, <1>5, <1>6, Zenon DEF Next

-----------------------------------------------------------------------------
\* However often a profile is started, and wherever its launch fails, a thread that
\* is gone leaves no pipe, process handle, open event or lock (LaunchOpenVPN, Cleanup
\* and AuthorizeConfig).
THEOREM LeavesNothing == Spec => []NothingLeaks
<1>1. Init => LInv
  BY Zenon DEF Init, LInv, Idle
<1>2. LInv /\ [Next]_vars => LInv'
  BY LInvStep
<1>3. LInv => NothingLeaks
  BY Zenon DEF LInv, Idle, NothingLeaks
<1> QED BY <1>1, <1>2, <1>3, PTL DEF Spec

LEMMA PipeHolds == Spec => [](LInv /\ PipeInv)
<1>1. Init => PipeInv
  <2> SUFFICES ASSUME Init
               PROVE  PipeInv
    OBVIOUS
  <2>1. <<>> \in Seq(Messages) /\ <<>> \in Seq(Said) /\ IsPrefix(<<>>, <<>>)
    BY DEF IsPrefix
  <2>2. /\ inPipe = <<>> /\ sent = <<>> /\ handled = <<>> /\ pipe = "null" /\ ~readDone
        /\ thread = "none"
    BY Zenon DEF Init
  <2>3. thread \notin {"starting", "loop"}
    BY <2>2
  <2> QED BY <2>1, <2>2, <2>3, Zenon DEF PipeInv, PipeTypes, Handled
<1>2. Init => LInv
  BY Zenon DEF Init, LInv, Idle
<1>3. LInv /\ PipeInv /\ [Next]_vars => LInv' /\ PipeInv'
  BY LInvStep, PipeStep
<1> QED BY <1>1, <1>2, <1>3, PTL DEF Spec

\* For any number of starts and of messages, whatever the service says and whenever its
\* pipe breaks or a message box pumps: OnService acts on the messages in the order they
\* were sent, each once, and on the end of the pipe last; and nothing leaks.
THEOREM CleanLaunch == Spec => []LaunchIsClean
<1>1. LInv /\ PipeInv => LaunchIsClean
  <2> SUFFICES ASSUME LInv, PipeInv
               PROVE  LaunchIsClean
    OBVIOUS
  <2>1. NothingLeaks
    BY Zenon DEF LInv, Idle, NothingLeaks
  <2>2. handled \in Seq(Messages) /\ sent \in Seq(Messages) /\ "broken" \in Messages
    BY DEF PipeInv, PipeTypes, Messages
  <2>3. IsPrefix(handled, Append(sent, "broken"))
    <3>1. CASE IsPrefix(handled, sent)
      BY <2>2, <3>1, PrefixOfAppend, Zenon
    <3>2. CASE handled = Append(sent, "broken")
      <4>1. handled \o <<>> = handled /\ <<>> \in Seq(Messages)
        BY <2>2
      <4>2. IsPrefix(handled, handled \o <<>>)
        BY <2>2, <4>1, PrefixOfConcat, Zenon
      <4> QED BY <3>2, <4>1, <4>2, Zenon
    <3> QED BY <3>1, <3>2, Zenon DEF PipeInv, Handled
  <2> QED BY <2>1, <2>3, Zenon DEF LaunchIsClean, MessagesInOrder
<1> QED BY <1>1, PipeHolds, PTL

-----------------------------------------------------------------------------
(* Types *)

Settings == useService \in BOOLEAN /\ global \in BOOLEAN /\ member \in BOOLEAN /\ service \in BOOLEAN
Starts == asking \in BOOLEAN /\ semaphore \in BOOLEAN /\ starts \in 0 .. MaxStarts
States ==
    /\ state \in {"disconnected", "connecting", "connected", "disconnecting"}
    /\ thread \in {"none", "starting", "loop", "box"} /\ mgmt \in {"closed", "connecting", "up"}
Events == exitEvent \in {"null", "open", "closed"} /\ exitSet \in BOOLEAN /\ stopTimer \in BOOLEAN
Pipes ==
    /\ pipe \in {"null", "open", "broken"} /\ reading \in BOOLEAN /\ readDone \in BOOLEAN
    /\ readbuf \in Messages \cup {"none"}
Processes ==
    /\ hProcess \in {"null", "open"} /\ waitEvent \in {"service", "process"}
    /\ daemon \in {"none", "asked", "up", "gone"}
Scalars == Settings /\ Starts /\ States /\ Events /\ Pipes /\ Processes

LEMMA SetupTypes ==
    ASSUME MaxStarts \in Nat, Scalars, [Next]_vars
    PROVE  Settings' /\ Starts'
<1>1. CASE StartOpenVPN
  <2>1. starts < MaxStarts /\ starts' = starts + 1 /\ UNCHANGED setupVars
    BY <1>1, Zenon DEF StartOpenVPN
  <2>2. starts' \in 0 .. MaxStarts
    BY <2>1 DEF Scalars, Starts
  <2>3. asking' \in BOOLEAN /\ semaphore' \in BOOLEAN
    BY <1>1, Zenon DEF StartOpenVPN, Scalars, Starts
  <2> QED BY <2>1, <2>2, <2>3, Zenon DEF Scalars, Settings, Starts, setupVars
<1>2. CASE AuthorizeAnswered
  BY <1>2 DEF AuthorizeAnswered, Scalars, Settings, Starts
<1>3. CASE Disconnect \/ StatusThread \/ UNCHANGED vars
  <2>1. UNCHANGED <<setupVars, startVars>>
    BY <1>3, Zenon DEF Disconnect, StatusThread, ThreadStarts, ReadCompletes, OnService, OnProcess,
         FdConnect, Connected, FdClose, StopTimeout, BoxDone, vars
  <2> QED BY <2>1 DEF setupVars, startVars, Scalars, Settings, Starts
<1>4. CASE External
  <2>1. /\ UNCHANGED <<useService, global, member, startVars>>
        /\ service' = service \/ service' = FALSE
    BY <1>4, Zenon DEF External, ServiceAnswers, ServiceHangsUp, ServiceStops, DaemonExits, others
  <2> QED BY <2>1 DEF startVars, Scalars, Settings, Starts
<1> QED BY <1>1, <1>2, <1>3, <1>4 DEF Next

LEMMA CleanupTypes ==
    ASSUME Scalars, Cleanup
    PROVE  Events' /\ Pipes' /\ thread' = "none" /\ mgmt' = "closed" /\ hProcess' = "null"
BY DEF Cleanup, Scalars, Events, Pipes

\* What the state of the profile and the state of its thread become.
LEMMA OnStopTypes ==
    ASSUME Scalars, OnStop, reading' \in BOOLEAN, readDone' \in BOOLEAN
    PROVE  States' /\ Events' /\ Pipes' /\ hProcess' \in {"null", "open"}
<1>1. CASE state = "disconnecting"
  BY <1>1, CleanupTypes DEF OnStop, States
<1>2. CASE state # "disconnecting"
  BY <1>2 DEF OnStop, Scalars, States, Events, Pipes, Processes
<1> QED BY <1>1, <1>2

LEMMA LaunchTypes ==
    ASSUME Scalars, NEW a \in BOOLEAN, Launch(a)
    PROVE  (States /\ Pipes /\ Processes)' /\ exitEvent' \in {"open", "closed"} /\ UNCHANGED <<exitSet, stopTimer>>
<1>1. CASE LaunchFails
  BY <1>1 DEF LaunchFails, Scalars, States, Pipes, Processes
<1>2. CASE ~LaunchFails
  BY <1>2 DEF Launch, LaunchByService, LaunchDirectly, Resume, Scalars, States, Pipes, Processes
<1> QED BY <1>1, <1>2

LEMMA RunTypes ==
    ASSUME Scalars, PipeInv, [Next]_vars
    PROVE  (States /\ Events /\ Pipes /\ Processes)'
<1>1. CASE StartOpenVPN
  <2>1. CASE Launch(Authorized)
    BY <2>1, LaunchTypes DEF Authorized, Scalars, Events
  <2>2. CASE /\ exitEvent' = "open"
             /\ UNCHANGED <<state, thread, exitSet, stopTimer, pipeVars, hProcess, waitEvent, daemon, mgmt>>
    BY <2>2 DEF pipeVars, Scalars, States, Events, Pipes, Processes
  <2> QED BY <1>1, <2>1, <2>2, Zenon DEF StartOpenVPN
<1>2. CASE AuthorizeAnswered
  <2>1. PICK ok \in BOOLEAN : Launch(ok)
    BY <1>2, Zenon DEF AuthorizeAnswered
  <2> QED BY <2>1, LaunchTypes DEF Scalars, Events
<1>3. CASE Disconnect
  BY <1>3 DEF Disconnect, pipeVars, Scalars, States, Events, Pipes, Processes
<1>4. CASE ThreadStarts
  <2>1. CASE Cleanup
    BY <1>4, <2>1, CleanupTypes DEF ThreadStarts, Scalars, States, Processes
  <2>2. CASE ~Cleanup
    BY <1>4, <2>2 DEF ThreadStarts, eventVars, Scalars, States, Events, Pipes, Processes
  <2> QED BY <2>1, <2>2
<1>5. CASE ReadCompletes
  <2>1. readbuf' \in Messages
    BY <1>5, PipeRead, Zenon DEF PipeInv, PipeTypes, ReadCompletes
  <2>2. /\ reading' = FALSE /\ readDone' = TRUE
        /\ UNCHANGED <<state, thread, mgmt, exitEvent, exitSet, stopTimer, pipe, hProcess, waitEvent, daemon>>
    BY <1>5, Zenon DEF ReadCompletes, eventVars
  <2>3. Pipes'
    BY <2>1, <2>2, Zenon DEF Scalars, Pipes
  <2> QED BY <2>2, <2>3 DEF Scalars, States, Events, Processes
<1>6. CASE OnService
  <2>1. CASE OnStop
    <3>1. /\ HandleMessage(readbuf) /\ UNCHANGED <<waitEvent, daemon>>
          /\ CanRead \in BOOLEAN
      BY <1>6 DEF OnService, CanRead
    <3>2. reading' \in BOOLEAN /\ readDone' \in BOOLEAN
      <4>1. CASE readbuf = "pid"
        BY <3>1, <4>1, Zenon DEF HandleMessage
      <4>2. CASE readbuf # "pid"
        <5>1. thread' # "none" => reading' \in BOOLEAN /\ readDone' \in BOOLEAN
          BY <3>1, <4>2 DEF HandleMessage
        <5>2. thread' = "none" => reading' = FALSE /\ readDone' = FALSE
          BY <2>1 DEF OnStop, Cleanup
        <5> QED BY <5>1, <5>2
      <4> QED BY <4>1, <4>2
    <3> QED BY <2>1, <3>1, <3>2, OnStopTypes DEF Scalars, Processes
  <2>2. CASE ~OnStop
    <3>1. /\ hProcess' \in {"open", "null"} /\ reading' = CanRead /\ readDone' = FALSE
          /\ UNCHANGED <<state, thread, mgmt, eventVars, pipe, readbuf, waitEvent, daemon>>
      BY <1>6, <2>2, Zenon DEF OnService, HandleMessage
    <3>2. CanRead \in BOOLEAN
      BY DEF CanRead
    <3>3. Pipes'
      BY <3>1, <3>2, Zenon DEF Scalars, Pipes
    <3>4. (States /\ Events)'
      BY <3>1, Zenon DEF eventVars, Scalars, States, Events
    <3>5. Processes'
      BY <3>1 DEF Scalars, Processes
    <3> QED BY <3>3, <3>4, <3>5, Zenon
  <2> QED BY <2>1, <2>2
<1>7. CASE OnProcess \/ FdClose \/ StopTimeout
  <2>1. /\ OnStop /\ waitEvent' = waitEvent /\ daemon' \in {daemon, "gone", "up"}
        /\ thread' # "none" => UNCHANGED <<reading, readDone>>
    BY <1>7 DEF OnProcess, FdClose, StopTimeout
  <2>2. reading' \in BOOLEAN /\ readDone' \in BOOLEAN
    BY <2>1 DEF OnStop, Cleanup, Scalars, Pipes
  <2> QED BY <2>1, <2>2, OnStopTypes DEF Scalars, Processes
<1>8. CASE FdConnect \/ Connected
  BY <1>8 DEF FdConnect, Connected, eventVars, pipeVars, Scalars, States, Events, Pipes, Processes
<1>9. CASE BoxDone
  BY <1>9, CleanupTypes DEF BoxDone, Scalars, States, Processes
<1>10. CASE External
  <2>1. /\ UNCHANGED <<state, thread, mgmt, exitEvent, exitSet, stopTimer, reading, readDone, readbuf, hProcess, waitEvent>>
    BY <1>10, Zenon DEF External, ServiceAnswers, ServiceHangsUp, ServiceStops, DaemonExits, others, eventVars
  <2>2. pipe' \in {pipe, "broken"} /\ daemon' \in {daemon, "up", "none", "gone"}
    BY <1>10 DEF External, ServiceAnswers, ServiceHangsUp, ServiceStops, DaemonExits
  <2> QED BY <2>1, <2>2 DEF Scalars, States, Events, Pipes, Processes
<1>11. CASE UNCHANGED vars
  BY <1>11 DEF vars, eventVars, pipeVars, Scalars, States, Events, Pipes, Processes
<1> QED
  BY <1>1, <1>2, <1>3, <1>4, <1>5, <1>6, <1>7, <1>8, <1>9, <1>10, <1>11, Zenon DEF Next, StatusThread

\* Every variable has its type, for any number of starts.
THEOREM TypeCorrect == MaxStarts \in Nat => (Spec => []TypeOK)
<1> SUFFICES ASSUME MaxStarts \in Nat
             PROVE  Spec => []TypeOK
  OBVIOUS
<1>1. Init => Scalars
  <2> SUFFICES ASSUME Init
               PROVE  Scalars
    OBVIOUS
  <2>1. Settings
    BY Zenon DEF Init, Settings
  <2>2. Starts
    <3>1. 0 \in 0 .. MaxStarts
      OBVIOUS
    <3> QED BY <3>1, Zenon DEF Init, Starts
  <2>3. States /\ Events /\ Processes
    BY DEF Init, States, Events, Processes
  <2>4. Pipes
    BY Zenon DEF Init, Pipes
  <2> QED BY <2>1, <2>2, <2>3, <2>4 DEF Scalars
<1>2. Scalars /\ PipeInv /\ [Next]_vars => Scalars'
  BY SetupTypes, RunTypes DEF Scalars
<1>3. Scalars /\ PipeInv => TypeOK
  <2> SUFFICES ASSUME Scalars, PipeInv
               PROVE  TypeOK
    OBVIOUS
  <2>1. /\ inPipe \in Seq(Messages) /\ sent \in Seq(Messages) /\ handled \in Seq(Messages)
    BY SaidAreMessages, Zenon DEF PipeInv, PipeTypes
  <2>2. {useService, global, member, service, asking, semaphore, exitSet, reading, readDone,
         stopTimer} \subseteq BOOLEAN
    BY DEF Scalars, Settings, Starts, Events, Pipes
  <2> QED BY <2>1, <2>2, Zenon DEF TypeOK, Scalars, Starts, States, Events, Pipes, Processes
<1> QED BY <1>1, <1>2, <1>3, PipeHolds, PTL DEF Spec
=============================================================================
