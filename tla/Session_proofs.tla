----------------------------- MODULE Session_proofs -----------------------------
(***************************************************************************)
(* Theorems about Session, for every set of profiles and every bound:      *)
(*   TypeCorrect   Spec => []TypeOK                                        *)
(*   StartedOnce   Spec => []OneThreadEach                                 *)
(*   IconStays     Spec => []IconShown                                     *)
(*   ListRestarted Spec => RestartsWhatRan                                 *)
(* They rest on one inductive invariant: the types, with the fact that     *)
(* only a profile with a pre-connect script waits for one, and ThreadCount.*)
(* IconShown is inductive relative to it: only the question whether to     *)
(* leave may take the icon away, and it does not go away unanswered.       *)
(* ListRestarted rests on Listed: a session that is not leaving has no wait*)
(* that can end it, and one that leaves has the list of what ran.          *)
(***************************************************************************)
EXTENDS Session, TLAPS

ConnInv == ConnOK /\ ThreadCount
IInv == frames \in Seq(FrameSet) /\ ConnInv /\ RestOK

-----------------------------------------------------------------------------
(* Frames *)

LEMMA FrameType ==
    /\ \A kind \in FrameKinds \ {"pre"} : \A conns \in SUBSET Conn : Frame(kind, conns) \in FrameSet
    /\ \A c \in HasPre : Frame("pre", {c}) \in FrameSet
BY SessionAssumption DEF Frame, FrameSet, FrameKinds

LEMMA Pushing ==
    ASSUME NEW f \in FrameSet, NEW below \in Seq(FrameSet)
    PROVE  <<f>> \o below \in Seq(FrameSet)
OBVIOUS

LEMMA InnerFrame ==
    ASSUME frames \in Seq(FrameSet), frames # <<>>
    PROVE  /\ Head(frames) \in FrameSet /\ Tail(frames) \in Seq(FrameSet)
           /\ Head(frames).conns \subseteq Conn
           /\ Head(frames).kind = "pre" => Head(frames).conns \subseteq HasPre
<1>1. Head(frames) \in FrameSet /\ Tail(frames) \in Seq(FrameSet)
  OBVIOUS
<1> QED BY <1>1 DEF FrameSet

-----------------------------------------------------------------------------
(* Starts *)

\* One more thread for a profile that may have several, or that had none.
LEMMA LaunchKeeps ==
    ASSUME NEW c \in Conn, ConnInv, Launched(c), c \in HasPre \/ ~Ignored(c)
    PROVE  ConnInv'
<1>1. ConnOK'
  BY DEF ConnInv, ConnOK, Launched
<1>2. ThreadCount'
  <2> SUFFICES ASSUME NEW d \in Conn
               PROVE  /\ hwnd'[d] => threads'[d] > 0
                      /\ d \notin HasPre => threads'[d] = (IF ~Idle(d)' \/ hwnd'[d] THEN 1 ELSE 0)
    BY DEF ThreadCount
  <2>1. CASE d = c
    BY <2>1 DEF ConnInv, ConnOK, ThreadCount, Launched, Ignored, Idle
  <2>2. CASE d # c
    BY <2>2 DEF ConnInv, ConnOK, ThreadCount, Launched, Idle
  <2> QED BY <2>1, <2>2
<1> QED BY <1>1, <1>2 DEF ConnInv

LEMMA AttachKeeps ==
    ASSUME NEW c \in Conn, ConnInv, ~Ignored(c), AttachFails(c)
    PROVE  ConnInv'
<1>1. ConnOK'
  BY DEF ConnInv, ConnOK, AttachFails
<1>2. ThreadCount'
  BY DEF ConnInv, ConnOK, ThreadCount, AttachFails, Ignored, Idle
<1> QED BY <1>1, <1>2 DEF ConnInv

LEMMA SameConn == ConnInv /\ UNCHANGED connVars => ConnInv'
BY Zenon DEF ConnInv, ConnOK, ThreadCount, Idle, connVars

LEMMA StartKeeps ==
    ASSUME NEW c \in Conn, NEW below \in Seq(FrameSet), ConnInv, StartOpenVPN(c, below)
    PROVE  ConnInv' /\ frames' \in Seq(FrameSet)
<1>1. CASE Ignored(c)
  BY <1>1, SameConn DEF StartOpenVPN
<1>2. CASE ~Ignored(c) /\ c \in HasPre /\ frames' = <<Frame("pre", {c})>> \o below /\ UNCHANGED connVars
  BY <1>2, SameConn, FrameType, Pushing
<1>3. CASE ~Ignored(c) /\ frames' = below /\ Launched(c)
  BY <1>3, LaunchKeeps
<1>4. CASE ~Ignored(c) /\ frames' = below /\ AttachFails(c)
  BY <1>4, AttachKeeps
<1>5. CASE frames' = below /\ UNCHANGED connVars
  BY <1>5, SameConn
<1> QED BY <1>1, <1>2, <1>3, <1>4, <1>5, Zenon DEF StartOpenVPN

\* StopAllOpenVPN tells connections to end, and waits.
LEMMA StopAllKeeps ==
    ASSUME NEW kind \in Waits, NEW below \in Seq(FrameSet), ConnInv, StopAll(kind, below)
    PROVE  ConnInv' /\ frames' \in Seq(FrameSet)
<1>1. ConnInv'
  BY DEF StopAll, ConnInv, ConnOK, ThreadCount, Idle
<1>2. Frame(kind, {}) \in FrameSet
  BY FrameType DEF FrameKinds, Waits
<1> QED BY <1>1, <1>2, Pushing DEF StopAll

LEMMA SaveKeeps ==
    ASSUME RestOK, Save
    PROVE  list' \subseteq Conn /\ ran' \subseteq Conn /\ savedAgain' \in BOOLEAN
BY DEF RestOK, Save, Active

LEMMA DestroyKeeps ==
    ASSUME NEW below \in Seq(FrameSet), ConnInv, RestOK, DestroyMain(below)
    PROVE  /\ ConnInv' /\ frames' \in Seq(FrameSet)
           /\ list' \subseteq Conn /\ ran' \subseteq Conn /\ savedAgain' \in BOOLEAN
           /\ icon' \in BOOLEAN /\ leaving' \in BOOLEAN
<1>1. list' \subseteq Conn /\ ran' \subseteq Conn /\ savedAgain' \in BOOLEAN
  BY SaveKeeps DEF DestroyMain
<1>2. icon' \in BOOLEAN /\ leaving' \in BOOLEAN
  BY DEF DestroyMain
<1>3. CASE frames' = below /\ UNCHANGED connVars
  BY <1>1, <1>2, <1>3, SameConn
<1>4. CASE StopAll("destroy", below)
  BY <1>1, <1>2, <1>4, StopAllKeeps DEF Waits
<1> QED BY <1>3, <1>4 DEF DestroyMain

-----------------------------------------------------------------------------
(* One lemma per group of actions *)

LEMMA MainThreadInv == IInv /\ MainThread => IInv'
<1> SUFFICES ASSUME IInv, MainThread PROVE IInv'
  OBVIOUS
<1>h. frames \in Seq(FrameSet) /\ ConnInv /\ RestOK
  BY DEF IInv
<1>1. CASE PreDone
  <2>1. frames # <<>> /\ Head(frames).kind = "pre" /\ frames' = Tail(frames)
    BY <1>1 DEF PreDone, Inner
  <2>2. ConnInv'
    <3>1. CASE UNCHANGED connVars
      BY <1>h, <3>1, SameConn
    <3>2. CASE \E c \in Head(frames).conns : Launched(c)
      BY <1>h, <2>1, <3>2, InnerFrame, LaunchKeeps
    <3> QED BY <1>1, <3>1, <3>2 DEF PreDone
  <2>3. RestOK'
    BY <1>1, <1>h DEF PreDone, RestOK, saveVars, boundVars
  <2> QED BY <1>h, <2>1, <2>2, <2>3, InnerFrame DEF IInv
<1>2. CASE AutoNext
  <2>1. frames # <<>>
    BY <1>2 DEF AutoNext, Inner
  <2>2. ConnInv' /\ frames' \in Seq(FrameSet)
    <3>1. CASE frames' = Tail(frames) /\ UNCHANGED connVars
      BY <1>h, <2>1, <3>1, InnerFrame, SameConn
    <3>2. ASSUME NEW c \in Head(frames).conns,
                 StartOpenVPN(c, <<Frame("auto", Head(frames).conns \ {c})>> \o Tail(frames))
          PROVE  ConnInv' /\ frames' \in Seq(FrameSet)
      <4>1. c \in Conn /\ Frame("auto", Head(frames).conns \ {c}) \in FrameSet
        BY <1>h, <2>1, InnerFrame, FrameType DEF FrameKinds
      <4>2. <<Frame("auto", Head(frames).conns \ {c})>> \o Tail(frames) \in Seq(FrameSet)
        BY <1>h, <2>1, <4>1, InnerFrame, Pushing
      <4> QED BY <1>h, <3>2, <4>1, <4>2, StartKeeps
    <3> QED BY <1>2, <3>1, <3>2 DEF AutoNext
  <2>3. RestOK'
    BY <1>2, <1>h DEF AutoNext, RestOK, saveVars, boundVars
  <2> QED BY <2>2, <2>3 DEF IInv
<1>3. CASE ManagePersistent
  <2>1. ConnOK' /\ ThreadCount'
    BY <1>3, <1>h DEF ManagePersistent, ConnInv, ConnOK, ThreadCount, Idle
  <2>2. frames' = frames /\ RestOK'
    BY <1>3, <1>h DEF ManagePersistent, RestOK, saveVars, boundVars
  <2> QED BY <1>h, <2>1, <2>2 DEF IInv, ConnInv
<1>4. CASE WaitDone
  <2>1. frames # <<>> /\ frames' = Tail(frames) /\ UNCHANGED connVars
    BY <1>4 DEF WaitDone, Inner
  <2>2. RestOK'
    BY <1>4, <1>h DEF WaitDone, RestOK, saveVars, boundVars
  <2> QED BY <1>h, <2>1, <2>2, InnerFrame, SameConn DEF IInv
<1>5. CASE Ends
  <2>1. frames' = frames /\ UNCHANGED connVars /\ RestOK'
    BY <1>5, <1>h DEF Ends, RestOK, saveVars, boundVars
  <2> QED BY <1>h, <2>1, SameConn DEF IInv
<1> QED BY <1>1, <1>2, <1>3, <1>4, <1>5 DEF MainThread

\* A command counts, and leaves the rest of the bounds.
LEMMA CommandCounts ==
    RestOK /\ Command => commands' \in 0 .. MaxCommands /\ sessions' = sessions
BY SessionAssumption DEF RestOK, Command

LEMMA UserInv == IInv /\ User => IInv'
<1> SUFFICES ASSUME IInv, User PROVE IInv'
  OBVIOUS
<1>h. frames \in Seq(FrameSet) /\ ConnInv /\ RestOK
  BY DEF IInv
<1>1. ASSUME NEW c \in Conn, Connect(c) PROVE IInv'
  <2>1. ConnInv' /\ frames' \in Seq(FrameSet)
    BY <1>h, <1>1, StartKeeps DEF Connect
  <2>2. RestOK'
    BY <1>h, <1>1, CommandCounts DEF Connect, RestOK, saveVars
  <2> QED BY <2>1, <2>2 DEF IInv
<1>2. ASSUME NEW c \in Conn, Disconnect(c) PROVE IInv'
  <2>1. ConnOK' /\ ThreadCount' /\ frames' = frames
    BY <1>h, <1>2 DEF Disconnect, ConnInv, ConnOK, ThreadCount, Idle
  <2>2. RestOK'
    BY <1>h, <1>2, CommandCounts DEF Disconnect, RestOK, saveVars
  <2> QED BY <1>h, <2>1, <2>2 DEF IInv, ConnInv
<1>3. CASE StopAllCommand
  <2>1. ConnInv' /\ frames' \in Seq(FrameSet)
    BY <1>h, <1>3, StopAllKeeps DEF StopAllCommand, Waits
  <2>2. RestOK'
    BY <1>h, <1>3, CommandCounts DEF StopAllCommand, RestOK, saveVars
  <2> QED BY <2>1, <2>2 DEF IInv
<1>4. CASE Exit
  <2>1. commands' \in 0 .. MaxCommands /\ UNCHANGED <<sessions, process, quit, timedOut>>
    BY <1>h, <1>4, CommandCounts DEF Exit
  <2>2. CASE Active # {}
    <3>1. icon' = FALSE /\ frames' = <<Frame("ask", {})>> \o frames
          /\ UNCHANGED <<leaving, connVars, saveVars>>
      BY <1>4, <2>2 DEF Exit, Push
    <3>2. Frame("ask", {}) \in FrameSet
      BY FrameType DEF FrameKinds
    <3>3. frames' \in Seq(FrameSet) /\ ConnInv'
      BY <1>h, <3>1, <3>2, Pushing, SameConn
    <3>4. RestOK'
      BY <1>h, <2>1, <3>1 DEF RestOK, saveVars
    <3> QED BY <3>3, <3>4 DEF IInv
  <2>3. CASE DestroyMain(frames)
    BY <1>h, <2>1, <2>3, DestroyKeeps DEF IInv, RestOK
  <2> QED BY <1>4, <2>2, <2>3 DEF Exit
<1>5. CASE Close
  <2>1. commands' \in 0 .. MaxCommands /\ UNCHANGED <<sessions, process, quit, timedOut>>
    BY <1>h, <1>5, CommandCounts DEF Close
  <2>2. DestroyMain(frames)
    BY <1>5 DEF Close
  <2> QED BY <1>h, <2>1, <2>2, DestroyKeeps DEF IInv, RestOK
<1>6. CASE AnswerNo
  <2>1. frames # <<>> /\ frames' = Tail(frames) /\ UNCHANGED connVars
    BY <1>6 DEF AnswerNo, Inner
  <2>2. RestOK'
    BY <1>h, <1>6 DEF AnswerNo, RestOK, saveVars, boundVars
  <2> QED BY <1>h, <2>1, <2>2, InnerFrame, SameConn DEF IInv
<1>7. CASE AnswerYes
  <2>1. frames # <<>> /\ DestroyMain(Tail(frames)) /\ UNCHANGED <<process, quit, boundVars, timedOut>>
    BY <1>7 DEF AnswerYes, Inner
  <2>2. Tail(frames) \in Seq(FrameSet)
    BY <1>h, <2>1, InnerFrame
  <2> QED BY <1>h, <2>1, <2>2, DestroyKeeps DEF IInv, RestOK, boundVars
<1>8. CASE EndSession
  <2>1. ConnInv' /\ frames' \in Seq(FrameSet)
    BY <1>h, <1>8, StopAllKeeps DEF EndSession, Waits
  <2>2. RestOK'
    BY <1>h, <1>8, CommandCounts, SaveKeeps DEF EndSession, RestOK
  <2> QED BY <2>1, <2>2 DEF IInv
<1> QED BY <1>1, <1>2, <1>3, <1>4, <1>5, <1>6, <1>7, <1>8 DEF User

LEMMA StatusThreadInv ==
    ASSUME IInv, NEW c \in Conn, StatusThread(c)
    PROVE  IInv'
<1>h. frames \in Seq(FrameSet) /\ ConnInv /\ RestOK
  BY DEF IInv
<1>1. frames' = frames /\ RestOK'
  BY <1>h DEF StatusThread, WindowOpens, Attaches, Finishes, WindowCloses, RestOK, saveVars, boundVars
<1>2. CASE WindowOpens(c)
  BY <1>h, <1>1, <1>2 DEF WindowOpens, IInv, ConnInv, ConnOK, ThreadCount, Idle
<1>3. CASE Attaches(c)
  BY <1>h, <1>1, <1>3 DEF Attaches, IInv, ConnInv, ConnOK, ThreadCount, Idle
<1>4. CASE Finishes(c)
  BY <1>h, <1>1, <1>4 DEF Finishes, IInv, ConnInv, ConnOK, ThreadCount, Idle
<1>5. CASE WindowCloses(c)
  BY <1>h, <1>1, <1>5 DEF WindowCloses, IInv, ConnInv, ConnOK, ThreadCount, Idle
<1> QED BY <1>2, <1>3, <1>4, <1>5 DEF StatusThread

\* A session begins with no threads, whatever the last one left in the registry.
LEMMA BeginsInv ==
    ASSUME NEW found \in SUBSET Conn
    PROVE  <<Frame("auto", found)>> \in Seq(FrameSet)
<1>1. Frame("auto", found) \in FrameSet
  BY FrameType DEF FrameKinds
<1> QED BY <1>1

LEMMA NewSessionInv == IInv /\ NewSession => IInv'
<1> SUFFICES ASSUME IInv, NewSession PROVE IInv'
  OBVIOUS
<1>1. list \subseteq Conn /\ list' = list /\ sessions' \in 0 .. MaxSessions
  BY SessionAssumption DEF IInv, RestOK, NewSession
<1>2. frames' \in Seq(FrameSet)
  BY <1>1, BeginsInv DEF NewSession, Begins
<1>3. ConnOK'
  BY DEF NewSession, Begins, ConnOK
<1>4. ThreadCount'
  BY DEF NewSession, Begins, ThreadCount, Idle
<1>5. RestOK'
  <2>1. /\ process' = "runs" /\ quit' = FALSE /\ leaving' = FALSE /\ icon' = TRUE
        /\ ran' = {} /\ savedAgain' = FALSE /\ timedOut' = FALSE /\ commands' = 0
    BY Zenon DEF NewSession, Begins
  <2>2. commands' \in 0 .. MaxCommands
    BY <2>1, SessionAssumption
  <2> QED BY <1>1, <2>1, <2>2 DEF RestOK
<1> QED BY <1>2, <1>3, <1>4, <1>5 DEF IInv, ConnInv

LEMMA InitInv == Init => IInv
<1> SUFFICES ASSUME Init PROVE IInv
  OBVIOUS
<1>1. frames \in Seq(FrameSet)
  BY BeginsInv DEF Init
<1>2. ConnOK
  BY DEF Init, ConnOK
<1>3. ThreadCount
  BY DEF Init, ThreadCount, Idle
<1>4. RestOK
  <2>1. /\ process = "runs" /\ quit = FALSE /\ leaving = FALSE /\ icon = TRUE /\ list = {}
        /\ ran = {} /\ savedAgain = FALSE /\ timedOut = FALSE /\ commands = 0 /\ sessions = 0
    BY Zenon DEF Init
  <2>2. commands \in 0 .. MaxCommands /\ sessions \in 0 .. MaxSessions
    BY <2>1, SessionAssumption
  <2> QED BY <2>1, <2>2 DEF RestOK
<1> QED BY <1>1, <1>2, <1>3, <1>4 DEF IInv, ConnInv

LEMMA StepInv == IInv /\ [Next]_vars => IInv'
<1> SUFFICES ASSUME IInv, [Next]_vars PROVE IInv'
  OBVIOUS
<1>1. CASE Killed
  <2>1. frames' = frames /\ UNCHANGED connVars /\ RestOK'
    BY <1>1 DEF Killed, IInv, RestOK, saveVars, boundVars
  <2> QED BY <2>1, SameConn DEF IInv
<1>2. CASE UNCHANGED vars
  <2>1. frames' = frames /\ UNCHANGED connVars /\ RestOK'
    BY <1>2 DEF IInv, RestOK, vars, saveVars, boundVars
  <2> QED BY <2>1, SameConn DEF IInv
<1> QED BY <1>1, <1>2, MainThreadInv, UserInv, StatusThreadInv, NewSessionInv DEF Next

-----------------------------------------------------------------------------
\* Every variable keeps its type, and only starts of profiles with a pre-connect script
\* wait for one.
THEOREM TypeCorrect == Spec => []TypeOK
<1>1. IInv => TypeOK
  BY DEF IInv, ConnInv, TypeOK
<1> QED BY <1>1, InitInv, StepInv, PTL DEF Spec

\* However commands, the timer and starts at login are dispatched inside each other's
\* waits, a profile without a pre-connect script never has two status threads.
THEOREM StartedOnce == Spec => []OneThreadEach
<1>1. IInv => OneThreadEach
  BY DEF IInv, ConnInv, ConnOK, ThreadCount, OneThreadEach
<1> QED BY <1>1, InitInv, StepInv, PTL DEF Spec

-----------------------------------------------------------------------------
(* The icon *)

Asked(fs) == \E i \in 1 .. Len(fs) : fs[i].kind = "ask"

LEMMA PushKeepsAsked ==
    ASSUME NEW f \in FrameSet, NEW below \in Seq(FrameSet), Asked(below)
    PROVE  Asked(<<f>> \o below)
<1>1. PICK i \in 1 .. Len(below) : below[i].kind = "ask"
  BY DEF Asked
<1>2. i + 1 \in 1 .. Len(<<f>> \o below) /\ (<<f>> \o below)[i + 1] = below[i]
  OBVIOUS
<1> QED BY <1>1, <1>2, Zenon DEF Asked

LEMMA PopKeepsAsked ==
    ASSUME frames \in Seq(FrameSet), frames # <<>>, Head(frames).kind # "ask", Asked(frames)
    PROVE  Asked(Tail(frames))
<1>1. PICK i \in 1 .. Len(frames) : frames[i].kind = "ask"
  BY DEF Asked
<1>2. i # 1
  BY <1>1
<1>3. i - 1 \in 1 .. Len(Tail(frames)) /\ Tail(frames)[i - 1] = frames[i]
  BY <1>2
<1> QED BY <1>1, <1>3, Zenon DEF Asked

\* The question does not go away, or the icon is not the point any more.
Kept ==
    \/ icon' \/ leaving' \/ process' # "runs" \/ Asked(frames)'
    \/ process = "runs" /\ (UNCHANGED <<leaving, icon>>) /\ (Asked(frames) => Asked(frames)')

LEMMA StartKeepsAsked ==
    ASSUME NEW c \in Conn, NEW below \in Seq(FrameSet), StartOpenVPN(c, below), Asked(below)
    PROVE  Asked(frames')
<1>1. frames' = below \/ (c \in HasPre /\ frames' = <<Frame("pre", {c})>> \o below)
  BY Zenon DEF StartOpenVPN
<1> QED BY <1>1, FrameType, PushKeepsAsked

LEMMA MainThreadKeeps == IInv /\ MainThread => Kept
<1> SUFFICES ASSUME IInv, MainThread PROVE Kept
  OBVIOUS
<1>h. frames \in Seq(FrameSet)
  BY DEF IInv
<1>1. process = "runs" /\ UNCHANGED <<leaving, icon>>
  BY Zenon DEF MainThread, PreDone, AutoNext, ManagePersistent, WaitDone, Ends, Inner, Dispatch
<1>2. CASE PreDone \/ WaitDone
  <2>1. frames # <<>> /\ Head(frames).kind # "ask" /\ frames' = Tail(frames)
    BY <1>2 DEF PreDone, WaitDone, Waits, Inner
  <2> QED BY <1>h, <1>1, <2>1, PopKeepsAsked DEF Kept
<1>3. CASE AutoNext
  <2>1. frames # <<>> /\ Head(frames).kind = "auto" /\ Head(frames).conns \subseteq Conn
        /\ Tail(frames) \in Seq(FrameSet)
    BY <1>h, <1>3, InnerFrame DEF AutoNext, Inner
  <2>2. Asked(frames) => Asked(Tail(frames))
    BY <1>h, <2>1, PopKeepsAsked
  <2>3. ASSUME NEW c \in Head(frames).conns, Asked(Tail(frames)),
               StartOpenVPN(c, <<Frame("auto", Head(frames).conns \ {c})>> \o Tail(frames))
        PROVE  Asked(frames')
    <3> DEFINE f == Frame("auto", Head(frames).conns \ {c})
    <3>1. c \in Conn /\ f \in FrameSet
      BY <2>1, FrameType DEF FrameKinds
    <3> HIDE DEF f
    <3>2. <<f>> \o Tail(frames) \in Seq(FrameSet)
      BY <2>1, <3>1, Pushing
    <3>3. Asked(<<f>> \o Tail(frames))
      BY <2>1, <2>3, <3>1, PushKeepsAsked
    <3>4. StartOpenVPN(c, <<f>> \o Tail(frames))
      BY <2>3 DEF f
    <3> QED BY <3>1, <3>2, <3>3, <3>4, StartKeepsAsked
  <2>4. CASE frames' = Tail(frames)
    BY <1>1, <2>2, <2>4 DEF Kept
  <2>5. CASE \E c \in Head(frames).conns :
               StartOpenVPN(c, <<Frame("auto", Head(frames).conns \ {c})>> \o Tail(frames))
    BY <1>1, <2>2, <2>3, <2>5, Zenon DEF Kept
  <2> QED BY <1>3, <2>4, <2>5, Zenon DEF AutoNext
<1>4. CASE ManagePersistent \/ Ends
  BY <1>1, <1>4, Zenon DEF ManagePersistent, Ends, Kept
<1> QED BY <1>2, <1>3, <1>4 DEF MainThread

LEMMA UserKeeps == IInv /\ User => Kept
<1> SUFFICES ASSUME IInv, User PROVE Kept
  OBVIOUS
<1>h. frames \in Seq(FrameSet)
  BY DEF IInv
<1>1. ASSUME NEW c \in Conn, Connect(c) PROVE Kept
  <2>1. process = "runs" /\ (UNCHANGED <<leaving, icon>>) /\ StartOpenVPN(c, frames)
    BY <1>1, Zenon DEF Connect, Command, Dispatch
  <2> QED BY <1>h, <2>1, StartKeepsAsked DEF Kept
<1>2. ASSUME NEW c \in Conn, Disconnect(c) PROVE Kept
  BY <1>2, Zenon DEF Disconnect, Command, Dispatch, Kept
<1>3. CASE StopAllCommand
  <2>1. process = "runs" /\ (UNCHANGED <<leaving, icon>>) /\ frames' = <<Frame("stopall", {})>> \o frames
    BY <1>3, Zenon DEF StopAllCommand, StopAll, Command, Dispatch
  <2>2. Frame("stopall", {}) \in FrameSet
    BY FrameType DEF FrameKinds, Waits
  <2> QED BY <1>h, <2>1, <2>2, PushKeepsAsked DEF Kept
<1>4. CASE Exit
  <2>1. CASE frames' = <<Frame("ask", {})>> \o frames
    <3>1. 1 \in 1 .. Len(frames') /\ frames'[1].kind = "ask"
      BY <1>h, <2>1 DEF Frame
    <3> QED BY <3>1, Zenon DEF Asked, Kept
  <2>2. CASE DestroyMain(frames)
    BY <2>2, Zenon DEF DestroyMain, Kept
  <2> QED BY <1>4, <2>1, <2>2, Zenon DEF Exit, Push
<1>5. CASE Close \/ EndSession \/ AnswerYes
  BY <1>5, Zenon DEF Close, EndSession, AnswerYes, DestroyMain, Kept
<1>6. CASE AnswerNo
  BY <1>6, Zenon DEF AnswerNo, Kept
<1> QED BY <1>1, <1>2, <1>3, <1>4, <1>5, <1>6 DEF User

\* The tray icon, the only way to control the program, is gone only while the program
\* leaves or asks whether to leave, however questions, exits and waits nest.
THEOREM IconStays == Spec => []IconShown
<1> DEFINE I == IInv /\ IconShown
<1>1. Init => I
  <2>1. Init => IconShown
    BY Zenon DEF Init, IconShown
  <2> QED BY <2>1, InitInv
<1>2. I /\ [Next]_vars => I'
  <2> SUFFICES ASSUME I, [Next]_vars PROVE I'
    OBVIOUS
  <2>1. IInv'
    BY StepInv
  <2>2. (Asked(frames) <=> HasFrame("ask")) /\ (Asked(frames)' <=> HasFrame("ask")')
    BY Zenon DEF Asked, HasFrame
  <2>3. CASE Kept
    BY <2>1, <2>2, <2>3, Zenon DEF Kept, IconShown
  <2>4. CASE \E c \in Conn : StatusThread(c)
    <3>1. UNCHANGED <<process, leaving, frames, icon>>
      BY <2>4, Zenon DEF StatusThread, WindowOpens, Attaches, Finishes, WindowCloses
    <3> QED BY <2>1, <3>1, Zenon DEF IconShown, HasFrame
  <2>5. CASE Killed
    BY <2>1, <2>5 DEF Killed, IconShown
  <2>6. CASE NewSession
    BY <2>1, <2>6, Zenon DEF NewSession, Begins, IconShown
  <2>7. CASE UNCHANGED vars
    BY <2>1, <2>7, Zenon DEF vars, IconShown, HasFrame
  <2> QED BY <2>3, <2>4, <2>5, <2>6, <2>7, MainThreadKeeps, UserKeeps DEF Next
<1> QED BY <1>1, <1>2, PTL DEF Spec

-----------------------------------------------------------------------------
(* The list of the next session *)

\* Waits after which the session ends.
Ending(fs) == \E i \in 1 .. Len(fs) : fs[i].kind \in {"destroy", "endsession"}

\* Checked as an invariant before it was proved.
Listed ==
    /\ leaving \/ ~(quit \/ process = "ended" \/ Ending(frames))
    /\ leaving /\ AutoRestart /\ ~savedAgain => list = ran

LEMMA PushNotEnding ==
    ASSUME NEW f \in FrameSet, NEW below \in Seq(FrameSet), ~Ending(below),
           f.kind \notin {"destroy", "endsession"}
    PROVE  ~Ending(<<f>> \o below)
<1> SUFFICES ASSUME NEW i \in 1 .. Len(<<f>> \o below),
                    (<<f>> \o below)[i].kind \in {"destroy", "endsession"}
             PROVE  FALSE
  BY Zenon DEF Ending
<1>1. CASE i = 1
  BY <1>1
<1>2. CASE i # 1
  <2>1. i - 1 \in 1 .. Len(below) /\ (<<f>> \o below)[i] = below[i - 1]
    BY <1>2
  <2> QED BY <2>1, Zenon DEF Ending
<1> QED BY <1>1, <1>2

LEMMA PopNotEnding ==
    ASSUME frames \in Seq(FrameSet), frames # <<>>, ~Ending(frames)
    PROVE  ~Ending(Tail(frames)) /\ Head(frames).kind \notin {"destroy", "endsession"}
<1>1. 1 \in 1 .. Len(frames) /\ Head(frames) = frames[1]
  OBVIOUS
<1>2. \A i \in 1 .. Len(Tail(frames)) : i + 1 \in 1 .. Len(frames) /\ Tail(frames)[i] = frames[i + 1]
  OBVIOUS
<1> QED BY <1>1, <1>2, Zenon DEF Ending

LEMMA StartNotEnding ==
    ASSUME NEW c \in Conn, NEW below \in Seq(FrameSet), StartOpenVPN(c, below), ~Ending(below)
    PROVE  ~Ending(frames')
<1>1. frames' = below \/ (c \in HasPre /\ frames' = <<Frame("pre", {c})>> \o below)
  BY Zenon DEF StartOpenVPN
<1>2. Frame("pre", {c}).kind \notin {"destroy", "endsession"}
  BY DEF Frame
<1> QED BY <1>1, <1>2, FrameType, PushNotEnding

\* A step that does not save the list does not touch it, and does not begin to leave.
Stays ==
    /\ UNCHANGED <<leaving, list, ran, savedAgain>>
    /\ ~leaving /\ ~quit /\ process # "ended" /\ ~Ending(frames)
          => ~quit' /\ process' # "ended" /\ ~Ending(frames')

LEMMA StaysListed == Listed /\ Stays => Listed'
BY DEF Listed, Stays, Ending

LEMMA SaveListed ==
    ASSUME Save, leaving'
    PROVE  Listed'
<1>1. savedAgain' = leaving /\ (~leaving => ran' = Active) /\ (AutoRestart => list' = Active)
  BY Zenon DEF Save
<1> QED BY <1>1, Zenon DEF Listed

LEMMA MainThreadStays == IInv /\ MainThread => Stays
<1> SUFFICES ASSUME IInv, MainThread PROVE Stays
  OBVIOUS
<1>h. frames \in Seq(FrameSet)
  BY DEF IInv
<1>1. UNCHANGED <<leaving, list, ran, savedAgain>>
  BY Zenon DEF MainThread, PreDone, AutoNext, ManagePersistent, WaitDone, Ends, saveVars
<1> SUFFICES ASSUME ~leaving, ~quit, process # "ended", ~Ending(frames)
             PROVE  ~quit' /\ process' # "ended" /\ ~Ending(frames')
  BY <1>1 DEF Stays
<1>2. CASE PreDone
  <2>1. frames # <<>> /\ frames' = Tail(frames) /\ UNCHANGED <<process, quit>>
    BY <1>2, Zenon DEF PreDone, Inner
  <2> QED BY <1>h, <2>1, PopNotEnding
<1>3. CASE WaitDone
  <2>1. /\ frames # <<>> /\ frames' = Tail(frames)
        /\ quit' = (quit \/ Head(frames).kind = "destroy")
        /\ process' = IF Head(frames).kind = "endsession" THEN "ended" ELSE process
    BY <1>3, Zenon DEF WaitDone, Inner
  <2> QED BY <1>h, <2>1, PopNotEnding
<1>4. CASE AutoNext
  <2>1. /\ frames # <<>> /\ Head(frames).conns \subseteq Conn /\ Tail(frames) \in Seq(FrameSet)
        /\ UNCHANGED <<process, quit>>
    BY <1>h, <1>4, InnerFrame DEF AutoNext, Inner
  <2>2. ~Ending(Tail(frames))
    BY <1>h, <2>1, PopNotEnding
  <2>3. ASSUME NEW c \in Head(frames).conns,
               StartOpenVPN(c, <<Frame("auto", Head(frames).conns \ {c})>> \o Tail(frames))
        PROVE  ~Ending(frames')
    <3> DEFINE f == Frame("auto", Head(frames).conns \ {c})
    <3>1. c \in Conn /\ f \in FrameSet /\ f.kind = "auto"
      BY <2>1, FrameType DEF FrameKinds, Frame
    <3>2. StartOpenVPN(c, <<f>> \o Tail(frames))
      BY <2>3
    <3> HIDE DEF f
    <3>3. <<f>> \o Tail(frames) \in Seq(FrameSet)
      BY <2>1, <3>1, Pushing
    <3>4. ~Ending(<<f>> \o Tail(frames))
      BY <2>1, <2>2, <3>1, PushNotEnding
    <3> QED BY <3>1, <3>2, <3>3, <3>4, StartNotEnding
  <2>4. ~Ending(frames')
    BY <1>4, <2>2, <2>3, Zenon DEF AutoNext
  <2> QED BY <2>1, <2>4
<1>5. CASE ManagePersistent
  BY <1>5, Zenon DEF ManagePersistent
<1>6. CASE Ends
  BY <1>6, Zenon DEF Ends
<1> QED BY <1>2, <1>3, <1>4, <1>5, <1>6 DEF MainThread

LEMMA UserLists ==
    ASSUME IInv, Listed, User
    PROVE  Listed'
<1>h. frames \in Seq(FrameSet)
  BY DEF IInv
<1>1. ASSUME NEW c \in Conn, Connect(c) PROVE Listed'
  <2>1. UNCHANGED <<leaving, list, ran, savedAgain, process, quit>> /\ StartOpenVPN(c, frames)
    BY <1>1, Zenon DEF Connect, saveVars
  <2> QED BY <1>h, <2>1, StartNotEnding, StaysListed DEF Stays
<1>2. ASSUME NEW c \in Conn, Disconnect(c) PROVE Listed'
  BY <1>2, StaysListed, Zenon DEF Disconnect, Stays, saveVars
<1>3. ASSUME NEW kind \in {"stopall", "ask"}, frames' = <<Frame(kind, {})>> \o frames,
             UNCHANGED <<leaving, list, ran, savedAgain, process, quit>>
      PROVE  Listed'
  <2>1. Frame(kind, {}) \in FrameSet /\ Frame(kind, {}).kind = kind
    BY <1>3, FrameType DEF FrameKinds, Waits, Frame
  <2>2. ~Ending(frames) => ~Ending(frames')
    BY <1>h, <1>3, <2>1, PushNotEnding
  <2> QED BY <1>3, <2>2, StaysListed, Zenon DEF Stays
<1>4. CASE StopAllCommand
  <2>1. /\ UNCHANGED <<leaving, list, ran, savedAgain, process, quit>>
        /\ frames' = <<Frame("stopall", {})>> \o frames
    BY <1>4, Zenon DEF StopAllCommand, StopAll, saveVars
  <2> QED BY <1>3, <2>1
<1>5. ASSUME NEW below, DestroyMain(below) PROVE Listed'
  BY <1>5, SaveListed, Zenon DEF DestroyMain
<1>6. CASE Exit
  <2>1. CASE frames' = <<Frame("ask", {})>> \o frames /\ UNCHANGED <<leaving, saveVars>>
    <3>1. UNCHANGED <<leaving, list, ran, savedAgain, process, quit>>
      BY <1>6, <2>1, Zenon DEF Exit, saveVars
    <3> QED BY <1>3, <2>1, <3>1
  <2> QED BY <1>5, <1>6, <2>1, Zenon DEF Exit, Push
<1>7. CASE AnswerNo
  <2>1. /\ frames # <<>> /\ frames' = Tail(frames)
        /\ UNCHANGED <<leaving, list, ran, savedAgain, process, quit>>
    BY <1>7, Zenon DEF AnswerNo, Inner, saveVars
  <2> QED BY <1>h, <2>1, PopNotEnding, StaysListed DEF Stays
<1>8. CASE EndSession
  BY <1>8, SaveListed, Zenon DEF EndSession
<1>9. CASE Close \/ AnswerYes
  BY <1>5, <1>9, Zenon DEF Close, AnswerYes
<1> QED BY <1>1, <1>2, <1>4, <1>6, <1>7, <1>8, <1>9, Zenon DEF User

LEMMA ListedStep ==
    ASSUME IInv, Listed, [Next]_vars
    PROVE  Listed'
<1>1. CASE User
  BY <1>1, UserLists
<1>2. CASE MainThread
  BY <1>2, MainThreadStays, StaysListed
<1>3. CASE \E c \in Conn : StatusThread(c)
  <2>1. UNCHANGED <<process, quit, leaving, frames, list, ran, savedAgain>>
    BY <1>3, Zenon DEF StatusThread, WindowOpens, Attaches, Finishes, WindowCloses, saveVars
  <2> QED BY <2>1, StaysListed, Zenon DEF Stays
<1>4. CASE Killed
  <2>1. process' # "ended" /\ UNCHANGED <<quit, leaving, frames, list, ran, savedAgain>>
    BY <1>4 DEF Killed, saveVars
  <2> QED BY <2>1, StaysListed, Zenon DEF Stays
<1>5. CASE NewSession
  <2>1. /\ ~leaving' /\ ~quit' /\ process' = "runs"
        /\ \E conns : frames' = <<Frame("auto", conns)>>
    BY <1>5, Zenon DEF NewSession, Begins
  <2>2. ~Ending(frames')
    BY <2>1 DEF Ending, Frame
  <2> QED BY <2>1, <2>2 DEF Listed
<1>6. CASE UNCHANGED vars
  BY <1>6, StaysListed, Zenon DEF vars, Stays, saveVars
<1> QED BY <1>1, <1>2, <1>3, <1>4, <1>5, <1>6 DEF Next

\* A session that follows one ended by exit or logoff starts what ran when the
\* connections began to be stopped, whatever starts, ends and is asked during the waits
\* (SaveAutoRestartList, AutoStartConnections).
THEOREM ListRestarted == Spec => RestartsWhatRan
<1>1. Init => Listed
  <2> SUFFICES ASSUME Init PROVE Listed
    OBVIOUS
  <2>1. PICK found : frames = <<Frame("auto", found)>>
    BY Zenon DEF Init
  <2>2. ~Ending(frames)
    BY <2>1 DEF Ending, Frame
  <2> QED BY <2>2 DEF Init, Listed
<1>2. IInv /\ Listed /\ [Next]_vars => Listed'
  BY ListedStep
<1>3. IInv /\ Listed /\ [Next]_vars =>
        [process = "ended" /\ process' = "runs" /\ AutoRestart /\ ~savedAgain
           => Head(frames').conns = ran]_vars
  <2> SUFFICES ASSUME Listed, Next, process = "ended", process' = "runs", AutoRestart, ~savedAgain
               PROVE  Head(frames').conns = ran
    BY Zenon
  <2>1. NewSession
    BY Zenon DEF Next, User, MainThread, PreDone, AutoNext, ManagePersistent, WaitDone, Ends,
         StatusThread, WindowOpens, Attaches, Finishes, WindowCloses, Killed, Connect, Disconnect,
         StopAllCommand, Exit, Close, AnswerNo, AnswerYes, EndSession, Command, Dispatch, Inner
  <2>2. list = ran
    BY DEF Listed
  <2>3. frames' = <<Frame("auto", list)>>
    BY <2>1, Zenon DEF NewSession, Begins
  <2> QED BY <2>2, <2>3 DEF Frame
<1> QED BY <1>1, <1>2, <1>3, InitInv, StepInv, PTL DEF Spec, RestartsWhatRan

=============================================================================
