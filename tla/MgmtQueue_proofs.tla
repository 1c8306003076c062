---------------------------- MODULE MgmtQueue_proofs ----------------------------
(***************************************************************************)
(* Theorems about MgmtQueue, for every set of commands, every size and     *)
(* every way send() and the daemon may behave:                             *)
(*   TypeCorrect   Spec => []TypeOK                                        *)
(*   RightCommand  Spec => []ReplyToHead                                   *)
(*   ImplementsChannel   Spec => Channel!Spec                              *)
(*   SomethingMoves      Spec => []NeverStuck                              *)
(* They rest on one inductive invariant, IInv.  SendEffect says once what  *)
(* SendCommand does to a list; every action that sends uses only that.     *)
(***************************************************************************)
EXTENDS MgmtQueue, SequenceTheorems, TLAPS

IInv == TypeOK /\ WireInv /\ KindInv /\ ReplyInv

-----------------------------------------------------------------------------
(* Lists of commands *)

LEMMA HeadIsFirst ==
    ASSUME NEW S, NEW s \in Seq(S), s # <<>>
    PROVE  Head(s) = s[1]
BY SMT

LEMMA SizeNat == Size \in Nat /\ Size > 0 /\ 0 .. Size \subseteq Nat
BY MgmtQueueAssumption, SMT

LEMMA EntryFields ==
    ASSUME NEW q \in Seq(Entry), NEW i \in 1 .. Len(q)
    PROVE  /\ q[i] \in Entry
           /\ q[i].cmd \in Command /\ q[i].left \in 0 .. Size
           /\ q[i].type \in {"regular", "combined"}
<1>1. q[i] \in Entry
  BY ElementOfSeq
<1> QED BY <1>1, SMT DEF Entry

LEMMA NewEntryType == \A c \in Command : NewEntry(c) \in Entry
BY SizeNat, SMT DEF NewEntry, Entry

LEMMA EntryWith ==
    ASSUME NEW e \in Entry
    PROVE  /\ \A n \in 0 .. Size : LET f == [e EXCEPT !.left = n]
                                 IN  f \in Entry /\ f.left = n /\ f.cmd = e.cmd /\ f.type = e.type
           /\ LET f == [e EXCEPT !.type = "regular"]
              IN  f \in Entry /\ f.left = e.left /\ f.cmd = e.cmd /\ f.type = "regular"
BY SMT DEF Entry

\* The head of a list that is not empty, and what is left of it.
LEMMA HeadFacts ==
    ASSUME NEW q \in Seq(Entry)
    PROVE  /\ Left(q) \in 0 .. Size
           /\ q = <<>> => Left(q) = 0 /\ Len(q) = 0
           /\ q # <<>> => Len(q) > 0 /\ 1 \in 1 .. Len(q) /\ Head(q) = q[1] /\ Left(q) = q[1].left
<1>1. Len(q) \in Nat /\ (q # <<>> => Len(q) > 0) /\ (q = <<>> => Len(q) = 0)
  BY EmptySeq, LenProperties, SMT
<1>2. ASSUME q # <<>> PROVE 1 \in 1 .. Len(q) /\ Head(q) = q[1]
  BY <1>1, <1>2, SMT
<1>3. q # <<>> => q[1].left \in 0 .. Size
  BY <1>2, EntryFields
<1> QED BY <1>1, <1>2, <1>3, SizeNat, SMT DEF Left

\* Changing the head in place keeps the list.
LEMMA SetLeft ==
    ASSUME NEW q \in Seq(Entry), q # <<>>, NEW n \in 0 .. Size,
           NEW r, r = [q EXCEPT ![1].left = n]
    PROVE  /\ r \in Seq(Entry) /\ Len(r) = Len(q) /\ r # <<>>
           /\ r[1].left = n /\ r[1].cmd = q[1].cmd /\ r[1].type = q[1].type
           /\ \A i \in 2 .. Len(q) : r[i] = q[i]
<1> DEFINE e == [q[1] EXCEPT !.left = n]
<1>1. 1 \in 1 .. Len(q) /\ Len(q) \in Nat
  BY HeadFacts, LenProperties
<1>2. q[1] \in Entry
  BY <1>1, EntryFields
<1>3. e \in Entry /\ e.left = n /\ e.cmd = q[1].cmd /\ e.type = q[1].type
  BY <1>2, EntryWith
<1>4. [q EXCEPT ![1].left = n] = [q EXCEPT ![1] = e]
  OBVIOUS
<1> HIDE DEF e
<1>5. /\ [q EXCEPT ![1] = e] \in Seq(Entry)
      /\ Len([q EXCEPT ![1] = e]) = Len(q)
      /\ \A j \in 1 .. Len(q) : [q EXCEPT ![1] = e][j] = IF j = 1 THEN e ELSE q[j]
  BY <1>1, <1>3, ExceptSeq
<1> QED BY <1>1, <1>3, <1>4, <1>5, EmptySeq, SMT

HeadRegular(q) == [q EXCEPT ![1].type = "regular"]

LEMMA SetRegular ==
    ASSUME NEW q \in Seq(Entry), q # <<>>
    PROVE  /\ HeadRegular(q) \in Seq(Entry) /\ Len(HeadRegular(q)) = Len(q)
           /\ HeadRegular(q) # <<>>
           /\ HeadRegular(q)[1].left = q[1].left /\ HeadRegular(q)[1].cmd = q[1].cmd
           /\ HeadRegular(q)[1].type = "regular"
           /\ \A i \in 2 .. Len(q) : HeadRegular(q)[i] = q[i]
<1> DEFINE e == [q[1] EXCEPT !.type = "regular"]
<1>1. 1 \in 1 .. Len(q) /\ Len(q) \in Nat
  BY HeadFacts, LenProperties
<1>2. q[1] \in Entry
  BY <1>1, EntryFields
<1>3. e \in Entry /\ e.left = q[1].left /\ e.cmd = q[1].cmd /\ e.type = "regular"
  BY <1>2, EntryWith
<1>4. HeadRegular(q) = [q EXCEPT ![1] = e]
  BY DEF HeadRegular
<1> HIDE DEF e
<1>5. /\ [q EXCEPT ![1] = e] \in Seq(Entry)
      /\ Len([q EXCEPT ![1] = e]) = Len(q)
      /\ \A j \in 1 .. Len(q) : [q EXCEPT ![1] = e][j] = IF j = 1 THEN e ELSE q[j]
  BY <1>1, <1>3, ExceptSeq
<1> QED BY <1>1, <1>3, <1>4, <1>5, EmptySeq, SMT

\* Cmds maps lists to sequences of commands and depends on nothing else of them.
LEMMA CmdsFacts ==
    ASSUME NEW q \in Seq(Entry)
    PROVE  /\ Cmds(q) \in Seq(Command) /\ Len(Cmds(q)) = Len(q)
           /\ \A i \in 1 .. Len(q) : Cmds(q)[i] = q[i].cmd
<1>1. Len(q) \in Nat
  BY LenProperties
<1>2. \A i \in 1 .. Len(q) : q[i].cmd \in Command
  BY EntryFields
<1> QED BY <1>1, <1>2, SMT DEF Cmds

LEMMA CmdsSame ==
    ASSUME NEW q \in Seq(Entry), NEW r \in Seq(Entry), Len(q) = Len(r),
           \A i \in 1 .. Len(q) : q[i].cmd = r[i].cmd
    PROVE  Cmds(q) = Cmds(r)
BY Zenon DEF Cmds

\* An entry behind the others.
LEMMA EntryAppended ==
    ASSUME NEW q \in Seq(Entry), NEW e \in Entry
    PROVE  /\ Append(q, e) \in Seq(Entry) /\ Append(q, e) # <<>>
           /\ Len(Append(q, e)) = Len(q) + 1 /\ Append(q, e)[Len(q) + 1] = e
           /\ \A i \in 1 .. Len(q) : Append(q, e)[i] = q[i]
BY AppendProperties

LEMMA HeadAppended ==
    ASSUME NEW q \in Seq(Entry), NEW e \in Entry, q # <<>>
    PROVE  Head(Append(q, e)) = Head(q)
BY HeadTailAppend

LEMMA CmdsAppend ==
    ASSUME NEW q \in Seq(Entry), NEW e \in Entry
    PROVE  Cmds(Append(q, e)) = Append(Cmds(q), e.cmd)
<1> DEFINE qe == Append(q, e)
           l == Cmds(qe)
           r == Append(Cmds(q), e.cmd)
<1>1. /\ qe \in Seq(Entry) /\ Len(qe) = Len(q) + 1 /\ qe[Len(q) + 1] = e
      /\ \A i \in 1 .. Len(q) : qe[i] = q[i]
  BY AppendProperties
<1>2. e.cmd \in Command
  BY SMT DEF Entry
<1>3. l \in Seq(Command) /\ Len(l) = Len(q) + 1 /\ \A i \in 1 .. Len(q) + 1 : l[i] = qe[i].cmd
  BY <1>1, CmdsFacts
<1>4. Cmds(q) \in Seq(Command) /\ Len(Cmds(q)) = Len(q)
      /\ \A i \in 1 .. Len(q) : Cmds(q)[i] = q[i].cmd
  BY CmdsFacts
<1>5. /\ r \in Seq(Command) /\ Len(r) = Len(q) + 1 /\ r[Len(q) + 1] = e.cmd
      /\ \A i \in 1 .. Len(q) : r[i] = Cmds(q)[i]
  BY <1>2, <1>4, AppendProperties
<1>6. Len(q) \in Nat
  BY LenProperties
<1> HIDE DEF qe, l, r
<1>7. \A i \in 1 .. Len(l) : l[i] = r[i]
  BY <1>1, <1>3, <1>4, <1>5, <1>6, SMT
<1>8. l = r
  BY <1>3, <1>5, <1>7, SeqEqual
<1> QED BY <1>8 DEF l, r, qe

LEMMA CmdsTail ==
    ASSUME NEW q \in Seq(Entry), q # <<>>
    PROVE  Cmds(q) # <<>> /\ Head(Cmds(q)) = q[1].cmd /\ Cmds(Tail(q)) = Tail(Cmds(q))
<1>1. /\ Tail(q) \in Seq(Entry) /\ Len(Tail(q)) = Len(q) - 1
      /\ \A i \in 1 .. Len(Tail(q)) : Tail(q)[i] = q[i + 1]
  BY HeadTailProperties
<1>2. Cmds(q) \in Seq(Command) /\ Len(Cmds(q)) = Len(q)
      /\ \A i \in 1 .. Len(q) : Cmds(q)[i] = q[i].cmd
  BY CmdsFacts
<1>3. Len(q) \in Nat /\ Len(q) > 0 /\ 1 \in 1 .. Len(q)
  BY HeadFacts, LenProperties
<1>4. Cmds(q) # <<>>
  BY <1>2, <1>3, EmptySeq, SMT
<1>5. Head(Cmds(q)) = q[1].cmd
  BY <1>2, <1>3, <1>4, HeadIsFirst, Zenon
<1>6. /\ Tail(Cmds(q)) \in Seq(Command) /\ Len(Tail(Cmds(q))) = Len(Cmds(q)) - 1
      /\ \A i \in 1 .. Len(Tail(Cmds(q))) : Tail(Cmds(q))[i] = Cmds(q)[i + 1]
  BY <1>2, <1>4, HeadTailProperties
<1>7. /\ Cmds(Tail(q)) \in Seq(Command) /\ Len(Cmds(Tail(q))) = Len(Tail(q))
      /\ \A i \in 1 .. Len(Tail(q)) : Cmds(Tail(q))[i] = Tail(q)[i].cmd
  BY <1>1, CmdsFacts, Zenon
<1>8. \A i \in 1 .. Len(Cmds(Tail(q))) : Cmds(Tail(q))[i] = Tail(Cmds(q))[i]
  BY <1>1, <1>2, <1>3, <1>6, <1>7, SMT
<1>9. Cmds(Tail(q)) = Tail(Cmds(q))
  BY <1>1, <1>2, <1>6, <1>7, <1>8, SeqEqual
<1> QED BY <1>4, <1>5, <1>9

-----------------------------------------------------------------------------
(* What SendCommand does *)

\* n more pieces of command c are with the daemon.
LEMMA WireMore ==
    ASSUME NEW w \in Seq(Command), NEW c \in Command, NEW n \in Nat,
           NEW v, v = w \o [i \in 1 .. n |-> c]
    PROVE  /\ v \in Seq(Command) /\ Len(v) = Len(w) + n
           /\ \A i \in 1 .. Len(w) : v[i] = w[i]
           /\ \A i \in Len(w) + 1 .. Len(w) + n : v[i] = c
<1> DEFINE p == [i \in 1 .. n |-> c]
<1>1. p \in Seq(Command) /\ Len(p) = n /\ \A i \in 1 .. n : p[i] = c
  BY SMT
<1>2. Len(w) \in Nat
  BY LenProperties
<1> HIDE DEF p
<1>3. /\ w \o p \in Seq(Command) /\ Len(w \o p) = Len(w) + Len(p)
      /\ \A i \in 1 .. Len(w) + Len(p) :
           (w \o p)[i] = IF i <= Len(w) THEN w[i] ELSE p[i - Len(w)]
  BY <1>1, ConcatProperties
<1>4. \A i \in 1 .. Len(w) : (w \o p)[i] = w[i]
  BY <1>1, <1>2, <1>3, SMT
<1>5. \A i \in Len(w) + 1 .. Len(w) + n : (w \o p)[i] = c
  BY <1>1, <1>2, <1>3, SMT
<1> QED BY <1>1, <1>3, <1>4, <1>5 DEF p

\* SendCommand leaves commands, kinds and everything behind the head as they
\* are, and moves pieces of the head to the wire.
Sent(q) ==
    /\ queue' \in Seq(Entry) /\ Len(queue') = Len(q) /\ (queue' = <<>> <=> q = <<>>)
    /\ \A i \in 1 .. Len(q) : queue'[i].cmd = q[i].cmd /\ queue'[i].type = q[i].type
    /\ \A i \in 2 .. Len(q) : queue'[i] = q[i]
    /\ wire' \in Seq(Command) /\ writeDue' \in BOOLEAN
    /\ Left(queue') \in 0 .. Left(q)
    /\ Len(wire') = Len(wire) + Left(q) - Left(queue')
    /\ \A i \in 1 .. Len(wire) : wire'[i] = wire[i]
    /\ \A i \in Len(wire) + 1 .. Len(wire') : wire'[i] = q[1].cmd
    /\ sk # "open" => queue' = q /\ wire' = wire

LEMMA NothingSent ==
    ASSUME TypeOK, writeDue' \in BOOLEAN, NEW q \in Seq(Entry), queue' = q, wire' = wire
    PROVE  Sent(q)
<1>1. Left(q) \in 0 .. Size /\ Len(q) \in Nat /\ Len(wire) \in Nat
  BY HeadFacts, LenProperties DEF TypeOK
<1>2. Left(q) \in 0 .. Left(q) /\ Len(wire') = Len(wire) + Left(q) - Left(q)
  BY <1>1, SizeNat, SMT
<1>3. \A i \in Len(wire) + 1 .. Len(wire') : wire'[i] = q[1].cmd
  BY <1>1, SMT
<1> QED BY <1>2, <1>3, Zenon DEF Sent, TypeOK

LEMMA TransmitSends ==
    ASSUME TypeOK, NEW q \in Seq(Entry), writeDue' \in BOOLEAN, Transmit(q)
    PROVE  Sent(q)
<1>1. PICK n \in 1 .. Left(q) : /\ queue' = [q EXCEPT ![1].left = @ - n]
                               /\ wire' = wire \o [i \in 1 .. n |-> Head(q).cmd]
  BY DEF Transmit
<1>2. Left(q) \in 0 .. Size
  BY HeadFacts
<1>3. q # <<>>
  BY <1>2, SizeNat, SMT DEF Left
<1>4. Len(q) > 0 /\ 1 \in 1 .. Len(q) /\ Head(q) = q[1] /\ Left(q) = q[1].left
  BY <1>3, HeadFacts
<1>5. q[1].cmd \in Command
  BY <1>4, EntryFields
<1>6. Left(q) - n \in 0 .. Size /\ Left(q) - n \in 0 .. Left(q) /\ n \in Nat
  BY <1>2, SizeNat, SMT
<1>7. queue' = [q EXCEPT ![1].left = Left(q) - n]
  BY <1>1, <1>4
<1>8. /\ queue' \in Seq(Entry) /\ Len(queue') = Len(q) /\ queue' # <<>>
      /\ queue'[1].left = Left(q) - n
      /\ queue'[1].cmd = q[1].cmd /\ queue'[1].type = q[1].type
      /\ \A i \in 2 .. Len(q) : queue'[i] = q[i]
  BY <1>3, <1>6, <1>7, SetLeft
<1>9. Left(queue') = Left(q) - n
  BY <1>8, HeadFacts
<1>15. wire' = wire \o [i \in 1 .. n |-> q[1].cmd]
  BY <1>1, <1>4, Zenon
<1>10. /\ wire' \in Seq(Command) /\ Len(wire') = Len(wire) + n
       /\ \A i \in 1 .. Len(wire) : wire'[i] = wire[i]
       /\ \A i \in Len(wire) + 1 .. Len(wire) + n : wire'[i] = q[1].cmd
  BY <1>15, <1>5, <1>6, WireMore DEF TypeOK
<1>11. Len(wire) \in Nat
  BY LenProperties DEF TypeOK
<1>12. Len(wire') = Len(wire) + Left(q) - Left(queue')
  BY <1>2, <1>6, <1>9, <1>10, <1>11, SizeNat, SMT
<1>13. \A i \in 1 .. Len(q) : queue'[i].cmd = q[i].cmd /\ queue'[i].type = q[i].type
  BY <1>8, LenProperties, SMT
<1>14. sk = "open"
  BY DEF Transmit
<1> QED BY <1>3, <1>6, <1>8, <1>9, <1>10, <1>12, <1>13, <1>14, Zenon DEF Sent

LEMMA SendEffect ==
    ASSUME TypeOK, NEW q \in Seq(Entry), SendCommand(q)
    PROVE  Sent(q)
<1>1. CASE NothingToSend(q) /\ UNCHANGED writeDue
  <2>1. queue' = q /\ wire' = wire /\ writeDue' \in BOOLEAN
    BY <1>1 DEF NothingToSend, TypeOK
  <2> QED BY <2>1, NothingSent
<1>2. CASE Transmit(q) /\ UNCHANGED writeDue
  BY <1>2, TransmitSends DEF TypeOK
<1>3. CASE Blocked(q)
  <2>1. queue' = q /\ wire' = wire /\ writeDue' \in BOOLEAN
    BY <1>3 DEF Blocked
  <2> QED BY <2>1, NothingSent
<1> QED BY <1>1, <1>2, <1>3 DEF SendCommand

-----------------------------------------------------------------------------
(* The invariant of the wire *)

\* The list and the wire as WireInv has them, for a list that is about to become
\* the queue.
WireOf(q) ==
    /\ sk # "open" => wire = <<>> /\ (q # <<>> => Left(q) = Size)
    /\ \A i \in 2 .. Len(q) : q[i].left = Size
    /\ q = <<>> => wire = <<>>
    /\ \A i \in 1 .. Len(wire) : wire[i] = q[1].cmd
    /\ Left(q) > 0 => Len(wire) = Size - Left(q)
    /\ Left(q) = 0 => wire = <<>> \/ Len(wire) = Size

\* SendCommand keeps it.
LEMMA SentWire ==
    ASSUME TypeOK, NEW q \in Seq(Entry), WireOf(q), Sent(q), sk' = sk,
           sk # "open" => replies' = <<>> /\ got' = <<>>
    PROVE  WireInv'
<1>1. Left(q) \in 0 .. Size /\ Left(queue') \in 0 .. Left(q) /\ Len(wire) \in Nat
  BY HeadFacts, LenProperties DEF Sent, TypeOK
<1>2. Len(wire') = Len(wire) + Left(q) - Left(queue')
  BY DEF Sent
<1>3. sk' # "open" => wire' = <<>> /\ replies' = <<>> /\ got' = <<>>
  BY DEF WireOf, Sent
<1>4. sk' # "open" /\ queue' # <<>> => Left(queue') = Size
  BY DEF WireOf, Sent
<1>5. sk' # "open" => Left(queue') \in {0, Size}
  BY <1>4 DEF Left
<1>6. \A i \in 2 .. Len(queue') : queue'[i].left = Size
  BY Zenon DEF WireOf, Sent
<1>7. wire \in Seq(Command) /\ wire' \in Seq(Command)
  BY DEF TypeOK, Sent
<1>8. queue' = <<>> => wire' = <<>>
  <2> SUFFICES ASSUME queue' = <<>> PROVE wire' = <<>>
    OBVIOUS
  <2>1. q = <<>> /\ wire = <<>> /\ Left(q) = 0 /\ Left(queue') = 0
    BY DEF Sent, WireOf, Left
  <2>2. Len(wire') = 0
    BY <1>1, <1>2, <2>1, EmptySeq, SMT
  <2> QED BY <1>7, <2>2, EmptySeq, SMT
<1>9. ASSUME NEW i \in 1 .. Len(wire') PROVE wire'[i] = Head(queue').cmd
  <2>1. wire' # <<>> /\ queue' # <<>>
    BY <1>7, <1>8, EmptySeq, SMT
  <2>2. queue' \in Seq(Entry) /\ Len(queue') = Len(q)
    BY DEF Sent
  <2>3. Head(queue') = queue'[1] /\ 1 \in 1 .. Len(q)
    BY <2>1, <2>2, HeadFacts
  <2>4. queue'[1].cmd = q[1].cmd
    BY <2>3 DEF Sent
  <2>5. wire'[i] = q[1].cmd
    <3>1. CASE i \in 1 .. Len(wire)
      <4>1. wire'[i] = wire[i]
        BY <3>1 DEF Sent
      <4>2. wire[i] = q[1].cmd
        BY <3>1 DEF WireOf
      <4> QED BY <4>1, <4>2
    <3>2. CASE i \in Len(wire) + 1 .. Len(wire')
      BY <3>2 DEF Sent
    <3> QED BY <1>1, <1>2, <3>1, <3>2, SizeNat, SMT
  <2> QED BY <2>3, <2>4, <2>5
<1>10. Left(queue') > 0 => Len(wire') = Size - Left(queue')
  <2>1. Left(q) > 0 => Len(wire) = Size - Left(q)
    BY DEF WireOf
  <2> QED BY <1>1, <1>2, <2>1, SizeNat, SMT
<1>11. Left(queue') = 0 => wire' = <<>> \/ Len(wire') = Size
  <2>1. Left(q) > 0 => Len(wire) = Size - Left(q)
    BY DEF WireOf
  <2>2. Left(q) = 0 => wire = <<>> \/ Len(wire) = Size
    BY DEF WireOf
  <2>3. Len(wire') = 0 => wire' = <<>>
    BY <1>7, EmptySeq, SMT
  <2>4. wire = <<>> => Len(wire) = 0
    BY EmptySeq
  <2> QED BY <1>1, <1>2, <2>1, <2>2, <2>3, <2>4, SizeNat, SMT
<1> QED BY <1>3, <1>4, <1>5, <1>6, <1>8, <1>9, <1>10, <1>11, Zenon DEF WireInv

\* The queue itself, with the wire, is such a list.
LEMMA WireOfQueue == TypeOK /\ WireInv => WireOf(queue)
<1> SUFFICES ASSUME TypeOK, WireInv PROVE WireOf(queue)
  OBVIOUS
<1>1. ASSUME NEW i \in 1 .. Len(wire) PROVE wire[i] = queue[1].cmd
  <2>1. wire # <<>>
    BY EmptySeq, SMT DEF TypeOK
  <2>2. queue # <<>>
    BY <2>1 DEF WireInv
  <2>3. Head(queue) = queue[1]
    BY <2>2, HeadFacts DEF TypeOK
  <2> QED BY <2>3 DEF WireInv
<1> QED BY <1>1, Zenon DEF WireInv, WireOf

-----------------------------------------------------------------------------
(* Kinds of commands *)

\* Both answers of every command of a list are still to come.
KindOf(q) == \A i \in 1 .. Len(q) : q[i].type = NewEntry(q[i].cmd).type

LEMMA SentKind ==
    ASSUME NEW q \in Seq(Entry), KindOf(q), Sent(q)
    PROVE  KindInv'
BY Zenon DEF KindOf, Sent, KindInv

LEMMA KindOfQueue == KindInv /\ ~HeadTaken => KindOf(queue)
BY Zenon DEF KindInv, KindOf

LEMMA TailFacts ==
    ASSUME NEW q \in Seq(Entry), q # <<>>
    PROVE  /\ Tail(q) \in Seq(Entry) /\ Len(Tail(q)) = Len(q) - 1
           /\ \A i \in 1 .. Len(Tail(q)) : Tail(q)[i] = q[i + 1] /\ i + 1 \in 2 .. Len(q)
<1>1. /\ Tail(q) \in Seq(Entry) /\ Len(Tail(q)) = Len(q) - 1
      /\ \A i \in 1 .. Len(Tail(q)) : Tail(q)[i] = q[i + 1]
  BY HeadTailProperties
<1>2. Len(q) \in Nat
  BY LenProperties
<1> QED BY <1>1, <1>2, SMT

LEMMA KindOfTail ==
    ASSUME TypeOK, KindInv, queue # <<>>
    PROVE  KindOf(Tail(queue))
<1>1. /\ Tail(queue) \in Seq(Entry) /\ Len(Tail(queue)) = Len(queue) - 1
      /\ \A i \in 1 .. Len(Tail(queue)) :
           Tail(queue)[i] = queue[i + 1] /\ i + 1 \in 2 .. Len(queue)
  BY TailFacts DEF TypeOK
<1>2. \A i \in 2 .. Len(queue) : i # 1 /\ i \in 1 .. Len(queue)
  BY LenProperties, SMT DEF TypeOK
<1>3. ASSUME NEW i \in 1 .. Len(Tail(queue))
      PROVE  Tail(queue)[i].type = NewEntry(Tail(queue)[i].cmd).type
  <2>1. Tail(queue)[i] = queue[i + 1] /\ i + 1 # 1 /\ i + 1 \in 1 .. Len(queue)
    BY <1>1, <1>2, Zenon
  <2> QED BY <2>1, Zenon DEF KindInv
<1> QED BY <1>3 DEF KindOf

\* A head that is with the daemon stays there, whatever is sent.
LEMMA SentTaken ==
    ASSUME TypeOK, HeadTaken, Sent(queue), sk' = sk
    PROVE  HeadTaken' /\ Head(queue').cmd = Head(queue).cmd /\ Head(queue').type = Head(queue).type
<1>1. queue # <<>> /\ Left(queue) = 0 /\ wire = <<>> /\ sk' = "open"
  BY DEF HeadTaken
<1>2. queue' # <<>> /\ queue' \in Seq(Entry) /\ Len(queue') = Len(queue)
  BY <1>1 DEF Sent
<1>3. Left(queue') = 0
  BY <1>1, SMT DEF Sent
<1>4. wire' = <<>>
  <2>1. Len(wire') = 0 /\ wire' \in Seq(Command)
    BY <1>1, <1>3, EmptySeq, SMT DEF Sent
  <2> QED BY <2>1, EmptySeq, SMT
<1>5. Head(queue) = queue[1] /\ Head(queue') = queue'[1] /\ 1 \in 1 .. Len(queue)
  BY <1>1, <1>2, HeadFacts DEF TypeOK
<1>6. Head(queue').cmd = Head(queue).cmd /\ Head(queue').type = Head(queue).type
  BY <1>5, Zenon DEF Sent
<1> QED BY <1>1, <1>2, <1>3, <1>4, <1>6 DEF HeadTaken

-----------------------------------------------------------------------------
(* Answers *)

Lines == {"SUCCESS", "ERROR", "END", "data"}

\* The last line of an answer, and of a combined one also the first, is not data;
\* everything else is.
Shape(a, two) ==
    /\ a[Len(a)] # "data"
    /\ \A i \in 2 .. Len(a) - 1 : a[i] = "data"
    /\ two => a[1] # "data"
    /\ ~two /\ Len(a) > 1 => a[1] = "data"

LEMMA AnswersShape ==
    ASSUME NEW c \in Command, NEW a \in Answers(c)
    PROVE  a \in Seq(Lines) /\ Len(a) > 0 /\ Shape(a, c \in Combined)
<1>1. CASE a = <<"SUCCESS">> \/ a = <<"ERROR">>
  <2>1. a \in Seq(Lines) /\ Len(a) = 1 /\ a[1] # "data"
    <3>1. CASE a = <<"SUCCESS">>
      BY <3>1, SMT DEF Lines
    <3>2. CASE a = <<"ERROR">>
      BY <3>2, SMT DEF Lines
    <3> QED BY <1>1, <3>1, <3>2
  <2>2. ~ (Len(a) > 1) /\ Len(a) > 0 /\ a[Len(a)] # "data"
    BY <2>1, SMT
  <2>3. \A i \in 2 .. Len(a) - 1 : a[i] = "data"
    BY <2>1, SMT
  <2> QED BY <2>1, <2>2, <2>3, Zenon DEF Shape
<1>2. CASE c \in Combined /\ a = <<"SUCCESS", "END">>
  BY <1>2, SMT DEF Lines, Shape
<1>3. CASE c \in Combined /\ a = <<"SUCCESS", "data", "END">>
  <2>1. a \in Seq(Lines) /\ Len(a) = 3
    BY <1>3, SMT DEF Lines
  <2>2. a[1] = "SUCCESS" /\ a[2] = "data" /\ a[3] = "END"
    BY <1>3, SMT
  <2>3. \A i \in 2 .. 3 - 1 : i = 2
    BY SMT
  <2> QED BY <1>3, <2>1, <2>2, <2>3, SMT DEF Shape
<1>4. CASE c \notin Combined /\ a = <<"data", "END">>
  BY <1>4, SMT DEF Lines, Shape
<1>5. \/ a = <<"SUCCESS">> \/ a = <<"ERROR">>
      \/ c \in Combined /\ a = <<"SUCCESS", "END">>
      \/ c \in Combined /\ a = <<"SUCCESS", "data", "END">>
      \/ c \notin Combined /\ a = <<"data", "END">>
  BY SMT DEF Answers
<1> QED BY <1>1, <1>2, <1>3, <1>4, <1>5

-----------------------------------------------------------------------------
(* The invariant holds: one lemma per action *)

LEMMA InitInv == Init => IInv
<1> SUFFICES ASSUME Init PROVE IInv
  OBVIOUS
<1>1. TypeOK
  BY EmptySeq, Zenon DEF Init, TypeOK
<1>2. WireInv
  <2>1. Len(queue) = 0 /\ Len(wire) = 0 /\ Left(queue) = 0
    BY EmptySeq DEF Init, Left
  <2>2. /\ \A i \in 2 .. Len(queue) : queue[i].left = Size
        /\ \A i \in 1 .. Len(wire) : wire[i] = Head(queue).cmd
        /\ ~ (Left(queue) > 0)
    BY <2>1, SMT
  <2> QED BY <2>1, <2>2, Zenon DEF Init, WireInv
<1>3. KindInv /\ ReplyInv
  BY SMT DEF Init, KindInv, ReplyInv
<1> QED BY <1>1, <1>2, <1>3 DEF IInv

\* Sending from the queue as it is.
LEMMA SendInv ==
    ASSUME IInv, Sent(queue), UNCHANGED <<sk, replies, got>>
    PROVE  IInv'
<1>0. TypeOK /\ WireInv /\ KindInv /\ ReplyInv /\ queue \in Seq(Entry)
  BY DEF IInv, TypeOK
<1>1. TypeOK'
  BY <1>0, Zenon DEF Sent, TypeOK
<1>2. WireInv'
  <2>1. WireOf(queue)
    BY <1>0, WireOfQueue
  <2>2. sk' = sk /\ (sk # "open" => replies' = <<>> /\ got' = <<>>)
    BY <1>0, Zenon DEF WireInv
  <2> QED BY <1>0, <2>1, <2>2, SentWire
<1>3. KindInv'
  <2>1. CASE HeadTaken
    <3>1. HeadTaken'
      BY <1>0, <2>1, SentTaken
    <3>2. \A i \in 1 .. Len(queue) : queue'[i].cmd = queue[i].cmd /\ queue'[i].type = queue[i].type
      BY DEF Sent
    <3> QED BY <1>0, <3>1, <3>2, Zenon DEF KindInv, Sent
  <2>2. CASE ~HeadTaken
    BY <1>0, <2>2, KindOfQueue, SentKind
  <2> QED BY <2>1, <2>2
<1>4. ReplyInv'
  <2> SUFFICES ASSUME replies # <<>> PROVE ReplyInv'
    BY DEF ReplyInv
  <2>1. HeadTaken
    BY <1>0 DEF ReplyInv
  <2>2. HeadTaken' /\ Head(queue').cmd = Head(queue).cmd /\ Head(queue').type = Head(queue).type
    BY <1>0, <2>1, SentTaken
  <2> QED BY <1>0, <2>2, Zenon DEF ReplyInv
<1> QED BY <1>1, <1>2, <1>3, <1>4 DEF IInv

\* A list that begins anew at a command the daemon knows nothing of.
LEMMA FreshInv ==
    ASSUME IInv, NEW q \in Seq(Entry), WireOf(q), KindOf(q), Sent(q),
           UNCHANGED <<sk, got>>, replies' = <<>>
    PROVE  IInv'
<1>0. TypeOK /\ WireInv
  BY DEF IInv
<1>1. TypeOK'
  BY <1>0, EmptySeq, Zenon DEF Sent, TypeOK
<1>2. WireInv'
  <2>1. sk # "open" => replies' = <<>> /\ got' = <<>>
    BY <1>0, Zenon DEF WireInv
  <2> QED BY <1>0, <2>1, SentWire
<1>3. KindInv'
  BY SentKind
<1>4. ReplyInv'
  BY DEF ReplyInv
<1> QED BY <1>1, <1>2, <1>3, <1>4 DEF IInv

\* The list of one new command.
LEMMA OneNew ==
    ASSUME NEW c \in Command, IInv, queue = <<>>
    PROVE  /\ <<NewEntry(c)>> \in Seq(Entry)
           /\ WireOf(<<NewEntry(c)>>) /\ KindOf(<<NewEntry(c)>>)
           /\ Left(<<NewEntry(c)>>) = Size /\ Cmds(<<NewEntry(c)>>) = <<c>>
<1> DEFINE e == NewEntry(c)
           q == <<e>>
<1>1. e \in Entry
  BY NewEntryType
<1>2. e.left = Size /\ e.cmd = c
  BY SMT DEF NewEntry
<1> HIDE DEF e
<1>3. q \in Seq(Entry) /\ Len(q) = 1 /\ q[1] = e /\ q # <<>>
  BY <1>1, SMT
<1>4. Left(q) = Size
  BY <1>2, <1>3, HeadFacts
<1>5. wire = <<>> /\ Len(wire) = 0
  BY EmptySeq DEF IInv, WireInv
<1>6. \A i \in 1 .. Len(wire) : wire[i] = q[1].cmd
  BY <1>5, SMT
<1>7. \A i \in 2 .. Len(q) : q[i].left = Size
  BY <1>3, SMT
<1>8. WireOf(q)
  BY <1>3, <1>4, <1>5, <1>6, <1>7, SizeNat, SMT DEF WireOf
<1>9. KindOf(q)
  <2>1. \A i \in 1 .. Len(q) : i = 1
    BY <1>3, SMT
  <2>2. e.type = NewEntry(e.cmd).type
    BY <1>2 DEF e
  <2> QED BY <1>3, <2>1, <2>2, Zenon DEF KindOf
<1>10. Cmds(q) = <<c>>
  <2>1. Cmds(q) \in Seq(Command) /\ Len(Cmds(q)) = 1 /\ Cmds(q)[1] = c
    <3>1. 1 \in 1 .. Len(q)
      BY <1>3, SMT
    <3> HIDE DEF q
    <3> QED BY <1>2, <1>3, <3>1, CmdsFacts, Zenon
  <2>2. <<c>> \in Seq(Command) /\ Len(<<c>>) = 1 /\ <<c>>[1] = c
    BY SMT
  <2>3. \A i \in 1 .. Len(Cmds(q)) : Cmds(q)[i] = <<c>>[i]
    BY <2>1, <2>2, SMT
  <2> HIDE DEF q
  <2> QED BY <2>1, <2>2, <2>3, SeqEqual, Zenon
<1> QED BY <1>3, <1>4, <1>8, <1>9, <1>10 DEF e

\* A new command behind others changes nothing of the head.
LEMMA AppendInv ==
    ASSUME IInv, NEW c \in Command, queue # <<>>,
           queue' = Append(queue, NewEntry(c)), UNCHANGED <<sk, writeDue, wire, replies, got>>
    PROVE  IInv'
<1> DEFINE e == NewEntry(c)
<1>0. TypeOK /\ WireInv /\ KindInv /\ ReplyInv /\ queue \in Seq(Entry)
  BY DEF IInv, TypeOK
<1>1. e \in Entry /\ e.left = Size /\ e.cmd = c
  BY NewEntryType, SMT DEF NewEntry
<1>2. /\ queue' \in Seq(Entry) /\ Len(queue') = Len(queue) + 1 /\ queue' # <<>>
      /\ queue'[Len(queue) + 1] = e /\ \A i \in 1 .. Len(queue) : queue'[i] = queue[i]
  <2>1. queue \in Seq(Entry) /\ e \in Entry /\ queue' = Append(queue, e)
    BY <1>0, <1>1
  <2> HIDE DEF e
  <2> QED BY <2>1, EntryAppended
<1>3. Len(queue) \in Nat /\ 1 \in 1 .. Len(queue) /\ Head(queue) = queue[1]
  BY <1>0, HeadFacts, LenProperties
<1>4. Head(queue') = Head(queue) /\ Left(queue') = Left(queue)
  <2>1. Head(queue') = queue'[1]
    BY <1>2, HeadFacts
  <2> QED BY <1>2, <1>3, <2>1, Zenon DEF Left
<1>5. HeadTaken' = HeadTaken
  BY <1>2, <1>4, Zenon DEF HeadTaken
<1>6. \A i \in 1 .. Len(queue') : i \in 1 .. Len(queue) \/ queue'[i] = e
  BY <1>2, <1>3, SMT
<1>7. TypeOK'
  BY <1>0, <1>2, Zenon DEF TypeOK
<1>8. WireInv'
  <2>1. \A i \in 2 .. Len(queue') : queue'[i].left = Size
    <3>1. \A i \in 2 .. Len(queue') :
             (i \in 2 .. Len(queue) /\ i \in 1 .. Len(queue)) \/ queue'[i] = e
      BY <1>2, <1>3, <1>6, SMT
    <3> QED BY <1>0, <1>1, <1>2, <3>1, Zenon DEF WireInv
  <2> QED BY <1>0, <1>2, <1>4, <2>1, Zenon DEF WireInv
<1>9. KindInv'
  <2> SUFFICES ASSUME NEW i \in 1 .. Len(queue')
               PROVE  \/ queue'[i].type = NewEntry(queue'[i].cmd).type
                      \/ i = 1 /\ HeadTaken
    BY <1>5, Zenon DEF KindInv
  <2>1. CASE i \in 1 .. Len(queue)
    BY <1>0, <1>2, <2>1, Zenon DEF KindInv
  <2>2. CASE queue'[i] = e
    BY <1>1, <2>2
  <2> QED BY <1>6, <2>1, <2>2
<1>10. ReplyInv'
  BY <1>0, <1>4, <1>5, Zenon DEF ReplyInv
<1> QED BY <1>7, <1>8, <1>9, <1>10 DEF IInv

LEMMA ManagementCommandInv ==
    ASSUME IInv, NEW c \in Command, ManagementCommand(c)
    PROVE  IInv'
<1>1. CASE queue = <<>>
  <2>1. SendCommand(<<NewEntry(c)>>) /\ UNCHANGED <<sk, replies, got>>
    BY <1>1 DEF ManagementCommand
  <2>2. /\ <<NewEntry(c)>> \in Seq(Entry)
        /\ WireOf(<<NewEntry(c)>>) /\ KindOf(<<NewEntry(c)>>)
    BY <1>1, OneNew
  <2>3. Sent(<<NewEntry(c)>>)
    BY <2>1, <2>2, SendEffect DEF IInv
  <2>4. replies' = <<>>
    BY <1>1, <2>1, Zenon DEF IInv, ReplyInv, HeadTaken
  <2> QED BY <2>1, <2>2, <2>3, <2>4, FreshInv
<1>2. CASE queue # <<>>
  <2>1. queue' = Append(queue, NewEntry(c)) /\ UNCHANGED <<sk, writeDue, wire, replies, got>>
    BY <1>2, Zenon DEF ManagementCommand
  <2> QED BY <1>2, <2>1, AppendInv
<1> QED BY <1>1, <1>2

LEMMA FdWriteInv == IInv /\ FdWrite => IInv'
<1> SUFFICES ASSUME IInv, FdWrite PROVE IInv'
  OBVIOUS
<1>1. TypeOK /\ queue \in Seq(Entry) /\ writeDue' \in BOOLEAN /\ UNCHANGED <<sk, replies, got>>
  BY DEF IInv, TypeOK, FdWrite
<1>2. CASE NothingToSend(queue)
  <2>1. queue' = queue /\ wire' = wire
    BY <1>2 DEF NothingToSend
  <2> QED BY <1>1, <2>1, NothingSent, SendInv
<1>3. CASE Transmit(queue)
  BY <1>1, <1>3, TransmitSends, SendInv
<1> QED BY <1>2, <1>3 DEF FdWrite

\* Answers left to read are about a head that the daemon has.
LEMMA ReplyFacts ==
    ASSUME IInv, replies # <<>>
    PROVE  /\ HeadTaken /\ queue # <<>> /\ wire = <<>> /\ sk = "open"
           /\ Len(replies) \in Nat /\ Len(replies) > 0
           /\ 1 \in 1 .. Len(replies) /\ Head(replies) = replies[1]
           /\ Tail(replies) \in Seq(Reply) /\ Len(Tail(replies)) = Len(replies) - 1
           /\ \A i \in 1 .. Len(Tail(replies)) : Tail(replies)[i] = replies[i + 1]
<1>1. replies \in Seq(Reply) /\ HeadTaken
  BY DEF IInv, ReplyInv, TypeOK
<1>2. Len(replies) \in Nat /\ Len(replies) > 0
  BY <1>1, EmptySeq, SMT
<1>3. Head(replies) = replies[1] /\ 1 \in 1 .. Len(replies)
  BY <1>1, <1>2, HeadIsFirst, SMT
<1>4. /\ Tail(replies) \in Seq(Reply) /\ Len(Tail(replies)) = Len(replies) - 1
      /\ \A i \in 1 .. Len(Tail(replies)) : Tail(replies)[i] = replies[i + 1]
  BY <1>1, HeadTailProperties
<1> QED BY <1>1, <1>2, <1>3, <1>4 DEF HeadTaken

\* The rest of an answer: if its first line was data, or the first end of two, it
\* has the shape of an answer of a regular command.
LEMMA RestOfAnswer ==
    ASSUME IInv, replies # <<>>, Len(replies) > 1, replies' = Tail(replies)
    PROVE  /\ replies'[Len(replies')].line # "data"
           /\ \A i \in 2 .. Len(replies') - 1 : replies'[i].line = "data"
           /\ Len(replies') > 1 => replies'[1].line = "data"
           /\ \A i \in 1 .. Len(replies') : replies'[i].to = Head(queue).cmd
<1>1. /\ Len(replies) \in Nat /\ Len(replies') = Len(replies) - 1
      /\ \A i \in 1 .. Len(replies') : replies'[i] = replies[i + 1]
  BY ReplyFacts
<1>2. /\ replies[Len(replies)].line # "data"
      /\ \A i \in 2 .. Len(replies) - 1 : replies[i].line = "data"
      /\ \A i \in 1 .. Len(replies) : replies[i].to = Head(queue).cmd
  BY DEF IInv, ReplyInv
<1>3. replies'[Len(replies')] = replies[Len(replies)]
  BY <1>1, SMT
<1>4. ASSUME NEW i \in 2 .. Len(replies') - 1 PROVE replies'[i].line = "data"
  <2>1. i \in 1 .. Len(replies') /\ i + 1 \in 2 .. Len(replies) - 1
    BY <1>1, SMT
  <2> QED BY <1>1, <1>2, <2>1, Zenon
<1>5. ASSUME Len(replies') > 1 PROVE replies'[1].line = "data"
  <2>1. 1 \in 1 .. Len(replies') /\ 1 + 1 \in 2 .. Len(replies) - 1
    BY <1>1, <1>5, SMT
  <2> QED BY <1>1, <1>2, <2>1, Zenon
<1>6. ASSUME NEW i \in 1 .. Len(replies') PROVE replies'[i].to = Head(queue).cmd
  <2>1. i + 1 \in 1 .. Len(replies)
    BY <1>1, SMT
  <2> QED BY <1>1, <1>2, <2>1, Zenon
<1> QED BY <1>2, <1>3, <1>4, <1>5, <1>6, Zenon

\* A line that does not end a command leaves the list alone.
LEMMA DataInv ==
    ASSUME IInv, replies # <<>>, replies' = Tail(replies), Head(replies).line = "data",
           UNCHANGED <<sk, queue, writeDue, wire, got>>
    PROVE  IInv'
<1>0. TypeOK /\ WireInv /\ KindInv /\ ReplyInv /\ queue \in Seq(Entry)
  BY DEF IInv, TypeOK
<1>1. HeadTaken /\ queue # <<>> /\ sk = "open" /\ Head(replies) = replies[1]
      /\ Len(replies) \in Nat /\ Len(replies) > 0 /\ Tail(replies) \in Seq(Reply)
  BY ReplyFacts
<1>2. Len(replies) > 1
  <2>1. replies[1].line = "data" /\ replies[Len(replies)].line # "data"
    BY <1>0, <1>1 DEF ReplyInv
  <2> QED BY <1>1, <2>1, SMT
<1>3. /\ replies'[Len(replies')].line # "data"
      /\ \A i \in 2 .. Len(replies') - 1 : replies'[i].line = "data"
      /\ Len(replies') > 1 => replies'[1].line = "data"
      /\ \A i \in 1 .. Len(replies') : replies'[i].to = Head(queue).cmd
  BY <1>2, RestOfAnswer
<1>4. Head(queue).type # "combined"
  BY <1>0, <1>1 DEF ReplyInv
<1>5. TypeOK'
  BY <1>0, <1>1, Zenon DEF TypeOK
<1>6. HeadTaken' /\ Head(queue') = Head(queue)
  BY <1>1, Zenon DEF HeadTaken, Left
<1>7. WireInv'
  BY <1>0, <1>1, Zenon DEF WireInv, Left
<1>8. KindInv'
  BY <1>0, <1>6, Zenon DEF KindInv
<1>9. ReplyInv'
  BY <1>3, <1>4, <1>6, Zenon DEF ReplyInv
<1> QED BY <1>5, <1>7, <1>8, <1>9 DEF IInv

\* The first end of a combined command.
LEMMA FirstEndInv ==
    ASSUME IInv, replies # <<>>, replies' = Tail(replies), Head(queue).type = "combined",
           queue' = [queue EXCEPT ![1].type = "regular"],
           UNCHANGED <<sk, writeDue, wire, got>>
    PROVE  IInv'
<1>0. TypeOK /\ WireInv /\ KindInv /\ ReplyInv /\ queue \in Seq(Entry)
  BY DEF IInv, TypeOK
<1>1. HeadTaken /\ queue # <<>> /\ sk = "open" /\ wire = <<>>
      /\ Len(replies) \in Nat /\ Len(replies) > 0
      /\ Tail(replies) \in Seq(Reply) /\ Len(Tail(replies)) = Len(replies) - 1
  BY ReplyFacts
<1>2. /\ queue' \in Seq(Entry) /\ Len(queue') = Len(queue) /\ queue' # <<>>
      /\ queue'[1].left = queue[1].left /\ queue'[1].cmd = queue[1].cmd
      /\ queue'[1].type = "regular"
      /\ \A i \in 2 .. Len(queue) : queue'[i] = queue[i]
  <2>1. queue \in Seq(Entry) /\ queue # <<>> /\ queue' = HeadRegular(queue)
    BY <1>0, <1>1 DEF HeadRegular
  <2>2. /\ HeadRegular(queue) \in Seq(Entry) /\ Len(HeadRegular(queue)) = Len(queue)
        /\ HeadRegular(queue) # <<>>
        /\ HeadRegular(queue)[1].left = queue[1].left
        /\ HeadRegular(queue)[1].cmd = queue[1].cmd
        /\ HeadRegular(queue)[1].type = "regular"
        /\ \A i \in 2 .. Len(queue) : HeadRegular(queue)[i] = queue[i]
    BY <2>1, SetRegular, Zenon
  <2> QED BY <2>1, <2>2, Zenon
<1>3. Head(queue) = queue[1] /\ Head(queue') = queue'[1]
      /\ Left(queue) = queue[1].left /\ Left(queue') = queue'[1].left
  BY <1>0, <1>1, <1>2, HeadFacts
<1>4. HeadTaken'
  BY <1>1, <1>2, <1>3, Zenon DEF HeadTaken
<1>5. TypeOK'
  BY <1>0, <1>1, <1>2, Zenon DEF TypeOK
<1>6. WireInv'
  <2>1. \A i \in 2 .. Len(queue') : queue'[i].left = Size
    BY <1>0, <1>2, Zenon DEF WireInv
  <2>2. Left(queue') = 0 /\ ~ (Left(queue') > 0)
    BY <1>4, SMT DEF HeadTaken
  <2>3. \A i \in 1 .. Len(wire') : wire'[i] = Head(queue').cmd
    BY <1>0, <1>2, <1>3, Zenon DEF WireInv
  <2> QED BY <1>1, <1>2, <2>1, <2>2, <2>3, Zenon DEF WireInv
<1>7. KindInv'
  <2> SUFFICES ASSUME NEW i \in 1 .. Len(queue')
               PROVE  \/ queue'[i].type = NewEntry(queue'[i].cmd).type
                      \/ i = 1 /\ HeadTaken'
    BY Zenon DEF KindInv
  <2>1. CASE i = 1
    BY <1>4, <2>1
  <2>2. CASE i # 1
    <3>1. i \in 2 .. Len(queue) /\ i \in 1 .. Len(queue)
      BY <1>0, <1>2, <2>2, LenProperties, SMT
    <3> QED BY <1>0, <1>2, <2>2, <3>1, Zenon DEF KindInv
  <2> QED BY <2>1, <2>2
<1>8. ReplyInv'
  <2> SUFFICES ASSUME replies' # <<>> PROVE ReplyInv'
    BY DEF ReplyInv
  <2>1. Len(replies) > 1
    BY <1>1, EmptySeq, SMT
  <2>2. /\ replies'[Len(replies')].line # "data"
        /\ \A i \in 2 .. Len(replies') - 1 : replies'[i].line = "data"
        /\ Len(replies') > 1 => replies'[1].line = "data"
        /\ \A i \in 1 .. Len(replies') : replies'[i].to = Head(queue).cmd
    BY <2>1, RestOfAnswer
  <2>3. Head(queue').type # "combined" /\ Head(queue').cmd = Head(queue).cmd
    BY <1>2, <1>3
  <2> QED BY <1>4, <2>2, <2>3, Zenon DEF ReplyInv
<1> QED BY <1>5, <1>6, <1>7, <1>8 DEF IInv

\* The list behind a head that the daemon has.
LEMMA WireOfTail ==
    ASSUME TypeOK, WireInv, queue # <<>>, wire = <<>>, sk = "open"
    PROVE  WireOf(Tail(queue)) /\ (Tail(queue) # <<>> => Left(Tail(queue)) = Size)
<1> DEFINE t == Tail(queue)
<1>1. /\ t \in Seq(Entry) /\ Len(t) = Len(queue) - 1
      /\ \A i \in 1 .. Len(t) : t[i] = queue[i + 1] /\ i + 1 \in 2 .. Len(queue)
  BY TailFacts DEF TypeOK
<1>2. \A i \in 1 .. Len(t) : t[i].left = Size
  BY <1>1, Zenon DEF WireInv
<1> HIDE DEF t
<1>3. Len(t) \in Nat /\ Len(wire) = 0
  BY <1>1, LenProperties, EmptySeq
<1>4. \A i \in 2 .. Len(t) : t[i].left = Size
  BY <1>2, <1>3, SMT
<1>9. t # <<>> => Left(t) = Size
  BY <1>1, <1>2, HeadFacts, Zenon
<1>5. Left(t) > 0 => Left(t) = Size
  <2>1. t = <<>> => ~ (Left(t) > 0)
    <3>1. t = <<>> => Left(t) = 0
      BY DEF Left
    <3> QED BY <3>1, SMT
  <2> QED BY <1>9, <2>1
<1>6. Left(t) > 0 => Len(wire) = Size - Left(t)
  BY <1>3, <1>5, SizeNat, SMT
<1>7. \A i \in 1 .. Len(wire) : wire[i] = t[1].cmd
  BY <1>3, SMT
<1>8. WireOf(t)
  BY <1>4, <1>6, <1>7, Zenon DEF WireOf
<1> QED BY <1>8, <1>9 DEF t

\* The end of a regular command is the last line of its answer.
LEMMA LastEnd ==
    ASSUME IInv, replies # <<>>, Head(replies).line # "data", Head(queue).type # "combined"
    PROVE  Tail(replies) = <<>>
<1>1. HeadTaken /\ queue # <<>> /\ Head(replies) = replies[1]
      /\ Len(replies) \in Nat /\ Len(replies) > 0
      /\ Tail(replies) \in Seq(Reply) /\ Len(Tail(replies)) = Len(replies) - 1
  BY ReplyFacts
<1>2. queue \in Seq(Entry) /\ ReplyInv
  BY DEF IInv, TypeOK
<1>3. Head(queue).type \in {"regular", "combined"}
  BY <1>1, <1>2, HeadFacts, EntryFields, Zenon
<1>4. ~ (Len(replies) > 1)
  BY <1>1, <1>2, <1>3, Zenon DEF ReplyInv
<1> QED BY <1>1, <1>4, EmptySeq, SMT

LEMMA ReadReplyInv == IInv /\ ReadReply => IInv'
<1> SUFFICES ASSUME IInv, ReadReply PROVE IInv'
  OBVIOUS
<1>1. replies # <<>> /\ replies' = Tail(replies) /\ UNCHANGED <<sk, got>>
  BY DEF ReadReply
<1>2. queue # <<>> /\ wire = <<>> /\ sk = "open"
  BY <1>1, ReplyFacts
<1>3. TypeOK /\ WireInv /\ KindInv /\ queue \in Seq(Entry)
  BY DEF IInv, TypeOK
<1>4. CASE Head(replies).line = "data"
  BY <1>1, <1>4, DataInv DEF ReadReply
<1>5. CASE Head(replies).line # "data" /\ Head(queue).type = "combined"
  <2>1. queue' = [queue EXCEPT ![1].type = "regular"] /\ UNCHANGED <<wire, writeDue>>
    BY <1>2, <1>5, Zenon DEF ReadReply, UnqueueCommand
  <2> QED BY <1>1, <1>5, <2>1, FirstEndInv
<1>6. CASE Head(replies).line # "data" /\ Head(queue).type # "combined"
  <2>1. SendCommand(Tail(queue))
    BY <1>2, <1>6, Zenon DEF ReadReply, UnqueueCommand
  <2>2. Tail(queue) \in Seq(Entry)
    BY <1>2, <1>3, TailFacts
  <2>3. WireOf(Tail(queue)) /\ KindOf(Tail(queue)) /\ Sent(Tail(queue))
    BY <1>2, <1>3, <2>1, <2>2, WireOfTail, KindOfTail, SendEffect
  <2>4. replies' = <<>>
    BY <1>1, <1>6, LastEnd
  <2> QED BY <1>1, <2>2, <2>3, <2>4, FreshInv
<1> QED BY <1>4, <1>5, <1>6

\* What the daemon reads is the whole head, which it then has.
LEMMA DaemonReadsFacts ==
    ASSUME IInv, DaemonReads
    PROVE  /\ sk = "open" /\ queue # <<>> /\ ~HeadTaken /\ HeadTaken' /\ replies = <<>>
           /\ Left(queue) = 0 /\ wire' = <<>>
           /\ wire[1] = Head(queue).cmd /\ wire[1] \in Command
           /\ UNCHANGED <<sk, queue, writeDue>>
<1>0. TypeOK /\ WireInv /\ ReplyInv /\ queue \in Seq(Entry) /\ wire \in Seq(Command)
  BY DEF IInv, TypeOK
<1>1. sk = "open" /\ Len(wire) >= Size /\ wire' = SubSeq(wire, Size + 1, Len(wire))
      /\ UNCHANGED <<sk, queue, writeDue>>
  BY DEF DaemonReads, Whole
<1>2. Len(wire) \in Nat /\ Len(wire) > 0 /\ wire # <<>> /\ 1 \in 1 .. Len(wire)
  BY <1>0, <1>1, SizeNat, EmptySeq, LenProperties, SMT
<1>3. queue # <<>> /\ wire[1] = Head(queue).cmd /\ ~HeadTaken /\ replies = <<>>
  BY <1>0, <1>2, Zenon DEF WireInv, ReplyInv, HeadTaken
<1>4. Left(queue) \in 0 .. Size
  BY <1>0, HeadFacts
<1>5. Left(queue) > 0 => Len(wire) = Size - Left(queue)
  BY <1>0 DEF WireInv
<1>6. Left(queue) = 0
  BY <1>1, <1>2, <1>4, <1>5, SizeNat, SMT
<1>7. Len(wire) = Size
  BY <1>0, <1>2, <1>6 DEF WireInv
<1>8. wire' = <<>>
  <2>1. Size + 1 \in Int /\ Len(wire) \in Int /\ Len(wire) < Size + 1
    BY <1>7, SizeNat, SMT
  <2> QED BY <1>1, <2>1, SubSeqEmpty
<1>9. HeadTaken'
  <2>1. Left(queue') = 0 /\ sk' = "open" /\ queue' # <<>>
    BY <1>1, <1>3, <1>6
  <2> QED BY <1>8, <2>1, Zenon DEF HeadTaken
<1>10. wire[1] \in Command
  BY <1>0, <1>2, ElementOfSeq
<1> QED BY <1>1, <1>3, <1>6, <1>8, <1>9, <1>10, Zenon

LEMMA DaemonReadsInv == IInv /\ DaemonReads => IInv'
<1> SUFFICES ASSUME IInv, DaemonReads PROVE IInv'
  OBVIOUS
<1> DEFINE c == wire[1]
<1>0. TypeOK /\ WireInv /\ KindInv /\ queue \in Seq(Entry)
  BY DEF IInv, TypeOK
<1>1. /\ sk = "open" /\ queue # <<>> /\ ~HeadTaken /\ HeadTaken' /\ replies = <<>>
      /\ Left(queue) = 0 /\ wire' = <<>> /\ c = Head(queue).cmd /\ c \in Command
      /\ UNCHANGED <<sk, queue, writeDue>>
  BY DaemonReadsFacts
<1>2. PICK a \in Answers(c) :
        replies' = replies \o [i \in 1 .. Len(a) |-> [to |-> c, line |-> a[i]]]
  BY DEF DaemonReads
<1>3. got' = Append(got, c)
  BY DEF DaemonReads
<1>4. a \in Seq(Lines) /\ Len(a) > 0 /\ Shape(a, c \in Combined) /\ Len(a) \in Nat
  BY <1>1, AnswersShape, LenProperties
<1> DEFINE r == [i \in 1 .. Len(a) |-> [to |-> c, line |-> a[i]]]
<1>5. r \in Seq(Reply) /\ Len(r) = Len(a)
      /\ \A i \in 1 .. Len(a) : r[i].to = c /\ r[i].line = a[i]
  <2>1. \A i \in 1 .. Len(a) : a[i] \in Lines
    BY <1>4, ElementOfSeq
  <2>2. \A i \in 1 .. Len(a) : [to |-> c, line |-> a[i]] \in Reply
    BY <1>1, <2>1, SMT DEF Reply, Lines
  <2> HIDE DEF c
  <2>3. r \in Seq(Reply) /\ Len(r) = Len(a)
    BY <1>4, <2>2, SMT
  <2>4. \A i \in 1 .. Len(a) : r[i] = [to |-> c, line |-> a[i]]
    BY Zenon
  <2> QED BY <2>3, <2>4, SMT
<1>6. replies' = r
  <2> HIDE DEF r
  <2>1. replies' = <<>> \o r
    BY <1>1, <1>2 DEF r
  <2> QED BY <1>5, <2>1, ConcatEmptySeq
<1> HIDE DEF r, c
<1>7. TypeOK'
  <2>1. wire' \in Seq(Command) /\ got' \in Seq(Command)
    BY <1>0, <1>1, <1>3, EmptySeq, AppendProperties DEF TypeOK
  <2> QED BY <1>0, <1>1, <1>5, <1>6, <2>1, Zenon DEF TypeOK
<1>8. WireInv'
  <2>1. ~ (Left(queue') > 0) /\ Left(queue') = 0
    BY <1>1, SMT
  <2>2. \A i \in 1 .. Len(wire') : wire'[i] = Head(queue').cmd
    <3>1. Len(wire') = 0
      BY <1>1, EmptySeq
    <3> QED BY <3>1, SMT
  <2>3. \A i \in 2 .. Len(queue') : queue'[i].left = Size
    BY <1>0, <1>1, Zenon DEF WireInv
  <2> QED BY <1>1, <2>1, <2>2, <2>3, Zenon DEF WireInv
<1>9. KindInv'
  BY <1>0, <1>1, Zenon DEF KindInv
<1>10. ReplyInv'
  <2>1. Head(queue).type = NewEntry(Head(queue).cmd).type
    <3>1. KindOf(queue)
      BY <1>0, <1>1, KindOfQueue
    <3>2. 1 \in 1 .. Len(queue) /\ Head(queue) = queue[1]
      BY <1>0, <1>1, HeadFacts
    <3> QED BY <3>1, <3>2 DEF KindOf
  <2>2. Head(queue).type = "combined" <=> c \in Combined
    BY <1>1, <2>1, SMT DEF NewEntry
  <2>3. Head(queue).type = "regular" <=> c \notin Combined
    BY <1>1, <2>1, SMT DEF NewEntry
  <2>4. 1 \in 1 .. Len(a) /\ Len(a) \in 1 .. Len(a)
        /\ \A i \in 2 .. Len(a) - 1 : i \in 1 .. Len(a)
    BY <1>4, SMT
  <2>5. /\ r[Len(r)].line = a[Len(a)] /\ r[1].line = a[1]
        /\ \A i \in 2 .. Len(r) - 1 : r[i].line = a[i]
    BY <1>5, <2>4, Zenon
  <2>6. /\ a[Len(a)] # "data" /\ \A i \in 2 .. Len(a) - 1 : a[i] = "data"
        /\ c \in Combined => a[1] # "data"
        /\ c \notin Combined /\ Len(a) > 1 => a[1] = "data"
    BY <1>4, Zenon DEF Shape
  <2>7. \A i \in 1 .. Len(r) : r[i].to = Head(queue).cmd
    BY <1>1, <1>5, Zenon
  <2>8. /\ r[Len(r)].line # "data" /\ \A i \in 2 .. Len(r) - 1 : r[i].line = "data"
        /\ Head(queue).type = "combined" => r[1].line # "data"
        /\ Head(queue).type = "regular" /\ Len(r) > 1 => r[1].line = "data"
    BY <1>5, <2>2, <2>3, <2>5, <2>6, Zenon
  <2> QED BY <1>1, <1>6, <2>7, <2>8, Zenon DEF ReplyInv
<1> QED BY <1>7, <1>8, <1>9, <1>10 DEF IInv

LEMMA OpenManagementInv == IInv /\ OpenManagement => IInv'
<1> SUFFICES ASSUME IInv, OpenManagement PROVE IInv'
  OBVIOUS
<1>1. sk = "closed" /\ sk' = "connecting" /\ UNCHANGED <<queue, writeDue, wire, replies, got>>
  BY DEF OpenManagement
<1>2. TypeOK'
  BY <1>1, Zenon DEF IInv, TypeOK
<1>3. WireInv'
  BY <1>1, Zenon DEF IInv, WireInv, Left
<1>4. KindInv' /\ ReplyInv'
  BY <1>1, Zenon DEF IInv, KindInv, ReplyInv, HeadTaken
<1> QED BY <1>2, <1>3, <1>4 DEF IInv

LEMMA FdConnectInv == IInv /\ FdConnect => IInv'
<1> SUFFICES ASSUME IInv, FdConnect PROVE IInv'
  OBVIOUS
<1>1. sk = "connecting" /\ sk' = "open" /\ writeDue' = TRUE
      /\ UNCHANGED <<queue, wire, replies, got>>
  BY DEF FdConnect
<1>2. TypeOK'
  BY <1>1, Zenon DEF IInv, TypeOK
<1>3. WireInv'
  BY <1>1, Zenon DEF IInv, WireInv, Left
<1>4. KindInv' /\ ReplyInv'
  BY <1>1, Zenon DEF IInv, KindInv, ReplyInv, HeadTaken
<1> QED BY <1>2, <1>3, <1>4 DEF IInv

LEMMA CloseManagementInv == IInv /\ CloseManagement => IInv'
<1> SUFFICES ASSUME IInv, CloseManagement PROVE IInv'
  OBVIOUS
<1>1. /\ sk' = "closed" /\ queue' = <<>> /\ writeDue' = FALSE
      /\ wire' = <<>> /\ replies' = <<>> /\ got' = <<>>
  BY DEF CloseManagement
<1>2. TypeOK'
  BY <1>1, EmptySeq, Zenon DEF TypeOK
<1>3. WireInv'
  <2>1. Len(queue') = 0 /\ Len(wire') = 0 /\ Left(queue') = 0
    BY <1>1, EmptySeq DEF Left
  <2>2. /\ \A i \in 2 .. Len(queue') : queue'[i].left = Size
        /\ \A i \in 1 .. Len(wire') : wire'[i] = Head(queue').cmd
        /\ ~ (Left(queue') > 0)
    BY <2>1, SMT
  <2> QED BY <1>1, <2>1, <2>2, Zenon DEF WireInv
<1>4. KindInv'
  <2>1. \A i \in 1 .. Len(queue') : FALSE
    BY <1>1, EmptySeq, SMT
  <2> QED BY <2>1, Zenon DEF KindInv
<1>5. ReplyInv'
  BY <1>1 DEF ReplyInv
<1> QED BY <1>2, <1>3, <1>4, <1>5 DEF IInv

LEMMA StutterInv == IInv /\ UNCHANGED vars => IInv'
BY Zenon DEF vars, IInv, TypeOK, WireInv, KindInv, ReplyInv, HeadTaken, Left

LEMMA StepInv == IInv /\ [Next]_vars => IInv'
<1> SUFFICES ASSUME IInv, [Next]_vars PROVE IInv'
  OBVIOUS
<1>1. ASSUME NEW c \in Command, ManagementCommand(c) PROVE IInv'
  BY <1>1, ManagementCommandInv
<1> QED BY <1>1, OpenManagementInv, FdConnectInv, FdWriteInv, ReadReplyInv,
           CloseManagementInv, DaemonReadsInv, StutterInv DEF Next

THEOREM Invariance == Spec => []IInv
BY InitInv, StepInv, PTL DEF Spec

\* Every variable has its type in every run (manage.c).
THEOREM TypeCorrect == Spec => []TypeOK
<1>1. IInv => TypeOK
  BY DEF IInv
<1> QED BY <1>1, Invariance, PTL

\* The answer that OnManagement reads is always for the command at the head of the
\* list, so the handler it calls and the command it removes are the right ones:
\* for any partial or blocked sends, and even if combined commands are refused.
THEOREM RightCommand == Spec => []ReplyToHead
<1>1. IInv => ReplyToHead
  <2> SUFFICES ASSUME IInv, NEW i \in 1 .. Len(replies)
               PROVE  queue # <<>> /\ Head(queue).cmd = replies[i].to
    BY DEF ReplyToHead
  <2>1. replies # <<>>
    BY EmptySeq, SMT
  <2> QED BY <2>1, Zenon DEF IInv, ReplyInv, HeadTaken
<1> QED BY <1>1, Invariance, PTL

-----------------------------------------------------------------------------
(* The list implements the channel *)

LEMMA ChanType == TypeOK => Cmds(queue) \in Seq(Command)
BY CmdsFacts DEF TypeOK

\* Sending, and everything else that keeps the commands and does not give the
\* daemon a whole one, is invisible.
LEMMA SentChan ==
    ASSUME IInv, Sent(queue), UNCHANGED sk
    PROVE  Chan' = Chan
<1>0. TypeOK /\ WireInv /\ queue \in Seq(Entry)
  BY DEF IInv, TypeOK
<1>1. Cmds(queue') = Cmds(queue)
  <2>1. queue' \in Seq(Entry) /\ Len(queue') = Len(queue)
        /\ \A i \in 1 .. Len(queue') : queue'[i].cmd = queue[i].cmd
    BY Zenon DEF Sent
  <2> QED BY <1>0, <2>1, CmdsSame
<1>2. HeadTaken => HeadTaken'
  BY <1>0, SentTaken
<1>3. HeadTaken' => HeadTaken
  <2> SUFFICES ASSUME HeadTaken' PROVE HeadTaken
    OBVIOUS
  <2>1. sk = "open" /\ queue # <<>> /\ Left(queue') = 0 /\ wire' = <<>>
    BY DEF HeadTaken, Sent
  <2>2. Left(queue) \in 0 .. Size /\ Len(wire) \in Nat /\ wire \in Seq(Command)
    BY <1>0, HeadFacts, LenProperties DEF TypeOK
  <2>3. 0 = Len(wire) + Left(queue) - 0
    BY <2>1, EmptySeq DEF Sent
  <2>4. Left(queue) = 0 /\ Len(wire) = 0
    BY <2>2, <2>3, SizeNat, SMT
  <2>5. wire = <<>>
    BY <2>2, <2>4, EmptySeq, SMT
  <2> QED BY <2>1, <2>4, <2>5 DEF HeadTaken
<1> QED BY <1>1, <1>2, <1>3, Zenon DEF Chan

\* Sending from a list whose head the daemon knows nothing of shows all of it.
LEMMA FreshChan ==
    ASSUME IInv, NEW q \in Seq(Entry), Sent(q), UNCHANGED sk, wire = <<>>,
           q # <<>> => Left(q) = Size
    PROVE  Chan' = Cmds(q)
<1>0. TypeOK /\ WireInv
  BY DEF IInv
<1>1. Cmds(queue') = Cmds(q)
  <2>1. queue' \in Seq(Entry) /\ Len(queue') = Len(q)
        /\ \A i \in 1 .. Len(queue') : queue'[i].cmd = q[i].cmd
    BY Zenon DEF Sent
  <2> QED BY <2>1, CmdsSame
<1>2. ~HeadTaken'
  <2> SUFFICES ASSUME HeadTaken' PROVE FALSE
    OBVIOUS
  <2>1. q # <<>> /\ Left(queue') = 0 /\ wire' = <<>>
    BY DEF HeadTaken, Sent
  <2>2. Left(q) \in 0 .. Size
    BY HeadFacts
  <2>3. 0 = Len(wire) + Left(q) - 0 /\ Len(wire) = 0
    BY <2>1, EmptySeq DEF Sent
  <2>4. Left(q) = 0
    BY <2>2, <2>3, SizeNat, SMT
  <2>5. Left(q) # 0
    BY <2>1, SizeNat, SMT
  <2> QED BY <2>4, <2>5
<1> QED BY <1>1, <1>2 DEF Chan

LEMMA IssueStep ==
    ASSUME IInv, NEW c \in Command, ManagementCommand(c)
    PROVE  Channel!Next
<1>0. TypeOK /\ queue \in Seq(Entry) /\ UNCHANGED <<sk, got>>
  BY DEF IInv, TypeOK, ManagementCommand
<1>1. Chan' = Append(Chan, c)
  <2>1. CASE queue = <<>>
    <3>1. SendCommand(<<NewEntry(c)>>)
      BY <2>1 DEF ManagementCommand
    <3>2. <<NewEntry(c)>> \in Seq(Entry) /\ Left(<<NewEntry(c)>>) = Size
          /\ Cmds(<<NewEntry(c)>>) = <<c>>
      BY <2>1, OneNew
    <3>3. Sent(<<NewEntry(c)>>)
      BY <1>0, <3>1, <3>2, SendEffect
    <3>4. wire = <<>>
      BY <2>1 DEF IInv, WireInv
    <3>5. Chan' = <<c>>
      BY <1>0, <3>2, <3>3, <3>4, FreshChan
    <3>6. Chan = <<>>
      <4>1. Cmds(queue) \in Seq(Command) /\ Len(Cmds(queue)) = 0
        BY <1>0, <2>1, CmdsFacts, EmptySeq
      <4>2. Cmds(queue) = <<>>
        BY <4>1, EmptySeq, SMT
      <4> QED BY <2>1, <4>2 DEF Chan, HeadTaken
    <3> QED BY <3>5, <3>6, SMT
  <2>2. CASE queue # <<>>
    <3>1. queue' = Append(queue, NewEntry(c)) /\ UNCHANGED wire
      BY <2>2, Zenon DEF ManagementCommand
    <3>2. NewEntry(c) \in Entry /\ NewEntry(c).cmd = c
      BY NewEntryType, SMT DEF NewEntry
    <3>3. Cmds(queue') = Append(Cmds(queue), c)
      BY <1>0, <3>1, <3>2, CmdsAppend, Zenon
    <3>4. queue' # <<>> /\ Head(queue') = Head(queue)
      <4>1. Append(queue, NewEntry(c)) # <<>>
        BY <1>0, <3>2, EntryAppended
      <4>2. Head(Append(queue, NewEntry(c))) = Head(queue)
        BY <1>0, <2>2, <3>2, HeadAppended
      <4> QED BY <3>1, <4>1, <4>2
    <3>5. HeadTaken' = HeadTaken
      BY <1>0, <2>2, <3>1, <3>4, Zenon DEF HeadTaken, Left
    <3>6. Cmds(queue) \in Seq(Command) /\ Cmds(queue) # <<>>
      BY <1>0, <2>2, ChanType, CmdsTail
    <3>7. Tail(Append(Cmds(queue), c)) = Append(Tail(Cmds(queue)), c)
      BY <3>6, HeadTailAppend, Zenon
    <3> QED BY <3>3, <3>5, <3>7, Zenon DEF Chan
  <2> QED BY <2>1, <2>2
<1>2. (sk = "open")' = (sk = "open") /\ got' = got
  BY <1>0
<1> QED BY <1>1, <1>2, Zenon DEF Channel!Next, Channel!Issue

LEMMA DeliverStep == IInv /\ DaemonReads => Channel!Next
<1> SUFFICES ASSUME IInv, DaemonReads PROVE Channel!Next
  OBVIOUS
<1>1. /\ sk = "open" /\ queue # <<>> /\ ~HeadTaken /\ HeadTaken'
      /\ wire[1] = Head(queue).cmd /\ UNCHANGED <<sk, queue>>
  BY DaemonReadsFacts
<1>2. queue \in Seq(Entry) /\ got' = Append(got, wire[1])
  BY DEF IInv, TypeOK, DaemonReads
<1>3. Chan = Cmds(queue) /\ Chan' = Tail(Cmds(queue))
  BY <1>1, Zenon DEF Chan, Cmds
<1>4. Cmds(queue) # <<>> /\ Head(Cmds(queue)) = Head(queue).cmd
  BY <1>1, <1>2, CmdsTail, HeadFacts, Zenon
<1>5. got' = Append(got, Head(Chan)) /\ Chan' = Tail(Chan) /\ Chan # <<>>
  BY <1>1, <1>2, <1>3, <1>4, Zenon
<1> QED BY <1>1, <1>5, Zenon DEF Channel!Next, Channel!Deliver

LEMMA ReadReplyStep == IInv /\ ReadReply => UNCHANGED <<Chan, got, sk>>
<1> SUFFICES ASSUME IInv, ReadReply PROVE UNCHANGED <<Chan, got, sk>>
  OBVIOUS
<1>1. replies # <<>> /\ UNCHANGED <<got, sk>>
  BY DEF ReadReply
<1>2. HeadTaken /\ queue # <<>> /\ wire = <<>> /\ sk = "open" /\ queue \in Seq(Entry)
      /\ TypeOK /\ WireInv
  BY <1>1, ReplyFacts DEF IInv, TypeOK
<1>3. Chan = Tail(Cmds(queue))
  BY <1>2 DEF Chan
<1>4. CASE Head(replies).line = "data"
  BY <1>1, <1>2, <1>4, Zenon DEF ReadReply, Chan, HeadTaken, Left, Cmds
<1>5. CASE Head(replies).line # "data" /\ Head(queue).type = "combined"
  <2>1. queue' = HeadRegular(queue) /\ UNCHANGED wire
    BY <1>2, <1>5, Zenon DEF ReadReply, UnqueueCommand, HeadRegular
  <2>2. /\ queue' \in Seq(Entry) /\ Len(queue') = Len(queue) /\ queue' # <<>>
        /\ queue'[1].left = queue[1].left /\ queue'[1].cmd = queue[1].cmd
        /\ \A i \in 2 .. Len(queue) : queue'[i] = queue[i]
    BY <1>2, <2>1, SetRegular
  <2>3. \A i \in 1 .. Len(queue) : queue[i].cmd = queue'[i].cmd
    BY <1>2, <2>2, LenProperties, SMT
  <2>4. Cmds(queue') = Cmds(queue)
    BY <1>2, <2>2, <2>3, CmdsSame, Zenon
  <2>5. Left(queue') = Left(queue)
    BY <1>2, <2>2, HeadFacts, Zenon
  <2>6. HeadTaken'
    BY <1>1, <1>2, <2>1, <2>2, <2>5, Zenon DEF HeadTaken
  <2> QED BY <1>1, <1>3, <2>4, <2>6, Zenon DEF Chan
<1>6. CASE Head(replies).line # "data" /\ Head(queue).type # "combined"
  <2>1. SendCommand(Tail(queue))
    BY <1>2, <1>6, Zenon DEF ReadReply, UnqueueCommand
  <2>2. Tail(queue) \in Seq(Entry)
    BY <1>2, TailFacts
  <2>3. Sent(Tail(queue)) /\ (Tail(queue) # <<>> => Left(Tail(queue)) = Size)
    BY <1>2, <2>1, <2>2, WireOfTail, SendEffect
  <2>4. Chan' = Cmds(Tail(queue))
    BY <1>1, <1>2, <2>2, <2>3, FreshChan
  <2>5. Cmds(Tail(queue)) = Tail(Cmds(queue))
    BY <1>2, CmdsTail
  <2> QED BY <1>1, <1>3, <2>4, <2>5, Zenon
<1> QED BY <1>4, <1>5, <1>6

LEMMA FdWriteStep == IInv /\ FdWrite => UNCHANGED <<Chan, got, sk>>
<1> SUFFICES ASSUME IInv, FdWrite PROVE UNCHANGED <<Chan, got, sk>>
  OBVIOUS
<1>1. TypeOK /\ queue \in Seq(Entry) /\ writeDue' \in BOOLEAN /\ UNCHANGED <<sk, got>>
  BY DEF IInv, TypeOK, FdWrite
<1>2. Sent(queue)
  <2>1. CASE NothingToSend(queue)
    <3>1. queue' = queue /\ wire' = wire
      BY <2>1 DEF NothingToSend
    <3> QED BY <1>1, <3>1, NothingSent
  <2>2. CASE Transmit(queue)
    BY <1>1, <2>2, TransmitSends
  <2> QED BY <2>1, <2>2 DEF FdWrite
<1> QED BY <1>1, <1>2, SentChan

LEMMA ConnectStep == IInv /\ FdConnect => Channel!Next
<1> SUFFICES ASSUME IInv, FdConnect PROVE Channel!Next
  OBVIOUS
<1>1. sk = "connecting" /\ sk' = "open" /\ UNCHANGED <<queue, got>>
  BY DEF FdConnect
<1>2. ~HeadTaken
  BY <1>1, Zenon DEF HeadTaken
<1>3. ~HeadTaken'
  <2>1. queue # <<>> => Left(queue) = Size
    BY <1>1, Zenon DEF IInv, WireInv
  <2>2. Size # 0
    BY SizeNat, SMT
  <2> QED BY <1>1, <2>1, <2>2, Zenon DEF HeadTaken, Left
<1>4. Chan' = Chan
  BY <1>1, <1>2, <1>3, Zenon DEF Chan, Cmds
<1> QED BY <1>1, <1>4, Zenon DEF Channel!Next, Channel!Connect

LEMMA OpenStep == OpenManagement => UNCHANGED <<Chan, got, (sk = "open")>>
<1> SUFFICES ASSUME OpenManagement PROVE UNCHANGED <<Chan, got, (sk = "open")>>
  OBVIOUS
<1>1. sk = "closed" /\ sk' = "connecting" /\ UNCHANGED <<queue, wire, got>>
  BY DEF OpenManagement
<1>2. ~HeadTaken /\ ~HeadTaken'
  BY <1>1, Zenon DEF HeadTaken
<1>3. Chan' = Chan
  BY <1>1, <1>2, Zenon DEF Chan, Cmds
<1> QED BY <1>1, <1>3

LEMMA ResetStep == CloseManagement => Channel!Next
<1> SUFFICES ASSUME CloseManagement PROVE Channel!Next
  OBVIOUS
<1>1. sk' = "closed" /\ queue' = <<>> /\ got' = <<>>
  BY DEF CloseManagement
<1>2. Cmds(queue') = <<>>
  BY <1>1, EmptySeq, SMT DEF Cmds
<1>3. Chan' = <<>>
  BY <1>1, <1>2, Zenon DEF Chan, HeadTaken
<1> QED BY <1>1, <1>3, Zenon DEF Channel!Next, Channel!Reset

\* manage.c gives its callers a FIFO channel to the daemon, whatever the sizes of
\* the commands and however the socket takes them.
THEOREM ImplementsChannel == Spec => IsChannel
<1>1. Init => Channel!Init
  <2> SUFFICES ASSUME Init PROVE Channel!Init
    OBVIOUS
  <2>1. sk = "closed" /\ queue = <<>> /\ got = <<>>
    BY DEF Init
  <2>2. Cmds(queue) = <<>>
    BY <2>1, EmptySeq, SMT DEF Cmds
  <2> QED BY <2>1, <2>2, Zenon DEF Channel!Init, Chan, HeadTaken
<1>2. IInv /\ [Next]_vars => [Channel!Next]_Channel!vars
  <2> SUFFICES ASSUME IInv, [Next]_vars PROVE [Channel!Next]_Channel!vars
    OBVIOUS
  <2>1. CASE \E c \in Command : ManagementCommand(c)
    BY <2>1, IssueStep
  <2>2. CASE OpenManagement
    BY <2>2, OpenStep DEF Channel!vars
  <2>3. CASE FdConnect
    BY <2>3, ConnectStep
  <2>4. CASE FdWrite
    BY <2>4, FdWriteStep DEF Channel!vars
  <2>5. CASE ReadReply
    BY <2>5, ReadReplyStep DEF Channel!vars
  <2>6. CASE CloseManagement
    BY <2>6, ResetStep
  <2>7. CASE DaemonReads
    BY <2>7, DeliverStep
  <2>8. CASE UNCHANGED vars
    BY <2>8, Zenon DEF vars, Channel!vars, Chan, Cmds, HeadTaken, Left
  <2> QED BY <2>1, <2>2, <2>3, <2>4, <2>5, <2>6, <2>7, <2>8 DEF Next
<1> QED BY <1>1, <1>2, Invariance, PTL DEF Spec, IsChannel, Channel!Spec

-----------------------------------------------------------------------------
(* The list never waits for nothing *)

\* Why something will move the list (inductive if the daemon refuses no combined
\* command): the answers of a taken head are there, and one of them is the last of
\* two ends; a head of which nothing is sent has its FD_WRITE.
WaitInv ==
    /\ HeadTaken => replies # <<>>
    /\ HeadTaken /\ Head(queue).type = "combined" => Len(replies) > 1
    /\ sk = "open" /\ queue # <<>> /\ Left(queue) = Size => writeDue

LEMMA TransmitMoves ==
    ASSUME TypeOK, NEW q \in Seq(Entry), Transmit(q)
    PROVE  wire' # <<>> /\ Left(queue') # Size
<1>1. PICK n \in 1 .. Left(q) : /\ queue' = [q EXCEPT ![1].left = @ - n]
                               /\ wire' = wire \o [i \in 1 .. n |-> Head(q).cmd]
  BY DEF Transmit
<1>2. Left(q) \in 0 .. Size
  BY HeadFacts
<1>3. q # <<>>
  BY <1>2, SizeNat, SMT DEF Left
<1>4. Len(q) > 0 /\ 1 \in 1 .. Len(q) /\ Head(q) = q[1] /\ Left(q) = q[1].left
  BY <1>3, HeadFacts
<1>5. q[1].cmd \in Command
  BY <1>4, EntryFields
<1>6. Left(q) - n \in 0 .. Size /\ n \in Nat /\ n > 0 /\ Left(q) - n # Size
  BY <1>2, SizeNat, SMT
<1>7. queue' = [q EXCEPT ![1].left = Left(q) - n]
  BY <1>1, <1>4
<1>8. queue' \in Seq(Entry) /\ queue' # <<>> /\ queue'[1].left = Left(q) - n
  BY <1>3, <1>6, <1>7, SetLeft
<1>9. Left(queue') = Left(q) - n
  BY <1>8, HeadFacts
<1>10. wire' = wire \o [i \in 1 .. n |-> q[1].cmd]
  BY <1>1, <1>4, Zenon
<1>11. wire' \in Seq(Command) /\ Len(wire') = Len(wire) + n
  BY <1>10, <1>5, <1>6, WireMore DEF TypeOK
<1>12. wire' # <<>>
  <2>1. Len(wire) \in Nat
    BY LenProperties DEF TypeOK
  <2>2. Len(wire') # 0
    BY <1>6, <1>11, <2>1, SMT
  <2> QED BY <2>2, EmptySeq
<1> QED BY <1>6, <1>9, <1>12

\* A list that begins anew is sent, or FD_WRITE will send it.
LEMMA FreshWaits ==
    ASSUME TypeOK, NEW q \in Seq(Entry), q # <<>> => Left(q) = Size, SendCommand(q), sk' = sk
    PROVE  WaitInv'
<1>s. Size # 0 /\ (q = <<>> => Left(q) = 0)
  BY SizeNat, HeadFacts, SMT
<1>1. CASE NothingToSend(q)
  <2>1. queue' = q /\ (q = <<>> \/ sk' # "open")
    BY <1>s, <1>1, Zenon DEF NothingToSend
  <2> QED BY <2>1, Zenon DEF WaitInv, HeadTaken
<1>2. CASE Transmit(q)
  BY <1>2, TransmitMoves, Zenon DEF WaitInv, HeadTaken
<1>3. CASE Blocked(q)
  <2>1. queue' = q /\ writeDue' = TRUE
    BY <1>3 DEF Blocked
  <2>2. queue' # <<>> => Left(queue') # 0
    BY <1>s, <2>1
  <2> QED BY <2>1, <2>2, Zenon DEF WaitInv, HeadTaken
<1> QED BY <1>1, <1>2, <1>3 DEF SendCommand

LEMMA ManagementCommandWaits ==
    ASSUME IInv, WaitInv, NEW c \in Command, ManagementCommand(c)
    PROVE  WaitInv'
<1>0. TypeOK /\ queue \in Seq(Entry) /\ UNCHANGED <<sk, replies>>
  BY DEF IInv, TypeOK, ManagementCommand
<1>1. CASE queue = <<>>
  <2>1. SendCommand(<<NewEntry(c)>>)
    BY <1>1 DEF ManagementCommand
  <2>2. <<NewEntry(c)>> \in Seq(Entry) /\ Left(<<NewEntry(c)>>) = Size
    BY <1>1, OneNew
  <2> QED BY <1>0, <2>1, <2>2, FreshWaits
<1>2. CASE queue # <<>>
  <2>1. queue' = Append(queue, NewEntry(c)) /\ UNCHANGED <<writeDue, wire>>
    BY <1>2, Zenon DEF ManagementCommand
  <2>2. queue' \in Seq(Entry) /\ queue' # <<>> /\ \A i \in 1 .. Len(queue) : queue'[i] = queue[i]
    BY <1>0, <2>1, NewEntryType, EntryAppended
  <2>3. Head(queue') = Head(queue) /\ Left(queue') = Left(queue)
    <3>1. Head(queue) = queue[1] /\ 1 \in 1 .. Len(queue) /\ Head(queue') = queue'[1]
      BY <1>0, <1>2, <2>2, HeadFacts
    <3> QED BY <1>2, <2>2, <3>1, Zenon DEF Left
  <2>4. HeadTaken' = HeadTaken
    BY <1>0, <1>2, <2>1, <2>2, <2>3, Zenon DEF HeadTaken
  <2> QED BY <1>0, <1>2, <2>1, <2>3, <2>4, Zenon DEF WaitInv
<1> QED BY <1>1, <1>2

LEMMA FdWriteWaits == IInv /\ WaitInv /\ FdWrite => WaitInv'
<1> SUFFICES ASSUME IInv, WaitInv, FdWrite PROVE WaitInv'
  OBVIOUS
<1>0. TypeOK /\ queue \in Seq(Entry) /\ sk = "open" /\ UNCHANGED <<sk, replies>>
  BY DEF IInv, TypeOK, FdWrite
<1>1. CASE NothingToSend(queue)
  <2>1. Left(queue) = 0 /\ queue' = queue /\ wire' = wire
    BY <1>0, <1>1, Zenon DEF NothingToSend
  <2>2. Left(queue') # Size
    BY <2>1, SizeNat, SMT
  <2>3. HeadTaken' = HeadTaken
    BY <1>0, <2>1, Zenon DEF HeadTaken
  <2> QED BY <1>0, <2>1, <2>2, <2>3, Zenon DEF WaitInv
<1>2. CASE Transmit(queue)
  BY <1>0, <1>2, TransmitMoves, Zenon DEF WaitInv, HeadTaken
<1> QED BY <1>1, <1>2 DEF FdWrite

LEMMA ReadReplyWaits == IInv /\ WaitInv /\ ReadReply => WaitInv'
<1> SUFFICES ASSUME IInv, WaitInv, ReadReply PROVE WaitInv'
  OBVIOUS
<1>0. TypeOK /\ WireInv /\ ReplyInv /\ queue \in Seq(Entry)
  BY DEF IInv, TypeOK
<1>1. replies # <<>> /\ replies' = Tail(replies) /\ sk' = sk
  BY DEF ReadReply
<1>2. /\ HeadTaken /\ queue # <<>> /\ wire = <<>> /\ sk = "open" /\ Left(queue) = 0
      /\ Len(replies) \in Nat /\ Len(replies) > 0 /\ Head(replies) = replies[1]
      /\ Len(Tail(replies)) = Len(replies) - 1
  BY <1>1, ReplyFacts DEF HeadTaken
<1>3. ASSUME Len(replies) > 1 PROVE replies' # <<>>
  <2>1. Len(replies') # 0
    BY <1>1, <1>2, <1>3, SMTT(30)
  <2> QED BY <2>1, EmptySeq
<1>4. CASE Head(replies).line = "data"
  <2>1. UNCHANGED <<queue, wire>>
    BY <1>4 DEF ReadReply
  <2>2. Head(queue).type # "combined" /\ replies[1].line # replies[Len(replies)].line
    BY <1>0, <1>1, <1>2, <1>4 DEF ReplyInv
  <2>3. Len(replies) > 1
    BY <1>2, <2>2, SMT
  <2>4. Left(queue') # Size
    BY <1>2, <2>1, SizeNat, SMT
  <2> QED BY <1>3, <2>1, <2>2, <2>3, <2>4, Zenon DEF WaitInv
<1>5. CASE Head(replies).line # "data" /\ Head(queue).type = "combined"
  <2>1. queue' = HeadRegular(queue)
    BY <1>2, <1>5, Zenon DEF ReadReply, UnqueueCommand, HeadRegular
  <2>2. /\ queue' \in Seq(Entry) /\ queue' # <<>>
        /\ queue'[1].left = queue[1].left /\ queue'[1].type = "regular"
    <3>1. /\ HeadRegular(queue) \in Seq(Entry) /\ HeadRegular(queue) # <<>>
          /\ HeadRegular(queue)[1].left = queue[1].left
          /\ HeadRegular(queue)[1].type = "regular"
      BY <1>0, <1>2, SetRegular, Zenon
    <3> QED BY <2>1, <3>1, Zenon
  <2>3. Head(queue') = queue'[1] /\ Left(queue') = 0
    BY <1>0, <1>2, <2>2, HeadFacts
  <2>4. replies' # <<>>
    BY <1>2, <1>3, <1>5 DEF WaitInv
  <2>5. Left(queue') # Size /\ Head(queue').type # "combined"
    BY <2>2, <2>3, SizeNat, SMT
  <2> QED BY <2>4, <2>5, Zenon DEF WaitInv
<1>6. CASE Head(replies).line # "data" /\ Head(queue).type # "combined"
  <2>1. SendCommand(Tail(queue))
    BY <1>2, <1>6, Zenon DEF ReadReply, UnqueueCommand
  <2>2. Tail(queue) \in Seq(Entry) /\ (Tail(queue) # <<>> => Left(Tail(queue)) = Size)
    BY <1>0, <1>2, TailFacts, WireOfTail
  <2> QED BY <1>0, <1>1, <2>1, <2>2, FreshWaits
<1> QED BY <1>4, <1>5, <1>6

\* A daemon that refuses no combined command ends one twice.
LEMMA TwoEnds ==
    ASSUME ~CombinedErrors, NEW c \in Combined, NEW a \in Answers(c)
    PROVE  Len(a) > 1
<1>1. a = <<"SUCCESS", "END">> \/ a = <<"SUCCESS", "data", "END">>
  BY SMT DEF Answers
<1> QED BY <1>1, SMT

LEMMA DaemonReadsWaits ==
    ASSUME ~CombinedErrors, IInv, DaemonReads
    PROVE  WaitInv'
<1> DEFINE c == wire[1]
<1>0. TypeOK /\ WireInv /\ KindInv /\ queue \in Seq(Entry)
  BY DEF IInv, TypeOK
<1>1. /\ queue # <<>> /\ ~HeadTaken /\ replies = <<>> /\ Left(queue) = 0
      /\ c = Head(queue).cmd /\ c \in Command /\ UNCHANGED queue
  BY DaemonReadsFacts
<1>2. PICK a \in Answers(c) :
        replies' = replies \o [i \in 1 .. Len(a) |-> [to |-> c, line |-> a[i]]]
  BY DEF DaemonReads
<1>3. Len(a) > 0 /\ Len(a) \in Nat /\ (c \in Combined => Len(a) > 1)
  BY <1>1, AnswersShape, TwoEnds, LenProperties
<1> DEFINE r == [i \in 1 .. Len(a) |-> [to |-> c, line |-> a[i]]]
<1> HIDE DEF c
<1>4. r \in Seq({r[i] : i \in 1 .. Len(a)}) /\ Len(r) = Len(a)
  BY <1>3, SMT
<1> HIDE DEF r
<1>5. replies' = r
  <2>1. replies' = <<>> \o r
    BY <1>1, <1>2 DEF r
  <2> QED BY <1>4, <2>1, ConcatEmptySeq
<1>6. replies' # <<>>
  <2>1. Len(r) # 0
    BY <1>3, <1>4, SMT
  <2> QED BY <1>5, <2>1, EmptySeq
<1>7. Head(queue).type = "combined" => c \in Combined
  <2>1. KindOf(queue)
    BY <1>0, <1>1, KindOfQueue
  <2>2. 1 \in 1 .. Len(queue) /\ Head(queue) = queue[1]
    BY <1>0, <1>1, HeadFacts
  <2>3. Head(queue).type = NewEntry(Head(queue).cmd).type
    BY <2>1, <2>2 DEF KindOf
  <2> QED BY <1>1, <2>3, SMT DEF NewEntry
<1>8. Left(queue') # Size
  BY <1>1, SizeNat, SMT
<1>9. Head(queue').type = "combined" => Len(replies') > 1
  BY <1>1, <1>3, <1>4, <1>5, <1>7, Zenon
<1> QED BY <1>6, <1>8, <1>9, Zenon DEF WaitInv

LEMMA SocketWaits ==
    ASSUME IInv, OpenManagement \/ FdConnect \/ CloseManagement
    PROVE  WaitInv'
<1>1. CASE OpenManagement
  <2>1. sk' # "open"
    BY <1>1 DEF OpenManagement
  <2> QED BY <2>1, Zenon DEF WaitInv, HeadTaken
<1>2. CASE FdConnect
  <2>1. sk # "open" /\ writeDue' = TRUE /\ queue' = queue
    BY <1>2 DEF FdConnect
  <2>2. queue' # <<>> => Left(queue') # 0
    BY <2>1, SizeNat, SMT DEF IInv, WireInv
  <2> QED BY <2>1, <2>2, Zenon DEF WaitInv, HeadTaken
<1>3. CASE CloseManagement
  <2>1. queue' = <<>>
    BY <1>3 DEF CloseManagement
  <2> QED BY <2>1, Zenon DEF WaitInv, HeadTaken
<1> QED BY <1>1, <1>2, <1>3

LEMMA StepWaits ==
    ASSUME ~CombinedErrors, IInv, WaitInv, [Next]_vars
    PROVE  WaitInv'
<1>1. ASSUME NEW c \in Command, ManagementCommand(c) PROVE WaitInv'
  BY <1>1, ManagementCommandWaits
<1>2. CASE UNCHANGED vars
  BY <1>2, Zenon DEF vars, WaitInv, HeadTaken, Left
<1> QED BY <1>1, <1>2, FdWriteWaits, ReadReplyWaits, DaemonReadsWaits, SocketWaits DEF Next

\* While commands wait on a connection, FD_WRITE is due, or pieces or answers are under
\* way, whatever send() does: nothing that should move the list has been lost.  (A
\* combined command that is refused would stop it, manage.c:471.)
THEOREM SomethingMoves ==
    ASSUME ~CombinedErrors
    PROVE  Spec => []NeverStuck
<1>1. Init => WaitInv
  BY Zenon DEF Init, WaitInv, HeadTaken
<1>2. IInv /\ WaitInv /\ [Next]_vars => WaitInv'
  BY StepWaits
<1>3. IInv /\ WaitInv => NeverStuck
  <2> SUFFICES ASSUME IInv, WaitInv, sk = "open", queue # <<>>
               PROVE  \/ writeDue \/ CutShort
                      \/ Left(queue) = 0 /\ (wire # <<>> \/ replies # <<>>)
    BY DEF NeverStuck
  <2>1. Left(queue) \in 0 .. Size
    BY HeadFacts DEF IInv, TypeOK
  <2>2. Left(queue) = 0 \/ Left(queue) = Size \/ CutShort
    BY <2>1, SizeNat, SMT DEF CutShort
  <2> QED BY <2>2, Zenon DEF WaitInv, HeadTaken
<1> QED BY <1>1, <1>2, <1>3, InitInv, StepInv, PTL DEF Spec
=============================================================================
