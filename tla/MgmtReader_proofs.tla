-------------------------- MODULE MgmtReader_proofs --------------------------
(***************************************************************************)
(* OnManagement reads lines and answers whole, once and in order, for any  *)
(* number of lines, activations and connections.                           *)
(*                                                                         *)
(* ReadsLines speaks of lines that were handled; the invariant speaks of   *)
(* those to come.  They are in the sources: the socket behind saved_data   *)
(* (source 0), and what is left of the activations' buffers (1, the inner  *)
(* most, and so on).  Each line begins in one source; sources come in the  *)
(* order of their numbers, the socket last; and what is still to be read   *)
(* of an answer is never spread over two of them with the end in front.    *)
(***************************************************************************)
EXTENDS MgmtReader, SequenceTheorems, TLAPS

\* The bounds are numbers.
ReaderAssumption == MaxLines \in Nat /\ MaxDepth \in Nat /\ MaxOpens \in Nat

Src(i) == IF i = 0 THEN saved \o unread ELSE buffers[i].rest
Sources == 0 .. Len(buffers)

Firsts(s) == {s[j] : j \in {k \in 1 .. Len(s) : s[k].part = "first"}}
Pending == UNION {Firsts(Src(i)) : i \in Sources}
Called == {calls[i][1] : i \in 1 .. Len(calls)}

Paired(s) ==
    /\ s # <<>> => s[1].part = "first"
    /\ \A j \in 1 .. Len(s) - 1 :
          IF s[j].part = "last" THEN s[j + 1].part = "first"
          ELSE s[j + 1].part = "last" /\ s[j + 1].n = s[j].n /\ s[j + 1].kind = s[j].kind

Increasing(s) ==
    \A j, k \in 1 .. Len(s) :
        j < k /\ s[j].part = "first" /\ s[k].part = "first" => s[j].n < s[k].n

Open == Len(buffers) > 0 /\ MidLine(Src(1))
Stream == IF Open THEN <<Src(1)[Len(Src(1))]>> \o Src(0) ELSE Src(0)

Cutting ==
    /\ \A i \in 1 .. Len(buffers) :
          Paired(Src(i)) /\ (i # 1 => ~MidLine(Src(i)))
    /\ Paired(Stream) /\ (Open => saved = <<>>)
    /\ IF half = "none" THEN ~MidLine(Stream)
       ELSE /\ MidLine(Stream)
            /\ Stream[Len(Stream)].n = written /\ Stream[Len(Stream)].kind = half
    /\ ~up => half = "none" /\ saved = <<>> /\ unread = <<>>
Ordering ==
    /\ \A i \in Sources : Increasing(Src(i))
    /\ \A i, k \in Sources : k < i =>
          \A p \in Firsts(Src(i)), q \in Firsts(Src(k)) : p.n < q.n
Counting ==
    /\ \A p \in Pending : p.n \in 1 .. written
    /\ \A c \in Called : c.n \in 1 .. written /\ \A p \in Pending : c.n # p.n
    /\ up => \A m \in 1 .. written : (\E c \in Called : c.n = m) \/ (\E p \in Pending : p.n = m)
    /\ LinesWhole

NotEvent(p) == p.kind # "event"
Answering ==
    /\ \A c \in Called, p \in Pending : NotEvent(c) /\ NotEvent(p) => c.n < p.n
    /\ \A i \in 2 .. Len(buffers) : \A p \in Firsts(Src(i)) :
          p.kind = "data" => \E q \in Firsts(Src(i)) : q.kind = "end"
    /\ \A p, q \in Pending : NotEvent(p) /\ q.kind = "end" => p.n <= q.n
    /\ owed # "none" => cmd /\ (half = "end" \/ \A p \in Pending : p.kind # "end")
    /\ up => \A p \in Pending : p.kind = "end" => cmd
    /\ half \in {"data", "end"} => owed = half
    /\ AnswersInOrder

RInv == /\ TypeOK /\ (half # "none" => up /\ written > 0)
        /\ "line" \notin torn => Cutting /\ Ordering /\ Counting
        /\ torn = {} => Answering

-----------------------------------------------------------------------------
(* Sequences of pieces *)

LEMMA PieceFields ==
    ASSUME ReaderAssumption, NEW p \in Piece
    PROVE  /\ p.n \in Nat /\ p.n \in 1 .. MaxLines
           /\ p.kind \in {"event", "data", "end"} /\ p.part \in {"first", "last"}
BY DEF Piece, ReaderAssumption

LEMMA ElementOf ==
    ASSUME NEW S, NEW s \in Seq(S), NEW j \in 1 .. Len(s)
    PROVE  s[j] \in S
OBVIOUS

LEMMA FirstsIn ==
    ASSUME ReaderAssumption, NEW s \in Seq(Piece), NEW p \in Firsts(s)
    PROVE  p \in Piece /\ p.part = "first"
BY DEF Firsts

LEMMA FirstsAppend ==
    ASSUME ReaderAssumption, NEW s \in Seq(Piece), NEW x \in Piece
    PROVE  Firsts(Append(s, x)) = Firsts(s) \cup (IF x.part = "first" THEN {x} ELSE {})
<1> DEFINE t == Append(s, x)
<1>1. /\ Len(t) = Len(s) + 1 /\ t[Len(s) + 1] = x /\ Len(s) \in Nat
      /\ \A j \in 1 .. Len(s) : t[j] = s[j]
  OBVIOUS
<1>2. Firsts(s) \subseteq Firsts(t)
  BY <1>1 DEF Firsts
<1>3. x.part = "first" => x \in Firsts(t)
  BY <1>1 DEF Firsts
<1>4. ASSUME NEW j \in 1 .. Len(t), t[j].part = "first"
      PROVE  t[j] \in Firsts(s) \/ (t[j] = x /\ x.part = "first")
  BY <1>1, <1>4 DEF Firsts
<1>5. Firsts(t) \subseteq Firsts(s) \cup (IF x.part = "first" THEN {x} ELSE {})
  BY <1>4 DEF Firsts
<1> QED BY <1>2, <1>3, <1>5

\* The first line of a sequence, and the others.
LEMMA FirstLine ==
    ASSUME ReaderAssumption, NEW s \in Seq(Piece), Paired(s), Increasing(s), Ends(s) # {}
    PROVE  LET t == SubSeq(s, 3, Len(s)) IN
           /\ Len(s) \in Nat /\ Len(s) >= 2 /\ 2 \in Ends(s) /\ 1 \notin Ends(s)
           /\ s[1].part = "first" /\ s[2].part = "last" /\ s[2].n = s[1].n
           /\ t \in Seq(Piece) /\ Paired(t) /\ Increasing(t)
           /\ Firsts(s) = Firsts(t) \cup {s[1]} /\ \A p \in Firsts(t) : s[1].n < p.n
           /\ MidLine(s) <=> MidLine(t)
           /\ MidLine(t) => t[Len(t)] = s[Len(s)]
<1> DEFINE t == SubSeq(s, 3, Len(s))
<1>0. Len(s) \in Nat /\ s # <<>> /\ Len(s) >= 1
  BY DEF Ends
<1>1. s[1].part = "first" /\ 1 \notin Ends(s)
  BY <1>0 DEF Paired, Ends
<1>2. Len(s) >= 2
  BY <1>0, <1>1 DEF Ends
<1>3. s[2].part = "last" /\ s[2].n = s[1].n
  <2>1. 1 \in 1 .. Len(s) - 1
    BY <1>0, <1>2
  <2> QED BY <1>1, <2>1 DEF Paired
<1>4. 2 \in Ends(s)
  BY <1>0, <1>2, <1>3 DEF Ends
<1>5. /\ t \in Seq(Piece) /\ Len(t) = Len(s) - 2 /\ Len(t) \in Nat
      /\ \A j \in 1 .. Len(t) : t[j] = s[j + 2] /\ j + 2 \in 1 .. Len(s)
  <2>0. Len(s) \in Nat
    BY <1>0
  <2>a. \A m \in Nat : m >= 2 => m = 2 \/ m >= 3
    OBVIOUS
  <2>1. Len(s) \in Nat /\ (Len(s) = 2 \/ Len(s) >= 3)
    BY <1>2, <2>0, <2>a, Zenon
  <2>2. \A j \in 3 .. Len(s) : s[j] \in Piece
    BY <2>1
  <2>3. t \in Seq(Piece)
    BY <2>1, <2>2
  <2>4. Len(t) = Len(s) - 2
    BY <2>1
  <2>5. \A j \in 1 .. Len(t) : t[j] = s[j + 2] /\ j + 2 \in 1 .. Len(s)
    BY <2>1, <2>4
  <2> QED BY <2>1, <2>3, <2>4, <2>5
<1> HIDE DEF t
<1>6. Paired(t)
  <2>1. ASSUME t # <<>>
        PROVE  t[1].part = "first"
    <3>1. Len(t) >= 1 /\ 2 \in 1 .. Len(s) - 1
      BY <1>0, <1>5, <2>1
    <3>2. s[2 + 1].part = "first"
      BY <1>3, <3>1 DEF Paired
    <3> QED BY <1>5, <3>1, <3>2
  <2>2. ASSUME NEW j \in 1 .. Len(t) - 1
        PROVE  IF t[j].part = "last" THEN t[j + 1].part = "first"
               ELSE t[j + 1].part = "last" /\ t[j + 1].n = t[j].n /\ t[j + 1].kind = t[j].kind
    <3>0. /\ j \in 1 .. Len(t) /\ j + 1 \in 1 .. Len(t) /\ j + 2 \in 1 .. Len(s) - 1
          /\ (j + 1) + 2 = (j + 2) + 1
      BY <1>0, <1>5
    <3>1. /\ j + 2 \in 1 .. Len(s) - 1 /\ t[j] = s[j + 2] /\ t[j + 1] = s[(j + 2) + 1]
      BY <1>5, <3>0
    <3> QED BY <3>1 DEF Paired
  <2> QED BY <2>1, <2>2 DEF Paired
<1>7. Increasing(t)
  <2>1. ASSUME NEW j \in 1 .. Len(t), NEW k \in 1 .. Len(t), j < k,
               t[j].part = "first", t[k].part = "first"
        PROVE  t[j].n < t[k].n
    <3>1. j + 2 \in 1 .. Len(s) /\ k + 2 \in 1 .. Len(s) /\ j + 2 < k + 2
          /\ t[j] = s[j + 2] /\ t[k] = s[k + 2]
      BY <1>5, <2>1
    <3> QED BY <2>1, <3>1 DEF Increasing
  <2> QED BY <2>1 DEF Increasing
<1>8. ASSUME NEW p \in Firsts(t)
      PROVE  p \in Firsts(s) /\ s[1].n < p.n
  <2>1. PICK j \in 1 .. Len(t) : t[j].part = "first" /\ p = t[j]
    BY DEF Firsts
  <2>2. j + 2 \in 1 .. Len(s) /\ 1 \in 1 .. Len(s) /\ 1 < j + 2 /\ p = s[j + 2]
        /\ s[j + 2].part = "first"
    BY <1>0, <1>2, <1>5, <2>1
  <2> QED BY <1>1, <2>2 DEF Firsts, Increasing
<1>9. ASSUME NEW p \in Firsts(s)
      PROVE  p = s[1] \/ p \in Firsts(t)
  <2>1. PICK j \in 1 .. Len(s) : s[j].part = "first" /\ p = s[j]
    BY DEF Firsts
  <2>2. CASE j = 1
    BY <2>1, <2>2
  <2>3. CASE j = 2
    BY <1>3, <2>1, <2>3
  <2>4. CASE j > 2
    <3>1. j - 2 \in 1 .. Len(t) /\ t[j - 2] = s[(j - 2) + 2] /\ (j - 2) + 2 = j
      BY <1>0, <1>5, <2>4
    <3> QED BY <2>1, <3>1 DEF Firsts
  <2> QED BY <2>2, <2>3, <2>4
<1>10. s[1] \in Firsts(s)
  BY <1>0, <1>1 DEF Firsts
<1>11. (MidLine(s) <=> MidLine(t)) /\ (MidLine(t) => t[Len(t)] = s[Len(s)])
  <2>1. CASE Len(t) = 0
    <3>1. Len(s) = 2 /\ t = <<>>
      BY <1>0, <1>5, <2>1
    <3> QED BY <1>3, <3>1 DEF MidLine
  <2>2. CASE Len(t) # 0
    <3>1. t # <<>> /\ Len(t) \in 1 .. Len(t) /\ Len(t) + 2 = Len(s)
      BY <1>0, <1>5, <2>2
    <3>2. t[Len(t)] = s[Len(s)]
      BY <1>5, <3>1
    <3> QED BY <1>0, <3>1, <3>2 DEF MidLine
  <2> QED BY <2>1, <2>2
<1>12. Firsts(s) = Firsts(t) \cup {s[1]}
  BY <1>8, <1>9, <1>10
<1> QED BY <1>0, <1>1, <1>2, <1>3, <1>4, <1>5, <1>6, <1>7, <1>8, <1>11, <1>12 DEF t

\* Without an end there is nothing, or the beginning of a line.
LEMMA NoLine ==
    ASSUME ReaderAssumption, NEW s \in Seq(Piece), Paired(s), Ends(s) = {}
    PROVE  s = <<>> \/ (Len(s) = 1 /\ s = <<s[1]>> /\ s[1].part = "first" /\ MidLine(s))
<1>0. Len(s) \in Nat
  OBVIOUS
<1>1. CASE Len(s) = 0
  BY <1>1
<1>2. CASE Len(s) = 1
  <2>1. s # <<>> /\ s = <<s[1]>>
    BY <1>2
  <2> QED BY <1>2, <2>1 DEF Paired, MidLine
<1>3. CASE Len(s) > 1
  <2>1. 1 \in 1 .. Len(s) - 1 /\ 2 \in 1 .. Len(s) /\ s # <<>> /\ 1 \in 1 .. Len(s)
    BY <1>0, <1>3
  <2>2. s[1].part = "first"
    BY <2>1 DEF Paired
  <2>3. s[1 + 1].part = "last"
    BY <2>1, <2>2 DEF Paired
  <2>4. 2 \in Ends(s)
    BY <2>1, <2>3 DEF Ends
  <2> QED BY <2>4
<1>a. \A m \in Nat : m = 0 \/ m = 1 \/ m > 1
  OBVIOUS
<1>4. Len(s) = 0 \/ Len(s) = 1 \/ Len(s) > 1
  BY <1>0, <1>a, Zenon
<1> QED BY <1>1, <1>2, <1>3, <1>4, Zenon

\* The next piece of the daemon.
LEMMA NextPiece ==
    ASSUME ReaderAssumption, NEW s \in Seq(Piece), NEW x \in Piece, Paired(s),
           IF MidLine(s) THEN /\ x.part = "last" /\ x.n = s[Len(s)].n
                              /\ x.kind = s[Len(s)].kind
           ELSE x.part = "first"
    PROVE  /\ Paired(Append(s, x)) /\ (MidLine(Append(s, x)) <=> ~MidLine(s))
           /\ Append(s, x)[Len(Append(s, x))] = x
<1> DEFINE t == Append(s, x)
<1>1. /\ Len(t) = Len(s) + 1 /\ t[Len(s) + 1] = x /\ Len(s) \in Nat /\ t # <<>>
      /\ \A j \in 1 .. Len(s) : t[j] = s[j]
  OBVIOUS
<1>2. MidLine(t) <=> ~MidLine(s)
  BY <1>1 DEF MidLine
<1>3. t[1].part = "first"
  <2>1. CASE s = <<>>
    BY <1>1, <2>1 DEF MidLine
  <2>2. CASE s # <<>>
    <3>1. 1 \in 1 .. Len(s)
      BY <1>1, <2>2
    <3> QED BY <1>1, <2>2, <3>1 DEF Paired
  <2> QED BY <2>1, <2>2
<1>4. ASSUME NEW j \in 1 .. Len(t) - 1
      PROVE  IF t[j].part = "last" THEN t[j + 1].part = "first"
             ELSE t[j + 1].part = "last" /\ t[j + 1].n = t[j].n /\ t[j + 1].kind = t[j].kind
  <2>1. CASE j < Len(s)
    <3>1. j \in 1 .. Len(s) - 1 /\ t[j] = s[j] /\ t[j + 1] = s[j + 1]
      BY <1>1, <2>1
    <3> QED BY <3>1 DEF Paired
  <2>2. CASE j = Len(s)
    <3>1. s # <<>> /\ t[j] = s[Len(s)] /\ t[j + 1] = x /\ s[Len(s)] \in Piece
      BY <1>1, <2>2
    <3>2. s[Len(s)].part \in {"first", "last"}
      BY <3>1, PieceFields
    <3> QED BY <3>1, <3>2 DEF MidLine
  <2> QED BY <1>1, <2>1, <2>2
<1>5. Paired(t)
  BY <1>3, <1>4 DEF Paired
<1> QED BY <1>1, <1>2, <1>5

LEMMA IncreasingAppend ==
    ASSUME ReaderAssumption, NEW s \in Seq(Piece), NEW x \in Piece, Increasing(s),
           x.part = "last" \/ \A p \in Firsts(s) : p.n < x.n
    PROVE  Increasing(Append(s, x))
<1> DEFINE t == Append(s, x)
<1>1. /\ Len(t) = Len(s) + 1 /\ t[Len(s) + 1] = x /\ Len(s) \in Nat
      /\ \A j \in 1 .. Len(s) : t[j] = s[j]
  OBVIOUS
<1>2. ASSUME NEW j \in 1 .. Len(t), NEW k \in 1 .. Len(t), j < k,
             t[j].part = "first", t[k].part = "first"
      PROVE  t[j].n < t[k].n
  <2>1. CASE k = Len(s) + 1
    <3>1. j \in 1 .. Len(s) /\ t[j] = s[j] /\ t[k] = x
      BY <1>1, <1>2, <2>1
    <3> QED BY <1>2, <3>1 DEF Firsts
  <2>2. CASE k # Len(s) + 1
    <3>1. j \in 1 .. Len(s) /\ k \in 1 .. Len(s) /\ t[j] = s[j] /\ t[k] = s[k]
      BY <1>1, <1>2, <2>2
    <3> QED BY <1>2, <3>1 DEF Increasing
  <2> QED BY <2>1, <2>2
<1> QED BY <1>2 DEF Increasing

-----------------------------------------------------------------------------
(* The sources, before and after a step *)

LEMMA SourceTypes ==
    ASSUME ReaderAssumption, TypeOK
    PROVE  /\ Len(buffers) \in Nat /\ 0 \in Sources /\ \A i \in Sources : Src(i) \in Seq(Piece)
           /\ \A i \in 1 .. Len(buffers) : i \in Sources /\ i # 0
           /\ \A i \in Sources : i \in Nat /\ (i # 0 => i \in 1 .. Len(buffers))
           /\ \A p \in Pending : p \in Piece /\ p.part = "first"
<1>1. Len(buffers) \in Nat
  BY DEF TypeOK
<1>2. ASSUME NEW i \in 1 .. Len(buffers)
      PROVE  buffers[i].rest \in Seq(Piece)
  <2>0. buffers \in Seq([rest : Seq(Piece), pumping : BOOLEAN])
    BY DEF TypeOK
  <2>1. buffers[i] \in [rest : Seq(Piece), pumping : BOOLEAN]
    BY <2>0, ElementOf, Zenon
  <2> QED BY <2>1
<1>3. saved \o unread \in Seq(Piece)
  BY DEF TypeOK
<1>4. \A i \in Sources : Src(i) \in Seq(Piece)
  BY <1>1, <1>2, <1>3 DEF Sources, Src
<1>5. \A p \in Pending : p \in Piece /\ p.part = "first"
  BY <1>4, FirstsIn DEF Pending
<1>6. /\ 0 \in Sources /\ \A i \in 1 .. Len(buffers) : i \in Sources /\ i # 0
      /\ \A i \in Sources : i \in Nat /\ (i # 0 => i \in 1 .. Len(buffers))
  BY <1>1 DEF Sources
<1> QED BY <1>1, <1>4, <1>5, <1>6

LEMMA FdReadSources ==
    ASSUME ReaderAssumption, TypeOK, FdRead
    PROVE  /\ Len(buffers') = Len(buffers) + 1
           /\ Src(0)' = <<>> /\ \A i \in 1 .. Len(buffers) + 1 : Src(i)' = Src(i - 1)
<1>1. /\ buffers' = <<[rest |-> saved \o unread, pumping |-> FALSE]>> \o buffers
      /\ unread' = <<>> /\ saved' = <<>>
  BY DEF FdRead
<1> DEFINE r == [rest |-> saved \o unread, pumping |-> FALSE]
<1>2. buffers \in Seq([rest : Seq(Piece), pumping : BOOLEAN]) /\ Len(buffers) \in Nat
  BY DEF TypeOK
<1>3. r.rest = saved \o unread
  OBVIOUS
<1> HIDE DEF r
<1>4. /\ Len(buffers') = Len(buffers) + 1 /\ buffers'[1] = r
      /\ \A i \in 2 .. Len(buffers) + 1 : buffers'[i] = buffers[i - 1]
  BY <1>1, <1>2 DEF r
<1>5. Src(0)' = <<>>
  BY <1>1 DEF Src
<1>6. ASSUME NEW i \in 1 .. Len(buffers) + 1
      PROVE  Src(i)' = Src(i - 1)
  <2>1. CASE i = 1
    BY <1>3, <1>4, <2>1 DEF Src
  <2>2. CASE i # 1
    <3>1. i \in 2 .. Len(buffers) + 1 /\ i - 1 # 0 /\ i # 0
      BY <1>2, <2>2
    <3> QED BY <1>4, <3>1 DEF Src
  <2> QED BY <2>1, <2>2
<1> QED BY <1>4, <1>5, <1>6

LEMMA SaveRestSources ==
    ASSUME ReaderAssumption, TypeOK, Cutting, SaveRest
    PROVE  /\ Len(buffers) > 0 /\ Len(buffers') = Len(buffers) - 1
           /\ Src(0)' = Src(1) \o Src(0)
           /\ \A i \in 1 .. Len(buffers) - 1 : Src(i)' = Src(i + 1)
           /\ \/ Src(1) = <<>> /\ saved' = saved
              \/ /\ Open /\ Len(Src(1)) = 1 /\ Src(1) = <<Src(1)[1]>> /\ Src(1)[1].part = "first"
           /\ unread' = unread
<1>0. /\ buffers \in Seq([rest : Seq(Piece), pumping : BOOLEAN]) /\ Len(buffers) \in Nat
      /\ unread \in Seq(Piece) /\ saved \in Seq(Piece)
  BY DEF TypeOK
<1>1. buffers # <<>> /\ buffers' = Tail(buffers) /\ unread' = unread
  BY DEF SaveRest
<1>2. /\ Len(buffers) > 0 /\ Len(buffers') = Len(buffers) - 1 /\ Head(buffers) = buffers[1]
      /\ \A i \in 1 .. Len(buffers) - 1 : buffers'[i] = buffers[i + 1]
  BY <1>0, <1>1
<1>3. Src(1) \in Seq(Piece) /\ Src(1) = Head(buffers).rest
  <2>1. 1 \in 1 .. Len(buffers)
    BY <1>0, <1>2
  <2> QED BY <1>2, <2>1, SourceTypes DEF Src
<1>4. Paired(Src(1)) /\ Ends(Src(1)) = {}
  <2>1. 1 \in 1 .. Len(buffers)
    BY <1>0, <1>2
  <2> QED BY <1>3, <2>1 DEF Cutting, SaveRest
<1>5. Src(1) = <<>> \/ (Len(Src(1)) = 1 /\ Src(1) = <<Src(1)[1]>>
                         /\ Src(1)[1].part = "first" /\ MidLine(Src(1)))
  BY <1>3, <1>4, NoLine
<1>6. \A i \in 1 .. Len(buffers) - 1 : Src(i)' = Src(i + 1)
  <2>1. \A i \in 1 .. Len(buffers) - 1 : i # 0 /\ i + 1 # 0
    BY <1>0
  <2> QED BY <1>2, <2>1 DEF Src
<1>7. CASE Src(1) = <<>>
  <2>1. saved' = saved
    BY <1>3, <1>7 DEF SaveRest
  <2>2. saved \o unread = <<>> \o (saved \o unread)
    <3>1. \A w \in Seq(Piece) : w = <<>> \o w
      OBVIOUS
    <3>2. saved \o unread \in Seq(Piece)
      BY <1>0
    <3> QED BY <3>1, <3>2, Zenon
  <2>3. Src(0)' = Src(1) \o Src(0)
    BY <1>1, <1>7, <2>1, <2>2 DEF Src
  <2> QED BY <1>1, <1>2, <1>6, <1>7, <2>1, <2>3
<1>8. CASE Src(1) # <<>>
  <2>1. Open /\ saved' = Src(1)
    BY <1>2, <1>3, <1>5, <1>8 DEF SaveRest, Open
  <2>2. saved = <<>>
    BY <2>1 DEF Cutting
  <2>3. saved \o unread = unread
    BY <1>0, <2>2
  <2>4. Src(0)' = Src(1) \o Src(0)
    BY <1>1, <2>1, <2>3 DEF Src
  <2> QED BY <1>1, <1>2, <1>5, <1>6, <1>8, <2>1, <2>4
<1> QED BY <1>7, <1>8

LEMMA HandleLineSources ==
    ASSUME ReaderAssumption, TypeOK, Cutting, Ordering, HandleLine
    PROVE  /\ Len(buffers) > 0 /\ Len(buffers') = Len(buffers)
           /\ Src(1) \in Seq(Piece) /\ Ends(Src(1)) # {}
           /\ Src(1)' = SubSeq(Src(1), 3, Len(Src(1)))
           /\ \A i \in Sources : i # 1 => Src(i)' = Src(i)
           /\ calls' = Append(calls, SubSeq(Src(1), 1, 2))
           /\ cmd' = (cmd /\ Src(1)[1].kind # "end")
           /\ saved' = saved
<1>0. /\ buffers \in Seq([rest : Seq(Piece), pumping : BOOLEAN]) /\ Len(buffers) \in Nat
      /\ buffers # <<>> /\ saved' = saved /\ unread' = unread
  BY DEF TypeOK, HandleLine
<1>1. 1 \in 1 .. Len(buffers) /\ Len(buffers) > 0 /\ Head(buffers) = buffers[1]
  BY <1>0
<1>2. Src(1) \in Seq(Piece) /\ Src(1) = Head(buffers).rest
  BY <1>1, SourceTypes DEF Src
<1>3. Paired(Src(1)) /\ Increasing(Src(1))
  BY <1>1, SourceTypes DEF Cutting, Ordering
<1>4. PICK k \in Ends(Src(1)), pumps \in BOOLEAN :
         /\ \A i \in Ends(Src(1)) : k <= i
         /\ calls' = Append(calls, SubSeq(Src(1), 1, k))
         /\ buffers' = [buffers EXCEPT ![1] =
                           [rest |-> SubSeq(Src(1), k + 1, Len(Src(1))), pumping |-> pumps]]
         /\ cmd' = (cmd /\ Src(1)[1].kind # "end")
  BY <1>2 DEF HandleLine
<1>5. 2 \in Ends(Src(1)) /\ 1 \notin Ends(Src(1)) /\ Len(Src(1)) \in Nat
  BY <1>2, <1>3, <1>4, FirstLine
<1>6. k = 2 /\ k + 1 = 3
  <2>1. k \in 1 .. Len(Src(1)) /\ k <= 2 /\ k # 1
    BY <1>4, <1>5 DEF Ends
  <2> QED BY <1>5, <2>1
<1>7. /\ Len(buffers') = Len(buffers)
      /\ buffers'[1] = [rest |-> SubSeq(Src(1), 3, Len(Src(1))), pumping |-> pumps]
      /\ \A i \in 2 .. Len(buffers) : buffers'[i] = buffers[i]
  BY <1>0, <1>1, <1>4, <1>6
<1>8. Src(1)' = SubSeq(Src(1), 3, Len(Src(1)))
  BY <1>7 DEF Src
<1>9. ASSUME NEW i \in Sources, i # 1
      PROVE  Src(i)' = Src(i)
  <2>1. CASE i = 0
    BY <1>0, <2>1 DEF Src
  <2>2. CASE i # 0
    <3>1. i \in 2 .. Len(buffers)
      BY <1>0, <1>9, <2>2 DEF Sources
    <3> QED BY <1>7, <2>2, <3>1 DEF Src
  <2> QED BY <2>1, <2>2
<1> QED BY <1>0, <1>1, <1>2, <1>4, <1>5, <1>6, <1>7, <1>8, <1>9

\* The daemon writes.
LEMMA WriteSources ==
    ASSUME ReaderAssumption, TypeOK, NEW x \in Piece, unread' = Append(unread, x),
           saved' = saved, buffers' = buffers
    PROVE  /\ Sources' = Sources /\ Len(buffers') = Len(buffers)
           /\ Src(0)' = Append(Src(0), x) /\ \A i \in Sources : i # 0 => Src(i)' = Src(i)
<1>1. unread \in Seq(Piece) /\ saved \in Seq(Piece)
  BY DEF TypeOK
<1>2. saved \o Append(unread, x) = Append(saved \o unread, x)
  BY <1>1
<1> QED BY <1>2 DEF Src, Sources

-----------------------------------------------------------------------------
(* What a step does to the lines to come *)

\* Steps that move no piece.
LEMMA NothingMoves ==
    ASSUME Len(buffers') = Len(buffers), \A i \in Sources : Src(i)' = Src(i),
           ReaderAssumption, TypeOK
    PROVE  /\ Sources' = Sources /\ Pending' = Pending /\ (Open' <=> Open) /\ Stream' = Stream
           /\ Ordering => Ordering'
           /\ \A i \in 1 .. Len(buffers) : Src(i)' = Src(i)
<1>1. /\ 0 \in Sources /\ Sources' = Sources
      /\ \A i \in 1 .. Len(buffers) : Src(i)' = Src(i)
  BY SourceTypes DEF Sources
<1>2. Pending' = Pending
  BY <1>1 DEF Pending
<1>3. Open' <=> Open
  <2>1. CASE Len(buffers) > 0
    <3>1. 1 \in Sources
      BY <2>1, SourceTypes
    <3> QED BY <3>1 DEF Open
  <2>2. CASE ~(Len(buffers) > 0)
    BY <2>2 DEF Open
  <2> QED BY <2>1, <2>2
<1>4. Stream' = Stream
  <2>1. CASE Open
    <3>1. 1 \in Sources
      BY <2>1, SourceTypes DEF Open
    <3> QED BY <1>1, <1>3, <2>1, <3>1 DEF Stream
  <2>2. CASE ~Open
    BY <1>1, <1>3, <2>2 DEF Stream
  <2> QED BY <2>1, <2>2
<1>5. Ordering => Ordering'
  BY <1>1 DEF Ordering
<1> QED BY <1>1, <1>2, <1>3, <1>4, <1>5

\* A buffer is read: source 0 becomes source 1, the others move up.
LEMMA FdReadMoves ==
    ASSUME ReaderAssumption, TypeOK, Cutting, Ordering, FdRead, "line" \notin torn'
    PROVE  Pending' = Pending /\ Cutting' /\ Ordering'
<1>0. /\ Len(buffers) \in Nat /\ Len(buffers') = Len(buffers) + 1
      /\ Src(0)' = <<>> /\ \A i \in 1 .. Len(buffers) + 1 : Src(i)' = Src(i - 1)
  BY FdReadSources, SourceTypes
<1>1. /\ \A i \in Sources : i + 1 \in Sources' /\ i + 1 \in 1 .. Len(buffers) + 1 /\ (i + 1) - 1 = i
      /\ \A i \in Sources' : i # 0 => i - 1 \in Sources /\ i \in 1 .. Len(buffers) + 1
      /\ 0 \in Sources /\ 1 \in 1 .. Len(buffers) + 1
  BY <1>0 DEF Sources
<1>2. Firsts(<<>>) = {}
  BY DEF Firsts
<1>3. Pending' = Pending
  <2>1. ASSUME NEW p \in Pending
        PROVE  p \in Pending'
    <3>1. PICK i \in Sources : p \in Firsts(Src(i))
      BY DEF Pending
    <3>2. Src(i + 1)' = Src(i)
      BY <1>0, <1>1
    <3> QED BY <1>1, <3>1, <3>2 DEF Pending
  <2>2. ASSUME NEW p \in Pending'
        PROVE  p \in Pending
    <3>1. PICK i \in Sources' : p \in Firsts(Src(i)')
      BY DEF Pending
    <3>2. i # 0
      BY <1>0, <1>2, <3>1
    <3>3. i - 1 \in Sources /\ Src(i)' = Src(i - 1)
      BY <1>0, <1>1, <3>2
    <3> QED BY <3>1, <3>3 DEF Pending
  <2> QED BY <2>1, <2>2
<1>4. /\ ~Open /\ Stream = Src(0)
      /\ \A i \in 1 .. Len(buffers) : ~MidLine(Src(i))
  <2>1. "line" \notin Cut
    BY DEF FdRead
  <2>2. \A i \in 1 .. Len(buffers) : ~MidLine(buffers[i].rest)
    BY <2>1 DEF Cut
  <2>3. \A i \in 1 .. Len(buffers) : ~MidLine(Src(i))
    BY <1>0, <2>2 DEF Src
  <2>4. ~Open
    <3>1. Len(buffers) > 0 => 1 \in 1 .. Len(buffers)
      BY <1>0
    <3> QED BY <2>3, <3>1 DEF Open
  <2> QED BY <2>3, <2>4 DEF Stream
<1>5. Src(1)' = Src(0)
  BY <1>0, <1>1
<1>6. Cutting'
  <2>1. ASSUME NEW i \in 1 .. Len(buffers')
        PROVE  Paired(Src(i)') /\ (i # 1 => ~MidLine(Src(i)'))
    <3>1. CASE i = 1
      BY <1>4, <1>5, <3>1 DEF Cutting
    <3>2. CASE i # 1
      <4>1. i - 1 \in 1 .. Len(buffers) /\ Src(i)' = Src(i - 1)
        BY <1>0, <3>2
      <4> QED BY <1>4, <4>1 DEF Cutting
    <3> QED BY <3>1, <3>2
  <2>2. saved' = <<>> /\ half' = half /\ written' = written /\ up' = up /\ unread' = <<>> /\ up
    BY DEF FdRead, daemonVars
  <2>3. Open' <=> MidLine(Src(0))
    BY <1>0, <1>5 DEF Open
  <2>4. CASE MidLine(Src(0))
    <3> DEFINE x == Src(0)[Len(Src(0))]
    <3>1. Stream' = <<x>> \o <<>>
      BY <1>0, <1>5, <2>3, <2>4 DEF Stream
    <3>2. x \in Piece /\ x.part = "first"
      <4>1. Src(0) \in Seq(Piece) /\ Src(0) # <<>>
        BY <2>4, SourceTypes DEF MidLine
      <4>2. Len(Src(0)) \in 1 .. Len(Src(0))
        BY <4>1
      <4> QED BY <2>4, <4>1, <4>2, ElementOf DEF MidLine
    <3> HIDE DEF x
    <3>3. Stream' = <<x>> /\ <<x>> # <<>> /\ Len(<<x>>) = 1 /\ <<x>>[1] = x
      BY <3>1, <3>2
    <3>4. MidLine(<<x>>) /\ Paired(<<x>>)
      BY <3>2, <3>3 DEF MidLine, Paired
    <3>5. MidLine(Stream') /\ Paired(Stream') /\ Stream'[Len(Stream')] = Stream[Len(Stream)]
      BY <1>4, <3>3, <3>4 DEF x
    <3> QED BY <1>4, <2>1, <2>2, <2>4, <3>5 DEF Cutting
  <2>5. CASE ~MidLine(Src(0))
    <3>1. Stream' = <<>>
      BY <1>0, <2>3, <2>5 DEF Stream
    <3>2. ~MidLine(<<>>) /\ Paired(<<>>)
      BY DEF MidLine, Paired
    <3>3. half = "none"
      BY <1>4, <2>5 DEF Cutting
    <3> QED BY <2>1, <2>2, <3>1, <3>2, <3>3 DEF Cutting
  <2> QED BY <2>4, <2>5
<1>7. Ordering'
  <2>1. ASSUME NEW i \in Sources'
        PROVE  Increasing(Src(i)')
    <3>1. CASE i = 0
      BY <1>0, <3>1 DEF Increasing
    <3>2. CASE i # 0
      BY <1>0, <1>1, <3>2 DEF Ordering
    <3> QED BY <3>1, <3>2
  <2>2. ASSUME NEW i \in Sources', NEW k \in Sources', k < i,
               NEW p \in Firsts(Src(i)'), NEW q \in Firsts(Src(k)')
        PROVE  p.n < q.n
    <3>1. k # 0
      BY <1>0, <1>2, <2>2
    <3>2. i # 0
      BY <1>1, <2>2 DEF Sources
    <3>3. /\ i - 1 \in Sources /\ k - 1 \in Sources /\ k - 1 < i - 1
          /\ Src(i)' = Src(i - 1) /\ Src(k)' = Src(k - 1)
      BY <1>0, <1>1, <2>2, <3>1, <3>2, SMTT(30)
    <3> QED BY <2>2, <3>3 DEF Ordering
  <2> QED BY <2>1, <2>2 DEF Ordering
<1> QED BY <1>3, <1>6, <1>7

\* The rest of a buffer is saved: it moves before what is in the socket.
LEMMA SaveRestMoves ==
    ASSUME ReaderAssumption, TypeOK, Cutting, Ordering, SaveRest
    PROVE  Pending' = Pending /\ Cutting' /\ Ordering'
<1>0. /\ Len(buffers) \in Nat /\ Len(buffers) > 0 /\ Len(buffers') = Len(buffers) - 1
      /\ Src(0)' = Src(1) \o Src(0)
      /\ \A i \in 1 .. Len(buffers) - 1 : Src(i)' = Src(i + 1)
      /\ unread' = unread
  BY SaveRestSources, SourceTypes
<1>1. \/ Src(1) = <<>> /\ saved' = saved
      \/ Open /\ Len(Src(1)) = 1 /\ Src(1) = <<Src(1)[1]>> /\ Src(1)[1].part = "first"
  BY SaveRestSources
<1>2. /\ \A i \in Sources : i > 1 => i - 1 \in Sources' /\ i - 1 \in 1 .. Len(buffers) - 1
                                       /\ i - 1 # 0 /\ Src(i - 1)' = Src(i)
      /\ \A i \in Sources' : i # 0 => i + 1 \in Sources /\ i + 1 # 1 /\ i + 1 \in 1 .. Len(buffers)
                                       /\ Src(i)' = Src(i + 1)
      /\ 0 \in Sources /\ 0 \in Sources' /\ 1 \in Sources /\ 1 \in 1 .. Len(buffers)
  <2>1. \A i \in Sources : i > 1 => i - 1 \in 1 .. Len(buffers) - 1 /\ (i - 1) + 1 = i
                                     /\ i - 1 \in Sources' /\ i - 1 # 0
    BY <1>0 DEF Sources
  <2>2. \A i \in Sources' : i # 0 => i \in 1 .. Len(buffers) - 1 /\ i + 1 \in Sources
                                      /\ i + 1 # 1 /\ i + 1 \in 1 .. Len(buffers)
    BY <1>0 DEF Sources
  <2>3. 0 \in Sources /\ 0 \in Sources' /\ 1 \in Sources /\ 1 \in 1 .. Len(buffers)
    BY <1>0 DEF Sources
  <2>4. \A i \in Sources : i > 1 => Src(i - 1)' = Src(i)
    <3> SUFFICES ASSUME NEW i \in Sources, i > 1
                 PROVE  Src(i - 1)' = Src(i)
      OBVIOUS
    <3>1. i - 1 \in 1 .. Len(buffers) - 1 /\ (i - 1) + 1 = i
      BY <2>1
    <3>2. Src(i - 1)' = Src((i - 1) + 1)
      BY <1>0, <3>1
    <3> QED BY <3>1, <3>2
  <2> QED BY <1>0, <2>1, <2>2, <2>3, <2>4
<1>3. Src(0) \in Seq(Piece) /\ Src(1) \in Seq(Piece)
  BY <1>2, SourceTypes
\* What is read next does not change, and where nothing was open nothing moves.
<1>4. Stream' = Stream /\ ~Open' /\ Src(0)' = Stream
  <2>1. ~Open'
    <3>1. Len(buffers') > 0 => 2 \in 1 .. Len(buffers) /\ Src(1)' = Src(2)
      <4>1. Len(buffers') > 0 => 2 \in 1 .. Len(buffers) /\ 1 \in 1 .. Len(buffers) - 1 /\ 1 + 1 = 2
        BY <1>0
      <4>2. \A i \in 1 .. Len(buffers) - 1 : Src(i)' = Src(i + 1)
        BY <1>0
      <4>3. ASSUME 1 \in 1 .. Len(buffers) - 1
            PROVE  Src(1)' = Src(1 + 1)
        BY <4>2, <4>3
      <4> QED BY <4>1, <4>3
    <3>2. Len(buffers') > 0 => ~MidLine(Src(2))
      BY <3>1 DEF Cutting
    <3> QED BY <3>1, <3>2 DEF Open
  <2>2. Stream' = Src(0)'
    BY <2>1 DEF Stream
  <2>3. CASE Src(1) = <<>>
    <3>1. ~Open
      BY <2>3 DEF Open, MidLine
    <3>2. Src(1) \o Src(0) = Src(0)
      BY <1>3, <2>3
    <3> QED BY <1>0, <2>1, <2>2, <3>1, <3>2 DEF Stream
  <2>4. CASE Open /\ Len(Src(1)) = 1 /\ Src(1) = <<Src(1)[1]>>
    <3>1. Stream = Src(1) \o Src(0)
      BY <2>4 DEF Stream
    <3> QED BY <1>0, <2>1, <2>2, <3>1
  <2> QED BY <1>1, <2>3, <2>4
<1>5. Firsts(Src(0)') = Firsts(Src(1)) \cup Firsts(Src(0))
  <2>1. CASE Src(1) = <<>>
    <3>1. Src(1) \o Src(0) = Src(0)
      BY <1>3, <2>1
    <3>2. Firsts(Src(1)) = {}
      BY <2>1 DEF Firsts
    <3> QED BY <1>0, <3>1, <3>2
  <2>2. CASE Len(Src(1)) = 1 /\ Src(1) = <<Src(1)[1]>> /\ Src(1)[1].part = "first"
    <3> DEFINE s == Src(0)
               t == Src(0)'
               x == Src(1)[1]
    <3>1. s \in Seq(Piece) /\ t = <<x>> \o s /\ Src(1) = <<x>> /\ Len(<<x>>) = 1
      BY <1>0, <1>3, <2>2
    <3>2. x.part = "first" /\ Firsts(Src(1)) = {x}
      <4>1. Len(Src(1)) = 1
        BY <2>2
      <4> QED BY <2>2, <4>1 DEF Firsts
    <3> HIDE DEF s, t, x
    <3>3. /\ Len(t) = Len(s) + 1 /\ Len(s) \in Nat /\ t[1] = x
          /\ \A j \in 1 .. Len(s) : j + 1 \in 1 .. Len(t) /\ t[j + 1] = s[j]
          /\ \A j \in 1 .. Len(t) : j # 1 => j - 1 \in 1 .. Len(s) /\ t[j] = s[j - 1]
          /\ 1 \in 1 .. Len(t)
      BY <3>1
    <3>4. \A p \in Firsts(t) : p = x \/ p \in Firsts(s)
      BY <3>3 DEF Firsts
    <3>5. x \in Firsts(t) /\ \A p \in Firsts(s) : p \in Firsts(t)
      BY <3>2, <3>3 DEF Firsts
    <3>6. Firsts(t) = {x} \cup Firsts(s)
      BY <3>4, <3>5
    <3> QED BY <3>2, <3>6 DEF s, t
  <2> QED BY <1>1, <2>1, <2>2
<1>6. Pending' = Pending
  <2>1. ASSUME NEW p \in Pending
        PROVE  p \in Pending'
    <3>1. PICK i \in Sources : p \in Firsts(Src(i))
      BY DEF Pending
    <3>2. CASE i \in {0, 1}
      <4>1. p \in Firsts(Src(0)')
        BY <1>5, <3>1, <3>2
      <4> QED BY <1>2, <4>1 DEF Pending
    <3>3. CASE i \notin {0, 1}
      <4>1. i > 1
        BY <1>0, <3>3 DEF Sources
      <4>2. i - 1 \in Sources' /\ Src(i - 1)' = Src(i)
        BY <1>2, <4>1
      <4> QED BY <3>1, <4>2 DEF Pending
    <3> QED BY <3>2, <3>3
  <2>2. ASSUME NEW p \in Pending'
        PROVE  p \in Pending
    <3>1. PICK i \in Sources' : p \in Firsts(Src(i)')
      BY DEF Pending
    <3>2. CASE i = 0
      BY <1>2, <1>5, <3>1, <3>2 DEF Pending
    <3>3. CASE i # 0
      BY <1>2, <3>1, <3>3 DEF Pending
    <3> QED BY <3>2, <3>3
  <2> QED BY <2>1, <2>2
<1>7. Cutting'
  <2>1. ASSUME NEW i \in 1 .. Len(buffers')
        PROVE  Paired(Src(i)') /\ ~MidLine(Src(i)')
    <3>1. i \in Sources' /\ i # 0
      BY <1>0 DEF Sources
    <3>2. Src(i)' = Src(i + 1) /\ i + 1 # 1 /\ i + 1 \in 1 .. Len(buffers)
      BY <1>2, <3>1
    <3> QED BY <3>2 DEF Cutting
  <2>2. half' = half /\ written' = written /\ up' = up
    BY DEF SaveRest, daemonVars
  <2>3. ~up' => saved' = <<>> /\ unread' = <<>>
    <3> SUFFICES ASSUME ~up
                 PROVE  saved' = <<>> /\ unread' = <<>>
      BY <2>2
    <3>1. half = "none" /\ saved = <<>> /\ unread = <<>>
      BY DEF Cutting
    <3>2. ~MidLine(Stream)
      BY <3>1 DEF Cutting
    <3>3. Src(0) = <<>>
      BY <3>1 DEF Src
    <3>4. ~Open
      <4> SUFFICES ASSUME Open
                   PROVE  FALSE
        OBVIOUS
      <4>1. Src(1)[Len(Src(1))].part = "first"
        BY DEF Open, MidLine
      <4>2. Stream = <<Src(1)[Len(Src(1))]>> \o <<>>
        BY <3>3 DEF Stream
      <4>3. Stream = <<Src(1)[Len(Src(1))]>>
        BY <4>2
      <4> QED BY <3>2, <4>1, <4>3 DEF MidLine
    <3> QED BY <1>0, <1>1, <3>1, <3>4
  <2>4. half' = "none" \/ (MidLine(Stream') /\ Stream'[Len(Stream')].n = written'
                           /\ Stream'[Len(Stream')].kind = half')
    BY <1>4, <2>2 DEF Cutting
  <2>5. half' = "none" => ~MidLine(Stream')
    BY <1>4, <2>2 DEF Cutting
  <2>6. Paired(Stream')
    BY <1>4 DEF Cutting
  <2>7. ~up' => half' = "none"
    BY <2>2 DEF Cutting
  <2> QED BY <1>4, <2>1, <2>3, <2>4, <2>5, <2>6, <2>7, Zenon DEF Cutting
<1>8. Ordering'
  <2>1. Increasing(Src(0)')
    <3>1. CASE Src(1) = <<>>
      <4>1. Src(1) \o Src(0) = Src(0)
        BY <1>3, <3>1
      <4> QED BY <1>0, <1>2, <4>1 DEF Ordering
    <3>2. CASE Len(Src(1)) = 1 /\ Src(1) = <<Src(1)[1]>> /\ Src(1)[1].part = "first"
      <4> DEFINE s == Src(0)
                 t == Src(0)'
                 x == Src(1)[1]
      <4>1. s \in Seq(Piece) /\ t = <<x>> \o s /\ Increasing(s)
        BY <1>0, <1>2, <1>3, <3>2 DEF Ordering
      <4>2. \A q \in Firsts(s) : x.n < q.n
        <5>1. Len(Src(1)) = 1 /\ 1 \in 1 .. Len(Src(1))
          BY <3>2
        <5>2. x \in Firsts(Src(1))
          BY <3>2, <5>1 DEF Firsts
        <5>3. 0 < 1
          OBVIOUS
        <5> QED BY <1>2, <5>2, <5>3 DEF Ordering
      <4> HIDE DEF s, t, x
      <4>3. /\ Len(t) = Len(s) + 1 /\ Len(s) \in Nat /\ t[1] = x
            /\ \A j \in 1 .. Len(t) : j # 1 => j - 1 \in 1 .. Len(s) /\ t[j] = s[j - 1]
        BY <4>1
      <4>4. ASSUME NEW j \in 1 .. Len(t), NEW k \in 1 .. Len(t), j < k,
                   t[j].part = "first", t[k].part = "first"
            PROVE  t[j].n < t[k].n
        <5>1. k # 1 /\ k - 1 \in 1 .. Len(s) /\ t[k] = s[k - 1]
          BY <4>3, <4>4
        <5>2. CASE j = 1
          BY <4>2, <4>3, <4>4, <5>1, <5>2 DEF Firsts
        <5>3. CASE j # 1
          <6>1. j - 1 \in 1 .. Len(s) /\ t[j] = s[j - 1] /\ j - 1 < k - 1
            BY <4>3, <4>4, <5>3
          <6> QED BY <4>1, <4>4, <5>1, <6>1 DEF Increasing
        <5> QED BY <5>2, <5>3
      <4>5. Increasing(t)
        BY <4>4 DEF Increasing
      <4> QED BY <4>5 DEF t
    <3> QED BY <1>1, <3>1, <3>2
  <2>2. ASSUME NEW i \in Sources'
        PROVE  Increasing(Src(i)')
    BY <1>2, <2>1 DEF Ordering
  <2>3. ASSUME NEW i \in Sources', NEW k \in Sources', k < i,
               NEW p \in Firsts(Src(i)'), NEW q \in Firsts(Src(k)')
        PROVE  p.n < q.n
    <3>0. i \in Nat /\ k \in Nat /\ i # 0
      BY <1>0, <2>3 DEF Sources
    <3>1. i + 1 \in Sources /\ Src(i)' = Src(i + 1)
      BY <1>2, <3>0
    <3>2. CASE k = 0
      <4>1. q \in Firsts(Src(0)) \/ q \in Firsts(Src(1))
        BY <1>5, <2>3, <3>2
      <4>2. 0 < i + 1 /\ 1 < i + 1
        BY <3>0
      <4> QED BY <1>2, <2>3, <3>1, <4>1, <4>2 DEF Ordering
    <3>3. CASE k # 0
      <4>1. k + 1 \in Sources /\ Src(k)' = Src(k + 1) /\ k + 1 < i + 1
        BY <1>2, <2>3, <3>0, <3>3
      <4> QED BY <2>3, <3>1, <4>1 DEF Ordering
    <3> QED BY <3>2, <3>3
  <2> QED BY <2>2, <2>3 DEF Ordering
<1> QED BY <1>6, <1>7, <1>8

LEMMA LastFirst ==
    ASSUME NEW s \in Seq(Piece), MidLine(s)
    PROVE  s[Len(s)] \in Firsts(s)
<1>1. Len(s) \in 1 .. Len(s) /\ s[Len(s)].part = "first"
  BY DEF MidLine
<1> QED BY <1>1 DEF Firsts

\* Half a line is the end of the socket's source, or where that is empty, of the inner buffer.
LEMMA HalfPending ==
    ASSUME ReaderAssumption, TypeOK, Cutting, half # "none"
    PROVE  \E y : /\ y.kind = half
                  /\ y \in Firsts(Src(0)) \/ (Open /\ y = Src(1)[Len(Src(1))])
<1>1. MidLine(Stream) /\ Stream[Len(Stream)].kind = half
  BY DEF Cutting
<1>2. Src(0) \in Seq(Piece)
  BY SourceTypes
<1>3. CASE ~Open
  <2>1. Stream = Src(0)
    BY <1>3 DEF Stream
  <2>2. Src(0)[Len(Src(0))] \in Firsts(Src(0))
    BY <1>1, <1>2, <2>1, LastFirst
  <2> QED BY <1>1, <2>1, <2>2
<1>4. CASE Open
  <2> DEFINE x == Src(1)[Len(Src(1))]
             s == Src(0)
  <2>1. Stream = <<x>> \o s /\ s \in Seq(Piece)
    BY <1>2, <1>4 DEF Stream
  <2> HIDE DEF x, s
  <2>2. Len(Stream) = Len(s) + 1 /\ Len(s) \in Nat /\ Stream[1] = x
        /\ \A j \in 1 .. Len(s) : Stream[j + 1] = s[j]
    BY <2>1
  <2>3. CASE Len(s) = 0
    BY <1>1, <1>4, <2>2, <2>3 DEF x
  <2>4. CASE Len(s) # 0
    <3>1. Len(s) \in 1 .. Len(s) /\ s # <<>> /\ Stream[Len(Stream)] = s[Len(s)]
      BY <2>1, <2>2, <2>4
    <3>2. s[Len(s)] \in Firsts(s)
      BY <1>1, <3>1 DEF MidLine, Firsts
    <3> QED BY <1>1, <3>1, <3>2 DEF s
  <2> QED BY <2>3, <2>4
<1> QED BY <1>3, <1>4

\* The first line of the inner buffer is handled; what it begins with is nowhere else.
LEMMA HandleLineMoves ==
    ASSUME ReaderAssumption, TypeOK, Cutting, Ordering, HandleLine
    PROVE  /\ Cutting' /\ Ordering'
           /\ Src(1)[1] \in Firsts(Src(1)) /\ Src(1)[1] \in Pending /\ 1 \in Sources
           /\ Pending = Pending' \cup {Src(1)[1]}
           /\ \A p \in Pending' : p.n # Src(1)[1].n
           /\ Called' = Called \cup {Src(1)[1]}
           /\ \A i \in 2 .. Len(buffers) : Src(i)' = Src(i)
           /\ WholeLine(SubSeq(Src(1), 1, 2)) /\ SubSeq(Src(1), 1, 2)[1] = Src(1)[1]
           /\ \A p \in Pending' :
                 Src(1)[1].n < p.n \/ \E i \in 2 .. Len(buffers) : p \in Firsts(Src(i))
           /\ \A i \in 2 .. Len(buffers) : i \in Sources
                  /\ \A q \in Firsts(Src(i)) : q.n < Src(1)[1].n
           /\ half # "none" => \E y \in Pending' : y.kind = half
<1> DEFINE b == Src(1)
<1>0. /\ Len(buffers) \in Nat /\ Len(buffers) > 0 /\ Len(buffers') = Len(buffers)
      /\ Src(1) \in Seq(Piece) /\ Ends(Src(1)) # {}
      /\ Src(1)' = SubSeq(Src(1), 3, Len(Src(1)))
      /\ \A i \in Sources : i # 1 => Src(i)' = Src(i)
      /\ calls' = Append(calls, SubSeq(Src(1), 1, 2)) /\ saved' = saved
  BY HandleLineSources, SourceTypes
<1>1. 1 \in Sources /\ 1 \in 1 .. Len(buffers) /\ 0 \in Sources /\ Sources' = Sources /\ 0 # 1
  BY <1>0 DEF Sources
<1>2. Paired(b) /\ Increasing(b)
  BY <1>1 DEF Cutting, Ordering
<1>3. /\ Len(b) \in Nat /\ Len(b) >= 2
      /\ b[1].part = "first" /\ b[2].part = "last" /\ b[2].n = b[1].n
      /\ Src(1)' \in Seq(Piece) /\ Paired(Src(1)') /\ Increasing(Src(1)')
      /\ Firsts(b) = Firsts(Src(1)') \cup {b[1]}
      /\ \A p \in Firsts(Src(1)') : b[1].n < p.n
      /\ (MidLine(b) <=> MidLine(Src(1)'))
      /\ (MidLine(Src(1)') => Src(1)'[Len(Src(1)')] = b[Len(b)])
  <2> DEFINE t == SubSeq(b, 3, Len(b))
  <2>1. /\ Len(b) \in Nat /\ Len(b) >= 2
        /\ b[1].part = "first" /\ b[2].part = "last" /\ b[2].n = b[1].n
        /\ t \in Seq(Piece) /\ Paired(t) /\ Increasing(t)
        /\ Firsts(b) = Firsts(t) \cup {b[1]}
        /\ \A p \in Firsts(t) : b[1].n < p.n
        /\ (MidLine(b) <=> MidLine(t))
        /\ (MidLine(t) => t[Len(t)] = b[Len(b)])
    BY <1>0, <1>2, FirstLine, Zenon
  <2>2. t = Src(1)'
    BY <1>0
  <2> HIDE DEF t
  <2> QED BY <2>1, <2>2, Zenon
<1>4. b[1] \in Firsts(b) /\ b[1] \in Piece
  BY <1>0, <1>3, FirstsIn
<1>5. b[1] \in Pending
  BY <1>1, <1>4 DEF Pending
<1>6. \A i \in Sources : Firsts(Src(i)') \subseteq Firsts(Src(i))
  <2>1. ASSUME NEW i \in Sources
        PROVE  Firsts(Src(i)') \subseteq Firsts(Src(i))
    <3>1. CASE i = 1
      BY <1>3, <3>1
    <3>2. CASE i # 1
      BY <1>0, <3>2
    <3> QED BY <3>1, <3>2
  <2> QED BY <2>1
<1>7. Pending = Pending' \cup {b[1]}
  <2>1. Pending' \subseteq Pending
    BY <1>1, <1>6 DEF Pending
  <2>2. ASSUME NEW p \in Pending, p # b[1]
        PROVE  p \in Pending'
    <3>1. PICK i \in Sources : p \in Firsts(Src(i))
      BY DEF Pending
    <3>2. p \in Firsts(Src(i)')
      <4>1. CASE i = 1
        BY <1>3, <2>2, <3>1, <4>1
      <4>2. CASE i # 1
        BY <1>0, <3>1, <4>2
      <4> QED BY <4>1, <4>2
    <3> QED BY <1>1, <3>2 DEF Pending
  <2> QED BY <1>5, <2>1, <2>2
<1>8. ASSUME NEW p \in Pending'
      PROVE  p.n # b[1].n
  <2>1. PICK i \in Sources : p \in Firsts(Src(i)')
    BY <1>1 DEF Pending
  <2>2. p \in Pending /\ p.n \in Nat /\ b[1].n \in Nat
    <3>1. p \in Pending
      BY <1>7
    <3>2. p \in Piece
      BY <3>1, SourceTypes
    <3> QED BY <1>4, <3>1, <3>2, PieceFields
  <2>3. CASE i = 1
    <3>1. b[1].n < p.n
      BY <1>3, <2>1, <2>3
    <3> QED BY <2>2, <3>1
  <2>4. CASE i # 1
    <3>1. i \in Nat /\ p \in Firsts(Src(i)) /\ (i < 1 \/ 1 < i)
      BY <1>0, <2>1, <2>4 DEF Sources
    <3>2. p.n < b[1].n \/ b[1].n < p.n
      BY <1>1, <1>4, <3>1 DEF Ordering
    <3> QED BY <2>2, <3>2
  <2> QED BY <2>3, <2>4
<1>9. Called' = Called \cup {b[1]}
  <2> DEFINE c == SubSeq(b, 1, 2)
  <2>1. c[1] = b[1]
    BY <1>0, <1>3
  <2> HIDE DEF c
  <2>2. calls \in Seq(Seq(Piece)) /\ calls' = Append(calls, c)
    BY <1>0 DEF TypeOK, c
  <2>3. /\ Len(calls') = Len(calls) + 1 /\ Len(calls) \in Nat /\ calls'[Len(calls) + 1] = c
        /\ \A i \in 1 .. Len(calls) : calls'[i] = calls[i]
    BY <2>2
  <2>4. \A i \in 1 .. Len(calls') : i \in 1 .. Len(calls) \/ i = Len(calls) + 1
    BY <2>3
  <2>5. \A i \in 1 .. Len(calls) : i \in 1 .. Len(calls')
    BY <2>3
  <2>6. Len(calls) + 1 \in 1 .. Len(calls')
    BY <2>3
  <2>7. Called' \subseteq Called \cup {b[1]}
    BY <2>1, <2>3, <2>4 DEF Called
  <2>8. Called \cup {b[1]} \subseteq Called'
    BY <2>1, <2>3, <2>5, <2>6 DEF Called
  <2> QED BY <2>7, <2>8
<1>10. WholeLine(SubSeq(b, 1, 2)) /\ SubSeq(b, 1, 2)[1] = b[1]
  <2>1. /\ Len(SubSeq(b, 1, 2)) = 2 /\ SubSeq(b, 1, 2)[1] = b[1] /\ SubSeq(b, 1, 2)[2] = b[2]
    BY <1>0, <1>3
  <2> QED BY <1>3, <2>1 DEF WholeLine
<1>11. (Open' <=> Open) /\ Stream' = Stream
  <2>1. Open' <=> Open
    BY <1>0, <1>3 DEF Open
  <2>2. Src(0)' = Src(0)
    BY <1>0, <1>1
  <2>3. Stream' = Stream
    BY <1>3, <2>1, <2>2 DEF Stream, Open
  <2> QED BY <2>1, <2>3
<1>12. Cutting'
  <2>1. ASSUME NEW i \in 1 .. Len(buffers')
        PROVE  Paired(Src(i)') /\ (i # 1 => ~MidLine(Src(i)'))
    <3>1. i \in Sources /\ i \in 1 .. Len(buffers)
      BY <1>0 DEF Sources
    <3>2. CASE i = 1
      BY <1>3, <3>2
    <3>3. CASE i # 1
      BY <1>0, <3>1, <3>3 DEF Cutting
    <3> QED BY <3>2, <3>3
  <2>2. UNCHANGED <<half, written, up, saved, unread>>
    BY DEF HandleLine, daemonVars
  <2> QED BY <1>11, <2>1, <2>2 DEF Cutting
<1>13. Ordering'
  <2>1. ASSUME NEW i \in Sources
        PROVE  Increasing(Src(i)')
    BY <1>0, <1>3 DEF Ordering
  <2>2. ASSUME NEW i \in Sources, NEW k \in Sources, k < i,
               NEW p \in Firsts(Src(i)'), NEW q \in Firsts(Src(k)')
        PROVE  p.n < q.n
    BY <1>6, <2>2 DEF Ordering
  <2> QED BY <1>1, <2>1, <2>2 DEF Ordering
<1>14. \A i \in 2 .. Len(buffers) : Src(i)' = Src(i)
  BY <1>0 DEF Sources
<1>15. ASSUME NEW p \in Pending'
       PROVE  b[1].n < p.n \/ \E i \in 2 .. Len(buffers) : p \in Firsts(Src(i))
  <2>1. PICK i \in Sources : p \in Firsts(Src(i)')
    BY <1>1 DEF Pending
  <2>2. CASE i = 1
    BY <1>3, <2>1, <2>2
  <2>3. CASE i = 0
    <3>1. p \in Firsts(Src(0)) /\ 0 < 1
      BY <1>0, <2>1, <2>3
    <3> QED BY <1>1, <1>4, <3>1 DEF Ordering
  <2>4. CASE i \notin {0, 1}
    <3>1. i \in 2 .. Len(buffers)
      BY <1>0, <2>4 DEF Sources
    <3> QED BY <1>14, <2>1, <3>1
  <2> QED BY <2>2, <2>3, <2>4
<1>16. ASSUME NEW i \in 2 .. Len(buffers)
       PROVE  i \in Sources /\ \A q \in Firsts(Src(i)) : q.n < b[1].n
  <2>1. i \in Sources /\ 1 < i
    BY <1>0 DEF Sources
  <2> QED BY <1>1, <1>4, <2>1 DEF Ordering
<1>17. ASSUME half # "none"
       PROVE  \E y \in Pending' : y.kind = half
  <2>1. PICK y : /\ y.kind = half
                 /\ y \in Firsts(Src(0)) \/ (Open /\ y = Src(1)[Len(Src(1))])
    BY <1>17, HalfPending
  <2>2. CASE y \in Firsts(Src(0))
    <3>1. y \in Firsts(Src(0)')
      BY <1>0, <1>1, <2>2
    <3> QED BY <1>1, <2>1, <3>1 DEF Pending
  <2>3. CASE Open /\ y = Src(1)[Len(Src(1))]
    <3>1. MidLine(Src(1)') /\ y = Src(1)'[Len(Src(1)')]
      BY <1>3, <2>3 DEF Open
    <3>2. Src(1)' \in Seq(Piece)
      BY <1>3
    <3>3. y \in Firsts(Src(1)')
      BY <3>1, <3>2, LastFirst
    <3> QED BY <1>1, <2>1, <3>3 DEF Pending
  <2> QED BY <2>1, <2>2, <2>3
<1> QED BY <1>1, <1>4, <1>5, <1>7, <1>8, <1>9, <1>10, <1>12, <1>13, <1>14, <1>15, <1>16, <1>17

\* The daemon writes a piece: it goes behind everything else.
LEMMA WriteMoves ==
    ASSUME ReaderAssumption, TypeOK, Cutting, Ordering, Counting, NEW x \in Piece,
           unread' = Append(unread, x), UNCHANGED <<saved, buffers, up>>, up,
           IF half = "none" THEN /\ x.part = "first" /\ half' = x.kind /\ written' = x.n
                                 /\ x.n = written + 1
           ELSE /\ x.part = "last" /\ x.n = written /\ x.kind = half
                /\ half' = "none" /\ written' = written
    PROVE  /\ Cutting' /\ Ordering'
           /\ Pending' = Pending \cup (IF x.part = "first" THEN {x} ELSE {})
           /\ Len(buffers') = Len(buffers) /\ \A i \in 1 .. Len(buffers) : Src(i)' = Src(i)
<1>0. /\ Sources' = Sources /\ Len(buffers') = Len(buffers) /\ Len(buffers) \in Nat
      /\ Src(0)' = Append(Src(0), x) /\ \A i \in Sources : i # 0 => Src(i)' = Src(i)
      /\ 0 \in Sources /\ Src(0) \in Seq(Piece)
  BY WriteSources, SourceTypes
<1>1. Firsts(Src(0)') = Firsts(Src(0)) \cup (IF x.part = "first" THEN {x} ELSE {})
  BY <1>0, FirstsAppend
<1>2. \A i \in 1 .. Len(buffers) : Src(i)' = Src(i) /\ i \in Sources
  BY <1>0 DEF Sources
<1>3. Pending' = Pending \cup (IF x.part = "first" THEN {x} ELSE {})
  <2>1. ASSUME NEW p \in Pending'
        PROVE  p \in Pending \cup (IF x.part = "first" THEN {x} ELSE {})
    <3>1. PICK i \in Sources : p \in Firsts(Src(i)')
      BY <1>0 DEF Pending
    <3>2. CASE i = 0
      BY <1>0, <1>1, <3>1, <3>2 DEF Pending
    <3>3. CASE i # 0
      BY <1>0, <3>1, <3>3 DEF Pending
    <3> QED BY <3>2, <3>3
  <2>2. \A i \in Sources : Firsts(Src(i)) \subseteq Firsts(Src(i)')
    <3>1. ASSUME NEW i \in Sources
          PROVE  Firsts(Src(i)) \subseteq Firsts(Src(i)')
      <4>1. CASE i = 0
        BY <1>1, <4>1
      <4>2. CASE i # 0
        BY <1>0, <4>2
      <4> QED BY <4>1, <4>2
    <3> QED BY <3>1
  <2>3. Pending \subseteq Pending'
    BY <1>0, <2>2 DEF Pending
  <2>4. x.part = "first" => x \in Pending'
    BY <1>0, <1>1 DEF Pending
  <2> QED BY <2>1, <2>3, <2>4
<1>4. Open' <=> Open
  <2>1. Len(buffers) > 0 => 1 \in 1 .. Len(buffers)
    BY <1>0
  <2> QED BY <1>0, <1>2, <2>1 DEF Open
<1>5. Stream' = Append(Stream, x) /\ Stream \in Seq(Piece)
  <2>1. CASE Open
    <3>1. 1 \in 1 .. Len(buffers) /\ 1 \in Sources
      BY <1>0, <2>1 DEF Open, Sources
    <3> DEFINE y == Src(1)[Len(Src(1))]
               s == Src(0)
    <3>2. y \in Piece
      <4>1. Src(1) \in Seq(Piece) /\ Src(1) # <<>>
        BY <2>1, <3>1, SourceTypes DEF Open, MidLine
      <4>2. Len(Src(1)) \in 1 .. Len(Src(1))
        BY <4>1
      <4> QED BY <4>1, <4>2, ElementOf
    <3>3. Stream = <<y>> \o s /\ Stream' = <<y>> \o Append(s, x) /\ s \in Seq(Piece)
      BY <1>0, <1>2, <1>4, <2>1, <3>1 DEF Stream
    <3> HIDE DEF y, s
    <3>4. <<y>> \o Append(s, x) = Append(<<y>> \o s, x)
      BY <3>2, <3>3
    <3>5. <<y>> \o s \in Seq(Piece)
      BY <3>2, <3>3
    <3> QED BY <3>3, <3>4, <3>5
  <2>2. CASE ~Open
    BY <1>0, <1>4, <2>2 DEF Stream
  <2> QED BY <2>1, <2>2
<1>6. IF MidLine(Stream) THEN /\ x.part = "last" /\ x.n = Stream[Len(Stream)].n
                              /\ x.kind = Stream[Len(Stream)].kind
      ELSE x.part = "first"
  BY DEF Cutting
<1>7. /\ Paired(Stream') /\ (MidLine(Stream') <=> ~MidLine(Stream))
      /\ Stream'[Len(Stream')] = x
  BY <1>5, <1>6, NextPiece DEF Cutting
<1>8. Cutting'
  <2>1. \A i \in 1 .. Len(buffers') : Paired(Src(i)') /\ (i # 1 => ~MidLine(Src(i)'))
    BY <1>0, <1>2 DEF Cutting
  <2>2. Open' => saved' = <<>>
    BY <1>4 DEF Cutting
  <2>3. x.kind # "none"
    BY PieceFields
  <2>4. IF half' = "none" THEN ~MidLine(Stream')
        ELSE /\ MidLine(Stream')
             /\ Stream'[Len(Stream')].n = written' /\ Stream'[Len(Stream')].kind = half'
    BY <1>7, <2>3 DEF Cutting
  <2> QED BY <1>7, <2>1, <2>2, <2>4 DEF Cutting
<1>9. \A p \in Pending : p.n \in 1 .. written /\ written \in Nat
  BY DEF Counting, TypeOK
<1>10. Ordering'
  <2>1. \A i \in Sources : Firsts(Src(i)) \subseteq Pending
    BY DEF Pending
  <2>2. x.part = "first" => \A p \in Pending : p.n < x.n
    <3> SUFFICES ASSUME x.part = "first", NEW p \in Pending
                 PROVE  p.n < x.n
      OBVIOUS
    <3>1. x.n = written + 1
      OBVIOUS
    <3> QED BY <1>9, <3>1
  <2>3. x.part \in {"first", "last"}
    BY PieceFields
  <2>4. x.part = "last" \/ \A p \in Firsts(Src(0)) : p.n < x.n
    BY <1>0, <2>1, <2>2, <2>3
  <2>5. Increasing(Src(0)')
    BY <1>0, <2>4, IncreasingAppend DEF Ordering
  <2>6. ASSUME NEW i \in Sources, NEW k \in Sources, k < i,
               NEW p \in Firsts(Src(i)'), NEW q \in Firsts(Src(k)')
        PROVE  p.n < q.n
    <3>1. i # 0
      BY <1>0, <2>6 DEF Sources
    <3>2. p \in Firsts(Src(i)) /\ p \in Pending
      BY <1>0, <2>1, <2>6, <3>1
    <3>3. CASE q \in Firsts(Src(k))
      BY <2>6, <3>2, <3>3 DEF Ordering
    <3>4. CASE q \notin Firsts(Src(k))
      <4>1. k = 0
        BY <1>0, <2>6, <3>4
      <4>2. x.part = "first" /\ q = x
        BY <1>1, <2>6, <3>4, <4>1
      <4> QED BY <2>2, <3>2, <4>2
    <3> QED BY <3>3, <3>4
  <2>7. \A i \in Sources : Increasing(Src(i)')
    BY <1>0, <2>5 DEF Ordering
  <2> QED BY <1>0, <2>6, <2>7 DEF Ordering
<1> QED BY <1>0, <1>2, <1>3, <1>8, <1>10

\* The connection is closed: what was in the socket is gone.
LEMMA CloseMoves ==
    ASSUME ReaderAssumption, TypeOK, Cutting, Ordering, CloseManagement, "line" \notin torn'
    PROVE  /\ Cutting' /\ Ordering' /\ Pending' \subseteq Pending
           /\ Len(buffers') = Len(buffers) /\ \A i \in 1 .. Len(buffers) : Src(i)' = Src(i)
<1>0. /\ Len(buffers) \in Nat /\ buffers' = buffers /\ saved' = <<>> /\ unread' = <<>>
      /\ half' = "none" /\ ~up'
  BY SourceTypes DEF CloseManagement
<1>1. Sources' = Sources /\ Src(0)' = <<>> /\ \A i \in Sources : i # 0 => Src(i)' = Src(i)
  BY <1>0 DEF Sources, Src
<1>2. \A i \in 1 .. Len(buffers) : Src(i)' = Src(i) /\ i \in Sources /\ ~MidLine(Src(i))
  <2>1. "line" \notin Cut
    BY DEF CloseManagement
  <2>2. \A i \in 1 .. Len(buffers) : ~MidLine(buffers[i].rest)
    BY <2>1 DEF Cut
  <2>3. \A i \in 1 .. Len(buffers) : i # 0 /\ i \in Sources
    BY <1>0 DEF Sources
  <2> QED BY <1>1, <2>2, <2>3 DEF Src
<1>3. \A i \in Sources : Firsts(Src(i)') \subseteq Firsts(Src(i))
  <2>1. Firsts(<<>>) = {}
    BY DEF Firsts
  <2> QED BY <1>1, <2>1
<1>4. Pending' \subseteq Pending
  BY <1>1, <1>3 DEF Pending
<1>5. ~Open'
  <2>1. Len(buffers) > 0 => 1 \in 1 .. Len(buffers)
    BY <1>0
  <2> QED BY <1>0, <1>2, <2>1 DEF Open
<1>6. Stream' = <<>> /\ ~MidLine(<<>>) /\ Paired(<<>>) /\ Increasing(<<>>)
  BY <1>1, <1>5 DEF Stream, MidLine, Paired, Increasing
<1>7. Cutting'
  BY <1>0, <1>2, <1>5, <1>6 DEF Cutting
<1>8. Ordering'
  <2>1. \A i \in Sources : Increasing(Src(i)')
    BY <1>1, <1>6 DEF Ordering
  <2>2. ASSUME NEW i \in Sources, NEW k \in Sources, k < i,
               NEW p \in Firsts(Src(i)'), NEW q \in Firsts(Src(k)')
        PROVE  p.n < q.n
    BY <1>3, <2>2 DEF Ordering
  <2> QED BY <1>1, <2>1, <2>2 DEF Ordering
<1> QED BY <1>0, <1>2, <1>4, <1>7, <1>8

-----------------------------------------------------------------------------
(* Types *)

LEMMA TypesKept ==
    ASSUME ReaderAssumption, TypeOK, half # "none" => up /\ written > 0, [Next]_vars
    PROVE  TypeOK' /\ (half' # "none" => up' /\ written' > 0)
<1> DEFINE Activation == [rest : Seq(Piece), pumping : BOOLEAN]
<1>0. /\ up \in BOOLEAN /\ cmd \in BOOLEAN /\ torn \subseteq {"line", "answer"}
      /\ opens \in 0 .. MaxOpens /\ written \in 0 .. MaxLines
      /\ unread \in Seq(Piece) /\ saved \in Seq(Piece) /\ calls \in Seq(Seq(Piece))
      /\ buffers \in Seq(Activation)
      /\ half \in {"none", "event", "data", "end"} /\ owed \in {"none", "data", "end"}
  BY DEF TypeOK
<1>a. Cut \subseteq {"line", "answer"}
  BY DEF Cut
<1>b. buffers # <<>> => /\ Head(buffers) = buffers[1] /\ 1 \in 1 .. Len(buffers)
                        /\ Head(buffers) \in Activation /\ Tail(buffers) \in Seq(Activation)
  <2> HIDE DEF Activation
  <2> QED BY <1>0
<1>c. /\ torn \cup Cut \subseteq {"line", "answer"} /\ <<>> \in Seq(Piece)
      /\ <<>> \in Seq(Seq(Piece))
  BY <1>0, <1>a
<1>d. ASSUME NEW r \in Seq(Piece), NEW f \in BOOLEAN
      PROVE  [rest |-> r, pumping |-> f] \in Activation
  OBVIOUS
<1>e. ASSUME NEW a \in Activation
      PROVE  /\ a.rest \in Seq(Piece) /\ [a EXCEPT !.pumping = FALSE] \in Activation
             /\ <<a>> \o buffers \in Seq(Activation)
             /\ buffers # <<>> => [buffers EXCEPT ![1] = a] \in Seq(Activation)
  <2>1. a.rest \in Seq(Piece)
    OBVIOUS
  <2>2. [a EXCEPT !.pumping = FALSE] \in Activation
    BY Zenon
  <2> HIDE DEF Activation
  <2>3. <<a>> \o buffers \in Seq(Activation)
    BY <1>0
  <2>4. buffers # <<>> => [buffers EXCEPT ![1] = a] \in Seq(Activation)
    BY <1>0
  <2> QED BY <2>1, <2>2, <2>3, <2>4
<1> HIDE DEF Activation
<1>1. CASE FdRead
  <2>1. saved \o unread \in Seq(Piece)
    BY <1>0
  <2>2. buffers' \in Seq(Activation)
    <3>1. [rest |-> saved \o unread, pumping |-> FALSE] \in Activation
      BY <1>d, <2>1
    <3> QED BY <1>1, <1>e, <3>1 DEF FdRead
  <2> QED BY <1>0, <1>1, <1>c, <2>2 DEF FdRead, daemonVars, TypeOK, Activation
<1>2. CASE HandleLine
  <2>1. Head(buffers).rest \in Seq(Piece) /\ buffers # <<>>
    BY <1>2, <1>b, <1>e DEF HandleLine
  <2>2. PICK k \in Ends(Head(buffers).rest), pumps \in BOOLEAN :
           /\ calls' = Append(calls, SubSeq(Head(buffers).rest, 1, k))
           /\ buffers' = [buffers EXCEPT ![1] =
                 [rest |-> SubSeq(Head(buffers).rest, k + 1, Len(Head(buffers).rest)),
                  pumping |-> pumps]]
           /\ cmd' = (cmd /\ Head(buffers).rest[1].kind # "end")
    BY <1>2 DEF HandleLine
  <2>3. k \in 1 .. Len(Head(buffers).rest)
    BY DEF Ends
  <2>4. /\ SubSeq(Head(buffers).rest, 1, k) \in Seq(Piece)
        /\ SubSeq(Head(buffers).rest, k + 1, Len(Head(buffers).rest)) \in Seq(Piece)
    <3>1. ASSUME NEW s \in Seq(Piece), NEW m \in 1 .. Len(s)
          PROVE  SubSeq(s, 1, m) \in Seq(Piece) /\ SubSeq(s, m + 1, Len(s)) \in Seq(Piece)
      <4>1. /\ 1 \in 1 .. Len(s) + 1 /\ m + 1 \in 1 .. Len(s) + 1
            /\ m \in 0 .. Len(s) /\ Len(s) \in 0 .. Len(s)
        OBVIOUS
      <4> QED BY <4>1, SubSeqProperties
    <3> QED BY <2>1, <2>3, <3>1
  <2>5. calls' \in Seq(Seq(Piece)) /\ cmd' \in BOOLEAN
    BY <1>0, <2>2, <2>4
  <2>6. buffers' \in Seq(Activation)
    <3>1. [rest |-> SubSeq(Head(buffers).rest, k + 1, Len(Head(buffers).rest)),
           pumping |-> pumps] \in Activation
      BY <1>d, <2>4
    <3> QED BY <1>e, <2>1, <2>2, <3>1
  <2> QED BY <1>0, <1>2, <2>5, <2>6 DEF HandleLine, daemonVars, TypeOK, Activation
<1>3. CASE HandlerReturns
  <2>1. buffers' \in Seq(Activation)
    <3>1. /\ buffers # <<>> /\ buffers' = [buffers EXCEPT ![1].pumping = FALSE]
      BY <1>3 DEF HandlerReturns
    <3>2. buffers' = [buffers EXCEPT ![1] = [buffers[1] EXCEPT !.pumping = FALSE]]
      BY <3>1
    <3> QED BY <1>b, <1>e, <3>1, <3>2
  <2> QED BY <1>0, <1>3, <2>1 DEF HandlerReturns, daemonVars, TypeOK, Activation
<1>4. CASE SaveRest
  <2>1. saved' \in Seq(Piece) /\ buffers' \in Seq(Activation)
    BY <1>0, <1>4, <1>b, <1>e DEF SaveRest
  <2> QED BY <1>0, <1>4, <2>1 DEF SaveRest, daemonVars, TypeOK, Activation
<1>5. CASE CloseManagement
  BY <1>0, <1>5, <1>c DEF CloseManagement, TypeOK, Activation
<1>6. CASE OpenManagement
  <2>1. opens' \in 0 .. MaxOpens /\ 0 \in 0 .. MaxLines
    BY <1>0, <1>6 DEF OpenManagement, ReaderAssumption
  <2> QED BY <1>0, <1>6, <1>c, <2>1 DEF OpenManagement, TypeOK, Activation
<1>7. CASE ManagementCommand
  BY <1>0, <1>7 DEF ManagementCommand, TypeOK, Activation
<1>8. CASE WriteFirst
  <2>1. PICK k \in {"event", owed} \ {"none"} :
           half' = k /\ unread' = Append(unread, [n |-> written + 1, kind |-> k, part |-> "first"])
    BY <1>8 DEF WriteFirst
  <2>2. written + 1 \in 1 .. MaxLines /\ written' = written + 1 /\ written' \in 0 .. MaxLines
        /\ written' > 0
    BY <1>0, <1>8 DEF WriteFirst, ReaderAssumption
  <2>3. k \in {"event", "data", "end"}
    BY <1>0
  <2>4. [n |-> written + 1, kind |-> k, part |-> "first"] \in Piece
    BY <2>2, <2>3 DEF Piece
  <2>5. unread' \in Seq(Piece)
    BY <1>0, <2>1, <2>4
  <2> QED BY <1>0, <1>8, <2>1, <2>2, <2>3, <2>5 DEF WriteFirst, TypeOK, Activation
<1>9. CASE WriteLast
  <2>1. written \in 1 .. MaxLines /\ half \in {"event", "data", "end"}
    BY <1>0, <1>9 DEF WriteLast, ReaderAssumption
  <2>2. [n |-> written, kind |-> half, part |-> "last"] \in Piece
    BY <2>1 DEF Piece
  <2>3. unread' \in Seq(Piece)
    BY <1>0, <1>9, <2>2 DEF WriteLast
  <2>4. owed' \in {"none", "data", "end"}
    <3>1. half = "data" => owed' = "end"
      BY <1>9 DEF WriteLast
    <3>2. half = "end" => owed' = "none"
      BY <1>9 DEF WriteLast
    <3>3. half = "event" => owed' = owed
      BY <1>9 DEF WriteLast
    <3> QED BY <1>0, <2>1, <3>1, <3>2, <3>3
  <2> QED BY <1>0, <1>9, <2>3, <2>4 DEF WriteLast, TypeOK, Activation
<1>10. CASE UNCHANGED vars
  BY <1>10 DEF vars, TypeOK
<1> QED BY <1>1, <1>2, <1>3, <1>4, <1>5, <1>6, <1>7, <1>8, <1>9, <1>10 DEF Next

-----------------------------------------------------------------------------
(* Lines *)

\* A line that was not handled before is handled.
LEMMA CallsGrow ==
    ASSUME calls \in Seq(Seq(Piece)), NEW c \in Seq(Piece), calls' = Append(calls, c)
    PROVE  /\ Len(calls) \in Nat /\ Len(calls') = Len(calls) + 1
           /\ \A i \in 1 .. Len(calls') :
                 \/ i \in 1 .. Len(calls) /\ calls'[i] = calls[i] /\ calls[i][1] \in Called
                 \/ i = Len(calls) + 1 /\ calls'[i] = c
<1>1. /\ Len(calls') = Len(calls) + 1 /\ Len(calls) \in Nat /\ calls'[Len(calls) + 1] = c
      /\ \A i \in 1 .. Len(calls) : calls'[i] = calls[i]
  OBVIOUS
<1>2. \A i \in 1 .. Len(calls') : i \in 1 .. Len(calls) \/ i = Len(calls) + 1
  BY <1>1
<1>3. \A i \in 1 .. Len(calls) : calls[i][1] \in Called
  BY DEF Called
<1> QED BY <1>1, <1>2, <1>3

LEMMA CountingStays ==
    ASSUME Counting, UNCHANGED <<calls, written, up>>, Pending' = Pending
    PROVE  Counting'
BY DEF Counting, Called, LinesWhole

LEMMA HandleLineCounts ==
    ASSUME ReaderAssumption, TypeOK, Cutting, Ordering, Counting, HandleLine
    PROVE  Counting'
<1> DEFINE x == Src(1)[1]
           c == SubSeq(Src(1), 1, 2)
<1>1. /\ x \in Pending /\ Pending = Pending' \cup {x} /\ \A p \in Pending' : p.n # x.n
      /\ Called' = Called \cup {x} /\ WholeLine(c) /\ c[1] = x
  BY HandleLineMoves
<1>2. UNCHANGED <<written, up>> /\ calls' = Append(calls, c)
  BY HandleLineSources DEF HandleLine, daemonVars
<1>3. c \in Seq(Piece) /\ calls \in Seq(Seq(Piece))
  <2>1. calls' \in Seq(Seq(Piece)) /\ calls \in Seq(Seq(Piece))
    <3>1. TypeOK'
      <4>1. [Next]_vars
        BY DEF Next
      <4>2. half # "none" => up /\ written > 0
        <5>1. half # "none" => up
          BY DEF Cutting, TypeOK
        <5>2. ASSUME half # "none"
              PROVE  written > 0
          <6>1. PICK y \in Pending' : y.kind = half
            BY <5>2, HandleLineMoves
          <6>2. y \in Pending
            BY <1>1
          <6>3. y.n \in 1 .. written /\ written \in Nat
            BY <6>2 DEF Counting, TypeOK
          <6> QED BY <6>3
        <5> QED BY <5>1, <5>2
      <4> QED BY <4>1, <4>2, TypesKept
    <3> QED BY <3>1 DEF TypeOK
  <2>2. Len(calls) + 1 \in 1 .. Len(calls') /\ calls'[Len(calls) + 1] = c
    BY <1>2, <2>1
  <2> QED BY <2>1, <2>2, ElementOf
<1> HIDE DEF x, c
<1>4. /\ \A i \in 1 .. Len(calls') :
           \/ i \in 1 .. Len(calls) /\ calls'[i] = calls[i] /\ calls[i][1] \in Called
           \/ i = Len(calls) + 1 /\ calls'[i] = c
  BY <1>2, <1>3, CallsGrow
<1>5. LinesWhole'
  <2>1. \A i \in 1 .. Len(calls') : WholeLine(calls'[i])
    BY <1>1, <1>4 DEF Counting, LinesWhole
  <2>2. \A d \in Called : d.n # x.n
    BY <1>1 DEF Counting
  <2>3. ASSUME NEW i \in 1 .. Len(calls'), NEW j \in 1 .. Len(calls'), i # j
        PROVE  calls'[i][1].n # calls'[j][1].n
    <3>1. CASE i \in 1 .. Len(calls) /\ j \in 1 .. Len(calls)
      <4>1. calls'[i] = calls[i] /\ calls'[j] = calls[j]
        BY <1>2, <1>3, <3>1
      <4> QED BY <2>3, <3>1, <4>1 DEF Counting, LinesWhole
    <3>2. CASE i = Len(calls) + 1
      <4>1. calls'[i] = c /\ calls'[j] = calls[j] /\ calls[j][1] \in Called
        <5>1. i \notin 1 .. Len(calls) /\ j # Len(calls) + 1
          BY <1>3, <2>3, <3>2
        <5> QED BY <1>4, <5>1
      <4> QED BY <1>1, <2>2, <4>1
    <3>3. CASE j = Len(calls) + 1
      <4>1. calls'[j] = c /\ calls'[i] = calls[i] /\ calls[i][1] \in Called
        <5>1. j \notin 1 .. Len(calls) /\ i # Len(calls) + 1
          BY <1>3, <2>3, <3>3
        <5> QED BY <1>4, <5>1
      <4> QED BY <1>1, <2>2, <4>1
    <3> QED BY <1>4, <3>1, <3>2, <3>3
  <2> QED BY <2>1, <2>3 DEF LinesWhole
<1>6. \A p \in Pending' : p.n \in 1 .. written'
  BY <1>1, <1>2 DEF Counting
<1>7. \A d \in Called' : d.n \in 1 .. written' /\ \A p \in Pending' : d.n # p.n
  BY <1>1, <1>2 DEF Counting
<1>8. up' => \A m \in 1 .. written' : (\E d \in Called' : d.n = m) \/ (\E p \in Pending' : p.n = m)
  BY <1>1, <1>2 DEF Counting
<1> QED BY <1>5, <1>6, <1>7, <1>8 DEF Counting

\* A closed connection has left nothing when the next is opened.
LEMMA OpensEmpty ==
    ASSUME ReaderAssumption, TypeOK, Cutting, OpenManagement
    PROVE  /\ Len(buffers') = Len(buffers) /\ \A i \in Sources : Src(i)' = Src(i)
           /\ Pending = {} /\ Pending' = {} /\ Called' = {} /\ Sources = {0}
<1>1. /\ buffers = <<>> /\ ~up /\ UNCHANGED <<buffers, saved, unread>> /\ calls' = <<>>
  BY DEF OpenManagement
<1>2. saved = <<>> /\ unread = <<>>
  BY <1>1 DEF Cutting
<1>3. Sources = {0} /\ Src(0) = <<>> /\ Sources' = {0} /\ Src(0)' = <<>>
  BY <1>1, <1>2 DEF Sources, Src
<1>4. Firsts(<<>>) = {}
  BY DEF Firsts
<1>5. Pending = {} /\ Pending' = {}
  BY <1>3, <1>4 DEF Pending
<1>6. Called' = {}
  BY <1>1 DEF Called
<1> QED BY <1>1, <1>3, <1>5, <1>6

LEMMA NoneMoved ==
    ASSUME ReaderAssumption, TypeOK, Ordering,
           HandlerReturns \/ ManagementCommand \/ UNCHANGED vars
    PROVE  /\ Len(buffers') = Len(buffers) /\ Sources' = Sources /\ Pending' = Pending
           /\ (Open' <=> Open) /\ Stream' = Stream /\ Ordering'
           /\ \A i \in 1 .. Len(buffers) : Src(i)' = Src(i)
<1>1. Len(buffers') = Len(buffers) /\ \A i \in Sources : i = 0 \/ buffers'[i].rest = buffers[i].rest
  <2>1. CASE HandlerReturns
    <3>1. buffers # <<>> /\ buffers' = [buffers EXCEPT ![1].pumping = FALSE]
      BY <2>1 DEF HandlerReturns
    <3>2. buffers \in Seq([rest : Seq(Piece), pumping : BOOLEAN])
      BY DEF TypeOK
    <3>3. Len(buffers') = Len(buffers)
      BY <3>1, <3>2
    <3>4. ASSUME NEW i \in Sources, i # 0
          PROVE  buffers'[i].rest = buffers[i].rest
      <4>1. i \in 1 .. Len(buffers)
        BY <3>4, SourceTypes
      <4>2. buffers[i] \in [rest : Seq(Piece), pumping : BOOLEAN]
        BY <3>2, <4>1, ElementOf, Zenon
      <4> QED BY <3>1, <3>2, <4>1, <4>2
    <3> QED BY <3>3, <3>4
  <2>2. CASE ManagementCommand \/ UNCHANGED vars
    BY <2>2 DEF ManagementCommand, vars
  <2> QED BY <2>1, <2>2
<1>2. UNCHANGED <<saved, unread>>
  BY DEF HandlerReturns, ManagementCommand, vars
<1>3. \A i \in Sources : Src(i)' = Src(i)
  BY <1>1, <1>2 DEF Src
<1> QED BY <1>1, <1>3, NothingMoves

LEMMA LinesKept ==
    ASSUME ReaderAssumption, RInv, [Next]_vars, "line" \notin torn'
    PROVE  Cutting' /\ Ordering' /\ Counting'
<1>0. TypeOK /\ Cutting /\ Ordering /\ Counting
  <2>1. torn \subseteq torn'
    BY DEF Next, FdRead, HandleLine, HandlerReturns, SaveRest, CloseManagement, OpenManagement,
           ManagementCommand, WriteFirst, WriteLast, vars
  <2> QED BY <2>1 DEF RInv
<1>1. CASE FdRead
  <2>1. Pending' = Pending /\ Cutting' /\ Ordering'
    BY <1>0, <1>1, FdReadMoves
  <2>2. UNCHANGED <<calls, written, up>>
    BY <1>1 DEF FdRead, daemonVars
  <2> QED BY <1>0, <2>1, <2>2, CountingStays
<1>2. CASE HandleLine
  BY <1>0, <1>2, HandleLineMoves, HandleLineCounts
<1>3. CASE SaveRest
  <2>1. Pending' = Pending /\ Cutting' /\ Ordering'
    BY <1>0, <1>3, SaveRestMoves
  <2>2. UNCHANGED <<calls, written, up>>
    BY <1>3 DEF SaveRest, daemonVars
  <2> QED BY <1>0, <2>1, <2>2, CountingStays
<1>4. CASE HandlerReturns \/ ManagementCommand \/ UNCHANGED vars
  <2>1. /\ Len(buffers') = Len(buffers) /\ Pending' = Pending /\ (Open' <=> Open)
        /\ Stream' = Stream /\ Ordering' /\ \A i \in 1 .. Len(buffers) : Src(i)' = Src(i)
    BY <1>0, <1>4, NoneMoved
  <2>2. UNCHANGED <<saved, unread, half, written, up, calls>>
    BY <1>4 DEF HandlerReturns, ManagementCommand, vars, daemonVars
  <2>3. Cutting'
    BY <1>0, <2>1, <2>2 DEF Cutting
  <2> QED BY <1>0, <2>1, <2>2, <2>3, CountingStays
<1>5. CASE CloseManagement
  <2>1. Cutting' /\ Ordering' /\ Pending' \subseteq Pending
    BY <1>0, <1>5, CloseMoves
  <2>2. UNCHANGED <<calls, written>> /\ ~up'
    BY <1>5 DEF CloseManagement
  <2>3. Called' = Called /\ (LinesWhole' <=> LinesWhole)
    BY <2>2 DEF Called, LinesWhole
  <2>4. Counting'
    BY <1>0, <2>1, <2>2, <2>3 DEF Counting
  <2> QED BY <2>1, <2>4
<1>6. CASE OpenManagement
  <2>1. /\ Len(buffers') = Len(buffers) /\ \A i \in Sources : Src(i)' = Src(i)
        /\ Pending' = {} /\ Called' = {}
    BY <1>0, <1>6, OpensEmpty
  <2>2. /\ Sources' = Sources /\ (Open' <=> Open) /\ Stream' = Stream /\ Ordering'
        /\ \A i \in 1 .. Len(buffers) : Src(i)' = Src(i)
    BY <1>0, <2>1, NothingMoves
  <2>3. /\ UNCHANGED <<saved, half, buffers>> /\ up' /\ written' = 0 /\ calls' = <<>> /\ ~up
    BY <1>6 DEF OpenManagement
  <2>4. half = "none"
    BY <1>0, <2>3 DEF Cutting
  <2>5. Cutting'
    BY <1>0, <2>1, <2>2, <2>3, <2>4 DEF Cutting
  <2>6. Counting'
    <3>1. 1 .. 0 = {} /\ Len(<<>>) = 0
      OBVIOUS
    <3>2. LinesWhole'
      BY <2>3, <3>1 DEF LinesWhole
    <3> QED BY <2>1, <2>3, <3>1, <3>2 DEF Counting
  <2> QED BY <2>2, <2>5, <2>6
<1>7. CASE WriteFirst
  <2>1. PICK k \in {"event", owed} \ {"none"} :
           half' = k /\ unread' = Append(unread, [n |-> written + 1, kind |-> k, part |-> "first"])
    BY <1>7 DEF WriteFirst
  <2> DEFINE x == [n |-> written + 1, kind |-> k, part |-> "first"]
  <2>2. /\ up /\ half = "none" /\ written' = written + 1
        /\ UNCHANGED <<saved, buffers, up, calls>>
    BY <1>7 DEF WriteFirst
  <2>3. x \in Piece /\ x.n = written + 1 /\ x.kind = k /\ x.part = "first" /\ written \in Nat
    <3>1. written \in 0 .. MaxLines /\ written < MaxLines /\ k \in {"event", "data", "end"}
      BY <1>0, <1>7 DEF WriteFirst, TypeOK
    <3>2. written + 1 \in 1 .. MaxLines /\ written \in Nat
      BY <3>1 DEF ReaderAssumption
    <3> QED BY <3>1, <3>2 DEF Piece
  <2>4. unread' = Append(unread, x)
    BY <2>1
  <2> HIDE DEF x
  <2>5. Cutting' /\ Ordering' /\ Pending' = Pending \cup {x}
    <3>1. /\ x.part = "first" /\ half' = x.kind /\ written' = x.n /\ x.n = written + 1
      BY <2>1, <2>2, <2>3
    <3>2. /\ Cutting' /\ Ordering'
          /\ Pending' = Pending \cup (IF x.part = "first" THEN {x} ELSE {})
      BY <1>0, <2>2, <2>3, <2>4, <3>1, WriteMoves
    <3> QED BY <3>1, <3>2
  <2>6. Counting'
    <3>1. Called' = Called /\ (LinesWhole' <=> LinesWhole)
      BY <2>2 DEF Called, LinesWhole
    <3>2. /\ \A p \in Pending : p.n \in 1 .. written
          /\ \A c \in Called : c.n \in 1 .. written /\ \A p \in Pending : c.n # p.n
          /\ \A m \in 1 .. written : (\E c \in Called : c.n = m) \/ (\E p \in Pending : p.n = m)
      BY <1>0, <2>2 DEF Counting
    <3>3. /\ \A m \in 1 .. written : m \in 1 .. written' /\ m # x.n
          /\ x.n \in 1 .. written' /\ \A m \in 1 .. written' : m \in 1 .. written \/ m = x.n
      BY <2>2, <2>3
    <3>4. \A p \in Pending' : p.n \in 1 .. written'
      BY <2>5, <3>2, <3>3
    <3>5. \A c \in Called' : c.n \in 1 .. written' /\ \A p \in Pending' : c.n # p.n
      BY <2>5, <3>1, <3>2, <3>3
    <3>6. \A m \in 1 .. written' :
             (\E c \in Called' : c.n = m) \/ (\E p \in Pending' : p.n = m)
      BY <2>5, <3>1, <3>2, <3>3
    <3> QED BY <1>0, <3>1, <3>4, <3>5, <3>6 DEF Counting
  <2> QED BY <2>5, <2>6
<1>8. CASE WriteLast
  <2> DEFINE x == [n |-> written, kind |-> half, part |-> "last"]
  <2>1. /\ up /\ half # "none" /\ half' = "none" /\ written' = written
        /\ UNCHANGED <<saved, buffers, up, calls>> /\ unread' = Append(unread, x)
    BY <1>8 DEF WriteLast
  <2>2. x \in Piece /\ x.n = written /\ x.kind = half /\ x.part = "last"
    <3>1. written \in 0 .. MaxLines /\ written > 0 /\ half \in {"event", "data", "end"}
      BY <1>0, <2>1 DEF RInv, TypeOK
    <3>2. written \in 1 .. MaxLines
      BY <3>1 DEF ReaderAssumption
    <3> QED BY <3>1, <3>2 DEF Piece
  <2> HIDE DEF x
  <2>3. Cutting' /\ Ordering' /\ Pending' = Pending
    <3>1. /\ Cutting' /\ Ordering'
          /\ Pending' = Pending \cup (IF x.part = "first" THEN {x} ELSE {})
      BY <1>0, <2>1, <2>2, WriteMoves
    <3> QED BY <2>2, <3>1
  <2> QED BY <1>0, <2>1, <2>3, CountingStays
<1> QED BY <1>1, <1>2, <1>3, <1>4, <1>5, <1>6, <1>7, <1>8 DEF Next

-----------------------------------------------------------------------------
(* Answers *)

\* A buffer that does not end inside an answer has the end of the answer it has data of.
LEMMA WholeAnswer ==
    ASSUME ReaderAssumption, NEW s \in Seq(Piece), Paired(s), ~MidLine(s), ~MidAnswer(s),
           NEW p \in Firsts(s), p.kind = "data"
    PROVE  \E q \in Firsts(s) : q.kind = "end"
<1>1. PICK j \in 1 .. Len(s) : p = s[j]
  BY DEF Firsts
<1>2. PICK k \in j .. Len(s) : s[k].kind = "end"
  BY <1>1 DEF MidAnswer
<1>3. k \in 1 .. Len(s) /\ k # j /\ k > 1 /\ Len(s) \in Nat
  BY <1>1, <1>2
<1>4. s[k] \in Piece /\ s[k].part \in {"first", "last"}
  BY <1>3, ElementOf, PieceFields
<1>5. CASE s[k].part = "first"
  BY <1>2, <1>3, <1>5 DEF Firsts
<1>6. CASE s[k].part = "last"
  <2>1. k - 1 \in 1 .. Len(s) - 1 /\ k - 1 \in 1 .. Len(s) /\ (k - 1) + 1 = k
    BY <1>3
  <2>2. s[k - 1].part \in {"first", "last"}
    BY <2>1, ElementOf, PieceFields
  <2>3. s[k - 1].part = "first" /\ s[k].kind = s[k - 1].kind
    BY <1>6, <2>1, <2>2 DEF Paired
  <2> QED BY <1>2, <2>1, <2>3 DEF Firsts
<1> QED BY <1>4, <1>5, <1>6

\* A buffer is read: nothing is left in the middle of an answer behind it.
LEMMA FdReadAnswers ==
    ASSUME ReaderAssumption, TypeOK, Cutting, Ordering, Answering, FdRead, torn' = {}
    PROVE  Answering'
<1>0. /\ Len(buffers) \in Nat /\ Len(buffers') = Len(buffers) + 1
      /\ \A i \in 1 .. Len(buffers) + 1 : Src(i)' = Src(i - 1)
  BY FdReadSources, SourceTypes
<1>1. Pending' = Pending
  BY FdReadMoves
<1>2. UNCHANGED <<calls, cmd, owed, half, up>>
  BY DEF FdRead, daemonVars
<1>3. \A i \in 1 .. Len(buffers) : ~MidLine(Src(i)) /\ ~MidAnswer(Src(i))
  <2>1. Cut = {}
    BY DEF FdRead
  <2>2. "line" \notin Cut /\ "answer" \notin Cut
    BY <2>1
  <2>3. \A i \in 1 .. Len(buffers) : ~MidLine(buffers[i].rest) /\ ~MidAnswer(buffers[i].rest)
    BY <2>2 DEF Cut
  <2>4. \A i \in 1 .. Len(buffers) : Src(i) = buffers[i].rest
    BY <1>0 DEF Src
  <2> QED BY <2>3, <2>4
<1>4. ASSUME NEW i \in 2 .. Len(buffers'), NEW p \in Firsts(Src(i)'), p.kind = "data"
      PROVE  \E q \in Firsts(Src(i)') : q.kind = "end"
  <2>1. i - 1 \in 1 .. Len(buffers) /\ Src(i)' = Src(i - 1)
    BY <1>0
  <2>2. Src(i - 1) \in Seq(Piece) /\ Paired(Src(i - 1))
    BY <2>1, SourceTypes DEF Cutting
  <2> QED BY <1>3, <1>4, <2>1, <2>2, WholeAnswer
<1>5. Called' = Called /\ (AnswersInOrder' <=> AnswersInOrder)
  BY <1>2 DEF Called, AnswersInOrder
<1> QED BY <1>1, <1>2, <1>4, <1>5 DEF Answering

LEMMA HandleLineAnswers ==
    ASSUME ReaderAssumption, TypeOK, Cutting, Ordering, Counting, Answering, HandleLine
    PROVE  Answering'
<1> DEFINE x == Src(1)[1]
           c == SubSeq(Src(1), 1, 2)
<1>0. /\ Len(buffers') = Len(buffers) /\ Len(buffers) \in Nat
      /\ calls' = Append(calls, c) /\ cmd' = (cmd /\ x.kind # "end")
      /\ UNCHANGED <<owed, half, up>>
  BY HandleLineSources, SourceTypes DEF HandleLine, daemonVars
<1>1. /\ x \in Pending /\ Pending = Pending' \cup {x} /\ \A p \in Pending' : p.n # x.n
      /\ Called' = Called \cup {x} /\ c[1] = x
      /\ \A i \in 2 .. Len(buffers) : Src(i)' = Src(i)
      /\ \A p \in Pending' : x.n < p.n \/ \E i \in 2 .. Len(buffers) : p \in Firsts(Src(i))
      /\ \A i \in 2 .. Len(buffers) : i \in Sources /\ \A q \in Firsts(Src(i)) : q.n < x.n
      /\ half # "none" => \E y \in Pending' : y.kind = half
  BY HandleLineMoves
<1>2. c \in Seq(Piece) /\ calls \in Seq(Seq(Piece))
  <2>1. Src(1) \in Seq(Piece) /\ calls \in Seq(Seq(Piece))
    BY HandleLineSources DEF TypeOK
  <2>2. Len(Src(1)) \in Nat /\ Len(Src(1)) >= 2
    <3>1. 1 \in 1 .. Len(buffers) /\ 1 \in Sources
      BY <1>0, HandleLineSources DEF Sources
    <3>2. Paired(Src(1)) /\ Increasing(Src(1)) /\ Ends(Src(1)) # {}
      BY <3>1, HandleLineSources DEF Cutting, Ordering
    <3> QED BY <2>1, <3>2, FirstLine
  <2>3. 1 \in 1 .. Len(Src(1)) + 1 /\ 2 \in 0 .. Len(Src(1))
    BY <2>2
  <2> QED BY <2>1, <2>3, SubSeqProperties
<1>a. x \in Piece /\ \A p \in Pending : p \in Piece /\ p.n \in Nat
  <2>1. \A p \in Pending : p \in Piece
    BY SourceTypes
  <2> QED BY <1>1, <2>1, PieceFields
<1> HIDE DEF x, c
\* What is left of answers outside the inner buffer would be of an answer whose end is
\* there too, before x.
<1>3. ASSUME NEW p \in Pending', NotEvent(p), NotEvent(x)
      PROVE  x.n < p.n
  <2> SUFFICES ASSUME NEW i \in 2 .. Len(buffers), p \in Firsts(Src(i))
               PROVE  FALSE
    BY <1>1
  <2>1. p.kind \in {"data", "end"}
    <3>1. p \in Piece
      BY <1>1, <1>a
    <3>2. p.kind \in {"event", "data", "end"}
      BY <3>1, PieceFields
    <3> QED BY <1>3, <3>2 DEF NotEvent
  <2>2. PICK q \in Firsts(Src(i)) : q.kind = "end"
    BY <2>1 DEF Answering
  <2>3. q \in Pending /\ q.n < x.n
    BY <1>1 DEF Pending
  <2>4. x.n <= q.n
    BY <1>1, <1>3, <2>2, <2>3 DEF Answering
  <2>5. x.n \in Nat /\ q.n \in Nat
    BY <1>1, <1>a, <2>3
  <2> QED BY <2>3, <2>4, <2>5
<1>4. \A d \in Called', p \in Pending' : NotEvent(d) /\ NotEvent(p) => d.n < p.n
  BY <1>1, <1>3 DEF Answering
<1>5. \A i \in 2 .. Len(buffers') : \A p \in Firsts(Src(i)') :
         p.kind = "data" => \E q \in Firsts(Src(i)') : q.kind = "end"
  BY <1>0, <1>1 DEF Answering
<1>6. \A p, q \in Pending' : NotEvent(p) /\ q.kind = "end" => p.n <= q.n
  BY <1>1 DEF Answering
\* There is one end.
<1>7. x.kind = "end" => \A p \in Pending' : p.kind # "end"
  <2> SUFFICES ASSUME x.kind = "end", NEW p \in Pending', p.kind = "end"
               PROVE  FALSE
    OBVIOUS
  <2>1. p \in Pending /\ NotEvent(p) /\ NotEvent(x)
    BY <1>1 DEF NotEvent
  <2>2. p.n <= x.n /\ x.n <= p.n
    BY <1>1, <2>1 DEF Answering
  <2> QED BY <1>1, <1>a, <2>1, <2>2
<1>8. owed' # "none" => cmd' /\ (half' = "end" \/ \A p \in Pending' : p.kind # "end")
  <2> SUFFICES ASSUME owed # "none"
               PROVE  cmd' /\ (half = "end" \/ \A p \in Pending' : p.kind # "end")
    BY <1>0
  <2>1. cmd /\ (half = "end" \/ \A p \in Pending : p.kind # "end")
    BY DEF Answering
  <2>2. x.kind # "end"
    <3> SUFFICES ASSUME x.kind = "end"
                 PROVE  FALSE
      OBVIOUS
    <3>1. half = "end"
      BY <1>1, <2>1
    <3>2. PICK y \in Pending' : y.kind = half
      BY <1>1, <3>1
    <3> QED BY <1>7, <3>1, <3>2
  <2> QED BY <1>0, <1>1, <2>1, <2>2
<1>9. up' => \A p \in Pending' : p.kind = "end" => cmd'
  <2> SUFFICES ASSUME up, NEW p \in Pending', p.kind = "end"
               PROVE  cmd'
    BY <1>0
  <2>1. cmd
    BY <1>1 DEF Answering
  <2>2. x.kind # "end"
    BY <1>7
  <2> QED BY <1>0, <2>1, <2>2
<1>10. half' \in {"data", "end"} => owed' = half'
  BY <1>0 DEF Answering
<1>11. AnswersInOrder'
  <2>1. /\ Len(calls) \in Nat /\ Len(calls') = Len(calls) + 1
        /\ \A i \in 1 .. Len(calls') :
              \/ i \in 1 .. Len(calls) /\ calls'[i] = calls[i] /\ calls[i][1] \in Called
              \/ i = Len(calls) + 1 /\ calls'[i] = c
    BY <1>0, <1>2, CallsGrow
  <2>2. ASSUME NEW i \in 1 .. Len(calls'), NEW j \in 1 .. Len(calls'), i < j,
               calls'[i][1].kind # "event", calls'[j][1].kind # "event"
        PROVE  calls'[i][1].n < calls'[j][1].n
    <3>1. i \in 1 .. Len(calls)
      BY <2>1, <2>2
    <3>2. calls'[i] = calls[i] /\ calls[i][1] \in Called
      <4>1. i # Len(calls) + 1
        BY <2>1, <3>1
      <4> QED BY <2>1, <4>1
    <3>3. CASE j \in 1 .. Len(calls)
      <4>1. calls'[j] = calls[j]
        <5>1. j # Len(calls) + 1
          BY <2>1, <3>3
        <5> QED BY <2>1, <5>1
      <4> QED BY <2>2, <3>1, <3>2, <3>3, <4>1 DEF Answering, AnswersInOrder
    <3>4. CASE calls'[j] = c
      BY <1>1, <2>2, <3>2, <3>4 DEF Answering, NotEvent
    <3> QED BY <2>1, <3>3, <3>4
  <2> QED BY <2>2 DEF AnswersInOrder
<1> QED BY <1>4, <1>5, <1>6, <1>8, <1>9, <1>10, <1>11 DEF Answering

\* Steps of the daemon and of the list of commands.
LEMMA WriteAnswers ==
    ASSUME ReaderAssumption, RInv, TypeOK, Cutting, Ordering, Counting, Answering,
           WriteFirst \/ WriteLast
    PROVE  Answering'
<1>0. up /\ UNCHANGED <<saved, buffers, up, calls, cmd>> /\ written \in Nat
  <2>1. written \in 0 .. MaxLines
    BY DEF TypeOK
  <2> QED BY <2>1 DEF WriteFirst, WriteLast, ReaderAssumption
<1>1. Called' = Called /\ (AnswersInOrder' <=> AnswersInOrder)
  BY <1>0 DEF Called, AnswersInOrder
<1>2. CASE WriteFirst
  <2>1. PICK k \in {"event", owed} \ {"none"} :
           half' = k /\ unread' = Append(unread, [n |-> written + 1, kind |-> k, part |-> "first"])
    BY <1>2 DEF WriteFirst
  <2> DEFINE x == [n |-> written + 1, kind |-> k, part |-> "first"]
  <2>2. half = "none" /\ written' = written + 1 /\ owed' = owed
    BY <1>2 DEF WriteFirst
  <2>3. x \in Piece /\ x.n = written + 1 /\ x.kind = k /\ x.part = "first"
    <3>1. written \in 0 .. MaxLines /\ written < MaxLines /\ k \in {"event", "data", "end"}
      BY <1>2 DEF WriteFirst, TypeOK
    <3>2. written + 1 \in 1 .. MaxLines
      BY <3>1 DEF ReaderAssumption
    <3> QED BY <3>1, <3>2 DEF Piece
  <2>4. unread' = Append(unread, x)
    BY <2>1
  <2> HIDE DEF x
  <2>5. /\ Pending' = Pending \cup {x}
        /\ Len(buffers') = Len(buffers) /\ \A i \in 1 .. Len(buffers) : Src(i)' = Src(i)
    <3>1. half' = x.kind /\ written' = x.n /\ x.n = written + 1
      BY <2>1, <2>2, <2>3
    <3>2. /\ Pending' = Pending \cup (IF x.part = "first" THEN {x} ELSE {})
          /\ Len(buffers') = Len(buffers) /\ \A i \in 1 .. Len(buffers) : Src(i)' = Src(i)
      BY <1>0, <2>2, <2>3, <2>4, <3>1, WriteMoves
    <3> QED BY <2>3, <3>2
  <2>6. /\ \A p \in Pending : p.n \in Nat /\ p.n < x.n
        /\ \A c \in Called : c.n \in Nat /\ c.n < x.n
    <3>1. /\ \A p \in Pending : p.n \in 1 .. written
          /\ \A c \in Called : c.n \in 1 .. written
      BY DEF Counting
    <3>2. \A m \in 1 .. written : m \in Nat /\ m < written + 1
      BY <1>0
    <3> QED BY <2>3, <3>1, <3>2
  <2>7. NotEvent(x) => x.kind = owed /\ owed # "none" /\ cmd /\ \A p \in Pending : p.kind # "end"
    <3> SUFFICES ASSUME NotEvent(x)
                 PROVE  x.kind = owed /\ owed # "none" /\ cmd /\ \A p \in Pending : p.kind # "end"
      OBVIOUS
    <3>1. x.kind = owed /\ owed # "none"
      BY <2>3 DEF NotEvent
    <3> QED BY <2>2, <3>1 DEF Answering
  <2>8. \A c \in Called', p \in Pending' : NotEvent(c) /\ NotEvent(p) => c.n < p.n
    BY <1>1, <2>5, <2>6 DEF Answering
  <2>9. \A i \in 2 .. Len(buffers') : \A p \in Firsts(Src(i)') :
           p.kind = "data" => \E q \in Firsts(Src(i)') : q.kind = "end"
    <3>1. \A i \in 2 .. Len(buffers) : i \in 1 .. Len(buffers)
      BY SourceTypes
    <3> QED BY <2>5, <3>1 DEF Answering
  <2>10. ASSUME NEW p \in Pending', NEW q \in Pending', NotEvent(p), q.kind = "end"
         PROVE  p.n <= q.n
    <3>1. CASE q = x
      <4>1. p.n = x.n \/ p.n < x.n
        BY <2>5, <2>6
      <4> QED BY <1>0, <2>3, <2>5, <2>6, <3>1, <4>1
    <3>2. CASE q # x
      <4>1. q \in Pending
        BY <2>5, <3>2
      <4>2. p # x
        BY <2>7, <2>10, <4>1
      <4>3. p \in Pending
        BY <2>5, <4>2
      <4> QED BY <2>10, <4>1, <4>3 DEF Answering
    <3> QED BY <3>1, <3>2
  <2>11. owed' # "none" => cmd' /\ (half' = "end" \/ \A p \in Pending' : p.kind # "end")
    <3> SUFFICES ASSUME owed # "none", half' # "end"
                 PROVE  cmd /\ \A p \in Pending' : p.kind # "end"
      BY <1>0, <2>2 DEF Answering
    <3>1. cmd /\ \A p \in Pending : p.kind # "end"
      BY <2>2 DEF Answering
    <3> QED BY <2>1, <2>3, <2>5, <3>1
  <2>12. up' => \A p \in Pending' : p.kind = "end" => cmd'
    <3>1. x.kind = "end" => NotEvent(x)
      BY DEF NotEvent
    <3> QED BY <1>0, <2>5, <2>7, <3>1 DEF Answering
  <2>13. half' \in {"data", "end"} => owed' = half'
    BY <2>1, <2>2
  <2>14. AnswersInOrder'
    BY <1>1 DEF Answering
  <2> QED BY <2>8, <2>9, <2>10, <2>11, <2>12, <2>13, <2>14 DEF Answering
<1>3. CASE WriteLast
  <2> DEFINE x == [n |-> written, kind |-> half, part |-> "last"]
  <2>1. half # "none" /\ half' = "none" /\ written' = written /\ unread' = Append(unread, x)
    BY <1>3 DEF WriteLast
  <2>2. x \in Piece /\ x.n = written /\ x.kind = half /\ x.part = "last"
    <3>1. written \in 0 .. MaxLines /\ written > 0 /\ half \in {"event", "data", "end"}
      BY <2>1 DEF RInv, TypeOK
    <3>2. written \in 1 .. MaxLines
      BY <3>1 DEF ReaderAssumption
    <3> QED BY <3>1, <3>2 DEF Piece
  <2> HIDE DEF x
  <2>3. /\ Pending' = Pending
        /\ Len(buffers') = Len(buffers) /\ \A i \in 1 .. Len(buffers) : Src(i)' = Src(i)
    <3>1. /\ Pending' = Pending \cup (IF x.part = "first" THEN {x} ELSE {})
          /\ Len(buffers') = Len(buffers) /\ \A i \in 1 .. Len(buffers) : Src(i)' = Src(i)
      BY <1>0, <2>1, <2>2, WriteMoves
    <3> QED BY <2>2, <3>1
  <2>4. \A i \in 2 .. Len(buffers') : \A p \in Firsts(Src(i)') :
           p.kind = "data" => \E q \in Firsts(Src(i)') : q.kind = "end"
    <3>1. \A i \in 2 .. Len(buffers) : i \in 1 .. Len(buffers)
      BY SourceTypes
    <3> QED BY <2>3, <3>1 DEF Answering
  <2>5. owed' # "none" => cmd' /\ \A p \in Pending' : p.kind # "end"
    <3>1. half \in {"event", "data", "end"}
      BY <2>1 DEF TypeOK
    <3>2. /\ half = "data" => owed' = "end"
          /\ half = "end" => owed' = "none"
          /\ half = "event" => owed' = owed
      BY <1>3 DEF WriteLast
    <3>3. half = "data" => owed = "data"
      BY DEF Answering
    <3>4. owed # "none" /\ half # "end" => cmd /\ \A p \in Pending : p.kind # "end"
      BY DEF Answering
    <3> QED BY <1>0, <2>3, <3>1, <3>2, <3>3, <3>4
  <2>6. up' => \A p \in Pending' : p.kind = "end" => cmd'
    BY <1>0, <2>3 DEF Answering
  <2>7. AnswersInOrder'
    BY <1>1 DEF Answering
  <2> QED BY <1>1, <2>1, <2>3, <2>4, <2>5, <2>6, <2>7 DEF Answering
<1> QED BY <1>2, <1>3

LEMMA AnswersKept ==
    ASSUME ReaderAssumption, RInv, [Next]_vars, torn' = {}
    PROVE  Answering'
<1>0. TypeOK /\ Cutting /\ Ordering /\ Counting /\ Answering
  <2>1. torn \subseteq torn'
    BY DEF Next, FdRead, HandleLine, HandlerReturns, SaveRest, CloseManagement, OpenManagement,
           ManagementCommand, WriteFirst, WriteLast, vars
  <2>2. torn = {} /\ "line" \notin torn
    BY <2>1
  <2> QED BY <2>2 DEF RInv
<1>1. CASE FdRead
  BY <1>0, <1>1, FdReadAnswers
<1>2. CASE HandleLine
  BY <1>0, <1>2, HandleLineAnswers
<1>3. CASE SaveRest
  <2>1. Pending' = Pending
    BY <1>0, <1>3, SaveRestMoves
  <2>2. UNCHANGED <<calls, cmd, owed, half, up>>
    BY <1>3 DEF SaveRest, daemonVars
  <2>3. Called' = Called /\ (AnswersInOrder' <=> AnswersInOrder)
    BY <2>2 DEF Called, AnswersInOrder
  <2>4. /\ Len(buffers) \in Nat /\ Len(buffers') = Len(buffers) - 1
        /\ \A i \in 1 .. Len(buffers) - 1 : Src(i)' = Src(i + 1)
    BY <1>0, <1>3, SaveRestSources, SourceTypes
  <2>5. ASSUME NEW i \in 2 .. Len(buffers'), NEW p \in Firsts(Src(i)'), p.kind = "data"
        PROVE  \E q \in Firsts(Src(i)') : q.kind = "end"
    <3>1. i + 1 \in 2 .. Len(buffers) /\ Src(i)' = Src(i + 1)
      BY <2>4
    <3> QED BY <1>0, <2>5, <3>1 DEF Answering
  <2> QED BY <1>0, <2>1, <2>2, <2>3, <2>5 DEF Answering
<1>4. CASE HandlerReturns \/ ManagementCommand \/ UNCHANGED vars
  <2>1. /\ Pending' = Pending /\ Len(buffers') = Len(buffers)
        /\ \A i \in 1 .. Len(buffers) : Src(i)' = Src(i)
    BY <1>0, <1>4, NoneMoved
  <2>2. UNCHANGED <<half, up, calls>>
    BY <1>4 DEF HandlerReturns, ManagementCommand, vars, daemonVars
  <2>3. Called' = Called /\ (AnswersInOrder' <=> AnswersInOrder)
    BY <2>2 DEF Called, AnswersInOrder
  <2>4. \A i \in 2 .. Len(buffers') : \A p \in Firsts(Src(i)') :
           p.kind = "data" => \E q \in Firsts(Src(i)') : q.kind = "end"
    <3>1. \A i \in 2 .. Len(buffers) : i \in 1 .. Len(buffers)
      BY <1>0, SourceTypes
    <3> QED BY <1>0, <2>1, <3>1 DEF Answering
  <2>5. CASE UNCHANGED <<cmd, owed>>
    BY <1>0, <2>1, <2>2, <2>3, <2>4, <2>5 DEF Answering
  <2>6. CASE ManagementCommand
    <3>1. up /\ ~cmd /\ cmd' /\ owed' = "data"
      BY <2>6 DEF ManagementCommand
    <3>2. \A p \in Pending : p.kind # "end"
      BY <1>0, <3>1 DEF Answering
    <3>3. half \notin {"data", "end"}
      BY <1>0, <3>1 DEF Answering
    <3> QED BY <1>0, <2>1, <2>2, <2>3, <2>4, <3>1, <3>2, <3>3 DEF Answering
  <2> QED BY <1>4, <2>5, <2>6 DEF HandlerReturns, daemonVars, vars
<1>5. CASE CloseManagement
  <2>1. /\ Pending' \subseteq Pending
        /\ Len(buffers') = Len(buffers) /\ \A i \in 1 .. Len(buffers) : Src(i)' = Src(i)
    BY <1>0, <1>5, CloseMoves
  <2>2. calls' = calls /\ ~up' /\ owed' = "none" /\ half' = "none"
    BY <1>5 DEF CloseManagement
  <2>3. Called' = Called /\ (AnswersInOrder' <=> AnswersInOrder)
    BY <2>2 DEF Called, AnswersInOrder
  <2>4. \A i \in 2 .. Len(buffers') : \A p \in Firsts(Src(i)') :
           p.kind = "data" => \E q \in Firsts(Src(i)') : q.kind = "end"
    <3>1. \A i \in 2 .. Len(buffers) : i \in 1 .. Len(buffers)
      BY <1>0, SourceTypes
    <3> QED BY <1>0, <2>1, <3>1 DEF Answering
  <2> QED BY <1>0, <2>1, <2>2, <2>3, <2>4 DEF Answering
<1>6. CASE OpenManagement
  <2>1. /\ Len(buffers') = Len(buffers) /\ Pending' = {} /\ Called' = {} /\ Sources = {0}
    BY <1>0, <1>6, OpensEmpty
  <2>2. UNCHANGED <<cmd, half, owed, buffers>> /\ calls' = <<>> /\ buffers = <<>>
    BY <1>6 DEF OpenManagement
  <2>3. 2 .. Len(buffers') = {} /\ Len(<<>>) = 0
    BY <2>2
  <2>4. AnswersInOrder'
    BY <2>2, <2>3 DEF AnswersInOrder
  <2> QED BY <1>0, <2>1, <2>2, <2>3, <2>4 DEF Answering
<1>7. CASE WriteFirst \/ WriteLast
  BY <1>0, <1>7, WriteAnswers
<1> QED BY <1>1, <1>2, <1>3, <1>4, <1>5, <1>6, <1>7 DEF Next

-----------------------------------------------------------------------------
LEMMA ReaderInit ==
    ASSUME ReaderAssumption, Init
    PROVE  RInv
<1>1. /\ buffers = <<>> /\ saved = <<>> /\ unread = <<>> /\ calls = <<>> /\ written = 0
      /\ half = "none" /\ owed = "none" /\ ~up
  BY DEF Init
<1>2. TypeOK
  <2>1. \A S : <<>> \in Seq(S)
    OBVIOUS
  <2>2. 0 \in 0 .. MaxOpens /\ 0 \in 0 .. MaxLines
    BY DEF ReaderAssumption
  <2>3. /\ up = FALSE /\ cmd = FALSE /\ torn = {} /\ opens = 0 /\ written = 0
        /\ half = "none" /\ owed = "none"
        /\ unread = <<>> /\ saved = <<>> /\ calls = <<>> /\ buffers = <<>>
    BY DEF Init
  <2>4. up \in BOOLEAN /\ cmd \in BOOLEAN /\ torn \subseteq {"line", "answer"}
    BY <2>3
  <2>5. opens \in 0 .. MaxOpens /\ written \in 0 .. MaxLines
    BY <2>2, <2>3
  <2>6. /\ unread \in Seq(Piece) /\ saved \in Seq(Piece) /\ calls \in Seq(Seq(Piece))
        /\ buffers \in Seq([rest : Seq(Piece), pumping : BOOLEAN])
    BY <2>1, <2>3, Zenon
  <2>7. half \in {"none", "event", "data", "end"} /\ owed \in {"none", "data", "end"}
    BY <2>3
  <2> QED BY <2>4, <2>5, <2>6, <2>7 DEF TypeOK
<1>3. Len(buffers) = 0 /\ Len(calls) = 0 /\ Sources = {0} /\ Src(0) = <<>>
  BY <1>1 DEF Sources, Src
<1>4. Pending = {} /\ Called = {}
  BY <1>3 DEF Pending, Called, Firsts
<1>5. ~Open /\ Stream = <<>>
  BY <1>3 DEF Open, Stream
<1>6. Paired(<<>>) /\ ~MidLine(<<>>) /\ Increasing(<<>>)
  BY DEF Paired, MidLine, Increasing
<1>7. Cutting
  BY <1>1, <1>3, <1>5, <1>6 DEF Cutting
<1>8. Ordering
  BY <1>3, <1>6 DEF Ordering
<1>9. Counting
  BY <1>1, <1>3, <1>4 DEF Counting, LinesWhole
<1>10. Answering
  BY <1>1, <1>3, <1>4 DEF Answering, AnswersInOrder
<1> QED BY <1>1, <1>2, <1>7, <1>8, <1>9, <1>10 DEF RInv

LEMMA ReaderHolds ==
    ReaderAssumption => (Spec => []RInv)
<1> SUFFICES ASSUME ReaderAssumption
             PROVE  Spec => []RInv
  OBVIOUS
<1>1. Init => RInv
  BY ReaderInit
<1>2. RInv /\ [Next]_vars => RInv'
  <2> SUFFICES ASSUME RInv, [Next]_vars
               PROVE  RInv'
    OBVIOUS
  <2>1. TypeOK' /\ (half' # "none" => up' /\ written' > 0)
    BY TypesKept DEF RInv
  <2> QED BY <2>1, LinesKept, AnswersKept DEF RInv
<1> QED BY <1>1, <1>2, PTL DEF Spec

\* Every variable has its type, for all bounds.
THEOREM TypeCorrect ==
    ReaderAssumption => (Spec => []TypeOK)
<1>1. RInv => TypeOK
  BY DEF RInv
<1> QED BY <1>1, ReaderHolds, PTL

\* Where no buffer ends in the middle of a line and is pumped in, every handler gets a
\* whole line, none twice, and none is lost; where none ends in the middle of an answer
\* either, answers are read in order (OnManagement, saved_data).
THEOREM ReadsAllLines ==
    ReaderAssumption => (Spec => []ReadsLines)
<1> SUFFICES ASSUME ReaderAssumption
             PROVE  Spec => []ReadsLines
  OBVIOUS
<1>1. RInv => ReadsLines
  <2> SUFFICES ASSUME RInv
               PROVE  ReadsLines
    OBVIOUS
  <2>1. ASSUME "line" \notin torn, buffers = <<>>
        PROVE  IF up THEN {calls[i][1].n : i \in 1 .. Len(calls)} =
                       (1 .. written) \ {(saved \o unread)[i].n : i \in 1 .. Len(saved \o unread)}
               ELSE saved = <<>>
    <3> DEFINE s == Src(0)
    <3>0. TypeOK /\ Cutting /\ Counting
      BY <2>1 DEF RInv
    <3>1. Sources = {0} /\ Stream = s /\ s = saved \o unread /\ s \in Seq(Piece)
      <4>1. Len(buffers) = 0
        BY <2>1
      <4> QED BY <3>0, <4>1, SourceTypes DEF Sources, Stream, Open, Src
    <3>2. Paired(s) /\ Pending = Firsts(s)
      BY <3>0, <3>1 DEF Cutting, Pending
    <3> HIDE DEF s
    <3>3. \A j \in 1 .. Len(s) : \E p \in Firsts(s) : p.n = s[j].n
      <4>1. ASSUME NEW j \in 1 .. Len(s)
            PROVE  \E p \in Firsts(s) : p.n = s[j].n
        <5>1. s[j].part \in {"first", "last"} /\ Len(s) \in Nat /\ s # <<>>
          BY <3>1, ElementOf, PieceFields
        <5>2. CASE s[j].part = "first"
          BY <5>2 DEF Firsts
        <5>3. CASE s[j].part = "last"
          <6>1. j # 1
            BY <3>2, <5>1, <5>3 DEF Paired
          <6>2. j - 1 \in 1 .. Len(s) - 1 /\ j - 1 \in 1 .. Len(s) /\ (j - 1) + 1 = j
            BY <5>1, <6>1
          <6>3. s[j - 1].part \in {"first", "last"}
            BY <3>1, <6>2, ElementOf, PieceFields
          <6>4. s[j - 1].part = "first" /\ s[j].n = s[j - 1].n
            BY <3>2, <5>3, <6>2, <6>3 DEF Paired
          <6> QED BY <6>2, <6>4 DEF Firsts
        <5> QED BY <5>1, <5>2, <5>3
      <4> QED BY <4>1
    <3>4. \A p \in Firsts(s) : \E j \in 1 .. Len(s) : p.n = s[j].n
      BY DEF Firsts
    <3>5. {calls[i][1].n : i \in 1 .. Len(calls)} = {c.n : c \in Called}
      BY DEF Called
    <3>6. {s[i].n : i \in 1 .. Len(s)} = {p.n : p \in Pending}
      BY <3>2, <3>3, <3>4
    <3>7. up => {c.n : c \in Called} = (1 .. written) \ {p.n : p \in Pending}
      BY <3>0 DEF Counting
    <3>8. ~up => saved = <<>>
      BY <3>0 DEF Cutting
    <3> QED BY <3>1, <3>5, <3>6, <3>7, <3>8
  <2>2. "line" \notin torn => LinesWhole /\ NothingLost
    BY <2>1 DEF RInv, Counting, NothingLost
  <2>3. torn = {} => AnswersInOrder
    BY DEF RInv, Answering
  <2> QED BY <2>2, <2>3 DEF ReadsLines
<1> QED BY <1>1, ReaderHolds, PTL
=============================================================================
