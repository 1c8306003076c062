------------------------------ MODULE Auth_proofs ------------------------------
(***************************************************************************)
(* Theorems about Auth, for every number of questions, lines and other     *)
(* events, and every set of kinds and options:                             *)
(*   TypeCorrect     Spec => []TypeOK                                      *)
(*   BareSaved       Spec => []SavedIsBare                                 *)
(*   SavingDisabled  Spec => []NothingSavedIfDisabled                      *)
(*   WantedStays     Spec => StaysWanted                                   *)
(*   NoAutoRetry     Spec => AutoNotAfterRefusal                           *)
(*   QuestionIsShown Spec => []RequestShown                                *)
(* The inductive invariant IInv is a conjunction of one part per group of  *)
(* variables.  It says more than TypeOK: a password field holds what the   *)
(* user knows (a response is appended to what is sent only), the flags     *)
(* stay clear where saving is disabled, and what waits in buffers, also in *)
(* those of the callers of dialogs, are lines.                             *)
(*                                                                         *)
(* The last two theorems rest on what is said of the lines themselves,     *)
(* wherever they are: in out, in buf, or behind a dialog.                  *)
(*   Numbers  a question under way to the GUI is younger than all that the *)
(*            GUI and the answers hold                                     *)
(*   Order    the outcome of an answer comes before the next question, a   *)
(*            failure just before the state it leads to; so no dialog      *)
(*            holds an outcome back                                        *)
(*   Counted  every refusal that was read was counted                      *)
(*   Fresh    challenges are named by earlier questions                    *)
(*   Found    the last question is on its way, on screen or answered, and  *)
(*            the challenge it is about is the one kept when it is read    *)
(* They are preserved for how lines move (Stays, ReadsOne, Shows, Returns, *)
(* Fetches, Adds), whichever action moves them.                            *)
(***************************************************************************)
EXTENDS Auth, SequenceTheorems, TLAPS

Typed == {"none", "bare"}
SecondFactors == {"none", "scrv1", "concat"}

LineRec == [name : {"need", "failed", "state", "echo"},
            what : Kinds \cup States \cup {"forget", "save"},
            second : SecondFactors, chal : Challenges, n : Nat]

AnswerRec == [kind : Kinds, pass : Pass, resp : BOOLEAN, chal : Challenges,
              auto : BOOLEAN, late : BOOLEAN, n : Nat]

DialogFields == [kind : Kinds \cup {"CRV1"}, open : BOOLEAN, pass : Typed, timer : BOOLEAN,
                 second : SecondFactors, chal : Challenges, n : Nat, rest : Seq(LineRec)]

\* A dialog, under the setting silent_connection.
DialogRec(silent) ==
    {d \in DialogFields : /\ d.kind = "CRV1" <=> d.chal # NoChallenge
                          /\ d.timer => d.kind = "Auth" /\ ~silent}

SavedRec == [user : BOOLEAN, auth : Typed, key : BOOLEAN]

DaemonOK ==
    /\ running \in BOOLEAN /\ need \in [kind : Kinds \cup {"none"}, chal : Challenges]
    /\ asked \in 0 .. MaxAsked /\ due \in Challenges /\ out \in Seq(LineRec)
InOK == in \in Seq(AnswerRec)
ReadOK == buf \in Seq(LineRec) /\ dynCr \in Challenges
DialogsOK == dialogs \in Seq(DialogRec(options.silent))
FailOK == failedAuth \in Nat /\ failedPsw \in Nat /\ refused \subseteq Kinds
SavedOK ==
    /\ saveAuth \in BOOLEAN /\ saveKey \in BOOLEAN /\ saved \in SavedRec
    /\ options.disableSave => saved.auth = "none" /\ ~saved.key /\ ~saveAuth /\ ~saveKey
UserOK ==
    /\ options \in Options /\ resetting \in BOOLEAN /\ stopping \in BOOLEAN
    /\ excused \subseteq {"closed", "crossed", "dropped"}

IInv == DaemonOK /\ InOK /\ ReadOK /\ DialogsOK /\ FailOK /\ SavedOK /\ UserOK

-----------------------------------------------------------------------------
(* Lines, answers and dialogs *)

LEMMA ChallengeFacts ==
    /\ NoChallenge \in Challenges /\ BadChallenge \in Challenges
    /\ 0 .. MaxAsked \subseteq Challenges
BY AuthAssumption, SMT DEF NoChallenge, BadChallenge, Challenges

LEMMA OptionFacts ==
    ASSUME options \in Options
    PROVE  options.silent \in BOOLEAN /\ options.disableSave \in BOOLEAN
BY AuthAssumption, SMT

LEMMA LineType ==
    ASSUME NEW name \in {"need", "failed", "state", "echo"},
           NEW what \in Kinds \cup States \cup {"forget", "save"}, NEW chal \in Challenges
    PROVE  /\ Line(name, what, chal) \in LineRec
           /\ \A s \in SecondFactors, m \in Nat :
                 [Line(name, what, chal) EXCEPT !.second = s, !.n = m] \in LineRec
<1> DEFINE l == [name |-> name, what |-> what, second |-> "none", chal |-> chal, n |-> 0]
           W == Kinds \cup States \cup {"forget", "save"}
<1>1. Line(name, what, chal) = l
  BY Zenon DEF Line
<1> HIDE DEF W
<1>2. what \in W
  BY DEF W
<1>3. l \in LineRec /\ \A s \in SecondFactors, m \in Nat : [l EXCEPT !.second = s, !.n = m] \in LineRec
  <2>1. LineRec = [name : {"need", "failed", "state", "echo"}, what : W,
                   second : SecondFactors, chal : Challenges, n : Nat]
    BY Zenon DEF LineRec, W
  <2>2. "none" \in SecondFactors
    BY DEF SecondFactors
  <2> HIDE DEF l
  <2>3. l = [name |-> name, what |-> what, second |-> "none", chal |-> chal, n |-> 0]
    BY DEF l
  <2>4. l \in LineRec
    BY <1>2, <2>1, <2>2, <2>3
  <2>5. ASSUME NEW s \in SecondFactors, NEW m \in Nat
        PROVE  [l EXCEPT !.second = s, !.n = m] \in LineRec
    BY <2>1, <2>4, Zenon
  <2> QED BY <2>4, <2>5
<1> QED BY <1>1, <1>3, Zenon

LEMMA AnswerType ==
    ASSUME NEW kind \in Kinds, NEW pass \in Pass, NEW resp \in BOOLEAN,
           NEW chal \in Challenges, NEW auto \in BOOLEAN, NEW late \in BOOLEAN, NEW n \in Nat
    PROVE  Answer(kind, pass, resp, chal, auto, late, n) \in AnswerRec
BY SMT DEF Answer, AnswerRec

\* Nothing that happens to a dialog makes it another kind of thing.
LEMMA DialogWith ==
    ASSUME NEW silent \in BOOLEAN, NEW d \in DialogRec(silent)
    PROVE  /\ [d EXCEPT !.open = FALSE] \in DialogRec(silent)
           /\ [d EXCEPT !.timer = FALSE] \in DialogRec(silent)
           /\ \A p \in Typed : [d EXCEPT !.pass = p] \in DialogRec(silent)
<1>1. d \in DialogFields
  BY DEF DialogRec
<1> DEFINE e == [d EXCEPT !.open = FALSE]
           f == [d EXCEPT !.timer = FALSE]
           g(p) == [d EXCEPT !.pass = p]
<1>2. e \in DialogFields /\ f \in DialogFields /\ \A p \in Typed : g(p) \in DialogFields
  <2>1. e \in DialogFields
    BY <1>1, Zenon DEF DialogFields
  <2>2. f \in DialogFields
    BY <1>1, Zenon DEF DialogFields
  <2>3. ASSUME NEW p \in Typed PROVE g(p) \in DialogFields
    BY <1>1, Zenon DEF DialogFields
  <2> QED BY <2>1, <2>2, <2>3
<1>3. /\ e.kind = d.kind /\ e.chal = d.chal /\ e.timer = d.timer
      /\ f.kind = d.kind /\ f.chal = d.chal /\ f.timer = FALSE
      /\ \A p \in Typed : g(p).kind = d.kind /\ g(p).chal = d.chal /\ g(p).timer = d.timer
  BY <1>1, Zenon DEF DialogFields
<1> HIDE DEF e, f, g
<1>4. e \in DialogRec(silent) /\ f \in DialogRec(silent)
      /\ \A p \in Typed : g(p) \in DialogRec(silent)
  BY <1>2, <1>3 DEF DialogRec
<1> QED BY <1>4 DEF e, f, g

LEMMA DialogSet ==
    ASSUME NEW silent \in BOOLEAN, NEW ds \in Seq(DialogRec(silent)), NEW i \in 1 .. Len(ds)
    PROVE  /\ [ds EXCEPT ![i].open = FALSE] \in Seq(DialogRec(silent))
           /\ Len([ds EXCEPT ![i].open = FALSE]) = Len(ds)
           /\ [ds EXCEPT ![i].timer = FALSE] \in Seq(DialogRec(silent))
<1>1. ds[i] \in DialogRec(silent)
  BY ElementOfSeq
<1>2. [ds EXCEPT ![i].open = FALSE] = [ds EXCEPT ![i] = [ds[i] EXCEPT !.open = FALSE]]
  OBVIOUS
<1>3. [ds EXCEPT ![i].timer = FALSE] = [ds EXCEPT ![i] = [ds[i] EXCEPT !.timer = FALSE]]
  OBVIOUS
<1>4. \A e \in DialogRec(silent) : /\ [ds EXCEPT ![i] = e] \in Seq(DialogRec(silent))
                                   /\ Len([ds EXCEPT ![i] = e]) = Len(ds)
  BY ExceptSeq
<1> QED BY <1>1, <1>2, <1>3, <1>4, DialogWith

LEMMA DialogTyped ==
    ASSUME NEW silent \in BOOLEAN, NEW ds \in Seq(DialogRec(silent)), NEW i \in 1 .. Len(ds),
           NEW p \in Typed, NEW r, r = [ds EXCEPT ![i].pass = p, ![i].timer = FALSE]
    PROVE  r \in Seq(DialogRec(silent))
<1> DEFINE d == [ds[i] EXCEPT !.pass = p]
           e == [d EXCEPT !.timer = FALSE]
<1>1. d \in DialogRec(silent)
  BY ElementOfSeq, DialogWith
<1>2. e \in DialogRec(silent)
  BY <1>1, DialogWith
<1>3. ds \in [1 .. Len(ds) -> DialogRec(silent)]
  BY LenProperties
<1>4. r = [ds EXCEPT ![i] = e]
  BY <1>3
<1> HIDE DEF e
<1>5. \A f \in DialogRec(silent) : [ds EXCEPT ![i] = f] \in Seq(DialogRec(silent))
  BY ExceptSeq
<1> QED BY <1>2, <1>4, <1>5

LEMMA DialogField ==
    ASSUME DialogsOK, UserOK, NEW i \in 1 .. Len(dialogs)
    PROVE  /\ dialogs[i] \in DialogRec(options.silent) /\ dialogs[i] \in DialogFields
           /\ dialogs[i].kind \in Kinds \cup {"CRV1"} /\ dialogs[i].open \in BOOLEAN
           /\ dialogs[i].pass \in Typed /\ dialogs[i].timer \in BOOLEAN
           /\ dialogs[i].chal \in Challenges /\ dialogs[i].n \in Nat /\ dialogs[i].rest \in Seq(LineRec)
<1>1. dialogs[i] \in DialogRec(options.silent)
  BY ElementOfSeq DEF DialogsOK
<1>2. dialogs[i] \in DialogFields
  BY <1>1 DEF DialogRec
<1> QED BY <1>1, <1>2, SMT DEF DialogFields

\* The line that is read.
LEMMA ReadLine ==
    ASSUME ReadOK, NEW name, Reads(name)
    PROVE  /\ buf # <<>> /\ Tail(buf) \in Seq(LineRec) /\ Head(buf) \in LineRec
           /\ Head(buf).what \in Kinds \cup States \cup {"forget", "save"}
           /\ Head(buf).second \in SecondFactors /\ Head(buf).chal \in Challenges /\ Head(buf).n \in Nat
<1>1. buf # <<>> /\ Head(buf) \in LineRec /\ Tail(buf) \in Seq(LineRec)
  BY HeadTailProperties DEF ReadOK, Reads
<1> QED BY <1>1, SMT DEF LineRec

-----------------------------------------------------------------------------
(* What the helpers of the actions do *)

LEMMA EndDialogOK ==
    ASSUME DialogsOK, UserOK, UNCHANGED options, NEW i \in 1 .. Len(dialogs), EndDialog(i)
    PROVE  DialogsOK'
BY OptionFacts, DialogSet DEF DialogsOK, EndDialog, UserOK

LEMMA EndAllOK ==
    ASSUME DialogsOK, UserOK, UNCHANGED options, NEW state, EndDialogs(state)
    PROVE  DialogsOK'
<1> DEFINE D == DialogRec(options.silent)
           next(i) == IF dialogs[i].kind = "CrText" /\ state = "GET_CONFIG"
                      THEN dialogs[i] ELSE [dialogs[i] EXCEPT !.open = FALSE]
<1>1. \A i \in 1 .. Len(dialogs) : next(i) \in D
  <2> SUFFICES ASSUME NEW i \in 1 .. Len(dialogs) PROVE next(i) \in D
    OBVIOUS
  <2>1. dialogs[i] \in D
    BY DialogField
  <2> QED BY <2>1, OptionFacts, DialogWith DEF UserOK
<1>2. Len(dialogs) \in Nat
  BY LenProperties DEF DialogsOK
<1>3. dialogs' = [i \in 1 .. Len(dialogs) |-> next(i)]
  BY SMT DEF EndDialogs, EndAll
<1> HIDE DEF next
<1>4. [i \in 1 .. Len(dialogs) |-> next(i)] \in Seq(D)
  BY <1>1, <1>2, IsASeq
<1> QED BY <1>3, <1>4 DEF DialogsOK

LEMMA OpenOK ==
    ASSUME DialogsOK, ReadOK, UserOK, UNCHANGED options, NEW name, Reads(name),
           NEW kind \in Kinds \cup {"CRV1"}, NEW pass \in Typed, NEW timer \in BOOLEAN,
           NEW chal \in Challenges, kind = "CRV1" <=> chal # NoChallenge,
           timer => kind = "Auth" /\ ~options.silent,
           Open(kind, pass, timer, chal)
    PROVE  DialogsOK' /\ buf' \in Seq(LineRec)
<1> DEFINE d == [kind |-> kind, open |-> TRUE, pass |-> pass, timer |-> timer,
                 second |-> Head(buf).second, chal |-> chal, n |-> Head(buf).n, rest |-> Tail(buf)]
<1>1. d \in DialogRec(options.silent)
  BY ReadLine, SMT DEF DialogRec, DialogFields
<1>2. dialogs' = Append(dialogs, d) /\ buf' = <<>>
  BY DEF Open
<1> HIDE DEF d
<1>3. Append(dialogs, d) \in Seq(DialogRec(options.silent))
  BY <1>1, AppendProperties DEF DialogsOK
<1> QED BY <1>2, <1>3, EmptySeq DEF DialogsOK

LEMMA AnswerOK ==
    ASSUME InOK, NEW a \in AnswerRec, in' = Append(in, a)
    PROVE  InOK'
BY AppendProperties DEF InOK

\* The password that is saved is the one in the field.
LEMMA AuthAnswerOK ==
    ASSUME InOK, SavedOK, UserOK, UNCHANGED <<options, saveAuth, saveKey>>,
           NEW pass \in Typed, NEW second, NEW resp \in BOOLEAN,
           NEW auto \in BOOLEAN, NEW late \in BOOLEAN, NEW n \in Nat,
           AuthAnswer(pass, second, resp, auto, late, n)
    PROVE  InOK' /\ SavedOK'
<1> DEFINE sent == IF second = "concat" /\ resp /\ pass # "none" THEN "otp" ELSE pass
           a == Answer("Auth", sent, resp /\ second = "scrv1", NoChallenge, auto, late, n)
<1>1. sent \in Pass
  BY DEF Typed, Pass
<1>2. a \in AnswerRec
  <2>1. "Auth" \in Kinds /\ (resp /\ second = "scrv1") \in BOOLEAN
    BY DEF Kinds
  <2> QED BY <1>1, <2>1, ChallengeFacts, AnswerType
<1>3. in' = Append(in, a)
  BY DEF AuthAnswer
<1>4. InOK'
  BY <1>2, <1>3, AnswerOK
<1> DEFINE kept == IF saveAuth /\ pass # "none" THEN pass ELSE saved.auth
<1>5. saved' \in SavedRec
  <2>1. saved \in SavedRec /\ saved.auth \in Typed
    BY SMT DEF SavedOK, SavedRec
  <2>2. kept \in Typed
    BY <2>1
  <2>3. saved' = [saved EXCEPT !.user = TRUE, !.auth = kept]
    BY DEF AuthAnswer
  <2> HIDE DEF kept
  <2> QED BY <2>1, <2>2, <2>3, Zenon DEF SavedRec
<1>6. saved'.auth = (IF saveAuth /\ pass # "none" THEN pass ELSE saved.auth)
      /\ saved'.key = saved.key
  BY SMT DEF AuthAnswer, SavedOK, SavedRec
<1> QED BY <1>4, <1>5, <1>6, Zenon DEF SavedOK

LEMMA EmitOK ==
    ASSUME out \in Seq(LineRec), NEW lines \in Seq(LineRec), Emit(lines)
    PROVE  out' \in Seq(LineRec)
BY ConcatProperties DEF Emit

\* What is saved, with a password deleted or the key's kept.
LEMMA SavedWith ==
    ASSUME NEW s \in SavedRec, NEW b \in BOOLEAN
    PROVE  /\ [s EXCEPT !.auth = "none"] \in SavedRec
           /\ [s EXCEPT !.auth = "none"].auth = "none"
           /\ [s EXCEPT !.auth = "none"].key = s.key
           /\ [s EXCEPT !.key = b] \in SavedRec
           /\ [s EXCEPT !.key = b].auth = s.auth /\ [s EXCEPT !.key = b].key = b
           /\ [s EXCEPT !.auth = "none", !.key = FALSE] \in SavedRec
           /\ [s EXCEPT !.auth = "none", !.key = FALSE].auth = "none"
           /\ [s EXCEPT !.auth = "none", !.key = FALSE].key = FALSE
<1>1. [s EXCEPT !.auth = "none"] \in SavedRec
  BY Zenon DEF SavedRec, Typed
<1>2. [s EXCEPT !.key = b] \in SavedRec
  BY Zenon DEF SavedRec
<1>3. [s EXCEPT !.auth = "none", !.key = FALSE] \in SavedRec
  BY Zenon DEF SavedRec, Typed
<1>4. DOMAIN s = {"user", "auth", "key"}
  BY SMT DEF SavedRec
<1> QED BY <1>1, <1>2, <1>3, <1>4, Zenon

\* A part of the invariant whose variables a step leaves alone.
LEMMA Same ==
    ASSUME IInv
    PROVE  /\ (UNCHANGED daemonVars) => DaemonOK'
           /\ (UNCHANGED in) => InOK'
           /\ (UNCHANGED <<buf, dynCr>>) => ReadOK'
           /\ (UNCHANGED <<dialogs, options>>) => DialogsOK'
           /\ (UNCHANGED failVars) => FailOK'
           /\ (UNCHANGED <<saveAuth, saveKey, saved, options>>) => SavedOK'
           /\ (UNCHANGED <<options, resetting, stopping, excused>>) => UserOK'
<1>1. (UNCHANGED daemonVars) => DaemonOK'
  BY Zenon DEF IInv, DaemonOK, daemonVars
<1>2. (UNCHANGED in) => InOK'
  BY Zenon DEF IInv, InOK
<1>3. (UNCHANGED <<buf, dynCr>>) => ReadOK'
  BY Zenon DEF IInv, ReadOK
<1>4. (UNCHANGED <<dialogs, options>>) => DialogsOK'
  BY Zenon DEF IInv, DialogsOK
<1>5. (UNCHANGED failVars) => FailOK'
  BY Zenon DEF IInv, FailOK, failVars
<1>6. (UNCHANGED <<saveAuth, saveKey, saved, options>>) => SavedOK'
  BY SMT DEF IInv, SavedOK
<1>7. (UNCHANGED <<options, resetting, stopping, excused>>) => UserOK'
  BY Zenon DEF IInv, UserOK
<1> QED BY <1>1, <1>2, <1>3, <1>4, <1>5, <1>6, <1>7, Zenon

-----------------------------------------------------------------------------
(* The user, and the timer that stands for the user *)

LEMMA OkAuthStep ==
    ASSUME IInv, NEW i \in 1 .. Len(dialogs), OkAuth(i)
    PROVE  IInv'
<1>1. UNCHANGED <<daemonVars, buf, dynCr, failVars, saveAuth, saveKey, userVars, excused>>
  BY Zenon DEF OkAuth
<1>2. UNCHANGED <<options, resetting, stopping>>
  BY <1>1 DEF userVars
<1>3. PICK resp \in BOOLEAN : AuthAnswer(dialogs[i].pass, dialogs[i].second, resp, FALSE, FALSE, dialogs[i].n)
  BY Zenon DEF OkAuth
<1>4. InOK' /\ SavedOK'
  BY <1>1, <1>2, <1>3, DialogField, AuthAnswerOK DEF IInv
<1>5. DialogsOK'
  BY <1>2, EndDialogOK DEF IInv, OkAuth
<1> QED BY <1>1, <1>2, <1>4, <1>5, Same DEF IInv

LEMMA TimerStep ==
    ASSUME IInv, NEW i \in 1 .. Len(dialogs), TimerFires(i)
    PROVE  IInv'
<1>1. UNCHANGED <<daemonVars, buf, dynCr, failVars, saveAuth, saveKey, userVars, excused>>
  BY Zenon DEF TimerFires
<1>2. UNCHANGED <<options, resetting, stopping>>
  BY <1>1 DEF userVars
<1>3. InOK' /\ SavedOK'
  <2>1. AuthAnswer(dialogs[i].pass, dialogs[i].second, FALSE, TRUE, ~dialogs[i].open, dialogs[i].n)
    BY DEF TimerFires
  <2>2. (~dialogs[i].open) \in BOOLEAN
    OBVIOUS
  <2> QED BY <1>1, <1>2, <2>1, <2>2, DialogField, AuthAnswerOK DEF IInv
<1>4. DialogsOK'
  <2> DEFINE ds == [dialogs EXCEPT ![i].open = FALSE]
             D == DialogRec(options.silent)
  <2>1. dialogs' = [ds EXCEPT ![i].timer = FALSE]
    BY DEF TimerFires
  <2>2. options.silent \in BOOLEAN /\ dialogs \in Seq(D)
    BY OptionFacts DEF IInv, UserOK, DialogsOK
  <2>3. ds \in Seq(D) /\ i \in 1 .. Len(ds)
    BY <2>2, DialogSet
  <2> HIDE DEF ds
  <2>4. [ds EXCEPT ![i].timer = FALSE] \in Seq(D)
    BY <2>2, <2>3, DialogSet
  <2> QED BY <1>2, <2>1, <2>4 DEF DialogsOK
<1> QED BY <1>1, <1>2, <1>3, <1>4, Same DEF IInv

LEMMA OkOtherStep ==
    ASSUME IInv, NEW i \in 1 .. Len(dialogs), OkOther(i)
    PROVE  IInv'
<1>1. UNCHANGED <<daemonVars, buf, dynCr, failVars, saveAuth, saveKey, userVars, excused>>
  BY Zenon DEF OkOther
<1>2. UNCHANGED <<options, resetting, stopping>>
  BY <1>1 DEF userVars
<1>3. InOK'
  <2> DEFINE kind == IF dialogs[i].kind = "CRV1" THEN "Auth" ELSE dialogs[i].kind
  <2>1. kind \in Kinds /\ "bare" \in Pass /\ dialogs[i].chal \in Challenges /\ dialogs[i].n \in Nat
    BY DialogField DEF IInv, Kinds, Pass
  <2>2. in' = Append(in, Answer(kind, "bare", FALSE, dialogs[i].chal, FALSE, FALSE, dialogs[i].n))
    BY DEF OkOther
  <2> HIDE DEF kind
  <2> QED BY <2>1, <2>2, AnswerType, AnswerOK DEF IInv
<1>4. SavedOK'
  <2> DEFINE k == saved.key \/ (dialogs[i].kind = "Key" /\ saveKey)
  <2>1. saved \in SavedRec /\ k \in BOOLEAN
    BY DEF IInv, SavedOK
  <2>2. saved' = [saved EXCEPT !.key = k]
    BY DEF OkOther
  <2> HIDE DEF k
  <2>3. /\ [saved EXCEPT !.key = k] \in SavedRec
        /\ [saved EXCEPT !.key = k].auth = saved.auth /\ [saved EXCEPT !.key = k].key = k
    BY <2>1, SavedWith, Zenon
  <2>4. saved' \in SavedRec /\ saved'.auth = saved.auth
    BY <2>2, <2>3, Zenon
  <2>5. options.disableSave => ~k /\ saved'.key = k
    BY <2>2, <2>3, Zenon DEF IInv, SavedOK, k
  <2> QED BY <1>1, <1>2, <2>4, <2>5, Zenon DEF IInv, SavedOK
<1>5. DialogsOK'
  BY <1>2, EndDialogOK DEF IInv, OkOther
<1> QED BY <1>1, <1>2, <1>3, <1>4, <1>5, Same DEF IInv

LEMMA ControlStep ==
    ASSUME IInv, NEW i \in 1 .. Len(dialogs),
           TypePassword(i) \/ Interrupt(i) \/ ToggleSave(i)
    PROVE  IInv'
<1>1. UNCHANGED <<daemonVars, in, buf, dynCr, failVars, userVars, excused>>
  BY Zenon DEF TypePassword, Interrupt, ToggleSave
<1>2. UNCHANGED <<options, resetting, stopping>>
  BY <1>1 DEF userVars
<1>3. DialogsOK'
  <2>1. options.silent \in BOOLEAN /\ dialogs \in Seq(DialogRec(options.silent))
    BY OptionFacts DEF IInv, UserOK, DialogsOK
  <2>2. \/ \E p \in Typed : dialogs' = [dialogs EXCEPT ![i].pass = p, ![i].timer = FALSE]
        \/ dialogs' = [dialogs EXCEPT ![i].timer = FALSE]
        \/ UNCHANGED dialogs
    BY Zenon DEF TypePassword, Interrupt, ToggleSave, Typed
  <2>3. ASSUME NEW p \in Typed, dialogs' = [dialogs EXCEPT ![i].pass = p, ![i].timer = FALSE]
        PROVE  dialogs' \in Seq(DialogRec(options.silent))
    BY <2>1, <2>3, DialogTyped
  <2>4. [dialogs EXCEPT ![i].timer = FALSE] \in Seq(DialogRec(options.silent))
    BY <2>1, DialogSet, Zenon
  <2>5. dialogs' \in Seq(DialogRec(options.silent))
    BY <2>1, <2>2, <2>3, <2>4, Zenon
  <2> QED BY <1>2, <2>5, Zenon DEF DialogsOK
<1>4. SavedOK'
  <2>1. CASE UNCHANGED savedVars
    BY <1>2, <2>1, Same DEF savedVars
  <2>2. CASE ToggleSave(i)
    <3>1. ~options.disableSave
      BY <2>2 DEF ToggleSave
    <3>2. saveAuth' \in BOOLEAN /\ saveKey' \in BOOLEAN
      BY <2>2, Zenon DEF ToggleSave, IInv, SavedOK
    <3>3. saved' \in SavedRec
      <4>1. saved \in SavedRec
        BY DEF IInv, SavedOK
      <4>2. [saved EXCEPT !.auth = "none"] \in SavedRec /\ [saved EXCEPT !.key = FALSE] \in SavedRec
        BY <4>1, SavedWith, Zenon
      <4> QED BY <2>2, <4>1, <4>2, Zenon DEF ToggleSave
    <3> QED BY <1>2, <3>1, <3>2, <3>3, Zenon DEF SavedOK
  <2> QED BY <2>1, <2>2, Zenon DEF TypePassword, Interrupt
<1> QED BY <1>1, <1>2, <1>3, <1>4, Same DEF IInv

LEMMA CloseStep ==
    ASSUME IInv, NEW i \in 1 .. Len(dialogs), Cancel(i) \/ CloseX(i)
    PROVE  IInv'
<1>1. UNCHANGED <<daemonVars, in, buf, dynCr, failVars, savedVars, options, resetting>>
  BY Zenon DEF Cancel, CloseX, userVars
<1>2. stopping' \in BOOLEAN /\ excused' \subseteq {"closed", "crossed", "dropped"}
  <2>1. stopping' \in BOOLEAN
    BY Zenon DEF Cancel, CloseX, userVars, IInv, UserOK
  <2>2. excused' \in {excused, excused \cup {"closed"}}
    BY Zenon DEF Cancel, CloseX
  <2> QED BY <2>1, <2>2 DEF IInv, UserOK
<1>3. DialogsOK'
  BY <1>1, EndDialogOK DEF IInv, Cancel, CloseX
<1>4. SavedOK'
  BY <1>1, Same DEF savedVars
<1> QED BY <1>1, <1>2, <1>3, <1>4, Same DEF IInv, UserOK

\* Between the two steps of ResetSavePasswords the flags may still say yes.
LEMMA ResetStep ==
    ASSUME IInv, ResetDeletes \/ ResetClears
    PROVE  IInv'
<1>1. UNCHANGED <<daemonVars, in, buf, dialogs, dynCr, failVars, options, stopping, excused>>
  BY Zenon DEF ResetDeletes, ResetClears
<1>2. resetting' \in BOOLEAN
  BY Zenon DEF ResetDeletes, ResetClears
<1>3. SavedOK'
  <2>1. CASE ResetDeletes
    <3>1. (UNCHANGED <<saveAuth, saveKey>>) /\ saved' = [saved EXCEPT !.auth = "none", !.key = FALSE]
      BY <2>1, Zenon DEF ResetDeletes
    <3>2. saved' \in SavedRec /\ saved'.auth = "none" /\ saved'.key = FALSE
      BY <3>1, SavedWith DEF IInv, SavedOK
    <3> QED BY <1>1, <3>1, <3>2, Zenon DEF IInv, SavedOK
  <2>2. CASE ResetClears
    BY <1>1, <2>2, Zenon DEF ResetClears, IInv, SavedOK
  <2> QED BY <2>1, <2>2
<1> QED BY <1>1, <1>2, <1>3, Same DEF IInv, UserOK

-----------------------------------------------------------------------------
(* The lines *)

LEMMA FdReadStep ==
    ASSUME IInv, FdRead
    PROVE  IInv'
<1>1. UNCHANGED <<running, need, asked, due, in, dialogs, dynCr, failVars, savedVars, userVars, excused>>
  BY Zenon DEF FdRead
<1>2. UNCHANGED <<options, resetting, stopping, saveAuth, saveKey, saved>>
  BY <1>1 DEF userVars, savedVars
<1>3. PICK n \in 1 .. Len(out) : buf' = SubSeq(out, 1, n) /\ out' = SubSeq(out, n + 1, Len(out))
  BY Zenon DEF FdRead
<1>4. out \in Seq(LineRec) /\ Len(out) \in Nat /\ n \in Int
  BY LenProperties, SMT DEF IInv, DaemonOK
<1>5. buf' \in Seq(LineRec)
  <2>1. \A j \in 1 .. n : out[j] \in LineRec
    BY <1>4, ElementOfSeq, SMT
  <2> QED BY <1>3, <1>4, <2>1, SubSeqProperties
<1>6. out' \in Seq(LineRec)
  <2>1. n + 1 \in Int /\ Len(out) \in Int /\ \A j \in n + 1 .. Len(out) : out[j] \in LineRec
    BY <1>4, ElementOfSeq, SMT
  <2> QED BY <1>3, <1>4, <2>1, SubSeqProperties
<1>7. DaemonOK' /\ ReadOK'
  BY <1>1, <1>5, <1>6 DEF IInv, DaemonOK, ReadOK
<1> QED BY <1>1, <1>2, <1>7, Same DEF IInv

LEMMA ReturnStep ==
    ASSUME IInv, DialogReturns
    PROVE  IInv'
<1>1. UNCHANGED <<daemonVars, in, failVars, savedVars, userVars>>
  BY Zenon DEF DialogReturns
<1>2. UNCHANGED <<options, resetting, stopping, saveAuth, saveKey, saved>>
  BY <1>1 DEF userVars, savedVars
<1>3. dialogs # <<>> /\ dialogs \in Seq(DialogRec(options.silent)) /\ Len(dialogs) \in Nat
  BY LenProperties DEF DialogReturns, IInv, DialogsOK
<1>4. Len(dialogs) \in 1 .. Len(dialogs)
  BY <1>3, EmptySeq, SMT
<1>5. ReadOK'
  <2>1. buf' = Last.rest /\ dynCr' \in {NoChallenge, dynCr}
    BY Zenon DEF DialogReturns
  <2>2. Last.rest \in Seq(LineRec)
    BY <1>4, DialogField DEF IInv, Last
  <2> QED BY <2>1, <2>2, ChallengeFacts DEF IInv, ReadOK
<1>6. DialogsOK'
  <2>1. Len(dialogs) - 1 \in Int /\ 1 \in Int
        /\ \A j \in 1 .. Len(dialogs) - 1 : dialogs[j] \in DialogRec(options.silent)
    BY <1>3, ElementOfSeq, SMT
  <2>2. SubSeq(dialogs, 1, Len(dialogs) - 1) \in Seq(DialogRec(options.silent))
    BY <2>1, SubSeqProperties
  <2> QED BY <1>2, <2>2 DEF DialogReturns, DialogsOK
<1>7. UserOK'
  BY <1>2 DEF DialogReturns, IInv, UserOK
<1> QED BY <1>1, <1>2, <1>5, <1>6, <1>7, Same DEF IInv

LEMMA NeedChallengeStep ==
    ASSUME IInv, ReadNeedChallenge
    PROVE  IInv'
<1>1. UNCHANGED <<daemonVars, in, failVars, savedVars, userVars>>
  BY Zenon DEF ReadNeedChallenge
<1>2. UNCHANGED <<options, resetting, stopping, saveAuth, saveKey, saved>>
  BY <1>1 DEF userVars, savedVars
<1>3. Reads("need") /\ dynCr # NoChallenge /\ dynCr \in Challenges
  BY DEF ReadNeedChallenge, IInv, ReadOK
<1>4. CASE dynCr = BadChallenge
  <2>1. Next1 /\ dynCr' = NoChallenge /\ excused' = excused \cup {"closed"}
    BY <1>4, Zenon DEF ReadNeedChallenge
  <2>2. ReadOK'
    BY <1>3, <2>1, ReadLine, ChallengeFacts DEF IInv, ReadOK, Next1
  <2>3. DialogsOK' /\ UserOK'
    BY <1>2, <2>1, Same DEF IInv, UserOK, Next1
  <2> QED BY <1>1, <1>2, <2>2, <2>3, Same DEF IInv
<1>5. CASE dynCr # BadChallenge
  <2>1. Open("CRV1", "none", FALSE, dynCr) /\ UNCHANGED dynCr
    BY <1>5, Zenon DEF ReadNeedChallenge
  <2>u. UserOK'
    BY <1>2, <1>5 DEF ReadNeedChallenge, IInv, UserOK
  <2>2. DialogsOK' /\ buf' \in Seq(LineRec)
    BY <1>2, <1>3, <2>1, OpenOK DEF IInv, Typed
  <2>3. ReadOK'
    BY <1>3, <2>1, <2>2 DEF ReadOK
  <2> QED BY <1>1, <1>2, <2>u, <2>2, <2>3, Same DEF IInv
<1> QED BY <1>4, <1>5

LEMMA NeedAuthStep ==
    ASSUME IInv, ReadNeedAuth
    PROVE  IInv'
<1>1. UNCHANGED <<daemonVars, dynCr, failVars, saveAuth, saveKey, userVars, excused>>
  BY Zenon DEF ReadNeedAuth
<1>2. UNCHANGED <<options, resetting, stopping>>
  BY <1>1 DEF userVars
<1>3. Reads("need") /\ saved.auth \in Typed /\ dynCr \in Challenges
  BY SMT DEF ReadNeedAuth, IInv, SavedOK, SavedRec, ReadOK
<1> DEFINE auto == CanAuto(Head(buf).second)
<1>4. CASE auto /\ options.silent
  <2>1. Next1 /\ AuthAnswer(saved.auth, "none", FALSE, TRUE, FALSE, Head(buf).n)
    BY <1>4, Zenon DEF ReadNeedAuth
  <2>2. InOK' /\ SavedOK'
    BY <1>1, <1>2, <1>3, <2>1, ReadLine, AuthAnswerOK DEF IInv
  <2>3. ReadOK'
    BY <1>1, <1>3, <2>1, ReadLine DEF IInv, ReadOK, Next1
  <2>4. DialogsOK'
    BY <1>2, <2>1, Same DEF Next1
  <2> QED BY <1>1, <1>2, <2>2, <2>3, <2>4, Same DEF IInv
<1>5. CASE ~(auto /\ options.silent)
  <2>1. Open("Auth", saved.auth, auto, NoChallenge) /\ UNCHANGED <<in, saved>>
    BY <1>5, Zenon DEF ReadNeedAuth
  <2>2. auto \in BOOLEAN /\ (auto => ~options.silent)
    BY <1>5 DEF CanAuto
  <2> HIDE DEF auto
  <2>3. DialogsOK' /\ buf' \in Seq(LineRec)
    BY <1>2, <1>3, <2>1, <2>2, OpenOK, ChallengeFacts DEF IInv, Kinds
  <2>4. ReadOK'
    BY <1>1, <1>3, <2>3 DEF ReadOK
  <2> QED BY <1>1, <1>2, <2>1, <2>3, <2>4, Same DEF IInv
<1> QED BY <1>4, <1>5

LEMMA NeedKeyStep ==
    ASSUME IInv, ReadNeedKey
    PROVE  IInv'
<1>1. UNCHANGED <<daemonVars, dynCr, failVars, savedVars, userVars, excused>>
  BY Zenon DEF ReadNeedKey
<1>2. UNCHANGED <<options, resetting, stopping, saveAuth, saveKey, saved>>
  BY <1>1 DEF userVars, savedVars
<1>3. Reads("need") /\ dynCr \in Challenges /\ "Key" \in Kinds
  BY DEF ReadNeedKey, IInv, ReadOK, Kinds
<1>4. CASE Next1 /\ in' = Append(in, Answer("Key", "bare", FALSE, NoChallenge, TRUE, FALSE, Head(buf).n))
  <2>1. InOK'
    <3>1. "bare" \in Pass /\ NoChallenge \in Challenges /\ Head(buf).n \in Nat
      BY <1>3, ReadLine, ChallengeFacts DEF Pass, IInv
    <3> QED BY <1>3, <1>4, <3>1, AnswerType, AnswerOK DEF IInv
  <2>2. ReadOK'
    BY <1>1, <1>3, <1>4, ReadLine DEF IInv, ReadOK, Next1
  <2>3. DialogsOK'
    BY <1>2, <1>4, Same DEF Next1
  <2> QED BY <1>1, <1>2, <2>1, <2>2, <2>3, Same DEF IInv
<1>5. CASE Open("Key", "none", FALSE, NoChallenge) /\ UNCHANGED in
  <2>1. DialogsOK' /\ buf' \in Seq(LineRec)
    BY <1>2, <1>3, <1>5, OpenOK, ChallengeFacts DEF IInv, Typed
  <2>2. ReadOK'
    BY <1>1, <1>3, <2>1 DEF ReadOK
  <2> QED BY <1>1, <1>2, <1>5, <2>1, <2>2, Same DEF IInv
<1> QED BY <1>4, <1>5, Zenon DEF ReadNeedKey

LEMMA NeedOtherStep ==
    ASSUME IInv, ReadNeedOther
    PROVE  IInv'
<1>1. UNCHANGED <<daemonVars, in, dynCr, failVars, savedVars, userVars, excused>>
  BY Zenon DEF ReadNeedOther
<1>2. UNCHANGED <<options, resetting, stopping, saveAuth, saveKey, saved>>
  BY <1>1 DEF userVars, savedVars
<1>3. Reads("need") /\ Head(buf).what \in Kinds /\ dynCr \in Challenges
  BY DEF ReadNeedOther, IInv, ReadOK, Kinds
<1>4. Open(Head(buf).what, "none", FALSE, NoChallenge) /\ Head(buf).what # "CRV1"
  BY DEF ReadNeedOther
<1>5. DialogsOK' /\ buf' \in Seq(LineRec)
  BY <1>2, <1>3, <1>4, OpenOK, ChallengeFacts DEF IInv, Typed
<1>6. ReadOK'
  BY <1>1, <1>3, <1>5 DEF ReadOK
<1> QED BY <1>1, <1>2, <1>5, <1>6, Same DEF IInv

LEMMA FailedStep ==
    ASSUME IInv, ReadFailed
    PROVE  IInv'
<1>1. UNCHANGED <<daemonVars, in, failVars, savedVars, userVars, excused>>
  BY Zenon DEF ReadFailed
<1>2. UNCHANGED <<options, resetting, stopping, saveAuth, saveKey, saved>>
  BY <1>1 DEF userVars, savedVars
<1>3. Reads("failed") /\ Next1 /\ dynCr' = Head(buf).chal
  BY DEF ReadFailed
<1>4. ReadOK'
  BY <1>3, ReadLine DEF IInv, ReadOK, Next1
<1>5. DialogsOK'
  BY <1>2, <1>3, Same DEF Next1
<1> QED BY <1>1, <1>2, <1>4, <1>5, Same DEF IInv

LEMMA StateStep ==
    ASSUME IInv, ReadState
    PROVE  IInv'
<1>1. UNCHANGED <<daemonVars, in, dynCr, savedVars, userVars, excused>>
  BY Zenon DEF ReadState
<1>2. UNCHANGED <<options, resetting, stopping, saveAuth, saveKey, saved>>
  BY <1>1 DEF userVars, savedVars
<1>3. Reads("state") /\ buf' = Tail(buf)
  BY DEF ReadState
<1>4. ReadOK'
  BY <1>1, <1>3, ReadLine DEF IInv, ReadOK
<1>5. DialogsOK'
  <2>1. PICK state : state = Head(buf).what /\ EndDialogs(state)
    BY Zenon DEF ReadState
  <2> QED BY <1>2, <2>1, EndAllOK DEF IInv
<1>6. FailOK'
  <2>1. failedAuth' \in {0, failedAuth, failedAuth + 1} /\ failedPsw' \in {0, failedPsw, failedPsw + 1}
    BY SMT DEF ReadState, IInv, FailOK
  <2>2. refused' \in {{}, refused, refused \cup {"Auth"}, refused \cup {"Key"}}
    BY Zenon DEF ReadState
  <2>3. {"Auth", "Key"} \subseteq Kinds
    BY DEF Kinds
  <2>4. failedAuth' \in Nat /\ failedPsw' \in Nat
    BY <2>1, SMT DEF IInv, FailOK
  <2>5. refused' \subseteq Kinds
    BY <2>2, <2>3, SMT DEF IInv, FailOK
  <2> QED BY <2>4, <2>5 DEF FailOK
<1> QED BY <1>1, <1>2, <1>4, <1>5, <1>6, Same DEF IInv

\* Where saving is disabled the server cannot turn it on.
LEMMA EchoStep ==
    ASSUME IInv, ReadEcho
    PROVE  IInv'
<1>1. UNCHANGED <<daemonVars, in, dynCr, failVars, userVars, excused>>
  BY Zenon DEF ReadEcho
<1>2. UNCHANGED <<options, resetting, stopping>>
  BY <1>1 DEF userVars
<1>3. Reads("echo") /\ Next1
  BY DEF ReadEcho
<1>4. ReadOK'
  BY <1>1, <1>3, ReadLine DEF IInv, ReadOK, Next1
<1>5. DialogsOK'
  BY <1>2, <1>3, Same DEF Next1
<1>6. SavedOK'
  <2>1. CASE saved' = [saved EXCEPT !.auth = "none", !.key = FALSE] /\ UNCHANGED <<saveAuth, saveKey>>
    <3>1. saved' \in SavedRec /\ saved'.auth = "none" /\ saved'.key = FALSE
      BY <2>1, SavedWith DEF IInv, SavedOK
    <3> QED BY <1>2, <2>1, <3>1, Zenon DEF IInv, SavedOK
  <2>2. CASE /\ saveAuth' = (saveAuth \/ ~options.disableSave)
             /\ saveKey' = (saveKey \/ ~options.disableSave) /\ UNCHANGED saved
    <3>1. saveAuth' \in BOOLEAN /\ saveKey' \in BOOLEAN
      BY <2>2, Zenon
    <3> QED BY <1>2, <2>2, <3>1, Zenon DEF IInv, SavedOK
  <2> QED BY <2>1, <2>2, Zenon DEF ReadEcho
<1> QED BY <1>1, <1>2, <1>4, <1>5, <1>6, Same DEF IInv

-----------------------------------------------------------------------------
(* The daemon *)

\* Steps that leave everything of the GUI as it is, but for what is under way to it.
LEMMA DaemonOnly ==
    ASSUME IInv, UNCHANGED <<buf, dialogs, dynCr, failVars, savedVars, options, resetting, stopping>>,
           excused' \in {excused, excused \cup {"crossed"}}, DaemonOK', InOK'
    PROVE  IInv'
<1>1. UserOK'
  BY DEF IInv, UserOK
<1> QED BY <1>1, Same DEF IInv, savedVars

LEMMA TakenOK ==
    ASSUME InOK, Taken
    PROVE  InOK'
BY HeadTailProperties DEF InOK, Taken

LEMMA LinesType ==
    /\ \A l \in LineRec : <<l>> \in Seq(LineRec)
    /\ \A l, m \in LineRec : <<l, m>> \in Seq(LineRec)
BY SMT

LEMMA AskStep ==
    ASSUME IInv, NEW kind \in Asks, Ask(kind)
    PROVE  IInv'
<1>1. UNCHANGED <<running, in, buf, dialogs, dynCr, failVars, savedVars, userVars, excused>>
  BY Zenon DEF Ask
<1>2. UNCHANGED <<options, resetting, stopping>>
  BY <1>1 DEF userVars
<1>3. kind \in Kinds
  BY AuthAssumption
<1>4. need' \in [kind : Kinds \cup {"none"}, chal : Challenges] /\ due' \in Challenges
  <2>1. due \in Challenges /\ NoChallenge \in Challenges
    BY ChallengeFacts DEF IInv, DaemonOK
  <2> QED BY <1>3, <2>1 DEF Ask
<1>5. asked' \in 0 .. MaxAsked
  BY AuthAssumption, SMT DEF Ask, IInv, DaemonOK
<1>6. out' \in Seq(LineRec)
  <2>1. PICK second \in SecondFactors :
          Emit(<<[Line("need", kind, NoChallenge) EXCEPT !.second = second, !.n = asked + 1]>>)
    BY AuthAssumption, Zenon DEF Ask, SecondFactors
  <2>2. [Line("need", kind, NoChallenge) EXCEPT !.second = second, !.n = asked + 1] \in LineRec
    <3>1. asked + 1 \in Nat /\ "need" \in {"need", "failed", "state", "echo"}
          /\ kind \in Kinds \cup States \cup {"forget", "save"}
      BY <1>3, SMT DEF IInv, DaemonOK
    <3> QED BY <2>1, <3>1, ChallengeFacts, LineType, Zenon
  <2> QED BY <2>1, <2>2, LinesType, EmitOK DEF IInv, DaemonOK
<1>7. DaemonOK' /\ InOK'
  BY <1>1, <1>4, <1>5, <1>6, Same DEF IInv, DaemonOK
<1> QED BY <1>1, <1>2, <1>7, DaemonOnly

LEMMA AnsweredStep ==
    ASSUME IInv, DropAnswer \/ Accept
    PROVE  IInv'
<1>1. UNCHANGED <<running, asked, due, out, buf, dialogs, dynCr, failVars, savedVars,
                  options, resetting, stopping>>
  BY Zenon DEF DropAnswer, Accept, daemonVars, userVars
<1>2. InOK' /\ excused' \in {excused, excused \cup {"crossed"}}
  BY TakenOK DEF DropAnswer, Accept, TakesAnswer, IInv
<1>3. need' \in [kind : Kinds \cup {"none"}, chal : Challenges]
  <2>1. need' \in {need, NoNeed}
    BY Zenon DEF DropAnswer, Accept, TakesAnswer, daemonVars
  <2> QED BY <2>1, ChallengeFacts DEF IInv, DaemonOK, NoNeed
<1>4. DaemonOK'
  BY <1>1, <1>3 DEF IInv, DaemonOK
<1> QED BY <1>1, <1>2, <1>4, DaemonOnly

LEMMA RefuseStep ==
    ASSUME IInv, Refuse
    PROVE  IInv'
<1>1. UNCHANGED <<running, asked, buf, dialogs, dynCr, failVars, savedVars,
                  options, resetting, stopping>>
  BY Zenon DEF Refuse, userVars
<1>2. InOK' /\ excused' \in {excused, excused \cup {"crossed"}}
  BY TakenOK DEF Refuse, TakesAnswer, IInv
<1>3. Head(in).kind = need.kind /\ in # <<>> /\ Head(in) \in AnswerRec /\ asked \in 0 .. MaxAsked
  BY HeadTailProperties DEF Refuse, TakesAnswer, Taken, IInv, InOK, DaemonOK
<1>4. need.kind \in Kinds
  BY <1>3, SMT DEF AnswerRec
<1>5. need' \in [kind : Kinds \cup {"none"}, chal : Challenges]
  BY ChallengeFacts DEF Refuse, TakesAnswer, NoNeed
<1>6. PICK chal \in {NoChallenge, asked, BadChallenge} :
        /\ Emit(<<Line("failed", need.kind, chal), Line("state", FailureState(need.kind), chal)>>)
        /\ due' = chal
  <2>1. (IF need.kind # "Auth" THEN {NoChallenge}
         ELSE {NoChallenge, asked} \cup (IF Malformed THEN {BadChallenge} ELSE {}))
           \subseteq {NoChallenge, asked, BadChallenge}
    OBVIOUS
  <2> QED BY <2>1, Zenon DEF Refuse
<1>7. chal \in Challenges
  BY <1>3, ChallengeFacts
<1>8. out' \in Seq(LineRec)
  <2>1. FailureState(need.kind) \in States
    BY <1>4, SMT DEF FailureState, States, Kinds
  <2>2. Line("failed", need.kind, chal) \in LineRec
    BY <1>4, <1>7, LineType
  <2>3. Line("state", FailureState(need.kind), chal) \in LineRec
    BY <1>7, <2>1, LineType
  <2> QED BY <1>6, <2>2, <2>3, LinesType, EmitOK DEF IInv, DaemonOK
<1>9. DaemonOK'
  BY <1>1, <1>5, <1>6, <1>7, <1>8 DEF IInv, DaemonOK
<1> QED BY <1>1, <1>2, <1>9, DaemonOnly

\* Lines that are no questions.
LEMMA NewsStep ==
    ASSUME IInv, Restart \/ Progress \/ Echo
    PROVE  IInv'
<1>1. UNCHANGED <<running, asked, in, buf, dialogs, dynCr, failVars, savedVars,
                  options, resetting, stopping, excused>>
  BY Zenon DEF Restart, Progress, Echo
<1>2. need' \in [kind : Kinds \cup {"none"}, chal : Challenges] /\ due' \in Challenges
  <2>1. need' \in {need, NoNeed} /\ due' \in {due, NoChallenge}
    BY Zenon DEF Restart, Progress, Echo
  <2> QED BY <2>1, ChallengeFacts DEF IInv, DaemonOK, NoNeed
<1>3. out' \in Seq(LineRec)
  <2>1. PICK name \in {"state", "echo"}, what \in States \cup {"forget", "save"} :
          Emit(<<Line(name, what, NoChallenge)>>)
    BY Zenon DEF Restart, Progress, Echo, States
  <2>2. Line(name, what, NoChallenge) \in LineRec
    BY ChallengeFacts, LineType
  <2> QED BY <2>1, <2>2, LinesType, EmitOK DEF IInv, DaemonOK
<1>4. DaemonOK' /\ InOK'
  BY <1>1, <1>2, <1>3, Same DEF IInv, DaemonOK
<1> QED BY <1>1, <1>4, DaemonOnly

LEMMA ExitStep ==
    ASSUME IInv, Exit
    PROVE  IInv'
<1>1. UNCHANGED <<need, asked, due, out, in, buf, dialogs, dynCr, failVars, savedVars,
                  options, resetting, stopping, excused>>
  BY Zenon DEF Exit, userVars
<1>2. DaemonOK' /\ InOK'
  BY <1>1, Same DEF Exit, IInv, DaemonOK
<1> QED BY <1>1, <1>2, DaemonOnly

-----------------------------------------------------------------------------
(* The invariant and what it implies *)

LEMMA InitInv == Init => IInv
<1> SUFFICES ASSUME Init PROVE IInv
  OBVIOUS
<1>1. DaemonOK
  BY ChallengeFacts, AuthAssumption, EmptySeq DEF Init, DaemonOK, NoNeed
<1>2. InOK /\ ReadOK /\ DialogsOK
  BY ChallengeFacts, EmptySeq DEF Init, InOK, ReadOK, DialogsOK
<1>3. FailOK
  BY DEF Init, FailOK
<1>4. SavedOK
  <2>1. saved \in SavedRec
    BY DEF Init, SavedRec, Typed
  <2>2. saveAuth = (saved.auth # "none") /\ saveKey = saved.key
        /\ (options.disableSave => saved.auth = "none" /\ ~saved.key)
    BY Zenon DEF Init
  <2>3. saved.key \in BOOLEAN
    BY <2>1, SMT DEF SavedRec
  <2> QED BY <2>1, <2>2, <2>3, Zenon DEF SavedOK
<1>5. UserOK
  BY Zenon DEF Init, UserOK
<1> QED BY <1>1, <1>2, <1>3, <1>4, <1>5 DEF IInv

LEMMA StepInv == IInv /\ [Next]_vars => IInv'
<1> SUFFICES ASSUME IInv, [Next]_vars PROVE IInv'
  OBVIOUS
<1>1. CASE User
  BY <1>1, OkAuthStep, OkOtherStep, ControlStep, CloseStep, ResetStep DEF User
<1>2. CASE Timer
  BY <1>2, TimerStep DEF Timer
<1>3. CASE GUI
  BY <1>3, FdReadStep, ReturnStep, NeedChallengeStep, NeedAuthStep, NeedKeyStep, NeedOtherStep,
     FailedStep, StateStep, EchoStep DEF GUI
<1>4. CASE Daemon
  BY <1>4, AskStep, AnsweredStep, RefuseStep, NewsStep, ExitStep DEF Daemon
<1>5. CASE UNCHANGED vars
  BY <1>5, Same DEF IInv, vars, savedVars, userVars
<1> QED BY <1>1, <1>2, <1>3, <1>4, <1>5 DEF Next

LEMMA InvTyped == IInv => TypeOK
<1> SUFFICES ASSUME IInv PROVE TypeOK
  OBVIOUS
<1>1. \A ls \in Seq(LineRec) : \A j \in 1 .. Len(ls) : LineOK(ls[j])
  <2> SUFFICES ASSUME NEW ls \in Seq(LineRec), NEW j \in 1 .. Len(ls) PROVE LineOK(ls[j])
    OBVIOUS
  <2>1. ls[j] \in LineRec
    BY ElementOfSeq
  <2> QED BY <2>1, SMT DEF LineRec, LineOK
<1>2. \A j \in 1 .. Len(in) : in[j].kind \in Kinds /\ in[j].pass \in Pass /\ in[j].chal \in Challenges
  <2> SUFFICES ASSUME NEW j \in 1 .. Len(in)
               PROVE  in[j].kind \in Kinds /\ in[j].pass \in Pass /\ in[j].chal \in Challenges
    OBVIOUS
  <2>1. in[j] \in AnswerRec
    BY ElementOfSeq DEF IInv, InOK
  <2> QED BY <2>1, SMT DEF AnswerRec
<1>3. \A i \in 1 .. Len(dialogs) : DialogOK(dialogs[i])
  <2> SUFFICES ASSUME NEW i \in 1 .. Len(dialogs) PROVE DialogOK(dialogs[i])
    OBVIOUS
  <2>1. /\ dialogs[i].kind = "CRV1" <=> dialogs[i].chal # NoChallenge
        /\ dialogs[i].timer => dialogs[i].kind = "Auth" /\ ~options.silent
    BY DialogField DEF IInv, DialogRec
  <2>2. dialogs[i].pass \in Pass
    BY DialogField DEF IInv, Typed, Pass
  <2> QED BY <1>1, <2>1, <2>2, DialogField DEF IInv, DialogOK
<1>4. need.kind \in Kinds \cup {"none"} /\ need.chal \in Challenges
  BY SMT DEF IInv, DaemonOK
<1>5. saved.user \in BOOLEAN /\ saved.auth \in Pass /\ saved.key \in BOOLEAN
  BY SMT DEF IInv, SavedOK, SavedRec, Typed, Pass
<1> QED BY <1>1, <1>2, <1>3, <1>4, <1>5 DEF IInv, TypeOK, DaemonOK, ReadOK, FailOK, SavedOK, UserOK

-----------------------------------------------------------------------------
\* Every variable keeps its type; a dialog that presses its own OK is a user name
\* dialog, and a dialog has a challenge exactly if it is one for a challenge.
THEOREM TypeCorrect == Spec => []TypeOK
<1> QED BY InitInv, StepInv, InvTyped, PTL DEF Spec

\* However dialogs nest and whoever presses OK, a password with a one time response
\* appended never reaches the registry (UserAuthDialogFunc).
THEOREM BareSaved == Spec => []SavedIsBare
<1>1. IInv => SavedIsBare
  BY SMT DEF IInv, SavedOK, SavedRec, Typed, SavedIsBare
<1> QED BY <1>1, InitInv, StepInv, PTL DEF Spec

\* Where the administrator has disabled saving, neither a dialog, an echo directive of
\* the server nor an answer the GUI gives by itself saves a password.
THEOREM SavingDisabled == Spec => []NothingSavedIfDisabled
<1>1. IInv => NothingSavedIfDisabled
  BY Zenon DEF IInv, SavedOK, NothingSavedIfDisabled
<1> QED BY <1>1, InitInv, StepInv, PTL DEF Spec

-----------------------------------------------------------------------------
(* What is saved is wanted *)

LEMMA SameWanted == Wanted /\ UNCHANGED <<saveAuth, saveKey, saved>> => Wanted'
BY SMT DEF Wanted

LEMMA AnswerWanted ==
    ASSUME Wanted, saved \in SavedRec, UNCHANGED <<saveAuth, saveKey>>, NEW pass, NEW second,
           NEW resp, NEW auto, NEW late, NEW n,
           AuthAnswer(pass, second, resp, auto, late, n)
    PROVE  Wanted'
<1>1. saved'.key = saved.key
      /\ saved'.auth = IF saveAuth /\ pass # "none" THEN pass ELSE saved.auth
  BY SMT DEF AuthAnswer, SavedRec
<1> QED BY <1>1, Zenon DEF Wanted

LEMMA WantedStep ==
    ASSUME IInv, Wanted, ~resetting, [Next]_vars
    PROVE  Wanted'
<1>s. saved \in SavedRec /\ saveAuth \in BOOLEAN /\ saveKey \in BOOLEAN
  BY DEF IInv, SavedOK
<1>1. CASE UNCHANGED <<saveAuth, saveKey, saved>>
  BY <1>1, SameWanted
<1>2. ASSUME NEW i \in 1 .. Len(dialogs), OkAuth(i) \/ TimerFires(i) PROVE Wanted'
  <2>1. UNCHANGED <<saveAuth, saveKey>>
    BY <1>2, Zenon DEF OkAuth, TimerFires
  <2>2. \E resp, auto, late, n : AuthAnswer(dialogs[i].pass, dialogs[i].second, resp, auto, late, n)
    BY <1>2, Zenon DEF OkAuth, TimerFires
  <2> QED BY <1>s, <2>1, <2>2, AnswerWanted
<1>3. ASSUME NEW i \in 1 .. Len(dialogs), OkOther(i) PROVE Wanted'
  <2> DEFINE k == saved.key \/ (dialogs[i].kind = "Key" /\ saveKey)
  <2>1. saved' = [saved EXCEPT !.key = k] /\ UNCHANGED <<saveAuth, saveKey>>
    BY <1>3, Zenon DEF OkOther
  <2>2. k \in BOOLEAN
    OBVIOUS
  <2> HIDE DEF k
  <2>3. [saved EXCEPT !.key = k].auth = saved.auth /\ [saved EXCEPT !.key = k].key = k
    BY <1>s, <2>2, SavedWith, Zenon
  <2>4. k => saved.key \/ saveKey
    BY Zenon DEF k
  <2>5. saved'.auth = saved.auth /\ saved'.key = k
    BY <2>1, <2>3, Zenon
  <2> QED BY <2>1, <2>4, <2>5, Zenon DEF Wanted
<1>4. ASSUME NEW i \in 1 .. Len(dialogs), ToggleSave(i) PROVE Wanted'
  <2>1. /\ [saved EXCEPT !.auth = "none"].auth = "none" /\ [saved EXCEPT !.auth = "none"].key = saved.key
        /\ [saved EXCEPT !.key = FALSE].auth = saved.auth /\ [saved EXCEPT !.key = FALSE].key = FALSE
    BY <1>s, SavedWith, Zenon
  <2>2. CASE /\ saveAuth' = ~saveAuth /\ UNCHANGED saveKey
             /\ saved' = IF saveAuth THEN [saved EXCEPT !.auth = "none"] ELSE saved
    <3>1. CASE saveAuth
      BY <2>1, <2>2, <3>1, Zenon DEF Wanted
    <3>2. CASE ~saveAuth
      BY <2>2, <3>2, Zenon DEF Wanted
    <3> QED BY <3>1, <3>2
  <2>3. CASE /\ saveKey' = ~saveKey /\ UNCHANGED saveAuth
             /\ saved' = IF saveKey THEN [saved EXCEPT !.key = FALSE] ELSE saved
    <3>1. CASE saveKey
      BY <2>1, <2>3, <3>1, Zenon DEF Wanted
    <3>2. CASE ~saveKey
      BY <2>3, <3>2, Zenon DEF Wanted
    <3> QED BY <3>1, <3>2
  <2> QED BY <1>4, <2>2, <2>3, Zenon DEF ToggleSave
<1>5. CASE saved' = [saved EXCEPT !.auth = "none", !.key = FALSE]
  <2>1. saved'.auth = "none" /\ saved'.key = FALSE
    BY <1>5, <1>s, SavedWith
  <2> QED BY <2>1, Zenon DEF Wanted
<1>6. CASE ReadEcho
  <2>1. CASE /\ saveAuth' = (saveAuth \/ ~options.disableSave)
             /\ saveKey' = (saveKey \/ ~options.disableSave) /\ UNCHANGED saved
    BY <2>1, Zenon DEF Wanted
  <2> QED BY <1>5, <1>6, <2>1, Zenon DEF ReadEcho
<1>7. CASE ReadNeedAuth
  <2>1. CASE AuthAnswer(saved.auth, "none", FALSE, TRUE, FALSE, Head(buf).n)
    BY <1>s, <1>7, <2>1, AnswerWanted DEF ReadNeedAuth
  <2>2. CASE UNCHANGED <<in, saved>>
    BY <1>1, <1>7, <2>2, Zenon DEF ReadNeedAuth
  <2> QED BY <1>7, <2>1, <2>2, Zenon DEF ReadNeedAuth
<1>8. CASE User
  <2>1. ASSUME NEW i \in 1 .. Len(dialogs), TypePassword(i) \/ Interrupt(i) \/ Cancel(i) \/ CloseX(i)
        PROVE  Wanted'
    <3>1. UNCHANGED savedVars
      BY <2>1, Zenon DEF TypePassword, Interrupt, Cancel, CloseX
    <3> QED BY <1>1, <3>1, Zenon DEF savedVars
  <2>2. CASE ResetDeletes
    BY <1>5, <2>2, Zenon DEF ResetDeletes
  <2>3. ~ResetClears
    BY Zenon DEF ResetClears
  <2> QED BY <1>2, <1>3, <1>4, <1>8, <2>1, <2>2, <2>3, Zenon DEF User
<1>9. CASE GUI
  <2>1. CASE FdRead \/ DialogReturns \/ ReadNeedChallenge \/ ReadNeedKey \/ ReadNeedOther
             \/ ReadFailed \/ ReadState
    <3>1. UNCHANGED savedVars
      BY <2>1, Zenon DEF FdRead, DialogReturns, ReadNeedChallenge, ReadNeedKey, ReadNeedOther,
                         ReadFailed, ReadState
    <3> QED BY <1>1, <3>1, Zenon DEF savedVars
  <2> QED BY <1>6, <1>7, <1>9, <2>1 DEF GUI
<1>10. CASE Daemon
  <2>1. UNCHANGED savedVars
    BY <1>10, Zenon DEF Daemon, Ask, DropAnswer, Accept, Refuse, Restart, Progress, Echo, Exit
  <2> QED BY <1>1, <2>1, Zenon DEF savedVars
<1>11. CASE UNCHANGED vars
  BY <1>1, <1>11, Zenon DEF vars, savedVars
<1> QED BY <1>2, <1>8, <1>9, <1>10, <1>11, Zenon DEF Next, Timer

\* Whoever changes the flags and the registry, a password that is kept is wanted: the
\* dialogs, the echo directives and the answers delete it before they clear its flag.
THEOREM WantedStays == Spec => StaysWanted
<1>1. IInv /\ [Next]_vars => [Wanted /\ ~resetting => Wanted']_vars
  BY WantedStep
<1> QED BY <1>1, InitInv, StepInv, PTL DEF Spec, StaysWanted

-----------------------------------------------------------------------------
(* How lines and dialogs move in a step, said of their elements *)

SameDialogs ==
    /\ Len(dialogs') = Len(dialogs)
    /\ \A i \in 1 .. Len(dialogs) :
         /\ dialogs'[i].rest = dialogs[i].rest /\ dialogs'[i].n = dialogs[i].n
         /\ dialogs'[i].kind = dialogs[i].kind /\ dialogs'[i].chal = dialogs[i].chal
         /\ dialogs'[i].open => dialogs[i].open
         /\ dialogs'[i].timer => dialogs[i].timer

\* The user and the daemon move no line.
Stays == SameDialogs /\ UNCHANGED buf

\* The next line is read.
ReadsOne ==
    /\ SameDialogs /\ UNCHANGED out
    /\ Len(buf) \in Nat \ {0} /\ Len(buf') = Len(buf) - 1
    /\ \A j \in 1 .. Len(buf) - 1 : buf'[j] = buf[j + 1]

\* Its question is shown; the lines behind it wait for the dialog.
Shows ==
    /\ Len(buf) \in Nat \ {0} /\ buf' = <<>> /\ UNCHANGED out
    /\ Len(dialogs') = Len(dialogs) + 1 /\ Len(dialogs) \in Nat
    /\ \A i \in 1 .. Len(dialogs) : dialogs'[i] = dialogs[i]
    /\ dialogs'[Len(dialogs) + 1].n = buf[1].n
    /\ LET rest == dialogs'[Len(dialogs) + 1].rest
       IN  Len(rest) = Len(buf) - 1 /\ \A j \in 1 .. Len(buf) - 1 : rest[j] = buf[j + 1]

\* The innermost dialog is gone, its lines are read next.
Returns ==
    /\ buf = <<>> /\ UNCHANGED out
    /\ Len(dialogs) \in Nat \ {0} /\ Len(dialogs') = Len(dialogs) - 1
    /\ buf' = dialogs[Len(dialogs)].rest
    /\ \A i \in 1 .. Len(dialogs) - 1 : dialogs'[i] = dialogs[i]

\* A buffer is read.
Fetches ==
    /\ buf = <<>> /\ SameDialogs
    /\ Len(buf') \in 1 .. Len(out) /\ Len(out') = Len(out) - Len(buf')
    /\ \A j \in 1 .. Len(buf') : buf'[j] = out[j]
    /\ \A j \in 1 .. Len(out') : out'[j] = out[Len(buf') + j]

\* What is new among the answers answers a dialog or the line that is read.
Answers ==
    /\ Len(in) \in Nat /\ Len(in') \in Nat
    /\ \A j \in 1 .. Len(in) : j <= Len(in') /\ in'[j] = in[j]
    /\ \A j \in Len(in) + 1 .. Len(in') :
         \/ \E i \in 1 .. Len(dialogs) : in'[j].n = dialogs[i].n
         \/ buf # <<>> /\ in'[j].n = buf[1].n

Moves ==
    \/ Stays /\ UNCHANGED out
    \/ ReadsOne \/ Shows \/ Returns

LEMMA SameIsSame == UNCHANGED dialogs => SameDialogs
BY Zenon DEF SameDialogs

LEMMA AnswersSame ==
    ASSUME IInv, UNCHANGED in
    PROVE  Answers
<1>1. Len(in) \in Nat
  BY LenProperties DEF IInv, InOK
<1> QED BY <1>1 DEF Answers

LEMMA AnswersOne ==
    ASSUME IInv, NEW a \in AnswerRec, in' = Append(in, a),
           \/ \E i \in 1 .. Len(dialogs) : a.n = dialogs[i].n
           \/ buf # <<>> /\ a.n = buf[1].n
    PROVE  Answers
<1>1. Len(in) \in Nat /\ Len(in') = Len(in) + 1 /\ in'[Len(in) + 1] = a
      /\ \A j \in 1 .. Len(in) : in'[j] = in[j]
  BY LenProperties, AppendProperties DEF IInv, InOK
<1> QED BY <1>1 DEF Answers

\* One dialog is changed: it is ended, its field or its timer.
LEMMA OneDialog ==
    ASSUME IInv, NEW i \in 1 .. Len(dialogs),
           \/ EndDialog(i)
           \/ dialogs' = [dialogs EXCEPT ![i].open = FALSE, ![i].timer = FALSE]
           \/ dialogs' = [dialogs EXCEPT ![i].timer = FALSE]
           \/ \E p \in Typed : dialogs' = [dialogs EXCEPT ![i].pass = p, ![i].timer = FALSE]
    PROVE  SameDialogs
<1>1. DOMAIN dialogs = 1 .. Len(dialogs) /\ dialogs \in Seq(DialogRec(options.silent))
      /\ Len(dialogs) \in Nat
  BY LenProperties DEF IInv, DialogsOK
<1>2. dialogs[i] \in DialogFields
  BY DialogField DEF IInv
<1>3. PICK e : /\ dialogs' = [dialogs EXCEPT ![i] = e] /\ e.rest = dialogs[i].rest
               /\ e.n = dialogs[i].n /\ e.kind = dialogs[i].kind /\ e.chal = dialogs[i].chal
               /\ e.open => dialogs[i].open
               /\ e.timer => dialogs[i].timer
               /\ DOMAIN dialogs' = DOMAIN dialogs
  <2>1. CASE EndDialog(i)
    <3> DEFINE e == [dialogs[i] EXCEPT !.open = FALSE]
    <3>1. dialogs' = [dialogs EXCEPT ![i] = e]
      BY <2>1 DEF EndDialog
    <3>2. /\ e.rest = dialogs[i].rest /\ e.n = dialogs[i].n /\ e.kind = dialogs[i].kind
          /\ e.chal = dialogs[i].chal /\ e.open = FALSE /\ e.timer = dialogs[i].timer
      BY <1>2, Zenon DEF DialogFields
    <3> HIDE DEF e
    <3> QED BY <3>1, <3>2
  <2>2. ASSUME NEW p \in Typed, dialogs' = [dialogs EXCEPT ![i].pass = p, ![i].timer = FALSE]
        PROVE  \E e : /\ dialogs' = [dialogs EXCEPT ![i] = e] /\ e.rest = dialogs[i].rest
                      /\ e.n = dialogs[i].n /\ e.kind = dialogs[i].kind /\ e.chal = dialogs[i].chal
                      /\ e.open => dialogs[i].open
                      /\ e.timer => dialogs[i].timer
                      /\ DOMAIN dialogs' = DOMAIN dialogs
    <3> DEFINE e == [dialogs[i] EXCEPT !.pass = p, !.timer = FALSE]
    <3>1. dialogs' = [dialogs EXCEPT ![i] = e]
      BY <1>1, <2>2
    <3>2. /\ e.rest = dialogs[i].rest /\ e.n = dialogs[i].n /\ e.kind = dialogs[i].kind
          /\ e.chal = dialogs[i].chal /\ e.open = dialogs[i].open /\ e.timer = FALSE
      BY <1>2, Zenon DEF DialogFields
    <3> HIDE DEF e
    <3> QED BY <3>1, <3>2
  <2>3. CASE dialogs' = [dialogs EXCEPT ![i].open = FALSE, ![i].timer = FALSE]
    <3> DEFINE e == [dialogs[i] EXCEPT !.open = FALSE, !.timer = FALSE]
    <3>1. dialogs' = [dialogs EXCEPT ![i] = e]
      BY <1>1, <2>3
    <3>2. /\ e.rest = dialogs[i].rest /\ e.n = dialogs[i].n /\ e.kind = dialogs[i].kind
          /\ e.chal = dialogs[i].chal /\ e.open = FALSE /\ e.timer = FALSE
      BY <1>2, Zenon DEF DialogFields
    <3> HIDE DEF e
    <3> QED BY <3>1, <3>2
  <2>4. CASE dialogs' = [dialogs EXCEPT ![i].timer = FALSE]
    <3> DEFINE e == [dialogs[i] EXCEPT !.timer = FALSE]
    <3>1. dialogs' = [dialogs EXCEPT ![i] = e]
      BY <2>4
    <3>2. /\ e.rest = dialogs[i].rest /\ e.n = dialogs[i].n /\ e.kind = dialogs[i].kind
          /\ e.chal = dialogs[i].chal /\ e.open = dialogs[i].open /\ e.timer = FALSE
      BY <1>2, Zenon DEF DialogFields
    <3> HIDE DEF e
    <3> QED BY <3>1, <3>2
  <2> QED BY <2>1, <2>2, <2>3, <2>4, Zenon
<1>4. dialogs' \in Seq(DialogRec(options.silent))
  <2>1. options.silent \in BOOLEAN
    BY OptionFacts DEF IInv, UserOK
  <2> DEFINE ds == [dialogs EXCEPT ![i].open = FALSE]
  <2>2. ds \in Seq(DialogRec(options.silent)) /\ i \in 1 .. Len(ds)
        /\ [dialogs EXCEPT ![i].timer = FALSE] \in Seq(DialogRec(options.silent))
    BY <1>1, <2>1, DialogSet
  <2>3. [dialogs EXCEPT ![i].open = FALSE, ![i].timer = FALSE] = [ds EXCEPT ![i].timer = FALSE]
    OBVIOUS
  <2> HIDE DEF ds
  <2>4. [ds EXCEPT ![i].timer = FALSE] \in Seq(DialogRec(options.silent))
    BY <2>1, <2>2, DialogSet
  <2>5. \A p \in Typed : [dialogs EXCEPT ![i].pass = p, ![i].timer = FALSE]
                            \in Seq(DialogRec(options.silent))
    BY <1>1, <2>1, DialogTyped
  <2>6. EndDialog(i) => dialogs' \in Seq(DialogRec(options.silent))
    BY <2>2 DEF EndDialog, ds
  <2> QED BY <2>2, <2>3, <2>4, <2>5, <2>6, Zenon
<1>5. Len(dialogs') = Len(dialogs)
  <2>1. DOMAIN dialogs' = 1 .. Len(dialogs') /\ Len(dialogs') \in Nat
    BY <1>4, LenProperties
  <2>2. 1 .. Len(dialogs') = 1 .. Len(dialogs)
    BY <1>1, <1>3, <2>1, Zenon
  <2>3. \A a, b \in Nat : (\A x : x \in 1 .. a <=> x \in 1 .. b) => a = b
    <3> SUFFICES ASSUME NEW a \in Nat, NEW b \in Nat, \A x : x \in 1 .. a <=> x \in 1 .. b
                 PROVE  a = b
      OBVIOUS
    <3>1. (a \in 1 .. a <=> a \in 1 .. b) /\ (b \in 1 .. a <=> b \in 1 .. b)
      OBVIOUS
    <3> QED BY <3>1, SMT
  <2> QED BY <1>1, <2>1, <2>2, <2>3, Zenon
<1>6. dialogs'[i] = e /\ \A j \in 1 .. Len(dialogs) : j # i => dialogs'[j] = dialogs[j]
  BY <1>1, <1>3
<1> QED BY <1>3, <1>5, <1>6, Zenon DEF SameDialogs

LEMMA EndAllSame ==
    ASSUME IInv, NEW state, EndDialogs(state)
    PROVE  /\ SameDialogs
           /\ \A i \in 1 .. Len(dialogs) :
                IF dialogs[i].kind = "CrText" /\ state = "GET_CONFIG"
                THEN dialogs'[i] = dialogs[i] ELSE ~dialogs'[i].open
<1> DEFINE next(i) == IF dialogs[i].kind = "CrText" /\ state = "GET_CONFIG"
                      THEN dialogs[i] ELSE [dialogs[i] EXCEPT !.open = FALSE]
<1>1. \A i \in 1 .. Len(dialogs) :
        /\ next(i).rest = dialogs[i].rest /\ next(i).n = dialogs[i].n
        /\ next(i).kind = dialogs[i].kind /\ next(i).chal = dialogs[i].chal
        /\ next(i).open => dialogs[i].open
        /\ next(i).timer = dialogs[i].timer
        /\ IF dialogs[i].kind = "CrText" /\ state = "GET_CONFIG"
           THEN next(i) = dialogs[i] ELSE ~next(i).open
  <2> SUFFICES ASSUME NEW i \in 1 .. Len(dialogs)
               PROVE /\ next(i).rest = dialogs[i].rest /\ next(i).n = dialogs[i].n
                     /\ next(i).kind = dialogs[i].kind /\ next(i).chal = dialogs[i].chal
                     /\ next(i).open => dialogs[i].open
                     /\ next(i).timer = dialogs[i].timer
                     /\ IF dialogs[i].kind = "CrText" /\ state = "GET_CONFIG"
                        THEN next(i) = dialogs[i] ELSE ~next(i).open
    OBVIOUS
  <2>1. dialogs[i] \in DialogFields
    BY DialogField DEF IInv
  <2> DEFINE e == [dialogs[i] EXCEPT !.open = FALSE]
  <2>2. /\ e.rest = dialogs[i].rest /\ e.n = dialogs[i].n /\ e.kind = dialogs[i].kind
        /\ e.chal = dialogs[i].chal /\ e.open = FALSE /\ e.timer = dialogs[i].timer
    BY <2>1, Zenon DEF DialogFields
  <2>3. next(i) = IF dialogs[i].kind = "CrText" /\ state = "GET_CONFIG" THEN dialogs[i] ELSE e
    BY Zenon
  <2> HIDE DEF e, next
  <2> QED BY <2>2, <2>3
<1>2. Len(dialogs) \in Nat
  BY LenProperties DEF IInv, DialogsOK
<1>3. dialogs' = [i \in 1 .. Len(dialogs) |-> next(i)]
  BY SMT DEF EndDialogs, EndAll
<1> HIDE DEF next
<1>4. Len(dialogs') = Len(dialogs)
  BY <1>2, <1>3
<1>5. \A i \in 1 .. Len(dialogs) : dialogs'[i] = next(i)
  BY <1>3
<1> QED BY <1>1, <1>4, <1>5, Zenon DEF SameDialogs

LEMMA ReadHead ==
    ASSUME IInv, NEW name, Reads(name)
    PROVE  /\ buf # <<>> /\ buf \in Seq(LineRec) /\ Head(buf) = buf[1] /\ buf[1] \in LineRec
           /\ Len(buf) \in Nat \ {0} /\ buf[1].name = name
           /\ Tail(buf) \in Seq(LineRec) /\ Len(Tail(buf)) = Len(buf) - 1
           /\ \A j \in 1 .. Len(buf) - 1 : Tail(buf)[j] = buf[j + 1]
<1>1. buf # <<>> /\ buf \in Seq(LineRec) /\ Head(buf).name = name
  BY DEF Reads, IInv, ReadOK
<1>2. Len(buf) \in Nat \ {0} /\ Head(buf) = buf[1]
  BY <1>1, EmptySeq
<1>3. buf[1] \in LineRec
  BY <1>2, <1>1, ElementOfSeq, SMT
<1> QED BY <1>1, <1>2, <1>3, HeadTailProperties

LEMMA NextReads ==
    ASSUME IInv, NEW name, Reads(name), buf' = Tail(buf), UNCHANGED out, SameDialogs
    PROVE  ReadsOne
BY ReadHead DEF ReadsOne

LEMMA OpenShows ==
    ASSUME IInv, NEW name, Reads(name), UNCHANGED <<out, options>>,
           NEW kind \in Kinds \cup {"CRV1"}, NEW pass \in Typed, NEW timer \in BOOLEAN,
           NEW chal \in Challenges, kind = "CRV1" <=> chal # NoChallenge,
           timer => kind = "Auth" /\ ~options.silent,
           Open(kind, pass, timer, chal)
    PROVE  /\ Shows
           /\ dialogs'[Len(dialogs) + 1].kind = kind /\ dialogs'[Len(dialogs) + 1].chal = chal
           /\ dialogs'[Len(dialogs) + 1].timer = timer /\ dialogs'[Len(dialogs) + 1].open = TRUE
<1> DEFINE d == [kind |-> kind, open |-> TRUE, pass |-> pass, timer |-> timer,
                 second |-> Head(buf).second, chal |-> chal, n |-> Head(buf).n, rest |-> Tail(buf)]
<1>1. d \in DialogRec(options.silent)
  BY ReadLine, SMT DEF DialogRec, DialogFields, IInv
<1>2. dialogs' = Append(dialogs, d) /\ buf' = <<>>
  BY DEF Open
<1>3. d.n = Head(buf).n /\ d.rest = Tail(buf) /\ d.kind = kind /\ d.chal = chal /\ d.timer = timer
      /\ d.open = TRUE
  OBVIOUS
<1> HIDE DEF d
<1>4. /\ Len(dialogs') = Len(dialogs) + 1 /\ dialogs'[Len(dialogs) + 1] = d
      /\ \A i \in 1 .. Len(dialogs) : dialogs'[i] = dialogs[i]
  BY <1>1, <1>2, AppendProperties DEF IInv, DialogsOK
<1>5. Len(dialogs) \in Nat
  BY LenProperties DEF IInv, DialogsOK
<1> QED BY <1>2, <1>3, <1>4, <1>5, ReadHead, ZenonT(40) DEF Shows

LEMMA ReturnReturns ==
    ASSUME IInv, DialogReturns
    PROVE  Returns /\ Last = dialogs[Len(dialogs)] /\ UNCHANGED in
<1>1. dialogs # <<>> /\ dialogs \in Seq(DialogRec(options.silent)) /\ Len(dialogs) \in Nat \ {0}
  BY EmptySeq DEF DialogReturns, IInv, DialogsOK
<1>2. dialogs' = SubSeq(dialogs, 1, Len(dialogs) - 1)
  BY DEF DialogReturns
<1>3. \A j \in 1 .. Len(dialogs) - 1 : dialogs[j] \in DialogRec(options.silent)
  BY <1>1, ElementOfSeq, SMT
<1>4. Len(dialogs') = Len(dialogs) - 1 /\ \A j \in 1 .. Len(dialogs) - 1 : dialogs'[j] = dialogs[j]
  <2> DEFINE n == Len(dialogs) - 1
  <2>1. n \in Nat /\ n \in Int
    BY <1>1
  <2>2. \A j \in 1 .. n : dialogs[j] \in DialogRec(options.silent)
    BY <1>3
  <2>3. dialogs' = SubSeq(dialogs, 1, n)
    BY <1>2
  <2> HIDE DEF n
  <2>4. Len(dialogs') = n /\ \A j \in 1 .. n : dialogs'[j] = dialogs[j]
    BY <2>1, <2>2, <2>3, SubSeqProperties
  <2> QED BY <2>4 DEF n
<1>5. buf = <<>> /\ buf' = Last.rest /\ UNCHANGED <<in, out>>
  BY Zenon DEF DialogReturns, daemonVars
<1> QED BY <1>1, <1>4, <1>5 DEF Returns, Last

LEMMA FdReadFetches ==
    ASSUME IInv, FdRead
    PROVE  Fetches /\ UNCHANGED <<in, dynCr, need, asked, due>>
<1>1. PICK n \in 1 .. Len(out) : buf' = SubSeq(out, 1, n) /\ out' = SubSeq(out, n + 1, Len(out))
  BY Zenon DEF FdRead
<1>2. out \in Seq(LineRec) /\ Len(out) \in Nat /\ n \in Int
  BY LenProperties, SMT DEF IInv, DaemonOK
<1>3. Len(buf') = n /\ \A j \in 1 .. n : buf'[j] = out[j]
  <2>1. \A j \in 1 .. n : out[j] \in LineRec
    BY <1>2, ElementOfSeq, SMT
  <2> QED BY <1>1, <1>2, <2>1, SubSeqProperties, SMT
<1>4. Len(out') = Len(out) - n /\ \A j \in 1 .. Len(out) - n : out'[j] = out[n + j]
  <2>1. n + 1 \in Int /\ Len(out) \in Int /\ \A j \in n + 1 .. Len(out) : out[j] \in LineRec
    BY <1>2, ElementOfSeq, SMT
  <2> QED BY <1>1, <1>2, <2>1, SubSeqProperties, SMT
<1>5. buf = <<>> /\ SameDialogs /\ UNCHANGED <<in, dynCr, need, asked, due>>
  <2>1. buf = <<>> /\ UNCHANGED <<dialogs, in, dynCr, need, asked, due>>
    BY Zenon DEF FdRead, Pumping
  <2> QED BY <2>1, SameIsSame
<1> QED BY <1>3, <1>4, <1>5 DEF Fetches

\* What the user, and the timer that stands for the user, do.
\* A dialog answers the question it asks.
LEMMA AnswersOf ==
    ASSUME IInv, NEW i \in 1 .. Len(dialogs), OkAuth(i) \/ OkOther(i) \/ TimerFires(i)
    PROVE  \E a \in AnswerRec :
             /\ in' = Append(in, a) /\ a.n = dialogs[i].n
             /\ a.kind = IF dialogs[i].kind = "CRV1" THEN "Auth" ELSE dialogs[i].kind
<1> DEFINE kind == IF dialogs[i].kind = "CRV1" THEN "Auth" ELSE dialogs[i].kind
<1>1. CASE OkAuth(i) \/ TimerFires(i)
  <2>1. PICK resp \in BOOLEAN, auto \in BOOLEAN, late \in BOOLEAN :
          AuthAnswer(dialogs[i].pass, dialogs[i].second, resp, auto, late, dialogs[i].n)
    <3>1. dialogs[i].open \in BOOLEAN
      BY DialogField DEF IInv
    <3>2. CASE OkAuth(i)
      BY <3>2, Zenon DEF OkAuth
    <3>3. CASE TimerFires(i)
      <4>1. (~dialogs[i].open) \in BOOLEAN
        BY Zenon
      <4> QED BY <3>3, <4>1, Zenon DEF TimerFires
    <3> QED BY <1>1, <3>2, <3>3
  <2> DEFINE sent == IF dialogs[i].second = "concat" /\ resp /\ dialogs[i].pass # "none"
                     THEN "otp" ELSE dialogs[i].pass
             a == Answer("Auth", sent, resp /\ dialogs[i].second = "scrv1",
                         NoChallenge, auto, late, dialogs[i].n)
  <2>2. sent \in Pass
    BY DialogField DEF IInv, Typed, Pass
  <2>3. in' = Append(in, a)
    BY <2>1 DEF AuthAnswer
  <2>4. (resp /\ dialogs[i].second = "scrv1") \in BOOLEAN
    BY Zenon
  <2>5. "Auth" \in Kinds /\ dialogs[i].n \in Nat
    BY DialogField DEF IInv, Kinds
  <2>6. kind = "Auth"
    <3>1. OkAuth(i) => dialogs[i].kind = "Auth"
      BY Zenon DEF OkAuth
    <3>2. TimerFires(i) => dialogs[i].timer
      BY Zenon DEF TimerFires
    <3>3. dialogs[i].timer => dialogs[i].kind = "Auth"
      BY DialogField DEF IInv, DialogRec
    <3> QED BY <1>1, <3>1, <3>2, <3>3
  <2> HIDE DEF sent, kind
  <2>7. a \in AnswerRec
    BY <2>2, <2>4, <2>5, ChallengeFacts, AnswerType
  <2>8. a.n = dialogs[i].n /\ a.kind = "Auth"
    BY DEF Answer
  <2> HIDE DEF a
  <2> QED BY <2>3, <2>6, <2>7, <2>8 DEF kind
<1>2. CASE OkOther(i)
  <2> DEFINE a == Answer(kind, "bare", FALSE, dialogs[i].chal, FALSE, FALSE, dialogs[i].n)
  <2>1. kind \in Kinds /\ "bare" \in Pass /\ dialogs[i].chal \in Challenges /\ dialogs[i].n \in Nat
    BY DialogField DEF IInv, Kinds, Pass
  <2>2. in' = Append(in, a)
    BY <1>2 DEF OkOther
  <2> HIDE DEF kind
  <2>3. a \in AnswerRec
    BY <2>1, AnswerType
  <2>4. a.n = dialogs[i].n /\ a.kind = kind
    BY DEF Answer
  <2> HIDE DEF a
  <2> QED BY <2>2, <2>3, <2>4, Zenon DEF kind
<1> QED BY <1>1, <1>2

LEMMA UserMoves ==
    ASSUME IInv, User \/ Timer
    PROVE  Stays /\ Answers /\ UNCHANGED <<out, dynCr, need, asked, due, failVars>>
<1>1. ASSUME NEW i \in 1 .. Len(dialogs),
             OkAuth(i) \/ OkOther(i) \/ TypePassword(i) \/ Interrupt(i) \/ ToggleSave(i)
             \/ Cancel(i) \/ CloseX(i) \/ TimerFires(i)
      PROVE  Stays /\ Answers /\ UNCHANGED <<out, dynCr, need, asked, due, failVars>>
  <2>1. UNCHANGED <<buf, out, dynCr, need, asked, due, failVars>>
    BY <1>1, Zenon DEF OkAuth, OkOther, TypePassword, Interrupt, ToggleSave, Cancel, CloseX, TimerFires,
                       daemonVars
  <2>2. SameDialogs
    <3>1. \/ EndDialog(i)
          \/ dialogs' = [dialogs EXCEPT ![i].open = FALSE, ![i].timer = FALSE]
          \/ dialogs' = [dialogs EXCEPT ![i].timer = FALSE]
          \/ \E p \in Typed : dialogs' = [dialogs EXCEPT ![i].pass = p, ![i].timer = FALSE]
          \/ UNCHANGED dialogs
      BY <1>1, Zenon DEF OkAuth, OkOther, TypePassword, Interrupt, ToggleSave, Cancel, CloseX, TimerFires,
                         Typed
    <3> QED BY <3>1, OneDialog, SameIsSame, Zenon
  <2>3. Answers
    <3>1. CASE OkAuth(i) \/ OkOther(i) \/ TimerFires(i)
      <4>1. PICK a \in AnswerRec : in' = Append(in, a) /\ a.n = dialogs[i].n
        BY <3>1, AnswersOf, Zenon
      <4> QED BY <4>1, AnswersOne, Zenon
    <3>2. CASE UNCHANGED in
      BY <3>2, AnswersSame
    <3> QED BY <1>1, <3>1, <3>2, Zenon DEF TypePassword, Interrupt, ToggleSave, Cancel, CloseX
  <2> QED BY <2>1, <2>2, <2>3, Zenon DEF Stays
<1>2. CASE ResetDeletes \/ ResetClears
  <2>1. UNCHANGED <<buf, out, dynCr, need, asked, due, failVars, dialogs, in>>
    BY <1>2, Zenon DEF ResetDeletes, ResetClears, daemonVars
  <2> QED BY <2>1, SameIsSame, AnswersSame, Zenon DEF Stays
<1> QED BY <1>1, <1>2, Zenon DEF User, Timer

LEMMA AnswerOne ==
    ASSUME IInv, NEW name, Reads(name), NEW kind \in Kinds, NEW pass \in Pass, NEW resp \in BOOLEAN,
           NEW auto \in BOOLEAN, NEW late \in BOOLEAN,
           in' = Append(in, Answer(kind, pass, resp, NoChallenge, auto, late, Head(buf).n))
    PROVE  /\ Answers
           /\ Len(in) \in Nat /\ Len(in') = Len(in) + 1
           /\ in'[Len(in) + 1].n = buf[1].n /\ in'[Len(in) + 1].kind = kind
<1> DEFINE a == Answer(kind, pass, resp, NoChallenge, auto, late, Head(buf).n)
<1>1. a.n = Head(buf).n /\ a.kind = kind
  BY DEF Answer
<1>2. a \in AnswerRec
  BY ReadLine, ChallengeFacts, AnswerType DEF IInv
<1>3. buf # <<>> /\ a.n = buf[1].n
  BY <1>1, ReadHead
<1> HIDE DEF a
<1>4. in' = Append(in, a)
  BY DEF a
<1>5. Len(in) \in Nat /\ Len(in') = Len(in) + 1 /\ in'[Len(in) + 1] = a
  BY <1>2, <1>4, LenProperties, AppendProperties DEF IInv, InOK
<1> QED BY <1>1, <1>2, <1>3, <1>4, <1>5, AnswersOne

\* A question is read: it is shown, or answered by the GUI, or its challenge cannot be
\* parsed.
LEMMA NeedMoves ==
    ASSUME IInv, ReadNeedChallenge \/ ReadNeedAuth \/ ReadNeedKey \/ ReadNeedOther
    PROVE  /\ Reads("need") /\ Answers /\ UNCHANGED <<out, need, asked, due, failVars>>
           /\ \/ /\ Shows /\ UNCHANGED <<in, dynCr>>
                 /\ LET d == dialogs'[Len(dialogs) + 1]
                    IN  /\ d.open
                        /\ d.timer => buf[1].what = "Auth" /\ failedAuth = 0
                        /\ IF buf[1].what = "Auth" /\ dynCr # NoChallenge
                           THEN /\ d.kind = "CRV1" /\ d.chal = dynCr /\ dynCr # BadChallenge
                                /\ buf[1].n <= dynCr => "dropped" \in excused'
                           ELSE d.kind = buf[1].what /\ d.chal = NoChallenge
              \/ /\ ReadsOne /\ UNCHANGED dynCr /\ (buf[1].what = "Auth" => dynCr = NoChallenge)
                 /\ Len(in) \in Nat /\ Len(in') = Len(in) + 1
                 /\ in'[Len(in) + 1].n = buf[1].n /\ in'[Len(in) + 1].kind = buf[1].what
                 /\ (buf[1].what = "Auth" /\ failedAuth = 0) \/ (buf[1].what = "Key" /\ failedPsw = 0)
              \/ /\ ReadsOne /\ UNCHANGED in /\ buf[1].what = "Auth"
                 /\ dynCr' = NoChallenge /\ "closed" \in excused'
<1> DEFINE Goal == \/ /\ Shows /\ UNCHANGED <<in, dynCr>>
                      /\ LET d == dialogs'[Len(dialogs) + 1]
                         IN  /\ d.open
                             /\ d.timer => buf[1].what = "Auth" /\ failedAuth = 0
                             /\ IF buf[1].what = "Auth" /\ dynCr # NoChallenge
                                THEN /\ d.kind = "CRV1" /\ d.chal = dynCr /\ dynCr # BadChallenge
                                     /\ buf[1].n <= dynCr => "dropped" \in excused'
                                ELSE d.kind = buf[1].what /\ d.chal = NoChallenge
                   \/ /\ ReadsOne /\ UNCHANGED dynCr /\ (buf[1].what = "Auth" => dynCr = NoChallenge)
                      /\ Len(in) \in Nat /\ Len(in') = Len(in) + 1
                      /\ in'[Len(in) + 1].n = buf[1].n /\ in'[Len(in) + 1].kind = buf[1].what
                      /\ (buf[1].what = "Auth" /\ failedAuth = 0) \/ (buf[1].what = "Key" /\ failedPsw = 0)
                   \/ /\ ReadsOne /\ UNCHANGED in /\ buf[1].what = "Auth"
                      /\ dynCr' = NoChallenge /\ "closed" \in excused'
<1>1. Reads("need") /\ UNCHANGED <<out, need, asked, due, failVars, options>>
  BY Zenon DEF ReadNeedChallenge, ReadNeedAuth, ReadNeedKey, ReadNeedOther, daemonVars, userVars
<1>2. Head(buf) = buf[1] /\ dynCr \in Challenges
  BY <1>1, ReadHead DEF IInv, ReadOK
<1>3. Next1 => ReadsOne
  BY <1>1, NextReads, SameIsSame DEF Next1
<1>k. "Auth" \in Kinds /\ "Key" \in Kinds /\ "none" \in Typed /\ "bare" \in Pass /\ NoChallenge \in Challenges
  BY ChallengeFacts DEF Kinds, Typed, Pass
<1>4. CASE ReadNeedChallenge
  <2>1. buf[1].what = "Auth" /\ dynCr # NoChallenge /\ UNCHANGED in
    BY <1>2, <1>4, Zenon DEF ReadNeedChallenge
  <2>2. Answers
    BY <2>1, AnswersSame
  <2>3. CASE dynCr = BadChallenge
    <3>1. Next1 /\ dynCr' = NoChallenge /\ excused' = excused \cup {"closed"}
      BY <1>4, <2>3, Zenon DEF ReadNeedChallenge
    <3>2. "closed" \in excused'
      BY <3>1
    <3> QED BY <1>1, <1>3, <2>1, <2>2, <3>1, <3>2, Zenon
  <2>4. CASE dynCr # BadChallenge
    <3>1. Open("CRV1", "none", FALSE, dynCr) /\ UNCHANGED dynCr
      BY <1>4, <2>4, Zenon DEF ReadNeedChallenge
    <3>2. excused' = excused \cup (IF Head(buf).n <= dynCr THEN {"dropped"} ELSE {})
      BY <1>4, <2>4, Zenon DEF ReadNeedChallenge
    <3>3. buf[1].n <= dynCr => "dropped" \in excused'
      BY <1>2, <3>2
    <3>4. "CRV1" \in Kinds \cup {"CRV1"}
      OBVIOUS
    <3>5. /\ Shows /\ dialogs'[Len(dialogs) + 1].kind = "CRV1" /\ dialogs'[Len(dialogs) + 1].chal = dynCr
          /\ ~dialogs'[Len(dialogs) + 1].timer /\ dialogs'[Len(dialogs) + 1].open
      BY <1>1, <1>2, <1>k, <2>1, <3>1, <3>4, OpenShows
    <3>6. Goal
      BY <2>1, <2>4, <3>1, <3>3, <3>5, Zenon
    <3> HIDE DEF Goal
    <3>7. Reads("need") /\ Answers /\ (UNCHANGED <<out, need, asked, due, failVars>>) /\ Goal
      BY <1>1, <2>2, <3>6, Zenon
    <3> QED BY <3>7, Zenon DEF Goal
  <2> QED BY <2>3, <2>4
<1>5. CASE ReadNeedAuth
  <2>1. buf[1].what = "Auth" /\ dynCr = NoChallenge /\ UNCHANGED dynCr
    BY <1>2, <1>5, Zenon DEF ReadNeedAuth
  <2> DEFINE auto == CanAuto(Head(buf).second)
  <2>2. auto => failedAuth = 0
    BY DEF CanAuto
  <2>3. saved.auth \in Typed
    BY SMT DEF IInv, SavedOK, SavedRec
  <2>4. CASE auto /\ options.silent
    <3>1. Next1 /\ AuthAnswer(saved.auth, "none", FALSE, TRUE, FALSE, Head(buf).n)
      BY <1>5, <2>4, Zenon DEF ReadNeedAuth
    <3>2. in' = Append(in, Answer("Auth", saved.auth, FALSE, NoChallenge, TRUE, FALSE, Head(buf).n))
      BY <3>1 DEF AuthAnswer
    <3>3. saved.auth \in Pass
      BY <2>3 DEF Typed, Pass
    <3>4. /\ Answers /\ Len(in) \in Nat /\ Len(in') = Len(in) + 1
          /\ in'[Len(in) + 1].n = buf[1].n /\ in'[Len(in) + 1].kind = "Auth"
      BY <1>1, <1>k, <3>2, <3>3, AnswerOne
    <3> QED BY <1>1, <1>3, <2>1, <2>2, <2>4, <3>1, <3>4, Zenon
  <2>5. CASE ~(auto /\ options.silent)
    <3>1. Open("Auth", saved.auth, auto, NoChallenge) /\ UNCHANGED <<in, saved>>
      BY <1>5, <2>5, Zenon DEF ReadNeedAuth
    <3>2. auto \in BOOLEAN /\ (auto => ~options.silent)
      BY <2>5 DEF CanAuto
    <3> HIDE DEF auto
    <3>3. "Auth" \in Kinds \cup {"CRV1"}
      BY <1>k
    <3>4. /\ Shows /\ dialogs'[Len(dialogs) + 1].kind = "Auth"
          /\ dialogs'[Len(dialogs) + 1].chal = NoChallenge /\ dialogs'[Len(dialogs) + 1].open = TRUE
          /\ dialogs'[Len(dialogs) + 1].timer = auto
      BY <1>1, <1>k, <2>3, <3>1, <3>2, <3>3, OpenShows
    <3>5. Answers
      BY <3>1, AnswersSame
    <3> QED BY <1>1, <2>1, <2>2, <3>1, <3>4, <3>5, Zenon
  <2> QED BY <2>4, <2>5
<1>6. CASE ReadNeedKey
  <2>1. buf[1].what = "Key" /\ UNCHANGED dynCr
    BY <1>2, <1>6, Zenon DEF ReadNeedKey
  <2>2. CASE saved.key /\ failedPsw = 0
    <3>1. Next1 /\ in' = Append(in, Answer("Key", "bare", FALSE, NoChallenge, TRUE, FALSE, Head(buf).n))
      BY <1>6, <2>2, Zenon DEF ReadNeedKey
    <3>2. /\ Answers /\ Len(in) \in Nat /\ Len(in') = Len(in) + 1
          /\ in'[Len(in) + 1].n = buf[1].n /\ in'[Len(in) + 1].kind = "Key"
      BY <1>1, <1>k, <3>1, AnswerOne
    <3>3. "Key" # "Auth"
      OBVIOUS
    <3> QED BY <1>1, <1>3, <2>1, <2>2, <3>1, <3>2, <3>3, Zenon
  <2>3. CASE ~(saved.key /\ failedPsw = 0)
    <3>1. Open("Key", "none", FALSE, NoChallenge) /\ UNCHANGED in
      BY <1>6, <2>3, Zenon DEF ReadNeedKey
    <3>2. "Key" \in Kinds \cup {"CRV1"}
      BY <1>k
    <3>4. /\ Shows /\ dialogs'[Len(dialogs) + 1].kind = "Key"
          /\ dialogs'[Len(dialogs) + 1].chal = NoChallenge /\ dialogs'[Len(dialogs) + 1].open
          /\ ~dialogs'[Len(dialogs) + 1].timer
      BY <1>1, <1>k, <3>1, <3>2, OpenShows
    <3>5. Answers
      BY <3>1, AnswersSame
    <3>6. "Key" # "Auth"
      OBVIOUS
    <3> QED BY <1>1, <2>1, <3>1, <3>4, <3>5, <3>6, Zenon
  <2> QED BY <2>2, <2>3
<1>7. CASE ReadNeedOther
  <2>1. buf[1].what \in {"Token", "Proxy", "CrText"} /\ UNCHANGED <<in, dynCr>>
    BY <1>2, <1>7, Zenon DEF ReadNeedOther
  <2>2. Open(buf[1].what, "none", FALSE, NoChallenge)
    BY <1>2, <1>7, Zenon DEF ReadNeedOther
  <2>3. buf[1].what \in Kinds \cup {"CRV1"} /\ buf[1].what # "CRV1" /\ buf[1].what # "Auth"
    BY <2>1 DEF Kinds
  <2>4. /\ Shows /\ dialogs'[Len(dialogs) + 1].kind = buf[1].what
        /\ dialogs'[Len(dialogs) + 1].chal = NoChallenge /\ dialogs'[Len(dialogs) + 1].open
        /\ ~dialogs'[Len(dialogs) + 1].timer
    BY <1>1, <1>k, <2>2, <2>3, OpenShows
  <2>5. Answers
    BY <2>1, AnswersSame
  <2> QED BY <1>1, <2>1, <2>3, <2>4, <2>5, Zenon
<1> QED BY <1>4, <1>5, <1>6, <1>7, Zenon

\* Any other line is read.
LEMMA NewsMoves ==
    ASSUME IInv, ReadFailed \/ ReadState \/ ReadEcho
    PROVE  /\ ReadsOne /\ UNCHANGED <<out, in, need, asked, due>>
           /\ buf[1].name # "need" /\ buf[1] \in LineRec
           /\ IF buf[1].name = "failed" THEN dynCr' = buf[1].chal ELSE UNCHANGED dynCr
           /\ IF buf[1].name = "state"
              THEN \A i \in 1 .. Len(dialogs) :
                     IF dialogs[i].kind = "CrText" /\ buf[1].what = "GET_CONFIG"
                     THEN dialogs'[i] = dialogs[i] ELSE ~dialogs'[i].open
              ELSE UNCHANGED <<dialogs, failVars>>
<1>1. UNCHANGED <<out, in, need, asked, due>>
  BY Zenon DEF ReadFailed, ReadState, ReadEcho, daemonVars
<1>2. CASE ReadFailed
  <2>1. Reads("failed") /\ Next1 /\ dynCr' = Head(buf).chal /\ UNCHANGED failVars
    BY <1>2, Zenon DEF ReadFailed
  <2>2. buf[1].name = "failed" /\ Head(buf) = buf[1] /\ buf[1] \in LineRec
    BY <2>1, ReadHead
  <2>3. ReadsOne /\ UNCHANGED dialogs
    BY <1>1, <2>1, NextReads, SameIsSame DEF Next1
  <2> QED BY <1>1, <2>1, <2>2, <2>3
<1>3. CASE ReadState
  <2>1. Reads("state") /\ buf' = Tail(buf) /\ EndDialogs(Head(buf).what) /\ UNCHANGED dynCr
    BY <1>3, Zenon DEF ReadState
  <2>2. buf[1].name = "state" /\ Head(buf) = buf[1] /\ buf[1] \in LineRec
    BY <2>1, ReadHead
  <2>3. ReadsOne
    BY <1>1, <2>1, NextReads, EndAllSame
  <2>4. \A i \in 1 .. Len(dialogs) :
          IF dialogs[i].kind = "CrText" /\ buf[1].what = "GET_CONFIG"
          THEN dialogs'[i] = dialogs[i] ELSE ~dialogs'[i].open
    BY <2>1, <2>2, EndAllSame, Zenon
  <2> QED BY <1>1, <2>1, <2>2, <2>3, <2>4
<1>4. CASE ReadEcho
  <2>1. Reads("echo") /\ Next1 /\ UNCHANGED <<dynCr, failVars>>
    BY <1>4, Zenon DEF ReadEcho
  <2>2. buf[1].name = "echo" /\ Head(buf) = buf[1] /\ buf[1] \in LineRec
    BY <2>1, ReadHead
  <2>3. ReadsOne /\ UNCHANGED dialogs
    BY <1>1, <2>1, NextReads, SameIsSame DEF Next1
  <2> QED BY <1>1, <2>1, <2>2, <2>3
<1> QED BY <1>2, <1>3, <1>4

\* Lines are appended to those under way.
Adds(k) ==
    /\ Len(out) \in Nat /\ Len(out') = Len(out) + k
    /\ \A j \in 1 .. Len(out) : out'[j] = out[j]

Takes ==
    /\ Len(in) \in Nat \ {0} /\ Len(in') = Len(in) - 1
    /\ \A j \in 1 .. Len(in) - 1 : in'[j] = in[j + 1]

DaemonStays == Stays /\ UNCHANGED <<dialogs, dynCr, failVars>>

LEMMA LineFields ==
    ASSUME NEW name, NEW what, NEW chal
    PROVE  /\ Line(name, what, chal).name = name /\ Line(name, what, chal).what = what
           /\ Line(name, what, chal).chal = chal /\ Line(name, what, chal).n = 0
           /\ \A s, m :
                LET q == [Line(name, what, chal) EXCEPT !.second = s, !.n = m]
                IN  q.name = name /\ q.what = what /\ q.chal = chal /\ q.n = m
<1> DEFINE l == Line(name, what, chal)
<1>1. l = [name |-> name, what |-> what, second |-> "none", chal |-> chal, n |-> 0]
  BY Zenon DEF Line
<1> HIDE DEF l
<1>2. l.name = name /\ l.what = what /\ l.chal = chal /\ l.n = 0
  BY <1>1
<1>3. DOMAIN l = {"name", "what", "second", "chal", "n"}
  BY <1>1
<1> SUFFICES ASSUME NEW s, NEW m
             PROVE  LET q == [l EXCEPT !.second = s, !.n = m]
                    IN  q.name = name /\ q.what = what /\ q.chal = chal /\ q.n = m
  BY <1>2, Zenon DEF l
<1> QED BY <1>2, <1>3, Zenon

LEMMA EmitOne ==
    ASSUME IInv, NEW l \in LineRec, Emit(<<l>>)
    PROVE  Adds(1) /\ out'[Len(out) + 1] = l
<1>1. out \in Seq(LineRec) /\ <<l>> \in Seq(LineRec) /\ Len(<<l>>) = 1 /\ <<l>>[1] = l
  BY LinesType DEF IInv, DaemonOK
<1>2. Len(out) \in Nat
  BY <1>1, LenProperties
<1>3. out' = out \o <<l>>
  BY DEF Emit
<1>4. /\ Len(out') = Len(out) + 1
      /\ \A i \in 1 .. Len(out) + 1 : out'[i] = IF i <= Len(out) THEN out[i] ELSE <<l>>[i - Len(out)]
  BY <1>1, <1>3, ConcatProperties
<1> QED BY <1>1, <1>2, <1>4 DEF Adds

LEMMA EmitTwo ==
    ASSUME IInv, NEW l \in LineRec, NEW m \in LineRec, Emit(<<l, m>>)
    PROVE  Adds(2) /\ out'[Len(out) + 1] = l /\ out'[Len(out) + 2] = m
<1> DEFINE s == <<l, m>>
<1>1. out \in Seq(LineRec) /\ s \in Seq(LineRec) /\ Len(s) = 2 /\ s[1] = l /\ s[2] = m
  BY LinesType DEF IInv, DaemonOK
<1>2. Len(out) \in Nat
  BY <1>1, LenProperties
<1>3. out' = out \o s
  BY DEF Emit
<1> HIDE DEF s
<1>4. /\ Len(out') = Len(out) + 2
      /\ \A i \in 1 .. Len(out) + 2 : out'[i] = IF i <= Len(out) THEN out[i] ELSE s[i - Len(out)]
  <2>1. /\ Len(out \o s) = Len(out) + Len(s)
        /\ \A i \in 1 .. Len(out) + Len(s) :
              (out \o s)[i] = IF i <= Len(out) THEN out[i] ELSE s[i - Len(out)]
    BY <1>1, ConcatProperties, Zenon
  <2> QED BY <1>1, <1>3, <2>1
<1> QED BY <1>1, <1>2, <1>4 DEF Adds

LEMMA TakenTakes ==
    ASSUME IInv, Taken
    PROVE  Takes /\ Head(in) = in[1] /\ in[1] \in AnswerRec
<1>1. in # <<>> /\ in \in Seq(AnswerRec) /\ in' = Tail(in)
  BY DEF Taken, IInv, InOK
<1>2. Len(in) \in Nat \ {0} /\ Head(in) = in[1] /\ Head(in) \in AnswerRec
  BY <1>1, EmptySeq, HeadTailProperties
<1> QED BY <1>1, <1>2, HeadTailProperties DEF Takes

LEMMA AskMoves ==
    ASSUME IInv, NEW kind \in Asks, Ask(kind)
    PROVE  /\ DaemonStays /\ UNCHANGED <<in, excused>>
           /\ Adds(1) /\ need = NoNeed /\ asked' = asked + 1 /\ kind \in Kinds
           /\ need'.kind = kind
           /\ need'.chal = (IF kind = "Auth" THEN due ELSE NoChallenge)
           /\ due' = IF kind = "Auth" THEN NoChallenge ELSE due
           /\ LET l == out'[Len(out) + 1]
              IN  l.name = "need" /\ l.what = kind /\ l.n = asked + 1 /\ l.chal = NoChallenge
<1>1. (UNCHANGED <<in, excused, buf, dialogs, dynCr, failVars>>) /\ need = NoNeed /\ asked' = asked + 1
  BY Zenon DEF Ask
<1>2. kind \in Kinds
  BY AuthAssumption
<1>3. PICK second \in SecondFactors :
        Emit(<<[Line("need", kind, NoChallenge) EXCEPT !.second = second, !.n = asked + 1]>>)
  BY AuthAssumption, Zenon DEF Ask, SecondFactors
<1> DEFINE l == [Line("need", kind, NoChallenge) EXCEPT !.second = second, !.n = asked + 1]
<1>4. l \in LineRec
  <2>1. asked + 1 \in Nat /\ "need" \in {"need", "failed", "state", "echo"}
        /\ kind \in Kinds \cup States \cup {"forget", "save"}
    BY <1>2, SMT DEF IInv, DaemonOK
  <2> QED BY <2>1, ChallengeFacts, LineType, Zenon
<1>5. l.name = "need" /\ l.what = kind /\ l.n = asked + 1 /\ l.chal = NoChallenge
  BY LineFields
<1> HIDE DEF l
<1>6. Adds(1) /\ out'[Len(out) + 1] = l
  BY <1>3, <1>4, EmitOne DEF l
<1>7. need' = [kind |-> kind, chal |-> IF kind = "Auth" THEN due ELSE NoChallenge]
      /\ due' = IF kind = "Auth" THEN NoChallenge ELSE due
  BY Zenon DEF Ask
<1>8. need'.kind = kind /\ need'.chal = (IF kind = "Auth" THEN due ELSE NoChallenge)
  BY <1>7
<1> QED BY <1>1, <1>2, <1>5, <1>6, <1>7, <1>8, SameIsSame DEF DaemonStays, Stays

LEMMA TakeMoves ==
    ASSUME IInv, TakesAnswer
    PROVE  /\ Takes /\ need' = NoNeed
           /\ in[1].kind = need.kind /\ need.kind \in Kinds
           /\ in[1].n = asked \/ "crossed" \in excused'
           /\ excused \subseteq excused'
<1>1. Taken /\ Head(in).kind = need.kind /\ need' = NoNeed
      /\ excused' = excused \cup (IF Head(in).n = asked THEN {} ELSE {"crossed"})
  BY Zenon DEF TakesAnswer
<1>2. Takes /\ Head(in) = in[1] /\ in[1] \in AnswerRec
  BY <1>1, TakenTakes
<1>3. in[1].kind \in Kinds
  BY <1>2, SMT DEF AnswerRec
<1> QED BY <1>1, <1>2, <1>3

LEMMA RefuseMoves ==
    ASSUME IInv, Refuse
    PROVE  /\ DaemonStays /\ Adds(2) /\ UNCHANGED asked
           /\ due' \in {NoChallenge, asked, BadChallenge} /\ (need.kind # "Auth" => due' = NoChallenge)
           /\ LET l == out'[Len(out) + 1]
                  m == out'[Len(out) + 2]
              IN  /\ l.name = "failed" /\ l.what = need.kind /\ l.chal = due' /\ l.n = 0
                  /\ m.name = "state" /\ m.chal = due' /\ m.n = 0
                  /\ m.what = "private-key-password-failure" => due' = NoChallenge
<1>1. TakesAnswer /\ UNCHANGED <<asked, buf, dialogs, dynCr, failVars>>
  BY Zenon DEF Refuse
<1>2. need.kind \in Kinds /\ asked \in 0 .. MaxAsked
  BY <1>1, TakeMoves DEF IInv, DaemonOK
<1>3. PICK chal \in {NoChallenge, asked, BadChallenge} :
        /\ Emit(<<Line("failed", need.kind, chal), Line("state", FailureState(need.kind), chal)>>)
        /\ due' = chal
        /\ need.kind # "Auth" => chal = NoChallenge
  <2>1. PICK chal \in IF need.kind # "Auth" THEN {NoChallenge}
                   ELSE {NoChallenge, asked} \cup (IF Malformed THEN {BadChallenge} ELSE {}) :
          /\ Emit(<<Line("failed", need.kind, chal), Line("state", FailureState(need.kind), chal)>>)
          /\ due' = chal
    BY Zenon DEF Refuse
  <2>2. chal \in {NoChallenge, asked, BadChallenge} /\ (need.kind # "Auth" => chal = NoChallenge)
    OBVIOUS
  <2> QED BY <2>1, <2>2
<1>4. chal \in Challenges
  BY <1>2, ChallengeFacts
<1> DEFINE l == Line("failed", need.kind, chal)
           m == Line("state", FailureState(need.kind), chal)
<1>5. FailureState(need.kind) \in States
      /\ (FailureState(need.kind) = "private-key-password-failure" => need.kind = "Key")
  BY <1>2, SMT DEF FailureState, States, Kinds
<1>6. l \in LineRec /\ m \in LineRec
  <2>1. l \in LineRec
    BY <1>2, <1>4, LineType
  <2>2. m \in LineRec
    BY <1>4, <1>5, LineType
  <2> QED BY <2>1, <2>2
<1>7. l.name = "failed" /\ l.what = need.kind /\ l.chal = chal /\ l.n = 0
      /\ m.name = "state" /\ m.what = FailureState(need.kind) /\ m.chal = chal /\ m.n = 0
  BY LineFields
<1> HIDE DEF l, m
<1>8. Adds(2) /\ out'[Len(out) + 1] = l /\ out'[Len(out) + 2] = m
  BY <1>3, <1>6, EmitTwo DEF l, m
<1> QED BY <1>1, <1>3, <1>5, <1>7, <1>8, SameIsSame DEF DaemonStays, Stays

\* Lines that are neither questions nor about an answer.
LEMMA NewLineMoves ==
    ASSUME IInv, Restart \/ Progress \/ Echo
    PROVE  /\ DaemonStays /\ Adds(1) /\ UNCHANGED <<in, asked, excused>>
           /\ LET l == out'[Len(out) + 1]
              IN  /\ l.chal = NoChallenge /\ l.n = 0
                  /\ \/ Restart /\ l.name = "state" /\ l.what = "RECONNECTING"
                        /\ need' = NoNeed /\ due' = NoChallenge
                     \/ l.name = "state" /\ l.what = "CONNECTED" /\ need = NoNeed /\ UNCHANGED <<need, due>>
                     \/ l.name = "state" /\ l.what = "GET_CONFIG" /\ need.kind = "CrText"
                        /\ UNCHANGED <<need, due>>
                     \/ l.name = "echo" /\ UNCHANGED <<need, due>>
<1>1. UNCHANGED <<in, asked, excused, buf, dialogs, dynCr, failVars>>
  BY Zenon DEF Restart, Progress, Echo
<1> DEFINE Case(name, what) ==
             \/ /\ Restart /\ name = "state" /\ what = "RECONNECTING"
                /\ need' = NoNeed /\ due' = NoChallenge
             \/ /\ name = "state" /\ what = "CONNECTED" /\ need = NoNeed /\ UNCHANGED <<need, due>>
             \/ /\ name = "state" /\ what = "GET_CONFIG" /\ need.kind = "CrText"
                /\ UNCHANGED <<need, due>>
             \/ name = "echo" /\ UNCHANGED <<need, due>>
<1>2. PICK name \in {"state", "echo"}, what \in States \cup {"forget", "save"} :
        Emit(<<Line(name, what, NoChallenge)>>) /\ Case(name, what)
  BY Zenon DEF Restart, Progress, Echo, States
<1> HIDE DEF Case
<1> DEFINE l == Line(name, what, NoChallenge)
<1>3. l \in LineRec
  BY ChallengeFacts, LineType
<1>4. l.name = name /\ l.what = what /\ l.chal = NoChallenge /\ l.n = 0
  BY LineFields
<1> HIDE DEF l
<1>5. Adds(1) /\ out'[Len(out) + 1] = l
  BY <1>2, <1>3, EmitOne DEF l
<1>6. DaemonStays
  BY <1>1, SameIsSame DEF DaemonStays, Stays
<1> QED BY <1>1, <1>2, <1>4, <1>5, <1>6, Zenon DEF Case

LEMMA QuietMoves ==
    ASSUME IInv, DropAnswer \/ Accept \/ Exit
    PROVE  /\ DaemonStays /\ UNCHANGED <<out, asked, due>>
           /\ \/ DropAnswer /\ Takes /\ in[1].kind # need.kind /\ UNCHANGED <<need, excused>>
              \/ Accept /\ TakesAnswer
              \/ Exit /\ UNCHANGED <<in, need, excused>>
<1>1. UNCHANGED <<out, asked, due, buf, dialogs, dynCr, failVars>>
  BY Zenon DEF DropAnswer, Accept, Exit, daemonVars
<1>2. DaemonStays
  BY <1>1, SameIsSame DEF DaemonStays, Stays
<1>3. DropAnswer => Takes /\ in[1].kind # need.kind /\ UNCHANGED <<need, excused>>
  <2> SUFFICES ASSUME DropAnswer PROVE Takes /\ in[1].kind # need.kind /\ UNCHANGED <<need, excused>>
    OBVIOUS
  <2>1. Taken /\ Head(in).kind # need.kind /\ UNCHANGED <<need, excused>>
    BY Zenon DEF DropAnswer, daemonVars
  <2> QED BY <2>1, TakenTakes
<1>4. Accept => TakesAnswer
  BY Zenon DEF Accept
<1>5. Exit => UNCHANGED <<in, need, excused>>
  BY Zenon DEF Exit
<1> QED BY <1>1, <1>2, <1>3, <1>4, <1>5

-----------------------------------------------------------------------------
(* The numbers of the questions: what is under way to the GUI is younger than *)
(* all that the GUI and the answers hold.                                     *)

Below(s, m) == \A j \in 1 .. Len(s) : s[j].n < m

GuiBelow(m) ==
    /\ Below(buf, m) /\ Below(in, m)
    /\ \A i \in 1 .. Len(dialogs) : dialogs[i].n < m /\ Below(dialogs[i].rest, m)

Numbers ==
    /\ GuiBelow(asked + 1) /\ Below(out, asked + 1)
    /\ \A j \in 1 .. Len(out) : out[j].name = "need" =>
          GuiBelow(out[j].n) /\ \A k \in 1 .. j - 1 : out[k].n < out[j].n

LEMMA BelowMoves ==
    ASSUME NEW m \in Nat, GuiBelow(m), Moves, Answers
    PROVE  GuiBelow(m)'
<1>1. Below(in, m)'
  <2> SUFFICES ASSUME NEW j \in 1 .. Len(in') PROVE in'[j].n < m
    BY DEF Below
  <2>1. CASE j \in 1 .. Len(in)
    BY <2>1 DEF Answers, GuiBelow, Below
  <2>2. CASE j \in Len(in) + 1 .. Len(in')
    <3>1. CASE \E i \in 1 .. Len(dialogs) : in'[j].n = dialogs[i].n
      BY <3>1, Zenon DEF GuiBelow
    <3>2. CASE buf # <<>> /\ in'[j].n = buf[1].n
      <4>1. Len(buf) \in Nat \ {0}
        BY <3>2 DEF Moves
      <4> QED BY <3>2, <4>1 DEF GuiBelow, Below
    <3> QED BY <2>2, <3>1, <3>2, Zenon DEF Answers
  <2> QED BY <2>1, <2>2 DEF Answers
<1>2. CASE Stays
  BY <1>1, <1>2 DEF Stays, SameDialogs, GuiBelow, Below
<1>3. CASE ReadsOne
  <2>1. Below(buf, m)'
    BY <1>3 DEF ReadsOne, GuiBelow, Below
  <2> QED BY <1>1, <1>3, <2>1 DEF ReadsOne, SameDialogs, GuiBelow, Below
<1>4. CASE Shows
  <2>1. Len(buf') = 0
    BY <1>4 DEF Shows
  <2>2. Below(dialogs'[Len(dialogs) + 1].rest, m) /\ dialogs'[Len(dialogs) + 1].n < m
    BY <1>4, SMT DEF Shows, GuiBelow, Below
  <2>3. \A i \in 1 .. Len(dialogs') : dialogs'[i].n < m /\ Below(dialogs'[i].rest, m)
    BY <1>4, <2>2 DEF Shows, GuiBelow
  <2> QED BY <1>1, <2>1, <2>3 DEF GuiBelow, Below
<1>5. CASE Returns
  <2>1. Below(buf, m)'
    BY <1>5 DEF Returns, GuiBelow, Below
  <2>2. \A i \in 1 .. Len(dialogs') : dialogs'[i].n < m /\ Below(dialogs'[i].rest, m)
    BY <1>5 DEF Returns, GuiBelow
  <2> QED BY <1>1, <2>1, <2>2 DEF GuiBelow, Below
<1> QED BY <1>2, <1>3, <1>4, <1>5 DEF Moves

LEMMA BelowDaemon ==
    ASSUME NEW m \in Nat, GuiBelow(m), Stays, Takes \/ UNCHANGED in
    PROVE  GuiBelow(m)'
<1>1. Below(in, m)'
  BY DEF GuiBelow, Below, Takes
<1> QED BY <1>1 DEF Stays, SameDialogs, GuiBelow, Below

LEMMA BelowFetched ==
    ASSUME NEW m \in Nat, GuiBelow(m), Fetches, UNCHANGED in,
           \A j \in 1 .. Len(buf') : out[j].n < m
    PROVE  GuiBelow(m)'
BY DEF Fetches, SameDialogs, GuiBelow, Below

LEMMA NumberTypes ==
    ASSUME IInv
    PROVE  /\ asked \in Nat /\ Len(out) \in Nat /\ Len(buf) \in Nat /\ Len(dialogs) \in Nat /\ Len(in) \in Nat
           /\ \A j \in 1 .. Len(out) : out[j] \in LineRec /\ out[j].n \in Nat
           /\ \A j \in 1 .. Len(buf) : buf[j] \in LineRec
           /\ \A j \in 1 .. Len(buf) : buf[j].n \in Nat
           /\ \A j \in 1 .. Len(in) : in[j].n \in Nat
           /\ \A i \in 1 .. Len(dialogs) :
                /\ dialogs[i].n \in Nat /\ Len(dialogs[i].rest) \in Nat
                /\ \A j \in 1 .. Len(dialogs[i].rest) : dialogs[i].rest[j] \in LineRec
                                                        /\ dialogs[i].rest[j].n \in Nat
           /\ dynCr \in Challenges
<1>1. asked \in Nat /\ Len(out) \in Nat /\ Len(buf) \in Nat /\ Len(dialogs) \in Nat /\ Len(in) \in Nat
  BY LenProperties DEF IInv, DaemonOK, ReadOK, DialogsOK, InOK
<1>2. \A j \in 1 .. Len(out) : out[j] \in LineRec
  BY ElementOfSeq DEF IInv, DaemonOK
<1>3. \A j \in 1 .. Len(buf) : buf[j] \in LineRec
  BY ElementOfSeq DEF IInv, ReadOK
<1>4. \A j \in 1 .. Len(in) : in[j] \in AnswerRec
  BY ElementOfSeq DEF IInv, InOK
<1>5. \A l \in LineRec : l.n \in Nat
  BY SMT DEF LineRec
<1>6. \A a \in AnswerRec : a.n \in Nat
  BY SMT DEF AnswerRec
<1>7. ASSUME NEW i \in 1 .. Len(dialogs)
      PROVE  /\ dialogs[i].n \in Nat /\ Len(dialogs[i].rest) \in Nat
             /\ \A j \in 1 .. Len(dialogs[i].rest) : dialogs[i].rest[j] \in LineRec
                                                     /\ dialogs[i].rest[j].n \in Nat
  <2>1. dialogs[i].n \in Nat /\ dialogs[i].rest \in Seq(LineRec)
    BY DialogField DEF IInv
  <2> QED BY <1>5, <2>1, LenProperties, ElementOfSeq
<1> QED BY <1>1, <1>2, <1>3, <1>4, <1>5, <1>6, <1>7 DEF IInv, ReadOK

\* A step of the GUI that leaves out alone.
LEMMA NumbersGui ==
    ASSUME IInv, Numbers, Moves, Answers, UNCHANGED <<out, asked>>
    PROVE  Numbers'
<1>1. GuiBelow(asked + 1)'
  <2>1. PICK m \in Nat : m = asked + 1
    BY NumberTypes
  <2>2. GuiBelow(m)'
    BY <2>1, BelowMoves DEF Numbers
  <2> QED BY <2>1, <2>2 DEF GuiBelow, Below
<1>2. ASSUME NEW j \in 1 .. Len(out), out[j].name = "need" PROVE GuiBelow(out[j].n)'
  <2>1. PICK m \in Nat : m = out[j].n
    BY NumberTypes
  <2>2. GuiBelow(m)'
    BY <1>2, <2>1, BelowMoves DEF Numbers
  <2>3. out'[j].n = m
    BY <2>1
  <2> QED BY <2>2, <2>3, Zenon DEF GuiBelow, Below
<1> QED BY <1>1, <1>2 DEF Numbers, GuiBelow, Below

LEMMA NumbersFetched ==
    ASSUME IInv, Numbers, Fetches, UNCHANGED <<in, asked>>
    PROVE  Numbers'
<1>t. Len(out) \in Nat /\ asked \in Nat /\ Len(buf') \in 1 .. Len(out)
      /\ Len(out') = Len(out) - Len(buf') /\ \A j \in 1 .. Len(out') : out'[j] = out[Len(buf') + j]
  BY NumberTypes DEF Fetches
<1>1. GuiBelow(asked + 1)'
  <2>1. PICK m \in Nat : m = asked + 1
    BY NumberTypes
  <2>2. \A j \in 1 .. Len(buf') : out[j].n < m
    BY <1>t, <2>1 DEF Numbers, Below
  <2>3. GuiBelow(m)'
    BY <2>1, <2>2, BelowFetched DEF Numbers
  <2> QED BY <2>1, <2>3 DEF GuiBelow, Below
<1>2. ASSUME NEW j \in 1 .. Len(out'), out'[j].name = "need"
      PROVE  GuiBelow(out[j].n)' /\ \A k \in 1 .. j - 1 : out'[k].n < out'[j].n
  <2> DEFINE i == Len(buf') + j
  <2>1. i \in 1 .. Len(out) /\ out'[j] = out[i]
    BY <1>t
  <2> HIDE DEF i
  <2>2. PICK m \in Nat : m = out[i].n
    BY <2>1, NumberTypes
  <2>3. GuiBelow(m) /\ \A k \in 1 .. i - 1 : out[k].n < m
    BY <1>2, <2>1, <2>2, Zenon DEF Numbers
  <2>4. \A k \in 1 .. Len(buf') : out[k].n < m
    BY <1>t, <2>3 DEF i
  <2>5. GuiBelow(m)'
    BY <2>3, <2>4, BelowFetched
  <2>6. \A k \in 1 .. j - 1 : out'[k].n < out'[j].n
    <3> SUFFICES ASSUME NEW k \in 1 .. j - 1 PROVE out'[k].n < out'[j].n
      OBVIOUS
    <3>1. k \in 1 .. Len(out') /\ Len(buf') + k \in 1 .. i - 1
      BY <1>t DEF i
    <3> QED BY <1>t, <2>1, <2>2, <2>3, <3>1
  <2>7. out'[j].n = m
    BY <2>1, <2>2
  <2>8. GuiBelow(out[j].n)'
    BY <2>5, <2>7, Zenon DEF GuiBelow, Below
  <2> QED BY <2>6, <2>8
<1>3. Below(out, asked + 1)'
  <2> SUFFICES ASSUME NEW j \in 1 .. Len(out') PROVE out'[j].n < asked' + 1
    BY DEF Below
  <2>1. Len(buf') + j \in 1 .. Len(out) /\ out'[j] = out[Len(buf') + j]
    BY <1>t
  <2> QED BY <2>1 DEF Numbers, Below
<1> QED BY <1>1, <1>2, <1>3 DEF Numbers

\* A step of the daemon that asks nothing.
LEMMA NumbersDaemon ==
    ASSUME IInv, Numbers, Stays, Takes \/ UNCHANGED in, UNCHANGED asked,
           UNCHANGED out \/ (\E k \in Nat : Adds(k) /\ \A j \in Len(out) + 1 .. Len(out) + k :
                                              out'[j].n = 0 /\ out'[j].name # "need")
    PROVE  Numbers'
<1>1. GuiBelow(asked + 1)'
  <2>1. PICK m \in Nat : m = asked + 1
    BY NumberTypes
  <2>2. GuiBelow(m)'
    BY <2>1, BelowDaemon DEF Numbers
  <2> QED BY <2>1, <2>2 DEF GuiBelow, Below
<1>2. CASE UNCHANGED out
  <2>1. ASSUME NEW j \in 1 .. Len(out), out[j].name = "need" PROVE GuiBelow(out[j].n)'
    <3>1. PICK m \in Nat : m = out[j].n
      BY NumberTypes
    <3>2. GuiBelow(m)'
      BY <2>1, <3>1, BelowDaemon DEF Numbers
    <3>3. out'[j].n = m
      BY <1>2, <3>1
    <3> QED BY <3>2, <3>3, Zenon DEF GuiBelow, Below
  <2> QED BY <1>1, <1>2, <2>1 DEF Numbers, Below
<1>3. ASSUME NEW k \in Nat, Adds(k),
             \A j \in Len(out) + 1 .. Len(out) + k : out'[j].n = 0 /\ out'[j].name # "need"
      PROVE  Numbers'
  <2>1. ASSUME NEW j \in 1 .. Len(out'), out'[j].name = "need"
        PROVE  GuiBelow(out[j].n)' /\ \A i \in 1 .. j - 1 : out'[i].n < out'[j].n
    <3>1. j \in 1 .. Len(out) /\ out'[j] = out[j]
      BY <1>3, <2>1 DEF Adds
    <3>2. PICK m \in Nat : m = out[j].n
      BY <3>1, NumberTypes
    <3>3. GuiBelow(m)'
      BY <2>1, <3>1, <3>2, BelowDaemon DEF Numbers
    <3>4. out'[j].n = m
      BY <3>1, <3>2
    <3>5. GuiBelow(out[j].n)'
      BY <3>3, <3>4, Zenon DEF GuiBelow, Below
    <3>6. \A i \in 1 .. j - 1 : out'[i] = out[i] /\ out[i].n < out[j].n
      BY <1>3, <2>1, <3>1 DEF Adds, Numbers
    <3> QED BY <3>1, <3>5, <3>6
  <2>2. Below(out, asked + 1)'
    <3> SUFFICES ASSUME NEW j \in 1 .. Len(out') PROVE out'[j].n < asked' + 1
      BY DEF Below
    <3>1. CASE j \in 1 .. Len(out)
      BY <1>3, <3>1 DEF Adds, Numbers, Below
    <3>2. CASE j \in Len(out) + 1 .. Len(out) + k
      BY <1>3, <3>2, NumberTypes
    <3> QED BY <1>3, <3>1, <3>2, NumberTypes DEF Adds
  <2> QED BY <1>1, <2>1, <2>2 DEF Numbers
<1> QED BY <1>2, <1>3

LEMMA NumbersAsk ==
    ASSUME IInv, Numbers, NEW kind \in Asks, Ask(kind)
    PROVE  Numbers'
<1>1. /\ Stays /\ (UNCHANGED in) /\ Adds(1) /\ asked' = asked + 1
      /\ out'[Len(out) + 1].name = "need" /\ out'[Len(out) + 1].n = asked + 1
  BY AskMoves DEF DaemonStays
<1>2. \A x \in Nat : x < asked + 1 => x < asked + 2
  BY NumberTypes
<1>3. GuiBelow(asked + 2)
  <2>1. Below(buf, asked + 2) /\ Below(in, asked + 2)
    BY <1>2, NumberTypes DEF Numbers, GuiBelow, Below
  <2>2. ASSUME NEW i \in 1 .. Len(dialogs)
        PROVE  dialogs[i].n < asked + 2 /\ Below(dialogs[i].rest, asked + 2)
    <3>1. dialogs[i].n \in Nat /\ \A j \in 1 .. Len(dialogs[i].rest) : dialogs[i].rest[j].n \in Nat
      BY NumberTypes
    <3> QED BY <1>2, <3>1 DEF Numbers, GuiBelow, Below
  <2> QED BY <2>1, <2>2 DEF GuiBelow
<1>4. PICK m \in Nat : m = asked + 2
  BY NumberTypes
<1>5. GuiBelow(m)'
  BY <1>1, <1>3, <1>4, BelowDaemon
<1>6. GuiBelow(asked + 1)'
  <2>1. asked' + 1 = m
    BY <1>1, <1>4, NumberTypes
  <2> QED BY <1>5, <2>1, Zenon DEF GuiBelow, Below
<1>7. ASSUME NEW j \in 1 .. Len(out'), out'[j].name = "need"
      PROVE  GuiBelow(out[j].n)' /\ \A k \in 1 .. j - 1 : out'[k].n < out'[j].n
  <2>1. PICK p \in Nat : p = out'[j].n /\ GuiBelow(p) /\ \A k \in 1 .. j - 1 : out'[k].n < p
    <3>1. CASE j \in 1 .. Len(out)
      <4>1. out'[j] = out[j] /\ \A k \in 1 .. j - 1 : out'[k] = out[k] /\ out[k].n < out[j].n
        BY <1>1, <1>7, <3>1, NumberTypes DEF Adds, Numbers
      <4>2. GuiBelow(out[j].n)
        BY <1>7, <3>1, <4>1 DEF Numbers
      <4>3. out[j].n \in Nat
        BY <3>1, NumberTypes
      <4> QED BY <4>1, <4>2, <4>3, Zenon
    <3>2. CASE j = Len(out) + 1
      <4>1. GuiBelow(asked + 1) /\ asked + 1 \in Nat /\ out'[j].n = asked + 1
        BY <1>1, <3>2, NumberTypes DEF Numbers
      <4>2. \A k \in 1 .. j - 1 : out'[k].n < asked + 1
        BY <1>1, <3>2, NumberTypes DEF Adds, Numbers, Below
      <4> QED BY <4>1, <4>2, Zenon
    <3> QED BY <1>1, <3>1, <3>2, NumberTypes DEF Adds
  <2>2. GuiBelow(p)'
    BY <1>1, <2>1, BelowDaemon
  <2>3. GuiBelow(out[j].n)'
    BY <2>1, <2>2, Zenon DEF GuiBelow, Below
  <2> QED BY <2>1, <2>3
<1>8. Below(out, asked + 1)'
  <2> SUFFICES ASSUME NEW j \in 1 .. Len(out') PROVE out'[j].n < asked' + 1
    BY DEF Below
  <2>1. CASE j \in 1 .. Len(out)
    BY <1>1, <2>1, NumberTypes, SMTT(30) DEF Adds, Numbers, Below
  <2>2. CASE j = Len(out) + 1
    BY <1>1, <2>2, NumberTypes
  <2> QED BY <1>1, <2>1, <2>2, NumberTypes DEF Adds
<1> QED BY <1>6, <1>7, <1>8 DEF Numbers

LEMMA NumbersInit == Init => Numbers
BY EmptySeq, SMT DEF Init, Numbers, GuiBelow, Below

LEMMA NumbersStep ==
    ASSUME IInv, Numbers, [Next]_vars
    PROVE  Numbers'
<1>1. CASE User \/ Timer
  BY <1>1, UserMoves, NumbersGui DEF Moves
<1>2. CASE FdRead
  BY <1>2, FdReadFetches, NumbersFetched
<1>3. CASE DialogReturns
  <2>1. UNCHANGED <<out, asked>>
    BY <1>3, Zenon DEF DialogReturns, daemonVars
  <2> QED BY <1>3, <2>1, ReturnReturns, AnswersSame, NumbersGui DEF Moves
<1>4. CASE ReadNeedChallenge \/ ReadNeedAuth \/ ReadNeedKey \/ ReadNeedOther
  <2>1. Moves /\ Answers /\ UNCHANGED <<out, asked>>
    BY <1>4, NeedMoves, Zenon DEF Moves
  <2> QED BY <2>1, NumbersGui
<1>5. CASE ReadFailed \/ ReadState \/ ReadEcho
  <2>1. Moves /\ UNCHANGED <<in, out, asked>>
    BY <1>5, NewsMoves, Zenon DEF Moves
  <2> QED BY <2>1, AnswersSame, NumbersGui
<1>6. ASSUME NEW kind \in Asks, Ask(kind) PROVE Numbers'
  BY <1>6, NumbersAsk
<1>7. CASE Refuse
  <2>1. Stays /\ Takes /\ (UNCHANGED asked) /\ Adds(2)
        /\ out'[Len(out) + 1].n = 0 /\ out'[Len(out) + 1].name = "failed"
        /\ out'[Len(out) + 2].n = 0 /\ out'[Len(out) + 2].name = "state"
    <3>1. TakesAnswer
      BY <1>7, Zenon DEF Refuse
    <3> QED BY <1>7, <3>1, RefuseMoves, TakeMoves DEF DaemonStays
  <2>2. \A j \in Len(out) + 1 .. Len(out) + 2 : out'[j].n = 0 /\ out'[j].name # "need"
    BY <2>1, NumberTypes
  <2> QED BY <2>1, <2>2, NumbersDaemon
<1>8. CASE Restart \/ Progress \/ Echo
  <2>1. Stays /\ Adds(1) /\ (UNCHANGED <<in, asked>>)
        /\ out'[Len(out) + 1].n = 0 /\ out'[Len(out) + 1].name # "need"
    BY <1>8, NewLineMoves DEF DaemonStays
  <2>2. \A j \in Len(out) + 1 .. Len(out) + 1 : out'[j].n = 0 /\ out'[j].name # "need"
    BY <2>1, NumberTypes
  <2> QED BY <2>1, <2>2, NumbersDaemon
<1>9. CASE DropAnswer \/ Accept \/ Exit
  <2>1. Stays /\ (UNCHANGED <<out, asked>>) /\ (Takes \/ UNCHANGED in)
    BY <1>9, QuietMoves, TakeMoves DEF DaemonStays
  <2> QED BY <2>1, NumbersDaemon
<1>10. CASE UNCHANGED vars
  <2>1. UNCHANGED <<buf, in, out, dialogs, asked>>
    BY <1>10, Zenon DEF vars, daemonVars
  <2> QED BY <2>1, Zenon DEF Numbers, GuiBelow, Below
<1> QED BY <1>1, <1>2, <1>3, <1>4, <1>5, <1>6, <1>7, <1>8, <1>9, <1>10 DEF Next, GUI, Daemon

-----------------------------------------------------------------------------
(* The outcomes of answers: a failure, then the state it leads to, and both    *)
(* before the next question.                                                   *)

IsVerdict(line) == line.name = "state" /\ line.what \in {"auth-failure", "private-key-password-failure"}
IsOutcome(line) == line.name = "failed" \/ IsVerdict(line)

OutcomesFirst(s) == \A j, k \in 1 .. Len(s) : j < k /\ s[j].name = "need" => ~IsOutcome(s[k])

Paired(s) ==
    \A j \in 1 .. Len(s) : IsVerdict(s[j]) =>
        /\ j # 1 => s[j - 1].name = "failed" /\ s[j - 1].chal = s[j].chal
        /\ s[j].what = "private-key-password-failure" => s[j].chal = NoChallenge

NoOutcome(s) == \A j \in 1 .. Len(s) : ~IsOutcome(s[j])
NoFailure(s) == \A j \in 1 .. Len(s) : s[j].name # "failed"

\* The challenge of a verdict that comes next is the one kept, unless it was dropped.
Near(c) == dynCr = c \/ dynCr = NoChallenge

Order ==
    /\ OutcomesFirst(out) /\ Paired(out) /\ OutcomesFirst(buf) /\ Paired(buf)
    /\ \A i \in 1 .. Len(dialogs) : NoOutcome(dialogs[i].rest)
    /\ 1 <= Len(buf) /\ IsVerdict(buf[1]) => Near(buf[1].chal)
    /\ 1 <= Len(out) /\ IsVerdict(out[1]) =>
         \/ 1 <= Len(buf) /\ buf[Len(buf)].name = "failed" /\ buf[Len(buf)].chal = out[1].chal
         \/ NoFailure(buf) /\ Near(out[1].chal)

\* Every refusal that was read was counted, and a dialog about to press its own OK
\* was opened when none had been.
Counted ==
    /\ "Auth" \in refused => failedAuth > 0
    /\ "Key" \in refused => failedPsw > 0
    /\ \A i \in 1 .. Len(dialogs) : dialogs[i].open /\ dialogs[i].timer => failedAuth = 0

InOrder == "crossed" \notin excused => Order /\ Counted

LEMMA ExcusedGrows ==
    ASSUME IInv, [Next]_vars
    PROVE  excused \subseteq excused'
<1>1. ASSUME NEW i \in 1 .. Len(dialogs),
             OkAuth(i) \/ OkOther(i) \/ TypePassword(i) \/ Interrupt(i) \/ ToggleSave(i)
             \/ Cancel(i) \/ CloseX(i) \/ TimerFires(i)
      PROVE  excused \subseteq excused'
  <2>1. excused' \in {excused, excused \cup {"closed"}}
    BY <1>1, Zenon DEF OkAuth, OkOther, TypePassword, Interrupt, ToggleSave, Cancel, CloseX, TimerFires
  <2> QED BY <2>1
<1>2. CASE ReadNeedChallenge \/ DialogReturns
  <2>1. CASE ReadNeedChallenge
    <3>1. \E more : excused' = excused \cup more
      BY <2>1, Zenon DEF ReadNeedChallenge
    <3> QED BY <3>1
  <2>2. CASE DialogReturns
    BY <2>2 DEF DialogReturns
  <2> QED BY <1>2, <2>1, <2>2
<1>3. CASE Accept \/ Refuse
  <2>1. TakesAnswer
    BY <1>3, Zenon DEF Accept, Refuse
  <2> QED BY <2>1 DEF TakesAnswer
<1>4. CASE UNCHANGED excused
  BY <1>4
<1>5. CASE User \/ Timer
  <2>1. ResetDeletes \/ ResetClears => UNCHANGED excused
    BY Zenon DEF ResetDeletes, ResetClears
  <2> QED BY <1>1, <1>4, <1>5, <2>1, Zenon DEF User, Timer
<1>6. CASE GUI
  <2>1. FdRead \/ ReadNeedAuth \/ ReadNeedKey \/ ReadNeedOther \/ ReadFailed \/ ReadState \/ ReadEcho
           => UNCHANGED excused
    BY Zenon DEF FdRead, ReadNeedAuth, ReadNeedKey, ReadNeedOther, ReadFailed, ReadState, ReadEcho
  <2> QED BY <1>2, <1>4, <1>6, <2>1, Zenon DEF GUI
<1>7. CASE Daemon
  <2>1. (\E kind \in Asks : Ask(kind)) \/ DropAnswer \/ Restart \/ Progress \/ Echo \/ Exit
           => UNCHANGED excused
    BY Zenon DEF Ask, DropAnswer, Restart, Progress, Echo, Exit
  <2> QED BY <1>3, <1>4, <1>7, <2>1, Zenon DEF Daemon
<1>8. CASE UNCHANGED vars
  BY <1>8 DEF vars
<1> QED BY <1>5, <1>6, <1>7, <1>8, Zenon DEF Next

LEMMA OrderStays ==
    ASSUME Order, Stays, UNCHANGED <<out, dynCr>>
    PROVE  Order'
<1>1. \A i \in 1 .. Len(dialogs') : NoOutcome(dialogs'[i].rest)
  BY DEF Order, Stays, SameDialogs
<1>2. NoFailure(buf) = NoFailure(buf') /\ \A c : Near(c) => Near(c)'
  BY DEF Stays, Near
<1> QED BY <1>1, <1>2, Zenon DEF Order, Stays, Near, NoFailure

LEMMA OrderReads ==
    ASSUME Order, ReadsOne, Len(out) \in Nat,
           IF buf[1].name = "failed" THEN dynCr' = buf[1].chal ELSE dynCr' \in {dynCr, NoChallenge}
    PROVE  Order'
<1>b. /\ Len(buf) \in Nat \ {0} /\ Len(buf') = Len(buf) - 1 /\ UNCHANGED out
      /\ \A j \in 1 .. Len(buf') : buf'[j] = buf[j + 1] /\ j + 1 \in 1 .. Len(buf)
  BY DEF ReadsOne
<1>1. \A i \in 1 .. Len(dialogs') : NoOutcome(dialogs'[i].rest)
  BY DEF Order, ReadsOne, SameDialogs
<1>2. OutcomesFirst(buf')
  <2> SUFFICES ASSUME NEW j \in 1 .. Len(buf'), NEW k \in 1 .. Len(buf'), j < k, buf'[j].name = "need"
               PROVE  ~IsOutcome(buf'[k])
    BY DEF OutcomesFirst
  <2>1. j + 1 < k + 1 /\ buf[j + 1].name = "need" /\ buf'[k] = buf[k + 1]
        /\ j + 1 \in 1 .. Len(buf) /\ k + 1 \in 1 .. Len(buf)
    BY <1>b
  <2> QED BY <2>1 DEF Order, OutcomesFirst
<1>3. Paired(buf')
  <2> SUFFICES ASSUME NEW j \in 1 .. Len(buf'), IsVerdict(buf'[j])
               PROVE  /\ j # 1 => buf'[j - 1].name = "failed" /\ buf'[j - 1].chal = buf'[j].chal
                      /\ buf'[j].what = "private-key-password-failure" => buf'[j].chal = NoChallenge
    BY DEF Paired
  <2>1. buf'[j] = buf[j + 1] /\ j + 1 \in 1 .. Len(buf) /\ j + 1 # 1 /\ (j + 1) - 1 = j
        /\ (j # 1 => buf'[j - 1] = buf[j])
    BY <1>b
  <2>2. IsVerdict(buf[j + 1])
    BY <2>1
  <2>3. buf[j].name = "failed" /\ buf[j].chal = buf[j + 1].chal
        /\ (buf[j + 1].what = "private-key-password-failure" => buf[j + 1].chal = NoChallenge)
    BY <2>1, <2>2 DEF Order, Paired
  <2> QED BY <2>1, <2>3
<1>4. 1 <= Len(buf') /\ IsVerdict(buf'[1]) => Near(buf[1].chal)'
  <2> SUFFICES ASSUME 1 <= Len(buf'), IsVerdict(buf'[1]) PROVE Near(buf[1].chal)'
    OBVIOUS
  <2>1. buf'[1] = buf[2] /\ 2 \in 1 .. Len(buf)
    BY <1>b
  <2>2. buf[1].name = "failed" /\ buf[1].chal = buf[2].chal
    BY <2>1 DEF Order, Paired
  <2> QED BY <2>1, <2>2 DEF Near
<1>5. 1 <= Len(out) /\ IsVerdict(out[1]) =>
         \/ 1 <= Len(buf') /\ buf'[Len(buf')].name = "failed" /\ buf'[Len(buf')].chal = out[1].chal
         \/ NoFailure(buf') /\ (dynCr' = out[1].chal \/ dynCr' = NoChallenge)
  <2> SUFFICES ASSUME 1 <= Len(out), IsVerdict(out[1])
               PROVE  \/ 1 <= Len(buf') /\ buf'[Len(buf')].name = "failed"
                         /\ buf'[Len(buf')].chal = out[1].chal
                      \/ NoFailure(buf') /\ (dynCr' = out[1].chal \/ dynCr' = NoChallenge)
    OBVIOUS
  <2>1. CASE buf[Len(buf)].name = "failed" /\ buf[Len(buf)].chal = out[1].chal
    <3>1. CASE Len(buf) = 1
      BY <1>b, <2>1, <3>1 DEF NoFailure
    <3>2. CASE Len(buf) # 1
      BY <1>b, <2>1, <3>2
    <3> QED BY <3>1, <3>2
  <2>2. CASE NoFailure(buf) /\ Near(out[1].chal)
    <3>1. NoFailure(buf') /\ buf[1].name # "failed"
      BY <1>b, <2>2 DEF NoFailure
    <3> QED BY <2>2, <3>1 DEF Near
  <2> QED BY <2>1, <2>2 DEF Order
<1> QED BY <1>b, <1>1, <1>2, <1>3, <1>4, <1>5 DEF Order, Near

\* Behind a question there is no outcome.
LEMMA OrderShows ==
    ASSUME Order, Shows, Len(out) \in Nat, buf[1].name = "need", UNCHANGED dynCr
    PROVE  Order'
<1>b. Len(buf) \in Nat \ {0} /\ Len(buf') = 0 /\ UNCHANGED out
  BY DEF Shows
<1>1. \A k \in 2 .. Len(buf) : ~IsOutcome(buf[k])
  BY <1>b DEF Order, OutcomesFirst
<1>2. NoOutcome(dialogs'[Len(dialogs) + 1].rest)
  <2> SUFFICES ASSUME NEW j \in 1 .. Len(dialogs'[Len(dialogs) + 1].rest)
               PROVE  ~IsOutcome(dialogs'[Len(dialogs) + 1].rest[j])
    BY DEF NoOutcome
  <2>1. j \in 1 .. Len(buf) - 1 /\ dialogs'[Len(dialogs) + 1].rest[j] = buf[j + 1]
    BY DEF Shows
  <2> QED BY <1>b, <1>1, <2>1
<1>3. \A i \in 1 .. Len(dialogs') : NoOutcome(dialogs'[i].rest)
  BY <1>2 DEF Order, Shows
<1>4. 1 <= Len(out) /\ IsVerdict(out[1]) => Near(out[1].chal)
  <2> SUFFICES ASSUME 1 <= Len(out), IsVerdict(out[1]) PROVE Near(out[1].chal)
    OBVIOUS
  <2>1. buf[Len(buf)].name # "failed"
    BY <1>b, <1>1 DEF IsOutcome
  <2> QED BY <2>1 DEF Order
<1> QED BY <1>b, <1>3, <1>4 DEF Order, Near, NoFailure, OutcomesFirst, Paired

LEMMA OrderReturns ==
    ASSUME Order, Returns, Len(out) \in Nat, dynCr' \in {dynCr, NoChallenge}
    PROVE  Order'
<1>1. NoOutcome(buf') /\ UNCHANGED out /\ \A i \in 1 .. Len(dialogs') : NoOutcome(dialogs'[i].rest)
  BY DEF Order, Returns
<1>2. Len(buf) = 0
  BY DEF Returns
<1>3. 1 <= Len(out) /\ IsVerdict(out[1]) => Near(out[1].chal)
  BY <1>2 DEF Order
<1>4. OutcomesFirst(buf') /\ Paired(buf') /\ NoFailure(buf') /\ (1 <= Len(buf') => ~IsVerdict(buf'[1]))
  <2>1. OutcomesFirst(buf') /\ Paired(buf') /\ NoFailure(buf')
    BY <1>1, Zenon DEF NoOutcome, OutcomesFirst, Paired, NoFailure, IsOutcome
  <2>2. 1 <= Len(buf') => ~IsVerdict(buf'[1])
    <3>1. Len(buf') \in Nat => (1 <= Len(buf') => 1 \in 1 .. Len(buf'))
      OBVIOUS
    <3> QED BY <1>1, <3>1 DEF NoOutcome, IsOutcome
  <2> QED BY <2>1, <2>2
<1> QED BY <1>1, <1>3, <1>4 DEF Order, Near

LEMMA OrderFetches ==
    ASSUME Order, Fetches, Len(out) \in Nat, UNCHANGED dynCr
    PROVE  Order'
<1>b. /\ Len(buf) = 0 /\ Len(buf') \in 1 .. Len(out) /\ Len(out') = Len(out) - Len(buf')
      /\ \A j \in 1 .. Len(buf') : buf'[j] = out[j] /\ j \in 1 .. Len(out)
      /\ \A j \in 1 .. Len(out') : out'[j] = out[Len(buf') + j] /\ Len(buf') + j \in 1 .. Len(out)
  BY DEF Fetches
<1>1. \A i \in 1 .. Len(dialogs') : NoOutcome(dialogs'[i].rest)
  BY DEF Order, Fetches, SameDialogs
<1>2. OutcomesFirst(buf') /\ Paired(buf')
  <2>1. OutcomesFirst(buf')
    BY <1>b DEF Order, OutcomesFirst
  <2>2. Paired(buf')
    BY <1>b DEF Order, Paired
  <2> QED BY <2>1, <2>2
<1>3. OutcomesFirst(out')
  <2> SUFFICES ASSUME NEW j \in 1 .. Len(out'), NEW k \in 1 .. Len(out'), j < k, out'[j].name = "need"
               PROVE  ~IsOutcome(out'[k])
    BY DEF OutcomesFirst
  <2>1. Len(buf') + j < Len(buf') + k /\ out'[j] = out[Len(buf') + j] /\ out'[k] = out[Len(buf') + k]
        /\ Len(buf') + j \in 1 .. Len(out) /\ Len(buf') + k \in 1 .. Len(out)
    BY <1>b
  <2> QED BY <2>1 DEF Order, OutcomesFirst
<1>4. ASSUME NEW j \in 1 .. Len(out'), IsVerdict(out'[j])
      PROVE  /\ out[Len(buf') + j - 1].name = "failed" /\ out[Len(buf') + j - 1].chal = out'[j].chal
             /\ out'[j].what = "private-key-password-failure" => out'[j].chal = NoChallenge
  <2>1. Len(buf') + j \in 1 .. Len(out) /\ Len(buf') + j # 1 /\ out'[j] = out[Len(buf') + j]
    BY <1>b
  <2> QED BY <1>4, <2>1 DEF Order, Paired
<1>5. Paired(out')
  <2> SUFFICES ASSUME NEW j \in 1 .. Len(out'), IsVerdict(out'[j])
               PROVE  /\ j # 1 => out'[j - 1].name = "failed" /\ out'[j - 1].chal = out'[j].chal
                      /\ out'[j].what = "private-key-password-failure" => out'[j].chal = NoChallenge
    BY DEF Paired
  <2>1. j # 1 => out'[j - 1] = out[Len(buf') + j - 1]
    BY <1>b
  <2> QED BY <1>4, <2>1
<1>6. 1 <= Len(buf') /\ IsVerdict(buf'[1]) => Near(buf[1].chal)'
  <2>1. buf'[1] = out[1] /\ 1 <= Len(out)
    BY <1>b
  <2> QED BY <1>b, <2>1 DEF Order, Near
<1>7. 1 <= Len(out') /\ IsVerdict(out'[1]) =>
         buf'[Len(buf')].name = "failed" /\ buf'[Len(buf')].chal = out'[1].chal
  <2> SUFFICES ASSUME 1 <= Len(out'), IsVerdict(out'[1])
               PROVE  buf'[Len(buf')].name = "failed" /\ buf'[Len(buf')].chal = out'[1].chal
    OBVIOUS
  <2>1. 1 \in 1 .. Len(out') /\ buf'[Len(buf')] = out[Len(buf') + 1 - 1]
    BY <1>b
  <2> QED BY <1>4, <2>1
<1> QED BY <1>b, <1>1, <1>2, <1>3, <1>5, <1>6, <1>7 DEF Order

LEMMA OrderAdds ==
    ASSUME Order, Stays, UNCHANGED dynCr, NEW k \in {1, 2}, Adds(k),
           \/ k = 1 /\ ~IsOutcome(out'[Len(out) + 1])
           \/ /\ k = 2 /\ \A j \in 1 .. Len(out) : out[j].name # "need"
              /\ out'[Len(out) + 1].name = "failed" /\ out'[Len(out) + 2].name = "state"
              /\ out'[Len(out) + 2].chal = out'[Len(out) + 1].chal
              /\ out'[Len(out) + 2].what = "private-key-password-failure"
                   => out'[Len(out) + 2].chal = NoChallenge
    PROVE  Order'
<1>b. /\ Len(out) \in Nat /\ Len(out') = Len(out) + k /\ \A j \in 1 .. Len(out) : out'[j] = out[j]
      /\ UNCHANGED <<buf, dynCr>>
  BY DEF Adds, Stays
<1>1. \A i \in 1 .. Len(dialogs') : NoOutcome(dialogs'[i].rest)
  BY DEF Order, Stays, SameDialogs
<1>2. OutcomesFirst(out')
  <2> SUFFICES ASSUME NEW i \in 1 .. Len(out'), NEW j \in 1 .. Len(out'), i < j, out'[i].name = "need"
               PROVE  ~IsOutcome(out'[j])
    BY DEF OutcomesFirst
  <2>1. CASE j \in 1 .. Len(out)
    BY <1>b, <2>1 DEF Order, OutcomesFirst
  <2>2. CASE k = 1 /\ j = Len(out) + 1
    BY <2>2
  <2>3. CASE k = 2 /\ j > Len(out)
    <3>1. i \in 1 .. Len(out) \/ i = Len(out) + 1
      BY <1>b, <2>3
    <3> QED BY <1>b, <2>3, <3>1
  <2> QED BY <1>b, <2>1, <2>2, <2>3
<1>3. Paired(out')
  <2> SUFFICES ASSUME NEW j \in 1 .. Len(out'), IsVerdict(out'[j])
               PROVE  /\ j # 1 => out'[j - 1].name = "failed" /\ out'[j - 1].chal = out'[j].chal
                      /\ out'[j].what = "private-key-password-failure" => out'[j].chal = NoChallenge
    BY DEF Paired
  <2>1. CASE j \in 1 .. Len(out)
    <3>1. out'[j] = out[j] /\ (j # 1 => out'[j - 1] = out[j - 1])
      BY <1>b, <2>1
    <3> QED BY <2>1, <3>1 DEF Order, Paired
  <2>2. CASE k = 1 /\ j = Len(out) + 1
    BY <2>2 DEF IsOutcome
  <2>3. CASE k = 2 /\ j = Len(out) + 1
    BY <2>3 DEF IsVerdict
  <2>4. CASE k = 2 /\ j = Len(out) + 2
    <3>1. j - 1 = Len(out) + 1
      BY <1>b, <2>4
    <3> QED BY <2>4, <3>1
  <2> QED BY <1>b, <2>1, <2>2, <2>3, <2>4
<1>4. 1 <= Len(out') /\ IsVerdict(out'[1]) => 1 <= Len(out) /\ out'[1] = out[1]
  <2>1. CASE Len(out) = 0
    <3>1. ~IsVerdict(out'[1])
      BY <2>1 DEF IsOutcome, IsVerdict
    <3> QED BY <3>1
  <2>2. CASE Len(out) # 0
    BY <1>b, <2>2
  <2> QED BY <2>1, <2>2
<1> QED BY <1>b, <1>1, <1>2, <1>3, <1>4, Zenon DEF Order, Near, NoFailure

\* A refusal that is read is counted: no challenge is kept when it is one.
LEMMA CountedState ==
    ASSUME IInv, Order, Counted, ReadState
    PROVE  Counted'
<1>1. Reads("state")
  BY Zenon DEF ReadState
<1>2. ReadsOne /\ buf[1].name = "state"
      /\ \A i \in 1 .. Len(dialogs) :
           IF dialogs[i].kind = "CrText" /\ buf[1].what = "GET_CONFIG"
           THEN dialogs'[i] = dialogs[i] ELSE ~dialogs'[i].open
  <2>1. buf[1].name = "state"
    BY <1>1, ReadHead
  <2> QED BY <2>1, NewsMoves, Zenon
<1>3. Head(buf) = buf[1] /\ 1 \in 1 .. Len(buf) /\ 1 <= Len(buf)
  BY <1>1, ReadHead
<1> DEFINE state == buf[1].what
           auth == state = "auth-failure" /\ dynCr = NoChallenge
           psw == state = "private-key-password-failure" /\ dynCr = NoChallenge
<1>4. /\ failedAuth' = IF state = "CONNECTED" THEN 0 ELSE failedAuth + IF auth THEN 1 ELSE 0
      /\ failedPsw' = IF state = "CONNECTED" THEN 0 ELSE failedPsw + IF psw THEN 1 ELSE 0
      /\ refused' = CASE state = "CONNECTED" -> {}
                      [] state = "auth-failure" /\ buf[1].chal = NoChallenge -> refused \cup {"Auth"}
                      [] state = "private-key-password-failure" -> refused \cup {"Key"}
                      [] OTHER -> refused
  BY <1>3, Zenon DEF ReadState
<1>5. failedAuth \in Nat /\ failedPsw \in Nat
  BY DEF IInv, FailOK
<1>6. state = "auth-failure" /\ buf[1].chal = NoChallenge => auth
  BY <1>2, <1>3 DEF Order, IsVerdict, Near
<1>7. state = "private-key-password-failure" => psw
  <2> SUFFICES ASSUME state = "private-key-password-failure" PROVE dynCr = NoChallenge
    OBVIOUS
  <2>1. IsVerdict(buf[1])
    BY <1>2 DEF IsVerdict
  <2>2. buf[1].chal = NoChallenge
    BY <1>3, <2>1 DEF Order, Paired
  <2> QED BY <1>3, <2>1, <2>2 DEF Order, Near
<1> HIDE DEF auth, psw, state
<1>8. ("Auth" \in refused' => failedAuth' > 0) /\ ("Key" \in refused' => failedPsw' > 0)
  <2>1. CASE state = "CONNECTED"
    <3>1. refused' = {}
      BY <1>4, <2>1, Zenon
    <3> QED BY <3>1
  <2>2. CASE state # "CONNECTED"
    <3>1. /\ failedAuth' = failedAuth + IF auth THEN 1 ELSE 0
          /\ failedPsw' = failedPsw + IF psw THEN 1 ELSE 0
      BY <1>4, <2>2
    <3>2. "Auth" \in refused' => "Auth" \in refused \/ auth
      BY <1>4, <1>6, <2>2
    <3>3. "Key" \in refused' => "Key" \in refused \/ psw
      BY <1>4, <1>7, <2>2
    <3> QED BY <1>5, <3>1, <3>2, <3>3 DEF Counted
  <2> QED BY <2>1, <2>2
<1>9. ASSUME NEW i \in 1 .. Len(dialogs'), dialogs'[i].open, dialogs'[i].timer PROVE FALSE
  <2>1. i \in 1 .. Len(dialogs) /\ dialogs'[i].kind = dialogs[i].kind /\ dialogs[i].timer
    BY <1>2, <1>9 DEF ReadsOne, SameDialogs
  <2>2. dialogs[i].kind = "CrText"
    BY <1>2, <1>9, <2>1
  <2>3. dialogs[i].kind = "Auth"
    BY <2>1, DialogField DEF IInv, DialogRec
  <2> QED BY <2>2, <2>3
<1> QED BY <1>8, <1>9 DEF Counted

LEMMA CountedSame ==
    ASSUME Counted, UNCHANGED failVars, SameDialogs
    PROVE  Counted'
BY Zenon DEF Counted, failVars, SameDialogs

LEMMA InOrderStep ==
    ASSUME IInv, Numbers, InOrder, [Next]_vars
    PROVE  InOrder'
<1> SUFFICES ASSUME "crossed" \notin excused' PROVE Order' /\ Counted'
  BY DEF InOrder
<1>1. Order /\ Counted
  BY ExcusedGrows DEF InOrder
<1>t. Len(out) \in Nat
  BY NumberTypes
<1>2. CASE User \/ Timer
  BY <1>1, <1>2, UserMoves, OrderStays, CountedSame DEF Stays
<1>3. CASE FdRead
  <2>1. Fetches /\ UNCHANGED <<dynCr, failVars>>
    BY <1>3, FdReadFetches, Zenon DEF FdRead
  <2> QED BY <1>1, <1>t, <2>1, OrderFetches, CountedSame DEF Fetches
<1>4. CASE DialogReturns
  <2>1. Returns /\ dynCr' \in {dynCr, NoChallenge} /\ UNCHANGED failVars
    BY <1>4, ReturnReturns, Zenon DEF DialogReturns
  <2>2. Counted'
    BY <1>1, <2>1 DEF Counted, failVars, Returns
  <2> QED BY <1>1, <1>t, <2>1, <2>2, OrderReturns
<1>5. CASE ReadNeedChallenge \/ ReadNeedAuth \/ ReadNeedKey \/ ReadNeedOther
  <2>1. Reads("need") /\ UNCHANGED failVars
    BY <1>5, NeedMoves
  <2>2. buf[1].name = "need" /\ buf[1].name # "failed"
    BY <2>1, ReadHead
  <2>3. CASE /\ Shows /\ UNCHANGED dynCr /\ (dialogs'[Len(dialogs) + 1].timer => failedAuth = 0)
    <3>1. Counted'
      BY <1>1, <2>1, <2>3 DEF Counted, failVars, Shows
    <3> QED BY <1>1, <1>t, <2>2, <2>3, <3>1, OrderShows
  <2>4. CASE ReadsOne /\ dynCr' \in {dynCr, NoChallenge}
    <3>1. Counted'
      BY <1>1, <2>1, <2>4, CountedSame DEF ReadsOne
    <3> QED BY <1>1, <1>t, <2>2, <2>4, <3>1, OrderReads
  <2> QED BY <1>5, <2>3, <2>4, NeedMoves
<1>6. CASE ReadFailed \/ ReadState \/ ReadEcho
  <2>1. ReadsOne /\ IF buf[1].name = "failed" THEN dynCr' = buf[1].chal ELSE UNCHANGED dynCr
    BY <1>6, NewsMoves, Zenon
  <2>2. Order'
    BY <1>1, <1>t, <2>1, OrderReads
  <2>3. Counted'
    <3>1. CASE ReadState
      BY <1>1, <3>1, CountedState
    <3>2. CASE ReadFailed \/ ReadEcho
      <4>1. UNCHANGED failVars
        BY <3>2, Zenon DEF ReadFailed, ReadEcho
      <4> QED BY <1>1, <2>1, <4>1, CountedSame DEF ReadsOne
    <3> QED BY <1>6, <3>1, <3>2
  <2> QED BY <2>2, <2>3
<1>7. ASSUME Stays, UNCHANGED <<out, dynCr, failVars>> PROVE Order' /\ Counted'
  BY <1>1, <1>7, OrderStays, CountedSame DEF Stays
<1>8. ASSUME DaemonStays, NEW k \in {1, 2}, Adds(k),
             \/ k = 1 /\ ~IsOutcome(out'[Len(out) + 1])
             \/ /\ k = 2 /\ \A j \in 1 .. Len(out) : out[j].name # "need"
                /\ out'[Len(out) + 1].name = "failed" /\ out'[Len(out) + 2].name = "state"
                /\ out'[Len(out) + 2].chal = out'[Len(out) + 1].chal
                /\ out'[Len(out) + 2].what = "private-key-password-failure"
                     => out'[Len(out) + 2].chal = NoChallenge
      PROVE  Order' /\ Counted'
  BY <1>1, <1>8, OrderAdds, CountedSame DEF DaemonStays, Stays
<1>9. ASSUME NEW kind \in Asks, Ask(kind) PROVE Order' /\ Counted'
  <2>1. DaemonStays /\ Adds(1) /\ out'[Len(out) + 1].name = "need"
    BY <1>9, AskMoves
  <2> QED BY <1>8, <2>1 DEF IsOutcome, IsVerdict
<1>10. CASE Refuse
  <2>1. TakesAnswer
    BY <1>10, Zenon DEF Refuse
  <2>2. in[1].n = asked /\ 1 \in 1 .. Len(in)
    BY <2>1, TakeMoves DEF Takes
  <2>3. \A j \in 1 .. Len(out) : out[j].name # "need"
    <3> SUFFICES ASSUME NEW j \in 1 .. Len(out), out[j].name = "need" PROVE FALSE
      OBVIOUS
    <3>1. in[1].n < out[j].n /\ out[j].n < asked + 1
      BY <2>2 DEF Numbers, GuiBelow, Below
    <3> QED BY <2>2, <3>1, NumberTypes
  <2> QED BY <1>8, <1>10, <2>3, RefuseMoves
<1>11. CASE Restart \/ Progress \/ Echo
  <2>1. DaemonStays /\ Adds(1) /\ ~IsOutcome(out'[Len(out) + 1])
    BY <1>11, NewLineMoves DEF IsOutcome, IsVerdict
  <2> QED BY <1>8, <2>1
<1>12. CASE DropAnswer \/ Accept \/ Exit
  <2>1. DaemonStays /\ UNCHANGED out
    BY <1>12, QuietMoves
  <2> QED BY <1>7, <2>1 DEF DaemonStays
<1>13. CASE UNCHANGED vars
  <2>1. UNCHANGED <<buf, out, dialogs, dynCr, failVars>>
    BY <1>13, Zenon DEF vars, daemonVars
  <2> QED BY <1>7, <2>1, SameIsSame DEF Stays
<1> QED BY <1>2, <1>3, <1>4, <1>5, <1>6, <1>9, <1>10, <1>11, <1>12, <1>13 DEF Next, GUI, Daemon

LEMMA InOrderInit == Init => InOrder
BY EmptySeq, SMT DEF Init, InOrder, Order, Counted, OutcomesFirst, Paired, NoOutcome

-----------------------------------------------------------------------------
LEMMA AutoStep ==
    ASSUME IInv, InOrder, [Next]_vars, "crossed" \notin excused,
           NEW j \in Len(in) + 1 .. Len(in'), in'[j].auto, ~in'[j].late
    PROVE  in'[j].kind \notin refused
<1>1. Counted /\ Len(in) \in Nat /\ Len(in') \in Nat
  <2>1. IInv'
    BY StepInv
  <2>2. Len(in') \in Nat
    BY <2>1, LenProperties DEF IInv, InOK
  <2> QED BY <2>2, NumberTypes DEF InOrder
<1>2. ASSUME NEW a \in AnswerRec, in' = Append(in, a) PROVE in'[j] = a
  BY <1>1, <1>2, AppendProperties DEF IInv, InOK
<1>3. ASSUME NEW n \in Nat, NEW kind \in Kinds, NEW pass \in Pass, NEW resp \in BOOLEAN, NEW chal \in Challenges,
             NEW auto \in BOOLEAN, NEW late \in BOOLEAN,
             in' = Append(in, Answer(kind, pass, resp, chal, auto, late, n))
      PROVE  in'[j].kind = kind /\ auto /\ ~late
  <2> DEFINE a == Answer(kind, pass, resp, chal, auto, late, n)
  <2>1. a \in AnswerRec
    BY AnswerType
  <2>2. a.kind = kind /\ a.auto = auto /\ a.late = late
    BY DEF Answer
  <2> HIDE DEF a
  <2>3. in' = Append(in, a)
    BY <1>3 DEF a
  <2>4. in'[j] = a
    BY <1>2, <2>1, <2>3
  <2> QED BY <2>2, <2>4
<1>4. ASSUME NEW i \in 1 .. Len(dialogs), OkAuth(i) \/ TimerFires(i) PROVE in'[j].kind \notin refused
  <2> DEFINE d == dialogs[i]
  <2>1. d.n \in Nat /\ d.pass \in Typed /\ d.open \in BOOLEAN /\ "Auth" \in Kinds
    BY DialogField DEF IInv, Kinds
  <2>2. PICK resp \in BOOLEAN, auto \in BOOLEAN, late \in BOOLEAN :
          /\ AuthAnswer(d.pass, d.second, resp, auto, late, d.n)
          /\ auto => TimerFires(i) /\ late = ~d.open
    <3>1. (~d.open) \in BOOLEAN
      OBVIOUS
    <3> QED BY <1>4, <3>1, Zenon DEF OkAuth, TimerFires
  <2> DEFINE sent == IF d.second = "concat" /\ resp /\ d.pass # "none" THEN "otp" ELSE d.pass
             r == resp /\ d.second = "scrv1"
  <2>3. sent \in Pass /\ r \in BOOLEAN
    BY <2>1 DEF Typed, Pass
  <2>4. in' = Append(in, Answer("Auth", sent, r, NoChallenge, auto, late, d.n))
    BY <2>2 DEF AuthAnswer
  <2> HIDE DEF sent, r
  <2>5. in'[j].kind = "Auth" /\ auto /\ ~late
    BY <1>3, <2>1, <2>3, <2>4, ChallengeFacts
  <2>6. d.open /\ d.timer
    BY <2>2, <2>5, Zenon DEF TimerFires
  <2>7. failedAuth = 0
    BY <1>1, <2>6 DEF Counted
  <2> QED BY <1>1, <2>5, <2>7 DEF Counted
<1>5. ASSUME NEW i \in 1 .. Len(dialogs), OkOther(i) PROVE FALSE
  <2> DEFINE kind == IF dialogs[i].kind = "CRV1" THEN "Auth" ELSE dialogs[i].kind
  <2>1. kind \in Kinds /\ "bare" \in Pass /\ dialogs[i].chal \in Challenges /\ dialogs[i].n \in Nat
    BY DialogField DEF IInv, Kinds, Pass
  <2>2. in' = Append(in, Answer(kind, "bare", FALSE, dialogs[i].chal, FALSE, FALSE, dialogs[i].n))
    BY <1>5 DEF OkOther
  <2> HIDE DEF kind
  <2> QED BY <1>3, <2>1, <2>2
<1>6. CASE ReadNeedAuth \/ ReadNeedKey
  <2>1. \/ buf[1].what = "Auth" /\ failedAuth = 0
        \/ buf[1].what = "Key" /\ failedPsw = 0
        \/ UNCHANGED in
    BY <1>6, NeedMoves, Zenon
  <2>2. ~UNCHANGED in
    BY <1>1
  <2>3. Len(in') = Len(in) + 1 /\ in'[Len(in) + 1].kind = buf[1].what
    BY <1>6, <2>2, NeedMoves, Zenon
  <2>4. j = Len(in) + 1
    BY <1>1, <2>3
  <2> QED BY <1>1, <2>1, <2>2, <2>3, <2>4 DEF Counted
<1>7. ~UNCHANGED in
  BY <1>1
<1>8. ~Takes
  BY <1>1 DEF Takes
<1>9. CASE User \/ Timer
  <2>1. ASSUME NEW i \in 1 .. Len(dialogs),
               TypePassword(i) \/ Interrupt(i) \/ ToggleSave(i) \/ Cancel(i) \/ CloseX(i)
        PROVE  UNCHANGED in
    BY <2>1, Zenon DEF TypePassword, Interrupt, ToggleSave, Cancel, CloseX
  <2>2. ResetDeletes \/ ResetClears => UNCHANGED in
    BY Zenon DEF ResetDeletes, ResetClears
  <2> QED BY <1>4, <1>5, <1>7, <1>9, <2>1, <2>2, Zenon DEF User, Timer
<1>10. CASE GUI
  <2>1. FdRead \/ DialogReturns \/ ReadNeedChallenge \/ ReadNeedOther \/ ReadFailed \/ ReadState \/ ReadEcho
          => UNCHANGED in
    BY Zenon DEF FdRead, DialogReturns, ReadNeedChallenge, ReadNeedOther, ReadFailed, ReadState, ReadEcho
  <2> QED BY <1>6, <1>7, <1>10, <2>1, Zenon DEF GUI
<1>11. CASE Daemon
  <2>1. (\E kind \in Asks : Ask(kind)) \/ Restart \/ Progress \/ Echo \/ Exit => UNCHANGED in
    BY Zenon DEF Ask, Restart, Progress, Echo, Exit
  <2>2. DropAnswer \/ Accept \/ Refuse => Taken
    BY Zenon DEF DropAnswer, Accept, Refuse, TakesAnswer
  <2> QED BY <1>7, <1>8, <1>11, <2>1, <2>2, TakenTakes, Zenon DEF Daemon
<1>12. CASE UNCHANGED vars
  BY <1>7, <1>12, Zenon DEF vars
<1> QED BY <1>9, <1>10, <1>11, <1>12 DEF Next

\* However the dialogs nest and whatever arrives inside them, the GUI does not by itself
\* send a saved password again that was refused.
THEOREM NoAutoRetry == Spec => AutoNotAfterRefusal
<1> DEFINE All == IInv /\ Numbers /\ InOrder
           Step == \A j \in Len(in) + 1 .. Len(in') :
                     in'[j].auto /\ ~in'[j].late /\ "crossed" \notin excused => in'[j].kind \notin refused
<1>1. Init => All
  BY InitInv, NumbersInit, InOrderInit
<1>2. All /\ [Next]_vars => All'
  BY StepInv, NumbersStep, InOrderStep
<1>3. All /\ [Next]_vars => [Step]_vars
  BY AutoStep
<1> HIDE DEF All
<1>4. Spec => [][Step]_vars
  BY <1>1, <1>2, <1>3, PTL DEF Spec
<1> QED BY <1>4 DEF AutoNotAfterRefusal

-----------------------------------------------------------------------------
(* The dynamic challenge of the next question, on its way to the dialog.       *)

\* Challenges are named by the questions answered before: those there are, are older.
ChallengesBelow(m) ==
    /\ 0 < m /\ dynCr < m
    /\ \A j \in 1 .. Len(out) : out[j].chal < m
    /\ \A j \in 1 .. Len(buf) : buf[j].chal < m
    /\ \A i \in 1 .. Len(dialogs) :
         /\ dialogs[i].chal < m
         /\ \A j \in 1 .. Len(dialogs[i].rest) : dialogs[i].rest[j].chal < m

Fresh ==
    /\ ChallengesBelow(asked + 1)
    /\ need # NoNeed => ChallengesBelow(asked)
    /\ \A i \in 1 .. Len(dialogs) : dialogs[i].chal # BadChallenge
    /\ need.kind = "Auth" => due = NoChallenge

LEMMA ChallengeMoves ==
    ASSUME NEW m \in Nat, ChallengesBelow(m), Moves, UNCHANGED out,
           \/ dynCr' \in {dynCr, NoChallenge}
           \/ Len(buf) \in Nat \ {0} /\ dynCr' = buf[1].chal,
           Shows => dialogs'[Len(dialogs) + 1].chal \in {dynCr, NoChallenge}
    PROVE  ChallengesBelow(m)'
<1>1. dynCr' < m /\ 0 < m /\ \A j \in 1 .. Len(out') : out'[j].chal < m
  BY DEF ChallengesBelow, NoChallenge
<1>2. CASE Stays
  BY <1>1, <1>2 DEF Stays, SameDialogs, ChallengesBelow
<1>3. CASE ReadsOne
  <2>1. \A j \in 1 .. Len(buf') : buf'[j].chal < m
    BY <1>3 DEF ReadsOne, ChallengesBelow
  <2> QED BY <1>1, <1>3, <2>1 DEF ReadsOne, SameDialogs, ChallengesBelow
<1>4. CASE Shows
  <2>1. Len(buf') = 0
    BY <1>4 DEF Shows
  <2>2. \A j \in 1 .. Len(dialogs'[Len(dialogs) + 1].rest) : dialogs'[Len(dialogs) + 1].rest[j].chal < m
    <3> SUFFICES ASSUME NEW j \in 1 .. Len(dialogs'[Len(dialogs) + 1].rest)
                 PROVE  dialogs'[Len(dialogs) + 1].rest[j].chal < m
      OBVIOUS
    <3>1. j + 1 \in 1 .. Len(buf) /\ dialogs'[Len(dialogs) + 1].rest[j] = buf[j + 1]
      BY <1>4 DEF Shows
    <3> QED BY <3>1 DEF ChallengesBelow
  <2>3. dialogs'[Len(dialogs) + 1].chal < m
    BY <1>4 DEF ChallengesBelow, NoChallenge
  <2>4. \A i \in 1 .. Len(dialogs') :
          /\ dialogs'[i].chal < m
          /\ \A j \in 1 .. Len(dialogs'[i].rest) : dialogs'[i].rest[j].chal < m
    BY <1>4, <2>2, <2>3, SMTT(30) DEF Shows, ChallengesBelow
  <2> QED BY <1>1, <2>1, <2>4 DEF ChallengesBelow
<1>5. CASE Returns
  <2>1. \A j \in 1 .. Len(buf') : buf'[j].chal < m
    BY <1>5 DEF Returns, ChallengesBelow
  <2>2. \A i \in 1 .. Len(dialogs') :
          /\ dialogs'[i].chal < m
          /\ \A j \in 1 .. Len(dialogs'[i].rest) : dialogs'[i].rest[j].chal < m
    BY <1>5 DEF Returns, ChallengesBelow
  <2> QED BY <1>1, <2>1, <2>2 DEF ChallengesBelow
<1> QED BY <1>2, <1>3, <1>4, <1>5 DEF Moves

LEMMA ChallengeFetched ==
    ASSUME NEW m \in Nat, ChallengesBelow(m), Fetches, Len(out) \in Nat, UNCHANGED dynCr
    PROVE  ChallengesBelow(m)'
<1>1. \A j \in 1 .. Len(buf') : buf'[j].chal < m
  BY DEF Fetches, ChallengesBelow
<1>2. \A j \in 1 .. Len(out') : out'[j].chal < m
  <2> SUFFICES ASSUME NEW j \in 1 .. Len(out') PROVE out'[j].chal < m
    OBVIOUS
  <2>1. Len(buf') + j \in 1 .. Len(out) /\ out'[j] = out[Len(buf') + j]
    BY DEF Fetches
  <2> QED BY <2>1 DEF ChallengesBelow
<1> QED BY <1>1, <1>2 DEF Fetches, SameDialogs, ChallengesBelow

LEMMA ChallengeAdded ==
    ASSUME NEW m \in Nat, ChallengesBelow(m), DaemonStays,
           \/ UNCHANGED out
           \/ \E k \in Nat : Adds(k) /\ \A j \in Len(out) + 1 .. Len(out) + k : out'[j].chal < m
    PROVE  ChallengesBelow(m)'
<1>1. \A j \in 1 .. Len(out') : out'[j].chal < m
  <2>1. CASE UNCHANGED out
    BY <2>1 DEF ChallengesBelow
  <2>2. ASSUME NEW k \in Nat, Adds(k), \A j \in Len(out) + 1 .. Len(out) + k : out'[j].chal < m
        PROVE  \A j \in 1 .. Len(out') : out'[j].chal < m
    BY <2>2 DEF Adds, ChallengesBelow
  <2> QED BY <2>1, <2>2
<1> QED BY <1>1, Zenon DEF DaemonStays, Stays, ChallengesBelow

LEMMA ChallengesRigid ==
    ASSUME NEW m \in Nat, ChallengesBelow(m)'
    PROVE  /\ m = asked' => ChallengesBelow(asked)'
           /\ m = asked' + 1 => ChallengesBelow(asked + 1)'
BY Zenon DEF ChallengesBelow

LEMMA ChallengeTypes ==
    ASSUME IInv
    PROVE  /\ \A c \in Challenges : c \in Int /\ c >= BadChallenge
           /\ dynCr \in Challenges /\ due \in Challenges /\ need.chal \in Challenges
           /\ need.kind \in Kinds \cup {"none"}
           /\ \A j \in 1 .. Len(out) : out[j].chal \in Challenges
           /\ \A j \in 1 .. Len(buf) : buf[j].chal \in Challenges
           /\ \A i \in 1 .. Len(dialogs) :
                /\ dialogs[i].chal \in Challenges /\ dialogs[i].kind \in Kinds \cup {"CRV1"}
                /\ \A j \in 1 .. Len(dialogs[i].rest) : dialogs[i].rest[j].chal \in Challenges
<1>1. \A c \in Challenges : c \in Int /\ c >= BadChallenge
  BY AuthAssumption DEF Challenges, BadChallenge
<1>2. \A l \in LineRec : l.chal \in Challenges
  BY SMT DEF LineRec
<1>3. dynCr \in Challenges /\ due \in Challenges /\ need.chal \in Challenges
      /\ need.kind \in Kinds \cup {"none"}
  BY SMT DEF IInv, DaemonOK, ReadOK
<1>4. \A i \in 1 .. Len(dialogs) : dialogs[i].chal \in Challenges /\ dialogs[i].kind \in Kinds \cup {"CRV1"}
  BY DialogField DEF IInv
<1> QED BY <1>1, <1>2, <1>3, <1>4, NumberTypes

LEMMA FreshInit == Init => Fresh
BY EmptySeq, SMT DEF Init, Fresh, ChallengesBelow, NoNeed, NoChallenge

\* Every step of the GUI keeps challenges where they are, but for the one it keeps.
LEMMA FreshGui ==
    ASSUME IInv, Fresh, Moves, UNCHANGED <<out, asked, need, due>>,
           \/ dynCr' \in {dynCr, NoChallenge}
           \/ Len(buf) \in Nat \ {0} /\ dynCr' = buf[1].chal,
           Shows => /\ dialogs'[Len(dialogs) + 1].chal \in {dynCr, NoChallenge}
                    /\ dialogs'[Len(dialogs) + 1].chal # BadChallenge
    PROVE  Fresh'
<1>1. ChallengesBelow(asked + 1)'
  <2>1. PICK m \in Nat : m = asked + 1
    BY NumberTypes
  <2>2. ChallengesBelow(m)'
    BY <2>1, ChallengeMoves DEF Fresh
  <2> QED BY <2>1, <2>2, ChallengesRigid
<1>2. ASSUME need # NoNeed PROVE ChallengesBelow(asked)'
  <2>1. PICK m \in Nat : m = asked
    BY NumberTypes
  <2>2. ChallengesBelow(m)'
    BY <1>2, <2>1, ChallengeMoves DEF Fresh
  <2> QED BY <2>1, <2>2, ChallengesRigid
<1>3. \A i \in 1 .. Len(dialogs') : dialogs'[i].chal # BadChallenge
  BY DEF Fresh, Moves, Stays, ReadsOne, Shows, Returns, SameDialogs
<1> QED BY <1>1, <1>2, <1>3 DEF Fresh

LEMMA FreshStep ==
    ASSUME IInv, Fresh, [Next]_vars
    PROVE  Fresh'
<1>1. CASE User \/ Timer
  <2>1. Stays /\ UNCHANGED <<out, dynCr, need, asked, due>>
    BY <1>1, UserMoves
  <2>2. ~Shows
    BY <2>1, NumberTypes DEF Stays, SameDialogs, Shows
  <2> QED BY <2>1, <2>2, FreshGui DEF Moves
<1>2. CASE FdRead
  <2>1. Fetches /\ UNCHANGED <<dynCr, need, asked, due>>
    BY <1>2, FdReadFetches
  <2>2. ChallengesBelow(asked + 1)'
    <3>1. PICK m \in Nat : m = asked + 1
      BY NumberTypes
    <3>2. ChallengesBelow(m)'
      BY <2>1, <3>1, NumberTypes, ChallengeFetched DEF Fresh
    <3> QED BY <2>1, <3>1, <3>2, ChallengesRigid
  <2>3. ASSUME need # NoNeed PROVE ChallengesBelow(asked)'
    <3>1. PICK m \in Nat : m = asked
      BY NumberTypes
    <3>2. ChallengesBelow(m)'
      BY <2>1, <2>3, <3>1, NumberTypes, ChallengeFetched DEF Fresh
    <3> QED BY <2>1, <3>1, <3>2, ChallengesRigid
  <2>4. \A i \in 1 .. Len(dialogs') : dialogs'[i].chal # BadChallenge
    BY <2>1 DEF Fetches, SameDialogs, Fresh
  <2> QED BY <2>1, <2>2, <2>3, <2>4 DEF Fresh
<1>3. CASE DialogReturns
  <2>1. Returns /\ dynCr' \in {dynCr, NoChallenge} /\ UNCHANGED <<out, asked, need, due>>
    BY <1>3, ReturnReturns, Zenon DEF DialogReturns, daemonVars
  <2>2. ~Shows
    BY <2>1 DEF Returns, Shows
  <2> QED BY <2>1, <2>2, FreshGui DEF Moves
<1>4. CASE ReadNeedChallenge \/ ReadNeedAuth \/ ReadNeedKey \/ ReadNeedOther
  <2>1. UNCHANGED <<out, asked, need, due>>
    BY <1>4, NeedMoves
  <2>2. CASE Shows
    <3>1. (UNCHANGED dynCr) /\ dialogs'[Len(dialogs) + 1].chal \in {dynCr, NoChallenge}
          /\ dialogs'[Len(dialogs) + 1].chal # BadChallenge
      <4>1. NoChallenge # BadChallenge /\ ~ReadsOne
        BY <2>2, NumberTypes DEF NoChallenge, BadChallenge, ReadsOne, Shows, SameDialogs
      <4> QED BY <1>4, <4>1, NeedMoves
    <3> QED BY <2>1, <2>2, <3>1, FreshGui DEF Moves
  <2>3. CASE ~Shows
    <3>1. ReadsOne /\ dynCr' \in {dynCr, NoChallenge}
      BY <1>4, <2>3, NeedMoves
    <3> QED BY <2>1, <2>3, <3>1, FreshGui DEF Moves
  <2> QED BY <2>2, <2>3
<1>5. CASE ReadFailed \/ ReadState \/ ReadEcho
  <2>1. ReadsOne /\ (UNCHANGED <<out, asked, need, due>>) /\ dynCr' \in {dynCr, buf[1].chal}
    BY <1>5, NewsMoves
  <2>2. ~Shows /\ Len(buf) \in Nat \ {0}
    BY <2>1, NumberTypes DEF ReadsOne, Shows, SameDialogs
  <2> QED BY <2>1, <2>2, FreshGui DEF Moves
<1>6. ASSUME NEW kind \in Asks, Ask(kind) PROVE Fresh'
  <2>1. /\ DaemonStays /\ Adds(1) /\ asked' = asked + 1 /\ out'[Len(out) + 1].chal = NoChallenge
        /\ need'.kind = kind /\ due' = IF kind = "Auth" THEN NoChallenge ELSE due
    BY <1>6, AskMoves
  <2>2. PICK m \in Nat : m = asked + 1
    BY NumberTypes
  <2>3. ChallengesBelow(m)'
    <3>1. \A j \in Len(out) + 1 .. Len(out) + 1 : out'[j].chal < m
      BY <2>1, <2>2, NumberTypes DEF NoChallenge
    <3> QED BY <2>1, <2>2, <3>1, ChallengeAdded DEF Fresh
  <2>4. ChallengesBelow(m + 1)'
    <3>1. \A x \in Challenges : x < m => x < m + 1
      BY ChallengeTypes
    <3>2. ChallengesBelow(m + 1)
      <4>1. ChallengesBelow(m)
        BY <2>2 DEF Fresh
      <4>2. 0 < m + 1 /\ dynCr < m + 1
        BY <3>1, <4>1, ChallengeTypes DEF ChallengesBelow
      <4>3. \A j \in 1 .. Len(out) : out[j].chal < m + 1
        BY <3>1, <4>1, ChallengeTypes DEF ChallengesBelow
      <4>4. \A j \in 1 .. Len(buf) : buf[j].chal < m + 1
        BY <3>1, <4>1, ChallengeTypes DEF ChallengesBelow
      <4>5. \A i \in 1 .. Len(dialogs) :
              /\ dialogs[i].chal < m + 1
              /\ \A j \in 1 .. Len(dialogs[i].rest) : dialogs[i].rest[j].chal < m + 1
        BY <3>1, <4>1, ChallengeTypes DEF ChallengesBelow
      <4> QED BY <4>2, <4>3, <4>4, <4>5 DEF ChallengesBelow
    <3>3. \A j \in Len(out) + 1 .. Len(out) + 1 : out'[j].chal < m + 1
      BY <2>1, <2>2, NumberTypes DEF NoChallenge
    <3> QED BY <2>1, <2>2, <3>2, <3>3, ChallengeAdded
  <2>5. \A i \in 1 .. Len(dialogs') : dialogs'[i].chal # BadChallenge
    BY <2>1 DEF DaemonStays, Fresh
  <2>6. ChallengesBelow(asked)' /\ ChallengesBelow(asked + 1)'
    <3>1. m = asked' /\ m + 1 = asked' + 1 /\ m + 1 \in Nat
      BY <2>1, <2>2
    <3> QED BY <2>3, <2>4, <3>1, ChallengesRigid
  <2> QED BY <2>1, <2>5, <2>6 DEF Fresh
<1>7. ASSUME DaemonStays, need' = NoNeed, UNCHANGED asked,
             \/ UNCHANGED out
             \/ \E k \in Nat : Adds(k) /\ \A j \in Len(out) + 1 .. Len(out) + k : out'[j].chal < asked + 1
      PROVE  Fresh'
  <2>1. PICK m \in Nat : m = asked + 1
    BY NumberTypes
  <2>2. ChallengesBelow(m)'
    BY <1>7, <2>1, ChallengeAdded DEF Fresh
  <2>3. ChallengesBelow(asked + 1)'
    BY <1>7, <2>1, <2>2, ChallengesRigid
  <2>4. \A i \in 1 .. Len(dialogs') : dialogs'[i].chal # BadChallenge
    BY <1>7 DEF DaemonStays, Fresh
  <2> QED BY <1>7, <2>3, <2>4 DEF Fresh, NoNeed
<1>8. ASSUME DaemonStays, UNCHANGED <<need, asked, due>>,
             UNCHANGED out \/ (Adds(1) /\ out'[Len(out) + 1].chal = NoChallenge)
      PROVE  Fresh'
  <2>1. \A m \in Nat : ChallengesBelow(m) =>
           \/ UNCHANGED out
           \/ \E k \in Nat : Adds(k) /\ \A j \in Len(out) + 1 .. Len(out) + k : out'[j].chal < m
    <3>1. \A j \in Len(out) + 1 .. Len(out) + 1 : j = Len(out) + 1
      BY NumberTypes
    <3>2. \A m \in Nat : ChallengesBelow(m) => NoChallenge < m
      BY DEF ChallengesBelow, NoChallenge
    <3> QED BY <1>8, <3>1, <3>2
  <2>2. ChallengesBelow(asked + 1)'
    <3>1. PICK m \in Nat : m = asked + 1
      BY NumberTypes
    <3>2. ChallengesBelow(m)'
      BY <1>8, <2>1, <3>1, ChallengeAdded DEF Fresh
    <3> QED BY <1>8, <3>1, <3>2, ChallengesRigid
  <2>3. ASSUME need # NoNeed PROVE ChallengesBelow(asked)'
    <3>1. PICK m \in Nat : m = asked
      BY NumberTypes
    <3>2. ChallengesBelow(m)'
      BY <1>8, <2>1, <2>3, <3>1, ChallengeAdded DEF Fresh
    <3> QED BY <1>8, <3>1, <3>2, ChallengesRigid
  <2>4. \A i \in 1 .. Len(dialogs') : dialogs'[i].chal # BadChallenge
    BY <1>8 DEF DaemonStays, Fresh
  <2> QED BY <1>8, <2>2, <2>3, <2>4 DEF Fresh
<1>9. CASE Refuse
  <2>1. need' = NoNeed /\ DaemonStays /\ Adds(2) /\ (UNCHANGED asked)
        /\ due' \in {NoChallenge, asked, BadChallenge}
        /\ out'[Len(out) + 1].chal = due' /\ out'[Len(out) + 2].chal = due'
    <3>1. TakesAnswer
      BY <1>9, Zenon DEF Refuse
    <3> QED BY <1>9, <3>1, RefuseMoves, TakeMoves
  <2>2. \A j \in Len(out) + 1 .. Len(out) + 2 : out'[j].chal < asked + 1
    <3>1. due' < asked + 1
      <4>1. asked \in Nat /\ (due' = NoChallenge \/ due' = asked \/ due' = BadChallenge)
        BY <2>1, NumberTypes
      <4> QED BY <4>1 DEF NoChallenge, BadChallenge
    <3>2. \A j \in Len(out) + 1 .. Len(out) + 2 : j = Len(out) + 1 \/ j = Len(out) + 2
      <4>1. Len(out) \in Nat
        BY NumberTypes
      <4> QED BY <4>1, SMT
    <3> QED BY <2>1, <3>1, <3>2
  <2> QED BY <1>7, <2>1, <2>2
<1>10. CASE Restart \/ Progress \/ Echo
  <2>1. DaemonStays /\ Adds(1) /\ (UNCHANGED asked) /\ out'[Len(out) + 1].chal = NoChallenge
        /\ ((need' = NoNeed /\ due' = NoChallenge) \/ UNCHANGED <<need, due>>)
    BY <1>10, NewLineMoves, Zenon
  <2>2. \A j \in Len(out) + 1 .. Len(out) + 1 : out'[j].chal < asked + 1
    BY <2>1, NumberTypes DEF NoChallenge
  <2> QED BY <1>7, <1>8, <2>1, <2>2
<1>11. CASE DropAnswer \/ Accept \/ Exit
  <2>1. DaemonStays /\ (UNCHANGED <<out, asked, due>>) /\ (need' = NoNeed \/ UNCHANGED need)
    BY <1>11, QuietMoves, TakeMoves
  <2> QED BY <1>7, <1>8, <2>1
<1>12. CASE UNCHANGED vars
  <2>1. UNCHANGED <<buf, out, dialogs, dynCr, failVars, need, asked, due>>
    BY <1>12, Zenon DEF vars, daemonVars
  <2> QED BY <1>8, <2>1, SameIsSame DEF DaemonStays, Stays
<1> QED BY <1>1, <1>2, <1>3, <1>4, <1>5, <1>6, <1>9, <1>10, <1>11, <1>12 DEF Next, GUI, Daemon

-----------------------------------------------------------------------------
(* Where the last question is: on its way, shown, or answered.  A challenge it *)
(* is about is the one that the GUI keeps when it reads the question.          *)

LastIs(s, c) == \E j \in 1 .. Len(s) :
    /\ s[j].name = "failed" /\ s[j].chal = c
    /\ \A k \in 1 .. Len(s) : k > j => s[k].name # "failed"

\* The last failure on its way to the GUI, or the last that was read, is about c.
Latest(c) ==
    \/ LastIs(out, c)
    \/ NoFailure(out) /\ LastIs(buf, c)
    \/ NoFailure(out) /\ NoFailure(buf) /\ dynCr = c

\* Nothing but the last question is a younger one to ask for the user's name.
Passed(l, c) ==
    l.name = "need" /\ l.what = "Auth" => l.n <= c \/ (need.kind = "Auth" /\ l.n = asked)
AllPassed(s, c) == \A j \in 1 .. Len(s) : Passed(s[j], c)

Kept(c) ==
    /\ Latest(c)
    /\ \A i \in 1 .. Len(dialogs) : dialogs[i].chal # c
    /\ c > 0 => /\ AllPassed(out, c) /\ AllPassed(buf, c)
                /\ \A i \in 1 .. Len(dialogs) : AllPassed(dialogs[i].rest, c)

\* Lines that end no dialog which may ask the last question.
Calm(l) == l.name = "echo" \/ (l.name = "state" /\ l.what = "GET_CONFIG" /\ need.kind = "CrText")
AllCalm(s) == \A j \in 1 .. Len(s) : Calm(s[j])

IsAsked(l) == l.name = "need" /\ l.n = asked /\ l.what = need.kind
QuestionIn(s) == \E j \in 1 .. Len(s) :
    /\ IsAsked(s[j])
    /\ \A k \in 1 .. Len(s) : (k < j => s[k].n # asked) /\ (k > j => Calm(s[k]))

OnItsWay ==
    \/ QuestionIn(out)
    \/ QuestionIn(buf) /\ AllCalm(out)
    \/ Len(dialogs) >= 1 /\ QuestionIn(dialogs[Len(dialogs)].rest) /\ AllCalm(buf) /\ AllCalm(out)

OnScreen ==
    /\ Len(dialogs) >= 1 /\ dialogs[Len(dialogs)].open /\ dialogs[Len(dialogs)].n = asked
    /\ Fits(dialogs[Len(dialogs)])
    /\ AllCalm(dialogs[Len(dialogs)].rest) /\ AllCalm(buf) /\ AllCalm(out)

Answered == \E j \in 1 .. Len(in) : in[j].n = asked /\ in[j].kind = need.kind

Coming == OnItsWay /\ (need.kind = "Auth" /\ need.chal # NoChallenge => Kept(need.chal))

Placed ==
    /\ need # NoNeed => Coming \/ OnScreen \/ Answered
    /\ due # NoChallenge => Kept(due)

-----------------------------------------------------------------------------
(* The steps of the GUI keep a challenge. *)

LEMMA KeptStays ==
    ASSUME NEW c \in Challenges, Kept(c), Stays, UNCHANGED <<out, dynCr, need, asked>>
    PROVE  Kept(c)'
<1>1. Latest(c)'
  BY Zenon DEF Kept, Latest, LastIs, NoFailure, Stays
<1>2. \A l : Passed(l, c) => Passed(l, c)'
  BY Zenon DEF Passed
<1>3. \A i \in 1 .. Len(dialogs') : dialogs'[i].chal # c
  BY DEF Kept, Stays, SameDialogs
<1>4. ASSUME c > 0
      PROVE  /\ AllPassed(out, c)' /\ AllPassed(buf, c)'
             /\ \A i \in 1 .. Len(dialogs') : AllPassed(dialogs[i].rest, c)'
  <2>1. AllPassed(out, c)' /\ AllPassed(buf, c)'
    BY <1>2, <1>4, Zenon DEF Kept, AllPassed, Stays
  <2>2. \A i \in 1 .. Len(dialogs') : AllPassed(dialogs[i].rest, c)'
    BY <1>2, <1>4 DEF Kept, AllPassed, Stays, SameDialogs
  <2> QED BY <2>1, <2>2
<1> QED BY <1>1, <1>3, <1>4 DEF Kept

LEMMA LatestReads ==
    ASSUME NEW c \in Challenges, Latest(c), ReadsOne, Len(out) \in Nat,
           IF buf[1].name = "failed" THEN dynCr' = buf[1].chal ELSE UNCHANGED dynCr
    PROVE  Latest(c)'
<1>b. /\ Len(buf) \in Nat \ {0} /\ Len(buf') = Len(buf) - 1 /\ UNCHANGED out
      /\ \A j \in 1 .. Len(buf') : buf'[j] = buf[j + 1] /\ j + 1 \in 1 .. Len(buf)
  BY DEF ReadsOne
<1>1. NoFailure(out) => NoFailure(out)'
  BY <1>b, Zenon DEF NoFailure
<1>2. CASE LastIs(out, c)
  <2>1. LastIs(out, c)'
    BY <1>b, <1>2, Zenon DEF LastIs
  <2> QED BY <2>1 DEF Latest
<1>3. CASE NoFailure(out) /\ LastIs(buf, c)
  <2>1. PICK j \in 1 .. Len(buf) : /\ buf[j].name = "failed" /\ buf[j].chal = c
                                   /\ \A k \in 1 .. Len(buf) : k > j => buf[k].name # "failed"
    BY <1>3 DEF LastIs
  <2>2. CASE j = 1
    <3>1. \A k \in 1 .. Len(buf') : buf'[k].name # "failed"
      BY <1>b, <2>1, <2>2
    <3> QED BY <1>1, <1>3, <2>1, <2>2, <3>1 DEF Latest, NoFailure
  <2>3. CASE j # 1
    <3>1. j - 1 \in 1 .. Len(buf') /\ buf'[j - 1] = buf[j]
      BY <1>b, <2>3
    <3>2. \A k \in 1 .. Len(buf') : k > j - 1 => buf'[k].name # "failed"
      BY <1>b, <2>1
    <3> QED BY <1>1, <1>3, <2>1, <3>1, <3>2 DEF Latest, LastIs
  <2> QED BY <2>2, <2>3
<1>4. CASE NoFailure(out) /\ NoFailure(buf) /\ dynCr = c
  <2>1. NoFailure(buf)' /\ buf[1].name # "failed"
    BY <1>b, <1>4 DEF NoFailure
  <2> QED BY <1>1, <1>4, <2>1 DEF Latest
<1> QED BY <1>2, <1>3, <1>4 DEF Latest

LEMMA KeptReads ==
    ASSUME NEW c \in Challenges, Kept(c), ReadsOne, Len(out) \in Nat, UNCHANGED <<need, asked>>,
           IF buf[1].name = "failed" THEN dynCr' = buf[1].chal ELSE UNCHANGED dynCr
    PROVE  Kept(c)'
<1>1. Latest(c)'
  BY LatestReads DEF Kept
<1>2. \A l : Passed(l, c) => Passed(l, c)'
  BY Zenon DEF Passed
<1>3. \A i \in 1 .. Len(dialogs') : dialogs'[i].chal # c
  BY DEF Kept, ReadsOne, SameDialogs
<1>4. ASSUME c > 0
      PROVE  /\ AllPassed(out, c)' /\ AllPassed(buf, c)'
             /\ \A i \in 1 .. Len(dialogs') : AllPassed(dialogs[i].rest, c)'
  <2>1. AllPassed(out, c)'
    BY <1>2, <1>4, Zenon DEF Kept, AllPassed, ReadsOne
  <2>2. AllPassed(buf, c)'
    BY <1>2, <1>4 DEF Kept, AllPassed, ReadsOne
  <2>3. \A i \in 1 .. Len(dialogs') : AllPassed(dialogs[i].rest, c)'
    BY <1>2, <1>4 DEF Kept, AllPassed, ReadsOne, SameDialogs
  <2> QED BY <2>1, <2>2, <2>3
<1> QED BY <1>1, <1>3, <1>4 DEF Kept

\* No failure is behind a question: one that is shown holds none back.
LEMMA KeptShows ==
    ASSUME NEW c \in Challenges, Kept(c), Shows, UNCHANGED <<dynCr, need, asked>>, NoFailure(buf),
           dialogs'[Len(dialogs) + 1].chal # c
    PROVE  Kept(c)'
<1>1. Latest(c)'
  <2>1. NoFailure(buf)'
    BY DEF Shows, NoFailure
  <2>2. ~LastIs(buf, c)
    BY DEF LastIs, NoFailure
  <2>3. CASE LastIs(out, c)
    <3>1. LastIs(out, c)'
      BY <2>3, Zenon DEF LastIs, Shows
    <3> QED BY <3>1 DEF Latest
  <2>4. CASE NoFailure(out) /\ dynCr = c
    <3>1. NoFailure(out)'
      BY <2>4, Zenon DEF NoFailure, Shows
    <3> QED BY <2>1, <2>4, <3>1 DEF Latest
  <2> QED BY <2>2, <2>3, <2>4 DEF Kept, Latest
<1>2. \A l : Passed(l, c) => Passed(l, c)'
  BY Zenon DEF Passed
<1>3. \A i \in 1 .. Len(dialogs') : dialogs'[i].chal # c
  BY DEF Kept, Shows
<1>4. ASSUME c > 0
      PROVE  /\ AllPassed(out, c)' /\ AllPassed(buf, c)'
             /\ \A i \in 1 .. Len(dialogs') : AllPassed(dialogs[i].rest, c)'
  <2>1. AllPassed(out, c)'
    BY <1>2, <1>4, Zenon DEF Kept, AllPassed, Shows
  <2>2. AllPassed(buf, c)'
    BY DEF AllPassed, Shows
  <2>3. ASSUME NEW j \in 1 .. Len(dialogs'[Len(dialogs) + 1].rest), NEW l,
               l = dialogs'[Len(dialogs) + 1].rest[j]
        PROVE  Passed(l, c)'
    <3>1. j + 1 \in 1 .. Len(buf) /\ dialogs'[Len(dialogs) + 1].rest[j] = buf[j + 1]
      BY DEF Shows
    <3>2. Passed(buf[j + 1], c)
      BY <1>4, <3>1 DEF Kept, AllPassed
    <3> QED BY <1>2, <2>3, <3>1, <3>2
  <2>4. \A i \in 1 .. Len(dialogs) : AllPassed(dialogs[i].rest, c)'
    BY <1>2, <1>4 DEF Kept, AllPassed, Shows
  <2>5. ASSUME NEW i \in 1 .. Len(dialogs') PROVE AllPassed(dialogs[i].rest, c)'
    <3>1. CASE i \in 1 .. Len(dialogs)
      BY <2>4, <3>1
    <3>2. CASE i = Len(dialogs) + 1
      BY <2>3, <3>2 DEF AllPassed
    <3> QED BY <3>1, <3>2 DEF Shows
  <2> QED BY <2>1, <2>2, <2>5
<1> QED BY <1>1, <1>3, <1>4 DEF Kept

LEMMA KeptReturns ==
    ASSUME NEW c \in Challenges, Kept(c), Returns, UNCHANGED <<need, asked>>,
           NoOutcome(dialogs[Len(dialogs)].rest), dynCr = c => dynCr' = c
    PROVE  Kept(c)'
<1>1. Latest(c)'
  <2>1. NoFailure(buf)'
    BY DEF Returns, NoFailure, NoOutcome, IsOutcome
  <2>2. ~LastIs(buf, c)
    BY DEF LastIs, Returns
  <2>3. CASE LastIs(out, c)
    <3>1. LastIs(out, c)'
      BY <2>3, Zenon DEF LastIs, Returns
    <3> QED BY <3>1 DEF Latest
  <2>4. CASE NoFailure(out) /\ dynCr = c
    <3>1. NoFailure(out)'
      BY <2>4, Zenon DEF NoFailure, Returns
    <3> QED BY <2>1, <2>4, <3>1 DEF Latest
  <2> QED BY <2>2, <2>3, <2>4 DEF Kept, Latest
<1>2. \A l : Passed(l, c) => Passed(l, c)'
  BY Zenon DEF Passed
<1>3. \A i \in 1 .. Len(dialogs') : dialogs'[i].chal # c
  BY DEF Kept, Returns
<1>4. ASSUME c > 0
      PROVE  /\ AllPassed(out, c)' /\ AllPassed(buf, c)'
             /\ \A i \in 1 .. Len(dialogs') : AllPassed(dialogs[i].rest, c)'
  <2>1. AllPassed(out, c)'
    BY <1>2, <1>4, Zenon DEF Kept, AllPassed, Returns
  <2>2. AllPassed(buf, c)'
    BY <1>2, <1>4 DEF Kept, AllPassed, Returns
  <2>3. ASSUME NEW i \in 1 .. Len(dialogs') PROVE AllPassed(dialogs[i].rest, c)'
    <3>1. i \in 1 .. Len(dialogs) /\ dialogs'[i] = dialogs[i]
      BY DEF Returns
    <3>2. AllPassed(dialogs[i].rest, c)
      BY <1>4, <3>1 DEF Kept
    <3> QED BY <1>2, <3>1, <3>2, Zenon DEF AllPassed
  <2> QED BY <2>1, <2>2, <2>3
<1> QED BY <1>1, <1>3, <1>4 DEF Kept

LEMMA KeptFetches ==
    ASSUME NEW c \in Challenges, Kept(c), Fetches, Len(out) \in Nat, UNCHANGED <<dynCr, need, asked>>
    PROVE  Kept(c)'
<1>b. /\ Len(buf') \in Nat /\ Len(out') \in Nat /\ Len(out) = Len(buf') + Len(out') /\ buf = <<>>
      /\ \A j \in 1 .. Len(buf') : buf'[j] = out[j] /\ j \in 1 .. Len(out)
      /\ \A j \in 1 .. Len(out') : out'[j] = out[Len(buf') + j] /\ Len(buf') + j \in 1 .. Len(out)
  BY DEF Fetches
<1>1. Latest(c)'
  <2>1. ~LastIs(buf, c)
    BY <1>b DEF LastIs
  <2>2. CASE LastIs(out, c)
    <3>1. PICK j \in 1 .. Len(out) : /\ out[j].name = "failed" /\ out[j].chal = c
                                     /\ \A k \in 1 .. Len(out) : k > j => out[k].name # "failed"
      BY <2>2 DEF LastIs
    <3>2. CASE j <= Len(buf')
      <4>1. LastIs(buf, c)'
        <5>1. j \in 1 .. Len(buf') /\ buf'[j] = out[j]
          BY <1>b, <3>2
        <5>2. \A k \in 1 .. Len(buf') : k > j => buf'[k].name # "failed"
          BY <1>b, <3>1
        <5> QED BY <3>1, <5>1, <5>2 DEF LastIs
      <4>2. NoFailure(out)'
        <5> SUFFICES ASSUME NEW k \in 1 .. Len(out') PROVE out'[k].name # "failed"
          BY DEF NoFailure
        <5>1. Len(buf') + k \in 1 .. Len(out) /\ Len(buf') + k > j /\ out'[k] = out[Len(buf') + k]
          BY <1>b, <3>2
        <5> QED BY <3>1, <5>1
      <4> QED BY <4>1, <4>2 DEF Latest
    <3>3. CASE j > Len(buf')
      <4>1. j - Len(buf') \in 1 .. Len(out') /\ Len(buf') + (j - Len(buf')) = j
        BY <1>b, <3>3
      <4>2. out'[j - Len(buf')] = out[j]
        BY <1>b, <4>1
      <4>3. ASSUME NEW k \in 1 .. Len(out'), k > j - Len(buf') PROVE out'[k].name # "failed"
        <5>1. Len(buf') + k \in 1 .. Len(out) /\ Len(buf') + k > j /\ out'[k] = out[Len(buf') + k]
          BY <1>b, <4>3
        <5> QED BY <3>1, <5>1
      <4> QED BY <3>1, <4>1, <4>2, <4>3 DEF Latest, LastIs
    <3> QED BY <1>b, <3>2, <3>3
  <2>3. CASE NoFailure(out) /\ dynCr = c
    <3>1. NoFailure(out)' /\ NoFailure(buf)'
      BY <1>b, <2>3 DEF NoFailure
    <3> QED BY <2>3, <3>1 DEF Latest
  <2> QED BY <2>1, <2>2, <2>3 DEF Kept, Latest
<1>2. \A l : Passed(l, c) => Passed(l, c)'
  BY Zenon DEF Passed
<1>3. \A i \in 1 .. Len(dialogs') : dialogs'[i].chal # c
  BY DEF Kept, Fetches, SameDialogs
<1>4. ASSUME c > 0
      PROVE  /\ AllPassed(out, c)' /\ AllPassed(buf, c)'
             /\ \A i \in 1 .. Len(dialogs') : AllPassed(dialogs[i].rest, c)'
  <2>1. AllPassed(out, c)'
    BY <1>b, <1>2, <1>4 DEF Kept, AllPassed
  <2>2. AllPassed(buf, c)'
    BY <1>b, <1>2, <1>4 DEF Kept, AllPassed
  <2>3. \A i \in 1 .. Len(dialogs') : AllPassed(dialogs[i].rest, c)'
    BY <1>2, <1>4 DEF Kept, AllPassed, Fetches, SameDialogs
  <2> QED BY <2>1, <2>2, <2>3
<1> QED BY <1>1, <1>3, <1>4 DEF Kept

\* The daemon adds a line that is no failure, and no question but the last.
LEMMA KeptAdds ==
    ASSUME NEW c \in Challenges, Kept(c), DaemonStays, Adds(1),
           out'[Len(out) + 1].name # "failed",
           \A l : l = out'[Len(out) + 1] => Passed(l, c)',
           (need.kind = "Auth" => (UNCHANGED <<need, asked>>))
    PROVE  Kept(c)'
<1>b. /\ Len(out) \in Nat /\ Len(out') = Len(out) + 1 /\ UNCHANGED <<buf, dynCr>>
      /\ \A j \in 1 .. Len(out) : out'[j] = out[j]
      /\ \A j \in 1 .. Len(out') : j \in 1 .. Len(out) \/ j = Len(out) + 1
  BY DEF Adds, DaemonStays, Stays
<1>1. Latest(c)'
  <2>1. CASE LastIs(out, c)
    <3>1. LastIs(out, c)'
      BY <1>b, <2>1 DEF LastIs
    <3> QED BY <3>1 DEF Latest
  <2>2. CASE NoFailure(out) /\ (LastIs(buf, c) \/ (NoFailure(buf) /\ dynCr = c))
    <3>1. NoFailure(out)'
      BY <1>b, <2>2 DEF NoFailure
    <3>2. LastIs(buf, c)' \/ (NoFailure(buf)' /\ dynCr' = c)
      BY <1>b, <2>2, Zenon DEF LastIs, NoFailure
    <3> QED BY <3>1, <3>2 DEF Latest
  <2> QED BY <2>1, <2>2 DEF Kept, Latest
<1>2. \A l : Passed(l, c) => Passed(l, c)'
  BY Zenon DEF Passed
<1>3. \A i \in 1 .. Len(dialogs') : dialogs'[i].chal # c
  BY DEF Kept, DaemonStays
<1>4. ASSUME c > 0
      PROVE  /\ AllPassed(out, c)' /\ AllPassed(buf, c)'
             /\ \A i \in 1 .. Len(dialogs') : AllPassed(dialogs[i].rest, c)'
  <2>1. AllPassed(out, c)'
    <3> SUFFICES ASSUME NEW j \in 1 .. Len(out') PROVE Passed(out[j], c)'
      BY DEF AllPassed
    <3>1. CASE j \in 1 .. Len(out)
      <4>1. Passed(out[j], c) /\ out'[j] = out[j]
        BY <1>b, <1>4, <3>1 DEF Kept, AllPassed
      <4> QED BY <1>2, <4>1
    <3>2. CASE j = Len(out) + 1
      BY <3>2
    <3> QED BY <1>b, <3>1, <3>2
  <2>2. AllPassed(buf, c)'
    BY <1>b, <1>2, <1>4, Zenon DEF Kept, AllPassed
  <2>3. \A i \in 1 .. Len(dialogs') : AllPassed(dialogs[i].rest, c)'
    BY <1>2, <1>4 DEF Kept, AllPassed, DaemonStays
  <2> QED BY <2>1, <2>2, <2>3
<1> QED BY <1>1, <1>3, <1>4 DEF Kept

-----------------------------------------------------------------------------
(* How the last question moves. *)

LEMMA QuestionRigid ==
    ASSUME UNCHANGED <<need, asked>>
    PROVE  \A s : (QuestionIn(s) => QuestionIn(s)') /\ (AllCalm(s) => AllCalm(s)')
BY Zenon DEF QuestionIn, AllCalm, Calm, IsAsked

\* The first line is taken from s.
LEMMA QuestionTail ==
    ASSUME NEW s, NEW t, Len(s) \in Nat \ {0}, Len(t) = Len(s) - 1,
           \A j \in 1 .. Len(s) - 1 : t[j] = s[j + 1]
    PROVE  /\ QuestionIn(s) => (IsAsked(s[1]) /\ AllCalm(t)) \/ (s[1].n # asked /\ QuestionIn(t))
           /\ AllCalm(s) => Calm(s[1]) /\ AllCalm(t)
<1>b. \A j \in 1 .. Len(t) : t[j] = s[j + 1] /\ j + 1 \in 1 .. Len(s)
  OBVIOUS
<1>1. AllCalm(s) => Calm(s[1]) /\ AllCalm(t)
  BY <1>b DEF AllCalm
<1>2. ASSUME NEW j \in 1 .. Len(s), IsAsked(s[j]),
             \A k \in 1 .. Len(s) : (k < j => s[k].n # asked) /\ (k > j => Calm(s[k]))
      PROVE  (IsAsked(s[1]) /\ AllCalm(t)) \/ (s[1].n # asked /\ QuestionIn(t))
  <2>1. CASE j = 1
    BY <1>b, <1>2, <2>1 DEF AllCalm
  <2>2. CASE j # 1
    <3>1. j - 1 \in 1 .. Len(t) /\ t[j - 1] = s[j] /\ s[1].n # asked
      BY <1>b, <1>2, <2>2
    <3>2. \A k \in 1 .. Len(t) : (k < j - 1 => t[k].n # asked) /\ (k > j - 1 => Calm(t[k]))
      BY <1>b, <1>2
    <3> QED BY <1>2, <3>1, <3>2 DEF QuestionIn
  <2> QED BY <2>1, <2>2
<1> QED BY <1>1, <1>2 DEF QuestionIn

\* s is split into t and u.
LEMMA QuestionSplit ==
    ASSUME NEW s, NEW t, NEW u, Len(t) \in Nat, Len(u) \in Nat, Len(s) = Len(t) + Len(u),
           \A j \in 1 .. Len(t) : t[j] = s[j], \A j \in 1 .. Len(u) : u[j] = s[Len(t) + j]
    PROVE  /\ QuestionIn(s) => QuestionIn(u) \/ (QuestionIn(t) /\ AllCalm(u))
           /\ AllCalm(s) => AllCalm(t) /\ AllCalm(u)
<1>b. /\ \A j \in 1 .. Len(t) : t[j] = s[j] /\ j \in 1 .. Len(s)
      /\ \A j \in 1 .. Len(u) : u[j] = s[Len(t) + j] /\ Len(t) + j \in 1 .. Len(s)
  OBVIOUS
<1>1. AllCalm(s) => AllCalm(t) /\ AllCalm(u)
  BY <1>b DEF AllCalm
<1>2. ASSUME NEW j \in 1 .. Len(s), IsAsked(s[j]),
             \A k \in 1 .. Len(s) : (k < j => s[k].n # asked) /\ (k > j => Calm(s[k]))
      PROVE  QuestionIn(u) \/ (QuestionIn(t) /\ AllCalm(u))
  <2>1. CASE j <= Len(t)
    <3>1. j \in 1 .. Len(t) /\ t[j] = s[j]
      BY <1>b, <2>1
    <3>2. \A k \in 1 .. Len(t) : (k < j => t[k].n # asked) /\ (k > j => Calm(t[k]))
      BY <1>b, <1>2
    <3>3. \A k \in 1 .. Len(u) : Calm(u[k])
      BY <1>b, <1>2, <2>1
    <3> QED BY <1>2, <3>1, <3>2, <3>3 DEF QuestionIn, AllCalm
  <2>2. CASE j > Len(t)
    <3>1. j - Len(t) \in 1 .. Len(u) /\ Len(t) + (j - Len(t)) = j
      BY <2>2
    <3>2. u[j - Len(t)] = s[j]
      BY <1>b, <3>1
    <3>3. \A k \in 1 .. Len(u) : (k < j - Len(t) => u[k].n # asked) /\ (k > j - Len(t) => Calm(u[k]))
      BY <1>b, <1>2
    <3> QED BY <1>2, <3>1, <3>2, <3>3 DEF QuestionIn
  <2> QED BY <2>1, <2>2
<1> QED BY <1>1, <1>2 DEF QuestionIn

\* A calm line is added to s.
LEMMA QuestionAdd ==
    ASSUME NEW s, NEW t, Len(s) \in Nat, Len(t) = Len(s) + 1,
           \A j \in 1 .. Len(s) : t[j] = s[j], Calm(t[Len(s) + 1])
    PROVE  (QuestionIn(s) => QuestionIn(t)) /\ (AllCalm(s) => AllCalm(t))
<1>b. \A j \in 1 .. Len(t) : (j \in 1 .. Len(s) /\ t[j] = s[j]) \/ j = Len(s) + 1
  OBVIOUS
<1>1. AllCalm(s) => AllCalm(t)
  BY <1>b DEF AllCalm
<1>2. ASSUME NEW j \in 1 .. Len(s), IsAsked(s[j]),
             \A k \in 1 .. Len(s) : (k < j => s[k].n # asked) /\ (k > j => Calm(s[k]))
      PROVE  QuestionIn(t)
  <2>1. j \in 1 .. Len(t) /\ t[j] = s[j]
    OBVIOUS
  <2>2. \A k \in 1 .. Len(t) : (k < j => t[k].n # asked) /\ (k > j => Calm(t[k]))
    BY <1>b, <1>2
  <2> QED BY <1>2, <2>1, <2>2 DEF QuestionIn
<1> QED BY <1>1, <1>2 DEF QuestionIn

LEMMA AnsweredStays ==
    ASSUME Answered, Answers, UNCHANGED <<need, asked>>
    PROVE  Answered'
<1>1. PICK j \in 1 .. Len(in) : in[j].n = asked /\ in[j].kind = need.kind
  BY DEF Answered
<1>2. j \in 1 .. Len(in') /\ in'[j] = in[j]
  BY DEF Answers
<1> QED BY <1>1, <1>2 DEF Answered

LEMMA WayStays ==
    ASSUME OnItsWay, Stays, Len(dialogs) \in Nat, UNCHANGED <<out, need, asked>>
    PROVE  OnItsWay'
<1>1. \A s : (QuestionIn(s) => QuestionIn(s)') /\ (AllCalm(s) => AllCalm(s)')
  BY QuestionRigid
<1>2. CASE QuestionIn(out)
  BY <1>1, <1>2 DEF OnItsWay
<1>3. CASE QuestionIn(buf) /\ AllCalm(out)
  BY <1>1, <1>3 DEF OnItsWay, Stays
<1>4. CASE Len(dialogs) >= 1 /\ QuestionIn(dialogs[Len(dialogs)].rest) /\ AllCalm(buf) /\ AllCalm(out)
  <2>1. Len(dialogs') = Len(dialogs) /\ dialogs'[Len(dialogs)].rest = dialogs[Len(dialogs)].rest
        /\ UNCHANGED buf
    BY <1>4 DEF Stays, SameDialogs
  <2> QED BY <1>1, <1>4, <2>1 DEF OnItsWay
<1> QED BY <1>2, <1>3, <1>4 DEF OnItsWay

LEMMA WayFetches ==
    ASSUME OnItsWay, Fetches, Len(dialogs) \in Nat, Len(out) \in Nat, UNCHANGED <<need, asked>>
    PROVE  OnItsWay'
<1>1. \A s : (QuestionIn(s) => QuestionIn(s)') /\ (AllCalm(s) => AllCalm(s)')
  BY QuestionRigid
<1>2. /\ QuestionIn(out) => QuestionIn(out') \/ (QuestionIn(buf') /\ AllCalm(out'))
      /\ AllCalm(out) => AllCalm(buf') /\ AllCalm(out')
  <2>1. Len(buf') \in Nat /\ Len(out') \in Nat /\ Len(out) = Len(buf') + Len(out')
        /\ (\A j \in 1 .. Len(buf') : buf'[j] = out[j])
        /\ (\A j \in 1 .. Len(out') : out'[j] = out[Len(buf') + j])
    BY DEF Fetches
  <2> QED BY <2>1, QuestionSplit
<1>3. CASE QuestionIn(out)
  BY <1>1, <1>2, <1>3 DEF OnItsWay
<1>4. ~QuestionIn(buf)
  BY DEF QuestionIn, Fetches
<1>5. CASE Len(dialogs) >= 1 /\ QuestionIn(dialogs[Len(dialogs)].rest) /\ AllCalm(buf) /\ AllCalm(out)
  <2>1. Len(dialogs') = Len(dialogs) /\ dialogs'[Len(dialogs)].rest = dialogs[Len(dialogs)].rest
    BY <1>5 DEF Fetches, SameDialogs
  <2> QED BY <1>1, <1>2, <1>5, <2>1 DEF OnItsWay
<1> QED BY <1>3, <1>4, <1>5 DEF OnItsWay

LEMMA WayReturns ==
    ASSUME OnItsWay, Returns, UNCHANGED <<need, asked>>
    PROVE  OnItsWay'
<1>1. \A s : (QuestionIn(s) => QuestionIn(s)') /\ (AllCalm(s) => AllCalm(s)')
  BY QuestionRigid
<1>2. CASE QuestionIn(out)
  BY <1>1, <1>2 DEF OnItsWay, Returns
<1>3. ~QuestionIn(buf)
  BY DEF QuestionIn, Returns
<1>4. CASE Len(dialogs) >= 1 /\ QuestionIn(dialogs[Len(dialogs)].rest) /\ AllCalm(buf) /\ AllCalm(out)
  BY <1>1, <1>4 DEF OnItsWay, Returns
<1> QED BY <1>2, <1>3, <1>4 DEF OnItsWay

\* A line that is not the last question is read.
LEMMA WayReads ==
    ASSUME OnItsWay, ReadsOne, ~IsAsked(buf[1]), Len(dialogs) \in Nat, UNCHANGED <<need, asked>>
    PROVE  OnItsWay'
<1>1. \A s : (QuestionIn(s) => QuestionIn(s)') /\ (AllCalm(s) => AllCalm(s)')
  BY QuestionRigid
<1>2. (QuestionIn(buf) => QuestionIn(buf')) /\ (AllCalm(buf) => AllCalm(buf'))
  BY QuestionTail DEF ReadsOne
<1>3. CASE QuestionIn(out)
  BY <1>1, <1>3 DEF OnItsWay, ReadsOne
<1>4. CASE QuestionIn(buf) /\ AllCalm(out)
  BY <1>1, <1>2, <1>4 DEF OnItsWay, ReadsOne
<1>5. CASE Len(dialogs) >= 1 /\ QuestionIn(dialogs[Len(dialogs)].rest) /\ AllCalm(buf) /\ AllCalm(out)
  <2>1. Len(dialogs') = Len(dialogs) /\ dialogs'[Len(dialogs)].rest = dialogs[Len(dialogs)].rest
        /\ UNCHANGED out
    BY <1>5 DEF ReadsOne, SameDialogs
  <2> QED BY <1>1, <1>2, <1>5, <2>1 DEF OnItsWay
<1> QED BY <1>3, <1>4, <1>5 DEF OnItsWay

\* Another question is shown.
LEMMA WayShows ==
    ASSUME OnItsWay, Shows, ~IsAsked(buf[1]), ~Calm(buf[1]), UNCHANGED <<need, asked>>
    PROVE  OnItsWay'
<1>1. \A s : (QuestionIn(s) => QuestionIn(s)') /\ (AllCalm(s) => AllCalm(s)')
  BY QuestionRigid
<1>2. LET rest == dialogs'[Len(dialogs) + 1].rest
      IN  (QuestionIn(buf) => QuestionIn(rest)) /\ ~AllCalm(buf)
  <2> DEFINE rest == dialogs'[Len(dialogs) + 1].rest
  <2>1. Len(buf) \in Nat \ {0} /\ Len(rest) = Len(buf) - 1 /\ \A j \in 1 .. Len(buf) - 1 : rest[j] = buf[j + 1]
    BY DEF Shows
  <2> HIDE DEF rest
  <2>2. (QuestionIn(buf) => QuestionIn(rest)) /\ ~AllCalm(buf)
    BY <2>1, QuestionTail
  <2> QED BY <2>2 DEF rest
<1>3. CASE QuestionIn(out)
  BY <1>1, <1>3 DEF OnItsWay, Shows
<1>4. CASE QuestionIn(buf) /\ AllCalm(out)
  <2>1. AllCalm(buf)' /\ Len(dialogs') >= 1
    BY DEF AllCalm, Shows
  <2>2. QuestionIn(dialogs[Len(dialogs)].rest)'
    BY <1>1, <1>2, <1>4 DEF Shows
  <2>3. AllCalm(out)'
    BY <1>1, <1>4 DEF Shows
  <2> QED BY <2>1, <2>2, <2>3 DEF OnItsWay
<1> QED BY <1>2, <1>3, <1>4 DEF OnItsWay

LEMMA StoppingGrows ==
    ASSUME [Next]_vars, stopping
    PROVE  stopping'
<1>1. ASSUME NEW i \in 1 .. Len(dialogs),
             OkAuth(i) \/ OkOther(i) \/ TypePassword(i) \/ Interrupt(i) \/ ToggleSave(i)
             \/ Cancel(i) \/ CloseX(i) \/ TimerFires(i)
      PROVE  stopping'
  BY <1>1, Zenon DEF OkAuth, OkOther, TypePassword, Interrupt, ToggleSave, Cancel, CloseX, TimerFires, userVars
<1>2. ResetDeletes \/ ResetClears => stopping'
  BY Zenon DEF ResetDeletes, ResetClears
<1>3. CASE GUI
  BY <1>3, Zenon DEF GUI, FdRead, DialogReturns, ReadNeedChallenge, ReadNeedAuth, ReadNeedKey, ReadNeedOther,
                ReadFailed, ReadState, ReadEcho, userVars
<1>4. CASE Daemon
  BY <1>4, Zenon DEF Daemon, Ask, DropAnswer, Accept, Refuse, Restart, Progress, Echo, Exit, userVars
<1>5. CASE UNCHANGED vars
  BY <1>5, Zenon DEF vars, userVars
<1> QED BY <1>1, <1>2, <1>3, <1>4, <1>5, Zenon DEF Next, User, Timer

\* The user and the daemon leave dynCr, a dialog of an older question has another challenge.
LEMMA KeptNeed ==
    ASSUME IInv, Order, NEW c \in Challenges, c # NoChallenge, Kept(c), excused' = {},
           ReadNeedChallenge \/ ReadNeedAuth \/ ReadNeedKey \/ ReadNeedOther,
           ~(need.kind = "Auth" /\ buf[1].n = asked)
    PROVE  Kept(c)'
<1>1. Reads("need") /\ UNCHANGED <<out, need, asked>>
  BY NeedMoves
<1>2. buf[1].name = "need" /\ 1 \in 1 .. Len(buf) /\ Len(buf) \in Nat \ {0}
  BY <1>1, ReadHead
<1>3. NoFailure(buf)
  <2>1. ASSUME NEW k \in 1 .. Len(buf), k # 1 PROVE ~IsOutcome(buf[k])
    BY <1>2, <2>1 DEF Order, OutcomesFirst
  <2> QED BY <1>2, <2>1 DEF NoFailure, IsOutcome
<1>4. Len(out) \in Nat
  BY NumberTypes
<1>5. CASE Shows /\ UNCHANGED dynCr
  <2>1. dialogs'[Len(dialogs) + 1].chal # c
    <3>1. CASE buf[1].what = "Auth" /\ dynCr # NoChallenge
      <4>1. ~ReadsOne
        BY <1>4, <1>5, NumberTypes DEF ReadsOne, Shows, SameDialogs
      <4>2. dialogs'[Len(dialogs) + 1].chal = dynCr /\ dynCr # BadChallenge /\ ~(buf[1].n <= dynCr)
        BY <3>1, <4>1, NeedMoves
      <4>3. ASSUME dynCr = c PROVE FALSE
        <5>1. c > 0
          BY <4>2, <4>3, ChallengeTypes DEF NoChallenge, BadChallenge
        <5>2. Passed(buf[1], c)
          BY <1>2, <5>1 DEF Kept, AllPassed
        <5> QED BY <1>2, <3>1, <4>2, <4>3, <5>2 DEF Passed
      <4> QED BY <4>2, <4>3
    <3>2. CASE ~(buf[1].what = "Auth" /\ dynCr # NoChallenge)
      <4>1. ~ReadsOne
        BY <1>4, <1>5, NumberTypes DEF ReadsOne, Shows, SameDialogs
      <4> QED BY <3>2, <4>1, NeedMoves
    <3> QED BY <3>1, <3>2
  <2> QED BY <1>1, <1>3, <1>5, <2>1, KeptShows
<1>6. CASE ReadsOne /\ UNCHANGED dynCr
  BY <1>1, <1>2, <1>4, <1>6, KeptReads
<1> QED BY <1>5, <1>6, NeedMoves

LEMMA KeptNews ==
    ASSUME IInv, NEW c \in Challenges, Kept(c), ReadFailed \/ ReadState \/ ReadEcho
    PROVE  Kept(c)'
<1>1. /\ ReadsOne /\ UNCHANGED <<out, need, asked>>
      /\ IF buf[1].name = "failed" THEN dynCr' = buf[1].chal ELSE UNCHANGED dynCr
  BY NewsMoves
<1> QED BY <1>1, NumberTypes, KeptReads

LEMMA KeptReturn ==
    ASSUME IInv, Order, NEW c \in Challenges, c # NoChallenge, Kept(c), excused' = {}, DialogReturns
    PROVE  Kept(c)'
<1>1. Returns /\ Last = dialogs[Len(dialogs)] /\ Len(dialogs) \in Nat \ {0}
  BY ReturnReturns, NumberTypes DEF Returns
<1>2. /\ UNCHANGED <<need, asked>> /\ dynCr' = IF Last.kind = "CRV1" THEN NoChallenge ELSE dynCr
      /\ excused' = excused \cup (IF Last.kind = "CRV1" /\ dynCr \notin {Last.chal, NoChallenge}
                                  THEN {"dropped"} ELSE {})
  BY Zenon DEF DialogReturns, daemonVars
<1>3. dynCr = c => dynCr' = c
  <2>1. Last.chal # c
    BY <1>1 DEF Kept
  <2>2. ~(Last.kind = "CRV1" /\ dynCr \notin {Last.chal, NoChallenge})
    BY <1>2
  <2> QED BY <1>2, <2>1, <2>2
<1>4. NoOutcome(dialogs[Len(dialogs)].rest)
  BY <1>1 DEF Order
<1> QED BY <1>1, <1>2, <1>3, <1>4, KeptReturns

LEMMA KeptFetch ==
    ASSUME IInv, NEW c \in Challenges, Kept(c), FdRead
    PROVE  Kept(c)'
BY FdReadFetches, NumberTypes, KeptFetches

LEMMA KeptUser ==
    ASSUME IInv, NEW c \in Challenges, Kept(c), User \/ Timer
    PROVE  Kept(c)'
BY UserMoves, KeptStays

-----------------------------------------------------------------------------
(* Placed *)

\* The lines and dialogs of the last question after a step that keeps the challenges.
LEMMA StillComing ==
    ASSUME IInv, UNCHANGED need, Coming, OnItsWay',
           \A c \in Challenges : c # NoChallenge /\ Kept(c) => Kept(c)'
    PROVE  Coming'
<1>1. need.chal \in Challenges
  BY ChallengeTypes
<1>2. need.kind = "Auth" /\ need.chal # NoChallenge => Kept(need.chal)'
  BY <1>1 DEF Coming
<1> QED BY <1>2 DEF Coming

LEMMA StillDue ==
    ASSUME IInv, UNCHANGED due, due # NoChallenge => Kept(due),
           \A c \in Challenges : c # NoChallenge /\ Kept(c) => Kept(c)'
    PROVE  (due # NoChallenge => Kept(due))'
<1>1. due \in Challenges
  BY ChallengeTypes
<1> QED BY <1>1

LEMMA PlacedUser ==
    ASSUME IInv, Placed, excused' = {}, ~stopping', User \/ Timer
    PROVE  Placed'
<1>1. Stays /\ Answers /\ UNCHANGED <<out, dynCr, need, asked, due>>
  BY UserMoves
<1>2. \A c \in Challenges : c # NoChallenge /\ Kept(c) => Kept(c)'
  BY KeptUser
<1>3. ASSUME OnScreen PROVE OnScreen' \/ Answered'
  <2> DEFINE last == Len(dialogs)
  <2>1. last \in Nat \ {0} /\ last \in 1 .. Len(dialogs) /\ Len(dialogs') = last
        /\ dialogs'[last].n = asked' /\ dialogs'[last].rest = dialogs[last].rest
        /\ dialogs'[last].kind = dialogs[last].kind /\ dialogs'[last].chal = dialogs[last].chal
    BY <1>1, <1>3, NumberTypes DEF OnScreen, Stays, SameDialogs
  <2>2. dialogs'[last].open \/ Answered'
    <3> SUFFICES ASSUME ~dialogs'[last].open PROVE Answered'
      OBVIOUS
    <3>1. dialogs[last].open
      BY <1>3 DEF OnScreen
    <3>2. PICK i \in 1 .. Len(dialogs) :
             OkAuth(i) \/ OkOther(i) \/ TypePassword(i) \/ Interrupt(i) \/ ToggleSave(i) \/ TimerFires(i)
      <4>1. ~ResetDeletes /\ ~ResetClears
        <5>1. UNCHANGED dialogs => dialogs'[last].open
          BY <3>1
        <5> QED BY <5>1, Zenon DEF ResetDeletes, ResetClears
      <4>2. \A i \in 1 .. Len(dialogs) : ~Cancel(i) /\ ~CloseX(i)
        <5>1. \A i \in 1 .. Len(dialogs) : ~Cancel(i)
          BY Zenon DEF Cancel
        <5>2. \A i \in 1 .. Len(dialogs) : CloseX(i) => excused' = excused \cup {"closed"}
          BY Zenon DEF CloseX
        <5>3. excused \cup {"closed"} # {}
          OBVIOUS
        <5> QED BY <5>1, <5>2, <5>3
      <4> QED BY <4>1, <4>2, Zenon DEF User, Timer
    <3>3. i = last /\ (OkAuth(i) \/ OkOther(i) \/ TimerFires(i))
      <4>1. dialogs \in Seq(DialogRec(options.silent)) /\ DOMAIN dialogs = 1 .. Len(dialogs)
        BY LenProperties DEF IInv, DialogsOK
      <4>2. dialogs[last] \in DialogFields
        BY <2>1, DialogField DEF IInv
      <4>3. TypePassword(i) \/ Interrupt(i) \/ ToggleSave(i) => dialogs'[last].open
        <5>1. TypePassword(i) \/ Interrupt(i) \/ ToggleSave(i) =>
                 \/ UNCHANGED dialogs
                 \/ dialogs' = [dialogs EXCEPT ![i].timer = FALSE]
                 \/ \E p : dialogs' = [dialogs EXCEPT ![i].pass = p, ![i].timer = FALSE]
          BY Zenon DEF TypePassword, Interrupt, ToggleSave
        <5>2. [dialogs EXCEPT ![i].timer = FALSE][last].open
          BY <2>1, <3>1, <4>1, <4>2 DEF DialogFields
        <5>3. \A p : [dialogs EXCEPT ![i].pass = p, ![i].timer = FALSE][last].open
          <6> SUFFICES ASSUME NEW p PROVE [dialogs EXCEPT ![i].pass = p, ![i].timer = FALSE][last].open
            OBVIOUS
          <6> DEFINE e == [dialogs[last] EXCEPT !.pass = p, !.timer = FALSE]
          <6>1. e.open
            BY <3>1, <4>2, Zenon DEF DialogFields
          <6>2. [dialogs EXCEPT ![i].pass = p, ![i].timer = FALSE][last] = IF i = last THEN e ELSE dialogs[last]
            BY <2>1, <4>1
          <6> HIDE DEF e
          <6> QED BY <3>1, <6>1, <6>2
        <5> QED BY <3>1, <5>1, <5>2, <5>3
      <4>4. OkAuth(i) \/ OkOther(i) \/ TimerFires(i) =>
               \/ dialogs' = [dialogs EXCEPT ![i].open = FALSE]
               \/ dialogs' = [dialogs EXCEPT ![i].open = FALSE, ![i].timer = FALSE]
        BY Zenon DEF OkAuth, OkOther, TimerFires, EndDialog
      <4>5. i # last => [dialogs EXCEPT ![i].open = FALSE][last] = dialogs[last]
                        /\ [dialogs EXCEPT ![i].open = FALSE, ![i].timer = FALSE][last] = dialogs[last]
        BY <2>1, <4>1
      <4> QED BY <3>1, <3>2, <4>3, <4>4, <4>5
    <3>4. PICK a \in AnswerRec : in' = Append(in, a) /\ a.n = dialogs[last].n
                                 /\ a.kind = IF dialogs[last].kind = "CRV1" THEN "Auth" ELSE dialogs[last].kind
      BY <2>1, <3>3, AnswersOf
    <3>5. a.n = asked /\ a.kind = need.kind
      <4>1. dialogs[last].n = asked /\ Fits(dialogs[last])
        BY <1>3 DEF OnScreen
      <4>2. Fits(dialogs[last]) =>
               need.kind = IF dialogs[last].kind = "CRV1" THEN "Auth" ELSE dialogs[last].kind
        BY ChallengeTypes DEF Fits, Kinds
      <4> QED BY <3>4, <4>1, <4>2
    <3>6. Len(in) + 1 \in 1 .. Len(in') /\ in'[Len(in) + 1] = a
      BY <3>4, LenProperties, AppendProperties DEF IInv, InOK
    <3> QED BY <1>1, <3>5, <3>6 DEF Answered
  <2>3. Fits(dialogs[Len(dialogs)])'
    BY <1>1, <1>3, <2>1, Zenon DEF OnScreen, Fits
  <2>4. AllCalm(dialogs[Len(dialogs)].rest)' /\ AllCalm(buf)' /\ AllCalm(out)'
    BY <1>1, <1>3, <2>1, QuestionRigid DEF OnScreen, Stays
  <2> QED BY <2>1, <2>2, <2>3, <2>4 DEF OnScreen
<1>4. need # NoNeed => Coming' \/ OnScreen' \/ Answered'
  BY <1>1, <1>2, <1>3, WayStays, AnsweredStays, StillComing, NumberTypes DEF Placed, Coming
<1>5. (due # NoChallenge => Kept(due))'
  BY <1>1, <1>2, StillDue DEF Placed
<1> QED BY <1>1, <1>4, <1>5 DEF Placed, NoNeed

LEMMA PlacedFetch ==
    ASSUME IInv, Placed, FdRead
    PROVE  Placed'
<1>1. Fetches /\ Answers /\ UNCHANGED <<in, dynCr, need, asked, due>>
  BY FdReadFetches, AnswersSame
<1>2. \A c \in Challenges : c # NoChallenge /\ Kept(c) => Kept(c)'
  BY KeptFetch
<1>3. ASSUME OnScreen PROVE OnScreen'
  <2> DEFINE last == Len(dialogs)
  <2>1. last \in Nat \ {0} /\ last \in 1 .. Len(dialogs) /\ Len(dialogs') = last
        /\ dialogs'[last].n = asked' /\ dialogs'[last].rest = dialogs[last].rest
        /\ dialogs'[last].kind = dialogs[last].kind /\ dialogs'[last].chal = dialogs[last].chal
    BY <1>1, <1>3, NumberTypes DEF OnScreen, Fetches, SameDialogs
  <2>2. dialogs'[last].open
    <3>1. UNCHANGED dialogs
      BY Zenon DEF FdRead
    <3> QED BY <1>3, <3>1 DEF OnScreen
  <2>3. Fits(dialogs[Len(dialogs)])'
    BY <1>1, <1>3, <2>1, Zenon DEF OnScreen, Fits
  <2>4. AllCalm(buf') /\ AllCalm(out')
    <3>1. Len(buf') \in Nat /\ Len(out') \in Nat /\ Len(out) = Len(buf') + Len(out')
          /\ (\A j \in 1 .. Len(buf') : buf'[j] = out[j])
          /\ (\A j \in 1 .. Len(out') : out'[j] = out[Len(buf') + j])
      BY <1>1, NumberTypes DEF Fetches
    <3>2. AllCalm(out)
      BY <1>3 DEF OnScreen
    <3> QED BY <3>1, <3>2, QuestionSplit
  <2>5. AllCalm(dialogs[Len(dialogs)].rest)' /\ AllCalm(buf)' /\ AllCalm(out)'
    BY <1>1, <1>3, <2>1, <2>4, QuestionRigid DEF OnScreen
  <2> QED BY <2>1, <2>2, <2>3, <2>5 DEF OnScreen
<1>4. need # NoNeed => Coming' \/ OnScreen' \/ Answered'
  BY <1>1, <1>2, <1>3, WayFetches, AnsweredStays, StillComing, NumberTypes DEF Placed, Coming
<1>5. (due # NoChallenge => Kept(due))'
  BY <1>1, <1>2, StillDue DEF Placed
<1> QED BY <1>1, <1>4, <1>5 DEF Placed, NoNeed

LEMMA PlacedReturn ==
    ASSUME IInv, Order, Placed, excused' = {}, DialogReturns
    PROVE  Placed'
<1>1. Returns /\ Answers /\ UNCHANGED <<in, need, asked, due>>
  BY ReturnReturns, AnswersSame, Zenon DEF DialogReturns, daemonVars
<1>2. \A c \in Challenges : c # NoChallenge /\ Kept(c) => Kept(c)'
  BY KeptReturn
<1>3. ~OnScreen
  <2>1. Last = dialogs[Len(dialogs)] /\ ~Last.open
    BY ReturnReturns, Zenon DEF DialogReturns
  <2> QED BY <2>1 DEF OnScreen
<1>4. need # NoNeed => Coming' \/ OnScreen' \/ Answered'
  BY <1>1, <1>2, <1>3, WayReturns, AnsweredStays, StillComing DEF Placed, Coming
<1>5. (due # NoChallenge => Kept(due))'
  BY <1>1, <1>2, StillDue DEF Placed
<1> QED BY <1>1, <1>4, <1>5 DEF Placed, NoNeed

\* A state change ends the dialog of the last question only when it is answered.
LEMMA PlacedNews ==
    ASSUME IInv, Placed, ReadFailed \/ ReadState \/ ReadEcho
    PROVE  Placed'
<1>1. /\ ReadsOne /\ Answers /\ UNCHANGED <<out, in, need, asked, due>> /\ buf[1].name # "need"
      /\ IF buf[1].name = "state"
         THEN \A i \in 1 .. Len(dialogs) :
                IF dialogs[i].kind = "CrText" /\ buf[1].what = "GET_CONFIG"
                THEN dialogs'[i] = dialogs[i] ELSE ~dialogs'[i].open
         ELSE UNCHANGED <<dialogs, failVars>>
  BY NewsMoves, AnswersSame
<1>2. \A c \in Challenges : c # NoChallenge /\ Kept(c) => Kept(c)'
  BY KeptNews
<1>3. ASSUME OnScreen PROVE OnScreen'
  <2> DEFINE last == Len(dialogs)
  <2>1. last \in Nat \ {0} /\ last \in 1 .. Len(dialogs) /\ Len(dialogs') = last
        /\ dialogs'[last].n = asked' /\ dialogs'[last].rest = dialogs[last].rest
        /\ dialogs'[last].kind = dialogs[last].kind /\ dialogs'[last].chal = dialogs[last].chal
    BY <1>1, <1>3, NumberTypes DEF OnScreen, ReadsOne, SameDialogs
  <2>2. Calm(buf[1]) /\ AllCalm(buf')
    BY <1>1, <1>3, QuestionTail DEF OnScreen, ReadsOne
  <2>3. dialogs'[last] = dialogs[last]
    <3>1. CASE buf[1].name = "state"
      <4>1. buf[1].what = "GET_CONFIG" /\ need.kind = "CrText"
        BY <2>2, <3>1 DEF Calm
      <4>2. dialogs[last].kind = "CrText"
        BY <1>3, <4>1 DEF OnScreen, Fits
      <4> QED BY <1>1, <2>1, <3>1, <4>1, <4>2
    <3>2. CASE buf[1].name # "state"
      BY <1>1, <3>2
    <3> QED BY <3>1, <3>2
  <2>4. dialogs'[last].open
    BY <1>3, <2>3 DEF OnScreen
  <2>5. Fits(dialogs[Len(dialogs)])'
    BY <1>1, <1>3, <2>1, Zenon DEF OnScreen, Fits
  <2>6. AllCalm(dialogs[Len(dialogs)].rest)' /\ AllCalm(buf)' /\ AllCalm(out)'
    BY <1>1, <1>3, <2>1, <2>2, QuestionRigid DEF OnScreen
  <2> QED BY <2>1, <2>4, <2>5, <2>6 DEF OnScreen
<1>4. ~IsAsked(buf[1])
  BY <1>1 DEF IsAsked
<1>5. need # NoNeed => Coming' \/ OnScreen' \/ Answered'
  BY <1>1, <1>2, <1>3, <1>4, WayReads, AnsweredStays, StillComing, NumberTypes DEF Placed, Coming
<1>6. (due # NoChallenge => Kept(due))'
  BY <1>1, <1>2, StillDue DEF Placed
<1> QED BY <1>1, <1>5, <1>6 DEF Placed, NoNeed

\* The line that is read is the last question: it is shown, or answered at once.
LEMMA PlacedAsked ==
    ASSUME IInv, Order, Numbers, Coming, excused' = {},
           ReadNeedChallenge \/ ReadNeedAuth \/ ReadNeedKey \/ ReadNeedOther, buf[1].n = asked
    PROVE  OnScreen' \/ Answered'
<1>1. Reads("need") /\ UNCHANGED <<out, need, asked>>
  BY NeedMoves
<1>2. buf[1].name = "need" /\ 1 \in 1 .. Len(buf) /\ Len(buf) \in Nat \ {0} /\ ~Calm(buf[1])
  BY <1>1, ReadHead DEF Calm
<1>3. ~QuestionIn(out)
  <2>1. ASSUME NEW j \in 1 .. Len(out), IsAsked(out[j]) PROVE FALSE
    <3>1. GuiBelow(asked)
      BY <2>1, Zenon DEF Numbers, IsAsked
    <3> QED BY <1>2, <3>1, NumberTypes DEF GuiBelow, Below
  <2> QED BY <2>1 DEF QuestionIn
<1>4. ~AllCalm(buf)
  BY <1>2 DEF AllCalm
<1>5. PICK j \in 1 .. Len(buf) : /\ IsAsked(buf[j])
                                 /\ \A k \in 1 .. Len(buf) : (k < j => buf[k].n # asked) /\ (k > j => Calm(buf[k]))
  BY <1>3, <1>4 DEF Coming, OnItsWay, QuestionIn
<1>6. AllCalm(out)
  BY <1>3, <1>4 DEF Coming, OnItsWay
<1>7. j = 1 /\ buf[1].what = need.kind
  BY <1>2, <1>5 DEF IsAsked
<1>8. CASE Shows /\ UNCHANGED dynCr
  <2> DEFINE d == dialogs'[Len(dialogs) + 1]
  <2>1. ~ReadsOne
    BY <1>8, NumberTypes DEF ReadsOne, Shows, SameDialogs
  <2>2. /\ d.open /\ d.n = asked
        /\ IF buf[1].what = "Auth" /\ dynCr # NoChallenge
           THEN d.kind = "CRV1" /\ d.chal = dynCr
           ELSE d.kind = buf[1].what /\ d.chal = NoChallenge
    BY <1>8, <2>1, NeedMoves DEF Shows
  <2>3. need.kind = "Auth" /\ need.chal # NoChallenge => dynCr = need.chal
    <3> SUFFICES ASSUME need.kind = "Auth", need.chal # NoChallenge PROVE dynCr = need.chal
      OBVIOUS
    <3>1. ~LastIs(out, need.chal)
      BY <1>6 DEF LastIs, AllCalm, Calm
    <3>2. ~LastIs(buf, need.chal)
      BY <1>2, <1>5, <1>7 DEF LastIs, Calm
    <3> QED BY <3>1, <3>2 DEF Coming, Kept, Latest
  <2>4. Len(dialogs') = Len(dialogs) + 1 /\ Len(dialogs') >= 1 /\ buf' = <<>>
    BY <1>8 DEF Shows
  <2> HIDE DEF d
  <2>5. Fits(d)
    BY <1>7, <2>2, <2>3 DEF Fits
  <2>6. AllCalm(d.rest)
    <3>1. \A k \in 1 .. Len(d.rest) : d.rest[k] = buf[k + 1] /\ k + 1 \in 1 .. Len(buf) /\ k + 1 > 1
      BY <1>8 DEF d, Shows
    <3> QED BY <1>5, <1>7, <3>1 DEF AllCalm
  <2>7. Fits(dialogs[Len(dialogs)])'
    <3>1. \A x : Fits(x) => Fits(x)'
      BY <1>1, Zenon DEF Fits
    <3> QED BY <2>4, <2>5, <3>1 DEF d
  <2>8. AllCalm(dialogs[Len(dialogs)].rest)' /\ AllCalm(buf)' /\ AllCalm(out)'
    <3>1. AllCalm(buf)'
      BY <2>4 DEF AllCalm
    <3> QED BY <1>1, <1>6, <2>4, <2>6, <3>1, QuestionRigid DEF d
  <2>9. dialogs'[Len(dialogs')].open /\ dialogs'[Len(dialogs')].n = asked'
    BY <1>1, <2>2, <2>4 DEF d
  <2> QED BY <2>4, <2>7, <2>8, <2>9 DEF OnScreen
<1>9. CASE Len(in) \in Nat /\ Len(in') = Len(in) + 1
           /\ in'[Len(in) + 1].n = buf[1].n /\ in'[Len(in) + 1].kind = buf[1].what
  <2>1. Len(in) + 1 \in 1 .. Len(in')
    BY <1>9
  <2> QED BY <1>1, <1>7, <1>9, <2>1 DEF Answered
<1> QED BY <1>8, <1>9, NeedMoves

LEMMA PlacedNeed ==
    ASSUME IInv, Order, Numbers, Fresh, Placed, excused' = {},
           ReadNeedChallenge \/ ReadNeedAuth \/ ReadNeedKey \/ ReadNeedOther
    PROVE  Placed'
<1>1. Reads("need") /\ Answers /\ UNCHANGED <<out, need, asked, due>> /\ (Shows \/ ReadsOne)
  BY NeedMoves
<1>2. buf[1].name = "need" /\ 1 \in 1 .. Len(buf) /\ Len(buf) \in Nat \ {0} /\ ~Calm(buf[1])
  BY <1>1, ReadHead DEF Calm
<1>3. ~OnScreen
  BY <1>2 DEF OnScreen, AllCalm
<1>4. (due # NoChallenge => Kept(due))'
  <2> SUFFICES ASSUME due # NoChallenge PROVE Kept(due)'
    BY <1>1
  <2>1. need.kind # "Auth" /\ due \in Challenges /\ Kept(due)
    BY ChallengeTypes DEF Fresh, Placed
  <2> QED BY <1>1, <2>1, KeptNeed
<1>5. ASSUME Coming PROVE Coming' \/ OnScreen' \/ Answered'
  <2>1. CASE buf[1].n = asked
    BY <1>5, <2>1, PlacedAsked
  <2>2. CASE buf[1].n # asked
    <3>1. ~IsAsked(buf[1])
      BY <2>2 DEF IsAsked
    <3>2. OnItsWay'
      BY <1>1, <1>2, <1>5, <3>1, WayShows, WayReads, NumberTypes DEF Coming
    <3>3. \A c \in Challenges : c # NoChallenge /\ Kept(c) => Kept(c)'
      BY <2>2, KeptNeed
    <3> QED BY <1>1, <1>5, <3>2, <3>3, StillComing
  <2> QED BY <2>1, <2>2
<1>6. Answered => Answered'
  BY <1>1, AnsweredStays
<1> QED BY <1>1, <1>3, <1>4, <1>5, <1>6 DEF Placed, NoNeed

\* The daemon sends nothing and asks the same, or what it asked was no user's name.
LEMMA KeptQuiet ==
    ASSUME NEW c \in Challenges, Kept(c), DaemonStays, UNCHANGED <<out, asked>>,
           need.kind # "Auth" \/ UNCHANGED need
    PROVE  Kept(c)'
<1>1. Latest(c)'
  BY Zenon DEF Kept, Latest, LastIs, NoFailure, Stays, DaemonStays
<1>2. \A l : Passed(l, c) => Passed(l, c)'
  BY Zenon DEF Passed
<1>3. UNCHANGED <<dialogs, buf>>
  BY DEF DaemonStays, Stays
<1>4. ASSUME c > 0
      PROVE  /\ AllPassed(out, c)' /\ AllPassed(buf, c)'
             /\ \A i \in 1 .. Len(dialogs') : AllPassed(dialogs[i].rest, c)'
  BY <1>2, <1>3, <1>4, Zenon DEF Kept, AllPassed
<1> QED BY <1>1, <1>3, <1>4, Zenon DEF Kept

\* Calm lines may be added behind the last question.
LEMMA WayAdds ==
    ASSUME DaemonStays, UNCHANGED <<need, asked>>,
           UNCHANGED out \/ (Adds(1) /\ Calm(out'[Len(out) + 1]))
    PROVE  (OnItsWay => OnItsWay') /\ (OnScreen => OnScreen')
<1>1. \A s : (QuestionIn(s) => QuestionIn(s)') /\ (AllCalm(s) => AllCalm(s)')
  BY QuestionRigid
<1>2. UNCHANGED <<dialogs, buf>>
  BY DEF DaemonStays, Stays
<1>3. (QuestionIn(out) => QuestionIn(out')) /\ (AllCalm(out) => AllCalm(out'))
  BY QuestionAdd DEF Adds
<1>4. OnItsWay => OnItsWay'
  BY <1>1, <1>2, <1>3 DEF OnItsWay
<1>5. \A x : Fits(x) => Fits(x)'
  BY Zenon DEF Fits
<1>6. OnScreen => OnScreen'
  BY <1>1, <1>2, <1>3, <1>5 DEF OnScreen
<1> QED BY <1>4, <1>6

LEMMA PlacedAsk ==
    ASSUME IInv, Numbers, Fresh, Placed, NEW kind \in Asks, Ask(kind)
    PROVE  Placed'
<1>1. /\ DaemonStays /\ Adds(1) /\ need = NoNeed /\ asked' = asked + 1 /\ need'.kind = kind
      /\ need'.chal = (IF kind = "Auth" THEN due ELSE NoChallenge)
      /\ due' = IF kind = "Auth" THEN NoChallenge ELSE due
      /\ LET l == out'[Len(out) + 1]
         IN  l.name = "need" /\ l.what = kind /\ l.n = asked + 1
  BY AskMoves
<1>2. need.kind # "Auth" /\ asked \in Nat /\ Len(out) \in Nat /\ due \in Challenges
  BY <1>1, NumberTypes, ChallengeTypes DEF NoNeed
<1>3. ASSUME NEW c \in Challenges, c # NoChallenge, c = due PROVE Kept(c)'
  <2>1. Kept(c)
    BY <1>3 DEF Placed
  <2>2. \A l : l = out'[Len(out) + 1] => Passed(l, c)'
    BY <1>1 DEF Passed
  <2> QED BY <1>1, <1>2, <2>1, <2>2, KeptAdds
<1>4. QuestionIn(out)'
  <2>0. PICK j \in Nat : j = Len(out) + 1
    BY <1>2
  <2>1. j \in 1 .. Len(out') /\ Len(out') = j
    BY <1>1, <1>2, <2>0 DEF Adds
  <2>2. IsAsked(out[j])'
    BY <1>1, <2>0 DEF IsAsked
  <2>3. \A k \in 1 .. Len(out') : ~(k > j) /\ (k < j => out'[k].n # asked')
    <3>1. \A k \in 1 .. Len(out) : out[k].n < asked + 1 /\ out[k].n \in Nat
      BY NumberTypes DEF Numbers, Below
    <3>2. \A k \in 1 .. Len(out') : k < j => k \in 1 .. Len(out) /\ out'[k] = out[k]
      BY <1>1, <2>0, <2>1 DEF Adds
    <3> QED BY <1>1, <2>1, <3>1, <3>2
  <2> QED BY <2>1, <2>2, <2>3 DEF QuestionIn
<1>5. Coming'
  <2>1. (need.kind = "Auth" /\ need.chal # NoChallenge => Kept(need.chal))'
    BY <1>1, <1>2, <1>3
  <2> QED BY <1>4, <2>1 DEF Coming, OnItsWay
<1>6. (due # NoChallenge => Kept(due))'
  BY <1>1, <1>2, <1>3
<1> QED BY <1>5, <1>6 DEF Placed

LEMMA PlacedRefuse ==
    ASSUME IInv, Numbers, Fresh, Refuse
    PROVE  Placed'
<1>1. /\ DaemonStays /\ Adds(2) /\ UNCHANGED asked
      /\ due' \in {NoChallenge, asked, BadChallenge}
      /\ LET l == out'[Len(out) + 1]
             m == out'[Len(out) + 2]
         IN  l.name = "failed" /\ l.chal = due' /\ m.name = "state"
  BY RefuseMoves
<1>2. need' = NoNeed /\ need # NoNeed
  <2>1. TakesAnswer
    BY Zenon DEF Refuse
  <2> QED BY <2>1, TakeMoves DEF NoNeed, Kinds
<1>3. asked \in Nat /\ Len(out) \in Nat /\ Len(out') = Len(out) + 2
      /\ UNCHANGED <<buf, dialogs>>
      /\ \A j \in 1 .. Len(out) : out'[j] = out[j]
  BY <1>1, NumberTypes DEF Adds, DaemonStays, Stays
<1>4. \A j \in 1 .. Len(out') : j \in 1 .. Len(out) \/ j = Len(out) + 1 \/ j = Len(out) + 2
  BY <1>3
<1>5. ASSUME NEW c \in {asked, BadChallenge}, c = due', c # NoChallenge PROVE Kept(c)'
  <2>1. LastIs(out, c)'
    <3>1. \A k \in 1 .. Len(out') : k > Len(out) + 1 => out'[k].name # "failed"
      BY <1>1, <1>3, <1>4
    <3>2. Len(out) + 1 \in 1 .. Len(out')
      BY <1>3
    <3> QED BY <1>1, <1>5, <3>1, <3>2 DEF LastIs
  <2>2. \A i \in 1 .. Len(dialogs') : dialogs'[i].chal # c
    <3>1. \A i \in 1 .. Len(dialogs) : dialogs[i].chal < asked /\ dialogs[i].chal # BadChallenge
                                       /\ dialogs[i].chal \in Int
      BY <1>2, ChallengeTypes DEF Fresh, ChallengesBelow
    <3> QED BY <1>3, <1>5, <3>1
  <2>3. ASSUME c > 0
        PROVE  /\ AllPassed(out, c)' /\ AllPassed(buf, c)'
               /\ \A i \in 1 .. Len(dialogs') : AllPassed(dialogs[i].rest, c)'
    <3>1. c = asked
      BY <1>5, <2>3 DEF BadChallenge
    <3>2. \A l : (l.name # "need" \/ l.n <= asked) => Passed(l, c)'
      BY <3>1 DEF Passed
    <3>3. \A j \in 1 .. Len(out) : out[j].n <= asked
      BY <1>3, NumberTypes DEF Numbers, Below
    <3>4. \A j \in 1 .. Len(out') : Passed(out[j], c)'
      BY <1>1, <1>3, <1>4, <3>2, <3>3
    <3>5. \A j \in 1 .. Len(buf) : buf[j].n <= asked
      BY <1>3, NumberTypes DEF Numbers, GuiBelow, Below
    <3>6. \A i \in 1 .. Len(dialogs) : \A j \in 1 .. Len(dialogs[i].rest) : dialogs[i].rest[j].n <= asked
      BY <1>3, NumberTypes DEF Numbers, GuiBelow, Below
    <3> QED BY <1>3, <3>2, <3>4, <3>5, <3>6 DEF AllPassed
  <2> QED BY <2>1, <2>2, <2>3 DEF Kept, Latest
<1>6. (due # NoChallenge => Kept(due))'
  BY <1>1, <1>5
<1> QED BY <1>2, <1>6 DEF Placed

LEMMA PlacedQuiet ==
    ASSUME IInv, Placed, DaemonStays, UNCHANGED <<out, need, asked, due>>,
           UNCHANGED in \/ (Takes /\ in[1].kind # need.kind)
    PROVE  Placed'
<1>1. \A c \in Challenges : c # NoChallenge /\ Kept(c) => Kept(c)'
  BY KeptQuiet
<1>2. Answered => Answered'
  <2>1. CASE UNCHANGED in
    BY <2>1, Zenon DEF Answered
  <2>2. CASE Takes /\ in[1].kind # need.kind
    <3> SUFFICES ASSUME Answered PROVE Answered'
      OBVIOUS
    <3>1. PICK j \in 1 .. Len(in) : in[j].n = asked /\ in[j].kind = need.kind
      BY DEF Answered
    <3>2. j - 1 \in 1 .. Len(in') /\ in'[j - 1] = in[j]
      BY <2>2, <3>1 DEF Takes
    <3> QED BY <3>1, <3>2 DEF Answered
  <2> QED BY <2>1, <2>2
<1>3. need # NoNeed => Coming' \/ OnScreen' \/ Answered'
  BY <1>1, <1>2, WayAdds, StillComing DEF Placed, Coming
<1>4. (due # NoChallenge => Kept(due))'
  BY <1>1, StillDue DEF Placed
<1> QED BY <1>3, <1>4 DEF Placed, NoNeed

LEMMA PlacedLine ==
    ASSUME IInv, Placed, Restart \/ Progress \/ Echo
    PROVE  Placed'
<1>1. /\ DaemonStays /\ Adds(1) /\ UNCHANGED <<in, asked>>
      /\ LET l == out'[Len(out) + 1]
         IN  \/ need' = NoNeed /\ due' = NoChallenge
             \/ l.name = "state" /\ need = NoNeed /\ UNCHANGED <<need, due>>
             \/ l.name \in {"state", "echo"} /\ Calm(l) /\ UNCHANGED <<need, due>>
  BY NewLineMoves DEF Calm
<1>2. CASE need' = NoNeed /\ due' = NoChallenge
  BY <1>2 DEF Placed
<1>3. CASE UNCHANGED <<need, due>> /\ out'[Len(out) + 1].name \in {"state", "echo"}
           /\ (need = NoNeed \/ Calm(out'[Len(out) + 1]))
  <2>1. \A c : \A l : l = out'[Len(out) + 1] => Passed(l, c)'
    BY <1>3 DEF Passed
  <2>2. \A c \in Challenges : c # NoChallenge /\ Kept(c) => Kept(c)'
    BY <1>1, <1>3, <2>1, KeptAdds
  <2>3. Answered => Answered'
    BY <1>1, <1>3, Zenon DEF Answered
  <2>4. need # NoNeed => Coming' \/ OnScreen' \/ Answered'
    BY <1>1, <1>3, <2>2, <2>3, WayAdds, StillComing DEF Placed, Coming
  <2>5. (due # NoChallenge => Kept(due))'
    BY <1>3, <2>2, StillDue DEF Placed
  <2> QED BY <1>3, <2>4, <2>5 DEF Placed, NoNeed
<1> QED BY <1>1, <1>2, <1>3

LEMMA PlacedAccept ==
    ASSUME IInv, Fresh, Placed, Accept
    PROVE  Placed'
<1>1. DaemonStays /\ (UNCHANGED <<out, asked, due>>) /\ need' = NoNeed
  BY QuietMoves, TakeMoves, Zenon DEF Accept
<1>2. (due # NoChallenge => Kept(due))'
  <2> SUFFICES ASSUME due # NoChallenge PROVE Kept(due)'
    BY <1>1
  <2>1. need.kind # "Auth" /\ due \in Challenges /\ Kept(due)
    BY ChallengeTypes DEF Fresh, Placed
  <2> QED BY <1>1, <2>1, KeptQuiet
<1> QED BY <1>1, <1>2 DEF Placed

-----------------------------------------------------------------------------
(* The question is not lost *)

\* Until the connection is being stopped, while nothing of what excuses it has happened.
Found == ~stopping /\ excused = {} => Placed

LEMMA FoundInit == Init => Found
BY Zenon DEF Init, Found, Placed

LEMMA FoundStep ==
    ASSUME IInv, Numbers, InOrder, Fresh, Found, [Next]_vars
    PROVE  Found'
<1> SUFFICES ASSUME ~stopping', excused' = {} PROVE Placed'
  BY DEF Found
<1>1. ~stopping /\ excused = {}
  BY StoppingGrows, ExcusedGrows
<1>2. Placed /\ Order
  BY <1>1 DEF Found, InOrder
<1>3. CASE User \/ Timer
  BY <1>2, <1>3, PlacedUser
<1>4. CASE GUI
  <2>1. CASE ReadNeedChallenge \/ ReadNeedAuth \/ ReadNeedKey \/ ReadNeedOther
    BY <1>2, <2>1, PlacedNeed
  <2> QED BY <1>2, <1>4, <2>1, PlacedFetch, PlacedReturn, PlacedNews, Zenon DEF GUI
<1>5. CASE Daemon
  <2>1. CASE DropAnswer
    <3>1. Taken /\ Head(in).kind # need.kind /\ UNCHANGED <<out, need, asked, due>>
      BY <2>1, Zenon DEF DropAnswer, daemonVars
    <3>2. DaemonStays /\ Takes /\ in[1].kind # need.kind
      BY <2>1, <3>1, QuietMoves, TakenTakes
    <3> QED BY <1>2, <3>1, <3>2, PlacedQuiet
  <2>2. ~Exit
    BY <1>1, Zenon DEF Exit
  <2> QED BY <1>2, <1>5, <2>1, <2>2, PlacedAsk, PlacedRefuse, PlacedLine, PlacedAccept, Zenon DEF Daemon
<1>6. CASE UNCHANGED vars
  <2>1. UNCHANGED <<buf, out, in, dialogs, dynCr, failVars, need, asked, due>>
    BY <1>6, Zenon DEF vars, daemonVars
  <2>2. DaemonStays
    BY <2>1, SameIsSame DEF DaemonStays, Stays
  <2> QED BY <1>2, <2>1, <2>2, PlacedQuiet
<1> QED BY <1>3, <1>4, <1>5, <1>6, Zenon DEF Next

\* However dialogs nest and the daemon restarts, the question it waits for is not lost:
\* it is still to be read, its answer is under way, or its dialog is the innermost.
THEOREM QuestionIsShown == Spec => []RequestShown
<1> DEFINE All == IInv /\ Numbers /\ InOrder /\ Fresh /\ Found
<1>1. Init => All
  BY InitInv, NumbersInit, InOrderInit, FreshInit, FoundInit
<1>2. All /\ [Next]_vars => All'
  BY StepInv, NumbersStep, InOrderStep, FreshStep, FoundStep
<1>3. All => RequestShown
  <2> SUFFICES ASSUME All, AllRead, in = <<>>, need # NoNeed, ~stopping, excused = {}
               PROVE  dialogs # <<>> /\ Fits(Last)
    BY DEF RequestShown
  <2>1. Placed
    BY DEF Found
  <2>2. ~OnItsWay
    <3>1. ~QuestionIn(out) /\ ~QuestionIn(buf)
      BY DEF AllRead, QuestionIn
    <3>2. ASSUME Len(dialogs) >= 1, QuestionIn(dialogs[Len(dialogs)].rest) PROVE FALSE
      <4>1. Len(dialogs) \in 1 .. Len(dialogs)
        BY <3>2, NumberTypes
      <4>2. dialogs[Len(dialogs)].rest = <<>>
        BY <4>1 DEF AllRead
      <4> QED BY <3>2, <4>2 DEF QuestionIn
    <3> QED BY <3>1, <3>2 DEF OnItsWay
  <2>3. ~Answered
    BY DEF Answered
  <2>4. OnScreen
    BY <2>1, <2>2, <2>3 DEF Placed, Coming
  <2> QED BY <2>4 DEF OnScreen, Last
<1> HIDE DEF All
<1> QED BY <1>1, <1>2, <1>3, PTL DEF Spec
=============================================================================
