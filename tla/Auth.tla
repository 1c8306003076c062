-------------------------------- MODULE Auth --------------------------------
(***************************************************************************)
(* Questions of the daemon and their dialogs (openvpn.c, proxy.c): the     *)
(* >PASSWORD and >INFOMSG:CR_TEXT notifications, the modal dialogs that    *)
(* answer them, the timer that presses OK for the user, dynamic challenges *)
(* and the passwords that save_pass.c keeps.                               *)
(*                                                                         *)
(* A dialog is modal: DialogBoxParam pumps messages inside OnManagement,   *)
(* so the lines behind the question in the same buffer wait (rest) while   *)
(* later buffers are read from inside the dialog.  The model is of one     *)
(* attachment to a daemon, from its start to its exit.                     *)
(***************************************************************************)
EXTENDS Integers, Sequences

CONSTANTS
    Asks,       \* kinds of questions: "Auth", "Key", "Token" (any other Need), "Proxy", "CrText"
    Seconds,    \* second factors asked with Auth: of "none", "scrv1", "concat"
    Options,    \* settings tried: of [silent : BOOLEAN, disableSave : BOOLEAN]
    Malformed,  \* the server may send a dynamic challenge that does not parse
    MaxAsked,   \* bound: questions
    MaxLines,   \* bound: lines under way to the GUI
    MaxOther    \* bound: restarts, other state changes, echo directives and resets

Kinds == {"Auth", "Key", "Token", "Proxy", "CrText"}

ASSUME AuthAssumption ==
    /\ Asks \subseteq Kinds
    /\ Seconds \subseteq {"none", "scrv1", "concat"}
    /\ Options \subseteq [silent : BOOLEAN, disableSave : BOOLEAN]
    /\ Malformed \in BOOLEAN
    /\ MaxAsked \in Nat /\ MaxLines \in Nat /\ MaxOther \in Nat

VARIABLES
    \* the daemon and the server (external)
    running,    \* the daemon runs
    need,       \* the question that waits for an answer: [kind, chal]
    asked,      \* questions so far; the number names a dynamic challenge
    due,        \* dynamic challenge the next Auth question is about
    out,        \* lines to the GUI
    in,         \* answers to the daemon
    others,     \* what MaxOther bounds, so far
    \* the connection of the GUI
    options,    \* o.silent_connection and the connection's FLAG_DISABLE_SAVE_PASS
    buf,        \* rest of the buffer read last
    dialogs,    \* dialogs that exist, the innermost last; rest: their caller's buffer
    dynCr,      \* c->dynamic_cr
    failedAuth, failedPsw,  \* c->failed_auth_attempts, c->failed_psw_attempts
    saveAuth, saveKey,      \* FLAG_SAVE_AUTH_PASS, FLAG_SAVE_KEY_PASS
    saved,      \* registry: [user, auth, key]
    resetting,  \* ResetSavePasswords has deleted and not yet cleared the flags
    stopping,   \* StopOpenVPN was called
    \* history
    refused,    \* kinds the GUI read a refusal of, since it was last connected
    excused     \* a question was "closed" with X or could not be parsed; the answer to an
                \* earlier one was taken for its answer ("crossed"); a challenge was
                \* "dropped" by the dialog of an older one, or shown for an older question

daemonVars == <<running, need, asked, due, out>>
savedVars == <<saveAuth, saveKey, saved>>
failVars == <<failedAuth, failedPsw, refused>>
userVars == <<options, resetting, others, stopping>>
vars == <<daemonVars, in, buf, dialogs, dynCr, failVars, savedVars, userVars, excused>>

\* A password field: empty, what the user knows, or that with a response appended.
Pass == {"none", "bare", "otp"}

NoChallenge == 0
BadChallenge == -1      \* one that parse_dynamic_cr refuses
NoNeed == [kind |-> "none", chal |-> NoChallenge]

\* auto: the user did not press OK; late: the dialog had been ended before; n: history,
\* the number of the question it answers.
Answer(kind, pass, resp, chal, auto, late, n) ==
    [kind |-> kind, pass |-> pass, resp |-> resp, chal |-> chal, auto |-> auto, late |-> late, n |-> n]

\* Only a question has a second factor and a number, only a failure a challenge.
Line(name, what, chal) == [name |-> name, what |-> what, second |-> "none", chal |-> chal, n |-> 0]

Other == running /\ others < MaxOther /\ others' = others + 1

Emit(lines) == Len(out) + Len(lines) <= MaxLines /\ out' = out \o lines

-----------------------------------------------------------------------------
(* Dialogs *)

Last == dialogs[Len(dialogs)]

\* The status thread waits for messages: in its own loop or in a dialog's.
Pumping == running /\ buf = <<>> /\ (dialogs # <<>> => Last.open)

\* DialogBoxParam, called for the first line of buf.
Open(kind, pass, timer, chal) ==
    /\ dialogs' = Append(dialogs, [kind |-> kind, open |-> TRUE, pass |-> pass, timer |-> timer,
                                   second |-> Head(buf).second, chal |-> chal, n |-> Head(buf).n,
                                   rest |-> Tail(buf)])
    /\ buf' = <<>>

\* DialogBoxParam returns when the dialog was ended and nothing runs inside it;
\* OnPassword then drops the challenge it has asked for.
DialogReturns ==
    /\ running /\ buf = <<>> /\ dialogs # <<>> /\ ~Last.open
    /\ dialogs' = SubSeq(dialogs, 1, Len(dialogs) - 1) /\ buf' = Last.rest
    /\ dynCr' = IF Last.kind = "CRV1" THEN NoChallenge ELSE dynCr
    /\ excused' = excused \cup (IF Last.kind = "CRV1" /\ dynCr \notin {Last.chal, NoChallenge}
                                THEN {"dropped"} ELSE {})
    /\ UNCHANGED <<daemonVars, in, failVars, savedVars, userVars>>

EndAll == [i \in 1 .. Len(dialogs) |-> [dialogs[i] EXCEPT !.open = FALSE]]

\* WM_OVPN_STATE to all windows of the thread: GET_CONFIG spares a CR_TEXT dialog.
EndDialogs(state) ==
    dialogs' = [i \in 1 .. Len(dialogs) |->
                  IF dialogs[i].kind = "CrText" /\ state = "GET_CONFIG"
                  THEN dialogs[i] ELSE EndAll[i]]

EndDialog(i) == dialogs' = [dialogs EXCEPT ![i].open = FALSE]

-----------------------------------------------------------------------------
(* IDOK of the dialogs *)

\* Mutant of AuthAnswer: what is saved is the field the response was appended to.
AuthAnswerSavesField(pass, second, resp, auto, late, n) ==
    LET sent == IF second = "concat" /\ resp /\ pass # "none" THEN "otp" ELSE pass
    IN  /\ saved' = [saved EXCEPT !.user = TRUE,
                                  !.auth = IF saveAuth /\ pass # "none" THEN sent ELSE @]
        /\ in' = Append(in, Answer("Auth", sent, resp /\ second = "scrv1", NoChallenge, auto, late, n))

\* The user name is always saved, the password if wanted, as it was before the
\* response is appended to it; which is done only if there is a password.
AuthAnswer(pass, second, resp, auto, late, n) ==
    LET sent == IF second = "concat" /\ resp /\ pass # "none" THEN "otp" ELSE pass
    IN  /\ saved' = [saved EXCEPT !.user = TRUE,
                                  !.auth = IF saveAuth /\ pass # "none" THEN pass ELSE @]
        /\ in' = Append(in, Answer("Auth", sent, resp /\ second = "scrv1", NoChallenge, auto, late, n))

\* OK is enabled when there is a password, or a response where one is asked.
OkAuth(i) ==
    /\ Pumping /\ dialogs[i].kind = "Auth" /\ dialogs[i].open
    /\ \E resp \in IF dialogs[i].second = "none" THEN {FALSE} ELSE BOOLEAN :
        /\ dialogs[i].pass # "none" \/ resp
        /\ AuthAnswer(dialogs[i].pass, dialogs[i].second, resp, FALSE, FALSE, dialogs[i].n)
    /\ EndDialog(i)
    /\ UNCHANGED <<daemonVars, buf, dynCr, failVars, saveAuth, saveKey, userVars, excused>>

\* AutoCloseHandler presses OK, also of a dialog that was ended and still exists
\* because another runs inside it.
TimerFires(i) ==
    /\ Pumping /\ dialogs[i].timer
    /\ AuthAnswer(dialogs[i].pass, dialogs[i].second, FALSE, TRUE, ~dialogs[i].open, dialogs[i].n)
    /\ dialogs' = [dialogs EXCEPT ![i].open = FALSE, ![i].timer = FALSE]
    /\ UNCHANGED <<daemonVars, buf, dynCr, failVars, saveAuth, saveKey, userVars, excused>>

\* GenericPassDialogFunc, PrivKeyPassDialogFunc, ProxyAuthDialogFunc.
OkOther(i) ==
    /\ Pumping /\ dialogs[i].kind # "Auth" /\ dialogs[i].open
    /\ in' = Append(in, Answer(IF dialogs[i].kind = "CRV1" THEN "Auth" ELSE dialogs[i].kind,
                               "bare", FALSE, dialogs[i].chal, FALSE, FALSE, dialogs[i].n))
    /\ saved' = [saved EXCEPT !.key = @ \/ (dialogs[i].kind = "Key" /\ saveKey)]
    /\ EndDialog(i)
    /\ UNCHANGED <<daemonVars, buf, dynCr, failVars, saveAuth, saveKey, userVars, excused>>

-----------------------------------------------------------------------------
(* The other controls of the dialogs, and the menu *)

\* Text typed: AutoCloseCancel.
TypePassword(i) ==
    /\ Pumping /\ dialogs[i].kind = "Auth" /\ dialogs[i].open
    /\ \E p \in {"none", "bare"} :
        dialogs' = [dialogs EXCEPT ![i].pass = p, ![i].timer = FALSE]
    /\ UNCHANGED <<daemonVars, in, buf, dynCr, failVars, savedVars, userVars, excused>>

\* A click: AutoCloseCancel.
Interrupt(i) ==
    /\ Pumping /\ dialogs[i].open /\ dialogs[i].timer
    /\ dialogs' = [dialogs EXCEPT ![i].timer = FALSE]
    /\ UNCHANGED <<daemonVars, in, buf, dynCr, failVars, savedVars, userVars, excused>>

\* Mutant of ToggleSave: unchecking does not delete what was saved.
ToggleSaveKeeps(i) ==
    /\ Pumping /\ dialogs[i].open /\ ~options.disableSave
    /\ \/ /\ dialogs[i].kind = "Auth"
          /\ saveAuth' = ~saveAuth /\ UNCHANGED saveKey
          /\ dialogs' = [dialogs EXCEPT ![i].timer = FALSE]
       \/ /\ dialogs[i].kind = "Key"
          /\ saveKey' = ~saveKey /\ UNCHANGED <<saveAuth, dialogs>>
    /\ UNCHANGED <<daemonVars, in, buf, dynCr, failVars, saved, userVars, excused>>

\* ID_CHK_SAVE_PASS, which is hidden if saving is disabled.
ToggleSave(i) ==
    /\ Pumping /\ dialogs[i].open /\ ~options.disableSave
    /\ \/ /\ dialogs[i].kind = "Auth"
          /\ saveAuth' = ~saveAuth /\ UNCHANGED saveKey
          /\ saved' = IF saveAuth THEN [saved EXCEPT !.auth = "none"] ELSE saved
          /\ dialogs' = [dialogs EXCEPT ![i].timer = FALSE]
       \/ /\ dialogs[i].kind = "Key"
          /\ saveKey' = ~saveKey /\ UNCHANGED <<saveAuth, dialogs>>
          /\ saved' = IF saveKey THEN [saved EXCEPT !.key = FALSE] ELSE saved
    /\ UNCHANGED <<daemonVars, in, buf, dynCr, failVars, userVars, excused>>

\* IDCANCEL, and WM_CLOSE of the user name dialog: the connection is stopped.
Cancel(i) ==
    /\ Pumping /\ dialogs[i].open /\ dialogs[i].kind # "Proxy"
    /\ EndDialog(i) /\ stopping' = TRUE
    /\ UNCHANGED <<daemonVars, in, buf, dynCr, failVars, savedVars, options, resetting, others, excused>>

\* WM_CLOSE of the others: the question is left unanswered.
CloseX(i) ==
    /\ Pumping /\ dialogs[i].open /\ dialogs[i].kind # "Auth"
    /\ EndDialog(i) /\ excused' = excused \cup {"closed"}
    /\ UNCHANGED <<daemonVars, in, buf, dynCr, failVars, savedVars, userVars>>

\* ResetSavePasswords runs in the main thread, between any two steps of the
\* dialogs: it deletes the passwords, then clears the flags.
ResetDeletes ==
    /\ Other /\ ~resetting
    /\ saved' = [saved EXCEPT !.auth = "none", !.key = FALSE]
    /\ resetting' = TRUE
    /\ UNCHANGED <<daemonVars, in, buf, dialogs, dynCr, failVars, saveAuth, saveKey, options, stopping, excused>>

ResetClears ==
    /\ resetting
    /\ saveAuth' = FALSE /\ saveKey' = FALSE /\ resetting' = FALSE
    /\ UNCHANGED <<daemonVars, in, buf, dialogs, dynCr, failVars, saved, options, others, stopping, excused>>

User ==
    \/ \E i \in 1 .. Len(dialogs) :
         \/ OkAuth(i) \/ OkOther(i) \/ TypePassword(i) \/ Interrupt(i)
         \/ ToggleSave(i) \/ Cancel(i) \/ CloseX(i)
    \/ ResetDeletes \/ ResetClears

-----------------------------------------------------------------------------
(* The GUI reads lines *)

\* FD_READ in the innermost message loop: what has arrived of the lines.
FdRead ==
    /\ Pumping /\ out # <<>>
    /\ \E n \in 1 .. Len(out) :
        buf' = SubSeq(out, 1, n) /\ out' = SubSeq(out, n + 1, Len(out))
    /\ UNCHANGED <<running, need, asked, due, in, dialogs, dynCr, failVars, savedVars, userVars, excused>>

Reads(name) == running /\ buf # <<>> /\ Head(buf).name = name

\* The next line is read, nothing is shown.
Next1 == buf' = Tail(buf) /\ UNCHANGED dialogs

\* OnPassword, 'Auth': the dialog for the saved dynamic challenge.
ReadNeedChallenge ==
    /\ Reads("need") /\ Head(buf).what = "Auth" /\ dynCr # NoChallenge
    /\ IF dynCr = BadChallenge
       THEN Next1 /\ dynCr' = NoChallenge /\ excused' = excused \cup {"closed"}
       ELSE /\ Open("CRV1", "none", FALSE, dynCr) /\ UNCHANGED dynCr
            /\ excused' = excused \cup (IF Head(buf).n <= dynCr THEN {"dropped"} ELSE {})
    /\ UNCHANGED <<daemonVars, in, failVars, savedVars, userVars>>

\* UserAuthDialogFunc, WM_INITDIALOG: may the dialog press its own OK?
CanAuto(second) == saved.user /\ saved.auth # "none" /\ second = "none" /\ failedAuth = 0

\* OnPassword, 'Auth': the dialog is filled with what was saved.
ReadNeedAuth ==
    /\ Reads("need") /\ Head(buf).what = "Auth" /\ dynCr = NoChallenge
    /\ LET auto == CanAuto(Head(buf).second)
       IN  IF auto /\ options.silent
           THEN Next1 /\ AuthAnswer(saved.auth, "none", FALSE, TRUE, FALSE, Head(buf).n)
           ELSE Open("Auth", saved.auth, auto, NoChallenge) /\ UNCHANGED <<in, saved>>
    /\ UNCHANGED <<daemonVars, dynCr, failVars, saveAuth, saveKey, userVars, excused>>

\* OnPassword, 'Private Key': a saved password is sent and the dialog skipped.
ReadNeedKey ==
    /\ Reads("need") /\ Head(buf).what = "Key"
    /\ IF saved.key /\ failedPsw = 0
       THEN Next1 /\ in' = Append(in, Answer("Key", "bare", FALSE, NoChallenge, TRUE, FALSE, Head(buf).n))
       ELSE Open("Key", "none", FALSE, NoChallenge) /\ UNCHANGED in
    /\ UNCHANGED <<daemonVars, dynCr, failVars, savedVars, userVars, excused>>

\* Mutant of ReadNeedOther: the text question is shown as a dynamic challenge.
ReadNeedOtherAsChallenge ==
    /\ Reads("need") /\ Head(buf).what \in {"Token", "Proxy", "CrText"}
    /\ Open(IF Head(buf).what = "CrText" THEN "CRV1" ELSE Head(buf).what, "none", FALSE, NoChallenge)
    /\ UNCHANGED <<daemonVars, in, dynCr, failVars, savedVars, userVars, excused>>

\* OnPassword, the proxies and any other password; OnInfoMsg, CR_TEXT.
ReadNeedOther ==
    /\ Reads("need") /\ Head(buf).what \in {"Token", "Proxy", "CrText"}
    /\ Open(Head(buf).what, "none", FALSE, NoChallenge)
    /\ UNCHANGED <<daemonVars, in, dynCr, failVars, savedVars, userVars, excused>>

\* OnPassword, Verification Failed: the challenge is kept for the next question.
ReadFailed ==
    /\ Reads("failed") /\ Next1
    /\ dynCr' = Head(buf).chal
    /\ UNCHANGED <<daemonVars, in, failVars, savedVars, userVars, excused>>

\* Mutant of ReadState: any state ends any dialog.
ReadStateEndsAll ==
    /\ Reads("state")
    /\ buf' = Tail(buf) /\ dialogs' = EndAll
    /\ UNCHANGED <<daemonVars, in, dynCr, failVars, savedVars, userVars, excused>>

\* Mutant of ReadState: failures of the key's password are counted as the others.
ReadStateOneCounter ==
    /\ Reads("state")
    /\ LET state == Head(buf).what
           fails == state \in {"auth-failure", "private-key-password-failure"} /\ dynCr = NoChallenge
       IN  /\ EndDialogs(state) /\ buf' = Tail(buf)
           /\ failedAuth' = IF state = "CONNECTED" THEN 0 ELSE failedAuth + IF fails THEN 1 ELSE 0
           /\ failedPsw' = failedPsw
           /\ refused' = CASE state = "CONNECTED" -> {}
                           [] state = "auth-failure" /\ Head(buf).chal = NoChallenge -> refused \cup {"Auth"}
                           [] state = "private-key-password-failure" -> refused \cup {"Key"}
                           [] OTHER -> refused
    /\ UNCHANGED <<daemonVars, in, dynCr, savedVars, userVars, excused>>

\* OnStateChange: a dynamic challenge is no failed attempt.
ReadState ==
    /\ Reads("state")
    /\ LET state == Head(buf).what
           auth == state = "auth-failure" /\ dynCr = NoChallenge
           psw == state = "private-key-password-failure" /\ dynCr = NoChallenge
       IN  /\ EndDialogs(state) /\ buf' = Tail(buf)
           /\ failedAuth' = IF state = "CONNECTED" THEN 0 ELSE failedAuth + IF auth THEN 1 ELSE 0
           /\ failedPsw' = IF state = "CONNECTED" THEN 0 ELSE failedPsw + IF psw THEN 1 ELSE 0
           /\ refused' = CASE state = "CONNECTED" -> {}
                           [] state = "auth-failure" /\ Head(buf).chal = NoChallenge -> refused \cup {"Auth"}
                           [] state = "private-key-password-failure" -> refused \cup {"Key"}
                           [] OTHER -> refused
    /\ UNCHANGED <<daemonVars, in, dynCr, savedVars, userVars, excused>>

\* Mutant of ReadEcho: the administrator's setting is not looked at.
ReadEchoUnchecked ==
    /\ Reads("echo") /\ Next1
    /\ IF Head(buf).what = "forget"
       THEN saved' = [saved EXCEPT !.auth = "none", !.key = FALSE] /\ UNCHANGED <<saveAuth, saveKey>>
       ELSE saveAuth' = TRUE /\ saveKey' = TRUE /\ UNCHANGED saved
    /\ UNCHANGED <<daemonVars, in, dynCr, failVars, userVars, excused>>

\* OnEcho, forget-passwords and save-passwords.
ReadEcho ==
    /\ Reads("echo") /\ Next1
    /\ IF Head(buf).what = "forget"
       THEN saved' = [saved EXCEPT !.auth = "none", !.key = FALSE] /\ UNCHANGED <<saveAuth, saveKey>>
       ELSE saveAuth' = (saveAuth \/ ~options.disableSave) /\ saveKey' = (saveKey \/ ~options.disableSave) /\ UNCHANGED saved
    /\ UNCHANGED <<daemonVars, in, dynCr, failVars, userVars, excused>>

GUI ==
    \/ FdRead \/ DialogReturns
    \/ ReadNeedChallenge \/ ReadNeedAuth \/ ReadNeedKey \/ ReadNeedOther
    \/ ReadFailed \/ ReadState \/ ReadEcho

Timer == \E i \in 1 .. Len(dialogs) : TimerFires(i)

-----------------------------------------------------------------------------
(* The daemon and the server, as far as the management interface shows them *)

Ask(kind) ==
    /\ running /\ need = NoNeed /\ asked < MaxAsked
    /\ \E second \in IF kind = "Auth" THEN Seconds ELSE {"none"} :
        Emit(<<[Line("need", kind, NoChallenge) EXCEPT !.second = second, !.n = asked + 1]>>)
    /\ need' = [kind |-> kind, chal |-> IF kind = "Auth" THEN due ELSE NoChallenge]
    /\ due' = IF kind = "Auth" THEN NoChallenge ELSE due
    /\ asked' = asked + 1
    /\ UNCHANGED <<running, in, buf, dialogs, dynCr, failVars, savedVars, userVars, excused>>

Taken == running /\ in # <<>> /\ in' = Tail(in)

\* An answer nobody waits for is an error and is dropped.
DropAnswer ==
    /\ Taken /\ Head(in).kind # need.kind
    /\ UNCHANGED <<daemonVars, buf, dialogs, dynCr, failVars, savedVars, userVars, excused>>

\* The daemon does not tell the answer to an earlier question from one to this.
TakesAnswer ==
    /\ Taken /\ Head(in).kind = need.kind
    /\ need' = NoNeed
    /\ excused' = excused \cup (IF Head(in).n = asked THEN {} ELSE {"crossed"})

Accept ==
    /\ TakesAnswer /\ Head(in).chal = need.chal
    /\ UNCHANGED <<running, asked, due, out, buf, dialogs, dynCr, failVars, savedVars, userVars>>

FailureState(kind) ==
    CASE kind \in {"Auth", "CrText"} -> "auth-failure"
      [] kind = "Key" -> "private-key-password-failure"
      [] OTHER -> "RECONNECTING"

\* The daemon restarts because of the answer, or the server wants another one.
Refuse ==
    /\ TakesAnswer
    /\ \E chal \in IF need.kind # "Auth" THEN {NoChallenge}
                   ELSE {NoChallenge, asked} \cup (IF Malformed THEN {BadChallenge} ELSE {}) :
        /\ Emit(<<Line("failed", need.kind, chal), Line("state", FailureState(need.kind), chal)>>)
        /\ due' = chal
    /\ UNCHANGED <<running, asked, buf, dialogs, dynCr, failVars, savedVars, userVars>>

\* A restart for another reason: a signal of the GUI, the network.
Restart ==
    /\ Other /\ asked > 0
    /\ Emit(<<Line("state", "RECONNECTING", NoChallenge)>>)
    /\ need' = NoNeed /\ due' = NoChallenge
    /\ UNCHANGED <<running, asked, in, buf, dialogs, dynCr, failVars, savedVars,
                   options, resetting, stopping, excused>>

Progress ==
    /\ Other /\ asked > 0
    /\ \/ need = NoNeed /\ Emit(<<Line("state", "CONNECTED", NoChallenge)>>)
       \/ need.kind = "CrText" /\ Emit(<<Line("state", "GET_CONFIG", NoChallenge)>>)
    /\ UNCHANGED <<running, need, asked, due, in, buf, dialogs, dynCr, failVars, savedVars,
                   options, resetting, stopping, excused>>

Echo ==
    /\ Other
    /\ \E what \in {"forget", "save"} : Emit(<<Line("echo", what, NoChallenge)>>)
    /\ UNCHANGED <<running, need, asked, due, in, buf, dialogs, dynCr, failVars, savedVars,
                   options, resetting, stopping, excused>>

Exit ==
    /\ running /\ stopping /\ running' = FALSE
    /\ UNCHANGED <<need, asked, due, out, in, buf, dialogs, dynCr, failVars, savedVars, userVars, excused>>

Daemon ==
    \/ \E kind \in Asks : Ask(kind)
    \/ DropAnswer \/ Accept \/ Refuse \/ Restart \/ Progress \/ Echo \/ Exit

\* Registry and flags as InitConnection leaves them.
Init ==
    /\ running = TRUE /\ need = NoNeed /\ asked = 0 /\ due = NoChallenge
    /\ out = <<>> /\ in = <<>> /\ others = 0
    /\ buf = <<>> /\ dialogs = <<>> /\ dynCr = NoChallenge
    /\ failedAuth = 0 /\ failedPsw = 0
    /\ saved \in [user : BOOLEAN, auth : {"none", "bare"}, key : BOOLEAN]
    /\ options \in Options
    /\ options.disableSave => saved.auth = "none" /\ ~saved.key
    /\ saveAuth = (saved.auth # "none") /\ saveKey = saved.key
    /\ resetting = FALSE /\ stopping = FALSE /\ refused = {} /\ excused = {}

Next == User \/ Timer \/ GUI \/ Daemon

Spec == Init /\ [][Next]_vars

-----------------------------------------------------------------------------
(* Properties *)

States == {"CONNECTED", "RECONNECTING", "GET_CONFIG", "auth-failure", "private-key-password-failure"}
Challenges == BadChallenge .. MaxAsked

LineOK(line) ==
    /\ line.name \in {"need", "failed", "state", "echo"}
    /\ line.what \in Kinds \cup States \cup {"forget", "save"} /\ line.chal \in Challenges

DialogOK(dialog) ==
    /\ dialog.kind \in Kinds \cup {"CRV1"} /\ dialog.pass \in Pass /\ dialog.chal \in Challenges
    /\ dialog.open \in BOOLEAN /\ dialog.timer \in BOOLEAN
    /\ dialog.kind = "CRV1" <=> dialog.chal # NoChallenge
    /\ dialog.timer => dialog.kind = "Auth" /\ ~options.silent
    /\ \A j \in 1 .. Len(dialog.rest) : LineOK(dialog.rest[j])

\* Values of the variables; only a user name dialog can press its own OK, and
\* only a challenge dialog has a challenge to answer.
TypeOK ==
    /\ options \in Options
    /\ running \in BOOLEAN /\ resetting \in BOOLEAN /\ stopping \in BOOLEAN
    /\ excused \subseteq {"closed", "crossed", "dropped"}
    /\ need.kind \in Kinds \cup {"none"} /\ need.chal \in Challenges
    /\ asked \in 0 .. MaxAsked /\ due \in Challenges /\ dynCr \in Challenges
    /\ \A j \in 1 .. Len(out) : LineOK(out[j])
    /\ \A j \in 1 .. Len(buf) : LineOK(buf[j])
    /\ \A j \in 1 .. Len(in) : in[j].kind \in Kinds /\ in[j].pass \in Pass /\ in[j].chal \in Challenges
    /\ \A i \in 1 .. Len(dialogs) : DialogOK(dialogs[i])
    /\ failedAuth \in Nat /\ failedPsw \in Nat /\ refused \subseteq Kinds
    /\ saveAuth \in BOOLEAN /\ saveKey \in BOOLEAN
    /\ saved.user \in BOOLEAN /\ saved.auth \in Pass /\ saved.key \in BOOLEAN

AllRead ==
    /\ out = <<>> /\ buf = <<>>
    /\ \A i \in 1 .. Len(dialogs) : dialogs[i].rest = <<>>

\* Does the dialog ask what the daemon waits for?
Fits(dialog) ==
    CASE need.kind # "Auth" -> dialog.kind = need.kind
      [] need.kind = "Auth" /\ need.chal # NoChallenge -> dialog.kind = "CRV1" /\ dialog.chal = need.chal
      [] OTHER -> dialog.kind \in {"Auth", "CRV1"}

\* While a question waits for its answer and all there is to read was read, the
\* innermost dialog asks that question, a challenge with the server's latest text:
\* no state change has ended the dialog of a later question.  Except when the
\* connection is being stopped, and after a question was closed with X or could not be
\* parsed, an answer was taken for that to another question, or a challenge was used up
\* by an older question or dialog (excused).
RequestShown ==
    Pumping /\ AllRead /\ in = <<>> /\ need # NoNeed /\ ~stopping /\ excused = {} =>
        dialogs # <<>> /\ Fits(Last)

\* A saved password that was refused is not sent again by the GUI itself until a
\* connection succeeds: the counters count every refusal, though not those that
\* are dynamic challenges (CanAuto, PrivKeyPassDialogFunc, OnStateChange).
AutoNotAfterRefusal ==
    [][\A j \in Len(in) + 1 .. Len(in') :
         in'[j].auto /\ ~in'[j].late /\ "crossed" \notin excused => in'[j].kind \notin refused]_vars

\* What is saved never has a one time password appended: it would be sent again
\* (UserAuthDialogFunc saves before it appends).
SavedIsBare == saved.auth # "otp"

\* A password is kept in the registry only while the connection's flag says that
\* it is wanted, whoever changes flag and registry: the box of a dialog, the
\* echo directives, the answers.  ResetSavePasswords is not atomic and excluded.
Wanted == (saved.auth # "none" => saveAuth) /\ (saved.key => saveKey)
StaysWanted == [][Wanted /\ ~resetting => Wanted']_vars

\* Nothing is ever saved where the administrator has disabled it.
NothingSavedIfDisabled == options.disableSave => saved.auth = "none" /\ ~saved.key

\* "state changed -- destroy the dialog" (UserAuthDialogFunc): a dialog that a state
\* change has ended does not answer the daemon any more.
EndedDialogsAreSilent == \A j \in 1 .. Len(in) : ~in[j].late

=============================================================================
