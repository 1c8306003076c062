------------------------------- MODULE Pkcs11 --------------------------------
(***************************************************************************)
(* The choice of a certificate of a PKCS#11 token (pkcs11.c).  The daemon  *)
(* asks for an id; a dialog asks the daemon for the number of certificates *)
(* and then for each of them, in a list of the connection that its timer   *)
(* fills, and answers with the id the user picked.                         *)
(*                                                                         *)
(* The requests are queued and answered in order, but dialogs come and go: *)
(* a state change ends the dialog while its requests are under way, the    *)
(* daemon asks again, and the new dialog is opened in the message loop of  *)
(* the old one, which is hidden but whose timer still runs on the same     *)
(* list.  Certificates are known by the time the token was changed and     *)
(* their index; one that cannot be decoded has its id freed and not reset. *)
(***************************************************************************)
EXTENDS Naturals, Sequences

CONSTANTS
    MaxCerts,    \* certificates of a token
    MaxAsks,     \* bound: times the daemon asks
    MaxChanges,  \* bound: times the token is changed
    MaxRetries   \* bound: presses of Retry

VARIABLES
    token,     \* the daemon's token: when it was changed, how many certificates, which decode
    question,  \* the number of the question the daemon waits for, or 0
    requests,  \* commands the daemon has not answered
    list,      \* c->pkcs11_list
    dialogs,   \* QueryPkcs11DialogProc, innermost first
    answers,   \* history: what was sent, what its dialog showed there, and whether it was settled
    asks, retries

vars == <<token, question, requests, list, dialogs, answers, asks, retries>>

Indices == 0 .. MaxCerts - 1
Nobody == MaxCerts          \* (UINT)-1: no index

\* pkcs11_list_clear
Cleared == [getCount |-> FALSE, getEntry |-> FALSE, filled |-> FALSE, picked |-> FALSE,
            selected |-> 0, count |-> 0, pe |-> <<>>]

\* struct pkcs11_entry after calloc; freed, but not reset; parsed from this token
Empty == <<"empty", 0, 0>>
Freed == <<"freed", 0, 0>>
Cert(when, i) == <<"cert", when, i>>

\* What is at l->pe[i]; reading beyond what was allocated is undefined.
Undefined == <<"undefined", 0, 0>>
EntryAt(i) == IF i < Len(list.pe) THEN list.pe[i + 1] ELSE Undefined

\* WM_INITDIALOG: the buttons are disabled, a timer will fill the list.  "settled" is not in
\* the code: no answer was to come when the rows were inserted.
NewDialog == [open |-> TRUE, timer |-> TRUE, ready |-> FALSE, retry |-> FALSE,
              rows |-> <<>>, settled |-> TRUE, result |-> "none", chosen |-> Empty]

\* The rows pkcs11_listview_fill inserts: each knows its index (lParam).
RowsOfList == [i \in 1 .. list.count |-> [at |-> i - 1, entry |-> EntryAt(i - 1)]]

\* EndDialog: hidden; the loop returns when it is the innermost one.
End(d, how) == [d EXCEPT !.open = FALSE, !.result = how]
SetDialog(k, d) == dialogs' = [dialogs EXCEPT ![k] = d]

\* The lines of one read are handled before a loop looks whether its dialog was ended;
\* a loop ended by its own button returns at once.
Reading == \A k \in DOMAIN dialogs : dialogs[k].result \in {"none", "state"}

-----------------------------------------------------------------------------
\* The daemon asks; the message loop of a dialog that was ended may still be below.
OnPkcs11 ==
    /\ Reading /\ question = 0 /\ asks < MaxAsks
    /\ asks' = asks + 1 /\ question' = asks'
    /\ list' = [Cleared EXCEPT !.selected = Nobody]
    /\ dialogs' = <<NewDialog>> \o dialogs
    /\ UNCHANGED <<token, requests, answers, retries>>

\* The innermost loop ends: the id is sent if OK was pressed on a selection.
DialogReturns ==
    /\ dialogs # <<>> /\ ~Head(dialogs).open /\ dialogs' = Tail(dialogs)
    /\ IF Head(dialogs).result = "ok" /\ list.picked /\ list.selected < list.count
       THEN /\ answers' = Append(answers, <<EntryAt(list.selected), Head(dialogs).chosen,
                                            Head(dialogs).settled>>)
            /\ question' = 0
       ELSE UNCHANGED <<answers, question>>
    /\ UNCHANGED <<token, requests, list, asks, retries>>

\* pkcs11_list_update: the number first, then every certificate.
Get(i) == <<"get", i>>
ListUpdate ==
    IF ~list.getCount
    THEN /\ requests' = Append(requests, <<"count", 0>>)
         /\ list' = [list EXCEPT !.getCount = TRUE]
    ELSE IF list.count > 0 /\ ~list.getEntry
    THEN /\ requests' = requests \o [i \in 1 .. list.count |-> Get(i - 1)]
         /\ list' = [list EXCEPT !.getEntry = TRUE,
                                 !.pe = IF @ = <<>> THEN [i \in 1 .. list.count |-> Empty] ELSE @]
    ELSE UNCHANGED <<requests, list>>

\* The timer's callback, also of a dialog that is hidden.
ListViewFill(k) ==
    /\ dialogs[k].timer /\ Head(dialogs).open
    /\ IF ~list.filled
       THEN ListUpdate /\ UNCHANGED dialogs
       ELSE /\ SetDialog(k, [dialogs[k] EXCEPT !.timer = FALSE, !.retry = TRUE,
                                !.ready = list.count > 0, !.settled = requests = <<>>,
                                !.rows = RowsOfList \o @])
            /\ UNCHANGED <<requests, list>>
    /\ UNCHANGED <<token, question, answers, asks, retries>>

-----------------------------------------------------------------------------
(* Answers of the daemon, in the order of the requests *)

\* pkcs11_count_recv, also for an error
CountReceived(n) ==
    list' = [list EXCEPT !.count = n, !.filled = @ \/ n = 0]
CountRefused ==
    list' = [list EXCEPT !.getCount = FALSE, !.filled = @ \/ list.count = 0]

\* pkcs11_entry_parse and pkcs11_entry_recv: an index that is not expected, and a
\* certificate that does not decode, leave the list unfilled.
Put(i, e) == [list.pe EXCEPT ![i + 1] = e]
EntryReceived(i) ==
    IF i >= list.count \/ i + 1 > Len(list.pe)
    THEN UNCHANGED list
    ELSE IF i \in token.bad
    THEN list' = [list EXCEPT !.pe = Put(i, Freed)]
    ELSE list' = [list EXCEPT !.pe = Put(i, Cert(token.when, i)),
                              !.filled = @ \/ i + 1 = list.count]

DaemonAnswers ==
    /\ Reading /\ requests # <<>> /\ requests' = Tail(requests)
    /\ IF Head(requests)[1] = "count"
       THEN CountReceived(token.count) \/ CountRefused
       ELSE IF Head(requests)[2] < token.count
            THEN EntryReceived(Head(requests)[2])
            ELSE UNCHANGED list
    /\ UNCHANGED <<token, question, dialogs, answers, asks, retries>>

-----------------------------------------------------------------------------
(* The user, on the dialog on the screen *)
Shown(k) == k = 1 /\ dialogs[k].open

\* OK with a selection; without one it is a message.
Pick(k) ==
    /\ Shown(k) /\ dialogs[k].ready
    /\ \E i \in DOMAIN dialogs[k].rows :
          LET row == dialogs[k].rows[i] IN
          /\ list' = [list EXCEPT !.selected = row.at, !.picked = TRUE]
          /\ SetDialog(k, [End(dialogs[k], "ok") EXCEPT !.chosen = row.entry])
    /\ UNCHANGED <<token, question, requests, answers, asks, retries>>

\* Cancel and WM_CLOSE: the connection is stopped; nothing is answered, and the daemon
\* asks no more.
Cancel(k) ==
    /\ Shown(k) /\ SetDialog(k, End(dialogs[k], "cancel"))
    /\ question' = 0 /\ asks' = MaxAsks
    /\ UNCHANGED <<token, requests, list, answers, retries>>

\* Mutant of Retry: the rows of the first listing stay.
RetryKeepsRows(k) ==
    /\ Shown(k) /\ dialogs[k].retry /\ retries < MaxRetries /\ retries' = retries + 1
    /\ list.filled /\ list' = Cleared
    /\ SetDialog(k, [dialogs[k] EXCEPT !.timer = TRUE, !.ready = FALSE, !.retry = FALSE])
    /\ UNCHANGED <<token, question, requests, answers, asks>>

\* pkcs11_listview_reset
Retry(k) ==
    /\ Shown(k) /\ dialogs[k].retry /\ retries < MaxRetries /\ retries' = retries + 1
    /\ list.filled /\ list' = Cleared
    /\ SetDialog(k, [dialogs[k] EXCEPT !.timer = TRUE, !.ready = FALSE, !.retry = FALSE,
                                       !.rows = <<>>])
    /\ UNCHANGED <<token, question, requests, answers, asks>>

\* WM_OVPN_STATE: the daemon gave up its question and told a new state.
StateChanges ==
    /\ Reading /\ question # 0 /\ question' = 0
    /\ dialogs' = [k \in DOMAIN dialogs |->
                     IF dialogs[k].open THEN End(dialogs[k], "state") ELSE dialogs[k]]
    /\ UNCHANGED <<token, requests, list, answers, asks, retries>>

\* The token is taken out and another one put in (external).
Tokens == [when : 0 .. MaxChanges, count : 0 .. MaxCerts, bad : SUBSET Indices]
TokenChanges ==
    /\ token.when < MaxChanges
    /\ token' \in {t \in Tokens : t.when = token.when + 1}
    /\ UNCHANGED <<question, requests, list, dialogs, answers, asks, retries>>

Init ==
    /\ token \in {t \in Tokens : t.when = 0}
    /\ question = 0 /\ requests = <<>> /\ list = Cleared /\ dialogs = <<>>
    /\ answers = <<>> /\ asks = 0 /\ retries = 0

User(k) == Pick(k) \/ Cancel(k) \/ Retry(k)

Next ==
    \/ OnPkcs11 \/ DialogReturns \/ DaemonAnswers \/ StateChanges \/ TokenChanges
    \/ \E k \in DOMAIN dialogs : ListViewFill(k) \/ User(k)

Spec == Init /\ [][Next]_vars

-----------------------------------------------------------------------------
(* Every variable has its type. *)
Entries == {Empty, Freed, Undefined} \cup {Cert(w, i) : w \in 0 .. MaxChanges, i \in Indices}
TypeOK ==
    /\ token \in Tokens /\ question \in 0 .. MaxAsks
    /\ \A j \in DOMAIN requests : requests[j] \in {"count", "get"} \X Indices \cup {<<"count", 0>>}
    /\ list.pe \in Seq(Entries) /\ list.count \in 0 .. MaxCerts /\ list.selected \in 0 .. MaxCerts
    /\ {list.getCount, list.getEntry, list.filled, list.picked} \subseteq BOOLEAN
    /\ \A k \in DOMAIN dialogs :
          /\ {dialogs[k].open, dialogs[k].timer, dialogs[k].ready, dialogs[k].retry,
              dialogs[k].settled} \subseteq BOOLEAN
          /\ dialogs[k].rows \in Seq([at : Indices, entry : Entries])
          /\ dialogs[k].chosen \in Entries
          /\ dialogs[k].result \in {"none", "ok", "cancel", "state"}
    /\ \A j \in DOMAIN answers : answers[j] \in Entries \X Entries \X BOOLEAN
    /\ asks \in 0 .. MaxAsks /\ retries \in 0 .. MaxRetries

\* The id sent to the daemon is that of the certificate in the row the user picked,
\* though the list it is taken from belongs to all dialogs, is filled by answers to
\* questions of earlier ones and may be emptied and filled again; unless an answer was
\* still to come when the rows were inserted.
AnswerIsChosen ==
    \A j \in DOMAIN answers :
        answers[j][3] /\ answers[j][2][1] = "cert" => answers[j][1] = answers[j][2]

\* The same without the exception.
\* Not checked, it does not hold from three questions on: answers to the second listing may
\* fill the third list, which the answers to its own then change under the rows.
AlwaysChosen == \A j \in DOMAIN answers : answers[j][2][1] = "cert" => answers[j][1] = answers[j][2]

\* Only the id of a certificate is sent.
\* Not checked, it does not hold: a row that does not decode can be picked after its id was freed.
AnswerIsCertificate == \A j \in DOMAIN answers : answers[j][1][1] = "cert"

\* The list has room for as many certificates as it counts.
\* Not checked, it does not hold: a second answer to the count may follow a Retry.
RoomForAll == list.pe # <<>> => list.count <= Len(list.pe)
=============================================================================
