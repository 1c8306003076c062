--------------------------------- MODULE Proxy ---------------------------------
(***************************************************************************)
(* The proxy settings and the answers to the daemon's ">PROXY" questions   *)
(* (proxy.c).  The settings page edits controls that are copied to o and   *)
(* to the registry when it is applied; status threads answer from o, or    *)
(* from the list of proxies Windows has for the URL.                       *)
(*                                                                         *)
(* An address and port is a member of Fields; those of Usable have a text  *)
(* in both and a port in range.  A token of Windows' list is a record: the *)
(* scheme before "=" or "://", the server, and whether a bracket of its    *)
(* address is left open.                                                   *)
(***************************************************************************)
EXTENDS Naturals, Sequences

CONSTANTS
    Fields,      \* what the address and port fields hold
    Usable,
    WinLists,    \* lists Windows gives
    MaxEdits,    \* bound: actions on the page
    MaxAsks      \* bound: questions

Types == {"http", "socks"}
Sources == {"config", "windows", "manual"}
Protocols == {"TCP", "UDP"}

VARIABLES
    opts,      \* o.proxy_source, o.proxy_type and the fields of each type
    registry,  \* the same, as stored
    page,      \* the controls of the page; <<>> when it is closed
    answers,   \* history: protocol, answer and the source in force
    spinning,  \* a status thread that never leaves ParseProxyString
    edits

vars == <<opts, registry, page, answers, spinning, edits>>

Settings == [source : Sources, type : Types, http : Fields, socks : Fields]
FieldOf(s, t) == IF t = "http" THEN s.http ELSE s.socks

-----------------------------------------------------------------------------
(* The page *)

\* LoadProxySettings
Open ==
    /\ page = <<>> /\ edits < MaxEdits /\ edits' = edits + 1
    /\ page' = <<[source |-> opts.source, type |-> opts.type, field |-> FieldOf(opts, opts.type)]>>
    /\ UNCHANGED <<opts, registry, answers, spinning>>

Editing == page # <<>> /\ edits < MaxEdits /\ edits' = edits + 1

PickSource(s) ==
    /\ Editing /\ page[1].source # s /\ page' = <<[page[1] EXCEPT !.source = s]>>
    /\ UNCHANGED <<opts, registry, answers, spinning>>

\* The type's buttons work only for manual settings; each shows what o holds.
PickType(t) ==
    /\ Editing /\ page[1].source = "manual"
    /\ page' = <<[page[1] EXCEPT !.type = t, !.field = FieldOf(opts, t)]>>
    /\ UNCHANGED <<opts, registry, answers, spinning>>

TypeField(f) ==
    /\ Editing /\ page[1].source = "manual" /\ page' = <<[page[1] EXCEPT !.field = f]>>
    /\ UNCHANGED <<opts, registry, answers, spinning>>

\* Mutant of CheckProxySettings: the range of the port is checked for HTTP only.
CheckHttpOnly(p) == p.source = "manual" /\ p.type = "http" => p.field \in Usable

\* CheckProxySettings: the page cannot be left with a manual proxy that is incomplete.
CheckProxySettings(p) == p.source = "manual" => p.field \in Usable

\* PSN_APPLY after PSN_KILLACTIVE: SaveProxySettings.  The field shown is stored for
\* its type whatever the source; the registry may refuse.
Apply ==
    /\ page # <<>> /\ CheckProxySettings(page[1]) /\ page' = <<>>
    /\ LET p == page[1]
           s == [opts EXCEPT !.source = p.source, !.type = p.type,
                             !.http = IF p.type = "http" THEN p.field ELSE @,
                             !.socks = IF p.type = "socks" THEN p.field ELSE @]
       IN  opts' = s /\ registry' \in {s, registry}
    /\ UNCHANGED <<answers, spinning, edits>>

Cancel == page # <<>> /\ page' = <<>> /\ UNCHANGED <<opts, registry, answers, spinning, edits>>

\* The GUI ends and starts again: GetProxyRegistrySettings.
Restart ==
    /\ page' = <<>> /\ opts' = registry /\ spinning' = FALSE
    /\ UNCHANGED <<registry, answers, edits>>

-----------------------------------------------------------------------------
(* Answers *)

\* The first token that fits: one of the scheme that is looked for, or for https one
\* of socks or of no scheme.  A bracket left open is tried again for ever.
Fits(token, scheme) ==
    \/ token.scheme = scheme
    \/ scheme = "https" /\ token.scheme \in {"socks", "none"}

ParseProxyString(list, scheme) ==
    LET fitting == SelectSeq(list, LAMBDA t : Fits(t, scheme)) IN
    IF fitting = <<>> THEN [type |-> "NONE", field |-> "none"]
    ELSE IF fitting[1].open THEN [type |-> "endless", field |-> "none"]
    ELSE [type |-> IF scheme = "socks" \/ fitting[1].scheme = "socks" THEN "SOCKS" ELSE "HTTP",
          field |-> fitting[1].server]

Answer(proto, list) ==
    IF opts.source = "manual"
    THEN IF opts.type = "http"
         THEN IF proto = "TCP" THEN [type |-> "HTTP", field |-> opts.http]
              ELSE [type |-> "NONE", field |-> "none"]
         ELSE [type |-> "SOCKS", field |-> opts.socks]
    ELSE IF opts.source = "windows"
    THEN ParseProxyString(list, IF proto = "TCP" THEN "https" ELSE "socks")
    ELSE [type |-> "NONE", field |-> "none"]

\* OnProxy; a question without protocol or host is not answered (external: the daemon
\* always sends both).
OnProxy(proto, list) ==
    /\ ~spinning /\ Len(answers) < MaxAsks
    /\ LET a == Answer(proto, list) IN
       IF a.type = "endless"
       THEN spinning' = TRUE /\ UNCHANGED answers
       ELSE /\ answers' = Append(answers, [proto |-> proto, type |-> a.type, field |-> a.field,
                                           source |-> opts.source])
            /\ UNCHANGED spinning
    /\ UNCHANGED <<opts, registry, page, edits>>

\* The program's first settings; the other process that may have written others is not
\* modelled.
Init ==
    /\ opts = [source |-> "config", type |-> "http", http |-> "", socks |-> ""]
    /\ registry = opts /\ page = <<>> /\ answers = <<>> /\ spinning = FALSE /\ edits = 0

Next ==
    \/ Open \/ Apply \/ Cancel \/ Restart
    \/ \E s \in Sources : PickSource(s)
    \/ \E t \in Types : PickType(t)
    \/ \E f \in Fields : TypeField(f)
    \/ \E proto \in Protocols, l \in WinLists : OnProxy(proto, l)

Spec == Init /\ [][Next]_vars

-----------------------------------------------------------------------------
(* Every variable has its type. *)
TypeOK ==
    /\ opts \in Settings /\ registry \in Settings /\ spinning \in BOOLEAN
    /\ \A i \in DOMAIN page : page[i] \in [source : Sources, type : Types, field : Fields]
    /\ \A i \in DOMAIN answers : answers[i].type \in {"NONE", "HTTP", "SOCKS"}
    /\ edits \in 0 .. MaxEdits

\* A proxy the daemon is told to use can be used: a manual one has an address and a
\* port, though the two types share their fields, the page may be left for another
\* source with anything in them and the registry may refuse; and only connections over
\* TCP are sent to an HTTP proxy.
ProxyUsable ==
    \A i \in DOMAIN answers :
        /\ answers[i].type = "HTTP" => answers[i].proto = "TCP"
        /\ answers[i].source = "manual" /\ answers[i].type # "NONE" => answers[i].field \in Usable
=============================================================================
