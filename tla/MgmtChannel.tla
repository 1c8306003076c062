----------------------------- MODULE MgmtChannel -----------------------------
(***************************************************************************)
(* What the management command queue of manage.c promises its callers: a   *)
(* FIFO channel to the daemon.  While the connection lasts every command   *)
(* arrives whole, once, and in the order of the calls; closing the         *)
(* connection drops what was not delivered.                                *)
(***************************************************************************)
EXTENDS Sequences

CONSTANT Command    \* management commands

VARIABLES
    chan,   \* commands issued and not yet delivered
    got,    \* commands the daemon received over this connection
    up      \* the connection is established

vars == <<chan, got, up>>

Init == chan = <<>> /\ got = <<>> /\ up = FALSE

Issue == /\ \E c \in Command : chan' = Append(chan, c)
         /\ UNCHANGED <<got, up>>

Deliver == /\ up /\ chan # <<>>
           /\ got' = Append(got, Head(chan)) /\ chan' = Tail(chan)
           /\ UNCHANGED up

Connect == ~up /\ up' = TRUE /\ UNCHANGED <<chan, got>>

Reset == chan' = <<>> /\ got' = <<>> /\ up' = FALSE

Next == Issue \/ Deliver \/ Connect \/ Reset

Spec == Init /\ [][Next]_vars
=============================================================================
