------------------------------- MODULE MCAuth -------------------------------
(***************************************************************************)
(* Module Auth for TLC: settings.                                          *)
(***************************************************************************)
EXTENDS Auth

Loud == [silent |-> FALSE, disableSave |-> FALSE]
Quiet == [silent |-> TRUE, disableSave |-> FALSE]
Locked == [silent |-> FALSE, disableSave |-> TRUE]

AllOptions == {Loud, Quiet, Locked}
LoudOnly == {Loud}

=============================================================================
