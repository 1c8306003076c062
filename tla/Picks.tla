--------------------------------- MODULE Picks ---------------------------------
EXTENDS Sequences, SequencesExt

\* The elements of a sequence that are in a set, in their order.
Only(s, S) == FoldLeft(LAMBDA t, x : IF x \in S THEN Append(t, x) ELSE t, <<>>, s)
=============================================================================
