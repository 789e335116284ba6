------------------------------- MODULE Selection -------------------------------
EXTENDS SequencesExt

\* The elements of a sequence that are in S, in their order.
Chosen(s, S) == FoldLeft(LAMBDA t, e : IF e \in S THEN Append(t, e) ELSE t, <<>>, s)
================================================================================
