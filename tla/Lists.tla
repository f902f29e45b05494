------------------------------- MODULE Lists --------------------------------
(* What the modules of the correlation cycle share about lists.                *)
EXTENDS Sequences, SequencesExt

\* The elements of list that are in T, in their order.  A set, where SelectSeq takes
\* a test: the provers reason about sets only.
Selected(list, T) ==
  FlattenSeq([i \in DOMAIN list |-> IF list[i] \in T THEN <<list[i]>> ELSE <<>>])
=============================================================================
