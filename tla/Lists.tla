------------------------------- MODULE Lists -------------------------------
(***************************************************************************)
(* What the models use of Python's lists and OrderedDicts: the first       *)
(* elements of a list, how far two lists agree, a list without some of its *)
(* elements.                                                               *)
(***************************************************************************)
EXTENDS Integers, Sequences, FiniteSets, SequencesExt, FiniteSetsExt

Take(s, k) == SubSeq(s, 1, k)

(* The tokens that two lists begin with (_common).                         *)
Common(s, t) ==
  LET both == IF Len(s) < Len(t) THEN Len(s) ELSE Len(t)
  IN Max({k \in 0..both : Take(s, k) = Take(t, k)})

(* Mutant: remove() is left out.                                           *)
WithoutNone(q, S) == q

(* The list q without the elements of S (remove(), pop()).                 *)
Without(q, S) ==
  LET left[n \in 0..Len(q)] ==
        IF n = 0 THEN <<>> ELSE IF q[n] \in S THEN left[n - 1] ELSE Append(left[n - 1], q[n])
  IN left[Len(q)]
=============================================================================
