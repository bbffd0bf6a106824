------------------------------- MODULE Lists --------------------------------
(***************************************************************************)
(* Lists as the Python code filters them: a comprehension with a           *)
(* condition, one that keeps the members of a set, and one that leaves out *)
(* what it has already met.                                                *)
(***************************************************************************)
EXTENDS Integers, SequencesExt

IsList(s) == s \in Seq(ToSet(s))

\* s stands in t, in one piece.
PartOf(s, t) == \E i \in 0..(Len(t) - Len(s)) : s = SubSeq(t, i + 1, i + Len(s))

\* The elements of s that are kept, in their order.
Selected(s, kept) ==
    LET upto[n \in 0..Len(s)] ==
            IF n = 0 THEN <<>>
            ELSE IF kept[n] THEN Append(upto[n - 1], s[n]) ELSE upto[n - 1]
    IN  upto[Len(s)]

\* The elements of s that belong to a set.
Among(s, set) == Selected(s, [n \in DOMAIN s |-> s[n] \in set])

\* Each element once, where it appears first.
Distinct(s) == Selected(s, [n \in DOMAIN s |-> \A k \in 1..(n - 1) : s[k] # s[n]])
=============================================================================
