------------------------------ MODULE MCContent ------------------------------
(* Instances of ContentReview for TLC. *)
EXTENDS ContentReview, TLC

CONSTANTS a1, a2, a3, g1, m1, m2, b1, b2, r1, r2, mp1

OneAccount == [x \in Articles \cup Groups |-> mp1]

\* Body b1 shows the material m1, b2 shows none.
FirstHasImage == [b \in Bodies |-> IF b = b1 THEN m1 ELSE None]

SameContent == [m \in Materials |-> "file"]

\* a1 is edited, a2 written once.
WorkOnFirst == [a \in Articles |-> IF a = a1 THEN 2 ELSE 1]

\* Text, review and images in one half of the state space; groups and covers in
\* the other.
WritingOrArranging ==
  {{"create", "edit", "version", "rollback", "submit", "audit", "material"},
   {"create", "cover", "group", "material", "submit"}}

Everything == {Kinds}

RequestSymmetry == Permutations(Requests)
=============================================================================
