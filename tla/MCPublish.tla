------------------------------ MODULE MCPublish ------------------------------
(* Instances of PublishPipeline for TLC. *)
EXTENDS PublishInvariant

CONSTANTS a1, a2, a3, k1, k2, k3, s1, s2, s3, e1

\* One article per task.
SinglesContent == [k \in Keys |-> IF k = k1 THEN {a1} ELSE {a2}]
SinglesLead == [k \in Keys |-> IF k = k1 THEN a1 ELSE a2]

\* k1: an article, k2: the group it is in, k3: an article outside any group.
MixedContent ==
  [k \in Keys |-> CASE k = k1 -> {a1} [] k = k2 -> {a1, a2} [] k = k3 -> {a3}]
MixedLead == [k \in Keys |-> CASE k = k1 -> a1 [] k = k2 -> a2 [] k = k3 -> a3]

=============================================================================
