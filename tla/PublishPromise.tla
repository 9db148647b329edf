--------------------------- MODULE PublishPromise ---------------------------
(***************************************************************************)
(* What the publish pipeline promises to the owner of an account, with no  *)
(* session, lock or tick in sight: a task puts its articles online once,   *)
(* never after it was withdrawn, and is reported PUBLISHED only after that *)
(* and for good.  PublishPipeline implements it when its sessions do not   *)
(* overlap and nothing is lost between the channel and the commit.         *)
(***************************************************************************)
EXTENDS Naturals

CONSTANTS Articles, Keys,
          Delivery   \* Delivery[k]: the articles task k puts online

VARIABLES
  online,     \* online[x]: how often x was put online
  reported,   \* tasks reported PUBLISHED
  withdrawn   \* tasks cancelled

promiseVars == <<online, reported, withdrawn>>

PromiseInit ==
  /\ online = [x \in Articles |-> 0]
  /\ reported = {}
  /\ withdrawn = {}

Deliver(k) ==
  /\ k \notin withdrawn
  /\ \A x \in Delivery[k] : online[x] = 0
  /\ online' = [x \in Articles |-> IF x \in Delivery[k] THEN 1 ELSE online[x]]
  /\ UNCHANGED <<reported, withdrawn>>

\* A tick reports all it has published with one commit.
Report(K) ==
  /\ K \cap withdrawn = {}
  /\ \A k \in K : \A x \in Delivery[k] : online[x] = 1
  /\ reported' = reported \cup K
  /\ UNCHANGED <<online, withdrawn>>

Withdraw(k) ==
  /\ k \notin reported
  /\ withdrawn' = withdrawn \cup {k}
  /\ UNCHANGED <<online, reported>>

PromiseNext ==
  \/ \E k \in Keys : Deliver(k) \/ Withdraw(k)
  \/ \E K \in SUBSET Keys : Report(K)

PromiseSpec == PromiseInit /\ [][PromiseNext]_promiseVars
=============================================================================
