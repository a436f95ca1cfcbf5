------------------------ MODULE MCConcurrencySlots ------------------------
(* Small instances of ConcurrencySlots for TLC. *)
EXTENDS ConcurrencySlots, TLC

CONSTANTS r1, r2, r3, i1, i2

\* One chat request at each instance, and a Live request at the first.
TwoHomes == r1 :> i1 @@ r2 :> i2 @@ r3 :> i1

\* The user has no limit of their own: the account is what they compete for.
Limits == "user" :> 0 @@ "account" :> 1
Queues == [k \in Kinds |-> 1]
=============================================================================
