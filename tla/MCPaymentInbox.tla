--------------------------- MODULE MCPaymentInbox ---------------------------
(* Instances of PaymentInbox for TLC. *)
EXTENDS PaymentInbox, TLC

OneProduct == {"p1"}
TwoProducts == {"p1", "p2"}

Succeeds(p, i, r) == [product |-> p, attempt |-> i, outcome |-> "succeeded", ref |-> r]
Fails(p, i) == [product |-> p, attempt |-> i, outcome |-> "failed", ref |-> "none"]

(* Reports about one attempt that contradict each other, one reference for *)
(* two products, and a report about an attempt nobody has made.            *)
Reports == {Succeeds("p1", 1, "r1"), Succeeds("p1", 1, "r2"), Fails("p1", 1),
            Succeeds("p2", 1, "r1"), Succeeds("p2", 2, "r1")}

(* Two reports about one attempt. *)
PaidOrFailed == {Succeeds("p1", 1, "r1"), Fails("p1", 1)}

Interchangeable == Permutations(Events) \cup Permutations(Handlers) \cup Permutations(Users)
=============================================================================
