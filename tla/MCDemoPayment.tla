---------------------------- MODULE MCDemoPayment ----------------------------
(* The instance of DemoPayment for TLC. *)
EXTENDS DemoPayment

OneProduct == {"p1"}

Token(i) == [product |-> "p1", attempt |-> i, key |-> "pay"]

(* One request key for each of a user's attempts. *)
Tokens == {Token(1), Token(2)}
Reports == {CommandFor(e) : e \in Tokens}
=============================================================================
