----------------------- MODULE QueueTransactionProofs -----------------------
(***************************************************************************)
(* Facts about the transactions of QueueTransaction, for every value of    *)
(* its constants: what a transaction that starts from a good product       *)
(* leaves behind.  ProductQueueProofs turns them into invariants.          *)
(***************************************************************************)
EXTENDS QueueTransaction, FiniteSetTheorems, WellFoundedInduction, TLAPS

-----------------------------------------------------------------------------
(***************************************************************************)
(* FirstN: the prefix of a finite set of queue positions.                  *)
(***************************************************************************)
Below(S, i) == {j \in S : j < i}

(* The positions below a greater member are strictly more.                 *)
LEMMA BelowGrows ==
  ASSUME NEW S \in SUBSET Nat, IsFiniteSet(S),
         NEW i \in S, NEW k \in S, i < k
  PROVE  /\ Cardinality(Below(S, i)) \in Nat
         /\ Cardinality(Below(S, k)) \in Nat
         /\ Cardinality(Below(S, i)) < Cardinality(Below(S, k))
<1>1. /\ IsFiniteSet(Below(S, i))
      /\ IsFiniteSet(Below(S, k))
  BY FS_Subset DEF Below
<1>2. Below(S, i) \in SUBSET Below(S, k)
  <2>1. \A j \in S : j < i => j < k
    OBVIOUS
  <2> QED
    BY <2>1 DEF Below
<1>3. i \in Below(S, k) /\ i \notin Below(S, i)
  BY DEF Below
<1>4. /\ Cardinality(Below(S, i)) <= Cardinality(Below(S, k))
      /\ Cardinality(Below(S, i)) # Cardinality(Below(S, k))
  BY <1>1, <1>2, <1>3, FS_Subset
<1> QED
  BY <1>1, <1>4, FS_CardinalityType

(* The prefix a bounded loop reaches: part of the set, at most n members,  *)
(* and closed downwards.                                                   *)
LEMMA FirstNPrefix ==
  ASSUME NEW S \in SUBSET Nat, IsFiniteSet(S), NEW n \in Nat
  PROVE  /\ FirstN(S, n) \in SUBSET S
         /\ IsFiniteSet(FirstN(S, n))
         /\ Cardinality(FirstN(S, n)) \in Nat
         /\ Cardinality(FirstN(S, n)) <= n
         /\ \A i \in S, k \in FirstN(S, n) : i < k => i \in FirstN(S, n)
<1> DEFINE F == FirstN(S, n)
           rank == [i \in F |-> Cardinality(Below(S, i))]
<1>1. F \in SUBSET S
  BY DEF FirstN
<1>2. IsFiniteSet(F) /\ Cardinality(F) \in Nat
  BY <1>1, FS_Subset, FS_CardinalityType
<1>3. \A i \in F : Cardinality(Below(S, i)) \in Nat /\ Cardinality(Below(S, i)) < n
  <2> TAKE i \in F
  <2>1. IsFiniteSet(Below(S, i))
    BY FS_Subset DEF Below
  <2> QED
    BY <2>1, FS_CardinalityType DEF FirstN, Below
<1>4. \A i, k \in F : i # k => rank[i] # rank[k]
  <2> TAKE i, k \in F
  <2>1. i \in S /\ k \in S /\ i \in Nat /\ k \in Nat
    BY <1>1
  <2>2. CASE i < k
    BY <2>1, <2>2, BelowGrows
  <2>3. CASE k < i
    BY <2>1, <2>3, BelowGrows
  <2> QED
    BY <2>1, <2>2, <2>3
<1>5. rank \in Injection(F, 0 .. (n - 1))
  BY <1>3, <1>4 DEF Injection, IsInjective
<1>6. /\ IsFiniteSet(0 .. (n - 1))
      /\ Cardinality(0 .. (n - 1)) = n
  BY FS_Interval
<1>7. Cardinality(F) <= n
  BY <1>5, <1>6, FS_Injection
<1>8. ASSUME NEW i \in S, NEW k \in F, i < k
      PROVE  i \in F
  BY <1>1, <1>3, <1>8, BelowGrows DEF FirstN, Below
<1> QED
  BY <1>1, <1>2, <1>7, <1>8

(* A bounded loop that stops short of its bound has reached everything.    *)
LEMMA FirstNExhausts ==
  ASSUME NEW S \in SUBSET Nat, IsFiniteSet(S), NEW n \in Nat,
         Cardinality(FirstN(S, n)) < n
  PROVE  FirstN(S, n) = S
<1> DEFINE F == FirstN(S, n)
<1>1. SUFFICES ASSUME S \ F # {} PROVE FALSE
  BY FirstNPrefix
<1>2. PICK x \in S \ F : \A y \in S \ F : ~ (<<y, x>> \in OpToRel(<, Nat))
  BY <1>1, NatLessThanWellFounded, WFMin
<1>3. \A y \in S \ F : ~ (y < x)
  BY <1>2 DEF OpToRel
<1>4. Below(S, x) \in SUBSET F
  BY <1>3 DEF Below
<1>5. Cardinality(Below(S, x)) <= Cardinality(F)
  BY <1>4, FirstNPrefix, FS_Subset
<1>6. Cardinality(Below(S, x)) \in Nat
  BY <1>4, FirstNPrefix, FS_Subset, FS_CardinalityType
<1>7. Cardinality(Below(S, x)) < n
  BY <1>5, <1>6, FirstNPrefix
<1> QED
  BY <1>2, <1>7 DEF FirstN, Below

-----------------------------------------------------------------------------
(***************************************************************************)
(* A good product: what every transaction may assume of the product it     *)
(* locks and must leave of the product it commits.                         *)
(***************************************************************************)
WellFormed(t) ==
  t \in [stock : 0 .. MaxStock, reserved : Int, next : 1 .. MaxSequence,
         enabled : BOOLEAN, attempts : [1 .. (t.next - 1) -> Attempt],
         outbox : SUBSET (1 .. (t.next - 1)), failed : BOOLEAN]

InOrder(t) ==
  \A i, k \in DOMAIN t.attempts :
    i < k /\ t.attempts[i].state = "waiting"
      => t.attempts[k].state \in {"waiting", "cancelled"}

ActiveIsLatest(t) ==
  \A i, k \in DOMAIN t.attempts :
    i < k /\ t.attempts[i].user = t.attempts[k].user
      => t.attempts[i].state \notin Active

KeysDistinct(t) ==
  \A i, k \in DOMAIN t.attempts :
    /\ t.attempts[i].user = t.attempts[k].user
    /\ t.attempts[i].key = t.attempts[k].key
    => i = k

InvitedAnnounced(t) ==
  \A i \in DOMAIN t.attempts :
    /\ t.attempts[i].state = "invited" => i \in t.outbox
    /\ t.attempts[i].state \in {"waiting", "sold_out"} => i \notin t.outbox

Good(t) == /\ WellFormed(t)
           /\ ~t.failed
           /\ Consistent(t)
           /\ InOrder(t)
           /\ ActiveIsLatest(t)
           /\ KeysDistinct(t)
           /\ InvitedAnnounced(t)

(* What every write keeps by itself, whoever is ahead of whom in line.     *)
Sound(t) == WellFormed(t) /\ ~t.failed /\ Consistent(t)

LEMMA Fields ==
  ASSUME NEW t, WellFormed(t)
  PROVE  /\ t.stock \in 0 .. MaxStock /\ t.stock \in Nat /\ t.reserved \in Int
         /\ t.next \in 1 .. MaxSequence /\ t.next \in Nat
         /\ t.enabled \in BOOLEAN /\ t.failed \in BOOLEAN
         /\ t.attempts \in [1 .. (t.next - 1) -> Attempt]
         /\ DOMAIN t.attempts = 1 .. (t.next - 1)
         /\ DOMAIN t.attempts \in SUBSET Nat
         /\ IsFiniteSet(DOMAIN t.attempts)
         /\ t.outbox \in SUBSET (1 .. (t.next - 1))
         /\ \A i \in DOMAIN t.attempts :
              /\ t.attempts[i] \in Attempt
              /\ t.attempts[i].state \in Active \cup Terminal
              /\ t.attempts[i].left \in Nat
<1>1. /\ t.stock \in 0 .. MaxStock /\ t.reserved \in Int
      /\ t.next \in 1 .. MaxSequence
      /\ t.enabled \in BOOLEAN /\ t.failed \in BOOLEAN
      /\ t.attempts \in [1 .. (t.next - 1) -> Attempt]
      /\ t.outbox \in SUBSET (1 .. (t.next - 1))
  BY DEF WellFormed
<1>2. t.next \in Nat /\ t.next - 1 \in Int /\ t.stock \in Nat
  BY <1>1, BoundAssumption
<1>3. DOMAIN t.attempts = 1 .. (t.next - 1)
  BY <1>1
<1>4. IsFiniteSet(1 .. (t.next - 1)) /\ 1 .. (t.next - 1) \in SUBSET Nat
  <2>1. IsFiniteSet(1 .. (t.next - 1))
    BY <1>2, FS_Interval
  <2>2. 1 .. (t.next - 1) \in SUBSET Nat
    BY <1>2
  <2> QED
    BY <2>1, <2>2
<1>5. \A i \in DOMAIN t.attempts :
        /\ t.attempts[i] \in Attempt
        /\ t.attempts[i].state \in Active \cup Terminal
        /\ t.attempts[i].left \in Nat
  BY <1>1, <1>3 DEF Attempt
<1> QED
  BY <1>1, <1>2, <1>3, <1>4, <1>5

(* Every set of attempts the code loops over is a finite set of sequence   *)
(* numbers.                                                                *)
LEMMA AttemptSets ==
  ASSUME NEW t, WellFormed(t), NEW T \in SUBSET DOMAIN t.attempts
  PROVE  /\ T \in SUBSET Nat
         /\ IsFiniteSet(T)
         /\ Cardinality(T) \in Nat
BY Fields, FS_Subset, FS_CardinalityType

LEMMA StatesDisjoint ==
  /\ Active \cap Terminal = {}
  /\ Reserving \subseteq Active
  /\ "waiting" \in Active /\ "waiting" \notin Reserving
BY DEF Active, Terminal, Reserving

LEMMA DisjointCardinality ==
  ASSUME NEW A, NEW B, IsFiniteSet(A), IsFiniteSet(B), A \cap B = {}
  PROVE  Cardinality(A \cup B) = Cardinality(A) + Cardinality(B)
<1>1. Cardinality(A \cup B) = Cardinality(A) + Cardinality(B) - Cardinality(A \cap B)
  BY FS_Union
<1>2. Cardinality(A \cap B) = 0
  BY FS_EmptySet
<1>3. Cardinality(A) \in Nat /\ Cardinality(B) \in Nat
  BY FS_CardinalityType
<1> QED
  BY <1>1, <1>2, <1>3

(* What reconciliation selects: disjoint sets of attempts, within budget.  *)
LEMMA Selected ==
  ASSUME NEW t, WellFormed(t), Consistent(t), NEW limit \in Nat
  PROVE  /\ Holders(t) \in SUBSET DOMAIN t.attempts
         /\ Waiting(t) \in SUBSET DOMAIN t.attempts
         /\ Holders(t) \cap Waiting(t) = {}
         /\ ToExpire(t, limit) \in SUBSET Due(t)
         /\ Due(t) \in SUBSET Holders(t)
         /\ ToSellOut(t, limit) \in SUBSET Waiting(t)
         /\ ToInvite(t, limit) \in SUBSET Waiting(t)
         /\ ToSellOut(t, limit) = {} \/ ToInvite(t, limit) = {}
         /\ Cardinality(ToExpire(t, limit)) \in Nat
         /\ Budget(t, limit) \in Nat
         /\ StillHeld(t, limit) \in 0 .. t.stock
         /\ Cardinality(ToInvite(t, limit)) \in Nat
         /\ Cardinality(ToInvite(t, limit)) <= t.stock - StillHeld(t, limit)
<1>1. /\ Holders(t) \in SUBSET DOMAIN t.attempts
      /\ Waiting(t) \in SUBSET DOMAIN t.attempts
      /\ Holders(t) \cap Waiting(t) = {}
      /\ Due(t) \in SUBSET Holders(t)
      /\ Due(t) \in SUBSET DOMAIN t.attempts
  BY DEF Holders, Waiting, Due, InState, Reserving
<1>2. /\ Due(t) \in SUBSET Nat /\ IsFiniteSet(Due(t))
      /\ Waiting(t) \in SUBSET Nat /\ IsFiniteSet(Waiting(t))
      /\ Holders(t) \in SUBSET Nat /\ IsFiniteSet(Holders(t))
      /\ Cardinality(Holders(t)) \in Nat
  BY <1>1, AttemptSets
<1>3. /\ ToExpire(t, limit) \in SUBSET Due(t)
      /\ Cardinality(ToExpire(t, limit)) \in Nat
      /\ Cardinality(ToExpire(t, limit)) <= limit
  BY <1>2, FirstNPrefix DEF ToExpire
<1>4. Cardinality(ToExpire(t, limit)) <= Cardinality(Holders(t))
  BY <1>1, <1>2, <1>3, FS_Subset
<1>5. Budget(t, limit) \in Nat
  BY <1>3 DEF Budget
<1>6. StillHeld(t, limit) \in 0 .. t.stock /\ t.stock - StillHeld(t, limit) \in Nat
  BY <1>2, <1>3, <1>4, Fields DEF StillHeld, Consistent
<1>7. ToSellOut(t, limit) \in SUBSET Waiting(t)
  BY <1>2, <1>5, FirstNPrefix DEF ToSellOut
<1>8. /\ ToInvite(t, limit) \in SUBSET Waiting(t)
      /\ Cardinality(ToInvite(t, limit)) \in Nat
      /\ Cardinality(ToInvite(t, limit)) <= t.stock - StillHeld(t, limit)
  <2> DEFINE n == Smaller(Budget(t, limit), t.stock - StillHeld(t, limit))
  <2>1. n \in Nat /\ n <= t.stock - StillHeld(t, limit)
    BY <1>5, <1>6 DEF Smaller
  <2>2. /\ FirstN(Waiting(t), n) \in SUBSET Waiting(t)
        /\ Cardinality(FirstN(Waiting(t), n)) \in Nat
        /\ Cardinality(FirstN(Waiting(t), n)) <= n
    BY <1>2, <2>1, FirstNPrefix
  <2>3. CASE t.stock = 0
    BY <2>3, <1>6, FS_EmptySet DEF ToInvite
  <2>4. CASE t.stock # 0
    <3>1. ToInvite(t, limit) = FirstN(Waiting(t), n)
      BY <2>4 DEF ToInvite
    <3> QED
      BY <3>1, <2>1, <2>2, <1>6
  <2> QED
    BY <2>3, <2>4
<1>9. ToSellOut(t, limit) = {} \/ ToInvite(t, limit) = {}
  BY DEF ToSellOut, ToInvite
<1> QED
  BY <1>1, <1>3, <1>5, <1>6, <1>7, <1>8, <1>9

LEMMA MovedFields ==
  ASSUME NEW a \in Attempt, NEW state \in Active \cup Terminal, NEW left \in Nat
  PROVE  /\ Moved(a, state, left) \in Attempt
         /\ Moved(a, state, left).user = a.user
         /\ Moved(a, state, left).key = a.key
         /\ Moved(a, state, left).ref = a.ref
         /\ Moved(a, state, left).state = state
         /\ Moved(a, state, left).left = left
BY DEF Moved, Attempt

(* The product after reconciliation, attempt by attempt.                   *)
LEMMA ReconciledFields ==
  ASSUME NEW t, WellFormed(t), Consistent(t), NEW limit \in Nat
  PROVE  LET r == ReconcileBounded(t, limit)
         IN  /\ WellFormed(r)
             /\ r.stock = t.stock /\ r.next = t.next /\ r.enabled = t.enabled
             /\ r.failed = t.failed
             /\ r.reserved = StillHeld(t, limit) + Cardinality(ToInvite(t, limit))
             /\ r.outbox = t.outbox \cup ToInvite(t, limit)
             /\ DOMAIN r.attempts = DOMAIN t.attempts
             /\ \A i \in DOMAIN t.attempts :
                  /\ r.attempts[i].user = t.attempts[i].user
                  /\ r.attempts[i].key = t.attempts[i].key
                  /\ r.attempts[i].ref = t.attempts[i].ref
                  /\ r.attempts[i].state =
                       IF i \in ToExpire(t, limit) THEN ExpiredState(t.attempts[i])
                       ELSE IF i \in ToSellOut(t, limit) THEN "sold_out"
                       ELSE IF i \in ToInvite(t, limit) THEN "invited"
                       ELSE t.attempts[i].state
                  /\ i \in ToInvite(t, limit) => r.attempts[i].left = InvitationTTL
                  /\ i \notin ToExpire(t, limit) \cup ToSellOut(t, limit)
                                \cup ToInvite(t, limit)
                       => r.attempts[i] = t.attempts[i]
<1> DEFINE r == ReconcileBounded(t, limit)
           X == ToExpire(t, limit)
           S == ToSellOut(t, limit)
           V == ToInvite(t, limit)
           After(i) == CASE i \in X -> Moved(t.attempts[i], ExpiredState(t.attempts[i]), 0)
                         [] i \in S -> Moved(t.attempts[i], "sold_out", 0)
                         [] i \in V -> Moved(t.attempts[i], "invited", InvitationTTL)
                         [] OTHER -> t.attempts[i]
<1>1. /\ X \cap S = {} /\ X \cap V = {} /\ S \cap V = {}
      /\ V \in SUBSET DOMAIN t.attempts
  BY Selected
<1>2. r = [t EXCEPT !.failed = @ \/ ~Consistent(t),
                    !.reserved = StillHeld(t, limit) + Cardinality(V),
                    !.outbox = t.outbox \cup V,
                    !.attempts = [i \in DOMAIN t.attempts |-> After(i)]]
  BY DEF ReconcileBounded, Announced
<1>3. /\ r.stock = t.stock /\ r.next = t.next /\ r.enabled = t.enabled
      /\ r.failed = t.failed
      /\ r.reserved = StillHeld(t, limit) + Cardinality(V)
      /\ r.outbox = t.outbox \cup V
      /\ r.attempts = [i \in DOMAIN t.attempts |-> After(i)]
  BY <1>2, Fields DEF WellFormed
<1>4. ASSUME NEW i \in DOMAIN t.attempts
      PROVE  /\ After(i) \in Attempt
             /\ After(i).user = t.attempts[i].user
             /\ After(i).key = t.attempts[i].key
             /\ After(i).ref = t.attempts[i].ref
             /\ After(i).state = IF i \in X THEN ExpiredState(t.attempts[i])
                                 ELSE IF i \in S THEN "sold_out"
                                 ELSE IF i \in V THEN "invited"
                                 ELSE t.attempts[i].state
             /\ i \in V => After(i).left = InvitationTTL
             /\ i \notin X \cup S \cup V => After(i) = t.attempts[i]
  <2>1. t.attempts[i] \in Attempt
    BY Fields
  <2>2. ExpiredState(t.attempts[i]) \in Active \cup Terminal
    BY DEF ExpiredState, Terminal
  <2>3. "sold_out" \in Active \cup Terminal /\ "invited" \in Active \cup Terminal
    BY DEF Active, Terminal, Reserving
  <2>4. CASE i \in X
    <3>1. After(i) = Moved(t.attempts[i], ExpiredState(t.attempts[i]), 0)
      BY <2>4, <1>1
    <3> HIDE DEF After, X, S, V
    <3> QED
      BY <3>1, <2>4, <1>1, <2>1, <2>2, MovedFields
  <2>5. CASE i \in S
    <3>1. After(i) = Moved(t.attempts[i], "sold_out", 0)
      BY <2>5, <1>1
    <3> HIDE DEF After, X, S, V
    <3> QED
      BY <3>1, <2>5, <1>1, <2>1, <2>3, MovedFields
  <2>6. CASE i \in V
    <3>1. After(i) = Moved(t.attempts[i], "invited", InvitationTTL)
      BY <2>6, <1>1
    <3> HIDE DEF After, X, S, V
    <3> QED
      BY <3>1, <2>6, <1>1, <2>1, <2>3, TTLAssumption, MovedFields
  <2>7. CASE i \notin X \cup S \cup V
    <3>1. After(i) = t.attempts[i]
      BY <2>7
    <3> HIDE DEF After, X, S, V
    <3> QED
      BY <3>1, <2>7, <2>1
  <2> QED
    BY <2>4, <2>5, <2>6, <2>7
<1>5. WellFormed(r)
  <2> HIDE DEF After, X, S, V
  <2>1. [i \in DOMAIN t.attempts |-> After(i)] \in [1 .. (t.next - 1) -> Attempt]
    BY <1>4, Fields
  <2>2. StillHeld(t, limit) + Cardinality(V) \in Int
    BY Selected DEF V
  <2>3. t.outbox \cup V \in SUBSET (1 .. (t.next - 1))
    BY <1>1, Fields
  <2>4. (t.failed \/ ~Consistent(t)) \in BOOLEAN
    OBVIOUS
  <2> QED
    BY <1>2, <1>3, <2>1, <2>2, <2>3, <2>4 DEF WellFormed
<1> HIDE DEF After, X, S, V
<1>6. DOMAIN r.attempts = DOMAIN t.attempts
      /\ \A i \in DOMAIN t.attempts : r.attempts[i] = After(i)
  BY <1>3
<1> QED
  BY <1>3, <1>4, <1>5, <1>6 DEF X, S, V

(* The line is served from its head: whoever is selected, everyone who     *)
(* waits in front of him is selected too.                                  *)
LEMMA ServedFromTheHead ==
  ASSUME NEW t, WellFormed(t), Consistent(t), NEW limit \in Nat,
         NEW i \in Waiting(t), NEW k, i < k
  PROVE  /\ k \in ToSellOut(t, limit) => i \in ToSellOut(t, limit)
         /\ k \in ToInvite(t, limit) => i \in ToInvite(t, limit)
<1>1. Waiting(t) \in SUBSET Nat /\ IsFiniteSet(Waiting(t))
  BY Selected, AttemptSets
<1>2. /\ Budget(t, limit) \in Nat
      /\ Smaller(Budget(t, limit), t.stock - StillHeld(t, limit)) \in Nat
  <2>1. Budget(t, limit) \in Nat /\ StillHeld(t, limit) \in 0 .. t.stock
    BY Selected
  <2>2. t.stock \in Nat
    BY Fields, BoundAssumption
  <2> QED
    BY <2>1, <2>2 DEF Smaller
<1>3. k \in ToSellOut(t, limit) => i \in ToSellOut(t, limit)
  BY <1>1, <1>2, FirstNPrefix DEF ToSellOut
<1>4. k \in ToInvite(t, limit) => i \in ToInvite(t, limit)
  <2> DEFINE n == Smaller(Budget(t, limit), t.stock - StillHeld(t, limit))
  <2>1. SUFFICES ASSUME k \in ToInvite(t, limit) PROVE i \in ToInvite(t, limit)
    OBVIOUS
  <2>2. t.stock # 0 /\ ToInvite(t, limit) = FirstN(Waiting(t), n)
    BY <2>1 DEF ToInvite
  <2>3. n \in Nat
    BY <1>2
  <2> HIDE DEF n
  <2> QED
    BY <1>1, <2>1, <2>2, <2>3, FirstNPrefix
<1> QED
  BY <1>3, <1>4

(* Reconciliation keeps a good product good, whatever its limit.           *)
THEOREM ReconcileKeepsGood ==
  ASSUME NEW t, Good(t), NEW limit \in Nat
  PROVE  Good(ReconcileBounded(t, limit))
<1> DEFINE r == ReconcileBounded(t, limit)
           X == ToExpire(t, limit)
           S == ToSellOut(t, limit)
           V == ToInvite(t, limit)
<1> USE DEF Good
<1>1. /\ WellFormed(r) /\ ~r.failed
      /\ r.stock = t.stock
      /\ r.reserved = StillHeld(t, limit) + Cardinality(V)
      /\ r.outbox = t.outbox \cup V
      /\ DOMAIN r.attempts = DOMAIN t.attempts
  BY ReconciledFields
<1>2. \A i \in DOMAIN t.attempts :
        /\ r.attempts[i].user = t.attempts[i].user
        /\ r.attempts[i].key = t.attempts[i].key
        /\ r.attempts[i].state = IF i \in X THEN ExpiredState(t.attempts[i])
                                 ELSE IF i \in S THEN "sold_out"
                                 ELSE IF i \in V THEN "invited"
                                 ELSE t.attempts[i].state
  BY ReconciledFields
<1>3. /\ X \in SUBSET Holders(t) /\ X \in SUBSET DOMAIN t.attempts
      /\ S \in SUBSET Waiting(t) /\ S \in SUBSET DOMAIN t.attempts
      /\ V \in SUBSET Waiting(t) /\ V \in SUBSET DOMAIN t.attempts
      /\ S = {} \/ V = {}
      /\ Holders(t) \in SUBSET DOMAIN t.attempts
      /\ Holders(t) \cap Waiting(t) = {}
  BY Selected
<1>4. /\ \A i \in DOMAIN t.attempts : i \in Waiting(t) <=> t.attempts[i].state = "waiting"
      /\ \A i \in DOMAIN t.attempts :
           i \in Holders(t) <=> t.attempts[i].state \in {"invited", "checkout"}
  BY DEF Waiting, Holders, InState, Reserving
<1>5. \A i \in DOMAIN t.attempts :
        ExpiredState(t.attempts[i]) \in {"invite_expired", "checkout_expired"}
  BY DEF ExpiredState
<1>6. \A i \in DOMAIN t.attempts :
        r.attempts[i].state = "waiting" =>
          t.attempts[i].state = "waiting" /\ i \notin X \cup S \cup V
  BY <1>2, <1>5
<1>7. Consistent(r)
  <2>1. Holders(r) = (Holders(t) \ X) \cup V
    <3>1. \A i \in DOMAIN t.attempts :
            r.attempts[i].state \in {"invited", "checkout"}
              <=> i \in (Holders(t) \ X) \cup V
      BY <1>2, <1>3, <1>4, <1>5
    <3>2. \A i : i \in Holders(r) <=>
            i \in DOMAIN t.attempts /\ r.attempts[i].state \in {"invited", "checkout"}
      BY <1>1 DEF Holders, InState, Reserving
    <3> QED
      BY <3>1, <3>2, <1>3
  <2>2. /\ IsFiniteSet(Holders(t)) /\ Cardinality(Holders(t)) \in Nat
        /\ IsFiniteSet(X) /\ Cardinality(X) \in Nat
        /\ IsFiniteSet(V) /\ Cardinality(V) \in Nat
        /\ IsFiniteSet(Holders(t) \ X) /\ Cardinality(Holders(t) \ X) \in Nat
    <3>1. Holders(t) \ X \in SUBSET DOMAIN t.attempts
      BY <1>3
    <3> QED
      BY <1>3, <3>1, AttemptSets
  <2>3. Cardinality(Holders(t)) = Cardinality(Holders(t) \ X) + Cardinality(X)
    <3>1. Holders(t) = (Holders(t) \ X) \cup X /\ (Holders(t) \ X) \cap X = {}
      BY <1>3
    <3>2. Cardinality((Holders(t) \ X) \cup X)
            = Cardinality(Holders(t) \ X) + Cardinality(X)
      BY <2>2, <3>1, DisjointCardinality
    <3> HIDE DEF X
    <3> QED
      BY <3>1, <3>2
  <2>4. Cardinality(Holders(r)) = Cardinality(Holders(t) \ X) + Cardinality(V)
    <3>1. (Holders(t) \ X) \cap V = {}
      BY <1>3
    <3> QED
      BY <2>1, <2>2, <3>1, DisjointCardinality
  <2>5. StillHeld(t, limit) = t.reserved - Cardinality(X)
    BY DEF StillHeld
  <2>6. t.reserved = Cardinality(Holders(t))
    BY DEF Consistent
  <2>7. r.reserved = Cardinality(Holders(r))
    BY <1>1, <2>2, <2>3, <2>4, <2>5, <2>6
  <2>8. r.reserved \in 0 .. r.stock
    <3>1. /\ StillHeld(t, limit) \in 0 .. t.stock /\ t.stock \in 0 .. MaxStock
          /\ Cardinality(V) <= t.stock - StillHeld(t, limit)
      BY Selected, Fields
    <3> QED
      BY <1>1, <2>2, <3>1
  <2> QED
    BY <2>7, <2>8 DEF Consistent
<1>8. InOrder(r)
  <2>1. SUFFICES ASSUME NEW i \in DOMAIN t.attempts, NEW k \in DOMAIN t.attempts,
                        i < k, r.attempts[i].state = "waiting"
                 PROVE  r.attempts[k].state \in {"waiting", "cancelled"}
    BY <1>1 DEF InOrder
  <2>2. i \in Waiting(t) /\ i \notin S /\ i \notin V
    BY <2>1, <1>4, <1>6
  <2>3. t.attempts[k].state \in {"waiting", "cancelled"}
    BY <2>1, <1>6 DEF InOrder
  <2>4. k \notin X /\ k \notin S /\ k \notin V
    BY <2>1, <2>2, <2>3, <1>3, <1>4, ServedFromTheHead
  <2> QED
    BY <2>3, <2>4, <1>2
<1>9. ActiveIsLatest(r)
  <2>1. \A i \in DOMAIN t.attempts :
          r.attempts[i].state \in Active => t.attempts[i].state \in Active
    BY <1>2, <1>3, <1>4, <1>5 DEF Active, Reserving
  <2> QED
    BY <1>1, <1>2, <2>1 DEF ActiveIsLatest
<1>10. KeysDistinct(r)
  BY <1>1, <1>2 DEF KeysDistinct
<1>11. InvitedAnnounced(r)
  <2>1. SUFFICES ASSUME NEW i \in DOMAIN t.attempts
                 PROVE  /\ r.attempts[i].state = "invited" => i \in r.outbox
                        /\ r.attempts[i].state \in {"waiting", "sold_out"}
                             => i \notin r.outbox
    BY <1>1 DEF InvitedAnnounced
  <2>2. r.attempts[i].state = "invited" => i \in V \/ t.attempts[i].state = "invited"
    BY <1>2, <1>5
  <2>3. r.attempts[i].state \in {"waiting", "sold_out"} =>
          /\ i \notin V
          /\ t.attempts[i].state \in {"waiting", "sold_out"}
    BY <1>2, <1>3, <1>4, <1>5
  <2> QED
    BY <1>1, <2>2, <2>3 DEF InvitedAnnounced
<1> QED
  BY <1>1, <1>7, <1>8, <1>9, <1>10, <1>11

(* The limit requests use is out of reach: what a full reconciliation      *)
(* leaves needs no reconciliation.                                         *)
THEOREM ReconcileSettles ==
  ASSUME NEW t, Good(t)
  PROVE  /\ Good(Reconcile(t))
         /\ ~HasReconciliationWork(Reconcile(t))
<1> DEFINE limit == 2 * Cardinality(InState(t, Active)) + 1
           r == ReconcileBounded(t, limit)
           X == ToExpire(t, limit)
           S == ToSellOut(t, limit)
           V == ToInvite(t, limit)
<1> USE DEF Good
<1>1. /\ InState(t, Active) \in SUBSET DOMAIN t.attempts
      /\ Due(t) \in SUBSET InState(t, Active)
      /\ Waiting(t) \in SUBSET InState(t, Active)
  BY DEF InState, Due, Waiting, Holders, Active
<1>2. /\ Cardinality(InState(t, Active)) \in Nat
      /\ IsFiniteSet(Due(t)) /\ Due(t) \in SUBSET Nat
      /\ IsFiniteSet(Waiting(t)) /\ Waiting(t) \in SUBSET Nat
      /\ IsFiniteSet(InState(t, Active))
      /\ Cardinality(Due(t)) \in Nat
      /\ Cardinality(Waiting(t)) \in Nat
  <2>1. Due(t) \in SUBSET DOMAIN t.attempts /\ Waiting(t) \in SUBSET DOMAIN t.attempts
    BY <1>1
  <2> QED
    BY <1>1, <2>1, AttemptSets
<1>3. /\ Cardinality(Due(t)) <= Cardinality(InState(t, Active))
      /\ Cardinality(Waiting(t)) <= Cardinality(InState(t, Active))
  BY <1>1, <1>2, FS_Subset
<1>4. limit \in Nat /\ Cardinality(Due(t)) < limit
  BY <1>2, <1>3
<1> HIDE DEF limit
<1>5. X = Due(t)
  <2>1. /\ FirstN(Due(t), limit) \in SUBSET Due(t)
        /\ Cardinality(FirstN(Due(t), limit)) \in Nat
    BY <1>2, <1>4, FirstNPrefix
  <2>2. Cardinality(FirstN(Due(t), limit)) <= Cardinality(Due(t))
    BY <1>2, <2>1, FS_Subset
  <2>3. Cardinality(FirstN(Due(t), limit)) < limit
    BY <1>2, <1>4, <2>1, <2>2
  <2> QED
    BY <1>2, <1>4, <2>3, FirstNExhausts DEF ToExpire
<1>6. Budget(t, limit) \in Nat /\ Cardinality(Waiting(t)) < Budget(t, limit)
  BY <1>2, <1>3, <1>5 DEF Budget, limit
<1>7. /\ DOMAIN r.attempts = DOMAIN t.attempts
      /\ r.stock = t.stock
      /\ r.reserved = StillHeld(t, limit) + Cardinality(V)
      /\ \A i \in DOMAIN t.attempts :
           /\ r.attempts[i].state = IF i \in X THEN ExpiredState(t.attempts[i])
                                    ELSE IF i \in S THEN "sold_out"
                                    ELSE IF i \in V THEN "invited"
                                    ELSE t.attempts[i].state
           /\ i \in V => r.attempts[i].left = InvitationTTL
           /\ i \notin X \cup S \cup V => r.attempts[i] = t.attempts[i]
  BY <1>4, ReconciledFields
<1>8. Due(r) = {}
  <2>1. SUFFICES ASSUME NEW i \in DOMAIN t.attempts,
                        r.attempts[i].state \in {"invited", "checkout"},
                        r.attempts[i].left = 0
                 PROVE  FALSE
    BY <1>7 DEF Due, Holders, InState, Reserving
  <2>2. i \notin X /\ i \notin S
    BY <1>7, <2>1 DEF ExpiredState
  <2>3. i \notin V
    BY <1>7, <2>1, TTLAssumption
  <2>4. r.attempts[i] = t.attempts[i]
    BY <1>7, <2>2, <2>3
  <2>5. i \in Due(t)
    BY <2>1, <2>4 DEF Due, Holders, InState, Reserving
  <2> QED
    BY <1>5, <2>2, <2>5
<1>9. Waiting(r) \in SUBSET (Waiting(t) \ (S \cup V))
  BY <1>7 DEF Waiting, InState, ExpiredState
<1>10. CASE t.stock = 0
  <2>1. S = FirstN(Waiting(t), Budget(t, limit))
    BY <1>10 DEF ToSellOut
  <2>2. /\ S \in SUBSET Waiting(t) /\ Cardinality(S) \in Nat
    BY <1>2, <1>6, <2>1, FirstNPrefix
  <2>3. Cardinality(S) <= Cardinality(Waiting(t))
    BY <1>2, <2>2, FS_Subset
  <2>4. Cardinality(S) < Budget(t, limit)
    BY <1>2, <1>6, <2>2, <2>3
  <2>5. S = Waiting(t)
    BY <1>2, <1>6, <2>1, <2>4, FirstNExhausts
  <2>6. Waiting(r) = {}
    BY <1>9, <2>5
  <2> QED
    BY <1>4, <1>8, <2>6, ReconcileKeepsGood
    DEF HasReconciliationWork, Reconcile, limit
<1>11. CASE t.stock # 0
  <2> DEFINE free == t.stock - StillHeld(t, limit)
             n == Smaller(Budget(t, limit), free)
  <2>1. V = FirstN(Waiting(t), n)
    BY <1>11 DEF ToInvite
  <2>2. t.stock \in Nat /\ StillHeld(t, limit) \in 0 .. t.stock
    <3>1. t.stock \in Nat
      BY Fields
    <3>2. StillHeld(t, limit) \in 0 .. t.stock
      BY <1>4, Selected
    <3> QED
      BY <3>1, <3>2
  <2>3. free \in Nat /\ n \in Nat
    BY <1>6, <2>2 DEF Smaller
  <2>4. V \in SUBSET Waiting(t) /\ Cardinality(V) \in Nat
    BY <1>2, <2>1, <2>3, FirstNPrefix
  <2>5. Cardinality(V) <= Cardinality(Waiting(t))
    BY <1>2, <2>4, FS_Subset
  <2>6. ASSUME r.stock - r.reserved > 0 PROVE Waiting(r) = {}
    <3>1. Cardinality(V) < free
      BY <1>7, <2>2, <2>4, <2>6
    <3>2. Cardinality(V) < Budget(t, limit)
      BY <1>2, <1>6, <2>4, <2>5
    <3>3. Cardinality(V) < n
      BY <3>1, <3>2 DEF Smaller
    <3> HIDE DEF n
    <3>4. V = Waiting(t)
      BY <1>2, <2>1, <2>3, <3>3, FirstNExhausts
    <3> QED
      BY <1>9, <3>4
  <2> QED
    BY <1>4, <1>7, <1>8, <1>11, <2>6, ReconcileKeepsGood
    DEF HasReconciliationWork, Reconcile, limit
<1> QED
  BY <1>10, <1>11

-----------------------------------------------------------------------------
(***************************************************************************)
(* The single writes the transactions are made of.                         *)
(***************************************************************************)
(* The moves of one active attempt by a request.                           *)
LegalMove(old, new) ==
  \/ old = "waiting" /\ new = "cancelled"
  \/ old = "invited" /\ new \in {"checkout", "cancelled"}
  \/ old = "checkout" /\ new \in {"cancelled", "payment_failed", "purchased"}

(* A legal move of one attempt, with the reservation counter kept in step, *)
(* keeps the counter right.                                                *)
LEMMA MoveKeepsSound ==
  ASSUME NEW t, Sound(t), NEW t2, WellFormed(t2), ~t2.failed,
         DOMAIN t2.attempts = DOMAIN t.attempts,
         NEW i \in DOMAIN t.attempts,
         \A k \in DOMAIN t.attempts : k # i => t2.attempts[k] = t.attempts[k],
         LegalMove(t.attempts[i].state, t2.attempts[i].state),
         t2.reserved = IF i \in Holders(t) /\ t2.attempts[i].state # "checkout"
                       THEN t.reserved - 1 ELSE t.reserved,
         t2.reserved <= t2.stock
  PROVE  Sound(t2)
<1> USE DEF Sound
<1> DEFINE old == t.attempts[i].state
           new == t2.attempts[i].state
<1>1. /\ old \in {"waiting", "invited", "checkout"}
      /\ new \in {"checkout", "cancelled", "payment_failed", "purchased"}
      /\ old = "waiting" => new = "cancelled"
      /\ new = "checkout" => old = "invited"
  BY DEF LegalMove
<1>2. /\ IsFiniteSet(Holders(t)) /\ Cardinality(Holders(t)) \in Nat
      /\ Holders(t) \in SUBSET DOMAIN t.attempts
  <2>1. Holders(t) \in SUBSET DOMAIN t.attempts
    BY DEF Holders, InState
  <2> QED
    BY <2>1, AttemptSets
<1>3. /\ i \in Holders(t) <=> old # "waiting"
      /\ \A k : k \in Holders(t) <=>
           k \in DOMAIN t.attempts /\ t.attempts[k].state \in {"invited", "checkout"}
      /\ \A k : k \in Holders(t2) <=>
           k \in DOMAIN t.attempts /\ t2.attempts[k].state \in {"invited", "checkout"}
  BY <1>1 DEF Holders, InState, Reserving
<1>4. Consistent(t2)
  <2>1. CASE i \in Holders(t) /\ new # "checkout"
    <3>1. Holders(t2) = Holders(t) \ {i}
      BY <1>1, <1>3, <2>1
    <3>2. Cardinality(Holders(t2)) = Cardinality(Holders(t)) - 1
      BY <1>2, <3>1, <2>1, FS_RemoveElement
    <3>3. Cardinality(Holders(t2)) \in Nat
      BY <1>2, <3>1, FS_RemoveElement, FS_CardinalityType
    <3>4. t2.stock \in Nat /\ t2.reserved = t.reserved - 1
      BY <2>1, Fields
    <3> QED
      BY <1>2, <3>2, <3>3, <3>4 DEF Consistent
  <2>2. CASE ~ (i \in Holders(t) /\ new # "checkout")
    <3>1. Holders(t2) = Holders(t)
      BY <1>1, <1>3, <2>2
    <3>2. t2.stock \in Nat /\ t2.reserved = t.reserved
      BY <2>2, Fields
    <3> QED
      BY <1>2, <3>1, <3>2 DEF Consistent
  <2> QED
    BY <2>1, <2>2
<1> QED
  BY <1>4

(* It keeps a good product good.                                           *)
LEMMA MoveKeepsGood ==
  ASSUME NEW t, Good(t), NEW t2, WellFormed(t2), ~t2.failed,
         t2.outbox = t.outbox,
         DOMAIN t2.attempts = DOMAIN t.attempts,
         NEW i \in DOMAIN t.attempts,
         \A k \in DOMAIN t.attempts : k # i => t2.attempts[k] = t.attempts[k],
         t2.attempts[i].user = t.attempts[i].user,
         t2.attempts[i].key = t.attempts[i].key,
         LegalMove(t.attempts[i].state, t2.attempts[i].state),
         t2.reserved = IF i \in Holders(t) /\ t2.attempts[i].state # "checkout"
                       THEN t.reserved - 1 ELSE t.reserved,
         t2.reserved <= t2.stock
  PROVE  Good(t2)
<1> USE DEF Good
<1> DEFINE old == t.attempts[i].state
           new == t2.attempts[i].state
<1>1. /\ old \in {"waiting", "invited", "checkout"}
      /\ new \in {"checkout", "cancelled", "payment_failed", "purchased"}
      /\ old = "waiting" => new = "cancelled"
      /\ new = "checkout" => old = "invited"
  BY DEF LegalMove
<1>4. Consistent(t2)
  BY MoveKeepsSound DEF Sound
<1>5. InOrder(t2)
  <2>1. SUFFICES ASSUME NEW j \in DOMAIN t.attempts, NEW k \in DOMAIN t.attempts,
                        j < k, t2.attempts[j].state = "waiting"
                 PROVE  t2.attempts[k].state \in {"waiting", "cancelled"}
    BY DEF InOrder
  <2>2. j # i /\ t.attempts[j].state = "waiting"
    BY <1>1, <2>1
  <2>3. t.attempts[k].state \in {"waiting", "cancelled"}
    BY <2>1, <2>2 DEF InOrder
  <2>4. CASE k = i
    BY <1>1, <2>3, <2>4
  <2>5. CASE k # i
    BY <2>3, <2>5
  <2> QED
    BY <2>4, <2>5
<1>6. ActiveIsLatest(t2)
  <2>1. \A k \in DOMAIN t.attempts :
          /\ t2.attempts[k].user = t.attempts[k].user
          /\ t2.attempts[k].state \in Active => t.attempts[k].state \in Active
    BY <1>1 DEF Active, Reserving
  <2> QED
    BY <2>1 DEF ActiveIsLatest
<1>7. KeysDistinct(t2)
  <2>1. \A k \in DOMAIN t.attempts :
          /\ t2.attempts[k].user = t.attempts[k].user
          /\ t2.attempts[k].key = t.attempts[k].key
    OBVIOUS
  <2> QED
    BY <2>1 DEF KeysDistinct
<1>8. InvitedAnnounced(t2)
  BY <1>1 DEF InvitedAnnounced
<1> QED
  BY <1>4, <1>5, <1>6, <1>7, <1>8

LEMMA HolderIsCounted ==
  ASSUME NEW t, Sound(t), NEW i \in Holders(t)
  PROVE  t.reserved > 0 /\ t.stock > 0
<1>1. Holders(t) \in SUBSET DOMAIN t.attempts
  BY DEF Holders, InState
<1>2. IsFiniteSet(Holders(t)) /\ Cardinality(Holders(t)) \in Nat
  BY <1>1, AttemptSets DEF Sound
<1>3. Cardinality(Holders(t)) # 0
  BY <1>2, FS_EmptySet
<1>4. t.stock \in Nat
  BY Fields DEF Sound
<1> QED
  BY <1>2, <1>3, <1>4 DEF Sound, Consistent

LEMMA ReleaseKeepsSound ==
  ASSUME NEW t, Sound(t), NEW i \in DOMAIN t.attempts,
         NEW state \in {"cancelled", "payment_failed"},
         LegalMove(t.attempts[i].state, state)
  PROVE  LET r == Released(t, i, state)
         IN  /\ Sound(r)
             /\ r.outbox = t.outbox
             /\ DOMAIN r.attempts = DOMAIN t.attempts
             /\ \A k \in DOMAIN t.attempts : k # i => r.attempts[k] = t.attempts[k]
             /\ r.attempts[i] = Moved(t.attempts[i], state, 0)
             /\ r.reserved = IF i \in Holders(t) THEN t.reserved - 1 ELSE t.reserved
             /\ r.reserved <= r.stock
<1> DEFINE r == Released(t, i, state)
           a == Moved(t.attempts[i], state, 0)
<1> USE DEF Sound
<1>1. /\ t.attempts[i] \in Attempt /\ state \in Active \cup Terminal
      /\ 1 .. (t.next - 1) = DOMAIN t.attempts
      /\ t.reserved \in Int /\ t.stock \in Nat
  BY Fields DEF Terminal
<1>2. /\ a \in Attempt /\ a.user = t.attempts[i].user
      /\ a.key = t.attempts[i].key /\ a.state = state
  BY <1>1, MovedFields
<1>3. i \in Holders(t) => t.reserved > 0
  BY HolderIsCounted
<1> HIDE DEF a
<1>4. r = [t EXCEPT !.attempts = [t.attempts EXCEPT ![i] = a],
                    !.reserved = IF i \in Holders(t) THEN t.reserved - 1 ELSE t.reserved,
                    !.failed = t.failed \/ (i \in Holders(t) /\ t.reserved <= 0)]
  BY DEF Released, WellFormed, a
<1>5. /\ r.stock = t.stock /\ r.next = t.next /\ r.outbox = t.outbox
      /\ r.attempts = [t.attempts EXCEPT ![i] = a]
      /\ r.reserved = IF i \in Holders(t) THEN t.reserved - 1 ELSE t.reserved
      /\ ~r.failed
  BY <1>1, <1>3, <1>4 DEF WellFormed
<1>6. WellFormed(r)
  <2>1. [t.attempts EXCEPT ![i] = a] \in [1 .. (t.next - 1) -> Attempt]
    BY <1>2, Fields
  <2>2. (t.failed \/ (i \in Holders(t) /\ t.reserved <= 0)) \in BOOLEAN
    OBVIOUS
  <2>3. (IF i \in Holders(t) THEN t.reserved - 1 ELSE t.reserved) \in Int
    BY <1>1
  <2> QED
    BY <1>4, <1>5, <2>1, <2>2, <2>3 DEF WellFormed
<1>7. r.reserved <= r.stock
  BY <1>1, <1>5 DEF Consistent
<1>8. /\ DOMAIN r.attempts = DOMAIN t.attempts
      /\ r.attempts[i] = a
      /\ \A k \in DOMAIN t.attempts : k # i => r.attempts[k] = t.attempts[k]
  BY <1>5
<1>9. state # "checkout"
  OBVIOUS
<1> HIDE DEF r
<1>10. Sound(r)
  BY <1>2, <1>5, <1>6, <1>7, <1>8, <1>9, MoveKeepsSound
<1> QED
  BY <1>5, <1>7, <1>8, <1>10 DEF r, a

LEMMA ReleaseKeepsGood ==
  ASSUME NEW t, Good(t), NEW i \in DOMAIN t.attempts,
         NEW state \in {"cancelled", "payment_failed"},
         LegalMove(t.attempts[i].state, state)
  PROVE  Good(Released(t, i, state))
<1> DEFINE r == Released(t, i, state)
           a == Moved(t.attempts[i], state, 0)
<1>0. Sound(t)
  BY DEF Good, Sound
<1>1. /\ Sound(r) /\ r.outbox = t.outbox
      /\ DOMAIN r.attempts = DOMAIN t.attempts
      /\ \A k \in DOMAIN t.attempts : k # i => r.attempts[k] = t.attempts[k]
      /\ r.attempts[i] = a
      /\ r.reserved = IF i \in Holders(t) THEN t.reserved - 1 ELSE t.reserved
      /\ r.reserved <= r.stock
  BY <1>0, ReleaseKeepsSound
<1>2. a.user = t.attempts[i].user /\ a.key = t.attempts[i].key /\ a.state = state
  <2>1. t.attempts[i] \in Attempt /\ state \in Active \cup Terminal
    BY <1>0, Fields DEF Sound, Terminal
  <2> QED
    BY <2>1, MovedFields
<1> HIDE DEF r, a
<1> QED
  BY <1>1, <1>2, MoveKeepsGood DEF Sound, r

LEMMA PurchaseKeepsSound ==
  ASSUME NEW t, Sound(t), NEW i \in DOMAIN t.attempts, NEW ref \in References,
         t.attempts[i].state = "checkout"
  PROVE  LET r == Purchased(t, i, ref)
         IN  /\ Sound(r)
             /\ r.outbox = t.outbox
             /\ DOMAIN r.attempts = DOMAIN t.attempts
             /\ \A k \in DOMAIN t.attempts : k # i => r.attempts[k] = t.attempts[k]
             /\ r.attempts[i].user = t.attempts[i].user
             /\ r.attempts[i].key = t.attempts[i].key
             /\ r.attempts[i].state = "purchased" /\ r.attempts[i].left = 0
             /\ r.attempts[i].ref = ref
             /\ r.stock = t.stock - 1 /\ r.next = t.next
             /\ i \in Holders(t) /\ r.reserved = t.reserved - 1
             /\ r.reserved <= r.stock
<1> DEFINE r == Purchased(t, i, ref)
           m == Moved(t.attempts[i], "purchased", 0)
           a == [m EXCEPT !.ref = ref]
<1> USE DEF Sound
<1>1. /\ t.attempts[i] \in Attempt /\ "purchased" \in Active \cup Terminal
      /\ t.reserved \in Int /\ t.stock \in Nat /\ t.stock \in 0 .. MaxStock
  BY Fields DEF Terminal
<1>2. m \in Attempt /\ m.user = t.attempts[i].user
      /\ m.key = t.attempts[i].key /\ m.state = "purchased" /\ m.left = 0
  BY <1>1, MovedFields
<1> HIDE DEF m
<1>3. a \in Attempt /\ a.user = t.attempts[i].user
      /\ a.key = t.attempts[i].key /\ a.state = "purchased"
      /\ a.ref = ref /\ a.left = 0
  BY <1>2 DEF Attempt
<1> HIDE DEF a
<1>4. i \in Holders(t)
  BY DEF Holders, InState, Reserving
<1>5. t.reserved > 0 /\ t.stock > 0
  BY <1>4, HolderIsCounted
<1>6. r = [t EXCEPT !.attempts = [t.attempts EXCEPT ![i] = a],
                    !.stock = t.stock - 1,
                    !.reserved = t.reserved - 1,
                    !.failed = t.failed \/ t.stock <= 0 \/ t.reserved <= 0]
  BY DEF Purchased, WellFormed, a, m
<1>7. /\ r.stock = t.stock - 1 /\ r.next = t.next /\ r.outbox = t.outbox
      /\ r.attempts = [t.attempts EXCEPT ![i] = a]
      /\ r.reserved = t.reserved - 1
      /\ ~r.failed
  BY <1>1, <1>5, <1>6 DEF WellFormed
<1>8. WellFormed(r)
  <2>1. [t.attempts EXCEPT ![i] = a] \in [1 .. (t.next - 1) -> Attempt]
    BY <1>3, Fields
  <2>2. (t.failed \/ t.stock <= 0 \/ t.reserved <= 0) \in BOOLEAN
    OBVIOUS
  <2>3. t.reserved - 1 \in Int /\ t.stock - 1 \in 0 .. MaxStock
    BY <1>1, <1>5, BoundAssumption
  <2> QED
    BY <1>6, <1>7, <2>1, <2>2, <2>3 DEF WellFormed
<1>9. r.reserved <= r.stock
  BY <1>1, <1>7 DEF Consistent
<1>10. /\ DOMAIN r.attempts = DOMAIN t.attempts
       /\ r.attempts[i] = a
       /\ \A k \in DOMAIN t.attempts : k # i => r.attempts[k] = t.attempts[k]
  BY <1>7
<1>11. LegalMove(t.attempts[i].state, r.attempts[i].state)
  BY <1>3, <1>10 DEF LegalMove
<1> HIDE DEF r
<1>12. Sound(r)
  BY <1>3, <1>4, <1>7, <1>8, <1>9, <1>10, <1>11, MoveKeepsSound
<1> QED
  BY <1>3, <1>4, <1>7, <1>9, <1>10, <1>12 DEF r, a, m

LEMMA PurchaseKeepsGood ==
  ASSUME NEW t, Good(t), NEW i \in DOMAIN t.attempts, NEW ref \in References,
         t.attempts[i].state = "checkout"
  PROVE  Good(Purchased(t, i, ref))
<1> DEFINE r == Purchased(t, i, ref)
<1>0. Sound(t)
  BY DEF Good, Sound
<1>1. /\ Sound(r) /\ r.outbox = t.outbox
      /\ DOMAIN r.attempts = DOMAIN t.attempts
      /\ \A k \in DOMAIN t.attempts : k # i => r.attempts[k] = t.attempts[k]
      /\ r.attempts[i].user = t.attempts[i].user
      /\ r.attempts[i].key = t.attempts[i].key
      /\ r.attempts[i].state = "purchased"
      /\ i \in Holders(t) /\ r.reserved = t.reserved - 1
      /\ r.reserved <= r.stock
  BY <1>0, PurchaseKeepsSound
<1>2. LegalMove(t.attempts[i].state, r.attempts[i].state)
  BY <1>1 DEF LegalMove
<1> HIDE DEF r
<1> QED
  BY <1>1, <1>2, MoveKeepsGood DEF Sound, r

LEMMA StartKeepsSound ==
  ASSUME NEW t, Sound(t), NEW i \in DOMAIN t.attempts,
         t.attempts[i].state = "invited"
  PROVE  LET r == [t EXCEPT !.attempts[i] = Moved(@, "checkout", CheckoutTTL)]
         IN  /\ Sound(r)
             /\ r.outbox = t.outbox
             /\ DOMAIN r.attempts = DOMAIN t.attempts
             /\ \A k \in DOMAIN t.attempts : k # i => r.attempts[k] = t.attempts[k]
             /\ r.attempts[i] = Moved(t.attempts[i], "checkout", CheckoutTTL)
             /\ r.reserved = t.reserved /\ r.stock = t.stock
             /\ r.reserved <= r.stock
<1> DEFINE r == [t EXCEPT !.attempts[i] = Moved(@, "checkout", CheckoutTTL)]
           a == Moved(t.attempts[i], "checkout", CheckoutTTL)
<1> USE DEF Sound
<1>1. /\ t.attempts[i] \in Attempt /\ "checkout" \in Active \cup Terminal
      /\ t.reserved \in Int /\ t.stock \in Nat
  BY Fields DEF Active, Reserving
<1>2. a \in Attempt /\ a.user = t.attempts[i].user
      /\ a.key = t.attempts[i].key /\ a.state = "checkout"
  BY <1>1, MovedFields, TTLAssumption
<1> HIDE DEF a
<1>3. r = [t EXCEPT !.attempts = [t.attempts EXCEPT ![i] = a]]
  BY DEF WellFormed, a
<1>4. /\ r.stock = t.stock /\ r.next = t.next /\ r.outbox = t.outbox
      /\ r.attempts = [t.attempts EXCEPT ![i] = a]
      /\ r.reserved = t.reserved
      /\ ~r.failed
  BY <1>3 DEF WellFormed
<1>5. WellFormed(r)
  <2>1. [t.attempts EXCEPT ![i] = a] \in [1 .. (t.next - 1) -> Attempt]
    BY <1>2, Fields
  <2> QED
    BY <1>3, <1>4, <2>1 DEF WellFormed
<1>6. r.reserved <= r.stock
  BY <1>1, <1>4 DEF Consistent
<1>7. /\ DOMAIN r.attempts = DOMAIN t.attempts
      /\ r.attempts[i] = a
      /\ \A k \in DOMAIN t.attempts : k # i => r.attempts[k] = t.attempts[k]
  BY <1>4
<1>8. LegalMove(t.attempts[i].state, r.attempts[i].state)
  BY <1>2, <1>7 DEF LegalMove
<1> HIDE DEF r
<1>9. Sound(r)
  BY <1>2, <1>4, <1>5, <1>6, <1>7, <1>8, MoveKeepsSound
<1> QED
  BY <1>4, <1>6, <1>7, <1>9 DEF r, a

LEMMA StartKeepsGood ==
  ASSUME NEW t, Good(t), NEW i \in DOMAIN t.attempts,
         t.attempts[i].state = "invited"
  PROVE  Good([t EXCEPT !.attempts[i] = Moved(@, "checkout", CheckoutTTL)])
<1> DEFINE r == [t EXCEPT !.attempts[i] = Moved(@, "checkout", CheckoutTTL)]
           a == Moved(t.attempts[i], "checkout", CheckoutTTL)
<1>0. Sound(t)
  BY DEF Good, Sound
<1>1. /\ Sound(r) /\ r.outbox = t.outbox
      /\ DOMAIN r.attempts = DOMAIN t.attempts
      /\ \A k \in DOMAIN t.attempts : k # i => r.attempts[k] = t.attempts[k]
      /\ r.attempts[i] = a
      /\ r.reserved = t.reserved
      /\ r.reserved <= r.stock
  BY <1>0, StartKeepsSound
<1>2. a.user = t.attempts[i].user /\ a.key = t.attempts[i].key /\ a.state = "checkout"
  <2>1. t.attempts[i] \in Attempt /\ "checkout" \in Active \cup Terminal
    BY <1>0, Fields DEF Sound, Active, Reserving
  <2> QED
    BY <2>1, MovedFields, TTLAssumption
<1>3. LegalMove(t.attempts[i].state, r.attempts[i].state)
  BY <1>1, <1>2 DEF LegalMove
<1> HIDE DEF r, a
<1> QED
  BY <1>1, <1>2, <1>3, MoveKeepsGood DEF Sound, r

(* An attempt is added to the line, with a unit that is free if it         *)
(* reserves one.                                                           *)
LEMMA AppendKeepsSound ==
  ASSUME NEW t, Sound(t), t.next # MaxSequence,
         NEW u \in Users, NEW k \in Keys, NEW left \in Nat,
         NEW state \in {"checkout", "waiting"},
         state = "checkout" => t.reserved < t.stock
  PROVE  LET r == Appended(t, u, k, state, left)
         IN  /\ Sound(r)
             /\ r.stock = t.stock /\ r.outbox = t.outbox
             /\ r.reserved = IF state = "checkout" THEN t.reserved + 1 ELSE t.reserved
             /\ t.next \notin DOMAIN t.attempts
             /\ \A i \in DOMAIN t.attempts : i < t.next
             /\ DOMAIN r.attempts = DOMAIN t.attempts \cup {t.next}
             /\ r.attempts[t.next].user = u /\ r.attempts[t.next].key = k
             /\ r.attempts[t.next].state = state /\ r.attempts[t.next].left = left
             /\ r.attempts[t.next].ref = NoReference
             /\ \A i \in DOMAIN t.attempts : r.attempts[i] = t.attempts[i]
<1> DEFINE r == Appended(t, u, k, state, left)
           n == t.next
           a == [user |-> u, key |-> k, state |-> state, left |-> left,
                 ref |-> NoReference]
           more == [i \in DOMAIN t.attempts \cup {n} |-> IF i = n THEN a ELSE t.attempts[i]]
<1> USE DEF Sound
<1>1. /\ n \in Nat /\ n \in 1 .. MaxSequence
      /\ DOMAIN t.attempts = 1 .. (n - 1)
      /\ n \notin DOMAIN t.attempts
      /\ t.reserved \in Int /\ t.stock \in Nat
      /\ \A i \in DOMAIN t.attempts : i \in Nat /\ i < n /\ t.attempts[i] \in Attempt
      /\ t.outbox \in SUBSET (1 .. (n - 1))
  BY Fields
<1>2. /\ a \in Attempt /\ a.user = u /\ a.key = k /\ a.state = state
      /\ a.left = left /\ a.ref = NoReference
  BY DEF Attempt, Active, Reserving
<1> HIDE DEF a
<1>3. r = [t EXCEPT !.next = n + 1,
                    !.reserved = IF state = "checkout" THEN t.reserved + 1 ELSE t.reserved,
                    !.attempts = more]
  BY DEF Appended, WellFormed, a
<1>4. /\ r.stock = t.stock /\ r.next = n + 1 /\ r.outbox = t.outbox
      /\ r.reserved = IF state = "checkout" THEN t.reserved + 1 ELSE t.reserved
      /\ r.attempts = more
      /\ ~r.failed
  BY <1>3 DEF WellFormed
<1>5. /\ DOMAIN r.attempts = DOMAIN t.attempts \cup {n}
      /\ r.attempts[n] = a
      /\ \A i \in DOMAIN t.attempts : r.attempts[i] = t.attempts[i]
  BY <1>1, <1>4
<1>6. WellFormed(r)
  <2>1. DOMAIN t.attempts \cup {n} = 1 .. n /\ (n + 1) - 1 = n
    BY <1>1
  <2>2. more \in [1 .. ((n + 1) - 1) -> Attempt]
    BY <1>1, <1>2, <2>1
  <2>3. n + 1 \in 1 .. MaxSequence
    BY <1>1, BoundAssumption
  <2>4. t.outbox \in SUBSET (1 .. ((n + 1) - 1))
    BY <1>1
  <2>5. (IF state = "checkout" THEN t.reserved + 1 ELSE t.reserved) \in Int
    BY <1>1
  <2> HIDE DEF more
  <2> QED
    BY <1>3, <1>4, <2>2, <2>3, <2>4, <2>5 DEF WellFormed
<1> HIDE DEF more
<1>7. /\ IsFiniteSet(Holders(t)) /\ Cardinality(Holders(t)) \in Nat
      /\ Holders(t) \in SUBSET DOMAIN t.attempts
  <2>1. Holders(t) \in SUBSET DOMAIN t.attempts
    BY DEF Holders, InState
  <2> QED
    BY <2>1, AttemptSets
<1>8. Consistent(r)
  <2>1. CASE state = "checkout"
    <3>1. Holders(r) = Holders(t) \cup {n}
      BY <1>1, <1>2, <1>5, <2>1 DEF Holders, InState, Reserving
    <3>2. Cardinality(Holders(r)) = Cardinality(Holders(t)) + 1
      BY <1>1, <1>7, <3>1, FS_AddElement
    <3> QED
      BY <1>1, <1>4, <1>7, <2>1, <3>2 DEF Consistent
  <2>2. CASE state = "waiting"
    <3>1. Holders(r) = Holders(t)
      BY <1>1, <1>2, <1>5, <2>2 DEF Holders, InState, Reserving
    <3> QED
      BY <1>1, <1>4, <1>7, <2>2, <3>1 DEF Consistent
  <2> QED
    BY <2>1, <2>2
<1> QED
  BY <1>1, <1>2, <1>4, <1>5, <1>6, <1>8

(* A newcomer is added behind everyone, and reserves only when nobody      *)
(* waits for the unit he takes.                                            *)
LEMMA AppendKeepsGood ==
  ASSUME NEW t, Good(t), t.next # MaxSequence,
         NEW u \in Users, NEW k \in Keys, NEW left \in Nat,
         NEW state \in {"checkout", "waiting"},
         ActiveOf(t, u) = {}, ~Replayed(t, u, k),
         state = "checkout" => t.reserved < t.stock /\ Waiting(t) = {}
  PROVE  Good(Appended(t, u, k, state, left))
<1> DEFINE r == Appended(t, u, k, state, left)
           n == t.next
           a == r.attempts[n]
<1>0. Sound(t) /\ (state = "checkout" => t.reserved < t.stock)
  BY DEF Good, Sound
<1>1. /\ Sound(r) /\ r.outbox = t.outbox
      /\ n \notin DOMAIN t.attempts
      /\ \A i \in DOMAIN t.attempts : i < n
      /\ DOMAIN r.attempts = DOMAIN t.attempts \cup {n}
      /\ a.user = u /\ a.key = k /\ a.state = state
      /\ \A i \in DOMAIN t.attempts : r.attempts[i] = t.attempts[i]
  BY <1>0, AppendKeepsSound
<1> USE DEF Good
<1>2. /\ DOMAIN t.attempts \in SUBSET Nat /\ n \in Nat
      /\ n \notin t.outbox
  BY Fields
<1> HIDE DEF r
<1>9. InOrder(r)
  <2>1. SUFFICES ASSUME NEW i \in DOMAIN t.attempts \cup {n},
                        NEW j \in DOMAIN t.attempts \cup {n},
                        i < j, r.attempts[i].state = "waiting"
                 PROVE  r.attempts[j].state \in {"waiting", "cancelled"}
    BY <1>1 DEF InOrder
  <2>2. i \in DOMAIN t.attempts
    BY <1>1, <1>2, <2>1
  <2>3. CASE j = n
    <3>1. i \in Waiting(t)
      BY <1>1, <2>1, <2>2 DEF Waiting, InState
    <3> QED
      BY <1>2, <1>1, <2>3, <3>1
  <2>4. CASE j \in DOMAIN t.attempts
    BY <1>1, <2>1, <2>2, <2>4 DEF InOrder
  <2> QED
    BY <2>3, <2>4
<1>10. ActiveIsLatest(r)
  <2>1. SUFFICES ASSUME NEW i \in DOMAIN t.attempts \cup {n},
                        NEW j \in DOMAIN t.attempts \cup {n},
                        i < j, r.attempts[i].user = r.attempts[j].user
                 PROVE  r.attempts[i].state \notin Active
    BY <1>1 DEF ActiveIsLatest
  <2>2. i \in DOMAIN t.attempts
    BY <1>1, <1>2, <2>1
  <2>3. CASE j = n
    BY <1>2, <1>1, <2>1, <2>2, <2>3 DEF ActiveOf, OfUser, InState
  <2>4. CASE j \in DOMAIN t.attempts
    BY <1>1, <2>1, <2>2, <2>4 DEF ActiveIsLatest
  <2> QED
    BY <2>3, <2>4
<1>11. KeysDistinct(r)
  <2>1. \A i \in DOMAIN t.attempts : ~ (t.attempts[i].user = u /\ t.attempts[i].key = k)
    BY DEF Replayed, OfUser
  <2> QED
    BY <1>2, <1>1, <2>1 DEF KeysDistinct
<1>12. InvitedAnnounced(r)
  BY <1>1, <1>2 DEF InvitedAnnounced
<1> QED
  BY <1>1, <1>9, <1>10, <1>11, <1>12 DEF Sound, r

-----------------------------------------------------------------------------
(***************************************************************************)
(* The transactions.  Each leaves a good product, and one that needs no    *)
(* reconciliation unless it wrote nothing.                                 *)
(***************************************************************************)
Settled(t) == Good(t) /\ ~HasReconciliationWork(t)

LEMMA StartSettles ==
  ASSUME NEW t, Settled(t), NEW i \in DOMAIN t.attempts,
         t.attempts[i].state = "invited"
  PROVE  Settled([t EXCEPT !.attempts[i] = Moved(@, "checkout", CheckoutTTL)])
<1> DEFINE r == [t EXCEPT !.attempts[i] = Moved(@, "checkout", CheckoutTTL)]
           a == Moved(t.attempts[i], "checkout", CheckoutTTL)
<1>1. t.attempts[i] \in Attempt /\ "checkout" \in Active \cup Terminal
  BY Fields DEF Settled, Good, Active, Reserving
<1>2. a.state = "checkout" /\ a.left # 0
  BY <1>1, MovedFields, TTLAssumption
<1> HIDE DEF a
<1>3. /\ r.attempts = [t.attempts EXCEPT ![i] = a]
      /\ r.stock = t.stock /\ r.reserved = t.reserved
  BY DEF Settled, Good, WellFormed, a
<1>4. Good(r)
  BY StartKeepsGood DEF Settled
<1> HIDE DEF r
<1>5. Due(r) \in SUBSET Due(t) /\ Waiting(r) \in SUBSET Waiting(t)
  BY <1>2, <1>3 DEF Due, Waiting, Holders, InState, Reserving
<1>6. ~HasReconciliationWork(r)
  BY <1>3, <1>5 DEF Settled, HasReconciliationWork
<1> QED
  BY <1>4, <1>6 DEF Settled, r

LEMMA AppendSettles ==
  ASSUME NEW t, Settled(t), t.next # MaxSequence, t.stock # 0,
         NEW u \in Users, NEW k \in Keys, NEW left \in Nat,
         NEW state \in {"checkout", "waiting"},
         ActiveOf(t, u) = {}, ~Replayed(t, u, k),
         \/ state = "checkout" /\ t.reserved < t.stock /\ left # 0
         \/ state = "waiting" /\ t.reserved >= t.stock
  PROVE  Settled(Appended(t, u, k, state, left))
<1> DEFINE r == Appended(t, u, k, state, left)
<1>1. t.stock \in Nat /\ t.reserved \in Int
  BY Fields DEF Settled, Good
<1>2. state = "checkout" => t.reserved < t.stock /\ Waiting(t) = {}
  BY <1>1 DEF Settled, HasReconciliationWork
<1>3. Good(r)
  BY <1>2, AppendKeepsGood DEF Settled
<1>4. /\ DOMAIN t.attempts = 1 .. (t.next - 1) /\ t.next \in Nat
      /\ t.next \notin DOMAIN t.attempts
  BY Fields DEF Settled, Good
<1>5. /\ r.stock = t.stock
      /\ r.reserved = IF state = "checkout" THEN t.reserved + 1 ELSE t.reserved
      /\ DOMAIN r.attempts = DOMAIN t.attempts \cup {t.next}
      /\ r.attempts[t.next].state = state /\ r.attempts[t.next].left = left
      /\ \A i \in DOMAIN t.attempts : r.attempts[i] = t.attempts[i]
  BY <1>4 DEF Appended, Settled, Good, WellFormed
<1> HIDE DEF r
<1>6. Due(r) = {}
  <2>1. Due(t) = {}
    BY DEF Settled, HasReconciliationWork
  <2>2. t.next \notin Due(r)
    BY <1>5 DEF Due, Holders, InState, Reserving
  <2> QED
    BY <1>5, <2>1, <2>2 DEF Due, Holders, InState
<1>7. CASE state = "checkout"
  <2>1. Waiting(r) = {}
    BY <1>2, <1>5, <1>7 DEF Waiting, InState
  <2> QED
    BY <1>3, <1>6, <2>1 DEF Settled, HasReconciliationWork, r
<1>8. CASE state = "waiting"
  <2>1. ~ (r.stock = 0 \/ r.stock - r.reserved > 0)
    BY <1>1, <1>5, <1>8
  <2> QED
    BY <1>3, <1>6, <2>1 DEF Settled, HasReconciliationWork, r
<1> QED
  BY <1>7, <1>8

(* Reconciling a product that needs none changes nothing.                  *)
LEMMA SettledStays ==
  ASSUME NEW t, Sound(t), ~HasReconciliationWork(t)
  PROVE  Reconcile(t) = t
<1> DEFINE limit == 2 * Cardinality(InState(t, Active)) + 1
           X == ToExpire(t, limit)
           S == ToSellOut(t, limit)
           V == ToInvite(t, limit)
           After == [i \in DOMAIN t.attempts |->
              CASE i \in X -> Moved(t.attempts[i], ExpiredState(t.attempts[i]), 0)
                [] i \in S -> Moved(t.attempts[i], "sold_out", 0)
                [] i \in V -> Moved(t.attempts[i], "invited", InvitationTTL)
                [] OTHER -> t.attempts[i]]
<1> USE DEF Sound
<1>1. limit \in Nat
  <2>1. InState(t, Active) \in SUBSET DOMAIN t.attempts
    BY DEF InState
  <2>2. Cardinality(InState(t, Active)) \in Nat
    BY <2>1, AttemptSets
  <2> QED
    BY <2>2
<1>2. t.stock \in Nat /\ t.reserved \in 0 .. t.stock
  BY Fields DEF Consistent
<1> HIDE DEF limit
<1>3. X = {} /\ Cardinality(X) = 0
  BY FS_EmptySet DEF ToExpire, FirstN, HasReconciliationWork
<1>4. Budget(t, limit) = limit /\ StillHeld(t, limit) = t.reserved
  BY <1>1, <1>2, <1>3 DEF Budget, StillHeld
<1>5. S = {} /\ V = {}
  <2>1. CASE Waiting(t) = {}
    BY <2>1 DEF ToSellOut, ToInvite, FirstN
  <2>2. CASE Waiting(t) # {}
    <3>1. t.stock # 0 /\ t.stock - t.reserved = 0
      BY <1>2, <2>2 DEF HasReconciliationWork
    <3>2. Smaller(Budget(t, limit), t.stock - StillHeld(t, limit)) = 0
      BY <1>1, <1>4, <3>1 DEF Smaller
    <3>3. FirstN(Waiting(t), 0) = {}
      <4>1. \A i \in Waiting(t) : Cardinality({j \in Waiting(t) : j < i}) \in Nat
        <5> TAKE i \in Waiting(t)
        <5>1. {j \in Waiting(t) : j < i} \in SUBSET DOMAIN t.attempts
          BY DEF Waiting, InState
        <5> QED
          BY <5>1, AttemptSets
      <4> QED
        BY <4>1 DEF FirstN
    <3> QED
      BY <3>1, <3>2, <3>3 DEF ToSellOut, ToInvite
  <2> QED
    BY <2>1, <2>2
<1>6. /\ StillHeld(t, limit) + Cardinality(V) = t.reserved
      /\ t.outbox \cup V = t.outbox
  BY <1>2, <1>4, <1>5, FS_EmptySet
<1>7. After = t.attempts
  <2>1. \A i \in DOMAIN t.attempts : After[i] = t.attempts[i]
    BY <1>3, <1>5
  <2> QED
    BY <2>1, Fields
<1>8. ReconcileBounded(t, limit) =
        [t EXCEPT !.failed = @ \/ ~Consistent(t),
                  !.reserved = StillHeld(t, limit) + Cardinality(V),
                  !.outbox = t.outbox \cup V,
                  !.attempts = After]
  BY DEF ReconcileBounded, Announced
<1> HIDE DEF X, S, V, After
<1>9. (t.failed \/ ~Consistent(t)) = t.failed
  BY Fields
<1> QED
  BY <1>6, <1>7, <1>8, <1>9 DEF WellFormed, Reconcile, limit

LEMMA FullReconcileKeepsNames ==
  ASSUME NEW t, Good(t)
  PROVE  /\ Settled(Reconcile(t))
         /\ Reconcile(t).next = t.next
         /\ Reconcile(t).stock = t.stock
         /\ DOMAIN Reconcile(t).attempts = DOMAIN t.attempts
         /\ \A u, k : Replayed(Reconcile(t), u, k) <=> Replayed(t, u, k)
         /\ \A u : ActiveOf(t, u) = {} => ActiveOf(Reconcile(t), u) = {}
<1> DEFINE limit == 2 * Cardinality(InState(t, Active)) + 1
           r == ReconcileBounded(t, limit)
<1> USE DEF Good
<1>1. limit \in Nat
  <2>1. InState(t, Active) \in SUBSET DOMAIN t.attempts
    BY DEF InState
  <2>2. Cardinality(InState(t, Active)) \in Nat
    BY <2>1, AttemptSets
  <2> QED
    BY <2>2
<1> HIDE DEF limit
<1>2. /\ r.next = t.next /\ r.stock = t.stock
      /\ DOMAIN r.attempts = DOMAIN t.attempts
      /\ \A i \in DOMAIN t.attempts :
           /\ r.attempts[i].user = t.attempts[i].user
           /\ r.attempts[i].key = t.attempts[i].key
  BY <1>1, ReconciledFields
<1>3. \A i \in DOMAIN t.attempts :
        r.attempts[i].state \in Active => t.attempts[i].state \in Active
  <2>1. \A i \in DOMAIN t.attempts :
          r.attempts[i].state \in
            {"invite_expired", "checkout_expired", "sold_out", t.attempts[i].state}
          \/ i \in ToInvite(t, limit)
    BY <1>1, ReconciledFields DEF ExpiredState
  <2>2. \A i \in ToInvite(t, limit) : t.attempts[i].state = "waiting"
    BY <1>1, Selected DEF Waiting, InState
  <2> QED
    BY <2>1, <2>2 DEF Active, Reserving
<1>4. \A u, k : Replayed(r, u, k) <=> Replayed(t, u, k)
  BY <1>2 DEF Replayed, OfUser
<1>5. \A u : ActiveOf(t, u) = {} => ActiveOf(r, u) = {}
  BY <1>2, <1>3 DEF ActiveOf, OfUser, InState
<1>6. r = Reconcile(t)
  BY DEF Reconcile, limit
<1> HIDE DEF r
<1> QED
  BY <1>2, <1>4, <1>5, <1>6, ReconcileSettles DEF Settled

THEOREM StartCheckoutSettles ==
  ASSUME NEW t, Good(t), NEW i \in DOMAIN t.attempts, NEW u
  PROVE  Settled(StartCheckoutTx(t, i, u))
<1> DEFINE r == Reconcile(t)
<1>1. Settled(r) /\ i \in DOMAIN r.attempts
  BY FullReconcileKeepsNames
<1> HIDE DEF r
<1>2. r.attempts[i].state = "invited" =>
        Settled([r EXCEPT !.attempts[i] = Moved(@, "checkout", CheckoutTTL)])
  BY <1>1, StartSettles
<1> QED
  BY <1>1, <1>2 DEF StartCheckoutTx, r

THEOREM CancelSettles ==
  ASSUME NEW t, Good(t), NEW u
  PROVE  Settled(CancelTx(t, u))
<1> DEFINE r == Reconcile(t)
           i == ToCancel(r, u)
<1>1. Settled(r)
  BY FullReconcileKeepsNames
<1>2. CASE Cancellable(r, u) = {}
  BY <1>1, <1>2 DEF CancelTx
<1>3. CASE Cancellable(r, u) # {}
  <2>1. i \in Cancellable(r, u)
    BY <1>3 DEF ToCancel
  <2>2. i \in DOMAIN r.attempts /\ r.attempts[i].state \in Active
    BY <2>1 DEF Cancellable, InState
  <2>3. LegalMove(r.attempts[i].state, "cancelled")
    BY <2>2 DEF LegalMove, Active, Reserving
  <2> HIDE DEF r, i
  <2>4. Good(Released(r, i, "cancelled"))
    BY <1>1, <2>2, <2>3, ReleaseKeepsGood DEF Settled
  <2>5. Settled(Reconcile(Released(r, i, "cancelled")))
    BY <2>4, FullReconcileKeepsNames
  <2> QED
    BY <1>3, <2>5 DEF CancelTx, r, i
<1> QED
  BY <1>2, <1>3

THEOREM AdjustSettles ==
  ASSUME NEW t, Good(t), NEW delta \in Int, ~AdjustmentRejected(t, delta)
  PROVE  Settled(AdjustTx(t, delta))
<1> DEFINE r == [t EXCEPT !.stock = @ + delta]
<1> USE DEF Good
<1>1. t.stock \in Nat /\ t.reserved \in Int
  BY Fields
<1>2. t.stock + delta \in 0 .. MaxStock /\ t.reserved <= t.stock + delta
  BY <1>1, BoundAssumption DEF AdjustmentRejected
<1>3. /\ r.stock = t.stock + delta /\ r.next = t.next /\ r.outbox = t.outbox
      /\ r.reserved = t.reserved /\ r.attempts = t.attempts /\ ~r.failed
  BY DEF WellFormed
<1>4. WellFormed(r)
  BY <1>2, <1>3 DEF WellFormed
<1>5. Consistent(r)
  BY <1>1, <1>2, <1>3 DEF Consistent, Holders, InState
<1>6. /\ InOrder(r) /\ ActiveIsLatest(r) /\ KeysDistinct(r) /\ InvitedAnnounced(r)
  BY <1>3 DEF InOrder, ActiveIsLatest, KeysDistinct, InvitedAnnounced
<1>7. Good(r)
  BY <1>3, <1>4, <1>5, <1>6
<1> HIDE DEF r
<1> QED
  BY <1>7, FullReconcileKeepsNames DEF AdjustTx, r

THEOREM PaymentSettles ==
  ASSUME NEW t, Good(t), NEW i \in DOMAIN t.attempts, NEW taken,
         NEW outcome \in {"succeeded", "failed"}, NEW ref,
         outcome = "succeeded" => ref \in References
  PROVE  Settled(PaymentTx(t, i, outcome, ref, taken))
<1> DEFINE r == Reconcile(t)
<1>1. Settled(r) /\ i \in DOMAIN r.attempts
  BY FullReconcileKeepsNames
<1> HIDE DEF r
<1>2. CASE PaymentCode(r, i, outcome, ref, taken) # "accepted"
  BY <1>1, <1>2 DEF PaymentTx, r
<1>3. CASE PaymentCode(r, i, outcome, ref, taken) = "accepted"
  <2>1. r.attempts[i].state = "checkout"
    BY <1>3 DEF PaymentCode
  <2>2. CASE outcome = "succeeded"
    <3>1. Good(Purchased(r, i, ref))
      BY <1>1, <2>1, <2>2, PurchaseKeepsGood DEF Settled
    <3>2. Settled(Reconcile(Purchased(r, i, ref)))
      BY <3>1, FullReconcileKeepsNames
    <3> QED
      BY <1>3, <2>2, <3>2 DEF PaymentTx, r
  <2>3. CASE outcome = "failed"
    <3>1. LegalMove(r.attempts[i].state, "payment_failed")
      BY <2>1 DEF LegalMove
    <3>2. Good(Released(r, i, "payment_failed"))
      BY <1>1, <3>1, ReleaseKeepsGood DEF Settled
    <3>3. Settled(Reconcile(Released(r, i, "payment_failed")))
      BY <3>2, FullReconcileKeepsNames
    <3> QED
      BY <1>3, <2>3, <3>3 DEF PaymentTx, r
  <2> QED
    BY <2>2, <2>3
<1> QED
  BY <1>2, <1>3

(* Join may also write nothing, or fail and roll back.                     *)
THEOREM JoinSettles ==
  ASSUME NEW t, Good(t), NEW u \in Users, NEW k \in Keys, NEW percent \in Nat
  PROVE  LET r == JoinTx(t, u, k, percent)
         IN  r = t \/ r.failed \/ Settled(r)
<1> DEFINE f == Refreshed(t, u)
           r == Reconcile(f)
<1>1. CASE Replayed(t, u, k) \/ \E i \in ActiveOf(t, u) : Effective(t, i)
  BY <1>1 DEF JoinTx
<1>2. CASE ~ (Replayed(t, u, k) \/ \E i \in ActiveOf(t, u) : Effective(t, i))
  <2>1. /\ f = t \/ Settled(f)
        /\ Good(f)
        /\ ~Replayed(f, u, k)
    BY <1>2, FullReconcileKeepsNames DEF Refreshed, Settled
  <2>2. JoinTx(t, u, k, percent) = AdmitTx(f, u, k, percent)
    BY <1>2 DEF JoinTx
  <2> HIDE DEF f
  <2>3. CASE ActiveOf(f, u) # {} \/ ~f.enabled
    BY <2>1, <2>2, <2>3 DEF AdmitTx
  <2>4. CASE ~ (ActiveOf(f, u) # {} \/ ~f.enabled)
    <3>1. Settled(r) /\ ActiveOf(r, u) = {} /\ ~Replayed(r, u, k)
      BY <2>1, <2>4, FullReconcileKeepsNames
    <3>2. JoinTx(t, u, k, percent) =
            IF r.stock = 0 THEN r ELSE CreateAttempt(r, u, k, percent)
      BY <2>2, <2>4 DEF AdmitTx
    <3>3. r.stock \in Nat /\ r.reserved \in Int
      BY <3>1, Fields DEF Settled, Good
    <3>4. r.failed \in BOOLEAN /\ [r EXCEPT !.failed = TRUE].failed
      BY <3>1 DEF Settled, Good, WellFormed
    <3> HIDE DEF r
    <3>5. CASE r.stock = 0
      BY <3>1, <3>2, <3>5
    <3>6. CASE r.stock # 0 /\ r.next = MaxSequence
      BY <3>2, <3>4, <3>6 DEF CreateAttempt
    <3>7. CASE r.stock # 0 /\ r.next # MaxSequence /\ r.reserved < r.stock
      <4>1. Settled(Appended(r, u, k, "checkout", CheckoutTTL))
        BY <3>1, <3>7, TTLAssumption, AppendSettles
      <4>2. CreateAttempt(r, u, k, percent) = Appended(r, u, k, "checkout", CheckoutTTL)
        BY <3>3, <3>7 DEF CreateAttempt
      <4> QED
        BY <3>2, <3>7, <4>1, <4>2
    <3>8. CASE r.stock # 0 /\ r.next # MaxSequence /\ r.reserved >= r.stock
      <4>1. Settled(Appended(r, u, k, "waiting", 0))
        BY <3>1, <3>8, AppendSettles
      <4>2. CreateAttempt(r, u, k, percent) \in {r, Appended(r, u, k, "waiting", 0)}
        BY <3>3, <3>8 DEF CreateAttempt
      <4> QED
        BY <3>1, <3>2, <3>8, <4>1, <4>2
    <3> QED
      BY <3>3, <3>5, <3>6, <3>7, <3>8
  <2> QED
    BY <2>3, <2>4
<1> QED
  BY <1>1, <1>2

-----------------------------------------------------------------------------
(***************************************************************************)
(* What becomes of an attempt: how it ended stays, its deadline is hard,   *)
(* and its payment reference is its own.                                   *)
(*                                                                         *)
(* Follows relates a product to what a transaction may make of it.  It is  *)
(* transitive, every write of every transaction is one (reconciliation     *)
(* settles the product first, so no later write of the same transaction    *)
(* meets a deadline that has passed), and so is the passing of time.       *)
(***************************************************************************)
Follows(t, t2) ==
  /\ DOMAIN t.attempts \subseteq DOMAIN t2.attempts
  /\ \A i \in DOMAIN t.attempts :
       t.attempts[i].state \in Terminal => t2.attempts[i] = t.attempts[i]
  /\ \A i \in Due(t) : \/ t2.attempts[i] = t.attempts[i]
                       \/ t2.attempts[i].state = ExpiredState(t.attempts[i])
  /\ \A i \in DOMAIN t2.attempts :
       t2.attempts[i].state \notin Reserving =>
         \/ /\ i \in DOMAIN t.attempts /\ t.attempts[i].state \notin Reserving
            /\ t2.attempts[i].left = t.attempts[i].left
         \/ t2.attempts[i].left = 0
  /\ \A i \in DOMAIN t2.attempts :
       t2.attempts[i].state # "purchased" =>
         \/ /\ i \in DOMAIN t.attempts /\ t.attempts[i].state # "purchased"
            /\ t2.attempts[i].ref = t.attempts[i].ref
         \/ t2.attempts[i].ref = NoReference

Bought(t) == InState(t, {"purchased"})

(* Attempts that a payment event ended.                                    *)
Decided(t) == InState(t, {"purchased", "payment_failed"})

(* A transaction that no payment event takes effect in.                    *)
Keeps(t, t2) == Follows(t, t2) /\ Decided(t2) \subseteq Decided(t)

(* An attempt without a reservation has no deadline.                       *)
AtRest(t) == \A i \in DOMAIN t.attempts :
  t.attempts[i].state \notin Reserving => t.attempts[i].left = 0

ReferencesDistinct(t) ==
  \A i, j \in Bought(t) : t.attempts[i].ref = t.attempts[j].ref => i = j

(* Only a purchase writes a reference.                                     *)
Unreferenced(t) == \A i \in DOMAIN t.attempts :
  t.attempts[i].state # "purchased" => t.attempts[i].ref = NoReference

Remembers(t) == AtRest(t) /\ ReferencesDistinct(t) /\ Unreferenced(t)

-----------------------------------------------------------------------------
LEMMA KeepsAttempts ==
  ASSUME NEW t, NEW t2, t2.attempts = t.attempts
  PROVE  Keeps(t, t2)
BY DEF Keeps, Follows, Decided, InState, Due, Holders

LEMMA FollowsTransitively ==
  ASSUME NEW t, NEW r, NEW t2, Follows(t, r), Follows(r, t2)
  PROVE  Follows(t, t2)
<1>1. ASSUME NEW i \in Due(t)
      PROVE  \/ t2.attempts[i] = t.attempts[i]
             \/ t2.attempts[i].state = ExpiredState(t.attempts[i])
  <2>1. i \in DOMAIN t.attempts /\ i \in DOMAIN r.attempts
    BY DEF Due, Holders, InState, Follows
  <2>2. CASE r.attempts[i] = t.attempts[i]
    <3>1. i \in Due(r)
      BY <2>1, <2>2 DEF Due, Holders, InState
    <3> QED
      BY <2>2, <3>1 DEF Follows
  <2>3. CASE r.attempts[i].state = ExpiredState(t.attempts[i])
    <3>1. r.attempts[i].state \in Terminal
      BY <2>3 DEF ExpiredState, Terminal
    <3>2. t2.attempts[i] = r.attempts[i]
      BY <2>1, <3>1 DEF Follows
    <3> QED
      BY <2>3, <3>2
  <2> QED
    BY <2>2, <2>3 DEF Follows
<1>2. ASSUME NEW i \in DOMAIN t.attempts, t.attempts[i].state \in Terminal
      PROVE  t2.attempts[i] = t.attempts[i]
  <2>1. i \in DOMAIN r.attempts /\ r.attempts[i] = t.attempts[i]
    BY <1>2 DEF Follows
  <2> QED
    BY <1>2, <2>1 DEF Follows
<1>3. ASSUME NEW i \in DOMAIN t2.attempts, t2.attempts[i].state \notin Reserving
      PROVE  \/ /\ i \in DOMAIN t.attempts /\ t.attempts[i].state \notin Reserving
                /\ t2.attempts[i].left = t.attempts[i].left
             \/ t2.attempts[i].left = 0
  <2>1. CASE /\ i \in DOMAIN r.attempts /\ r.attempts[i].state \notin Reserving
             /\ t2.attempts[i].left = r.attempts[i].left
    BY <2>1 DEF Follows
  <2>2. CASE t2.attempts[i].left = 0
    BY <2>2
  <2> QED
    BY <1>3, <2>1, <2>2 DEF Follows
<1>4. ASSUME NEW i \in DOMAIN t2.attempts, t2.attempts[i].state # "purchased"
      PROVE  \/ /\ i \in DOMAIN t.attempts /\ t.attempts[i].state # "purchased"
                /\ t2.attempts[i].ref = t.attempts[i].ref
             \/ t2.attempts[i].ref = NoReference
  BY <1>4 DEF Follows
<1> QED
  BY <1>1, <1>2, <1>3, <1>4 DEF Follows

LEMMA KeepsTransitively ==
  ASSUME NEW t, NEW r, NEW t2, Keeps(t, r), Keeps(r, t2)
  PROVE  Keeps(t, t2)
BY FollowsTransitively DEF Keeps

(* What is true of the past stays true.                                    *)
LEMMA FollowsAtRest ==
  ASSUME NEW t, NEW t2, AtRest(t), Unreferenced(t), Follows(t, t2)
  PROVE  AtRest(t2) /\ Unreferenced(t2)
<1>1. AtRest(t2)
  BY DEF AtRest, Follows
<1>2. Unreferenced(t2)
  BY DEF Unreferenced, Follows
<1> QED
  BY <1>1, <1>2

(* Nothing is bought by a transaction that keeps.                          *)
LEMMA KeepsBought ==
  ASSUME NEW t, NEW t2, Keeps(t, t2)
  PROVE  /\ Bought(t2) \subseteq Bought(t)
         /\ \A i \in Bought(t2) : t2.attempts[i] = t.attempts[i]
BY DEF Keeps, Follows, Bought, Decided, InState, Terminal

LEMMA KeepsRemembering ==
  ASSUME NEW t, NEW t2, Remembers(t), Keeps(t, t2)
  PROVE  Remembers(t2)
<1>1. \A i \in Bought(t2) : i \in Bought(t) /\ t2.attempts[i] = t.attempts[i]
  BY KeepsBought
<1>2. ReferencesDistinct(t2)
  BY <1>1 DEF Remembers, ReferencesDistinct
<1> QED
  BY <1>2, FollowsAtRest DEF Remembers, Keeps

-----------------------------------------------------------------------------
(***************************************************************************)
(* The writes.                                                             *)
(***************************************************************************)
LEMMA ReconcileBoundedKeeps ==
  ASSUME NEW t, Good(t), NEW limit \in Nat
  PROVE  Keeps(t, ReconcileBounded(t, limit))
<1> DEFINE r == ReconcileBounded(t, limit)
           X == ToExpire(t, limit)
           S == ToSellOut(t, limit)
           V == ToInvite(t, limit)
<1> USE DEF Good
<1>1. /\ X \subseteq Due(t) /\ S \subseteq Waiting(t) /\ V \subseteq Waiting(t)
  BY DEF ToExpire, ToSellOut, ToInvite, FirstN
<1>2. /\ DOMAIN r.attempts = DOMAIN t.attempts
      /\ \A i \in DOMAIN t.attempts :
           /\ r.attempts[i].state = IF i \in X THEN ExpiredState(t.attempts[i])
                                    ELSE IF i \in S THEN "sold_out"
                                    ELSE IF i \in V THEN "invited"
                                    ELSE t.attempts[i].state
           /\ r.attempts[i].ref = t.attempts[i].ref
           /\ i \notin X \cup S \cup V => r.attempts[i] = t.attempts[i]
  BY ReconciledFields
<1>3. \A i \in X \cup S : r.attempts[i].left = 0
  <2> DEFINE After(i) ==
        CASE i \in X -> Moved(t.attempts[i], ExpiredState(t.attempts[i]), 0)
          [] i \in S -> Moved(t.attempts[i], "sold_out", 0)
          [] i \in V -> Moved(t.attempts[i], "invited", InvitationTTL)
          [] OTHER -> t.attempts[i]
  <2>1. /\ X \subseteq DOMAIN t.attempts /\ S \subseteq DOMAIN t.attempts
        /\ X \cap S = {} /\ X \cap V = {} /\ S \cap V = {}
    BY <1>1, Selected DEF Due, Holders, Waiting, InState
  <2>2. r.attempts = [i \in DOMAIN t.attempts |-> After(i)]
    BY DEF ReconcileBounded, WellFormed
  <2>3. \A i \in X : After(i) = Moved(t.attempts[i], ExpiredState(t.attempts[i]), 0)
    BY <2>1
  <2>4. \A i \in S : After(i) = Moved(t.attempts[i], "sold_out", 0)
    BY <2>1
  <2>5. \A i \in X \cup S : t.attempts[i] \in Attempt
    BY <2>1, Fields
  <2>6. ASSUME NEW a \in Attempt
        PROVE  Moved(a, "sold_out", 0).left = 0 /\ Moved(a, ExpiredState(a), 0).left = 0
    <3>1. "sold_out" \in Active \cup Terminal /\ ExpiredState(a) \in Active \cup Terminal
      BY DEF ExpiredState, Terminal
    <3> QED
      BY <3>1, MovedFields
  <2> HIDE DEF After, r, X, S, V
  <2>7. \A i \in X \cup S : r.attempts[i] = After(i)
    BY <2>1, <2>2
  <2> QED
    BY <2>3, <2>4, <2>5, <2>6, <2>7
<1> HIDE DEF r, X, S, V
<1>4. \A i \in DOMAIN t.attempts :
        t.attempts[i].state \in Terminal \/ i \in Due(t) => i \notin S \cup V
  BY <1>1 DEF Waiting, Due, Holders, InState, Terminal, Reserving
<1>5. \A i \in DOMAIN t.attempts : t.attempts[i].state \in Terminal => i \notin X
  BY <1>1 DEF Due, Holders, InState, Terminal, Reserving
<1>6. Follows(t, r)
  <2>1. \A i \in Due(t) : \/ r.attempts[i] = t.attempts[i]
                          \/ r.attempts[i].state = ExpiredState(t.attempts[i])
    BY <1>2, <1>4 DEF Due, Holders, InState
  <2>2. \A i \in DOMAIN t.attempts :
          r.attempts[i].state \notin Reserving =>
            \/ /\ t.attempts[i].state \notin Reserving
               /\ r.attempts[i].left = t.attempts[i].left
            \/ r.attempts[i].left = 0
    <3> SUFFICES ASSUME NEW i \in DOMAIN t.attempts, r.attempts[i].state \notin Reserving
                 PROVE  \/ /\ t.attempts[i].state \notin Reserving
                           /\ r.attempts[i].left = t.attempts[i].left
                        \/ r.attempts[i].left = 0
      OBVIOUS
    <3>1. CASE i \in X \cup S
      BY <1>3, <3>1
    <3>2. CASE i \notin X \cup S /\ i \in V
      BY <1>2, <3>2 DEF Reserving
    <3>3. CASE i \notin X \cup S \cup V
      BY <1>2, <3>3
    <3> QED
      BY <3>1, <3>2, <3>3
  <2>3. \A i \in DOMAIN t.attempts :
          r.attempts[i].state # "purchased" =>
            t.attempts[i].state # "purchased" /\ r.attempts[i].ref = t.attempts[i].ref
    BY <1>2, <1>4, <1>5 DEF Terminal
  <2> QED
    BY <1>2, <1>4, <1>5, <2>1, <2>2, <2>3 DEF Follows
<1>7. Decided(r) \subseteq Decided(t)
  BY <1>2 DEF Decided, InState, ExpiredState
<1> QED
  BY <1>6, <1>7 DEF Keeps, r

LEMMA ReconcileKeeps ==
  ASSUME NEW t, Good(t)
  PROVE  /\ Keeps(t, Reconcile(t))
         /\ Due(Reconcile(t)) = {}
<1>1. 2 * Cardinality(InState(t, Active)) + 1 \in Nat
  <2>1. InState(t, Active) \in SUBSET DOMAIN t.attempts
    BY DEF InState
  <2>2. Cardinality(InState(t, Active)) \in Nat
    BY <2>1, AttemptSets DEF Good
  <2> QED
    BY <2>2
<1>2. Keeps(t, Reconcile(t))
  BY <1>1, ReconcileBoundedKeeps DEF Reconcile
<1>3. Due(Reconcile(t)) = {}
  BY FullReconcileKeepsNames DEF Settled, HasReconciliationWork
<1> QED
  BY <1>2, <1>3

(* One attempt changes that has neither ended nor run out.                 *)
LEMMA MoveFollows ==
  ASSUME NEW t, Due(t) = {}, NEW t2, NEW i \in DOMAIN t.attempts,
         t.attempts[i].state \notin Terminal,
         DOMAIN t2.attempts = DOMAIN t.attempts,
         \A k \in DOMAIN t.attempts : k # i => t2.attempts[k] = t.attempts[k],
         t2.attempts[i].state \notin Reserving => t2.attempts[i].left = 0,
         t2.attempts[i].state # "purchased" => t2.attempts[i].ref = t.attempts[i].ref
  PROVE  /\ Follows(t, t2)
         /\ Decided(t2) \subseteq Decided(t) \cup {i}
         /\ t2.attempts[i].state \notin {"purchased", "payment_failed"} => Keeps(t, t2)
<1>1. t.attempts[i].state # "purchased"
  BY DEF Terminal
<1>2. Follows(t, t2)
  BY <1>1 DEF Follows
<1>3. /\ Decided(t2) \subseteq Decided(t) \cup {i}
      /\ t2.attempts[i].state \notin {"purchased", "payment_failed"} =>
           Decided(t2) \subseteq Decided(t)
  BY DEF Decided, InState
<1> QED
  BY <1>2, <1>3 DEF Keeps

LEMMA ReleaseKeeps ==
  ASSUME NEW t, Good(t), Due(t) = {}, NEW i \in DOMAIN t.attempts,
         NEW state \in {"cancelled", "payment_failed"},
         t.attempts[i].state \in Active
  PROVE  /\ Follows(t, Released(t, i, state))
         /\ Decided(Released(t, i, state)) \subseteq Decided(t) \cup {i}
         /\ state = "cancelled" => Keeps(t, Released(t, i, state))
         /\ Released(t, i, state).attempts[i].state = state
         /\ Released(t, i, state).attempts[i].ref = t.attempts[i].ref
<1> DEFINE r == Released(t, i, state)
           a == Moved(t.attempts[i], state, 0)
<1> USE DEF Good
<1>1. t.attempts[i] \in Attempt /\ state \in Active \cup Terminal
  BY Fields DEF Terminal
<1>2. a.state = state /\ a.left = 0 /\ a.ref = t.attempts[i].ref
  BY <1>1, MovedFields
<1>3. r.attempts = [t.attempts EXCEPT ![i] = a]
  BY DEF Released, WellFormed
<1> HIDE DEF a, r
<1>4. /\ DOMAIN r.attempts = DOMAIN t.attempts /\ r.attempts[i] = a
      /\ \A k \in DOMAIN t.attempts : k # i => r.attempts[k] = t.attempts[k]
  BY <1>3
<1>5. t.attempts[i].state \notin Terminal
  BY StatesDisjoint
<1> QED
  BY <1>2, <1>4, <1>5, MoveFollows DEF r

LEMMA StartKeeps ==
  ASSUME NEW t, Good(t), Due(t) = {}, NEW i \in DOMAIN t.attempts,
         t.attempts[i].state = "invited"
  PROVE  Keeps(t, [t EXCEPT !.attempts[i] = Moved(@, "checkout", CheckoutTTL)])
<1> DEFINE r == [t EXCEPT !.attempts[i] = Moved(@, "checkout", CheckoutTTL)]
           a == Moved(t.attempts[i], "checkout", CheckoutTTL)
<1> USE DEF Good
<1>1. t.attempts[i] \in Attempt /\ "checkout" \in Active \cup Terminal
  BY Fields DEF Active, Reserving
<1>2. a.state = "checkout" /\ a.ref = t.attempts[i].ref
  BY <1>1, MovedFields, TTLAssumption
<1>3. r.attempts = [t.attempts EXCEPT ![i] = a]
  BY DEF WellFormed
<1> HIDE DEF a, r
<1>4. /\ DOMAIN r.attempts = DOMAIN t.attempts /\ r.attempts[i] = a
      /\ \A k \in DOMAIN t.attempts : k # i => r.attempts[k] = t.attempts[k]
  BY <1>3
<1>5. t.attempts[i].state \notin Terminal /\ a.state \in Reserving
  BY <1>2 DEF Terminal, Reserving
<1> QED
  BY <1>2, <1>4, <1>5, MoveFollows DEF r

LEMMA AppendKeeps ==
  ASSUME NEW t, Good(t), NEW u, NEW k, NEW left, NEW state \in {"checkout", "waiting"},
         state = "waiting" => left = 0
  PROVE  Keeps(t, Appended(t, u, k, state, left))
<1> DEFINE r == Appended(t, u, k, state, left)
           n == t.next
           a == [user |-> u, key |-> k, state |-> state, left |-> left, ref |-> NoReference]
<1> USE DEF Good
<1>1. n \notin DOMAIN t.attempts
  BY Fields
<1>2. r.attempts = [i \in DOMAIN t.attempts \cup {n} |-> IF i = n THEN a ELSE t.attempts[i]]
  BY DEF Appended, WellFormed
<1>3. a.state = state /\ a.ref = NoReference /\ (a.state \notin Reserving => a.left = 0)
  BY DEF Reserving
<1> HIDE DEF a, r, n
<1>4. /\ DOMAIN r.attempts = DOMAIN t.attempts \cup {n} /\ r.attempts[n] = a
      /\ \A i \in DOMAIN t.attempts : r.attempts[i] = t.attempts[i]
  BY <1>1, <1>2, <1>3
<1>5. \A i \in DOMAIN r.attempts : i \in DOMAIN t.attempts \/ r.attempts[i] = a
  BY <1>4
<1>6. Follows(t, r)
  BY <1>3, <1>4, <1>5 DEF Follows, Due, Holders, InState
<1>7. Decided(r) \subseteq Decided(t)
  BY <1>3, <1>4 DEF Decided, InState
<1> QED
  BY <1>6, <1>7 DEF Keeps, r

LEMMA PurchaseRemembers ==
  ASSUME NEW t, Good(t), Remembers(t), Due(t) = {}, NEW i \in DOMAIN t.attempts,
         NEW ref \in References, t.attempts[i].state = "checkout",
         ref \notin OwnedReferences(t)
  PROVE  /\ Follows(t, Purchased(t, i, ref))
         /\ Remembers(Purchased(t, i, ref))
         /\ Decided(Purchased(t, i, ref)) \subseteq Decided(t) \cup {i}
         /\ Purchased(t, i, ref).attempts[i].state = "purchased"
         /\ Purchased(t, i, ref).attempts[i].ref = ref
         /\ OwnedReferences(Purchased(t, i, ref)) \subseteq OwnedReferences(t) \cup {ref}
<1> DEFINE r == Purchased(t, i, ref)
           m == Moved(t.attempts[i], "purchased", 0)
           a == [m EXCEPT !.ref = ref]
<1> USE DEF Good
<1>1. t.attempts[i] \in Attempt /\ "purchased" \in Active \cup Terminal
  BY Fields DEF Terminal
<1>2. m \in Attempt /\ m.state = "purchased" /\ m.left = 0
  BY <1>1, MovedFields
<1> HIDE DEF m
<1>3. a.state = "purchased" /\ a.left = 0 /\ a.ref = ref
  BY <1>2 DEF Attempt
<1>4. r.attempts = [t.attempts EXCEPT ![i] = a]
  BY DEF Purchased, WellFormed, m
<1> HIDE DEF a, r
<1>5. /\ DOMAIN r.attempts = DOMAIN t.attempts /\ r.attempts[i] = a
      /\ \A k \in DOMAIN t.attempts : k # i => r.attempts[k] = t.attempts[k]
  BY <1>4
<1>6. t.attempts[i].state \notin Terminal
  BY DEF Terminal
<1>7. Follows(t, r) /\ Decided(r) \subseteq Decided(t) \cup {i}
  BY <1>3, <1>5, <1>6, MoveFollows
<1>8. \A j \in Bought(r) : j = i \/ (j \in Bought(t) /\ r.attempts[j] = t.attempts[j])
  BY <1>5 DEF Bought, InState
<1>9. \A j \in Bought(t) : t.attempts[j].ref # ref
  BY DEF OwnedReferences, Bought
<1>10. ReferencesDistinct(r)
  BY <1>3, <1>5, <1>8, <1>9 DEF ReferencesDistinct, Remembers
<1>11. OwnedReferences(r) \subseteq OwnedReferences(t) \cup {ref}
  BY <1>3, <1>5, <1>8 DEF OwnedReferences, Bought
<1>12. Remembers(r)
  BY <1>7, <1>10, FollowsAtRest DEF Remembers
<1> QED
  BY <1>3, <1>5, <1>7, <1>11, <1>12 DEF r

-----------------------------------------------------------------------------
(***************************************************************************)
(* The transactions.                                                       *)
(***************************************************************************)
LEMMA StartCheckoutKeeps ==
  ASSUME NEW t, Good(t), NEW i \in DOMAIN t.attempts, NEW u
  PROVE  Keeps(t, StartCheckoutTx(t, i, u))
<1> DEFINE r == Reconcile(t)
<1>1. Good(r) /\ Due(r) = {} /\ Keeps(t, r) /\ i \in DOMAIN r.attempts
  BY ReconcileKeeps, FullReconcileKeepsNames DEF Settled
<1> HIDE DEF r
<1>2. r.attempts[i].state = "invited" =>
        Keeps(r, [r EXCEPT !.attempts[i] = Moved(@, "checkout", CheckoutTTL)])
  BY <1>1, StartKeeps
<1> QED
  BY <1>1, <1>2, KeepsTransitively DEF StartCheckoutTx, r

LEMMA CancelKeeps ==
  ASSUME NEW t, Good(t), NEW u
  PROVE  Keeps(t, CancelTx(t, u))
<1> DEFINE r == Reconcile(t)
           i == ToCancel(r, u)
           x == Released(r, i, "cancelled")
<1>1. Good(r) /\ Due(r) = {} /\ Keeps(t, r)
  BY ReconcileKeeps, FullReconcileKeepsNames DEF Settled
<1>2. CASE Cancellable(r, u) = {}
  BY <1>1, <1>2 DEF CancelTx
<1>3. CASE Cancellable(r, u) # {}
  <2>1. i \in Cancellable(r, u)
    BY <1>3 DEF ToCancel
  <2>2. i \in DOMAIN r.attempts /\ r.attempts[i].state \in Active
    BY <2>1 DEF Cancellable, InState
  <2>3. LegalMove(r.attempts[i].state, "cancelled")
    BY <2>2 DEF LegalMove, Active, Reserving
  <2>4. CancelTx(t, u) = Reconcile(x)
    BY <1>3 DEF CancelTx
  <2> HIDE DEF r, i
  <2>5. Good(x) /\ Keeps(r, x)
    BY <1>1, <2>2, <2>3, ReleaseKeepsGood, ReleaseKeeps
  <2> HIDE DEF x
  <2>6. Keeps(x, Reconcile(x))
    BY <2>5, ReconcileKeeps
  <2> QED
    BY <1>1, <2>4, <2>5, <2>6, KeepsTransitively
<1> QED
  BY <1>2, <1>3

LEMMA JoinKeeps ==
  ASSUME NEW t, Good(t), NEW u, NEW k, NEW percent
  PROVE  Keeps(t, JoinTx(t, u, k, percent))
<1> DEFINE f == Refreshed(t, u)
           r == Reconcile(f)
<1>1. Keeps(t, t)
  BY KeepsAttempts
<1>2. Good(f) /\ Keeps(t, f)
  BY <1>1, ReconcileKeeps, FullReconcileKeepsNames DEF Refreshed, Settled
<1> HIDE DEF f
<1>3. Good(r) /\ Keeps(f, r)
  BY <1>2, ReconcileKeeps, FullReconcileKeepsNames DEF Settled
<1> HIDE DEF r
<1>4. Keeps(r, CreateAttempt(r, u, k, percent))
  <2>1. Keeps(r, [r EXCEPT !.failed = TRUE])
    <3>1. [r EXCEPT !.failed = TRUE].attempts = r.attempts
      BY <1>3 DEF Good, WellFormed
    <3> QED
      BY <3>1, KeepsAttempts
  <2>2. Keeps(r, Appended(r, u, k, "checkout", CheckoutTTL))
    BY <1>3, AppendKeeps
  <2>3. Keeps(r, Appended(r, u, k, "waiting", 0))
    BY <1>3, AppendKeeps
  <2>4. Keeps(r, r)
    BY KeepsAttempts
  <2>5. r.reserved \in Int /\ r.stock \in Nat
    BY <1>3, Fields DEF Good
  <2>6. CASE r.next = MaxSequence
    BY <2>1, <2>6 DEF CreateAttempt
  <2>7. CASE r.next # MaxSequence /\ r.reserved < r.stock
    <3>1. CreateAttempt(r, u, k, percent) = Appended(r, u, k, "checkout", CheckoutTTL)
      BY <2>5, <2>7 DEF CreateAttempt
    <3> QED
      BY <2>2, <3>1
  <2>8. CASE r.next # MaxSequence /\ r.reserved >= r.stock
    <3>1. CreateAttempt(r, u, k, percent) \in {Appended(r, u, k, "waiting", 0), r}
      BY <2>5, <2>8 DEF CreateAttempt
    <3> QED
      BY <2>3, <2>4, <3>1
  <2> QED
    BY <2>5, <2>6, <2>7, <2>8
<1>5. AdmitTx(f, u, k, percent) \in {f, r, CreateAttempt(r, u, k, percent)}
  BY DEF AdmitTx, r
<1>6. JoinTx(t, u, k, percent) \in {t, AdmitTx(f, u, k, percent)}
  BY DEF JoinTx, f
<1> QED
  BY <1>1, <1>2, <1>3, <1>4, <1>5, <1>6, KeepsTransitively

(* A stock that the adjustment may have leaves the product good.           *)
LEMMA AdjustedIsGood ==
  ASSUME NEW t, Good(t), NEW delta \in Int, ~AdjustmentRejected(t, delta)
  PROVE  Good([t EXCEPT !.stock = @ + delta])
<1> DEFINE x == [t EXCEPT !.stock = @ + delta]
<1>1. /\ x.stock = t.stock + delta /\ x.reserved = t.reserved /\ x.next = t.next
      /\ x.outbox = t.outbox /\ x.attempts = t.attempts /\ ~x.failed
  BY DEF Good, WellFormed
<1>2. t.stock \in Nat /\ t.reserved \in Int
  BY Fields DEF Good
<1>3. x.stock \in 0 .. MaxStock /\ x.reserved <= x.stock
  BY <1>1, <1>2, BoundAssumption DEF AdjustmentRejected
<1>4. WellFormed(x)
  BY <1>1, <1>3 DEF Good, WellFormed
<1>5. Consistent(x)
  BY <1>1, <1>2, <1>3 DEF Good, Consistent, Holders, InState
<1> QED
  BY <1>1, <1>4, <1>5 DEF Good, InOrder, ActiveIsLatest, KeysDistinct, InvitedAnnounced

LEMMA AdjustKeeps ==
  ASSUME NEW t, Good(t), NEW delta \in Int, ~AdjustmentRejected(t, delta)
  PROVE  Keeps(t, AdjustTx(t, delta))
<1> DEFINE x == [t EXCEPT !.stock = @ + delta]
<1>1. Good(x)
  BY AdjustedIsGood
<1>2. x.attempts = t.attempts
  BY DEF Good, WellFormed
<1>3. AdjustTx(t, delta) = Reconcile(x)
  BY DEF AdjustTx
<1> HIDE DEF x
<1> QED
  BY <1>1, <1>2, <1>3, KeepsAttempts, ReconcileKeeps, KeepsTransitively

(* What an event does is told by its code.                                 *)
LEMMA PaymentDecides ==
  ASSUME NEW t, Good(t), Remembers(t), NEW i \in DOMAIN t.attempts,
         NEW outcome \in {"succeeded", "failed"}, NEW ref, NEW taken,
         outcome = "succeeded" => ref \in References
  PROVE  LET code == PaymentCode(Reconcile(t), i, outcome, ref, taken)
             after == PaymentTx(t, i, outcome, ref, taken)
         IN  /\ Remembers(after)
             /\ code # "accepted" => Keeps(t, after)
             /\ code = "accepted" =>
                  /\ Follows(t, after)
                  /\ Decided(after) \subseteq Decided(t) \cup {i}
                  /\ i \notin Decided(t) /\ i \in DOMAIN after.attempts
                  /\ after.attempts[i].state =
                       IF outcome = "succeeded" THEN "purchased" ELSE "payment_failed"
                  /\ outcome = "succeeded" =>
                       /\ after.attempts[i].ref = ref
                       /\ ref \notin taken
                       /\ OwnedReferences(after) \subseteq OwnedReferences(t) \cup {ref}
                  /\ outcome = "failed" =>
                       /\ after.attempts[i].ref = NoReference
                       /\ OwnedReferences(after) \subseteq OwnedReferences(t)
             /\ code = "already_accepted" =>
                  /\ i \in Bought(t) /\ t.attempts[i].ref = ref
                  /\ outcome = "succeeded"
<1> DEFINE r == Reconcile(t)
           code == PaymentCode(r, i, outcome, ref, taken)
           after == PaymentTx(t, i, outcome, ref, taken)
           x == IF outcome = "succeeded" THEN Purchased(r, i, ref)
                                         ELSE Released(r, i, "payment_failed")
<1>1. Good(r) /\ Due(r) = {} /\ Keeps(t, r) /\ i \in DOMAIN r.attempts
  BY ReconcileKeeps, FullReconcileKeepsNames DEF Settled
<1>2. Remembers(r)
  BY <1>1, KeepsRemembering
<1>3. OwnedReferences(r) \subseteq OwnedReferences(t)
  BY <1>1, KeepsBought DEF OwnedReferences, Bought
<1>4. CASE code # "accepted"
  <2>1. after = r
    BY <1>4 DEF PaymentTx
  <2> HIDE DEF r
  <2>2. code = "already_accepted" =>
          r.attempts[i].state = "purchased" /\ r.attempts[i].ref = ref /\ outcome = "succeeded"
    <3>1. CASE outcome = "succeeded"
      BY <3>1 DEF PaymentCode
    <3>2. CASE outcome = "failed"
      BY <3>2 DEF PaymentCode
    <3> QED
      BY <3>1, <3>2
  <2>3. r.attempts[i].state = "purchased" =>
          i \in Bought(t) /\ r.attempts[i] = t.attempts[i]
    BY <1>1, KeepsBought DEF Bought, InState
  <2> HIDE DEF code, after
  <2> QED
    BY <1>1, <1>2, <1>4, <2>1, <2>2, <2>3 DEF code, after, r
<1>5. CASE code = "accepted"
  <2>1. after = Reconcile(x)
    BY <1>5 DEF PaymentTx
  <2> HIDE DEF r
  <2>2. /\ r.attempts[i].state = "checkout"
        /\ outcome = "succeeded" => ref \notin OwnedReferences(r) /\ ref \notin taken
    <3>1. CASE outcome = "succeeded"
      <4>1. r.attempts[i].state = "checkout" /\ ReferenceFree(r, ref, taken)
        BY <1>5, <3>1 DEF PaymentCode
      <4> QED
        BY <4>1 DEF ReferenceFree
    <3>2. CASE outcome = "failed"
      BY <1>5, <3>2 DEF PaymentCode
    <3> QED
      BY <3>1, <3>2
  <2>3. i \notin Decided(t)
    <3>1. i \in Decided(t) => r.attempts[i] = t.attempts[i]
      BY <1>1 DEF Keeps, Follows, Decided, InState, Terminal
    <3> QED
      BY <2>2, <3>1 DEF Decided, InState
  <2>4. /\ Good(x) /\ Follows(r, x) /\ Remembers(x)
        /\ Decided(x) \subseteq Decided(r) \cup {i} /\ i \in DOMAIN x.attempts
        /\ x.attempts[i].state =
             IF outcome = "succeeded" THEN "purchased" ELSE "payment_failed"
        /\ outcome = "succeeded" =>
             /\ x.attempts[i].ref = ref
             /\ OwnedReferences(x) \subseteq OwnedReferences(r) \cup {ref}
        /\ outcome = "failed" =>
             /\ x.attempts[i].ref = NoReference
             /\ OwnedReferences(x) \subseteq OwnedReferences(r)
    <3>1. CASE outcome = "succeeded"
      <4>1. x = Purchased(r, i, ref)
        BY <3>1
      <4> HIDE DEF x
      <4>2. /\ Good(x) /\ Follows(r, x) /\ Remembers(x)
            /\ Decided(x) \subseteq Decided(r) \cup {i}
            /\ x.attempts[i].state = "purchased" /\ x.attempts[i].ref = ref
            /\ OwnedReferences(x) \subseteq OwnedReferences(r) \cup {ref}
        BY <1>1, <1>2, <2>2, <3>1, <4>1, PurchaseKeepsGood, PurchaseRemembers
      <4>3. i \in DOMAIN x.attempts
        BY <1>1, <4>2 DEF Follows
      <4> QED
        BY <3>1, <4>2, <4>3
    <3>2. CASE outcome = "failed"
      <4>1. LegalMove(r.attempts[i].state, "payment_failed") /\ r.attempts[i].state \in Active
        BY <2>2 DEF LegalMove, Active, Reserving
      <4>2. x = Released(r, i, "payment_failed")
        BY <3>2
      <4> HIDE DEF x
      <4>3. /\ Good(x) /\ Follows(r, x) /\ Decided(x) \subseteq Decided(r) \cup {i}
            /\ x.attempts[i].state = "payment_failed" /\ x.attempts[i].ref = r.attempts[i].ref
        BY <1>1, <4>1, <4>2, ReleaseKeepsGood, ReleaseKeeps
      <4>4. r.attempts[i].ref = NoReference
        BY <1>1, <1>2, <2>2 DEF Remembers, Unreferenced
      <4>5. \A j \in Bought(x) : j \in Bought(r) /\ x.attempts[j] = r.attempts[j]
        BY <4>3 DEF Follows, Bought, Decided, InState, Terminal
      <4>6. OwnedReferences(x) \subseteq OwnedReferences(r) /\ ReferencesDistinct(x)
        BY <1>2, <4>5 DEF OwnedReferences, Bought, Remembers, ReferencesDistinct
      <4>7. Remembers(x)
        BY <1>2, <4>3, <4>6, FollowsAtRest DEF Remembers
      <4>8. i \in DOMAIN x.attempts
        BY <1>1, <4>3 DEF Follows
      <4> QED
        BY <3>2, <4>3, <4>4, <4>6, <4>7, <4>8
    <3> QED
      BY <3>1, <3>2
  <2> HIDE DEF x
  <2>5. Keeps(x, Reconcile(x))
    BY <2>4, ReconcileKeeps
  <2> HIDE DEF after, code
  <2>6. Remembers(after)
    BY <2>1, <2>4, <2>5, KeepsRemembering
  <2>7. Follows(t, after) /\ Decided(after) \subseteq Decided(t) \cup {i}
    BY <1>1, <2>1, <2>4, <2>5, FollowsTransitively DEF Keeps
  <2>8. i \in DOMAIN after.attempts /\ after.attempts[i] = x.attempts[i]
    BY <2>1, <2>4, <2>5 DEF Keeps, Follows, Terminal
  <2>9. OwnedReferences(after) \subseteq OwnedReferences(x)
    BY <2>1, <2>5, KeepsBought DEF OwnedReferences, Bought
  <2> QED
    BY <1>3, <1>5, <2>2, <2>3, <2>4, <2>6, <2>7, <2>8, <2>9 DEF after, code, r
<1> QED
  BY <1>4, <1>5

(* What follows a payment, said without its code.                          *)
LEMMA PaymentRemembers ==
  ASSUME NEW t, Good(t), Remembers(t), NEW i \in DOMAIN t.attempts,
         NEW outcome \in {"succeeded", "failed"}, NEW ref, NEW taken,
         outcome = "succeeded" => ref \in References
  PROVE  /\ Follows(t, PaymentTx(t, i, outcome, ref, taken))
         /\ Remembers(PaymentTx(t, i, outcome, ref, taken))
BY PaymentDecides DEF Keeps

(* Time passes: attempts come closer to their deadlines, and nothing else. *)
LEMMA TimePasses ==
  ASSUME NEW t, Good(t), NEW later,
         DOMAIN later = DOMAIN t.attempts,
         later = [i \in DOMAIN t.attempts |-> later[i]],
         \A i \in DOMAIN t.attempts :
           /\ later[i] \in Attempt
           /\ later[i].user = t.attempts[i].user /\ later[i].key = t.attempts[i].key
           /\ later[i].state = t.attempts[i].state /\ later[i].ref = t.attempts[i].ref
           /\ t.attempts[i].left = 0 => later[i] = t.attempts[i]
  PROVE  /\ Good([t EXCEPT !.attempts = later])
         /\ AtRest(t) => Keeps(t, [t EXCEPT !.attempts = later])
<1> DEFINE r == [t EXCEPT !.attempts = later]
<1> USE DEF Good
<1>1. later \in [1 .. (t.next - 1) -> Attempt]
  BY Fields
<1>2. /\ r.attempts = later /\ r.next = t.next
      /\ r.stock = t.stock /\ r.reserved = t.reserved
      /\ r.outbox = t.outbox /\ ~r.failed
  BY DEF WellFormed
<1>3. WellFormed(r)
  BY <1>1, <1>2 DEF WellFormed
<1> HIDE DEF r
<1>4. Holders(r) = Holders(t)
  BY <1>2 DEF Holders, InState
<1>5. Consistent(r)
  BY <1>2, <1>4 DEF Consistent
<1>6. InOrder(r) /\ ActiveIsLatest(r)
  BY <1>2 DEF InOrder, ActiveIsLatest
<1>7. KeysDistinct(r) /\ InvitedAnnounced(r)
  <2>1. KeysDistinct(r)
    BY <1>2 DEF KeysDistinct
  <2>2. InvitedAnnounced(r)
    BY <1>2 DEF InvitedAnnounced
  <2> QED
    BY <2>1, <2>2
<1>8. AtRest(t) => Follows(t, r)
  <2> SUFFICES ASSUME AtRest(t) PROVE Follows(t, r)
    OBVIOUS
  <2>1. \A i \in DOMAIN t.attempts : t.attempts[i].state \notin Reserving => later[i] = t.attempts[i]
    BY DEF AtRest
  <2>2. \A i \in Due(t) : later[i] = t.attempts[i]
    BY DEF Due, Holders, InState
  <2>3. \A i \in DOMAIN t.attempts :
          t.attempts[i].state \in Terminal => t.attempts[i].state \notin Reserving
    BY StatesDisjoint
  <2> QED
    BY <1>2, <2>1, <2>2, <2>3 DEF Follows
<1>9. Decided(r) \subseteq Decided(t)
  BY <1>2 DEF Decided, InState
<1> QED
  BY <1>2, <1>3, <1>5, <1>6, <1>7, <1>8, <1>9 DEF Keeps, r

(* A product nobody has queued for.                                        *)
LEMMA FreshIsGood ==
  ASSUME NEW enabled \in BOOLEAN, NEW stock \in 0 .. MaxStock, NEW t,
         t = [stock |-> stock, reserved |-> 0, next |-> 1, enabled |-> enabled,
              attempts |-> << >>, outbox |-> {}, failed |-> FALSE]
  PROVE  Good(t) /\ Remembers(t)
<1>1. DOMAIN t.attempts = {} /\ t.attempts \in [1 .. (1 - 1) -> Attempt]
  OBVIOUS
<1>2. WellFormed(t)
  BY <1>1, BoundAssumption DEF WellFormed
<1>3. Consistent(t)
  <2>1. Holders(t) = {}
    BY <1>1 DEF Holders, InState
  <2>2. Cardinality(Holders(t)) = 0
    BY <2>1, FS_EmptySet
  <2>3. t.reserved = 0 /\ t.stock \in Nat
    BY BoundAssumption
  <2> QED
    BY <2>2, <2>3 DEF Consistent
<1>4. InOrder(t) /\ ActiveIsLatest(t) /\ KeysDistinct(t) /\ InvitedAnnounced(t)
  BY <1>1 DEF InOrder, ActiveIsLatest, KeysDistinct, InvitedAnnounced
<1>5. AtRest(t) /\ ReferencesDistinct(t) /\ Unreferenced(t)
  BY <1>1 DEF AtRest, ReferencesDistinct, Unreferenced, Bought, InState
<1> QED
  BY <1>2, <1>3, <1>4, <1>5 DEF Good, Remembers

-----------------------------------------------------------------------------
(***************************************************************************)
(* The stock.                                                              *)
(***************************************************************************)
(* What has been sold stays sold, and nothing else counts as sold.         *)
LEMMA KeepsWhatWasBought ==
  ASSUME NEW t, NEW t2, Keeps(t, t2)
  PROVE  Bought(t2) = Bought(t)
<1>1. Bought(t) \subseteq Bought(t2)
  BY DEF Keeps, Follows, Bought, InState, Terminal
<1> QED
  BY <1>1, KeepsBought

LEMMA JoinKeepsStock ==
  ASSUME NEW t, Good(t), NEW u, NEW k, NEW percent
  PROVE  JoinTx(t, u, k, percent).stock = t.stock
<1> DEFINE f == Refreshed(t, u)
           r == Reconcile(f)
<1>1. Good(f) /\ f.stock = t.stock
  BY FullReconcileKeepsNames DEF Refreshed, Settled
<1> HIDE DEF f
<1>2. Good(r) /\ r.stock = t.stock
  BY <1>1, FullReconcileKeepsNames DEF Settled
<1> HIDE DEF r
<1>3. CreateAttempt(r, u, k, percent).stock = t.stock
  <2>1. ASSUME NEW state, NEW left
        PROVE  Appended(r, u, k, state, left).stock = t.stock
    BY <1>2 DEF Appended, Good, WellFormed
  <2>2. [r EXCEPT !.failed = TRUE].stock = t.stock
    BY <1>2 DEF Good, WellFormed
  <2>3. r.reserved \in Int /\ r.stock \in Nat
    BY <1>2, Fields DEF Good
  <2>4. CASE r.next = MaxSequence
    BY <2>2, <2>4 DEF CreateAttempt
  <2>5. CASE r.next # MaxSequence /\ r.reserved < r.stock
    <3>1. CreateAttempt(r, u, k, percent) = Appended(r, u, k, "checkout", CheckoutTTL)
      BY <2>3, <2>5 DEF CreateAttempt
    <3> QED
      BY <2>1, <3>1
  <2>6. CASE r.next # MaxSequence /\ r.reserved >= r.stock
    <3>1. CreateAttempt(r, u, k, percent) \in {Appended(r, u, k, "waiting", 0), r}
      BY <2>3, <2>6 DEF CreateAttempt
    <3> QED
      BY <1>2, <2>1, <3>1
  <2> QED
    BY <2>3, <2>4, <2>5, <2>6
<1>4. AdmitTx(f, u, k, percent) \in {f, r, CreateAttempt(r, u, k, percent)}
  BY DEF AdmitTx, r
<1>5. JoinTx(t, u, k, percent) \in {t, AdmitTx(f, u, k, percent)}
  BY DEF JoinTx, f
<1> QED
  BY <1>1, <1>2, <1>3, <1>4, <1>5

LEMMA StartCheckoutKeepsStock ==
  ASSUME NEW t, Good(t), NEW i, NEW u
  PROVE  StartCheckoutTx(t, i, u).stock = t.stock
<1> DEFINE r == Reconcile(t)
<1>1. Good(r) /\ r.stock = t.stock
  BY FullReconcileKeepsNames DEF Settled
<1>2. StartCheckoutTx(t, i, u) \in
        {r, [r EXCEPT !.attempts[i] = Moved(@, "checkout", CheckoutTTL)]}
  BY DEF StartCheckoutTx
<1> HIDE DEF r
<1> QED
  BY <1>1, <1>2 DEF Good, WellFormed

LEMMA CancelKeepsStock ==
  ASSUME NEW t, Good(t), NEW u
  PROVE  CancelTx(t, u).stock = t.stock
<1> DEFINE r == Reconcile(t)
           i == ToCancel(r, u)
           x == Released(r, i, "cancelled")
<1>1. Good(r) /\ r.stock = t.stock
  BY FullReconcileKeepsNames DEF Settled
<1>2. CASE Cancellable(r, u) = {}
  BY <1>1, <1>2 DEF CancelTx
<1>3. CASE Cancellable(r, u) # {}
  <2>1. i \in DOMAIN r.attempts /\ r.attempts[i].state \in Active
    BY <1>3 DEF ToCancel, Cancellable, InState
  <2>2. LegalMove(r.attempts[i].state, "cancelled")
    BY <2>1 DEF LegalMove, Active, Reserving
  <2>3. CancelTx(t, u) = Reconcile(x)
    BY <1>3 DEF CancelTx
  <2> HIDE DEF r, i
  <2>4. Good(x)
    BY <1>1, <2>1, <2>2, ReleaseKeepsGood
  <2>5. x.stock = r.stock
    BY <1>1 DEF Released, Good, WellFormed
  <2> HIDE DEF x
  <2> QED
    BY <1>1, <2>3, <2>4, <2>5, FullReconcileKeepsNames
<1> QED
  BY <1>2, <1>3

LEMMA AdjustWritesStock ==
  ASSUME NEW t, Good(t), NEW delta \in Int, ~AdjustmentRejected(t, delta)
  PROVE  AdjustTx(t, delta).stock = t.stock + delta
<1> DEFINE x == [t EXCEPT !.stock = @ + delta]
<1>1. Good(x)
  BY AdjustedIsGood
<1>2. x.stock = t.stock + delta
  BY DEF Good, WellFormed
<1>3. AdjustTx(t, delta) = Reconcile(x)
  BY DEF AdjustTx
<1> HIDE DEF x
<1> QED
  BY <1>1, <1>2, <1>3, FullReconcileKeepsNames

(* A payment that buys takes one unit from the stock, and no other does.   *)
LEMMA PaymentWritesStock ==
  ASSUME NEW t, Good(t), Remembers(t), NEW i \in DOMAIN t.attempts,
         NEW outcome \in {"succeeded", "failed"}, NEW ref, NEW taken,
         outcome = "succeeded" => ref \in References
  PROVE  LET after == PaymentTx(t, i, outcome, ref, taken)
         IN  \/ /\ PaymentCode(Reconcile(t), i, outcome, ref, taken) = "accepted"
                /\ outcome = "succeeded"
                /\ after.stock = t.stock - 1
                /\ i \notin Bought(t) /\ Bought(after) = Bought(t) \cup {i}
             \/ /\ ~(/\ PaymentCode(Reconcile(t), i, outcome, ref, taken) = "accepted"
                     /\ outcome = "succeeded")
                /\ after.stock = t.stock /\ Bought(after) = Bought(t)
<1> DEFINE r == Reconcile(t)
           code == PaymentCode(r, i, outcome, ref, taken)
           after == PaymentTx(t, i, outcome, ref, taken)
           x == IF outcome = "succeeded" THEN Purchased(r, i, ref)
                                         ELSE Released(r, i, "payment_failed")
<1>1. Good(r) /\ r.stock = t.stock /\ Keeps(t, r) /\ i \in DOMAIN r.attempts
  BY ReconcileKeeps, FullReconcileKeepsNames DEF Settled
<1>2. CASE code # "accepted"
  <2>1. after = r
    BY <1>2 DEF PaymentTx
  <2> QED
    BY <1>1, <1>2, <2>1, KeepsWhatWasBought
<1>3. CASE code = "accepted"
  <2>1. after = Reconcile(x)
    BY <1>3 DEF PaymentTx
  <2>2. r.attempts[i].state = "checkout"
    BY <1>3 DEF PaymentCode
  <2>3. /\ i \notin Decided(t) /\ Follows(t, after)
        /\ Decided(after) \subseteq Decided(t) \cup {i} /\ i \in DOMAIN after.attempts
        /\ after.attempts[i].state =
             IF outcome = "succeeded" THEN "purchased" ELSE "payment_failed"
        /\ outcome = "succeeded" => ref \notin taken
    BY <1>3, PaymentDecides
  <2>4. r.attempts[i] \in Attempt
    BY <1>1, Fields DEF Good
  <2>5. Good(x) /\ x.stock = IF outcome = "succeeded" THEN t.stock - 1 ELSE t.stock
    <3>1. CASE outcome = "succeeded"
      <4>1. x = Purchased(r, i, ref)
        BY <3>1
      <4>2. Good(Purchased(r, i, ref))
        BY <1>1, <2>2, <3>1, PurchaseKeepsGood
      <4>3. Purchased(r, i, ref).stock = t.stock - 1
        BY <1>1 DEF Purchased, Good, WellFormed
      <4> QED
        BY <3>1, <4>1, <4>2, <4>3
    <3>2. CASE outcome = "failed"
      <4>1. x = Released(r, i, "payment_failed")
        BY <3>2
      <4>2. LegalMove(r.attempts[i].state, "payment_failed")
        BY <2>2 DEF LegalMove, Active, Reserving
      <4>3. Good(Released(r, i, "payment_failed"))
        BY <1>1, <4>2, ReleaseKeepsGood
      <4>4. Released(r, i, "payment_failed").stock = t.stock
        BY <1>1 DEF Released, Good, WellFormed
      <4> QED
        BY <3>2, <4>1, <4>3, <4>4
    <3> QED
      BY <3>1, <3>2
  <2> HIDE DEF x
  <2>6. after.stock = x.stock
    BY <2>1, <2>5, FullReconcileKeepsNames
  <2> HIDE DEF after, code
  <2>7. Bought(t) \subseteq Bought(after) /\ i \notin Bought(t)
    BY <2>3 DEF Follows, Bought, Decided, InState, Terminal
  <2>8. \A j \in Bought(after) : j = i \/ j \in Bought(t)
    <3> SUFFICES ASSUME NEW j \in Bought(after), j # i PROVE j \in Bought(t)
      OBVIOUS
    <3>1. j \in Decided(t) /\ after.attempts[j].state = "purchased"
      BY <2>3 DEF Bought, Decided, InState
    <3>2. after.attempts[j] = t.attempts[j]
      BY <2>3, <3>1 DEF Follows, Decided, InState, Terminal
    <3> QED
      BY <3>1, <3>2 DEF Bought, Decided, InState
  <2>9. CASE outcome = "succeeded"
    <3>1. i \in Bought(after)
      BY <2>3, <2>9 DEF Bought, InState
    <3>2. Bought(after) = Bought(t) \cup {i}
      BY <2>7, <2>8, <3>1
    <3> QED
      BY <1>3, <2>5, <2>6, <2>7, <2>9, <3>2 DEF after, code
  <2>10. CASE outcome = "failed"
    <3>1. i \notin Bought(after)
      BY <2>3, <2>10 DEF Bought, InState
    <3>2. Bought(after) = Bought(t)
      BY <2>7, <2>8, <3>1
    <3> QED
      BY <2>5, <2>6, <2>10, <3>2 DEF after, code
  <2> QED
    BY <2>9, <2>10
<1> QED
  BY <1>2, <1>3
=============================================================================
