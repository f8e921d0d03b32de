--------------------------- MODULE TaskTreeProofs ---------------------------
(***************************************************************************)
(* Theorems about planning and the tasks plans leave behind, for any       *)
(* candidates, limits and number of plans, changes and failures.           *)
(***************************************************************************)
EXTENDS TaskTree, FiniteSetTheorems, SequenceTheorems, WellFoundedInduction, TLAPS

-----------------------------------------------------------------------------
(* Least and greatest elements. *)

LEMMA Least ==
    ASSUME NEW S \in SUBSET Nat, S # {}
    PROVE  \E m \in S : \A s \in S : m <= s
<1> DEFINE R == OpToRel(<, Nat)
<1>1. \E m \in S : \A s \in S : ~(<<s, m>> \in R)
  <2> HIDE DEF R
  <2>1. IsWellFoundedOn(R, Nat)
    BY NatLessThanWellFounded DEF R
  <2> QED BY <2>1, WFMin
<1>2. PICK m \in S : \A s \in S : ~(<<s, m>> \in R)
  BY <1>1
<1>3. \A s \in S : m <= s
  <2> SUFFICES ASSUME NEW s \in S, s < m PROVE FALSE
    OBVIOUS
  <2>1. <<s, m>> \in R
    BY DEF OpToRel
  <2> QED BY <1>2, <2>1
<1> QED BY <1>3

LEMMA MinIs ==
    ASSUME NEW S \in SUBSET Nat, S # {}
    PROVE  Min(S) \in S /\ \A s \in S : Min(S) <= s
BY Least DEF Min

\* The greatest of some positions.
LEMMA MaxIs ==
    ASSUME NEW n \in Nat, NEW S \in SUBSET (1..n), S # {}
    PROVE  Max(S) \in S /\ \A s \in S : s <= Max(S)
<1> DEFINE T == {k \in Nat : n - k \in S}
<1>1. PICK s \in S : TRUE
  OBVIOUS
<1>2. n - s \in T
  OBVIOUS
<1>3. PICK m \in T : \A k \in T : m <= k
  BY <1>2, Least
<1>4. n - m \in S /\ \A k \in S : k <= n - m
  <2>1. \A k \in S : n - k \in T
    OBVIOUS
  <2> QED BY <1>3, <2>1
<1> QED BY <1>4 DEF Max

-----------------------------------------------------------------------------
(* Sorting. *)

\* A relation orders some positions one after the other.
Orders(before, positions) ==
    /\ \A i \in positions : <<i, i>> \notin before
    /\ \A i, j, k \in positions :
         <<i, j>> \in before /\ <<j, k>> \in before => <<i, k>> \in before
    /\ \A i, j \in positions : i = j \/ <<i, j>> \in before \/ <<j, i>> \in before

LEMMA RankGrows ==
    ASSUME NEW I, IsFiniteSet(I), NEW R, Orders(R, I), NEW i \in I, NEW j \in I
    PROVE  /\ Rank(i, I, R) \in 0..(Cardinality(I) - 1)
           /\ <<i, j>> \in R <=> Rank(i, I, R) < Rank(j, I, R)
           /\ Rank(i, I, R) = Rank(j, I, R) => i = j
<1> DEFINE B(k) == {l \in I : <<l, k>> \in R}
<1>1. \A k \in I : /\ IsFiniteSet(B(k)) /\ Cardinality(B(k)) \in Nat
                   /\ Cardinality(B(k)) <= Cardinality(I) /\ Cardinality(I) \in Nat
                   /\ Cardinality(B(k)) # Cardinality(I)
  <2> TAKE k \in I
  <2>1. B(k) \in SUBSET I /\ B(k) # I
    BY DEF Orders
  <2> QED BY <2>1, FS_Subset, FS_CardinalityType
<1>2. \A k, l \in I : <<k, l>> \in R => Cardinality(B(k)) < Cardinality(B(l))
  <2> SUFFICES ASSUME NEW k \in I, NEW l \in I, <<k, l>> \in R
               PROVE  Cardinality(B(k)) < Cardinality(B(l))
    OBVIOUS
  <2>1. B(k) \in SUBSET B(l) /\ B(k) # B(l)
    BY DEF Orders
  <2> HIDE DEF B
  <2>2. IsFiniteSet(B(l)) /\ Cardinality(B(l)) \in Nat /\ Cardinality(B(k)) \in Nat
    BY <1>1
  <2>3. Cardinality(B(k)) <= Cardinality(B(l)) /\ Cardinality(B(k)) # Cardinality(B(l))
    BY <2>1, <2>2, FS_Subset
  <2> QED BY <2>2, <2>3
<1>3. \A k \in I : Rank(k, I, R) = Cardinality(B(k))
  BY DEF Rank
<1> HIDE DEF B
<1>4. Rank(i, I, R) \in 0..(Cardinality(I) - 1)
  BY <1>1, <1>3
<1>5. i = j \/ <<i, j>> \in R \/ <<j, i>> \in R
  BY DEF Orders
<1>6. i = j => <<i, j>> \notin R
  BY DEF Orders
<1> QED BY <1>1, <1>2, <1>3, <1>4, <1>5, <1>6

\* Every place is taken.
LEMMA RankOnto ==
    ASSUME NEW I, IsFiniteSet(I), NEW R, Orders(R, I), NEW k \in 1..Cardinality(I)
    PROVE  \E i \in I : Rank(i, I, R) = k - 1
<1> DEFINE f == [i \in I |-> Rank(i, I, R) + 1]
           N == Cardinality(I)
<1>1. N \in Nat
  BY FS_CardinalityType
<1>2. IsFiniteSet(1..N) /\ Cardinality(1..N) = N
  BY <1>1, FS_Interval
<1> HIDE DEF N
<1>3. \A i, j \in I : /\ Rank(i, I, R) \in 0..(N - 1)
                      /\ Rank(i, I, R) = Rank(j, I, R) => i = j
  BY RankGrows DEF N
<1>4. f \in Injection(I, 1..N)
  <2>1. \A i \in I : f[i] \in 1..N
    BY <1>3, <1>1
  <2>2. \A i, j \in I : f[i] = f[j] => i = j
    BY <1>3, <1>1
  <2> HIDE DEF f
  <2>3. f \in [I -> 1..N]
    BY <2>1 DEF f
  <2> QED BY <2>2, <2>3 DEF Injection, IsInjective
<1>5. f \in Surjection(I, 1..N)
  BY <1>2, <1>4, FS_Injection DEF N
<1>6. PICK i \in I : f[i] = k
  BY <1>5 DEF Surjection, N
<1>7. Rank(i, I, R) = k - 1
  BY <1>1, <1>6, <1>3
<1> QED BY <1>7

LEMMA InOrderIs ==
    ASSUME NEW I, IsFiniteSet(I), NEW R, Orders(R, I),
           NEW s, NEW S, \A i \in I : s[i] \in S
    PROVE  /\ InOrder(s, I, R) \in Seq(S)
           /\ Len(InOrder(s, I, R)) = Cardinality(I) /\ Cardinality(I) \in Nat
           /\ \A k \in 1..Cardinality(I) :
                \E i \in I : Rank(i, I, R) = k - 1 /\ InOrder(s, I, R)[k] = s[i]
           /\ \A i \in I : /\ Rank(i, I, R) + 1 \in 1..Cardinality(I)
                           /\ InOrder(s, I, R)[Rank(i, I, R) + 1] = s[i]
<1> DEFINE t == InOrder(s, I, R)
           N == Cardinality(I)
           at(k) == CHOOSE i \in I : Rank(i, I, R) = k - 1
<1>1. N \in Nat
  BY FS_CardinalityType
<1>2. \A k \in 1..N : at(k) \in I /\ Rank(at(k), I, R) = k - 1
  <2> TAKE k \in 1..N
  <2>1. \E i \in I : Rank(i, I, R) = k - 1
    BY RankOnto
  <2> QED BY <2>1
<1>3. t = [k \in 1..N |-> s[at(k)]]
  BY DEF InOrder
<1> HIDE DEF t, at, N
<1>4. t \in [1..N -> S]
  BY <1>2, <1>3
<1>5. t \in Seq(S) /\ Len(t) = N
  BY <1>1, <1>4
<1>6. \A i \in I : Rank(i, I, R) + 1 \in 1..N /\ at(Rank(i, I, R) + 1) = i
  <2> TAKE i \in I
  <2>1. Rank(i, I, R) \in 0..(N - 1)
    BY RankGrows DEF N
  <2>2. Rank(i, I, R) + 1 \in 1..N /\ Rank(i, I, R) + 1 - 1 = Rank(i, I, R)
    BY <1>1, <2>1
  <2> DEFINE k == Rank(i, I, R) + 1
  <2>3. k \in 1..N /\ k - 1 = Rank(i, I, R)
    BY <1>1, <2>1
  <2> HIDE DEF k
  <2>4. at(k) \in I /\ Rank(at(k), I, R) = Rank(i, I, R)
    BY <1>2, <2>3
  <2>5. at(Rank(i, I, R) + 1) \in I /\ Rank(at(Rank(i, I, R) + 1), I, R) = Rank(i, I, R)
    BY <2>4 DEF k
  <2> QED BY <2>2, <2>5, RankGrows
<1> QED BY <1>1, <1>2, <1>3, <1>5, <1>6 DEF t, N

LEMMA InOrderHas ==
    ASSUME NEW I, IsFiniteSet(I), NEW R, Orders(R, I), NEW s, NEW k \in 1..Cardinality(I)
    PROVE  \E i \in I : InOrder(s, I, R)[k] = s[i]
<1> DEFINE at == CHOOSE i \in I : Rank(i, I, R) = k - 1
<1>1. \E i \in I : Rank(i, I, R) = k - 1
  BY RankOnto
<1>2. at \in I
  BY <1>1
<1>3. InOrder(s, I, R)[k] = s[at]
  BY DEF InOrder
<1> QED BY <1>2, <1>3

\* Candidates that are the same, and ordered the same way, are sorted the same.
LEMMA InOrderSame ==
    ASSUME NEW I, IsFiniteSet(I), NEW R, Orders(R, I),
           NEW J, IsFiniteSet(J), NEW Q, Orders(Q, J),
           NEW f \in Bijection(I, J), NEW s, NEW t,
           \A i \in I : s[i] = t[f[i]],
           \A i, j \in I : <<i, j>> \in R <=> <<f[i], f[j]>> \in Q
    PROVE  InOrder(s, I, R) = InOrder(t, J, Q)
<1> DEFINE N == Cardinality(I)
<1>1. Cardinality(J) = N
  BY FS_Bijection DEF ExistsBijection
<1>2. /\ f \in [I -> J]
      /\ \A i, j \in I : f[i] = f[j] => i = j
      /\ \A l \in J : \E i \in I : f[i] = l
  BY DEF Bijection, Injection, Surjection, IsInjective
<1>3. \A i \in I : Rank(f[i], J, Q) = Rank(i, I, R)
  <2> TAKE i \in I
  <2> DEFINE B == {j \in I : <<j, i>> \in R}
             C == {l \in J : <<l, f[i]>> \in Q}
             g == [j \in B |-> f[j]]
  <2>1. g \in [B -> C] /\ (\A j, l \in B : g[j] = g[l] => j = l)
                       /\ (\A l \in C : \E j \in B : g[j] = l)
    BY <1>2
  <2>2. g \in Bijection(B, C)
    BY <2>1 DEF Bijection, Injection, Surjection, IsInjective
  <2>3. IsFiniteSet(B)
    BY FS_Subset
  <2>4. Cardinality(B) = Cardinality(C)
    BY <2>2, <2>3, FS_Bijection DEF ExistsBijection
  <2> QED BY <2>4 DEF Rank
<1>4. \A k \in 1..N : s[CHOOSE i \in I : Rank(i, I, R) = k - 1]
                    = t[CHOOSE j \in J : Rank(j, J, Q) = k - 1]
  <2> TAKE k \in 1..N
  <2> DEFINE i == CHOOSE i \in I : Rank(i, I, R) = k - 1
             j == CHOOSE j \in J : Rank(j, J, Q) = k - 1
  <2>1. i \in I /\ Rank(i, I, R) = k - 1
    BY RankOnto
  <2>2. j \in J /\ Rank(j, J, Q) = k - 1
    BY RankOnto, <1>1
  <2> HIDE DEF i, j
  <2>3. f[i] \in J /\ Rank(f[i], J, Q) = k - 1
    BY <1>2, <1>3, <2>1
  <2>4. j = f[i]
    <3> DEFINE l == f[i]
    <3> HIDE DEF l
    <3>1. l \in J /\ Rank(l, J, Q) = Rank(j, J, Q)
      BY <2>2, <2>3 DEF l
    <3>2. l = j
      BY <2>2, <3>1, RankGrows
    <3> QED BY <3>2 DEF l
  <2>5. s[i] = t[j]
    BY <2>1, <2>4
  <2> QED BY <2>5 DEF i, j
<1> QED BY <1>1, <1>4 DEF InOrder

\* The orders of the source do order candidates.
LEMMA PositionOrder ==
    ASSUME NEW S, NEW s \in Seq(S), NEW I \in SUBSET DOMAIN s
    PROVE  /\ IsFiniteSet(I)
           /\ Orders(AsGiven(s), I)
           /\ \A i, j \in DOMAIN s : <<i, j>> \in AsGiven(s) <=> i < j
<1>1. DOMAIN s = 1..Len(s) /\ Len(s) \in Nat
  OBVIOUS
<1>2. IsFiniteSet(I)
  <2>1. IsFiniteSet(1..Len(s))
    BY <1>1, FS_Interval
  <2> QED BY <1>1, <2>1, FS_Subset
<1>3. \A i, j \in DOMAIN s : <<i, j>> \in AsGiven(s) <=> i < j
  BY DEF AsGiven, Pairs
<1> QED BY <1>1, <1>2, <1>3 DEF Orders

LEMMA CandidateOrders ==
    ASSUME NEW s \in Seq(Candidate), NEW I \in SUBSET DOMAIN s
    PROVE  /\ Orders(ById(s), I)
           /\ Orders(ByItem(s), I)
           /\ \A i, j \in DOMAIN s :
                /\ <<i, j>> \in ById(s) <=>
                     s[i].id < s[j].id \/ (s[i].id = s[j].id /\ i < j)
                /\ <<i, j>> \in ByItem(s) <=>
                     s[i].item < s[j].item \/ (s[i].item = s[j].item /\ <<i, j>> \in ById(s))
<1>1. DOMAIN s = 1..Len(s) /\ Len(s) \in Nat
  OBVIOUS
<1>2. \A i \in DOMAIN s : s[i].id \in Int /\ s[i].item \in Int
  <2>1. \A i \in DOMAIN s : s[i] \in Candidate
    BY <1>1
  <2> QED BY <2>1 DEF Candidate
<1>3. \A i, j \in DOMAIN s : <<i, j>> \in ById(s) <=>
                     s[i].id < s[j].id \/ (s[i].id = s[j].id /\ i < j)
  BY PositionOrder DEF ById, Pairs
<1>4. \A i, j \in DOMAIN s : <<i, j>> \in ByItem(s) <=>
                     s[i].item < s[j].item \/ (s[i].item = s[j].item /\ <<i, j>> \in ById(s))
  BY DEF ByItem, Pairs
<1>5. Orders(ById(s), I)
  BY <1>1, <1>2, <1>3 DEF Orders
<1>6. Orders(ByItem(s), I)
  <2>1. \A i \in I : i \in DOMAIN s /\ s[i].item \in Int
    BY <1>2
  <2>2. ASSUME NEW i \in I PROVE <<i, i>> \notin ByItem(s)
    <3>1. <<i, i>> \notin ById(s)
      BY <1>5 DEF Orders
    <3> QED BY <1>4, <2>1, <3>1
  <2>3. ASSUME NEW i \in I, NEW j \in I, NEW k \in I,
               <<i, j>> \in ByItem(s), <<j, k>> \in ByItem(s)
        PROVE  <<i, k>> \in ByItem(s)
    <3>1. <<i, j>> \in ById(s) /\ <<j, k>> \in ById(s) => <<i, k>> \in ById(s)
      BY <1>5 DEF Orders
    <3> QED BY <1>4, <2>1, <2>3, <3>1
  <2>4. ASSUME NEW i \in I, NEW j \in I
        PROVE  i = j \/ <<i, j>> \in ByItem(s) \/ <<j, i>> \in ByItem(s)
    <3>1. i = j \/ <<i, j>> \in ById(s) \/ <<j, i>> \in ById(s)
      BY <1>5 DEF Orders
    <3> QED BY <1>4, <2>1, <3>1
  <2> QED BY <2>2, <2>3, <2>4 DEF Orders
<1> QED BY <1>3, <1>4, <1>5, <1>6

-----------------------------------------------------------------------------
(* What a plan is. *)

HasOutcome(s) == \E i \in DOMAIN s : s[i].type = "parent"

LEMMA OutcomesAre ==
    ASSUME NEW s \in Seq(Candidate), HasOutcome(s)
    PROVE  /\ Outcomes(s) \in Seq(Candidate) /\ Len(Outcomes(s)) \in Nat \ {0}
           /\ \A k \in 1..Len(Outcomes(s)) :
                Outcomes(s)[k].type = "parent" /\ \E i \in DOMAIN s : Outcomes(s)[k] = s[i]
           /\ \A i \in DOMAIN s : s[i].type = "parent" =>
                \E k \in 1..Len(Outcomes(s)) : Outcomes(s)[k] = s[i]
<1> DEFINE I == {i \in DOMAIN s : s[i].type = "parent"}
           R == ById(s)
           t == InOrder(s, I, R)
<1>1. I \in SUBSET DOMAIN s /\ \A i \in I : s[i] \in Candidate
  OBVIOUS
<1>2. IsFiniteSet(I) /\ Orders(R, I)
  BY <1>1, PositionOrder, CandidateOrders
<1>3. Outcomes(s) = t
  BY DEF Outcomes
<1>4. I # {}
  BY DEF HasOutcome
<1>5. \A i \in I : s[i].type = "parent" /\ i \in DOMAIN s
  OBVIOUS
<1>6. \A i \in DOMAIN s : s[i].type = "parent" => i \in I
  OBVIOUS
<1> HIDE DEF I, R
<1>7. Cardinality(I) # 0
  BY <1>2, <1>4, FS_EmptySet
<1>8. /\ t \in Seq(Candidate) /\ Len(t) = Cardinality(I) /\ Cardinality(I) \in Nat
      /\ \A k \in 1..Cardinality(I) : \E i \in I : t[k] = s[i]
      /\ \A i \in I : \E k \in 1..Cardinality(I) : t[k] = s[i]
  BY <1>1, <1>2, InOrderIs
<1> HIDE DEF t
<1> QED BY <1>3, <1>5, <1>6, <1>7, <1>8

LEMMA PlanIs ==
    ASSUME PlanningAssumption, NEW s \in Seq(Candidate), HasOutcome(s), NEW objects,
           NEW plan, plan = Plan(s, objects)
    PROVE  /\ plan = [outcome |-> plan.outcome, projected |-> plan.projected,
                      steps |-> plan.steps, review |-> plan.review]
           /\ plan.outcome = Outcomes(s)[1]
           /\ plan.projected = (Decision(plan.outcome, s, objects) = "project")
           /\ plan.review \in BOOLEAN
           /\ plan.steps \in Seq(Candidate) /\ Len(plan.steps) <= ReviewThreshold
           /\ \A k \in 1..Len(plan.steps) : plan.steps[k].id # plan.outcome.id
           /\ UniqueIds(s) => \A k, l \in 1..Len(plan.steps) :
                                  plan.steps[k].id = plan.steps[l].id => k = l
<1> DEFINE outcome == Outcomes(s)[1]
           E == Eligible(s, outcome, objects)
           R == ByItem(s)
           ordered == InOrder(s, E, R)
           selected == {ordered[k].id : k \in 1..Allowed(Cardinality(E))}
           I == {i \in E : s[i].id \in selected}
           content == [i \in E |-> LastWith(ordered, s[i].id)]
           steps == InOrder(content, I, R)
<1>1. plan = [outcome |-> outcome, projected |-> Decision(outcome, s, objects) = "project",
              steps |-> steps, review |-> Cardinality(E) > ReviewThreshold]
  BY DEF Plan
<1>2. /\ E \in SUBSET DOMAIN s
      /\ \A i \in E : s[i].id # outcome.id
  BY DEF Eligible
<1>3. \A i \in DOMAIN s : s[i] \in Candidate
  OBVIOUS
<1>4. I \in SUBSET E
  OBVIOUS
<1>5. \A i, j \in DOMAIN s : UniqueIds(s) /\ s[i].id = s[j].id => i = j
  BY DEF UniqueIds
<1>6. Allowed(Cardinality(E)) = 0 => I = {}
  OBVIOUS
<1> HIDE DEF outcome, E, selected, I
<1>7. IsFiniteSet(E) /\ IsFiniteSet(I) /\ Orders(R, E) /\ Orders(R, I)
  BY <1>2, <1>4, PositionOrder, CandidateOrders
<1>8. /\ ordered \in Seq(Candidate) /\ Len(ordered) \in Nat
      /\ \A k \in 1..Len(ordered) : \E i \in E : ordered[k] = s[i]
      /\ \A i \in E : \E k \in 1..Len(ordered) : ordered[k] = s[i]
  <2> HIDE DEF R
  <2> QED BY <1>2, <1>3, <1>7, InOrderIs
<1> HIDE DEF ordered, R
<1>9. \A i \in E : content[i] \in Candidate /\ content[i].id = s[i].id
  <2> TAKE i \in E
  <2> DEFINE K == {k \in DOMAIN ordered : ordered[k].id = s[i].id}
  <2>1. K \in SUBSET (1..Len(ordered)) /\ K # {}
    BY <1>8
  <2>2. Max(K) \in K
    BY <1>8, <2>1, MaxIs
  <2>3. content[i] = ordered[Max(K)]
    BY DEF LastWith
  <2> QED BY <1>8, <2>2, <2>3
<1> HIDE DEF content
<1>10. /\ steps \in Seq(Candidate) /\ Len(steps) = Cardinality(I) /\ Cardinality(I) \in Nat
       /\ \A k \in 1..Len(steps) :
            \E i \in I : Rank(i, I, R) = k - 1 /\ steps[k] = content[i]
  BY <1>4, <1>7, <1>9, InOrderIs
<1> HIDE DEF steps
<1>11. Len(steps) <= ReviewThreshold
  <2>1. Cardinality(I) <= Cardinality(E) /\ Cardinality(E) \in Nat
    BY <1>4, <1>7, FS_Subset, FS_CardinalityType
  <2>2. Cardinality(E) > ReviewThreshold => I = {}
    BY <1>6, <2>1 DEF Allowed, PlanningAssumption
  <2>3. I = {} => Cardinality(I) = 0
    BY FS_EmptySet
  <2> QED BY <1>10, <2>1, <2>2, <2>3 DEF PlanningAssumption
<1>12. \A k \in 1..Len(steps) : steps[k].id # outcome.id
  BY <1>2, <1>4, <1>9, <1>10
<1>13. ASSUME UniqueIds(s), NEW k \in 1..Len(steps), NEW l \in 1..Len(steps),
              steps[k].id = steps[l].id
       PROVE  k = l
  <2>1. PICK i \in I : Rank(i, I, R) = k - 1 /\ steps[k] = content[i]
    BY <1>10
  <2>2. PICK j \in I : Rank(j, I, R) = l - 1 /\ steps[l] = content[j]
    BY <1>10
  <2>3. s[i].id = s[j].id
    BY <1>4, <1>9, <1>13, <2>1, <2>2
  <2>4. i = j
    BY <1>2, <1>4, <1>5, <1>13, <2>3
  <2>5. k \in Int /\ l \in Int
    BY <1>10
  <2> QED BY <2>1, <2>2, <2>4, <2>5
<1> QED BY <1>1, <1>10, <1>11, <1>12, <1>13 DEF outcome

\* An outcome that an object was made of is not projected again.
LEMMA ProjectedIsUnrepresented ==
    ASSUME PlanningAssumption, NEW s \in Seq(Candidate), HasOutcome(s), NEW objects,
           Plan(s, objects).projected, NEW object \in objects
    PROVE  object.source # Plan(s, objects).outcome.id
<1> DEFINE c == Plan(s, objects).outcome
           K == {i \in DOMAIN s : s[i].id = c.id}
           d == LastWith(s, c.id)
           equivalent == {o \in objects : Relation(d, o) # "none"}
<1>1. Decision(c, s, objects) = "project" /\ c = Outcomes(s)[1]
  BY PlanIs
<1>2. \E i \in DOMAIN s : c = s[i]
  BY <1>1, OutcomesAre
<1>3. d.id = c.id
  <2>1. K # {} /\ K \in SUBSET (1..Len(s)) /\ Len(s) \in Nat
    BY <1>2
  <2>2. Max(K) \in K
    BY <2>1, MaxIs
  <2> QED BY <2>2 DEF LastWith
<1> HIDE DEF c, d
<1> SUFFICES ASSUME object.source = c.id PROVE FALSE
  BY DEF c
<1>4. \A o \in objects : o.source = c.id => Relation(d, o) = "exact"
  BY <1>3 DEF Relation
<1>5. object \in equivalent
  BY <1>4
<1>6. Match(d, objects) \in {"ambiguous", "exact"}
  <2>1. CASE \E o1, o2 \in equivalent : o1 # o2
    BY <1>5, <2>1 DEF Match
  <2>2. CASE ~\E o1, o2 \in equivalent : o1 # o2
    <3>1. (CHOOSE o \in equivalent : TRUE) = object
      BY <1>5, <2>2
    <3>2. Match(d, objects) = Relation(d, object)
      <4> HIDE DEF equivalent
      <4>1. Match(d, objects) = Relation(d, CHOOSE o \in equivalent : TRUE)
        BY <1>5, <2>2 DEF Match, equivalent
      <4> QED BY <3>1, <4>1
    <3> QED BY <1>4, <3>2
  <2> QED BY <2>1, <2>2
<1>7. Status(c, Findings(s)[c.id], Match(d, objects)) # "project"
  BY <1>6 DEF Status, Represented
<1> QED BY <1>1, <1>7 DEF Decision, d

LEMMA PartIs ==
    ASSUME NEW s \in Seq(Candidate), NEW o \in DOMAIN s, s[o].type = "parent"
    PROVE  /\ Part(s, s[o]) \in Seq(Candidate)
           /\ HasOutcome(Part(s, s[o])) /\ Outcomes(Part(s, s[o]))[1] = s[o]
           /\ UniqueIds(s) => UniqueIds(Part(s, s[o]))
<1> DEFINE I == {i \in DOMAIN s : s[i].type # "parent" /\ s[o].id \in s[i].deps}
           R == AsGiven(s)
           t == InOrder(s, I, R)
           q == <<s[o]>> \o t
<1>1. I \in SUBSET DOMAIN s /\ \A i \in I : s[i] \in Candidate
  OBVIOUS
<1>2. s[o] \in Candidate /\ <<s[o]>> \in Seq(Candidate)
  OBVIOUS
<1>3. IsFiniteSet(I) /\ Orders(R, I)
  BY <1>1, PositionOrder
<1>4. \A i \in I : s[i].type # "parent"
  OBVIOUS
<1>5. \A i, j \in DOMAIN s : UniqueIds(s) /\ s[i].id = s[j].id => i = j
  BY DEF UniqueIds
<1>6. Part(s, s[o]) = q
  BY DEF Part
<1> HIDE DEF I, R
<1>7. /\ t \in Seq(Candidate) /\ Len(t) \in Nat
      /\ \A k \in 1..Len(t) : \E i \in I : Rank(i, I, R) = k - 1 /\ t[k] = s[i]
  BY <1>1, <1>3, InOrderIs
<1> HIDE DEF t
<1>8. /\ q \in Seq(Candidate) /\ Len(q) = Len(t) + 1 /\ DOMAIN q = 1..(Len(t) + 1)
      /\ q[1] = s[o] /\ \A k \in 1..Len(t) : q[k + 1] = t[k]
  BY <1>2, <1>7
<1>9. \A k \in 2..(Len(t) + 1) : k - 1 \in 1..Len(t) /\ q[k] = t[k - 1]
  <2> TAKE k \in 2..(Len(t) + 1)
  <2>1. k - 1 \in 1..Len(t) /\ (k - 1) + 1 = k
    BY <1>7
  <2> QED BY <1>8, <2>1
<1> HIDE DEF q
<1>10. \A k \in DOMAIN q : k = 1 \/ q[k].type # "parent"
  <2> TAKE k \in DOMAIN q
  <2>1. CASE k # 1
    <3>1. k \in 2..(Len(t) + 1)
      BY <1>7, <1>8, <2>1
    <3> QED BY <1>4, <1>7, <1>9, <3>1
  <2> QED BY <2>1
<1>11. 1 \in DOMAIN q
  BY <1>7, <1>8
<1>12. HasOutcome(q) /\ Outcomes(q)[1] = s[o]
  <2>1. HasOutcome(q)
    BY <1>8, <1>11 DEF HasOutcome
  <2>2. Outcomes(q)[1].type = "parent" /\ \E k \in DOMAIN q : Outcomes(q)[1] = q[k]
    <3>1. 1 \in 1..Len(Outcomes(q))
      BY <1>8, <2>1, OutcomesAre
    <3> QED BY <1>8, <2>1, <3>1, OutcomesAre
  <2> QED BY <1>8, <1>10, <2>1, <2>2
<1>13. ASSUME UniqueIds(s) PROVE UniqueIds(q)
  <2>1. ASSUME NEW k \in 2..(Len(t) + 1) PROVE q[k].id # q[1].id
    <3>1. PICK i \in I : q[k] = s[i]
      BY <1>7, <1>9
    <3> QED BY <1>1, <1>4, <1>5, <1>8, <1>13, <3>1
  <2>2. ASSUME NEW k \in 2..(Len(t) + 1), NEW l \in 2..(Len(t) + 1), q[k].id = q[l].id
        PROVE  k = l
    <3>1. PICK i \in I : Rank(i, I, R) = k - 2 /\ q[k] = s[i]
      BY <1>7, <1>9
    <3>2. PICK j \in I : Rank(j, I, R) = l - 2 /\ q[l] = s[j]
      BY <1>7, <1>9
    <3>3. i = j
      BY <1>1, <1>5, <1>13, <2>2, <3>1, <3>2
    <3> QED BY <3>1, <3>2, <3>3
  <2>3. \A k \in DOMAIN q : k = 1 \/ k \in 2..(Len(t) + 1)
    BY <1>7, <1>8
  <2> QED BY <2>1, <2>2, <2>3 DEF UniqueIds
<1> QED BY <1>6, <1>8, <1>12, <1>13

\* The outcome with this number; 0 is the number of the only one.
Numbered(n, s) == Outcomes(s)[IF n = 0 THEN 1 ELSE n]

PlanType == [outcome : Candidate, projected : BOOLEAN, steps : Seq(Candidate), review : BOOLEAN]

\* The plan with this number is for that outcome, with few enough steps, none of which is
\* the outcome or another one.
Fits(n, plan, s) ==
    /\ n \in 0..Len(Outcomes(s))
    /\ plan.outcome.id = Numbered(n, s).id
    /\ Len(plan.steps) <= ReviewThreshold
    /\ \A k \in 1..Len(plan.steps) : plan.steps[k].id # plan.outcome.id
    /\ UniqueIds(s) => \A k, l \in 1..Len(plan.steps) :
                           plan.steps[k].id = plan.steps[l].id => k = l

LEMMA PlansAre ==
    ASSUME PlanningAssumption, NEW s \in Seq(Candidate), HasOutcome(s), NEW objects
    PROVE  /\ Plans(s, objects) \in Seq([number : Nat, plan : PlanType])
           /\ \A k \in 1..Len(Plans(s, objects)) :
                LET p == Plans(s, objects)[k]
                IN  /\ Fits(p.number, p.plan, s)
                    /\ p.plan.projected => \A object \in objects : object.source # p.plan.outcome.id
<1> DEFINE outcomes == Outcomes(s)
           New(object, plan) == plan.projected => object.source # plan.outcome.id
<1>1. /\ outcomes \in Seq(Candidate) /\ Len(outcomes) \in Nat \ {0}
      /\ \A k \in 1..Len(outcomes) : outcomes[k].type = "parent" /\ \E i \in DOMAIN s : outcomes[k] = s[i]
  BY OutcomesAre
<1>2. ASSUME NEW q \in Seq(Candidate), HasOutcome(q), UniqueIds(s) => UniqueIds(q),
             NEW n \in 0..Len(outcomes), Outcomes(q)[1] = Numbered(n, s)
      PROVE  /\ Plan(q, objects) \in PlanType
             /\ Fits(n, Plan(q, objects), s)
             /\ \A object \in objects : New(object, Plan(q, objects))
  <2> DEFINE plan == Plan(q, objects)
  <2>1. /\ plan = [outcome |-> plan.outcome, projected |-> plan.projected,
                   steps |-> plan.steps, review |-> plan.review]
        /\ plan.outcome = Outcomes(q)[1]
        /\ plan.projected \in BOOLEAN /\ plan.review \in BOOLEAN
        /\ plan.steps \in Seq(Candidate) /\ Len(plan.steps) <= ReviewThreshold
        /\ \A k \in 1..Len(plan.steps) : plan.steps[k].id # plan.outcome.id
        /\ UniqueIds(q) => \A k, l \in 1..Len(plan.steps) :
                               plan.steps[k].id = plan.steps[l].id => k = l
    <3>1. plan = Plan(q, objects)
      OBVIOUS
    <3> HIDE DEF plan
    <3>2. plan.projected = (Decision(plan.outcome, q, objects) = "project")
      BY <1>2, <3>1, PlanIs
    <3> QED BY <1>2, <3>1, <3>2, PlanIs
  <2>2. Outcomes(q)[1] \in Candidate
    BY <1>2, OutcomesAre
  <2>3. \A object \in objects : New(object, plan)
    BY <1>2, ProjectedIsUnrepresented
  <2> HIDE DEF plan, New
  <2>4. plan \in PlanType
    BY <2>1, <2>2 DEF PlanType
  <2>5. Fits(n, plan, s)
    BY <1>2, <2>1 DEF Fits
  <2> QED BY <2>3, <2>4, <2>5 DEF plan
<1>3. CASE Len(outcomes) <= 1
  <2> DEFINE p == [number |-> 0, plan |-> Plan(s, objects)]
  <2>1. Outcomes(s)[1] = Numbered(0, s) /\ 0 \in 0..Len(outcomes)
    BY <1>1 DEF Numbered
  <2>2. /\ Plan(s, objects) \in PlanType /\ Fits(0, Plan(s, objects), s)
        /\ \A object \in objects : New(object, Plan(s, objects))
    BY <1>2, <2>1
  <2>3. Plans(s, objects) = <<p>>
    BY <1>3 DEF Plans
  <2>4. /\ p \in [number : Nat, plan : PlanType]
        /\ Fits(p.number, p.plan, s)
        /\ \A object \in objects : New(object, p.plan)
    BY <2>2
  <2> HIDE DEF p
  <2> QED BY <2>3, <2>4
<1>4. CASE ~(Len(outcomes) <= 1)
  <2> DEFINE numbered == [n \in DOMAIN outcomes |->
                             [number |-> n, plan |-> Plan(Part(s, outcomes[n]), objects)]]
             I == {n \in DOMAIN outcomes : /\ Findings(outcomes)[outcomes[n].id] = "new"
                                           /\ numbered[n].plan.projected}
             Good(p) == /\ p \in [number : Nat, plan : PlanType]
                        /\ Fits(p.number, p.plan, s)
                        /\ \A object \in objects : New(object, p.plan)
             P == InOrder(numbered, I, AsGiven(outcomes))
  <2>1. Plans(s, objects) = P
    BY <1>4 DEF Plans
  <2>2. \A n \in DOMAIN outcomes : Good(numbered[n])
    <3> TAKE n \in DOMAIN outcomes
    <3> DEFINE q == Part(s, outcomes[n])
    <3>1. PICK o \in DOMAIN s : outcomes[n] = s[o] /\ s[o].type = "parent"
      BY <1>1
    <3>2. q \in Seq(Candidate) /\ HasOutcome(q) /\ Outcomes(q)[1] = outcomes[n]
          /\ (UniqueIds(s) => UniqueIds(q))
      BY <3>1, PartIs
    <3>3. n \in 0..Len(outcomes) /\ n # 0 /\ n \in Nat /\ Numbered(n, s) = outcomes[n]
      BY <1>1 DEF Numbered
    <3> HIDE DEF q, New
    <3>4. /\ Plan(q, objects) \in PlanType /\ Fits(n, Plan(q, objects), s)
          /\ \A object \in objects : New(object, Plan(q, objects))
      BY <1>2, <3>2, <3>3
    <3>5. numbered[n] = [number |-> n, plan |-> Plan(q, objects)]
      BY DEF q
    <3> QED BY <3>3, <3>4, <3>5
  <2>3. I \in SUBSET DOMAIN outcomes
    OBVIOUS
  <2>4. IsFiniteSet(I) /\ Orders(AsGiven(outcomes), I)
    BY <1>1, <2>3, PositionOrder
  <2> HIDE DEF numbered, I, outcomes, New
  <2>5. /\ P \in Seq([number : Nat, plan : PlanType]) /\ Len(P) = Cardinality(I)
        /\ \A k \in 1..Cardinality(I) : \E n \in I : P[k] = numbered[n]
    <3> DEFINE R == AsGiven(outcomes)
               Plain == [number : Nat, plan : PlanType]
    <3>1. \A n \in I : numbered[n] \in Plain
      BY <2>2, <2>3
    <3>2. IsFiniteSet(I) /\ Orders(R, I)
      BY <2>4
    <3> HIDE DEF R, Plain
    <3>3. /\ InOrder(numbered, I, R) \in Seq(Plain)
          /\ Len(InOrder(numbered, I, R)) = Cardinality(I)
          /\ \A k \in 1..Cardinality(I) : \E n \in I : InOrder(numbered, I, R)[k] = numbered[n]
      <4>1. InOrder(numbered, I, R) \in Seq(Plain)
        BY <3>1, <3>2, InOrderIs
      <4>2. Len(InOrder(numbered, I, R)) = Cardinality(I)
        BY <3>1, <3>2, InOrderIs
      <4>3. ASSUME NEW k \in 1..Cardinality(I)
            PROVE  \E n \in I : InOrder(numbered, I, R)[k] = numbered[n]
        BY <3>1, <3>2, InOrderHas
      <4> QED BY <4>1, <4>2, <4>3
    <3> QED BY <3>3 DEF R, Plain
  <2>6. \A k \in 1..Len(P) : Good(P[k])
    BY <2>2, <2>3, <2>5
  <2> QED BY <2>1, <2>5, <2>6 DEF New
<1> QED BY <1>3, <1>4

-----------------------------------------------------------------------------
(* The analysis of duplicates. *)

\* The recursion of the analysis: as a finding looks back only, there is such a function up
\* to every position, since there is none to be the first without.
LEMMA AnalysisIs ==
    ASSUME NEW s, NEW N \in Nat, DOMAIN s = 1..N
    PROVE  /\ DOMAIN Analysis(s) = 1..N
           /\ \A k \in 1..N :
                Analysis(s)[k] = Finding(s, k, {j \in 1..(k - 1) : Analysis(s)[j] = "new"})
<1> DEFINE Up(n, g) == g = [k \in 1..n |-> Finding(s, k, {j \in 1..(k - 1) : g[j] = "new"})]
           Bad == {n \in 0..N : ~\E g : Up(n, g)}
<1>1. Bad = {}
  <2> SUFFICES ASSUME Bad # {} PROVE FALSE
    OBVIOUS
  <2>1. Bad \in SUBSET Nat
    OBVIOUS
  <2>2. PICK n \in Bad : \A m \in Bad : n <= m
    BY <2>1, Least
  <2>3. n \in 0..N /\ n \in Nat
    OBVIOUS
  <2>4. n # 0
    <3> DEFINE e == [k \in 1..0 |-> 0]
    <3>1. Up(0, e)
      OBVIOUS
    <3> QED BY <3>1
  <2>5. n - 1 \in 0..N /\ n - 1 \in Nat /\ n - 1 < n
    BY <2>3, <2>4
  <2>6. n - 1 \notin Bad
    <3> HIDE DEF Bad
    <3>1. n - 1 \in Bad => n <= n - 1
      BY <2>2
    <3> QED BY <2>3, <2>5, <3>1
  <2>7. PICK g : Up(n - 1, g)
    BY <2>5, <2>6
  <2> DEFINE Kept(f, k) == {j \in 1..(k - 1) : f[j] = "new"}
             h == [k \in 1..n |-> Finding(s, k, Kept(g, k))]
  <2>8. g = [k \in 1..(n - 1) |-> Finding(s, k, Kept(g, k))]
    BY <2>7
  <2>9. \A j \in 1..(n - 1) : h[j] = g[j]
    <3> HIDE DEF Kept
    <3> QED BY <2>3, <2>8
  <2> HIDE DEF h
  <2>10. \A k \in 1..n : Kept(g, k) = Kept(h, k)
    BY <2>3, <2>9
  <2>11. h = [k \in 1..n |-> Finding(s, k, Kept(h, k))]
    <3> HIDE DEF Kept
    <3> QED BY <2>10 DEF h
  <2>12. Up(n, h)
    BY <2>11
  <2> QED BY <2>12
<1>2. PICK g : Up(N, g)
  BY <1>1
<1>3. Analysis(s) = CHOOSE f : Up(N, f)
  BY DEF Analysis
<1>4. Up(N, Analysis(s))
  <2> HIDE DEF Up
  <2> QED BY <1>2, <1>3
<1> DEFINE f == Analysis(s)
<1> HIDE DEF f
<1>5. f = [k \in 1..N |-> Finding(s, k, {j \in 1..(k - 1) : f[j] = "new"})]
  BY <1>4 DEF f
<1>6. DOMAIN f = 1..N /\ \A k \in 1..N : f[k] = Finding(s, k, {j \in 1..(k - 1) : f[j] = "new"})
  BY <1>5
<1> QED BY <1>6 DEF f

LEMMA FindingIsNew ==
    ASSUME NEW s, NEW k, NEW kept
    PROVE  Finding(s, k, kept) = "new" <=> \A j \in kept : ~Close(s[k], s[j])
BY DEF Finding, Close

\* With distinct identifiers the sorted candidates are the same, in ascending order.
LEMMA SortedById ==
    ASSUME NEW s \in Seq(Candidate), UniqueIds(s),
           NEW t, t = InOrder(s, DOMAIN s, ById(s))
    PROVE  /\ t \in Seq(Candidate) /\ Len(t) \in Nat
           /\ \A k, l \in 1..Len(t) : t[k].id < t[l].id <=> k < l
           /\ \A k, l \in 1..Len(t) : t[k].id = t[l].id => k = l
           /\ \A k \in 1..Len(t) : \E i \in DOMAIN s : t[k] = s[i]
           /\ \A i \in DOMAIN s : \E k \in 1..Len(t) : t[k] = s[i]
<1> DEFINE I == DOMAIN s
           R == ById(s)
<1>1. IsFiniteSet(I) /\ Orders(R, I)
  BY PositionOrder, CandidateOrders
<1>2. \A i \in I : s[i] \in Candidate /\ s[i].id \in Int
  <2>1. \A i \in I : s[i] \in Candidate
    OBVIOUS
  <2> QED BY <2>1 DEF Candidate
<1>3. \A i, j \in I : /\ <<i, j>> \in R <=> s[i].id < s[j].id
                      /\ s[i].id = s[j].id => i = j
  <2>1. \A i, j \in I : s[i].id = s[j].id => i = j
    BY DEF UniqueIds
  <2>2. \A i, j \in I : <<i, j>> \in R <=> s[i].id < s[j].id \/ (s[i].id = s[j].id /\ i < j)
    BY CandidateOrders
  <2>3. I \in SUBSET Nat
    OBVIOUS
  <2> HIDE DEF I, R
  <2>4. ASSUME NEW i \in I, NEW j \in I
        PROVE  <<i, j>> \in R <=> s[i].id < s[j].id
    <3>1. CASE s[i].id = s[j].id
      BY <1>2, <2>1, <2>2, <2>3, <3>1
    <3>2. CASE s[i].id # s[j].id
      BY <2>2, <3>2
    <3> QED BY <3>1, <3>2
  <2> QED BY <2>1, <2>4
<1> HIDE DEF I, R
<1>4. /\ t \in Seq(Candidate) /\ Len(t) = Cardinality(I) /\ Cardinality(I) \in Nat
      /\ \A k \in 1..Cardinality(I) : \E i \in I : Rank(i, I, R) = k - 1 /\ t[k] = s[i]
      /\ \A i \in I : Rank(i, I, R) + 1 \in 1..Cardinality(I) /\ t[Rank(i, I, R) + 1] = s[i]
  BY <1>1, <1>2, InOrderIs DEF I, R
<1>5. ASSUME NEW k \in 1..Len(t), NEW l \in 1..Len(t)
      PROVE  (t[k].id < t[l].id <=> k < l) /\ (t[k].id = t[l].id => k = l)
  <2>1. PICK i \in I : Rank(i, I, R) = k - 1 /\ t[k] = s[i]
    BY <1>4
  <2>2. PICK j \in I : Rank(j, I, R) = l - 1 /\ t[l] = s[j]
    BY <1>4
  <2>3. s[i].id < s[j].id <=> k - 1 < l - 1
    <3>1. <<i, j>> \in R <=> Rank(i, I, R) < Rank(j, I, R)
      BY <1>1, RankGrows
    <3> QED BY <1>3, <2>1, <2>2, <3>1
  <2>4. s[i].id = s[j].id => k - 1 = l - 1
    BY <1>3, <2>1, <2>2
  <2>5. k \in Int /\ l \in Int
    BY <1>4
  <2> QED BY <2>1, <2>2, <2>3, <2>4, <2>5
<1>6. \A k \in 1..Len(t) : \E i \in I : t[k] = s[i]
  BY <1>4
<1>7. \A i \in I : \E k \in 1..Len(t) : t[k] = s[i]
  BY <1>4
<1> QED BY <1>4, <1>5, <1>6, <1>7 DEF I

LEMMA FindingsAre ==
    ASSUME NEW s \in Seq(Candidate), UniqueIds(s),
           NEW t, t = InOrder(s, DOMAIN s, ById(s)), NEW k \in 1..Len(t)
    PROVE  Findings(s)[t[k].id] = Analysis(t)[k]
<1>1. /\ t \in Seq(Candidate) /\ Len(t) \in Nat /\ DOMAIN t = 1..Len(t)
      /\ \A l \in 1..Len(t) : t[l].id = t[k].id => l = k
      /\ \E i \in DOMAIN s : t[k] = s[i]
  <2>1. t \in Seq(Candidate) /\ Len(t) \in Nat
    BY SortedById
  <2>2. DOMAIN t = 1..Len(t)
    BY <2>1
  <2>3. ASSUME NEW l \in 1..Len(t), t[l].id = t[k].id PROVE l = k
    BY <2>3, SortedById
  <2>4. \E i \in DOMAIN s : t[k] = s[i]
    BY SortedById
  <2> QED BY <2>1, <2>2, <2>3, <2>4
<1>2. {l \in DOMAIN t : t[l].id = t[k].id} = {k} /\ k \in Nat
  BY <1>1
<1>3. Max({k}) = k
  BY <1>2 DEF Max
<1>4. t[k].id \in {s[i].id : i \in DOMAIN s}
  BY <1>1
<1>5. Findings(s)[t[k].id] = Analysis(t)[Max({l \in DOMAIN t : t[l].id = t[k].id})]
  BY <1>4 DEF Findings
<1> QED BY <1>2, <1>3, <1>5

\* Those sorted before are the new candidates of lower identifiers.
LEMMA KernelOf ==
    ASSUME NEW s \in Seq(Candidate), UniqueIds(s), NEW i \in DOMAIN s
    PROVE  Findings(s)[s[i].id] = "new" <=>
               ~\E j \in DOMAIN s : /\ Findings(s)[s[j].id] = "new"
                                    /\ s[j].id < s[i].id /\ Close(s[i], s[j])
<1> DEFINE t == InOrder(s, DOMAIN s, ById(s))
           kept(k) == {l \in 1..(k - 1) : Analysis(t)[l] = "new"}
<1>1. /\ t \in Seq(Candidate) /\ Len(t) \in Nat
      /\ \A k, l \in 1..Len(t) : t[k].id < t[l].id <=> k < l
      /\ \A k \in 1..Len(t) : \E j \in DOMAIN s : t[k] = s[j]
      /\ \A j \in DOMAIN s : \E k \in 1..Len(t) : t[k] = s[j]
  BY SortedById
<1>2. \A k \in 1..Len(t) : Findings(s)[t[k].id] = Analysis(t)[k]
  BY FindingsAre
<1> HIDE DEF t
<1>3. PICK k \in 1..Len(t) : t[k] = s[i]
  BY <1>1
<1>4. DOMAIN t = 1..Len(t)
  BY <1>1
<1>5. Analysis(t)[k] = Finding(t, k, kept(k))
  <2>1. DOMAIN t = 1..Len(t) /\ Len(t) \in Nat
    BY <1>1, <1>4
  <2>2. \A l \in 1..Len(t) :
          Analysis(t)[l] = Finding(t, l, {j \in 1..(l - 1) : Analysis(t)[j] = "new"})
    BY <2>1, AnalysisIs
  <2> QED BY <2>2
<1>6. Analysis(t)[k] = "new" <=> \A l \in kept(k) : ~Close(t[k], t[l])
  <2> HIDE DEF kept
  <2> QED BY <1>5, FindingIsNew
<1>7. ASSUME NEW l \in kept(k), Close(t[k], t[l])
      PROVE  \E j \in DOMAIN s : /\ Findings(s)[s[j].id] = "new"
                                 /\ s[j].id < s[i].id /\ Close(s[i], s[j])
  <2>1. l \in 1..Len(t) /\ l < k /\ Analysis(t)[l] = "new"
    <3>1. k \in Nat /\ k <= Len(t)
      BY <1>1
    <3>2. l \in 1..(k - 1) /\ Analysis(t)[l] = "new"
      OBVIOUS
    <3> QED BY <1>1, <3>1, <3>2
  <2>2. PICK j \in DOMAIN s : t[l] = s[j]
    BY <1>1, <2>1
  <2>3. Findings(s)[s[j].id] = "new"
    BY <1>2, <2>1, <2>2
  <2>4. s[j].id < s[i].id
    <3>1. t[l].id < t[k].id
      <4> HIDE DEF kept
      <4> QED BY <1>1, <2>1
    <3> QED BY <1>3, <2>2, <3>1
  <2> QED BY <1>3, <1>7, <2>2, <2>3, <2>4
<1>8. ASSUME NEW j \in DOMAIN s, Findings(s)[s[j].id] = "new", s[j].id < s[i].id,
             Close(s[i], s[j])
      PROVE  \E l \in kept(k) : Close(t[k], t[l])
  <2>1. PICK l \in 1..Len(t) : t[l] = s[j]
    BY <1>1
  <2>2. l < k /\ Analysis(t)[l] = "new"
    BY <1>1, <1>2, <1>3, <1>8, <2>1
  <2>3. l \in kept(k)
    BY <1>1, <2>2
  <2> QED BY <1>3, <1>8, <2>1, <2>3
<1> HIDE DEF kept
<1> QED BY <1>2, <1>3, <1>6, <1>7, <1>8

-----------------------------------------------------------------------------
(* The order in which candidates are given. *)

\* The same candidates, with distinct identifiers.
SameCandidates(s, t) ==
    /\ UniqueIds(s) /\ UniqueIds(t)
    /\ \A i \in DOMAIN s : \E j \in DOMAIN t : s[i] = t[j]
    /\ \A j \in DOMAIN t : \E i \in DOMAIN s : t[j] = s[i]

\* The positions that correspond.
Moves(f, s, t) ==
    /\ f \in [DOMAIN s -> DOMAIN t]
    /\ \A i \in DOMAIN s : s[i] = t[f[i]]
    /\ \A j \in DOMAIN t : \E i \in DOMAIN s : f[i] = j

LEMMA SameMoves ==
    ASSUME NEW s, NEW t, SameCandidates(s, t)
    PROVE  \E f : Moves(f, s, t)
<1> DEFINE f == [i \in DOMAIN s |-> CHOOSE j \in DOMAIN t : s[i] = t[j]]
<1>1. \A i \in DOMAIN s : f[i] \in DOMAIN t /\ s[i] = t[f[i]]
  BY DEF SameCandidates
<1>2. f \in [DOMAIN s -> DOMAIN t]
  BY <1>1
<1>3. ASSUME NEW j \in DOMAIN t PROVE \E i \in DOMAIN s : f[i] = j
  <2>1. PICK i \in DOMAIN s : t[j] = s[i]
    BY DEF SameCandidates
  <2>2. t[f[i]].id = t[j].id /\ f[i] \in DOMAIN t
    BY <1>1, <2>1
  <2> HIDE DEF f
  <2>3. f[i] = j
    BY <2>2 DEF SameCandidates, UniqueIds
  <2> QED BY <2>3
<1> HIDE DEF f
<1>4. Moves(f, s, t)
  BY <1>1, <1>2, <1>3 DEF Moves
<1> QED BY <1>4

\* Corresponding positions, with the same values.
Correspond(f, s, t, I, J, a, b) ==
    /\ Moves(f, s, t)
    /\ I \in SUBSET DOMAIN s /\ J \in SUBSET DOMAIN t
    /\ \A i \in DOMAIN s : i \in I <=> f[i] \in J
    /\ \A i \in I : a[i] = b[f[i]]

\* They are sorted the same.
LEMMA SameSorted ==
    ASSUME NEW s \in Seq(Candidate), NEW t \in Seq(Candidate), SameCandidates(s, t),
           NEW f, NEW I, NEW J, NEW a, NEW b, Correspond(f, s, t, I, J, a, b)
    PROVE  /\ InOrder(a, I, ById(s)) = InOrder(b, J, ById(t))
           /\ InOrder(a, I, ByItem(s)) = InOrder(b, J, ByItem(t))
           /\ Cardinality(I) = Cardinality(J)
<1> DEFINE g == [i \in I |-> f[i]]
<1>1. /\ Moves(f, s, t)
      /\ I \in SUBSET DOMAIN s /\ J \in SUBSET DOMAIN t
      /\ \A i \in DOMAIN s : i \in I <=> f[i] \in J
      /\ \A i \in I : a[i] = b[f[i]]
  BY DEF Correspond
<1>2. /\ IsFiniteSet(I) /\ Orders(ById(s), I) /\ Orders(ByItem(s), I)
      /\ IsFiniteSet(J) /\ Orders(ById(t), J) /\ Orders(ByItem(t), J)
  BY <1>1, PositionOrder, CandidateOrders
<1>3. \A i \in DOMAIN s : f[i] \in DOMAIN t /\ s[i] = t[f[i]]
  BY <1>1 DEF Moves
<1>4. \A i, j \in DOMAIN s : s[i].id = s[j].id => i = j
  BY DEF SameCandidates, UniqueIds
<1>5. \A i, j \in DOMAIN s : f[i] = f[j] => i = j
  BY <1>3, <1>4
<1>6. g \in Bijection(I, J)
  <2>1. g \in [I -> J]
    BY <1>1
  <2>2. \A i, j \in I : g[i] = g[j] => i = j
    BY <1>1, <1>5
  <2>3. \A j \in J : \E i \in I : g[i] = j
    BY <1>1 DEF Moves
  <2> HIDE DEF g
  <2> QED BY <2>1, <2>2, <2>3 DEF Bijection, Injection, Surjection, IsInjective
<1>7. \A i, j \in DOMAIN s : <<i, j>> \in ById(s) <=> <<f[i], f[j]>> \in ById(t)
  <2> TAKE i \in DOMAIN s, j \in DOMAIN s
  <2>1. /\ <<i, j>> \in ById(s) <=> s[i].id < s[j].id \/ (s[i].id = s[j].id /\ i < j)
        /\ <<f[i], f[j]>> \in ById(t) <=>
             t[f[i]].id < t[f[j]].id \/ (t[f[i]].id = t[f[j]].id /\ f[i] < f[j])
    BY <1>3, CandidateOrders
  <2>2. i \in Nat /\ f[i] \in Nat
    BY <1>3
  <2>3. CASE i = j
    BY <1>3, <2>1, <2>2, <2>3
  <2>4. CASE i # j
    BY <1>3, <1>4, <2>1, <2>4
  <2> QED BY <2>3, <2>4
<1>8. \A i, j \in DOMAIN s : <<i, j>> \in ByItem(s) <=> <<f[i], f[j]>> \in ByItem(t)
  <2> TAKE i \in DOMAIN s, j \in DOMAIN s
  <2>1. /\ <<i, j>> \in ByItem(s) <=>
             s[i].item < s[j].item \/ (s[i].item = s[j].item /\ <<i, j>> \in ById(s))
        /\ <<f[i], f[j]>> \in ByItem(t) <=>
             t[f[i]].item < t[f[j]].item \/
             (t[f[i]].item = t[f[j]].item /\ <<f[i], f[j]>> \in ById(t))
    BY <1>3, CandidateOrders
  <2> QED BY <1>3, <1>7, <2>1
<1>9. \A i \in I : g[i] = f[i] /\ a[i] = b[g[i]]
  BY <1>1
<1> HIDE DEF g
<1>10. InOrder(a, I, ById(s)) = InOrder(b, J, ById(t))
  <2>1. \A i, j \in I : <<i, j>> \in ById(s) <=> <<g[i], g[j]>> \in ById(t)
    BY <1>1, <1>7, <1>9
  <2> QED BY <1>2, <1>6, <1>9, <2>1, InOrderSame
<1>11. InOrder(a, I, ByItem(s)) = InOrder(b, J, ByItem(t))
  <2>1. \A i, j \in I : <<i, j>> \in ByItem(s) <=> <<g[i], g[j]>> \in ByItem(t)
    BY <1>1, <1>8, <1>9
  <2> QED BY <1>2, <1>6, <1>9, <2>1, InOrderSame
<1>12. Cardinality(I) = Cardinality(J)
  BY <1>2, <1>6, FS_Bijection DEF ExistsBijection
<1> QED BY <1>10, <1>11, <1>12

LEMMA SameFindings ==
    ASSUME NEW s \in Seq(Candidate), NEW t \in Seq(Candidate), SameCandidates(s, t)
    PROVE  Findings(s) = Findings(t) /\ Outcomes(s) = Outcomes(t)
<1>1. PICK f : Moves(f, s, t)
  BY SameMoves
<1>2. \A i \in DOMAIN s : f[i] \in DOMAIN t /\ s[i] = t[f[i]]
  BY <1>1 DEF Moves
<1>3. InOrder(s, DOMAIN s, ById(s)) = InOrder(t, DOMAIN t, ById(t))
  <2> DEFINE I == DOMAIN s
             J == DOMAIN t
  <2>1. /\ I \in SUBSET DOMAIN s /\ J \in SUBSET DOMAIN t
        /\ \A i \in DOMAIN s : i \in I <=> f[i] \in J
        /\ \A i \in I : s[i] = t[f[i]]
    BY <1>2
  <2>2. Correspond(f, s, t, I, J, s, t)
    BY <1>1, <2>1 DEF Correspond
  <2> HIDE DEF I, J
  <2>3. InOrder(s, I, ById(s)) = InOrder(t, J, ById(t))
    BY <2>2, SameSorted
  <2> QED BY <2>3 DEF I, J
<1>4. {s[i].id : i \in DOMAIN s} = {t[j].id : j \in DOMAIN t}
  BY DEF SameCandidates
<1>5. Findings(s) = Findings(t)
  BY <1>3, <1>4 DEF Findings
<1> DEFINE I == {i \in DOMAIN s : s[i].type = "parent"}
           J == {j \in DOMAIN t : t[j].type = "parent"}
<1>6. \A i \in DOMAIN s : i \in I <=> f[i] \in J
  BY <1>2
<1>7. InOrder(s, I, ById(s)) = InOrder(t, J, ById(t))
  <2>1. I \in SUBSET DOMAIN s /\ J \in SUBSET DOMAIN t /\ \A i \in I : s[i] = t[f[i]]
    BY <1>2
  <2> HIDE DEF I, J
  <2>2. Correspond(f, s, t, I, J, s, t)
    BY <1>1, <1>6, <2>1 DEF Correspond
  <2> QED BY <2>2, SameSorted
<1> QED BY <1>5, <1>7 DEF Outcomes

LEMMA OnlyWith ==
    ASSUME NEW s \in Seq(Candidate), UniqueIds(s), NEW i \in DOMAIN s
    PROVE  LastWith(s, s[i].id) = s[i]
<1>1. {k \in DOMAIN s : s[k].id = s[i].id} = {i} /\ i \in Nat
  BY DEF UniqueIds
<1>2. Max({i}) = i
  BY <1>1 DEF Max
<1> QED BY <1>1, <1>2 DEF LastWith

LEMMA SamePlan ==
    ASSUME NEW s \in Seq(Candidate), NEW t \in Seq(Candidate), SameCandidates(s, t),
           HasOutcome(s), NEW objects
    PROVE  Plan(s, objects) = Plan(t, objects)
<1>1. PICK f : Moves(f, s, t)
  BY SameMoves
<1>2. \A i \in DOMAIN s : f[i] \in DOMAIN t /\ s[i] = t[f[i]]
  BY <1>1 DEF Moves
<1>3. Findings(s) = Findings(t) /\ Outcomes(s) = Outcomes(t)
  BY SameFindings
<1>4. \A i \in DOMAIN s : Decision(s[i], s, objects) = Decision(s[i], t, objects)
  <2> TAKE i \in DOMAIN s
  <2>1. LastWith(s, s[i].id) = s[i]
    BY OnlyWith DEF SameCandidates
  <2>2. LastWith(t, t[f[i]].id) = t[f[i]]
    BY <1>2, OnlyWith DEF SameCandidates
  <2>3. LastWith(t, s[i].id) = s[i]
    BY <1>2, <2>2
  <2> QED BY <1>3, <2>1, <2>3 DEF Decision
<1> DEFINE o == Outcomes(s)[1]
           E == Eligible(s, o, objects)
           F == Eligible(t, o, objects)
<1>5. Decision(o, s, objects) = Decision(o, t, objects)
  <2>1. \E i \in DOMAIN s : o = s[i]
    <3>1. 1 \in 1..Len(Outcomes(s))
      BY OutcomesAre
    <3> QED BY <3>1, OutcomesAre
  <2> QED BY <1>4, <2>1
<1>6. /\ E \in SUBSET DOMAIN s /\ F \in SUBSET DOMAIN t
      /\ \A i \in DOMAIN s : i \in E <=> f[i] \in F
  <2>1. \A i \in DOMAIN s : Decision(s[i], s, objects) = Decision(t[f[i]], t, objects)
    BY <1>2, <1>4
  <2> HIDE DEF o
  <2> QED BY <1>2, <2>1 DEF Eligible
<1> HIDE DEF o, E, F
<1> DEFINE x == InOrder(s, E, ByItem(s))
           n == Allowed(Cardinality(E))
           selected == {x[k].id : k \in 1..n}
           I == {i \in E : s[i].id \in selected}
           J == {j \in F : t[j].id \in selected}
           a == [i \in E |-> LastWith(x, s[i].id)]
           b == [j \in F |-> LastWith(x, t[j].id)]
<1>7. InOrder(t, F, ByItem(t)) = x /\ Cardinality(F) = Cardinality(E)
  <2>1. \A i \in E : s[i] = t[f[i]]
    BY <1>2, <1>6
  <2>2. Correspond(f, s, t, E, F, s, t)
    BY <1>1, <1>6, <2>1 DEF Correspond
  <2> QED BY <2>2, SameSorted
<1> HIDE DEF x, n
<1>8. InOrder(a, I, ByItem(s)) = InOrder(b, J, ByItem(t))
  <2>1. I \in SUBSET DOMAIN s /\ J \in SUBSET DOMAIN t
    BY <1>6
  <2>2. \A i \in DOMAIN s : i \in I <=> f[i] \in J
    <3> HIDE DEF selected
    <3> QED BY <1>2, <1>6
  <2>3. \A i \in I : a[i] = b[f[i]]
    <3> HIDE DEF selected
    <3> QED BY <1>2, <1>6
  <2> HIDE DEF I, J, a, b
  <2>4. Correspond(f, s, t, I, J, a, b)
    BY <1>1, <2>1, <2>2, <2>3 DEF Correspond
  <2> QED BY <2>4, SameSorted
<1>9. Plan(s, objects) = [outcome |-> o, projected |-> Decision(o, s, objects) = "project",
                          steps |-> InOrder(a, I, ByItem(s)),
                          review |-> Cardinality(E) > ReviewThreshold]
  BY DEF Plan, o, E, x, n
<1>10. Plan(t, objects) = [outcome |-> o, projected |-> Decision(o, t, objects) = "project",
                           steps |-> InOrder(b, J, ByItem(t)),
                           review |-> Cardinality(F) > ReviewThreshold]
  BY <1>3, <1>7 DEF Plan, o, F, n
<1> HIDE DEF a, b, I, J
<1> QED BY <1>5, <1>7, <1>8, <1>9, <1>10

Within(c, s) == \E i \in DOMAIN s : s[i] = c

DependsWithin(c, o, s) == Within(c, s) /\ c.type # "parent" /\ o.id \in c.deps

\* What is in a part, in whatever order.
LEMMA PartHas ==
    ASSUME NEW s \in Seq(Candidate), NEW o, NEW c
    PROVE  Within(c, Part(s, o)) <=> c = o \/ DependsWithin(c, o, s)
<1> DEFINE I == {i \in DOMAIN s : s[i].type # "parent" /\ o.id \in s[i].deps}
           R == AsGiven(s)
           t == InOrder(s, I, R)
           q == <<o>> \o t
<1>1. I \in SUBSET DOMAIN s /\ \A i \in I : s[i] \in Candidate
  OBVIOUS
<1>2. IsFiniteSet(I) /\ Orders(R, I)
  BY <1>1, PositionOrder
<1>3. Part(s, o) = q
  BY DEF Part
<1> HIDE DEF R
<1>4. /\ t \in Seq(Candidate) /\ Len(t) \in Nat
      /\ \A k \in 1..Len(t) : \E i \in I : t[k] = s[i]
      /\ \A i \in I : \E k \in 1..Len(t) : t[k] = s[i]
  <2> HIDE DEF I
  <2>1. \A i \in I : s[i] \in Candidate
    BY <1>1
  <2> QED BY <1>2, <2>1, InOrderIs
<1>5. \A i \in I : i \in DOMAIN s /\ s[i].type # "parent" /\ o.id \in s[i].deps
  OBVIOUS
<1>6. \A i \in DOMAIN s : s[i].type # "parent" /\ o.id \in s[i].deps => i \in I
  OBVIOUS
<1> HIDE DEF t, I
<1>7. /\ DOMAIN q = 1..(Len(t) + 1) /\ q[1] = o
      /\ \A k \in 1..Len(t) : k + 1 \in DOMAIN q /\ q[k + 1] = t[k]
      /\ \A k \in 2..(Len(t) + 1) : k - 1 \in 1..Len(t) /\ q[k] = t[k - 1]
  <2>1. <<o>> \in Seq({o} \cup Candidate) /\ t \in Seq({o} \cup Candidate)
    BY <1>4
  <2>2. Len(q) = Len(t) + 1 /\ q \in Seq({o} \cup Candidate)
    BY <1>4, <2>1
  <2>3. q[1] = o /\ \A k \in 1..Len(t) : q[k + 1] = t[k]
    BY <1>4, <2>1
  <2>4. \A k \in 2..(Len(t) + 1) : k - 1 \in 1..Len(t) /\ q[k] = t[k - 1]
    BY <1>4, <2>1
  <2>5. \A k \in 1..Len(t) : k + 1 \in 1..(Len(t) + 1)
    BY <1>4
  <2>6. DOMAIN q = 1..(Len(t) + 1)
    BY <2>2
  <2> HIDE DEF q
  <2> QED BY <2>3, <2>4, <2>5, <2>6
<1> HIDE DEF q
<1>8. 1 \in DOMAIN q /\ \A k \in DOMAIN q : k = 1 \/ k \in 2..(Len(t) + 1)
  BY <1>4, <1>7
<1>9. (\E k \in DOMAIN q : q[k] = c) => c = o \/ \E i \in I : s[i] = c
  <2> SUFFICES ASSUME NEW k \in DOMAIN q, q[k] = c PROVE c = o \/ \E i \in I : s[i] = c
    OBVIOUS
  <2>1. CASE k = 1
    BY <1>7, <2>1
  <2>2. CASE k \in 2..(Len(t) + 1)
    <3>1. k - 1 \in 1..Len(t) /\ t[k - 1] = c
      BY <1>7, <2>2
    <3> QED BY <1>4, <3>1
  <2> QED BY <1>8, <2>1, <2>2
<1>10. c = o \/ (\E i \in I : s[i] = c) => \E k \in DOMAIN q : q[k] = c
  <2>1. ASSUME NEW i \in I, s[i] = c PROVE \E k \in DOMAIN q : q[k] = c
    <3>1. PICK k \in 1..Len(t) : t[k] = s[i]
      BY <1>4
    <3> QED BY <1>7, <2>1, <3>1
  <2> QED BY <1>7, <1>8, <2>1
<1> QED BY <1>3, <1>5, <1>6, <1>9, <1>10 DEF Within, DependsWithin

LEMMA SamePart ==
    ASSUME NEW s \in Seq(Candidate), NEW t \in Seq(Candidate), SameCandidates(s, t),
           NEW o \in DOMAIN s, s[o].type = "parent", NEW objects
    PROVE  Plan(Part(s, s[o]), objects) = Plan(Part(t, s[o]), objects)
<1> DEFINE q == Part(s, s[o])
           r == Part(t, s[o])
<1>1. PICK p \in DOMAIN t : s[o] = t[p]
  BY DEF SameCandidates
<1>2. UniqueIds(s) /\ UniqueIds(t)
  BY DEF SameCandidates
<1>3. q \in Seq(Candidate) /\ HasOutcome(q) /\ UniqueIds(q)
  BY <1>2, PartIs
<1>4. r \in Seq(Candidate) /\ UniqueIds(r)
  <2>1. Part(t, t[p]) \in Seq(Candidate) /\ UniqueIds(Part(t, t[p]))
    BY <1>1, <1>2, PartIs
  <2> QED BY <1>1, <2>1
<1>5. \A c : Within(c, q) <=> Within(c, r)
  <2> TAKE c
  <2>1. Within(c, s) <=> Within(c, t)
    <3>1. Within(c, s) => Within(c, t)
      BY DEF SameCandidates, Within
    <3>2. Within(c, t) => Within(c, s)
      BY DEF SameCandidates, Within
    <3> QED BY <3>1, <3>2
  <2>2. s \in Seq(Candidate) /\ t \in Seq(Candidate)
    OBVIOUS
  <2> HIDE DEF q, r
  <2>3. Within(c, q) <=> c = s[o] \/ DependsWithin(c, s[o], s)
    BY <2>2, PartHas DEF q
  <2>4. Within(c, r) <=> c = s[o] \/ DependsWithin(c, s[o], t)
    BY <2>2, PartHas DEF r
  <2> QED BY <2>1, <2>3, <2>4 DEF DependsWithin
<1> HIDE DEF q, r
<1>6. SameCandidates(q, r)
  BY <1>3, <1>4, <1>5 DEF SameCandidates, Within
<1>7. Plan(q, objects) = Plan(r, objects)
  BY <1>3, <1>4, <1>6, SamePlan
<1> QED BY <1>7 DEF q, r

LEMMA SamePlans ==
    ASSUME NEW s \in Seq(Candidate), NEW t \in Seq(Candidate), SameCandidates(s, t),
           HasOutcome(s), NEW objects
    PROVE  Plans(s, objects) = Plans(t, objects)
<1> DEFINE outcomes == Outcomes(s)
           numbered(u) == [n \in DOMAIN outcomes |->
                              [number |-> n, plan |-> Plan(Part(u, outcomes[n]), objects)]]
<1>1. Outcomes(t) = outcomes
  BY SameFindings
<1>2. Plan(s, objects) = Plan(t, objects)
  BY SamePlan
<1>3. \A n \in DOMAIN outcomes :
        Plan(Part(s, outcomes[n]), objects) = Plan(Part(t, outcomes[n]), objects)
  <2> TAKE n \in DOMAIN outcomes
  <2>1. PICK o \in DOMAIN s : outcomes[n] = s[o] /\ s[o].type = "parent"
    BY OutcomesAre
  <2> HIDE DEF outcomes
  <2> QED BY <2>1, SamePart
<1> HIDE DEF outcomes
<1>4. numbered(s) = numbered(t)
  BY <1>3
<1> DEFINE I(u) == {n \in DOMAIN outcomes : /\ Findings(outcomes)[outcomes[n].id] = "new"
                                            /\ numbered(u)[n].plan.projected}
           P(u) == IF Len(outcomes) <= 1
                     THEN <<[number |-> 0, plan |-> Plan(u, objects)]>>
                     ELSE InOrder(numbered(u), I(u), AsGiven(outcomes))
<1>5. Plans(s, objects) = P(s)
  BY DEF Plans, outcomes
<1>6. Plans(t, objects) = P(t)
  BY <1>1 DEF Plans
<1>7. P(s) = P(t)
  BY <1>2, <1>4
<1> QED BY <1>5, <1>6, <1>7

-----------------------------------------------------------------------------
(* The inductive invariant. *)

TaskType ==
    [number : Nat, seq : Nat, title : STRING, objective : STRING, doneWhen : STRING,
     source : Int, under : Nat, state : {"open", "completed"}, by : Nat]

ObjectType ==
    [task : Nat, source : Int, objective : STRING, doneWhen : STRING,
     state : {"open", "completed"}]

Typed ==
    /\ given \in Seq(Candidate) /\ HasOutcome(given)
    /\ index \in SUBSET ObjectType
    /\ plans \in Seq([number : Nat, plan : PlanType, known : SUBSET Nat])
    /\ tasks \in Seq(TaskType)
    /\ run \in [plan : Nat, link : Nat, at : Nat, parent : Nat, children : SUBSET Nat]
    /\ mixed \in BOOLEAN
    /\ changes \in 0..MaxChanges /\ failures \in 0..MaxFailures

\* Evidence and completions change neither which outcomes there are nor their order.
PlansFit == \A p \in DOMAIN plans : Fits(plans[p].number, plans[p].plan, given)

\* A task is of the outcome of the plan that made it, or of one of its steps and under the
\* task of the outcome with its number.
OfPlan(t) ==
    LET plan == plans[t.by].plan
    IN  /\ t.by \in DOMAIN plans /\ t.number = plans[t.by].number
        /\ \/ /\ t.seq = 0 /\ t.under = 0
              /\ t.source = plan.outcome.id
           \/ /\ t.seq \in 1..Len(plan.steps)
              /\ t.source = plan.steps[t.seq].id /\ t.title = plan.steps[t.seq].title
              /\ t.under \in DOMAIN tasks
              /\ tasks[t.under].seq = 0 /\ tasks[t.under].number = t.number

TasksOfPlans == \A n \in DOMAIN tasks : OfPlan(tasks[n])

\* A plan makes one task of each step, and one task has the number of an outcome.
MadeOnce ==
    \A n, m \in DOMAIN tasks :
        /\ tasks[n].number = tasks[m].number /\ tasks[n].seq = tasks[m].seq
        /\ tasks[n].seq = 0 \/ tasks[n].by = tasks[m].by
        => n = m

\* The index was read off the tasks: with a task it lists the outcome's.
IndexOfTasks ==
    \A object \in index :
        /\ object.task \in DOMAIN tasks /\ object.source = tasks[object.task].source
        /\ \E other \in index :
             /\ tasks[other.task].number = tasks[object.task].number
             /\ tasks[other.task].seq = 0

\* A plan that can be carried out was made when no task had its number, as far as the index
\* told.
NoneKnown ==
    \A p \in DOMAIN plans : \A n \in plans[p].known :
        n \in DOMAIN tasks /\ (plans[p].plan.projected => tasks[n].number # plans[p].number)

RunOfPlan ==
    run # Idle =>
        /\ run.plan \in DOMAIN plans /\ plans[run.plan].plan.projected
        /\ run.link # 0 => run.link \in Links(run.plan)
        /\ run.at >= 1 => run.parent \in Links(run.plan)
        /\ run.children \subseteq DOMAIN tasks

\* Without a mixed start, one plan makes all the tasks with one number, and so does the
\* plan that runs.
OneMaker ==
    ~mixed =>
        /\ \A n, m \in DOMAIN tasks : tasks[n].number = tasks[m].number => tasks[n].by = tasks[m].by
        /\ run # Idle => \A n \in DOMAIN tasks :
              tasks[n].number = plans[run.plan].number => tasks[n].by = run.plan

Inv ==
    /\ Typed /\ PlansFit /\ TasksOfPlans /\ MadeOnce /\ IndexOfTasks /\ NoneKnown
    /\ RunOfPlan /\ OneMaker

-----------------------------------------------------------------------------
(* Evidence. *)

\* Candidates that differ in neither identifiers nor types have the same outcomes.
LEMMA SameOutcomes ==
    ASSUME NEW s \in Seq(Candidate), NEW t \in Seq(Candidate), DOMAIN s = DOMAIN t,
           HasOutcome(s),
           \A i \in DOMAIN s : s[i].id = t[i].id /\ s[i].type = t[i].type
    PROVE  /\ HasOutcome(t)
           /\ \A n, plan : Fits(n, plan, s) => Fits(n, plan, t)
<1> DEFINE I == {i \in DOMAIN s : s[i].type = "parent"}
           J == {i \in DOMAIN t : t[i].type = "parent"}
           N == Cardinality(I)
<1>1. I = J
  OBVIOUS
<1>2. ById(s) = ById(t)
  BY DEF ById, AsGiven, Pairs
<1>3. IsFiniteSet(I) /\ Orders(ById(s), I) /\ I \in SUBSET DOMAIN s
  BY PositionOrder, CandidateOrders
<1>4. HasOutcome(t)
  BY DEF HasOutcome
<1>5. UniqueIds(s) <=> UniqueIds(t)
  BY DEF UniqueIds
<1> HIDE DEF I, J, N
<1>6. Outcomes(s) = InOrder(s, I, ById(s)) /\ Outcomes(t) = InOrder(t, I, ById(s))
  BY <1>1, <1>2 DEF Outcomes, I, J
<1>7. Outcomes(s) \in Seq(Candidate) /\ Outcomes(t) \in Seq(Candidate) /\ Len(Outcomes(s)) \in Nat \ {0}
  BY <1>4, OutcomesAre
<1>8. DOMAIN Outcomes(s) = 1..N /\ DOMAIN Outcomes(t) = 1..N
  BY <1>6 DEF InOrder, N
<1>9. Len(Outcomes(s)) = Len(Outcomes(t))
  BY <1>7, <1>8
<1>10. \A k \in 1..N : Outcomes(s)[k].id = Outcomes(t)[k].id
  <2> TAKE k \in 1..N
  <2> DEFINE i == CHOOSE i \in I : Rank(i, I, ById(s)) = k - 1
  <2>1. i \in I
    BY <1>3, RankOnto DEF N
  <2> HIDE DEF i
  <2>2. Outcomes(s)[k] = s[i] /\ Outcomes(t)[k] = t[i]
    BY <1>6 DEF InOrder, N, i
  <2> QED BY <1>3, <2>1, <2>2
<1>11. \A k \in 1..Len(Outcomes(s)) : Outcomes(s)[k].id = Outcomes(t)[k].id
  <2>1. 1..Len(Outcomes(s)) = 1..N
    BY <1>7, <1>8
  <2> QED BY <1>10, <2>1
<1>12. ASSUME NEW n, NEW plan, Fits(n, plan, s) PROVE Fits(n, plan, t)
  <2> DEFINE k == IF n = 0 THEN 1 ELSE n
  <2>1. Numbered(n, s).id = Numbered(n, t).id
    <3>1. k \in 1..Len(Outcomes(s))
      BY <1>7, <1>12 DEF Fits
    <3> HIDE DEF k
    <3>2. Outcomes(s)[k].id = Outcomes(t)[k].id
      BY <1>11, <3>1
    <3> QED BY <3>2 DEF Numbered, k
  <2> QED BY <1>5, <1>9, <1>12, <2>1 DEF Fits
<1> QED BY <1>4, <1>12

LEMMA NewEvidenceKeepsInv ==
    ASSUME Inv, TreeAssumption, NEW i \in DOMAIN given, NewEvidence(i)
    PROVE  Inv'
<1>1. given \in Seq(Candidate) /\ given[i] \in Candidate
  BY DEF Inv, Typed
<1>2. /\ Evidence(given[i]) \in Candidate
      /\ Evidence(given[i]).id = given[i].id /\ Evidence(given[i]).type = given[i].type
  BY <1>1 DEF Evidence, Candidate
<1>3. given' \in Seq(Candidate) /\ DOMAIN given' = DOMAIN given
  BY <1>1, <1>2 DEF NewEvidence
<1>4. \A j \in DOMAIN given : given'[j].id = given[j].id /\ given'[j].type = given[j].type
  BY <1>1, <1>2 DEF NewEvidence
<1>5. HasOutcome(given)' /\ \A n, plan : Fits(n, plan, given) => Fits(n, plan, given')
  <2>1. HasOutcome(given)
    BY DEF Inv, Typed
  <2> QED BY <1>1, <1>3, <1>4, <2>1, SameOutcomes
<1>6. PlansFit'
  BY <1>5 DEF Inv, PlansFit, NewEvidence
<1>7. Typed'
  <2>1. UNCHANGED <<index, plans, tasks, run, mixed, failures>> /\ changes' = changes + 1
    BY DEF NewEvidence
  <2>2. changes' \in 0..MaxChanges
    BY DEF Inv, Typed, NewEvidence, TreeAssumption
  <2> QED BY <1>3, <1>5, <2>1, <2>2 DEF Inv, Typed
<1>8. TasksOfPlans' /\ MadeOnce' /\ IndexOfTasks' /\ NoneKnown' /\ OneMaker'
  <2>1. UNCHANGED <<index, plans, tasks, run, mixed>>
    BY DEF NewEvidence
  <2>2. TasksOfPlans' /\ MadeOnce'
    BY <2>1 DEF Inv, TasksOfPlans, OfPlan, MadeOnce
  <2>3. IndexOfTasks' /\ NoneKnown'
    BY <2>1 DEF Inv, IndexOfTasks, NoneKnown
  <2>4. OneMaker'
    BY <2>1 DEF Inv, OneMaker
  <2> QED BY <2>2, <2>3, <2>4
<1>9. RunOfPlan'
  BY DEF Inv, NewEvidence, RunOfPlan, Links
<1> QED BY <1>6, <1>7, <1>8, <1>9 DEF Inv

-----------------------------------------------------------------------------
(* Tasks. *)

\* What is never changed of a task.
SameTask(t, u) ==
    /\ t.number = u.number /\ t.seq = u.seq /\ t.source = u.source
    /\ t.under = u.under /\ t.by = u.by
    /\ t.seq # 0 => t.title = u.title

AboutTasks == TasksOfPlans /\ MadeOnce /\ IndexOfTasks /\ NoneKnown /\ OneMaker

LEMMA ChangedTasks ==
    ASSUME Inv, UNCHANGED <<index, plans, mixed>>, DOMAIN tasks' = DOMAIN tasks,
           \A n \in DOMAIN tasks : SameTask(tasks'[n], tasks[n]),
           run' # Idle => run # Idle /\ run'.plan = run.plan
    PROVE  AboutTasks' /\ (UNCHANGED run => RunOfPlan')
<1> USE DEF SameTask
<1>1. tasks \in Seq(TaskType) /\ \A n \in DOMAIN tasks : tasks[n] \in TaskType
  BY DEF Inv, Typed
<1>2. TasksOfPlans'
  <2> SUFFICES ASSUME NEW n \in DOMAIN tasks PROVE OfPlan(tasks[n])'
    BY DEF TasksOfPlans
  <2>1. OfPlan(tasks[n])
    BY DEF Inv, TasksOfPlans
  <2>2. CASE tasks[n].seq = 0
    BY <2>1, <2>2 DEF OfPlan
  <2>3. CASE tasks[n].seq # 0
    BY <2>1, <2>3 DEF OfPlan
  <2> QED BY <2>2, <2>3
<1>3. MadeOnce'
  BY DEF Inv, MadeOnce
<1>4. IndexOfTasks'
  BY DEF Inv, IndexOfTasks
<1>5. NoneKnown'
  BY DEF Inv, NoneKnown
<1>6. OneMaker'
  BY DEF Inv, OneMaker
<1>7. UNCHANGED run => RunOfPlan'
  BY DEF Inv, RunOfPlan, Links
<1> QED BY <1>2, <1>3, <1>4, <1>5, <1>6, <1>7 DEF AboutTasks

LEMMA CompleteKeepsInv ==
    ASSUME Inv, TreeAssumption, NEW n \in Open, Complete(n)
    PROVE  Inv'
<1> DEFINE done == {n} \cup Under(n)
           sources == {tasks[m].source : m \in done}
<1>1. given \in Seq(Candidate) /\ \A i \in DOMAIN given : given[i] \in Candidate
  BY DEF Inv, Typed
<1>2. tasks \in Seq(TaskType) /\ \A m \in DOMAIN tasks : tasks[m] \in TaskType
  BY DEF Inv, Typed
<1>3. tasks' = [m \in DOMAIN tasks |->
                  IF m \in done THEN [tasks[m] EXCEPT !.state = "completed"] ELSE tasks[m]]
  BY DEF Complete
<1>4. given' = [i \in DOMAIN given |->
                  IF given[i].id \in sources THEN [given[i] EXCEPT !.complete = TRUE]
                                             ELSE given[i]]
  BY DEF Complete
<1> HIDE DEF done, sources
<1>5. given' \in Seq(Candidate) /\ DOMAIN given' = DOMAIN given
      /\ \A i \in DOMAIN given : given'[i].id = given[i].id /\ given'[i].type = given[i].type
  <2>1. \A i \in DOMAIN given : /\ given'[i] \in Candidate
                                /\ given'[i].id = given[i].id /\ given'[i].type = given[i].type
    <3>1. ASSUME NEW c \in Candidate
          PROVE  LET d == [c EXCEPT !.complete = TRUE]
                 IN  d \in Candidate /\ d.id = c.id /\ d.type = c.type
      BY DEF Candidate
    <3> QED BY <1>1, <1>4, <3>1
  <2> QED BY <1>1, <1>4, <2>1
<1>6. tasks' \in Seq(TaskType) /\ DOMAIN tasks' = DOMAIN tasks
      /\ \A m \in DOMAIN tasks : SameTask(tasks'[m], tasks[m])
  <2>1. \A m \in DOMAIN tasks : tasks'[m] \in TaskType /\ SameTask(tasks'[m], tasks[m])
    BY <1>2, <1>3 DEF TaskType, SameTask
  <2> QED BY <1>2, <1>3, <2>1
<1>7. HasOutcome(given)' /\ \A k, plan : Fits(k, plan, given) => Fits(k, plan, given')
  <2>1. HasOutcome(given)
    BY DEF Inv, Typed
  <2> QED BY <1>1, <1>5, <2>1, SameOutcomes
<1>8. PlansFit'
  BY <1>7 DEF Inv, PlansFit, Complete
<1>9. Typed'
  BY <1>5, <1>6, <1>7 DEF Inv, Typed, Complete, TreeAssumption
<1>10. AboutTasks' /\ RunOfPlan'
  BY <1>6, ChangedTasks DEF Complete
<1> QED BY <1>8, <1>9, <1>10 DEF Inv, AboutTasks

\* A task for the plan that runs: its outcome's, or one of a step.
OfRun(t) == t \in TaskType /\ t.by = run.plan /\ OfPlan(t)

LEMMA NewTask ==
    ASSUME Inv, run # Idle, UNCHANGED <<index, plans, mixed>>,
           NEW t, OfRun(t), SameKey(t) = {}, tasks' = Append(tasks, t),
           run' # Idle => run'.plan = run.plan
    PROVE  AboutTasks' /\ tasks' \in Seq(TaskType)
<1> DEFINE N == Len(tasks)
<1>1. tasks \in Seq(TaskType) /\ \A n \in DOMAIN tasks : tasks[n] \in TaskType
  BY DEF Inv, Typed
<1>2. t \in TaskType /\ OfPlan(t) /\ t.by = run.plan
  BY DEF OfRun
<1>3. /\ tasks' \in Seq(TaskType) /\ N \in Nat
      /\ DOMAIN tasks = 1..N /\ DOMAIN tasks' = 1..(N + 1)
      /\ \A n \in 1..N : tasks'[n] = tasks[n]
      /\ tasks'[N + 1] = t
  BY <1>1, <1>2
<1>4. \A n \in DOMAIN tasks' : n = N + 1 \/ n \in DOMAIN tasks
  BY <1>3
<1>5. \A n \in DOMAIN tasks : n \in DOMAIN tasks' /\ tasks'[n] = tasks[n] /\ n # N + 1
  BY <1>3
<1> HIDE DEF N
<1>6. t.number = plans[run.plan].number
  BY <1>2 DEF OfPlan
<1>7. TasksOfPlans'
  <2>1. ASSUME NEW n \in DOMAIN tasks PROVE OfPlan(tasks[n])'
    BY <1>5 DEF Inv, TasksOfPlans, OfPlan
  <2>2. ASSUME NEW n, n = N + 1 PROVE OfPlan(tasks[n])'
    <3>1. tasks'[n] = t
      BY <1>3, <2>2
    <3> QED BY <1>2, <1>5, <3>1, SMTT(30) DEF OfPlan
  <2> SUFFICES ASSUME NEW n \in DOMAIN tasks' PROVE OfPlan(tasks[n])'
    BY DEF TasksOfPlans
  <2> QED BY <1>4, <2>1, <2>2
<1>8. MadeOnce'
  <2>1. ASSUME NEW n \in DOMAIN tasks,
               tasks[n].number = t.number, tasks[n].seq = t.seq,
               tasks[n].seq = 0 \/ tasks[n].by = t.by
        PROVE  FALSE
    <3>1. t.seq = 0 \/ tasks[n].title = t.title
      <4>1. OfPlan(tasks[n])
        BY DEF Inv, TasksOfPlans
      <4> QED BY <1>2, <2>1, <4>1 DEF OfPlan
    <3> QED BY <2>1, <3>1 DEF SameKey
  <2> QED BY <1>3, <1>4, <1>5, <2>1 DEF Inv, MadeOnce
<1>9. IndexOfTasks'
  <2> SUFFICES ASSUME NEW object \in index
               PROVE  /\ object.task \in DOMAIN tasks'
                      /\ object.source = tasks'[object.task].source
                      /\ \E other \in index :
                           /\ tasks'[other.task].number = tasks'[object.task].number
                           /\ tasks'[other.task].seq = 0
    BY DEF IndexOfTasks
  <2>1. object.task \in DOMAIN tasks /\ object.source = tasks[object.task].source
    BY DEF Inv, IndexOfTasks
  <2>2. PICK other \in index : /\ tasks[other.task].number = tasks[object.task].number
                              /\ tasks[other.task].seq = 0
    BY DEF Inv, IndexOfTasks
  <2>3. other.task \in DOMAIN tasks
    BY DEF Inv, IndexOfTasks
  <2> QED BY <1>5, <2>1, <2>2, <2>3
<1>10. NoneKnown'
  BY <1>5 DEF Inv, NoneKnown
<1>11. OneMaker'
  <2> SUFFICES ASSUME ~mixed
               PROVE  /\ \A n, m \in DOMAIN tasks' :
                           tasks'[n].number = tasks'[m].number => tasks'[n].by = tasks'[m].by
                      /\ run' # Idle => \A n \in DOMAIN tasks' :
                           tasks'[n].number = plans[run'.plan].number => tasks'[n].by = run'.plan
    BY DEF OneMaker
  <2>1. /\ \A n, m \in DOMAIN tasks : tasks[n].number = tasks[m].number => tasks[n].by = tasks[m].by
        /\ \A n \in DOMAIN tasks :
              tasks[n].number = plans[run.plan].number => tasks[n].by = run.plan
    BY DEF Inv, OneMaker
  <2> QED BY <1>2, <1>3, <1>4, <1>5, <1>6, <2>1
<1> QED BY <1>3, <1>7, <1>8, <1>9, <1>10, <1>11 DEF AboutTasks

\* Creating or updating keeps what is said of tasks, and answers with a task of the number
\* and the place asked for.
LEMMA UpsertedTask ==
    ASSUME Inv, run # Idle, UNCHANGED <<index, plans, mixed>>,
           NEW t, OfRun(t), NEW found \in Nat,
           found # 0 => /\ found \in DOMAIN tasks /\ tasks[found].seq = t.seq
                        /\ t.seq = 0 \/ tasks[found].title = t.title
                        /\ t.seq = 0 => tasks[found].number = t.number,
           tasks' = Upserted(found, t),
           run' # Idle => run'.plan = run.plan
    PROVE  /\ AboutTasks' /\ tasks' \in Seq(TaskType)
           /\ \A n \in DOMAIN tasks : n \in DOMAIN tasks' /\ SameTask(tasks'[n], tasks[n])
           /\ Answer(found, t) \in DOMAIN tasks'
           /\ t.seq = 0 => LET answer == tasks'[Answer(found, t)]
                           IN  answer.seq = 0 /\ answer.number = t.number
<1>1. tasks \in Seq(TaskType) /\ \A n \in DOMAIN tasks : tasks[n] \in TaskType
  BY DEF Inv, Typed
<1>2. t \in TaskType
  BY DEF OfRun
<1>3. CASE found # 0
  <2> DEFINE new == [tasks[found] EXCEPT !.title = t.title, !.objective = t.objective,
                                         !.doneWhen = t.doneWhen]
  <2>1. tasks' = [tasks EXCEPT ![found] = new]
    BY <1>1, <1>3 DEF Upserted
  <2>2. Answer(found, t) = found
    BY <1>3 DEF Answer
  <2>3. new \in TaskType /\ SameTask(new, tasks[found])
    BY <1>1, <1>2, <1>3 DEF TaskType, SameTask
  <2> HIDE DEF new
  <2>4. tasks' \in Seq(TaskType) /\ DOMAIN tasks' = DOMAIN tasks
        /\ \A n \in DOMAIN tasks : tasks'[n] = IF n = found THEN new ELSE tasks[n]
    BY <1>1, <1>3, <2>1, <2>3
  <2>5. \A n \in DOMAIN tasks : SameTask(tasks'[n], tasks[n])
    BY <2>3, <2>4 DEF SameTask
  <2>6. AboutTasks'
    BY <2>4, <2>5, ChangedTasks
  <2>7. tasks'[found].seq = tasks[found].seq /\ tasks'[found].number = tasks[found].number
    BY <1>3, <2>5 DEF SameTask
  <2> QED BY <1>3, <2>2, <2>4, <2>5, <2>6, <2>7
<1>4. CASE found = 0 /\ SameKey(t) # {}
  <2>1. tasks' = tasks
    BY <1>4 DEF Upserted
  <2>2. Answer(found, t) = CHOOSE n \in SameKey(t) : TRUE
    BY <1>4 DEF Answer
  <2>3. Answer(found, t) \in SameKey(t)
    BY <1>4, <2>2
  <2>4. /\ Answer(found, t) \in DOMAIN tasks
        /\ tasks[Answer(found, t)].seq = t.seq /\ tasks[Answer(found, t)].number = t.number
    BY <2>3 DEF SameKey
  <2>5. \A n \in DOMAIN tasks : SameTask(tasks'[n], tasks[n])
    BY <2>1 DEF SameTask
  <2>6. AboutTasks'
    BY <2>1, <2>5, ChangedTasks
  <2> QED BY <1>1, <2>1, <2>4, <2>5, <2>6
<1>5. CASE found = 0 /\ SameKey(t) = {}
  <2>1. tasks' = Append(tasks, t)
    BY <1>5 DEF Upserted
  <2>2. Answer(found, t) = Len(tasks) + 1
    BY <1>5 DEF Answer
  <2>3. AboutTasks' /\ tasks' \in Seq(TaskType)
    BY <1>5, <2>1, NewTask
  <2>4. /\ Len(tasks) + 1 \in DOMAIN tasks' /\ tasks'[Len(tasks) + 1] = t
        /\ \A n \in DOMAIN tasks : n \in DOMAIN tasks' /\ tasks'[n] = tasks[n]
    BY <1>1, <1>2, <2>1
  <2> QED BY <2>2, <2>3, <2>4 DEF SameTask
<1> QED BY <1>3, <1>4, <1>5

-----------------------------------------------------------------------------
(* The other actions. *)

LEMMA ReadIndexKeepsInv ==
    ASSUME Inv, ReadIndex
    PROVE  Inv'
<1> DEFINE Object(n) == [task |-> n, source |-> tasks[n].source, objective |-> tasks[n].objective,
                         doneWhen |-> tasks[n].doneWhen, state |-> tasks[n].state]
<1>1. index' = {Object(n) : n \in DOMAIN tasks}
  BY DEF ReadIndex
<1>2. \A n \in DOMAIN tasks : /\ n \in Nat /\ tasks[n] \in TaskType
                              /\ Object(n) \in ObjectType
                              /\ Object(n).task = n /\ Object(n).source = tasks[n].source
  <2>1. \A n \in DOMAIN tasks : n \in Nat /\ tasks[n] \in TaskType
    BY DEF Inv, Typed
  <2> QED BY <2>1 DEF TaskType, ObjectType
<1> HIDE DEF Object
<1>3. IndexOfTasks'
  <2> SUFFICES ASSUME NEW object \in index'
               PROVE  /\ object.task \in DOMAIN tasks
                      /\ object.source = tasks[object.task].source
                      /\ \E other \in index' :
                           /\ tasks[other.task].number = tasks[object.task].number
                           /\ tasks[other.task].seq = 0
    BY DEF IndexOfTasks, ReadIndex
  <2> PICK n \in DOMAIN tasks : object = Object(n)
    BY <1>1
  <2>1. \E m \in DOMAIN tasks : tasks[m].number = tasks[n].number /\ tasks[m].seq = 0
    BY DEF Inv, TasksOfPlans, OfPlan
  <2>2. PICK m \in DOMAIN tasks : tasks[m].number = tasks[n].number /\ tasks[m].seq = 0
    BY <2>1
  <2>3. Object(m) \in index' /\ Object(m).task = m
    BY <1>1, <1>2
  <2> QED BY <1>2, <2>2, <2>3
<1>4. Typed'
  <2>1. index' \in SUBSET ObjectType
    BY <1>1, <1>2
  <2> QED BY <2>1 DEF Inv, Typed, ReadIndex
<1>5. PlansFit' /\ TasksOfPlans' /\ MadeOnce' /\ NoneKnown' /\ OneMaker' /\ RunOfPlan'
  <2>1. UNCHANGED <<given, plans, tasks, run, mixed>>
    BY DEF ReadIndex
  <2>2. PlansFit' /\ TasksOfPlans' /\ MadeOnce'
    BY <2>1 DEF Inv, PlansFit, TasksOfPlans, OfPlan, MadeOnce
  <2>3. NoneKnown' /\ OneMaker'
    BY <2>1 DEF Inv, NoneKnown, OneMaker
  <2>4. RunOfPlan'
    BY <2>1 DEF Inv, RunOfPlan, Links
  <2> QED BY <2>2, <2>3, <2>4
<1> QED BY <1>3, <1>4, <1>5 DEF Inv

LEMMA MakePlansKeepsInv ==
    ASSUME Inv, PlanningAssumption, MakePlans
    PROVE  Inv'
<1> DEFINE made == Plans(given, index)
           known == {object.task : object \in index}
           added == [k \in DOMAIN made |->
                       [number |-> made[k].number, plan |-> made[k].plan, known |-> known]]
           Plain == [number : Nat, plan : PlanType]
           Entry == [number : Nat, plan : PlanType, known : SUBSET Nat]
           N == Len(plans)
<1>1. plans' = plans \o added
  BY DEF MakePlans
<1>2. given \in Seq(Candidate) /\ HasOutcome(given) /\ plans \in Seq(Entry)
  BY DEF Inv, Typed
<1>3. /\ made \in Seq(Plain)
      /\ \A k \in 1..Len(made) :
           /\ Fits(made[k].number, made[k].plan, given)
           /\ made[k].plan.projected => \A object \in index : object.source # made[k].plan.outcome.id
  BY <1>2, PlansAre
<1>4. known \subseteq DOMAIN tasks /\ known \in SUBSET Nat
  <2>1. DOMAIN tasks \subseteq Nat
    BY DEF Inv, Typed
  <2> QED BY <2>1 DEF Inv, IndexOfTasks
<1> HIDE DEF made
<1>5. added \in Seq(Entry) /\ Len(added) = Len(made) /\ Len(made) \in Nat
  <2> HIDE DEF known, Plain
  <2>1. \A k \in DOMAIN made : added[k] \in Entry
    <3> TAKE k \in DOMAIN made
    <3>1. made[k] \in Plain
      BY <1>3
    <3> QED BY <1>4, <3>1 DEF Plain
  <2> HIDE DEF Entry
  <2> QED BY <1>3, <2>1
<1>6. \A k \in 1..Len(made) : /\ added[k].number = made[k].number /\ added[k].plan = made[k].plan
                              /\ added[k].known = known
  BY <1>3
<1> HIDE DEF added, Plain, Entry
<1>7. /\ plans' \in Seq(Entry) /\ N \in Nat /\ DOMAIN plans = 1..N
      /\ \A p \in DOMAIN plans : p \in DOMAIN plans' /\ plans'[p] = plans[p]
      /\ \A p \in DOMAIN plans' \ DOMAIN plans :
           p - N \in 1..Len(made) /\ plans'[p] = added[p - N]
  BY <1>1, <1>2, <1>5
<1>8. PlansFit'
  <2> SUFFICES ASSUME NEW p \in DOMAIN plans'
               PROVE  Fits(plans'[p].number, plans'[p].plan, given)
    BY DEF PlansFit, MakePlans
  <2>1. CASE p \in DOMAIN plans
    BY <1>7, <2>1 DEF Inv, PlansFit
  <2>2. CASE p \notin DOMAIN plans
    BY <1>3, <1>6, <1>7, <2>2
  <2> QED BY <2>1, <2>2
<1>9. NoneKnown'
  <2> SUFFICES ASSUME NEW p \in DOMAIN plans', NEW n \in plans'[p].known
               PROVE  n \in DOMAIN tasks
                      /\ (plans'[p].plan.projected => tasks[n].number # plans'[p].number)
    BY DEF NoneKnown, MakePlans
  <2>1. CASE p \in DOMAIN plans
    BY <1>7, <2>1 DEF Inv, NoneKnown
  <2>2. CASE p \notin DOMAIN plans
    <3> DEFINE k == p - N
    <3>1. k \in 1..Len(made) /\ plans'[p] = added[k]
      BY <1>7, <2>2
    <3> HIDE DEF k
    <3>2. /\ plans'[p].number = made[k].number /\ plans'[p].plan = made[k].plan
          /\ n \in known
      BY <1>6, <3>1
    <3>3. n \in DOMAIN tasks
      BY <1>4, <3>2
    <3>4. ASSUME made[k].plan.projected, tasks[n].number = made[k].number
          PROVE  FALSE
      <4>1. PICK object \in index : object.task = n
        BY <3>2
      <4>2. PICK other \in index : /\ tasks[other.task].number = made[k].number
                                   /\ tasks[other.task].seq = 0
        BY <3>4, <4>1 DEF Inv, IndexOfTasks
      <4> DEFINE m == other.task
      <4>3. m \in DOMAIN tasks /\ other.source = tasks[m].source
        BY DEF Inv, IndexOfTasks
      <4>4. /\ tasks[m].by \in DOMAIN plans /\ plans[tasks[m].by].number = made[k].number
            /\ tasks[m].source = plans[tasks[m].by].plan.outcome.id
        BY <4>2, <4>3 DEF Inv, TasksOfPlans, OfPlan
      <4>5. tasks[m].source = Numbered(made[k].number, given).id
        BY <4>4 DEF Inv, PlansFit, Fits
      <4>6. made[k].plan.outcome.id = Numbered(made[k].number, given).id
        BY <1>3, <3>1 DEF Fits
      <4>7. other.source # made[k].plan.outcome.id
        BY <1>3, <3>1, <3>4
      <4> QED BY <4>3, <4>5, <4>6, <4>7
    <3> QED BY <3>2, <3>3, <3>4
  <2> QED BY <2>1, <2>2
<1>10. TasksOfPlans'
  <2> SUFFICES ASSUME NEW n \in DOMAIN tasks PROVE OfPlan(tasks[n])'
    BY DEF TasksOfPlans, MakePlans
  <2>1. OfPlan(tasks[n]) /\ tasks' = tasks
    BY DEF Inv, TasksOfPlans, MakePlans
  <2> QED BY <1>7, <2>1 DEF OfPlan
<1>11. MadeOnce' /\ IndexOfTasks'
  BY DEF Inv, MadeOnce, IndexOfTasks, MakePlans
<1>12. RunOfPlan' /\ OneMaker'
  <2>1. RunOfPlan'
    BY <1>7 DEF Inv, RunOfPlan, Links, MakePlans
  <2>2. UNCHANGED <<tasks, run, mixed>>
    BY DEF MakePlans
  <2>3. run # Idle => plans'[run.plan] = plans[run.plan]
    BY <1>7 DEF Inv, RunOfPlan
  <2>4. OneMaker'
    BY <2>2, <2>3 DEF Inv, OneMaker
  <2> QED BY <2>1, <2>4
<1>13. Typed'
  BY <1>7 DEF Inv, Typed, MakePlans, Entry
<1> QED BY <1>8, <1>9, <1>10, <1>11, <1>12, <1>13 DEF Inv

LEMMA StartKeepsInv ==
    ASSUME Inv, NEW p \in DOMAIN plans, NEW link \in Links(p) \cup {0}, Start(p, link)
    PROVE  Inv'
<1>1. /\ run = Idle /\ plans[p].plan.projected
      /\ run' = [plan |-> p, link |-> link, at |-> 0, parent |-> 0, children |-> {}]
      /\ mixed' = (mixed \/ Unknown(p) # {})
      /\ UNCHANGED <<given, index, plans, tasks, changes, failures>>
  BY DEF Start, Idle
<1>2. p \in Nat /\ link \in Nat /\ Links(p) \subseteq DOMAIN tasks
  BY DEF Inv, Typed, Links
<1>3. Typed'
  BY <1>1, <1>2 DEF Inv, Typed
<1>4. PlansFit' /\ TasksOfPlans' /\ MadeOnce' /\ IndexOfTasks' /\ NoneKnown'
  <2>1. PlansFit' /\ TasksOfPlans' /\ MadeOnce'
    BY <1>1 DEF Inv, PlansFit, TasksOfPlans, OfPlan, MadeOnce
  <2>2. IndexOfTasks' /\ NoneKnown'
    BY <1>1 DEF Inv, IndexOfTasks, NoneKnown
  <2> QED BY <2>1, <2>2
<1>5. RunOfPlan'
  BY <1>1, <1>2 DEF RunOfPlan, Links
<1>6. OneMaker'
  <2> SUFFICES ASSUME ~mixed'
               PROVE  /\ \A n, m \in DOMAIN tasks :
                           tasks[n].number = tasks[m].number => tasks[n].by = tasks[m].by
                      /\ \A n \in DOMAIN tasks :
                           tasks[n].number = plans[p].number => tasks[n].by = p
    BY <1>1 DEF OneMaker
  <2>1. ~mixed /\ Unknown(p) = {}
    BY <1>1 DEF Inv, Typed
  <2>2. ASSUME NEW n \in DOMAIN tasks, tasks[n].number = plans[p].number, tasks[n].by # p
        PROVE  FALSE
    <3>1. n \in plans[p].known
      BY <2>1, <2>2 DEF Unknown
    <3> QED BY <1>1, <2>2, <3>1 DEF Inv, NoneKnown
  <2> QED BY <2>1, <2>2 DEF Inv, OneMaker
<1> QED BY <1>3, <1>4, <1>5, <1>6 DEF Inv

\* What changes the run only.
LEMMA RunKeepsInv ==
    ASSUME Inv, UNCHANGED <<given, index, plans, tasks, mixed, changes>>,
           failures' \in 0..MaxFailures,
           run' \in [plan : Nat, link : Nat, at : Nat, parent : Nat, children : SUBSET Nat],
           run' # Idle =>
               /\ run # Idle /\ run'.plan = run.plan /\ run'.link = run.link
               /\ run'.at >= 1 => run.at >= 1 /\ run'.parent = run.parent
               /\ run'.children \subseteq DOMAIN tasks
    PROVE  Inv'
<1>1. Typed'
  BY DEF Inv, Typed
<1>2. PlansFit' /\ TasksOfPlans' /\ MadeOnce' /\ IndexOfTasks' /\ NoneKnown'
  <2>1. PlansFit' /\ TasksOfPlans' /\ MadeOnce'
    BY DEF Inv, PlansFit, TasksOfPlans, OfPlan, MadeOnce
  <2>2. IndexOfTasks' /\ NoneKnown'
    BY DEF Inv, IndexOfTasks, NoneKnown
  <2> QED BY <2>1, <2>2
<1>3. RunOfPlan'
  BY DEF Inv, RunOfPlan, Links
<1>4. OneMaker'
  BY DEF Inv, OneMaker
<1> QED BY <1>1, <1>2, <1>3, <1>4 DEF Inv

LEMMA IdleTyped ==
    Idle \in [plan : Nat, link : Nat, at : Nat, parent : Nat, children : SUBSET Nat]
BY DEF Idle

LEMMA ReadChildrenKeepsInv ==
    ASSUME Inv, ReadChildren
    PROVE  Inv'
<1>1. /\ run.at = 1 /\ run' = [run EXCEPT !.children = Under(run.parent) \cap Open, !.at = 2]
      /\ UNCHANGED <<given, index, plans, tasks, mixed, changes, failures>>
  BY DEF ReadChildren
<1>2. /\ run \in [plan : Nat, link : Nat, at : Nat, parent : Nat, children : SUBSET Nat]
      /\ failures \in 0..MaxFailures /\ DOMAIN tasks \in SUBSET Nat
  BY DEF Inv, Typed
<1>3. Open \subseteq DOMAIN tasks
  BY DEF Open
<1>4. run # Idle
  BY <1>1 DEF Idle
<1>5. /\ run' \in [plan : Nat, link : Nat, at : Nat, parent : Nat, children : SUBSET Nat]
      /\ run'.plan = run.plan /\ run'.link = run.link /\ run'.parent = run.parent
      /\ run'.children \subseteq DOMAIN tasks
  BY <1>1, <1>2, <1>3
<1> QED BY <1>1, <1>2, <1>4, <1>5, RunKeepsInv

LEMMA VerifyTreeKeepsInv ==
    ASSUME Inv, VerifyTree
    PROVE  Inv'
BY IdleTyped, RunKeepsInv DEF VerifyTree, Inv, Typed

LEMMA FailKeepsInv ==
    ASSUME Inv, TreeAssumption, Fail
    PROVE  Inv'
<1>1. failures' \in 0..MaxFailures
  BY DEF Fail, Inv, Typed, TreeAssumption
<1> QED BY <1>1, IdleTyped, RunKeepsInv DEF Fail

\* The operations that create or update a task.
LEMMA UpsertKeepsInv ==
    ASSUME Inv, run # Idle, UNCHANGED <<given, index, plans, mixed, changes, failures>>,
           NEW t, OfRun(t), NEW found \in Nat,
           found # 0 => /\ found \in DOMAIN tasks /\ tasks[found].seq = t.seq
                        /\ t.seq = 0 \/ tasks[found].title = t.title
                        /\ t.seq = 0 => tasks[found].number = t.number,
           tasks' = Upserted(found, t),
           run' # Idle => /\ run' = [run EXCEPT !.parent = run'.parent, !.at = run'.at]
                          /\ run'.at \in Nat
                          /\ \/ t.seq = 0 /\ run'.parent = Answer(found, t)
                             \/ run.at >= 1 /\ run'.parent = run.parent
    PROVE  Inv'
<1>1. /\ run \in [plan : Nat, link : Nat, at : Nat, parent : Nat, children : SUBSET Nat]
      /\ DOMAIN tasks \in SUBSET Nat
  BY DEF Inv, Typed
<1>2. run' # Idle => run'.plan = run.plan /\ run'.link = run.link /\ run'.children = run.children
  BY <1>1
<1>3. /\ AboutTasks' /\ tasks' \in Seq(TaskType)
      /\ \A n \in DOMAIN tasks : n \in DOMAIN tasks' /\ SameTask(tasks'[n], tasks[n])
      /\ Answer(found, t) \in DOMAIN tasks'
      /\ t.seq = 0 => LET answer == tasks'[Answer(found, t)]
                      IN  answer.seq = 0 /\ answer.number = t.number
  BY <1>2, UpsertedTask
<1>4. t.number = plans[run.plan].number
  BY DEF OfRun, OfPlan
<1>5. run' # Idle => run'.parent \in Links(run.plan)'
  <2> SUFFICES ASSUME run' # Idle PROVE run'.parent \in Links(run.plan)'
    OBVIOUS
  <2>1. CASE t.seq = 0 /\ run'.parent = Answer(found, t)
    BY <1>2, <1>3, <1>4, <2>1 DEF Links
  <2>2. CASE run.at >= 1 /\ run'.parent = run.parent
    <3>1. run.parent \in Links(run.plan)
      BY <2>2 DEF Inv, RunOfPlan
    <3> QED BY <1>2, <1>3, <2>2, <3>1 DEF Links, SameTask
  <2> QED BY <2>1, <2>2
<1>6. RunOfPlan'
  <2> SUFFICES ASSUME run' # Idle
               PROVE  /\ run.plan \in DOMAIN plans /\ plans[run.plan].plan.projected
                      /\ run.link # 0 => run.link \in Links(run.plan)'
                      /\ run.children \subseteq DOMAIN tasks'
    BY <1>2, <1>5 DEF RunOfPlan
  <2>1. run.link # 0 => run.link \in Links(run.plan)
    BY DEF Inv, RunOfPlan
  <2>2. run.link # 0 => run.link \in Links(run.plan)'
    BY <1>2, <1>3, <2>1 DEF Links, SameTask
  <2> QED BY <1>3, <2>2 DEF Inv, RunOfPlan
<1>7. Typed'
  <2>1. run' \in [plan : Nat, link : Nat, at : Nat, parent : Nat, children : SUBSET Nat]
    <3>1. CASE run' = Idle
      BY <3>1, IdleTyped
    <3>2. CASE run' # Idle
      <4>1. run'.parent \in Nat
        BY <1>3, <1>5, <3>2 DEF Links
      <4> QED BY <1>1, <3>2, <4>1
    <3> QED BY <3>1, <3>2
  <2> QED BY <1>3, <2>1 DEF Inv, Typed
<1>8. PlansFit'
  BY DEF Inv, PlansFit
<1> QED BY <1>3, <1>6, <1>7, <1>8 DEF Inv, AboutTasks

\* What is kept of a plan.
LEMMA PlanKept ==
    ASSUME Inv, NEW p \in DOMAIN plans
    PROVE  /\ p \in Nat /\ plans[p].number \in Nat
           /\ plans[p].plan.outcome \in Candidate
           /\ plans[p].plan.steps \in Seq(Candidate) /\ Len(plans[p].plan.steps) \in Nat
<1> DEFINE Kept == [number : Nat, plan : PlanType, known : SUBSET Nat]
<1>1. plans \in Seq(Kept)
  BY DEF Inv, Typed
<1>2. p \in Nat /\ plans[p] \in Kept
  <2> HIDE DEF Kept
  <2>1. DOMAIN plans = 1..Len(plans) /\ Len(plans) \in Nat
    BY <1>1
  <2> QED BY <1>1, <2>1
<1>3. plans[p].number \in Nat /\ plans[p].plan \in PlanType
  BY <1>2
<1>4. plans[p].plan.outcome \in Candidate /\ plans[p].plan.steps \in Seq(Candidate)
  BY <1>3 DEF PlanType
<1> QED BY <1>2, <1>3, <1>4

LEMMA TaskOfRun ==
    ASSUME Inv, run # Idle, NEW c \in Candidate, NEW seq \in Nat, NEW under \in Nat,
           LET plan == plans[run.plan].plan
           IN  \/ seq = 0 /\ under = 0 /\ c = plan.outcome
               \/ seq \in 1..Len(plan.steps) /\ c = plan.steps[seq] /\ under \in Links(run.plan)
    PROVE  OfRun(Task(c, seq, under)) /\ Task(c, seq, under).seq = seq
           /\ Task(c, seq, under).title = c.title
<1>1. /\ run.plan \in DOMAIN plans /\ run.plan \in Nat
      /\ plans[run.plan].number \in Nat
  <2>1. run.plan \in DOMAIN plans
    BY DEF Inv, RunOfPlan
  <2> QED BY <2>1, PlanKept
<1>2. c.id \in Int /\ c.title \in STRING /\ c.objective \in STRING /\ c.doneWhen \in STRING
  BY DEF Candidate
<1>3. Task(c, seq, under) \in TaskType
  BY <1>1, <1>2 DEF Task, TaskType
<1>4. OfPlan(Task(c, seq, under))
  BY <1>1 DEF Task, OfPlan, Links
<1> QED BY <1>3, <1>4 DEF OfRun, Task

LEMMA UpsertParentKeepsInv ==
    ASSUME Inv, UpsertParent
    PROVE  Inv'
<1> DEFINE c == plans[run.plan].plan.outcome
           found == run.link
<1> DEFINE t == Task(c, 0, 0)
<1>1. /\ run # Idle /\ UNCHANGED <<given, index, plans, mixed, changes, failures>>
      /\ tasks' = Upserted(found, t)
      /\ run' = Idle \/ run' = [run EXCEPT !.parent = Answer(found, t), !.at = 1]
  BY DEF UpsertParent
<1>2. run.plan \in DOMAIN plans /\ c \in Candidate
  <2>1. run.plan \in DOMAIN plans
    BY <1>1 DEF Inv, RunOfPlan
  <2> QED BY <2>1, PlanKept
<1>3. OfRun(t) /\ t.seq = 0
  <2>1. 0 \in Nat /\ run # Idle
    BY <1>1
  <2> HIDE DEF c
  <2>2. c = plans[run.plan].plan.outcome
    BY DEF c
  <2> QED BY <1>2, <2>1, <2>2, TaskOfRun, SMTT(30)
<1>4. t.number = plans[run.plan].number
  BY DEF Task
<1>5. found \in Nat /\ (found # 0 => /\ found \in DOMAIN tasks /\ tasks[found].seq = 0
                                     /\ tasks[found].number = plans[run.plan].number)
  BY <1>1 DEF Inv, Typed, RunOfPlan, Links
<1> HIDE DEF t, found
<1>6. run' # Idle => /\ run' = [run EXCEPT !.parent = run'.parent, !.at = run'.at]
                     /\ run'.at \in Nat
                     /\ run'.parent = Answer(found, t)
  <2>1. run \in [plan : Nat, link : Nat, at : Nat, parent : Nat, children : SUBSET Nat]
    BY DEF Inv, Typed
  <2> SUFFICES ASSUME run' = [run EXCEPT !.parent = Answer(found, t), !.at = 1]
               PROVE  /\ run' = [run EXCEPT !.parent = run'.parent, !.at = run'.at]
                      /\ run'.at \in Nat /\ run'.parent = Answer(found, t)
    BY <1>1
  <2>2. run'.parent = Answer(found, t) /\ run'.at = 1
    BY <2>1
  <2> QED BY <2>2
<1> QED BY <1>1, <1>3, <1>4, <1>5, <1>6, UpsertKeepsInv

LEMMA UpsertChildKeepsInv ==
    ASSUME Inv, UpsertChild
    PROVE  Inv'
<1> DEFINE k == run.at - 1
           c == Steps[k]
           t == Task(c, k, run.parent)
           found == Listed(t)
<1>1. run.at >= 2 /\ k <= Len(Steps)
  BY DEF UpsertChild
<1>2. /\ run.at \in Nat /\ run.parent \in Nat
      /\ run \in [plan : Nat, link : Nat, at : Nat, parent : Nat, children : SUBSET Nat]
  BY DEF Inv, Typed
<1>3. run # Idle
  BY <1>1 DEF Idle
<1>4. /\ UNCHANGED <<given, index, plans, mixed, changes, failures>>
      /\ tasks' = Upserted(found, t)
      /\ run' = Idle \/ run' = [run EXCEPT !.at = run.at + 1]
  BY DEF UpsertChild
<1>5. /\ run.plan \in DOMAIN plans /\ Steps \in Seq(Candidate)
      /\ run.parent \in Links(run.plan) /\ run.children \subseteq DOMAIN tasks
  <2>1. run.plan \in DOMAIN plans /\ run.parent \in Links(run.plan) /\ run.children \subseteq DOMAIN tasks
    BY <1>1, <1>2, <1>3 DEF Inv, RunOfPlan
  <2> QED BY <2>1, PlanKept DEF Steps
<1>6. k \in 1..Len(Steps) /\ k \in Nat /\ c \in Candidate
  BY <1>1, <1>2, <1>5
<1>7. OfRun(t) /\ t.seq = k /\ t.title = c.title
  BY <1>2, <1>3, <1>5, <1>6, TaskOfRun DEF Steps
<1> HIDE DEF t
<1>8. /\ found \in Nat
      /\ found # 0 => /\ found \in DOMAIN tasks
                      /\ tasks[found].seq = t.seq /\ tasks[found].title = t.title
  <2> DEFINE same == {n \in run.children : tasks[n].seq = t.seq /\ tasks[n].title = t.title}
  <2>1. CASE same = {}
    BY <2>1 DEF Listed
  <2>2. CASE same # {}
    <3>1. found \in same
      BY <2>2 DEF Listed
    <3> QED BY <1>2, <1>5, <3>1
  <2> QED BY <2>1, <2>2
<1>9. t.seq # 0
  BY <1>6, <1>7
<1> HIDE DEF found
<1>10. run' # Idle => /\ run' = [run EXCEPT !.parent = run'.parent, !.at = run'.at]
                      /\ run'.at \in Nat
                      /\ run.at >= 1 /\ run'.parent = run.parent
  <2> SUFFICES ASSUME run' = [run EXCEPT !.at = run.at + 1]
               PROVE  /\ run' = [run EXCEPT !.parent = run'.parent, !.at = run'.at]
                      /\ run'.at \in Nat /\ run.at >= 1 /\ run'.parent = run.parent
    BY <1>4
  <2>1. run'.parent = run.parent /\ run'.at = run.at + 1
    BY <1>2
  <2>2. run' = [run EXCEPT !.parent = run'.parent, !.at = run'.at]
    BY <1>2, <2>1
  <2> QED BY <1>1, <1>2, <2>1, <2>2
<1> QED BY <1>3, <1>4, <1>7, <1>8, <1>9, <1>10, UpsertKeepsInv

LEMMA InvInductive ==
    ASSUME PlanningAssumption, TreeAssumption, Inv, [TreeNext]_vars
    PROVE  Inv'
<1>1. CASE \E i \in DOMAIN given : NewEvidence(i)
  BY <1>1, NewEvidenceKeepsInv
<1>2. CASE \E n \in Open : Complete(n)
  BY <1>2, CompleteKeepsInv
<1>3. CASE ReadIndex
  BY <1>3, ReadIndexKeepsInv
<1>4. CASE MakePlans
  BY <1>4, MakePlansKeepsInv
<1>5. CASE \E p \in DOMAIN plans : \E link \in Links(p) \cup {0} : Start(p, link)
  BY <1>5, StartKeepsInv
<1>6. CASE UpsertParent
  BY <1>6, UpsertParentKeepsInv
<1>7. CASE ReadChildren
  BY <1>7, ReadChildrenKeepsInv
<1>8. CASE UpsertChild
  BY <1>8, UpsertChildKeepsInv
<1>9. CASE VerifyTree
  BY <1>9, VerifyTreeKeepsInv
<1>10. CASE Fail
  BY <1>10, FailKeepsInv
<1>11. CASE UNCHANGED vars
  <2>1. UNCHANGED <<given, index, plans, tasks, run, mixed, changes, failures>>
    BY <1>11 DEF vars
  <2>2. run' # Idle => /\ run # Idle
                       /\ run'.children \subseteq DOMAIN tasks
    BY <2>1 DEF Inv, RunOfPlan
  <2>3. failures' \in 0..MaxFailures
        /\ run' \in [plan : Nat, link : Nat, at : Nat, parent : Nat, children : SUBSET Nat]
    BY <2>1 DEF Inv, Typed
  <2> QED BY <2>1, <2>2, <2>3, RunKeepsInv
<1> QED
  BY <1>1, <1>2, <1>3, <1>4, <1>5, <1>6, <1>7, <1>8, <1>9, <1>10, <1>11 DEF TreeNext

LEMMA InvInitially ==
    ASSUME TreeAssumption, TreeInit
    PROVE  Inv
<1>1. given \in Seq(Candidate) /\ \E c \in ToSet(given) : c.type = "parent"
  BY DEF TreeInit, TreeAssumption
<1>2. HasOutcome(given)
  BY <1>1 DEF ToSet, HasOutcome
<1>3. Typed
  <2>1. index = {} /\ plans = <<>> /\ tasks = <<>> /\ run = Idle /\ mixed = FALSE
        /\ changes = 0 /\ failures = 0
    BY DEF TreeInit
  <2>2. plans \in Seq([number : Nat, plan : PlanType, known : SUBSET Nat]) /\ tasks \in Seq(TaskType)
    BY <2>1
  <2>3. changes \in 0..MaxChanges /\ failures \in 0..MaxFailures
    BY <2>1 DEF TreeAssumption
  <2> QED BY <1>1, <1>2, <2>1, <2>2, <2>3, IdleTyped DEF Typed
<1> QED
  BY <1>3 DEF TreeInit, Inv, PlansFit, TasksOfPlans, MadeOnce, IndexOfTasks, NoneKnown,
              RunOfPlan, OneMaker

-----------------------------------------------------------------------------
(* The theorems. *)

\* Whatever happens, what the program keeps is of its type, a task is of the plan that made
\* it, a plan makes one task of a step, and a plan that can be carried out was made when the
\* index showed no task of its outcome.
THEOREM TreeInvariant == TreeSpec => []Inv
<1>1. TreeInit => Inv
  BY InvInitially, TreeAssumption
<1>2. Inv /\ [TreeNext]_vars => Inv'
  BY InvInductive, PlanningAssumption, TreeAssumption
<1> QED BY <1>1, <1>2, PTL DEF TreeSpec

\* A candidate has one task under an outcome, as long as identifiers are distinct and no
\* plan is started that does not know another one's task.
THEOREM OneTaskPerCandidateCorrect == TreeSpec => []OneTaskPerCandidate
<1>1. Inv => OneTaskPerCandidate
  <2> SUFFICES ASSUME Inv, ~mixed, UniqueIds(given),
                      NEW n \in DOMAIN tasks, NEW m \in DOMAIN tasks,
                      tasks[n].number = tasks[m].number, tasks[n].source = tasks[m].source
               PROVE  n = m
    BY DEF OneTaskPerCandidate
  <2> DEFINE p == tasks[n].by
             plan == plans[p].plan
  <2>1. tasks[m].by = p
    BY DEF Inv, OneMaker
  <2>2. p \in DOMAIN plans /\ OfPlan(tasks[n]) /\ OfPlan(tasks[m])
    BY DEF Inv, TasksOfPlans, OfPlan
  <2>3. Fits(plans[p].number, plan, given)
    BY <2>2 DEF Inv, PlansFit
  <2>4. ASSUME NEW k \in {n, m}
        PROVE  /\ tasks[k].by = p
               /\ \/ tasks[k].seq = 0 /\ tasks[k].source = plan.outcome.id
                  \/ /\ tasks[k].seq \in 1..Len(plan.steps)
                     /\ tasks[k].source = plan.steps[tasks[k].seq].id
    BY <2>1, <2>2, <2>4 DEF OfPlan
  <2>5. tasks[n].seq = tasks[m].seq
    <3> HIDE DEF p, plan
    <3>1. /\ \A k \in 1..Len(plan.steps) : plan.steps[k].id # plan.outcome.id
          /\ \A k, l \in 1..Len(plan.steps) : plan.steps[k].id = plan.steps[l].id => k = l
      BY <2>3 DEF Fits
    <3> QED BY <2>4, <3>1
  <2> QED BY <2>1, <2>5 DEF Inv, MadeOnce
<1> QED BY <1>1, TreeInvariant, PTL

\* Nor are there more tasks under one than the review threshold.
THEOREM TreesWithinBudgetCorrect == TreeSpec => []TreesWithinBudget
<1>1. Inv => TreesWithinBudget
  <2> SUFFICES ASSUME Inv, ~mixed, NEW n \in DOMAIN tasks
               PROVE  Cardinality(Under(n)) <= ReviewThreshold
    BY DEF TreesWithinBudget
  <2> DEFINE p == tasks[n].by
             plan == plans[p].plan
             f == [m \in Under(n) |-> tasks[m].seq]
             N == Len(plan.steps)
  <2>1. n \in Nat /\ n # 0
    BY DEF Inv, Typed
  <2>2. ASSUME NEW m \in Under(n)
        PROVE  /\ m \in DOMAIN tasks /\ tasks[m].by = p /\ tasks[m].number = tasks[n].number
               /\ tasks[m].seq \in 1..N
    <3>1. m \in DOMAIN tasks /\ tasks[m].under = n
      BY DEF Under
    <3>2. OfPlan(tasks[m])
      BY <3>1 DEF Inv, TasksOfPlans
    <3>3. tasks[m].number = tasks[n].number
      BY <2>1, <3>1, <3>2 DEF OfPlan
    <3>4. tasks[m].by = p
      BY <3>1, <3>3 DEF Inv, OneMaker
    <3> QED BY <2>1, <3>1, <3>2, <3>3, <3>4 DEF OfPlan
  <2>3. p \in DOMAIN plans
    BY DEF Inv, TasksOfPlans, OfPlan
  <2>4. N <= ReviewThreshold
    BY <2>3 DEF Inv, PlansFit, Fits
  <2>5. N \in Nat
    BY <2>3, PlanKept
  <2>6. f \in Injection(Under(n), 1..N)
    <3>1. \A m, k \in Under(n) : f[m] = f[k] => m = k
      BY <2>2 DEF Inv, MadeOnce
    <3>2. f \in [Under(n) -> 1..N]
      BY <2>2
    <3> QED BY <3>1, <3>2 DEF Injection, IsInjective
  <2> HIDE DEF N, f
  <2>7. IsFiniteSet(1..N) /\ Cardinality(1..N) = N
    BY <2>5, FS_Interval
  <2>8. Cardinality(Under(n)) <= N /\ Cardinality(Under(n)) \in Nat
    BY <2>6, <2>7, FS_Injection, FS_CardinalityType
  <2> QED BY <2>4, <2>5, <2>8, PlanningAssumption DEF PlanningAssumption
<1> QED BY <1>1, TreeInvariant, PTL

\* The new candidates are those that no new one of a lower identifier holds back.
THEOREM KeptIsKernelCorrect == TreeSpec => []KeptIsKernel
<1>1. Inv => KeptIsKernel
  <2> SUFFICES ASSUME Inv, UniqueIds(given) PROVE KeptIsKernel
    BY DEF KeptIsKernel
  <2> DEFINE found == Findings(given)
             new == {c \in ToSet(given) : found[c.id] = "new"}
  <2>1. given \in Seq(Candidate)
    BY DEF Inv, Typed
  <2>2. \A c : c \in ToSet(given) <=> \E i \in DOMAIN given : c = given[i]
    BY DEF ToSet
  <2>3. \A i \in DOMAIN given :
          found[given[i].id] = "new" <=>
              ~\E j \in DOMAIN given : /\ found[given[j].id] = "new"
                                       /\ given[j].id < given[i].id /\ Close(given[i], given[j])
    BY <2>1, KernelOf
  <2> HIDE DEF found
  <2>4. \A c \in ToSet(given) : c \in new <=> ~\E d \in new : d.id < c.id /\ Close(c, d)
    BY <2>2, <2>3
  <2> QED BY <2>4 DEF KeptIsKernel, found
<1> QED BY <1>1, TreeInvariant, PTL

\* Given in another order, the same candidates make the same plans.
THEOREM OrderIrrelevantCorrect == TreeSpec => []OrderIrrelevant
<1>1. Inv => OrderIrrelevant
  <2> SUFFICES ASSUME Inv, UniqueIds(given), NEW f \in Bijection(DOMAIN given, DOMAIN given)
               PROVE  Plans([i \in DOMAIN given |-> given[f[i]]], index) = Plans(given, index)
    BY DEF OrderIrrelevant
  <2> DEFINE D == DOMAIN given
             t == [i \in D |-> given[f[i]]]
  <2>1. given \in Seq(Candidate) /\ HasOutcome(given)
    BY DEF Inv, Typed
  <2>2. /\ f \in [D -> D]
        /\ \A j \in D : \E i \in D : f[i] = j
        /\ \A i, j \in D : f[i] = f[j] => i = j
    BY DEF Bijection, Injection, Surjection, IsInjective
  <2>3. D = 1..Len(given) /\ Len(given) \in Nat
    BY <2>1
  <2>4. t \in Seq(Candidate)
    <3>1. \A i \in D : given[f[i]] \in Candidate
      BY <2>1, <2>2
    <3> HIDE DEF D
    <3>2. t \in [1..Len(given) -> Candidate]
      BY <2>3, <3>1
    <3> QED BY <2>3, <3>2
  <2>5. SameCandidates(given, t)
    <3>1. DOMAIN t = D /\ \A i \in D : f[i] \in D /\ t[i] = given[f[i]]
      BY <2>2
    <3> HIDE DEF t
    <3>2. \A i, j \in D : t[i].id = t[j].id => i = j
      BY <2>2, <3>1 DEF UniqueIds
    <3>3. \A i \in D : \E j \in D : given[i] = t[j]
      BY <2>2, <3>1
    <3> QED BY <3>1, <3>2, <3>3 DEF SameCandidates, UniqueIds
  <2> HIDE DEF t
  <2>6. Plans(given, index) = Plans(t, index)
    BY <2>1, <2>4, <2>5, SamePlans
  <2> QED BY <2>6 DEF t
<1> QED BY <1>1, TreeInvariant, PTL
=============================================================================
