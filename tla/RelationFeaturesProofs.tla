------------------------ MODULE RelationFeaturesProofs ------------------------
(* Facts about the operators of RelationFeatures: sorting, cutting to a      *)
(* limit, sums over a set, rounding, and the risk score.                     *)
EXTENDS RelationFeatures, SequenceTheorems, FiniteSetTheorems, WellFoundedInduction,
        TLAPS

-----------------------------------------------------------------------------
(* Sorting.                                                                *)

StrictOrder(S, R) ==
  /\ \A x \in S : <<x, x>> \notin R
  /\ \A x, y, z \in S : <<x, y>> \in R /\ <<y, z>> \in R => <<x, z>> \in R
  /\ \A x, y \in S : x # y => <<x, y>> \in R \/ <<y, x>> \in R
Below(S, R, x) == {y \in S : <<y, x>> \in R}

\* In a strict order each element has its own number of smaller ones.
LEMMA Ranks ==
  ASSUME NEW S, IsFiniteSet(S), NEW R, StrictOrder(S, R)
  PROVE  /\ \A x \in S : Cardinality(Below(S, R, x)) \in 0..(Cardinality(S) - 1)
         /\ \A x, y \in S :
              Cardinality(Below(S, R, x)) = Cardinality(Below(S, R, y)) => x = y
         /\ \A n \in 1..Cardinality(S) :
              \E x \in S : Cardinality(Below(S, R, x)) = n - 1
<1> DEFINE below(x) == Below(S, R, x)
           rank == [x \in S |-> Cardinality(below(x))]
<1>1. Cardinality(S) \in Nat
  BY FS_CardinalityType
<1>2. ASSUME NEW x \in S
      PROVE  /\ IsFiniteSet(below(x)) /\ Cardinality(below(x)) \in Nat
             /\ Cardinality(below(x)) < Cardinality(S)
  <2>1. below(x) \in SUBSET S /\ below(x) # S
    BY DEF Below, StrictOrder
  <2>2. IsFiniteSet(below(x)) /\ Cardinality(below(x)) <= Cardinality(S)
        /\ Cardinality(S) # Cardinality(below(x))
    BY <2>1, FS_Subset
  <2>3. Cardinality(below(x)) \in Nat
    BY <2>2, FS_CardinalityType
  <2>4. QED
    BY <1>1, <2>2, <2>3
<1>3. ASSUME NEW x \in S, NEW y \in S, <<x, y>> \in R
      PROVE  Cardinality(below(x)) < Cardinality(below(y))
  <2>1. below(x) \in SUBSET below(y) /\ x \in below(y) /\ x \notin below(x)
    BY <1>3 DEF Below, StrictOrder
  <2>2. IsFiniteSet(below(y)) /\ Cardinality(below(y)) \in Nat /\ Cardinality(below(x)) \in Nat
    BY <1>2
  <2>3. Cardinality(below(x)) <= Cardinality(below(y))
        /\ Cardinality(below(y)) # Cardinality(below(x))
    BY <2>1, <2>2, FS_Subset
  <2>4. QED
    BY <2>2, <2>3
<1>4. ASSUME NEW x \in S, NEW y \in S, Cardinality(below(x)) = Cardinality(below(y))
      PROVE  x = y
  <2>1. Cardinality(below(x)) \in Nat /\ Cardinality(below(y)) \in Nat
    BY <1>2
  <2>2. <<x, y>> \notin R /\ <<y, x>> \notin R
    BY <1>3, <1>4, <2>1
  <2>3. QED
    BY <2>2 DEF StrictOrder
<1>5. rank \in [S -> 0..(Cardinality(S) - 1)]
  BY <1>1, <1>2
<1>6. rank \in Injection(S, 0..(Cardinality(S) - 1))
  BY <1>4, <1>5 DEF Injection, IsInjective
<1>7. IsFiniteSet(0..(Cardinality(S) - 1))
      /\ Cardinality(0..(Cardinality(S) - 1)) = Cardinality(S)
  <2>1. 0 \in Int /\ Cardinality(S) - 1 \in Int
    BY <1>1
  <2>2. IsFiniteSet(0..(Cardinality(S) - 1))
        /\ Cardinality(0..(Cardinality(S) - 1))
             = IF 0 > Cardinality(S) - 1 THEN 0 ELSE (Cardinality(S) - 1) - 0 + 1
    BY <2>1, FS_Interval
  <2>3. QED
    BY <1>1, <2>2
<1>8. rank \in Surjection(S, 0..(Cardinality(S) - 1))
  <2> HIDE DEF rank
  <2>1. QED
    BY <1>6, <1>7, FS_Injection
<1>9. ASSUME NEW n \in 1..Cardinality(S)
      PROVE  \E x \in S : Cardinality(below(x)) = n - 1
  <2>1. n - 1 \in 0..(Cardinality(S) - 1)
    BY <1>1
  <2>2. QED
    BY <1>8, <2>1 DEF Surjection
<1>10. QED
  BY <1>1, <1>2, <1>4, <1>9

LEMMA FunctionIsList ==
  ASSUME NEW S, NEW m \in Nat, NEW f \in [1..m -> S]
  PROVE  f \in Seq(S) /\ Len(f) = m
OBVIOUS

\* A list whose n-th element has n - 1 below it, where there is such an element, is a
\* sorted list: it has all of the set and nothing else.
SortedBy(S, R, list) ==
  /\ list = [n \in 1..Cardinality(S) |-> list[n]]
  /\ \A n \in 1..Cardinality(S) :
       (\E x \in S : Cardinality(Below(S, R, x)) = n - 1) =>
         list[n] \in S /\ Cardinality(Below(S, R, list[n])) = n - 1

LEMMA SortedIsAll ==
  ASSUME NEW S, IsFiniteSet(S), NEW R, StrictOrder(S, R), NEW list, SortedBy(S, R, list)
  PROVE  list \in Seq(S) /\ Len(list) = Cardinality(S) /\ Range(list) = S
<1>1. Cardinality(S) \in Nat
  BY FS_CardinalityType
<1>2. ASSUME NEW n \in 1..Cardinality(S)
      PROVE  list[n] \in S /\ Cardinality(Below(S, R, list[n])) = n - 1
  BY Ranks DEF SortedBy
<1>3. list \in [1..Cardinality(S) -> S]
  <2>1. PICK m : m = Cardinality(S) /\ list = [n \in 1..m |-> list[n]]
    BY DEF SortedBy
  <2>2. \A n \in 1..m : list[n] \in S
    BY <1>2, <2>1
  <2>3. list \in [1..m -> S]
    BY <2>1, <2>2
  <2>4. QED
    BY <2>1, <2>3
<1>4. list \in Seq(S) /\ Len(list) = Cardinality(S)
  <2>1. PICK m \in Nat : m = Cardinality(S) /\ list \in [1..m -> S]
    BY <1>1, <1>3
  <2>2. list \in Seq(S) /\ Len(list) = m
    BY <2>1, FunctionIsList, Zenon
  <2>3. QED
    BY <2>1, <2>2
<1>5. ASSUME NEW x \in S PROVE x \in Range(list)
  <2> DEFINE n == Cardinality(Below(S, R, x)) + 1
  <2>1. n \in 1..Cardinality(S) /\ n - 1 = Cardinality(Below(S, R, x))
    BY <1>1, Ranks
  <2>2. list[n] \in S /\ Cardinality(Below(S, R, list[n])) = Cardinality(Below(S, R, x))
    <3> HIDE DEF n
    <3>1. QED
      BY <1>2, <2>1
  <2>3. list[n] = x
    <3> HIDE DEF n
    <3>1. QED
      BY <2>2, Ranks
  <2>4. n \in DOMAIN list
    BY <1>3, <2>1
  <2>5. QED
    BY <2>3, <2>4 DEF Range
<1>6. Range(list) = S
  BY <1>3, <1>5 DEF Range
<1>7. QED
  BY <1>4, <1>6

\* A list cut to a limit is no longer than it, has nothing new, and is the list itself
\* when the list is within the limit.
LEMMA FirstOfList ==
  ASSUME NEW S, NEW list \in Seq(S), NEW limit \in Nat
  PROVE  /\ First(list, limit) \in Seq(S) /\ Len(First(list, limit)) <= limit
         /\ Range(First(list, limit)) \subseteq Range(list)
         /\ Len(list) <= limit => First(list, limit) = list
<1> DEFINE m == IF Len(list) < limit THEN Len(list) ELSE limit
           first == SubSeq(list, 1, m)
<1>1. Len(list) \in Nat /\ DOMAIN list = 1..Len(list) /\ \A i \in 1..Len(list) : list[i] \in S
  BY LenProperties
<1>2. m \in Nat /\ m <= Len(list) /\ m <= limit
  BY <1>1
<1>3. First(list, limit) = first
  BY DEF First
<1>4. /\ first \in Seq(S) /\ Len(first) = m
      /\ \A i \in 1..m : first[i] = list[i]
  <2> HIDE DEF m
  <2>1. \A i \in 1..m : list[i] \in S
    BY <1>1, <1>2
  <2>2. /\ SubSeq(list, 1, m) \in Seq(S)
        /\ Len(SubSeq(list, 1, m)) = IF 1 <= m THEN m - 1 + 1 ELSE 0
        /\ \A i \in 1..(m - 1 + 1) : SubSeq(list, 1, m)[i] = list[1 + i - 1]
    BY <1>2, <2>1, SubSeqProperties
  <2>3. QED
    BY <1>2, <2>2
<1> HIDE DEF m, first
<1>5. Range(first) \subseteq Range(list)
  <2>1. DOMAIN first = 1..m
    BY <1>4, LenProperties
  <2>2. QED
    BY <1>1, <1>2, <1>4, <2>1 DEF Range
<1>6. ASSUME Len(list) <= limit PROVE first = list
  <2>1. m = Len(list)
    <3>1. Len(list) \in Nat
      BY <1>1
    <3>2. QED
      BY <1>6, <3>1 DEF m
  <2>2. SubSeq(list, 1, Len(list)) = list
    BY SubSeqFull
  <2>3. QED
    BY <2>1, <2>2 DEF first
<1>7. QED
  BY <1>2, <1>3, <1>4, <1>5, <1>6

LEMMA RangeIsFinite ==
  ASSUME NEW S, NEW list \in Seq(S)
  PROVE  IsFiniteSet(Range(list)) /\ Cardinality(Range(list)) <= Len(list)
         /\ Cardinality(Range(list)) \in Nat
<1>1. Len(list) \in Nat /\ DOMAIN list = 1..Len(list) /\ list \in [1..Len(list) -> S]
  BY LenProperties
<1>2. list \in Surjection(1..Len(list), Range(list))
  BY <1>1 DEF Surjection, Range
<1>3. IsFiniteSet(1..Len(list)) /\ Cardinality(1..Len(list)) = Len(list)
  BY <1>1, FS_Interval
<1>4. QED
  BY <1>2, <1>3, FS_Surjection, FS_CardinalityType

-----------------------------------------------------------------------------
(* Least and largest.                                                      *)

\* Naturals have a least: what stands here for a proof by induction.
LEMMA LeastNumber ==
  ASSUME NEW T, T \subseteq Nat, T # {}
  PROVE  Min(T) \in T /\ \A y \in T : Min(T) <= y
<1> DEFINE less == {p \in Nat \X Nat : p[1] < p[2]}
<1>1. IsWellFoundedOn(less, Nat)
  BY NatLessThanWellFounded DEF OpToRel
<1>2. \E x \in T : \A y \in T : ~(<<y, x>> \in less)
  <2> HIDE DEF less
  <2>1. QED
    BY <1>1, WFMin, Zenon
<1>3. PICK x \in T : \A y \in T : ~(<<y, x>> \in less)
  BY <1>2
<1>4. ASSUME NEW y \in T PROVE x <= y
  <2>1. y \in Nat /\ x \in Nat /\ ~(<<y, x>> \in less)
    BY <1>3
  <2>2. QED
    BY <2>1
<1>5. QED
  BY <1>4 DEF Min

\* A finite set has a first element in a strict order.
LEMMA FirstElement ==
  ASSUME NEW S, IsFiniteSet(S), S # {}, NEW R, StrictOrder(S, R)
  PROVE  \E x \in S : \A y \in S : ~(<<y, x>> \in R)
<1>1. PICK n : n \in 1..Cardinality(S) /\ n - 1 = 0
  <2>1. Cardinality(S) \in Nat /\ Cardinality(S) # 0
    BY FS_CardinalityType, FS_EmptySet
  <2>2. QED
    BY <2>1
<1>2. PICK x \in S : Cardinality(Below(S, R, x)) = 0
  <2>1. \E x \in S : Cardinality(Below(S, R, x)) = n - 1
    BY <1>1, Ranks
  <2>2. QED
    BY <1>1, <2>1
<1>3. Below(S, R, x) = {}
  <2>1. IsFiniteSet(Below(S, R, x))
    BY FS_Subset DEF Below
  <2>2. QED
    BY <1>2, <2>1, FS_EmptySet
<1>4. QED
  BY <1>3, Zenon DEF Below

\* A finite set of naturals has a largest.
LEMMA LargestNumber ==
  ASSUME NEW T, T \subseteq Nat, T # {}, IsFiniteSet(T)
  PROVE  Max(T) \in T /\ \A y \in T : y <= Max(T)
<1>1. PICK R : \A x, y \in T : <<x, y>> \in R <=> x > y
  <2>1. \A x, y \in T : <<x, y>> \in {p \in Nat \X Nat : p[1] > p[2]} <=> x > y
    OBVIOUS
  <2>2. QED
    BY <2>1
<1>2. StrictOrder(T, R)
  <2>1. \A x, y, z \in T : ~(x > x) /\ (x > y /\ y > z => x > z) /\ (x # y => x > y \/ y > x)
    OBVIOUS
  <2>2. QED
    BY <1>1, <2>1 DEF StrictOrder
<1>3. PICK x \in T : \A y \in T : ~(<<y, x>> \in R)
  BY <1>2, FirstElement
<1>4. \A y \in T : y <= x
  <2>1. \A y \in T : ~(y > x)
    BY <1>1, <1>3
  <2>2. QED
    BY <2>1
<1>5. QED
  BY <1>4 DEF Max

-----------------------------------------------------------------------------
(* Rounding, rules and the score.                                          *)

LEMMA RatioType ==
  ASSUME NEW a \in Nat, NEW b \in Nat
  PROVE  ratio(a, b) \in Nat
<1>1. ASSUME NEW x \in Nat, NEW y \in Nat, y > 0 PROVE x \div y \in Nat
  BY <1>1
<1>2. CASE b = 0
  BY <1>2 DEF ratio, mean
<1>3. CASE b # 0
  <2>1. 2 * (100 * a) + b \in Nat /\ 2 * b \in Nat /\ 2 * b > 0
    BY <1>3
  <2>2. (2 * (100 * a) + b) \div (2 * b) \in Nat
    BY <1>1, <2>1
  <2>3. QED
    BY <1>3, <2>2 DEF ratio, mean
<1>4. QED
  BY <1>2, <1>3

LEMMA ScoreRange ==
  ASSUME NEW rules
  PROVE  calculateScore(rules) \in 0..100
<1>1. TotalImpact(rules) \in Nat
  <2>1. \A rule \in {"NO_EVIDENCE", "HIGH_VALUE_REFUND", "FULL_AMOUNT_REFUND",
                     "FAST_APPROVAL", "MANUAL_OVERRIDE", "AGENT_HIGH_APPROVAL_RATE",
                     "CUSTOMER_FREQUENT_RETURNS", "REPEATED_AGENT_CUSTOMER_PAIR",
                     "SUSPICIOUS_CLUSTER"} : Impact[rule] \in Nat
    BY DEF Impact
  <2> DEFINE of(rule) == IF rule \in rules THEN Impact[rule] ELSE 0
  <2>2. \A rule \in {"NO_EVIDENCE", "HIGH_VALUE_REFUND", "FULL_AMOUNT_REFUND",
                     "FAST_APPROVAL", "MANUAL_OVERRIDE", "AGENT_HIGH_APPROVAL_RATE",
                     "CUSTOMER_FREQUENT_RETURNS", "REPEATED_AGENT_CUSTOMER_PAIR",
                     "SUSPICIOUS_CLUSTER"} : of(rule) \in Nat
    BY <2>1
  <2>3. TotalImpact(rules) =
          of("NO_EVIDENCE") + of("HIGH_VALUE_REFUND") + of("FULL_AMOUNT_REFUND")
          + of("FAST_APPROVAL") + of("MANUAL_OVERRIDE") + of("AGENT_HIGH_APPROVAL_RATE")
          + of("CUSTOMER_FREQUENT_RETURNS") + of("REPEATED_AGENT_CUSTOMER_PAIR")
          + of("SUSPICIOUS_CLUSTER")
    BY DEF TotalImpact
  <2> HIDE DEF of
  <2>4. \A a, b, c, d, e, g, h, i, j \in Nat : a + b + c + d + e + g + h + i + j \in Nat
    OBVIOUS
  <2>5. QED
    BY <2>2, <2>3, <2>4
<1>2. PICK x \in Nat : x = TotalImpact(rules)
  BY <1>1
<1>3. Min({100, x}) \in 0..100
  <2>1. \E m \in {100, x} : \A y \in {100, x} : m <= y
    BY <1>2
  <2>2. Min({100, x}) \in {100, x} /\ Min({100, x}) <= 100
    BY <2>1 DEF Min
  <2>3. QED
    BY <2>2
<1>4. QED
  BY <1>2, <1>3 DEF calculateScore

\* The rule about a relation feature that fires has its signal.
LEMMA RulesHaveSignals ==
  ASSUME NEW r, NEW f, f.refundAmountRatio \in Nat, f.agentDecisionCount \in Nat,
         f.agentApprovalRate \in Nat
  PROVE  LET signals == explanationSignals(f)
             rules == Rules(r, f)
         IN /\ "CUSTOMER_FREQUENT_RETURNS" \in rules => "customer" \in signals
            /\ "REPEATED_AGENT_CUSTOMER_PAIR" \in rules => "pair" \in signals
            /\ "SUSPICIOUS_CLUSTER" \in rules => "cluster" \in signals
            /\ "FULL_AMOUNT_REFUND" \in rules => "ratio" \in signals
            /\ "AGENT_HIGH_APPROVAL_RATE" \in rules =>
                 "rate" \in signals \/ f.agentApprovalRate \in 86..89
<1> DEFINE signals == explanationSignals(f)
           rules == Rules(r, f)
<1>1. /\ "CUSTOMER_FREQUENT_RETURNS" \in rules => f.customerReturnCount >= 5
      /\ "REPEATED_AGENT_CUSTOMER_PAIR" \in rules => f.customerAgentPairCount >= 3
      /\ "SUSPICIOUS_CLUSTER" \in rules => f.clusterSize >= 5
      /\ "FULL_AMOUNT_REFUND" \in rules => f.refundAmountRatio >= 95
      /\ "AGENT_HIGH_APPROVAL_RATE" \in rules =>
           f.agentDecisionCount >= 5 /\ f.agentApprovalRate > 85
  BY DEF Rules
<1>2. /\ f.customerReturnCount >= 5 => "customer" \in signals
      /\ f.customerAgentPairCount >= 3 => "pair" \in signals
      /\ f.clusterSize >= 5 => "cluster" \in signals
      /\ f.refundAmountRatio >= 80 => "ratio" \in signals
      /\ f.agentDecisionCount > 0 /\ f.agentApprovalRate >= 90 => "rate" \in signals
  BY DEF explanationSignals
<1>3. f.refundAmountRatio >= 95 => f.refundAmountRatio >= 80
  OBVIOUS
<1>4. f.agentDecisionCount >= 5 /\ f.agentApprovalRate > 85 =>
        (f.agentDecisionCount > 0 /\ f.agentApprovalRate >= 90) \/ f.agentApprovalRate \in 86..89
  OBVIOUS
<1>5. QED
  <2> HIDE DEF signals, rules
  <2>1. QED
    BY <1>1, <1>2, <1>3, <1>4 DEF signals, rules

LEMMA FeatureTypes ==
  ASSUME NEW target, NEW records, IsFiniteSet(Range(records)),
         target.orderAmount \in Nat, target.refundAmount \in Nat
  PROVE  LET f == calculateFeatures(target, records)
         IN f.refundAmountRatio \in Nat /\ f.agentDecisionCount \in Nat
            /\ f.agentApprovalRate \in Nat
<1> DEFINE f == calculateFeatures(target, records)
           agent == {r \in Range(records) : r.agentId = target.agentId}
           approved == {r \in Range(records) : r.agentId = target.agentId /\ Approved(r)}
<1>1. IsFiniteSet(agent) /\ Cardinality(agent) \in Nat
  BY FS_Subset, FS_CardinalityType
<1>2. IsFiniteSet(approved) /\ Cardinality(approved) \in Nat
  BY FS_Subset, FS_CardinalityType
<1>3. /\ f.refundAmountRatio = ratio(target.refundAmount, target.orderAmount)
      /\ f.agentDecisionCount = Cardinality(agent)
      /\ f.agentApprovalRate = ratio(Cardinality(approved), Cardinality(agent))
  BY DEF calculateFeatures, Shared, Count, Those
<1>4. QED
  <2> HIDE DEF f, agent, approved
  <2>1. QED
    BY <1>1, <1>2, <1>3, RatioType DEF f

-----------------------------------------------------------------------------
(* Sums over a finite set, and what is divided again after them.           *)

\* The element a sum over s takes first, and what makes g the sums of f over the
\* subsets of S.
AnyOf(s) == CHOOSE x \in s : TRUE
AreSums(g, f, S) ==
  g = [s \in S |-> IF s = {} THEN 0 ELSE f[AnyOf(s)] + g[s \ {AnyOf(s)}]]

LEMMA AnyElement ==
  ASSUME NEW s, s # {}
  PROVE  AnyOf(s) \in s
BY DEF AnyOf

LEMMA SmallerSets ==
  ASSUME NEW S, IsFiniteSet(S), NEW s \in SUBSET S, s # {}
  PROVE  /\ AnyOf(s) \in s /\ AnyOf(s) \in S /\ s \ {AnyOf(s)} \in SUBSET S
         /\ Cardinality(s) \in Nat \ {0}
         /\ Cardinality(s \ {AnyOf(s)}) = Cardinality(s) - 1
<1>1. IsFiniteSet(s) /\ AnyOf(s) \in s
  BY FS_Subset, AnyElement
<1>2. Cardinality(s) \in Nat /\ Cardinality(s) # 0
  BY <1>1, FS_CardinalityType, FS_EmptySet
<1>3. Cardinality(s \ {AnyOf(s)}) = Cardinality(s) - 1
  BY <1>1, FS_RemoveElement
<1>4. QED
  BY <1>1, <1>2, <1>3

\* The subsets with n elements at most.
Small(S, n) == {s \in SUBSET S : Cardinality(s) <= n}

LEMMA SumsExist ==
  ASSUME NEW S, IsFiniteSet(S), NEW f
  PROVE  \E g : AreSums(g, f, SUBSET S)
<1> DEFINE bad == {n \in Nat : ~(\E g : AreSums(g, f, Small(S, n)))}
<1>1. \A s \in SUBSET S : Cardinality(s) \in Nat /\ (Cardinality(s) = 0 <=> s = {})
  BY FS_Subset, FS_CardinalityType, FS_EmptySet
<1>2. \E g : AreSums(g, f, Small(S, 0))
  <2>1. AreSums([s \in Small(S, 0) |-> 0], f, Small(S, 0))
    BY <1>1 DEF AreSums, Small
  <2>2. QED
    BY <2>1
<1>3. ASSUME NEW n \in Nat, NEW g, AreSums(g, f, Small(S, n))
      PROVE  \E h : AreSums(h, f, Small(S, n + 1))
  <2> DEFINE value(k, s) == IF s = {} THEN 0 ELSE f[AnyOf(s)] + k[s \ {AnyOf(s)}]
             h == [s \in Small(S, n + 1) |-> value(g, s)]
  <2>1. \A s \in Small(S, n) : g[s] = value(g, s) /\ s \in Small(S, n + 1)
    <3>1. \A s \in Small(S, n) : g[s] = value(g, s)
      BY <1>3, Zenon DEF AreSums
    <3>2. \A s \in Small(S, n) : s \in Small(S, n + 1)
      BY <1>1 DEF Small
    <3>3. QED
      BY <3>1, <3>2
  <2>2. ASSUME NEW s \in Small(S, n + 1) PROVE value(g, s) = value(h, s)
    <3>1. CASE s = {}
      BY <3>1
    <3>2. CASE s # {}
      <4>1. s \ {AnyOf(s)} \in Small(S, n)
        BY <1>1, <3>2, SmallerSets DEF Small
      <4>2. h[s \ {AnyOf(s)}] = g[s \ {AnyOf(s)}]
        BY <2>1, <4>1
      <4>3. QED
        BY <3>2, <4>2
    <3>3. QED
      BY <3>1, <3>2
  <2>3. AreSums(h, f, Small(S, n + 1))
    BY <2>2 DEF AreSums
  <2>4. QED
    BY <2>3
<1>4. bad = {}
  <2>1. SUFFICES ASSUME bad # {} PROVE FALSE
    OBVIOUS
  <2>2. Min(bad) \in bad /\ \A n \in bad : Min(bad) <= n
    <3>1. bad \subseteq Nat
      OBVIOUS
    <3> HIDE DEF bad
    <3>2. QED
      BY <2>1, <3>1, LeastNumber
  <2>3. PICK m \in bad : \A n \in bad : m <= n
    BY <2>2
  <2>4. m \in Nat /\ m # 0
    BY <1>2
  <2>5. m - 1 \in Nat /\ m - 1 \notin bad /\ (m - 1) + 1 = m
    BY <2>3, <2>4
  <2>6. QED
    BY <1>3, <2>3, <2>5
<1>5. PICK g : AreSums(g, f, Small(S, Cardinality(S)))
  BY <1>1, <1>4
<1>6. Small(S, Cardinality(S)) = SUBSET S
  BY FS_Subset DEF Small
<1>7. QED
  BY <1>5, <1>6

\* The fold of the library is such a sum.
LEMMA SumIsOne ==
  ASSUME NEW f, IsFiniteSet(DOMAIN f)
  PROVE  \E g : AreSums(g, f, SUBSET DOMAIN f) /\ SumFunction(f) = g[DOMAIN f]
<1> DEFINE g == CHOOSE h : AreSums(h, f, SUBSET DOMAIN f)
<1>1. AreSums(g, f, SUBSET DOMAIN f)
  BY SumsExist
<1>2. SumFunction(f) = g[DOMAIN f]
  BY DEF SumFunction, SumFunctionOnSet, FoldFunctionOnSet, MapThenFoldSet, AreSums, AnyOf
<1>3. QED
  BY <1>1, <1>2


\* Sums of values between two bounds are between as many times the bounds.
LEMMA SumsAreBounded ==
  ASSUME NEW S, IsFiniteSet(S), NEW f, NEW g, AreSums(g, f, SUBSET S),
         NEW lo \in Int, NEW hi \in Int, \A x \in S : f[x] \in lo..hi
  PROVE  \A s \in SUBSET S : g[s] \in (lo * Cardinality(s))..(hi * Cardinality(s))
<1> DEFINE Bounded(s) == g[s] \in (lo * Cardinality(s))..(hi * Cardinality(s))
           bad == {Cardinality(s) : s \in {t \in SUBSET S : ~Bounded(t)}}
<1>1. \A s \in SUBSET S : Cardinality(s) \in Nat /\ (Cardinality(s) = 0 <=> s = {})
  BY FS_Subset, FS_CardinalityType, FS_EmptySet
<1>2. SUFFICES ASSUME bad # {} PROVE FALSE
  OBVIOUS
<1>3. Min(bad) \in bad /\ \A n \in bad : Min(bad) <= n
  <2>1. bad \subseteq Nat
    BY <1>1
  <2> HIDE DEF bad
  <2>2. QED
    BY <1>2, <2>1, LeastNumber
<1>4. PICK s \in SUBSET S : /\ ~Bounded(s)
                            /\ \A t \in SUBSET S : ~Bounded(t) => Cardinality(s) <= Cardinality(t)
  BY <1>3
<1>5. g[s] = IF s = {} THEN 0 ELSE f[AnyOf(s)] + g[s \ {AnyOf(s)}]
  BY Zenon DEF AreSums
<1>6. s # {}
  <2>1. SUFFICES ASSUME s = {} PROVE FALSE
    OBVIOUS
  <2>2. g[s] = 0 /\ Cardinality(s) = 0
    BY <1>1, <1>5, <2>1
  <2>3. QED
    BY <1>4, <2>2
<1>7. PICK x, t : x = AnyOf(s) /\ t = s \ {AnyOf(s)}
  OBVIOUS
<1>8. /\ x \in S /\ t \in SUBSET S /\ Cardinality(s) \in Nat
      /\ Cardinality(t) \in Nat /\ Cardinality(t) = Cardinality(s) - 1
  BY <1>1, <1>6, <1>7, SmallerSets
<1>9. Bounded(t)
  BY <1>4, <1>8
<1>10. PICK n \in Nat : n = Cardinality(t) /\ Cardinality(s) = n + 1
  BY <1>8
<1>11. g[t] \in (lo * n)..(hi * n) /\ f[x] \in lo..hi /\ g[s] = f[x] + g[t]
  BY <1>5, <1>6, <1>7, <1>8, <1>9, <1>10
<1>12. lo * n \in Int /\ hi * n \in Int /\ lo * (n + 1) = lo * n + lo /\ hi * (n + 1) = hi * n + hi
  OBVIOUS
<1>13. g[s] \in (lo * (n + 1))..(hi * (n + 1))
  BY <1>11, <1>12
<1>14. QED
  BY <1>4, <1>10, <1>13

\* A sum of naturals is a natural no smaller than any of them.
LEMMA SumsHaveParts ==
  ASSUME NEW S, IsFiniteSet(S), NEW f, NEW g, AreSums(g, f, SUBSET S),
         \A x \in S : f[x] \in Nat
  PROVE  \A s \in SUBSET S : g[s] \in Nat /\ \A x \in s : f[x] <= g[s]
<1> DEFINE Covers(s) == g[s] \in Nat /\ \A x \in s : f[x] <= g[s]
           bad == {Cardinality(s) : s \in {t \in SUBSET S : ~Covers(t)}}
<1>1. \A s \in SUBSET S : Cardinality(s) \in Nat
  BY FS_Subset, FS_CardinalityType
<1>2. SUFFICES ASSUME bad # {} PROVE FALSE
  OBVIOUS
<1>3. Min(bad) \in bad /\ \A n \in bad : Min(bad) <= n
  <2>1. bad \subseteq Nat
    BY <1>1
  <2> HIDE DEF bad
  <2>2. QED
    BY <1>2, <2>1, LeastNumber
<1>4. PICK s \in SUBSET S : /\ ~Covers(s)
                            /\ \A t \in SUBSET S : ~Covers(t) => Cardinality(s) <= Cardinality(t)
  BY <1>3
<1>5. g[s] = IF s = {} THEN 0 ELSE f[AnyOf(s)] + g[s \ {AnyOf(s)}]
  BY Zenon DEF AreSums
<1>6. s # {}
  BY <1>4, <1>5
<1>7. PICK x, t : x = AnyOf(s) /\ t = s \ {AnyOf(s)}
  OBVIOUS
<1>8. /\ x \in S /\ t \in SUBSET S /\ Cardinality(s) \in Nat
      /\ Cardinality(t) \in Nat /\ Cardinality(t) = Cardinality(s) - 1
  BY <1>1, <1>6, <1>7, SmallerSets
<1>9. Covers(t)
  BY <1>4, <1>8
<1>10. f[x] \in Nat /\ g[t] \in Nat /\ g[s] = f[x] + g[t]
  BY <1>5, <1>6, <1>7, <1>8, <1>9
<1>11. \A y \in s : f[y] \in Nat /\ (y = x \/ y \in t)
  BY <1>7
<1>12. Covers(s)
  BY <1>9, <1>10, <1>11
<1>13. QED
  BY <1>4, <1>12

\* Both in one: the sum of a function into the naturals.
LEMMA SumOfNaturals ==
  ASSUME NEW f, IsFiniteSet(DOMAIN f), \A x \in DOMAIN f : f[x] \in Nat
  PROVE  SumFunction(f) \in Nat /\ \A x \in DOMAIN f : f[x] <= SumFunction(f)
<1>1. PICK g : AreSums(g, f, SUBSET DOMAIN f) /\ SumFunction(f) = g[DOMAIN f]
  BY SumIsOne
<1> DEFINE S == DOMAIN f
<1>2. S \in SUBSET S
  OBVIOUS
<1>3. \A s \in SUBSET S : g[s] \in Nat /\ \A x \in s : f[x] <= g[s]
  <2>1. IsFiniteSet(S) /\ AreSums(g, f, SUBSET S) /\ \A x \in S : f[x] \in Nat
    BY <1>1
  <2> HIDE DEF S
  <2>2. QED
    BY <2>1, SumsHaveParts
<1>4. QED
  BY <1>1, <1>2, <1>3

\* div is the quotient rounded down.
LEMMA Quotient ==
  ASSUME NEW a \in Int, NEW b \in Nat, b > 0
  PROVE  a \div b \in Int /\ b * (a \div b) <= a /\ a < b * (a \div b) + b
OBVIOUS

\* A mean, rounded, is between the least and the largest of what it is taken of.
LEMMA MeanIsBetween ==
  ASSUME NEW f, IsFiniteSet(DOMAIN f), DOMAIN f # {},
         NEW lo \in Nat, NEW hi \in Nat, \A x \in DOMAIN f : f[x] \in lo..hi
  PROVE  mean(SumFunction(f), Cardinality(DOMAIN f)) \in lo..hi
<1>1. PICK g : AreSums(g, f, SUBSET DOMAIN f) /\ SumFunction(f) = g[DOMAIN f]
  BY SumIsOne
<1>2. PICK sum, n : sum = SumFunction(f) /\ n = Cardinality(DOMAIN f)
  OBVIOUS
<1>3. n \in Nat /\ n > 0
  BY <1>2, FS_CardinalityType, FS_EmptySet
<1>4. sum \in (lo * n)..(hi * n)
  <2>1. \A s \in SUBSET DOMAIN f : g[s] \in (lo * Cardinality(s))..(hi * Cardinality(s))
    <3>1. lo \in Int /\ hi \in Int
      OBVIOUS
    <3>2. QED
      BY <1>1, <3>1, SumsAreBounded
  <2>2. DOMAIN f \in SUBSET DOMAIN f
    OBVIOUS
  <2>3. QED
    BY <1>1, <1>2, <2>1, <2>2
<1>5. PICK q : q = (2 * sum + n) \div (2 * n)
  OBVIOUS
<1>6. lo * n \in Nat /\ hi * n \in Nat /\ sum \in Int
  BY <1>3, <1>4
<1>7. q \in Int /\ (2 * n) * q <= 2 * sum + n /\ 2 * sum + n < (2 * n) * q + 2 * n
  <2>1. 2 * sum + n \in Int /\ 2 * n \in Nat /\ 2 * n > 0
    BY <1>3, <1>6
  <2>2. QED
    BY <1>5, <2>1, Quotient
<1>8. n * q \in Int /\ 2 * (n * q) <= 2 * sum + n /\ 2 * sum + n < 2 * (n * q) + 2 * n
  BY <1>3, <1>7
<1>9. lo <= q
  <2>1. SUFFICES ASSUME q + 1 <= lo PROVE FALSE
    BY <1>7
  <2>2. n * (q + 1) <= n * lo
    BY <1>3, <1>7, <2>1
  <2>3. n * (q + 1) = n * q + n /\ n * lo = lo * n
    BY <1>3, <1>7
  <2>4. QED
    BY <1>3, <1>4, <1>6, <1>8, <2>2, <2>3
<1>10. q <= hi
  <2>1. SUFFICES ASSUME hi + 1 <= q PROVE FALSE
    BY <1>7
  <2>2. n * (hi + 1) <= n * q
    BY <1>3, <1>7, <2>1
  <2>3. n * (hi + 1) = hi * n + n
    BY <1>3
  <2>4. QED
    BY <1>3, <1>4, <1>6, <1>8, <2>2, <2>3
<1>11. QED
  BY <1>2, <1>3, <1>5, <1>7, <1>9, <1>10 DEF mean

\* A rounded rate turned back into a count: half a percent of the decisions too much or
\* too little, and then cut off.
LEMMA CountFromRate ==
  ASSUME NEW o \in Nat, NEW d \in Nat, d > 0
  PROVE  (ratio(o, d) * d) \div 100 \in (o - (d + 199) \div 200)..(o + d \div 200)
<1>1. PICK q, m : q = ratio(o, d) /\ m = (q * d) \div 100
  OBVIOUS
<1>2. q \in Int /\ (2 * d) * q <= 2 * (100 * o) + d /\ 2 * (100 * o) + d < (2 * d) * q + 2 * d
  <2>1. 2 * (100 * o) + d \in Int /\ 2 * d \in Nat /\ 2 * d > 0
    OBVIOUS
  <2>2. q = (2 * (100 * o) + d) \div (2 * d)
    BY <1>1 DEF ratio, mean
  <2>3. QED
    BY <2>1, <2>2, Quotient
<1>3. PICK p \in Int : p = q * d
  BY <1>2
<1>4. 2 * p <= 200 * o + d /\ 200 * o < 2 * p + d
  BY <1>2, <1>3
<1>5. m \in Int /\ 100 * m <= p /\ p < 100 * m + 100
  BY <1>1, <1>3, Quotient
<1>6. PICK u, v : u = d \div 200 /\ v = (d + 199) \div 200
  OBVIOUS
<1>7. u \in Int /\ d < 200 * u + 200 /\ v \in Int /\ d + 199 < 200 * v + 200
  BY <1>6, Quotient
<1>8. m <= o + u /\ o - v <= m
  BY <1>4, <1>5, <1>7
<1>9. QED
  BY <1>1, <1>3, <1>5, <1>6, <1>7, <1>8

-----------------------------------------------------------------------------
(* Related returns.                                                        *)

Nth(ids, n) == CHOOSE x \in ids : Cardinality({y \in ids : y < x}) = n - 1
IdOrder == {p \in Int \X Int : p[1] < p[2]}

\* Identifiers in their order.
LEMMA SortedIds ==
  ASSUME NEW ids, ids \subseteq Int, IsFiniteSet(ids), NEW limit \in Nat
  PROVE  /\ Sorted(ids, <) \in Seq(ids)
         /\ Range(First(Sorted(ids, <), limit)) \subseteq ids
<1> DEFINE sorted == [n \in 1..Cardinality(ids) |-> Nth(ids, n)]
<1>1. StrictOrder(ids, IdOrder)
  <2>1. \A x, y \in ids : <<x, y>> \in IdOrder <=> x < y
    BY DEF IdOrder
  <2>2. \A x, y, z \in ids : /\ ~(x < x) /\ (x < y /\ y < z => x < z)
                             /\ (x # y => x < y \/ y < x)
    OBVIOUS
  <2>3. QED
    BY <2>1, <2>2 DEF StrictOrder
<1>2. ASSUME NEW x \in ids PROVE Below(ids, IdOrder, x) = {y \in ids : y < x}
  BY DEF Below, IdOrder
<1>3. ASSUME NEW n \in 1..Cardinality(ids),
             \E x \in ids : Cardinality({y \in ids : y < x}) = n - 1
      PROVE  sorted[n] \in ids /\ Cardinality({y \in ids : y < sorted[n]}) = n - 1
  BY <1>3 DEF Nth
<1>4. PICK list : list = sorted
  OBVIOUS
<1>5. list = [n \in 1..Cardinality(ids) |-> list[n]]
  BY <1>4
<1>6. ASSUME NEW n \in 1..Cardinality(ids),
             NEW x \in ids, Cardinality(Below(ids, IdOrder, x)) = n - 1
      PROVE  list[n] \in ids /\ Cardinality(Below(ids, IdOrder, list[n])) = n - 1
  <2>1. Cardinality({y \in ids : y < x}) = n - 1
    BY <1>2, <1>6
  <2>2. sorted[n] \in ids /\ Cardinality({y \in ids : y < sorted[n]}) = n - 1
    BY <1>3, <2>1
  <2>3. Below(ids, IdOrder, sorted[n]) = {y \in ids : y < sorted[n]}
    <3> HIDE DEF sorted
    <3>1. QED
      BY <1>2, <2>2
  <2> HIDE DEF sorted
  <2>4. QED
    BY <1>4, <2>2, <2>3
<1> HIDE DEF sorted
<1>7. SortedBy(ids, IdOrder, list)
  BY <1>5, <1>6 DEF SortedBy
<1>8. list \in Seq(ids) /\ Range(list) = ids
  BY <1>1, <1>7, SortedIsAll
<1>9. Range(First(list, limit)) \subseteq ids
  BY <1>8, FirstOfList
<1>10. QED
  BY <1>4, <1>8, <1>9 DEF sorted, Sorted, Nth

\* Being related is mutual.
LEMMA RelatedBothWays ==
  ASSUME NEW records, NEW r \in Range(records), NEW q \in AllRelated(r, records)
  PROVE  r \in AllRelated(q, records)
<1>1. q.returnId # r.returnId /\ RelationType(q, r) # "NONE"
  BY DEF AllRelated, Those
<1>2. \/ q.customerId = r.customerId
      \/ q.agentId = r.agentId /\ q.reason = r.reason
  BY <1>1 DEF RelationType
<1>3. RelationType(r, q) # "NONE"
  BY <1>2 DEF RelationType
<1>4. QED
  BY <1>1, <1>3 DEF AllRelated, Those

\* The returns the features name are related.
LEMMA TopAreRelated ==
  ASSUME NEW records, IsFiniteSet(Range(records)),
         \A p \in Range(records) : p.returnId \in Int,
         \A p, q \in Range(records) : p.returnId = q.returnId => p = q,
         NEW r \in Range(records), NEW q \in Range(records),
         q.returnId \in Range(calculateFeatures(r, records).topRelatedReturns)
  PROVE  q \in AllRelated(r, records)
<1> DEFINE related(p) ==
             /\ p.returnId # r.returnId
             /\ \/ /\ p.returnId # r.returnId
                   /\ p.agentId = r.agentId /\ p.reason = r.reason /\ p.category = r.category
                \/ p.customerId = r.customerId /\ p.agentId = r.agentId
           them == {p \in Range(records) : related(p)}
           ids == {p.returnId : p \in them}
           ofId == [p \in them |-> p.returnId]
<1>1. calculateFeatures(r, records).topRelatedReturns = First(Sorted(ids, <), RelatedLimit)
  BY DEF calculateFeatures, Those
<1>2. IsFiniteSet(them)
  BY FS_Subset
<1>3. ofId \in Surjection(them, ids)
  BY DEF Surjection
<1>4. IsFiniteSet(ids) /\ ids \subseteq Int
  <2>1. ids \subseteq Int
    OBVIOUS
  <2> HIDE DEF them, ids, ofId
  <2>2. QED
    BY <1>2, <1>3, <2>1, FS_Surjection
<1>5. RelatedLimit \in Nat
  BY FeaturesAssumption
<1>6. Range(First(Sorted(ids, <), RelatedLimit)) \subseteq ids
  <2> HIDE DEF ids
  <2>1. QED
    BY <1>4, <1>5, SortedIds, Zenon
<1>7. q.returnId \in ids
  <2> HIDE DEF ids
  <2>1. QED
    BY <1>1, <1>6, Zenon
<1>8. q \in them
  BY <1>7
<1>9. RelationType(q, r) # "NONE"
  BY <1>8 DEF RelationType
<1>10. QED
  BY <1>8, <1>9 DEF AllRelated, Those

-----------------------------------------------------------------------------
(* The graph.                                                              *)

\* The larger first, then the smaller.
Lex(S, first, second) ==
  {p \in S \X S : \/ first[p[1]] > first[p[2]]
                  \/ first[p[1]] = first[p[2]] /\ second[p[1]] < second[p[2]]}

LEMMA LexIsStrict ==
  ASSUME NEW S, NEW first \in [S -> Int], NEW second \in [S -> Int],
         \A x, y \in S : first[x] = first[y] /\ second[x] = second[y] => x = y
  PROVE  StrictOrder(S, Lex(S, first, second))
<1> DEFINE before(x, y) == \/ first[x] > first[y]
                           \/ first[x] = first[y] /\ second[x] < second[y]
<1>1. \A x, y \in S : <<x, y>> \in Lex(S, first, second) <=> before(x, y)
  BY DEF Lex
<1>2. \A x \in S : first[x] \in Int /\ second[x] \in Int
  OBVIOUS
<1>3. \A x \in S : ~before(x, x)
  BY <1>2
<1>4. \A x, y, z \in S : before(x, y) /\ before(y, z) => before(x, z)
  BY <1>2
<1>5. \A x, y \in S : x # y => before(x, y) \/ before(y, x)
  BY <1>2
<1>6. QED
  <2> HIDE DEF before
  <2>1. QED
    BY <1>1, <1>3, <1>4, <1>5 DEF StrictOrder

StrengthOf(target, p) == Strength[RelationType(p, target)]
Stronger(S, target, x) ==
  {y \in S : \/ StrengthOf(target, y) > StrengthOf(target, x)
             \/ /\ StrengthOf(target, y) = StrengthOf(target, x)
                /\ y.returnId < x.returnId}
NthRelated(S, target, n) == CHOOSE x \in S : Cardinality(Stronger(S, target, x)) = n - 1

\* The related returns a graph has room for are related, and as few as it has room for.
LEMMA RelatedAreRelated ==
  ASSUME NEW records, IsFiniteSet(Range(records)),
         \A p \in Range(records) : p.returnId \in Int,
         \A p, q \in Range(records) : p.returnId = q.returnId => p = q,
         NEW target, NEW limit \in Nat
  PROVE  /\ IsFiniteSet(Range(relatedReturns(target, records, limit)))
         /\ Cardinality(Range(relatedReturns(target, records, limit))) <= limit
         /\ Range(relatedReturns(target, records, limit)) \subseteq AllRelated(target, records)
<1> DEFINE S == AllRelated(target, records)
           strength == [p \in S |-> StrengthOf(target, p)]
           id == [p \in S |-> p.returnId]
           R == Lex(S, strength, id)
           sorted == [n \in 1..Cardinality(S) |-> NthRelated(S, target, n)]
<1>1. S \subseteq Range(records) /\ \A p \in S : RelationType(p, target) # "NONE"
  BY DEF AllRelated, Those
<1>2. IsFiniteSet(S)
  BY <1>1, FS_Subset
<1>3. ASSUME NEW p \in S PROVE StrengthOf(target, p) \in Int
  <2>1. RelationType(p, target) \in {"CUSTOMER_AGENT_PAIR", "SAME_CUSTOMER",
                                     "SIMILAR_AGENT_REASON_CATEGORY", "SAME_AGENT_REASON", "NONE"}
    BY DEF RelationType
  <2>2. RelationType(p, target) # "NONE"
    BY <1>1
  <2>3. QED
    BY <2>1, <2>2 DEF StrengthOf, Strength
<1>4. StrictOrder(S, R)
  <2>1. strength \in [S -> Int] /\ id \in [S -> Int]
    BY <1>1, <1>3
  <2>2. \A x, y \in S : id[x] = id[y] => x = y
    BY <1>1
  <2> HIDE DEF S, strength, id
  <2>3. QED
    BY <2>1, <2>2, LexIsStrict
<1>5. ASSUME NEW x \in S PROVE Below(S, R, x) = Stronger(S, target, x)
  <2> HIDE DEF S
  <2>1. QED
    BY DEF Below, Lex, Stronger
<1> HIDE DEF R
<1>6. ASSUME NEW n \in 1..Cardinality(S), NEW x \in S, Cardinality(Below(S, R, x)) = n - 1
      PROVE  sorted[n] \in S /\ Cardinality(Below(S, R, sorted[n])) = n - 1
  <2> HIDE DEF S
  <2>1. Cardinality(Stronger(S, target, x)) = n - 1
    BY <1>5, <1>6
  <2>2. sorted[n] \in S /\ Cardinality(Stronger(S, target, sorted[n])) = n - 1
    BY <2>1 DEF NthRelated
  <2> HIDE DEF sorted
  <2>3. QED
    BY <1>5, <2>2
<1>7. SortedBy(S, R, sorted)
  <2> HIDE DEF S
  <2>1. sorted = [n \in 1..Cardinality(S) |-> sorted[n]]
    OBVIOUS
  <2> HIDE DEF sorted
  <2>2. QED
    BY <1>6, <2>1 DEF SortedBy
<1>8. relatedReturns(target, records, limit) = First(sorted, limit)
  BY DEF relatedReturns, Sorted, NthRelated, Stronger, StrengthOf
<1> HIDE DEF sorted, S
<1>9. sorted \in Seq(S) /\ Range(sorted) = S
  BY <1>2, <1>4, <1>7, SortedIsAll
<1>10. /\ First(sorted, limit) \in Seq(S) /\ Len(First(sorted, limit)) <= limit
       /\ Range(First(sorted, limit)) \subseteq S
  BY <1>9, FirstOfList
<1>11. IsFiniteSet(Range(First(sorted, limit)))
       /\ Cardinality(Range(First(sorted, limit))) <= limit
  <2>1. Len(First(sorted, limit)) \in Nat
    BY <1>10, LenProperties
  <2>2. QED
    BY <1>10, <2>1, RangeIsFinite
<1>12. QED
  BY <1>8, <1>10, <1>11 DEF S

\* The nodes of a graph before they are cut to the limit, and their order.
OwnNodes(target) ==
  {<<"agent", target.agentId>>, <<"category", target.category>>,
   <<"customer", target.customerId>>, <<"decision", target.returnId>>,
   <<"order", target.orderId>>, <<"return", target.returnId>>}
RelatedNodes(target, records, limit) == {<<"return", id>> : id \in Related(target, records, limit)}
AllNodes(target, records, limit) == OwnNodes(target) \cup RelatedNodes(target, records, limit)

KindRank(n) == CHOOSE i \in 1..6 : Kinds[i] = n[1]
NodesBefore(S, x) ==
  {y \in S : \/ KindRank(y) < KindRank(x)
             \/ KindRank(y) = KindRank(x) /\ KindRank(y) = 6 /\ y[2] < x[2]}
NthNode(S, n) == CHOOSE x \in S : Cardinality(NodesBefore(S, x)) = n - 1

LEMMA Ranked ==
  ASSUME NEW id
  PROVE  /\ KindRank(<<"agent", id>>) = 1 /\ KindRank(<<"category", id>>) = 2
         /\ KindRank(<<"customer", id>>) = 3 /\ KindRank(<<"decision", id>>) = 4
         /\ KindRank(<<"order", id>>) = 5 /\ KindRank(<<"return", id>>) = 6
<1>1. \A i \in 1..6 : /\ Kinds[i] = "agent" <=> i = 1
                      /\ Kinds[i] = "category" <=> i = 2
                      /\ Kinds[i] = "customer" <=> i = 3
                      /\ Kinds[i] = "decision" <=> i = 4
                      /\ Kinds[i] = "order" <=> i = 5
                      /\ Kinds[i] = "return" <=> i = 6
  BY DEF Kinds
<1>2. QED
  BY <1>1 DEF KindRank

LEMMA ReturnNode ==
  ASSUME NEW id, NEW n, n = <<"return", id>>
  PROVE  n = <<n[1], n[2]>> /\ n[1] = "return" /\ n[2] = id /\ KindRank(n) = 6
<1>1. KindRank(n) = 6
  BY Ranked
<1>2. QED
  BY <1>1

\* A return's own nodes are of different kinds.
NodeOfKind(target, i) ==
  <<<<"agent", target.agentId>>, <<"category", target.category>>,
    <<"customer", target.customerId>>, <<"decision", target.returnId>>,
    <<"order", target.orderId>>, <<"return", target.returnId>>>>[i]

LEMMA OwnNode ==
  ASSUME NEW target, NEW n \in OwnNodes(target)
  PROVE  /\ n = <<n[1], n[2]>> /\ KindRank(n) \in 1..6
         /\ n = NodeOfKind(target, KindRank(n))
         /\ KindRank(n) = 6 => n = <<"return", target.returnId>>
<1>1. /\ NodeOfKind(target, 1) = <<"agent", target.agentId>>
      /\ NodeOfKind(target, 2) = <<"category", target.category>>
      /\ NodeOfKind(target, 3) = <<"customer", target.customerId>>
      /\ NodeOfKind(target, 4) = <<"decision", target.returnId>>
      /\ NodeOfKind(target, 5) = <<"order", target.orderId>>
      /\ NodeOfKind(target, 6) = <<"return", target.returnId>>
  BY DEF NodeOfKind
<1>2. CASE n = <<"agent", target.agentId>>
  <2>1. KindRank(n) = 1
    BY <1>2, Ranked
  <2>2. QED
    BY <1>1, <1>2, <2>1
<1>3. CASE n = <<"category", target.category>>
  <2>1. KindRank(n) = 2
    BY <1>3, Ranked
  <2>2. QED
    BY <1>1, <1>3, <2>1
<1>4. CASE n = <<"customer", target.customerId>>
  <2>1. KindRank(n) = 3
    BY <1>4, Ranked
  <2>2. QED
    BY <1>1, <1>4, <2>1
<1>5. CASE n = <<"decision", target.returnId>>
  <2>1. KindRank(n) = 4
    BY <1>5, Ranked
  <2>2. QED
    BY <1>1, <1>5, <2>1
<1>6. CASE n = <<"order", target.orderId>>
  <2>1. KindRank(n) = 5
    BY <1>6, Ranked
  <2>2. QED
    BY <1>1, <1>6, <2>1
<1>7. CASE n = <<"return", target.returnId>>
  <2>1. KindRank(n) = 6
    BY <1>7, Ranked
  <2>2. QED
    BY <1>1, <1>7, <2>1
<1>8. QED
  BY <1>2, <1>3, <1>4, <1>5, <1>6, <1>7 DEF OwnNodes

LEMMA SixNodes ==
  ASSUME NEW target
  PROVE  IsFiniteSet(OwnNodes(target)) /\ Cardinality(OwnNodes(target)) <= 6
<1> DEFINE list == <<<<"agent", target.agentId>>, <<"category", target.category>>,
                     <<"customer", target.customerId>>, <<"decision", target.returnId>>,
                     <<"order", target.orderId>>, <<"return", target.returnId>>>>
<1>1. list \in Seq(OwnNodes(target)) /\ Len(list) = 6
  BY DEF OwnNodes
<1>2. DOMAIN list = 1..6
  OBVIOUS
<1>3. OwnNodes(target) = {list[i] : i \in 1..6}
  <2>1. list[1] = <<"agent", target.agentId>> /\ list[2] = <<"category", target.category>>
        /\ list[3] = <<"customer", target.customerId>> /\ list[4] = <<"decision", target.returnId>>
        /\ list[5] = <<"order", target.orderId>> /\ list[6] = <<"return", target.returnId>>
    OBVIOUS
  <2>2. OwnNodes(target) = {list[1], list[2], list[3], list[4], list[5], list[6]}
    BY <2>1 DEF OwnNodes
  <2>3. 1..6 = {1, 2, 3, 4, 5, 6}
    OBVIOUS
  <2> HIDE DEF list
  <2>4. QED
    BY <2>2, <2>3
<1>4. Range(list) = OwnNodes(target)
  <2> HIDE DEF list
  <2>1. QED
    BY <1>2, <1>3 DEF Range
<1>5. IsFiniteSet(Range(list)) /\ Cardinality(Range(list)) <= Len(list)
  <2> HIDE DEF list
  <2>1. QED
    BY <1>1, RangeIsFinite
<1>6. QED
  BY <1>1, <1>4, <1>5

\* A graph of seven nodes or more is not cut: it has every node it was built from.
LEMMA GraphIsWhole ==
  ASSUME NEW records, IsFiniteSet(Range(records)),
         \A p \in Range(records) : p.returnId \in Int,
         \A p, q \in Range(records) : p.returnId = q.returnId => p = q,
         NEW target \in Range(records), NEW limit \in Nat, limit >= 7
  PROVE  GraphNodes(target, records, limit) = AllNodes(target, records, limit)
<1> DEFINE T == Range(relatedReturns(target, records, limit - 6))
           S == AllNodes(target, records, limit)
           rank == [n \in S |-> 0 - KindRank(n)]
           id == [n \in S |-> IF KindRank(n) = 6 THEN n[2] ELSE 0]
           R == Lex(S, rank, id)
           sorted == [n \in 1..Cardinality(S) |-> NthNode(S, n)]
<1>1. IsFiniteSet(T) /\ Cardinality(T) <= limit - 6 /\ T \subseteq AllRelated(target, records)
  BY RelatedAreRelated
<1>2. Related(target, records, limit) = {r.returnId : r \in T}
  BY DEF Related
<1>3. IsFiniteSet(RelatedNodes(target, records, limit))
      /\ Cardinality(RelatedNodes(target, records, limit)) <= limit - 6
  <2> DEFINE node == [r \in T |-> <<"return", r.returnId>>]
  <2> HIDE DEF T
  <2>1. node \in Surjection(T, RelatedNodes(target, records, limit))
    BY <1>2 DEF Surjection, RelatedNodes
  <2>2. IsFiniteSet(RelatedNodes(target, records, limit))
        /\ Cardinality(RelatedNodes(target, records, limit)) <= Cardinality(T)
    <3> HIDE DEF node
    <3>1. QED
      BY <1>1, <2>1, FS_Surjection
  <2>3. Cardinality(T) \in Nat /\ Cardinality(RelatedNodes(target, records, limit)) \in Nat
    BY <1>1, <2>2, FS_CardinalityType
  <2>4. QED
    BY <1>1, <2>2, <2>3
<1>4. IsFiniteSet(S) /\ Cardinality(S) <= limit
  <2> DEFINE A == OwnNodes(target)
             B == RelatedNodes(target, records, limit)
  <2>1. IsFiniteSet(A) /\ IsFiniteSet(B) /\ Cardinality(A) <= 6 /\ Cardinality(B) <= limit - 6
    BY <1>3, SixNodes
  <2> HIDE DEF A, B
  <2>2. IsFiniteSet(A \cup B)
        /\ Cardinality(A \cup B) = Cardinality(A) + Cardinality(B) - Cardinality(A \cap B)
    BY <2>1, FS_Union
  <2>3. Cardinality(A) \in Nat /\ Cardinality(B) \in Nat /\ Cardinality(A \cap B) \in Nat
    BY <2>1, FS_CardinalityType, FS_Subset
  <2>4. Cardinality(A \cup B) <= limit
    BY <2>1, <2>2, <2>3
  <2>5. QED
    BY <2>2, <2>4 DEF AllNodes, A, B
<1>5. \A n \in S : /\ n = <<n[1], n[2]>>
                   /\ KindRank(n) \in 1..6
                   /\ KindRank(n) = 6 => n[1] = "return" /\ n[2] \in Int
  <2>1. ASSUME NEW n \in OwnNodes(target)
        PROVE  /\ n = <<n[1], n[2]>>
               /\ KindRank(n) \in 1..6
               /\ KindRank(n) = 6 => n[1] = "return" /\ n[2] \in Int
    <3>1. KindRank(n) = 6 => n = <<"return", target.returnId>>
      BY OwnNode
    <3>2. KindRank(n) = 6 => n[1] = "return" /\ n[2] = target.returnId
      BY <3>1, ReturnNode
    <3>3. QED
      BY <3>2, OwnNode
  <2>2. ASSUME NEW n \in RelatedNodes(target, records, limit)
        PROVE  /\ n = <<n[1], n[2]>>
               /\ KindRank(n) \in 1..6
               /\ KindRank(n) = 6 => n[1] = "return" /\ n[2] \in Int
    <3>1. PICK r \in T : n = <<"return", r.returnId>>
      BY <1>2 DEF RelatedNodes
    <3>2. r.returnId \in Int
      BY <1>1, <3>1 DEF AllRelated, Those
    <3>3. n = <<n[1], n[2]>> /\ n[1] = "return" /\ n[2] = r.returnId /\ KindRank(n) = 6
      BY <3>1, ReturnNode
    <3>4. QED
      BY <3>2, <3>3
  <2>3. QED
    BY <2>1, <2>2 DEF AllNodes
<1>6. \A x, y \in S : KindRank(x) = KindRank(y) /\ (KindRank(x) = 6 => x[2] = y[2]) => x = y
  <2>1. \A n \in S : n \in OwnNodes(target) \/ KindRank(n) = 6
    <3>1. ASSUME NEW n \in RelatedNodes(target, records, limit) PROVE KindRank(n) = 6
      BY Ranked DEF RelatedNodes
    <3>2. QED
      BY <3>1 DEF AllNodes
  <2>2. \A x, y \in OwnNodes(target) : KindRank(x) = KindRank(y) => x = y
    BY OwnNode
  <2> HIDE DEF S
  <2>3. QED
    BY <1>5, <2>1, <2>2
<1> HIDE DEF S, T
<1>7. StrictOrder(S, R)
  <2>1. rank \in [S -> Int] /\ id \in [S -> Int]
    BY <1>5
  <2>2. \A x, y \in S : rank[x] = rank[y] /\ id[x] = id[y] => x = y
    BY <1>5, <1>6
  <2> HIDE DEF rank, id
  <2>3. QED
    BY <2>1, <2>2, LexIsStrict
<1>8. ASSUME NEW x \in S PROVE Below(S, R, x) = NodesBefore(S, x)
  <2>1. ASSUME NEW y \in S
        PROVE  <<y, x>> \in R <=> \/ KindRank(y) < KindRank(x)
                                  \/ KindRank(y) = KindRank(x) /\ KindRank(y) = 6 /\ y[2] < x[2]
    <3>1. rank[y] = 0 - KindRank(y) /\ rank[x] = 0 - KindRank(x)
          /\ id[y] = (IF KindRank(y) = 6 THEN y[2] ELSE 0)
          /\ id[x] = (IF KindRank(x) = 6 THEN x[2] ELSE 0)
      OBVIOUS
    <3>2. <<y, x>> \in R <=> rank[y] > rank[x] \/ (rank[y] = rank[x] /\ id[y] < id[x])
      <4> HIDE DEF rank, id
      <4>1. QED
        BY DEF Lex
    <3> HIDE DEF rank, id, R
    <3>3. QED
      BY <1>5, <3>1, <3>2
  <2> HIDE DEF R
  <2>2. QED
    BY <2>1 DEF Below, NodesBefore
<1> HIDE DEF R, rank, id
<1>9. ASSUME NEW n \in 1..Cardinality(S), NEW x \in S, Cardinality(Below(S, R, x)) = n - 1
      PROVE  sorted[n] \in S /\ Cardinality(Below(S, R, sorted[n])) = n - 1
  <2>1. Cardinality(NodesBefore(S, x)) = n - 1
    BY <1>8, <1>9
  <2>2. sorted[n] \in S /\ Cardinality(NodesBefore(S, sorted[n])) = n - 1
    BY <2>1 DEF NthNode
  <2> HIDE DEF sorted
  <2>3. QED
    BY <1>8, <2>2
<1>10. SortedBy(S, R, sorted)
  <2>1. sorted = [n \in 1..Cardinality(S) |-> sorted[n]]
    OBVIOUS
  <2> HIDE DEF sorted
  <2>2. QED
    BY <1>9, <2>1 DEF SortedBy
<1>11. GraphNodes(target, records, limit) = Range(First(sorted, limit))
  BY DEF GraphNodes, Sorted, NthNode, NodesBefore, KindRank, S, AllNodes, OwnNodes, RelatedNodes
<1> HIDE DEF sorted
<1>12. sorted \in Seq(S) /\ Len(sorted) = Cardinality(S) /\ Range(sorted) = S
  BY <1>4, <1>7, <1>10, SortedIsAll
<1>13. First(sorted, limit) = sorted
  BY <1>4, <1>12, FirstOfList
<1>14. QED
  BY <1>11, <1>12, <1>13 DEF S

-----------------------------------------------------------------------------
(* The analytics that count the same records.                              *)

SameCustomer(records, r) == {q \in Range(records) : q.customerId = r.customerId}
SameAgent(records, r) == {q \in Range(records) : q.agentId = r.agentId}
SamePair(records, r) ==
  {q \in Range(records) : q.customerId = r.customerId /\ q.agentId = r.agentId}
Ratios(S) == {ratio(q.refundAmount, q.orderAmount) : q \in S}

LEMMA ImageIsFinite ==
  ASSUME NEW S, IsFiniteSet(S), NEW f
  PROVE  IsFiniteSet({f[x] : x \in S})
<1>1. [x \in S |-> f[x]] \in Surjection(S, {f[x] : x \in S})
  BY DEF Surjection
<1>2. QED
  BY <1>1, FS_Surjection

\* A customer's history counts what the features of the customer's returns count.
LEMMA HistoryAgrees ==
  ASSUME NEW records, NEW r \in Range(records)
  PROVE  LET f == calculateFeatures(r, records)
             history == buildCustomerHistory(r.customerId, records)
         IN /\ history.returnCount = f.customerReturnCount
            /\ history.approvedRefunds = f.customerApprovedRefundCount
            /\ history.linkedAgents[r.agentId] = f.customerAgentPairCount
<1> DEFINE f == calculateFeatures(r, records)
           history == buildCustomerHistory(r.customerId, records)
           approved == {q \in Range(records) : q.customerId = r.customerId /\ Approved(q)}
           agents == {q.agentId : q \in SameCustomer(records, r)}
           linked(a) ==
             Cardinality({q \in Range(records) : q.customerId = r.customerId /\ q.agentId = a})
<1>1. /\ f.customerReturnCount = Cardinality(SameCustomer(records, r))
      /\ f.customerApprovedRefundCount = Cardinality(approved)
      /\ f.customerAgentPairCount = Cardinality(SamePair(records, r))
  BY DEF calculateFeatures, Shared, Count, Those, SameCustomer, SamePair
<1>2. /\ history.returnCount = Cardinality(SameCustomer(records, r))
      /\ history.approvedRefunds = Cardinality(approved)
      /\ history.linkedAgents = [a \in agents |-> linked(a)]
  BY DEF buildCustomerHistory, Count, Those, SameCustomer
<1>3. r.agentId \in agents
  BY DEF SameCustomer
<1>4. linked(r.agentId) = Cardinality(SamePair(records, r))
  BY DEF SamePair
<1>5. QED
  <2> HIDE DEF f, history, approved, agents, linked
  <2>1. history.linkedAgents[r.agentId] = linked(r.agentId)
    BY <1>2, <1>3
  <2>2. QED
    BY <1>1, <1>2, <1>4, <2>1 DEF f, history

\* A customer's average ratio is between the ratios of the customer's returns, and what
\* was refunded in all is at least what one of them was.
LEMMA BehaviorAgrees ==
  ASSUME NEW records, IsFiniteSet(Range(records)), NEW r \in Range(records),
         \A q \in Range(records) : q.orderAmount \in Nat /\ q.refundAmount \in Nat
  PROVE  LET behavior == GetCustomerBehaviorSummary(r.customerId, records)
             ratios == Ratios(SameCustomer(records, r))
         IN /\ behavior.averageRefundRatio \in Min(ratios)..Max(ratios)
            /\ behavior.totalRefundAmount >= r.refundAmount
<1>1. PICK own : own = SameCustomer(records, r)
  OBVIOUS
<1>2. IsFiniteSet(own) /\ r \in own /\ own \subseteq Range(records)
  BY <1>1, FS_Subset DEF SameCustomer
<1>3. PICK refunds, shares : /\ refunds = [q \in own |-> q.refundAmount]
                             /\ shares = [q \in own |-> ratio(q.refundAmount, q.orderAmount)]
  OBVIOUS
<1>4. PICK behavior : behavior = GetCustomerBehaviorSummary(r.customerId, records)
  OBVIOUS
<1>5. /\ behavior.totalRefundAmount = SumFunction(refunds)
      /\ behavior.averageRefundRatio = mean(SumFunction(shares), Cardinality(own))
  BY <1>1, <1>3, <1>4 DEF GetCustomerBehaviorSummary, Those, SameCustomer
<1>6. behavior.totalRefundAmount >= r.refundAmount
  <2>1. DOMAIN refunds = own /\ \A q \in own : refunds[q] = q.refundAmount /\ refunds[q] \in Nat
    BY <1>2, <1>3
  <2>2. SumFunction(refunds) \in Nat /\ \A q \in own : refunds[q] <= SumFunction(refunds)
    BY <1>2, <2>1, SumOfNaturals
  <2>3. QED
    BY <1>2, <1>5, <2>1, <2>2
<1>7. PICK ratios : ratios = Ratios(own)
  OBVIOUS
<1>8. behavior.averageRefundRatio \in Min(ratios)..Max(ratios)
  <2>1. ratios \subseteq Nat /\ ratios # {} /\ \A q \in own : ratio(q.refundAmount, q.orderAmount) \in ratios
    BY <1>2, <1>7, RatioType DEF Ratios
  <2>2. IsFiniteSet(ratios)
    <3>1. ratios = {shares[q] : q \in own}
      BY <1>3, <1>7 DEF Ratios
    <3>2. QED
      BY <1>2, <3>1, ImageIsFinite
  <2>3. PICK lo, hi : lo = Min(ratios) /\ hi = Max(ratios)
    OBVIOUS
  <2>4. lo \in Nat /\ hi \in Nat /\ \A x \in ratios : x \in lo..hi
    <3>1. lo \in ratios /\ \A x \in ratios : lo <= x
      BY <2>1, <2>3, LeastNumber
    <3>2. hi \in ratios /\ \A x \in ratios : x <= hi
      BY <2>1, <2>2, <2>3, LargestNumber
    <3>3. QED
      BY <2>1, <3>1, <3>2
  <2>5. DOMAIN shares = own /\ \A q \in own : shares[q] \in lo..hi
    BY <1>3, <2>1, <2>4
  <2>6. mean(SumFunction(shares), Cardinality(own)) \in lo..hi
    BY <1>2, <2>4, <2>5, MeanIsBetween
  <2>7. QED
    BY <1>5, <2>3, <2>6
<1>9. QED
  BY <1>1, <1>4, <1>6, <1>7, <1>8

\* An agent's summary has the rate of the features, a largest pair no smaller than the
\* one a return belongs to, and an override count as near as its rounded rate allows.
LEMMA AgentSummaryAgrees ==
  ASSUME NEW records, IsFiniteSet(Range(records)), NEW r \in Range(records)
  PROVE  LET f == calculateFeatures(r, records)
             summary == buildAgentSummary(r.agentId, records)
             overrides == Cardinality({q \in Range(records) : q.agentId = r.agentId /\ q.override})
         IN /\ summary.approvalRate = f.agentApprovalRate
            /\ summary.repeatedCustomerPairCount >= f.customerAgentPairCount
            /\ ManualOverrideCount(summary)
                 \in (overrides - (summary.decisionsCount + 199) \div 200)
                     ..(overrides + summary.decisionsCount \div 200)
<1>1. PICK f, summary : /\ f = calculateFeatures(r, records)
                        /\ summary = buildAgentSummary(r.agentId, records)
  OBVIOUS
<1>2. PICK own, approved, overridden :
        /\ own = SameAgent(records, r)
        /\ approved = {q \in Range(records) : q.agentId = r.agentId /\ Approved(q)}
        /\ overridden = {q \in Range(records) : q.agentId = r.agentId /\ q.override}
  OBVIOUS
<1>3. /\ f.agentApprovalRate = ratio(Cardinality(approved), Cardinality(own))
      /\ f.customerAgentPairCount = Cardinality(SamePair(records, r))
  BY <1>1, <1>2 DEF calculateFeatures, Shared, Count, Those, SameAgent, SamePair
<1>4. /\ summary.decisionsCount = Cardinality(own)
      /\ summary.approvalRate = ratio(Cardinality(approved), Cardinality(own))
      /\ summary.manualOverrideRate = ratio(Cardinality(overridden), Cardinality(own))
  BY <1>1, <1>2 DEF buildAgentSummary, Count, Those, SameAgent
<1>5. r \in own /\ IsFiniteSet(own)
  BY <1>2, FS_Subset DEF SameAgent
<1>6. PICK o, d : o = Cardinality(overridden) /\ d = Cardinality(own)
  OBVIOUS
<1>7. o \in Nat /\ d \in Nat /\ d > 0
  <2>1. IsFiniteSet(overridden) /\ own # {}
    BY <1>2, <1>5, FS_Subset
  <2>2. QED
    BY <1>5, <1>6, <2>1, FS_CardinalityType, FS_EmptySet
<1>8. ManualOverrideCount(summary)
        \in (o - (summary.decisionsCount + 199) \div 200)..(o + summary.decisionsCount \div 200)
  <2>1. ManualOverrideCount(summary) = (ratio(o, d) * d) \div 100
    BY <1>4, <1>6 DEF ManualOverrideCount
  <2>2. (ratio(o, d) * d) \div 100 \in (o - (d + 199) \div 200)..(o + d \div 200)
    BY <1>7, CountFromRate
  <2>3. summary.decisionsCount = d
    BY <1>4, <1>6
  <2>4. QED
    BY <2>1, <2>2, <2>3
<1>9. summary.repeatedCustomerPairCount >= f.customerAgentPairCount
  <2>1. PICK of : of = [c \in {q.customerId : q \in own} |->
                     Cardinality({q \in Range(records) : q.agentId = r.agentId /\ q.customerId = c})]
    OBVIOUS
  <2>2. PICK counts : counts = {of[c] : c \in {q.customerId : q \in own}}
    OBVIOUS
  <2>3. summary.repeatedCustomerPairCount = Max(counts)
    <3>1. counts = {Cardinality({q \in Range(records) : q.agentId = r.agentId /\ q.customerId = c}) :
                      c \in {q.customerId : q \in own}}
      BY <2>1, <2>2
    <3>2. QED
      BY <1>1, <1>2, <3>1 DEF buildAgentSummary, Count, Those, SameAgent
  <2>4. counts \subseteq Nat
    <3>1. ASSUME NEW c \in {q.customerId : q \in own} PROVE of[c] \in Nat
      <4>1. IsFiniteSet({q \in Range(records) : q.agentId = r.agentId /\ q.customerId = c})
        BY FS_Subset
      <4>2. QED
        BY <2>1, <4>1, FS_CardinalityType
    <3>2. QED
      BY <2>2, <3>1
  <2>5. IsFiniteSet(counts)
    <3>1. IsFiniteSet({q.customerId : q \in own})
      <4>1. PICK customer : customer = [q \in own |-> q.customerId]
        OBVIOUS
      <4>2. {q.customerId : q \in own} = {customer[q] : q \in own}
        BY <4>1
      <4>3. QED
        BY <1>5, <4>2, ImageIsFinite
    <3>2. QED
      BY <2>2, <3>1, ImageIsFinite
  <2>6. Cardinality(SamePair(records, r)) \in counts
    <3>1. r.customerId \in {q.customerId : q \in own}
      BY <1>5
    <3>2. of[r.customerId] = Cardinality(SamePair(records, r))
      <4>1. {q \in Range(records) : q.agentId = r.agentId /\ q.customerId = r.customerId}
              = SamePair(records, r)
        BY DEF SamePair
      <4>2. QED
        BY <2>1, <3>1, <4>1
    <3>3. QED
      BY <2>2, <3>1, <3>2
  <2>7. QED
    BY <1>3, <2>3, <2>4, <2>5, <2>6, LargestNumber
<1>10. QED
  BY <1>1, <1>2, <1>3, <1>4, <1>6, <1>8, <1>9

-----------------------------------------------------------------------------
(* The top category of an agent.                                           *)

Nothing == [key |-> NoCategory, count |-> 0]
\* What one step of topKey's walk keeps.
Kept(counts, key, top) ==
  IF counts[key] > top.count \/ top.key = NoCategory
  THEN [key |-> key, count |-> counts[key]] ELSE top
\* What a walk in some order ends with.
Walk(counts, order) ==
  FoldLeft(LAMBDA top, key : Kept(counts, key, top), Nothing, order).key

\* The position a walk over some positions comes to last, and what makes g the walks
\* over each set of positions.
Latest(s) == Max(s)
AreWalks(g, counts, order, S) ==
  g = [s \in S |-> IF s = {} THEN Nothing
                   ELSE Kept(counts, order[Latest(s)], g[s \ {Latest(s)}])]

LEMMA Positions ==
  ASSUME NEW n \in Nat
  PROVE  /\ IsFiniteSet(1..n) /\ Cardinality(1..n) = n
         /\ \A s \in SUBSET (1..n) :
              /\ IsFiniteSet(s) /\ s \subseteq Nat
              /\ Cardinality(s) \in Nat /\ Cardinality(s) <= n
              /\ Cardinality(s) = 0 <=> s = {}
<1>1. 1 \in Int /\ n \in Int /\ (n - 1) + 1 = n
  OBVIOUS
<1>2. IsFiniteSet(1..n) /\ Cardinality(1..n) = n
  BY <1>1, FS_Interval
<1>3. ASSUME NEW s \in SUBSET (1..n)
      PROVE  /\ IsFiniteSet(s) /\ s \subseteq Nat
             /\ Cardinality(s) \in Nat /\ Cardinality(s) <= n
             /\ Cardinality(s) = 0 <=> s = {}
  <2>1. IsFiniteSet(s) /\ Cardinality(s) <= n
    BY <1>2, FS_Subset
  <2>2. Cardinality(s) \in Nat /\ (Cardinality(s) = 0 <=> s = {})
    BY <2>1, FS_CardinalityType, FS_EmptySet
  <2>3. QED
    BY <2>1, <2>2
<1>4. QED
  BY <1>2, <1>3

LEMMA LatestPosition ==
  ASSUME NEW n \in Nat, NEW s \in SUBSET (1..n), s # {}
  PROVE  /\ Latest(s) \in s /\ Latest(s) \in 1..n /\ \A i \in s : i <= Latest(s)
         /\ s \ {Latest(s)} \in SUBSET (1..n)
         /\ Cardinality(s) \in Nat \ {0}
         /\ Cardinality(s \ {Latest(s)}) = Cardinality(s) - 1
<1>1. IsFiniteSet(s) /\ s \subseteq Nat
  BY Positions
<1>2. Latest(s) \in s /\ \A i \in s : i <= Latest(s)
  BY <1>1, LargestNumber DEF Latest
<1>3. Cardinality(s) \in Nat /\ Cardinality(s) # 0
  BY <1>1, FS_CardinalityType, FS_EmptySet
<1>4. Cardinality(s \ {Latest(s)}) = Cardinality(s) - 1
  BY <1>1, <1>2, FS_RemoveElement
<1>5. QED
  BY <1>2, <1>3, <1>4

LEMMA WalksExist ==
  ASSUME NEW n \in Nat, NEW counts, NEW order
  PROVE  \E g : AreWalks(g, counts, order, SUBSET (1..n))
<1> DEFINE bad == {k \in Nat : ~(\E g : AreWalks(g, counts, order, Small(1..n, k)))}
<1>1. \A s \in SUBSET (1..n) : Cardinality(s) \in Nat /\ (Cardinality(s) = 0 <=> s = {})
  BY Positions
<1>2. \E g : AreWalks(g, counts, order, Small(1..n, 0))
  <2>1. AreWalks([s \in Small(1..n, 0) |-> Nothing], counts, order, Small(1..n, 0))
    BY <1>1 DEF AreWalks, Small
  <2>2. QED
    BY <2>1
<1>3. ASSUME NEW k \in Nat, NEW g, AreWalks(g, counts, order, Small(1..n, k))
      PROVE  \E h : AreWalks(h, counts, order, Small(1..n, k + 1))
  <2> DEFINE value(w, s) == IF s = {} THEN Nothing
                            ELSE Kept(counts, order[Latest(s)], w[s \ {Latest(s)}])
             h == [s \in Small(1..n, k + 1) |-> value(g, s)]
  <2>1. \A s \in Small(1..n, k) : g[s] = value(g, s) /\ s \in Small(1..n, k + 1)
    <3>1. \A s \in Small(1..n, k) : g[s] = value(g, s)
      BY <1>3, Zenon DEF AreWalks
    <3>2. \A s \in Small(1..n, k) : s \in Small(1..n, k + 1)
      BY <1>1 DEF Small
    <3>3. QED
      BY <3>1, <3>2
  <2>2. ASSUME NEW s \in Small(1..n, k + 1) PROVE value(g, s) = value(h, s)
    <3>1. CASE s = {}
      BY <3>1
    <3>2. CASE s # {}
      <4>1. s \ {Latest(s)} \in Small(1..n, k)
        BY <1>1, <3>2, LatestPosition DEF Small
      <4>2. h[s \ {Latest(s)}] = g[s \ {Latest(s)}]
        BY <2>1, <4>1
      <4>3. QED
        BY <3>2, <4>2
    <3>3. QED
      BY <3>1, <3>2
  <2>3. AreWalks(h, counts, order, Small(1..n, k + 1))
    BY <2>2 DEF AreWalks
  <2>4. QED
    BY <2>3
<1>4. bad = {}
  <2>1. SUFFICES ASSUME bad # {} PROVE FALSE
    OBVIOUS
  <2>2. Min(bad) \in bad /\ \A k \in bad : Min(bad) <= k
    <3>1. bad \subseteq Nat
      OBVIOUS
    <3> HIDE DEF bad
    <3>2. QED
      BY <2>1, <3>1, LeastNumber
  <2>3. PICK m \in bad : \A k \in bad : m <= k
    BY <2>2
  <2>4. m \in Nat /\ m # 0
    BY <1>2
  <2>5. m - 1 \in Nat /\ m - 1 \notin bad /\ (m - 1) + 1 = m
    BY <2>3, <2>4
  <2>6. QED
    BY <1>3, <2>3, <2>5
<1>5. PICK g : AreWalks(g, counts, order, Small(1..n, n))
  BY <1>4
<1>6. Small(1..n, n) = SUBSET (1..n)
  BY Positions DEF Small
<1>7. QED
  BY <1>5, <1>6

\* The fold of the library is the walk over all positions.
LEMMA WalkIsOne ==
  ASSUME NEW n \in Nat, NEW counts, NEW order, DOMAIN order = 1..n
  PROVE  \E g : AreWalks(g, counts, order, SUBSET (1..n)) /\ Walk(counts, order) = g[1..n].key
<1> DEFINE g == CHOOSE h : AreWalks(h, counts, order, SUBSET (1..n))
<1>1. AreWalks(g, counts, order, SUBSET (1..n))
  BY WalksExist
<1>2. Walk(counts, order) = g[1..n].key
  BY DEF Walk, FoldLeft, MapThenFoldSet, AreWalks, Latest
<1>3. QED
  BY <1>1, <1>2

\* What holds of a walk that saw nothing, and is kept by each step, holds of every walk.
LEMMA WalksSatisfy ==
  ASSUME NEW n \in Nat, NEW counts, NEW order, NEW g,
         AreWalks(g, counts, order, SUBSET (1..n)),
         NEW P, Nothing \in P[{}],
         \A s \in SUBSET (1..n) : \A t :
           s # {} /\ t \in P[s \ {Latest(s)}] => Kept(counts, order[Latest(s)], t) \in P[s]
  PROVE  \A s \in SUBSET (1..n) : g[s] \in P[s]
<1> DEFINE sizes == {k \in Nat : \E s \in SUBSET (1..n) : Cardinality(s) = k /\ g[s] \notin P[s]}
<1>1. SUFFICES ASSUME NEW s \in SUBSET (1..n), g[s] \notin P[s]
               PROVE  FALSE
  OBVIOUS
<1>2. \A r \in SUBSET (1..n) : Cardinality(r) \in Nat
  BY Positions
<1>3. sizes \subseteq Nat /\ sizes # {}
  BY <1>1, <1>2
<1>4. Min(sizes) \in sizes /\ \A k \in sizes : Min(sizes) <= k
  <2> HIDE DEF sizes
  <2>1. QED
    BY <1>3, LeastNumber
<1>5. PICK m \in sizes : \A k \in sizes : m <= k
  BY <1>4
<1>6. PICK r \in SUBSET (1..n) : Cardinality(r) = m /\ g[r] \notin P[r]
  OBVIOUS
<1>7. g[r] = IF r = {} THEN Nothing ELSE Kept(counts, order[Latest(r)], g[r \ {Latest(r)}])
  BY Zenon DEF AreWalks
<1>8. r # {}
  BY <1>6, <1>7
<1>9. /\ r \ {Latest(r)} \in SUBSET (1..n)
      /\ Cardinality(r \ {Latest(r)}) = m - 1 /\ m \in Nat \ {0}
  BY <1>6, <1>8, LatestPosition
<1>10. PICK q \in SUBSET (1..n) : q = r \ {Latest(r)} /\ Cardinality(q) = m - 1
  BY <1>9
<1>11. g[q] \in P[q]
  <2>1. m - 1 \in Nat /\ ~(m <= m - 1)
    BY <1>9
  <2>2. m - 1 \notin sizes
    <3> HIDE DEF sizes
    <3>1. QED
      BY <1>5, <2>1
  <2>3. QED
    BY <1>10, <2>1, <2>2
<1>12. QED
  BY <1>6, <1>7, <1>8, <1>10, <1>11, Zenon

\* An order of the keys of some counts: each of them at one position.
IsOrder(order, K) ==
  /\ order \in [1..Cardinality(K) -> K]
  /\ \A i, j \in 1..Cardinality(K) : order[i] = order[j] => i = j
  /\ \A k \in K : \E i \in 1..Cardinality(K) : order[i] = k

LEMMA OrdersAreOrders ==
  ASSUME NEW K, IsFiniteSet(K)
  PROVE  \A order : order \in SetToSeqs(K) <=> IsOrder(order, K)
<1>1. Cardinality(K) \in Nat
  BY FS_CardinalityType
<1>2. ASSUME NEW order, IsOrder(order, K)
      PROVE  order \in SetToSeqs(K)
  BY <1>2 DEF SetToSeqs, IsOrder
<1>3. ASSUME NEW order \in SetToSeqs(K)
      PROVE  IsOrder(order, K)
  <2>1. /\ order \in [1..Cardinality(K) -> K]
        /\ \A i, j \in 1..Cardinality(K) : order[i] = order[j] => i = j
    BY <1>3 DEF SetToSeqs
  <2>2. order \in Injection(1..Cardinality(K), K)
    BY <2>1 DEF Injection, IsInjective
  <2>3. IsFiniteSet(1..Cardinality(K)) /\ Cardinality(1..Cardinality(K)) = Cardinality(K)
    BY <1>1, Positions
  <2>4. order \in Surjection(1..Cardinality(K), K)
    BY <2>2, <2>3, FS_Injection
  <2>5. QED
    BY <2>1, <2>4 DEF Surjection, IsOrder
<1>4. QED
  BY <1>2, <1>3

\* Any key can be at any position of an order.
LEMMA OrderWith ==
  ASSUME NEW K, IsFiniteSet(K), NEW d \in K, NEW p \in 1..Cardinality(K)
  PROVE  \E order \in SetToSeqs(K) : order[p] = d
<1>1. Cardinality(K) \in Nat
  BY FS_CardinalityType
<1>2. PICK f \in Bijection(1..Cardinality(K), K) : TRUE
  BY FS_NatBijection, FS_CountingElements, <1>1 DEF ExistsBijection
<1>3. /\ f \in [1..Cardinality(K) -> K]
      /\ \A i, j \in 1..Cardinality(K) : f[i] = f[j] => i = j
      /\ \A k \in K : \E i \in 1..Cardinality(K) : f[i] = k
  BY <1>2 DEF Bijection, Injection, IsInjective, Surjection
<1>4. PICK q \in 1..Cardinality(K) : f[q] = d
  BY <1>3
<1> DEFINE order == [i \in 1..Cardinality(K) |->
                       IF i = p THEN d ELSE IF i = q THEN f[p] ELSE f[i]]
<1>5. order \in [1..Cardinality(K) -> K] /\ order[p] = d
  BY <1>3
<1>6. \A i, j \in 1..Cardinality(K) : i # j => order[i] # order[j]
  BY <1>3, <1>4
<1>7. order \in SetToSeqs(K)
  BY <1>5, <1>6 DEF SetToSeqs
<1>8. QED
  BY <1>5, <1>7

\* What a walk keeps on the way.
Tops(K) == [key : K \cup {NoCategory}, count : Nat]

LEMMA KeptIsOne ==
  ASSUME NEW K, NEW counts \in [K -> Nat], NEW key \in K, NEW t \in Tops(K)
  PROVE  /\ Kept(counts, key, t) \in Tops(K)
         /\ \/ /\ counts[key] > t.count \/ t.key = NoCategory
               /\ Kept(counts, key, t).key = key /\ Kept(counts, key, t).count = counts[key]
            \/ /\ ~(counts[key] > t.count) /\ t.key # NoCategory
               /\ Kept(counts, key, t) = t
<1>1. CASE counts[key] > t.count \/ t.key = NoCategory
  <2>1. PICK u : u = [key |-> key, count |-> counts[key]]
    OBVIOUS
  <2>2. u \in Tops(K) /\ u.key = key /\ u.count = counts[key]
    BY <2>1 DEF Tops
  <2>3. Kept(counts, key, t) = u
    BY <1>1, <2>1 DEF Kept
  <2>4. QED
    BY <1>1, <2>2, <2>3
<1>2. CASE ~(counts[key] > t.count \/ t.key = NoCategory)
  BY <1>2 DEF Kept
<1>3. QED
  BY <1>1, <1>2

\* A walk ends with the first key that has a name and the largest count.
LEMMA WalkFindsLeader ==
  ASSUME NEW K, IsFiniteSet(K), NEW counts \in [K -> Nat], NEW order, IsOrder(order, K),
         NEW m \in 1..Cardinality(K), order[m] # NoCategory,
         \A k \in K : counts[k] <= counts[order[m]],
         \A i \in 1..(m - 1) : order[i] = NoCategory \/ counts[order[i]] < counts[order[m]]
  PROVE  Walk(counts, order) = order[m]
<1>1. PICK n \in Nat : n = Cardinality(K)
  BY FS_CardinalityType
<1>2. order \in [1..n -> K] /\ DOMAIN order = 1..n /\ m \in 1..n
  BY <1>1 DEF IsOrder
<1>3. PICK d \in K : d = order[m]
  BY <1>2
<1>4. counts[d] \in Nat /\ d # NoCategory /\ \A k \in K : counts[k] \in Nat /\ counts[k] <= counts[d]
  BY <1>3
<1>5. \A i, j \in 1..n : order[i] = order[j] => i = j
  BY <1>1 DEF IsOrder
<1> DEFINE Early(s) == \A i \in s : i < m
           Fits(s, t) == /\ m \in s => t.key = d /\ t.count = counts[d]
                         /\ Early(s) => /\ t.count <= counts[d]
                                        /\ t.key = NoCategory \/ t.count < counts[d]
           P == [s \in SUBSET (1..n) |-> {t \in Tops(K) : Fits(s, t)}]
<1>6. \A s \in SUBSET (1..n) : \A t : t \in P[s] <=> t \in Tops(K) /\ Fits(s, t)
  OBVIOUS
<1>7. Nothing \in P[{}]
  <2>1. Nothing \in Tops(K) /\ Nothing.count = 0 /\ Nothing.key = NoCategory
    BY DEF Nothing, Tops
  <2>2. Fits({}, Nothing)
    BY <1>4, <2>1
  <2> HIDE DEF P, Fits
  <2>3. QED
    BY <1>6, <2>1, <2>2
<1>8. ASSUME NEW s \in SUBSET (1..n), NEW t, s # {}, t \in P[s \ {Latest(s)}]
      PROVE  Kept(counts, order[Latest(s)], t) \in P[s]
  <2>1. PICK l \in 1..n : l = Latest(s) /\ l \in s /\ \A i \in s : i <= l
    BY <1>8, LatestPosition
  <2>2. PICK key \in K : key = order[l]
    BY <1>2
  <2>3. t \in Tops(K) /\ Fits(s \ {l}, t)
    <3> HIDE DEF P, Fits
    <3>1. QED
      BY <1>6, <1>8, <2>1
  <2>4. PICK u : u = Kept(counts, key, t)
    OBVIOUS
  <2>5. /\ u \in Tops(K)
        /\ \/ /\ counts[key] > t.count \/ t.key = NoCategory
              /\ u.key = key /\ u.count = counts[key]
           \/ /\ ~(counts[key] > t.count) /\ t.key # NoCategory
              /\ u = t
    BY <2>3, <2>4, KeptIsOne
  <2>6. t.count \in Nat /\ counts[key] \in Nat /\ counts[key] <= counts[d]
    BY <1>4, <2>3 DEF Tops
  <2>7. CASE l = m
    <3>1. key = d /\ Early(s \ {l}) /\ m \in s /\ ~Early(s)
      BY <1>3, <2>1, <2>2, <2>7
    <3>2. counts[d] > t.count \/ t.key = NoCategory
      BY <1>4, <2>3, <2>6, <3>1
    <3>3. u.key = d /\ u.count = counts[d]
      BY <2>5, <3>1, <3>2
    <3>4. Fits(s, u)
      BY <3>1, <3>3
    <3> HIDE DEF P, Fits
    <3>5. QED
      BY <1>6, <2>1, <2>2, <2>4, <2>5, <3>4
  <2>8. CASE l # m /\ m \in s
    <3>1. t.key = d /\ t.count = counts[d]
      BY <2>3, <2>8
    <3>2. u = t /\ ~Early(s)
      BY <1>4, <2>5, <2>6, <2>8, <3>1
    <3>3. Fits(s, u)
      BY <2>8, <3>1, <3>2
    <3> HIDE DEF P, Fits
    <3>4. QED
      BY <1>6, <2>1, <2>2, <2>4, <2>5, <3>3
  <2>9. CASE m \notin s
    <3>1. ASSUME Early(s)
          PROVE  u.count <= counts[d] /\ (u.key = NoCategory \/ u.count < counts[d])
      <4>1. Early(s \ {l}) /\ l \in 1..(m - 1)
        BY <1>2, <2>1, <3>1
      <4>2. t.count <= counts[d] /\ (t.key = NoCategory \/ t.count < counts[d])
        BY <2>3, <4>1
      <4>3. key = NoCategory \/ counts[key] < counts[d]
        BY <1>3, <2>2, <4>1
      <4>4. QED
        BY <2>5, <2>6, <4>2, <4>3
    <3>2. Fits(s, u)
      BY <2>9, <3>1
    <3> HIDE DEF P, Fits
    <3>3. QED
      BY <1>6, <2>1, <2>2, <2>4, <2>5, <3>2
  <2>10. QED
    BY <2>7, <2>8, <2>9
<1>9. PICK g : AreWalks(g, counts, order, SUBSET (1..n)) /\ Walk(counts, order) = g[1..n].key
  BY <1>2, WalkIsOne
<1>10. g[1..n] \in P[1..n]
  <2> HIDE DEF P
  <2>1. \A s \in SUBSET (1..n) : g[s] \in P[s]
    BY <1>7, <1>8, <1>9, WalksSatisfy
  <2>2. QED
    BY <2>1
<1>11. Fits(1..n, g[1..n])
  <2> HIDE DEF P, Fits
  <2>1. QED
    BY <1>6, <1>10
<1>12. QED
  BY <1>2, <1>3, <1>9, <1>11

\* What a walk keeps before its last key is a count it saw.
LEMMA WalkEndsAtLast ==
  ASSUME NEW K, IsFiniteSet(K), NEW counts \in [K -> Nat], NEW order, IsOrder(order, K),
         NEW n \in Nat \ {0}, n = Cardinality(K)
  PROVE  \E t \in Tops(K) :
           /\ Walk(counts, order) = Kept(counts, order[n], t).key
           /\ t.count = 0 \/ \E i \in 1..(n - 1) : t.count = counts[order[i]]
<1>1. order \in [1..n -> K] /\ DOMAIN order = 1..n /\ n \in Nat
  BY DEF IsOrder
<1> DEFINE Fits(s, t) == n \notin s =>
             t.count = 0 \/ \E i \in 1..(n - 1) : t.count = counts[order[i]]
           P == [s \in SUBSET (1..n) |-> {t \in Tops(K) : Fits(s, t)}]
<1>2. \A s \in SUBSET (1..n) : \A t : t \in P[s] <=> t \in Tops(K) /\ Fits(s, t)
  OBVIOUS
<1>3. Nothing \in P[{}]
  <2>1. Nothing \in Tops(K) /\ Nothing.count = 0
    BY DEF Nothing, Tops
  <2>2. QED
    BY <2>1
<1>4. ASSUME NEW s \in SUBSET (1..n), NEW t, s # {}, t \in P[s \ {Latest(s)}]
      PROVE  Kept(counts, order[Latest(s)], t) \in P[s]
  <2>1. PICK l \in 1..n : l = Latest(s) /\ l \in s
    BY <1>4, LatestPosition
  <2>2. PICK key \in K : key = order[l]
    BY <1>1
  <2>3. t \in Tops(K) /\ Fits(s \ {l}, t)
    <3> HIDE DEF P, Fits
    <3>1. QED
      BY <1>2, <1>4, <2>1
  <2>4. PICK u : u = Kept(counts, key, t)
    OBVIOUS
  <2>5. u \in Tops(K) /\ (u.count = counts[key] \/ u = t)
    BY <2>3, <2>4, KeptIsOne
  <2>6. ASSUME n \notin s
        PROVE  u.count = 0 \/ \E i \in 1..(n - 1) : u.count = counts[order[i]]
    <3>1. l \in 1..(n - 1) /\ n \notin s \ {l}
      BY <2>1, <2>6
    <3>2. QED
      BY <2>2, <2>3, <2>5, <3>1
  <2>7. Fits(s, u)
    BY <2>6
  <2> HIDE DEF P, Fits
  <2>8. QED
    BY <1>2, <2>1, <2>2, <2>4, <2>5, <2>7
<1>5. PICK g : AreWalks(g, counts, order, SUBSET (1..n)) /\ Walk(counts, order) = g[1..n].key
  <2>1. PICK k \in Nat : k = n
    BY <1>1
  <2>2. DOMAIN order = 1..k
    BY <1>1, <2>1
  <2>3. \E g : AreWalks(g, counts, order, SUBSET (1..k)) /\ Walk(counts, order) = g[1..k].key
    BY <2>2, WalkIsOne
  <2>4. QED
    BY <2>1, <2>3
<1>6. Latest(1..n) = n /\ 1..n # {}
  <2>1. n \in 1..n
    OBVIOUS
  <2>2. Latest(1..n) \in 1..n /\ \A i \in 1..n : i <= Latest(1..n)
    BY <2>1, LatestPosition
  <2>3. QED
    BY <2>1, <2>2
<1>7. g[1..n] = Kept(counts, order[n], g[(1..n) \ {n}])
  <2>1. g[1..n] = IF 1..n = {} THEN Nothing
                  ELSE Kept(counts, order[Latest(1..n)], g[(1..n) \ {Latest(1..n)}])
    BY <1>5, Zenon DEF AreWalks
  <2>2. QED
    BY <1>6, <2>1
<1>8. g[(1..n) \ {n}] \in P[(1..n) \ {n}]
  <2> HIDE DEF P
  <2>1. \A s \in SUBSET (1..n) : g[s] \in P[s]
    BY <1>3, <1>4, <1>5, WalksSatisfy
  <2>2. QED
    BY <2>1
<1>9. g[(1..n) \ {n}] \in Tops(K) /\ Fits((1..n) \ {n}, g[(1..n) \ {n}])
  <2> HIDE DEF P, Fits
  <2>1. QED
    BY <1>2, <1>8
<1>10. QED
  BY <1>5, <1>7, <1>9

\* The operator of the code is a walk in each order.
LEMMA TopKeyWalks ==
  ASSUME NEW counts
  PROVE  topKey(counts) = {Walk(counts, order) : order \in SetToSeqs(DOMAIN counts)}
BY DEF topKey, Walk, Kept, Nothing

LEMMA WalkIsKey ==
  ASSUME NEW K, IsFiniteSet(K), NEW counts \in [K -> Nat], NEW order \in SetToSeqs(K)
  PROVE  Walk(counts, order) \in K \cup {NoCategory} /\ (K = {} => Walk(counts, order) = NoCategory)
<1>1. PICK n \in Nat : n = Cardinality(K) /\ (n = 0 <=> K = {})
  BY FS_CardinalityType, FS_EmptySet
<1>2. IsOrder(order, K)
  BY OrdersAreOrders
<1>3. CASE n = 0
  <2>1. DOMAIN order = 1..0
    BY <1>1, <1>2, <1>3 DEF IsOrder
  <2>2. PICK g : AreWalks(g, counts, order, SUBSET (1..0)) /\ Walk(counts, order) = g[1..0].key
    BY <2>1, WalkIsOne
  <2>3. g[1..0] = Nothing
    <3>1. 1..0 = {} /\ 1..0 \in SUBSET (1..0)
      OBVIOUS
    <3>2. g[1..0] = IF 1..0 = {} THEN Nothing
                    ELSE Kept(counts, order[Latest(1..0)], g[(1..0) \ {Latest(1..0)}])
      BY <2>2, <3>1, Zenon DEF AreWalks
    <3>3. QED
      BY <3>1, <3>2
  <2>4. QED
    BY <2>2, <2>3 DEF Nothing
<1>4. CASE n # 0
  <2>1. PICK t \in Tops(K) : Walk(counts, order) = Kept(counts, order[n], t).key
    BY <1>1, <1>2, <1>4, WalkEndsAtLast
  <2>2. n \in 1..n /\ order[n] \in K
    BY <1>1, <1>2, <1>4 DEF IsOrder
  <2>3. Kept(counts, order[n], t) \in Tops(K)
    BY <2>2, KeptIsOne
  <2>4. QED
    BY <1>1, <1>4, <2>1, <2>3 DEF Tops
<1>5. QED
  BY <1>3, <1>4

\* The keys with a name and the largest count.
Leaders(counts) ==
  {k \in DOMAIN counts \ {NoCategory} : \A x \in DOMAIN counts : counts[x] <= counts[k]}

LEMMA LeadersAreTop ==
  ASSUME NEW K, IsFiniteSet(K), NEW counts \in [K -> Nat]
  PROVE  /\ Leaders(counts) \subseteq topKey(counts)
         /\ \A d : Leaders(counts) = {d} => topKey(counts) = {d}
<1>1. DOMAIN counts = K /\ Cardinality(K) \in Nat
  BY FS_CardinalityType
<1>2. \A d \in Leaders(counts) : d \in K /\ d # NoCategory /\ \A x \in K : counts[x] <= counts[d]
  BY <1>1 DEF Leaders
<1>3. ASSUME NEW d \in Leaders(counts)
      PROVE  d \in topKey(counts)
  <2>1. 1 \in 1..Cardinality(K)
    <3>1. Cardinality(K) # 0
      BY <1>2, FS_EmptySet
    <3>2. QED
      BY <1>1, <3>1
  <2>2. PICK order \in SetToSeqs(K) : order[1] = d
    BY <1>2, <2>1, OrderWith
  <2>3. IsOrder(order, K) /\ 1..(1 - 1) = {}
    BY OrdersAreOrders
  <2>4. Walk(counts, order) = d
    BY <1>2, <2>1, <2>2, <2>3, WalkFindsLeader
  <2>5. QED
    BY <1>1, <2>2, <2>4, TopKeyWalks
<1>4. ASSUME NEW d, Leaders(counts) = {d}, NEW order \in SetToSeqs(K)
      PROVE  Walk(counts, order) = d
  <2>1. d \in K /\ d # NoCategory /\ \A x \in K : counts[x] <= counts[d]
    BY <1>2, <1>4
  <2>2. IsOrder(order, K)
    BY OrdersAreOrders
  <2>3. PICK m \in 1..Cardinality(K) : order[m] = d
    BY <2>1, <2>2 DEF IsOrder
  <2>4. ASSUME NEW i \in 1..(m - 1)
        PROVE  order[i] = NoCategory \/ counts[order[i]] < counts[order[m]]
    <3>1. i \in 1..Cardinality(K) /\ i # m
      BY <1>1
    <3>2. PICK k \in K : k = order[i] /\ k # d
      BY <2>2, <2>3, <3>1 DEF IsOrder
    <3>3. k \notin Leaders(counts)
      BY <1>4, <3>2
    <3>4. CASE k # NoCategory
      <4>1. PICK x \in K : ~(counts[x] <= counts[k])
        BY <1>1, <3>3, <3>4 DEF Leaders
      <4>2. counts[x] \in Nat /\ counts[k] \in Nat /\ counts[d] \in Nat /\ counts[x] <= counts[d]
        BY <2>1
      <4>3. QED
        BY <2>3, <3>2, <4>1, <4>2
    <3>5. QED
      BY <3>2, <3>4
  <2>5. QED
    BY <2>1, <2>2, <2>3, <2>4, WalkFindsLeader
<1>5. \E order : order \in SetToSeqs(K) \/ Leaders(counts) = {}
  <2>1. ASSUME NEW d \in Leaders(counts)
        PROVE  \E order : order \in SetToSeqs(K)
    <3>1. d \in K /\ Cardinality(K) # 0
      BY <1>2, FS_EmptySet
    <3>2. 1 \in 1..Cardinality(K)
      BY <1>1, <3>1
    <3>3. QED
      BY <3>1, <3>2, OrderWith
  <2>2. QED
    BY <2>1
<1>6. ASSUME NEW d, Leaders(counts) = {d}
      PROVE  topKey(counts) = {d}
  BY <1>1, <1>4, <1>5, <1>6, TopKeyWalks
<1>7. QED
  BY <1>3, <1>6

\* Without one, the blank key has more than each of the others.
LEMMA BlankLeads ==
  ASSUME NEW K, IsFiniteSet(K), K # {}, NEW counts \in [K -> Nat], Leaders(counts) = {}
  PROVE  NoCategory \in K /\ \A x \in K : x # NoCategory => counts[x] < counts[NoCategory]
<1> DEFINE values == {counts[k] : k \in K}
<1>1. DOMAIN counts = K /\ \A k \in K : counts[k] \in Nat
  OBVIOUS
<1>2. Max(values) \in values /\ \A y \in values : y <= Max(values)
  <2>1. IsFiniteSet(values)
    BY ImageIsFinite
  <2>2. values \subseteq Nat /\ values # {}
    BY <1>1
  <2> HIDE DEF values
  <2>3. QED
    BY <2>1, <2>2, LargestNumber
<1>3. PICK k \in K : \A x \in K : counts[x] <= counts[k]
  BY <1>2
<1>4. k = NoCategory
  BY <1>1, <1>3 DEF Leaders
<1>5. ASSUME NEW x \in K, x # NoCategory, ~(counts[x] < counts[NoCategory])
      PROVE  FALSE
  <2>1. counts[x] = counts[k]
    BY <1>1, <1>3, <1>4, <1>5
  <2>2. x \in Leaders(counts)
    BY <1>1, <1>3, <1>5, <2>1 DEF Leaders
  <2>3. QED
    BY <2>2
<1>6. QED
  BY <1>4, <1>5

\* Then a walk that ends at the blank key keeps it, and any other does not.
LEMMA BlankIsNotAlone ==
  ASSUME NEW K, IsFiniteSet(K), NEW counts \in [K -> Nat \ {0}], Leaders(counts) = {},
         Cardinality(K) > 1
  PROVE  \E c, d \in topKey(counts) : c # d
<1>1. PICK n \in Nat \ {0} : n = Cardinality(K) /\ n > 1 /\ n \in 1..n
  BY FS_CardinalityType
<1>2. K # {} /\ counts \in [K -> Nat] /\ DOMAIN counts = K
  BY <1>1, FS_EmptySet
<1>3. NoCategory \in K /\ \A x \in K : x # NoCategory => counts[x] < counts[NoCategory]
  BY <1>2, BlankLeads
<1>4. PICK x \in K : x # NoCategory
  <2>1. SUFFICES ASSUME K = {NoCategory} PROVE FALSE
    BY <1>3
  <2>2. Cardinality({NoCategory}) = 1
    BY FS_Singleton
  <2>3. QED
    BY <1>1, <2>1, <2>2
<1>5. NoCategory \in topKey(counts)
  <2>1. PICK order \in SetToSeqs(K) : order[n] = NoCategory
    BY <1>1, <1>3, OrderWith
  <2>2. IsOrder(order, K)
    BY OrdersAreOrders
  <2>3. PICK t \in Tops(K) :
          /\ Walk(counts, order) = Kept(counts, order[n], t).key
          /\ t.count = 0 \/ \E i \in 1..(n - 1) : t.count = counts[order[i]]
    BY <1>1, <1>2, <2>2, WalkEndsAtLast
  <2>4. counts[NoCategory] \in Nat \ {0} /\ t.count \in Nat
    BY <1>3 DEF Tops
  <2>5. ASSUME NEW i \in 1..(n - 1)
        PROVE  counts[order[i]] < counts[NoCategory]
    <3>1. i \in 1..n /\ n \in 1..n /\ i # n
      BY <1>1
    <3>2. order[i] \in K /\ order[i] # order[n]
      BY <1>1, <2>2, <3>1 DEF IsOrder
    <3>3. QED
      BY <1>3, <2>1, <3>2
  <2>6. counts[NoCategory] > t.count
    <3>1. CASE t.count = 0
      BY <2>4, <3>1
    <3>2. CASE \E i \in 1..(n - 1) : t.count = counts[order[i]]
      BY <2>4, <2>5, <3>2
    <3>3. QED
      BY <2>3, <3>1, <3>2
  <2>7. Kept(counts, NoCategory, t).key = NoCategory
    BY <1>2, <1>3, <2>4, <2>6, KeptIsOne
  <2>8. QED
    BY <1>2, <2>1, <2>3, <2>7, TopKeyWalks
<1>6. \E d \in topKey(counts) : d # NoCategory
  <2>1. PICK order \in SetToSeqs(K) : order[n] = x
    BY <1>1, <1>4, OrderWith
  <2>2. IsOrder(order, K)
    BY OrdersAreOrders
  <2>3. PICK t \in Tops(K) : Walk(counts, order) = Kept(counts, order[n], t).key
    BY <1>1, <1>2, <2>2, WalkEndsAtLast
  <2>4. Kept(counts, x, t).key # NoCategory
    BY <1>2, <1>4, KeptIsOne
  <2>5. QED
    BY <1>2, <2>1, <2>3, <2>4, TopKeyWalks
<1>7. QED
  BY <1>5, <1>6

\* One key has a name, at least the blank key's count and more than every other.
TopIsClear(counts) ==
  \/ Cardinality(DOMAIN counts) <= 1
  \/ \E c \in DOMAIN counts \ {NoCategory} :
       \A x \in DOMAIN counts \ {c} :
         counts[x] <= counts[c] /\ (x # NoCategory => counts[x] < counts[c])

\* The walk over the map ends the same in every order exactly then.
LEMMA ClearTopIsOne ==
  ASSUME NEW K, IsFiniteSet(K), NEW counts \in [K -> Nat \ {0}]
  PROVE  Cardinality(topKey(counts)) = 1 <=> TopIsClear(counts)
<1>1. DOMAIN counts = K /\ counts \in [K -> Nat] /\ \A k \in K : counts[k] \in Nat
  OBVIOUS
<1>2. topKey(counts) \subseteq K \cup {NoCategory} /\ (K = {} => topKey(counts) \subseteq {NoCategory})
  <2>1. \A order \in SetToSeqs(K) :
          /\ Walk(counts, order) \in K \cup {NoCategory}
          /\ K = {} => Walk(counts, order) = NoCategory
    BY <1>1, WalkIsKey
  <2>2. QED
    BY <1>1, <2>1, TopKeyWalks
<1>3. topKey(counts) # {}
  <2>1. \E order : order \in SetToSeqs(K)
    <3>1. CASE K = {}
      <4>1. IsOrder([i \in 1..0 |-> 0], {})
        BY FS_EmptySet DEF IsOrder
      <4>2. QED
        BY <3>1, <4>1, FS_EmptySet, OrdersAreOrders
    <3>2. CASE K # {}
      <4>1. PICK d \in K : TRUE
        BY <3>2
      <4>2. 1 \in 1..Cardinality(K)
        BY <3>2, FS_CardinalityType, FS_EmptySet
      <4>3. QED
        BY <4>1, <4>2, OrderWith
    <3>3. QED
      BY <3>1, <3>2
  <2>2. QED
    BY <1>1, <2>1, TopKeyWalks
<1>4. IsFiniteSet(topKey(counts))
  BY <1>2, FS_AddElement, FS_Subset
<1>5. \A d : (\A c \in topKey(counts) : c = d) => Cardinality(topKey(counts)) = 1
  <2>1. SUFFICES ASSUME NEW d, \A c \in topKey(counts) : c = d
                 PROVE  Cardinality(topKey(counts)) = 1
    OBVIOUS
  <2>2. topKey(counts) = {d}
    BY <1>3, <2>1
  <2>3. QED
    BY <2>2, FS_Singleton
<1>6. ASSUME Cardinality(topKey(counts)) = 1
      PROVE  \A c, d \in topKey(counts) : c = d
  <2>1. PICK e : topKey(counts) = {e}
    BY <1>4, <1>6, FS_Singleton
  <2>2. QED
    BY <2>1
<1>7. CASE Leaders(counts) # {}
  <2>1. PICK c \in Leaders(counts) : TRUE
    BY <1>7
  <2>2. c \in K /\ c # NoCategory /\ \A x \in K : counts[x] <= counts[c]
    BY <1>1 DEF Leaders
  <2>3. CASE Leaders(counts) = {c}
    <3>1. topKey(counts) = {c}
      BY <1>1, <2>3, LeadersAreTop
    <3>2. ASSUME NEW x \in K, x # c, x # NoCategory
          PROVE  counts[x] < counts[c]
      <4>1. x \notin Leaders(counts)
        BY <2>3, <3>2
      <4>2. PICK y \in K : ~(counts[y] <= counts[x])
        BY <1>1, <3>2, <4>1 DEF Leaders
      <4>3. QED
        BY <1>1, <2>2, <4>2
    <3>3. TopIsClear(counts)
      BY <1>1, <2>2, <3>2 DEF TopIsClear
    <3>4. QED
      BY <3>1, <3>3, FS_Singleton
  <2>4. CASE Leaders(counts) # {c}
    <3>1. PICK d \in Leaders(counts) : d # c
      BY <2>1, <2>4
    <3>2. d \in K /\ d # NoCategory /\ counts[c] = counts[d] /\ \A x \in K : counts[x] <= counts[d]
      <4>1. d \in K /\ d # NoCategory /\ \A x \in K : counts[x] <= counts[d]
        BY <1>1 DEF Leaders
      <4>2. QED
        BY <1>1, <2>2, <4>1
    <3>3. c \in topKey(counts) /\ d \in topKey(counts)
      BY <1>1, LeadersAreTop
    <3>4. Cardinality(topKey(counts)) # 1
      BY <1>6, <3>1, <3>3
    <3>5. Cardinality(K) > 1
      <4>1. Cardinality(K) \in Nat /\ Cardinality(K) # 0
        BY <2>2, FS_CardinalityType, FS_EmptySet
      <4>2. Cardinality(K) # 1
        BY <2>2, <3>1, <3>2, FS_Singleton
      <4>3. QED
        BY <4>1, <4>2
    <3>6. ASSUME NEW e \in K, e # NoCategory,
                 \A x \in K \ {e} : counts[x] <= counts[e] /\ (x # NoCategory => counts[x] < counts[e])
          PROVE  FALSE
      <4>1. PICK x \in {c, d} : x # e
        BY <3>1
      <4>2. x \in K /\ x # NoCategory /\ counts[x] = counts[c] /\ counts[e] <= counts[c]
        BY <2>2, <3>2, <4>1
      <4>3. counts[x] < counts[e]
        BY <3>6, <4>1, <4>2
      <4>4. QED
        BY <1>1, <4>2, <4>3
    <3>7. ~TopIsClear(counts)
      <4>1. Cardinality(K) \in Nat
        BY FS_CardinalityType
      <4>2. QED
        BY <1>1, <3>5, <3>6, <4>1 DEF TopIsClear
    <3>8. QED
      BY <3>4, <3>7
  <2>5. QED
    BY <2>3, <2>4
<1>8. CASE Leaders(counts) = {} /\ Cardinality(K) > 1
  <2>1. PICK c, d \in topKey(counts) : c # d
    BY <1>8, BlankIsNotAlone
  <2>2. Cardinality(topKey(counts)) # 1
    BY <1>6, <2>1
  <2>3. K # {} /\ Cardinality(K) \in Nat
    BY <1>8, FS_CardinalityType, FS_EmptySet
  <2>4. NoCategory \in K /\ \A x \in K : x # NoCategory => counts[x] < counts[NoCategory]
    BY <1>1, <1>8, <2>3, BlankLeads
  <2>5. ASSUME NEW e \in K, e # NoCategory, \A x \in K \ {e} : counts[x] <= counts[e]
        PROVE  FALSE
    <3>1. counts[NoCategory] <= counts[e] /\ counts[e] < counts[NoCategory]
      BY <2>4, <2>5
    <3>2. QED
      BY <1>1, <2>4, <3>1
  <2>6. ~TopIsClear(counts)
    BY <1>1, <1>8, <2>3, <2>5 DEF TopIsClear
  <2>7. QED
    BY <2>2, <2>6
<1>9. CASE Leaders(counts) = {} /\ ~(Cardinality(K) > 1)
  <2>1. Cardinality(K) \in Nat /\ Cardinality(K) <= 1
    BY <1>9, FS_CardinalityType
  <2>2. TopIsClear(counts)
    BY <1>1, <2>1 DEF TopIsClear
  <2>3. \A c \in topKey(counts) : c = NoCategory
    <3>1. CASE K = {}
      BY <1>2, <3>1
    <3>2. CASE K # {}
      <4>1. Cardinality(K) = 1
        BY <2>1, <3>2, FS_EmptySet
      <4>2. PICK k : K = {k}
        BY <4>1, FS_Singleton
      <4>3. NoCategory \in K
        BY <1>1, <1>9, <3>2, BlankLeads
      <4>4. QED
        BY <1>2, <4>2, <4>3
    <3>3. QED
      BY <3>1, <3>2
  <2>4. QED
    BY <1>5, <2>2, <2>3
<1>10. QED
  BY <1>7, <1>8, <1>9

\* How many returns an agent decided in each category.
CategoryCounts(agentId, records) ==
  LET own == {r \in Range(records) : r.agentId = agentId}
  IN [c \in {r.category : r \in own} |-> Cardinality({r \in own : r.category = c})]

\* An agent's summary names one top category exactly when one is clear.
LEMMA TopCategoryIsClear ==
  ASSUME NEW records, IsFiniteSet(Range(records)), NEW agent
  PROVE  Cardinality(TopCategories(agent, records)) = 1
           <=> TopIsClear(CategoryCounts(agent, records))
<1> DEFINE own == {r \in Range(records) : r.agentId = agent}
           K == {r.category : r \in own}
           counts == CategoryCounts(agent, records)
<1>1. IsFiniteSet(own)
  BY FS_Subset
<1>2. IsFiniteSet(K)
  <2>1. K = {[q \in own |-> q.category][r] : r \in own}
    OBVIOUS
  <2> HIDE DEF own, K
  <2>2. QED
    BY <1>1, <2>1, ImageIsFinite
<1>3. ASSUME NEW c \in K
      PROVE  Cardinality({r \in own : r.category = c}) \in Nat \ {0}
  <2>1. IsFiniteSet({r \in own : r.category = c}) /\ {r \in own : r.category = c} # {}
    <3>1. {r \in own : r.category = c} \in SUBSET own
      OBVIOUS
    <3>2. QED
      BY <1>1, <3>1, FS_Subset
  <2>2. QED
    BY <2>1, FS_CardinalityType, FS_EmptySet
<1>4. counts \in [K -> Nat \ {0}]
  BY <1>3 DEF CategoryCounts
<1>5. TopCategories(agent, records) = topKey(counts)
  BY DEF TopCategories, CategoryCounts
<1> HIDE DEF own, K, counts
<1>6. Cardinality(topKey(counts)) = 1 <=> TopIsClear(counts)
  BY <1>2, <1>4, ClearTopIsOne
<1>7. QED
  BY <1>5, <1>6 DEF counts
=============================================================================
