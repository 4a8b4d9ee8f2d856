--------------------------- MODULE RelationFeatures ---------------------------
(***************************************************************************)
(* What the relations service derives from the records of a snapshot, and  *)
(* the rules scoring applies to it.  Amounts are in cents, rates and       *)
(* ratios in hundredths, rounded as round does; strengths in hundredths.   *)
(* Identifiers and categories are integers, ordered as their texts are;    *)
(* a record has the fields normalizeCSVRow gives it.                       *)
(***************************************************************************)
EXTENDS Integers, Sequences, FiniteSets, SequencesExt

CONSTANTS
  RelatedLimit, \* defaultRelatedLimit: related returns named by the features
  NoCategory    \* the blank category

ASSUME FeaturesAssumption == RelatedLimit \in Nat \ {0}

highValueRefundAmount == 30000

\* ratioFloat of a sum of hundredths, and ratio of two counts, as round does.
mean(sum, n) == IF n = 0 THEN 0 ELSE (2 * sum + n) \div (2 * n)
ratio(numerator, denominator) == mean(100 * numerator, denominator)

\* The records for which the condition holds.
Those(records, Holds(_)) == {r \in Range(records) : Holds(r)}
Count(records, Holds(_)) == Cardinality(Those(records, Holds))

Approved(r) == r.status = "APPROVED"
HighValue(r) == Approved(r) /\ r.refundAmount >= highValueRefundAmount

\* The elements of a set in a strict order of it.
Sorted(S, Before(_, _)) ==
  [n \in 1..Cardinality(S) |->
     CHOOSE x \in S : Cardinality({y \in S : Before(y, x)}) = n - 1]

First(seq, limit) == SubSeq(seq, 1, IF Len(seq) < limit THEN Len(seq) ELSE limit)

\* The first of the largest counts, in the order of the candidates.
strongestRelationType(counts) ==
  LET names == <<"CUSTOMER_RETURN_PATTERN", "AGENT_DECISION_PATTERN",
                 "CUSTOMER_AGENT_PAIR", "SAME_REASON_PATTERN">>
  IN names[CHOOSE i \in 1..4 : /\ \A j \in 1..4 : counts[i] >= counts[j]
                               /\ \A j \in 1..(i - 1) : counts[i] > counts[j]]

\* How many records share the customer, the agent, both, or agent and reason.
Shared(target, records) ==
  LET customer(r) == r.customerId = target.customerId
      agent(r) == r.agentId = target.agentId
  IN <<Count(records, customer), Count(records, agent),
       Count(records, LAMBDA r : customer(r) /\ agent(r)),
       Count(records, LAMBDA r : agent(r) /\ r.reason = target.reason)>>

ClusterSize(target, records) == Max(Range(Shared(target, records)))

calculateFeatures(target, records) ==
  LET sameCustomer(r) == r.customerId = target.customerId
      sameAgent(r) == r.agentId = target.agentId
      pair(r) == sameCustomer(r) /\ sameAgent(r)
      sameReason(r) == sameAgent(r) /\ r.reason = target.reason
      similar(r) == /\ r.returnId # target.returnId
                    /\ sameReason(r) /\ r.category = target.category
      related(r) == r.returnId # target.returnId /\ (similar(r) \/ pair(r))
      ids == {r.returnId : r \in Those(records, related)}
      shared == Shared(target, records)
      share(Holds(_)) ==
        ratio(Count(records, LAMBDA r : sameAgent(r) /\ Holds(r)), shared[2])
  IN [customerReturnCount |-> shared[1],
      customerApprovedRefundCount |->
        Count(records, LAMBDA r : sameCustomer(r) /\ Approved(r)),
      agentDecisionCount |-> shared[2],
      agentApprovalRate |-> share(Approved),
      agentManualOverrideRate |-> share(LAMBDA r : r.override),
      agentHighValueApprovalCount |->
        Count(records, LAMBDA r : sameAgent(r) /\ HighValue(r)),
      customerAgentPairCount |-> shared[3],
      categoryRefundRate |->
        ratio(Count(records, LAMBDA r : r.category = target.category), Len(records)),
      refundAmountRatio |-> ratio(target.refundAmount, target.orderAmount),
      similarReturnsCount |-> Count(records, similar),
      sameReasonRefundCount |-> shared[4],
      clusterSize |-> ClusterSize(target, records),
      strongestRelationType |-> strongestRelationType(shared),
      topRelatedReturns |-> First(Sorted(ids, <), RelatedLimit)]
\* Mutant: the thresholds are exceeded, not reached.
explanationSignalsAbove(f) ==
  {s \in {"customer", "rate", "pair", "ratio", "cluster"} :
     CASE s = "customer" -> f.customerReturnCount > 5
       [] s = "rate" -> f.agentApprovalRate >= 90
       [] s = "pair" -> f.customerAgentPairCount > 3
       [] s = "ratio" -> f.refundAmountRatio > 80
       [] s = "cluster" -> f.clusterSize > 5}

\* The kinds of explanation signals, each with the counts it speaks of.
explanationSignals(f) ==
  {s \in {"customer", "rate", "pair", "reason", "ratio", "cluster", "related"} :
     CASE s = "customer" -> f.customerReturnCount >= 5
       [] s = "rate" -> f.agentDecisionCount > 0 /\ f.agentApprovalRate >= 90
       [] s = "pair" -> f.customerAgentPairCount >= 3
       [] s = "reason" -> f.sameReasonRefundCount >= 5
       [] s = "ratio" -> f.refundAmountRatio >= 80
       [] s = "cluster" -> f.clusterSize >= 5
       [] s = "related" -> f.topRelatedReturns # <<>>}

-----------------------------------------------------------------------------
\* Mutant: the same customer counts only when the target is the later return.
RelationTypeOneWay(r, target) ==
  CASE r.customerId = target.customerId /\ r.agentId = target.agentId ->
         "CUSTOMER_AGENT_PAIR"
    [] r.customerId = target.customerId /\ r.returnId < target.returnId ->
         "SAME_CUSTOMER"
    [] OTHER -> "NONE"

\* How a record is related to the target: the first case that applies.
RelationType(r, target) ==
  CASE r.customerId = target.customerId /\ r.agentId = target.agentId ->
         "CUSTOMER_AGENT_PAIR"
    [] r.customerId = target.customerId /\ r.agentId # target.agentId ->
         "SAME_CUSTOMER"
    [] r.customerId # target.customerId /\ r.agentId = target.agentId
       /\ r.reason = target.reason ->
         IF r.category = target.category THEN "SIMILAR_AGENT_REASON_CATEGORY"
                                         ELSE "SAME_AGENT_REASON"
    [] OTHER -> "NONE"

Strength == [CUSTOMER_AGENT_PAIR |-> 100, SAME_CUSTOMER |-> 80,
             SIMILAR_AGENT_REASON_CATEGORY |-> 75, SAME_AGENT_REASON |-> 60]

AllRelated(target, records) ==
  Those(records, LAMBDA r : /\ r.returnId # target.returnId
                            /\ RelationType(r, target) # "NONE")

\* The strongest first, by id where they are as strong.
relatedReturns(target, records, limit) ==
  LET strength(r) == Strength[RelationType(r, target)]
      before(a, b) == \/ strength(a) > strength(b)
                      \/ strength(a) = strength(b) /\ a.returnId < b.returnId
  IN First(Sorted(AllRelated(target, records), before), limit)

\* GetGraphProjection: the six nodes of the return and the related returns,
\* sorted by their texts and cut to the limit; the edges are not cut.
Kinds == <<"agent", "category", "customer", "decision", "order", "return">>
\* Mutant: room is left for five nodes.
RelatedOneMore(target, records, limit) ==
  {r.returnId : r \in Range(relatedReturns(target, records, limit - 5))}

Related(target, records, limit) ==
  {r.returnId : r \in Range(relatedReturns(target, records,
                                           IF limit > 7 THEN limit - 6 ELSE 1))}

GraphNodes(target, records, limit) ==
  LET all == {<<"agent", target.agentId>>, <<"category", target.category>>,
              <<"customer", target.customerId>>, <<"decision", target.returnId>>,
              <<"order", target.orderId>>, <<"return", target.returnId>>}
             \cup {<<"return", id>> : id \in Related(target, records, limit)}
      rank(n) == CHOOSE i \in 1..6 : Kinds[i] = n[1]
      before(a, b) == \/ rank(a) < rank(b)
                      \/ rank(a) = rank(b) /\ rank(a) = 6 /\ a[2] < b[2]
  IN Range(First(Sorted(all, before), limit))

\* buildReturnRelations: the edges of a return, with their types.
buildReturnRelations(r) ==
  LET customer == <<"customer", r.customerId>>
      order == <<"order", r.orderId>>
      return == <<"return", r.returnId>>
      agent == <<"agent", r.agentId>>
      decision == <<"decision", r.returnId>>
  IN {<<customer, "PLACED_ORDER", order>>, <<customer, "REQUESTED_RETURN", return>>,
      <<order, "HAS_RETURN_REQUEST", return>>, <<return, "DECIDED_BY", agent>>,
      <<order, "HAS_CATEGORY", <<"category", r.category>> >>,
      <<agent, "MADE_DECISION", decision>>,
      <<decision, IF Approved(r) THEN "APPROVED_RETURN" ELSE "DECLINED_RETURN",
        return>>}

GraphEdges(target, records, limit) ==
  LET order == <<"order", target.orderId>>
      return == <<"return", target.returnId>>
      agent == <<"agent", target.agentId>>
  IN {<< <<"customer", target.customerId>>, "PLACED_ORDER", order>>,
      <<order, "HAS_RETURN_REQUEST", return>>, <<return, "DECIDED_BY", agent>>,
      <<agent, "MADE_DECISION", <<"decision", target.returnId>> >>,
      <<order, "HAS_CATEGORY", <<"category", target.category>> >>}
     \cup {<<return, "RELATED", <<"return", id>> >> :
             id \in Related(target, records, limit)}

-----------------------------------------------------------------------------
\* buildCustomerHistory, with the counts of its linked agents.
buildCustomerHistory(customerId, records) ==
  LET own(r) == r.customerId = customerId
      ofAgent(a) == Count(records, LAMBDA r : own(r) /\ r.agentId = a)
  IN [returnCount |-> Count(records, own),
      approvedRefunds |-> Count(records, LAMBDA r : own(r) /\ Approved(r)),
      linkedAgents |-> [a \in {r.agentId : r \in Those(records, own)} |-> ofAgent(a)]]

\* GetCustomerBehaviorSummary: rounded ratios are averaged and rounded again.
GetCustomerBehaviorSummary(customerId, records) ==
  LET own == Those(records, LAMBDA r : r.customerId = customerId)
  IN [totalRefundAmount |-> SumFunction([r \in own |-> r.refundAmount]),
      averageRefundRatio |->
        mean(SumFunction([r \in own |-> ratio(r.refundAmount, r.orderAmount)]),
             Cardinality(own))]

\* topKey: what a walk over the map in some order ends with.  A blank key does
\* not count as found, so the next one replaces it whatever its count.
topKey(counts) ==
  LET step(top, key) == IF counts[key] > top.count \/ top.key = NoCategory
                        THEN [key |-> key, count |-> counts[key]] ELSE top
  IN {FoldLeft(step, [key |-> NoCategory, count |-> 0], order).key :
        order \in SetToSeqs(DOMAIN counts)}

\* The categories an agent's summary may name as the top one.
TopCategories(agentId, records) ==
  LET own == {r \in Range(records) : r.agentId = agentId}
  IN topKey([c \in {r.category : r \in own} |->
               Cardinality({r \in own : r.category = c})])

buildAgentSummary(agentId, records) ==
  LET own(r) == r.agentId = agentId
      decisions == Count(records, own)
      share(Holds(_)) == ratio(Count(records, LAMBDA r : own(r) /\ Holds(r)), decisions)
      clusters == [r \in Those(records, own) |-> ClusterSize(r, records)]
  IN [decisionsCount |-> decisions,
      approvalRate |-> share(Approved),
      manualOverrideRate |-> share(LAMBDA r : r.override),
      highValueApprovalCount |-> Count(records, LAMBDA r : own(r) /\ HighValue(r)),
      repeatedCustomerPairCount |->
        Max({Count(records, LAMBDA r : own(r) /\ r.customerId = c) :
               c \in {r.customerId : r \in Those(records, own)}}),
      averageClusterSize |-> ratio(SumFunction(clusters), decisions)]
\* GetRankedAgents: the largest first, by id where they are equal.
GetRankedAgents(records, limit, sortBy) ==
  LET ids == {r.agentId : r \in Range(records)}
      key == [a \in ids |-> buildAgentSummary(a, records)[sortBy]]
      before(a, b) == key[a] > key[b] \/ (key[a] = key[b] /\ a < b)
  IN First(Sorted(ids, before), limit)

\* Mutant: the count is rounded up.
ManualOverrideCountUp(summary) ==
  (summary.manualOverrideRate * summary.decisionsCount) \div 100 + 1

\* GetAgentSummaryForDataset: the rounded rate is turned back into a count,
\* and cut off to an integer.
ManualOverrideCount(summary) ==
  (summary.manualOverrideRate * summary.decisionsCount) \div 100

-----------------------------------------------------------------------------
\* The rules of scoring about the relation features and the amounts.
Rules(r, f) ==
  {rule \in {"NO_EVIDENCE", "HIGH_VALUE_REFUND", "FULL_AMOUNT_REFUND",
             "FAST_APPROVAL", "MANUAL_OVERRIDE", "AGENT_HIGH_APPROVAL_RATE",
             "CUSTOMER_FREQUENT_RETURNS", "REPEATED_AGENT_CUSTOMER_PAIR",
             "SUSPICIOUS_CLUSTER"} :
     CASE rule = "NO_EVIDENCE" -> Approved(r) /\ ~r.evidence
       [] rule = "HIGH_VALUE_REFUND" -> r.refundAmount >= 50000
       [] rule = "FULL_AMOUNT_REFUND" -> f.refundAmountRatio >= 95
       [] rule = "FAST_APPROVAL" -> Approved(r) /\ r.minutes <= 5
       [] rule = "MANUAL_OVERRIDE" -> r.override
       [] rule = "AGENT_HIGH_APPROVAL_RATE" ->
            f.agentDecisionCount >= 5 /\ f.agentApprovalRate > 85
       [] rule = "CUSTOMER_FREQUENT_RETURNS" -> f.customerReturnCount >= 5
       [] rule = "REPEATED_AGENT_CUSTOMER_PAIR" -> f.customerAgentPairCount >= 3
       [] rule = "SUSPICIOUS_CLUSTER" -> f.clusterSize >= 5}

Impact == [NO_EVIDENCE |-> 25, HIGH_VALUE_REFUND |-> 20, FULL_AMOUNT_REFUND |-> 15,
           FAST_APPROVAL |-> 15, MANUAL_OVERRIDE |-> 20,
           AGENT_HIGH_APPROVAL_RATE |-> 30, CUSTOMER_FREQUENT_RETURNS |-> 20,
           REPEATED_AGENT_CUSTOMER_PAIR |-> 25, SUSPICIOUS_CLUSTER |-> 25]

\* The impacts of the rules that apply, added up.
TotalImpact(rules) ==
  LET of(rule) == IF rule \in rules THEN Impact[rule] ELSE 0
  IN of("NO_EVIDENCE") + of("HIGH_VALUE_REFUND") + of("FULL_AMOUNT_REFUND")
     + of("FAST_APPROVAL") + of("MANUAL_OVERRIDE") + of("AGENT_HIGH_APPROVAL_RATE")
     + of("CUSTOMER_FREQUENT_RETURNS") + of("REPEATED_AGENT_CUSTOMER_PAIR")
     + of("SUSPICIOUS_CLUSTER")

\* Mutant: the sum is not capped.
calculateScoreUncapped(rules) == TotalImpact(rules)

calculateScore(rules) == Min({100, TotalImpact(rules)})
=============================================================================
