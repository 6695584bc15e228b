----------------------------- MODULE Reasoning -----------------------------
(***************************************************************************)
(* Threshold reasoning (reasoning.py): predicates "value comparator        *)
(* threshold" on one observation, the relations between two of them, the   *)
(* cells of the line on which verify decides a relation, and the pairs     *)
(* that are compared.                                                      *)
(*                                                                         *)
(* The code computes with exact fractions over the reals.  Thresholds and  *)
(* bounds here are even integers: then the midpoint of two of them is an   *)
(* integer strictly between, and every cell of the real line between       *)
(* boundaries contains an integer.                                         *)
(***************************************************************************)
EXTENDS Integers, FiniteSets

CONSTANT Unbounded  \* no lower or upper bound is given

Even(n) == n % 2 = 0

Comparators == {"GT", "GTE", "LT", "LTE"}

Relations == {"EQUIVALENT", "IMPLIES", "EXCLUDES", "COMPLEMENT"}

Truth(comparator, threshold, value) ==
    \/ comparator = "GT" /\ value > threshold
    \/ comparator = "GTE" /\ value >= threshold
    \/ comparator = "LT" /\ value < threshold
    \/ comparator = "LTE" /\ value <= threshold

RelationHolds(relation, a, b) ==
    \/ relation = "EQUIVALENT" /\ (a <=> b)
    \/ relation = "IMPLIES" /\ (a => b)
    \/ relation = "EXCLUDES" /\ ~(a /\ b)
    \/ relation = "COMPLEMENT" /\ ~(a <=> b)

InDomain(v, lo, hi) == (lo = Unbounded \/ lo <= v) /\ (hi = Unbounded \/ v <= hi)

Neighbours(B) == {q \in B \X B : q[1] < q[2] /\ ~\E r \in B : q[1] < r /\ r < q[2]}

(* One point of every cell: the boundaries, a point between neighbours, a  *)
(* point below and one above all of them.                                  *)
Points(B) ==
    B \cup {(p[1] + p[2]) \div 2 : p \in Neighbours(B)}
      \cup {b - 1 : b \in {c \in B : \A d \in B : c <= d}}
      \cup {b + 1 : b \in {c \in B : \A d \in B : d <= c}}

(* verify: "PROVEN" needs the relation on every cell, and a cell on which  *)
(* each operand is true.                                                   *)
Verify(a, b, relation, lo, hi) ==
    LET points == {p \in Points({a.threshold, b.threshold} \cup ({lo, hi} \ {Unbounded})) :
                     InDomain(p, lo, hi)}
        A(p) == Truth(a.comparator, a.threshold, p)
        B(p) == Truth(b.comparator, b.threshold, p)
    IN  IF lo # Unbounded /\ hi # Unbounded /\ lo > hi THEN "UNKNOWN"
        ELSE IF \E p \in points : ~RelationHolds(relation, A(p), B(p)) THEN "DISPROVEN"
        ELSE IF (\E p \in points : A(p)) /\ (\E p \in points : B(p)) THEN "PROVEN"
        ELSE "UNKNOWN"

-----------------------------------------------------------------------------
(* A semantic IR: the contract, its predicate and how its outcomes pay.    *)
Increasing(irs) == {x \in irs : x.comparator \in {"GT", "GTE"}}
Decreasing(irs) == {x \in irs : x.comparator \in {"LT", "LTE"}}

Strictness(comparator) == IF comparator \in {"GTE", "LT"} THEN 0 ELSE 1

(* The order within a chain: each element implies one of its neighbours.   *)
Precedes(a, b) ==
    \/ a.threshold < b.threshold
    \/ /\ a.threshold = b.threshold
       /\ \/ Strictness(a.comparator) < Strictness(b.comparator)
          \/ Strictness(a.comparator) = Strictness(b.comparator) /\ a.contract < b.contract

(* candidate_pairs(observed_edges_only=True): neighbours in a chain. *)
Adjacent(chain) ==
    {{q[1], q[2]} : q \in {p \in chain \X chain :
        Precedes(p[1], p[2]) /\ ~\E c \in chain : Precedes(p[1], c) /\ Precedes(c, p[2])}}

ObservedEdges(irs) == Adjacent(Increasing(irs)) \cup Adjacent(Decreasing(irs))

CrossPolarity(a, b) == a \in Increasing({a}) /\ b \in Decreasing({b})

ChainPairs(chain) == {p \in chain \X chain : Precedes(p[1], p[2])}

(* candidate_pairs(settlement_pairs=True): the pairs of each chain, then   *)
(* every increasing with every decreasing one ...                          *)
CandidatePairs(irs) ==
    ChainPairs(Increasing(irs)) \cup ChainPairs(Decreasing(irs))
      \cup (Increasing(irs) \X Decreasing(irs))

Part(p) == IF CrossPolarity(p[1], p[2]) THEN 3
           ELSE IF p[1] \in Increasing({p[1]}) THEN 1 ELSE 2

(* ... and the place of each in the order in which they are yielded.       *)
YieldedBefore(p, q) ==
    \/ Part(p) < Part(q)
    \/ /\ Part(p) = Part(q)
       /\ Precedes(p[1], q[1]) \/ (p[1] = q[1] /\ Precedes(p[2], q[2]))

Place(p, pairs) == Cardinality({q \in pairs : YieldedBefore(q, p)})

(* settlement(): two Boolean payout mappings settle alike under the         *)
(* ordinary conditions unless they share an outcome that is true in one    *)
(* and false in the other.  Those of another venue share none.             *)
Settles(a, b) ==
    /\ {a.payout, b.payout} \subseteq {"yes", "no", "foreign"}
    /\ a.payout = b.payout \/ "foreign" \in {a.payout, b.payout}

-----------------------------------------------------------------------------
(* The claims iter_comparisons makes of one candidate pair.  In the        *)
(* observed scope a pair of one chain needs an edge; in the settlement     *)
(* scope, where nothing may be chained, the pair only has to settle alike. *)
PairClaims(a, b, edges) ==
    {claim \in [a : {a.contract, b.contract}, b : {a.contract, b.contract},
                relation : Relations, scope : {"OBSERVED_EVENT", "SETTLEMENT_OUTCOME"}] :
       LET left  == IF claim.a = a.contract THEN a ELSE b
           right == IF claim.b = a.contract THEN a ELSE b
       IN  /\ claim.a # claim.b
           /\ claim.relation = "IMPLIES" \/ claim.a < claim.b
           /\ Verify(left, right, claim.relation, Unbounded, Unbounded) = "PROVEN"
           /\ IF claim.scope = "OBSERVED_EVENT" THEN CrossPolarity(a, b) \/ {a, b} \in edges
              ELSE Settles(a, b)}

(* closure(): what follows from a set of claims of one scope by chaining   *)
(* implications and equivalences.                                          *)
Edges(claims, scope) ==
    {<<c.a, c.b>> : c \in {d \in claims : d.scope = scope /\ d.relation \in {"IMPLIES", "EQUIVALENT"}}}
      \cup {<<c.b, c.a>> : c \in {d \in claims : d.scope = scope /\ d.relation = "EQUIVALENT"}}

Ends(edges) == {e[1] : e \in edges} \cup {e[2] : e \in edges}

Chained(pairs, nodes) ==
    pairs \cup {p \in nodes \X nodes :
                  \E k \in nodes : <<p[1], k>> \in pairs /\ <<k, p[2]>> \in pairs}

Closure(claims, scope) ==
    LET edges == Edges(claims, scope)
        nodes == Ends(edges)
        reach[n \in 0..Cardinality(nodes)] ==
          IF n = 0 THEN edges ELSE Chained(reach[n - 1], nodes)
    IN  reach[Cardinality(nodes)]
=============================================================================
