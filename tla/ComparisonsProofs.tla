-------------------------- MODULE ComparisonsProofs --------------------------
(* Threshold reasoning for all thresholds and bounds, and the comparison   *)
(* cache for every set of observations, contracts and interpretations and  *)
(* any number of changes and faults.                                       *)
EXTENDS Comparisons, SequenceTheorems, FiniteSetTheorems, WellFoundedInduction, TLAPS

(* A set of integers every part of which has a greatest and a least one.   *)
HasGreatest(S) == \E m \in S : \A x \in S : x <= m
HasLeast(S) == \E m \in S : \A x \in S : m <= x

Extremal(S) == S \subseteq Int /\ \A X \in (SUBSET S) \ {{}} : HasGreatest(X) /\ HasLeast(X)

(* Sets with no more than one element have these, ... *)
LEMMA ExtremalSingle ==
    ASSUME NEW S, NEW s \in Int, S \subseteq {s}
    PROVE  Extremal(S)
<1>1. ASSUME NEW X \in (SUBSET S) \ {{}}
      PROVE  HasGreatest(X) /\ HasLeast(X)
  <2>1. X = {s}
      OBVIOUS
  <2> QED
      BY <2>1 DEF HasGreatest, HasLeast
<1> QED
    BY <1>1 DEF Extremal

(* ... and so has the union of two sets that have them. *)
LEMMA ExtremalUnion ==
    ASSUME NEW S, NEW T, Extremal(S), Extremal(T)
    PROVE  Extremal(S \cup T)
<1>1. ASSUME NEW X \in (SUBSET (S \cup T)) \ {{}}
      PROVE  HasGreatest(X) /\ HasLeast(X)
  <2> DEFINE A == X \cap S
             B == X \cap T
  <2>0. X # {}
      OBVIOUS
  <2>1. X = A \cup B /\ X \subseteq Int
      BY DEF Extremal
  <2>2. A # {} => HasGreatest(A) /\ HasLeast(A)
    <3>1. A # {} => A \in (SUBSET S) \ {{}}
        OBVIOUS
    <3> HIDE DEF A
    <3> QED
        BY <3>1 DEF Extremal
  <2>3. B # {} => HasGreatest(B) /\ HasLeast(B)
    <3>1. B # {} => B \in (SUBSET T) \ {{}}
        OBVIOUS
    <3> HIDE DEF B
    <3> QED
        BY <3>1 DEF Extremal
  <2> HIDE DEF A, B
  <2>4. CASE A = {}
    <3>1. X = B /\ B # {}
        BY <2>0, <2>1, <2>4
    <3> QED
        BY <2>3, <3>1
  <2>5. CASE B = {}
    <3>1. X = A /\ A # {}
        BY <2>0, <2>1, <2>5
    <3> QED
        BY <2>2, <3>1
  <2>6. CASE A # {} /\ B # {}
    <3>1. HasGreatest(X)
      <4>1. PICK a \in A : \A x \in A : x <= a
          BY <2>2, <2>6 DEF HasGreatest
      <4>2. PICK b \in B : \A x \in B : x <= b
          BY <2>3, <2>6 DEF HasGreatest
      <4>3. CASE a <= b
          BY <2>1, <4>1, <4>2, <4>3 DEF HasGreatest
      <4>4. CASE b <= a
          BY <2>1, <4>1, <4>2, <4>4 DEF HasGreatest
      <4> QED
          BY <2>1, <4>3, <4>4
    <3>2. HasLeast(X)
      <4>1. PICK a \in A : \A x \in A : a <= x
          BY <2>2, <2>6 DEF HasLeast
      <4>2. PICK b \in B : \A x \in B : b <= x
          BY <2>3, <2>6 DEF HasLeast
      <4>3. CASE a <= b
          BY <2>1, <4>1, <4>2, <4>3 DEF HasLeast
      <4>4. CASE b <= a
          BY <2>1, <4>1, <4>2, <4>4 DEF HasLeast
      <4> QED
          BY <2>1, <4>3, <4>4
    <3> QED
        BY <3>1, <3>2
  <2> QED
      BY <2>4, <2>5, <2>6
<1> QED
    BY <1>1 DEF Extremal

(* Half of an even number. *)
LEMMA EvenHalf ==
    ASSUME NEW n \in Int, Even(n)
    PROVE  \E i \in Int : n = 2 * i
<1>1. n \div 2 \in Int /\ n = 2 * (n \div 2) + (n % 2)
    OBVIOUS
<1> QED
    BY <1>1 DEF Even

(* Every value lies with a point of its cell: on the same side of every    *)
(* boundary, or on the same boundary.                                      *)
LEMMA CellHasPoint ==
    ASSUME NEW B, Extremal(B), B # {}, \A b \in B : Even(b), NEW v \in Int
    PROVE  \E p \in Points(B) : p \in Int /\ \A b \in B : (v < b <=> p < b) /\ (b < v <=> b < p)
<1> DEFINE below == {b \in B : b < v}
           above == {b \in B : v < b}
<1>1. B \subseteq Int
    BY DEF Extremal
<1>2. CASE v \in B
    BY <1>2 DEF Points
<1>3. CASE v \notin B /\ below = {}
  <2>1. PICK m \in B : \A x \in B : m <= x
      BY DEF Extremal, HasLeast
  <2>2. m - 1 \in Points(B)
      BY <2>1 DEF Points
  <2>3. \A b \in B : v < b /\ m - 1 < b /\ ~(b < v) /\ ~(b < m - 1)
      BY <1>1, <1>3, <2>1
  <2> QED
      BY <1>1, <2>2, <2>3
<1>4. CASE v \notin B /\ above = {}
  <2>1. PICK m \in B : \A x \in B : x <= m
      BY DEF Extremal, HasGreatest
  <2>2. m + 1 \in Points(B)
      BY <2>1 DEF Points
  <2>3. \A b \in B : b < v /\ b < m + 1 /\ ~(v < b) /\ ~(m + 1 < b)
      BY <1>1, <1>4, <2>1
  <2> QED
      BY <1>1, <2>2, <2>3
<1>5. CASE v \notin B /\ below # {} /\ above # {}
  <2>1. PICK lower \in below : \A x \in below : x <= lower
      BY <1>5 DEF Extremal, HasGreatest
  <2>2. PICK upper \in above : \A x \in above : upper <= x
      BY <1>5 DEF Extremal, HasLeast
  <2>3. lower \in B /\ upper \in B /\ lower \in Int /\ upper \in Int /\ lower < v /\ v < upper
      BY <1>1
  <2>4. ~\E r \in B : lower < r /\ r < upper
      BY <1>1, <1>5, <2>1, <2>2, <2>3
  <2>5. <<lower, upper>> \in Neighbours(B)
      BY <2>3, <2>4 DEF Neighbours
  <2> DEFINE p == (lower + upper) \div 2
  <2>6. p \in Points(B)
      BY <2>5 DEF Points
  <2>7. lower < p /\ p < upper /\ p \in Int
    <3>2. PICK i \in Int : lower = 2 * i
        BY <2>3, EvenHalf
    <3>3. PICK k \in Int : upper = 2 * k
        BY <2>3, EvenHalf
    <3>4. (2 * i + 2 * k) \div 2 = i + k
        OBVIOUS
    <3>5. p = i + k
        BY <3>2, <3>3, <3>4
    <3>6. i < k
        BY <2>3, <3>2, <3>3
    <3> HIDE DEF p
    <3> QED
        BY <3>2, <3>3, <3>5, <3>6
  <2> HIDE DEF p
  <2>8. \A b \in B : b <= lower \/ upper <= b
      BY <1>1, <2>3, <2>4
  <2>9. \A b \in B : (v < b <=> p < b) /\ (b < v <=> b < p)
      BY <1>1, <2>3, <2>7, <2>8
  <2> QED
      BY <2>6, <2>7, <2>9
<1> QED
    BY <1>2, <1>3, <1>4, <1>5

(* The predicates of a semantic IR: an even threshold, a comparator.       *)
Predicate(a) == a.threshold \in Int /\ Even(a.threshold) /\ a.comparator \in Comparators

Bound(x) == x = Unbounded \/ (x \in Int /\ Even(x))

(* The truth of a predicate, and whether a value is in the domain, depend  *)
(* on its cell only.                                                       *)
LEMMA CellDecides ==
    ASSUME NEW a, Predicate(a), NEW v \in Int, NEW p \in Int,
           (v < a.threshold <=> p < a.threshold) /\ (a.threshold < v <=> a.threshold < p)
    PROVE  Truth(a.comparator, a.threshold, v) <=> Truth(a.comparator, a.threshold, p)
BY DEF Predicate, Truth, Comparators

(* verify decides a relation over the whole domain by one point of every   *)
(* cell (reasoning.py:88): it is disproven exactly when it fails for some  *)
(* value, and proven exactly when it holds for all and each operand for    *)
(* some.                                                                   *)
THEOREM VerifyDecides ==
    ASSUME NEW a, NEW b, Predicate(a), Predicate(b), NEW relation,
           NEW lo, NEW hi, Bound(lo), Bound(hi), Unbounded \notin Int,
           ~(lo # Unbounded /\ hi # Unbounded /\ lo > hi)
    PROVE  LET Holding(v) == RelationHolds(relation, Truth(a.comparator, a.threshold, v),
                                                     Truth(b.comparator, b.threshold, v))
               domain == {v \in Int : InDomain(v, lo, hi)}
               verdict == Verify(a, b, relation, lo, hi)
           IN  /\ verdict = "DISPROVEN" <=> \E v \in domain : ~Holding(v)
               /\ verdict = "PROVEN" <=>
                    /\ \A v \in domain : Holding(v)
                    /\ \E v \in domain : Truth(a.comparator, a.threshold, v)
                    /\ \E v \in domain : Truth(b.comparator, b.threshold, v)
<1> DEFINE A(v) == Truth(a.comparator, a.threshold, v)
           B(v) == Truth(b.comparator, b.threshold, v)
           Holding(v) == RelationHolds(relation, A(v), B(v))
           domain == {v \in Int : InDomain(v, lo, hi)}
           boundaries == {a.threshold, b.threshold} \cup ({lo, hi} \ {Unbounded})
           points == {p \in Points(boundaries) : InDomain(p, lo, hi)}
           verdict == Verify(a, b, relation, lo, hi)
<1>1. /\ a.threshold \in boundaries /\ b.threshold \in boundaries
      /\ lo # Unbounded => lo \in boundaries
      /\ hi # Unbounded => hi \in boundaries
      /\ \A x \in boundaries : x \in Int /\ Even(x)
      /\ Extremal(boundaries)
  <2>1. Extremal({a.threshold}) /\ Extremal({b.threshold})
      BY ExtremalSingle DEF Predicate
  <2>2. Extremal({lo} \ {Unbounded}) /\ Extremal({hi} \ {Unbounded})
    <3>1. \A x : Bound(x) => \E n \in Int : {x} \ {Unbounded} \subseteq {n}
        BY DEF Bound
    <3> QED
        BY <3>1, ExtremalSingle
  <2>3. Extremal({a.threshold} \cup {b.threshold})
      BY <2>1, ExtremalUnion
  <2>4. Extremal(({lo} \ {Unbounded}) \cup ({hi} \ {Unbounded}))
      BY <2>2, ExtremalUnion
  <2>5. Extremal(({a.threshold} \cup {b.threshold})
                   \cup (({lo} \ {Unbounded}) \cup ({hi} \ {Unbounded})))
      BY <2>3, <2>4, ExtremalUnion
  <2>6. boundaries = ({a.threshold} \cup {b.threshold})
                       \cup (({lo} \ {Unbounded}) \cup ({hi} \ {Unbounded}))
      OBVIOUS
  <2>7. Extremal(boundaries)
      BY <2>5, <2>6
  <2> QED
      BY <2>7 DEF Predicate, Bound
<1>2. verdict = IF \E p \in points : ~Holding(p) THEN "DISPROVEN"
                ELSE IF (\E p \in points : A(p)) /\ (\E p \in points : B(p)) THEN "PROVEN"
                ELSE "UNKNOWN"
    BY DEF Verify
<1> HIDE DEF boundaries, verdict
<1>3. points \subseteq domain
  <2>1. Points(boundaries) \subseteq Int
      BY <1>1 DEF Points, Neighbours
  <2> QED
      BY <2>1
<1>4. ASSUME NEW v \in domain
      PROVE  \E p \in points : (A(v) <=> A(p)) /\ (B(v) <=> B(p))
  <2>0. v \in Int /\ boundaries # {}
      BY <1>1
  <2>1. PICK p \in Points(boundaries) :
          p \in Int /\ \A x \in boundaries : (v < x <=> p < x) /\ (x < v <=> x < p)
      BY <1>1, <2>0, CellHasPoint
  <2>2. InDomain(p, lo, hi)
      BY <1>1, <2>1 DEF InDomain, Bound
  <2>3. (A(v) <=> A(p)) /\ (B(v) <=> B(p))
      BY <1>1, <2>1, CellDecides
  <2> QED
      BY <2>1, <2>2, <2>3
<1>5. ASSUME NEW v, NEW p, (A(v) <=> A(p)) /\ (B(v) <=> B(p))
      PROVE  Holding(v) <=> Holding(p)
    BY <1>5 DEF RelationHolds
<1>6. (\E v \in domain : ~Holding(v)) <=> (\E p \in points : ~Holding(p))
    BY <1>3, <1>4, <1>5
<1>7. /\ (\E v \in domain : A(v)) <=> (\E p \in points : A(p))
      /\ (\E v \in domain : B(v)) <=> (\E p \in points : B(p))
    BY <1>3, <1>4
<1> HIDE DEF Holding, A, B, domain, points
<1>8. /\ verdict = "DISPROVEN" <=> \E v \in domain : ~Holding(v)
      /\ verdict = "PROVEN" <=> /\ \A v \in domain : Holding(v)
                                /\ \E v \in domain : A(v)
                                /\ \E v \in domain : B(v)
    BY <1>2, <1>6, <1>7
<1> QED
    BY <1>8 DEF verdict, Holding, A, B, domain

-----------------------------------------------------------------------------
(* The dataset: reviews belong to the current interpretation. *)
DatasetFits ==
    /\ body \in [Contracts -> Bodies]
    /\ rev \in [Contracts -> Nat]
    /\ reviews \in [Contracts -> Seq(BOOLEAN)]

(* A signature of this moment or an earlier one. *)
Past(sig) ==
    \A c \in DOMAIN sig :
      /\ c \in Contracts /\ sig[c][1] \in Nat /\ sig[c][2] \in Nat
      /\ sig[c][1] < rev[c] \/ (sig[c][1] = rev[c] /\ sig[c][2] <= Len(reviews[c]))

(* None of the interpretations it names was superseded; nor were reviews.  *)
Lasting(sig) == \A c \in DOMAIN sig : sig[c][1] = rev[c]
Exact(sig) == Lasting(sig) /\ \A c \in DOMAIN sig : sig[c][2] = Len(reviews[c])

ClaimTrue(claim, sig) ==
    /\ {claim.a, claim.b} \subseteq DOMAIN sig
    /\ Holds(claim.relation, claim.a, claim.b)
    /\ claim.scope = "SETTLEMENT_OUTCOME" => SettleAlike(claim.a, claim.b)

OfSignature(x, sig) == x.contract \in DOMAIN sig /\ x = Record(x.contract)

RowTrue(r) ==
    /\ Past(r.signature)
    /\ Lasting(r.signature) => ClaimTrue(r.claim, r.signature)
    /\ Exact(r.signature) => r.reviewed = {c \in {r.claim.a, r.claim.b} : Approved(c)}

(* What a batch holds is true as long as its interpretations last. *)
BatchTrue(w) ==
    /\ w.pc # "idle" => Past(w.signature)
    /\ w.pc \in {"chosen", "begun"} =>
         /\ w = [pc |-> w.pc, group |-> w.group, signature |-> w.signature,
                 records |-> w.records, cursor |-> w.cursor]
         /\ Lasting(w.signature) => \A x \in w.records : OfSignature(x, w.signature)
    /\ w.pc \in {"pair", "claims"} =>
         /\ w = [pc |-> w.pc, group |-> w.group, signature |-> w.signature,
                 cursor |-> w.cursor, advanced |-> w.advanced, pairs |-> w.pairs,
                 edges |-> w.edges, todo |-> w.todo]
         /\ Lasting(w.signature) =>
              \A p \in w.pairs : OfSignature(p[1], w.signature) /\ OfSignature(p[2], w.signature)
    /\ w.pc = "claims" /\ Lasting(w.signature) =>
         \A claim \in w.todo : ClaimTrue(claim, w.signature)

RowsTrue == \A r \in rows : RowTrue(r)

WorkerTrue == worker.pc \in {"idle", "chosen", "begun", "pair", "claims"} /\ BatchTrue(worker)

Inv == DatasetFits /\ RowsTrue /\ WorkerTrue

-----------------------------------------------------------------------------
(* Every interpretation of the dataset makes a predicate. *)
LEMMA RecordsArePredicates ==
    ASSUME DatasetFits, NEW c \in Contracts
    PROVE  Predicate(Record(c)) /\ Record(c).contract = c
<1>1. body[c] \in Bodies
    BY DEF DatasetFits
<1>2. /\ body[c].threshold \in Int /\ Even(body[c].threshold)
      /\ body[c].comparator \in Comparators
    BY <1>1, ComparisonsAssumption
<1> QED
    BY <1>2 DEF Predicate, Record

(* What verify proves of two interpretations holds for every value. *)
LEMMA ProvenHolds ==
    ASSUME DatasetFits, NEW x \in Contracts, NEW y \in Contracts, NEW relation,
           Verify(Record(x), Record(y), relation, Unbounded, Unbounded) = "PROVEN"
    PROVE  Holds(relation, x, y)
<1>1. Predicate(Record(x)) /\ Predicate(Record(y))
    BY RecordsArePredicates
<1>2. Bound(Unbounded) /\ Unbounded \notin Int
    BY ComparisonsAssumption DEF Bound
<1>3. \A v \in {n \in Int : InDomain(n, Unbounded, Unbounded)} :
        RelationHolds(relation, Truth(Record(x).comparator, Record(x).threshold, v),
                                Truth(Record(y).comparator, Record(y).threshold, v))
    BY <1>1, <1>2, VerifyDecides
<1>4. \A v \in Values : v \in {n \in Int : InDomain(n, Unbounded, Unbounded)}
    BY ComparisonsAssumption DEF InDomain
<1> QED
    BY <1>3, <1>4 DEF Holds, Record

(* The claims derived from a pair of interpretations are true of them. *)
LEMMA DerivedClaimsTrue ==
    ASSUME DatasetFits, NEW sig, Past(sig), NEW x, NEW y, NEW edges,
           OfSignature(x, sig), OfSignature(y, sig), NEW claim \in PairClaims(x, y, edges)
    PROVE  ClaimTrue(claim, sig)
<1> DEFINE left == IF claim.a = x.contract THEN x ELSE y
           right == IF claim.b = x.contract THEN x ELSE y
<1>1. /\ claim.a \in {x.contract, y.contract} /\ claim.b \in {x.contract, y.contract}
      /\ claim.a # claim.b
      /\ Verify(left, right, claim.relation, Unbounded, Unbounded) = "PROVEN"
      /\ claim.scope = "SETTLEMENT_OUTCOME" => Settles(x, y)
    BY DEF PairClaims
<1>2. claim.a \in Contracts /\ claim.b \in Contracts /\ {claim.a, claim.b} \subseteq DOMAIN sig
    BY <1>1 DEF Past, OfSignature
<1>3. left = Record(claim.a) /\ right = Record(claim.b)
    BY <1>1 DEF OfSignature
<1> HIDE DEF left, right
<1>4. Holds(claim.relation, claim.a, claim.b)
    BY <1>1, <1>2, <1>3, ProvenHolds
<1>5. claim.scope = "SETTLEMENT_OUTCOME" => SettleAlike(claim.a, claim.b)
  <2>1. {left, right} = {x, y}
      BY <1>1 DEF left, right
  <2>2. Settles(x, y) => Settles(left, right)
      BY <2>1 DEF Settles
  <2>3. Settles(Record(claim.a), Record(claim.b)) => SettleAlike(claim.a, claim.b)
      BY DEF Settles, SettleAlike, Record
  <2> QED
      BY <1>1, <1>3, <2>2, <2>3
<1> QED
    BY <1>2, <1>4, <1>5 DEF ClaimTrue

-----------------------------------------------------------------------------
(* No step forgets an interpretation or a review: signatures stay past,    *)
(* what lasts lasted before, and as long as it lasts it says the same.     *)
LEMMA ChangesShow ==
    ASSUME DatasetFits, Next, NEW sig, Past(sig)
    PROVE  /\ Past(sig)'
           /\ Lasting(sig)' => /\ Lasting(sig)
                               /\ \A c \in DOMAIN sig : body'[c] = body[c]
           /\ Exact(sig)' => /\ Exact(sig)
                             /\ \A c \in DOMAIN sig : reviews'[c] = reviews[c]
<1>1. ASSUME NEW c \in Contracts, NEW b \in Bodies, Interpret(c, b)
      PROVE  /\ Past(sig)' /\ (Lasting(sig)' => c \notin DOMAIN sig)
             /\ \A d \in Contracts \ {c} : body'[d] = body[d] /\ rev'[d] = rev[d]
                                        /\ reviews'[d] = reviews[d]
  <2>1. /\ rev'[c] = rev[c] + 1 /\ rev[c] \in Nat
        /\ \A d \in Contracts \ {c} : body'[d] = body[d] /\ rev'[d] = rev[d]
                                   /\ reviews'[d] = reviews[d]
      BY <1>1 DEF Interpret, DatasetFits
  <2>2. \A d \in DOMAIN sig : d = c => sig[d][1] < rev'[d]
      BY <2>1 DEF Past
  <2> QED
      BY <2>1, <2>2 DEF Past, Lasting
<1>2. ASSUME NEW c \in Contracts, NEW verdict \in BOOLEAN, Review(c, verdict)
      PROVE  /\ Past(sig)' /\ (Exact(sig)' => c \notin DOMAIN sig)
             /\ body' = body /\ rev' = rev
             /\ \A d \in Contracts \ {c} : reviews'[d] = reviews[d]
  <2>1. /\ Len(reviews'[c]) = Len(reviews[c]) + 1 /\ Len(reviews[c]) \in Nat
        /\ body' = body /\ rev' = rev
        /\ \A d \in Contracts \ {c} : reviews'[d] = reviews[d]
      BY <1>2 DEF Review, DatasetFits
  <2>2. \A d \in DOMAIN sig : d = c /\ sig[d][1] = rev[d] => sig[d][2] < Len(reviews'[d])
      BY <2>1 DEF Past
  <2>3. Past(sig)'
      BY <2>1 DEF Past
  <2> QED
      BY <2>1, <2>2, <2>3 DEF Past, Exact, Lasting
<1>3. ASSUME UNCHANGED dataset
      PROVE  /\ Past(sig)' /\ (Lasting(sig)' <=> Lasting(sig)) /\ (Exact(sig)' <=> Exact(sig))
             /\ body' = body /\ reviews' = reviews
    BY <1>3 DEF dataset, Past, Lasting, Exact
<1>4. \/ \E c \in Contracts, b \in Bodies : Interpret(c, b)
      \/ \E c \in Contracts, verdict \in BOOLEAN : Review(c, verdict)
      \/ UNCHANGED dataset
    BY DEF Next, Launch, BatchStep, Begin, Start, NextPair, StoreClaim, Checkpoint, Finish,
           Fail, Elapse
<1>5. CASE \E c \in Contracts, b \in Bodies : Interpret(c, b)
    BY <1>1, <1>5 DEF Past, Lasting, Exact
<1>6. CASE \E c \in Contracts, verdict \in BOOLEAN : Review(c, verdict)
    BY <1>2, <1>6 DEF Past, Lasting, Exact
<1>7. CASE UNCHANGED dataset
    BY <1>3, <1>7
<1> QED
    BY <1>4, <1>5, <1>6, <1>7

(* A row stays true through every step. *)
LEMMA RowStaysTrue ==
    ASSUME DatasetFits, Next, NEW r, RowTrue(r)
    PROVE  RowTrue(r)'
<1>1. Past(r.signature)
    BY DEF RowTrue
<1>2. /\ Past(r.signature)'
      /\ Lasting(r.signature)' =>
           /\ Lasting(r.signature)
           /\ \A c \in DOMAIN r.signature : body'[c] = body[c]
      /\ Exact(r.signature)' =>
           /\ Exact(r.signature)
           /\ \A c \in DOMAIN r.signature : reviews'[c] = reviews[c]
    BY <1>1, ChangesShow
<1>3. Lasting(r.signature)' => ClaimTrue(r.claim, r.signature)'
    BY <1>2 DEF RowTrue, ClaimTrue, Holds, SettleAlike
<1>4. Exact(r.signature)' => (r.reviewed = {c \in {r.claim.a, r.claim.b} : Approved(c)})'
  <2>1. Exact(r.signature)' => {r.claim.a, r.claim.b} \subseteq DOMAIN r.signature
      BY <1>2 DEF RowTrue, Exact, ClaimTrue
  <2> QED
      BY <1>2, <2>1 DEF RowTrue, Approved
<1> QED
    BY <1>2, <1>3, <1>4 DEF RowTrue

(* So does what a batch holds while it waits. *)
LEMMA BatchStaysTrue ==
    ASSUME DatasetFits, Next, NEW w, BatchTrue(w)
    PROVE  BatchTrue(w)'
<1>1. CASE w.pc = "idle"
    BY <1>1 DEF BatchTrue
<1>2. CASE w.pc # "idle"
  <2>1. Past(w.signature)
      BY <1>2 DEF BatchTrue
  <2>2. /\ Past(w.signature)'
        /\ Lasting(w.signature)' =>
             /\ Lasting(w.signature)
             /\ \A c \in DOMAIN w.signature : body'[c] = body[c]
      BY <2>1, ChangesShow
  <2>3. \A x : Lasting(w.signature)' /\ OfSignature(x, w.signature)
                 => OfSignature(x, w.signature)'
      BY <2>2 DEF OfSignature, Record
  <2>4. \A claim : Lasting(w.signature)' /\ ClaimTrue(claim, w.signature)
                     => ClaimTrue(claim, w.signature)'
      BY <2>2 DEF ClaimTrue, Holds, SettleAlike
  <2> QED
      BY <2>2, <2>3, <2>4 DEF BatchTrue
<1> QED
    BY <1>1, <1>2

(* Changes keep the dataset in order. *)
LEMMA DatasetStaysFit ==
    ASSUME DatasetFits, Next
    PROVE  DatasetFits'
<1>1. ASSUME NEW c \in Contracts, NEW b \in Bodies, Interpret(c, b)
      PROVE  DatasetFits'
  <2>1. <<>> \in Seq(BOOLEAN)
      OBVIOUS
  <2> QED
      BY <1>1, <2>1 DEF Interpret, DatasetFits
<1>2. ASSUME NEW c \in Contracts, NEW verdict \in BOOLEAN, Review(c, verdict)
      PROVE  DatasetFits'
  <2>1. Append(reviews[c], verdict) \in Seq(BOOLEAN)
      BY DEF DatasetFits
  <2> QED
      BY <1>2, <2>1 DEF Review, DatasetFits
<1>3. CASE UNCHANGED dataset
    BY <1>3 DEF dataset, DatasetFits
<1> QED
    BY <1>1, <1>2, <1>3 DEF Next, dataset, Launch, BatchStep, Begin, Start, NextPair, StoreClaim,
           Checkpoint, Finish, Fail, Elapse

(* A new signature names what is there. *)
LEMMA NewSignature ==
    ASSUME DatasetFits, NEW g
    PROVE  /\ Past(Signature(g)) /\ Exact(Signature(g))
           /\ DOMAIN Signature(g) = Members(g)
           /\ \A x \in Records(g) : OfSignature(x, Signature(g))
BY DEF DatasetFits, Signature, Members, Past, Exact, Lasting, Records, OfSignature, Record

(* An opened dataset shows nothing yet, and no batch runs. *)
LEMMA InitInv ==
    ASSUME Init
    PROVE  Inv
<1>1. <<>> \in Seq(BOOLEAN)
    OBVIOUS
<1>2. DatasetFits
    BY <1>1, ComparisonsAssumption DEF Init, DatasetFits
<1> QED
    BY <1>2 DEF Init, Inv, RowsTrue, WorkerTrue, BatchTrue, Idle

(* Every step keeps rows and batch true. *)
LEMMA NextInv ==
    ASSUME Inv, Next
    PROVE  Inv'
<1> USE DEF Inv
<1>1. DatasetFits'
    BY DatasetStaysFit
<1>2. \A r \in rows : RowTrue(r)'
    BY RowStaysTrue DEF RowsTrue
<1>3. BatchTrue(worker)' \/ worker' # worker
    BY BatchStaysTrue DEF WorkerTrue
<1>4. CASE UNCHANGED <<rows, worker>>
  <2>1. RowsTrue'
      BY <1>2, <1>4 DEF RowsTrue
  <2>2. WorkerTrue'
      BY <1>3, <1>4 DEF WorkerTrue
  <2> QED
      BY <1>1, <2>1, <2>2
<1>5. CASE rows' = rows /\ worker' = Idle
  <2>1. RowsTrue'
      BY <1>2, <1>5 DEF RowsTrue
  <2>2. WorkerTrue'
      BY <1>5 DEF WorkerTrue, BatchTrue, Idle
  <2> QED
      BY <1>1, <2>1, <2>2
<1>6. ASSUME \A r \in rows' : RowTrue(r), UNCHANGED dataset, BatchTrue(worker'),
             worker'.pc \in {"idle", "chosen", "begun", "pair", "claims"}
      PROVE  Inv'
  <2>1. RowsTrue'
      BY <1>6 DEF RowsTrue, RowTrue, dataset, Past, Lasting, Exact, ClaimTrue, Holds,
             SettleAlike, Approved
  <2>2. WorkerTrue'
      BY <1>6 DEF WorkerTrue, BatchTrue, dataset, Past, Lasting, OfSignature, Record, ClaimTrue,
             Holds, SettleAlike
  <2> QED
      BY <1>1, <2>1, <2>2
<1>7. ASSUME NEW g \in Groups, Launch(g)
      PROVE  Inv'
  <2>1. /\ rows' = rows /\ UNCHANGED dataset
        /\ worker'.pc = "chosen" /\ worker'.signature = Signature(g)
        /\ worker'.records = Records(g)
        /\ worker' = [pc |-> worker'.pc, group |-> worker'.group, signature |-> worker'.signature,
                      records |-> worker'.records, cursor |-> worker'.cursor]
      BY <1>7 DEF Launch
  <2>2. BatchTrue(worker')
      BY <2>1, NewSignature DEF BatchTrue
  <2> QED
      BY <1>6, <2>1, <2>2 DEF RowsTrue
<1>8. CASE Begin
  <2>1. /\ rows' = rows /\ UNCHANGED dataset
        /\ worker' = [worker EXCEPT !.pc = "begun"] /\ worker.pc = "chosen"
      BY <1>8 DEF Begin
  <2>2. BatchTrue(worker')
      BY <2>1 DEF BatchTrue, WorkerTrue
  <2> QED
      BY <1>6, <2>1, <2>2 DEF RowsTrue
<1>9. ASSUME NEW consensus, Start(consensus)
      PROVE  Inv'
  <2>1. /\ rows' = rows /\ UNCHANGED dataset
        /\ worker.pc = "begun"
        /\ worker'.pc = "pair" /\ worker'.signature = worker.signature
        /\ worker'.pairs = CandidatePairs(worker.records)
        /\ worker' = [pc |-> worker'.pc, group |-> worker'.group, signature |-> worker'.signature,
                      cursor |-> worker'.cursor, advanced |-> worker'.advanced,
                      pairs |-> worker'.pairs, edges |-> worker'.edges, todo |-> worker'.todo]
      BY <1>9 DEF Start
  <2>2. \A p \in worker'.pairs : p[1] \in worker.records /\ p[2] \in worker.records
      BY <2>1 DEF CandidatePairs, ChainPairs, Increasing, Decreasing
  <2>3. BatchTrue(worker')
      BY <2>1, <2>2 DEF BatchTrue, WorkerTrue
  <2> QED
      BY <1>6, <2>1, <2>3 DEF RowsTrue
<1>10. CASE NextPair
  <2>1. PICK pair \in worker.pairs :
          worker' = [worker EXCEPT !.pc = "claims",
                                   !.todo = PairClaims(pair[1], pair[2], worker.edges)]
      BY <1>10 DEF NextPair
  <2>2. rows' = rows /\ UNCHANGED dataset /\ worker.pc = "pair"
      BY <1>10 DEF NextPair
  <2>3. /\ worker'.pc = "claims" /\ worker'.signature = worker.signature
        /\ worker'.pairs = worker.pairs
        /\ worker'.todo = PairClaims(pair[1], pair[2], worker.edges)
        /\ worker' = [pc |-> worker'.pc, group |-> worker'.group, signature |-> worker'.signature,
                      cursor |-> worker'.cursor, advanced |-> worker'.advanced,
                      pairs |-> worker'.pairs, edges |-> worker'.edges, todo |-> worker'.todo]
      BY <2>1, <2>2 DEF WorkerTrue, BatchTrue
  <2>4. Past(worker.signature)
      BY <2>2 DEF WorkerTrue, BatchTrue
  <2>5. Lasting(worker.signature) =>
          OfSignature(pair[1], worker.signature) /\ OfSignature(pair[2], worker.signature)
      BY <2>2 DEF WorkerTrue, BatchTrue
  <2>6. Lasting(worker.signature) =>
          \A claim \in PairClaims(pair[1], pair[2], worker.edges) : ClaimTrue(claim, worker.signature)
      BY <2>4, <2>5, DerivedClaimsTrue
  <2>7. BatchTrue(worker')
      BY <2>2, <2>3, <2>4, <2>6 DEF BatchTrue, WorkerTrue
  <2> QED
      BY <1>6, <2>2, <2>3, <2>7 DEF RowsTrue
<1>11. CASE StoreClaim
  <2> DEFINE claim == CHOOSE c \in worker.todo : TRUE
             row == [signature |-> worker.signature, claim |-> claim,
                     reviewed |-> {c \in {claim.a, claim.b} : Approved(c)}]
  <2>1. /\ worker.pc = "claims" /\ claim \in worker.todo /\ UNCHANGED dataset
        /\ rows' \subseteq rows \cup {row}
        /\ worker' = [worker EXCEPT !.todo = @ \ {claim}]
      BY <1>11 DEF StoreClaim
  <2>2. RowTrue(row)
    <3>1. Past(worker.signature)
        BY <2>1 DEF WorkerTrue, BatchTrue
    <3>2. Lasting(worker.signature) => ClaimTrue(claim, worker.signature)
        BY <2>1 DEF WorkerTrue, BatchTrue
    <3> HIDE DEF claim
    <3> QED
        BY <3>1, <3>2 DEF RowTrue
  <2>3. \A r \in rows' : RowTrue(r)
      BY <2>1, <2>2 DEF RowsTrue
  <2> HIDE DEF claim
  <2>4. /\ worker'.pc = "claims" /\ worker'.signature = worker.signature
        /\ worker'.pairs = worker.pairs /\ worker'.todo \subseteq worker.todo
        /\ worker' = [pc |-> worker'.pc, group |-> worker'.group, signature |-> worker'.signature,
                      cursor |-> worker'.cursor, advanced |-> worker'.advanced,
                      pairs |-> worker'.pairs, edges |-> worker'.edges, todo |-> worker'.todo]
      BY <2>1 DEF WorkerTrue, BatchTrue
  <2>5. BatchTrue(worker')
      BY <2>1, <2>4 DEF BatchTrue, WorkerTrue
  <2> QED
      BY <1>6, <2>1, <2>3, <2>4, <2>5
<1>12. CASE Checkpoint
  <2>1. CASE worker' = Idle
      BY <1>5, <1>12, <2>1 DEF Checkpoint
  <2>2. CASE worker' = [worker EXCEPT !.pc = "pair", !.advanced = @ + 1]
    <3>1. rows' = rows /\ UNCHANGED dataset /\ worker.pc = "claims"
        BY <1>12 DEF Checkpoint
    <3>2. /\ worker'.pc = "pair" /\ worker'.signature = worker.signature
          /\ worker'.pairs = worker.pairs
          /\ worker' = [pc |-> worker'.pc, group |-> worker'.group, signature |-> worker'.signature,
                        cursor |-> worker'.cursor, advanced |-> worker'.advanced,
                        pairs |-> worker'.pairs, edges |-> worker'.edges, todo |-> worker'.todo]
        BY <2>2, <3>1 DEF WorkerTrue, BatchTrue
    <3>3. BatchTrue(worker')
        BY <3>1, <3>2 DEF BatchTrue, WorkerTrue
    <3> QED
        BY <1>6, <3>1, <3>2, <3>3 DEF RowsTrue
  <2> QED
      BY <1>12, <2>1, <2>2 DEF Checkpoint
<1>13. CASE Finish
    BY <1>5, <1>13 DEF Finish
<1>14. CASE Fail
    BY <1>5, <1>14 DEF Fail
<1>15. ASSUME NEW c \in Contracts, NEW b \in Bodies, Interpret(c, b)
       PROVE  Inv'
    BY <1>4, <1>15 DEF Interpret
<1>16. ASSUME NEW c \in Contracts, NEW verdict \in BOOLEAN, Review(c, verdict)
       PROVE  Inv'
    BY <1>4, <1>16 DEF Review
<1>17. CASE Elapse
    BY <1>4, <1>17 DEF Elapse
<1> QED
    BY <1>7, <1>8, <1>9, <1>10, <1>11, <1>12, <1>13, <1>14, <1>15, <1>16, <1>17
       DEF Next, BatchStep

(* So does none. *)
LEMMA StutterInv ==
    ASSUME Inv, UNCHANGED vars
    PROVE  Inv'
<1>1. DatasetFits'
    BY DEF vars, dataset, Inv, DatasetFits
<1>2. RowsTrue'
    BY DEF vars, dataset, Inv, RowsTrue, RowTrue, Past, Lasting, Exact, ClaimTrue, Holds,
           SettleAlike, Approved
<1>3. WorkerTrue'
    BY DEF vars, dataset, Inv, WorkerTrue, BatchTrue, Past, Lasting, ClaimTrue, OfSignature,
           Record, Holds, SettleAlike
<1> QED
    BY <1>1, <1>2, <1>3 DEF Inv

(* Comparisons: rows and batches are true of the interpretations they were *)
(* made from, for as long as these last.                                   *)
THEOREM InvAlways == Spec => []Inv
<1>1. Init => Inv
    BY InitInv
<1>2. Inv /\ [Next]_vars => Inv'
    BY NextInv, StutterInv
<1> QED
    BY <1>1, <1>2, PTL DEF Spec

(* What the cache shows is a true relation between current                 *)
(* interpretations, marked as reviewed exactly when both are: no row of a  *)
(* batch that was overtaken by a capture or a review comes back            *)
(* (pipeline.py, relation_page; sync.py, launch_lane).                     *)
THEOREM ShownAlwaysTrue == Spec => []ShownIsTrue
<1>1. Inv => ShownIsTrue
  <2>1. ASSUME Inv, NEW g \in Groups, NEW r \in Shown(g)
        PROVE  /\ {r.claim.a, r.claim.b} \subseteq Members(g)
               /\ Holds(r.claim.relation, r.claim.a, r.claim.b)
               /\ r.claim.scope = "SETTLEMENT_OUTCOME" => SettleAlike(r.claim.a, r.claim.b)
               /\ r.reviewed = {c \in {r.claim.a, r.claim.b} : Approved(c)}
    <3>1. RowTrue(r) /\ r.signature = Signature(g)
        BY <2>1 DEF Inv, RowsTrue, Shown
    <3>2. Exact(r.signature) /\ DOMAIN r.signature = Members(g)
        BY <2>1, <3>1, NewSignature DEF Inv
    <3> QED
        BY <3>1, <3>2 DEF RowTrue, ClaimTrue, Exact
  <2> QED
      BY <2>1 DEF ShownIsTrue
<1> QED
    BY <1>1, InvAlways, PTL

-----------------------------------------------------------------------------
(* The order of the rows names no group twice; a group's row is there from *)
(* the beginning of its first batch; and a batch has a row to write.       *)
UpdatedFits == updated \in Seq(Groups) /\ IsInjective(updated)

CacheFits ==
    /\ DOMAIN cache = Groups
    /\ cache = [g \in Groups |-> cache[g]]
    /\ \A g \in Groups :
         /\ cache[g] = [signature |-> cache[g].signature, state |-> cache[g].state,
                        cursor |-> cache[g].cursor]
         /\ cache[g].state \in {"absent", "running", "complete"}
         /\ cache[g].state = "absent" <=> cache[g].signature = None
         /\ cache[g].state # "absent" => Written(g)

BatchFits ==
    /\ worker.pc # "idle" => worker.group \in Groups /\ worker.signature # None
    /\ worker.pc \in {"begun", "pair", "claims"} => cache[worker.group].state # "absent"

CountsFit ==
    /\ changes \in 0..MaxChanges
    /\ \A c \in Contracts : rev[c] <= changes
    /\ \A r \in rows : r.reviewed \subseteq {r.claim.a, r.claim.b}

Fits == UpdatedFits /\ CacheFits /\ BatchFits /\ CountsFit

(* Writing a group's row moves it to the end of the order. *)
LEMMA TouchedFits ==
    ASSUME UpdatedFits, NEW g \in Groups
    PROVE  /\ Touched(g) \in Seq(Groups) /\ IsInjective(Touched(g))
           /\ \A h \in Groups : h = g \/ Written(h) => \E i \in DOMAIN Touched(g) : Touched(g)[i] = h
<1>1. ASSUME NEW s \in Seq(Groups), IsInjective(s), \A i \in DOMAIN s : s[i] # g
      PROVE  /\ Append(s, g) \in Seq(Groups) /\ IsInjective(Append(s, g))
             /\ \A h \in Groups : h = g \/ (\E i \in DOMAIN s : s[i] = h)
                  => \E i \in DOMAIN Append(s, g) : Append(s, g)[i] = h
  <2>1. /\ Append(s, g) \in Seq(Groups) /\ DOMAIN Append(s, g) = 1..(Len(s) + 1)
        /\ DOMAIN s = 1..Len(s) /\ Len(s) \in Nat
        /\ \A i \in 1..Len(s) : Append(s, g)[i] = s[i]
        /\ Append(s, g)[Len(s) + 1] = g
      OBVIOUS
  <2> DEFINE t == Append(s, g)
  <2> HIDE DEF t
  <2>2. /\ t \in Seq(Groups) /\ DOMAIN t = 1..(Len(s) + 1)
        /\ \A i \in 1..Len(s) : t[i] = s[i]
        /\ t[Len(s) + 1] = g
      BY <2>1 DEF t
  <2>3. \A i \in 1..(Len(s) + 1) : i = Len(s) + 1 \/ i \in 1..Len(s)
      BY <2>1
  <2>4. IsInjective(t)
    <3>1. ASSUME NEW i \in DOMAIN t, NEW k \in DOMAIN t, t[i] = t[k]
          PROVE  i = k
      <4>1. CASE i \in 1..Len(s) /\ k \in 1..Len(s)
          BY <1>1, <2>1, <2>2, <3>1, <4>1 DEF IsInjective
      <4>2. CASE i = Len(s) + 1 \/ k = Len(s) + 1
          BY <1>1, <2>1, <2>2, <2>3, <3>1, <4>2
      <4> QED
          BY <2>2, <2>3, <4>1, <4>2
    <3> QED
        BY <3>1 DEF IsInjective
  <2>5. \A h \in Groups : h = g \/ (\E i \in DOMAIN s : s[i] = h) => \E i \in DOMAIN t : t[i] = h
      BY <2>1, <2>2
  <2> QED
      BY <2>2, <2>4, <2>5 DEF t
<1>2. CASE ~Written(g)
    BY <1>1, <1>2 DEF Touched, Written, UpdatedFits
<1>3. CASE Written(g)
  <2> DEFINE n == Len(updated)
             at == Turn(g)
             s == RemoveAt(updated, at)
  <2>1. n \in Nat /\ at \in 1..n /\ updated[at] = g /\ DOMAIN updated = 1..n
      BY <1>3 DEF Written, Turn, UpdatedFits
  <2>2. \A i \in 1..n : updated[i] \in Groups
      BY DEF UpdatedFits
  <2> HIDE DEF at, n
  <2> DEFINE front == SubSeq(updated, 1, at - 1)
             rest == SubSeq(updated, at + 1, n)
  <2>3. /\ front \in Seq(Groups) /\ Len(front) = at - 1
        /\ \A i \in 1..(at - 1) : front[i] = updated[i]
    <3>1. /\ at - 1 \in Int /\ 1 \in Int /\ \A i \in 1..(at - 1) : updated[i] \in Groups
          /\ (at - 1) - 1 + 1 = at - 1
          /\ \A i \in 1..(at - 1) : 1 + i - 1 = i
          /\ (IF 1 <= at - 1 THEN (at - 1) - 1 + 1 ELSE 0) = at - 1
        BY <2>1, <2>2
    <3>2. /\ SubSeq(updated, 1, at - 1) \in Seq(Groups)
          /\ Len(SubSeq(updated, 1, at - 1)) = IF 1 <= at - 1 THEN (at - 1) - 1 + 1 ELSE 0
          /\ \A i \in 1..((at - 1) - 1 + 1) : SubSeq(updated, 1, at - 1)[i] = updated[1 + i - 1]
        BY <3>1, SubSeqProperties
    <3> QED
        BY <3>1, <3>2
  <2>4. /\ rest \in Seq(Groups) /\ Len(rest) = n - at
        /\ \A i \in 1..(n - at) : rest[i] = updated[at + i]
    <3>1. /\ at + 1 \in Int /\ n \in Int /\ \A i \in (at + 1)..n : updated[i] \in Groups
          /\ n - (at + 1) + 1 = n - at
          /\ \A i \in 1..(n - at) : (at + 1) + i - 1 = at + i
          /\ (IF at + 1 <= n THEN n - (at + 1) + 1 ELSE 0) = n - at
      <4>1. n \in Int /\ at \in Int /\ 1 <= at /\ at <= n
          BY <2>1
      <4>2. \A i \in (at + 1)..n : i \in 1..n
          BY <4>1
      <4> QED
          BY <2>2, <4>1, <4>2
    <3>2. /\ SubSeq(updated, at + 1, n) \in Seq(Groups)
          /\ Len(SubSeq(updated, at + 1, n)) = IF at + 1 <= n THEN n - (at + 1) + 1 ELSE 0
          /\ \A i \in 1..(n - (at + 1) + 1) :
               SubSeq(updated, at + 1, n)[i] = updated[(at + 1) + i - 1]
        BY <3>1, SubSeqProperties
    <3> QED
        BY <3>1, <3>2
  <2>5. s = front \o rest
      BY DEF RemoveAt, n
  <2> HIDE DEF front, rest, s
  <2>6. /\ s \in Seq(Groups) /\ Len(s) = n - 1
        /\ \A i \in 1..(n - 1) : s[i] = IF i < at THEN updated[i] ELSE updated[i + 1]
    <3>1. /\ front \o rest \in Seq(Groups) /\ Len(front \o rest) = Len(front) + Len(rest)
          /\ \A i \in 1..(Len(front) + Len(rest)) :
               (front \o rest)[i] = IF i <= Len(front) THEN front[i] ELSE rest[i - Len(front)]
        BY <2>3, <2>4, ConcatProperties
    <3>2. ASSUME NEW i \in 1..(n - 1)
          PROVE  s[i] = IF i < at THEN updated[i] ELSE updated[i + 1]
      <4>1. s[i] = IF i <= at - 1 THEN front[i] ELSE rest[i - (at - 1)]
          BY <2>1, <2>3, <2>4, <2>5, <3>1, <3>2
      <4>2. CASE i < at
          BY <2>1, <2>3, <4>1, <4>2, <3>2
      <4>3. CASE ~(i < at)
        <5>1. i - (at - 1) \in 1..(n - at) /\ at + (i - (at - 1)) = i + 1
            BY <2>1, <3>2, <4>3
        <5> QED
            BY <2>1, <2>4, <4>1, <4>3, <5>1, <3>2
      <4> QED
          BY <4>2, <4>3
    <3>3. Len(front) + Len(rest) = n - 1
        BY <2>1, <2>3, <2>4
    <3>4. s \in Seq(Groups) /\ Len(s) = n - 1
        BY <2>5, <3>1, <3>3
    <3> QED
        BY <3>2, <3>4
  <2>7. DOMAIN s = 1..(n - 1)
      BY <2>6
  <2>8. \A i, k \in 1..n : updated[i] = updated[k] => i = k
      BY <2>1 DEF UpdatedFits, IsInjective, n
  <2>9. \A i \in DOMAIN s : s[i] # g
      BY <2>1, <2>6, <2>7, <2>8
  <2>10. IsInjective(s)
      BY <2>1, <2>6, <2>7, <2>8 DEF IsInjective
  <2>11. ASSUME NEW h \in Groups, Written(h), h # g
         PROVE  \E i \in DOMAIN s : s[i] = h
    <3>1. PICK i \in 1..n : updated[i] = h
        BY <2>1, <2>11 DEF Written
    <3>2. CASE i < at
        BY <2>1, <2>6, <2>7, <3>1, <3>2
    <3>3. CASE at < i
      <4>1. i - 1 \in 1..(n - 1) /\ ~(i - 1 < at) /\ (i - 1) + 1 = i
          BY <2>1, <3>3
      <4> QED
          BY <2>6, <2>7, <3>1, <4>1
    <3> QED
        BY <2>1, <2>11, <3>1, <3>2, <3>3
  <2>12. Touched(g) = Append(s, g)
      BY <1>3 DEF Touched, s, at, n
  <2> QED
      BY <1>1, <2>6, <2>9, <2>10, <2>11, <2>12
<1> QED
    BY <1>2, <1>3

(* Rows stay where the order is only added to. *)
LEMMA RowsStayListed ==
    ASSUME CacheFits, NEW g \in Groups, UpdatedFits, updated' = Touched(g)
    PROVE  /\ UpdatedFits'
           /\ \A h \in Groups : h = g \/ cache[h].state # "absent" => Written(h)'
<1>1. /\ Touched(g) \in Seq(Groups) /\ IsInjective(Touched(g))
      /\ \A h \in Groups : h = g \/ Written(h) => \E i \in DOMAIN Touched(g) : Touched(g)[i] = h
    BY TouchedFits
<1>2. UpdatedFits'
    BY <1>1 DEF UpdatedFits, IsInjective
<1>3. \A h \in Groups : h = g \/ Written(h) => Written(h)'
    BY <1>1 DEF Written
<1> QED
    BY <1>2, <1>3 DEF CacheFits

(* A batch writes one row of the cache. *)
LEMMA RowWritten ==
    ASSUME CacheFits, NEW g \in Groups, NEW row, cache' = [cache EXCEPT ![g] = row],
           row = [signature |-> row.signature, state |-> row.state, cursor |-> row.cursor],
           row.state \in {"running", "complete"}, row.signature # None,
           \A h \in Groups : h = g \/ cache[h].state # "absent" => Written(h)'
    PROVE  CacheFits' /\ cache'[g].state # "absent"
<1>1. /\ DOMAIN cache = Groups /\ DOMAIN cache' = Groups /\ cache'[g] = row
      /\ \A h \in Groups : h # g => cache'[h] = cache[h]
      /\ cache' = [h \in Groups |-> cache'[h]]
    BY DEF CacheFits
<1>2. ASSUME NEW h \in Groups
      PROVE  /\ cache'[h] = [signature |-> cache'[h].signature, state |-> cache'[h].state,
                             cursor |-> cache'[h].cursor]
             /\ cache'[h].state \in {"absent", "running", "complete"}
             /\ cache'[h].state = "absent" <=> cache'[h].signature = None
             /\ cache'[h].state # "absent" => Written(h)'
  <2>1. CASE h = g
      BY <1>1, <2>1
  <2>2. CASE h # g
      BY <1>1, <2>2 DEF CacheFits
  <2> QED
      BY <2>1, <2>2
<1> QED
    BY <1>1, <1>2 DEF CacheFits

(* No group has a row at first. *)
LEMMA InitFits ==
    ASSUME Init
    PROVE  Fits
<1>1. UpdatedFits
    BY DEF Init, UpdatedFits, IsInjective
<1>2. CacheFits
    BY DEF Init, CacheFits, NoRow
<1>3. BatchFits
    BY DEF Init, BatchFits, Idle
<1>4. CountsFit
    BY ComparisonsAssumption DEF Init, CountsFit
<1> QED
    BY <1>1, <1>2, <1>3, <1>4 DEF Fits

(* Every step keeps the tables in order. *)
LEMMA NextFits ==
    ASSUME Inv, Fits, Next
    PROVE  Fits'
<1> USE DEF Inv, Fits
<1>1. ASSUME UNCHANGED <<cache, updated>>
      PROVE  UpdatedFits' /\ CacheFits'
    BY <1>1 DEF UpdatedFits, CacheFits, Written
<1>2. ASSUME worker' = Idle
      PROVE  BatchFits'
    BY <1>2 DEF BatchFits, Idle
<1>3. ASSUME UNCHANGED <<worker, cache>>
      PROVE  BatchFits'
    BY <1>3 DEF BatchFits
<1>4. ASSUME UNCHANGED <<rev, rows, changes>>
      PROVE  CountsFit'
    BY <1>4 DEF CountsFit
<1>5. ASSUME NEW c \in Contracts, NEW b \in Bodies, Interpret(c, b)
      PROVE  Fits'
  <2>1. CountsFit'
      BY <1>5, ComparisonsAssumption DEF Interpret, CountsFit, DatasetFits
  <2>2. UNCHANGED <<cache, updated, worker>>
      BY <1>5 DEF Interpret
  <2> QED
      BY <1>1, <1>3, <2>1, <2>2
<1>6. ASSUME NEW c \in Contracts, NEW verdict \in BOOLEAN, Review(c, verdict)
      PROVE  Fits'
  <2>1. CountsFit'
      BY <1>6, ComparisonsAssumption DEF Review, CountsFit, DatasetFits
  <2>2. UNCHANGED <<cache, updated, worker>>
      BY <1>6 DEF Review
  <2> QED
      BY <1>1, <1>3, <2>1, <2>2
<1>7. ASSUME NEW g \in Groups, Launch(g)
      PROVE  Fits'
  <2>1. /\ worker'.pc = "chosen" /\ worker'.group = g /\ worker'.signature = Signature(g)
        /\ UNCHANGED <<rev, rows, changes, cache, updated>>
      BY <1>7 DEF Launch, dataset
  <2>2. Signature(g) # None
    <3>1. Members(g) \in SUBSET Contracts
        BY DEF Members
    <3>2. Signature(g) \in [Members(g) -> Nat \X Nat]
        BY DEF Signature, Members, DatasetFits
    <3> QED
        BY <3>1, <3>2, ComparisonsAssumption
  <2>3. BatchFits'
      BY <1>7, <2>1, <2>2 DEF BatchFits
  <2> QED
      BY <1>1, <1>4, <2>1, <2>3
<1>8. CASE Begin
  <2> DEFINE row == [signature |-> worker.signature, state |-> "running", cursor |-> worker.cursor]
  <2>1. /\ worker.pc = "chosen" /\ cache' = [cache EXCEPT ![worker.group] = row]
        /\ updated' = Touched(worker.group) /\ worker' = [worker EXCEPT !.pc = "begun"]
        /\ UNCHANGED <<rev, rows, changes>>
      BY <1>8 DEF Begin, dataset
  <2>2. worker.group \in Groups /\ worker.signature # None
      BY <2>1 DEF BatchFits
  <2>3. /\ UpdatedFits'
        /\ \A h \in Groups : h = worker.group \/ cache[h].state # "absent" => Written(h)'
      BY <2>1, <2>2, RowsStayListed
  <2>4. /\ row = [signature |-> row.signature, state |-> row.state, cursor |-> row.cursor]
        /\ row.state \in {"running", "complete"} /\ row.signature # None
      BY <2>2
  <2> HIDE DEF row
  <2>5. CacheFits' /\ cache'[worker.group].state # "absent"
      BY <2>1, <2>2, <2>3, <2>4, RowWritten
  <2>6. worker'.pc = "begun" /\ worker'.group = worker.group /\ worker'.signature = worker.signature
      BY <2>1 DEF WorkerTrue, BatchTrue
  <2>7. BatchFits'
      BY <2>2, <2>5, <2>6 DEF BatchFits
  <2> QED
      BY <1>4, <2>1, <2>3, <2>5, <2>7
<1>9. ASSUME UNCHANGED <<cache, updated, rev, changes>>, CountsFit',
             worker.pc \in {"begun", "pair", "claims"},
             worker'.group = worker.group, worker'.signature = worker.signature
      PROVE  Fits'
  <2>1. BatchFits'
      BY <1>9 DEF BatchFits
  <2> QED
      BY <1>1, <1>9, <2>1
<1>10. ASSUME NEW consensus, Start(consensus)
       PROVE  Fits'
  <2>1. /\ UNCHANGED <<cache, updated, rev, changes, rows>> /\ worker.pc = "begun"
        /\ worker'.group = worker.group /\ worker'.signature = worker.signature
      BY <1>10 DEF Start, dataset
  <2> QED
      BY <1>4, <1>9, <2>1
<1>11. CASE NextPair
  <2>1. PICK pair \in worker.pairs :
          worker' = [worker EXCEPT !.pc = "claims",
                                   !.todo = PairClaims(pair[1], pair[2], worker.edges)]
      BY <1>11 DEF NextPair
  <2>2. UNCHANGED <<cache, updated, rev, changes, rows>> /\ worker.pc = "pair"
      BY <1>11 DEF NextPair, dataset
  <2>3. worker'.group = worker.group /\ worker'.signature = worker.signature
      BY <2>1, <2>2 DEF WorkerTrue, BatchTrue
  <2> QED
      BY <1>4, <1>9, <2>2, <2>3
<1>12. CASE StoreClaim
  <2> DEFINE claim == CHOOSE c \in worker.todo : TRUE
             row == [signature |-> worker.signature, claim |-> claim,
                     reviewed |-> {c \in {claim.a, claim.b} : Approved(c)}]
  <2>1. /\ worker.pc = "claims" /\ UNCHANGED <<cache, updated, rev, changes>>
        /\ rows' \subseteq rows \cup {row}
        /\ worker' = [worker EXCEPT !.todo = @ \ {claim}]
      BY <1>12 DEF StoreClaim, dataset
  <2>2. row.reviewed \subseteq {row.claim.a, row.claim.b}
      OBVIOUS
  <2> HIDE DEF claim, row
  <2>3. CountsFit'
      BY <2>1, <2>2 DEF CountsFit
  <2>4. worker'.group = worker.group /\ worker'.signature = worker.signature
      BY <2>1 DEF WorkerTrue, BatchTrue
  <2> QED
      BY <1>9, <2>1, <2>3, <2>4
<1>13. CASE Checkpoint
  <2>1. worker.pc = "claims" /\ UNCHANGED <<rev, rows, changes>>
      BY <1>13 DEF Checkpoint, dataset
  <2>2. CASE worker' = Idle /\ UNCHANGED <<cache, updated>>
      BY <1>1, <1>2, <1>4, <2>1, <2>2
  <2>3. CASE /\ cache' = [cache EXCEPT ![worker.group].cursor = worker.advanced + 1]
             /\ updated' = Touched(worker.group)
             /\ worker' = [worker EXCEPT !.pc = "pair", !.advanced = @ + 1]
    <3> DEFINE old == cache[worker.group]
               row == [signature |-> old.signature, state |-> old.state,
                       cursor |-> worker.advanced + 1]
    <3>1. worker.group \in Groups /\ worker.signature # None /\ old.state # "absent"
        BY <2>1 DEF BatchFits
    <3>2. /\ UpdatedFits'
          /\ \A h \in Groups : h = worker.group \/ cache[h].state # "absent" => Written(h)'
        BY <2>3, <3>1, RowsStayListed
    <3>3. old = [signature |-> old.signature, state |-> old.state, cursor |-> old.cursor]
        BY <3>1 DEF CacheFits
    <3>4. [old EXCEPT !.cursor = worker.advanced + 1] = row
        BY <3>3
    <3>5. cache' = [cache EXCEPT ![worker.group] = row]
        BY <2>3, <3>4
    <3>6. /\ row = [signature |-> row.signature, state |-> row.state, cursor |-> row.cursor]
          /\ row.state \in {"running", "complete"} /\ row.signature # None
        BY <3>1 DEF CacheFits
    <3> HIDE DEF row, old
    <3>7. CacheFits' /\ cache'[worker.group].state # "absent"
        BY <3>1, <3>2, <3>5, <3>6, RowWritten
    <3>8. worker'.pc = "pair" /\ worker'.group = worker.group /\ worker'.signature = worker.signature
        BY <2>1, <2>3 DEF WorkerTrue, BatchTrue
    <3>9. BatchFits'
        BY <3>1, <3>7, <3>8 DEF BatchFits
    <3> QED
        BY <1>4, <2>1, <3>2, <3>7, <3>9
  <2> QED
      BY <1>13, <2>2, <2>3 DEF Checkpoint
<1>14. CASE Finish
  <2>1. worker.pc = "pair" /\ worker' = Idle /\ UNCHANGED <<rev, rows, changes, updated>>
      BY <1>14 DEF Finish, dataset
  <2>2. CASE UNCHANGED cache
      BY <1>1, <1>2, <1>4, <2>1, <2>2
  <2>3. CASE cache' = [cache EXCEPT ![worker.group].state = "complete"]
    <3> DEFINE old == cache[worker.group]
               row == [signature |-> old.signature, state |-> "complete", cursor |-> old.cursor]
    <3>1. worker.group \in Groups /\ old.state # "absent"
        BY <2>1 DEF BatchFits
    <3>2. UpdatedFits' /\ \A h \in Groups : cache[h].state # "absent" => Written(h)'
        BY <2>1 DEF UpdatedFits, CacheFits, Written
    <3>3. old = [signature |-> old.signature, state |-> old.state, cursor |-> old.cursor]
        BY <3>1 DEF CacheFits
    <3>4. [old EXCEPT !.state = "complete"] = row
        BY <3>3
    <3>5. cache' = [cache EXCEPT ![worker.group] = row]
        BY <2>3, <3>4
    <3>6. /\ row = [signature |-> row.signature, state |-> row.state, cursor |-> row.cursor]
          /\ row.state \in {"running", "complete"} /\ row.signature # None
        BY <3>1 DEF CacheFits
    <3>7. \A h \in Groups : h = worker.group \/ cache[h].state # "absent" => Written(h)'
        BY <3>1, <3>2
    <3> HIDE DEF row, old
    <3>8. CacheFits'
        BY <3>1, <3>5, <3>6, <3>7, RowWritten
    <3> QED
        BY <1>2, <1>4, <2>1, <3>2, <3>8
  <2> QED
      BY <1>14, <2>2, <2>3 DEF Finish
<1>15. CASE Fail
  <2>1. worker' = Idle /\ UNCHANGED <<rev, rows, changes, cache, updated>>
      BY <1>15 DEF Fail, dataset
  <2> QED
      BY <1>1, <1>2, <1>4, <2>1
<1>16. CASE Elapse
  <2>1. UNCHANGED <<rev, rows, changes, cache, updated, worker>>
      BY <1>16 DEF Elapse, dataset
  <2> QED
      BY <1>1, <1>3, <1>4, <2>1
<1> QED
    BY <1>5, <1>6, <1>7, <1>8, <1>10, <1>11, <1>12, <1>13, <1>14, <1>15, <1>16 DEF Next, BatchStep

(* So does none. *)
LEMMA StutterFits ==
    ASSUME Fits, UNCHANGED vars
    PROVE  Fits'
BY DEF vars, dataset, Fits, UpdatedFits, CacheFits, Written, BatchFits, CountsFit

(* Comparisons: tables and batch hold what the code can write into them,   *)
(* also the order in which groups take their turns.                        *)
THEOREM TypesAlways == Spec => []TypeOK
<1>1. Init => Inv /\ Fits
    BY InitInv, InitFits
<1>2. Inv /\ Fits /\ [Next]_vars => (Inv /\ Fits)'
    BY NextInv, NextFits, StutterInv, StutterFits
<1>3. Inv /\ Fits => TypeOK
  <2> SUFFICES ASSUME Inv, Fits
               PROVE  TypeOK
      OBVIOUS
  <2>1. /\ body \in [Contracts -> Bodies] /\ rev \in [Contracts -> 0..MaxChanges]
        /\ \A c \in Contracts : reviews[c] \in Seq(BOOLEAN)
      BY ComparisonsAssumption DEF Inv, Fits, DatasetFits, CountsFit
  <2>2. Range(updated) \subseteq Groups
      BY DEF Fits, UpdatedFits, Range
  <2> QED
      BY <2>1, <2>2 DEF TypeOK, Inv, Fits, UpdatedFits, CacheFits, CountsFit, WorkerTrue
<1> QED
    BY <1>1, <1>2, <1>3, PTL DEF Spec

-----------------------------------------------------------------------------
(* A set of natural numbers has a least one. *)
LEMMA LeastNumber ==
    ASSUME NEW T \in SUBSET Nat, T # {}
    PROVE  \E n \in T : \A m \in T : n <= m
<1> DEFINE C == {0..n : n \in T}
           R == StrictSubsetOrdering(Nat)
<1>1. IsWellFoundedOn(R, FiniteSubsetsOf(Nat))
    BY FS_StrictSubsetOrderingWellFounded
<1>2. C \subseteq FiniteSubsetsOf(Nat)
  <2>1. \A n \in Nat : IsFiniteSet(0..n) /\ 0..n \subseteq Nat
      BY FS_Interval
  <2> QED
      BY <2>1 DEF FiniteSubsetsOf
<1>3. C # {}
  <2>1. PICK n \in T : TRUE
      OBVIOUS
  <2>2. 0..n \in C
      OBVIOUS
  <2> QED
      BY <2>2
<1> HIDE DEF C, R
<1>4. PICK c \in C : \A d \in C : <<d, c>> \notin R
    BY <1>1, <1>2, <1>3, WFMin
<1>5. PICK n \in T : c = 0..n
    BY DEF C
<1>6. ASSUME NEW m \in T, m < n
      PROVE  FALSE
  <2>1. 0..m \in C
      BY DEF C
  <2>2. 0..m \subseteq 0..n /\ 0..m # 0..n /\ 0..n \subseteq Nat
      BY <1>6
  <2> QED
      BY <1>4, <1>5, <2>1, <2>2 DEF R, StrictSubsetOrdering
<1> QED
    BY <1>6

-----------------------------------------------------------------------------
(* closure() widens the edges as often as there are nodes. *)
LEMMA ClosureWidens ==
    ASSUME NEW claims, NEW scope, IsFiniteSet(Ends(Edges(claims, scope)))
    PROVE  LET nodes == Ends(Edges(claims, scope))
               most == Cardinality(nodes)
           IN  \E r : /\ r[0] = Edges(claims, scope)
                      /\ \A n \in 1..most : r[n] = Chained(r[n - 1], nodes)
                      /\ Closure(claims, scope) = r[most]
<1> DEFINE edges == Edges(claims, scope)
           nodes == Ends(edges)
           most == Cardinality(nodes)
           Step(f, n) == IF n = 0 THEN edges ELSE Chained(f[n - 1], nodes)
           reach == CHOOSE f : f = [n \in 0..most |-> Step(f, n)]
<1>1. Closure(claims, scope) = reach[most]
    BY DEF Closure
<1>2. most \in Nat
    BY FS_CardinalityType
<1> HIDE DEF edges, nodes, most, reach
<1>3. \A m \in Nat : \E f : f = [n \in 0..m |-> Step(f, n)]
  <2> DEFINE T == {m \in Nat : ~\E f : f = [n \in 0..m |-> Step(f, n)]}
  <2> SUFFICES ASSUME T # {} PROVE FALSE
      OBVIOUS
  <2>1. T \in SUBSET Nat
      OBVIOUS
  <2> HIDE DEF T
  <2>2. PICK m \in T : \A k \in T : m <= k
      BY <2>1, LeastNumber
  <2>3. m \in Nat /\ ~\E f : f = [n \in 0..m |-> Step(f, n)]
      BY DEF T
  <2>4. CASE m = 0
    <3> DEFINE f == [n \in 0..m |-> edges]
    <3>1. f = [n \in 0..m |-> Step(f, n)]
        BY <2>4
    <3> QED
        BY <2>3, <3>1
  <2>5. CASE m # 0
    <3>1. m - 1 \in Nat /\ m - 1 \notin T
        BY <2>2, <2>3, <2>5
    <3>2. PICK g : g = [n \in 0..(m - 1) |-> Step(g, n)]
        BY <3>1 DEF T
    <3>3. \A n \in 0..(m - 1) : g[n] = Step(g, n)
        BY <3>2
    <3> DEFINE f == [n \in 0..m |-> IF n = m THEN Chained(g[m - 1], nodes) ELSE g[n]]
    <3>4. ASSUME NEW n \in 0..m
          PROVE  f[n] = Step(f, n)
      <4>1. CASE n = m
        <5>1. m - 1 \in 0..m /\ m - 1 # m
            BY <2>3, <3>1
        <5>2. f[m - 1] = g[m - 1]
            BY <5>1
        <5> QED
            BY <2>5, <4>1, <5>2
      <4>2. CASE n # m
        <5>1. n \in 0..(m - 1) /\ (n # 0 => n - 1 \in 0..m /\ n - 1 # m)
            BY <2>3, <3>4, <4>2
        <5>2. n # 0 => f[n - 1] = g[n - 1]
            BY <5>1
        <5>3. f[n] = g[n]
            BY <4>2
        <5> QED
            BY <3>3, <5>1, <5>2, <5>3
      <4> QED
          BY <4>1, <4>2
    <3>5. f = [n \in 0..m |-> f[n]]
        OBVIOUS
    <3> HIDE DEF f
    <3>6. f = [n \in 0..m |-> Step(f, n)]
        BY <3>4, <3>5
    <3> QED
        BY <2>3, <3>6
  <2> QED
      BY <2>4, <2>5
<1>4. reach = [n \in 0..most |-> Step(reach, n)]
    BY <1>2, <1>3 DEF reach
<1>5. \A n \in 0..most : reach[n] = Step(reach, n)
    BY <1>4
<1>6. reach[0] = edges /\ \A n \in 1..most : reach[n] = Chained(reach[n - 1], nodes)
    BY <1>2, <1>5
<1> QED
    BY <1>1, <1>6 DEF edges, nodes, most

(* It finds whatever a chain of edges connects: of a set ordered by        *)
(* `before`, an edge from each element to the next is enough.              *)
LEMMA ChainsClose ==
    ASSUME NEW claims, NEW scope, IsFiniteSet(Ends(Edges(claims, scope))),
           NEW S, IsFiniteSet(S), NEW before \in SUBSET (S \X S),
           \A p \in S : <<p, p>> \notin before,
           \A p, m, q \in S : <<p, m>> \in before /\ <<m, q>> \in before => <<p, q>> \in before,
           \A p, q \in S :
             <<p, q>> \in before /\ (~\E m \in S : <<p, m>> \in before /\ <<m, q>> \in before)
               => <<p, q>> \in Edges(claims, scope)
    PROVE  before \subseteq Closure(claims, scope)
<1> DEFINE edges == Edges(claims, scope)
           nodes == Ends(edges)
           most == Cardinality(nodes)
           Between(p, q) == {m \in S : <<p, m>> \in before /\ <<m, q>> \in before}
<1>1. PICK r : /\ r[0] = edges
               /\ \A n \in 1..most : r[n] = Chained(r[n - 1], nodes)
               /\ Closure(claims, scope) = r[most]
    BY ClosureWidens
<1>2. most \in Nat
    BY FS_CardinalityType
<1>3. edges \subseteq nodes \X nodes
  <2>1. \A e \in edges : e = <<e[1], e[2]>>
      BY DEF Edges
  <2> QED
      BY <2>1 DEF Ends
<1> HIDE DEF edges, nodes, most
<1>4. \A k \in Nat : \A i, n \in 0..most : n = i + k => r[i] \subseteq r[n]
  <2> DEFINE T == {k \in Nat : \E i, n \in 0..most : n = i + k /\ ~(r[i] \subseteq r[n])}
  <2> SUFFICES ASSUME T # {} PROVE FALSE
      OBVIOUS
  <2>1. T \in SUBSET Nat
      OBVIOUS
  <2> HIDE DEF T
  <2>2. PICK k \in T : \A j \in T : k <= j
      BY <2>1, LeastNumber
  <2>3. PICK i, n \in 0..most : k \in Nat /\ n = i + k /\ ~(r[i] \subseteq r[n])
      BY DEF T
  <2>4. k # 0
      BY <1>2, <2>3
  <2>5. k - 1 \in Nat /\ k - 1 \notin T /\ n - 1 \in 0..most /\ n - 1 = i + (k - 1) /\ n \in 1..most
      BY <1>2, <2>2, <2>3, <2>4
  <2>6. r[i] \subseteq r[n - 1]
      BY <2>5 DEF T
  <2>7. r[n - 1] \subseteq r[n]
      BY <1>1, <2>5 DEF Chained
  <2> QED
      BY <2>3, <2>6, <2>7
<1>5. \A i, n \in 0..most : i <= n => r[i] \subseteq r[n]
  <2>1. ASSUME NEW i \in 0..most, NEW n \in 0..most, i <= n
        PROVE  r[i] \subseteq r[n]
    <3>1. n - i \in Nat /\ n = i + (n - i)
        BY <1>2, <2>1
    <3> QED
        BY <1>4, <3>1
  <2> QED
      BY <2>1
<1>6. \A n \in 0..most : r[n] \subseteq nodes \X nodes
  <2> DEFINE T == {n \in 0..most : ~(r[n] \subseteq nodes \X nodes)}
  <2> SUFFICES ASSUME T # {} PROVE FALSE
      OBVIOUS
  <2>1. T \in SUBSET Nat
      BY <1>2
  <2> HIDE DEF T
  <2>2. PICK n \in T : \A k \in T : n <= k
      BY <2>1, LeastNumber
  <2>3. n \in 0..most /\ ~(r[n] \subseteq nodes \X nodes)
      BY DEF T
  <2>4. n # 0
      BY <1>1, <1>3, <2>3
  <2>5. n - 1 \in 0..most /\ n - 1 \notin T /\ n \in 1..most
      BY <1>2, <2>2, <2>3, <2>4
  <2>6. r[n - 1] \subseteq nodes \X nodes
      BY <2>5 DEF T
  <2> QED
      BY <1>1, <2>3, <2>5, <2>6 DEF Chained
<1>7. \A p, q \in S : IsFiniteSet(Between(p, q)) /\ Cardinality(Between(p, q)) \in Nat
    BY FS_Subset, FS_CardinalityType
<1>8. ASSUME NEW p \in S, NEW q \in S, NEW m \in Between(p, q)
      PROVE  /\ Cardinality(Between(p, m)) < Cardinality(Between(p, q))
             /\ Cardinality(Between(m, q)) < Cardinality(Between(p, q))
  <2>1. Between(p, m) \subseteq Between(p, q) /\ m \notin Between(p, m)
      OBVIOUS
  <2>2. Between(m, q) \subseteq Between(p, q) /\ m \notin Between(m, q)
      OBVIOUS
  <2>3. m \in S
      OBVIOUS
  <2>5. m \in Between(p, q)
      OBVIOUS
  <2> HIDE DEF Between
  <2>4. /\ Cardinality(Between(p, m)) \in Nat /\ Cardinality(Between(m, q)) \in Nat
        /\ Cardinality(Between(p, q)) \in Nat /\ IsFiniteSet(Between(p, q))
      BY <1>7, <2>3
  <2>6. /\ Cardinality(Between(p, m)) <= Cardinality(Between(p, q))
        /\ Cardinality(Between(p, m)) # Cardinality(Between(p, q))
      BY <2>1, <2>4, <2>5, FS_Subset
  <2>7. /\ Cardinality(Between(m, q)) <= Cardinality(Between(p, q))
        /\ Cardinality(Between(m, q)) # Cardinality(Between(p, q))
      BY <2>2, <2>4, <2>5, FS_Subset
  <2> QED
      BY <2>4, <2>6, <2>7
<1>9. ASSUME NEW p \in S, NEW q \in S, <<p, q>> \in before, Between(p, q) = {}
      PROVE  <<p, q>> \in edges
    BY <1>9 DEF edges
<1>10. \A p, q \in S : \A m \in Between(p, q) :
         m \in S /\ <<p, m>> \in before /\ <<m, q>> \in before
    OBVIOUS
<1> HIDE DEF Between
<1> DEFINE Reached(p, q) == LET n == Cardinality(Between(p, q))
                            IN  n \in 0..most /\ <<p, q>> \in r[n]
(* A shortest pair that is not reached would have shorter ones between.    *)
<1>11. \A p, q \in S : <<p, q>> \in before => Reached(p, q)
  <2> DEFINE T == {n \in Nat : \E p, q \in S : /\ <<p, q>> \in before /\ ~Reached(p, q)
                                               /\ Cardinality(Between(p, q)) = n}
  <2> HIDE DEF Reached
  <2>0. \A p, q \in S : <<p, q>> \in before /\ ~Reached(p, q) => Cardinality(Between(p, q)) \in T
      BY <1>7
  <2> SUFFICES ASSUME T # {} PROVE FALSE
      BY <2>0
  <2> USE DEF Reached
  <2>1. T \in SUBSET Nat
      OBVIOUS
  <2> HIDE DEF T
  <2>2. PICK n \in T : \A k \in T : n <= k
      BY <2>1, LeastNumber
  <2>3. n \in Nat /\ \E p, q \in S : /\ <<p, q>> \in before /\ ~Reached(p, q)
                                     /\ Cardinality(Between(p, q)) = n
      BY <2>2 DEF T
  <2>4. PICK p, q \in S : <<p, q>> \in before /\ ~Reached(p, q) /\ Cardinality(Between(p, q)) = n
      BY <2>3
  <2>5. \A x, y \in S : <<x, y>> \in before /\ Cardinality(Between(x, y)) < n => Reached(x, y)
    <3> SUFFICES ASSUME NEW x \in S, NEW y \in S, <<x, y>> \in before,
                        Cardinality(Between(x, y)) < n, ~Reached(x, y)
                 PROVE  FALSE
        OBVIOUS
    <3>1. Cardinality(Between(x, y)) \in T
        BY <1>7 DEF T
    <3> HIDE DEF Reached
    <3> QED
        BY <1>7, <2>2, <2>3, <3>1
  <2>6. \A m \in Between(p, q) : Reached(p, m) /\ Reached(m, q)
    <3> HIDE DEF Reached
    <3> QED
        BY <1>8, <1>10, <2>4, <2>5
  <2>7. n <= most
    <3>1. \A m \in Between(p, q) : <<p, m>> \in nodes \X nodes
        BY <1>6, <2>6
    <3>2. IsFiniteSet(nodes)
        BY DEF nodes, edges
    <3>3. Between(p, q) \subseteq nodes
        BY <3>1
    <3> QED
        BY <2>4, <3>2, <3>3, FS_Subset DEF most
  <2>8. CASE n = 0
    <3>1. Between(p, q) = {}
        BY <1>7, <2>4, <2>8, FS_EmptySet
    <3>2. <<p, q>> \in r[0]
        BY <1>1, <1>9, <2>4, <3>1
    <3> QED
        BY <1>2, <2>4, <2>8, <3>2
  <2>9. CASE n # 0
    <3>1. PICK m : m \in Between(p, q)
        BY <1>7, <2>4, <2>9, FS_EmptySet
    <3>2. m \in S /\ n - 1 \in 0..most /\ n \in 1..most /\ n \in 0..most
      <4>1. m \in S
          BY <1>10, <2>4, <3>1
      <4>2. n - 1 \in 0..most /\ n \in 1..most /\ n \in 0..most
          BY <1>2, <2>3, <2>7, <2>9
      <4> QED
          BY <4>1, <4>2
    <3>3. /\ Cardinality(Between(p, m)) \in 0..most /\ Cardinality(Between(p, m)) <= n - 1
          /\ Cardinality(Between(m, q)) \in 0..most /\ Cardinality(Between(m, q)) <= n - 1
      <4>1. /\ Cardinality(Between(p, m)) < n /\ Cardinality(Between(p, m)) \in 0..most
            /\ Cardinality(Between(m, q)) < n /\ Cardinality(Between(m, q)) \in 0..most
          BY <1>8, <2>4, <2>6, <3>1
      <4> QED
          BY <1>2, <2>3, <4>1
    <3>4. <<p, m>> \in r[n - 1] /\ <<m, q>> \in r[n - 1]
        BY <1>5, <2>6, <3>1, <3>2, <3>3
    <3>5. m \in nodes /\ p \in nodes /\ q \in nodes
        BY <1>6, <3>2, <3>4
    <3>6. <<p, q>> \in Chained(r[n - 1], nodes)
        BY <3>4, <3>5 DEF Chained
    <3>7. <<p, q>> \in r[n]
        BY <1>1, <3>2, <3>6
    <3> QED
        BY <2>4, <3>2, <3>7
  <2> QED
      BY <2>8, <2>9
<1> QED
  <2>1. ASSUME NEW e \in before
        PROVE  e \in Closure(claims, scope)
    <3>1. PICK p, q \in S : e = <<p, q>>
        OBVIOUS
    <3>2. Reached(p, q)
        BY <1>11, <3>1
    <3>3. r[Cardinality(Between(p, q))] \subseteq r[most]
        BY <1>2, <1>5, <3>2
    <3> QED
        BY <1>1, <3>1, <3>2, <3>3
  <2> QED
      BY <2>1

-----------------------------------------------------------------------------
(* What an interpretation says: a comparator and an even threshold.        *)
LEMMA BodyFits ==
    ASSUME DatasetFits, NEW c \in Contracts
    PROVE  /\ body[c].threshold \in Int /\ Even(body[c].threshold)
           /\ body[c].comparator \in {"GT", "GTE", "LT", "LTE"}
<1>1. body[c] \in Bodies
    BY DEF DatasetFits
<1> QED
    BY <1>1, ComparisonsAssumption DEF Comparators

(* The values of an observation tell its interpretations apart. *)
LEMMA ValuesTell ==
    ASSUME DatasetFits, NEW x \in Contracts, NEW y \in Contracts
    PROVE  LET s == body[x].threshold
               t == body[y].threshold
           IN  /\ {s, t} \subseteq Values /\ Points({s, t}) \subseteq Values
               /\ \E v \in Points({s, t}) : s < v /\ t < v
               /\ \E v \in Points({s, t}) : v < s /\ v < t
               /\ s < t => \E v \in Values : s < v /\ v < t
<1> DEFINE s == body[x].threshold
           t == body[y].threshold
           B == {s, t}
<1>1. body[x] \in Bodies /\ body[y] \in Bodies
    BY DEF DatasetFits
<1>2. Points(B) \subseteq Values
    BY <1>1, ComparisonsAssumption
<1>3. s \in Int /\ t \in Int /\ Even(s) /\ Even(t)
    BY <1>1, ComparisonsAssumption
<1> HIDE DEF s, t
<1>4. B \subseteq Points(B)
    BY DEF Points
<1>5. \E v \in Points(B) : s < v /\ t < v
  <2>1. PICK m \in B : s <= m /\ t <= m
      BY <1>3
  <2>2. m + 1 \in Points(B)
      BY <2>1 DEF Points
  <2> QED
      BY <1>3, <2>1, <2>2
<1>6. \E v \in Points(B) : v < s /\ v < t
  <2>1. PICK m \in B : m <= s /\ m <= t
      BY <1>3
  <2>2. m - 1 \in Points(B)
      BY <2>1 DEF Points
  <2> QED
      BY <1>3, <2>1, <2>2
<1>7. ASSUME s < t
      PROVE  \E v \in Values : s < v /\ v < t
  <2>1. <<s, t>> \in Neighbours(B)
      BY <1>3, <1>7 DEF Neighbours
  <2>2. (s + t) \div 2 \in Points(B)
    <3>1. (<<s, t>>[1] + <<s, t>>[2]) \div 2 \in {(p[1] + p[2]) \div 2 : p \in Neighbours(B)}
        BY <2>1
    <3>2. <<s, t>>[1] = s /\ <<s, t>>[2] = t
        OBVIOUS
    <3>3. {(p[1] + p[2]) \div 2 : p \in Neighbours(B)} \subseteq Points(B)
        BY DEF Points
    <3> QED
        BY <3>1, <3>2, <3>3
  <2>3. PICK i \in Int : s = 2 * i
      BY <1>3, EvenHalf
  <2>4. PICK k \in Int : t = 2 * k
      BY <1>3, EvenHalf
  <2>5. (2 * i + 2 * k) \div 2 = i + k
      OBVIOUS
  <2>6. s < i + k /\ i + k < t
      BY <1>7, <2>3, <2>4
  <2> QED
      BY <1>2, <2>2, <2>3, <2>4, <2>5, <2>6
<1> QED
    BY <1>2, <1>4, <1>5, <1>6, <1>7 DEF s, t

(* What holds for every value is proven: over an unbounded domain both     *)
(* operands can be true.                                                   *)
LEMMA HoldsProven ==
    ASSUME DatasetFits, NEW x \in Contracts, NEW y \in Contracts, NEW relation,
           Holds(relation, x, y)
    PROVE  Verify(Record(x), Record(y), relation, Unbounded, Unbounded) = "PROVEN"
<1> DEFINE s == body[x].threshold
           t == body[y].threshold
           A(p) == Truth(body[x].comparator, s, p)
           B(p) == Truth(body[y].comparator, t, p)
           points == {p \in Points({s, t} \cup ({Unbounded, Unbounded} \ {Unbounded})) :
                        InDomain(p, Unbounded, Unbounded)}
<1>1. /\ Points({s, t}) \subseteq Values
      /\ \E v \in Points({s, t}) : s < v /\ t < v
      /\ \E v \in Points({s, t}) : v < s /\ v < t
    BY ValuesTell
<1>2. points = Points({s, t})
  <2>1. {s, t} \cup ({Unbounded, Unbounded} \ {Unbounded}) = {s, t}
      OBVIOUS
  <2> HIDE DEF s, t
  <2> QED
      BY <2>1 DEF InDomain
<1>3. /\ s \in Int /\ t \in Int /\ Values \subseteq Int
      /\ body[x].comparator \in {"GT", "GTE", "LT", "LTE"}
      /\ body[y].comparator \in {"GT", "GTE", "LT", "LTE"}
    BY ComparisonsAssumption, BodyFits
<1>4. Verify(Record(x), Record(y), relation, Unbounded, Unbounded) =
        IF \E p \in points : ~RelationHolds(relation, A(p), B(p)) THEN "DISPROVEN"
        ELSE IF (\E p \in points : A(p)) /\ (\E p \in points : B(p)) THEN "PROVEN"
        ELSE "UNKNOWN"
    BY DEF Verify, Record
<1>5. \A p \in points : RelationHolds(relation, A(p), B(p))
    BY <1>1, <1>2 DEF Holds
<1> HIDE DEF s, t, points
<1>6. /\ \E v \in points : v \in Int /\ s < v /\ t < v
      /\ \E v \in points : v \in Int /\ v < s /\ v < t
    BY <1>1, <1>2, <1>3
<1>7. (\E p \in points : A(p)) /\ (\E p \in points : B(p))
    BY <1>3, <1>6 DEF Truth
<1> HIDE DEF A, B
<1> QED
    BY <1>4, <1>5, <1>7

-----------------------------------------------------------------------------
(* An interpretation that is true above its threshold; two that say the    *)
(* same.                                                                   *)
Upward(c) == body[c].comparator \in {"GT", "GTE"}

SameBody(x, y) == /\ body[x].threshold = body[y].threshold
                  /\ body[x].comparator = body[y].comparator

(* The order of a chain is the order of implication, but for equals.       *)
LEMMA ChainOrder ==
    ASSUME DatasetFits, NEW x \in Contracts, NEW y \in Contracts, x # y
    PROVE  /\ SameBody(x, y) => Holds("IMPLIES", x, y)
           /\ Precedes(Record(x), Record(y)) /\ Upward(x) /\ Upward(y) => Holds("IMPLIES", y, x)
           /\ Precedes(Record(x), Record(y)) /\ ~Upward(x) /\ ~Upward(y) => Holds("IMPLIES", x, y)
           /\ Holds("IMPLIES", x, y) =>
                /\ Upward(x) <=> Upward(y)
                /\ SameBody(x, y) \/ IF Upward(x) THEN Precedes(Record(y), Record(x))
                                                  ELSE Precedes(Record(x), Record(y))
           /\ Holds("EXCLUDES", x, y) \/ Holds("COMPLEMENT", x, y) => (Upward(x) <=> ~Upward(y))
<1> DEFINE s == body[x].threshold
           t == body[y].threshold
           k == body[x].comparator
           l == body[y].comparator
<1>1. /\ s \in Int /\ t \in Int /\ Values \subseteq Int /\ Contracts \subseteq Nat
      /\ k \in {"GT", "GTE", "LT", "LTE"} /\ l \in {"GT", "GTE", "LT", "LTE"}
    BY ComparisonsAssumption, BodyFits
<1>2. /\ s \in Values /\ t \in Values
      /\ \E v \in Values : s < v /\ t < v
      /\ \E v \in Values : v < s /\ v < t
      /\ s < t => \E v \in Values : s < v /\ v < t
    BY ValuesTell
<1>3. t < s => \E v \in Values : t < v /\ v < s
    BY ValuesTell
<1>4. \A relation : Holds(relation, x, y) <=>
        \A v \in Values : RelationHolds(relation, Truth(k, s, v), Truth(l, t, v))
    BY DEF Holds
<1>5. Holds("IMPLIES", y, x) <=> \A v \in Values : Truth(l, t, v) => Truth(k, s, v)
    BY DEF Holds, RelationHolds
<1>6. Holds("IMPLIES", x, y) <=> \A v \in Values : Truth(k, s, v) => Truth(l, t, v)
    BY <1>4 DEF RelationHolds
<1>7. /\ Precedes(Record(x), Record(y)) <=>
           \/ s < t
           \/ s = t /\ (Strictness(k) < Strictness(l) \/ (Strictness(k) = Strictness(l) /\ x < y))
      /\ Precedes(Record(y), Record(x)) <=>
           \/ t < s
           \/ s = t /\ (Strictness(l) < Strictness(k) \/ (Strictness(l) = Strictness(k) /\ y < x))
    BY DEF Precedes, Record
<1>8. (Upward(x) <=> k \in {"GT", "GTE"}) /\ (Upward(y) <=> l \in {"GT", "GTE"})
    BY DEF Upward
<1>9. SameBody(x, y) <=> s = t /\ k = l
    BY DEF SameBody
<1>10. /\ Strictness("GTE") = 0 /\ Strictness("LT") = 0
       /\ Strictness("GT") = 1 /\ Strictness("LTE") = 1
    BY DEF Strictness
<1>11. \A u, v : /\ Truth("GT", u, v) <=> v > u
                 /\ Truth("GTE", u, v) <=> v >= u
                 /\ Truth("LT", u, v) <=> v < u
                 /\ Truth("LTE", u, v) <=> v <= u
    BY DEF Truth
<1> HIDE DEF s, t, k, l
<1>12. SameBody(x, y) => Holds("IMPLIES", x, y)
    BY <1>6, <1>9
<1>13. ASSUME Precedes(Record(x), Record(y)), Upward(x), Upward(y)
       PROVE  Holds("IMPLIES", y, x)
  <2>1. ASSUME NEW v \in Values, Truth(l, t, v)
        PROVE  Truth(k, s, v)
      BY <1>1, <1>7, <1>8, <1>10, <1>11, <1>13, <2>1
  <2> QED
      BY <1>5, <2>1
<1>14. ASSUME Precedes(Record(x), Record(y)), ~Upward(x), ~Upward(y)
       PROVE  Holds("IMPLIES", x, y)
  <2>1. ASSUME NEW v \in Values, Truth(k, s, v)
        PROVE  Truth(l, t, v)
      BY <1>1, <1>7, <1>8, <1>10, <1>11, <1>14, <2>1
  <2> QED
      BY <1>6, <2>1
<1>15. ASSUME Holds("IMPLIES", x, y)
       PROVE  Upward(x) <=> Upward(y)
  <2>1. PICK v \in Values : s < v /\ t < v
      BY <1>2
  <2>2. PICK u \in Values : u < s /\ u < t
      BY <1>2
  <2>3. (Truth(k, s, v) => Truth(l, t, v)) /\ (Truth(k, s, u) => Truth(l, t, u))
      BY <1>6, <1>15
  <2> QED
      BY <1>1, <1>8, <1>11, <2>1, <2>2, <2>3
<1>16. ASSUME Holds("IMPLIES", x, y), Upward(x)
       PROVE  SameBody(x, y) \/ Precedes(Record(y), Record(x))
  <2>1. k \in {"GT", "GTE"} /\ l \in {"GT", "GTE"}
      BY <1>8, <1>15, <1>16
  <2>2. ~(s < t)
    <3> SUFFICES ASSUME s < t PROVE FALSE
        OBVIOUS
    <3>1. PICK v \in Values : s < v /\ v < t
        BY <1>2
    <3> QED
        BY <1>1, <1>6, <1>11, <1>16, <2>1, <3>1
  <2>3. ASSUME s = t
        PROVE  ~(k = "GTE" /\ l = "GT")
      BY <1>1, <1>2, <1>6, <1>11, <1>16, <2>3
  <2> QED
      BY <1>1, <1>7, <1>9, <1>10, <2>1, <2>2, <2>3
<1>17. ASSUME Holds("IMPLIES", x, y), ~Upward(x)
       PROVE  SameBody(x, y) \/ Precedes(Record(x), Record(y))
  <2>1. k \in {"LT", "LTE"} /\ l \in {"LT", "LTE"}
      BY <1>1, <1>8, <1>15, <1>17
  <2>2. ~(t < s)
    <3> SUFFICES ASSUME t < s PROVE FALSE
        OBVIOUS
    <3>1. PICK v \in Values : t < v /\ v < s
        BY <1>3
    <3> QED
        BY <1>1, <1>6, <1>11, <1>17, <2>1, <3>1
  <2>3. ASSUME s = t
        PROVE  ~(k = "LTE" /\ l = "LT")
      BY <1>1, <1>2, <1>6, <1>11, <1>17, <2>3
  <2> QED
      BY <1>1, <1>7, <1>9, <1>10, <2>1, <2>2, <2>3
<1>18. ASSUME Holds("EXCLUDES", x, y) \/ Holds("COMPLEMENT", x, y)
       PROVE  Upward(x) <=> ~Upward(y)
  <2>1. PICK v \in Values : s < v /\ t < v
      BY <1>2
  <2>2. PICK u \in Values : u < s /\ u < t
      BY <1>2
  <2>3. ~(Truth(k, s, v) /\ Truth(l, t, v)) /\ ~(Truth(k, s, u) /\ Truth(l, t, u))
      BY <1>4, <1>18 DEF RelationHolds
  <2> QED
      BY <1>1, <1>8, <1>11, <2>1, <2>2, <2>3
<1> QED
    BY <1>12, <1>13, <1>14, <1>15, <1>16, <1>17, <1>18

-----------------------------------------------------------------------------
(* The records of a set of contracts. *)
RecordsOf(M) == {Record(c) : c \in M}

(* Where a record lies is where its interpretation points.                 *)
LEMMA RecordPolarity ==
    ASSUME DatasetFits, NEW M \in SUBSET Contracts
    PROVE  /\ Increasing(RecordsOf(M)) = {Record(c) : c \in {d \in M : Upward(d)}}
           /\ Decreasing(RecordsOf(M)) = {Record(c) : c \in {d \in M : ~Upward(d)}}
           /\ \A c, d \in M : Record(c) = Record(d) => c = d
           /\ \A c, d \in M : CrossPolarity(Record(c), Record(d)) <=> Upward(c) /\ ~Upward(d)
<1>1. \A c \in M : /\ Record(c).comparator = body[c].comparator /\ Record(c).contract = c
                   /\ body[c].comparator \in {"GT", "GTE", "LT", "LTE"}
    BY BodyFits DEF Record
<1>2. \A c \in M : /\ Record(c).comparator \in {"GT", "GTE"} <=> Upward(c)
                   /\ Record(c).comparator \in {"LT", "LTE"} <=> ~Upward(c)
    BY <1>1 DEF Upward
<1>3. Increasing(RecordsOf(M)) = {Record(c) : c \in {d \in M : Upward(d)}}
    BY <1>2 DEF Increasing, RecordsOf
<1>4. Decreasing(RecordsOf(M)) = {Record(c) : c \in {d \in M : ~Upward(d)}}
    BY <1>2 DEF Decreasing, RecordsOf
<1>5. \A c, d \in M : CrossPolarity(Record(c), Record(d)) <=> Upward(c) /\ ~Upward(d)
    BY <1>2 DEF CrossPolarity, Increasing, Decreasing
<1> QED
    BY <1>1, <1>3, <1>4, <1>5

(* Two records of a group are in one order or the other. *)
LEMMA PrecedesOrders ==
    ASSUME DatasetFits
    PROVE  /\ \A x \in Contracts : ~Precedes(Record(x), Record(x))
           /\ \A x, y \in Contracts :
                x # y => Precedes(Record(x), Record(y)) \/ Precedes(Record(y), Record(x))
           /\ \A x, y, z \in Contracts :
                Precedes(Record(x), Record(y)) /\ Precedes(Record(y), Record(z))
                  => Precedes(Record(x), Record(z))
<1>1. \A c \in Contracts : /\ body[c].threshold \in Int /\ c \in Int
                           /\ Strictness(body[c].comparator) \in Int
    BY BodyFits, ComparisonsAssumption DEF Strictness
<1>2. \A x, y \in Contracts : Precedes(Record(x), Record(y)) <=>
        LET s == body[x].threshold
            t == body[y].threshold
            k == Strictness(body[x].comparator)
            l == Strictness(body[y].comparator)
        IN  s < t \/ (s = t /\ (k < l \/ (k = l /\ x < y)))
    BY DEF Precedes, Record
<1> QED
    BY <1>1, <1>2

(* Two contracts of a group are a candidate pair, in one order. *)
LEMMA PairsCover ==
    ASSUME DatasetFits, NEW M \in SUBSET Contracts, NEW x \in M, NEW y \in M, x # y
    PROVE  \/ <<Record(x), Record(y)>> \in CandidatePairs(RecordsOf(M))
           \/ <<Record(y), Record(x)>> \in CandidatePairs(RecordsOf(M))
<1>1. Precedes(Record(x), Record(y)) \/ Precedes(Record(y), Record(x))
    BY PrecedesOrders
<1>2. /\ \A c \in M : Upward(c) => Record(c) \in Increasing(RecordsOf(M))
      /\ \A c \in M : ~Upward(c) => Record(c) \in Decreasing(RecordsOf(M))
    BY RecordPolarity
<1> HIDE DEF Increasing, Decreasing
<1> QED
    BY <1>1, <1>2 DEF CandidatePairs, ChainPairs

(* What holds of a candidate pair is claimed of it: in the settlement      *)
(* scope where it settles alike, in the observed scope across the          *)
(* polarities or along an edge that is kept.                               *)
LEMMA PairClaimed ==
    ASSUME DatasetFits, NEW x \in Contracts, NEW y \in Contracts, x # y,
           NEW relation \in Relations, relation = "IMPLIES" \/ x < y, Holds(relation, x, y),
           NEW a, NEW b, {a, b} = {Record(x), Record(y)}, NEW edges,
           NEW scope \in {"OBSERVED_EVENT", "SETTLEMENT_OUTCOME"},
           IF scope = "OBSERVED_EVENT" THEN CrossPolarity(a, b) \/ {a, b} \in edges
                                       ELSE SettleAlike(x, y)
    PROVE  [a |-> x, b |-> y, relation |-> relation, scope |-> scope] \in PairClaims(a, b, edges)
<1> DEFINE claim == [a |-> x, b |-> y, relation |-> relation, scope |-> scope]
           left == IF claim.a = a.contract THEN a ELSE b
           right == IF claim.b = a.contract THEN a ELSE b
<1>1. Record(x).contract = x /\ Record(y).contract = y
    BY DEF Record
<1>2. (a = Record(x) /\ b = Record(y)) \/ (a = Record(y) /\ b = Record(x))
    BY <1>1
<1>3. left = Record(x) /\ right = Record(y)
    BY <1>1, <1>2
<1>4. Verify(left, right, claim.relation, Unbounded, Unbounded) = "PROVEN"
    BY <1>3, HoldsProven
<1>5. scope = "SETTLEMENT_OUTCOME" => Settles(a, b)
    BY <1>2 DEF Settles, SettleAlike, Record
<1>6. claim \in [a : {a.contract, b.contract}, b : {a.contract, b.contract},
                 relation : Relations, scope : {"OBSERVED_EVENT", "SETTLEMENT_OUTCOME"}]
    BY <1>1, <1>2
<1>7. /\ claim.a # claim.b /\ (claim.relation = "IMPLIES" \/ claim.a < claim.b)
      /\ IF claim.scope = "OBSERVED_EVENT" THEN CrossPolarity(a, b) \/ {a, b} \in edges
                                           ELSE Settles(a, b)
    BY <1>5
<1> HIDE DEF claim, left, right
<1> QED
    BY <1>4, <1>6, <1>7 DEF PairClaims, claim, left, right

(* The edges between neighbours of a chain are enough for closure() to     *)
(* find every implication.                                                 *)
LEMMA NeighboursEnough ==
    ASSUME DatasetFits, NEW M \in SUBSET Contracts, NEW claims,
           \A c \in claims : {c.a, c.b} \subseteq M,
           \A x, y \in M :
             x # y /\ Holds("IMPLIES", x, y) /\ {Record(x), Record(y)} \in ObservedEdges(RecordsOf(M))
               => [a |-> x, b |-> y, relation |-> "IMPLIES", scope |-> "OBSERVED_EVENT"] \in claims,
           NEW x \in M, NEW y \in M, x # y, Holds("IMPLIES", x, y)
    PROVE  <<x, y>> \in Closure(claims, "OBSERVED_EVENT")
<1> DEFINE scope == "OBSERVED_EVENT"
           edges == Edges(claims, scope)
           Before(p, q) == Precedes(Record(p), Record(q))
           Chain == {c \in M : Upward(c) <=> Upward(x)}
           Equals == {c \in M : SameBody(c, x)}
           InLine(p, q) == IF Upward(x) THEN Before(q, p) ELSE Before(p, q)
           along == {e \in Chain \X Chain : InLine(e[1], e[2])}
           across == {e \in Equals \X Equals : Before(e[1], e[2])}
           against == {e \in Equals \X Equals : Before(e[2], e[1])}
<1>0. IsFiniteSet(M) /\ \A S \in SUBSET M : IsFiniteSet(S)
  <2>1. IsFiniteSet(Contracts)
      BY ComparisonsAssumption
  <2>2. \A S \in SUBSET Contracts : IsFiniteSet(S)
      BY <2>1, FS_Subset
  <2> QED
      BY <2>2
<1>1. IsFiniteSet(Ends(edges))
  <2>1. Ends(edges) \subseteq M
      BY DEF Ends, Edges
  <2> HIDE DEF edges
  <2> QED
      BY <1>0, <2>1
<1>2. /\ \A p, q \in M : SameBody(p, q) => (Upward(p) <=> Upward(q))
      /\ \A p, q, r \in M : SameBody(p, r) /\ SameBody(q, r) => SameBody(p, q)
    BY DEF SameBody, Upward
<1>3. /\ \A p \in M : ~Before(p, p)
      /\ \A p, q \in M : p # q => Before(p, q) \/ Before(q, p)
      /\ \A p, m, q \in M : Before(p, m) /\ Before(m, q) => Before(p, q)
    BY PrecedesOrders
<1>4. \A p, q \in M : p # q =>
        /\ SameBody(p, q) => Holds("IMPLIES", p, q)
        /\ Before(p, q) /\ Upward(p) /\ Upward(q) => Holds("IMPLIES", q, p)
        /\ Before(p, q) /\ ~Upward(p) /\ ~Upward(q) => Holds("IMPLIES", p, q)
    BY ChainOrder
<1>5. /\ Upward(x) <=> Upward(y)
      /\ SameBody(x, y) \/ IF Upward(x) THEN Before(y, x) ELSE Before(x, y)
    BY ChainOrder
<1> HIDE DEF Before
(* Neighbours of a chain are joined by an edge, in both directions where   *)
(* they say the same.                                                      *)
<1>6. ASSUME NEW p \in M, NEW q \in M, Before(p, q), Upward(p) <=> Upward(q),
             ~\E m \in M : (Upward(m) <=> Upward(p)) /\ Before(p, m) /\ Before(m, q)
      PROVE  {Record(p), Record(q)} \in ObservedEdges(RecordsOf(M))
  <2> DEFINE chain == {Record(c) : c \in {d \in M : Upward(d) <=> Upward(p)}}
  <2>1. chain = IF Upward(p) THEN Increasing(RecordsOf(M)) ELSE Decreasing(RecordsOf(M))
      BY RecordPolarity
  <2>2. Record(p) \in chain /\ Record(q) \in chain
      BY <1>6
  <2>3. ~\E c \in chain : Precedes(Record(p), c) /\ Precedes(c, Record(q))
      BY <1>6 DEF Before
  <2>4. Precedes(Record(p), Record(q))
      BY <1>6 DEF Before
  <2> HIDE DEF chain
  <2>5. <<Record(p), Record(q)>> \in
          {e \in chain \X chain : /\ Precedes(e[1], e[2])
                                  /\ ~\E c \in chain : Precedes(e[1], c) /\ Precedes(c, e[2])}
      BY <2>2, <2>3, <2>4
  <2>6. {Record(p), Record(q)} \in Adjacent(chain)
      BY <2>5 DEF Adjacent
  <2> QED
      BY <2>1, <2>6 DEF ObservedEdges
<1>7. \A p, q \in M :
        [a |-> p, b |-> q, relation |-> "IMPLIES", scope |-> scope] \in claims => <<p, q>> \in edges
  <2> SUFFICES ASSUME NEW p \in M, NEW q \in M, NEW c \in claims,
                      c = [a |-> p, b |-> q, relation |-> "IMPLIES", scope |-> scope]
               PROVE  <<p, q>> \in edges
      OBVIOUS
  <2>1. c \in {d \in claims : d.scope = scope /\ d.relation \in {"IMPLIES", "EQUIVALENT"}}
      OBVIOUS
  <2>2. <<c.a, c.b>> \in edges
      BY <2>1 DEF Edges
  <2> QED
      BY <2>2
<1>8. \A p, q \in M :
        p # q /\ Holds("IMPLIES", p, q) /\ {Record(p), Record(q)} \in ObservedEdges(RecordsOf(M))
          => <<p, q>> \in edges
    BY <1>7
<1> HIDE DEF edges, scope
<1>9. CASE ~SameBody(x, y)
  <2>1. Chain \subseteq M /\ IsFiniteSet(Chain) /\ x \in Chain /\ y \in Chain /\ <<x, y>> \in along
      BY <1>0, <1>5, <1>9
  <2>2. /\ along \in SUBSET (Chain \X Chain)
        /\ \A p, q \in Chain : <<p, q>> \in along <=> InLine(p, q)
      OBVIOUS
  <2>3. /\ \A p \in Chain : <<p, p>> \notin along
        /\ \A p, m, q \in Chain : <<p, m>> \in along /\ <<m, q>> \in along => <<p, q>> \in along
      BY <1>3, <2>2
  <2>4. ASSUME NEW p \in Chain, NEW q \in Chain, <<p, q>> \in along,
               ~\E m \in Chain : <<p, m>> \in along /\ <<m, q>> \in along
        PROVE  <<p, q>> \in edges
    <3>1. p # q /\ Holds("IMPLIES", p, q)
        BY <1>3, <1>4, <2>2, <2>4
    <3>2. {Record(p), Record(q)} \in ObservedEdges(RecordsOf(M))
      <4>1. CASE Upward(x)
        <5>1. Before(q, p) /\ ~\E m \in M : (Upward(m) <=> Upward(q)) /\ Before(q, m) /\ Before(m, p)
            BY <2>2, <2>4, <4>1
        <5>2. {Record(q), Record(p)} \in ObservedEdges(RecordsOf(M))
            BY <1>6, <5>1
        <5>3. {Record(q), Record(p)} = {Record(p), Record(q)}
            OBVIOUS
        <5> QED
            BY <5>2, <5>3
      <4>2. CASE ~Upward(x)
        <5>1. Before(p, q) /\ ~\E m \in M : (Upward(m) <=> Upward(p)) /\ Before(p, m) /\ Before(m, q)
            BY <2>2, <2>4, <4>2
        <5> QED
            BY <1>6, <5>1
      <4> QED
          BY <4>1, <4>2
    <3> QED
        BY <1>8, <3>1, <3>2
  <2> HIDE DEF Chain, along
  <2>5. along \subseteq Closure(claims, scope)
      BY <1>1, <2>1, <2>2, <2>3, <2>4, ChainsClose DEF edges
  <2> QED
      BY <2>1, <2>5 DEF scope
<1>10. CASE SameBody(x, y)
  <2>1. Equals \subseteq M /\ IsFiniteSet(Equals) /\ x \in Equals /\ y \in Equals
      BY <1>0, <1>10 DEF SameBody
  <2>2. /\ across \in SUBSET (Equals \X Equals) /\ against \in SUBSET (Equals \X Equals)
        /\ \A p, q \in Equals : <<p, q>> \in across <=> Before(p, q)
        /\ \A p, q \in Equals : <<p, q>> \in against <=> Before(q, p)
      OBVIOUS
  <2>3. /\ \A p \in Equals : <<p, p>> \notin across /\ <<p, p>> \notin against
        /\ \A p, m, q \in Equals : <<p, m>> \in across /\ <<m, q>> \in across => <<p, q>> \in across
        /\ \A p, m, q \in Equals : <<p, m>> \in against /\ <<m, q>> \in against => <<p, q>> \in against
      BY <1>3, <2>1, <2>2
(* What lies between equals equals them.                                   *)
  <2>4. ASSUME NEW p \in Equals, NEW q \in Equals, Before(p, q),
               ~\E m \in Equals : Before(p, m) /\ Before(m, q)
        PROVE  <<p, q>> \in edges /\ <<q, p>> \in edges
    <3>1. p # q /\ SameBody(p, q) /\ SameBody(q, p) /\ (Upward(p) <=> Upward(q))
        BY <1>2, <1>3, <2>1, <2>4 DEF SameBody
    <3>2. Holds("IMPLIES", p, q) /\ Holds("IMPLIES", q, p)
        BY <1>4, <2>1, <3>1
    <3>3. ASSUME NEW m \in M, Upward(m) <=> Upward(p), Before(p, m), Before(m, q)
          PROVE  m \in Equals
      <4> DEFINE s == body[p].threshold
                 t == body[m].threshold
                 k == Strictness(body[p].comparator)
                 l == Strictness(body[m].comparator)
      <4>1. /\ s < t \/ (s = t /\ k <= l)
            /\ t < s \/ (t = s /\ l <= k)
        <5>1. body[q].threshold = s /\ body[q].comparator = body[p].comparator
            BY <3>1 DEF SameBody
        <5>2. k \in Int /\ l \in Int
            BY DEF Strictness
        <5> QED
            BY <3>3, <5>1, <5>2 DEF Before, Precedes, Record
      <4>2. s \in Int /\ t \in Int /\ k \in Int /\ l \in Int
          BY <2>1, BodyFits DEF Strictness
      <4>3. s = t /\ k = l
          BY <4>1, <4>2
      <4>4. body[m].comparator = body[p].comparator
        <5>1. /\ body[m].comparator \in {"GT", "GTE", "LT", "LTE"}
              /\ body[p].comparator \in {"GT", "GTE", "LT", "LTE"}
            BY <2>1, BodyFits
        <5> QED
            BY <3>3, <4>3, <5>1 DEF Strictness, Upward
      <4> QED
          BY <4>3, <4>4 DEF SameBody
    <3>4. {Record(p), Record(q)} \in ObservedEdges(RecordsOf(M))
        BY <1>6, <2>1, <2>4, <3>1, <3>3
    <3>5. {Record(q), Record(p)} = {Record(p), Record(q)}
        OBVIOUS
    <3> QED
        BY <1>8, <2>1, <3>1, <3>2, <3>4, <3>5
  <2> HIDE DEF Equals, across, against
  <2>5. across \subseteq Closure(claims, scope)
    <3>1. \A p, q \in Equals :
            <<p, q>> \in across /\ (~\E m \in Equals : <<p, m>> \in across /\ <<m, q>> \in across)
              => <<p, q>> \in edges
        BY <2>2, <2>4
    <3> QED
        BY <1>1, <2>1, <2>2, <2>3, <3>1, ChainsClose DEF edges
  <2>6. against \subseteq Closure(claims, scope)
    <3>1. \A p, q \in Equals :
            <<p, q>> \in against /\ (~\E m \in Equals : <<p, m>> \in against /\ <<m, q>> \in against)
              => <<p, q>> \in edges
        BY <2>2, <2>4
    <3> QED
        BY <1>1, <2>1, <2>2, <2>3, <3>1, ChainsClose DEF edges
  <2>7. <<x, y>> \in across \/ <<x, y>> \in against
      BY <1>3, <2>1, <2>2
  <2> QED
      BY <2>5, <2>6, <2>7 DEF scope
<1> QED
    BY <1>9, <1>10

-----------------------------------------------------------------------------
(* When every candidate pair of a group has been compared, its claims      *)
(* contain or entail all there is to know about it.                        *)
LEMMA ComparedLacksNothing ==
    ASSUME DatasetFits, NEW M \in SUBSET Contracts, NEW accepted \in SUBSET M, NEW claims,
           \A c \in claims : {c.a, c.b} \subseteq M,
           \A p \in CandidatePairs(RecordsOf(M)) :
             PairClaims(p[1], p[2], EdgesKept(RecordsOf(M), accepted)) \subseteq claims,
           NEW x \in M, NEW y \in M, x # y
    PROVE  LET among == {c \in claims : {c.a, c.b} \subseteq accepted}
               HasClaim(relation, scope) ==
                 [a |-> x, b |-> y, relation |-> relation, scope |-> scope] \in claims
           IN  /\ Holds("IMPLIES", x, y) =>
                    /\ <<x, y>> \in Closure(claims, "OBSERVED_EVENT")
                    /\ {x, y} \subseteq accepted => <<x, y>> \in Closure(among, "OBSERVED_EVENT")
               /\ \A relation \in {"EXCLUDES", "COMPLEMENT"} :
                    x < y /\ Holds(relation, x, y) => HasClaim(relation, "OBSERVED_EVENT")
               /\ \A relation \in Relations :
                    Holds(relation, x, y) /\ SettleAlike(x, y) /\ (relation = "IMPLIES" \/ x < y)
                      => HasClaim(relation, "SETTLEMENT_OUTCOME")
<1> DEFINE kept == EdgesKept(RecordsOf(M), accepted)
           among == {c \in claims : {c.a, c.b} \subseteq accepted}
           Claim(p, q, relation, scope) ==
             [a |-> p, b |-> q, relation |-> relation, scope |-> scope]
<1>1. /\ \A p \in CandidatePairs(RecordsOf(M)) : PairClaims(p[1], p[2], kept) \subseteq claims
      /\ ObservedEdges(RecordsOf(M)) \subseteq kept
      /\ ObservedEdges(RecordsOf(accepted)) \subseteq kept
  <2>1. {r \in RecordsOf(M) : r.contract \in accepted} = RecordsOf(accepted)
      BY DEF RecordsOf, Record
  <2> QED
      BY <2>1 DEF EdgesKept
<1> HIDE DEF kept
(* The claims of two contracts, wherever a claim is allowed.               *)
<1>2. ASSUME NEW p \in M, NEW q \in M, p # q, NEW relation \in Relations,
             relation = "IMPLIES" \/ p < q, Holds(relation, p, q),
             NEW scope \in {"OBSERVED_EVENT", "SETTLEMENT_OUTCOME"},
             IF scope = "OBSERVED_EVENT"
             THEN {Record(p), Record(q)} \in kept \/ (Upward(p) <=> ~Upward(q))
             ELSE SettleAlike(p, q)
      PROVE  Claim(p, q, relation, scope) \in claims
  <2>1. PICK a, b : /\ <<a, b>> \in CandidatePairs(RecordsOf(M))
                    /\ (a = Record(p) /\ b = Record(q)) \/ (a = Record(q) /\ b = Record(p))
      BY <1>2, PairsCover
  <2>2. {a, b} = {Record(p), Record(q)}
      BY <2>1
  <2>3. ASSUME scope = "OBSERVED_EVENT", Upward(p) <=> ~Upward(q)
        PROVE  CrossPolarity(a, b)
    <3>1. /\ \A c, d \in M : CrossPolarity(Record(c), Record(d)) <=> Upward(c) /\ ~Upward(d)
          /\ Increasing(RecordsOf(M)) = {Record(c) : c \in {d \in M : Upward(d)}}
          /\ Decreasing(RecordsOf(M)) = {Record(c) : c \in {d \in M : ~Upward(d)}}
          /\ \A c, d \in M : Record(c) = Record(d) => c = d
        BY RecordPolarity
    <3>2. \/ a \in Increasing(RecordsOf(M)) /\ b \in Increasing(RecordsOf(M))
          \/ a \in Decreasing(RecordsOf(M)) /\ b \in Decreasing(RecordsOf(M))
          \/ a \in Increasing(RecordsOf(M)) /\ b \in Decreasing(RecordsOf(M))
        BY <2>1 DEF CandidatePairs, ChainPairs
    <3> QED
        BY <2>1, <2>3, <3>1, <3>2
  <2>4. IF scope = "OBSERVED_EVENT" THEN CrossPolarity(a, b) \/ {a, b} \in kept
                                    ELSE SettleAlike(p, q)
      BY <1>2, <2>2, <2>3
  <2>5. Claim(p, q, relation, scope) \in PairClaims(a, b, kept)
      BY <1>2, <2>2, <2>4, PairClaimed
  <2>6. PairClaims(a, b, kept) \subseteq claims
      BY <1>1, <2>1
  <2> QED
      BY <2>5, <2>6
<1>3. "IMPLIES" \in Relations /\ "EXCLUDES" \in Relations /\ "COMPLEMENT" \in Relations
    BY DEF Relations
<1>4. \A p, q \in M :
        p # q /\ Holds("IMPLIES", p, q) /\ {Record(p), Record(q)} \in kept
          => Claim(p, q, "IMPLIES", "OBSERVED_EVENT") \in claims
    BY <1>2, <1>3
<1>5. ASSUME Holds("IMPLIES", x, y)
      PROVE  <<x, y>> \in Closure(claims, "OBSERVED_EVENT")
  <2>1. \A p, q \in M :
          p # q /\ Holds("IMPLIES", p, q) /\ {Record(p), Record(q)} \in ObservedEdges(RecordsOf(M))
            => Claim(p, q, "IMPLIES", "OBSERVED_EVENT") \in claims
      BY <1>1, <1>4
  <2> QED
      BY <1>5, <2>1, NeighboursEnough
<1>6. ASSUME Holds("IMPLIES", x, y), {x, y} \subseteq accepted
      PROVE  <<x, y>> \in Closure(among, "OBSERVED_EVENT")
  <2>1. \A p, q \in accepted :
          p # q /\ Holds("IMPLIES", p, q) /\ {Record(p), Record(q)} \in ObservedEdges(RecordsOf(accepted))
            => Claim(p, q, "IMPLIES", "OBSERVED_EVENT") \in claims
      BY <1>1, <1>4
  <2>2. \A p, q \in accepted :
          p # q /\ Holds("IMPLIES", p, q) /\ {Record(p), Record(q)} \in ObservedEdges(RecordsOf(accepted))
            => Claim(p, q, "IMPLIES", "OBSERVED_EVENT") \in among
      BY <2>1
  <2>3. \A c \in among : {c.a, c.b} \subseteq accepted
      OBVIOUS
  <2> HIDE DEF among
  <2>4. accepted \in SUBSET Contracts /\ x \in accepted /\ y \in accepted
      BY <1>6
  <2> QED
      BY <1>6, <2>2, <2>3, <2>4, NeighboursEnough
<1>7. ASSUME NEW relation \in {"EXCLUDES", "COMPLEMENT"}, x < y, Holds(relation, x, y)
      PROVE  Claim(x, y, relation, "OBSERVED_EVENT") \in claims
  <2>1. Upward(x) <=> ~Upward(y)
      BY <1>7, ChainOrder
  <2> QED
      BY <1>2, <1>3, <1>7, <2>1
<1>8. ASSUME NEW relation \in Relations, Holds(relation, x, y), SettleAlike(x, y),
             relation = "IMPLIES" \/ x < y
      PROVE  Claim(x, y, relation, "SETTLEMENT_OUTCOME") \in claims
    BY <1>2, <1>8
<1> QED
    BY <1>5, <1>6, <1>7, <1>8

-----------------------------------------------------------------------------
(* The candidate pairs of a group have each a place of its own. *)
LEMMA PlacesDiffer ==
    ASSUME DatasetFits, NEW M \in SUBSET Contracts
    PROVE  LET pairs == CandidatePairs(RecordsOf(M))
           IN  /\ Cardinality(pairs) \in Nat
               /\ \A p \in pairs : Place(p, pairs) \in Nat /\ Place(p, pairs) < Cardinality(pairs)
               /\ \A p, q \in pairs : Place(p, pairs) = Place(q, pairs) => p = q
<1> DEFINE records == RecordsOf(M)
           pairs == CandidatePairs(records)
           Earlier(p) == {q \in pairs : YieldedBefore(q, p)}
<1>1. \A p \in pairs : p = <<p[1], p[2]>> /\ p[1] \in records /\ p[2] \in records
    BY DEF CandidatePairs, ChainPairs, Increasing, Decreasing
<1>2. IsFiniteSet(pairs)
  <2>1. IsFiniteSet(Contracts)
      BY ComparisonsAssumption
  <2>2. IsFiniteSet(M)
      BY <2>1, FS_Subset
  <2>3. IsFiniteSet(records)
    <3>1. records = {Record(c) : c \in M}
        BY DEF RecordsOf
    <3> DEFINE f == [c \in M |-> Record(c)]
    <3> HIDE DEF records
    <3>2. f \in Surjection(M, records)
        BY <3>1 DEF Surjection
    <3> HIDE DEF f
    <3> QED
        BY <2>2, <3>2, FS_Surjection
  <2> HIDE DEF records
  <2>4. IsFiniteSet(records \X records)
      BY <2>3, FS_Product
  <2>5. pairs \subseteq records \X records
      BY <1>1
  <2> HIDE DEF pairs
  <2> QED
      BY <2>4, <2>5, FS_Subset
<1>3. /\ \A a \in records : ~Precedes(a, a)
      /\ \A a, b \in records : a # b => Precedes(a, b) \/ Precedes(b, a)
      /\ \A a, b, c \in records : Precedes(a, b) /\ Precedes(b, c) => Precedes(a, c)
    BY PrecedesOrders DEF RecordsOf
<1>4. \A p : Part(p) \in 1..3
    BY DEF Part
<1> HIDE DEF pairs, records
<1>5. /\ \A p \in pairs : ~YieldedBefore(p, p)
      /\ \A p, q \in pairs : p # q => YieldedBefore(p, q) \/ YieldedBefore(q, p)
      /\ \A p, q, r \in pairs : YieldedBefore(p, q) /\ YieldedBefore(q, r) => YieldedBefore(p, r)
  <2>1. ASSUME NEW p \in pairs
        PROVE  ~YieldedBefore(p, p)
      BY <1>1, <1>3, <1>4 DEF YieldedBefore
  <2>2. ASSUME NEW p \in pairs, NEW q \in pairs, p # q
        PROVE  YieldedBefore(p, q) \/ YieldedBefore(q, p)
    <3>1. p[1] # q[1] \/ p[2] # q[2]
        BY <1>1, <2>2
    <3>2. Part(p) < Part(q) \/ Part(q) < Part(p) \/ Part(p) = Part(q)
        BY <1>4
    <3>3. /\ p[1] \in records /\ p[2] \in records /\ q[1] \in records /\ q[2] \in records
        BY <1>1
    <3> QED
        BY <1>3, <3>1, <3>2, <3>3 DEF YieldedBefore
  <2>3. ASSUME NEW p \in pairs, NEW q \in pairs, NEW r \in pairs,
               YieldedBefore(p, q), YieldedBefore(q, r)
        PROVE  YieldedBefore(p, r)
    <3>1. /\ p[1] \in records /\ p[2] \in records /\ q[1] \in records /\ q[2] \in records
          /\ r[1] \in records /\ r[2] \in records
        BY <1>1
    <3>2. CASE Part(p) < Part(r)
        BY <3>2 DEF YieldedBefore
    <3>3. CASE ~(Part(p) < Part(r))
      <4>1. Part(p) = Part(q) /\ Part(q) = Part(r)
          BY <1>4, <2>3, <3>3 DEF YieldedBefore
      <4>2. /\ Precedes(p[1], q[1]) \/ (p[1] = q[1] /\ Precedes(p[2], q[2]))
            /\ Precedes(q[1], r[1]) \/ (q[1] = r[1] /\ Precedes(q[2], r[2]))
          BY <1>4, <2>3, <4>1 DEF YieldedBefore
      <4>3. Precedes(p[1], r[1]) \/ (p[1] = r[1] /\ Precedes(p[2], r[2]))
          BY <1>3, <3>1, <4>2
      <4> QED
          BY <4>1, <4>3 DEF YieldedBefore
    <3> QED
        BY <3>2, <3>3
  <2> QED
      BY <2>1, <2>2, <2>3
<1>6. \A p \in pairs : Place(p, pairs) = Cardinality(Earlier(p))
    BY DEF Place
<1>7. \A p \in pairs : Earlier(p) \subseteq pairs /\ p \notin Earlier(p) /\ IsFiniteSet(Earlier(p))
    BY <1>2, <1>5, FS_Subset
<1>8. Cardinality(pairs) \in Nat /\ \A p \in pairs : Cardinality(Earlier(p)) \in Nat
    BY <1>2, <1>7, FS_CardinalityType
<1>9. \A p, q \in pairs : YieldedBefore(p, q) => Earlier(p) \subseteq Earlier(q) /\ p \in Earlier(q)
    BY <1>5
<1> HIDE DEF Earlier
<1>10. ASSUME NEW p \in pairs
       PROVE  Cardinality(Earlier(p)) < Cardinality(pairs)
  <2>1. /\ Cardinality(Earlier(p)) <= Cardinality(pairs)
        /\ Cardinality(Earlier(p)) # Cardinality(pairs)
      BY <1>2, <1>7, FS_Subset
  <2> QED
      BY <1>8, <2>1
<1>11. ASSUME NEW p \in pairs, NEW q \in pairs, YieldedBefore(p, q)
       PROVE  Cardinality(Earlier(p)) # Cardinality(Earlier(q))
    BY <1>7, <1>9, <1>11, FS_Subset
<1>12. \A p, q \in pairs : Place(p, pairs) = Place(q, pairs) => p = q
    BY <1>5, <1>6, <1>11
<1> QED
    BY <1>6, <1>8, <1>10, <1>12 DEF pairs, records

-----------------------------------------------------------------------------
(* What the rows of a signature say, and what the lane has to compare.     *)
Stored(sig) == {r.claim : r \in {q \in rows : q.signature = sig}}
Pairs(sig) == CandidatePairs(RecordsOf(DOMAIN sig))
Kept(sig) == EdgesKept(RecordsOf(DOMAIN sig), {c \in DOMAIN sig : Approved(c)})

PairDone(p, sig) == PairClaims(p[1], p[2], Kept(sig)) \subseteq Stored(sig)
DoneTo(sig, n) == \A p \in Pairs(sig) : Place(p, Pairs(sig)) < n => PairDone(p, sig)
AllDone(sig) == \A p \in Pairs(sig) : PairDone(p, sig)

(* A row of the cache: up to its cursor everything is stored.              *)
RowDone(row) ==
    row.state # "absent" =>
      /\ Past(row.signature)
      /\ row.cursor \in Nat
      /\ Exact(row.signature) => DoneTo(row.signature, row.cursor)
      /\ Exact(row.signature) /\ row.state = "complete" => AllDone(row.signature)

(* A batch: up to where it has advanced, but for the claims it is about to *)
(* store.                                                                  *)
BatchDone(w) ==
    /\ w.pc # "idle" => w.cursor \in Nat
    /\ w.pc \in {"chosen", "begun"} /\ Exact(w.signature) =>
         w.records = RecordsOf(DOMAIN w.signature) /\ DoneTo(w.signature, w.cursor)
    /\ w.pc \in {"pair", "claims"} => w.advanced \in Nat
    /\ w.pc \in {"pair", "claims"} /\ Exact(w.signature) =>
         /\ w.pairs = Pairs(w.signature) /\ w.edges = Kept(w.signature)
         /\ DoneTo(w.signature, w.advanced)
    /\ w.pc = "claims" /\ Exact(w.signature) =>
         \E p \in w.pairs : /\ Place(p, w.pairs) = w.advanced
                            /\ PairClaims(p[1], p[2], w.edges) \subseteq w.todo \cup Stored(w.signature)

CacheDone == \A g \in Groups : RowDone(cache[g])

Signed == worker.pc \in {"begun", "pair", "claims"} =>
            cache[worker.group].signature = worker.signature

Done == CacheDone /\ BatchDone(worker) /\ Signed

(* Rows are never removed. *)
LEMMA RowsGrow ==
    ASSUME Next
    PROVE  rows \subseteq rows'
BY DEF Next, Interpret, Review, Launch, BatchStep, Begin, Start, NextPair, StoreClaim,
       Checkpoint, Finish, Fail, Elapse

(* What was done for a signature is done as long as it is exact. *)
LEMMA WorkLasts ==
    ASSUME DatasetFits, Next, NEW sig, Past(sig)
    PROVE  Exact(sig)' => /\ Exact(sig)
                          /\ Pairs(sig)' = Pairs(sig)
                          /\ Kept(sig)' = Kept(sig)
                          /\ RecordsOf(DOMAIN sig)' = RecordsOf(DOMAIN sig)
                          /\ Stored(sig) \subseteq Stored(sig)'
                          /\ \A n : DoneTo(sig, n) => DoneTo(sig, n)'
                          /\ AllDone(sig) => AllDone(sig)'
<1> SUFFICES ASSUME Exact(sig)'
             PROVE  /\ Exact(sig)
                    /\ Pairs(sig)' = Pairs(sig)
                    /\ Kept(sig)' = Kept(sig)
                    /\ RecordsOf(DOMAIN sig)' = RecordsOf(DOMAIN sig)
                    /\ Stored(sig) \subseteq Stored(sig)'
                    /\ \A n : DoneTo(sig, n) => DoneTo(sig, n)'
                    /\ AllDone(sig) => AllDone(sig)'
    OBVIOUS
<1>1. /\ Exact(sig)
      /\ \A c \in DOMAIN sig : body'[c] = body[c] /\ reviews'[c] = reviews[c]
    BY ChangesShow DEF Exact
<1>2. RecordsOf(DOMAIN sig)' = RecordsOf(DOMAIN sig)
    BY <1>1 DEF RecordsOf, Record
<1>3. {c \in DOMAIN sig : Approved(c)}' = {c \in DOMAIN sig : Approved(c)}
    BY <1>1 DEF Approved
<1>4. Pairs(sig)' = Pairs(sig) /\ Kept(sig)' = Kept(sig)
    BY <1>2, <1>3 DEF Pairs, Kept
<1>5. Stored(sig) \subseteq Stored(sig)'
    BY RowsGrow DEF Stored
<1>6. \A p : PairDone(p, sig) => PairDone(p, sig)'
    BY <1>4, <1>5 DEF PairDone
<1>7. \A n : DoneTo(sig, n) => DoneTo(sig, n)'
    BY <1>4, <1>6 DEF DoneTo
<1>8. AllDone(sig) => AllDone(sig)'
    BY <1>4, <1>6 DEF AllDone
<1> QED
    BY <1>1, <1>2, <1>4, <1>5, <1>7, <1>8

(* So a row of the cache stays what it is, ... *)
LEMMA RowStaysDone ==
    ASSUME DatasetFits, Next, NEW row, RowDone(row)
    PROVE  RowDone(row)'
<1>1. row.state # "absent" => Past(row.signature)'
    BY ChangesShow DEF RowDone
<1> QED
    BY <1>1, WorkLasts DEF RowDone

(* ... and a batch. *)
LEMMA BatchStaysDone ==
    ASSUME DatasetFits, Next, NEW w, w.pc # "idle" => Past(w.signature), BatchDone(w)
    PROVE  BatchDone(w)'
<1>1. CASE w.pc = "idle"
    BY <1>1 DEF BatchDone
<1>2. CASE w.pc # "idle"
  <2> DEFINE sig == w.signature
  <2>1. Exact(sig)' => /\ Exact(sig)
                       /\ Pairs(sig)' = Pairs(sig)
                       /\ Kept(sig)' = Kept(sig)
                       /\ RecordsOf(DOMAIN sig)' = RecordsOf(DOMAIN sig)
                       /\ Stored(sig) \subseteq Stored(sig)'
                       /\ \A n : DoneTo(sig, n) => DoneTo(sig, n)'
      BY <1>2, WorkLasts
  <2> QED
      BY <1>2, <2>1 DEF BatchDone
<1> QED
    BY <1>1, <1>2

(* Nothing is done before the first batch, and nothing is claimed to be.   *)
LEMMA NothingDone ==
    ASSUME DatasetFits, NEW sig, Past(sig)
    PROVE  DoneTo(sig, 0)
<1>1. DOMAIN sig \in SUBSET Contracts
    BY DEF Past
<1>2. \A p \in Pairs(sig) : Place(p, Pairs(sig)) \in Nat
    BY <1>1, PlacesDiffer DEF Pairs
<1> QED
    BY <1>2 DEF DoneTo

(* One more pair is done; and a cursor beyond the last pair means all.     *)
LEMMA OneMoreDone ==
    ASSUME DatasetFits, NEW sig, Past(sig), NEW n \in Nat, DoneTo(sig, n)
    PROVE  /\ \A p \in Pairs(sig) : Place(p, Pairs(sig)) = n /\ PairDone(p, sig) => DoneTo(sig, n + 1)
           /\ Cardinality(Pairs(sig)) <= n => AllDone(sig)
<1>1. DOMAIN sig \in SUBSET Contracts
    BY DEF Past
<1> DEFINE pairs == Pairs(sig)
<1>2. /\ Cardinality(pairs) \in Nat
      /\ \A p \in pairs : Place(p, pairs) \in Nat /\ Place(p, pairs) < Cardinality(pairs)
      /\ \A p, q \in pairs : Place(p, pairs) = Place(q, pairs) => p = q
    BY <1>1, PlacesDiffer DEF Pairs
<1>3. \A p \in pairs : Place(p, pairs) < n => PairDone(p, sig)
    BY DEF DoneTo
<1> HIDE DEF pairs
<1>4. ASSUME NEW p \in pairs, Place(p, pairs) = n, PairDone(p, sig),
             NEW q \in pairs, Place(q, pairs) < n + 1
      PROVE  PairDone(q, sig)
  <2>1. Place(q, pairs) < n \/ Place(q, pairs) = n
      BY <1>2, <1>4
  <2> QED
      BY <1>2, <1>3, <1>4, <2>1
<1>5. ASSUME Cardinality(pairs) <= n
      PROVE  \A p \in pairs : PairDone(p, sig)
    BY <1>2, <1>3, <1>5
<1> QED
    BY <1>4, <1>5 DEF DoneTo, AllDone, pairs

(* No group has a row at first, and no batch runs. *)
LEMMA InitDone ==
    ASSUME Init
    PROVE  Done
BY DEF Init, Done, CacheDone, RowDone, NoRow, BatchDone, Idle, Signed

(* Every step keeps rows and batch at what has been done.                  *)
LEMMA NextDone ==
    ASSUME Panel = {}, Inv, Fits, Done, Next
    PROVE  Done'
<1> USE DEF Inv, Fits, Done
<1>1. \A row : RowDone(row) => RowDone(row)'
    BY RowStaysDone
<1>2. \A w : (w.pc # "idle" => Past(w.signature)) /\ BatchDone(w) => BatchDone(w)'
    BY BatchStaysDone
<1>3. worker.pc # "idle" => Past(worker.signature)
    BY DEF WorkerTrue, BatchTrue
<1>4. ASSUME NEW w, w = worker', BatchDone(w), w.pc # "idle" => Past(w.signature)
      PROVE  BatchDone(worker)'
  <2>1. BatchDone(w)'
      BY <1>2, <1>4
  <2> QED
      BY <1>4, <2>1 DEF BatchDone
<1>5. ASSUME UNCHANGED cache
      PROVE  CacheDone'
  <2>1. \A g \in Groups : RowDone(cache[g])'
    <3>1. ASSUME NEW g \in Groups
          PROVE  RowDone(cache[g])'
      <4>1. PICK row : row = cache[g]
          OBVIOUS
      <4>2. RowDone(row)'
          BY <1>1, <4>1 DEF CacheDone
      <4> QED
          BY <1>5, <4>1, <4>2 DEF RowDone
    <3> QED
        BY <3>1
  <2> QED
      BY <2>1 DEF CacheDone
<1>6. ASSUME NEW g \in Groups, NEW row, cache' = [cache EXCEPT ![g] = row], RowDone(row)
      PROVE  CacheDone' /\ cache'[g] = row
  <2>1. cache'[g] = row /\ \A h \in Groups : h # g => cache'[h] = cache[h]
      BY <1>6 DEF CacheFits
  <2>2. ASSUME NEW h \in Groups
        PROVE  RowDone(cache[h])'
    <3>1. PICK old : old = cache'[h]
        OBVIOUS
    <3>2. RowDone(old)
        BY <1>6, <2>1, <3>1 DEF CacheDone
    <3>3. RowDone(old)'
        BY <1>1, <3>2
    <3> QED
        BY <3>1, <3>3 DEF RowDone
  <2> QED
      BY <2>1, <2>2 DEF CacheDone
<1>7. ASSUME worker' = Idle
      PROVE  BatchDone(worker)' /\ Signed'
    BY <1>7 DEF BatchDone, Signed, Idle
<1>8. ASSUME UNCHANGED <<cache, worker>>
      PROVE  Done'
  <2>1. PICK w : w = worker
      OBVIOUS
  <2>2. BatchDone(worker)'
      BY <1>3, <1>4, <1>8, <2>1
  <2> QED
      BY <1>5, <1>8, <2>2 DEF Signed
<1>9. ASSUME NEW c \in Contracts, NEW b \in Bodies, Interpret(c, b)
      PROVE  Done'
    BY <1>8, <1>9 DEF Interpret
<1>10. ASSUME NEW c \in Contracts, NEW verdict \in BOOLEAN, Review(c, verdict)
       PROVE  Done'
    BY <1>8, <1>10 DEF Review
<1>11. CASE Elapse
    BY <1>8, <1>11 DEF Elapse
<1>12. CASE Fail
    BY <1>5, <1>7, <1>12 DEF Fail
<1>13. ASSUME NEW g \in Groups, Launch(g)
       PROVE  Done'
  <2> DEFINE from == IF HasRow(g) THEN cache[g].cursor ELSE 0
  <2>1. UNCHANGED cache
      BY <1>13 DEF Launch
  <2>2. PICK w : w = worker'
      OBVIOUS
  <2>3. /\ w.pc = "chosen" /\ w.signature = Signature(g) /\ w.records = Records(g)
        /\ w.cursor = from
      BY <1>13, <2>2 DEF Launch
  <2>4. /\ Past(Signature(g)) /\ Exact(Signature(g)) /\ DOMAIN Signature(g) = Members(g)
      BY NewSignature
  <2>5. from \in Nat /\ DoneTo(Signature(g), from)
    <3>1. CASE HasRow(g)
      <4>1. Signature(g) # None
        <5>1. Members(g) \in SUBSET Contracts
            BY DEF Members
        <5>2. Signature(g) \in [Members(g) -> Nat \X Nat]
            BY DEF Signature, Members, DatasetFits
        <5> QED
            BY <5>1, <5>2, ComparisonsAssumption
      <4>2. cache[g].state # "absent" /\ cache[g].signature = Signature(g)
          BY <3>1, <4>1 DEF HasRow, CacheFits
      <4> QED
          BY <2>4, <3>1, <4>2 DEF CacheDone, RowDone
    <3>2. CASE ~HasRow(g)
        BY <2>4, <3>2, NothingDone
    <3> QED
        BY <3>1, <3>2
  <2> HIDE DEF from
  <2>6. Records(g) = RecordsOf(Members(g))
      BY DEF Records, RecordsOf
  <2>7. BatchDone(w)
      BY <2>3, <2>4, <2>5, <2>6 DEF BatchDone
  <2>8. BatchDone(worker)'
      BY <1>4, <2>2, <2>3, <2>4, <2>7
  <2>9. Signed'
      BY <2>2, <2>3 DEF Signed
  <2> QED
      BY <1>5, <2>1, <2>8, <2>9
<1>14. CASE Begin
  <2>1. PICK row : row = [signature |-> worker.signature, state |-> "running",
                          cursor |-> worker.cursor]
      OBVIOUS
  <2>2. /\ worker.pc = "chosen" /\ cache' = [cache EXCEPT ![worker.group] = row]
        /\ worker' = [worker EXCEPT !.pc = "begun"]
      BY <1>14, <2>1 DEF Begin
  <2>3. worker.group \in Groups
      BY <2>2 DEF BatchFits
  <2>4. RowDone(row)
      BY <1>3, <2>1, <2>2 DEF RowDone, BatchDone
  <2>5. CacheDone' /\ cache'[worker.group] = row
      BY <1>6, <2>2, <2>3, <2>4
  <2>6. PICK w : w = worker'
      OBVIOUS
  <2>7. /\ w.pc = "begun" /\ w.group = worker.group /\ w.signature = worker.signature
        /\ w.records = worker.records /\ w.cursor = worker.cursor
      BY <2>2, <2>6 DEF WorkerTrue, BatchTrue
  <2>8. BatchDone(w)
      BY <2>2, <2>7 DEF BatchDone
  <2>9. BatchDone(worker)'
      BY <1>3, <1>4, <2>2, <2>6, <2>7, <2>8
  <2>10. Signed'
      BY <2>1, <2>5, <2>6, <2>7 DEF Signed
  <2> QED
      BY <2>5, <2>9, <2>10
<1>15. ASSUME NEW consensus \in {{}, Panel}, Start(consensus)
       PROVE  Done'
  <2>1. UNCHANGED cache /\ worker.pc = "begun" /\ consensus = {}
      BY <1>15 DEF Start
  <2>2. PICK w : w = worker'
      OBVIOUS
  <2> DEFINE contracts == {r.contract : r \in worker.records}
             accepted == {c \in contracts : Approved(c)}
  <2>3. /\ w.pc = "pair" /\ w.group = worker.group /\ w.signature = worker.signature
        /\ w.cursor = worker.cursor /\ w.advanced = worker.cursor
        /\ w.pairs = CandidatePairs(worker.records)
        /\ w.edges = EdgesKept(worker.records, accepted)
    <3>1. {c \in contracts : Approved(c) \/ (c \in consensus /\ ~Rejected(c))} = accepted
        BY <2>1
    <3> HIDE DEF accepted
    <3> QED
        BY <1>15, <2>2, <3>1 DEF Start
  <2>4. Exact(w.signature) => contracts = DOMAIN w.signature
    <3>1. Exact(w.signature) => worker.records = RecordsOf(DOMAIN w.signature)
        BY <2>1, <2>3 DEF BatchDone
    <3>2. \A c : Record(c).contract = c
        BY DEF Record
    <3> QED
        BY <3>1, <3>2 DEF RecordsOf
  <2>5. Exact(w.signature) => w.pairs = Pairs(w.signature) /\ w.edges = Kept(w.signature)
    <3>1. Exact(w.signature) => worker.records = RecordsOf(DOMAIN w.signature)
        BY <2>1, <2>3 DEF BatchDone
    <3>2. Exact(w.signature) => accepted = {c \in DOMAIN w.signature : Approved(c)}
        BY <2>4
    <3> HIDE DEF accepted
    <3> QED
        BY <2>3, <3>1, <3>2 DEF Pairs, Kept
  <2> HIDE DEF contracts, accepted
  <2>6. BatchDone(w)
      BY <2>1, <2>3, <2>5 DEF BatchDone
  <2>7. BatchDone(worker)'
      BY <1>3, <1>4, <2>1, <2>2, <2>3, <2>6
  <2>8. Signed'
      BY <2>1, <2>2, <2>3 DEF Signed
  <2> QED
      BY <1>5, <2>1, <2>7, <2>8
<1>16. CASE NextPair
  <2>1. PICK pair \in worker.pairs :
          /\ Place(pair, worker.pairs) = worker.advanced
          /\ worker' = [worker EXCEPT !.pc = "claims",
                                      !.todo = PairClaims(pair[1], pair[2], worker.edges)]
      BY <1>16 DEF NextPair
  <2>2. UNCHANGED cache /\ worker.pc = "pair"
      BY <1>16 DEF NextPair
  <2>3. PICK w : w = worker'
      OBVIOUS
  <2>4. /\ w.pc = "claims" /\ w.group = worker.group /\ w.signature = worker.signature
        /\ w.cursor = worker.cursor /\ w.advanced = worker.advanced
        /\ w.pairs = worker.pairs /\ w.edges = worker.edges
        /\ w.todo = PairClaims(pair[1], pair[2], worker.edges)
      BY <2>1, <2>2, <2>3 DEF WorkerTrue, BatchTrue
  <2>5. \E p \in w.pairs : /\ Place(p, w.pairs) = w.advanced
                           /\ PairClaims(p[1], p[2], w.edges) \subseteq w.todo \cup Stored(w.signature)
      BY <2>1, <2>4
  <2>6. BatchDone(w)
      BY <2>2, <2>4, <2>5 DEF BatchDone
  <2>7. BatchDone(worker)'
      BY <1>3, <1>4, <2>2, <2>3, <2>4, <2>6
  <2>8. Signed'
      BY <2>2, <2>3, <2>4 DEF Signed
  <2> QED
      BY <1>5, <2>2, <2>7, <2>8
<1>17. CASE StoreClaim
  <2> DEFINE claim == CHOOSE c \in worker.todo : TRUE
             row == [signature |-> worker.signature, claim |-> claim,
                     reviewed |-> {c \in {claim.a, claim.b} : Approved(c)}]
  <2>1. /\ worker.pc = "claims" /\ UNCHANGED cache
        /\ \E r \in rows' : r.signature = worker.signature /\ r.claim = claim
        /\ worker' = [worker EXCEPT !.todo = @ \ {claim}]
    <3>1. row \in rows \cup {row} /\ row.signature = worker.signature /\ row.claim = claim
        OBVIOUS
    <3> QED
        BY <1>17, <3>1 DEF StoreClaim
  <2> HIDE DEF claim, row
  <2>2. PICK v : v = worker
      OBVIOUS
  <2>3. BatchDone(v)'
      BY <1>2, <1>3, <2>2
  <2>4. PICK w : w = worker'
      OBVIOUS
  <2>5. /\ w.pc = "claims" /\ w.group = v.group /\ w.signature = v.signature
        /\ w.cursor = v.cursor /\ w.advanced = v.advanced
        /\ w.pairs = v.pairs /\ w.edges = v.edges /\ w.todo = v.todo \ {claim}
        /\ v.pc = "claims"
      BY <2>1, <2>2, <2>4 DEF WorkerTrue, BatchTrue
  <2>6. PICK k : k = claim
      OBVIOUS
  <2>7. k \in Stored(w.signature)'
      BY <2>1, <2>2, <2>5, <2>6 DEF Stored
  <2>8. v.todo \cup Stored(w.signature)' \subseteq w.todo \cup Stored(w.signature)'
      BY <2>5, <2>6, <2>7
  <2>9. BatchDone(w)'
      BY <2>3, <2>5, <2>8 DEF BatchDone
  <2>10. BatchDone(worker)'
      BY <2>4, <2>9 DEF BatchDone
  <2>11. Signed'
      BY <2>1, <2>2, <2>4, <2>5 DEF Signed
  <2> QED
      BY <1>5, <2>1, <2>10, <2>11
<1>18. CASE Checkpoint
  <2>1. CASE worker' = Idle /\ UNCHANGED cache
      BY <1>5, <1>7, <2>1
  <2>2. CASE /\ Unchanged
             /\ cache' = [cache EXCEPT ![worker.group].cursor = worker.advanced + 1]
             /\ worker' = [worker EXCEPT !.pc = "pair", !.advanced = @ + 1]
    <3> DEFINE old == cache[worker.group]
               sig == worker.signature
    <3>1. worker.pc = "claims" /\ worker.todo = {}
        BY <1>18 DEF Checkpoint
    <3>2. worker.group \in Groups /\ old.signature = sig /\ old.state # "absent"
        BY <3>1 DEF BatchFits, Signed
    <3>3. old = [signature |-> old.signature, state |-> old.state, cursor |-> old.cursor]
        BY <3>2 DEF CacheFits
    <3>4. Past(sig) /\ Exact(sig)
        BY <1>3, <2>2, <3>1, NewSignature DEF Unchanged
    <3>5. /\ worker.advanced \in Nat /\ worker.cursor \in Nat
          /\ worker.pairs = Pairs(sig) /\ worker.edges = Kept(sig)
          /\ DoneTo(sig, worker.advanced)
        BY <3>1, <3>4 DEF BatchDone
    <3>6. \E p \in Pairs(sig) : Place(p, Pairs(sig)) = worker.advanced /\ PairDone(p, sig)
        BY <3>1, <3>4, <3>5 DEF BatchDone, PairDone
    <3>7. DoneTo(sig, worker.advanced + 1)
        BY <3>4, <3>5, <3>6, OneMoreDone
    <3>8. PICK row : row = [signature |-> old.signature, state |-> old.state,
                            cursor |-> worker.advanced + 1]
        OBVIOUS
    <3>9. cache' = [cache EXCEPT ![worker.group] = row]
      <4>1. [old EXCEPT !.cursor = worker.advanced + 1] = row
          BY <3>3, <3>8
      <4> QED
          BY <2>2, <4>1
    <3>10. RowDone(row)
        BY <3>2, <3>4, <3>5, <3>7, <3>8 DEF CacheDone, RowDone
    <3>11. CacheDone' /\ cache'[worker.group] = row
        BY <1>6, <3>2, <3>9, <3>10
    <3>12. PICK w : w = worker'
        OBVIOUS
    <3>13. /\ w.pc = "pair" /\ w.group = worker.group /\ w.signature = sig
           /\ w.cursor = worker.cursor /\ w.advanced = worker.advanced + 1
           /\ w.pairs = worker.pairs /\ w.edges = worker.edges
        BY <2>2, <3>1, <3>12 DEF WorkerTrue, BatchTrue
    <3>14. BatchDone(w)
        BY <3>5, <3>7, <3>13 DEF BatchDone
    <3>15. BatchDone(worker)'
        BY <1>4, <3>4, <3>12, <3>13, <3>14
    <3>16. Signed'
        BY <3>2, <3>8, <3>11, <3>12, <3>13 DEF Signed
    <3> QED
        BY <3>11, <3>15, <3>16
  <2> QED
      BY <1>18, <2>1, <2>2 DEF Checkpoint
<1>19. CASE Finish
  <2>1. worker.pc = "pair" /\ ~HasNextPair /\ worker' = Idle
      BY <1>19 DEF Finish
  <2>2. CASE UNCHANGED cache
      BY <1>5, <1>7, <2>1, <2>2
  <2>3. CASE /\ Unchanged /\ WasLast
             /\ cache' = [cache EXCEPT ![worker.group].state = "complete"]
    <3> DEFINE old == cache[worker.group]
               sig == worker.signature
    <3>1. worker.group \in Groups /\ old.signature = sig /\ old.state # "absent"
        BY <2>1 DEF BatchFits, Signed
    <3>2. old = [signature |-> old.signature, state |-> old.state, cursor |-> old.cursor]
        BY <3>1 DEF CacheFits
    <3>3. Past(sig) /\ Exact(sig)
        BY <1>3, <2>1, <2>3, NewSignature DEF Unchanged
    <3>4. /\ worker.advanced \in Nat /\ worker.pairs = Pairs(sig)
          /\ DoneTo(sig, worker.advanced)
        BY <2>1, <3>3 DEF BatchDone
    <3>5. Cardinality(Pairs(sig)) <= worker.advanced
      <4>1. ~(worker.advanced < Cardinality(Pairs(sig)))
          BY <2>1, <2>3, <3>4 DEF HasNextPair, WasLast
      <4>2. Cardinality(Pairs(sig)) \in Nat
        <5>1. DOMAIN sig \in SUBSET Contracts
            BY <3>3 DEF Past
        <5> QED
            BY <5>1, PlacesDiffer DEF Pairs
      <4> QED
          BY <3>4, <4>1, <4>2
    <3>6. AllDone(sig)
        BY <3>3, <3>4, <3>5, OneMoreDone
    <3>7. PICK row : row = [signature |-> old.signature, state |-> "complete",
                            cursor |-> old.cursor]
        OBVIOUS
    <3>8. cache' = [cache EXCEPT ![worker.group] = row]
      <4>1. [old EXCEPT !.state = "complete"] = row
          BY <3>2, <3>7
      <4> QED
          BY <2>3, <4>1
    <3>9. RowDone(row)
        BY <3>1, <3>6, <3>7 DEF CacheDone, RowDone
    <3>10. CacheDone'
        BY <1>6, <3>1, <3>8, <3>9
    <3> QED
        BY <1>7, <2>1, <3>10
  <2> QED
      BY <1>19, <2>2, <2>3 DEF Finish
<1> QED
    BY <1>9, <1>10, <1>11, <1>12, <1>13, <1>14, <1>15, <1>16, <1>17, <1>18, <1>19 DEF Next, BatchStep

(* So does none. *)
LEMMA StutterDone ==
    ASSUME Done, UNCHANGED vars
    PROVE  Done'
<1> USE DEF vars, dataset
<1>1. \A c : Record(c)' = Record(c) /\ Approved(c)' = Approved(c)
    BY DEF Record, Approved
<1>2. \A sig : Past(sig)' = Past(sig) /\ Exact(sig)' = Exact(sig) /\ Stored(sig)' = Stored(sig)
    BY DEF Past, Exact, Lasting, Stored
<1>3. \A M : RecordsOf(M)' = RecordsOf(M)
    BY <1>1 DEF RecordsOf
<1>4. \A sig : Pairs(sig)' = Pairs(sig) /\ Kept(sig)' = Kept(sig)
    BY <1>1, <1>3 DEF Pairs, Kept
<1>5. \A sig : AllDone(sig)' = AllDone(sig) /\ \A n : DoneTo(sig, n)' = DoneTo(sig, n)
    BY <1>2, <1>4 DEF AllDone, DoneTo, PairDone
<1>6. CacheDone'
    BY <1>2, <1>5 DEF Done, CacheDone, RowDone
<1>7. BatchDone(worker)' /\ Signed'
    BY <1>2, <1>3, <1>4, <1>5 DEF Done, BatchDone, Signed
<1> QED
    BY <1>6, <1>7 DEF Done

(* On a server that takes no panel's approvals, a group that is called     *)
(* complete lacks nothing: what may be chained is chained, also among the  *)
(* approved interpretations alone, and what may not be is there itself     *)
(* (pipeline.py, refresh_comparisons; evaluation.py, iter_comparisons).    *)
THEOREM CompleteAlwaysLacksNothing ==
    ASSUME Panel = {}
    PROVE  Spec => []CompleteLacksNothing
<1>1. Init => Inv /\ Fits /\ Done
    BY InitInv, InitFits, InitDone
<1>2. Inv /\ Fits /\ Done /\ [Next]_vars => (Inv /\ Fits /\ Done)'
    BY NextInv, NextFits, NextDone, StutterInv, StutterFits, StutterDone
<1>3. Inv /\ Fits /\ Done => CompleteLacksNothing
  <2> SUFFICES ASSUME Inv, Fits, Done, NEW g \in Groups, Members(g) # {}, Complete(g),
                      NEW x \in Members(g), NEW y \in Members(g), x # y
               PROVE  LET claims == {r.claim : r \in Shown(g)}
                          accepted == {c \in Members(g) : Approved(c)}
                          among == {c \in claims : {c.a, c.b} \subseteq accepted}
                          HasClaim(relation, scope) ==
                            [a |-> x, b |-> y, relation |-> relation, scope |-> scope] \in claims
                      IN  /\ Holds("IMPLIES", x, y) =>
                               /\ <<x, y>> \in Closure(claims, "OBSERVED_EVENT")
                               /\ {x, y} \subseteq accepted =>
                                    <<x, y>> \in Closure(among, "OBSERVED_EVENT")
                          /\ \A relation \in {"EXCLUDES", "COMPLEMENT"} :
                               x < y /\ Holds(relation, x, y) => HasClaim(relation, "OBSERVED_EVENT")
                          /\ \A relation \in Relations :
                               Holds(relation, x, y) /\ SettleAlike(x, y)
                                 /\ (relation = "IMPLIES" \/ x < y)
                                 => HasClaim(relation, "SETTLEMENT_OUTCOME")
      BY DEF CompleteLacksNothing
  <2> DEFINE sig == Signature(g)
             M == Members(g)
             claims == {r.claim : r \in Shown(g)}
             accepted == {c \in M : Approved(c)}
  <2>1. DatasetFits /\ M \in SUBSET Contracts /\ accepted \in SUBSET M
      BY DEF Members, Inv
  <2>2. Past(sig) /\ Exact(sig) /\ DOMAIN sig = M
      BY <2>1, NewSignature
  <2>3. claims = Stored(sig)
      BY DEF Shown, Stored
  <2>4. AllDone(sig)
    <3>1. cache[g].signature = sig /\ cache[g].state = "complete"
        BY DEF Complete, HasRow
    <3> QED
        BY <2>2, <3>1 DEF Done, CacheDone, RowDone
  <2>5. \A c \in claims : {c.a, c.b} \subseteq M
    <3>1. ASSUME NEW r \in Shown(g)
          PROVE  {r.claim.a, r.claim.b} \subseteq M
        BY <2>2, <3>1 DEF Inv, RowsTrue, RowTrue, ClaimTrue, Exact, Shown
    <3> QED
        BY <3>1
  <2>6. \A p \in CandidatePairs(RecordsOf(M)) :
          PairClaims(p[1], p[2], EdgesKept(RecordsOf(M), accepted)) \subseteq claims
      BY <2>2, <2>3, <2>4 DEF AllDone, PairDone, Pairs, Kept
  <2> HIDE DEF sig, M, claims, accepted
  <2>7. x \in M /\ y \in M
      BY DEF M
  <2> QED
      BY <2>1, <2>5, <2>6, <2>7, ComparedLacksNothing DEF claims, accepted, M
<1> QED
    BY <1>1, <1>2, <1>3, PTL DEF Spec

(* closure() adds nothing that does not follow: what is true of the edges  *)
(* and is transitive is true of all it finds.                              *)
LEMMA ClosureFollows ==
    ASSUME NEW claims, NEW scope, IsFiniteSet(Ends(Edges(claims, scope))),
           NEW R, Edges(claims, scope) \subseteq R,
           \A p, m, q : <<p, m>> \in R /\ <<m, q>> \in R => <<p, q>> \in R
    PROVE  Closure(claims, scope) \subseteq R
<1> DEFINE edges == Edges(claims, scope)
           nodes == Ends(edges)
           most == Cardinality(nodes)
<1>1. PICK r : /\ r[0] = edges
               /\ \A n \in 1..most : r[n] = Chained(r[n - 1], nodes)
               /\ Closure(claims, scope) = r[most]
    BY ClosureWidens
<1>2. most \in Nat /\ edges \subseteq R
    BY FS_CardinalityType
<1> HIDE DEF edges, nodes, most
<1>3. \A n \in 0..most : r[n] \subseteq R
  <2> DEFINE T == {n \in 0..most : ~(r[n] \subseteq R)}
  <2> SUFFICES ASSUME T # {} PROVE FALSE
      OBVIOUS
  <2>1. T \in SUBSET Nat
      BY <1>2
  <2> HIDE DEF T
  <2>2. PICK n \in T : \A k \in T : n <= k
      BY <2>1, LeastNumber
  <2>3. n \in 0..most /\ ~(r[n] \subseteq R)
      BY DEF T
  <2>4. n # 0
      BY <1>1, <1>2, <2>3
  <2>5. n - 1 \in 0..most /\ n - 1 \notin T /\ n \in 1..most
      BY <1>2, <2>2, <2>3, <2>4
  <2>6. r[n - 1] \subseteq R
      BY <2>5 DEF T
  <2>7. Chained(r[n - 1], nodes) \subseteq R
    <3>1. ASSUME NEW p \in nodes \X nodes,
                 \E k \in nodes : <<p[1], k>> \in r[n - 1] /\ <<k, p[2]>> \in r[n - 1]
          PROVE  p \in R
      <4>1. <<p[1], p[2]>> \in R
          BY <2>6, <3>1
      <4> QED
          BY <4>1
    <3> QED
        BY <2>6, <3>1 DEF Chained
  <2> QED
      BY <1>1, <2>3, <2>5, <2>7
<1> QED
    BY <1>1, <1>2, <1>3

(* What the claims shown of a group imply by chaining; and when the group  *)
(* is complete, that is all there is.                                      *)
ClosureIsTrue ==
    \A g \in Groups : \A e \in Closure({r.claim : r \in Shown(g)}, "OBSERVED_EVENT") :
      Holds("IMPLIES", e[1], e[2])

ClosureIsExact ==
    \A g \in Groups : Members(g) # {} /\ Complete(g) =>
      \A x, y \in Members(g) : x # y =>
        (<<x, y>> \in Closure({r.claim : r \in Shown(g)}, "OBSERVED_EVENT") <=> Holds("IMPLIES", x, y))

(* What a reader of the cache concludes by closure() is true of the        *)
(* current interpretations, whatever was captured, interpreted or reviewed *)
(* while the cache was filled (evaluation.py:525, closure).                *)
THEOREM ClosureAlwaysTrue == Spec => []ClosureIsTrue
<1>1. Inv => ClosureIsTrue
  <2> SUFFICES ASSUME Inv, NEW g \in Groups,
                      NEW e \in Closure({r.claim : r \in Shown(g)}, "OBSERVED_EVENT")
               PROVE  Holds("IMPLIES", e[1], e[2])
      BY DEF ClosureIsTrue
  <2> DEFINE M == Members(g)
             claims == {r.claim : r \in Shown(g)}
             edges == Edges(claims, "OBSERVED_EVENT")
             R == {p \in M \X M : Holds("IMPLIES", p[1], p[2])}
  <2>1. \A c \in claims : {c.a, c.b} \subseteq M /\ Holds(c.relation, c.a, c.b)
    <3>1. ASSUME NEW r \in Shown(g)
          PROVE  {r.claim.a, r.claim.b} \subseteq M /\ Holds(r.claim.relation, r.claim.a, r.claim.b)
      <4>1. RowTrue(r) /\ r.signature = Signature(g)
          BY DEF Inv, RowsTrue, Shown
      <4>2. Exact(r.signature) /\ DOMAIN r.signature = M
          BY <4>1, NewSignature DEF Inv
      <4> QED
          BY <4>1, <4>2 DEF RowTrue, ClaimTrue, Exact
    <3> QED
        BY <3>1
  <2>2. \A x, y : Holds("EQUIVALENT", x, y) => Holds("IMPLIES", x, y) /\ Holds("IMPLIES", y, x)
      BY DEF Holds, RelationHolds
  <2>3. \A x, y, z : Holds("IMPLIES", x, y) /\ Holds("IMPLIES", y, z) => Holds("IMPLIES", x, z)
      BY DEF Holds, RelationHolds
  <2> HIDE DEF claims
  <2>4. edges \subseteq R
    <3>1. ASSUME NEW c \in claims, c.relation \in {"IMPLIES", "EQUIVALENT"}
          PROVE  /\ <<c.a, c.b>> \in R
                 /\ c.relation = "EQUIVALENT" => <<c.b, c.a>> \in R
        BY <2>1, <2>2, <3>1
    <3> HIDE DEF R
    <3> QED
        BY <3>1 DEF Edges
  <2>5. \A p, m, q : <<p, m>> \in R /\ <<m, q>> \in R => <<p, q>> \in R
      BY <2>3
  <2>6. IsFiniteSet(Ends(edges))
    <3>1. Ends(edges) \subseteq Contracts
        BY <2>4 DEF Ends, Members
    <3>2. IsFiniteSet(Contracts)
        BY ComparisonsAssumption
    <3> QED
        BY <3>1, <3>2, FS_Subset
  <2>7. Closure(claims, "OBSERVED_EVENT") \subseteq R
    <3> HIDE DEF R
    <3> QED
        BY <2>4, <2>5, <2>6, ClosureFollows
  <2>8. e \in R
      BY <2>7 DEF claims
  <2> QED
      BY <2>8
<1> QED
    BY <1>1, InvAlways, PTL

(* Of a complete group he concludes exactly the implications there are,    *)
(* although within a chain only neighbours are claimed.                    *)
THEOREM ClosureAlwaysExact ==
    ASSUME Panel = {}
    PROVE  Spec => []ClosureIsExact
<1>1. ClosureIsTrue /\ CompleteLacksNothing => ClosureIsExact
  <2> SUFFICES ASSUME ClosureIsTrue, CompleteLacksNothing,
                      NEW g \in Groups, Members(g) # {}, Complete(g),
                      NEW x \in Members(g), NEW y \in Members(g), x # y
               PROVE  <<x, y>> \in Closure({r.claim : r \in Shown(g)}, "OBSERVED_EVENT")
                        <=> Holds("IMPLIES", x, y)
      BY DEF ClosureIsExact
  <2>1. <<x, y>> \in Closure({r.claim : r \in Shown(g)}, "OBSERVED_EVENT") => Holds("IMPLIES", x, y)
      BY DEF ClosureIsTrue
  <2>2. Holds("IMPLIES", x, y) => <<x, y>> \in Closure({r.claim : r \in Shown(g)}, "OBSERVED_EVENT")
      BY DEF CompleteLacksNothing
  <2> QED
      BY <2>1, <2>2
<1> QED
    BY <1>1, ClosureAlwaysTrue, CompleteAlwaysLacksNothing, PTL
==============================================================================
