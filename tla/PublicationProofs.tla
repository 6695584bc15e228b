-------------------------- MODULE PublicationProofs --------------------------
(***************************************************************************)
(* Acceptance for every number of threads, contracts, readings and panels, *)
(* and for every bound on the nodes.                                       *)
(*                                                                         *)
(* What an assertion claims of itself is a fact about its row: the row     *)
(* names the approvals it was accepted with, and a row never changes       *)
(* (WellFormed).  It stays true because a current row rests on current     *)
(* rows only (CurrentClosed), which holds because every invalidation takes *)
(* a closed set of rows away.  Two facts are not in the rows and have      *)
(* invariants of their own: that nobody has rejected an operand since      *)
(* (Unvetoed), and that the labels a publisher read before its             *)
(* transaction can only have become false with a rejection, which the      *)
(* transaction would see (LabelsHold).                                     *)
(***************************************************************************)
EXTENDS Publication, FiniteSetTheorems, TLAPS

(* How far a row is from the captured sources. *)
Rank(n) ==
    CASE n.kind = "interpretation" -> 1
      [] n.kind \in {"review", "consensus_approval"} -> 2
      [] n.kind = "assertion" -> 3
      [] OTHER -> 0

HumanApproval(d, i) == d.kind = "review" /\ d.logical = i /\ d.data.approved

Approval(d, i) ==
    HumanApproval(d, i) \/ (d.kind = "consensus_approval" /\ d.logical = i)

(* An assertion names an approval of every operand, a human one where it   *)
(* says so, and relates two interpretations the first of which implies the *)
(* second.                                                                 *)
Warranted(s) ==
    /\ \A i \in Operands(s) : \E d \in s.deps : Approval(d, i)
    /\ s.data.basis = "HUMAN_REVIEW" =>
         \A i \in Operands(s) : \E d \in s.deps : HumanApproval(d, i)
    /\ \A i \in s.data.reviewed : \E d \in s.deps : HumanApproval(d, i)
    /\ \E x, y \in Operands(s) :
         /\ Operands(s) = {x, y}
         /\ s.logical = <<x.logical, y.logical>>
         /\ Proven(x, y)

(* What is true of a row whatever happens after it was written. *)
WellFormed(n) ==
    /\ DOMAIN n = {"kind", "logical", "data", "deps"}
    /\ \A d \in n.deps : Rank(d) < Rank(n)
    /\ n.kind = "interpretation" =>
         /\ n.logical.kind = "contract"
         /\ n.data.reading \in Nat /\ n.data.rev \in Nat
    /\ n.kind = "review" => n.deps = {n.logical} /\ n.data.time \in Nat
    /\ n.kind \in {"review", "consensus_approval"} => n.logical \in n.deps
    /\ \A i \in n.deps : Approval(n, i) => i.logical.data.complete
    /\ n.kind = "assertion" => Warranted(n)

Table ==
    /\ Grounded
    /\ \A n \in stored : WellFormed(n)
    /\ CurrentClosed
    /\ UniqueCurrent

(* No operand of an accepted assertion is rejected. *)
Unvetoed ==
    \A s \in Assertions : \A i \in Operands(s) : ~HumanRejected(i)

(* What a publisher holds: claims about two interpretations, one for a     *)
(* pair of contracts.                                                      *)
ClaimOK(c) ==
    \E x, y \in c.operands :
      /\ x.kind = "interpretation" /\ y.kind = "interpretation"
      /\ c.operands = {x, y} /\ c.id = <<x.logical, y.logical>>
      /\ c.reviewed \subseteq {x, y}
      /\ Proven(x, y)

TaskOK(t) ==
    /\ t.op \in {"idle", "interpret", "consensus", "publish"}
    /\ t.op = "interpret" =>
         /\ t.contract.kind = "contract" /\ t.configuration.kind = "configuration"
         /\ \A d \in t.registry : d.kind = "registry"
         /\ t.reading \in Nat
    /\ t.op = "consensus" =>
         /\ t.interpretation.kind = "interpretation"
         /\ t.interpretation.logical.kind = "contract"
         /\ t.interpretation.logical.data.complete
         /\ t.panel.kind = "judge_config"
    /\ t.op = "publish" =>
         /\ \A c \in t.claims : ClaimOK(c)
         /\ \A c, k \in t.claims : c.id = k.id => c = k

Tasks ==
    /\ task = [w \in Workers |-> task[w]]
    /\ \A w \in Workers : TaskOK(task[w])

(* An operand somebody approved before the labels were read has a review   *)
(* as long as it is current: reviews are replaced, never withdrawn.        *)
LabelsHold ==
    \A w \in Workers : task[w].op = "publish" =>
      \A c \in task[w].claims : \A i \in c.reviewed :
        i \in stored /\ (i \in current => CurrentVersions("review", i) # {})

(* The revisions and times in the rows are those given out so far. *)
Numbered ==
    /\ IsFiniteSet({n \in stored : n.kind = "interpretation"})
    /\ IsFiniteSet({n \in stored : n.kind = "review"})
    /\ \A n \in stored : n.kind = "interpretation" => n.data.rev <= Count("interpretation")
    /\ \A n \in stored : n.kind = "review" => n.data.time <= Count("review")

Inv ==
    /\ Table
    /\ Unvetoed
    /\ Tasks
    /\ LabelsHold
    /\ Numbered

-----------------------------------------------------------------------------
(* The fields of a row. *)
LEMMA NodeFields ==
    ASSUME NEW kind, NEW logical, NEW data, NEW deps
    PROVE  /\ DOMAIN Node(kind, logical, data, deps) = {"kind", "logical", "data", "deps"}
           /\ Node(kind, logical, data, deps).kind = kind
           /\ Node(kind, logical, data, deps).logical = logical
           /\ Node(kind, logical, data, deps).data = data
           /\ Node(kind, logical, data, deps).deps = deps
BY DEF Node

(* There are four ranks. *)
LEMMA RankRange ==
    ASSUME NEW n
    PROVE  /\ Rank(n) \in 0..3
           /\ Rank(n) = 3 <=> n.kind = "assertion"
           /\ Rank(n) = 2 <=> n.kind \in {"review", "consensus_approval"}
           /\ Rank(n) = 1 <=> n.kind = "interpretation"
BY DEF Rank

(* A child in the table outranks what it was derived from. *)
LEMMA ChildOutranks ==
    ASSUME Table, NEW S, NEW n \in Children(S)
    PROVE  /\ n \in stored
           /\ \E d \in n.deps \cap S : Rank(d) < Rank(n)
BY DEF Children, Table, WellFormed

(* Three layers are enough: a fourth would need a fifth rank.  So the      *)
(* closure of the recursive query of Store.invalidate is complete, and     *)
(* besides the row itself it holds rows derived from its members.          *)
LEMMA DescendantsClosed ==
    ASSUME Table, NEW x \in stored
    PROVE  /\ Closed(Descendants(x))
           /\ x \in Descendants(x) /\ Descendants(x) \subseteq stored
           /\ \A n \in Descendants(x) :
                n # x => Rank(x) < Rank(n) /\ n.deps \cap Descendants(x) # {}
<1> DEFINE L1 == WithChildren({x})
           L2 == WithChildren(L1)
           L3 == WithChildren(L2)
<1>1. \A S, n : n \in WithChildren(S) \ S => n \in Children(S)
    BY DEF WithChildren
<1>2. /\ \A S : S \subseteq WithChildren(S)
      /\ \A S : S \subseteq stored => WithChildren(S) \subseteq stored
      /\ \A S, n : n \in stored /\ n.deps \cap S # {} => n \in WithChildren(S)
    BY DEF WithChildren, Children
<1>3. Descendants(x) = L3
    BY DEF Descendants
<1>4. \A n \in L1 \ {x} : Rank(x) < Rank(n) /\ n.deps \cap {x} # {}
    BY <1>1, ChildOutranks
<1> HIDE DEF L1
<1>5. \A n \in L2 \ L1 : n.deps \cap L1 # {} /\ \E d \in L1 \ {x} : Rank(d) < Rank(n)
  <2> SUFFICES ASSUME NEW n \in L2 \ L1
               PROVE  n.deps \cap L1 # {} /\ \E d \in L1 \ {x} : Rank(d) < Rank(n)
      OBVIOUS
  <2>1. n \in stored /\ \E d \in n.deps \cap L1 : Rank(d) < Rank(n)
      BY <1>1, ChildOutranks
  <2>2. n.deps \cap {x} = {}
      BY <1>2, <2>1 DEF L1
  <2> QED
      BY <2>1, <2>2
<1> HIDE DEF L2
<1>6. \A n \in L3 \ L2 : n.deps \cap L2 # {} /\ \E d \in L2 \ L1 : Rank(d) < Rank(n)
  <2> SUFFICES ASSUME NEW n \in L3 \ L2
               PROVE  n.deps \cap L2 # {} /\ \E d \in L2 \ L1 : Rank(d) < Rank(n)
      OBVIOUS
  <2>1. n \in stored /\ \E d \in n.deps \cap L2 : Rank(d) < Rank(n)
      BY <1>1, ChildOutranks
  <2>2. n.deps \cap L1 = {}
      BY <1>2, <2>1 DEF L2
  <2> QED
      BY <2>1, <2>2
<1> HIDE DEF L3
<1>7. \A n : Rank(n) \in Nat /\ Rank(n) <= 3
    BY RankRange
<1>8. /\ \A n \in L1 \ {x} : Rank(n) >= 1 /\ Rank(x) < Rank(n)
      /\ \A n \in L2 \ L1 : Rank(n) >= 2 /\ Rank(x) < Rank(n)
      /\ \A n \in L3 \ L2 : Rank(n) >= 3 /\ Rank(x) < Rank(n)
  <2>1. \A n \in L1 \ {x} : Rank(n) >= 1 /\ Rank(x) < Rank(n)
      BY <1>4, <1>7
  <2>2. \A n \in L2 \ L1 : Rank(n) >= 2 /\ Rank(x) < Rank(n)
      BY <1>5, <1>7, <2>1
  <2>3. \A n \in L3 \ L2 : Rank(n) >= 3 /\ Rank(x) < Rank(n)
      BY <1>6, <1>7, <2>2
  <2> QED
      BY <2>1, <2>2, <2>3
<1>9. {x} \subseteq L1 /\ L1 \subseteq L2 /\ L2 \subseteq L3 /\ L3 \subseteq stored
    BY <1>2 DEF L1, L2, L3
<1>10. Closed(L3)
  <2> SUFFICES ASSUME NEW n \in stored, NEW d \in n.deps, d \in L3
               PROVE  n \in L3
      BY DEF Closed, Children
  <2>1. CASE d \in L2
      BY <1>2, <2>1 DEF L3
  <2>2. CASE d \notin L2
    <3>1. Rank(d) >= 3 /\ Rank(d) < Rank(n)
        BY <1>8, <2>2 DEF Table, WellFormed
    <3> QED
        BY <1>7, <3>1
  <2> QED
      BY <2>1, <2>2
<1>11. \A n \in L3 : n # x => Rank(x) < Rank(n) /\ n.deps \cap L3 # {}
    BY <1>4, <1>5, <1>6, <1>8, <1>9
<1> QED
    BY <1>3, <1>9, <1>10, <1>11

(* The closure is the least closed set: what NodeStore calls Affected.     *)
LEMMA DescendantsAreAffected ==
    ASSUME Table, NEW x \in stored
    PROVE  Descendants(x) = Affected(x)
<1>1. Affected(x) \subseteq Descendants(x)
    BY DescendantsClosed DEF Affected
<1>2. ASSUME NEW S \in SUBSET stored, x \in S, Closed(S)
      PROVE  Descendants(x) \subseteq S
  <2>1. \A R : R \subseteq S => WithChildren(R) \subseteq S
      BY <1>2 DEF WithChildren, Closed, Children
  <2> QED
      BY <1>2, <2>1 DEF Descendants
<1> QED
    BY <1>1, <1>2, DescendantsClosed DEF Affected

(* An assertion has no descendants but itself. *)
LEMMA AssertionsAreLeaves ==
    ASSUME Table, NEW x \in stored, x.kind = "assertion"
    PROVE  Descendants(x) = {x}
<1>1. Rank(x) = 3 /\ \A n : Rank(n) \in 0..3
    BY RankRange
<1> QED
    BY <1>1, DescendantsClosed

(* Dropping closed sets of rows leaves what remains resting on current     *)
(* rows.                                                                   *)
LEMMA DroppingClosedSets ==
    ASSUME Table, NEW X \in SUBSET stored
    PROVE  LET left == current \ UNION {Descendants(o) : o \in X}
           IN  \A n \in left : n.deps \subseteq left
<1> SUFFICES ASSUME NEW n \in current, NEW d \in n.deps, NEW o \in X,
                    d \in Descendants(o)
             PROVE  n \in Descendants(o)
    BY DEF Table, CurrentClosed
<1>1. Closed(Descendants(o)) /\ n \in stored
    BY DescendantsClosed DEF Table, Grounded
<1> QED
    BY <1>1 DEF Closed, Children

-----------------------------------------------------------------------------
(* What the transactions have in common: rows are added as current, and    *)
(* the descendants of some rows are made obsolete.                         *)
Gone(X) == UNION {Descendants(o) : o \in X}

Change(X, New) ==
    /\ stored' = stored \cup New
    /\ current' = (current \ Gone(X)) \cup New

SameName(m, n) == m.kind = n.kind /\ m.logical = n.logical

(* A change keeps the table whole if its rows rest on rows that stay, and  *)
(* take the place of the versions they replace.                            *)
LEMMA ChangeKeepsTable ==
    ASSUME Table, NEW X \in SUBSET stored, NEW New, Change(X, New),
           New \cap stored \subseteq current,
           \A n \in New : WellFormed(n) /\ n.deps \subseteq current \ Gone(X),
           \A m, n \in New : SameName(m, n) => m = n,
           \A m \in current, n \in New : SameName(m, n) => m = n \/ m \in Gone(X)
    PROVE  Table' /\ HistoryStep
<1> USE DEF Change
<1>1. Grounded' /\ \A n \in stored' : WellFormed(n)
    BY DEF Table, Grounded
<1>2. CurrentClosed'
  <2>1. \A n \in current \ Gone(X) : n.deps \subseteq current \ Gone(X)
      BY DroppingClosedSets DEF Gone
  <2> QED
      BY <2>1 DEF CurrentClosed
<1>3. UniqueCurrent'
    BY DEF Table, UniqueCurrent, SameName
<1>4. HistoryStep
    BY DEF HistoryStep
<1>5. (\A n \in stored : WellFormed(n))'
    BY <1>1
<1> QED
    BY <1>1, <1>2, <1>3, <1>4, <1>5 DEF Table

(* The review of an interpretation that stays current stays current, or    *)
(* another takes its place.                                                *)
ReviewsStay ==
    \A i \in stored :
      i \in current' /\ CurrentVersions("review", i) # {} => CurrentVersions("review", i)' # {}

(* A change that replaces every review it takes away keeps them so. *)
LEMMA ChangeKeepsReviews ==
    ASSUME Table, NEW X \in SUBSET stored, NEW New, Change(X, New),
           New \cap stored \subseteq current \ Gone(X),
           \A o \in X : o.kind = "review" => \E n \in New : SameName(o, n)
    PROVE  ReviewsStay
<1> SUFFICES ASSUME NEW i \in stored, i \in current', NEW r \in CurrentVersions("review", i)
             PROVE  CurrentVersions("review", i)' # {}
    BY DEF ReviewsStay
<1>1. r \in current /\ r.kind = "review" /\ r.logical = i
    BY DEF CurrentVersions
<1>2. CASE r \notin Gone(X)
    BY <1>1, <1>2 DEF Change, CurrentVersions
<1>3. ASSUME NEW o \in X, r \in Descendants(o)
      PROVE  \E n \in current' : n.kind = "review" /\ n.logical = i
  <2>1. CASE r = o
      BY <1>1, <2>1 DEF Change, SameName
  <2>2. CASE r # o
    <3>1. r.deps = {i}
        BY <1>1 DEF Table, Grounded, WellFormed
    <3>2. i \in Descendants(o)
        BY <1>3, <2>2, <3>1, DescendantsClosed
    <3> QED
        BY <3>2 DEF Change, Gone
  <2> QED
      BY <2>1, <2>2
<1>4. CASE r \in Gone(X)
    BY <1>3, <1>4 DEF Gone, CurrentVersions
<1> QED
    BY <1>2, <1>4

(* Without a new review nothing is rejected that was not.                  *)
LEMMA ChangeKeepsUnvetoed ==
    ASSUME Unvetoed, NEW X, NEW New, Change(X, New),
           \A n \in New : n.kind # "review",
           \A s \in New : s.kind = "assertion" => \A i \in Operands(s) : ~HumanRejected(i)
    PROVE  Unvetoed'
<1>1. \A i : HumanRejected(i)' => HumanRejected(i)
    BY DEF HumanRejected, CurrentVersions, Change
<1>2. \A s \in Assertions' : s \in Assertions \/ (s \in New /\ s.kind = "assertion")
    BY DEF Assertions, Change
<1> QED
    BY <1>1, <1>2 DEF Unvetoed, Operands

-----------------------------------------------------------------------------
(* Store.insert is such a change.                                          *)
LEMMA RecordIsChange ==
    ASSUME Table, NEW n, WellFormed(n), Record(n), n.kind \notin {"review", "assertion"}
    PROVE  /\ Table' /\ HistoryStep /\ ReviewsStay
           /\ Unvetoed => Unvetoed'
           /\ \A m \in Retired : \E o \in Replaced : m \in Descendants(o)
<1> DEFINE X == IF n \in stored THEN {} ELSE CurrentVersions(n.kind, n.logical)
<1>1. X \in SUBSET stored /\ \A o \in X : SameName(o, n)
    BY DEF CurrentVersions, Table, Grounded, SameName
<1>2. Change(X, {n})
  <2>1. CASE n \in stored
    <3>1. Gone(X) = {} /\ n \in current
        BY <2>1 DEF Gone, Record, Admissible
    <3> QED
        BY <2>1, <3>1 DEF Record, Change
  <2>2. CASE n \notin stored
    <3>1. Gone(X) = ReplacedBy(n)
        BY <2>2 DEF Gone, ReplacedBy
    <3> QED
        BY <2>2, <3>1 DEF Record, Change
  <2> QED
      BY <2>1, <2>2
<1>3. Gone(X) \subseteq stored /\ n \notin Gone(X)
    BY <1>1, DescendantsClosed DEF Gone
<1>4. {n} \cap stored \subseteq current \ Gone(X)
    BY <1>3 DEF Record, Admissible
<1>5. n.deps \subseteq current \ Gone(X)
  <2> SUFFICES ASSUME NEW d \in n.deps, NEW o \in X, d \in Descendants(o)
               PROVE  FALSE
      BY DEF Gone, Record, Admissible, RequireCurrent
  <2>1. Rank(o) = Rank(n) /\ Rank(d) < Rank(n) /\ Rank(d) \in Nat /\ Rank(n) \in Nat
      BY <1>1, RankRange DEF SameName, WellFormed, Rank
  <2>2. d = o \/ Rank(o) < Rank(d)
      BY <1>1, DescendantsClosed
  <2> QED
      BY <2>1, <2>2
<1>6. \A m \in current : SameName(m, n) => m = n \/ m \in Gone(X)
  <2>1. \A m \in X : m \in Gone(X)
      BY <1>1, DescendantsClosed DEF Gone
  <2>2. CASE n \in stored
    <3>1. n \in current
        BY <2>2 DEF Record, Admissible
    <3> QED
        BY <3>1 DEF SameName, Table, UniqueCurrent
  <2>3. CASE n \notin stored
      BY <2>1, <2>3 DEF SameName, CurrentVersions
  <2> QED
      BY <2>2, <2>3
<1>7. \A o \in X : o.kind # "review"
    BY <1>1 DEF SameName
<1>8. \A m \in Retired : \E o \in Replaced : m \in Descendants(o)
  <2>1. \A m \in Retired : m \in Gone(X)
      BY <1>2 DEF Change, Retired
  <2>2. X \subseteq Replaced
      BY <1>2 DEF Replaced, Fresh, Change, CurrentVersions
  <2> QED
      BY <2>1, <2>2 DEF Gone
<1> HIDE DEF X
<1>9. Table' /\ HistoryStep
    BY <1>1, <1>2, <1>4, <1>5, <1>6, ChangeKeepsTable
<1>10. ReviewsStay
    BY <1>1, <1>2, <1>4, <1>7, ChangeKeepsReviews
<1>11. Unvetoed => Unvetoed'
    BY <1>2, ChangeKeepsUnvetoed
<1> QED
    BY <1>8, <1>9, <1>10, <1>11

-----------------------------------------------------------------------------
(* A row counts once. *)
LEMMA CountAdds ==
    ASSUME NEW k, IsFiniteSet({m \in stored : m.kind = k}),
           NEW n, stored' = stored \cup {n}
    PROVE  /\ IsFiniteSet({m \in stored' : m.kind = k})
           /\ Count(k) \in Nat
           /\ Count(k)' = IF n.kind = k /\ n \notin stored THEN Count(k) + 1 ELSE Count(k)
<1> DEFINE S == {m \in stored : m.kind = k}
           T == {m \in stored' : m.kind = k}
<1>1. T = IF n.kind = k THEN S \cup {n} ELSE S
    OBVIOUS
<1>2. Count(k) = Cardinality(S) /\ Count(k)' = Cardinality(T) /\ (n \in S <=> n \in stored /\ n.kind = k)
    BY DEF Count
<1>3. IsFiniteSet(S)
    OBVIOUS
<1> HIDE DEF S, T
<1>4. Cardinality(S) \in Nat
    BY <1>3, FS_CardinalityType
<1>5. CASE n.kind = k
  <2>1. /\ IsFiniteSet(S \cup {n})
        /\ Cardinality(S \cup {n}) = IF n \in S THEN Cardinality(S) ELSE Cardinality(S) + 1
      BY <1>3, FS_AddElement
  <2>2. IsFiniteSet(T) /\ Count(k)' = IF n \notin stored THEN Count(k) + 1 ELSE Count(k)
      BY <1>1, <1>2, <1>5, <2>1
  <2> QED
      BY <1>2, <1>4, <1>5, <2>2 DEF T
<1>6. CASE n.kind # k
  <2>1. IsFiniteSet(T) /\ Count(k)' = Count(k)
      BY <1>1, <1>2, <1>3, <1>6
  <2> QED
      BY <1>2, <1>4, <1>6, <2>1 DEF T
<1> QED
    BY <1>5, <1>6

(* The numbers stay in use if a new row takes the next one at most. *)
LEMMA NumberedAdds ==
    ASSUME Numbered, Table, NEW n, WellFormed(n), stored' = stored \cup {n},
           n.kind = "interpretation" => n.data.rev <= Count("interpretation") + 1,
           n.kind = "review" => n.data.time <= Count("review") + 1
    PROVE  Numbered'
<1>1. /\ IsFiniteSet({m \in stored' : m.kind = "interpretation"})
      /\ Count("interpretation") \in Nat
      /\ Count("interpretation")' = IF n.kind = "interpretation" /\ n \notin stored
                                    THEN Count("interpretation") + 1 ELSE Count("interpretation")
    BY CountAdds DEF Numbered
<1>2. /\ IsFiniteSet({m \in stored' : m.kind = "review"})
      /\ Count("review") \in Nat
      /\ Count("review")' = IF n.kind = "review" /\ n \notin stored
                            THEN Count("review") + 1 ELSE Count("review")
    BY CountAdds DEF Numbered
<1>3. ASSUME NEW m \in stored', m.kind = "interpretation"
      PROVE  m.data.rev <= Count("interpretation")'
  <2>1. m.data.rev \in Nat
      BY <1>3 DEF Table, WellFormed
  <2>2. CASE m \in stored
    <3>1. m.data.rev <= Count("interpretation")
        BY <1>3, <2>2 DEF Numbered
    <3> QED
        BY <1>1, <2>1, <3>1
  <2>3. CASE m \notin stored
    <3>1. m = n
        BY <2>3
    <3> QED
        BY <1>1, <1>3, <2>3, <3>1
  <2> QED
      BY <2>2, <2>3
<1>4. ASSUME NEW m \in stored', m.kind = "review"
      PROVE  m.data.time <= Count("review")'
  <2>1. m.data.time \in Nat
      BY <1>4 DEF Table, WellFormed
  <2>2. CASE m \in stored
    <3>1. m.data.time <= Count("review")
        BY <1>4, <2>2 DEF Numbered
    <3> QED
        BY <1>2, <2>1, <3>1
  <2>3. CASE m \notin stored
    <3>1. m = n
        BY <2>3
    <3> QED
        BY <1>2, <1>4, <2>3, <3>1
  <2> QED
      BY <2>2, <2>3
<1> QED
    BY <1>1, <1>2, <1>3, <1>4 DEF Numbered

-----------------------------------------------------------------------------
(* A thread takes up work or drops it. *)
LEMMA TaskSet ==
    ASSUME Tasks, NEW w \in Workers, NEW t, TaskOK(t), task' = [task EXCEPT ![w] = t]
    PROVE  /\ Tasks'
           /\ task'[w] = t /\ \A v \in Workers \ {w} : task'[v] = task[v]
BY DEF Tasks

(* A thread without work.                                                  *)
LEMMA IdleOK == TaskOK(Idle) /\ Idle.op # "publish"
BY DEF TaskOK, Idle

(* What the publishers in flight hold stays as true as LabelsHold says.    *)
LEMMA LabelsStay ==
    ASSUME LabelsHold, HistoryStep, ReviewsStay,
           \A v \in Workers : task'[v] = task[v] \/ task'[v].op # "publish"
    PROVE  LabelsHold'
<1> SUFFICES ASSUME NEW v \in Workers, task'[v].op = "publish",
                    NEW c \in task'[v].claims, NEW i \in c.reviewed
             PROVE  i \in stored' /\ (i \in current' => CurrentVersions("review", i)' # {})
    BY DEF LabelsHold
<1>1. i \in stored /\ (i \in current => CurrentVersions("review", i) # {})
    BY DEF LabelsHold
<1>2. i \in stored' /\ (i \in current' => i \in current)
    BY <1>1 DEF HistoryStep
<1> QED
    BY <1>1, <1>2 DEF ReviewsStay

(* What an operation on the table must establish, besides its task.        *)
TableKept ==
    /\ Table' /\ HistoryStep /\ ReviewsStay
    /\ Unvetoed'
    /\ Numbered'

(* One row is inserted that is neither a review nor an assertion.          *)
LEMMA RecordKeeps ==
    ASSUME Inv, NEW n, WellFormed(n), Record(n), n.kind \notin {"review", "assertion"},
           n.kind = "interpretation" => n.data.rev <= Count("interpretation") + 1
    PROVE  TableKept /\ \A m \in Retired : \E o \in Replaced : m \in Descendants(o)
<1>1. stored' = stored \cup {n}
    BY DEF Record
<1>2. Numbered'
    BY <1>1, NumberedAdds DEF Inv
<1> QED
    BY <1>2, RecordIsChange DEF Inv, TableKept

(* Nothing changes but the tasks.                                          *)
LEMMA SameTable ==
    ASSUME Inv, UNCHANGED <<stored, current>>
    PROVE  TableKept /\ Retired = {}
<1>1. Table' /\ HistoryStep /\ Unvetoed' /\ Retired = {}
    BY DEF Inv, Table, Grounded, CurrentClosed, UniqueCurrent, HistoryStep, Unvetoed,
           Assertions, HumanRejected, CurrentVersions, Retired
<1>2. ReviewsStay
    BY DEF ReviewsStay, CurrentVersions
<1>3. Numbered'
    BY DEF Inv, Numbered, Count
<1> QED
    BY <1>1, <1>2, <1>3 DEF TableKept

(* An operation that keeps the table and gives its thread work that is no  *)
(* publication keeps the invariant.                                        *)
LEMMA OtherTask ==
    ASSUME Inv, TableKept, NEW w \in Workers, NEW t, TaskOK(t), t.op # "publish",
           task' = [task EXCEPT ![w] = t]
    PROVE  Inv' /\ HistoryStep
<1>1. Tasks' /\ task'[w] = t /\ \A v \in Workers \ {w} : task'[v] = task[v]
    BY TaskSet DEF Inv
<1>2. LabelsHold'
    BY <1>1, LabelsStay DEF Inv, TableKept
<1> QED
    BY <1>1, <1>2 DEF Inv, TableKept

(* So does one that leaves the threads alone.                              *)
LEMMA NoTask ==
    ASSUME Inv, TableKept, UNCHANGED task
    PROVE  Inv' /\ HistoryStep
<1>1. Tasks'
    BY DEF Inv, Tasks
<1>2. LabelsHold'
    BY LabelsStay DEF Inv, TableKept
<1> QED
    BY <1>1, <1>2 DEF Inv, TableKept

-----------------------------------------------------------------------------
(* The rows the operations write are well formed. *)
LEMMA SourceRows ==
    /\ \A c, rev, complete : /\ WellFormed(ContractNode(c, rev, complete))
                             /\ ContractNode(c, rev, complete).kind = "contract"
    /\ \A rev : /\ WellFormed(ConfigurationNode(rev))
                /\ ConfigurationNode(rev).kind = "configuration"
    /\ \A g, rev : /\ WellFormed(RegistryNode(g, rev))
                   /\ RegistryNode(g, rev).kind = "registry"
    /\ \A p : WellFormed(PanelNode(p)) /\ PanelNode(p).kind = "judge_config"
    /\ \A c : WellFormed(QuarantineNode(c)) /\ QuarantineNode(c).kind = "quarantine"
<1>1. ASSUME NEW n, DOMAIN n = {"kind", "logical", "data", "deps"}, n.deps = {},
             n.kind \notin {"interpretation", "review", "consensus_approval", "assertion"}
      PROVE  WellFormed(n)
    BY <1>1 DEF WellFormed
<1> QED
    BY <1>1, NodeFields
    DEF ContractNode, ConfigurationNode, RegistryNode, PanelNode, QuarantineNode

(* An interpretation made of what a thread read.                           *)
LEMMA InterpretationRow ==
    ASSUME NEW t, TaskOK(t), t.op = "interpret", NEW rev \in Nat,
           NEW i, i = InterpretationNode(t.contract, t.configuration, t.observation,
                                         t.registry, t.reading, t.mode, rev)
    PROVE  /\ WellFormed(i)
           /\ i.kind = "interpretation" /\ i.data.rev = rev
           /\ i.deps = {t.contract, t.configuration} \cup t.registry
<1>1. /\ DOMAIN i = {"kind", "logical", "data", "deps"}
      /\ i.kind = "interpretation" /\ i.logical = t.contract
      /\ i.data = [reading |-> t.reading, observation |-> t.observation, mode |-> t.mode,
                   rev |-> rev]
      /\ i.deps = {t.contract, t.configuration} \cup t.registry
    BY NodeFields DEF InterpretationNode
<1>2. i.data.reading = t.reading /\ i.data.rev = rev
    BY <1>1
<1>3. \A d \in i.deps : Rank(d) = 0
    BY <1>1 DEF Rank, TaskOK
<1>4. Rank(i) = 1
    BY <1>1, RankRange
<1>5. WellFormed(i)
    BY <1>1, <1>2, <1>3, <1>4 DEF WellFormed, Approval, HumanApproval, TaskOK
<1> QED
    BY <1>1, <1>2, <1>5

(* A review is of a complete contract, if it approves.                     *)
LEMMA ReviewRow ==
    ASSUME NEW i, i.kind = "interpretation", NEW approve \in BOOLEAN, NEW time \in Nat,
           approve => i.logical.data.complete
    PROVE  LET r == ReviewNode(i, approve, time)
           IN  /\ WellFormed(r)
               /\ r.kind = "review" /\ r.logical = i /\ r.deps = {i}
               /\ r.data.time = time /\ r.data.approved = approve
<1> DEFINE r == ReviewNode(i, approve, time)
<1>1. /\ DOMAIN r = {"kind", "logical", "data", "deps"}
      /\ r.kind = "review" /\ r.logical = i
      /\ r.data = [approved |-> approve, time |-> time]
      /\ r.deps = {i}
    BY NodeFields DEF ReviewNode
<1>2. r.data.approved = approve /\ r.data.time = time
    BY <1>1
<1> HIDE DEF r
<1>3. Rank(i) = 1 /\ Rank(r) = 2
    BY <1>1, RankRange
<1>4. WellFormed(r)
    BY <1>1, <1>2, <1>3 DEF WellFormed, Approval, HumanApproval
<1> QED
    BY <1>1, <1>2, <1>4 DEF r

(* A consensus approval is of a complete contract.                         *)
LEMMA ConsensusRow ==
    ASSUME NEW i, i.kind = "interpretation", i.logical.kind = "contract",
           i.logical.data.complete, NEW panel, panel.kind = "judge_config"
    PROVE  /\ WellFormed(ConsensusNode(i, panel))
           /\ ConsensusNode(i, panel).kind = "consensus_approval"
<1> DEFINE n == ConsensusNode(i, panel)
<1>1. /\ DOMAIN n = {"kind", "logical", "data", "deps"}
      /\ n.kind = "consensus_approval" /\ n.logical = i
      /\ n.deps = {i, i.logical, panel}
    BY NodeFields DEF ConsensusNode
<1> HIDE DEF n
<1>2. Rank(i) = 1 /\ Rank(i.logical) = 0 /\ Rank(panel) = 0 /\ Rank(n) = 2
    BY <1>1 DEF Rank
<1>3. WellFormed(n)
    BY <1>1, <1>2 DEF WellFormed, Approval, HumanApproval
<1> QED
    BY <1>1, <1>3 DEF n

-----------------------------------------------------------------------------
(* The operations. *)

(* What an operation keeps: the invariant, and that it makes obsolete      *)
(* nothing but descendants of the versions it replaced.                    *)
LEMMA CaptureInv ==
    ASSUME Inv, NEW c, NEW complete \in BOOLEAN, Capture(c, complete)
    PROVE  Inv' /\ HistoryStep /\ \A m \in Retired : \E o \in Replaced : m \in Descendants(o)
<1>1. PICK rev : Record(ContractNode(c, rev, complete))
    BY DEF Capture
<1>2. TableKept /\ \A m \in Retired : \E o \in Replaced : m \in Descendants(o)
    BY <1>1, SourceRows, RecordKeeps
<1> QED
    BY <1>2, NoTask DEF Capture

(* A configuration, and a registration, replace a row like a capture does. *)
LEMMA ConfigureInv ==
    ASSUME Inv, Configure
    PROVE  Inv' /\ HistoryStep /\ \A m \in Retired : \E o \in Replaced : m \in Descendants(o)
<1>1. TableKept /\ \A m \in Retired : \E o \in Replaced : m \in Descendants(o)
    BY SourceRows, RecordKeeps DEF Configure
<1> QED
    BY <1>1, NoTask DEF Configure

(* A registration replaces a row of its name likewise. *)
LEMMA RegisterInv ==
    ASSUME Inv, NEW g, Register(g)
    PROVE  Inv' /\ HistoryStep /\ \A m \in Retired : \E o \in Replaced : m \in Descendants(o)
<1>1. TableKept /\ \A m \in Retired : \E o \in Replaced : m \in Descendants(o)
    BY SourceRows, RecordKeeps DEF Register
<1> QED
    BY <1>1, NoTask DEF Register

(* Reading writes nothing; what was read has the kinds it must have.       *)
LEMMA InterpretReadInv ==
    ASSUME Inv, NEW w \in Workers, NEW contract, NEW configuration,
           NEW observation \in Resolutions, NEW rules \in SUBSET Registrations,
           NEW reading \in Readings, NEW mode,
           InterpretRead(w, contract, configuration, observation, rules, reading, mode)
    PROVE  Inv' /\ HistoryStep /\ Retired = {}
<1> DEFINE t == [op |-> "interpret", contract |-> contract,
                 configuration |-> configuration, observation |-> observation,
                 registry |-> observation \cup rules, reading |-> reading, mode |-> mode]
<1>1. \A d \in observation \cup rules : d.kind = "registry"
    BY DEF Resolutions, Registrations
<1>2. TaskOK(t) /\ t.op # "publish"
    BY <1>1, PublicationAssumption DEF InterpretRead, TaskOK
<1>3. task' = [task EXCEPT ![w] = t]
    BY DEF InterpretRead
<1> HIDE DEF t
<1>4. TableKept /\ Retired = {}
    BY SameTable DEF InterpretRead
<1> QED
    BY <1>2, <1>3, <1>4, OtherTask

(* The revision under which a candidate is stored is in use already or the *)
(* next one.                                                               *)
LEMMA RevisionFits ==
    ASSUME Inv, NEW t
    PROVE  Revision(t) \in Nat /\ Revision(t) <= Count("interpretation") + 1
<1> DEFINE same == {i \in CurrentVersions("interpretation", t.contract) :
                      i = InterpretationNode(t.contract, t.configuration, t.observation,
                                             t.registry, t.reading, t.mode, i.data.rev)}
<1>1. Count("interpretation") \in Nat
    BY FS_CardinalityType DEF Inv, Numbered, Count
<1>2. \A i \in same : i.data.rev \in Nat /\ i.data.rev <= Count("interpretation")
    BY DEF Inv, Table, Grounded, WellFormed, Numbered, CurrentVersions
<1>3. Revision(t) = IF t.mode # "manual-candidate" THEN 0
                    ELSE IF same # {} THEN (CHOOSE i \in same : TRUE).data.rev
                    ELSE Count("interpretation") + 1
    BY DEF Revision
<1>4. same # {} => (CHOOSE i \in same : TRUE) \in same
    OBVIOUS
<1> HIDE DEF same
<1> QED
    BY <1>1, <1>2, <1>3, <1>4

(* What was read may be obsolete by now: then the insertion is refused.    *)
LEMMA InterpretCommitInv ==
    ASSUME Inv, NEW w \in Workers, InterpretCommit(w)
    PROVE  Inv' /\ HistoryStep /\ \A m \in Retired : \E o \in Replaced : m \in Descendants(o)
<1> DEFINE t == task[w]
           i == InterpretationNode(t.contract, t.configuration, t.observation,
                                   t.registry, t.reading, t.mode, Revision(t))
<1>1. Record(i) /\ t.op = "interpret" /\ task' = [task EXCEPT ![w] = Idle]
    BY DEF InterpretCommit
<1>2. TaskOK(t)
    BY DEF Inv, Tasks
<1>3. Revision(t) \in Nat /\ Revision(t) <= Count("interpretation") + 1
    BY RevisionFits
<1>4. WellFormed(i) /\ i.kind = "interpretation" /\ i.data.rev = Revision(t)
  <2> HIDE DEF t
  <2> QED
      BY <1>1, <1>2, <1>3, InterpretationRow
<1> HIDE DEF i
<1>5. TableKept /\ \A m \in Retired : \E o \in Replaced : m \in Descendants(o)
    BY <1>1, <1>3, <1>4, RecordKeeps
<1> QED
    BY <1>1, <1>5, IdleOK, OtherTask

(* The panel is stored at once, and the interpretation it votes on is      *)
(* complete.                                                               *)
LEMMA ConsensusReadInv ==
    ASSUME Inv, NEW w \in Workers, NEW i \in Interpretations, NEW p, ConsensusRead(w, i, p)
    PROVE  Inv' /\ HistoryStep /\ \A m \in Retired : \E o \in Replaced : m \in Descendants(o)
<1> DEFINE t == [op |-> "consensus", interpretation |-> i, panel |-> PanelNode(p)]
<1>1. i.kind = "interpretation" /\ i.logical.kind = "contract"
    BY DEF Interpretations, Inv, Table, WellFormed
<1>2. TaskOK(t) /\ t.op # "publish"
    BY <1>1, SourceRows DEF ConsensusRead, TaskOK
<1>3. task' = [task EXCEPT ![w] = t]
    BY DEF ConsensusRead
<1> HIDE DEF t
<1>4. TableKept /\ \A m \in Retired : \E o \in Replaced : m \in Descendants(o)
    BY SourceRows, RecordKeeps DEF ConsensusRead
<1> QED
    BY <1>2, <1>3, <1>4, OtherTask

(* The approval is of the interpretation that was read, if it is current.  *)
LEMMA ConsensusCommitInv ==
    ASSUME Inv, NEW w \in Workers, ConsensusCommit(w)
    PROVE  Inv' /\ HistoryStep /\ \A m \in Retired : \E o \in Replaced : m \in Descendants(o)
<1> DEFINE n == ConsensusNode(task[w].interpretation, task[w].panel)
<1>1. Record(n) /\ task[w].op = "consensus" /\ task' = [task EXCEPT ![w] = Idle]
    BY DEF ConsensusCommit
<1>2. WellFormed(n) /\ n.kind = "consensus_approval"
    BY <1>1, ConsensusRow DEF Inv, Tasks, TaskOK
<1> HIDE DEF n
<1>3. TableKept /\ \A m \in Retired : \E o \in Replaced : m \in Descendants(o)
    BY <1>1, <1>2, RecordKeeps
<1> QED
    BY <1>1, <1>3, IdleOK, OtherTask

(* A review takes the place of the one before it; a rejection takes every  *)
(* assertion with it that the interpretation is an operand of.             *)
LEMMA ReviewInv ==
    ASSUME Inv, NEW i \in Interpretations, NEW approve \in BOOLEAN, Review(i, approve)
    PROVE  Inv' /\ HistoryStep /\ WithdrawalStep
<1> DEFINE r == ReviewNode(i, approve, Count("review") + 1)
           rejected == IF approve THEN {} ELSE RestingOn(i)
           X == CurrentVersions("review", i) \cup rejected
<1>1. i \in current /\ i \in stored /\ i.kind = "interpretation" /\ Rank(i) = 1
    BY RankRange DEF Review, Interpretations
<1>2. Count("review") \in Nat
    BY FS_CardinalityType DEF Inv, Numbered, Count
<1>3. /\ WellFormed(r)
      /\ r.kind = "review" /\ r.logical = i /\ r.deps = {i}
      /\ r.data.time = Count("review") + 1 /\ r.data.approved = approve
    BY <1>1, <1>2, ReviewRow DEF Review
<1>4. stored' = stored \cup {r} /\ current' = (current \ Gone(X)) \cup {r} /\ UNCHANGED task
  <2>1. ReplacedBy(r) = Gone(CurrentVersions("review", i))
      BY <1>3 DEF ReplacedBy, Gone
  <2>2. Gone(X) = Gone(CurrentVersions("review", i)) \cup Gone(rejected)
      BY DEF Gone
  <2>3. Gone(rejected) = IF approve THEN {} ELSE UNION {Descendants(a) : a \in RestingOn(i)}
      BY DEF Gone
  <2> HIDE DEF r, X, rejected
  <2>4. current' = (current \ (ReplacedBy(r) \cup Gone(rejected))) \cup {r}
      BY <2>3 DEF Review, r
  <2> QED
      BY <2>1, <2>2, <2>4 DEF Review, r
<1> HIDE DEF r
<1>5. r \notin stored
    BY <1>2, <1>3 DEF Inv, Numbered
<1>6. /\ X \in SUBSET stored
      /\ \A o \in CurrentVersions("review", i) : SameName(o, r)
      /\ \A o \in rejected : o \in stored /\ o.kind = "assertion" /\ i \in o.deps
    BY <1>3 DEF CurrentVersions, RestingOn, SameName, Inv, Table, Grounded
<1>7. Change(X, {r})
    BY <1>4 DEF Change
<1>8. i \notin Gone(X)
  <2> SUFFICES ASSUME NEW o \in X, i \in Descendants(o) PROVE FALSE
      BY DEF Gone
  <2>1. o.kind \in {"review", "assertion"} /\ o \in stored
      BY <1>3, <1>6 DEF SameName
  <2>2. Rank(o) \in {2, 3}
      BY <2>1, RankRange
  <2> QED
      BY <1>1, <2>2, <1>6, DescendantsClosed DEF Inv
<1>9. \A m \in current : SameName(m, r) => m \in Gone(X)
  <2>1. \A m \in X : m \in Gone(X)
      BY <1>6, DescendantsClosed DEF Gone, Inv
  <2> QED
      BY <1>3, <2>1 DEF SameName, CurrentVersions
<1>10. Table' /\ HistoryStep
  <2>1. /\ {r} \cap stored \subseteq current
        /\ \A n \in {r} : WellFormed(n) /\ n.deps \subseteq current \ Gone(X)
        /\ \A m, n \in {r} : SameName(m, n) => m = n
        /\ \A m \in current, n \in {r} : SameName(m, n) => m = n \/ m \in Gone(X)
      BY <1>1, <1>3, <1>5, <1>8, <1>9
  <2>2. X \in SUBSET stored /\ Table
      BY <1>6 DEF Inv
  <2> HIDE DEF X
  <2> QED
      BY <1>7, <2>1, <2>2, ChangeKeepsTable
<1>11. ReviewsStay
  <2>1. \A o \in X : o.kind = "review" => SameName(o, r)
      BY <1>6
  <2> QED
      BY <1>5, <1>6, <1>7, <2>1, ChangeKeepsReviews DEF Inv
<1>12. Unvetoed'
  <2> SUFFICES ASSUME NEW s \in current', s.kind = "assertion", NEW k \in Operands(s),
                      NEW q \in current', q.kind = "review", q.logical = k, ~q.data.approved
               PROVE  FALSE
      BY DEF Unvetoed, Assertions, HumanRejected, CurrentVersions
  <2>1. s \in current /\ s \notin Gone(X)
      BY <1>3, <1>4
  <2>2. CASE q \in current
      BY <2>1, <2>2 DEF Inv, Unvetoed, Assertions, HumanRejected, CurrentVersions
  <2>3. CASE q = r
    <3>1. ~approve /\ i \in s.deps /\ s \in stored
        BY <1>3, <2>1, <2>3 DEF Operands, Inv, Table, Grounded
    <3>2. s \in RestingOn(i) /\ s \in X
        BY <3>1 DEF RestingOn
    <3>3. s \in Gone(X)
        BY <3>1, <3>2, DescendantsClosed DEF Gone, Inv
    <3> QED
        BY <2>1, <3>3
  <2> QED
      BY <1>4, <2>2, <2>3
<1>13. Numbered'
    BY <1>2, <1>3, <1>4, NumberedAdds DEF Inv
<1>14. WithdrawalStep
  <2> SUFFICES ASSUME NEW n \in Retired
               PROVE  \/ \E o \in Replaced : n \in Descendants(o)
                      \/ \E q \in Fresh : /\ q.kind = "review" /\ ~q.data.approved
                                          /\ n.kind = "assertion" /\ q.logical \in n.deps
      BY DEF WithdrawalStep
  <2>1. r \in Fresh
      BY <1>4, <1>5 DEF Fresh
  <2>2. PICK o \in X : n \in Descendants(o)
      BY <1>4 DEF Retired, Gone
  <2>3. CASE o \in CurrentVersions("review", i)
    <3>1. o \in Replaced
        BY <1>6, <2>1, <2>3 DEF Replaced, SameName, CurrentVersions
    <3> QED
        BY <2>2, <3>1
  <2>4. CASE o \in rejected
    <3>1. n = o /\ ~approve
        BY <1>6, <2>2, <2>4, AssertionsAreLeaves DEF Inv
    <3> QED
        BY <1>3, <1>6, <2>1, <2>4, <3>1
  <2> QED
      BY <2>3, <2>4
<1> HIDE DEF X, rejected
<1>15. TableKept
    BY <1>10, <1>11, <1>12, <1>13 DEF TableKept
<1> QED
    BY <1>4, <1>14, <1>15, NoTask

(* Any two current interpretations of one contract are the same, so there  *)
(* is one claim for a pair of contracts; an operand called REVIEWED has a  *)
(* review.                                                                 *)
LEMMA CompareClaims ==
    ASSUME Inv
    PROVE  /\ \A c \in Compare : ClaimOK(c)
           /\ \A c \in Compare : \A i \in c.reviewed :
                i \in stored /\ CurrentVersions("review", i) # {}
           /\ \A c, k \in Compare : c.id = k.id => c = k
<1>1. ASSUME NEW c \in Compare
      PROVE  \E x, y \in current :
               /\ x.kind = "interpretation" /\ y.kind = "interpretation"
               /\ Proven(x, y) /\ c = Claim(x, y)
    BY <1>1 DEF Compare
<1>2. \A x, y : /\ Claim(x, y).id = <<x.logical, y.logical>>
                /\ Claim(x, y).operands = {x, y}
                /\ Claim(x, y).reviewed = {i \in {x, y} : HumanApproved(i)}
    BY DEF Claim
<1>3. ASSUME NEW c \in Compare
      PROVE  /\ ClaimOK(c)
             /\ \A i \in c.reviewed : i \in stored /\ CurrentVersions("review", i) # {}
  <2>1. PICK x, y \in current : /\ x.kind = "interpretation" /\ y.kind = "interpretation"
                                /\ Proven(x, y) /\ c = Claim(x, y)
      BY <1>1
  <2>2. /\ c.id = <<x.logical, y.logical>> /\ c.operands = {x, y}
        /\ c.reviewed = {i \in {x, y} : HumanApproved(i)}
      BY <1>2, <2>1
  <2>3. ClaimOK(c)
      BY <2>1, <2>2 DEF ClaimOK
  <2> QED
      BY <2>1, <2>2, <2>3 DEF HumanApproved, Inv, Table, Grounded
<1>4. ASSUME NEW c \in Compare, NEW k \in Compare, c.id = k.id
      PROVE  c = k
  <2>1. PICK x, y \in current : /\ x.kind = "interpretation" /\ y.kind = "interpretation"
                                /\ c = Claim(x, y)
      BY <1>1
  <2>2. PICK u, v \in current : /\ u.kind = "interpretation" /\ v.kind = "interpretation"
                                /\ k = Claim(u, v)
      BY <1>1
  <2>3. x.logical = u.logical /\ y.logical = v.logical
      BY <1>2, <1>4, <2>1, <2>2
  <2>4. x = u /\ y = v
      BY <2>1, <2>2, <2>3 DEF Inv, Table, UniqueCurrent
  <2> QED
      BY <2>1, <2>2, <2>4
<1> QED
    BY <1>3, <1>4

(* What is proposed holds between the interpretations current now.         *)
LEMMA PublishReadInv ==
    ASSUME Inv, NEW w \in Workers, NEW allow, PublishRead(w, allow)
    PROVE  Inv' /\ HistoryStep /\ Retired = {}
<1> DEFINE t == [op |-> "publish", allow |-> allow, claims |-> Compare]
<1>1. TaskOK(t) /\ t.claims = Compare
    BY CompareClaims DEF TaskOK
<1>2. task' = [task EXCEPT ![w] = t] /\ UNCHANGED <<stored, current>>
    BY DEF PublishRead
<1> HIDE DEF t
<1>3. TableKept /\ Retired = {}
    BY <1>2, SameTable
<1>4. Tasks' /\ task'[w] = t /\ \A v \in Workers \ {w} : task'[v] = task[v]
    BY <1>1, <1>2, TaskSet DEF Inv
<1>5. LabelsHold'
  <2> SUFFICES ASSUME NEW v \in Workers, task'[v].op = "publish",
                      NEW c \in task'[v].claims, NEW i \in c.reviewed
               PROVE  i \in stored /\ (i \in current => CurrentVersions("review", i) # {})
      BY <1>2 DEF LabelsHold, CurrentVersions
  <2>1. CASE v = w
      BY <1>1, <1>4, <2>1, CompareClaims
  <2>2. CASE v # w
      BY <1>4, <2>2 DEF Inv, LabelsHold
  <2> QED
      BY <2>1, <2>2
<1> QED
    BY <1>3, <1>4, <1>5 DEF Inv, TableKept

(* The assertion made of a claim. *)
AssertionOf(c) ==
    AssertionNode(c, Basis(c.operands), UNION {ApprovalsOf(i) : i \in c.operands})

(* The rows a publication accepts say no more than the approvals they name *)
(* allow, and none of their operands is rejected.                          *)
LEMMA AssertionRow ==
    ASSUME Inv, NEW c, ClaimOK(c), NEW allow,
           \A i \in c.operands : Accepted(i, allow),
           \A i \in c.reviewed : CurrentVersions("review", i) # {}
    PROVE  /\ WellFormed(AssertionOf(c))
           /\ AssertionOf(c).kind = "assertion" /\ AssertionOf(c).logical = c.id
           /\ \A i \in Operands(AssertionOf(c)) : ~HumanRejected(i)
<1> DEFINE s == AssertionOf(c)
           approvals == UNION {ApprovalsOf(i) : i \in c.operands}
<1>1. /\ DOMAIN s = {"kind", "logical", "data", "deps"}
      /\ s.kind = "assertion" /\ s.logical = c.id
      /\ s.data = [reviewed |-> c.reviewed, basis |-> Basis(c.operands)]
      /\ s.deps = c.operands \cup approvals
    BY NodeFields DEF AssertionOf, AssertionNode
<1>2. s.data.reviewed = c.reviewed /\ s.data.basis = Basis(c.operands)
    BY <1>1
<1>3. PICK x, y \in c.operands :
        /\ x.kind = "interpretation" /\ y.kind = "interpretation"
        /\ c.operands = {x, y} /\ c.id = <<x.logical, y.logical>>
        /\ c.reviewed \subseteq {x, y}
        /\ Proven(x, y)
    BY DEF ClaimOK
<1>4. \A d \in approvals : d.kind \in {"review", "consensus_approval"}
    BY DEF ApprovalsOf, ConsensusRecord, CurrentVersions
<1>5. \A i \in c.operands : i.kind = "interpretation"
    BY <1>3
<1> HIDE DEF s
<1>6. \A i \in c.operands : ApprovalsOf(i) \subseteq s.deps
    BY <1>1
<1>7. Operands(s) = c.operands
    BY <1>1, <1>4, <1>5 DEF Operands
<1> HIDE DEF approvals
<1>8. \A i \in c.operands : HumanApproved(i) => \E d \in s.deps : HumanApproval(d, i)
    BY <1>6 DEF ApprovalsOf, HumanApproved, HumanApproval, CurrentVersions
<1>9. \A i \in c.operands : \E d \in s.deps : Approval(d, i)
  <2> SUFFICES ASSUME NEW i \in c.operands PROVE \E d \in s.deps : Approval(d, i)
      OBVIOUS
  <2>1. CASE HumanApproved(i)
      BY <1>8, <2>1 DEF Approval
  <2>2. CASE ~HumanApproved(i)
    <3>1. ConsensusRecord(i) # {} /\ ConsensusRecord(i) \subseteq s.deps
        BY <1>6, <2>2 DEF Accepted, ApprovalsOf
    <3> QED
        BY <3>1 DEF ConsensusRecord, CurrentVersions, Approval
  <2> QED
      BY <2>1, <2>2
<1>10. s.data.basis = "HUMAN_REVIEW" => \A i \in c.operands : HumanApproved(i)
    BY <1>2 DEF Basis
<1>11. \A i \in c.reviewed : HumanApproved(i)
  <2> SUFFICES ASSUME NEW i \in c.reviewed PROVE HumanApproved(i)
      OBVIOUS
  <2>1. ~HumanRejected(i) /\ CurrentVersions("review", i) # {}
      BY <1>3 DEF Accepted
  <2> QED
      BY <2>1 DEF HumanRejected, HumanApproved
<1>12. Warranted(s)
    BY <1>1, <1>2, <1>3, <1>7, <1>8, <1>9, <1>10, <1>11 DEF Warranted
<1>13. WellFormed(s)
  <2>1. \A d \in s.deps : d.kind \in {"interpretation", "review", "consensus_approval"}
      BY <1>1, <1>4, <1>5 DEF approvals
  <2>2. Rank(s) = 3 /\ \A d \in s.deps : Rank(d) < 3
      BY <1>1, <2>1, RankRange
  <2> QED
      BY <1>1, <1>12, <2>2 DEF WellFormed, Approval, HumanApproval
<1>14. \A i \in Operands(s) : ~HumanRejected(i)
    BY <1>7 DEF Accepted
<1> QED
    BY <1>1, <1>13, <1>14 DEF s

(* The transaction of publish: everything it accepts is warranted by what  *)
(* is current in it.                                                       *)
LEMMA PublishCommitInv ==
    ASSUME Inv, NEW w \in Workers, PublishCommit(w)
    PROVE  Inv' /\ HistoryStep /\ \A m \in Retired : \E o \in Replaced : m \in Descendants(o)
<1> DEFINE t == task[w]
           new == Accepting(t)
           X == UNION {CurrentVersions(n.kind, n.logical) : n \in new \ stored}
<1>1. /\ t.op = "publish" /\ OperandsCurrent(t.claims)
      /\ \A n \in new : Admissible(n)
      /\ stored' = stored \cup new
      /\ current' = (current \ UNION {ReplacedBy(n) : n \in new \ stored}) \cup new
      /\ task' = [task EXCEPT ![w] = Idle]
    BY DEF PublishCommit
<1>2. /\ \A c \in t.claims : ClaimOK(c)
      /\ \A c, k \in t.claims : c.id = k.id => c = k
      /\ \A c \in t.claims : \A i \in c.reviewed : CurrentVersions("review", i) # {}
  <2>1. TaskOK(t)
      BY DEF Inv, Tasks
  <2>2. \A c \in t.claims : ClaimOK(c) /\ c.operands \subseteq current
      BY <1>1, <2>1 DEF TaskOK, OperandsCurrent, RequireCurrent
  <2>3. \A c \in t.claims : c.reviewed \subseteq current
      BY <2>2 DEF ClaimOK
  <2> QED
      BY <1>1, <2>1, <2>3 DEF TaskOK, Inv, LabelsHold
<1>3. \A n \in new : \E c \in t.claims : /\ n = AssertionOf(c)
                                         /\ \A i \in c.operands : Accepted(i, t.allow)
    BY DEF Accepting, AssertionOf
<1> HIDE DEF new, t
<1>4. \A n \in new : /\ WellFormed(n) /\ n.kind = "assertion"
                     /\ \A i \in Operands(n) : ~HumanRejected(i)
    BY <1>2, <1>3, AssertionRow
<1>5. \A m, n \in new : m.logical = n.logical => m = n
  <2> SUFFICES ASSUME NEW m \in new, NEW n \in new, m.logical = n.logical PROVE m = n
      OBVIOUS
  <2>1. PICK c \in t.claims : m = AssertionOf(c) /\ \A i \in c.operands : Accepted(i, t.allow)
      BY <1>3
  <2>2. PICK k \in t.claims : n = AssertionOf(k) /\ \A i \in k.operands : Accepted(i, t.allow)
      BY <1>3
  <2>3. m.logical = c.id /\ n.logical = k.id
      BY <1>2, <2>1, <2>2, AssertionRow
  <2> QED
      BY <1>2, <2>1, <2>2, <2>3
<1>6. /\ X \in SUBSET stored
      /\ \A o \in X : o.kind = "assertion" /\ o \in current
      /\ \A o \in X : \E n \in new \ stored : SameName(o, n)
    BY <1>4 DEF CurrentVersions, SameName, Inv, Table, Grounded
<1>7. Gone(X) = UNION {ReplacedBy(n) : n \in new \ stored} /\ Gone(X) = X
  <2>1. \A o \in X : Descendants(o) = {o}
      BY <1>6, AssertionsAreLeaves DEF Inv
  <2>2. Gone(X) = X
      BY <2>1 DEF Gone
  <2> QED
      BY <2>2 DEF Gone, ReplacedBy
<1>8. Change(X, new)
    BY <1>1, <1>7 DEF Change
<1>9. new \cap stored \subseteq current \ Gone(X)
    BY <1>1, <1>4, <1>5, <1>6, <1>7 DEF Admissible, SameName
<1>10. \A n \in new : WellFormed(n) /\ n.deps \subseteq current \ Gone(X)
  <2> SUFFICES ASSUME NEW n \in new, NEW d \in n.deps
               PROVE  d \in current /\ d \notin X
      BY <1>4, <1>7
  <2>1. d \in current /\ Rank(d) < Rank(n) /\ Rank(n) = 3
      BY <1>1, <1>4, RankRange DEF Admissible, RequireCurrent, WellFormed
  <2> QED
      BY <1>6, <2>1, RankRange
<1>11. \A m \in current, n \in new : SameName(m, n) => m = n \/ m \in Gone(X)
  <2> SUFFICES ASSUME NEW m \in current, NEW n \in new, SameName(m, n), m # n
               PROVE  m \in X
      BY <1>7
  <2>1. n \notin stored
      BY <1>1 DEF Admissible, SameName, Inv, Table, UniqueCurrent
  <2> QED
      BY <2>1 DEF CurrentVersions, SameName
<1>12. \A m \in Retired : \E o \in Replaced : m \in Descendants(o)
  <2>1. Retired \subseteq X /\ new \ stored \subseteq Fresh
      BY <1>7, <1>8 DEF Retired, Change, Fresh
  <2>2. X \subseteq Replaced
      BY <1>6, <2>1 DEF Replaced, SameName
  <2> QED
      BY <1>6, <2>1, <2>2, DescendantsClosed DEF Inv
<1> HIDE DEF X
<1>13. \A m, n \in new : SameName(m, n) => m = n
    BY <1>5 DEF SameName
<1>14. Table' /\ HistoryStep
    BY <1>6, <1>8, <1>9, <1>10, <1>11, <1>13, ChangeKeepsTable DEF Inv
<1>15. ReviewsStay
    BY <1>6, <1>8, <1>9, ChangeKeepsReviews DEF Inv
<1>16. Unvetoed'
    BY <1>4, <1>8, ChangeKeepsUnvetoed DEF Inv
<1>17. Numbered'
  <2>1. /\ {n \in stored' : n.kind = "interpretation"} = {n \in stored : n.kind = "interpretation"}
        /\ {n \in stored' : n.kind = "review"} = {n \in stored : n.kind = "review"}
      BY <1>1, <1>4
  <2> QED
      BY <2>1 DEF Inv, Numbered, Count
<1>18. TableKept
    BY <1>14, <1>15, <1>16, <1>17 DEF TableKept
<1> QED
    BY <1>1, <1>12, <1>18, IdleOK, OtherTask

(* Proposals that are quarantined replace nothing.                         *)
LEMMA QuarantineInv ==
    ASSUME Inv, NEW w \in Workers, Quarantine(w)
    PROVE  Inv' /\ HistoryStep /\ \A m \in Retired : \E o \in Replaced : m \in Descendants(o)
<1>1. TableKept /\ \A m \in Retired : \E o \in Replaced : m \in Descendants(o)
    BY SourceRows, RecordKeeps DEF Quarantine
<1> QED
    BY <1>1, IdleOK, OtherTask DEF Quarantine

(* Work that is lost leaves nothing in the table.                          *)
LEMMA DropInv ==
    ASSUME Inv, NEW w \in Workers, Drop(w)
    PROVE  Inv' /\ HistoryStep /\ Retired = {}
BY SameTable, IdleOK, OtherTask DEF Drop

(* An empty dataset. *)
LEMMA InitInv == Init => Inv
<1> SUFFICES ASSUME Init PROVE Inv
    OBVIOUS
<1> USE DEF Init
<1>1. Table /\ Unvetoed
    BY DEF Table, Grounded, CurrentClosed, UniqueCurrent, Unvetoed, Assertions
<1>2. Tasks /\ LabelsHold
    BY IdleOK DEF Tasks, LabelsHold
<1>3. Numbered
  <2>1. \A k : {n \in stored : n.kind = k} = {}
      OBVIOUS
  <2> QED
      BY <2>1, FS_EmptySet DEF Numbered
<1> QED
    BY <1>1, <1>2, <1>3 DEF Inv

(* Every operation of every thread keeps the invariant and withdraws no    *)
(* more than it must.                                                      *)
LEMMA NextInv ==
    Inv /\ [Next]_vars => Inv' /\ [HistoryStep]_vars /\ [WithdrawalStep]_vars
<1> SUFFICES ASSUME Inv, [Next]_vars
             PROVE  Inv' /\ (UNCHANGED vars \/ (HistoryStep /\ WithdrawalStep))
    OBVIOUS
<1>0. (\A m \in Retired : \E o \in Replaced : m \in Descendants(o)) => WithdrawalStep
    BY DEF WithdrawalStep
<1>1. CASE \E c \in Contracts, complete \in BOOLEAN : Capture(c, complete)
    BY <1>0, <1>1, CaptureInv
<1>2. CASE Configure \/ \E g \in Canonical : Register(g)
    BY <1>0, <1>2, ConfigureInv, RegisterInv
<1>3. CASE \E w \in Workers, contract, configuration \in stored, observation \in Resolutions,
              rules \in SUBSET Registrations, reading \in Readings, mode \in Modes :
             InterpretRead(w, contract, configuration, observation, rules, reading, mode)
    BY <1>0, <1>3, InterpretReadInv
<1>4. CASE \E w \in Workers : InterpretCommit(w)
    BY <1>0, <1>4, InterpretCommitInv
<1>5. CASE \E i \in Interpretations, approve \in Opinions : Review(i, approve)
    BY <1>5, ReviewInv, PublicationAssumption
<1>6. CASE \E w \in Workers, i \in Interpretations, p \in Panels : ConsensusRead(w, i, p)
    BY <1>0, <1>6, ConsensusReadInv
<1>7. CASE \E w \in Workers : ConsensusCommit(w)
    BY <1>0, <1>7, ConsensusCommitInv
<1>8. CASE \E w \in Workers, allow \in Allow : PublishRead(w, allow)
    BY <1>0, <1>8, PublishReadInv
<1>9. CASE \E w \in Workers : PublishCommit(w)
    BY <1>0, <1>9, PublishCommitInv
<1>10. CASE \E w \in Workers : Quarantine(w)
    BY <1>0, <1>10, QuarantineInv
<1>11. CASE \E w \in Workers : Drop(w)
    BY <1>0, <1>11, DropInv
<1>12. CASE UNCHANGED vars
  <2>1. UNCHANGED <<stored, current>> /\ UNCHANGED task
      BY <1>12 DEF vars
  <2> QED
      BY <1>12, <2>1, SameTable, NoTask
<1> QED
    BY <1>1, <1>2, <1>3, <1>4, <1>5, <1>6, <1>7, <1>8, <1>9, <1>10, <1>11, <1>12 DEF Next

(* The inductive invariant holds after every transaction of every thread.  *)
THEOREM InvAlways == Spec => []Inv
<1> QED
    BY InitInv, NextInv, PTL DEF Spec

(* Rows are grounded and have the columns of the table `nodes`; a thread   *)
(* is in one of the operations.                                            *)
THEOREM TypesAlways == Spec => []TypeOK
<1>1. Inv => TypeOK
    BY DEF Inv, Table, WellFormed, Tasks, TaskOK, TypeOK
<1> QED
    BY <1>1, InvAlways, PTL

(* What is current rests on what is current: three layers of children are  *)
(* the whole closure of Store.invalidate.                                  *)
THEOREM ClosureAlways == Spec => []CurrentClosed
<1>1. Inv => CurrentClosed
    BY DEF Inv, Table
<1> QED
    BY <1>1, InvAlways, PTL

(* A row's approvals are approvals of it, and current if it is.            *)
LEMMA ApprovalsStand ==
    ASSUME Inv, NEW s \in Assertions, NEW i, NEW d \in s.deps
    PROVE  /\ HumanApproval(d, i) => HumanApproved(i)
           /\ Approval(d, i) => /\ HumanApproved(i) \/ ConsensusRecord(i) # {}
                                /\ i.logical.data.complete
<1>1. d \in current /\ d \in stored
    BY DEF Inv, Table, CurrentClosed, Grounded, Assertions
<1>2. HumanApproval(d, i) => HumanApproved(i)
    BY <1>1 DEF HumanApproval, HumanApproved, CurrentVersions
<1>3. Approval(d, i) => HumanApproved(i) \/ ConsensusRecord(i) # {}
    BY <1>1, <1>2 DEF Approval, ConsensusRecord, CurrentVersions
<1>4. Approval(d, i) => i.logical.data.complete
  <2>1. Approval(d, i) => i \in d.deps
      BY <1>1 DEF Approval, HumanApproval, Inv, Table, WellFormed
  <2> QED
      BY <1>1, <2>1 DEF Inv, Table, WellFormed
<1> QED
    BY <1>2, <1>3, <1>4

(* An accepted assertion is warranted, by operands that are current.       *)
LEMMA CurrentAssertion ==
    ASSUME Inv, NEW s \in Assertions
    PROVE  Warranted(s) /\ Operands(s) \subseteq current
BY DEF Inv, Table, WellFormed, Grounded, CurrentClosed, Assertions, Operands

(* At every moment, an accepted assertion rests on current, complete,      *)
(* accepted interpretations that nobody has rejected: publish,             *)
(* review and invalidation together keep it so.                            *)
THEOREM AcceptedAlwaysJustified == Spec => []AcceptedJustified
<1>1. Inv => AcceptedJustified
  <2> SUFFICES ASSUME Inv, NEW s \in Assertions, NEW i \in Operands(s)
               PROVE  /\ i \in current
                      /\ i.logical.data.complete
                      /\ ~HumanRejected(i)
                      /\ HumanApproved(i) \/ ConsensusRecord(i) # {}
      BY DEF AcceptedJustified
  <2>1. PICK d \in s.deps : Approval(d, i)
      BY CurrentAssertion DEF Warranted
  <2>2. ~HumanRejected(i) /\ i \in current
      BY CurrentAssertion DEF Inv, Unvetoed
  <2> QED
      BY <2>1, <2>2, ApprovalsStand
<1> QED
    BY <1>1, InvAlways, PTL

(* HUMAN_REVIEW on an assertion means a current human approval of every    *)
(* operand, not only of one (publish computes the basis inside its         *)
(* transaction).                                                           *)
THEOREM BasisAlwaysHonest == Spec => []BasisHonest
<1>1. Inv => BasisHonest
    BY CurrentAssertion, ApprovalsStand DEF BasisHonest, Warranted
<1> QED
    BY <1>1, InvAlways, PTL

(* The label REVIEWED is read before the transaction of publish and still  *)
(* never names an operand without a current human approval.                *)
THEOREM LabelsNeverDoOverstate == Spec => []LabelsNeverOverstate
<1>1. Inv => LabelsNeverOverstate
    BY CurrentAssertion, ApprovalsStand DEF LabelsNeverOverstate, Warranted
<1> QED
    BY <1>1, InvAlways, PTL

(* What is accepted about two contracts is true of their current           *)
(* interpretations, whoever reinterpreted them while it was published.     *)
THEOREM AcceptedAlwaysSound == Spec => []AcceptedSound
<1>1. Inv => AcceptedSound
  <2> SUFFICES ASSUME Inv, NEW s \in Assertions,
                      NEW x \in CurrentVersions("interpretation", s.logical[1]),
                      NEW y \in CurrentVersions("interpretation", s.logical[2])
               PROVE  /\ {x, y} = Operands(s)
                      /\ \A v \in Readings : v >= x.data.reading => v >= y.data.reading
      BY DEF AcceptedSound
  <2>1. PICK u, v \in Operands(s) : /\ Operands(s) = {u, v}
                                    /\ s.logical = <<u.logical, v.logical>>
                                    /\ Proven(u, v)
      BY CurrentAssertion DEF Warranted
  <2>2. u \in current /\ u.kind = "interpretation" /\ v \in current /\ v.kind = "interpretation"
      BY CurrentAssertion DEF Operands
  <2>3. x = u /\ y = v
      BY <2>1, <2>2 DEF CurrentVersions, Inv, Table, UniqueCurrent
  <2>4. x.data.reading \in Nat /\ y.data.reading \in Nat /\ x.data.reading >= y.data.reading
      BY <2>1, <2>2, <2>3 DEF Proven, Inv, Table, Grounded, WellFormed
  <2> QED
      BY <2>1, <2>3, <2>4, PublicationAssumption
<1> QED
    BY <1>1, InvAlways, PTL

(* A manual candidate is never refused because the same text was           *)
(* interpreted before: a new revision is a content no row has.             *)
THEOREM CandidatesAdmitted == Spec => []ManualCandidateAdmitted
<1>1. Inv => ManualCandidateAdmitted
  <2> SUFFICES ASSUME Inv, NEW w \in Workers, task[w].op = "interpret",
                      task[w].mode = "manual-candidate",
                      RequireCurrent({task[w].contract, task[w].configuration} \cup task[w].registry)
               PROVE  LET t == task[w]
                      IN  Admissible(InterpretationNode(t.contract, t.configuration, t.observation,
                                                        t.registry, t.reading, t.mode, Revision(t)))
      BY DEF ManualCandidateAdmitted
  <2> DEFINE t == task[w]
             i == InterpretationNode(t.contract, t.configuration, t.observation,
                                     t.registry, t.reading, t.mode, Revision(t))
             same == {k \in CurrentVersions("interpretation", t.contract) :
                        k = InterpretationNode(t.contract, t.configuration, t.observation,
                                               t.registry, t.reading, t.mode, k.data.rev)}
  <2>1. TaskOK(t) /\ t.op = "interpret" /\ t.mode = "manual-candidate"
      BY DEF Inv, Tasks
  <2>2. Revision(t) \in Nat /\ Count("interpretation") \in Nat
      BY RevisionFits, FS_CardinalityType DEF Inv, Numbered, Count
  <2>3. i.kind = "interpretation" /\ i.data.rev = Revision(t)
        /\ i.deps = {t.contract, t.configuration} \cup t.registry
    <3> HIDE DEF t
    <3> QED
        BY <2>1, <2>2, InterpretationRow
  <2>4. CASE same # {}
    <3>1. PICK k \in same : Revision(t) = k.data.rev
        BY <2>1, <2>4 DEF Revision
    <3>2. i = k
        BY <3>1
    <3> QED
        BY <2>3, <3>1, <3>2 DEF Admissible, CurrentVersions
  <2>5. CASE same = {}
    <3>1. Revision(t) = Count("interpretation") + 1
        BY <2>1, <2>5 DEF Revision
    <3> HIDE DEF i
    <3>2. i \notin stored
        BY <2>2, <2>3, <3>1 DEF Inv, Numbered
    <3> QED
        BY <2>3, <3>2 DEF Admissible, i
  <2> QED
      BY <2>4, <2>5
<1> QED
    BY <1>1, InvAlways, PTL

(* An operation withdraws only what descends from a version it replaced,   *)
(* or the assertions on an interpretation it rejected.                     *)
THEOREM WithdrawalAlwaysPrecise == Spec => WithdrawalIsPrecise
<1>1. Inv /\ [Next]_vars => [WithdrawalStep]_vars
    BY NextInv
<1> QED
    BY <1>1, InvAlways, PTL DEF Spec, WithdrawalIsPrecise

(* History is append-only through every operation, those that insert or    *)
(* invalidate several rows included, and nothing obsolete becomes current  *)
(* again ("Obsolete jobs cannot resurrect a previously invalidated         *)
(* output", store.py).                                                     *)
THEOREM HistoryAlwaysFinal == Spec => [][HistoryStep]_vars
<1>1. Inv /\ [Next]_vars => [HistoryStep]_vars
    BY NextInv
<1> QED
    BY <1>1, InvAlways, PTL DEF Spec

(* The three layers of the module are the whole recursive query.           *)
THEOREM ClosureIsComplete == Spec => [](\A x \in stored : Descendants(x) = Affected(x))
<1>1. Inv => \A x \in stored : Descendants(x) = Affected(x)
    BY DescendantsAreAffected DEF Inv
<1> QED
    BY <1>1, InvAlways, PTL
==============================================================================
