--------------------------- MODULE NodeStoreProofs ---------------------------
(***************************************************************************)
(* Integrity of the node table for every set of contents whose kinds are   *)
(* ranked, and what follows from it.                                       *)
(*                                                                         *)
(* The hard step is Insert.  The code checks the dependencies of the       *)
(* newcomer before it invalidates the version the newcomer replaces, so    *)
(* nothing in the code says that the dependencies survive the              *)
(* invalidation.  They do because the rank grows along every dependency:   *)
(* whatever the replaced version drags down has a higher rank than it,     *)
(* while the newcomer, of the same kind, depends on lower ranks only.      *)
(***************************************************************************)
EXTENDS NodeStore, TLAPS

-----------------------------------------------------------------------------
(* The least closed set is closed: the children of an affected row are    *)
(* affected.                                                              *)
LEMMA AffectedIsClosed ==
    ASSUME NEW x
    PROVE  Closed(Affected(x))
<1> SUFFICES ASSUME NEW n \in stored, NEW d \in n.deps, d \in Affected(x)
             PROVE  n \in Affected(x)
    BY DEF Closed, Children
<1> SUFFICES ASSUME NEW S \in SUBSET stored, x \in S, Closed(S)
             PROVE  n \in S
    BY DEF Affected
<1>1. d \in S
    BY DEF Affected
<1> QED
    BY <1>1 DEF Closed, Children

(* A row affects itself, and it affects nothing outside a closed set that *)
(* holds it: Affected is the least closed set.                            *)
LEMMA AffectedIsLeast ==
    /\ \A x \in stored : x \in Affected(x)
    /\ \A x : Affected(x) \subseteq stored
    /\ \A S \in SUBSET stored : \A x \in S : Closed(S) => Affected(x) \subseteq S
BY DEF Affected

(* Invalidation reaches only higher ranks: besides x itself, an affected  *)
(* row is of a kind farther from the sources than x.                      *)
LEMMA AffectedOutranks ==
    ASSUME TypeOK, NEW x \in stored, NEW n \in Affected(x)
    PROVE  n = x \/ Rank[x.kind] < Rank[n.kind]
<1> DEFINE Above == {m \in stored : m = x \/ Rank[x.kind] < Rank[m.kind]}
<1>1. \A m \in stored : /\ m \in Candidates
                        /\ Rank[m.kind] \in Nat
                        /\ \A d \in m.deps : /\ Rank[d.kind] \in Nat
                                             /\ Rank[d.kind] < Rank[m.kind]
    BY RankAssumption DEF TypeOK
<1>2. Closed(Above)
    <2> SUFFICES ASSUME NEW m \in stored, NEW d \in m.deps, d \in Above
                 PROVE  m \in Above
        BY DEF Closed, Children
    <2>1. Rank[d.kind] < Rank[m.kind] /\ Rank[d.kind] \in Nat
          /\ Rank[m.kind] \in Nat /\ Rank[x.kind] \in Nat
        BY <1>1
    <2>2. Rank[x.kind] < Rank[m.kind]
        BY <2>1
    <2> QED
        BY <2>2
<1>3. x \in Above /\ Above \in SUBSET stored
    OBVIOUS
<1>4. Affected(x) \subseteq Above
    BY <1>2, <1>3, AffectedIsLeast
<1> QED
    BY <1>4

(* Dropping closed sets of rows from the current ones leaves what remains *)
(* resting on current rows.                                               *)
LEMMA DroppingClosedSets ==
    ASSUME CurrentClosed, Grounded, NEW X
    PROVE  LET left == current \ UNION {Affected(o) : o \in X}
           IN  \A n \in left : n.deps \subseteq left
<1> SUFFICES ASSUME NEW n \in current, NEW d \in n.deps, NEW o \in X,
                    d \in Affected(o)
             PROVE  n \in Affected(o)
    BY DEF CurrentClosed
<1> QED
    BY AffectedIsClosed DEF Closed, Children, Grounded

(* The newcomer's dependencies are outside everything its arrival         *)
(* invalidates.                                                           *)
LEMMA DependenciesSurvive ==
    ASSUME Integrity, NEW n \in Candidates, NEW d \in n.deps
    PROVE  d \notin Superseded(n)
<1> SUFFICES ASSUME NEW o \in CurrentVersions(n.kind, n.logical), d \in Affected(o)
             PROVE  FALSE
    BY DEF Superseded
<1>1. o \in stored /\ o \in Candidates /\ o.kind = n.kind
    BY DEF CurrentVersions, Integrity, TypeOK
<1>2. d = o \/ Rank[o.kind] < Rank[d.kind]
    BY <1>1, AffectedOutranks DEF Integrity
<1>3. Rank[d.kind] < Rank[n.kind] /\ Rank[d.kind] \in Nat /\ Rank[n.kind] \in Nat
    BY RankAssumption
<1> QED
    BY <1>1, <1>2, <1>3

-----------------------------------------------------------------------------
(* Every insertion preserves the integrity of the table. *)
LEMMA InsertKeepsIntegrity ==
    ASSUME Integrity, NEW n \in Candidates, Insert(n)
    PROVE  Integrity'
<1> USE DEF Insert, Admissible, RequireCurrent
<1> DEFINE left == current \ Superseded(n)
<1>1. TypeOK'
    BY DEF Integrity, TypeOK
<1>2. Grounded'
    BY DEF Integrity, Grounded
<1>3. CurrentClosed'
    <2>1. \A m \in left : m.deps \subseteq left
        BY DroppingClosedSets DEF Integrity, Superseded
    <2>2. n.deps \subseteq left
        BY DependenciesSurvive
    <2> QED
        BY <2>1, <2>2 DEF CurrentClosed
<1>4. UniqueCurrent'
    <2>1. \A m \in left : ~(m.kind = n.kind /\ m.logical = n.logical)
        <3> SUFFICES ASSUME NEW m \in current,
                            m.kind = n.kind, m.logical = n.logical
                     PROVE  m \in Superseded(n)
            OBVIOUS
        <3>1. m \in CurrentVersions(n.kind, n.logical) /\ m \in stored
            BY DEF CurrentVersions, Integrity, TypeOK
        <3>2. m \in Affected(m)
            BY <3>1, AffectedIsLeast
        <3> QED
            BY <3>1, <3>2 DEF Superseded
    <2>2. \A m1, m2 \in left : m1.kind = m2.kind /\ m1.logical = m2.logical => m1 = m2
        BY DEF Integrity, UniqueCurrent
    <2> QED
        BY <2>1, <2>2 DEF UniqueCurrent
<1> QED
    BY <1>1, <1>2, <1>3, <1>4 DEF Integrity

(* So does every invalidation. *)
LEMMA InvalidateKeepsIntegrity ==
    ASSUME Integrity, NEW n \in Candidates, Invalidate(n)
    PROVE  Integrity'
<1>1. current' = current \ UNION {Affected(o) : o \in {n}}
    BY DEF Invalidate
<1>2. CurrentClosed'
    BY <1>1, DroppingClosedSets DEF Integrity, CurrentClosed
<1>3. TypeOK' /\ Grounded' /\ UniqueCurrent'
    BY DEF Invalidate, Integrity, TypeOK, Grounded, UniqueCurrent
<1> QED
    BY <1>2, <1>3 DEF Integrity

(* Integrity is inductive. *)
LEMMA NextKeepsIntegrity == Integrity /\ [Next]_vars => Integrity'
<1> SUFFICES ASSUME Integrity, [Next]_vars
             PROVE  Integrity'
    OBVIOUS
<1>1. CASE \E n \in Candidates : Insert(n)
    BY <1>1, InsertKeepsIntegrity
<1>2. CASE \E n \in Candidates : InsertHistorical(n)
    BY <1>2 DEF InsertHistorical, Integrity, TypeOK, Grounded, CurrentClosed,
                UniqueCurrent
<1>3. CASE \E n \in Candidates : Invalidate(n)
    BY <1>3, InvalidateKeepsIntegrity
<1>4. CASE UNCHANGED vars
    BY <1>4 DEF vars, Integrity, TypeOK, Grounded, CurrentClosed, UniqueCurrent
<1> QED
    BY <1>1, <1>2, <1>3, <1>4 DEF Next

(* The dataset is whole after every transaction of every caller: rows are *)
(* grounded, current rows rest on current rows, and Store.current never   *)
(* meets two versions.                                                    *)
THEOREM IntegrityAlways == Spec => []Integrity
<1>1. Init => Integrity
    BY DEF Init, Integrity, TypeOK, Grounded, CurrentClosed, UniqueCurrent
<1> QED
    BY <1>1, NextKeepsIntegrity, PTL DEF Spec

(* A current conclusion never rests on something obsolete. *)
THEOREM ClosureAlways == Spec => []CurrentClosed
<1>1. Integrity => CurrentClosed
    BY DEF Integrity
<1> QED
    BY <1>1, IntegrityAlways, PTL

(* Store.current finds one version or none. *)
THEOREM UniquenessAlways == Spec => []UniqueCurrent
<1>1. Integrity => UniqueCurrent
    BY DEF Integrity
<1> QED
    BY <1>1, IntegrityAlways, PTL

(* No caller and no sequence of calls makes an obsolete row current. *)
THEOREM HistoryIsFinal == Spec => NoResurrection
<1>1. Integrity /\ [Next]_vars => [HistoryStep]_vars
    BY DEF Integrity, TypeOK, Next, Insert, Admissible, InsertHistorical,
           Invalidate, HistoryStep, vars
<1> QED
    BY <1>1, IntegrityAlways, PTL DEF Spec, NoResurrection

-----------------------------------------------------------------------------
(* What a row was derived from is stored, holds the row itself and         *)
(* whatever its members depend on, and is the least such set.              *)
LEMMA RestsOnIsLeast ==
    ASSUME Grounded, NEW n \in stored
    PROVE  /\ RestsOn(n) \subseteq stored
           /\ n \in RestsOn(n)
           /\ \A m \in RestsOn(n) : m.deps \subseteq RestsOn(n)
           /\ \A S \in SUBSET stored :
                n \in S /\ (\A m \in S : m.deps \subseteq S) => RestsOn(n) \subseteq S
<1>1. ASSUME NEW m \in RestsOn(n), NEW d \in m.deps
      PROVE  d \in RestsOn(n)
  <2>1. d \in stored
      BY <1>1 DEF RestsOn, Grounded
  <2>2. ASSUME NEW S \in SUBSET stored, n \in S, \A k \in S : k.deps \subseteq S
        PROVE  d \in S
    <3>1. m \in S
        BY <1>1, <2>2 DEF RestsOn
    <3> QED
        BY <1>1, <2>2, <3>1
  <2> QED
      BY <2>1, <2>2 DEF RestsOn
<1> QED
    BY <1>1 DEF RestsOn

(* Up and down agree: the recursive query reaches exactly the rows that    *)
(* were derived from the row it starts at.                                 *)
LEMMA AffectedRestsOn ==
    ASSUME Grounded, NEW o \in stored, NEW n \in stored
    PROVE  n \in Affected(o) <=> o \in RestsOn(n)
<1>1. ASSUME n \in Affected(o)
      PROVE  o \in RestsOn(n)
  <2> DEFINE Derived == {m \in stored : o \in RestsOn(m)}
  <2>1. o \in Derived
      BY RestsOnIsLeast
  <2>2. ASSUME NEW m \in stored, NEW d \in m.deps, d \in Derived
        PROVE  m \in Derived
    <3>1. d \in RestsOn(m) /\ RestsOn(m) \in SUBSET stored
        BY <2>2, RestsOnIsLeast
    <3>2. RestsOn(d) \subseteq RestsOn(m)
        BY <2>2, <3>1, RestsOnIsLeast
    <3> QED
        BY <2>2, <3>2
  <2>3. Closed(Derived)
      BY <2>2 DEF Closed, Children
  <2>4. Affected(o) \subseteq Derived
      BY <2>1, <2>3, AffectedIsLeast
  <2> QED
      BY <1>1, <2>4
<1>2. ASSUME o \in RestsOn(n), n \notin Affected(o)
      PROVE  FALSE
  <2>1. PICK S \in SUBSET stored : o \in S /\ Closed(S) /\ n \notin S
      BY <1>2 DEF Affected
  <2> DEFINE Rest == stored \ S
  <2>2. n \in Rest /\ o \notin Rest /\ Rest \in SUBSET stored
      BY <2>1
  <2>3. \A m \in Rest : m.deps \subseteq Rest
      BY <2>1 DEF Closed, Children, Grounded
  <2> HIDE DEF Rest
  <2>4. RestsOn(n) \subseteq Rest
      BY <2>2, <2>3, RestsOnIsLeast
  <2> QED
      BY <1>2, <2>2, <2>4
<1> QED
    BY <1>1, <1>2

(* A current row was derived from current rows only.                       *)
LEMMA CurrentRestsOnCurrent ==
    ASSUME Grounded, CurrentClosed, NEW n \in current
    PROVE  RestsOn(n) \subseteq current
BY RestsOnIsLeast DEF Grounded, CurrentClosed

(* The rows lost with a current row o are those derived from it; the query *)
(* for an obsolete row loses none.                                         *)
LEMMA LostWith ==
    ASSUME Integrity, NEW o \in stored
    PROVE  /\ current \cap Affected(o) = {n \in current : o \in RestsOn(n)}
           /\ o \in current => o \in Affected(o)
           /\ o \notin current => current \cap Affected(o) = {}
<1>1. \A n \in current : n \in Affected(o) <=> o \in RestsOn(n)
    BY AffectedRestsOn DEF Integrity, TypeOK
<1>2. \A n \in current : RestsOn(n) \subseteq current
    BY CurrentRestsOnCurrent DEF Integrity
<1> QED
    BY <1>1, <1>2, AffectedIsLeast

(* One step of Next loses what was derived from one row.                   *)
LossStep == Retired # {} => \E o \in Retired : OneCause(o)

(* Whatever the callers do, every loss has one cause: of two current       *)
(* versions of a name there would be two, and an obsolete row with current *)
(* descendants would be one that is not lost itself.                       *)
THEOREM PrecisionAlways == Spec => LossHasOneCause
<1>1. ASSUME Integrity, Next, Retired # {}
      PROVE  \E o \in Retired : OneCause(o)
  <2>0. current \subseteq stored /\ stored \subseteq Candidates
      BY <1>1 DEF Integrity, TypeOK
  <2>1. ASSUME NEW n \in Candidates, Insert(n)
        PROVE  \E o \in Retired : OneCause(o)
    <3>1. PICK o \in CurrentVersions(n.kind, n.logical) : TRUE
        BY <1>1, <2>1 DEF Insert, Superseded, Retired
    <3>2. o \in current /\ o.kind = n.kind /\ o.logical = n.logical
        BY <3>1 DEF CurrentVersions
    <3>3. CurrentVersions(n.kind, n.logical) = {o}
        BY <1>1, <3>2 DEF CurrentVersions, Integrity, UniqueCurrent
    <3>4. Superseded(n) = Affected(o)
        BY <3>3 DEF Superseded
    <3>5. n \notin current /\ Fresh \subseteq {n}
        BY <2>0, <2>1 DEF Insert, Fresh
    <3>6. Retired = current \cap Affected(o)
        BY <2>1, <3>4, <3>5 DEF Insert, Retired
    <3>7. o \in Retired /\ OneCause(o)
        BY <1>1, <2>0, <3>2, <3>5, <3>6, LostWith DEF OneCause
    <3> QED
        BY <3>7
  <2>2. ASSUME NEW n \in Candidates, Invalidate(n)
        PROVE  \E o \in Retired : OneCause(o)
    <3>1. n \in stored /\ Retired = current \cap Affected(n) /\ Fresh = {}
        BY <2>0, <2>2 DEF Invalidate, Retired, Fresh
    <3>2. n \in current
        BY <1>1, <3>1, LostWith
    <3>3. n \in Retired /\ OneCause(n)
        BY <1>1, <3>1, <3>2, LostWith DEF OneCause
    <3> QED
        BY <3>3
  <2>3. ASSUME NEW n \in Candidates
        PROVE  ~InsertHistorical(n)
      BY <1>1 DEF InsertHistorical, Retired
  <2> QED
      BY <1>1, <2>1, <2>2, <2>3 DEF Next
<1>2. Integrity /\ [Next]_vars => [LossStep]_vars
    BY <1>1 DEF vars, LossStep
<1>3. Spec => [][LossStep]_vars
    BY <1>2, IntegrityAlways, PTL DEF Spec
<1> QED
    BY <1>3 DEF LossHasOneCause, LossStep
==============================================================================
