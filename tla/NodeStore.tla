------------------------------ MODULE NodeStore ------------------------------
(***************************************************************************)
(* The node table under any callers.  A caller may insert any of the       *)
(* contents in Candidates, in any order and any number of times, or        *)
(* invalidate any stored row; every call runs in a transaction of its own  *)
(* under the store's lock, so a call is one step.  Calls that raise or     *)
(* find the row already current change nothing and are not steps.          *)
(***************************************************************************)
EXTENDS Nodes

CONSTANTS Candidates,  \* the contents the callers submit
          Kinds,       \* the kinds of node
          Rank         \* how far a kind is from the captured sources

(* In every insert of the code the dependencies of a kind are of kinds    *)
(* closer to the sources: contract, configuration, registry, then         *)
(* interpretation, review, ballots, label set, consensus approval,        *)
(* assertion (and contract, event_semantics, explanation, suggestions).   *)
ASSUME RankAssumption ==
    /\ Rank \in [Kinds -> Nat]
    /\ \A n \in Candidates :
         /\ n.kind \in Kinds
         /\ n.deps \subseteq Candidates
         /\ \A d \in n.deps : Rank[d.kind] < Rank[n.kind]

vars == <<stored, current>>

Init ==
    /\ stored = {}
    /\ current = {}

(* Faulty variant: the query forgets the logical name. *)
SupersededKind(n) == UNION {Affected(o) : o \in {c \in current : c.kind = n.kind}}

(* What replacing the current version of n's logical name invalidates. *)
Superseded(n) == UNION {Affected(o) : o \in CurrentVersions(n.kind, n.logical)}

(* Faulty variant: stored content is not looked up first. *)
InsertWithoutHistoryCheck(n) ==
    /\ RequireCurrent(n.deps)
    /\ stored' = stored \cup {n}
    /\ current' = (current \ Superseded(n)) \cup {n}

(* Store.insert(make_current=True) of content that is not yet stored. *)
Insert(n) ==
    /\ n \notin stored
    /\ Admissible(n)
    /\ stored' = stored \cup {n}
    /\ current' = (current \ Superseded(n)) \cup {n}

(* Store.insert(make_current=False): a row for the record (a discovery    *)
(* page, a run, a measurement).  Its dependencies must be stored.         *)
InsertHistorical(n) ==
    /\ n \notin stored
    /\ n.deps \subseteq stored
    /\ stored' = stored \cup {n}
    /\ UNCHANGED current

(* Store.invalidate called by itself: a rejected interpretation's         *)
(* assertion, a compilation issue to reassess.                            *)
Invalidate(n) ==
    /\ n \in stored
    /\ current' = current \ Affected(n)
    /\ UNCHANGED stored

Next ==
    \/ \E n \in Candidates : Insert(n)
    \/ \E n \in Candidates : InsertHistorical(n)
    \/ \E n \in Candidates : Invalidate(n)

Spec == Init /\ [][Next]_vars

-----------------------------------------------------------------------------
TypeOK ==
    /\ stored \subseteq Candidates
    /\ current \subseteq stored

(* Everything store.py relies on between two transactions, and the        *)
(* induction hypothesis of the proofs: rows are grounded, what is current *)
(* rests on what is current, and current versions are unique.             *)
Integrity ==
    /\ TypeOK
    /\ Grounded
    /\ CurrentClosed
    /\ UniqueCurrent

(* store.py:312 "Obsolete jobs cannot resurrect a previously invalidated  *)
(* output": history is append-only and an obsolete row stays obsolete.    *)
NoResurrection == [][HistoryStep]_vars

(* What a stored row was derived from: the least set that holds it and     *)
(* every dependency of its members.                                       *)
RestsOn(n) ==
    {d \in stored : \A S \in SUBSET stored :
                      n \in S /\ (\A m \in S : m.deps \subseteq S) => d \in S}

(* The one cause o of a loss: what is lost are the current rows that were *)
(* derived from o, o among them, and a row that comes in is a new version *)
(* of o.                                                                  *)
OneCause(o) ==
    /\ Retired = {n \in current : o \in RestsOn(n)}
    /\ \A f \in Fresh : f.kind = o.kind /\ f.logical = o.logical

(* "Unaffected accepted results remain available" (tech_spec_v1.md:350):  *)
(* whatever stops being current in a step was derived from one row that   *)
(* was current until then, and so was nothing that stays.  Store.invalidate *)
(* goes from a row up to its children, through obsolete rows too, and may *)
(* start at an obsolete row; seen from the rows that are lost, going down *)
(* to their sources, there is one cause, and it was current.              *)
LossHasOneCause ==
    [][Retired # {} => \E o \in Retired : OneCause(o)]_vars
==============================================================================
