-------------------------------- MODULE Nodes --------------------------------
(***************************************************************************)
(* The tables `nodes` and `dependencies` of store.py, shared by every      *)
(* module that records something in the dataset.                           *)
(*                                                                         *)
(* The identity of a node is the fingerprint of its kind, its logical      *)
(* name, its data and the sorted set of its dependencies, so a node IS     *)
(* that content: a record with the fields kind, logical, data and deps     *)
(* (a set of nodes).  Two insertions of equal content are one row, and     *)
(* content never changes once it is stored.  What changes is the column    *)
(* `current`.  The fingerprint is taken to be injective.                   *)
(***************************************************************************)
EXTENDS Naturals, FiniteSets

VARIABLES stored,   \* the rows of `nodes`, obsolete ones included
          current   \* the rows whose column `current` is true

(* Store.current: the current versions of a logical name.  Its caller     *)
(* raises RuntimeError when there are two.                                *)
CurrentVersions(kind, logical) ==
    {n \in current : n.kind = kind /\ n.logical = logical}

(* Store.require_current. *)
RequireCurrent(ids) == ids \subseteq current

(* The children of a set of nodes: one step of the recursive query.       *)
Children(S) == {n \in stored : n.deps \cap S # {}}

Closed(S) == Children(S) \subseteq S

(* Faulty variant: only the immediate children. *)
NeighboursOnly(x) == {x} \cup Children({x})

(* The recursive query of Store.invalidate: the least set that holds x    *)
(* and every child of its members, reached through obsolete rows as well  *)
(* as current ones.                                                       *)
Affected(x) ==
    {n \in stored : \A S \in SUBSET stored : x \in S /\ Closed(S) => n \in S}

(* An insertion that is to become current: every dependency is current,   *)
(* and content that is already stored is still current.  Otherwise the    *)
(* insertion raises StaleInput and its transaction is rolled back.        *)
Admissible(n) ==
    /\ RequireCurrent(n.deps)
    /\ n \in stored => n \in current

(* The column `current` is a set of stored rows, and no dependency row    *)
(* dangles (Store.verify_integrity asks for the latter).                  *)
Grounded ==
    /\ current \subseteq stored
    /\ \A n \in stored : n.deps \subseteq stored

(* Whatever a current node was derived from is current: the closure of a  *)
(* change was recomputed, not only its immediate neighbours.              *)
CurrentClosed == \A n \in current : n.deps \subseteq current

(* Store.current never meets two current versions of one logical name.    *)
UniqueCurrent ==
    \A m, n \in current : m.kind = n.kind /\ m.logical = n.logical => m = n

(* What a step does to history: rows are never deleted and an obsolete    *)
(* row never becomes current again.                                       *)
HistoryStep ==
    /\ stored \subseteq stored'
    /\ (stored \ current) \cap current' = {}

(* The nodes a step made obsolete, the nodes it brought in, and the       *)
(* versions the newcomers replace.                                        *)
Retired == current \ current'
Fresh == current' \ stored
Replaced ==
    {o \in current : \E n \in Fresh : n.kind = o.kind /\ n.logical = o.logical}
==============================================================================
