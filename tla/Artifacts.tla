----------------------------- MODULE Artifacts -----------------------------
(***************************************************************************)
(* The dataset on disk (store.py): the database, the directory of immutable *)
(* artifacts beside it, the copies made of both by backup and restore, and *)
(* the one-time migration that removes a retired venue (migration.py).     *)
(*                                                                         *)
(* The process that opens a dataset holds its lock, so one command runs at *)
(* a time; it may be killed between any two steps.  A transaction is one   *)
(* step, and what a killed command had only staged is never looked at      *)
(* again.  Power loss, which can undo what the file system had not yet     *)
(* synchronized, is not modelled.                                          *)
(***************************************************************************)
EXTENDS Naturals, FiniteSets

CONSTANTS Rows,      \* nodes, jobs, events and cached comparison rows
          Kind,      \* row -> "suggestions", "interpretation" or another "node",
                     \* "match" or another "job", "event", "cached"
          Retired,   \* rows that name the retired venue themselves
          Uses,      \* row -> nodes, jobs and events it depends on or mentions
          Semantics, \* event -> its semantic_id, as a set of at most one node
          Topic,     \* row -> the match or observation it is about, or None
          Recorded,  \* cached rows under the signature their group records
          Producers, \* explanation chunk -> event semantics with that text
          Evidence,  \* row -> artifacts it names
          Later,     \* rows that captures add to a migrated dataset
          Copies,    \* destinations of backups and restores
          None,
          MaxKills   \* bound on the commands killed

(* Every artifact that some stored row names. *)
Referenced(rows) == UNION {Evidence[r] : r \in rows}

Legacy == 3
Current == 4

Files == Referenced(Rows)

Datasets == [version : {Legacy, Current}, rows : SUBSET Rows,
             cleanup : SUBSET Files, files : SUBSET Files]

Kinds == {"node", "suggestions", "interpretation", "job", "match", "event", "cached"}

(* Rows mention nodes, jobs and events; nothing looks for the identity of  *)
(* a cached row.                                                           *)
ASSUME ArtifactsAssumption ==
    /\ IsFiniteSet(Rows)
    /\ Kind \in [Rows -> Kinds]
    /\ \A r \in Rows : \A u \in Uses[r] : u \in Rows /\ Kind[u] # "cached"
    /\ Later \subseteq Rows
    /\ None \notin Datasets
    /\ MaxKills \in Nat

VARIABLES live,    \* the dataset in use: version, rows, clean-up list, files
          copies,  \* what was published under each destination
          command, \* the running command: its step, its arguments, what follows
          kills

vars == <<live, copies, command, kills>>

At(step) == [step |-> step, item |-> None, to |-> None, next |-> "idle"]
Idle == At("idle")

(* verify_integrity: no evidence is missing, and the semantics of every    *)
(* event is stored.  Its other checks are about dependencies, heads and    *)
(* snapshots, which purge_us deletes together with the nodes they name.    *)
Whole(dataset) ==
    /\ Referenced(dataset.rows) \subseteq dataset.files
    /\ \A r \in dataset.rows : Semantics[r] \subseteq dataset.rows

Nodes(rows) == {r \in rows : Kind[r] \in {"node", "suggestions", "interpretation"}}
JobRows(rows) == {r \in rows : Kind[r] \in {"job", "match"}}

(* retired_chunks: a chunk is recomputed from event semantics; one that a  *)
(* retained event shares is kept.                                          *)
OnlyRetired(r, rows) ==
    Producers[r] \cap rows # {} /\ Producers[r] \cap rows \subseteq Retired

RetiredChunks(rows) == {r \in rows : OnlyRetired(r, rows)}

(* One pass of purge_us over the nodes and jobs: what uses a removed row,  *)
(* and, of a match whose suggestions are affected, all of them and the     *)
(* jobs that made them.                                                    *)
Pass(rows, removed) ==
    LET using == {r \in Nodes(rows) \cup JobRows(rows) : Uses[r] \cap removed # {}}
        matches == {Topic[s] : s \in {r \in removed \cup using : Kind[r] = "suggestions"}}
    IN  removed \cup using
          \cup {r \in rows : Kind[r] \in {"suggestions", "match"} /\ Topic[r] \in matches}

(* Faulty variant: a single pass. *)
OnePass(rows, removed) == Pass(rows, removed)

(* Passes are made until one removes nothing more. *)
Consumers(rows, removed) ==
    LET grown[gone \in SUBSET rows] ==
            LET more == Pass(rows, gone) IN IF more = gone THEN gone ELSE grown[more]
    IN  grown[removed]

(* An interpretation of r's observation is among these rows. *)
LosesInterpretation(r, removed) ==
    \E i \in removed : Kind[i] = "interpretation" /\ Topic[i] = Topic[r]

(* Cached comparisons go when they mention a removed row; when one of the  *)
(* interpretations of their group goes, so do those under the signature    *)
(* the group records.  Those left under its earlier signatures stay.       *)
StaleCache(rows, removed) ==
    {r \in rows : /\ Kind[r] = "cached"
                  /\ \/ Uses[r] \cap removed # {}
                     \/ r \in Recorded /\ LosesInterpretation(r, removed)}

(* purge_us.  Events go only when they are the retired venue's own, also   *)
(* where a node that an event names goes.                                  *)
Purged(rows) ==
    LET removed == Consumers(rows, (rows \cap Retired) \cup RetiredChunks(rows))
    IN  removed \cup StaleCache(rows, removed)

(* What a row names, in whatever column.  An explanation chunk does not    *)
(* name the semantics whose text it explains.                              *)
Names(r) == Uses[r] \cup Semantics[r]

(* A dataset of the older schema: it holds what its rows refer to. *)
Init ==
    /\ live \in [version : {Legacy}, rows : SUBSET (Rows \ Later), cleanup : {{}},
                 files : {Referenced(Rows \ Later)}]
    /\ \A r \in live.rows : /\ Names(r) \subseteq live.rows
                            /\ Producers[r] \cap live.rows = {} => Producers[r] = {}
    /\ copies = [c \in Copies |-> None]
    /\ command = Idle
    /\ kills = 0

--------------------------------------------------------------------------
(* Faulty variant: what an earlier clean-up left undone is not resumed. *)
OpenUncleaned ==
    /\ command = Idle
    /\ live.version = Current
    /\ command' = At("open")
    /\ UNCHANGED <<live, copies, kills>>

(* Opening a dataset.  An older one is refused; a new one first finishes   *)
(* the clean-up that a migration left.                                     *)
Open ==
    /\ command = Idle
    /\ live.version = Current
    /\ command' = [At("clean") EXCEPT !.next = "open"]
    /\ UNCHANGED <<live, copies, kills>>

(* cleanup_artifacts takes the listed artifacts one by one: the file goes  *)
(* first, unless a row names it, ...                                       *)
Unlink(a) ==
    /\ command.step = "clean"
    /\ a \in live.cleanup
    /\ live' = [live EXCEPT !.files = IF a \in Referenced(live.rows) THEN @ ELSE @ \ {a}]
    /\ command' = [command EXCEPT !.step = "forget", !.item = a]
    /\ UNCHANGED <<copies, kills>>

(* ... then its entry, in a transaction of its own. *)
Forget ==
    /\ command.step = "forget"
    /\ live' = [live EXCEPT !.cleanup = @ \ {command.item}]
    /\ command' = [command EXCEPT !.step = "clean", !.item = None]
    /\ UNCHANGED <<copies, kills>>

Cleaned ==
    /\ command.step = "clean"
    /\ live.cleanup = {}
    /\ command' = At(command.next)
    /\ UNCHANGED <<live, copies, kills>>

Close ==
    /\ command.step = "open"
    /\ command' = Idle
    /\ UNCHANGED <<live, copies, kills>>

(* put_artifact: each artifact is staged and renamed to its digest; one    *)
(* that is there already is kept.                                          *)
StartCapture(r) ==
    /\ command.step = "open"
    /\ r \in Later \ live.rows
    /\ Names(r) \subseteq live.rows \cup {r}
    /\ command' = [At("put") EXCEPT !.item = r]
    /\ UNCHANGED <<live, copies, kills>>

Put(a) ==
    /\ command.step = "put"
    /\ a \in Evidence[command.item] \ live.files
    /\ live' = [live EXCEPT !.files = @ \cup {a}]
    /\ UNCHANGED <<copies, command, kills>>

(* Faulty variant: the row is committed before its artifacts are stored. *)
CommitAhead ==
    /\ command.step = "put"
    /\ live' = [live EXCEPT !.rows = @ \cup {command.item}]
    /\ command' = At("open")
    /\ UNCHANGED <<copies, kills>>

(* The row that names them is committed only then. *)
CommitRow ==
    /\ command.step = "put"
    /\ Evidence[command.item] \subseteq live.files
    /\ live' = [live EXCEPT !.rows = @ \cup {command.item}]
    /\ command' = At("open")
    /\ UNCHANGED <<copies, kills>>

--------------------------------------------------------------------------
(* A verified dataset is copied to a staging directory beside a            *)
(* destination that must not exist.                                        *)
Copy(source, c, next) ==
    /\ copies[c] = None
    /\ Whole(source)
    /\ command' = [At("copy") EXCEPT !.item = source, !.to = c, !.next = next]
    /\ UNCHANGED <<live, copies, kills>>

Backup(c) ==
    /\ command.step = "open"
    /\ Copy(live, c, "open")

Restore(s, c) ==
    /\ command = Idle
    /\ copies[s] # None
    /\ Copy(copies[s], c, "idle")

(* Faulty variant: the backup is left for later. *)
MigrateUnsaved(c) ==
    /\ command = Idle
    /\ live.version = Legacy
    /\ Whole(live)
    /\ copies[c] = None
    /\ command' = At("purge")
    /\ UNCHANGED <<live, copies, kills>>

(* A dataset that was migrated already is only cleaned up. *)
MigrateAgain ==
    /\ command = Idle
    /\ live.version = Current
    /\ command' = At("clean")
    /\ UNCHANGED <<live, copies, kills>>

(* Store.migrate first makes a backup ... *)
Migrate(c) ==
    /\ command = Idle
    /\ live.version = Legacy
    /\ Copy(live, c, "purge")

(* The staged copy is opened, verified once more and renamed. *)
Publish ==
    /\ command.step = "copy"
    /\ Whole(command.item)
    /\ copies' = [copies EXCEPT ![command.to] = command.item]
    /\ command' = At(command.next)
    /\ UNCHANGED <<live, kills>>

(* What the transaction of the migration makes of the dataset: it removes  *)
(* the rows, lists the artifacts that no row names any more, and raises    *)
(* the version.                                                            *)
Migrated ==
    LET kept == live.rows \ Purged(live.rows)
    IN  [live EXCEPT !.rows = kept, !.version = Current,
                     !.cleanup = @ \cup (Referenced(live.rows) \ Referenced(kept))]

(* Faulty variant: the version is not raised. *)
PurgeUnversioned ==
    /\ command.step = "purge"
    /\ live' = [Migrated EXCEPT !.version = live.version]
    /\ command' = At("clean")
    /\ UNCHANGED <<copies, kills>>

(* ... then purges in one transaction, which commits a dataset that is     *)
(* whole, and cleans up.                                                   *)
Purge ==
    /\ command.step = "purge"
    /\ \E after \in {Migrated} : Whole(after) /\ live' = after
    /\ command' = At("clean")
    /\ UNCHANGED <<copies, kills>>

(* An event that stays would name semantics that go: the transaction is    *)
(* rolled back, and the migration ends with the dataset as it was.         *)
PurgeRefused ==
    /\ command.step = "purge"
    /\ \E after \in {Migrated} : ~Whole(after)
    /\ command' = Idle
    /\ UNCHANGED <<live, copies, kills>>

(* The process of the running command is killed. *)
Kill ==
    /\ command # Idle
    /\ kills < MaxKills
    /\ kills' = kills + 1
    /\ command' = Idle
    /\ UNCHANGED <<live, copies>>

Next ==
    \/ Open
    \/ \E a \in live.cleanup : Unlink(a)
    \/ Forget
    \/ Cleaned
    \/ Close
    \/ \E r \in Later : StartCapture(r)
    \/ \E a \in Referenced(Later) : Put(a)
    \/ CommitRow
    \/ \E c \in Copies : Backup(c) \/ Migrate(c)
    \/ \E s, c \in Copies : Restore(s, c)
    \/ MigrateAgain
    \/ Publish
    \/ Purge
    \/ PurgeRefused
    \/ Kill

Spec == Init /\ [][Next]_vars

(* A command that runs goes on, and the operator starts the application    *)
(* again after it was stopped.                                             *)
FairSpec ==
    /\ Spec
    /\ WF_vars(Open)
    /\ WF_vars(\E a \in live.cleanup : Unlink(a))
    /\ WF_vars(Forget)
    /\ WF_vars(Cleaned)
    /\ WF_vars(Publish)
    /\ WF_vars(Purge)

--------------------------------------------------------------------------
(* Every variable keeps its type; a list of artifacts to clean up exists   *)
(* only in a migrated dataset, and only a migrated dataset is opened.      *)
TypeOK ==
    /\ live \in Datasets
    /\ live.cleanup # {} => live.version = Current
    /\ \A c \in Copies : copies[c] = None \/ copies[c] \in Datasets
    /\ command.step \in {"idle", "clean", "forget", "open", "put", "copy", "purge"}
    /\ command.step \in {"clean", "forget", "open", "put"} => live.version = Current
    /\ kills \in 0..MaxKills

(* No stored row ever names an artifact that is not there, and no event    *)
(* semantics that are not: not in the dataset in use, wherever a capture,  *)
(* a clean-up or a migration was killed, whatever the migration removed,   *)
(* and not in a published backup or restored dataset                       *)
(* (README.md: "Backups verify all database-referenced artifacts").        *)
EvidencePresent ==
    /\ Whole(live)
    /\ \A c \in Copies : copies[c] # None => Whole(copies[c])

(* A row is deleted only when a published copy of the dataset as it was    *)
(* has it with its evidence: the migration "verifies a complete backup     *)
(* before permanently removing" anything (README.md).                      *)
NothingLostUnsaved ==
    [][\A r \in live.rows \ live'.rows :
         \E c \in Copies : /\ copies[c] # None
                           /\ r \in copies[c].rows
                           /\ Evidence[r] \subseteq copies[c].files]_vars

(* A reason to remove a row: it is the retired venue's own or computed     *)
(* only from it; it uses a row of the set, and is not an event; it belongs *)
(* to a match that loses suggestions; or it is what its group shows and    *)
(* the group loses an interpretation.                                      *)
Reason(r, rows, gone) ==
    \/ r \in Retired
    \/ OnlyRetired(r, rows)
    \/ Kind[r] # "event" /\ Uses[r] \cap gone # {}
    \/ /\ Kind[r] \in {"suggestions", "match"}
       /\ \E s \in gone : Kind[s] = "suggestions" /\ Topic[s] = Topic[r]
    \/ Kind[r] = "cached" /\ r \in Recorded /\ LosesInterpretation(r, gone)

(* All of these rows have a reason to go, and no others: no reason is left *)
(* to remove a row that stays, and reasons do not go round in a circle.    *)
Exact(rows, gone) ==
    /\ \A r \in rows \ gone : ~Reason(r, rows, gone)
    /\ \A some \in (SUBSET gone) \ {{}} : \E r \in some : Reason(r, rows, gone \ some)

(* The migration removes the retired venue and whatever rests on it, and   *)
(* nothing else: no reason is left to remove a row that stays, and the     *)
(* reasons for those removed do not go round in a circle                   *)
(* (tech_spec_v1.md: "Purge all venue history and dependent results ...    *)
(* preserve unrelated records and shared evidence").  What stays may still *)
(* be an event that names a removed contract, or a cached comparison under *)
(* an earlier signature of a group, made when the removed interpretation   *)
(* was not there or not compared with it.                                  *)
PurgeIsExact ==
    [][live'.version # live.version => Exact(live.rows, live.rows \ live'.rows)]_vars

(* An artifact listed for removal is removed in the end, or some row names *)
(* it, however often the clean-up is killed (README.md: "Interrupted       *)
(* artifact cleanup resumes on the next startup").                         *)
CleanupEnds ==
    \A a \in Files :
        a \in live.cleanup ~> a \notin live.files \ Referenced(live.rows)
=============================================================================
