--------------------------- MODULE ArtifactsProofs ---------------------------
(* The dataset on disk for every table of rows, every number of copies and *)
(* any number of killed commands.                                          *)
EXTENDS Artifacts, FiniteSetTheorems, WellFoundedInduction, TLAPS

(* The dataset in use and what was published from it; a clean-up list      *)
(* exists only in a migrated dataset.                                      *)
DatasetsFit ==
    /\ live \in Datasets
    /\ live.cleanup # {} => live.version = Current
    /\ copies \in [Copies -> Datasets \cup {None}]
    /\ kills \in 0..MaxKills

Steps == {"idle", "clean", "forget", "open", "put", "copy", "purge"}

(* A command that works on the dataset has it migrated, a capture is under *)
(* way for a new row, and what is copied is a dataset.                     *)
CommandFits ==
    /\ command = [step |-> command.step, item |-> command.item,
                   to |-> command.to, next |-> command.next]
    /\ command.step \in Steps /\ command.next \in {"idle", "open", "purge"}
    /\ command.step \in {"clean", "forget", "open", "put"} => live.version = Current
    /\ command.step \in {"clean", "forget"} => command.next # "purge"
    /\ command.step = "put" =>
         command.item \in Later /\ Names(command.item) \subseteq live.rows \cup {command.item}
    /\ command.step = "copy" =>
         /\ command.item \in Datasets /\ command.to \in Copies
         /\ command.next = "open" => live.version = Current

(* From the moment the copy is staged until the rows are purged, the       *)
(* dataset in use is the one that was copied.                              *)
Saved ==
    /\ command.step = "copy" /\ command.next = "purge" => command.item = live
    /\ command.step = "purge" => \E c \in Copies : copies[c] = live

Inv == DatasetsFit /\ CommandFits /\ Saved /\ EvidencePresent

-----------------------------------------------------------------------------
(* Fewer rows name fewer artifacts. *)
LEMMA ReferencedMonotone ==
    ASSUME NEW A, NEW B, A \subseteq B
    PROVE  Referenced(A) \subseteq Referenced(B)
BY DEF Referenced

(* A new dataset with some of its fields replaced. *)
LEMMA DatasetFields ==
    ASSUME NEW d \in Datasets
    PROVE  /\ d.rows \subseteq Rows /\ d.cleanup \subseteq Files /\ d.files \subseteq Files
           /\ d.version \in {Legacy, Current}
           /\ \A X \in SUBSET Files : [d EXCEPT !.files = X] \in Datasets
           /\ \A X \in SUBSET Files : [d EXCEPT !.cleanup = X] \in Datasets
           /\ \A X \in SUBSET Rows : [d EXCEPT !.rows = X] \in Datasets
BY DEF Datasets

(* A step that leaves the dataset and its copies alone, and does not kill. *)
LEMMA SameDatasets ==
    ASSUME Inv, UNCHANGED <<live, copies>>, kills' \in 0..MaxKills
    PROVE  DatasetsFit' /\ EvidencePresent'
BY DEF Inv, DatasetsFit, EvidencePresent, Whole, Referenced

(* A command that neither copies nor purges asks nothing of the copies.    *)
LEMMA AtStep ==
    ASSUME NEW step
    PROVE  /\ At(step).step = step /\ At(step).next = "idle"
           /\ At(step) = [step |-> At(step).step, item |-> At(step).item,
                          to |-> At(step).to, next |-> At(step).next]
BY DEF At

-----------------------------------------------------------------------------
(* Starting and ending commands. *)
LEMMA CommandInv ==
    ASSUME Inv, \/ Open \/ Cleaned \/ Close \/ MigrateAgain \/ Kill
                \/ PurgeRefused \/ \E r \in Later : StartCapture(r)
    PROVE  Inv'
<1>0. DatasetsFit /\ CommandFits
    BY DEF Inv
<1>1. UNCHANGED <<live, copies>> /\ kills' \in 0..MaxKills
    BY <1>0, ArtifactsAssumption
       DEF Open, Cleaned, Close, MigrateAgain, Kill, PurgeRefused, StartCapture, DatasetsFit
<1>2. DatasetsFit' /\ EvidencePresent'
    BY <1>1, SameDatasets
<1>3. CommandFits' /\ Saved'
  <2>1. CASE Open
    <3>1. live.version = Current /\ command' = [At("clean") EXCEPT !.next = "open"]
        BY <2>1 DEF Open
    <3> QED
        BY <1>1, <3>1 DEF At, CommandFits, Saved, Steps
  <2>2. CASE Cleaned
    <3>1. /\ live.version = Current /\ command' = At(command.next)
          /\ command.next \in {"idle", "open"}
        BY <1>0, <2>2 DEF Cleaned, CommandFits
    <3> QED
        BY <1>1, <3>1, AtStep DEF CommandFits, Saved, Steps
  <2>3. CASE Close \/ Kill \/ PurgeRefused
    <3>1. command' = At("idle")
        BY <2>3 DEF Close, Kill, PurgeRefused, Idle
    <3> QED
        BY <1>1, <3>1, AtStep DEF CommandFits, Saved, Steps
  <2>4. CASE MigrateAgain
    <3>1. command' = At("clean") /\ live.version = Current
        BY <2>4 DEF MigrateAgain
    <3> QED
        BY <1>1, <3>1, AtStep DEF CommandFits, Saved, Steps
  <2>5. CASE \E r \in Later : StartCapture(r)
    <3>1. PICK r \in Later : StartCapture(r)
        BY <2>5
    <3>2. /\ live.version = Current /\ command' = [At("put") EXCEPT !.item = r]
          /\ Names(r) \subseteq live.rows \cup {r}
        BY <1>0, <3>1 DEF StartCapture, CommandFits
    <3> QED
        BY <1>1, <3>2 DEF At, CommandFits, Saved, Steps
  <2> QED
      BY <2>1, <2>2, <2>3, <2>4, <2>5
<1> QED
    BY <1>2, <1>3 DEF Inv

(* The clean-up unlinks no file a row names. *)
LEMMA CleanupInv ==
    ASSUME Inv, Forget \/ \E a \in live.cleanup : Unlink(a)
    PROVE  Inv'
<1>0. DatasetsFit /\ CommandFits /\ Saved /\ EvidencePresent /\ live \in Datasets
    BY DEF Inv, DatasetsFit
<1>1. CASE Forget
  <2>1. /\ live' = [live EXCEPT !.cleanup = live.cleanup \ {command.item}]
        /\ command' = [command EXCEPT !.step = "clean", !.item = None]
        /\ UNCHANGED <<copies, kills>> /\ command.step = "forget"
      BY <1>1 DEF Forget
  <2>2. /\ live' \in Datasets /\ live'.version = live.version
        /\ live'.rows = live.rows /\ live'.files = live.files
        /\ live'.cleanup \subseteq live.cleanup
      BY <1>0, <2>1 DEF Datasets
  <2>3. DatasetsFit'
      BY <1>0, <2>1, <2>2 DEF DatasetsFit
  <2>4. EvidencePresent'
      BY <1>0, <2>1, <2>2 DEF EvidencePresent, Whole, Referenced
  <2>5. CommandFits' /\ Saved'
      BY <1>0, <2>1, <2>2 DEF CommandFits, Saved, Steps
  <2> QED
      BY <2>3, <2>4, <2>5 DEF Inv
<1>2. CASE \E a \in live.cleanup : Unlink(a)
  <2>0. PICK a \in live.cleanup : Unlink(a)
      BY <1>2
  <2> DEFINE files == IF a \in Referenced(live.rows) THEN live.files ELSE live.files \ {a}
  <2>1. /\ live' = [live EXCEPT !.files = files]
        /\ command' = [command EXCEPT !.step = "forget", !.item = a]
        /\ UNCHANGED <<copies, kills>> /\ command.step = "clean"
      BY <2>0 DEF Unlink
  <2>2. /\ files \subseteq live.files
        /\ Referenced(live.rows) \subseteq live.files => Referenced(live.rows) \subseteq files
      OBVIOUS
  <2> HIDE DEF files
  <2>3. /\ live' \in Datasets /\ live'.version = live.version
        /\ live'.rows = live.rows /\ live'.files = files /\ live'.cleanup = live.cleanup
      BY <1>0, <2>1, <2>2 DEF Datasets
  <2>4. DatasetsFit'
      BY <1>0, <2>1, <2>3 DEF DatasetsFit
  <2>5. EvidencePresent'
    <3>1. Referenced(live.rows) \subseteq files
        BY <1>0, <2>2 DEF EvidencePresent, Whole
    <3> QED
        BY <1>0, <2>1, <2>3, <3>1 DEF EvidencePresent, Whole, Referenced
  <2>6. CommandFits' /\ Saved'
      BY <1>0, <2>1, <2>3 DEF CommandFits, Saved, Steps
  <2> QED
      BY <2>4, <2>5, <2>6 DEF Inv
<1> QED
    BY <1>1, <1>2

(* A capture stores the artifacts first and the row that names them last.  *)
LEMMA CaptureInv ==
    ASSUME Inv, CommitRow \/ \E a \in Referenced(Later) : Put(a)
    PROVE  Inv'
<1>0. /\ DatasetsFit /\ CommandFits /\ Saved /\ EvidencePresent /\ live \in Datasets
      /\ Later \subseteq Rows
    BY ArtifactsAssumption DEF Inv, DatasetsFit
<1>1. CASE CommitRow
  <2>1. /\ live' = [live EXCEPT !.rows = live.rows \cup {command.item}]
        /\ command' = At("open") /\ command.step = "put"
        /\ UNCHANGED <<copies, kills>> /\ Evidence[command.item] \subseteq live.files
      BY <1>1 DEF CommitRow
  <2>2. /\ command.item \in Rows /\ live.version = Current
        /\ Semantics[command.item] \subseteq live.rows \cup {command.item}
      BY <1>0, <2>1 DEF CommandFits, Names
  <2>3. /\ live' \in Datasets /\ live'.version = live.version
        /\ live'.rows = live.rows \cup {command.item}
        /\ live'.files = live.files /\ live'.cleanup = live.cleanup
      BY <1>0, <2>1, <2>2 DEF Datasets
  <2>4. DatasetsFit'
      BY <1>0, <2>1, <2>3 DEF DatasetsFit
  <2>5. EvidencePresent'
      BY <1>0, <2>1, <2>2, <2>3 DEF EvidencePresent, Whole, Referenced
  <2>6. CommandFits' /\ Saved'
      BY <2>1, <2>2, <2>3, AtStep DEF CommandFits, Saved, Steps
  <2> QED
      BY <2>4, <2>5, <2>6 DEF Inv
<1>2. CASE \E a \in Referenced(Later) : Put(a)
  <2>0. PICK a \in Referenced(Later) : Put(a)
      BY <1>2
  <2>1. /\ live' = [live EXCEPT !.files = live.files \cup {a}]
        /\ UNCHANGED <<copies, command, kills>> /\ command.step = "put"
      BY <2>0 DEF Put
  <2>2. a \in Files
      BY <1>0, ReferencedMonotone DEF Files
  <2>3. /\ live' \in Datasets /\ live'.version = live.version
        /\ live'.rows = live.rows /\ live.files \subseteq live'.files
        /\ live'.cleanup = live.cleanup
      BY <1>0, <2>1, <2>2 DEF Datasets
  <2>4. DatasetsFit'
      BY <1>0, <2>1, <2>3 DEF DatasetsFit
  <2>5. EvidencePresent'
      BY <1>0, <2>1, <2>3 DEF EvidencePresent, Whole, Referenced
  <2>6. CommandFits' /\ Saved'
      BY <1>0, <2>1, <2>3 DEF CommandFits, Saved
  <2> QED
      BY <2>4, <2>5, <2>6 DEF Inv
<1> QED
    BY <1>1, <1>2

(* Backup, restore and the backup a migration begins with. *)
LEMMA CopyInv ==
    ASSUME Inv, NEW c \in Copies,
           Backup(c) \/ Migrate(c) \/ \E s \in Copies : Restore(s, c)
    PROVE  Inv'
<1>0. DatasetsFit /\ CommandFits /\ Saved /\ live \in Datasets
    BY DEF Inv, DatasetsFit
<1>1. ASSUME NEW source \in Datasets, NEW next \in {"idle", "open", "purge"},
             Copy(source, c, next),
             next = "open" => live.version = Current,
             next = "purge" => source = live
      PROVE  Inv'
  <2>1. /\ command' = [At("copy") EXCEPT !.item = source, !.to = c, !.next = next]
        /\ UNCHANGED <<live, copies, kills>>
      BY <1>1 DEF Copy
  <2>2. /\ command' = [step |-> command'.step, item |-> command'.item,
                       to |-> command'.to, next |-> command'.next]
        /\ command'.step = "copy" /\ command'.item = source /\ command'.to = c
        /\ command'.next = next
      BY <2>1 DEF At
  <2>3. DatasetsFit' /\ EvidencePresent'
      BY <1>0, <2>1, SameDatasets DEF DatasetsFit
  <2>4. CommandFits' /\ Saved'
      BY <1>1, <2>1, <2>2 DEF CommandFits, Saved, Steps
  <2> QED
      BY <2>3, <2>4 DEF Inv
<1>2. CASE Backup(c)
    BY <1>0, <1>1, <1>2 DEF Backup, CommandFits
<1>3. CASE Migrate(c)
    BY <1>0, <1>1, <1>3 DEF Migrate
<1>4. CASE \E s \in Copies : Restore(s, c)
  <2>1. PICK s \in Copies : Restore(s, c)
      BY <1>4
  <2>2. copies[s] \in Datasets
      BY <1>0, <2>1 DEF Restore, DatasetsFit
  <2> QED
      BY <1>1, <2>1, <2>2 DEF Restore
<1> QED
    BY <1>2, <1>3, <1>4

(* What is renamed to its destination was whole once more. *)
LEMMA PublishInv ==
    ASSUME Inv, Publish
    PROVE  Inv'
<1>0. DatasetsFit /\ CommandFits /\ Saved /\ EvidencePresent
    BY DEF Inv
<1>1. /\ command.step = "copy" /\ Whole(command.item)
      /\ copies' = [copies EXCEPT ![command.to] = command.item]
      /\ command' = At(command.next) /\ UNCHANGED <<live, kills>>
    BY DEF Publish
<1>2. command.item \in Datasets /\ command.to \in Copies
      /\ command.next \in {"idle", "open", "purge"}
    BY <1>0, <1>1 DEF CommandFits
<1>3. copies' \in [Copies -> Datasets \cup {None}] /\ copies'[command.to] = command.item
      /\ \A c \in Copies \ {command.to} : copies'[c] = copies[c]
    BY <1>0, <1>1, <1>2 DEF DatasetsFit
<1>4. DatasetsFit'
    BY <1>0, <1>1, <1>3 DEF DatasetsFit
<1>5. EvidencePresent'
    BY <1>0, <1>1, <1>3 DEF EvidencePresent, Whole, Referenced
<1>6. CommandFits'
    BY <1>0, <1>1, <1>2, AtStep DEF CommandFits, Steps
<1>7. Saved'
    BY <1>0, <1>1, <1>2, <1>3, AtStep DEF Saved
<1> QED
    BY <1>4, <1>5, <1>6, <1>7 DEF Inv

(* What the purge leaves is checked before it commits. *)
LEMMA PurgeInv ==
    ASSUME Inv, Purge
    PROVE  Inv'
<1>0. DatasetsFit /\ CommandFits /\ Saved /\ EvidencePresent /\ live \in Datasets
    BY DEF Inv, DatasetsFit
<1> DEFINE kept == live.rows \ Purged(live.rows)
           list == live.cleanup \cup (Referenced(live.rows) \ Referenced(kept))
<1>1. /\ live' = [live EXCEPT !.rows = kept, !.version = Current, !.cleanup = list]
      /\ Whole(live') /\ command' = At("clean") /\ UNCHANGED <<copies, kills>>
    BY DEF Purge, Migrated
<1>2. kept \subseteq live.rows
    OBVIOUS
<1>3. list \subseteq Files
    BY <1>0, DatasetFields, ReferencedMonotone DEF Files
<1> HIDE DEF kept, list
<1>4. live' \in Datasets /\ live'.version = Current
    BY <1>0, <1>1, <1>2, <1>3 DEF Datasets
<1>5. DatasetsFit'
    BY <1>0, <1>1, <1>4 DEF DatasetsFit
<1>6. EvidencePresent'
    BY <1>0, <1>1 DEF EvidencePresent, Whole, Referenced
<1>7. CommandFits' /\ Saved'
    BY <1>1, <1>4, AtStep DEF CommandFits, Saved, Steps
<1> QED
    BY <1>5, <1>6, <1>7 DEF Inv

-----------------------------------------------------------------------------
(* An older dataset that holds what its rows refer to. *)
LEMMA InitInv == Init => Inv
<1> SUFFICES ASSUME Init PROVE Inv
    OBVIOUS
<1>1. /\ live \in [version : {Legacy}, rows : SUBSET (Rows \ Later), cleanup : {{}},
                   files : {Referenced(Rows \ Later)}]
      /\ copies = [c \in Copies |-> None] /\ command = At("idle") /\ kills = 0
    BY DEF Init, Idle
<1>2. Referenced(Rows \ Later) \subseteq Files /\ Referenced(live.rows) \subseteq live.files
    BY <1>1 DEF Files, Referenced
<1>3. DatasetsFit
  <2>1. MaxKills \in Nat /\ copies \in [Copies -> {None}]
      BY <1>1, ArtifactsAssumption
  <2>2. live \in Datasets /\ live.cleanup = {}
      BY <1>1, <1>2 DEF Datasets
  <2> QED
      BY <1>1, <2>1, <2>2 DEF DatasetsFit
<1>4. EvidencePresent
  <2>1. \A r \in live.rows : Semantics[r] \subseteq live.rows
      BY DEF Init, Names
  <2> QED
      BY <1>1, <1>2, <2>1 DEF EvidencePresent, Whole
<1>5. CommandFits /\ Saved
    BY <1>1, AtStep DEF CommandFits, Saved, Steps
<1> QED
    BY <1>3, <1>4, <1>5 DEF Inv

(* Every step of every command, and every kill, keeps the invariant.       *)
LEMMA NextInv == Inv /\ [Next]_vars => Inv'
<1> SUFFICES ASSUME Inv, [Next]_vars PROVE Inv'
    OBVIOUS
<1>1. CASE UNCHANGED vars
    BY <1>1 DEF vars, Inv, DatasetsFit, CommandFits, Saved, EvidencePresent, Whole, Referenced
<1>2. CASE Next
    BY <1>2, CommandInv, CleanupInv, CaptureInv, CopyInv, PublishInv, PurgeInv DEF Next
<1> QED
    BY <1>1, <1>2

(* The dataset, its copies and the running command fit together.           *)
THEOREM InvAlways == Spec => []Inv
BY InitInv, NextInv, PTL DEF Spec

(* Only a migrated dataset is opened or has artifacts to clean up.         *)
THEOREM TypesAlways == Spec => []TypeOK
<1>1. Inv => TypeOK
    BY DEF Inv, DatasetsFit, CommandFits, TypeOK, Steps
<1> QED
    BY InvAlways, <1>1, PTL

(* Wherever captures, clean-ups, migrations and copies are killed, no row  *)
(* names an artifact that is not there, in the dataset in use and in every *)
(* published copy (README.md: "Backups verify all database-referenced      *)
(* artifacts").                                                            *)
THEOREM EvidenceAlwaysPresent == Spec => []EvidencePresent
<1>1. Inv => EvidencePresent
    BY DEF Inv
<1> QED
    BY InvAlways, <1>1, PTL

(* One step deletes no row that is not in a published copy, with its       *)
(* evidence.                                                               *)
SavingStep ==
    \A r \in live.rows \ live'.rows :
        \E c \in Copies : /\ copies[c] # None
                          /\ r \in copies[c].rows
                          /\ Evidence[r] \subseteq copies[c].files

(* The migration removes rows only after a complete backup of the very     *)
(* dataset it removes them from was published (store.py:696).              *)
THEOREM NothingEverLostUnsaved == Spec => NothingLostUnsaved
<1>1. ASSUME Inv, [Next]_vars
      PROVE  [SavingStep]_vars
  <2>0. live \in Datasets
      BY <1>1 DEF Inv, DatasetsFit
  <2>1. CASE Purge
    <3>1. PICK c \in Copies : copies[c] = live
        BY <1>1, <2>1 DEF Purge, Inv, Saved
    <3>2. copies[c] # None /\ Whole(copies[c])
        BY <1>1, <2>0, <3>1, ArtifactsAssumption DEF Inv, EvidencePresent
    <3> QED
        BY <3>1, <3>2 DEF SavingStep, Whole, Referenced
  <2>2. CASE ~Purge
    <3>1. live.rows \subseteq live'.rows
      <4>1. \/ live' = live
            \/ \E X : live' = [live EXCEPT !.files = X]
            \/ \E X : live' = [live EXCEPT !.cleanup = X]
            \/ live' = [live EXCEPT !.rows = live.rows \cup {command.item}]
          BY <1>1, <2>2 DEF Next, vars, Open, Unlink, Forget, Cleaned, Close, StartCapture, Put,
                    CommitRow, Backup, Migrate, Restore, Copy, MigrateAgain, Publish,
                    PurgeRefused, Kill
      <4> QED
          BY <2>0, <4>1 DEF Datasets
    <3> QED
        BY <3>1 DEF SavingStep
  <2> QED
      BY <2>1, <2>2
<1>2. Spec => [][SavingStep]_vars
    BY InvAlways, <1>1, PTL DEF Spec
<1> QED
    BY <1>2 DEF NothingLostUnsaved, SavingStep

-----------------------------------------------------------------------------
(* A larger set of removed rows drags along no less; nothing removed comes *)
(* back.                                                                   *)
LEMMA PassGrows ==
    ASSUME NEW rows, NEW X \in SUBSET rows
    PROVE  X \subseteq Pass(rows, X) /\ Pass(rows, X) \subseteq rows
BY DEF Pass, Nodes, JobRows

LEMMA PassMonotone ==
    ASSUME NEW rows, NEW X, NEW Y, X \subseteq Y
    PROVE  Pass(rows, X) \subseteq Pass(rows, Y)
BY DEF Pass

(* Of a set of sets of rows, one is largest: the passes come to an end.    *)
LEMMA LargestSet ==
    ASSUME NEW rows, IsFiniteSet(rows), NEW T \in SUBSET (SUBSET rows), T # {}
    PROVE  \E X \in T : \A Y \in T : X \subseteq Y => X = Y
<1> DEFINE C == {rows \ X : X \in T}
           R == StrictSubsetOrdering(rows)
           F == FiniteSubsetsOf(rows)
<1>1. IsWellFoundedOn(R, F)
    BY FS_StrictSubsetOrderingWellFounded
<1>2. C \subseteq F /\ C # {}
  <2>1. F = SUBSET rows
      BY FS_FiniteSubsetsOfFinite DEF F
  <2> HIDE DEF F
  <2>2. C \subseteq SUBSET rows
      BY DEF C
  <2>3. C # {}
    <3>1. PICK X \in T : TRUE
        OBVIOUS
    <3>2. rows \ X \in C
        BY DEF C
    <3> QED
        BY <3>2
  <2> QED
      BY <2>1, <2>2, <2>3
<1> HIDE DEF C, R, F
<1>3. PICK c \in C : \A d \in C : <<d, c>> \notin R
    BY <1>1, <1>2, WFMin
<1>4. PICK X \in T : c = rows \ X
    BY DEF C
<1>5. ASSUME NEW Y \in T, X \subseteq Y
      PROVE  X = Y
  <2>1. rows \ Y \in C
      BY DEF C
  <2>2. <<rows \ Y, rows \ X>> \notin R
      BY <1>3, <1>4, <2>1
  <2>3. rows \ Y = rows \ X
      BY <1>5, <2>2 DEF R, StrictSubsetOrdering
  <2> QED
      BY <2>3
<1> QED
    BY <1>5

(* purge_us ends with the least set that has everything a pass adds to it. *)
LEMMA ConsumersLeast ==
    ASSUME NEW rows, IsFiniteSet(rows), NEW removed \in SUBSET rows
    PROVE  LET last == Consumers(rows, removed)
           IN  /\ removed \subseteq last /\ last \subseteq rows
               /\ Pass(rows, last) = last
               /\ \A X \in SUBSET rows :
                    removed \subseteq X /\ Pass(rows, X) = X => last \subseteq X
<1> DEFINE Grown(f) == [gone \in SUBSET rows |->
                          LET more == Pass(rows, gone) IN IF more = gone THEN gone ELSE f[more]]
           grown == CHOOSE f : f = Grown(f)
           Least(X, last) ==
             /\ X \subseteq last /\ last \subseteq rows
             /\ Pass(rows, last) = last
             /\ \A Y \in SUBSET rows : X \subseteq Y /\ Pass(rows, Y) = Y => last \subseteq Y
<1>1. Consumers(rows, removed) = grown[removed]
    BY DEF Consumers
<1>2. \E f : f = Grown(f)
  <2> DEFINE Closed(X) == {Y \in SUBSET rows : X \subseteq Y /\ Pass(rows, Y) = Y}
             f == [X \in SUBSET rows |-> {r \in rows : \A Y \in Closed(X) : r \in Y}]
  <2>1. ASSUME NEW X \in SUBSET rows
        PROVE  f[X] = IF Pass(rows, X) = X THEN X ELSE f[Pass(rows, X)]
    <3>1. Pass(rows, X) \in SUBSET rows /\ X \subseteq Pass(rows, X)
        BY PassGrows
    <3>2. CASE Pass(rows, X) = X
      <4>1. X \in Closed(X) /\ \A Y \in Closed(X) : X \subseteq Y
          BY <3>2
      <4> HIDE DEF Closed
      <4> QED
          BY <3>2, <4>1
    <3>3. CASE Pass(rows, X) # X
      <4>1. Closed(X) = Closed(Pass(rows, X))
        <5>1. \A Y \in SUBSET rows : X \subseteq Y /\ Pass(rows, Y) = Y => Pass(rows, X) \subseteq Y
            BY PassMonotone
        <5> QED
            BY <3>1, <5>1
      <4> HIDE DEF Closed
      <4> QED
          BY <3>1, <3>3, <4>1
    <3> QED
        BY <3>2, <3>3
  <2> HIDE DEF f
  <2>2. f = Grown(f)
    <3>1. f = [X \in SUBSET rows |-> f[X]]
        BY DEF f
    <3> QED
        BY <2>1, <3>1
  <2> QED
      BY <2>2
<1>3. grown = Grown(grown)
    BY <1>2
<1> HIDE DEF grown
<1>4. \A X \in SUBSET rows : grown[X] = IF Pass(rows, X) = X THEN X ELSE grown[Pass(rows, X)]
    BY <1>3
<1> HIDE DEF Grown
<1>5. \A X \in SUBSET rows : Least(X, grown[X])
  <2> DEFINE T == {X \in SUBSET rows : ~Least(X, grown[X])}
  <2> SUFFICES ASSUME T # {} PROVE FALSE
      OBVIOUS
  <2>1. T \in SUBSET (SUBSET rows)
      OBVIOUS
  <2> HIDE DEF T
  <2>2. PICK X \in T : \A Y \in T : X \subseteq Y => X = Y
      BY <2>1, LargestSet
  <2>3. X \in SUBSET rows /\ ~Least(X, grown[X])
      BY DEF T
  <2> DEFINE next == Pass(rows, X)
  <2>4. next \in SUBSET rows /\ X \subseteq next
      BY <2>3, PassGrows
  <2>5. CASE next = X
    <3>1. grown[X] = X
        BY <1>4, <2>3, <2>5
    <3> QED
        BY <2>3, <2>5, <3>1
  <2>6. CASE next # X
    <3>1. grown[X] = grown[next]
        BY <1>4, <2>3, <2>6
    <3> HIDE DEF Least
    <3>2. Least(next, grown[next])
        BY <2>2, <2>4, <2>6 DEF T
    <3>3. \A Y \in SUBSET rows : X \subseteq Y /\ Pass(rows, Y) = Y => next \subseteq Y
        BY PassMonotone
    <3> HIDE DEF next
    <3>4. Least(X, grown[next])
        BY <2>4, <3>2, <3>3 DEF Least
    <3> QED
        BY <2>3, <3>1, <3>4
  <2> QED
      BY <2>5, <2>6
<1> QED
    BY <1>1, <1>5

(* The rows purge_us removes: those that belong to the retired venue and   *)
(* what follows them, and stale comparisons.                               *)
LEMMA PurgedIsExact ==
    ASSUME NEW rows \in SUBSET Rows
    PROVE  Purged(rows) \subseteq rows /\ Exact(rows, Purged(rows))
<1> DEFINE base == (rows \cap Retired) \cup RetiredChunks(rows)
           removed == Consumers(rows, base)
           stale == StaleCache(rows, removed)
           gone == removed \cup stale
<1>1. gone = Purged(rows)
    BY DEF Purged
<1>2. base \in SUBSET rows /\ IsFiniteSet(rows)
    BY ArtifactsAssumption, FS_Subset DEF RetiredChunks
<1>3. /\ base \subseteq removed /\ removed \subseteq rows
      /\ Pass(rows, removed) = removed
      /\ \A X \in SUBSET rows : base \subseteq X /\ Pass(rows, X) = X => removed \subseteq X
  <2> HIDE DEF base
  <2> QED
      BY <1>2, ConsumersLeast
<1>4. stale \subseteq rows /\ \A r \in stale : Kind[r] = "cached"
    BY DEF StaleCache
<1>5. \A r \in rows : Kind[r] \in Kinds
    BY ArtifactsAssumption
<1> HIDE DEF removed
(* What a pass follows is a reason to go, ... *)
<1>6. ASSUME NEW r \in rows, Kind[r] # "cached", NEW X \in SUBSET gone, Reason(r, rows, X)
      PROVE  r \in base \/ r \in Pass(rows, X \cap removed)
  <2>1. CASE r \in Retired \/ OnlyRetired(r, rows)
      BY <2>1 DEF RetiredChunks
  <2>2. CASE Kind[r] # "event" /\ Uses[r] \cap X # {}
    <3>1. Uses[r] \cap (X \cap removed) # {}
        BY <1>4, <2>2, ArtifactsAssumption
    <3>2. r \in Nodes(rows) \cup JobRows(rows)
        BY <1>5, <1>6, <2>2, ArtifactsAssumption DEF Nodes, JobRows, Kinds
    <3> QED
        BY <3>1, <3>2 DEF Pass
  <2>3. ASSUME Kind[r] \in {"suggestions", "match"}, NEW s \in X,
               Kind[s] = "suggestions", Topic[s] = Topic[r]
        PROVE  r \in Pass(rows, X \cap removed)
    <3>1. s \in X \cap removed
        BY <1>4, <2>3
    <3> QED
        BY <2>3, <3>1 DEF Pass
  <2> QED
      BY <1>6, <2>1, <2>2, <2>3 DEF Reason
(* ... and nothing else is. *)
<1>7. ASSUME NEW X \in SUBSET removed, NEW r \in Pass(rows, X), r \notin X
      PROVE  \/ Reason(r, rows, X)
             \/ \E s \in Pass(rows, X) : /\ Kind[s] = "suggestions" /\ Uses[s] \cap X # {}
                                         /\ Kind[r] \in {"suggestions", "match"}
                                         /\ Topic[s] = Topic[r]
    BY <1>7 DEF Pass, Nodes, JobRows, Reason
<1>8. ASSUME NEW r \in rows \ gone
      PROVE  ~Reason(r, rows, gone)
  <2> SUFFICES ASSUME Reason(r, rows, gone)
               PROVE  FALSE
      OBVIOUS
  <2>1. CASE Kind[r] = "cached"
    <3>1. r \notin Retired /\ ~OnlyRetired(r, rows)
        BY <1>3, <1>8 DEF RetiredChunks
    <3>2. \A u \in Uses[r] : u \in gone => u \in removed
        BY <1>4, ArtifactsAssumption
    <3>3. \A i \in gone : Kind[i] = "interpretation" => i \in removed
        BY <1>4
    <3> QED
        BY <1>8, <2>1, <3>1, <3>2, <3>3 DEF Reason, StaleCache, LosesInterpretation
  <2>2. CASE Kind[r] # "cached"
    <3>1. r \in base \/ r \in Pass(rows, gone \cap removed)
        BY <1>6, <2>2
    <3>2. gone \cap removed = removed
        OBVIOUS
    <3> QED
        BY <1>3, <1>8, <3>1, <3>2
  <2> QED
      BY <2>1, <2>2
<1>9. ASSUME NEW some \in SUBSET gone, \A r \in some : ~Reason(r, rows, gone \ some)
      PROVE  some = {}
  <2> DEFINE X == removed \ some
  <2>1. X \in SUBSET rows /\ X \subseteq removed /\ X \subseteq gone \ some
      BY <1>3
  <2>2. base \subseteq X
      BY <1>3, <1>9 DEF Reason, RetiredChunks
  <2>3. Pass(rows, X) \subseteq removed
      BY <1>3, <2>1, PassMonotone
  <2>4. \A r, Y, Z : Reason(r, rows, Y) /\ Y \subseteq Z => Reason(r, rows, Z)
      BY DEF Reason, LosesInterpretation
  <2>5. \A s : Kind[s] # "event" /\ Uses[s] \cap X # {} => s \notin some
      BY <1>9, <2>1 DEF Reason
  <2> HIDE DEF X
  <2>6. ASSUME NEW r \in Pass(rows, X), r \in some
        PROVE  FALSE
    <3>1. r \notin X
        BY <2>1, <2>6
    <3>2. ~Reason(r, rows, X)
        BY <1>9, <2>1, <2>4, <2>6
    <3>3. PICK s \in Pass(rows, X) : /\ Kind[s] = "suggestions" /\ Uses[s] \cap X # {}
                                     /\ Kind[r] \in {"suggestions", "match"}
                                     /\ Topic[s] = Topic[r]
        BY <1>7, <2>1, <3>1, <3>2
    <3>4. s \in gone \ some
        BY <2>3, <2>5, <3>3
    <3>5. Reason(r, rows, gone \ some)
        BY <3>3, <3>4 DEF Reason
    <3> QED
        BY <1>9, <2>6, <3>5
  <2>7. Pass(rows, X) = X
      BY <2>1, <2>3, <2>6, PassGrows DEF X
  <2>8. removed \subseteq X
      BY <1>3, <2>1, <2>2, <2>7
  <2>9. removed \cap some = {}
      BY <2>8 DEF X
  <2>10. ASSUME NEW r \in stale, r \in some
         PROVE  FALSE
    <3>1. removed \subseteq gone \ some
        BY <2>9
    <3>2. Reason(r, rows, removed)
        BY <2>10 DEF StaleCache, Reason, LosesInterpretation
    <3> QED
        BY <1>9, <2>4, <2>10, <3>1, <3>2
  <2> QED
      BY <2>9, <2>10
<1> QED
  <2>1. gone \subseteq rows
      BY <1>3, <1>4
  <2>2. \A r \in rows \ gone : ~Reason(r, rows, gone)
      BY <1>8
  <2>3. \A some \in (SUBSET gone) \ {{}} : \E r \in some : Reason(r, rows, gone \ some)
      BY <1>9
  <2> HIDE DEF gone
  <2>4. Exact(rows, gone)
      BY <2>2, <2>3 DEF Exact
  <2> QED
      BY <1>1, <2>1, <2>4

(* The step that raises the version removes exactly what it must. *)
ExactStep == live'.version # live.version => Exact(live.rows, live.rows \ live'.rows)

(* The migration removes the retired venue and whatever rests on it, and   *)
(* nothing else: the passes stop at the least set that no pass enlarges    *)
(* (store.py:630), for every choice of what nodes, jobs and cached rows    *)
(* use and of what events name.  What an event names is not followed, and  *)
(* rows cached under an earlier signature go only when they mention a      *)
(* removed row: neither is a Reason.                                       *)
THEOREM PurgeAlwaysExact == Spec => PurgeIsExact
<1>1. ASSUME Inv, [Next]_vars
      PROVE  [ExactStep]_vars
  <2>0. live \in Datasets /\ live.rows \in SUBSET Rows
      BY <1>1 DEF Inv, DatasetsFit, Datasets
  <2>1. CASE Purge
    <3> DEFINE gone == Purged(live.rows)
    <3>1. live'.rows = live.rows \ gone
        BY <2>0, <2>1 DEF Purge, Migrated, Datasets
    <3>2. gone \subseteq live.rows /\ Exact(live.rows, gone)
        BY <2>0, PurgedIsExact
    <3> HIDE DEF gone
    <3>3. live.rows \ live'.rows = gone
        BY <3>1, <3>2
    <3> QED
        BY <3>2, <3>3 DEF ExactStep
  <2>2. CASE ~Purge
    <3>1. \/ live' = live
          \/ \E X : live' = [live EXCEPT !.files = X]
          \/ \E X : live' = [live EXCEPT !.cleanup = X]
          \/ live' = [live EXCEPT !.rows = live.rows \cup {command.item}]
        BY <1>1, <2>2 DEF Next, vars, Open, Unlink, Forget, Cleaned, Close, StartCapture, Put,
                  CommitRow, Backup, Migrate, Restore, Copy, MigrateAgain, Publish,
                    PurgeRefused, Kill
    <3>2. live'.version = live.version
        BY <2>0, <3>1 DEF Datasets
    <3> QED
        BY <3>2 DEF ExactStep
  <2> QED
      BY <2>1, <2>2
<1>2. Spec => [][ExactStep]_vars
    BY InvAlways, <1>1, PTL DEF Spec
<1> QED
    BY <1>2 DEF PurgeIsExact, ExactStep
==============================================================================
