------------------------------ MODULE Analysis ------------------------------
(***************************************************************************)
(* The analysis lane (explanations.py).  A step takes the events in the    *)
(* order of their volume and does the first unit of work it finds: it      *)
(* explains one chunk of an event's text, puts the chunks together,        *)
(* matches an explained event with those of other venues, or compiles its  *)
(* contract.  The job table is the queue.  While the model works on a      *)
(* unit, contracts are captured again, events are saved, retired and       *)
(* listed again, and the executor may compile the same contract.           *)
(*                                                                         *)
(* A step reads the tables query by query; what changes between its        *)
(* queries is refused by enqueue and insert, which require current         *)
(* inputs.  So a step up to its claim is one action here.  An event has    *)
(* one contract, every event of another venue overlaps with it, the model  *)
(* and its configuration stay the same, and an interpretation, once made,  *)
(* is lost only with its contract.                                         *)
(***************************************************************************)
EXTENDS Naturals, Sequences, FiniteSets

CONSTANTS Events,     \* 1..n in the order of their volume
          Venue,      \* the venue of each event
          Texts,      \* per event and revision, the chunks of its text, 1, 2, ...
          Threshold,  \* events that call for a formal interpretation
          None,
          MaxChanges, \* bound on captures and retirements together
          MaxFaults   \* bound on failed generations and crashes

(* What an event's suggestions were made from, the suggestions, and the    *)
(* names of jobs, each by its stage.                                       *)
Signatures == [candidates : SUBSET (Events \X Nat), ready : SUBSET (Events \X Nat)]

Suggestions == [signature : Signatures, version : Nat]

JobNames ==
    ({"explain"} \X Nat) \cup ({"interpret"} \X Events \X Nat)
      \cup ({"match"} \X Events \X Nat \X Signatures \X Nat)

ASSUME AnalysisAssumption ==
    /\ Events \subseteq Nat
    /\ Threshold \subseteq Events
    /\ DOMAIN Venue = Events
    /\ \A e \in Events :
         /\ Texts[e] \in Seq(SUBSET Nat)
         /\ \A r \in DOMAIN Texts[e] : Texts[e][r] # {}
    /\ None \notin JobNames \cup Suggestions
    /\ MaxChanges \in Nat /\ MaxFaults \in Nat

VARIABLES listed,       \* events that are active and qualified
          revision,     \* the revision of each event's semantics, 0 before the first
          capture,      \* the version of each event's contract
          valid,        \* events whose semantics is current
          explained,    \* events whose semantics has a current explanation
          suggestions,  \* the current suggestions of each event's semantics
          made,         \* how often suggestions were made for it
          issues,       \* jobs a terminal compilation_issue was recorded for
          jobs,         \* the job table, but for jobs with obsolete inputs
          work,         \* the job the lane is running
          executor,     \* the compile job the executor is running
          changes, faults

vars == <<listed, revision, capture, valid, explained, suggestions, made, issues,
          jobs, work, executor, changes, faults>>

catalogue == <<listed, revision, capture, valid>>

-----------------------------------------------------------------------------
(* Jobs.  A job is named by its stage, its inputs and its configuration.  *)

ExplainJob(chunk) == <<"explain", chunk>>

MatchJob(e, signature, previous) == <<"match", e, revision[e], signature, previous>>

CompileJob(e) == <<"interpret", e, capture[e]>>

State(job) == IF job \in DOMAIN jobs THEN jobs[job].state ELSE "unknown"

(* claim_job after enqueue finds the job pending. *)
Claimable(job) == State(job) \in {"unknown", "pending"}

Claimed(job) ==
    [j \in DOMAIN jobs \cup {job} |->
       IF j # job THEN jobs[j]
       ELSE [state |-> "running",
             attempts |-> 1 + IF job \in DOMAIN jobs THEN jobs[job].attempts ELSE 0]]

(* Faulty variant: a fourth attempt. *)
GivenBackLate(j) == [j EXCEPT !.state = IF j.attempts > 3 THEN "failed" ELSE "pending"]

(* fail_job, and the recovery of a running job at startup. *)
GivenBack(j) == [j EXCEPT !.state = IF j.attempts >= 3 THEN "failed" ELSE "pending"]

(* Nothing reads the attempts of a job that is done. *)
Completed(job) == [jobs EXCEPT ![job] = [state |-> "done", attempts |-> 0]]

-----------------------------------------------------------------------------
(* What an event waits for. *)

Chunks(e) == Texts[e][revision[e]]

ChunksDone(e) == \A c \in Chunks(e) : State(ExplainJob(c)) = "done"

Semantics(e) == <<e, revision[e]>>

Candidates(e) == {c \in listed \cap valid : Venue[c] # Venue[e]}

(* What decides whether suggestions are up to date: the candidates and    *)
(* those of them with an explanation.                                     *)
Signature(e) ==
    [candidates |-> {Semantics(c) : c \in Candidates(e)},
     ready |-> {Semantics(c) : c \in Candidates(e) \cap explained}]

(* Faulty variant: the job is named by its signature alone. *)
NextMatchBySignature(e) == MatchJob(e, Signature(e), 0)

NextMatch(e) ==
    MatchJob(e, Signature(e), IF suggestions[e] = None THEN 0 ELSE suggestions[e].version)

UpToDate(e) == suggestions[e] # None /\ suggestions[e].signature = Signature(e)

ExplainDue(e) == e \notin explained /\ \E c \in Chunks(e) : Claimable(ExplainJob(c))

AssembleDue(e) == e \notin explained /\ ChunksDone(e)

MatchDue(e) == e \in explained /\ ~UpToDate(e) /\ Claimable(NextMatch(e))

(* A compilation that the executor has claimed is passed over. *)
CompileDue(e) ==
    /\ e \in explained \cap Threshold
    /\ State(CompileJob(e)) \notin {"running", "done"}
    /\ CompileJob(e) \notin issues

Due(e) ==
    /\ e \in listed \cap valid
    /\ ExplainDue(e) \/ AssembleDue(e) \/ MatchDue(e) \/ CompileDue(e)

(* The lane is idle and e is the first event with something to do. *)
Turn(e) == work = None /\ Due(e) /\ \A d \in Events : Due(d) => e <= d

Start(job) ==
    /\ work' = job
    /\ jobs' = Claimed(job)
    /\ UNCHANGED <<catalogue, explained, suggestions, made, issues, executor, changes, faults>>

-----------------------------------------------------------------------------
(* AnalysisEngine.step up to the call of the model. *)

Explain(e) ==
    /\ Turn(e)
    /\ e \notin explained
    /\ \E c \in Chunks(e) :
         /\ Claimable(ExplainJob(c))
         /\ \A d \in Chunks(e) : Claimable(ExplainJob(d)) => c <= d
         /\ Start(ExplainJob(c))

Assemble(e) ==
    /\ Turn(e)
    /\ AssembleDue(e)
    /\ explained' = explained \cup {e}
    /\ UNCHANGED <<catalogue, suggestions, made, issues, jobs, work, executor, changes, faults>>

Match(e) ==
    /\ Turn(e)
    /\ MatchDue(e)
    /\ Start(NextMatch(e))

(* MODEL_LOCK is held around a compilation from its claim on, whoever runs *)
(* it (run_compile_job); for the other stages around the model's call only.*)
Compile(e) ==
    /\ Turn(e)
    /\ ~MatchDue(e)
    /\ CompileDue(e)
    /\ executor = None
    /\ Claimable(CompileJob(e))
    /\ Start(CompileJob(e))

(* A terminal issue without an attempt: the contract is too long for the  *)
(* prompt, or the job failed for good elsewhere, in the executor or in a  *)
(* process that was killed during the third attempt.                      *)
CompileHopeless(e) ==
    /\ Turn(e)
    /\ ~MatchDue(e)
    /\ CompileDue(e)
    /\ State(CompileJob(e)) \in {"unknown", "failed"}
    /\ issues' = issues \cup {CompileJob(e)}
    /\ UNCHANGED <<catalogue, explained, suggestions, made, jobs, work, executor, changes, faults>>

-----------------------------------------------------------------------------
(* The unit ends: the model has answered. *)

Running(stage) == work # None /\ work[1] = stage

Explained ==
    /\ Running("explain")
    /\ jobs' = Completed(work)
    /\ work' = None
    /\ UNCHANGED <<catalogue, explained, suggestions, made, issues, executor, changes, faults>>

(* The inputs of the match are current: its event's semantics and the     *)
(* explanations it compared, but not candidates that had none.            *)
ExplanationCurrent(semantics) == semantics[1] \in explained /\ semantics = Semantics(semantics[1])

InputsCurrent(job) ==
    \A s \in {<<job[2], job[3]>>} \cup job[4].ready : ExplanationCurrent(s)

Matched ==
    /\ Running("match")
    /\ InputsCurrent(work)
    /\ made' = [made EXCEPT ![work[2]] = @ + 1]
    /\ suggestions' = [suggestions EXCEPT ![work[2]] =
                         [signature |-> work[4], version |-> made'[work[2]]]]
    /\ jobs' = Completed(work)
    /\ work' = None
    /\ UNCHANGED <<catalogue, explained, issues, executor, changes, faults>>

Compiled ==
    /\ Running("interpret")
    /\ work \in DOMAIN jobs
    /\ jobs' = Completed(work)
    /\ work' = None
    /\ UNCHANGED <<catalogue, explained, suggestions, made, issues, executor, changes, faults>>

(* The inputs a unit rests on are obsolete by now: its transaction raises *)
(* StaleInput, and the attempt is lost like one the model spoilt.         *)
Outdated ==
    \/ Running("match") /\ ~InputsCurrent(work)
    \/ Running("interpret") /\ work \notin DOMAIN jobs

(* compile_step records a terminal issue when no attempt is left.  The    *)
(* issue of an obsolete contract is refused by insert.                    *)
IssuesAfter(job) ==
    IF /\ job[1] = "interpret"
       /\ job \in DOMAIN jobs
       /\ GivenBack(jobs[job]).state = "failed"
    THEN issues \cup {job} ELSE issues

Fail ==
    /\ work # None
    /\ Outdated \/ faults < MaxFaults
    /\ faults' = IF Outdated THEN faults ELSE faults + 1
    /\ jobs' = IF work \in DOMAIN jobs THEN [jobs EXCEPT ![work] = GivenBack(@)] ELSE jobs
    /\ issues' = IssuesAfter(work)
    /\ work' = None
    /\ UNCHANGED <<catalogue, explained, suggestions, made, executor, changes>>

-----------------------------------------------------------------------------
(* The world outside the lane. *)

(* The executor claims a compilation, also while the lane explains or      *)
(* matches.                                                                *)
ExecutorStart(e) ==
    /\ executor = None /\ ~Running("interpret")
    /\ e \in Threshold /\ revision[e] > 0
    /\ Claimable(CompileJob(e))
    /\ CompileJob(e) \notin issues
    /\ executor' = CompileJob(e)
    /\ jobs' = Claimed(CompileJob(e))
    /\ UNCHANGED <<catalogue, explained, suggestions, made, issues, work, changes, faults>>

(* Its attempt is completed, or lost: the contract is obsolete by now, or  *)
(* the model has failed.                                                   *)
ExecutorEnd ==
    /\ executor # None
    /\ \/ executor \in DOMAIN jobs /\ jobs' = Completed(executor) /\ UNCHANGED faults
       \/ executor \notin DOMAIN jobs /\ UNCHANGED <<jobs, faults>>
       \/ /\ executor \in DOMAIN jobs /\ faults < MaxFaults
          /\ jobs' = [jobs EXCEPT ![executor] = GivenBack(@)]
          /\ faults' = faults + 1
    /\ executor' = None
    /\ UNCHANGED <<catalogue, explained, suggestions, made, issues, work, changes>>

(* Faulty variant: only the suggestions of the event itself are reached.  *)
RestsOnOwn(x, e) == x = e

(* Suggestions are derived from their event's explanation and from those  *)
(* of the candidates that had one.                                        *)
RestsOn(x, e) ==
    \/ x = e
    \/ suggestions[x] # None /\ \E s \in suggestions[x].signature.ready : s[1] = e

(* Store.invalidate from the semantics of e.  enqueue refuses a job with  *)
(* obsolete inputs, so that the ones from before cannot be claimed again. *)
Invalidate(e) ==
    /\ explained' = explained \ {e}
    /\ suggestions' = [x \in Events |-> IF RestsOn(x, e) THEN None ELSE suggestions[x]]
    /\ made' = [made EXCEPT ![e] = 0]

UsesSemantics(job, e) ==
    job[1] = "match" /\ (job[2] = e \/ \E s \in job[4].ready : s[1] = e)

UsesContract(job, e) == job[1] = "interpret" /\ job[2] = e

JobsWithout(S) == [j \in DOMAIN jobs \ S |-> jobs[j]]

(* Store.capture: the contract of e changed, its semantics is obsolete.   *)
Recapture(e) ==
    /\ changes < MaxChanges
    /\ revision[e] > 0
    /\ capture' = [capture EXCEPT ![e] = @ + 1]
    /\ valid' = valid \ {e}
    /\ Invalidate(e)
    /\ jobs' = JobsWithout({j \in DOMAIN jobs : UsesSemantics(j, e) \/ UsesContract(j, e)})
    /\ issues' = {j \in issues : ~UsesContract(j, e)}
    /\ changes' = changes + 1
    /\ UNCHANGED <<listed, revision, work, executor, faults>>

(* save_event with content that differs: a new revision of the semantics. *)
SaveEvent(e) ==
    /\ revision[e] < Len(Texts[e])
    /\ revision' = [revision EXCEPT ![e] = @ + 1]
    /\ valid' = valid \cup {e}
    /\ listed' = listed \cup {e}
    /\ Invalidate(e)
    /\ jobs' = JobsWithout({j \in DOMAIN jobs : UsesSemantics(j, e)})
    /\ UNCHANGED <<capture, issues, work, executor, changes, faults>>

(* The event falls below the volume or is retired by a complete scan.     *)
Delist(e) ==
    /\ changes < MaxChanges
    /\ e \in listed
    /\ listed' = listed \ {e}
    /\ changes' = changes + 1
    /\ UNCHANGED <<revision, capture, valid, explained, suggestions, made, issues, jobs, work,
                   executor, faults>>

(* save_event with the same content: the semantics is kept. *)
Relist(e) ==
    /\ e \in valid \ listed
    /\ listed' = listed \cup {e}
    /\ UNCHANGED <<revision, capture, valid, explained, suggestions, made, issues, jobs, work,
                   executor, changes, faults>>

(* The process is killed and started again. *)
Crash ==
    /\ work # None \/ executor # None
    /\ faults < MaxFaults
    /\ faults' = faults + 1
    /\ jobs' = [j \in DOMAIN jobs |-> IF State(j) = "running" THEN GivenBack(jobs[j])
                                      ELSE jobs[j]]
    /\ work' = None /\ executor' = None
    /\ UNCHANGED <<catalogue, explained, suggestions, made, issues, changes>>

-----------------------------------------------------------------------------
Init ==
    /\ listed = {} /\ valid = {} /\ explained = {} /\ issues = {}
    /\ revision = [e \in Events |-> 0]
    /\ capture = [e \in Events |-> 0]
    /\ suggestions = [e \in Events |-> None]
    /\ made = [e \in Events |-> 0]
    /\ jobs = <<>>
    /\ work = None /\ executor = None
    /\ changes = 0 /\ faults = 0

Step ==
    \E e \in Events : Explain(e) \/ Assemble(e) \/ Match(e) \/ Compile(e) \/ CompileHopeless(e)

Answer == Explained \/ Matched \/ Compiled \/ Fail

Next ==
    \/ Step
    \/ Answer
    \/ \E e \in Events : ExecutorStart(e)
    \/ ExecutorEnd
    \/ \E e \in Events : Recapture(e) \/ SaveEvent(e) \/ Delist(e) \/ Relist(e)
    \/ Crash

(* launch_lane starts a step at every tick (sync.py:194), and what a step *)
(* or the executor has claimed ends: generation has a time limit, and      *)
(* every exception reaches fail_job.                                       *)
Fairness == WF_vars(Step) /\ WF_vars(Answer) /\ WF_vars(ExecutorEnd)

Spec == Init /\ [][Next]_vars /\ Fairness

-----------------------------------------------------------------------------
TypeOK ==
    /\ explained \subseteq valid /\ valid \cup listed \subseteq Events
    /\ \A j \in DOMAIN jobs :
         /\ jobs[j].state \in {"pending", "running", "done", "failed"}
         /\ jobs[j].attempts \in IF State(j) = "done" THEN {0} ELSE 1..3
         /\ jobs[j].state = "pending" => jobs[j].attempts < 3
         /\ jobs[j].state = "running" <=> j \in {work, executor}
    /\ \A j \in issues : State(j) \in {"unknown", "failed"}
    /\ executor # None => ~Running("interpret")

(* Suggestions that are shown as current compare explanations that are    *)
(* all current, also when a contract was captured again, or an event got  *)
(* a new revision, while the model compared them (explanations.py:406).   *)
SuggestionsRest ==
    \A e \in Events :
        suggestions[e] # None =>
            /\ e \in explained
            /\ \A s \in suggestions[e].signature.ready : ExplanationCurrent(s)

(* The first suggestions ever made had this signature and were withdrawn  *)
(* or replaced: their job is done and is not run again.                   *)
Withdrawn(e) == suggestions[e] = None /\ State(NextMatch(e)) = "done"

Settled(e) ==
    /\ e \in explained \/ \E c \in Chunks(e) : State(ExplainJob(c)) = "failed"
    /\ e \in explained => UpToDate(e) \/ Withdrawn(e) \/ State(NextMatch(e)) = "failed"
    /\ e \in explained \cap Threshold => State(CompileJob(e)) = "done" \/ CompileJob(e) \in issues

(* tech_spec_v1.md:85 "newly available explanations change the match      *)
(* signature and trigger reassessment": once the catalogue is quiet,      *)
(* every listed event is explained, matched with the explanations there   *)
(* are and compiled, or three attempts at that have failed; an event      *)
(* whose jobs fail does not keep the lane from those of less volume.      *)
EventuallySettled == <>[](\A e \in listed \cap valid : Settled(e))
=============================================================================
