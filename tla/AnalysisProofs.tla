--------------------------- MODULE AnalysisProofs ---------------------------
(* The analysis lane for every set of events, venues and texts, and any    *)
(* number of changes and faults.                                           *)
EXTENDS Analysis, TLAPS

(* The tables are indexed by the events, and suggestions are of the shape  *)
(* the code gives them; a valid event has a text.                          *)
TablesFit ==
    /\ listed \subseteq Events /\ valid \subseteq Events /\ explained \subseteq valid
    /\ revision \in [Events -> Nat]
    /\ capture \in [Events -> Nat]
    /\ made \in [Events -> Nat]
    /\ suggestions \in [Events -> Suggestions \cup {None}]
    /\ \A e \in valid : revision[e] \in DOMAIN Texts[e]

Compilations == {"interpret"} \X Events \X Nat

(* The attempts under way are the lane's and the executor's, and they are  *)
(* not both compilations; no job has more than three; a job with an issue  *)
(* is not run.                                                             *)
JobsFit ==
    /\ DOMAIN jobs \subseteq JobNames
    /\ work \in JobNames \cup {None}
    /\ executor \in Compilations \cup {None}
    /\ executor # None => ~Running("interpret")
    /\ issues \subseteq Compilations
    /\ \A j \in DOMAIN jobs :
         /\ jobs[j] \in [state : {"pending", "running", "done", "failed"}, attempts : 0..3]
         /\ jobs[j].state = "done" => jobs[j].attempts = 0
         /\ jobs[j].state # "done" => jobs[j].attempts \in 1..3
         /\ jobs[j].state = "pending" => jobs[j].attempts < 3
         /\ jobs[j].state = "running" <=> j \in {work, executor}
    /\ \A j \in issues \cap DOMAIN jobs : jobs[j].state = "failed"

Inv == TablesFit /\ JobsFit /\ SuggestionsRest

-----------------------------------------------------------------------------
(* What a step does to the job table: one job gets a new row.              *)
SetRow(job, row) ==
    /\ DOMAIN jobs' = DOMAIN jobs \cup {job}
    /\ \A j \in DOMAIN jobs' : jobs'[j] = IF j = job THEN row ELSE jobs[j]

(* A row that the lane or the executor writes keeps the job table in order.*)
LEMMA RowKeepsJobs ==
    ASSUME JobsFit, NEW job \in JobNames, NEW row, SetRow(job, row),
           row \in [state : {"pending", "running", "done", "failed"}, attempts : 0..3],
           row.state = "done" => row.attempts = 0,
           row.state # "done" => row.attempts \in 1..3,
           row.state = "pending" => row.attempts < 3,
           work' \in JobNames \cup {None}, executor' \in Compilations \cup {None},
           executor' # None => ~Running("interpret")',
           row.state = "running" <=> job \in {work', executor'},
           \A j \in JobNames \ {job} : j \in {work, executor} <=> j \in {work', executor'},
           job \in issues' => row.state = "failed",
           issues' \subseteq issues \cup ({job} \cap Compilations)
    PROVE  JobsFit'
<1>1. DOMAIN jobs' \subseteq JobNames
    BY DEF JobsFit, SetRow
<1>2. issues' \subseteq Compilations
    BY DEF JobsFit
<1>3. job # None /\ \A j \in JobNames : j # None
    BY AnalysisAssumption
<1>4. ASSUME NEW j \in DOMAIN jobs'
      PROVE  /\ jobs'[j] \in [state : {"pending", "running", "done", "failed"}, attempts : 0..3]
             /\ jobs'[j].state = "done" => jobs'[j].attempts = 0
             /\ jobs'[j].state # "done" => jobs'[j].attempts \in 1..3
             /\ jobs'[j].state = "pending" => jobs'[j].attempts < 3
             /\ jobs'[j].state = "running" <=> j \in {work', executor'}
  <2>1. CASE j = job
      BY <1>3, <2>1 DEF SetRow
  <2>2. CASE j # job
    <3>1. /\ j \in DOMAIN jobs /\ jobs'[j] = jobs[j]
          /\ j \in {work, executor} <=> j \in {work', executor'}
        BY <1>1, <1>3, <2>2 DEF SetRow
    <3> QED
        BY <3>1 DEF JobsFit
  <2> QED
      BY <2>1, <2>2
<1>5. \A j \in issues' \cap DOMAIN jobs' : jobs'[j].state = "failed"
    BY DEF JobsFit, SetRow
<1> QED
    BY <1>1, <1>2, <1>4, <1>5 DEF JobsFit

(* No job that is named None can be mistaken for an idle lane.             *)
LEMMA NamesAreNone ==
    /\ \A j \in JobNames : j # None
    /\ \A x \in Suggestions : x # None
BY AnalysisAssumption

(* Claiming, and ending, an attempt. *)
LEMMA ClaimedRow ==
    ASSUME JobsFit, NEW job \in JobNames, Claimable(job)
    PROVE  LET row == Claimed(job)[job]
           IN  /\ DOMAIN Claimed(job) = DOMAIN jobs \cup {job}
               /\ \A j \in DOMAIN Claimed(job) :
                    Claimed(job)[j] = IF j = job THEN row ELSE jobs[j]
               /\ row \in [state : {"running"}, attempts : 1..3]
<1> DEFINE n == 1 + IF job \in DOMAIN jobs THEN jobs[job].attempts ELSE 0
<1>1. /\ DOMAIN Claimed(job) = DOMAIN jobs \cup {job}
      /\ Claimed(job)[job] = [state |-> "running", attempts |-> n]
      /\ \A j \in DOMAIN jobs \ {job} : Claimed(job)[j] = jobs[j]
    BY DEF Claimed
<1>2. n \in 1..3
    BY DEF Claimable, State, JobsFit
<1> HIDE DEF n
<1> QED
    BY <1>1, <1>2

(* The lane's attempt ends, or the executor's; its row may be gone.        *)
Ends(job) ==
    \/ job = work /\ work' = None /\ executor' = executor
    \/ job = executor /\ executor' = None /\ work' = work

LEMMA EndKeepsJobs ==
    ASSUME JobsFit, NEW job, job # None, Ends(job), NEW row,
           row \in [state : {"pending", "done", "failed"}, attempts : 0..3],
           row.state = "done" => row.attempts = 0,
           row.state # "done" => row.attempts \in 1..3,
           row.state = "pending" => row.attempts < 3,
           jobs' = [jobs EXCEPT ![job] = row],
           \/ issues' = issues
           \/ /\ issues' = issues \cup {job} /\ job \in DOMAIN jobs
              /\ job \in Compilations /\ row.state = "failed"
    PROVE  JobsFit'
<1>0. job \in JobNames /\ job \in {work, executor}
    BY DEF JobsFit, Ends, Compilations, JobNames
<1>1. \A j \in JobNames : j # None
    BY AnalysisAssumption
<1>2. work # None => work # executor
  <2>1. \A j \in Compilations : j[1] = "interpret"
      BY DEF Compilations
  <2> QED
      BY <2>1 DEF JobsFit, Running
<1>3. /\ work' \in JobNames \cup {None} /\ executor' \in Compilations \cup {None}
      /\ executor' # None => ~Running("interpret")'
      /\ job \notin {work', executor'}
      /\ \A j \in JobNames \ {job} : j \in {work, executor} <=> j \in {work', executor'}
    BY <1>0, <1>1, <1>2 DEF JobsFit, Ends, Running
<1>4. CASE job \in DOMAIN jobs
  <2>1. jobs[job].state = "running" /\ job \notin issues
      BY <1>0, <1>4 DEF JobsFit
  <2>2. SetRow(job, row)
      BY <1>4 DEF SetRow
  <2>3. issues' \subseteq issues \cup ({job} \cap Compilations)
      OBVIOUS
  <2>4. /\ row \in [state : {"pending", "running", "done", "failed"}, attempts : 0..3]
        /\ row.state # "running"
      OBVIOUS
  <2>5. job \in issues' => row.state = "failed"
      BY <2>1
  <2> QED
      BY <1>0, <1>3, <2>2, <2>3, <2>4, <2>5, RowKeepsJobs
<1>5. CASE job \notin DOMAIN jobs
  <2>1. /\ DOMAIN jobs' = DOMAIN jobs /\ issues' = issues
        /\ \A j \in DOMAIN jobs : jobs'[j] = jobs[j]
      BY <1>5
  <2>2. \A j \in DOMAIN jobs : j \in {work, executor} <=> j \in {work', executor'}
      BY <1>3, <1>5 DEF JobsFit
  <2> QED
      BY <1>3, <2>1, <2>2 DEF JobsFit
<1> QED
    BY <1>4, <1>5

(* An attempt at a job that is obsolete by now leaves no row behind.        *)
LEMMA LostKeepsJobs ==
    ASSUME JobsFit, NEW job, job # None, Ends(job), job \notin DOMAIN jobs,
           UNCHANGED <<jobs, issues>>
    PROVE  JobsFit'
<1>1. \A j \in JobNames : j # None
    BY AnalysisAssumption
<1>2. \A j \in DOMAIN jobs : j \in {work, executor} <=> j \in {work', executor'}
    BY <1>1 DEF JobsFit, Ends
<1>3. /\ work' \in JobNames \cup {None} /\ executor' \in Compilations \cup {None}
      /\ executor' # None => ~Running("interpret")'
    BY DEF JobsFit, Ends, Running
<1> QED
    BY <1>2, <1>3 DEF JobsFit

(* A unit begins, in the lane or in the executor. *)
Starts(job) ==
    \/ work = None /\ work' = job /\ executor' = executor
       /\ (job \in Compilations => executor = None)
    \/ executor = None /\ executor' = job /\ work' = work
       /\ job \in Compilations /\ ~Running("interpret")

LEMMA StartKeepsJobs ==
    ASSUME JobsFit, NEW job \in JobNames, job \notin issues, Claimable(job), Starts(job),
           jobs' = Claimed(job), UNCHANGED issues
    PROVE  JobsFit'
<1> DEFINE row == Claimed(job)[job]
<1>1. SetRow(job, row) /\ row \in [state : {"running"}, attempts : 1..3]
    BY ClaimedRow DEF SetRow
<1> HIDE DEF row
<1>2. row \in [state : {"pending", "running", "done", "failed"}, attempts : 0..3]
      /\ row.state = "running" /\ row.attempts \in 1..3
    BY <1>1
<1>3. \A j \in JobNames : j # None /\ (j[1] = "interpret" => j \in Compilations)
    BY AnalysisAssumption DEF JobNames, Compilations
<1>4. /\ work' \in JobNames \cup {None} /\ executor' \in Compilations \cup {None}
      /\ executor' # None => ~Running("interpret")'
      /\ job \in {work', executor'}
      /\ \A j \in JobNames \ {job} : j \in {work, executor} <=> j \in {work', executor'}
    BY <1>3 DEF JobsFit, Starts, Running
<1> QED
    BY <1>1, <1>2, <1>4, RowKeepsJobs

(* Giving a running job back. *)
LEMMA GivenBackRow ==
    ASSUME NEW r, r \in [state : {"pending", "running", "done", "failed"}, attempts : 0..3],
           r.attempts \in 1..3
    PROVE  /\ GivenBack(r) \in [state : {"pending", "failed"}, attempts : 1..3]
           /\ GivenBack(r).attempts = r.attempts
           /\ GivenBack(r).state = "pending" => r.attempts < 3
BY DEF GivenBack

(* Steps that leave the events, and what was made of them, alone.          *)
LEMMA SameTables ==
    ASSUME TablesFit, SuggestionsRest,
           UNCHANGED <<listed, revision, capture, valid, explained, suggestions, made>>
    PROVE  TablesFit' /\ SuggestionsRest'
BY DEF TablesFit, SuggestionsRest, ExplanationCurrent, Semantics

(* The names of the jobs an event can call for. *)
LEMMA ExplainName ==
    ASSUME Inv, NEW e \in valid, NEW c \in Chunks(e)
    PROVE  ExplainJob(c) \in JobNames /\ ExplainJob(c) \notin issues
<1>1. Texts[e] \in Seq(SUBSET Nat) /\ revision[e] \in DOMAIN Texts[e]
    BY AnalysisAssumption DEF Inv, TablesFit
<1>2. c \in Nat
    BY <1>1 DEF Chunks
<1>3. ExplainJob(c)[1] # "interpret" /\ \A j \in issues : j[1] = "interpret"
    BY DEF ExplainJob, Inv, JobsFit, Compilations
<1> QED
    BY <1>2, <1>3 DEF ExplainJob, JobNames

(* A compilation is named by event and capture, ... *)
LEMMA CompileName ==
    ASSUME Inv, NEW e \in Events
    PROVE  CompileJob(e) \in JobNames \cap Compilations
BY DEF Compilations, CompileJob, JobNames, Inv, TablesFit

(* ... a match by the semantics it compares, and neither is an issue. *)
LEMMA MatchName ==
    ASSUME Inv, NEW e \in Events
    PROVE  NextMatch(e) \in JobNames /\ NextMatch(e) \notin issues
<1>1. /\ Candidates(e) \subseteq Events
      /\ \A c \in Events : Semantics(c) \in Events \X Nat
    BY DEF Inv, TablesFit, Candidates, Semantics
<1>2. Signature(e) \in Signatures
  <2>1. {Semantics(c) : c \in Candidates(e)} \in SUBSET (Events \X Nat)
      BY <1>1
  <2>2. {Semantics(c) : c \in Candidates(e) \cap explained} \in SUBSET (Events \X Nat)
      BY <1>1
  <2> QED
      BY <2>1, <2>2 DEF Signature, Signatures
<1>3. (IF suggestions[e] = None THEN 0 ELSE suggestions[e].version) \in Nat
    BY DEF Inv, TablesFit, Suggestions
<1>4. revision[e] \in Nat
    BY DEF Inv, TablesFit
<1>5. NextMatch(e) \in {"match"} \X Events \X Nat \X Signatures \X Nat
    BY <1>2, <1>3, <1>4 DEF NextMatch, MatchJob
<1>6. NextMatch(e)[1] # "interpret" /\ \A j \in issues : j[1] = "interpret"
    BY DEF NextMatch, MatchJob, Inv, JobsFit, Compilations
<1> QED
    BY <1>5, <1>6 DEF JobNames

-----------------------------------------------------------------------------
(* A step of the lane claims a job that may be run, or changes no job.     *)
LEMMA StepInv ==
    ASSUME Inv, NEW e \in Events,
           Explain(e) \/ Assemble(e) \/ Match(e) \/ Compile(e) \/ CompileHopeless(e)
    PROVE  Inv'
<1>0. work = None /\ e \in listed \cap valid
    BY DEF Explain, Assemble, Match, Compile, CompileHopeless, Turn, Due
<1>1. ASSUME NEW job \in JobNames, job \notin issues, Claimable(job), Start(job),
             job \in Compilations => executor = None
      PROVE  Inv'
  <2>1. JobsFit /\ Starts(job) /\ jobs' = Claimed(job) /\ UNCHANGED issues
      BY <1>0, <1>1 DEF Start, Starts, Inv
  <2>2. JobsFit'
      BY <1>1, <2>1, StartKeepsJobs
  <2>3. TablesFit' /\ SuggestionsRest'
      BY <1>1, SameTables DEF Start, catalogue, Inv
  <2> QED
      BY <2>2, <2>3 DEF Inv
<1>2. CASE Explain(e)
  <2>1. \A c \in Chunks(e) : ExplainJob(c) \notin Compilations
      BY DEF ExplainJob, Compilations
  <2> QED
      BY <1>0, <1>1, <1>2, <2>1, ExplainName DEF Explain
<1>3. CASE Match(e)
  <2>1. NextMatch(e) \notin Compilations
      BY DEF NextMatch, MatchJob, Compilations
  <2> QED
      BY <1>1, <1>3, <2>1, MatchName DEF Match, MatchDue
<1>4. CASE Compile(e)
    BY <1>1, <1>4, CompileName DEF Compile, CompileDue
<1>5. CASE Assemble(e)
  <2>1. JobsFit'
      BY <1>5 DEF Assemble, JobsFit, Inv, Running
  <2>2. TablesFit' /\ SuggestionsRest'
      BY <1>0, <1>5 DEF Assemble, catalogue, Inv, TablesFit, SuggestionsRest,
                        ExplanationCurrent, Semantics
  <2> QED
      BY <2>1, <2>2 DEF Inv
<1>6. CASE CompileHopeless(e)
  <2>1. JobsFit'
    <3>1. JobsFit /\ CompileJob(e) \in Compilations
        BY CompileName DEF Inv
    <3>2. UNCHANGED <<jobs, work, executor>> /\ issues' = issues \cup {CompileJob(e)}
        BY <1>6 DEF CompileHopeless
    <3>3. State(CompileJob(e)) \in {"unknown", "failed"}
        BY <1>6 DEF CompileHopeless
    <3>4. CompileJob(e) \in DOMAIN jobs => jobs[CompileJob(e)].state = "failed"
      <4>1. CASE CompileJob(e) \in DOMAIN jobs
        <5>1. /\ State(CompileJob(e)) = jobs[CompileJob(e)].state
              /\ jobs[CompileJob(e)].state # "unknown"
            BY <3>1, <4>1 DEF State, JobsFit
        <5> QED
            BY <3>3, <5>1
      <4> QED
          BY <4>1
    <3> QED
        BY <3>1, <3>2, <3>4 DEF JobsFit, Running
  <2>2. TablesFit' /\ SuggestionsRest'
      BY <1>6, SameTables DEF CompileHopeless, catalogue, Inv
  <2> QED
      BY <2>1, <2>2 DEF Inv
<1> QED
    BY <1>2, <1>3, <1>4, <1>5, <1>6

(* The result of a unit is committed.  Suggestions are only when the       *)
(* explanations they compare are current.                                  *)
LEMMA AnswerInv ==
    ASSUME Inv, Explained \/ Matched \/ Compiled
    PROVE  Inv'
<1> DEFINE done == [state |-> "done", attempts |-> 0]
<1>0. work # None /\ Ends(work) /\ jobs' = [jobs EXCEPT ![work] = done]
      /\ issues' = issues
    BY DEF Explained, Matched, Compiled, Running, Completed, Ends
<1>1. JobsFit'
  <2>1. /\ done \in [state : {"pending", "done", "failed"}, attempts : 0..3]
        /\ done.state = "done" /\ done.attempts = 0
      OBVIOUS
  <2> HIDE DEF done
  <2>2. JobsFit
      BY DEF Inv
  <2> QED
      BY <1>0, <2>1, <2>2, EndKeepsJobs
<1>2. CASE Explained \/ Compiled
    BY <1>1, <1>2, SameTables DEF Explained, Compiled, catalogue, Inv
<1>3. CASE Matched
  <2>1. work \in {"match"} \X Events \X Nat \X Signatures \X Nat
      BY <1>0, <1>3 DEF Matched, Running, Inv, JobsFit, JobNames
  <2>2. work[2] \in Events /\ work[4] \in Signatures
      BY <2>1
  <2> DEFINE made1 == made[work[2]] + 1
             new == [signature |-> work[4], version |-> made1]
  <2>3. /\ made' = [made EXCEPT ![work[2]] = made1]
        /\ suggestions' = [suggestions EXCEPT ![work[2]] = new]
      BY <1>3, <2>2 DEF Matched, Inv, TablesFit
  <2>4. made1 \in Nat /\ new \in Suggestions /\ new.signature = work[4]
      BY <2>2 DEF Inv, TablesFit, Suggestions
  <2> HIDE DEF made1, new
  <2>5. UNCHANGED <<listed, revision, capture, valid, explained>>
      BY <1>3 DEF Matched, catalogue
  <2>6. TablesFit'
      BY <2>2, <2>3, <2>4, <2>5 DEF TablesFit, Inv
  <2>7. work[2] \in explained /\ \A s \in work[4].ready : ExplanationCurrent(s)
    <3>1. \A s \in {<<work[2], work[3]>>} \cup work[4].ready : ExplanationCurrent(s)
        BY <1>3 DEF Matched, InputsCurrent
    <3>2. ExplanationCurrent(<<work[2], work[3]>>)
        BY <3>1
    <3> QED
        BY <3>1, <3>2 DEF ExplanationCurrent
  <2>8. SuggestionsRest'
      BY <2>2, <2>3, <2>4, <2>5, <2>7
         DEF SuggestionsRest, TablesFit, Inv, ExplanationCurrent, Semantics
  <2> QED
      BY <1>1, <2>6, <2>8 DEF Inv
<1> QED
    BY <1>2, <1>3

(* An attempt is lost: the job is given back, or has failed for good.      *)
LEMMA FailInv ==
    ASSUME Inv, Fail
    PROVE  Inv'
<1>0. JobsFit /\ work # None /\ Ends(work)
    BY DEF Inv, Fail, Ends
<1>1. TablesFit' /\ SuggestionsRest'
    BY SameTables DEF Fail, catalogue, Inv
<1>2. CASE work \in DOMAIN jobs
  <2> DEFINE row == GivenBack(jobs[work])
  <2>1. /\ jobs[work] \in [state : {"pending", "running", "done", "failed"}, attempts : 0..3]
        /\ jobs[work].attempts \in 1..3
      BY <1>0, <1>2 DEF JobsFit
  <2>2. /\ row \in [state : {"pending", "failed"}, attempts : 1..3]
        /\ row.state = "pending" => row.attempts < 3
      BY <2>1, GivenBackRow
  <2>3. jobs' = [jobs EXCEPT ![work] = row]
      BY <1>2 DEF Fail
  <2>4. \/ issues' = issues
        \/ /\ issues' = issues \cup {work} /\ row.state = "failed" /\ work[1] = "interpret"
      BY DEF Fail, IssuesAfter
  <2>5. work[1] = "interpret" => work \in Compilations
      BY <1>0 DEF JobsFit, JobNames, Compilations
  <2> HIDE DEF row
  <2>6. row \in [state : {"pending", "done", "failed"}, attempts : 0..3]
        /\ row.state # "done" /\ row.attempts \in 1..3
      BY <2>2
  <2>7. JobsFit'
      BY <1>0, <1>2, <2>2, <2>3, <2>4, <2>5, <2>6, EndKeepsJobs
  <2> QED
      BY <1>1, <2>7 DEF Inv
<1>3. CASE work \notin DOMAIN jobs
  <2>1. jobs' = jobs /\ issues' = issues
      BY <1>3 DEF Fail, IssuesAfter
  <2>2. JobsFit'
      BY <1>0, <1>3, <2>1, LostKeepsJobs
  <2> QED
      BY <1>1, <2>2 DEF Inv
<1> QED
    BY <1>2, <1>3

(* The executor begins an attempt at a contract, ... *)
LEMMA ExecutorStartInv ==
    ASSUME Inv, NEW e \in Events, ExecutorStart(e)
    PROVE  Inv'
<1> DEFINE job == CompileJob(e)
<1>1. /\ JobsFit /\ job \notin issues /\ Claimable(job) /\ jobs' = Claimed(job)
      /\ UNCHANGED issues
    BY DEF Inv, ExecutorStart
<1>2. job \in JobNames /\ job \in Compilations
    BY CompileName
<1>3. executor = None /\ executor' = job /\ work' = work /\ ~Running("interpret")
    BY DEF ExecutorStart
<1> HIDE DEF job
<1>4. JobsFit'
    BY <1>1, <1>2, <1>3, StartKeepsJobs DEF Starts
<1>5. TablesFit' /\ SuggestionsRest'
    BY SameTables DEF ExecutorStart, catalogue, Inv
<1> QED
    BY <1>4, <1>5 DEF Inv

(* ... and ends it, whatever the lane does meanwhile. *)
LEMMA ExecutorEndInv ==
    ASSUME Inv, ExecutorEnd
    PROVE  Inv'
<1>0. JobsFit /\ executor # None /\ Ends(executor) /\ issues' = issues
    BY DEF Inv, ExecutorEnd, Ends
<1>1. TablesFit' /\ SuggestionsRest'
    BY SameTables DEF ExecutorEnd, catalogue, Inv
<1>2. CASE executor \notin DOMAIN jobs
  <2>1. jobs' = jobs
      BY <1>2 DEF ExecutorEnd
  <2>2. JobsFit'
      BY <1>0, <1>2, <2>1, LostKeepsJobs
  <2> QED
      BY <1>1, <2>2 DEF Inv
<1>3. ASSUME NEW row, jobs' = [jobs EXCEPT ![executor] = row],
             row \in [state : {"pending", "done", "failed"}, attempts : 0..3],
             row.state = "done" => row.attempts = 0,
             row.state # "done" => row.attempts \in 1..3,
             row.state = "pending" => row.attempts < 3
      PROVE  Inv'
  <2>1. JobsFit'
      BY <1>0, <1>3, EndKeepsJobs
  <2> QED
      BY <1>1, <2>1 DEF Inv
<1>4. CASE executor \in DOMAIN jobs /\ jobs' = Completed(executor)
  <2> DEFINE done == [state |-> "done", attempts |-> 0]
  <2>1. jobs' = [jobs EXCEPT ![executor] = done]
      BY <1>4 DEF Completed
  <2>2. done \in [state : {"pending", "done", "failed"}, attempts : 0..3]
        /\ done.state = "done" /\ done.attempts = 0
      OBVIOUS
  <2> HIDE DEF done
  <2> QED
      BY <1>3, <2>1, <2>2
<1>5. CASE executor \in DOMAIN jobs /\ jobs' = [jobs EXCEPT ![executor] = GivenBack(@)]
  <2> DEFINE row == GivenBack(jobs[executor])
  <2>1. jobs' = [jobs EXCEPT ![executor] = row]
      BY <1>5
  <2>2. /\ jobs[executor] \in
              [state : {"pending", "running", "done", "failed"}, attempts : 0..3]
        /\ jobs[executor].attempts \in 1..3
      BY <1>0, <1>5 DEF JobsFit
  <2>3. /\ row \in [state : {"pending", "failed"}, attempts : 1..3]
        /\ row.state = "pending" => row.attempts < 3
      BY <2>2, GivenBackRow
  <2> HIDE DEF row
  <2>4. row \in [state : {"pending", "done", "failed"}, attempts : 0..3]
        /\ row.state # "done" /\ row.attempts \in 1..3
      BY <2>3
  <2> QED
      BY <1>3, <2>1, <2>3, <2>4
<1> QED
    BY <1>2, <1>4, <1>5 DEF ExecutorEnd

-----------------------------------------------------------------------------
(* Jobs that are withdrawn with what they rest on leave the others alone.  *)
LEMMA JobsWithoutKeeps ==
    ASSUME JobsFit, NEW S, jobs' = JobsWithout(S), issues' \subseteq issues,
           UNCHANGED <<work, executor>>
    PROVE  JobsFit'
<1>1. /\ DOMAIN jobs' = DOMAIN jobs \ S
      /\ \A j \in DOMAIN jobs' : j \in DOMAIN jobs /\ jobs'[j] = jobs[j]
    BY DEF JobsWithout
<1> QED
    BY <1>1 DEF JobsFit, Running

(* What Store.invalidate leaves rests on the semantics of other events     *)
(* only: every suggestion that compared the old one is gone.               *)
LEMMA InvalidateRests ==
    ASSUME TablesFit, SuggestionsRest, NEW e \in Events, Invalidate(e),
           \A d \in Events \ {e} : revision'[d] = revision[d]
    PROVE  /\ explained' = explained \ {e}
           /\ made' \in [Events -> Nat]
           /\ suggestions' \in [Events -> Suggestions \cup {None}]
           /\ SuggestionsRest'
<1>1. /\ explained' = explained \ {e}
      /\ suggestions' = [x \in Events |-> IF RestsOn(x, e) THEN None ELSE suggestions[x]]
      /\ made' = [made EXCEPT ![e] = 0]
    BY DEF Invalidate
<1>2. made' \in [Events -> Nat] /\ suggestions' \in [Events -> Suggestions \cup {None}]
    BY <1>1 DEF TablesFit
<1>3. ASSUME NEW x \in Events, suggestions'[x] # None
      PROVE  /\ x \in explained'
             /\ \A s \in suggestions'[x].signature.ready : ExplanationCurrent(s)'
  <2>1. ~RestsOn(x, e) /\ suggestions'[x] = suggestions[x]
      BY <1>1, <1>3
  <2>2. /\ x # e /\ x \in explained
        /\ \A s \in suggestions[x].signature.ready : s[1] # e /\ ExplanationCurrent(s)
      BY <1>3, <2>1 DEF RestsOn, SuggestionsRest
  <2>3. ASSUME NEW s \in suggestions[x].signature.ready
        PROVE  ExplanationCurrent(s)'
    <3>1. s[1] # e /\ s[1] \in explained /\ s = <<s[1], revision[s[1]]>>
        BY <2>2 DEF ExplanationCurrent, Semantics
    <3>2. s[1] \in Events
        BY <3>1 DEF TablesFit
    <3> QED
        BY <1>1, <3>1, <3>2 DEF ExplanationCurrent, Semantics
  <2> QED
      BY <1>1, <2>1, <2>2, <2>3
<1> QED
    BY <1>1, <1>2, <1>3 DEF SuggestionsRest

(* A contract is captured again. *)
LEMMA RecaptureInv ==
    ASSUME Inv, NEW e \in Events, Recapture(e)
    PROVE  Inv'
<1>1. JobsFit'
    BY JobsWithoutKeeps DEF Recapture, Inv
<1>2. /\ explained' = explained \ {e}
      /\ made' \in [Events -> Nat]
      /\ suggestions' \in [Events -> Suggestions \cup {None}]
      /\ SuggestionsRest'
    BY InvalidateRests DEF Recapture, Inv
<1>3. TablesFit'
  <2>1. /\ capture' = [capture EXCEPT ![e] = capture[e] + 1] /\ capture \in [Events -> Nat]
        /\ valid' = valid \ {e} /\ listed' = listed /\ revision' = revision
      BY DEF Recapture, Inv, TablesFit
  <2>2. capture' \in [Events -> Nat]
      BY <2>1
  <2> QED
      BY <1>2, <2>1, <2>2 DEF Inv, TablesFit
<1> QED
    BY <1>1, <1>2, <1>3 DEF Inv

(* An event gets a new revision. *)
LEMMA SaveEventInv ==
    ASSUME Inv, NEW e \in Events, SaveEvent(e)
    PROVE  Inv'
<1>1. JobsFit'
    BY JobsWithoutKeeps DEF SaveEvent, Inv
<1>2. revision' = [revision EXCEPT ![e] = revision[e] + 1] /\ revision \in [Events -> Nat]
    BY DEF SaveEvent, Inv, TablesFit
<1>3. /\ explained' = explained \ {e}
      /\ made' \in [Events -> Nat]
      /\ suggestions' \in [Events -> Suggestions \cup {None}]
      /\ SuggestionsRest'
    BY <1>2, InvalidateRests DEF SaveEvent, Inv
<1>4. revision'[e] \in DOMAIN Texts[e]
  <2>1. Texts[e] \in Seq(SUBSET Nat) /\ revision[e] < Len(Texts[e])
      BY AnalysisAssumption DEF SaveEvent
  <2>2. DOMAIN Texts[e] = 1..Len(Texts[e]) /\ Len(Texts[e]) \in Nat
      BY <2>1
  <2> QED
      BY <1>2, <2>1, <2>2
<1>5. TablesFit'
  <2>1. /\ valid' = valid \cup {e} /\ listed' = listed \cup {e} /\ capture' = capture
      BY DEF SaveEvent
  <2>2. revision' \in [Events -> Nat]
      BY <1>2
  <2>3. \A d \in valid' : revision'[d] \in DOMAIN Texts[d]
      BY <1>2, <1>4, <2>1 DEF Inv, TablesFit
  <2> QED
      BY <1>3, <2>1, <2>2, <2>3 DEF Inv, TablesFit
<1> QED
    BY <1>1, <1>3, <1>5 DEF Inv

(* An event is retired, or listed again. *)
LEMMA ListingInv ==
    ASSUME Inv, NEW e \in Events, Delist(e) \/ Relist(e)
    PROVE  Inv'
<1>1. /\ UNCHANGED <<revision, capture, valid, explained, suggestions, made, issues, jobs,
                  work, executor>>
      /\ listed' \subseteq Events
    BY DEF Delist, Relist, Inv, TablesFit
<1>2. JobsFit'
    BY <1>1 DEF JobsFit, Running, Inv
<1>3. TablesFit' /\ SuggestionsRest'
    BY <1>1 DEF TablesFit, SuggestionsRest, ExplanationCurrent, Semantics, Inv
<1> QED
    BY <1>2, <1>3 DEF Inv

(* The process is started again: no attempt is under way.                  *)
LEMMA CrashInv ==
    ASSUME Inv, Crash
    PROVE  Inv'
<1>0. JobsFit /\ work' = None /\ executor' = None /\ issues' = issues
    BY DEF Inv, Crash
<1>1. TablesFit' /\ SuggestionsRest'
    BY SameTables DEF Crash, catalogue, Inv
<1>2. DOMAIN jobs' = DOMAIN jobs
    BY DEF Crash
<1>3. ASSUME NEW j \in DOMAIN jobs'
      PROVE  /\ jobs'[j] \in [state : {"pending", "running", "done", "failed"}, attempts : 0..3]
             /\ jobs'[j].state = "done" => jobs'[j].attempts = 0
             /\ jobs'[j].state # "done" => jobs'[j].attempts \in 1..3
             /\ jobs'[j].state = "pending" => jobs'[j].attempts < 3
             /\ jobs'[j].state # "running" /\ j \notin {work', executor'}
             /\ jobs[j].state = "failed" => jobs'[j].state = "failed"
  <2>0. j \in DOMAIN jobs /\ j # None
      BY <1>0, <1>2, NamesAreNone DEF JobsFit
  <2>1. CASE jobs[j].state = "running"
    <3>1. jobs'[j] = GivenBack(jobs[j])
        BY <2>0, <2>1 DEF Crash, State
    <3>2. /\ jobs[j] \in [state : {"pending", "running", "done", "failed"}, attempts : 0..3]
          /\ jobs[j].attempts \in 1..3
        BY <1>0, <2>0, <2>1 DEF JobsFit
    <3>3. /\ jobs'[j] \in [state : {"pending", "failed"}, attempts : 1..3]
          /\ jobs'[j].attempts = jobs[j].attempts
          /\ jobs'[j].state = "pending" => jobs[j].attempts < 3
        BY <3>1, <3>2, GivenBackRow
    <3> QED
        BY <1>0, <2>0, <2>1, <3>3
  <2>2. CASE jobs[j].state # "running"
    <3>1. jobs'[j] = jobs[j]
        BY <2>0, <2>2 DEF Crash, State
    <3> QED
        BY <1>0, <2>0, <2>2, <3>1 DEF JobsFit
  <2> QED
      BY <2>1, <2>2
<1>4. JobsFit'
  <2>1. \A j \in DOMAIN jobs' : jobs'[j].state = "running" <=> j \in {work', executor'}
      BY <1>3
  <2> QED
      BY <1>0, <1>2, <1>3, <2>1 DEF JobsFit
<1> QED
    BY <1>1, <1>4 DEF Inv

-----------------------------------------------------------------------------
(* The tables are empty. *)
LEMMA InitInv == Init => Inv
<1> SUFFICES ASSUME Init PROVE Inv
    OBVIOUS
<1>1. TablesFit /\ SuggestionsRest
    BY DEF Init, TablesFit, SuggestionsRest
<1>2. JobsFit
    BY DEF Init, JobsFit, Running
<1> QED
    BY <1>1, <1>2 DEF Inv

(* Every step of the lane and of the world around it keeps the invariant.  *)
LEMMA NextInv == Inv /\ [Next]_vars => Inv'
<1> SUFFICES ASSUME Inv, [Next]_vars PROVE Inv'
    OBVIOUS
<1>1. CASE Step
    BY <1>1, StepInv DEF Step
<1>2. CASE Answer
    BY <1>2, AnswerInv, FailInv DEF Answer
<1>3. CASE (\E e \in Events : ExecutorStart(e)) \/ ExecutorEnd
    BY <1>3, ExecutorStartInv, ExecutorEndInv
<1>4. CASE \E e \in Events : Recapture(e) \/ SaveEvent(e) \/ Delist(e) \/ Relist(e)
    BY <1>4, RecaptureInv, SaveEventInv, ListingInv
<1>5. CASE Crash
    BY <1>5, CrashInv
<1>6. CASE UNCHANGED vars
    BY <1>6 DEF vars, Inv, TablesFit, JobsFit, Running, SuggestionsRest, ExplanationCurrent,
                Semantics
<1> QED
    BY <1>1, <1>2, <1>3, <1>4, <1>5, <1>6 DEF Next

(* The job table and the explanations fit together in every behaviour.     *)
THEOREM InvAlways == Spec => []Inv
BY InitInv, NextInv, PTL DEF Spec

(* A job runs only while the lane or the executor works on it, they are    *)
(* never both at a contract (MODEL_LOCK, compiler.py:223), and no job is   *)
(* tried more than three times (Store.fail_job), for any number of events, *)
(* changes and faults.                                                     *)
THEOREM TypesAlways == Spec => []TypeOK
<1>1. Inv => TypeOK
  <2> SUFFICES ASSUME Inv PROVE TypeOK
      OBVIOUS
  <2>1. explained \subseteq valid /\ valid \cup listed \subseteq Events
      BY DEF Inv, TablesFit
  <2>2. ASSUME NEW j \in DOMAIN jobs
        PROVE  /\ jobs[j].state \in {"pending", "running", "done", "failed"}
               /\ jobs[j].attempts \in IF State(j) = "done" THEN {0} ELSE 1..3
               /\ jobs[j].state = "pending" => jobs[j].attempts < 3
               /\ jobs[j].state = "running" <=> j \in {work, executor}
      BY DEF Inv, JobsFit, State
  <2>3. \A j \in issues : State(j) \in {"unknown", "failed"}
      BY DEF Inv, JobsFit, State
  <2>4. executor # None => ~Running("interpret")
      BY DEF Inv, JobsFit
  <2> QED
      BY <2>1, <2>2, <2>3, <2>4 DEF TypeOK
<1> QED
    BY InvAlways, <1>1, PTL

(* Suggestions shown as current compare current explanations, whatever     *)
(* changed while the model compared them (explanations.py:406).            *)
THEOREM SuggestionsAlwaysRest == Spec => []SuggestionsRest
<1>1. Inv => SuggestionsRest
    BY DEF Inv
<1> QED
    BY InvAlways, <1>1, PTL
=============================================================================
