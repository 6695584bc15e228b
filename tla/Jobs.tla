-------------------------------- MODULE Jobs --------------------------------
(***************************************************************************)
(* Durable jobs: the tables `jobs` and `attempts` of store.py, the threads *)
(* that run jobs, and the crashes and restarts between them.               *)
(*                                                                         *)
(* Two threads claim jobs.  The executor (app.py) is one worker thread     *)
(* with a queue in memory, filled by the API and, at startup, from the     *)
(* pending rows.  The lane (sync.py, explanations.py) takes one job per    *)
(* tick straight from the table.  A compile job can reach both: it is      *)
(* submitted by the API and found again by the analysis lane.              *)
(*                                                                         *)
(* Transactions commit or roll back as a whole, so a crash leaves the      *)
(* tables as the last transaction left them and empties the queue.         *)
(***************************************************************************)
EXTENDS Naturals, Sequences, FiniteSets

CONSTANTS Captures,     \* jobs of POST /api/capture
          Compiles,     \* jobs of POST /api/compile and of the analysis lane
          Explains,     \* explain and match jobs, of the analysis lane only
          Configured,   \* the compile jobs whose model the server was given
          None,         \* no job
          MaxCrashes,   \* bound on the crashes explored
          MaxQueue      \* bound on the executor's queue

JobIds == Captures \cup Compiles \cup Explains

ASSUME JobsAssumption ==
    /\ Configured \subseteq Compiles
    /\ Captures \cap (Compiles \cup Explains) = {}
    /\ Compiles \cap Explains = {}
    /\ None \notin JobIds
    /\ MaxCrashes \in Nat
    /\ MaxQueue \in Nat

Threads == {"executor", "lane"}

AttemptLimit == 3

VARIABLES state,    \* the column jobs.state; "absent" before the row exists
          attempts, \* the column jobs.attempts
          log,      \* the rows of `attempts`, per job, in the order of insertion
          output,   \* the attempt whose output jobs.output names, 0 for none
          fresh,    \* whether every input of the job is current
          named,    \* the jobs that the lane's walk comes to as things stand
          queue,    \* what was submitted to the executor
          busy,     \* the job each thread is running
          up,       \* whether the process runs
          crashes   \* how often it has crashed

vars == <<state, attempts, log, output, fresh, named, queue, busy, up, crashes>>

Init ==
    /\ state = [j \in JobIds |-> "absent"]
    /\ attempts = [j \in JobIds |-> 0]
    /\ log = [j \in JobIds |-> <<>>]
    /\ output = [j \in JobIds |-> 0]
    /\ fresh = [j \in JobIds |-> TRUE]
    /\ named = {}
    /\ queue = <<>>
    /\ busy = [t \in Threads |-> None]
    /\ up = TRUE
    /\ crashes = 0

Row(j, outcome) == [number |-> attempts[j], outcome |-> outcome]

-----------------------------------------------------------------------------
(* POST /api/capture and POST /api/compile: Store.enqueue, then submit.   *)
(* A capture is a new job each time (requested_at); a compile request     *)
(* submits an existing job again.  enqueue refuses obsolete inputs.       *)
Request(j) ==
    /\ up
    /\ j \in Captures \cup Configured
    /\ j \in Captures => state[j] = "absent"
    /\ fresh[j]
    /\ Len(queue) < MaxQueue
    /\ state' = [state EXCEPT ![j] = IF @ = "absent" THEN "pending" ELSE @]
    /\ queue' = Append(queue, j)
    /\ UNCHANGED <<attempts, log, output, fresh, named, busy, up, crashes>>

(* POST /api/jobs/{id}/retry, for captures only. *)
Retry(j) ==
    /\ up
    /\ j \in Captures
    /\ state[j] = "pending"
    /\ Len(queue) < MaxQueue
    /\ queue' = Append(queue, j)
    /\ UNCHANGED <<state, attempts, log, output, fresh, named, busy, up, crashes>>

(* AnalysisEngine.step walks the active events with current semantics, of *)
(* each the chunks of its text, its contracts and the present signature of *)
(* its matches, as far as they have no output yet.  A capture, a delisting *)
(* or another explanation changes which jobs that names; a job of an older *)
(* signature or of a delisted event keeps its row and is not come to.      *)
Rename(j) ==
    /\ up
    /\ j \in Compiles \cup Explains
    /\ fresh[j] /\ state[j] # "done"
    /\ named' = IF j \in named THEN named \ {j} ELSE named \cup {j}
    /\ UNCHANGED <<state, attempts, log, output, fresh, queue, busy, up, crashes>>

(* The lane enqueues what it is about to claim. *)
LaneEnqueue(j) ==
    /\ up
    /\ j \in named
    /\ busy["lane"] = None
    /\ state[j] = "absent"
    /\ state' = [state EXCEPT ![j] = "pending"]
    /\ UNCHANGED <<attempts, log, output, fresh, named, queue, busy, up, crashes>>

(* Faulty variant: only a running job is refused. *)
ClaimableUnlessRunning(j) == state[j] # "running" /\ attempts[j] < AttemptLimit

(* Store.claim_job gives the job out. *)
Claimable(j) == state[j] = "pending" /\ attempts[j] < AttemptLimit

(* Faulty variant: the attempt is not counted. *)
ClaimUncounted(t, j) ==
    /\ state' = [state EXCEPT ![j] = "running"]
    /\ busy' = [busy EXCEPT ![t] = j]
    /\ UNCHANGED attempts

Claim(t, j) ==
    /\ state' = [state EXCEPT ![j] = "running"]
    /\ attempts' = [attempts EXCEPT ![j] = @ + 1]
    /\ busy' = [busy EXCEPT ![t] = j]

(* run_compile_job claims and runs under MODEL_LOCK. *)
ModelFree == \A t \in Threads : busy[t] \notin Compiles

(* The executor takes the next submission; one that cannot be claimed     *)
(* (already done, running, exhausted) is passed over.                     *)
ExecutorTake ==
    /\ up
    /\ busy["executor"] = None
    /\ queue # <<>>
    /\ Head(queue) \in Compiles => ModelFree
    /\ IF Claimable(Head(queue)) THEN Claim("executor", Head(queue))
       ELSE UNCHANGED <<state, attempts, busy>>
    /\ queue' = Tail(queue)
    /\ UNCHANGED <<log, output, fresh, named, up, crashes>>

(* One tick of the lane.  What the walk names has current inputs, so a job *)
(* whose inputs changed is not claimed again.                              *)
LaneTake(j) ==
    /\ up
    /\ busy["lane"] = None
    /\ j \in named
    /\ j \in Compiles => ModelFree
    /\ Claimable(j)
    /\ Claim("lane", j)
    /\ UNCHANGED <<log, output, fresh, named, queue, up, crashes>>

-----------------------------------------------------------------------------
(* Faulty variant: the attempts row is left to fail_job. *)
CompleteUnlogged(t) ==
    /\ up
    /\ busy[t] # None
    /\ LET j == busy[t]
       IN  /\ state[j] = "running"
           /\ fresh[j]
           /\ state' = [state EXCEPT ![j] = "done"]
           /\ output' = [output EXCEPT ![j] = attempts[j]]
           /\ named' = named \ {j}
    /\ busy' = [busy EXCEPT ![t] = None]
    /\ UNCHANGED <<attempts, log, fresh, queue, up, crashes>>

(* The transaction that stores the output and calls complete_job. *)
Complete(t) ==
    /\ up
    /\ busy[t] # None
    /\ LET j == busy[t]
       IN  /\ state[j] = "running"
           /\ fresh[j]
           /\ state' = [state EXCEPT ![j] = "done"]
           /\ output' = [output EXCEPT ![j] = attempts[j]]
           /\ log' = [log EXCEPT ![j] = Append(@, Row(j, "done"))]
           /\ named' = named \ {j}
    /\ busy' = [busy EXCEPT ![t] = None]
    /\ UNCHANGED <<attempts, fresh, queue, up, crashes>>

(* Faulty variant: the limit is left to the next claim. *)
AlwaysPending(j) == "pending"

(* What fail_job and the startup make of a job whose attempt ended badly. *)
AfterFailure(j) == IF attempts[j] >= AttemptLimit THEN "failed" ELSE "pending"

(* Faulty variant: the exception ends the attempt, and no fail_job is     *)
(* called.                                                                *)
FailSilently(t) ==
    /\ up
    /\ busy[t] # None
    /\ busy' = [busy EXCEPT ![t] = None]
    /\ UNCHANGED <<state, attempts, log, output, fresh, named, queue, up, crashes>>

(* Store.fail_job, called with whatever the attempt raised: a timeout, a  *)
(* bad response, obsolete inputs found by require_current or by           *)
(* complete_job.                                                          *)
Fail(t) ==
    /\ up
    /\ busy[t] # None
    /\ LET j == busy[t]
       IN  /\ state' = [state EXCEPT ![j] = AfterFailure(j)]
           /\ log' = [log EXCEPT ![j] = Append(@, Row(j, "failed"))]
    /\ busy' = [busy EXCEPT ![t] = None]
    /\ UNCHANGED <<attempts, output, fresh, named, queue, up, crashes>>

(* Another operation makes an input of the job obsolete; it never becomes *)
(* current again.  A capture job has no inputs.                           *)
Supersede(j) ==
    /\ up
    /\ j \notin Captures
    /\ fresh[j]
    /\ fresh' = [fresh EXCEPT ![j] = FALSE]
    /\ named' = named \ {j}
    /\ UNCHANGED <<state, attempts, log, output, queue, busy, up, crashes>>

(* The process stops without warning. *)
Crash ==
    /\ up
    /\ crashes < MaxCrashes
    /\ up' = FALSE
    /\ crashes' = crashes + 1
    /\ queue' = <<>>
    /\ busy' = [t \in Threads |-> None]
    /\ UNCHANGED <<state, attempts, log, output, fresh, named>>

Interrupted == {j \in JobIds : state[j] = "running"}

(* Faulty variant: the startup recovers no job on its last attempt. *)
RecoveredButLast == [j \in JobIds |->
                       IF j \in Interrupted /\ attempts[j] < AttemptLimit THEN "pending" ELSE state[j]]

Recovered == [j \in JobIds |-> IF j \in Interrupted THEN AfterFailure(j) ELSE state[j]]

(* Faulty variant: the application starts with an empty queue. *)
NotResubmitted(q) == q = <<>>

(* The startup of app.py submits every pending capture, and every pending *)
(* compile job whose model is configured, once each.                      *)
Resubmitted(q) ==
    LET pending == {j \in Captures \cup Configured : Recovered[j] = "pending"}
    IN  /\ Len(q) = Cardinality(pending)
        /\ {q[k] : k \in DOMAIN q} = pending

(* Opening the store recovers what was running; the application starts.   *)
Restart ==
    /\ ~up
    /\ up' = TRUE
    /\ state' = Recovered
    /\ log' = [j \in JobIds |-> IF j \in Interrupted
                                THEN Append(log[j], Row(j, "interrupted")) ELSE log[j]]
    /\ \E n \in 0..Cardinality(JobIds) :
         \E q \in [1..n -> JobIds] : Resubmitted(q) /\ queue' = q
    /\ UNCHANGED <<attempts, output, fresh, named, busy, crashes>>

Next ==
    \/ \E j \in JobIds : Request(j)
    \/ \E j \in JobIds : Retry(j)
    \/ \E j \in JobIds : Rename(j)
    \/ \E j \in JobIds : LaneEnqueue(j)
    \/ ExecutorTake
    \/ \E j \in JobIds : LaneTake(j)
    \/ \E t \in Threads : Complete(t)
    \/ \E t \in Threads : Fail(t)
    \/ \E j \in JobIds : Supersede(j)
    \/ Crash
    \/ Restart

(* An attempt ends: generation and retrieval have timeouts, and every     *)
(* exception reaches fail_job.                                            *)
Finish(t) == Complete(t) \/ Fail(t)

(* A walk of the lane enqueues or claims the first job it comes to that it *)
(* can.                                                                    *)
Walk == \E j \in JobIds : LaneEnqueue(j) \/ LaneTake(j)

(* The executor drains its queue, the analysis lane walks as long as the   *)
(* process runs, and the operator restarts a process that crashed.  No job *)
(* of the lane is promised a turn of its own: it gets one when the walk    *)
(* still names it and those before it have used up their attempts.         *)
Fairness ==
    /\ WF_vars(ExecutorTake)
    /\ WF_vars(Walk)
    /\ \A t \in Threads : WF_vars(Finish(t))
    /\ WF_vars(Restart)

Spec == Init /\ [][Next]_vars

FairSpec == Spec /\ Fairness

-----------------------------------------------------------------------------
Outcomes == {"done", "failed", "interrupted"}

(* Every column holds what the code can write into it. *)
TypeOK ==
    /\ state \in [JobIds -> {"absent", "pending", "running", "done", "failed"}]
    /\ attempts \in [JobIds -> 0..AttemptLimit]
    /\ log \in [JobIds -> Seq([number : 1..AttemptLimit, outcome : Outcomes])]
    /\ output \in [JobIds -> 0..AttemptLimit]
    /\ fresh \in [JobIds -> BOOLEAN]
    /\ named \subseteq {j \in Compiles \cup Explains : fresh[j]}
    /\ queue \in Seq(JobIds)
    /\ busy \in [Threads -> JobIds \cup {None}]
    /\ up \in BOOLEAN
    /\ crashes \in 0..MaxCrashes

(* No job waits for an attempt that claim_job would refuse: a pending job  *)
(* has attempts left, also when the attempts were lost to crashes, and a   *)
(* failed one has used them all.                                           *)
PendingIsClaimable ==
    \A j \in JobIds : /\ state[j] = "pending" => attempts[j] < AttemptLimit
                      /\ state[j] = "failed" => attempts[j] = AttemptLimit

Holders(j) == {t \in Threads : busy[t] = j}

(* A job is running exactly when one thread has it: no two threads run the *)
(* compile job that reached both, and none stays "running" with nobody to  *)
(* end it once the process is up.                                          *)
RunningIsHeld ==
    \A j \in JobIds :
      /\ \A t, u \in Holders(j) : t = u
      /\ Holders(j) # {} => state[j] = "running"
      /\ up /\ state[j] = "running" => Holders(j) # {}

(* The attempts rows are the history of the job: one row per attempt that  *)
(* ended, numbered from 1, whether it completed, failed or was cut off by  *)
(* a crash; a done job ends with its only "done" row, the one its output   *)
(* comes from.                                                             *)
AttemptsAccounted ==
    \A j \in JobIds :
      /\ Len(log[j]) = IF state[j] = "running" THEN attempts[j] - 1 ELSE attempts[j]
      /\ \A k \in 1..Len(log[j]) :
           /\ log[j][k].number = k
           /\ log[j][k].outcome = "done" <=> state[j] = "done" /\ k = output[j]
      /\ output[j] = IF state[j] = "done" THEN attempts[j] ELSE 0

(* A finished job stays finished: no late answer, resubmission, retry or   *)
(* restart reopens a done or failed job or replaces its output.            *)
FinalStays ==
    [][\A j \in JobIds : state[j] \in {"done", "failed"} =>
         state'[j] = state[j] /\ output'[j] = output[j] /\ attempts'[j] = attempts[j]]_vars

(* What the API accepted is attempted, even when the process crashes with  *)
(* the submission still in the queue.                                      *)
AcceptedIsAttempted ==
    \A j \in Captures \cup Configured :
      (\E k \in DOMAIN queue : queue[k] = j) ~> attempts[j] > 0

(* What the lane's walk names is brought to an end, and so is what the     *)
(* walk no longer names but still runs: such a job is done, has failed for *)
(* good, or is neither named nor running, because its inputs, its event or *)
(* its signature changed.  The promise is renewed each time the walk names *)
(* a job again, so one is left pending only where the walk stays away.     *)
LaneJobsEnd ==
    \A j \in Compiles \cup Explains :
      j \in named \/ state[j] = "running" ~>
        state[j] \in {"done", "failed"} \/ (j \notin named /\ state[j] # "running")
=============================================================================
