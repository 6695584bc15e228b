----------------------------- MODULE JobsProofs -----------------------------
(* The job table for every number of jobs, crashes and submissions. *)
EXTENDS Jobs, TLAPS

(* What the invariants of Jobs leave unsaid: a process that is down runs   *)
(* nothing, and the count of attempts is where the state can have left it. *)
DownIsIdle == ~up => \A t \in Threads : busy[t] = None

AttemptsFit ==
    \A j \in JobIds :
      /\ state[j] = "absent" => attempts[j] = 0
      /\ state[j] \in {"running", "done"} => attempts[j] >= 1

Inv ==
    /\ TypeOK
    /\ PendingIsClaimable
    /\ RunningIsHeld
    /\ AttemptsAccounted
    /\ DownIsIdle
    /\ AttemptsFit

(* The invariant holds before the first request. *)
LEMMA InitInv == Init => Inv
<1> SUFFICES ASSUME Init PROVE Inv
    OBVIOUS
<1> USE DEF Init
<1>1. TypeOK
    BY JobsAssumption DEF TypeOK, AttemptLimit
<1>2. PendingIsClaimable /\ AttemptsFit /\ DownIsIdle
    BY DEF PendingIsClaimable, AttemptsFit, DownIsIdle, AttemptLimit
<1>3. RunningIsHeld
    BY JobsAssumption DEF RunningIsHeld, Holders
<1>4. AttemptsAccounted
    BY DEF AttemptsAccounted
<1> QED
    BY <1>1, <1>2, <1>3, <1>4 DEF Inv

(* A job a thread has is running, so it has an attempt to log.             *)
LEMMA BusyIsRunning ==
    ASSUME Inv, NEW t \in Threads, busy[t] # None
    PROVE  /\ busy[t] \in JobIds
           /\ state[busy[t]] = "running"
           /\ attempts[busy[t]] \in 1..AttemptLimit
           /\ \A u \in Threads \ {t} : busy[u] # busy[t]
<1>1. busy[t] \in JobIds
    BY DEF Inv, TypeOK
<1>2. t \in Holders(busy[t])
    BY DEF Holders
<1>3. state[busy[t]] = "running" /\ \A u \in Holders(busy[t]) : u = t
    BY <1>1, <1>2 DEF Inv, RunningIsHeld
<1>4. attempts[busy[t]] \in 1..AttemptLimit
    BY <1>1, <1>3 DEF Inv, TypeOK, AttemptsFit, AttemptLimit
<1> QED
    BY <1>1, <1>3, <1>4 DEF Holders

(* A claim keeps the invariant: the job gets a holder, its first.          *)
LEMMA ClaimInv ==
    ASSUME Inv, NEW t \in Threads, NEW j \in JobIds,
           up, busy[t] = None, Claimable(j), Claim(t, j),
           queue' \in Seq(JobIds),
           UNCHANGED <<log, output, fresh, named, up, crashes>>
    PROVE  Inv'
<1> USE DEF Claim, Claimable
<1>0. /\ state \in [JobIds -> {"absent", "pending", "running", "done", "failed"}]
      /\ attempts \in [JobIds -> 0..AttemptLimit]
    BY DEF Inv, TypeOK
<1>1. TypeOK'
  <2>1. state' \in [JobIds -> {"absent", "pending", "running", "done", "failed"}]
      BY DEF Inv, TypeOK
  <2>2. attempts' \in [JobIds -> 0..AttemptLimit]
      BY <1>0 DEF AttemptLimit
  <2>3. busy' \in [Threads -> JobIds \cup {None}]
      BY DEF Inv, TypeOK
  <2> QED
      BY <2>1, <2>2, <2>3 DEF Inv, TypeOK
<1>2. PendingIsClaimable' /\ AttemptsFit'
    BY <1>0 DEF Inv, PendingIsClaimable, AttemptsFit, AttemptLimit
<1>3. DownIsIdle'
    BY DEF DownIsIdle
<1>4. RunningIsHeld'
  <2>1. Holders(j) = {} /\ j # None
      BY JobsAssumption DEF Inv, RunningIsHeld
  <2>2. Holders(j)' = {t}
      BY <2>1 DEF Holders, Inv, TypeOK
  <2>3. \A k \in JobIds \ {j} : Holders(k)' = Holders(k)
      BY JobsAssumption DEF Holders, Inv, TypeOK
  <2>4. state'[j] = "running" /\ \A k \in JobIds \ {j} : state'[k] = state[k]
      BY DEF Inv, TypeOK
  <2> QED
      BY <2>2, <2>3, <2>4 DEF Inv, RunningIsHeld
<1>5. AttemptsAccounted'
    BY DEF Inv, TypeOK, AttemptsAccounted, AttemptLimit
<1> QED
    BY <1>1, <1>2, <1>3, <1>4, <1>5 DEF Inv

(* The end of an attempt keeps the invariant: one row is appended, and the *)
(* output is the attempt's exactly when the row says "done".               *)
LEMMA EndInv ==
    ASSUME Inv, NEW t \in Threads, NEW j \in JobIds, NEW outcome \in Outcomes,
           NEW next \in {"pending", "failed", "done"},
           up, busy[t] = j,
           next = "done" <=> outcome = "done",
           next # "done" => next = AfterFailure(j),
           state' = [state EXCEPT ![j] = next],
           log' = [log EXCEPT ![j] = Append(@, Row(j, outcome))],
           output' = IF next = "done" THEN [output EXCEPT ![j] = attempts[j]] ELSE output,
           busy' = [busy EXCEPT ![t] = None],
           named' \subseteq named,
           UNCHANGED <<attempts, fresh, queue, up, crashes>>
    PROVE  Inv'
<1>1. /\ j # None
      /\ state[j] = "running"
      /\ attempts[j] \in 1..AttemptLimit
      /\ \A u \in Threads \ {t} : busy[u] # j
    BY BusyIsRunning, JobsAssumption
<1>2. TypeOK'
  <2>1. Row(j, outcome) \in [number : 1..AttemptLimit, outcome : Outcomes]
      BY <1>1 DEF Row
  <2>2. state' \in [JobIds -> {"absent", "pending", "running", "done", "failed"}]
      BY DEF Inv, TypeOK
  <2>3. log' \in [JobIds -> Seq([number : 1..AttemptLimit, outcome : Outcomes])]
    <3> DEFINE Rows == [number : 1..AttemptLimit, outcome : Outcomes]
    <3>1. log \in [JobIds -> Seq(Rows)] /\ Row(j, outcome) \in Rows
        BY <2>1 DEF Inv, TypeOK
    <3> HIDE DEF Rows
    <3>2. log' \in [JobIds -> Seq(Rows)]
        BY <3>1
    <3> QED
        BY <3>2 DEF Rows
  <2>4. output' \in [JobIds -> 0..AttemptLimit]
      BY <1>1 DEF Inv, TypeOK, AttemptLimit
  <2>5. busy' \in [Threads -> JobIds \cup {None}]
      BY DEF Inv, TypeOK
  <2> QED
      BY <2>2, <2>3, <2>4, <2>5 DEF Inv, TypeOK
<1>3. PendingIsClaimable' /\ AttemptsFit' /\ DownIsIdle'
    BY <1>1 DEF Inv, TypeOK, PendingIsClaimable, AttemptsFit, DownIsIdle, AttemptLimit, AfterFailure
<1>4. RunningIsHeld'
  <2>1. Holders(j)' = {}
      BY <1>1 DEF Holders, Inv, TypeOK
  <2>2. \A k \in JobIds \ {j} : Holders(k)' = Holders(k)
      BY JobsAssumption DEF Holders, Inv, TypeOK
  <2> QED
      BY <2>1, <2>2 DEF Inv, TypeOK, RunningIsHeld
<1>5. AttemptsAccounted'
  <2> DEFINE Accounted(k) ==
          /\ Len(log[k]) = IF state[k] = "running" THEN attempts[k] - 1 ELSE attempts[k]
          /\ \A r \in 1..Len(log[k]) :
               /\ log[k][r].number = r
               /\ log[k][r].outcome = "done" <=> state[k] = "done" /\ r = output[k]
          /\ output[k] = IF state[k] = "done" THEN attempts[k] ELSE 0
  <2>1. \A k \in JobIds : Accounted(k)
      BY DEF Inv, AttemptsAccounted
  <2>2. \A k \in JobIds \ {j} : Accounted(k)'
      BY <2>1 DEF Inv, TypeOK
  <2>3. Accounted(j)'
    <3>1. log[j] \in Seq([number : 1..AttemptLimit, outcome : Outcomes])
        BY DEF Inv, TypeOK
    <3>2. /\ log'[j] = Append(log[j], Row(j, outcome))
          /\ state'[j] = next
          /\ output'[j] = IF next = "done" THEN attempts[j] ELSE output[j]
        BY DEF Inv, TypeOK
    <3>3. Len(log[j]) = attempts[j] - 1 /\ output[j] = 0
        BY <1>1, <2>1
    <3>4. Len(log'[j]) = attempts[j] /\ log'[j][attempts[j]] = Row(j, outcome)
        BY <1>1, <3>1, <3>2, <3>3 DEF AttemptLimit
    <3>5. \A r \in 1..(attempts[j] - 1) : log'[j][r] = log[j][r]
        BY <1>1, <3>1, <3>2, <3>3 DEF AttemptLimit
    <3>6. \A r \in 1..(attempts[j] - 1) :
            log[j][r].number = r /\ log[j][r].outcome # "done"
        BY <1>1, <2>1, <3>3
    <3>7. /\ Row(j, outcome).number = attempts[j] /\ Row(j, outcome).outcome = outcome
          /\ attempts' = attempts
        BY DEF Row
    <3> HIDE DEF Accounted
    <3>8. \A r \in 1..attempts[j] :
            /\ log'[j][r].number = r
            /\ log'[j][r].outcome = "done" <=> next = "done" /\ r = attempts[j]
      <4>1. \A r \in 1..attempts[j] : r = attempts[j] \/ r \in 1..(attempts[j] - 1)
          BY <1>1 DEF AttemptLimit
      <4>2. \A r \in 1..(attempts[j] - 1) : r # attempts[j]
          BY <1>1 DEF AttemptLimit
      <4> QED
          BY <3>4, <3>5, <3>6, <3>7, <4>1, <4>2
    <3> QED
        BY <1>1, <3>2, <3>3, <3>4, <3>7, <3>8 DEF Accounted, AttemptLimit
  <2> QED
      BY <2>2, <2>3 DEF AttemptsAccounted
<1> QED
    BY <1>2, <1>3, <1>4, <1>5 DEF Inv

(* A restart keeps the invariant: what nobody holds is not left running,   *)
(* and the interrupted attempt is logged.                                  *)
LEMMA RestartInv == Inv /\ Restart => Inv'
<1> SUFFICES ASSUME Inv, Restart PROVE Inv'
    OBVIOUS
<1> DEFINE Rows == [number : 1..AttemptLimit, outcome : Outcomes]
<1>1. /\ state \in [JobIds -> {"absent", "pending", "running", "done", "failed"}]
      /\ attempts \in [JobIds -> 0..AttemptLimit]
      /\ log \in [JobIds -> Seq(Rows)]
    BY DEF Inv, TypeOK
<1>2. \A j \in Interrupted : /\ state[j] = "running"
                             /\ attempts[j] \in 1..AttemptLimit
                             /\ Row(j, "interrupted") \in Rows
    BY <1>1 DEF Interrupted, Row, Inv, AttemptsFit, AttemptLimit, Outcomes
<1>3. /\ \A j \in Interrupted : state'[j] = AfterFailure(j)
      /\ \A j \in JobIds \ Interrupted : state'[j] = state[j] /\ state[j] # "running"
    BY DEF Restart, Recovered, Interrupted
<1>4. /\ \A j \in Interrupted : log'[j] = Append(log[j], Row(j, "interrupted"))
      /\ \A j \in JobIds \ Interrupted : log'[j] = log[j]
    BY DEF Restart, Interrupted
<1>5. \A j \in Interrupted : AfterFailure(j) \in {"pending", "failed"}
    BY DEF AfterFailure
<1>6. TypeOK'
  <2>1. state' \in [JobIds -> {"absent", "pending", "running", "done", "failed"}]
      BY <1>1, <1>5 DEF Restart, Recovered
  <2>2. log' \in [JobIds -> Seq(Rows)]
    <3> HIDE DEF Rows
    <3> QED
        BY <1>1, <1>2 DEF Restart
  <2>3. queue' \in Seq(JobIds)
      BY DEF Restart
  <2>4. up' \in BOOLEAN
      BY DEF Restart
  <2> QED
      BY <2>1, <2>2, <2>3, <2>4 DEF Inv, TypeOK, Restart
<1>7. PendingIsClaimable'
  <2>1. attempts' = attempts
      BY DEF Restart
  <2>2. \A j \in Interrupted :
          /\ AfterFailure(j) = "pending" => attempts[j] < AttemptLimit
          /\ AfterFailure(j) = "failed" => attempts[j] = AttemptLimit
      BY <1>2 DEF AfterFailure, AttemptLimit
  <2>3. PendingIsClaimable
      BY DEF Inv
  <2> QED
      BY <1>3, <2>1, <2>2, <2>3 DEF PendingIsClaimable
<1>8. RunningIsHeld'
  <2>1. ~up /\ busy' = busy /\ \A t \in Threads : busy[t] = None
      BY DEF Restart, Inv, DownIsIdle
  <2>2. \A j \in JobIds : Holders(j)' = {}
      BY <2>1, JobsAssumption DEF Holders
  <2>3. \A j \in JobIds : state'[j] # "running"
      BY <1>3, <1>5 DEF Interrupted
  <2> QED
      BY <2>2, <2>3 DEF RunningIsHeld
<1>9. AttemptsAccounted'
  <2>1. \A j \in Interrupted :
          /\ Len(log[j]) = attempts[j] - 1
          /\ output[j] = 0
          /\ \A k \in 1..Len(log[j]) : log[j][k].number = k /\ log[j][k].outcome # "done"
      BY <1>1, <1>2 DEF Inv, AttemptsAccounted, Interrupted, AttemptLimit
  <2>2. \A j \in Interrupted :
          /\ Len(log'[j]) = attempts[j]
          /\ log'[j][attempts[j]] = Row(j, "interrupted")
          /\ \A k \in 1..(attempts[j] - 1) : log'[j][k] = log[j][k]
    <3> HIDE DEF Rows
    <3> QED
        BY <1>1, <1>2, <1>4, <2>1 DEF Interrupted, AttemptLimit
  <2>3. attempts' = attempts /\ output' = output
      BY DEF Restart
  <2>4. ASSUME NEW j \in Interrupted
        PROVE  /\ Len(log'[j]) = attempts[j]
               /\ \A k \in 1..attempts[j] : /\ log'[j][k].number = k
                                            /\ log'[j][k].outcome # "done"
    <3>1. attempts[j] \in 1..AttemptLimit
        BY <1>2
    <3>2. \A k \in 1..attempts[j] : k = attempts[j] \/ k \in 1..(attempts[j] - 1)
        BY <3>1 DEF AttemptLimit
    <3>3. \A k \in 1..(attempts[j] - 1) : log'[j][k].number = k /\ log'[j][k].outcome # "done"
      <4>1. Len(log[j]) = attempts[j] - 1
          BY <2>1
      <4>2. \A k \in 1..(attempts[j] - 1) : log[j][k].number = k /\ log[j][k].outcome # "done"
          BY <2>1, <4>1
      <4>3. \A k \in 1..(attempts[j] - 1) : log'[j][k] = log[j][k]
          BY <2>2
      <4> QED
          BY <4>2, <4>3
    <3>4. log'[j][attempts[j]].number = attempts[j] /\ log'[j][attempts[j]].outcome # "done"
      <4>1. log'[j][attempts[j]] = Row(j, "interrupted")
          BY <2>2
      <4>2. Row(j, "interrupted").number = attempts[j] /\ Row(j, "interrupted").outcome # "done"
          BY DEF Row
      <4> QED
          BY <4>1, <4>2
    <3>5. Len(log'[j]) = attempts[j]
        BY <2>2
    <3> QED
        BY <3>2, <3>3, <3>4, <3>5
  <2>5. \A j \in Interrupted : state'[j] # "done" /\ state'[j] # "running"
      BY <1>3, <1>5
  <2>6. \A j \in JobIds \ Interrupted : log'[j] = log[j] /\ state'[j] = state[j]
      BY <1>3, <1>4
  <2>7. Interrupted \subseteq JobIds
      BY DEF Interrupted
  <2>8. \A j \in Interrupted : \A k \in 1..attempts[j] : k # 0
      BY <1>2 DEF AttemptLimit
  <2> QED
      BY <2>1, <2>3, <2>4, <2>5, <2>6, <2>7, <2>8 DEF Inv, AttemptsAccounted
<1>10. DownIsIdle' /\ AttemptsFit'
    BY <1>2, <1>3, <1>5 DEF Restart, DownIsIdle, Inv, AttemptsFit
<1> QED
    BY <1>6, <1>7, <1>8, <1>9, <1>10 DEF Inv

(* Every step keeps the invariant. *)
LEMMA NextInv == Inv /\ [Next]_vars => Inv'
<1> SUFFICES ASSUME Inv, [Next]_vars PROVE Inv'
    OBVIOUS
<1>1. ASSUME NEW j \in JobIds, Request(j) PROVE Inv'
  <2>1. TypeOK'
    <3>1. queue' \in Seq(JobIds)
        BY <1>1 DEF Request, Inv, TypeOK
    <3>2. state' \in [JobIds -> {"absent", "pending", "running", "done", "failed"}]
        BY <1>1 DEF Request, Inv, TypeOK
    <3> QED
        BY <1>1, <3>1, <3>2 DEF Request, Inv, TypeOK
  <2>2. \A k \in JobIds : state'[k] = state[k] \/ (state[k] = "absent" /\ state'[k] = "pending")
      BY <1>1 DEF Request, Inv, TypeOK
  <2>3. PendingIsClaimable' /\ AttemptsFit'
      BY <1>1, <2>2 DEF Request, Inv, PendingIsClaimable, AttemptsFit, AttemptLimit
  <2>4. RunningIsHeld' /\ DownIsIdle'
      BY <1>1, <2>2 DEF Request, Inv, RunningIsHeld, DownIsIdle, Holders
  <2>5. AttemptsAccounted'
      BY <1>1, <2>2 DEF Request, Inv, AttemptsAccounted
  <2> QED
      BY <2>1, <2>3, <2>4, <2>5 DEF Inv
<1>2. ASSUME NEW j \in JobIds, Retry(j) PROVE Inv'
  <2>1. TypeOK'
    <3>1. queue' \in Seq(JobIds)
        BY <1>2 DEF Retry, Inv, TypeOK
    <3> QED
        BY <1>2, <3>1 DEF Retry, Inv, TypeOK
  <2> QED
      BY <1>2, <2>1 DEF Retry, Inv, PendingIsClaimable, RunningIsHeld,
                       AttemptsAccounted, DownIsIdle, AttemptsFit, Holders
<1>3. ASSUME NEW j \in JobIds, LaneEnqueue(j) PROVE Inv'
  <2>1. TypeOK'
      BY <1>3 DEF LaneEnqueue, Inv, TypeOK
  <2>2. \A k \in JobIds : state'[k] = state[k] \/ (state[k] = "absent" /\ state'[k] = "pending")
      BY <1>3 DEF LaneEnqueue, Inv, TypeOK
  <2>3. PendingIsClaimable' /\ AttemptsFit'
      BY <1>3, <2>2 DEF LaneEnqueue, Inv, PendingIsClaimable, AttemptsFit, AttemptLimit
  <2>4. RunningIsHeld' /\ DownIsIdle'
      BY <1>3, <2>2 DEF LaneEnqueue, Inv, RunningIsHeld, DownIsIdle, Holders
  <2>5. AttemptsAccounted'
      BY <1>3, <2>2 DEF LaneEnqueue, Inv, AttemptsAccounted
  <2> QED
      BY <2>1, <2>3, <2>4, <2>5 DEF Inv
<1>4. ASSUME ExecutorTake PROVE Inv'
  <2>1. Head(queue) \in JobIds /\ queue' \in Seq(JobIds)
      BY <1>4 DEF ExecutorTake, Inv, TypeOK
  <2>2. CASE Claimable(Head(queue))
      BY <1>4, <2>1, <2>2, ClaimInv DEF ExecutorTake, Threads
  <2>3. CASE ~Claimable(Head(queue))
    <3>1. TypeOK'
        BY <1>4, <2>1, <2>3 DEF ExecutorTake, Inv, TypeOK
    <3> QED
        BY <1>4, <2>3, <3>1 DEF ExecutorTake, Inv, PendingIsClaimable, RunningIsHeld,
                         AttemptsAccounted, DownIsIdle, AttemptsFit, Holders
  <2> QED
      BY <2>2, <2>3
<1>5. ASSUME NEW j \in JobIds, LaneTake(j) PROVE Inv'
  <2>1. queue' \in Seq(JobIds)
      BY <1>5 DEF LaneTake, Inv, TypeOK
  <2> QED
      BY <1>5, <2>1, ClaimInv DEF LaneTake, Threads
<1>6. ASSUME NEW t \in Threads, Complete(t) PROVE Inv'
  <2>1. busy[t] \in JobIds
      BY <1>6, BusyIsRunning DEF Complete
  <2> DEFINE j == busy[t]
  <2>2. /\ up
        /\ state' = [state EXCEPT ![j] = "done"]
        /\ output' = [output EXCEPT ![j] = attempts[j]]
        /\ log' = [log EXCEPT ![j] = Append(@, Row(j, "done"))]
        /\ busy' = [busy EXCEPT ![t] = None]
        /\ named' \subseteq named
        /\ UNCHANGED <<attempts, fresh, queue, up, crashes>>
      BY <1>6 DEF Complete
  <2>3. "done" \in Outcomes /\ "done" \in {"pending", "failed", "done"}
      BY DEF Outcomes
  <2> QED
      BY <2>1, <2>2, <2>3, EndInv
<1>7. ASSUME NEW t \in Threads, Fail(t) PROVE Inv'
  <2>1. busy[t] \in JobIds
      BY <1>7, BusyIsRunning DEF Fail
  <2> DEFINE j == busy[t]
  <2>2. /\ up
        /\ state' = [state EXCEPT ![j] = AfterFailure(j)]
        /\ output' = output
        /\ log' = [log EXCEPT ![j] = Append(@, Row(j, "failed"))]
        /\ busy' = [busy EXCEPT ![t] = None]
        /\ named' \subseteq named
        /\ UNCHANGED <<attempts, fresh, queue, up, crashes>>
      BY <1>7 DEF Fail
  <2>3. "failed" \in Outcomes /\ AfterFailure(j) \in {"pending", "failed"}
      BY DEF Outcomes, AfterFailure
  <2>4. AfterFailure(j) # "done"
      BY <2>3
  <2> HIDE DEF j
  <2>5. busy[t] = j
      BY DEF j
  <2> QED
      BY <2>1, <2>2, <2>3, <2>4, <2>5, EndInv
<1>8. ASSUME NEW j \in JobIds, Supersede(j) PROVE Inv'
  <2>0. /\ fresh \in [JobIds -> BOOLEAN]
        /\ named \subseteq {k \in Compiles \cup Explains : fresh[k]}
      BY DEF Inv, TypeOK
  <2>1a. /\ fresh' \in [JobIds -> BOOLEAN]
         /\ \A k \in JobIds \ {j} : fresh'[k] = fresh[k]
      BY <1>8, <2>0 DEF Supersede
  <2>1b. named' \subseteq {k \in Compiles \cup Explains : fresh'[k]}
      BY <1>8, <2>0, <2>1a DEF Supersede, JobIds
  <2>1. TypeOK'
      BY <1>8, <2>1a, <2>1b DEF Supersede, Inv, TypeOK
  <2> QED
      BY <1>8, <2>1 DEF Supersede, Inv, PendingIsClaimable, RunningIsHeld,
                       AttemptsAccounted, DownIsIdle, AttemptsFit, Holders
<1>9. ASSUME Crash PROVE Inv'
  <2>1. TypeOK'
    <3>1. crashes' \in 0..MaxCrashes
        BY <1>9, JobsAssumption DEF Crash, Inv, TypeOK
    <3>2. queue' = <<>> /\ queue' \in Seq(JobIds)
        BY <1>9 DEF Crash
    <3>3. busy' \in [Threads -> JobIds \cup {None}]
        BY <1>9 DEF Crash
    <3>4. up' \in BOOLEAN
        BY <1>9 DEF Crash
    <3> QED
        BY <1>9, <3>1, <3>2, <3>3, <3>4 DEF Crash, Inv, TypeOK
  <2>2. \A j \in JobIds : Holders(j)' = {}
      BY <1>9, JobsAssumption DEF Crash, Holders
  <2>3. RunningIsHeld' /\ DownIsIdle'
      BY <1>9, <2>2 DEF Crash, RunningIsHeld, DownIsIdle
  <2> QED
      BY <1>9, <2>1, <2>3 DEF Crash, Inv, PendingIsClaimable, AttemptsAccounted, AttemptsFit
<1>10. CASE Restart
    BY <1>10, RestartInv
<1>12. ASSUME NEW j \in JobIds, Rename(j) PROVE Inv'
  <2>1. TypeOK'
      BY <1>12 DEF Rename, Inv, TypeOK
  <2> QED
      BY <1>12, <2>1 DEF Rename, Inv, PendingIsClaimable, RunningIsHeld,
                       AttemptsAccounted, DownIsIdle, AttemptsFit, Holders
<1>11. CASE UNCHANGED vars
  <2>1. TypeOK'
      BY <1>11 DEF vars, Inv, TypeOK
  <2> QED
      BY <1>11, <2>1 DEF vars, Inv, PendingIsClaimable, RunningIsHeld,
                       AttemptsAccounted, DownIsIdle, AttemptsFit, Holders
<1> QED
    BY <1>1, <1>2, <1>3, <1>4, <1>5, <1>6, <1>7, <1>8, <1>9, <1>10, <1>11, <1>12 DEF Next

(* The invariant holds throughout every behaviour. *)
THEOREM InvAlways == Spec => []Inv
<1> QED
    BY InitInv, NextInv, PTL DEF Spec

(* Every job in every run has attempts left while it is pending and has    *)
(* used them all when it has failed (store.py, claim_job and fail_job).    *)
THEOREM PendingIsClaimableAlways == Spec => []PendingIsClaimable
<1>1. Inv => PendingIsClaimable
    BY DEF Inv
<1> QED
    BY <1>1, InvAlways, PTL

(* Every job has a state of the jobs table, queue and threads hold jobs.   *)
THEOREM TypesAlways == Spec => []TypeOK
<1>1. Inv => TypeOK
    BY DEF Inv
<1> QED
    BY <1>1, InvAlways, PTL

(* At most one thread runs a job, and a running job has a thread.          *)
THEOREM RunningIsHeldAlways == Spec => []RunningIsHeld
<1>1. Inv => RunningIsHeld
    BY DEF Inv
<1> QED
    BY <1>1, InvAlways, PTL

(* The attempts rows account for every attempt, crashed ones included.     *)
THEOREM AttemptsAccountedAlways == Spec => []AttemptsAccounted
<1>1. Inv => AttemptsAccounted
    BY DEF Inv
<1> QED
    BY <1>1, InvAlways, PTL

(* No step reopens a finished job.                                         *)
LEMMA StepsRespectFinal ==
    ASSUME Inv, [Next]_vars, NEW j \in JobIds, state[j] \in {"done", "failed"}
    PROVE  state'[j] = state[j] /\ output'[j] = output[j] /\ attempts'[j] = attempts[j]
<1>1. ASSUME NEW k \in JobIds, \/ Request(k) \/ Retry(k) \/ LaneEnqueue(k)
                               \/ Supersede(k) \/ Rename(k)
      PROVE  state'[j] = state[j] /\ UNCHANGED <<output, attempts>>
    BY <1>1 DEF Request, Retry, LaneEnqueue, Supersede, Rename, Inv, TypeOK
<1>2. ASSUME NEW t \in Threads, NEW k \in JobIds, Claimable(k), Claim(t, k)
      PROVE  state'[j] = state[j] /\ attempts'[j] = attempts[j]
    BY <1>2 DEF Claim, Claimable, Inv, TypeOK
<1>3. CASE ExecutorTake
  <2>1. Head(queue) \in JobIds /\ "executor" \in Threads
      BY <1>3 DEF ExecutorTake, Inv, TypeOK, Threads
  <2> QED
      BY <1>2, <1>3, <2>1 DEF ExecutorTake
<1>4. ASSUME NEW k \in JobIds, LaneTake(k)
      PROVE  state'[j] = state[j] /\ output'[j] = output[j] /\ attempts'[j] = attempts[j]
    BY <1>2, <1>4 DEF LaneTake, Threads
<1>5. ASSUME NEW t \in Threads, Complete(t) \/ Fail(t)
      PROVE  state'[j] = state[j] /\ output'[j] = output[j] /\ attempts'[j] = attempts[j]
  <2>1. busy[t] \in JobIds \ {j}
      BY <1>5, BusyIsRunning DEF Complete, Fail
  <2> QED
      BY <1>5, <2>1 DEF Complete, Fail, Inv, TypeOK
<1>6. CASE Crash
    BY <1>6 DEF Crash
<1>7. CASE Restart
    BY <1>7 DEF Restart, Recovered, Interrupted
<1>8. CASE UNCHANGED vars
    BY <1>8 DEF vars
<1> QED
    BY <1>1, <1>3, <1>4, <1>5, <1>6, <1>7, <1>8 DEF Next

(* A done or failed job is final, whatever is resubmitted, late or lost.   *)
THEOREM FinalStaysAlways == Spec => FinalStays
<1> DEFINE A == \A j \in JobIds : state[j] \in {"done", "failed"} =>
                  state'[j] = state[j] /\ output'[j] = output[j] /\ attempts'[j] = attempts[j]
<1>1. Inv /\ [Next]_vars => [A]_vars
    BY StepsRespectFinal
<1> QED
    BY <1>1, InvAlways, PTL DEF Spec, FinalStays
=============================================================================
