----------------------------- MODULE SyncProofs -----------------------------
(* Discovery of one venue, for every listing and any number of faults and  *)
(* changes.                                                                *)
EXTENDS Sync, TLAPS

(* A job that waits has an attempt left, one that runs has used one; a     *)
(* scan works on a job that runs, and on a page there is.                  *)
AttemptsFit ==
    /\ job.state = "pending" => job.attempts < AttemptLimit
    /\ job.state = "running" => job.attempts > 0
    /\ run.pc \in {"page", "events"} => job.state = "running"
    /\ run.pc = "events" => run.data.checkpoint < Len(Pages)

(* No scan outlives its process. *)
DownIsIdle == up = "down" => run.pc = "idle"

(* What a scan with this data may skip. *)
MustBeSeen(e) == catalog[e] = "active" /\ listing[e] = "open" => e \in seen

Sound(data) == ~data.errors => \A e \in Passed(data) : MustBeSeen(e)

(* The row of a job that is not over, and the copy a scan is going to      *)
(* write back, are both sound for the job in hand.                         *)
RowSound == job.state \in {"pending", "running"} => Sound(row)

CopySound ==
    /\ run.pc \in {"page", "events", "parking", "failing"} => Sound(run.data)
    /\ run.pc \in {"page", "events"} => row.checkpoint = run.data.checkpoint

(* Of the page in hand, what is not seen is still to be done.              *)
PageSound ==
    run.pc = "events" =>
        LET next == run.data.checkpoint + 1
        IN  /\ next \in 1..Len(Pages)
            /\ run.todo \subseteq Pages[next]
            /\ ~run.data.errors => \A e \in Pages[next] \ run.todo : MustBeSeen(e)

(* What every behaviour keeps, and what it keeps when no refresh is asked  *)
(* for between a scan's last job transaction and the state it saves.       *)
Inv == TypeOK /\ AttemptsFit /\ DownIsIdle

Resumes == RowSound /\ CopySound /\ PageSound

-----------------------------------------------------------------------------
(* The values the helpers of the model return. *)
JobRows == [state : {"absent", "pending", "running", "done", "failed"},
            attempts : 0..AttemptLimit]

Runs == [pc : {"idle", "queued", "page", "events", "parking", "closing", "failing", "backoff"},
         todo : SUBSET Events, halted : SUBSET Events, data : Data]

(* A new job starts with an empty checkpoint, and an idle scan is a run.  *)
LEMMA NewDataFits ==
    /\ \A m \in BOOLEAN : NewData(m) \in Data /\ NewData(m).checkpoint = 0
    /\ Idle \in Runs /\ Idle.pc = "idle"
<1>1. Len(Pages) \in Nat
    BY SyncAssumption
<1>2. \A m \in BOOLEAN : NewData(m) \in Data /\ NewData(m).checkpoint = 0
    BY <1>1 DEF NewData, Data
<1> QED
    BY <1>2 DEF Idle, Runs

(* A request joins a job that is not over, or begins a new one.            *)
LEMMA RequestFits ==
    ASSUME Inv, NEW m \in BOOLEAN, Request(m)
    PROVE  /\ row' \in Data /\ job' \in JobRows /\ seen' \subseteq Events
           /\ job'.state = "pending" => job'.attempts < AttemptLimit
           /\ job'.state = "running" => job'.attempts > 0
           /\ job.state = "running" => job' = job
<1>1. row \in Data /\ job \in JobRows /\ seen \subseteq Events
    BY DEF Inv, TypeOK, JobRows
<1>2. CASE job.state \in {"pending", "running"}
  <2>1. job' = job /\ seen' = seen /\ row' = [row EXCEPT !.manual = row.manual \/ m]
      BY <1>2 DEF Request
  <2>2. (row.manual \/ m) \in BOOLEAN
      BY Zenon
  <2>3. row' \in Data
      BY <1>1, <2>1, <2>2 DEF Data
  <2> QED
      BY <1>1, <2>1, <2>3 DEF Inv, AttemptsFit
<1>3. CASE job.state \notin {"pending", "running"}
  <2>1. job' = [state |-> "pending", attempts |-> 0] /\ row' = NewData(m) /\ seen' = {}
      BY <1>3 DEF Request
  <2> QED
      BY <1>3, <2>1, NewDataFits DEF JobRows, AttemptLimit
<1> QED
    BY <1>2, <1>3

(* An attempt that did not complete: no job is left waiting without one.   *)
LEMMA FailureFits ==
    ASSUME Inv, job' = AfterFailure
    PROVE  /\ job' \in JobRows
           /\ job'.state = "pending" => job'.attempts < AttemptLimit
           /\ job'.state # "running"
           /\ job'.state = "pending" => job.state \in {"pending", "running"}
<1>1. job \in JobRows
    BY DEF Inv, TypeOK, JobRows
<1> QED
    BY <1>1 DEF AfterFailure, JobRows, AttemptLimit, Inv, AttemptsFit

(* What a step leaves of the rest of the state. *)
Rest == <<listing, catalog, paused, due, tick, posting, enabled, up, asked, faults, changes>>

RestFits ==
    /\ listing \in [Events -> {"open", "halted", "gone"}]
    /\ catalog \in [Events -> {"absent", "active", "retired"}]
    /\ up \in {"up", "stopping", "down"}
    /\ {due, paused, tick, posting, enabled, asked} \subseteq BOOLEAN
    /\ faults \in 0..MaxFaults
    /\ changes \in 0..MaxChanges

(* The invariant, by the variables it speaks of. *)
LEMMA InvParts ==
    Inv <=> /\ RestFits
            /\ seen \subseteq Events /\ job \in JobRows /\ row \in Data /\ run \in Runs
            /\ AttemptsFit /\ DownIsIdle
BY DEF Inv, TypeOK, RestFits, JobRows, Runs

(* Every step keeps the flags and counters in range. *)
LEMMA RestInv ==
    ASSUME Inv, [Next]_vars
    PROVE  RestFits'
<1> USE DEF row_vars, process
<1>0. RestFits /\ SyncAssumption
    BY InvParts, SyncAssumption
<1>1. /\ listing' \in [Events -> {"open", "halted", "gone"}]
      /\ changes' \in 0..MaxChanges
  <2>1. CASE \E e \in Events : Delist(e)
      BY <1>0, <2>1 DEF Delist, RestFits, SyncAssumption
  <2>2. CASE ~\E e \in Events : Delist(e)
    <3>1. listing' = listing /\ changes' = changes
        BY <2>2 DEF Next, vars, RunStep, PostRequest, PostDue, Pause, TickRead, TickAct, Elapse,
                    Claim, FetchPage, AttemptFails, SaveEvent, SavePage, Park, SaveParked, Complete,
                    Close, SaveFailed, Backoff, Stop, Stopped, Crash, Restart
    <3> QED
        BY <1>0, <3>1 DEF RestFits
  <2> QED
      BY <2>1, <2>2
<1>2. catalog' \in [Events -> {"absent", "active", "retired"}]
  <2>1. CASE \E e \in Events : SaveEvent(e)
      BY <1>0, <2>1 DEF SaveEvent, SavedEvent, FailedEvent, IncompleteEvent, Read, Status, RestFits
  <2>2. CASE Complete
      BY <1>0, <2>2 DEF Complete, Retire, RestFits
  <2>3. CASE ~(Complete \/ \E e \in Events : SaveEvent(e))
    <3>1. catalog' = catalog
        BY <2>3 DEF Next, vars, RunStep, PostRequest, PostDue, Pause, TickRead, TickAct, Elapse,
                    Claim, FetchPage, AttemptFails, SavePage, Park, SaveParked, Delist,
                    Close, SaveFailed, Backoff, Stop, Stopped, Crash, Restart
    <3> QED
        BY <1>0, <3>1 DEF RestFits
  <2> QED
      BY <2>1, <2>2, <2>3
<1>3. faults' \in 0..MaxFaults
  <2>1. CASE faults' = faults
      BY <1>0, <2>1 DEF RestFits
  <2>2. CASE Fault
      BY <1>0, <2>2 DEF RestFits, Fault, SyncAssumption
  <2>3. faults' = faults \/ Fault
      BY DEF Next, vars, RunStep, PostRequest, PostDue, Pause, TickRead, TickAct, Elapse,
             Claim, FetchPage, AttemptFails, SaveEvent, SavePage, Park, SaveParked, Complete,
             Close, SaveFailed, Backoff, Stop, Stopped, Crash, Restart, Delist,
             SavedEvent, FailedEvent, IncompleteEvent, RequestFails
  <2> QED
      BY <2>1, <2>2, <2>3
<1>4. up' \in {"up", "stopping", "down"}
    BY <1>0 DEF RestFits, Next, vars, RunStep, PostRequest, PostDue, Pause, TickRead, TickAct,
             Elapse, Claim, FetchPage, AttemptFails, SaveEvent, SavePage, Park, SaveParked,
             Complete, Close, SaveFailed, Backoff, Stop, Stopped, Crash, Restart, Delist
<1>5. /\ due' = due \/ due' \in BOOLEAN
      /\ paused' = paused \/ paused' \in BOOLEAN
      /\ tick' = tick \/ tick' \in BOOLEAN
      /\ posting' = posting \/ posting' \in BOOLEAN
      /\ enabled' = enabled \/ enabled' \in BOOLEAN
    BY DEF Next, vars, RunStep, PostRequest, PostDue, Pause, TickRead, TickAct,
             Elapse, Claim, FetchPage, AttemptFails, SaveEvent, SavePage, Park, SaveParked,
             Complete, Close, SaveFailed, Backoff, Stop, Stopped, Crash, Restart, Delist
<1>6. asked' = asked \/ asked' \in BOOLEAN
    BY DEF Next, vars, RunStep, PostRequest, PostDue, Pause, TickRead, TickAct,
             Elapse, Claim, FetchPage, AttemptFails, SaveEvent, SavePage, Park, SaveParked,
             Complete, Close, SaveFailed, Backoff, Stop, Stopped, Crash, Restart, Delist
<1> QED
    BY <1>0, <1>1, <1>2, <1>3, <1>4, <1>5, <1>6 DEF RestFits

(* A process that goes down takes its scan with it. *)
LEMMA DownInv ==
    ASSUME Inv, [Next]_vars
    PROVE  DownIsIdle'
<1> USE DEF row_vars, process, Scanning
<1>1. CASE Stopped \/ Crash
    BY <1>1, NewDataFits DEF Stopped, Crash, DownIsIdle
<1>2. CASE RunStep
  <2>1. up # "down" /\ up' = up
      BY <1>2 DEF RunStep, Claim, FetchPage, AttemptFails, SaveEvent, SavePage, Park, SaveParked,
                  Complete, Close, SaveFailed, Backoff
  <2> QED
      BY <2>1 DEF DownIsIdle
<1>3. CASE TickAct
    BY <1>3 DEF TickAct, DownIsIdle
<1>4. CASE \/ PostRequest \/ PostDue \/ Pause \/ TickRead \/ Elapse \/ Stop \/ Restart
           \/ UNCHANGED vars \/ \E e \in Events : Delist(e)
  <2>1. run' = run /\ (up' = up \/ up' # "down")
      BY <1>4 DEF PostRequest, PostDue, Pause, TickRead, Elapse, Stop, Restart, vars, Delist
  <2> QED
      BY <2>1 DEF DownIsIdle, Inv
<1> QED
    BY <1>1, <1>2, <1>3, <1>4 DEF Next

(* Every step of the scheduler, the API and the scan keeps the rows, the   *)
(* copy and the attempts in order.                                         *)
LEMMA NextInv == Inv /\ [Next]_vars => Inv'
<1> SUFFICES ASSUME Inv, [Next]_vars PROVE Inv'
    OBVIOUS
<1> USE DEF row_vars, process, Scanning
<1>0. /\ seen \subseteq Events /\ job \in JobRows /\ row \in Data /\ run \in Runs
      /\ AttemptsFit /\ DownIsIdle /\ RestFits' /\ DownIsIdle'
    BY InvParts, RestInv, DownInv
<1>1. SUFFICES /\ seen' \subseteq Events /\ job' \in JobRows /\ row' \in Data /\ run' \in Runs
               /\ AttemptsFit'
    BY <1>0 DEF Inv, TypeOK, RestFits, JobRows, Runs
<1> DEFINE Goal == /\ seen' \subseteq Events /\ job' \in JobRows /\ row' \in Data
                   /\ run' \in Runs /\ AttemptsFit'
<1>2. CASE PostRequest
  <2>1. Request(TRUE) /\ run' = run
      BY <1>2 DEF PostRequest
  <2> QED
      BY <1>0, <2>1, RequestFits DEF AttemptsFit
<1>3. CASE TickAct
  <2>1. CASE run.pc = "idle"
    <3>1. Request(FALSE) /\ run' = [run EXCEPT !.pc = "queued"]
        BY <1>3, <2>1 DEF TickAct
    <3>2. run' \in Runs /\ run'.pc = "queued"
        BY <1>0, <3>1 DEF Runs
    <3> QED
        BY <1>0, <3>1, <3>2, RequestFits DEF AttemptsFit
  <2>2. CASE run.pc # "idle"
    <3>1. UNCHANGED <<seen, job, row, run>>
        BY <1>3, <2>2 DEF TickAct
    <3> QED
        BY <1>0, <3>1 DEF AttemptsFit
  <2> QED
      BY <2>1, <2>2
<1>4. CASE Claim
  <2>0. UNCHANGED <<seen, row>>
      BY <1>4 DEF Claim
  <2>1. CASE job.state = "pending" /\ job.attempts < AttemptLimit
    <3>1. /\ job' = [state |-> "running", attempts |-> job.attempts + 1]
          /\ run' = [pc |-> "page", todo |-> {}, halted |-> {}, data |-> row]
        BY <1>4, <2>1 DEF Claim
    <3>2. job' \in JobRows /\ job'.attempts > 0
        BY <1>0, <2>1, <3>1 DEF JobRows, AttemptLimit
    <3>3. run' \in Runs
        BY <1>0, <3>1 DEF Runs
    <3> QED
        BY <1>0, <2>0, <3>1, <3>2, <3>3 DEF AttemptsFit
  <2>2. CASE ~(job.state = "pending" /\ job.attempts < AttemptLimit)
    <3>1. job' = job /\ run' = Idle
        BY <1>4, <2>2 DEF Claim
    <3> QED
        BY <1>0, <2>0, <3>1, NewDataFits DEF AttemptsFit
  <2> QED
      BY <2>1, <2>2
<1>5. CASE FetchPage
  <2>1. run.data.checkpoint + 1 \in DOMAIN Pages
      BY <1>0, <1>5, SyncAssumption DEF FetchPage, MorePages, Runs, Data
  <2> DEFINE halted == OnPage("halted")
             todo == OnPage("open") \cup halted
  <2>2. todo \subseteq Events /\ halted \subseteq Events
      BY <2>1 DEF Events, OnPage
  <2>3. /\ UNCHANGED <<seen, job, row>>
        /\ run' = [run EXCEPT !.pc = "events", !.todo = todo, !.halted = halted]
      BY <1>5 DEF FetchPage
  <2> HIDE DEF todo, halted
  <2>4. run' \in Runs /\ run'.pc = "events" /\ run.pc = "page"
      BY <1>0, <1>5, <2>2, <2>3 DEF Runs, FetchPage
  <2>5. run'.data.checkpoint < Len(Pages)
      BY <1>0, <1>5, <2>3 DEF Runs, FetchPage, MorePages
  <2> QED
      BY <1>0, <2>3, <2>4, <2>5 DEF AttemptsFit
<1>6. CASE AttemptFails
  <2>1. job' = AfterFailure /\ UNCHANGED <<seen, row>> /\ run' = [run EXCEPT !.pc = "failing", !.todo = {}, !.halted = {}]
      BY <1>6 DEF AttemptFails
  <2>2. run' \in Runs /\ run'.pc = "failing"
      BY <1>0, <2>1 DEF Runs
  <2> QED
      BY <1>0, <2>1, <2>2, FailureFits DEF AttemptsFit
<1>7. CASE \E e \in Events : SaveEvent(e)
  <2>1. PICK e \in Events : SaveEvent(e)
      BY <1>7
  <2>2. /\ UNCHANGED <<job, row>> /\ seen' \subseteq seen \cup {e}
        /\ \/ run' = [run EXCEPT !.todo = run.todo \ {e}]
           \/ run' = [run EXCEPT !.todo = run.todo \ {e}, !.data.errors = TRUE]
      BY <2>1 DEF SaveEvent, SavedEvent, FailedEvent, IncompleteEvent
  <2>3. run' \in Runs /\ run'.pc = run.pc /\ run'.data.checkpoint = run.data.checkpoint
    <3>1. run.data \in Data /\ run.todo \in SUBSET Events
        BY <1>0 DEF Runs
    <3>2. [run.data EXCEPT !.errors = TRUE] \in Data
        BY <3>1 DEF Data
    <3>3. CASE run' = [run EXCEPT !.todo = run.todo \ {e}]
        BY <1>0, <3>1, <3>3 DEF Runs
    <3>4. CASE run' = [run EXCEPT !.todo = run.todo \ {e}, !.data.errors = TRUE]
      <4>1. run' = [run EXCEPT !.todo = run.todo \ {e},
                               !.data = [run.data EXCEPT !.errors = TRUE]]
          BY <3>4
      <4>2. [run.data EXCEPT !.errors = TRUE].checkpoint = run.data.checkpoint
          BY <3>1 DEF Data
      <4> QED
          BY <1>0, <3>1, <3>2, <4>1, <4>2 DEF Runs
    <3> QED
        BY <2>2, <3>3, <3>4
  <2> QED
      BY <1>0, <2>2, <2>3 DEF AttemptsFit
<1>8. CASE SavePage
  <2> DEFINE data == [run.data EXCEPT !.checkpoint = run.data.checkpoint + 1]
  <2>0. run.data.checkpoint < Len(Pages)
      BY <1>0, <1>8 DEF SavePage, AttemptsFit
  <2>1. /\ UNCHANGED <<seen, job>> /\ row' = data
        /\ run' = [pc |-> "page", todo |-> {}, halted |-> {}, data |-> data] /\ run.pc = "events"
      BY <1>8 DEF SavePage
  <2>2. data \in Data
    <3>1. run.data \in Data /\ run.data.checkpoint + 1 \in 0..Len(Pages)
        BY <1>0, <2>0, SyncAssumption DEF Runs, Data
    <3> QED
        BY <3>1 DEF Data
  <2> HIDE DEF data
  <2>3. run' \in Runs /\ run'.pc = "page"
      BY <2>1, <2>2 DEF Runs
  <2> QED
      BY <1>0, <2>1, <2>2, <2>3 DEF AttemptsFit
<1>9. CASE Park
  <2>1. /\ UNCHANGED <<seen, row>> /\ run' = [run EXCEPT !.pc = "parking", !.todo = {}, !.halted = {}]
        /\ job' = [state |-> "pending", attempts |-> job.attempts - 1]
        /\ job.state = "running"
      BY <1>0, <1>9 DEF Park, AttemptsFit
  <2>2. run' \in Runs /\ run'.pc = "parking"
      BY <1>0, <2>1 DEF Runs
  <2>3. job' \in JobRows /\ job'.attempts < AttemptLimit
      BY <1>0, <2>1 DEF JobRows, AttemptLimit, AttemptsFit
  <2> QED
      BY <1>0, <2>1, <2>2, <2>3 DEF AttemptsFit
<1>10. CASE SaveParked
  <2>1. UNCHANGED <<seen, job>> /\ row' = run.data /\ run' = Idle
      BY <1>10 DEF SaveParked
  <2> QED
      BY <1>0, <2>1, NewDataFits DEF AttemptsFit, Runs
<1>11. CASE Complete
  <2>1. /\ UNCHANGED <<seen, row>> /\ job' = [job EXCEPT !.state = "done"]
        /\ run' = [run EXCEPT !.pc = "closing"]
      BY <1>11 DEF Complete
  <2>2. run' \in Runs /\ run'.pc = "closing" /\ job' \in JobRows /\ job'.state = "done"
      BY <1>0, <2>1 DEF Runs, JobRows
  <2> QED
      BY <1>0, <2>1, <2>2 DEF AttemptsFit
<1>12. CASE Close
  <2>1. UNCHANGED <<seen, job>> /\ row' = [row EXCEPT !.manual = FALSE] /\ run' = Idle
      BY <1>12 DEF Close
  <2>2. row' \in Data
      BY <1>0, <2>1 DEF Data
  <2> QED
      BY <1>0, <2>1, <2>2, NewDataFits DEF AttemptsFit
<1>13. CASE SaveFailed
  <2>1. UNCHANGED <<seen, job>> /\ row' = run.data /\ run' = [run EXCEPT !.pc = "backoff"]
      BY <1>13 DEF SaveFailed
  <2>2. run' \in Runs /\ run'.pc = "backoff" /\ row' \in Data
      BY <1>0, <2>1 DEF Runs
  <2> QED
      BY <1>0, <2>1, <2>2 DEF AttemptsFit
<1>14. CASE Backoff \/ Stopped \/ Crash
  <2>1. UNCHANGED <<seen, job, row>> /\ run' = Idle
      BY <1>14 DEF Backoff, Stopped, Crash
  <2> QED
      BY <1>0, <2>1, NewDataFits DEF AttemptsFit
<1>15. CASE Restart
  <2>1. UNCHANGED <<seen, row, run>> /\ job' = AfterFailure
      BY <1>15 DEF Restart
  <2> QED
      BY <1>0, <1>15, <2>1, FailureFits DEF AttemptsFit, DownIsIdle, Restart
<1>16. CASE \/ PostDue \/ Pause \/ TickRead \/ Elapse \/ Stop \/ UNCHANGED vars
            \/ \E e \in Events : Delist(e)
  <2>1. UNCHANGED <<seen, job, row, run>>
      BY <1>16 DEF PostDue, Pause, TickRead, Elapse, Stop, Delist, vars
  <2> QED
      BY <1>0, <2>1 DEF AttemptsFit
<1> QED
    BY <1>2, <1>3, <1>4, <1>5, <1>6, <1>7, <1>8, <1>9, <1>10, <1>11, <1>12, <1>13, <1>14, <1>15,
       <1>16 DEF Next, RunStep

(* What was halted on the page is not open now: no event is listed anew.   *)
HaltedFits == \A e \in run.halted : listing[e] # "open"

LEMMA HaltedInv ==
    ASSUME Inv, HaltedFits, [Next]_vars
    PROVE  HaltedFits'
<1> USE DEF row_vars, process, Scanning
<1>0. run \in Runs /\ run.halted \subseteq Events
    BY InvParts DEF Runs
<1>1. CASE FetchPage
  <2> DEFINE halted == OnPage("halted")
             todo == OnPage("open") \cup halted
  <2>1. listing' = listing /\ \A e \in halted : listing[e] # "open"
      BY <1>1 DEF FetchPage, OnPage
  <2>2. run' = [run EXCEPT !.pc = "events", !.todo = todo, !.halted = halted]
      BY <1>1 DEF FetchPage
  <2> HIDE DEF todo, halted
  <2>3. run'.halted = halted
      BY <1>0, <2>2 DEF Runs
  <2> QED
      BY <2>1, <2>3 DEF HaltedFits
<1>2. CASE \E e \in Events : Delist(e)
  <2>1. run' = run /\ \A e \in Events : listing'[e] = "open" => listing[e] = "open"
      BY <1>2 DEF Delist, Inv, TypeOK
  <2> QED
      BY <1>0, <2>1 DEF HaltedFits
<1>3. CASE \E e \in Events : SaveEvent(e)
  <2>1. PICK e \in Events : SaveEvent(e)
      BY <1>3
  <2>2. /\ listing' = listing
        /\ \/ run' = [run EXCEPT !.todo = run.todo \ {e}]
           \/ run' = [run EXCEPT !.todo = run.todo \ {e}, !.data.errors = TRUE]
      BY <2>1 DEF SaveEvent, SavedEvent, FailedEvent, IncompleteEvent
  <2>3. run'.halted = run.halted
      BY <1>0, <2>2 DEF Runs
  <2> QED
      BY <2>2, <2>3 DEF HaltedFits
<1>4. CASE ~(FetchPage \/ \E e \in Events : Delist(e) \/ SaveEvent(e))
  <2>1. listing' = listing
      BY <1>4 DEF Next, vars, RunStep, PostRequest, PostDue, Pause, TickRead, TickAct, Elapse,
                  Claim, AttemptFails, SavePage, Park, SaveParked, Complete,
                  Close, SaveFailed, Backoff, Stop, Stopped, Crash, Restart
  <2>2. \/ run' = run \/ run' = Idle
        \/ \E data : run' = [pc |-> "page", todo |-> {}, halted |-> {}, data |-> data]
        \/ \E pc : run' = [run EXCEPT !.pc = pc]
        \/ \E pc : run' = [run EXCEPT !.pc = pc, !.todo = {}, !.halted = {}]
    <3>1. CASE PostRequest \/ PostDue \/ Pause \/ TickRead \/ Elapse \/ Stop \/ Restart
               \/ UNCHANGED vars
        BY <3>1 DEF PostRequest, PostDue, Pause, TickRead, Elapse, Stop, Restart, vars
    <3>2. CASE Claim
        BY <3>2 DEF Claim
    <3>3. CASE SavePage
        BY <3>3 DEF SavePage
    <3>4. CASE TickAct \/ Complete \/ SaveFailed
        BY <3>4 DEF TickAct, Complete, SaveFailed
    <3>5. CASE Park \/ AttemptFails
        BY <3>5 DEF Park, AttemptFails
    <3>6. CASE SaveParked \/ Close \/ Backoff \/ Stopped \/ Crash
        BY <3>6 DEF SaveParked, Close, Backoff, Stopped, Crash
    <3> QED
        BY <1>4, <3>1, <3>2, <3>3, <3>4, <3>5, <3>6 DEF Next, RunStep
  <2>3. run'.halted = run.halted \/ run'.halted = {}
    <3>1. ASSUME NEW data, run' = [pc |-> "page", todo |-> {}, halted |-> {}, data |-> data]
          PROVE  run'.halted = {}
        BY <3>1
    <3>2. ASSUME NEW pc, run' = [run EXCEPT !.pc = pc]
          PROVE  run'.halted = run.halted
        BY <1>0, <3>2 DEF Runs
    <3>3. ASSUME NEW pc, run' = [run EXCEPT !.pc = pc, !.todo = {}, !.halted = {}]
          PROVE  run'.halted = {}
        BY <1>0, <3>3 DEF Runs
    <3>4. Idle.halted = {}
        BY DEF Idle
    <3> QED
        BY <2>2, <3>1, <3>2, <3>3, <3>4
  <2> QED
      BY <2>1, <2>3 DEF HaltedFits
<1> QED
    BY <1>1, <1>2, <1>3, <1>4

-----------------------------------------------------------------------------
(* The pages before a checkpoint: none at the start, one more with every   *)
(* page, all of them at the end; and no event is on two pages.             *)
LEMMA PassedPages ==
    ASSUME NEW data \in Data
    PROVE  /\ data.checkpoint = 0 => Passed(data) = {}
           /\ data.checkpoint = Len(Pages) => Passed(data) = Events
           /\ \A i \in 1..Len(Pages) : i > data.checkpoint => Pages[i] \cap Passed(data) = {}
           /\ \A next \in Data : next.checkpoint = data.checkpoint + 1 =>
                Passed(next) = Passed(data) \cup Pages[next.checkpoint]
<1>1. data.checkpoint \in 0..Len(Pages) /\ Len(Pages) \in Nat /\ DOMAIN Pages = 1..Len(Pages)
    BY SyncAssumption DEF Data
<1>2. data.checkpoint = 0 => Passed(data) = {}
    BY <1>1 DEF Passed
<1>3. data.checkpoint = Len(Pages) => Passed(data) = Events
    BY <1>1 DEF Passed, Events
<1>4. ASSUME NEW i \in 1..Len(Pages), i > data.checkpoint
      PROVE  Pages[i] \cap Passed(data) = {}
  <2>1. \A k \in 1..data.checkpoint : Pages[i] \cap Pages[k] = {}
      BY <1>1, <1>4, SyncAssumption
  <2> QED
      BY <2>1 DEF Passed
<1>5. ASSUME NEW next \in Data, next.checkpoint = data.checkpoint + 1
      PROVE  Passed(next) = Passed(data) \cup Pages[next.checkpoint]
  <2>1. 1..next.checkpoint = (1..data.checkpoint) \cup {next.checkpoint}
      BY <1>1, <1>5
  <2> QED
      BY <2>1 DEF Passed
<1> QED
    BY <1>2, <1>3, <1>4, <1>5

(* What has to be seen only shrinks when an event stops trading, leaves    *)
(* the listing or is retired, and when one more is seen.                   *)
LEMMA StaysSeen ==
    ASSUME NEW S, \A e \in S : MustBeSeen(e),
           \A e \in S : listing'[e] = "open" => listing[e] = "open",
           \A e \in S : catalog'[e] = "active" => catalog[e] = "active" \/ e \in seen',
           seen \subseteq seen'
    PROVE  \A e \in S : MustBeSeen(e)'
BY DEF MustBeSeen

(* A request leaves the data of the job in hand, but for the manual mark,  *)
(* or begins with the first page.                                          *)
LEMMA RequestResumes ==
    ASSUME Inv, Resumes, NEW m \in BOOLEAN, Request(m), UNCHANGED <<listing, catalog>>,
           \/ run' = run /\ run.pc \notin {"parking", "failing"}
           \/ run.pc = "idle" /\ run'.pc = "queued"
    PROVE  Resumes'
<1>1. CASE job.state \in {"pending", "running"}
  <2>1. job' = job /\ seen' = seen /\ row' = [row EXCEPT !.manual = row.manual \/ m]
      BY <1>1 DEF Request
  <2>2. row'.errors = row.errors /\ row'.checkpoint = row.checkpoint
      BY <2>1 DEF Inv, TypeOK, Data
  <2> QED
      BY <2>1, <2>2 DEF Resumes, RowSound, CopySound, PageSound, Sound, Passed, MustBeSeen
<1>2. CASE job.state \notin {"pending", "running"}
  <2>1. job' = [state |-> "pending", attempts |-> 0] /\ row' = NewData(m)
      BY <1>2 DEF Request
  <2>2. Passed(row') = {}
      BY <2>1, NewDataFits, PassedPages
  <2>3. run.pc \notin {"page", "events"}
      BY <1>2 DEF Inv, AttemptsFit
  <2> QED
      BY <2>2, <2>3 DEF Resumes, RowSound, CopySound, PageSound, Sound
<1> QED
    BY <1>1, <1>2

(* One event of a page is done: no earlier page is touched, and if it was  *)
(* not seen the scan knows of an error.                                    *)
LEMMA SaveEventResumes ==
    ASSUME Inv, Resumes, NEW e \in Events, SaveEvent(e)
    PROVE  Resumes'
<1> DEFINE next == run.data.checkpoint + 1
<1>1. /\ run.pc = "events" /\ e \in run.todo
      /\ UNCHANGED <<job, row, listing>>
      /\ run'.pc = run.pc /\ run'.todo = run.todo \ {e}
      /\ run'.data.checkpoint = run.data.checkpoint
      /\ run'.data.errors = run.data.errors \/ run'.data.errors = TRUE
      /\ catalog \in [Events -> {"absent", "active", "retired"}]
  <2>1. run \in Runs /\ run.data \in Data /\ catalog \in [Events -> {"absent", "active", "retired"}]
      BY DEF Inv, TypeOK, Runs
  <2>2. \/ run' = [run EXCEPT !.todo = run.todo \ {e}]
        \/ run' = [run EXCEPT !.todo = run.todo \ {e}, !.data.errors = TRUE]
      BY DEF SaveEvent, SavedEvent, FailedEvent, IncompleteEvent
  <2>3. UNCHANGED <<job, row, listing>> /\ run.pc = "events" /\ e \in run.todo
      BY DEF SaveEvent, Scanning, row_vars
  <2>4. /\ run'.pc = run.pc /\ run'.todo = run.todo \ {e}
        /\ run'.data.checkpoint = run.data.checkpoint
        /\ run'.data.errors = run.data.errors \/ run'.data.errors = TRUE
    <3>1. CASE run' = [run EXCEPT !.todo = run.todo \ {e}]
        BY <2>1, <3>1 DEF Runs
    <3>2. CASE run' = [run EXCEPT !.todo = run.todo \ {e}, !.data.errors = TRUE]
      <4>1. run' = [run EXCEPT !.todo = run.todo \ {e},
                               !.data = [run.data EXCEPT !.errors = TRUE]]
          BY <3>2
      <4>2. /\ [run.data EXCEPT !.errors = TRUE].checkpoint = run.data.checkpoint
            /\ [run.data EXCEPT !.errors = TRUE].errors = TRUE
          BY <2>1 DEF Data
      <4> QED
          BY <2>1, <4>1, <4>2 DEF Runs
    <3> QED
        BY <2>2, <3>1, <3>2
  <2> QED
      BY <2>1, <2>3, <2>4
<1>2. /\ next \in 1..Len(Pages) /\ run.todo \subseteq Pages[next]
      /\ ~run.data.errors => \A d \in Pages[next] \ run.todo : MustBeSeen(d)
    BY <1>1 DEF Resumes, PageSound
<1>3. /\ seen \subseteq seen' /\ \A d \in Events \ {e} : catalog'[d] = catalog[d]
      /\ run'.data.errors \/ e \in seen'
  <2>1. SavedEvent(e) \/ FailedEvent(e) \/ IncompleteEvent(e)
      BY DEF SaveEvent
  <2>2. CASE SavedEvent(e)
      BY <1>1, <2>2 DEF SavedEvent
  <2>3. CASE FailedEvent(e) \/ IncompleteEvent(e)
    <3>1. /\ run \in Runs /\ run.data \in Data
          /\ run' = [run EXCEPT !.todo = run.todo \ {e}, !.data.errors = TRUE]
        BY <2>3 DEF FailedEvent, IncompleteEvent, Inv, TypeOK, Runs
    <3>2. run' = [run EXCEPT !.todo = run.todo \ {e},
                             !.data = [run.data EXCEPT !.errors = TRUE]]
        BY <3>1
    <3>3. [run.data EXCEPT !.errors = TRUE].errors = TRUE
        BY <3>1 DEF Data
    <3>4. run'.data.errors
        BY <3>1, <3>2, <3>3 DEF Runs
    <3> QED
        BY <1>1, <2>3, <3>4 DEF FailedEvent, IncompleteEvent
  <2> QED
      BY <2>1, <2>2, <2>3
<1>4. row \in Data /\ run.data \in Data /\ row.checkpoint = run.data.checkpoint
    BY <1>1 DEF Inv, TypeOK, Resumes, CopySound
<1>5. Pages[next] \cap Passed(row) = {} /\ Passed(run.data) = Passed(row)
  <2>1. next > row.checkpoint
      BY <1>2, <1>4 DEF Data
  <2>2. Pages[next] \cap Passed(row) = {}
      BY <1>2, <1>4, <2>1, PassedPages
  <2> QED
      BY <1>4, <2>2 DEF Passed
<1>6. Passed(row) \subseteq Events /\ Pages[next] \subseteq Events
  <2>1. \A i \in 1..Len(Pages) : Pages[i] \subseteq Events
      BY SyncAssumption DEF Events
  <2> QED
      BY <1>2, <1>4, <2>1 DEF Passed, Data
<1>7. Passed(run'.data) = Passed(row)
    BY <1>1, <1>4 DEF Passed
<1> HIDE DEF next
<1>8. \A d \in Passed(row) : MustBeSeen(d) => MustBeSeen(d)'
    BY <1>1, <1>2, <1>3, <1>5, <1>6 DEF MustBeSeen
<1>9. RowSound' /\ CopySound'
    BY <1>1, <1>4, <1>5, <1>7, <1>8 DEF Resumes, RowSound, CopySound, Sound
<1>10. PageSound'
  <2>1. \A d \in Pages[next] \ {e} : MustBeSeen(d) => MustBeSeen(d)'
      BY <1>1, <1>3, <1>6 DEF MustBeSeen
  <2>2. run'.data.errors \/ MustBeSeen(e)'
      BY <1>3 DEF MustBeSeen
  <2>3. ~run'.data.errors => ~run.data.errors
      BY <1>1
  <2>4. run'.data.checkpoint + 1 = next
      BY <1>1 DEF next
  <2>5. ~run'.data.errors => \A d \in Pages[next] \ run'.todo : MustBeSeen(d)'
      BY <1>1, <1>2, <2>1, <2>2, <2>3
  <2> QED
      BY <1>1, <1>2, <2>4, <2>5 DEF PageSound
<1> QED
    BY <1>9, <1>10 DEF Resumes

(* No step lets a scan skip what its job has not seen, if no refresh comes *)
(* between a scan's last job transaction and the state it saves.           *)
LEMMA ResumesInv ==
    ASSUME ~Overlap, Inv, Inv', Resumes, [Next]_vars
    PROVE  Resumes'
<1> USE DEF row_vars, process, Scanning
<1>0. row \in Data /\ run \in Runs /\ run.data \in Data /\ row' \in Data /\ AttemptsFit
    BY DEF Inv, TypeOK, Runs
<1>a. ASSUME UNCHANGED <<listing, catalog, seen>>
      PROVE  \A e : MustBeSeen(e) => MustBeSeen(e)'
    BY <1>a DEF MustBeSeen
<1>1. CASE PostRequest
    BY <1>1, RequestResumes DEF PostRequest, Saving
<1>2. CASE TickAct
  <2>1. CASE run.pc = "idle"
    <3>1. Request(FALSE) /\ UNCHANGED <<listing, catalog>> /\ run' = [run EXCEPT !.pc = "queued"]
        BY <1>2, <2>1 DEF TickAct
    <3>2. run'.pc = "queued"
        BY <1>0, <3>1 DEF Runs
    <3> QED
        BY <2>1, <3>1, <3>2, RequestResumes
  <2>2. CASE run.pc # "idle"
      BY <1>2, <2>2 DEF TickAct, Resumes, RowSound, CopySound, PageSound, Sound, MustBeSeen
  <2> QED
      BY <2>1, <2>2
<1>3. CASE Claim
  <2>0. UNCHANGED <<listing, catalog, seen, row>>
      BY <1>3 DEF Claim
  <2>1. CASE job.state = "pending" /\ job.attempts < AttemptLimit
    <3>1. run'.pc = "page" /\ run'.data = row
        BY <1>3, <2>1 DEF Claim
    <3> QED
        BY <1>a, <2>0, <2>1, <3>1 DEF Resumes, RowSound, CopySound, PageSound, Sound
  <2>2. CASE ~(job.state = "pending" /\ job.attempts < AttemptLimit)
    <3>1. job' = job /\ run'.pc = "idle"
        BY <1>3, <2>2, NewDataFits DEF Claim
    <3> QED
        BY <1>a, <2>0, <3>1 DEF Resumes, RowSound, CopySound, PageSound, Sound
  <2> QED
      BY <2>1, <2>2
<1>4. CASE FetchPage
  <2> DEFINE next == run.data.checkpoint + 1
             halted == OnPage("halted")
             todo == OnPage("open") \cup halted
  <2>1. /\ UNCHANGED <<listing, catalog, seen, job, row>>
        /\ run' = [run EXCEPT !.pc = "events", !.todo = todo, !.halted = halted]
        /\ run.pc = "page"
      BY <1>4 DEF FetchPage
  <2>2. next \in 1..Len(Pages)
      BY <1>0, <1>4, SyncAssumption DEF FetchPage, MorePages, Data
  <2>3. todo \subseteq Pages[next] /\ \A e \in Pages[next] \ todo : MustBeSeen(e)
      BY DEF MustBeSeen, OnPage
  <2> HIDE DEF todo, halted
  <2>4. run'.pc = "events" /\ run'.todo = todo /\ run'.data = run.data
      BY <1>0, <2>1 DEF Runs
  <2>5. RowSound' /\ CopySound'
      BY <1>a, <2>1, <2>4 DEF Resumes, RowSound, CopySound, Sound
  <2>6. PageSound'
      BY <1>a, <2>1, <2>2, <2>3, <2>4 DEF PageSound
  <2> QED
      BY <2>5, <2>6 DEF Resumes
<1>5. CASE AttemptFails
  <2>1. /\ UNCHANGED <<listing, catalog, seen, row>> /\ job' = AfterFailure
        /\ run' = [run EXCEPT !.pc = "failing", !.todo = {}, !.halted = {}]
        /\ run.pc \in {"page", "events"}
      BY <1>5 DEF AttemptFails
  <2>2. run'.pc = "failing" /\ run'.data = run.data
      BY <1>0, <2>1 DEF Runs
  <2>3. job'.state \in {"pending", "running"} => job.state \in {"pending", "running"}
      BY <2>1, FailureFits
  <2> QED
      BY <1>a, <2>1, <2>2, <2>3 DEF Resumes, RowSound, CopySound, PageSound, Sound
<1>6. CASE \E e \in Events : SaveEvent(e)
    BY <1>6, SaveEventResumes
<1>7. CASE SavePage
  <2> DEFINE data == [run.data EXCEPT !.checkpoint = run.data.checkpoint + 1]
             next == run.data.checkpoint + 1
  <2>1. /\ UNCHANGED <<listing, catalog, seen, job>> /\ row' = data
        /\ run'.pc = "page" /\ run'.data = data
        /\ run.pc = "events" /\ run.todo = {}
      BY <1>7 DEF SavePage
  <2>2. data.errors = run.data.errors /\ data.checkpoint = next
      BY <1>0 DEF Data
  <2> HIDE DEF data
  <2>3. Passed(data) = Passed(run.data) \cup Pages[next]
      BY <1>0, <2>1, <2>2, PassedPages
  <2>4. ~run.data.errors => \A e \in Passed(data) : MustBeSeen(e)
      BY <2>1, <2>3 DEF Resumes, CopySound, PageSound, Sound
  <2>5. ~data.errors => \A e \in Passed(data) : MustBeSeen(e)'
      BY <1>a, <2>1, <2>2, <2>4
  <2> QED
      BY <2>1, <2>5 DEF Resumes, RowSound, CopySound, PageSound, Sound
<1>8. CASE Park
  <2>1. /\ UNCHANGED <<listing, catalog, seen, row>> /\ job.state = "running"
        /\ run' = [run EXCEPT !.pc = "parking", !.todo = {}, !.halted = {}] /\ run.pc = "events"
      BY <1>0, <1>8 DEF Park, AttemptsFit
  <2>2. run'.pc = "parking" /\ run'.data = run.data
      BY <1>0, <2>1 DEF Runs
  <2> QED
      BY <1>a, <2>1, <2>2 DEF Resumes, RowSound, CopySound, PageSound, Sound
<1>9. CASE SaveParked
  <2>1. /\ UNCHANGED <<listing, catalog, seen, job>> /\ row' = run.data /\ run'.pc = "idle"
        /\ run.pc = "parking"
      BY <1>9, NewDataFits DEF SaveParked
  <2> QED
      BY <1>a, <2>1 DEF Resumes, RowSound, CopySound, PageSound, Sound
<1>10. CASE Complete
  <2>1. job' = [job EXCEPT !.state = "done"] /\ run' = [run EXCEPT !.pc = "closing"]
      BY <1>10 DEF Complete
  <2>2. run'.pc = "closing" /\ job'.state = "done"
      BY <1>0, <2>1 DEF Runs, Inv, TypeOK
  <2> QED
      BY <2>2 DEF Resumes, RowSound, CopySound, PageSound
<1>11. CASE Close
  <2>1. /\ UNCHANGED <<listing, catalog, seen, job>> /\ row' = [row EXCEPT !.manual = FALSE]
        /\ run'.pc = "idle"
      BY <1>11, NewDataFits DEF Close
  <2>2. row'.errors = row.errors /\ row'.checkpoint = row.checkpoint
      BY <1>0, <2>1 DEF Data
  <2>3. Passed(row') = Passed(row)
      BY <2>2 DEF Passed
  <2> QED
      BY <1>a, <2>1, <2>2, <2>3 DEF Resumes, RowSound, CopySound, PageSound, Sound
<1>12. CASE SaveFailed
  <2>1. /\ UNCHANGED <<listing, catalog, seen, job>> /\ row' = run.data
        /\ run' = [run EXCEPT !.pc = "backoff"] /\ run.pc = "failing"
      BY <1>12 DEF SaveFailed
  <2>2. run'.pc = "backoff"
      BY <1>0, <2>1 DEF Runs
  <2> QED
      BY <1>a, <2>1, <2>2 DEF Resumes, RowSound, CopySound, PageSound, Sound
<1>13. CASE Backoff \/ Stopped \/ Crash
  <2>1. UNCHANGED <<listing, catalog, seen, job, row>> /\ run'.pc = "idle"
      BY <1>13, NewDataFits DEF Backoff, Stopped, Crash
  <2> QED
      BY <1>a, <2>1 DEF Resumes, RowSound, CopySound, PageSound, Sound
<1>14. CASE Restart
  <2>1. UNCHANGED <<listing, catalog, seen, row, run>> /\ job' = AfterFailure /\ run.pc = "idle"
      BY <1>14 DEF Restart, Inv, DownIsIdle
  <2>2. job'.state \in {"pending", "running"} => job.state \in {"pending", "running"}
      BY <2>1, FailureFits
  <2> QED
      BY <1>a, <2>1, <2>2 DEF Resumes, RowSound, CopySound, PageSound, Sound
<1>15. CASE \/ PostDue \/ Pause \/ TickRead \/ Elapse \/ Stop \/ UNCHANGED vars
            \/ \E e \in Events : Delist(e)
  <2>1. /\ UNCHANGED <<catalog, seen, job, row, run>>
        /\ \A e \in Events : listing'[e] = "open" => listing[e] = "open"
      BY <1>15 DEF PostDue, Pause, TickRead, Elapse, Stop, Delist, vars, Inv, TypeOK
  <2>2. \A e \in Events : MustBeSeen(e) => MustBeSeen(e)'
      BY <2>1 DEF MustBeSeen
  <2>3. \A i \in 1..Len(Pages) : Pages[i] \subseteq Events
      BY SyncAssumption DEF Events
  <2>4. Passed(row) \subseteq Events /\ Passed(run.data) \subseteq Events
      BY <1>0, <2>3, SyncAssumption DEF Passed, Data
  <2> QED
      BY <2>1, <2>2, <2>3, <2>4 DEF Resumes, RowSound, CopySound, PageSound, Sound
<1> QED
    BY <1>1, <1>2, <1>3, <1>4, <1>5, <1>6, <1>7, <1>8, <1>9, <1>10, <1>11, <1>12, <1>13, <1>14,
       <1>15 DEF Next, RunStep

-----------------------------------------------------------------------------
(* Before the first request. *)
LEMMA InitInv == Init => Inv /\ HaltedFits /\ Resumes
<1> SUFFICES ASSUME Init PROVE Inv /\ HaltedFits /\ Resumes
    OBVIOUS
<1>0. HaltedFits
    BY DEF Init, Idle, HaltedFits
<1>1. job.state = "absent" /\ run.pc = "idle" /\ up = "up"
    BY NewDataFits DEF Init
<1>2. Resumes
    BY <1>1 DEF Resumes, RowSound, CopySound, PageSound
<1>3. AttemptsFit /\ DownIsIdle
    BY <1>1 DEF AttemptsFit, DownIsIdle
<1>4. job \in JobRows /\ row \in Data /\ run \in Runs /\ seen \subseteq Events
  <2>1. NewData(FALSE) \in Data
      BY NewDataFits
  <2>2. row = NewData(FALSE) /\ run = Idle /\ seen = {} /\ job = [state |-> "absent", attempts |-> 0]
      BY DEF Init
  <2>3. job \in JobRows
      BY <2>2 DEF JobRows, AttemptLimit
  <2> QED
      BY <2>1, <2>2, <2>3, NewDataFits
<1>5. RestFits
  <2>1. /\ listing = [e \in Events |-> "open"] /\ catalog = [e \in Events |-> "absent"]
        /\ up = "up" /\ faults = 0 /\ changes = 0
      BY DEF Init
  <2>2. {due, paused, tick, posting, enabled, asked} \subseteq BOOLEAN
      BY DEF Init
  <2> QED
      BY <2>1, <2>2, SyncAssumption DEF RestFits
<1> QED
    BY <1>0, <1>2, <1>3, <1>4, <1>5, InvParts

(* The tables, the copy and the attempts stay in order.                    *)
THEOREM InvAlways == Spec => []Inv
BY InitInv, NextInv, PTL DEF Spec

(* The rows and the scan's copy of them hold what the code can put there.  *)
THEOREM TypesAlways == Spec => []TypeOK
<1>1. Inv => TypeOK
    BY DEF Inv
<1> QED
    BY InvAlways, <1>1, PTL

(* A discover job that waits can be claimed, whatever pauses, stops,       *)
(* crashes and failures it went through (discovery.py, Store.claim_job).   *)
THEOREM PendingAlwaysResumable == Spec => []PendingIsResumable
<1>1. Inv => PendingIsResumable
    BY DEF Inv, AttemptsFit, PendingIsResumable
<1> QED
    BY InvAlways, <1>1, PTL

(* While no refresh is asked for between a scan's last job transaction and *)
(* the state it saves, a scan that is resumed skips only what its own job  *)
(* has seen, or knows of its errors.                                       *)
THEOREM CheckpointAlwaysSound ==
    ASSUME ~Overlap
    PROVE  Spec => [](Inv /\ Resumes /\ CheckpointSound)
<1>1. Inv /\ Resumes /\ [Next]_vars => (Inv /\ Resumes)'
    BY NextInv, ResumesInv
<1>2. Inv /\ Resumes => CheckpointSound
    BY DEF Resumes, RowSound, Sound, MustBeSeen, CheckpointSound
<1> QED
    BY InitInv, <1>1, <1>2, PTL DEF Spec

(* One step retires no event that is listed and trades. *)
ListedStep ==
    \A e \in Events : catalog[e] = "active" /\ listing[e] = "open" => catalog'[e] = "active"

(* A scan that completes without errors has seen every event that is       *)
(* listed and trades, however often it was stopped, lost and resumed:      *)
(* retiring what it has not seen retires none of those                     *)
(* (sync.py:143, run_venue).                                               *)
THEOREM ListedAlwaysStaysActive ==
    ASSUME ~Overlap
    PROVE  Spec => ListedStaysActive
<1> USE DEF row_vars, process, Scanning
<1>1. ASSUME Inv, HaltedFits, Resumes, [Next]_vars
      PROVE  [ListedStep]_vars
  <2> SUFFICES ASSUME NEW e \in Events, catalog[e] = "active", listing[e] = "open"
               PROVE  catalog'[e] = "active"
      BY DEF ListedStep
  <2>1. CASE Complete
    <3>1. run.pc = "page" /\ run.data \in Data /\ Sound(run.data)
        BY <1>1, <2>1 DEF Complete, Inv, TypeOK, Resumes, CopySound
    <3>2. Passed(run.data) = Events
      <4>1. run.data.checkpoint = Len(Pages)
          BY <2>1, <3>1, SyncAssumption DEF Complete, MorePages, Data
      <4> QED
          BY <3>1, <4>1, PassedPages
    <3>3. run.data.errors \/ e \in seen
        BY <3>1, <3>2 DEF Sound, MustBeSeen
    <3> QED
        BY <2>1, <3>3 DEF Complete, Retire
  <2>2. CASE \E d \in Events : SaveEvent(d)
    <3>1. Read(e) = {"active"}
        BY <1>1 DEF Read, Status, HaltedFits
    <3> QED
        BY <1>1, <2>2, <3>1 DEF SaveEvent, SavedEvent, FailedEvent, IncompleteEvent, Inv, TypeOK
  <2>3. CASE ~(Complete \/ \E d \in Events : SaveEvent(d))
    <3>1. catalog' = catalog
        BY <1>1, <2>3 DEF Next, vars, RunStep, PostRequest, PostDue, Pause, TickRead, TickAct,
                  Elapse, Claim, FetchPage, AttemptFails, SavePage, Park, SaveParked, Delist,
                  Close, SaveFailed, Backoff, Stop, Stopped, Crash, Restart
    <3> QED
        BY <3>1
  <2> QED
      BY <2>1, <2>2, <2>3
<1>2. Inv /\ HaltedFits /\ Resumes /\ [Next]_vars => (Inv /\ HaltedFits /\ Resumes)'
    BY NextInv, HaltedInv, ResumesInv
<1>3. Spec => [][ListedStep]_vars
    BY InitInv, <1>1, <1>2, PTL DEF Spec
<1> QED
    BY <1>3 DEF ListedStaysActive, ListedStep
=============================================================================
