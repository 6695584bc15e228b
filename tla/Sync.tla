-------------------------------- MODULE Sync --------------------------------
(***************************************************************************)
(* Discovery of one venue (sync.py, discovery.py): the scheduler thread,   *)
(* the thread that scans the venue's pages, the API's refresh and pause,   *)
(* and the stops, crashes and restarts between their steps.                *)
(*                                                                         *)
(* The venues share no row, so one is modelled.  `job` is the discover job *)
(* the venue's sync_state row names; a job enqueued by a request that did  *)
(* not live to write its row is named by nothing and run by nobody.        *)
(*                                                                         *)
(* A scan holds a copy of the row's data from its claim on, and writes the *)
(* whole copy back, whatever was written in between.                       *)
(***************************************************************************)
EXTENDS Naturals, Sequences, FiniteSets

CONSTANTS Pages,      \* the venue's listing: the events of each page
          Overlap,    \* may a refresh be asked between a scan's last job
                      \* transaction and the state it saves after that?
          MaxFaults,  \* bound on failed requests, stops and crashes
          MaxChanges  \* bound on the changes of the venue's listing

Events == UNION {Pages[i] : i \in DOMAIN Pages}

ASSUME SyncAssumption ==
    /\ Pages \in Seq(SUBSET Events)
    /\ \A i, k \in DOMAIN Pages : i # k => Pages[i] \cap Pages[k] = {}
    /\ Overlap \in BOOLEAN
    /\ MaxFaults \in Nat /\ MaxChanges \in Nat

AttemptLimit == 3

VARIABLES listing,  \* the venue: is an event listed, and can it be traded
          catalog,  \* the events table: no row, active or retired
          seen,     \* the events whose seen_run is the current job
          job,      \* the job named by sync_state.job_id
          row,      \* sync_state.data: manual, checkpoint and errors
          due,      \* whether sync_state.due has passed
          paused,   \* sync_state.paused
          run,      \* the scanning thread and its copy of the row's data
          tick,     \* the scheduler has read a row it may act on
          posting,  \* POST /api/sync has requested but not yet set due
          enabled,  \* discovery_enabled: not started with --no-sync
          up,       \* "up", "stopping" or "down"
          asked,    \* a refresh was asked and its job has not ended
          faults,
          changes

row_vars == <<job, row, due>>
process == <<tick, posting, enabled, up>>
vars == <<listing, catalog, seen, job, row, due, paused, run, tick, posting, enabled, up,
          asked, faults, changes>>

(* The data of a job nobody has worked on: no checkpoint, no errors.        *)
NewData(manual) == [manual |-> manual, checkpoint |-> 0, errors |-> FALSE]

Idle == [pc |-> "idle", todo |-> {}, halted |-> {}, data |-> NewData(FALSE)]

Init ==
    /\ listing = [e \in Events |-> "open"]
    /\ catalog = [e \in Events |-> "absent"]
    /\ seen = {}
    /\ job = [state |-> "absent", attempts |-> 0]
    /\ row = NewData(FALSE)
    /\ due = TRUE
    /\ paused = FALSE
    /\ run = Idle
    /\ tick = FALSE
    /\ posting = FALSE
    /\ enabled \in BOOLEAN
    /\ up = "up"
    /\ asked = FALSE
    /\ faults = 0
    /\ changes = 0

Fault == faults < MaxFaults /\ faults' = faults + 1

-----------------------------------------------------------------------------
(* Faulty variant: the errors of the last job are carried over. *)
RequestKeepingErrors(manual) ==
    IF job.state \in {"pending", "running"}
    THEN /\ row' = [row EXCEPT !.manual = @ \/ manual]
         /\ UNCHANGED <<job, seen>>
    ELSE /\ job' = [state |-> "pending", attempts |-> 0]
         /\ row' = [row EXCEPT !.manual = manual, !.checkpoint = 0]
         /\ seen' = {}

(* SyncRunner.request, under store.lock: the job in hand, or a new one.    *)
(* A new job has seen no event yet.                                        *)
Request(manual) ==
    IF job.state \in {"pending", "running"}
    THEN /\ row' = [row EXCEPT !.manual = @ \/ manual]
         /\ UNCHANGED <<job, seen>>
    ELSE /\ job' = [state |-> "pending", attempts |-> 0]
         /\ row' = NewData(manual)
         /\ seen' = {}

(* The scan has ended its job, or given it back, and has a state to save.  *)
Saving == run.pc \in {"parking", "closing", "failing", "backoff"}

(* POST /api/sync: the request.  Its promise ("Queued") is kept track of   *)
(* when it does not join a scan that is already under way.                 *)
PostRequest ==
    /\ up = "up"
    /\ ~posting
    /\ Saving => Overlap
    /\ Request(TRUE)
    /\ posting' = TRUE
    /\ asked' = (asked \/ run.pc \in {"idle", "queued"})
    /\ UNCHANGED <<listing, catalog, due, paused, run, tick, enabled, up, faults, changes>>

(* ... and the second transaction, which makes the venue due.              *)
PostDue ==
    /\ posting
    /\ up # "down"
    /\ due' = TRUE
    /\ posting' = FALSE
    /\ UNCHANGED <<listing, catalog, seen, job, row, paused, run, tick, enabled, up, asked,
                   faults, changes>>

(* POST /api/sync/pause. *)
Pause ==
    /\ up = "up"
    /\ paused' = ~paused
    /\ UNCHANGED <<listing, catalog, seen, job, row, due, run, process, asked, faults, changes>>

-----------------------------------------------------------------------------
(* SyncRunner.tick reads the row: a venue that is paused, not due, or      *)
(* neither scheduled nor asked for is passed over.                         *)
TickRead ==
    /\ up = "up"
    /\ ~tick
    /\ enabled \/ row.manual
    /\ ~paused
    /\ due
    /\ tick' = TRUE
    /\ UNCHANGED <<listing, catalog, seen, row_vars, paused, run, posting, enabled, up, asked,
                   faults, changes>>

(* ... and acts on what it has read: unless a scan is still running, it    *)
(* requests one and submits it.                                            *)
TickAct ==
    /\ up # "down"
    /\ tick
    /\ tick' = FALSE
    /\ IF run.pc = "idle"
       THEN Request(FALSE) /\ run' = [run EXCEPT !.pc = "queued"]
       ELSE UNCHANGED <<row, job, seen, run>>
    /\ UNCHANGED <<listing, catalog, due, paused, posting, enabled, up, asked, faults, changes>>

(* The venue becomes due again, 60 or 900 seconds later. *)
Elapse ==
    /\ up = "up"
    /\ ~due
    /\ due' = TRUE
    /\ UNCHANGED <<listing, catalog, seen, job, row, paused, run, process, asked, faults, changes>>

-----------------------------------------------------------------------------
(* run_venue takes the job and copies the row's data; a job that cannot be *)
(* claimed is passed over.                                                 *)
Claim ==
    /\ up # "down"
    /\ run.pc = "queued"
    /\ IF job.state = "pending" /\ job.attempts < AttemptLimit
       THEN /\ job' = [state |-> "running", attempts |-> job.attempts + 1]
            /\ run' = [pc |-> "page", todo |-> {}, halted |-> {}, data |-> row]
       ELSE /\ run' = Idle
            /\ UNCHANGED job
    /\ UNCHANGED <<listing, catalog, seen, row, due, paused, process, asked, faults, changes>>

Scanning(pc) == up # "down" /\ run.pc = pc

MorePages == run.data.checkpoint < Len(Pages)

(* request_json gives up, after three tries where that can help. *)
RequestFails == Fault

(* The events of the next page that are in this state when it arrives. *)
OnPage(state) == {e \in Pages[run.data.checkpoint + 1] : listing[e] = state}

(* Faulty variant: the checkpoint is saved when the page arrives, not when *)
(* its events are in.                                                      *)
FetchPageEarly ==
    /\ Scanning("page")
    /\ MorePages
    /\ run' = [run EXCEPT !.pc = "events",
                          !.todo = OnPage("open") \cup OnPage("halted"),
                          !.halted = OnPage("halted")]
    /\ row' = [run.data EXCEPT !.checkpoint = @ + 1]
    /\ UNCHANGED <<listing, catalog, seen, job, due, paused, process, asked, faults, changes>>

(* The next page of the listing is retrieved, and recorded. *)
FetchPage ==
    /\ Scanning("page")
    /\ MorePages
    /\ run' = [run EXCEPT !.pc = "events",
                          !.todo = OnPage("open") \cup OnPage("halted"),
                          !.halted = OnPage("halted")]
    /\ UNCHANGED <<listing, catalog, seen, row_vars, paused, process, asked, faults, changes>>

(* Faulty variant: the error is not counted. *)
UncountedEvent(e) ==
    /\ RequestFails
    /\ run' = [run EXCEPT !.todo = @ \ {e}]
    /\ UNCHANGED <<seen, catalog>>

(* An event, a market or a document of it cannot be had: nothing of it is  *)
(* written and the error is counted.                                       *)
FailedEvent(e) ==
    /\ RequestFails
    /\ run' = [run EXCEPT !.todo = @ \ {e}, !.data.errors = TRUE]
    /\ UNCHANGED <<seen, catalog>>

Status(e) == IF listing[e] = "open" THEN "active" ELSE "retired"

(* One venue's page has the markets of its events; the other is asked for  *)
(* them when the event's turn comes.                                       *)
Read(e) == {Status(e), IF e \in run.halted THEN "retired" ELSE "active"}

(* The list of the event's markets is incomplete.  An event that has a row *)
(* keeps it; a new one gets a row that no scan has seen.                   *)
IncompleteEvent(e) ==
    /\ RequestFails
    /\ run' = [run EXCEPT !.todo = @ \ {e}, !.data.errors = TRUE]
    /\ \E status \in Read(e) :
         catalog' = [catalog EXCEPT ![e] = IF @ = "absent" THEN status ELSE @]
    /\ UNCHANGED seen

(* save_event succeeds, or the event is one this job has already seen.     *)
SavedEvent(e) ==
    /\ run' = [run EXCEPT !.todo = @ \ {e}]
    /\ seen' = seen \cup {e}
    /\ \E status \in Read(e) :
         catalog' = IF e \in seen THEN catalog ELSE [catalog EXCEPT ![e] = status]
    /\ UNCHANGED faults

(* One event of the page, unless the scan has to stop. *)
SaveEvent(e) ==
    /\ Scanning("events")
    /\ e \in run.todo
    /\ up = "up" /\ ~paused
    /\ \/ SavedEvent(e)
       \/ e \notin seen /\ FailedEvent(e)
       \/ e \notin seen /\ IncompleteEvent(e)
    /\ UNCHANGED <<listing, row_vars, paused, process, asked, changes>>

(* The page is done: the whole copy is written back. *)
SavePage ==
    /\ Scanning("events")
    /\ run.todo = {}
    /\ LET data == [run.data EXCEPT !.checkpoint = @ + 1]
       IN  row' = data /\ run' = [pc |-> "page", todo |-> {}, halted |-> {}, data |-> data]
    /\ UNCHANGED <<listing, catalog, seen, job, due, paused, process, asked, faults, changes>>

(* Faulty variant: the attempt is not given back. *)
ParkSpent ==
    /\ Scanning("events")
    /\ run.todo # {}
    /\ up = "stopping" \/ paused
    /\ job' = [job EXCEPT !.state = "pending"]
    /\ run' = [run EXCEPT !.pc = "parking", !.todo = {}, !.halted = {}]
    /\ UNCHANGED <<listing, catalog, seen, row, due, paused, process, asked, faults, changes>>

(* A pause or a stop is noticed before an event: the job goes back to the  *)
(* queue with its attempt ...                                              *)
Park ==
    /\ Scanning("events")
    /\ run.todo # {}
    /\ up = "stopping" \/ paused
    /\ job' = [state |-> "pending", attempts |-> job.attempts - 1]
    /\ run' = [run EXCEPT !.pc = "parking", !.todo = {}, !.halted = {}]
    /\ UNCHANGED <<listing, catalog, seen, row, due, paused, process, asked, faults, changes>>

(* Faulty variant: the attempt is given back here as well. *)
SaveParkedTwice ==
    /\ Scanning("parking")
    /\ row' = run.data
    /\ job' = [job EXCEPT !.attempts = @ - 1]
    /\ run' = Idle
    /\ UNCHANGED <<listing, catalog, seen, due, paused, process, asked, faults, changes>>

(* Faulty variant: the manual mark is not in what is written back. *)
SaveParkedUnmarked ==
    /\ Scanning("parking")
    /\ row' = [run.data EXCEPT !.manual = FALSE]
    /\ run' = Idle
    /\ UNCHANGED <<listing, catalog, seen, job, due, paused, process, asked, faults, changes>>

(* ... and the copy is written back in a transaction of its own. *)
SaveParked ==
    /\ Scanning("parking")
    /\ row' = run.data
    /\ run' = Idle
    /\ UNCHANGED <<listing, catalog, seen, job, due, paused, process, asked, faults, changes>>

(* An error-free scan retires the events it has not seen. *)
Retire == [e \in Events |->
             IF catalog[e] = "active" /\ e \notin seen /\ ~run.data.errors
             THEN "retired" ELSE catalog[e]]

(* No page is left: one transaction retires, stores the run and completes  *)
(* the job ...                                                             *)
Complete ==
    /\ Scanning("page")
    /\ ~MorePages
    /\ catalog' = Retire
    /\ job' = [job EXCEPT !.state = "done"]
    /\ due' = FALSE
    /\ run' = [run EXCEPT !.pc = "closing"]
    /\ asked' = FALSE
    /\ UNCHANGED <<listing, seen, row, paused, process, faults, changes>>

(* ... and another one saves the outcome and ends the manual refresh. *)
Close ==
    /\ Scanning("closing")
    /\ row' = [row EXCEPT !.manual = FALSE]
    /\ run' = Idle
    /\ UNCHANGED <<listing, catalog, seen, job, due, paused, process, asked, faults, changes>>

(* What an attempt that did not complete leaves of its job. *)
AfterFailure == [job EXCEPT !.state = IF @ # "running" THEN @
                                      ELSE IF job.attempts >= AttemptLimit
                                           THEN "failed" ELSE "pending"]

(* A page cannot be had or used, or what is not expected happens while an  *)
(* event is saved or the job completed: the attempt has failed ...         *)
AttemptFails ==
    /\ Scanning("page") \/ Scanning("events")
    /\ Fault
    /\ job' = AfterFailure
    /\ run' = [run EXCEPT !.pc = "failing", !.todo = {}, !.halted = {}]
    /\ asked' = (asked /\ job'.state = "pending")
    /\ UNCHANGED <<listing, catalog, seen, row, due, paused, process, changes>>

(* ... the copy is written back ... *)
SaveFailed ==
    /\ Scanning("failing")
    /\ row' = run.data
    /\ run' = [run EXCEPT !.pc = "backoff"]
    /\ UNCHANGED <<listing, catalog, seen, job, due, paused, process, asked, faults, changes>>

(* ... and the venue waits for a minute: three transactions. *)
Backoff ==
    /\ Scanning("backoff")
    /\ due' = FALSE
    /\ run' = Idle
    /\ UNCHANGED <<listing, catalog, seen, job, row, paused, process, asked, faults, changes>>

-----------------------------------------------------------------------------
(* SyncRunner.close: a scan stops at its next event; a scan that was       *)
(* submitted but not begun is cancelled.                                   *)
Stop ==
    /\ up = "up"
    /\ ~posting
    /\ Fault
    /\ up' = "stopping"
    /\ UNCHANGED <<listing, catalog, seen, row_vars, paused, run, tick, posting, enabled, asked,
                   changes>>

Stopped ==
    /\ up = "stopping"
    /\ ~tick
    /\ run.pc \in {"idle", "queued"}
    /\ run' = Idle
    /\ up' = "down"
    /\ UNCHANGED <<listing, catalog, seen, row_vars, paused, tick, posting, enabled, asked,
                   faults, changes>>

(* The process is lost, with everything that is not in a table. *)
Crash ==
    /\ up # "down"
    /\ Fault
    /\ run' = Idle
    /\ tick' = FALSE
    /\ posting' = FALSE
    /\ up' = "down"
    /\ UNCHANGED <<listing, catalog, seen, row_vars, paused, enabled, asked, changes>>

(* Opening the store recovers a job that was running; start() makes every  *)
(* venue due, and the operator chooses anew whether to schedule.           *)
Restart ==
    /\ up = "down"
    /\ up' = "up"
    /\ job' = AfterFailure
    /\ asked' = (asked /\ job'.state = "pending")
    /\ due' = TRUE
    /\ enabled' \in BOOLEAN
    /\ UNCHANGED <<listing, catalog, seen, row, paused, run, tick, posting, faults, changes>>

(* The venue: an event stops trading or leaves the listing. *)
Delist(e) ==
    /\ changes < MaxChanges
    /\ \/ listing[e] = "open" /\ listing' = [listing EXCEPT ![e] = "halted"]
       \/ listing[e] # "gone" /\ listing' = [listing EXCEPT ![e] = "gone"]
    /\ changes' = changes + 1
    /\ UNCHANGED <<catalog, seen, row_vars, paused, run, process, asked, faults>>

RunStep == \/ Claim
           \/ FetchPage
           \/ AttemptFails
           \/ \E e \in Events : SaveEvent(e)
           \/ SavePage
           \/ Park
           \/ SaveParked
           \/ Complete
           \/ Close
           \/ SaveFailed
           \/ Backoff

Next ==
    \/ PostRequest
    \/ PostDue
    \/ Pause
    \/ TickRead
    \/ TickAct
    \/ Elapse
    \/ RunStep
    \/ Stop
    \/ Stopped
    \/ Crash
    \/ Restart
    \/ \E e \in Events : Delist(e)

(* Every request has a timeout, the scheduler ticks every two seconds, a   *)
(* handler that answered its first transaction goes on to the next, time   *)
(* passes, and the operator restarts a process that is down.               *)
Fairness ==
    /\ WF_vars(PostDue)
    /\ WF_vars(TickRead)
    /\ WF_vars(TickAct)
    /\ WF_vars(Elapse)
    /\ WF_vars(RunStep)
    /\ WF_vars(Stopped)
    /\ WF_vars(Restart)

Spec == Init /\ [][Next]_vars

FairSpec == Spec /\ Fairness

-----------------------------------------------------------------------------
Data == [manual : BOOLEAN, checkpoint : 0..Len(Pages), errors : BOOLEAN]

(* The rows, the scan's copy and the process hold what the code can put    *)
(* into them.                                                              *)
TypeOK ==
    /\ listing \in [Events -> {"open", "halted", "gone"}]
    /\ catalog \in [Events -> {"absent", "active", "retired"}]
    /\ seen \subseteq Events
    /\ job \in [state : {"absent", "pending", "running", "done", "failed"},
                attempts : 0..AttemptLimit]
    /\ row \in Data
    /\ run \in [pc : {"idle", "queued", "page", "events", "parking", "closing", "failing",
                      "backoff"},
                todo : SUBSET Events, halted : SUBSET Events, data : Data]
    /\ up \in {"up", "stopping", "down"}
    /\ {due, paused, tick, posting, enabled, asked} \subseteq BOOLEAN
    /\ faults \in 0..MaxFaults
    /\ changes \in 0..MaxChanges

(* A job that waits can still be claimed, however often it was paused,     *)
(* stopped, crashed or failed: the scheduler requests the waiting job over *)
(* and over, so one that claim_job refuses would end discovery for good.   *)
PendingIsResumable == job.state = "pending" => job.attempts < AttemptLimit

Passed(data) == UNION {Pages[i] : i \in 1..data.checkpoint}

(* What a resumed scan may skip: every active event on the pages before    *)
(* the checkpoint has been seen by this very job, or the scan knows that   *)
(* it had errors, through pauses, stops, crashes and failed attempts.      *)
CheckpointSound ==
    job.state \in {"pending", "running"} /\ ~row.errors =>
        \A e \in Passed(row) : catalog[e] = "active" /\ listing[e] = "open" => e \in seen

(* Only a completed, error-free scan retires events, and only events it    *)
(* did not find: an event that is listed and trades stays active.          *)
ListedStaysActive ==
    [][\A e \in Events : catalog[e] = "active" /\ listing[e] = "open" => catalog'[e] = "active"]_vars

(* A refresh the API has queued is carried through: its job completes or   *)
(* has failed for good, also with --no-sync, where nothing but the manual  *)
(* mark in the row keeps the scheduler at it.                              *)
ManualRefreshHappens == asked ~> (~asked \/ paused)

(* An event that left the listing does not stay active: whatever failed    *)
(* before, some later scan completes without errors and retires it.        *)
GoneIsRetired ==
    \A e \in Events :
      listing[e] = "gone" /\ catalog[e] = "active"
        ~> (catalog[e] # "active" \/ paused \/ ~enabled)
=============================================================================
