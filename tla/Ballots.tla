------------------------------ MODULE Ballots ------------------------------
(***************************************************************************)
(* The ballots of a panel (judge.py) and the consensus approval that rests *)
(* on them (consensus.py).  A command-line call asks the members of the    *)
(* panel one after the other, freezes their label set and approves the     *)
(* interpretation.  The calling process holds the dataset alone, so        *)
(* nothing runs beside it; but it may be lost between any two              *)
(* transactions, and the operator calls again.                             *)
(*                                                                         *)
(* A question is one interpretation before one panel configuration.  Only  *)
(* the rows of the question whose interpretation and configuration are     *)
(* current are kept: the rows of another depend on an obsolete node, and   *)
(* enqueue, insert and current refuse or ignore them.                      *)
(***************************************************************************)
EXTENDS Naturals, Sequences, FiniteSets

CONSTANTS Size,       \* models in the panel; at least MIN_PANEL = 3 in the code
          Answers,    \* payloads a valid ballot can have
          Expected,   \* the payload that says what the compiled IR says
          Abstain,    \* no payload
          Questions,
          None,
          MaxCrashes  \* bound on the crashes explored

ASSUME BallotsAssumption ==
    /\ Size \in Nat \ {0}
    /\ Expected \in Answers
    /\ Abstain \notin Answers /\ None \notin Answers \cup {Abstain} \cup Questions
    /\ MaxCrashes \in Nat

Members == 1..Size

AttemptLimit == 3

VARIABLES question, \* the question whose rows are current
          retired,  \* the questions whose interpretation or panel is obsolete
          job,      \* the `judge` job of each member
          ballot,   \* its current judge_ballot: attempt that wrote it and payload
          output,   \* the attempt whose ballot jobs.output names, 0 for none
          label,    \* the frozen label set: verdict and the ballots it names
          approval, \* whether the consensus_approval is current
          call,     \* the running call: where it is, whom it asks, what it got
          crashes

rows == <<job, ballot, output, label, approval>>
vars == <<question, retired, job, ballot, output, label, approval, call, crashes>>

NoJobs == [m \in Members |-> [state |-> "pending", attempts |-> 0]]
NoBallots == [m \in Members |-> [attempt |-> 0, payload |-> None]]
NoOutputs == [m \in Members |-> 0]
NoLabel == [verdict |-> None, basis |-> NoOutputs]
NoCall == [pc |-> "none", at |-> 1, got |-> NoBallots]

Init ==
    /\ question = None
    /\ retired = {}
    /\ job = NoJobs
    /\ ballot = NoBallots
    /\ output = NoOutputs
    /\ label = NoLabel
    /\ approval = FALSE
    /\ call = NoCall
    /\ crashes = 0

AfterFailure(j) == [j EXCEPT !.state = IF j.attempts >= AttemptLimit THEN "failed" ELSE "pending"]

(* Faulty variant: jobs that were running are left as they are. *)
NotRecovered == job

(* Opening the dataset recovers the job a lost call was running. *)
Recovered == [m \in Members |-> IF job[m].state = "running" THEN AfterFailure(job[m]) ELSE job[m]]

(* Faulty variant: the members are asked again although a label set exists. *)
AskAgain(q) ==
    /\ call.pc = "none"
    /\ q = question
    /\ job' = Recovered
    /\ call' = [NoCall EXCEPT !.pc = "ask"]
    /\ UNCHANGED <<question, retired, ballot, output, label, approval, crashes>>

(* approve_interpretation: with the same panel and interpretation the call *)
(* goes on where an earlier one stopped, and a label set that is frozen    *)
(* already is taken as it is.                                              *)
Ask(q) ==
    /\ call.pc = "none"
    /\ q = question
    /\ job' = Recovered
    /\ call' = [NoCall EXCEPT !.pc = IF label = NoLabel THEN "ask" ELSE "approve"]
    /\ UNCHANGED <<question, retired, ballot, output, label, approval, crashes>>

(* Another interpretation or another panel: persist_config or interpret    *)
(* supersedes a node of the old question, whose rows become obsolete.  A   *)
(* configuration or interpretation that was superseded is refused.         *)
Turn(q) ==
    /\ call.pc = "none"
    /\ q \notin retired \cup {question}
    /\ question' = q
    /\ retired' = retired \cup ({question} \ {None})
    /\ job' = NoJobs
    /\ ballot' = NoBallots
    /\ output' = NoOutputs
    /\ label' = NoLabel
    /\ approval' = FALSE
    /\ UNCHANGED <<call, crashes>>

-----------------------------------------------------------------------------
(* run_ballot for the member whose turn it is. *)
Asking(m) == call.pc = "ask" /\ m = call.at

Answered(m, number, payload) ==
    [call EXCEPT !.pc = "ask", !.at = m + 1,
                 !.got[m] = [attempt |-> number, payload |-> payload]]

Claimable(m) == job[m].state = "pending" /\ job[m].attempts < AttemptLimit

(* The job is enqueued, unless it exists, and claimed. *)
Claim(m) ==
    /\ Asking(m)
    /\ Claimable(m)
    /\ job' = [job EXCEPT ![m] = [state |-> "running", attempts |-> @.attempts + 1]]
    /\ call' = [call EXCEPT !.pc = "generate"]
    /\ UNCHANGED <<question, retired, ballot, output, label, approval, crashes>>

(* It is done: its output is the member's ballot. *)
Reuse(m) ==
    /\ Asking(m)
    /\ ~Claimable(m)
    /\ output[m] # 0
    /\ call' = Answered(m, output[m], ballot[m].payload)
    /\ UNCHANGED <<question, retired, rows, crashes>>

(* It can neither be claimed nor has an output: "missing ballot", with the *)
(* identity of the job in the place of a ballot's.                         *)
Missing(m) ==
    /\ Asking(m)
    /\ ~Claimable(m)
    /\ output[m] = 0
    /\ call' = Answered(m, 0, Abstain)
    /\ UNCHANGED <<question, retired, rows, crashes>>

(* What a model may return: a payload, nothing in time, no valid ballot,   *)
(* a ballot without citations of the captured sources, or a ballot from a  *)
(* model whose files changed meanwhile.                                    *)
Invalid == {"timeout", "schema", "citation", "changed model"}
Responses == Answers \cup Invalid

(* parse_ballot, validate_citations and the except paths of run_ballot. *)
Payload(response) == IF response \in Invalid THEN Abstain ELSE response

(* record_ballot: the member's new ballot replaces the one of an earlier   *)
(* attempt, and with it everything that rests on that one.                 *)
Record(m, response) ==
    /\ call.pc = "generate"
    /\ m = call.at
    /\ ballot' = [ballot EXCEPT ![m] = [attempt |-> job[m].attempts, payload |-> Payload(response)]]
    /\ label' = IF ballot[m].attempt = 0 THEN label ELSE NoLabel
    /\ approval' = (approval /\ ballot[m].attempt = 0)
    /\ call' = [call EXCEPT !.pc = "recorded"]
    /\ UNCHANGED <<question, retired, job, output, crashes>>

(* The job ends in a transaction of its own: with a payload it is done,    *)
(* with an abstention the attempt has failed.                              *)
End(m) ==
    /\ call.pc = "recorded"
    /\ m = call.at
    /\ IF ballot[m].payload \in Answers
       THEN /\ job' = [job EXCEPT ![m].state = "done"]
            /\ output' = [output EXCEPT ![m] = ballot[m].attempt]
       ELSE /\ job' = [job EXCEPT ![m] = AfterFailure(@)]
            /\ UNCHANGED output
    /\ call' = Answered(m, ballot[m].attempt, ballot[m].payload)
    /\ UNCHANGED <<question, retired, ballot, label, approval, crashes>>

-----------------------------------------------------------------------------
(* Faulty variant: only the payloads that came in are compared. *)
AgreementOfGiven(got) ==
    LET payloads == {got[m].payload : m \in Members} \ {Abstain}
    IN  IF Cardinality(payloads) = 1 THEN CHOOSE p \in payloads : TRUE ELSE Abstain

(* unanimous(), and the reasons: one payload from everybody, or none. *)
Agreement(got) ==
    IF \E p \in Answers : \A m \in Members : got[m].payload = p
    THEN got[1].payload ELSE Abstain

Basis == [m \in Members |-> call.got[m].attempt]

(* Faulty variant: the parents are not looked up. *)
FreezeUnchecked ==
    /\ call.pc = "ask"
    /\ call.at > Size
    /\ label' = [verdict |-> Agreement(call.got), basis |-> Basis]
    /\ call' = [call EXCEPT !.pc = "approve"]
    /\ UNCHANGED <<question, retired, job, ballot, output, approval, crashes>>

(* freeze_label_set: the label set depends on every ballot; an identity    *)
(* that is no node's is refused, and with it the call.                     *)
Freeze ==
    /\ call.pc = "ask"
    /\ call.at > Size
    /\ IF \E m \in Members : Basis[m] = 0
       THEN call' = NoCall /\ UNCHANGED label
       ELSE /\ label' = [verdict |-> Agreement(call.got), basis |-> Basis]
            /\ call' = [call EXCEPT !.pc = "approve"]
    /\ UNCHANGED <<question, retired, job, ballot, output, approval, crashes>>

(* The approval, if the label says what the compiled IR says. *)
Approve ==
    /\ call.pc = "approve"
    /\ approval' = (approval \/ label.verdict = Expected)
    /\ call' = NoCall
    /\ UNCHANGED <<question, retired, job, ballot, output, label, crashes>>

(* The process is lost in the middle of a call. *)
Crash ==
    /\ call.pc # "none"
    /\ crashes < MaxCrashes
    /\ crashes' = crashes + 1
    /\ call' = NoCall
    /\ UNCHANGED <<question, retired, rows>>

Step ==
    \/ \E m \in Members : Claim(m)
    \/ \E m \in Members : Reuse(m)
    \/ \E m \in Members : Missing(m)
    \/ \E m \in Members, response \in Responses : Record(m, response)
    \/ \E m \in Members : End(m)
    \/ Freeze
    \/ Approve

Next ==
    \/ \E q \in Questions : Ask(q)
    \/ \E q \in Questions \cup {None} : Turn(q)
    \/ Step
    \/ Crash

(* Generation has a timeout and every exception is recorded, so a call     *)
(* goes on to its end; the operator repeats a call that was lost.          *)
Fairness == WF_vars(Step) /\ WF_vars(\E q \in Questions : label = NoLabel /\ Ask(q))

Spec == Init /\ [][Next]_vars

FairSpec == Spec /\ Fairness

-----------------------------------------------------------------------------
(* The rows hold what the code can write into them; a label set names a    *)
(* ballot of every member, never a job.                                    *)
TypeOK ==
    /\ question \in Questions \cup {None}
    /\ retired \subseteq Questions \ {question}
    /\ job \in [Members -> [state : {"pending", "running", "done", "failed"},
                            attempts : 0..AttemptLimit]]
    /\ ballot \in [Members -> [attempt : 0..AttemptLimit, payload : Answers \cup {Abstain, None}]]
    /\ output \in [Members -> 0..AttemptLimit]
    /\ \/ label = NoLabel
       \/ label \in [verdict : Answers \cup {Abstain}, basis : [Members -> 1..AttemptLimit]]
    /\ approval \in BOOLEAN
    /\ call \in [pc : {"none", "ask", "generate", "recorded", "approve"}, at : 1..Size + 1,
                 got : [Members -> [attempt : 0..AttemptLimit,
                                    payload : Answers \cup {Abstain, None}]]]
    /\ crashes \in 0..MaxCrashes

(* A label set, and the approval made from it, rest on the ballots that    *)
(* are current: the ones it names, whichever attempt they came from and    *)
(* however often the call was lost in between; a label is what every       *)
(* member says, an abstention means that somebody abstained or dissented,  *)
(* and only a label that agrees with the IR was approved.                  *)
LabelRests ==
    /\ label # NoLabel =>
         /\ \A m \in Members : ballot[m].attempt = label.basis[m]
         /\ \A p \in Answers :
              label.verdict = p <=> \A m \in Members : ballot[m].payload = p
    /\ approval => label.verdict = Expected

(* The panel keeps the promise of Verdict: one verdict for a question,     *)
(* from the votes of all members, final until the question is replaced,    *)
(* through crashes, repeated calls and repeated attempts.                  *)
PanelVerdict == INSTANCE Verdict WITH
    closed <- retired,
    votes <- [m \in Members |-> ballot[m].payload],
    verdict <- label.verdict

ImplementsVerdict == PanelVerdict!Spec

(* Every attempt at some member's ballot was lost to a failure and a crash. *)
Exhausted == \E m \in Members : job[m].state = "failed" /\ call.pc = "none" /\ label = NoLabel

(* A call that is repeated comes to a verdict, unless a member has lost    *)
(* all its attempts.                                                       *)
VerdictReached ==
    \A q \in Questions :
      question = q /\ call.pc # "none" ~> (label # NoLabel \/ question # q \/ Exhausted)
=============================================================================
