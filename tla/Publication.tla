----------------------------- MODULE Publication -----------------------------
(***************************************************************************)
(* From captured contracts to accepted assertions: pipeline.py, the        *)
(* consensus gate of consensus.py and Store.capture.                       *)
(*                                                                         *)
(* Each request runs in a thread of its own (FastAPI's pool, the worker    *)
(* thread, the analysis lane).  Interpreting, approving by consensus and   *)
(* publishing read the dataset first and commit in a later transaction;    *)
(* what a thread read is in task[w] until it commits, and every other      *)
(* operation may run in between.  Capturing, registering, configuring and  *)
(* reviewing are one transaction each.                                     *)
(*                                                                         *)
(* Operations that raise before they write change nothing; they appear     *)
(* only where a thread has work to drop (GiveUp).                          *)
(***************************************************************************)
EXTENDS Nodes

CONSTANTS Contracts,   \* the contracts of the venues
          Canonical,   \* registry names; all stand for one observation
          Readings,    \* thresholds a compiler can read in a contract
          Modes,       \* "manual-candidate", "stored-response-replay"
          Panels,      \* producer panels
          Opinions,    \* what a review may say: a subset of BOOLEAN
          Allow,       \* values of allow_consensus: a subset of BOOLEAN
          Workers,     \* threads
          Limit        \* bound on the number of nodes of each kind

ASSUME PublicationAssumption ==
    /\ Readings \subseteq Nat
    /\ Opinions \subseteq BOOLEAN
    /\ Allow \subseteq BOOLEAN
    /\ \A kind \in DOMAIN Limit : Limit[kind] \in Nat

VARIABLE task  \* what each thread has read and not yet committed

vars == <<stored, current, task>>

Idle == [op |-> "idle"]

-----------------------------------------------------------------------------
(* Contents of the nodes.  `rev` stands for capture_revision,             *)
(* configuration_revision, interpretation_revision, and for the time of   *)
(* day in registry versions and reviews.                                  *)

Count(kind) == Cardinality({n \in stored : n.kind = kind})

Room(kind) == Count(kind) < Limit[kind]

Node(kind, logical, data, deps) ==
    [kind |-> kind, logical |-> logical, data |-> data, deps |-> deps]

ContractNode(c, rev, complete) ==
    Node("contract", c, [rev |-> rev, complete |-> complete], {})

ConfigurationNode(rev) == Node("configuration", "active", [rev |-> rev], {})

RegistryNode(g, rev) == Node("registry", g, [rev |-> rev], {})

(* An interpretation rests on the registration of its observation, if it  *)
(* has one, and on those whose rules its derivations apply.               *)
InterpretationNode(contract, configuration, observation, registry, reading, mode, rev) ==
    Node("interpretation", contract,
         [reading |-> reading, observation |-> observation, mode |-> mode, rev |-> rev],
         {contract, configuration} \cup registry)

ReviewNode(i, approved, time) ==
    Node("review", i, [approved |-> approved, time |-> time], {i})

PanelNode(p) == Node("judge_config", "producer-panel", [panel |-> p], {})

(* The ballots and the label set under a consensus approval are           *)
(* determined by the interpretation and the panel (the label set is       *)
(* frozen under that pair), so they are left out.                         *)
ConsensusNode(i, panel) ==
    Node("consensus_approval", i, [ballots |-> panel], {i, i.logical, panel})

AssertionNode(claim, basis, approvals) ==
    Node("assertion", claim.id, [reviewed |-> claim.reviewed, basis |-> basis],
         claim.operands \cup approvals)

QuarantineNode(claims) == Node("quarantine", claims, [proposals |-> claims], {})

Interpretations == {n \in stored : n.kind = "interpretation"}

Registrations == {n \in stored : n.kind = "registry"}

Assertions == {n \in current : n.kind = "assertion"}

Operands(s) == {d \in s.deps : d.kind = "interpretation"}

-----------------------------------------------------------------------------
(* Invalidation.  The longest chain of dependencies here has four kinds   *)
(* (contract, interpretation, review, assertion), so three layers of      *)
(* children complete the closure of the recursive query.                  *)

WithChildren(S) == S \cup Children(S)

(* Faulty variants: nothing derived from the row is invalidated; the      *)
(* children of the children are forgotten.                                *)
JustItself(x) == {x}

TwoLayers(x) == WithChildren({x})

Descendants(x) == WithChildren(WithChildren(WithChildren({x})))

(* Faulty variant: the query forgets the logical name. *)
ReplacedByKind(n) == UNION {Descendants(o) : o \in {c \in current : c.kind = n.kind}}

ReplacedBy(n) ==
    UNION {Descendants(o) : o \in CurrentVersions(n.kind, n.logical)}

(* Faulty variant: the row replaced is deleted. *)
RecordDeleting(n) ==
    /\ Admissible(n)
    /\ stored' = (stored \ (CurrentVersions(n.kind, n.logical) \ {n})) \cup {n}
    /\ current' = IF n \in stored THEN current
                  ELSE (current \ ReplacedBy(n)) \cup {n}

(* Store.insert inside the caller's transaction; content that is stored   *)
(* and current is returned as it is.                                      *)
Record(n) ==
    /\ Admissible(n)
    /\ stored' = stored \cup {n}
    /\ current' = IF n \in stored THEN current
                  ELSE (current \ ReplacedBy(n)) \cup {n}

-----------------------------------------------------------------------------
(* Store.capture of content that differs from the current version.  A     *)
(* capture of unchanged governing content keeps the version: no step.     *)
Capture(c, complete) ==
    /\ Room("contract")
    /\ LET rev == Cardinality({n \in stored : n.kind = "contract" /\ n.logical = c}) + 1
       IN  Record(ContractNode(c, rev, complete))
    /\ UNCHANGED task

(* Pipeline.configure with a configuration that differs. *)
Configure ==
    /\ Room("configuration")
    /\ Record(ConfigurationNode(Count("configuration") + 1))
    /\ UNCHANGED task

(* Pipeline.register: reviewed_at makes every registration a new version. *)
Register(g) ==
    /\ Room("registry")
    /\ Record(RegistryNode(g, Count("registry") + 1))
    /\ UNCHANGED task

(* Pipeline.resolve.  An IR that names no canonical identity gets one when *)
(* its definition has exactly one current registration; one that names it, *)
(* itself or by way of a reviewed alias, must name a current version.      *)
Resolutions ==
    LET matches == {n \in current : n.kind = "registry"}
    IN  {IF Cardinality(matches) = 1 THEN matches ELSE {}} \cup {{n} : n \in matches}

(* reasoning.eligible: the canonical observation is known. *)
Observation(i) == i.data.observation

Eligible(i) == Observation(i) # {}

(* Pipeline.interpret before its transaction.  A manual candidate runs    *)
(* under the active configuration, a replay under any stored one; the     *)
(* contract is the one the IR names, and the rules are those that the      *)
(* derivations given with a manual candidate name: each current or not.    *)
InterpretRead(w, contract, configuration, observation, rules, reading, mode) ==
    /\ task[w] = Idle
    /\ contract.kind = "contract"
    /\ configuration.kind = "configuration"
    /\ mode = "manual-candidate" => configuration \in current
    /\ rules # {} => mode = "manual-candidate"
    /\ task' = [task EXCEPT ![w] =
                  [op |-> "interpret", contract |-> contract,
                   configuration |-> configuration, observation |-> observation,
                   registry |-> observation \cup rules,
                   reading |-> reading, mode |-> mode]]
    /\ UNCHANGED <<stored, current>>

(* Faulty variant: the revision grows only when a contract is first read. *)
RevisionKept(t) ==
    LET now == CurrentVersions("interpretation", t.contract)
    IN  IF t.mode = "manual-candidate" /\ now # {}
        THEN (CHOOSE i \in now : TRUE).data.rev ELSE 0

(* The revision a manual candidate is stored under: the current one's     *)
(* when nothing else differs, a new one otherwise.  Other modes have none.*)
Revision(t) ==
    LET same == {i \in CurrentVersions("interpretation", t.contract) :
                   i = InterpretationNode(t.contract, t.configuration, t.observation,
                                          t.registry, t.reading, t.mode, i.data.rev)}
    IN  CASE t.mode # "manual-candidate" -> 0
          [] t.mode = "manual-candidate" /\ same # {} -> (CHOOSE i \in same : TRUE).data.rev
          [] OTHER -> Count("interpretation") + 1

(* The transaction of Pipeline.interpret. *)
InterpretCommit(w) ==
    /\ task[w].op = "interpret"
    /\ LET t == task[w]
           i == InterpretationNode(t.contract, t.configuration, t.observation,
                                   t.registry, t.reading, t.mode, Revision(t))
       IN  /\ i \in stored \/ Room("interpretation")
           /\ Record(i)
    /\ task' = [task EXCEPT ![w] = Idle]

-----------------------------------------------------------------------------
(* Acceptance: consensus.py 37-78. *)

HumanApproved(i) == \E r \in CurrentVersions("review", i) : r.data.approved

HumanRejected(i) == \E r \in CurrentVersions("review", i) : ~r.data.approved

ConsensusRecord(i) == CurrentVersions("consensus_approval", i)

(* Faulty variant: consensus is asked before the rejection. *)
AcceptedWithoutVeto(i, allow) ==
    HumanApproved(i) \/ (allow /\ ConsensusRecord(i) # {})

Accepted(i, allow) ==
    /\ ~HumanRejected(i)
    /\ HumanApproved(i) \/ (allow /\ ConsensusRecord(i) # {})

ApprovalsOf(i) ==
    IF HumanApproved(i) THEN CurrentVersions("review", i) ELSE ConsensusRecord(i)

(* Faulty variant: one human approval is enough for HUMAN_REVIEW. *)
BasisOfAny(operands) ==
    IF \E i \in operands : HumanApproved(i) THEN "HUMAN_REVIEW"
    ELSE "LOCAL_MODEL_CONSENSUS"

Basis(operands) ==
    IF \A i \in operands : HumanApproved(i) THEN "HUMAN_REVIEW"
    ELSE "LOCAL_MODEL_CONSENSUS"

(* The assertions a rejection invalidates: those the rejected             *)
(* interpretation is an operand of.                                       *)
RestingOn(i) == {n \in stored : n.kind = "assertion" /\ i \in n.deps}

(* Pipeline.review. *)
Review(i, approve) ==
    /\ i \in current
    /\ Room("review")
    /\ approve => Eligible(i) /\ i.logical.data.complete
    /\ LET r == ReviewNode(i, approve, Count("review") + 1)
           withdrawn == IF approve THEN {}
                        ELSE UNION {Descendants(a) : a \in RestingOn(i)}
       IN  /\ stored' = stored \cup {r}
           /\ current' = (current \ (ReplacedBy(r) \cup withdrawn)) \cup {r}
    /\ UNCHANGED task

(* consensus.approve_interpretation up to the ballots: the target may     *)
(* already be obsolete, the veto is checked here and not again, and the   *)
(* panel is persisted in a transaction of its own (which raises when this *)
(* panel was configured before another one).                              *)
ConsensusRead(w, i, p) ==
    /\ task[w] = Idle
    /\ Eligible(i)
    /\ ~HumanRejected(i)
    /\ i.logical.data.complete
    /\ Record(PanelNode(p))
    /\ task' = [task EXCEPT ![w] =
                  [op |-> "consensus", interpretation |-> i, panel |-> PanelNode(p)]]

(* The transaction that records a unanimous panel. *)
ConsensusCommit(w) ==
    /\ task[w].op = "consensus"
    /\ Record(ConsensusNode(task[w].interpretation, task[w].panel))
    /\ task' = [task EXCEPT ![w] = Idle]

-----------------------------------------------------------------------------
(* Comparison and publication. *)

(* reasoning.verify for `value >= reading` predicates over one            *)
(* observation: x IMPLIES y.                                              *)
Proven(x, y) == x.data.reading >= y.data.reading

(* Faulty variant: consensus writes REVIEWED. *)
ClaimByAcceptance(x, y) ==
    [id |-> <<x.logical, y.logical>>, operands |-> {x, y},
     reviewed |-> {i \in {x, y} : Accepted(i, TRUE)}]

(* A claim, and which of its interpretation_assessments are REVIEWED; the *)
(* others are SUPPORTED.                                                  *)
Claim(x, y) ==
    [id |-> <<x.logical, y.logical>>, operands |-> {x, y},
     reviewed |-> {i \in {x, y} : HumanApproved(i)}]

(* Pipeline.compare: what holds between the current eligible              *)
(* interpretations of one observation, with the assessment each operand   *)
(* has at this moment.                                                    *)
Compare ==
    LET records == {i \in current : i.kind = "interpretation" /\ Eligible(i)}
    IN  {Claim(p[1], p[2]) :
           p \in {q \in records \X records :
                    /\ q[1] # q[2]
                    /\ Observation(q[1]) = Observation(q[2])
                    /\ Proven(q[1], q[2])}}

(* Pipeline.publish before its transaction. *)
PublishRead(w, allow) ==
    /\ task[w] = Idle
    /\ Compare # {}
    /\ task' = [task EXCEPT ![w] =
                  [op |-> "publish", allow |-> allow, claims |-> Compare]]
    /\ UNCHANGED <<stored, current>>

OperandsCurrent(claims) == \A c \in claims : RequireCurrent(c.operands)

(* What the transaction of publish adds: the claims whose operands are    *)
(* all accepted now, with the approvals they rest on.                     *)
Accepting(t) ==
    {AssertionNode(c, Basis(c.operands), UNION {ApprovalsOf(i) : i \in c.operands}) :
       c \in {k \in t.claims : \A i \in k.operands : Accepted(i, t.allow)}}

(* The transaction of Pipeline.publish: all the accepted claims or, when  *)
(* an operand is obsolete or an assertion is historical, none.            *)
PublishCommit(w) ==
    /\ task[w].op = "publish"
    /\ OperandsCurrent(task[w].claims)
    /\ LET new == Accepting(task[w])
       IN  /\ \A n \in new : Admissible(n)
           /\ stored' = stored \cup new
           /\ current' = (current \ UNION {ReplacedBy(n) : n \in new \ stored}) \cup new
    /\ task' = [task EXCEPT ![w] = Idle]

(* The same transaction when the combined constraints are inconsistent or *)
(* undecided: the proposals are recorded and nothing is accepted.         *)
Quarantine(w) ==
    /\ task[w].op = "publish"
    /\ OperandsCurrent(task[w].claims)
    /\ Room("quarantine")
    /\ Record(QuarantineNode(task[w].claims))
    /\ task' = [task EXCEPT ![w] = Idle]

(* A thread's work is lost: its transaction raised StaleInput, the panel  *)
(* abstained, or the process stopped.                                     *)
Drop(w) ==
    /\ task[w] # Idle
    /\ task' = [task EXCEPT ![w] = Idle]
    /\ UNCHANGED <<stored, current>>

-----------------------------------------------------------------------------
Init ==
    /\ stored = {}
    /\ current = {}
    /\ task = [w \in Workers |-> Idle]

Next ==
    \/ \E c \in Contracts, complete \in BOOLEAN : Capture(c, complete)
    \/ Configure
    \/ \E g \in Canonical : Register(g)
    \/ \E w \in Workers, contract, configuration \in stored, observation \in Resolutions,
          rules \in SUBSET Registrations, reading \in Readings, mode \in Modes :
         InterpretRead(w, contract, configuration, observation, rules, reading, mode)
    \/ \E w \in Workers : InterpretCommit(w)
    \/ \E i \in Interpretations, approve \in Opinions : Review(i, approve)
    \/ \E w \in Workers, i \in Interpretations, p \in Panels : ConsensusRead(w, i, p)
    \/ \E w \in Workers : ConsensusCommit(w)
    \/ \E w \in Workers, allow \in Allow : PublishRead(w, allow)
    \/ \E w \in Workers : PublishCommit(w)
    \/ \E w \in Workers : Quarantine(w)
    \/ \E w \in Workers : Drop(w)

Spec == Init /\ [][Next]_vars

-----------------------------------------------------------------------------
TypeOK ==
    /\ Grounded
    /\ \A n \in stored : DOMAIN n = {"kind", "logical", "data", "deps"}
    /\ \A w \in Workers : task[w].op \in {"idle", "interpret", "consensus", "publish"}

(* tech_spec_v1.md:298 "Accepted assertions require accepted              *)
(* interpretations (current human review or current unanimous             *)
(* producer-panel consensus, unless a current human rejection vetoes      *)
(* consensus)": at every moment, not only at the commit that looked.      *)
AcceptedJustified ==
    \A s \in Assertions : \A i \in Operands(s) :
        /\ i \in current
        /\ i.logical.data.complete
        /\ ~HumanRejected(i)
        /\ HumanApproved(i) \/ ConsensusRecord(i) # {}

(* tech_spec_v1.md:258 "HUMAN_REVIEW: current human approval of the exact *)
(* IR": an assertion that claims it has one for every operand.            *)
BasisHonest ==
    \A s \in Assertions :
        s.data.basis = "HUMAN_REVIEW" => \A i \in Operands(s) : HumanApproved(i)

(* The labels were read before the transaction and may be out of date in  *)
(* one direction only: no operand is called REVIEWED that a human has not *)
(* approved ("Consensus never writes REVIEWED", tech_spec_v1.md:253).     *)
LabelsNeverOverstate ==
    \A s \in Assertions : \A i \in s.data.reviewed : HumanApproved(i)

(* What is accepted about two contracts is true of their current          *)
(* interpretations: whatever value is observed, the first holding makes   *)
(* the second hold, whoever reinterpreted while it was published.         *)
AcceptedSound ==
    \A s \in Assertions :
        \A x \in CurrentVersions("interpretation", s.logical[1]),
           y \in CurrentVersions("interpretation", s.logical[2]) :
            /\ {x, y} = Operands(s)
            /\ \A v \in Readings : v >= x.data.reading => v >= y.data.reading

(* README.md:96 "Restoring earlier candidate content creates a new        *)
(* revision": a corrected candidate is never refused because the same     *)
(* text was interpreted before.                                           *)
ManualCandidateAdmitted ==
    \A w \in Workers :
        LET t == task[w]
        IN  /\ t.op = "interpret"
            /\ t.mode = "manual-candidate"
            /\ RequireCurrent({t.contract, t.configuration} \cup t.registry)
            => Admissible(InterpretationNode(t.contract, t.configuration, t.observation,
                                             t.registry, t.reading, t.mode, Revision(t)))

(* What WithdrawalIsPrecise says of a step. *)
WithdrawalStep ==
    \A n \in Retired :
      \/ \E o \in Replaced : n \in Descendants(o)
      \/ \E r \in Fresh : /\ r.kind = "review" /\ ~r.data.approved
                          /\ n.kind = "assertion" /\ r.logical \in n.deps

(* "Unaffected accepted results remain available" (tech_spec_v1.md:350):  *)
(* a record becomes obsolete only as the descendant of a version that was *)
(* replaced, or as an assertion on an interpretation just rejected.       *)
WithdrawalIsPrecise == [][WithdrawalStep]_vars

(* README.md:102 "`oddsfox publish` checks current human reviews ... plus *)
(* dependencies, before accepting them": what is compared and accepted    *)
(* now can be published now.                                              *)
PublishableNow ==
    \A allow \in Allow :
        \A n \in Accepting([allow |-> allow, claims |-> Compare]) : Admissible(n)
==============================================================================
