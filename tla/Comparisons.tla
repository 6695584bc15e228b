---------------------------- MODULE Comparisons ----------------------------
(***************************************************************************)
(* The comparison cache (pipeline.py) and the lane that fills it           *)
(* (sync.py).  Interpretations of one observation form a group; a batch    *)
(* takes the group that waited longest, compares a few pairs, stores their *)
(* claims one by one and a checkpoint after each pair, while captures,     *)
(* interpretations and reviews go on.  What is stored carries the          *)
(* signature of the records and reviews it was made from, and only rows of *)
(* the current signature are shown.                                        *)
(*                                                                         *)
(* Only the lane's one worker writes the cache: launch_lane, under the     *)
(* store's lock, starts no batch before the last one has ended.            *)
(***************************************************************************)
EXTENDS Reasoning, SequencesExt

CONSTANTS Groups,     \* observations, 1..n in the order of their keys
          Contracts,  \* contract versions, as numbers
          Bodies,     \* what a contract can be interpreted to say
          Initial,    \* the interpretations a dataset may have when it is opened
          Values,     \* enough values of an observation to tell bodies apart
          Panel,      \* contracts whose interpretation a panel approved, on a
                      \* server that allows consensus; else none
          MaxPairs,   \* pairs in a batch
          None,
          MaxChanges, \* bound on interpretations and reviews
          MaxFaults   \* bound on crashes and failed batches

ASSUME ComparisonsAssumption ==
    /\ Groups = 1..Cardinality(Groups)
    /\ IsFiniteSet(Contracts) /\ Contracts \subseteq Nat /\ Panel \subseteq Contracts
    /\ Bodies \subseteq [group : Groups, comparator : Comparators, threshold : {v \in Values : Even(v)},
                         payout : {"yes", "no", "foreign", "amount"}]
    /\ Initial \subseteq [Contracts -> Bodies]
    /\ Values \subseteq Int /\ Unbounded \notin Int
    /\ \A a, b \in Bodies : Points({a.threshold, b.threshold}) \subseteq Values
    /\ \A members \in SUBSET Contracts : None \notin [members -> Nat \X Nat]
    /\ MaxPairs \in Nat \ {0}
    /\ MaxChanges \in Nat /\ MaxFaults \in Nat

VARIABLES body,    \* the current interpretation of each contract
          rev,     \* how many interpretations it has had
          reviews, \* the reviews of the current one, oldest first
          cache,   \* the table comparison_groups, a row per group
          rows,    \* the table comparison_rows
          updated, \* the groups in the order their rows were last written
          worker,  \* the batch under way
          backoff, \* lane_state.retry_at has not passed
          changes, faults

dataset == <<body, rev, reviews>>
vars == <<body, rev, reviews, cache, rows, updated, worker, backoff, changes, faults>>

-----------------------------------------------------------------------------
Members(g) == {c \in Contracts : body[c].group = g}

(* comparison_contexts: a group's signature names its interpretations and  *)
(* their reviews.  Neither can be restored once it was superseded.         *)
Signature(g) == [c \in Members(g) |-> <<rev[c], Len(reviews[c])>>]

Record(c) == [contract |-> c, comparator |-> body[c].comparator,
              threshold |-> body[c].threshold, payout |-> body[c].payout]

Records(g) == {Record(c) : c \in Members(g)}

(* human_approved: the review that is current approves. *)
Approved(c) == reviews[c] # <<>> /\ Last(reviews[c])
Rejected(c) == reviews[c] # <<>> /\ ~Last(reviews[c])

NoRow == [signature |-> None, state |-> "absent", cursor |-> 0]

Idle == [pc |-> "idle"]

Init ==
    /\ body \in Initial
    /\ rev = [c \in Contracts |-> 0]
    /\ reviews = [c \in Contracts |-> <<>>]
    /\ cache = [g \in Groups |-> NoRow]
    /\ rows = {}
    /\ updated = <<>>
    /\ worker = Idle
    /\ backoff = FALSE
    /\ changes = 0
    /\ faults = 0

(* A contract is interpreted anew; the reviews of the old interpretation   *)
(* become obsolete with it.                                                *)
Interpret(c, b) ==
    /\ changes < MaxChanges
    /\ b # body[c]
    /\ changes' = changes + 1
    /\ body' = [body EXCEPT ![c] = b]
    /\ rev' = [rev EXCEPT ![c] = @ + 1]
    /\ reviews' = [reviews EXCEPT ![c] = <<>>]
    /\ UNCHANGED <<cache, rows, updated, worker, backoff, faults>>

Review(c, verdict) ==
    /\ changes < MaxChanges
    /\ changes' = changes + 1
    /\ reviews' = [reviews EXCEPT ![c] = Append(@, verdict)]
    /\ UNCHANGED <<body, rev, cache, rows, updated, worker, backoff, faults>>

-----------------------------------------------------------------------------
HasRow(g) == cache[g].signature = Signature(g)

Complete(g) == HasRow(g) /\ cache[g].state = "complete"

Pending == {g \in Groups : Members(g) # {} /\ ~Complete(g)}

Written(g) == \E i \in DOMAIN updated : updated[i] = g

Turn(g) == CHOOSE i \in DOMAIN updated : updated[i] = g

(* Faulty variant: the older entry is not removed. *)
TouchedAgain(g) == Append(updated, g)

Touched(g) == Append(IF Written(g) THEN RemoveAt(updated, Turn(g)) ELSE updated, g)

Position(g) == IF HasRow(g) THEN Turn(g) ELSE 0

(* The group whose row is oldest, one without a row first. *)
Oldest(g) ==
    \A h \in Pending : \/ Position(g) < Position(h)
                       \/ Position(g) = Position(h) /\ g <= h

(* Faulty variant: every batch starts at the first pair. *)
LaunchAfresh(g) ==
    /\ worker = Idle
    /\ ~backoff
    /\ g \in Pending
    /\ Oldest(g)
    /\ worker' = [pc |-> "chosen", group |-> g, signature |-> Signature(g),
                  records |-> Records(g), cursor |-> 0]
    /\ UNCHANGED <<dataset, cache, rows, updated, backoff, changes, faults>>

(* launch_lane, from the scheduler or from POST /api/comparisons/refresh,  *)
(* and the reading half of refresh_comparisons.                            *)
Launch(g) ==
    /\ worker = Idle
    /\ ~backoff
    /\ g \in Pending
    /\ Oldest(g)
    /\ worker' = [pc |-> "chosen", group |-> g, signature |-> Signature(g),
                  records |-> Records(g), cursor |-> IF HasRow(g) THEN cache[g].cursor ELSE 0]
    /\ UNCHANGED <<dataset, cache, rows, updated, backoff, changes, faults>>

(* The group's row is written for this signature. *)
Begin ==
    /\ worker.pc = "chosen"
    /\ cache' = [cache EXCEPT ![worker.group] =
                   [signature |-> worker.signature, state |-> "running", cursor |-> worker.cursor]]
    /\ updated' = Touched(worker.group)
    /\ worker' = [worker EXCEPT !.pc = "begun"]
    /\ UNCHANGED <<dataset, rows, backoff, changes, faults>>

(* iter_comparisons: neighbours among all records, and among those that    *)
(* are accepted, so that the accepted ones alone form chains as well.      *)
EdgesKept(records, accepted) ==
    ObservedEdges(records) \cup ObservedEdges({r \in records : r.contract \in accepted})

(* The iteration starts with the reviews of this moment.  A refresh asked  *)
(* of a server that allows consensus also takes what a panel approved,     *)
(* unless it is rejected; the scheduler's own batches do not.              *)
Start(consensus) ==
    /\ worker.pc = "begun"
    /\ LET contracts == {r.contract : r \in worker.records}
           accepted == {c \in contracts : Approved(c) \/ (c \in consensus /\ ~Rejected(c))}
       IN  worker' = [pc |-> "pair", group |-> worker.group, signature |-> worker.signature,
                      cursor |-> worker.cursor, advanced |-> worker.cursor,
                      pairs |-> CandidatePairs(worker.records),
                      edges |-> EdgesKept(worker.records, accepted), todo |-> {}]
    /\ UNCHANGED <<dataset, cache, rows, updated, backoff, changes, faults>>

HasNextPair == /\ worker.advanced < worker.cursor + MaxPairs
               /\ worker.advanced < Cardinality(worker.pairs)

(* The claims of the next pair are derived, in some order. *)
NextPair ==
    /\ worker.pc = "pair"
    /\ HasNextPair
    /\ \E pair \in worker.pairs :
         /\ Place(pair, worker.pairs) = worker.advanced
         /\ worker' = [worker EXCEPT !.pc = "claims",
                          !.todo = PairClaims(pair[1], pair[2], worker.edges)]
    /\ UNCHANGED <<dataset, cache, rows, updated, backoff, changes, faults>>

(* One claim is stored, with the assessments of this moment; a row that    *)
(* exists already is left as it is.                                        *)
StoreClaim ==
    /\ worker.pc = "claims"
    /\ worker.todo # {}
    /\ LET claim == CHOOSE c \in worker.todo : TRUE
           Same(r) == r.signature = worker.signature /\ r.claim = claim
       IN  /\ rows' = IF \E r \in rows : Same(r) THEN rows
                      ELSE rows \cup {[signature |-> worker.signature, claim |-> claim,
                                       reviewed |-> {c \in {claim.a, claim.b} : Approved(c)}]}
           /\ worker' = [worker EXCEPT !.todo = @ \ {claim}]
    /\ UNCHANGED <<dataset, cache, updated, backoff, changes, faults>>

(* Faulty variant: the checkpoint trusts the signature of the batch. *)
CheckpointTrusting ==
    /\ worker.pc = "claims"
    /\ worker.todo = {}
    /\ cache' = [cache EXCEPT ![worker.group].cursor = worker.advanced + 1,
                              ![worker.group].signature = Signature(worker.group)]
    /\ updated' = Touched(worker.group)
    /\ worker' = [worker EXCEPT !.pc = "pair", !.advanced = @ + 1,
                                !.signature = Signature(worker.group)]
    /\ UNCHANGED <<dataset, rows, backoff, changes, faults>>

Unchanged == Signature(worker.group) = worker.signature

(* The checkpoint after a pair, unless records or reviews have changed:    *)
(* then the batch is given up.                                             *)
Checkpoint ==
    /\ worker.pc = "claims"
    /\ worker.todo = {}
    /\ IF Unchanged
       THEN /\ cache' = [cache EXCEPT ![worker.group].cursor = worker.advanced + 1]
            /\ updated' = Touched(worker.group)
            /\ worker' = [worker EXCEPT !.pc = "pair", !.advanced = @ + 1]
       ELSE worker' = Idle /\ UNCHANGED <<cache, updated>>
    /\ UNCHANGED <<dataset, rows, backoff, changes, faults>>

(* Faulty variant: the batch is the last one also when it is full. *)
FullIsLast == worker.advanced <= worker.cursor + MaxPairs

(* A batch that was not full has seen the last pair. *)
WasLast == worker.advanced < worker.cursor + MaxPairs

(* The end of the batch. *)
Finish ==
    /\ worker.pc = "pair"
    /\ ~HasNextPair
    /\ cache' = IF Unchanged /\ WasLast
                THEN [cache EXCEPT ![worker.group].state = "complete"] ELSE cache
    /\ worker' = Idle
    /\ UNCHANGED <<dataset, rows, updated, backoff, changes, faults>>

Fault == faults < MaxFaults /\ faults' = faults + 1

(* The batch raises, and the lane waits; or the process is lost, and       *)
(* starts again.                                                           *)
Fail ==
    /\ worker # Idle
    /\ Fault
    /\ worker' = Idle
    /\ backoff' \in BOOLEAN
    /\ UNCHANGED <<dataset, cache, rows, updated, changes>>

Elapse ==
    /\ backoff
    /\ backoff' = FALSE
    /\ UNCHANGED <<dataset, cache, rows, updated, worker, changes, faults>>

BatchStep == \/ Begin
             \/ \E consensus \in {{}, Panel} : Start(consensus)
             \/ NextPair
             \/ StoreClaim
             \/ Checkpoint
             \/ Finish

Next ==
    \/ \E c \in Contracts, b \in Bodies : Interpret(c, b)
    \/ \E c \in Contracts, verdict \in BOOLEAN : Review(c, verdict)
    \/ \E g \in Groups : Launch(g)
    \/ BatchStep
    \/ Fail
    \/ Elapse

(* The scheduler launches the lane at every tick, a batch goes on to its   *)
(* end, and the minute after a failure passes.                             *)
Fairness ==
    /\ WF_vars(\E g \in Groups : Launch(g))
    /\ WF_vars(BatchStep)
    /\ WF_vars(Elapse)

Spec == Init /\ [][Next]_vars

FairSpec == Spec /\ Fairness

-----------------------------------------------------------------------------
Shown(g) == {r \in rows : Members(g) # {} /\ r.signature = Signature(g)}

(* Tables and batch hold what the code can write into them. *)
TypeOK ==
    /\ body \in [Contracts -> Bodies]
    /\ rev \in [Contracts -> 0..MaxChanges]
    /\ \A c \in Contracts : reviews[c] \in Seq(BOOLEAN)
    /\ \A g \in Groups : /\ cache[g].state \in {"absent", "running", "complete"}
                         /\ cache[g].state = "absent" <=> cache[g].signature = None
                         /\ cache[g].state # "absent" => Written(g)
    /\ \A r \in rows : r.reviewed \subseteq {r.claim.a, r.claim.b}
    /\ IsInjective(updated) /\ Range(updated) \subseteq Groups
    /\ worker.pc \in {"idle", "chosen", "begun", "pair", "claims"}

(* The truth of a claim, for every value an observation may have. *)
Holds(relation, x, y) ==
    \A v \in Values : RelationHolds(relation, Truth(body[x].comparator, body[x].threshold, v),
                                              Truth(body[y].comparator, body[y].threshold, v))

SettleAlike(x, y) == Settles(body[x], body[y])

(* Whatever the cache shows at any moment is a true relation between       *)
(* current interpretations, and "reviewed" exactly when it is: no row of a *)
(* batch that was overtaken by a capture or a review is shown, also when a *)
(* contract joins a group and leaves it again.                             *)
ShownIsTrue ==
    \A g \in Groups : \A r \in Shown(g) :
      /\ {r.claim.a, r.claim.b} \subseteq Members(g)
      /\ Holds(r.claim.relation, r.claim.a, r.claim.b)
      /\ r.claim.scope = "SETTLEMENT_OUTCOME" => SettleAlike(r.claim.a, r.claim.b)
      /\ r.reviewed = {c \in {r.claim.a, r.claim.b} : Approved(c)}

(* A group that is called complete lacks nothing: every implication        *)
(* between its observations follows from the edges that are kept, among    *)
(* the approved interpretations from edges between approved ones; and what *)
(* cannot be chained (exclusion, complement, every settlement relation) is *)
(* there itself.                                                           *)
CompleteLacksNothing ==
    \A g \in Groups : Members(g) # {} /\ Complete(g) =>
      LET claims == {r.claim : r \in Shown(g)}
          accepted == {c \in Members(g) : Approved(c)}
          among == {c \in claims : {c.a, c.b} \subseteq accepted}
          HasClaim(relation, x, y, scope) ==
            [a |-> x, b |-> y, relation |-> relation, scope |-> scope] \in claims
      IN  \A x, y \in Members(g) : x # y =>
            /\ Holds("IMPLIES", x, y) =>
                 /\ <<x, y>> \in Closure(claims, "OBSERVED_EVENT")
                 /\ {x, y} \subseteq accepted => <<x, y>> \in Closure(among, "OBSERVED_EVENT")
            /\ \A relation \in {"EXCLUDES", "COMPLEMENT"} :
                 x < y /\ Holds(relation, x, y) => HasClaim(relation, x, y, "OBSERVED_EVENT")
            /\ \A relation \in Relations :
                 Holds(relation, x, y) /\ SettleAlike(x, y) /\ (relation = "IMPLIES" \/ x < y)
                   => HasClaim(relation, x, y, "SETTLEMENT_OUTCOME")

(* When captures and reviews come to rest, every group is complete in the  *)
(* end, through failed batches, crashes and resumed cursors.               *)
EventuallyComplete == <>[](\A g \in Groups : Members(g) # {} => Complete(g))
=============================================================================
