------------------------------ MODULE Verdict ------------------------------
(***************************************************************************)
(* What a panel promises (tech_spec_v1.md, "Local unanimous consensus"):   *)
(* the members vote on one question at a time, the verdict is their        *)
(* unanimous answer or an abstention, and it is given once.  A question    *)
(* that was replaced is never taken up again.                              *)
(***************************************************************************)
CONSTANTS Members, Answers, Abstain, Questions, None

VARIABLES question, closed, votes, verdict

vars == <<question, closed, votes, verdict>>

NoVotes == [m \in Members |-> None]

Init ==
    /\ question = None
    /\ closed = {}
    /\ votes = NoVotes
    /\ verdict = None

(* Until the verdict a member may vote, and vote again. *)
Vote(m, v) ==
    /\ question # None
    /\ verdict = None
    /\ votes' = [votes EXCEPT ![m] = v]
    /\ UNCHANGED <<question, closed, verdict>>

Agreed(v) == \A m \in Members : votes[m] = v

(* The verdict needs every vote; anything but unanimity is an abstention. *)
Decide ==
    /\ question # None
    /\ verdict = None
    /\ \A m \in Members : votes[m] # None
    /\ \/ \E v \in Answers : Agreed(v) /\ verdict' = v
       \/ (\A v \in Answers : ~Agreed(v)) /\ verdict' = Abstain
    /\ UNCHANGED <<question, closed, votes>>

(* Another question, or none: the contract or the panel has changed. *)
Replace(q) ==
    /\ q \notin closed \cup {question}
    /\ closed' = closed \cup ({question} \ {None})
    /\ question' = q
    /\ votes' = NoVotes
    /\ verdict' = None

Next ==
    \/ \E m \in Members, v \in Answers \cup {Abstain} : Vote(m, v)
    \/ Decide
    \/ \E q \in Questions \cup {None} : Replace(q)

Spec == Init /\ [][Next]_vars
=============================================================================
