--------------------------- MODULE BallotsProofs ---------------------------
(* The panel for every size, every set of answers and questions and every  *)
(* number of crashes.                                                      *)
EXTENDS Ballots, TLAPS

Calling == call.pc \in {"ask", "generate", "recorded"}

(* A ballot is an attempt's payload: neither is there without the other,   *)
(* and a running job is on an attempt.                                     *)
BallotsWhole ==
    \A m \in Members :
      /\ ballot[m].attempt = 0 <=> ballot[m].payload = None
      /\ job[m].state = "running" => job[m].attempts >= 1

(* An output names the ballot that is current, and its job is over: no     *)
(* later attempt can replace that ballot.                                  *)
OutputsRest ==
    \A m \in Members :
      output[m] # 0 => job[m].state = "done" /\ output[m] = ballot[m].attempt

(* A call asks for a current question, and no member is asked while there  *)
(* is a label set.                                                         *)
CallsFit ==
    /\ call.pc # "none" => question # None
    /\ Calling => label = NoLabel
    /\ call.pc = "approve" => label # NoLabel
    /\ call.pc \in {"generate", "recorded"} =>
         call.at \in Members /\ job[call.at].state = "running"
    /\ call.pc = "recorded" => ballot[call.at].attempt # 0

(* What the call got from the members it is past is their current ballot,  *)
(* or the identity of a job that has none.                                 *)
GotIsCurrent ==
    Calling => \A m \in Members :
      m < call.at /\ call.got[m].attempt # 0 => call.got[m] = ballot[m]

Inv ==
    /\ TypeOK
    /\ LabelRests
    /\ BallotsWhole
    /\ OutputsRest
    /\ CallsFit
    /\ GotIsCurrent

(* The rows of a question nobody has asked yet, and a call that is none.   *)
LEMMA EmptyRows ==
    /\ NoJobs \in [Members -> [state : {"pending", "running", "done", "failed"},
                               attempts : 0..AttemptLimit]]
    /\ NoBallots \in [Members -> [attempt : 0..AttemptLimit,
                                  payload : Answers \cup {Abstain, None}]]
    /\ NoOutputs \in [Members -> 0..AttemptLimit]
    /\ NoCall \in [pc : {"none", "ask", "generate", "recorded", "approve"}, at : 1..Size + 1,
                   got : [Members -> [attempt : 0..AttemptLimit,
                                      payload : Answers \cup {Abstain, None}]]]
    /\ NoCall.pc = "none" /\ NoCall.at = 1 /\ NoCall.got = NoBallots
<1>1. NoBallots \in [Members -> [attempt : 0..AttemptLimit,
                                payload : Answers \cup {Abstain, None}]]
    BY DEF NoBallots, AttemptLimit
<1>2. NoJobs \in [Members -> [state : {"pending", "running", "done", "failed"},
                             attempts : 0..AttemptLimit]]
    BY DEF NoJobs, AttemptLimit
<1>3. NoOutputs \in [Members -> 0..AttemptLimit]
    BY DEF NoOutputs, AttemptLimit
<1>4. 1 \in 1..Size + 1
    BY BallotsAssumption
<1> QED
    BY <1>1, <1>2, <1>3, <1>4 DEF NoCall

(* The invariant holds before the first call.                              *)
LEMMA InitInv == Init => Inv
<1> SUFFICES ASSUME Init PROVE Inv
    OBVIOUS
<1> USE DEF Init
<1>1. TypeOK
  <2>1. retired \subseteq Questions \ {question} /\ 0 \in 0..MaxCrashes
      BY BallotsAssumption
  <2> QED
      BY <2>1, EmptyRows DEF TypeOK
<1>2. LabelRests
    BY DEF LabelRests
<1>3. BallotsWhole /\ OutputsRest /\ CallsFit /\ GotIsCurrent
    BY DEF NoCall, NoJobs, NoBallots, NoOutputs,  BallotsWhole, OutputsRest, CallsFit, GotIsCurrent, Calling
<1> QED
    BY <1>1, <1>2, <1>3 DEF Inv

(* A new call keeps the invariant: what a lost call was running has failed *)
(* once more, and nothing has been asked yet.                              *)
LEMMA AskInv ==
    ASSUME Inv, NEW q \in Questions, Ask(q)
    PROVE  Inv'
<1> USE DEF Ask
<1>1. Recovered \in [Members -> [state : {"pending", "running", "done", "failed"},
                                 attempts : 0..AttemptLimit]]
    BY DEF Inv, TypeOK, Recovered, AfterFailure
<1>3. call'.pc \in {"ask", "approve"} /\ call'.at = 1 /\ call'.got = NoBallots
    BY EmptyRows
<1>4. TypeOK'
  <2>2. call' \in [pc : {"none", "ask", "generate", "recorded", "approve"}, at : 1..Size + 1,
                   got : [Members -> [attempt : 0..AttemptLimit,
                                      payload : Answers \cup {Abstain, None}]]]
      BY EmptyRows
  <2> QED
      BY <1>1, <2>2 DEF Inv, TypeOK
<1>5. LabelRests'
    BY DEF Inv, LabelRests
<1>6. BallotsWhole' /\ OutputsRest'
    BY DEF Inv, TypeOK, BallotsWhole, OutputsRest, Recovered, AfterFailure
<1>7. CallsFit'
    BY <1>3, BallotsAssumption DEF Inv, CallsFit, Calling
<1>8. GotIsCurrent'
    BY <1>3 DEF GotIsCurrent, Calling, NoBallots
<1> QED
    BY <1>4, <1>5, <1>6, <1>7, <1>8 DEF Inv

(* Another question starts with no rows, so nothing rests on anything.      *)
LEMMA TurnInv ==
    ASSUME Inv, NEW q \in Questions \cup {None}, Turn(q)
    PROVE  Inv'
<1> USE DEF Turn
<1>1. TypeOK'
  <2>1. retired' \subseteq Questions \ {question'} /\ question' \in Questions \cup {None}
      BY DEF Inv, TypeOK
  <2> QED
      BY <2>1, EmptyRows DEF Inv, TypeOK
<1>2. LabelRests'
    BY DEF LabelRests
<1>3. BallotsWhole' /\ OutputsRest' /\ CallsFit' /\ GotIsCurrent'
    BY DEF NoJobs, NoBallots, NoOutputs, Inv, BallotsWhole, OutputsRest, CallsFit,
           GotIsCurrent, Calling
<1> QED
    BY <1>1, <1>2, <1>3 DEF Inv

(* A claim keeps the invariant: a job whose output is a ballot is not      *)
(* claimed again.                                                          *)
LEMMA ClaimInv ==
    ASSUME Inv, NEW m \in Members, Claim(m)
    PROVE  Inv'
<1> USE DEF Claim, Asking, Claimable
<1>1. TypeOK'
  <2>1. job' \in [Members -> [state : {"pending", "running", "done", "failed"},
                              attempts : 0..AttemptLimit]]
      BY DEF Inv, TypeOK, AttemptLimit
  <2>2. call' \in [pc : {"none", "ask", "generate", "recorded", "approve"}, at : 1..Size + 1,
                   got : [Members -> [attempt : 0..AttemptLimit,
                                      payload : Answers \cup {Abstain, None}]]]
      BY DEF Inv, TypeOK
  <2> QED
      BY <2>1, <2>2 DEF Inv, TypeOK
<1>2. /\ call'.pc = "generate" /\ call'.at = m /\ call'.got = call.got
      /\ job'[m].state = "running" /\ job'[m].attempts >= 1
      /\ \A n \in Members \ {m} : job'[n] = job[n]
    BY DEF Inv, TypeOK, AttemptLimit
<1>3. LabelRests'
    BY DEF Inv, LabelRests
<1>4. BallotsWhole' /\ OutputsRest'
    BY <1>2 DEF Inv, BallotsWhole, OutputsRest
<1>5. CallsFit' /\ GotIsCurrent'
    BY <1>2 DEF Inv, CallsFit, GotIsCurrent, Calling
<1> QED
    BY <1>1, <1>3, <1>4, <1>5 DEF Inv

(* The next member is asked: what the call got from the last one must be   *)
(* its current ballot, or say that there is none.                          *)
LEMMA AnsweredInv ==
    ASSUME Inv, NEW m \in Members, m = call.at,
           call.pc \in {"ask", "recorded"},
           NEW number \in 0..AttemptLimit, NEW payload \in Answers \cup {Abstain, None},
           call' = Answered(m, number, payload),
           number # 0 => ballot[m] = [attempt |-> number, payload |-> payload],
           UNCHANGED ballot
    PROVE  /\ call' \in [pc : {"ask"}, at : 1..Size + 1,
                         got : [Members -> [attempt : 0..AttemptLimit,
                                            payload : Answers \cup {Abstain, None}]]]
           /\ \A n \in Members :
                n < call'.at /\ call'.got[n].attempt # 0 => call'.got[n] = ballot'[n]
<1> USE DEF Answered
<1>0. call \in [pc : {"none", "ask", "generate", "recorded", "approve"}, at : 1..Size + 1,
                got : [Members -> [attempt : 0..AttemptLimit,
                                   payload : Answers \cup {Abstain, None}]]]
    BY DEF Inv, TypeOK
<1>1. /\ call'.pc = "ask" /\ call'.at = m + 1
      /\ call'.got = [call.got EXCEPT ![m] = [attempt |-> number, payload |-> payload]]
    BY <1>0
<1>2. call' \in [pc : {"ask"}, at : 1..Size + 1,
                 got : [Members -> [attempt : 0..AttemptLimit,
                                    payload : Answers \cup {Abstain, None}]]]
  <2>1. m + 1 \in 1..Size + 1
      BY BallotsAssumption DEF Members
  <2> QED
      BY <1>0, <2>1
<1>3. ASSUME NEW n \in Members, n < call'.at, call'.got[n].attempt # 0
      PROVE  call'.got[n] = ballot'[n]
  <2>1. CASE n = m
      BY <1>0, <1>1, <1>3, <2>1
  <2>2. CASE n # m
    <3>1. n < m
        BY <1>1, <1>3, <2>2, BallotsAssumption DEF Members
    <3> QED
        BY <1>0, <1>1, <1>3, <2>2, <3>1 DEF Inv, GotIsCurrent, Calling
  <2> QED
      BY <2>1, <2>2
<1> QED
    BY <1>2, <1>3

(* The members that are not asked again: Reuse and Missing.                *)
LEMMA PassInv ==
    ASSUME Inv, NEW m \in Members, Reuse(m) \/ Missing(m)
    PROVE  Inv'
<1> DEFINE number == IF output[m] = 0 THEN 0 ELSE output[m]
           payload == IF output[m] = 0 THEN Abstain ELSE ballot[m].payload
<1>1. /\ m = call.at /\ call.pc = "ask"
      /\ call' = Answered(m, number, payload)
      /\ UNCHANGED <<question, retired, rows, crashes>>
    BY DEF Reuse, Missing, Asking
<1>2. number \in 0..AttemptLimit /\ payload \in Answers \cup {Abstain, None}
    BY DEF Inv, TypeOK, AttemptLimit
<1>3. number # 0 => ballot[m] = [attempt |-> number, payload |-> payload]
    BY DEF Inv, TypeOK, OutputsRest
<1> HIDE DEF number, payload
<1>4. UNCHANGED ballot
    BY <1>1 DEF rows
<1>5. /\ call' \in [pc : {"ask"}, at : 1..Size + 1,
                    got : [Members -> [attempt : 0..AttemptLimit,
                                       payload : Answers \cup {Abstain, None}]]]
      /\ \A n \in Members :
           n < call'.at /\ call'.got[n].attempt # 0 => call'.got[n] = ballot'[n]
    BY <1>1, <1>2, <1>3, <1>4, AnsweredInv
<1>6. TypeOK'
    BY <1>1, <1>5 DEF Inv, TypeOK, rows
<1>7. LabelRests' /\ BallotsWhole' /\ OutputsRest'
    BY <1>1 DEF Inv, LabelRests, BallotsWhole, OutputsRest, rows
<1>8. CallsFit'
    BY <1>1, <1>5 DEF Inv, CallsFit, Calling, rows
<1>9. GotIsCurrent'
    BY <1>5 DEF GotIsCurrent
<1> QED
    BY <1>6, <1>7, <1>8, <1>9 DEF Inv

(* A new ballot keeps the invariant: nothing is frozen while the panel is  *)
(* asked, and no output names the ballot that it replaces.                 *)
LEMMA RecordInv ==
    ASSUME Inv, NEW m \in Members, NEW response \in Responses, Record(m, response)
    PROVE  Inv'
<1> USE DEF Record
<1>1. Payload(response) \in Answers \cup {Abstain} /\ Payload(response) # None
    BY BallotsAssumption DEF Payload, Responses
<1>2. /\ call.pc = "generate" /\ m = call.at
      /\ label = NoLabel /\ question # None
      /\ job[m].state = "running"
      /\ job[m].attempts \in 1..AttemptLimit
      /\ output[m] = 0
    BY DEF Inv, TypeOK, CallsFit, Calling, BallotsWhole, OutputsRest, AttemptLimit
<1>3. /\ ballot' \in [Members -> [attempt : 0..AttemptLimit,
                                  payload : Answers \cup {Abstain, None}]]
      /\ ballot'[m] = [attempt |-> job[m].attempts, payload |-> Payload(response)]
      /\ \A n \in Members \ {m} : ballot'[n] = ballot[n]
  <2> DEFINE new == [attempt |-> job[m].attempts, payload |-> Payload(response)]
  <2>1. new \in [attempt : 0..AttemptLimit, payload : Answers \cup {Abstain, None}]
      BY <1>1, <1>2 DEF AttemptLimit
  <2>2. ballot' = [ballot EXCEPT ![m] = new]
      OBVIOUS
  <2> HIDE DEF new
  <2>3. /\ ballot' \in [Members -> [attempt : 0..AttemptLimit,
                                    payload : Answers \cup {Abstain, None}]]
        /\ ballot'[m] = new
        /\ \A n \in Members \ {m} : ballot'[n] = ballot[n]
      BY <2>1, <2>2 DEF Inv, TypeOK
  <2> QED
      BY <2>3 DEF new
<1>4. /\ call' \in [pc : {"recorded"}, at : 1..Size + 1,
                    got : [Members -> [attempt : 0..AttemptLimit,
                                       payload : Answers \cup {Abstain, None}]]]
      /\ call'.at = m /\ call'.got = call.got
    BY <1>2 DEF Inv, TypeOK
<1>5. label' = NoLabel /\ approval' = FALSE
  <2>1. approval = FALSE
      BY <1>2, BallotsAssumption DEF Inv, TypeOK, LabelRests, NoLabel
  <2> QED
      BY <1>2, <2>1
<1>6. TypeOK'
    BY <1>3, <1>4, <1>5 DEF Inv, TypeOK
<1>7. LabelRests'
    BY <1>5 DEF LabelRests
<1>8. BallotsWhole' /\ OutputsRest'
    BY <1>1, <1>2, <1>3 DEF Inv, BallotsWhole, OutputsRest, AttemptLimit
<1>9. CallsFit'
    BY <1>2, <1>3, <1>4, <1>5 DEF Inv, CallsFit, Calling, AttemptLimit
<1>10. GotIsCurrent'
  <2> SUFFICES ASSUME NEW n \in Members, n < call'.at, call'.got[n].attempt # 0
               PROVE  call'.got[n] = ballot'[n]
      BY DEF GotIsCurrent
  <2>1. n \in Members \ {m} /\ n < call.at
      BY <1>2, <1>4, BallotsAssumption DEF Members
  <2> QED
      BY <1>2, <1>3, <1>4, <2>1 DEF Inv, GotIsCurrent, Calling
<1> QED
    BY <1>6, <1>7, <1>8, <1>9, <1>10 DEF Inv

(* The end of an attempt keeps the invariant: the output is the ballot     *)
(* that was recorded in the transaction before.                            *)
LEMMA EndInv ==
    ASSUME Inv, NEW m \in Members, End(m)
    PROVE  Inv'
<1> USE DEF End
<1>1. /\ call.pc = "recorded" /\ m = call.at
      /\ label = NoLabel /\ question # None
      /\ ballot[m] \in [attempt : 1..AttemptLimit, payload : Answers \cup {Abstain, None}]
      /\ job[m].state = "running" /\ output[m] = 0
    BY DEF Inv, TypeOK, CallsFit, Calling, OutputsRest, AttemptLimit
<1>2. ballot[m] = [attempt |-> ballot[m].attempt, payload |-> ballot[m].payload]
    BY <1>1
<1>3. /\ call' \in [pc : {"ask"}, at : 1..Size + 1,
                    got : [Members -> [attempt : 0..AttemptLimit,
                                       payload : Answers \cup {Abstain, None}]]]
      /\ \A n \in Members :
           n < call'.at /\ call'.got[n].attempt # 0 => call'.got[n] = ballot'[n]
  <2>1. /\ ballot[m].attempt \in 0..AttemptLimit
        /\ ballot[m].payload \in Answers \cup {Abstain, None}
        /\ call' = Answered(m, ballot[m].attempt, ballot[m].payload)
        /\ UNCHANGED ballot
      BY <1>1 DEF AttemptLimit
  <2> QED
      BY <1>1, <1>2, <2>1, AnsweredInv
<1>4. /\ job' \in [Members -> [state : {"pending", "running", "done", "failed"},
                               attempts : 0..AttemptLimit]]
      /\ output' \in [Members -> 0..AttemptLimit]
      /\ \A n \in Members \ {m} : job'[n] = job[n] /\ output'[n] = output[n]
      /\ job'[m].state # "running"
      /\ output'[m] # 0 => job'[m].state = "done" /\ output'[m] = ballot[m].attempt
  <2>1. CASE ballot[m].payload \in Answers
    <3>1. /\ job' = [job EXCEPT ![m].state = "done"]
          /\ output' = [output EXCEPT ![m] = ballot[m].attempt]
        BY <2>1
    <3>2. ballot[m].attempt \in 0..AttemptLimit
        BY <1>1 DEF AttemptLimit
    <3> QED
        BY <3>1, <3>2 DEF Inv, TypeOK
  <2>2. CASE ballot[m].payload \notin Answers
    <3>1. AfterFailure(job[m]) \in [state : {"pending", "failed"}, attempts : 0..AttemptLimit]
        BY DEF Inv, TypeOK, AfterFailure
    <3>2. job' = [job EXCEPT ![m] = AfterFailure(job[m])] /\ output' = output
        BY <2>2
    <3> QED
        BY <1>1, <3>1, <3>2 DEF Inv, TypeOK
  <2> QED
      BY <2>1, <2>2
<1>5. TypeOK'
    BY <1>3, <1>4 DEF Inv, TypeOK
<1>6. LabelRests'
    BY DEF Inv, LabelRests
<1>7. BallotsWhole' /\ OutputsRest'
    BY <1>4 DEF Inv, BallotsWhole, OutputsRest
<1>8. CallsFit'
  <2>1. call'.pc = "ask" /\ label' = NoLabel /\ question' # None
      BY <1>1, <1>3
  <2> QED
      BY <2>1 DEF CallsFit
<1>9. GotIsCurrent'
    BY <1>3 DEF GotIsCurrent
<1> QED
    BY <1>5, <1>6, <1>7, <1>8, <1>9 DEF Inv

(* The label set names what the call got; the call is past every member,   *)
(* so that is everybody's current ballot.                                  *)
LEMMA FreezeInv ==
    ASSUME Inv, Freeze
    PROVE  Inv'
<1> USE DEF Freeze
<1>1. CASE \E m \in Members : Basis[m] = 0
  <2>1. call' = NoCall /\ UNCHANGED <<question, retired, rows, crashes>>
      BY <1>1 DEF rows
  <2>2. TypeOK'
      BY <2>1, EmptyRows DEF Inv, TypeOK, rows
  <2>3. LabelRests' /\ BallotsWhole' /\ OutputsRest'
      BY <2>1 DEF Inv, LabelRests, BallotsWhole, OutputsRest, rows
  <2>4. CallsFit' /\ GotIsCurrent'
      BY <2>1, EmptyRows DEF CallsFit, GotIsCurrent, Calling
  <2> QED
      BY <2>2, <2>3, <2>4 DEF Inv
<1>2. CASE \A m \in Members : Basis[m] # 0
  <2>1. /\ call.pc = "ask" /\ call.at > Size /\ question # None
        /\ label' = [verdict |-> Agreement(call.got), basis |-> Basis]
        /\ call' = [call EXCEPT !.pc = "approve"]
        /\ UNCHANGED <<question, retired, job, ballot, output, approval, crashes>>
      BY <1>2 DEF Inv, CallsFit
  <2>2. \A m \in Members : call.got[m] = ballot[m] /\ ballot[m].attempt \in 1..AttemptLimit
    <3> SUFFICES ASSUME NEW m \in Members
                 PROVE  call.got[m] = ballot[m] /\ ballot[m].attempt \in 1..AttemptLimit
        OBVIOUS
    <3>1. m < call.at /\ call.got[m].attempt # 0
        BY <1>2, <2>1, BallotsAssumption DEF Members, Basis, Inv, TypeOK
    <3>2. call.got[m] = ballot[m]
        BY <2>1, <3>1 DEF Inv, GotIsCurrent, Calling
    <3> QED
        BY <3>1, <3>2 DEF Inv, TypeOK, AttemptLimit
  <2>3. /\ Agreement(call.got) \in Answers \cup {Abstain}
        /\ \A p \in Answers :
             Agreement(call.got) = p <=> \A m \in Members : ballot[m].payload = p
    <3>1. 1 \in Members
        BY BallotsAssumption DEF Members
    <3>2. Agreement(call.got) = IF \E p \in Answers : \A m \in Members : ballot[m].payload = p
                                THEN ballot[1].payload ELSE Abstain
        BY <2>2, <3>1 DEF Agreement
    <3> QED
        BY <3>1, <3>2, BallotsAssumption
  <2>4. /\ label' \in [verdict : Answers \cup {Abstain}, basis : [Members -> 1..AttemptLimit]]
        /\ label'.verdict = Agreement(call.got)
        /\ \A m \in Members : label'.basis[m] = ballot[m].attempt
    <3>1. Basis \in [Members -> 1..AttemptLimit]
        BY <2>2 DEF Basis
    <3> QED
        BY <2>1, <2>2, <2>3, <3>1 DEF Basis
  <2>5. label' # NoLabel
      BY <2>4, BallotsAssumption DEF NoLabel
  <2>6. approval = FALSE
      BY <2>1, BallotsAssumption DEF Inv, TypeOK, LabelRests, NoLabel, CallsFit, Calling
  <2>7. TypeOK'
      BY <2>1, <2>4 DEF Inv, TypeOK
  <2>8. LabelRests'
      BY <2>1, <2>3, <2>4, <2>6 DEF LabelRests
  <2>9. BallotsWhole' /\ OutputsRest'
      BY <2>1 DEF Inv, BallotsWhole, OutputsRest
  <2>10. call'.pc = "approve"
      BY <2>1 DEF Inv, TypeOK
  <2>11. CallsFit' /\ GotIsCurrent'
      BY <2>1, <2>5, <2>10 DEF CallsFit, GotIsCurrent, Calling
  <2> QED
      BY <2>7, <2>8, <2>9, <2>11 DEF Inv
<1> QED
    BY <1>1, <1>2

(* The end of a call, at its last step or by a crash.                      *)
LEMMA NoCallInv ==
    ASSUME Inv, Approve \/ Crash
    PROVE  Inv'
<1>1. /\ call' = NoCall
      /\ UNCHANGED <<question, retired, job, ballot, output, label>>
      /\ approval' \in BOOLEAN
      /\ approval' => approval \/ label.verdict = Expected
      /\ crashes' \in 0..MaxCrashes
  <2>1. crashes \in Nat /\ (crashes < MaxCrashes => crashes + 1 \in 0..MaxCrashes)
      BY BallotsAssumption DEF Inv, TypeOK
  <2>2. CASE Approve
    <3>1. approval' = (approval \/ label.verdict = Expected)
        BY <2>2 DEF Approve
    <3>2. (approval \/ label.verdict = Expected) \in BOOLEAN
        BY Zenon
    <3> QED
        BY <2>2, <3>1, <3>2 DEF Approve, Inv, TypeOK
  <2>3. CASE Crash
      BY <2>1, <2>3 DEF Crash, rows, Inv, TypeOK
  <2> QED
      BY <2>2, <2>3
<1>2. TypeOK'
    BY <1>1, EmptyRows DEF Inv, TypeOK
<1>3. LabelRests'
    BY <1>1 DEF Inv, LabelRests
<1>4. BallotsWhole' /\ OutputsRest'
    BY <1>1 DEF Inv, BallotsWhole, OutputsRest
<1>5. CallsFit' /\ GotIsCurrent'
    BY <1>1, EmptyRows DEF CallsFit, GotIsCurrent, Calling
<1> QED
    BY <1>2, <1>3, <1>4, <1>5 DEF Inv

(* Every step keeps the invariant.                                         *)
LEMMA NextInv == Inv /\ [Next]_vars => Inv'
<1> SUFFICES ASSUME Inv, [Next]_vars PROVE Inv'
    OBVIOUS
<1>1. CASE \E q \in Questions : Ask(q)
    BY <1>1, AskInv
<1>2. CASE \E q \in Questions \cup {None} : Turn(q)
    BY <1>2, TurnInv
<1>3. CASE Step
    BY <1>3, ClaimInv, PassInv, RecordInv, EndInv, FreezeInv, NoCallInv DEF Step
<1>4. CASE Crash
    BY <1>4, NoCallInv
<1>5. CASE UNCHANGED vars
    BY <1>5 DEF vars, Inv, TypeOK, LabelRests, BallotsWhole, OutputsRest, CallsFit,
                GotIsCurrent, Calling
<1> QED
    BY <1>1, <1>2, <1>3, <1>4, <1>5 DEF Next

(* The inductive invariant holds in every state of the panel's rows and    *)
(* the running call.                                                       *)
THEOREM InvAlways == Spec => []Inv
<1> QED
    BY InitInv, NextInv, PTL DEF Spec

(* Types: a label set names a ballot of every member, never the job that   *)
(* ended without one (freeze_label_set refuses an identity no node has).   *)
THEOREM TypesAlways == Spec => []TypeOK
<1>1. Inv => TypeOK
    BY DEF Inv
<1> QED
    BY <1>1, InvAlways, PTL

(* The frozen label set and the approval rest on the current ballots.      *)
THEOREM LabelAlwaysRests == Spec => []LabelRests
<1>1. Inv => LabelRests
    BY DEF Inv
<1> QED
    BY <1>1, InvAlways, PTL

(* The initial state of the panel is one of Verdict.                       *)
LEMMA VerdictInit == Init => PanelVerdict!Init
<1> SUFFICES ASSUME Init PROVE PanelVerdict!Init
    OBVIOUS
<1> QED
    BY DEF Init, PanelVerdict!Init, PanelVerdict!NoVotes, NoBallots, NoLabel

(* A recorded ballot is a vote: the question is open and has no verdict.   *)
LEMMA RecordVotes ==
    ASSUME Inv, NEW m \in Members, NEW response \in Responses, Record(m, response)
    PROVE  PanelVerdict!Vote(m, Payload(response)) /\ Payload(response) \in Answers \cup {Abstain}
<1> USE DEF Record
<1>1. Payload(response) \in Answers \cup {Abstain}
    BY DEF Payload, Responses
<1>2. question # None /\ label = NoLabel /\ label' = NoLabel
    BY DEF Inv, CallsFit, Calling
<1>3. [n \in Members |-> ballot'[n].payload]
        = [[n \in Members |-> ballot[n].payload] EXCEPT ![m] = Payload(response)]
    BY DEF Inv, TypeOK
<1> QED
    BY <1>1, <1>2, <1>3 DEF PanelVerdict!Vote, NoLabel

(* Freezing the label set decides, once, from the votes of all members;    *)
(* or the call is refused and nothing is decided.                          *)
LEMMA FreezeDecides ==
    ASSUME Inv, Freeze
    PROVE  PanelVerdict!Decide \/ UNCHANGED PanelVerdict!vars
<1> USE DEF Freeze
<1>1. Inv'
    BY FreezeInv
<1>2. CASE \E m \in Members : Basis[m] = 0
    BY <1>2 DEF PanelVerdict!vars
<1>3. CASE \A m \in Members : Basis[m] # 0
  <2>1. /\ call.pc = "ask"
        /\ call' = [call EXCEPT !.pc = "approve"]
        /\ UNCHANGED <<question, retired, ballot>>
      BY <1>3
  <2>2. call'.pc = "approve"
      BY <2>1 DEF Inv, TypeOK
  <2>3. question # None /\ label = NoLabel /\ label' # NoLabel
      BY <1>1, <2>1, <2>2 DEF Inv, CallsFit, Calling
  <2>4. \A m \in Members : ballot[m].payload # None
    <3>1. \A m \in Members : ballot'[m].attempt = label'.basis[m] /\ label'.basis[m] # 0
        BY <1>1, <2>3, BallotsAssumption DEF Inv, TypeOK, LabelRests, AttemptLimit
    <3> QED
        BY <2>1, <3>1 DEF Inv, BallotsWhole
  <2>5. /\ label'.verdict \in Answers \cup {Abstain}
        /\ \A p \in Answers : label'.verdict = p <=> \A m \in Members : ballot[m].payload = p
      BY <1>1, <2>1, <2>3 DEF Inv, TypeOK, LabelRests
  <2> QED
      BY <2>1, <2>3, <2>4, <2>5, BallotsAssumption
      DEF PanelVerdict!Decide, PanelVerdict!Agreed, NoLabel
<1> QED
    BY <1>2, <1>3

(* Every step of the panel is a step of Verdict or leaves it as it is.     *)
LEMMA VerdictStep == Inv /\ [Next]_vars => [PanelVerdict!Next]_(PanelVerdict!vars)
<1> SUFFICES ASSUME Inv, [Next]_vars PROVE [PanelVerdict!Next]_(PanelVerdict!vars)
    OBVIOUS
<1>1. CASE \E q \in Questions : Ask(q)
    BY <1>1 DEF Ask, PanelVerdict!vars
<1>2. ASSUME NEW q \in Questions \cup {None}, Turn(q)
      PROVE  PanelVerdict!Next
  <2>1. PanelVerdict!Replace(q)
      BY <1>2 DEF Turn, PanelVerdict!Replace, PanelVerdict!NoVotes, NoBallots, NoLabel
  <2> QED
      BY <2>1 DEF PanelVerdict!Next
<1>3. ASSUME NEW m \in Members, Claim(m) \/ Reuse(m) \/ Missing(m) \/ End(m)
      PROVE  UNCHANGED PanelVerdict!vars
    BY <1>3 DEF Claim, Reuse, Missing, End, rows, PanelVerdict!vars
<1>4. ASSUME NEW m \in Members, NEW response \in Responses, Record(m, response)
      PROVE  PanelVerdict!Next
    BY <1>4, RecordVotes DEF PanelVerdict!Next
<1>5. CASE Freeze
    BY <1>5, FreezeDecides DEF PanelVerdict!Next
<1>6. CASE Approve \/ Crash
    BY <1>6 DEF Approve, Crash, rows, PanelVerdict!vars
<1>7. CASE UNCHANGED vars
    BY <1>7 DEF vars, PanelVerdict!vars
<1> QED
    BY <1>1, <1>2, <1>3, <1>4, <1>5, <1>6, <1>7 DEF Next, Step

(* The panel gives one verdict for a question, from the votes of all its   *)
(* members, final until the question is replaced: run_ballot, record,      *)
(* freeze_label_set and recovery implement Verdict.                        *)
THEOREM VerdictImplemented == Spec => ImplementsVerdict
<1> QED
    BY VerdictInit, VerdictStep, InvAlways, PTL
    DEF Spec, ImplementsVerdict, PanelVerdict!Spec
=============================================================================
