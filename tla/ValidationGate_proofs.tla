------------------------ MODULE ValidationGate_proofs ------------------------
(***************************************************************************)
(* The gate holds for any number of workflows, stages and operators:       *)
(* TypeOK and GateHolds, which is inductive once it is known that nothing  *)
(* has run before the plan exists.  And the record of a plan is sound: its *)
(* three writers each read, delete and insert its rows, so that what a     *)
(* call has read must stay true until it writes (PlanAt).                  *)
(***************************************************************************)
EXTENDS ValidationGate, SequenceTheorems, TLAPS

\* A workflow that has not started has run no stage.  Without it a new plan
\* could inherit the stages of none, and GateHolds would not be inductive.
IdleIsFresh == \A w \in Workflows : pc[w] = "idle" => stage[w] = 0

Inv == TypeOK /\ IdleIsFresh /\ GateHolds

-----------------------------------------------------------------------------
(* Types of the data.                                                       *)

\* The edits the handlers make are edits.
LEMMA EditTypes ==
  /\ \A k \in Labels : Checkpoint(k) \in Edit
  /\ \A s \in {"running", "completed", "failed", "aborted"} : Complete(s) \in Edit
  /\ \A ok \in BOOLEAN : Verdict(ok) \in Edit
BY DEF Checkpoint, Complete, Verdict, Edit

\* A stage's number is a label, and so are the two fixed ones.
LEMMA LabelTypes ==
  Approved \in Labels /\ Note \in Labels /\ \A k \in 0 .. Stages : k \in Labels
BY StagesAssumption DEF Approved, Note, Labels

\* A record with an edit applied, and a new one, are records.
LEMMA RecordTypes ==
  /\ \A rec \in Record, e \in Edit : Edited(rec, e) \in Record
  /\ \A w \in Workflows : NewRecord(w) \in Record
<1>1. ASSUME NEW rec \in Record, NEW e \in Edit PROVE Edited(rec, e) \in Record
  <2>1. (IF e.status = "same" THEN rec.status ELSE e.status)
            \in {"awaiting_approval", "running", "completed", "failed", "aborted"}
    BY DEF Record, Edit
  <2>2. (IF e.accepted = "same" THEN rec.accepted ELSE e.accepted) \in {"unset", "yes", "no"}
    BY DEF Record, Edit
  <2>3. rec.marks \cup e.mark \in SUBSET Labels
    BY DEF Record, Edit
  <2> QED
    BY <2>1, <2>2, <2>3 DEF Edited, Record
<1>2. ASSUME NEW w \in Workflows PROVE NewRecord(w) \in Record
  BY DEF NewRecord, Record
<1> QED
  BY <1>1, <1>2

\* The states of a call.
LEMMA CallTypes ==
  /\ NoCall \in Call
  /\ \A e \in Edit : Reading(e) \in Call
  /\ \A rec \in Record : Writing(rec) \in Call
BY DEF NoCall, Reading, Writing, Call

\* Replacing one call by another keeps the type of call.
LEMMA CallUpdate ==
  ASSUME call \in [Workflows -> [Roles -> Call]], NEW w \in Workflows, NEW r \in Roles,
         NEW c \in Call
  PROVE  [call EXCEPT ![w][r] = c] \in [Workflows -> [Roles -> Call]]
OBVIOUS

\* Replacing the workflow's call keeps the type of call.
LEMMA WorkflowCall ==
  ASSUME TypeOK, NEW w \in Workflows
  PROVE  /\ Returns(w) => call' \in [Workflows -> [Roles -> Call]]
         /\ \A e \in Edit : Asks(w, e) => call' \in [Workflows -> [Roles -> Call]]
<1>1. "workflow" \in Roles
  BY DEF Roles
<1>2. call \in [Workflows -> [Roles -> Call]]
  BY DEF TypeOK
<1>3. NoCall \in Call /\ \A e \in Edit : Reading(e) \in Call
  BY CallTypes
<1> HIDE DEF NoCall, Reading, Call, Roles, Edit
<1>4. [call EXCEPT ![w]["workflow"] = NoCall] \in [Workflows -> [Roles -> Call]]
  BY <1>1, <1>2, <1>3, CallUpdate
<1>5. \A e \in Edit : [call EXCEPT ![w]["workflow"] = Reading(e)] \in [Workflows -> [Roles -> Call]]
  BY <1>1, <1>2, <1>3, CallUpdate
<1> QED
  BY <1>4, <1>5 DEF Returns, Asks

-----------------------------------------------------------------------------
(* The types are inductive.                                                 *)

\* The initial states have their types.
LEMMA InitType == Init => TypeOK
BY StagesAssumption, CallTypes DEF Init, TypeOK, PC, Proposal

\* What follows a planner call of the workflow keeps the types.
LEMMA AfterCallType ==
  ASSUME TypeOK, NEW w \in Workflows, AfterCall(w)
  PROVE  /\ pc' \in [Workflows -> PC]
         /\ stage' \in [Workflows -> 0 .. Stages]
         /\ call' \in [Workflows -> [Roles -> Call]]
<1>1. /\ pc \in [Workflows -> PC] /\ stage \in [Workflows -> 0 .. Stages]
      /\ call \in [Workflows -> [Roles -> Call]]
  BY DEF TypeOK
<1>2. Complete("completed") \in Edit
  BY EditTypes
<1>3. Returns(w) \/ Asks(w, Complete("completed"))
  BY DEF AfterCall, EnterStage
<1>4. call' \in [Workflows -> [Roles -> Call]]
  BY <1>2, <1>3, WorkflowCall
<1>5. \E q \in PC : pc' = [pc EXCEPT ![w] = q]
  BY DEF AfterCall, EnterStage, Go, PC
<1>6. pc' \in [Workflows -> PC]
  BY <1>1, <1>5
<1>7. 1 \in 0 .. Stages /\ (stage[w] < Stages => stage[w] + 1 \in 0 .. Stages)
  BY <1>1, StagesAssumption
<1>8. stage' = stage \/ \E k \in 0 .. Stages : stage' = [stage EXCEPT ![w] = k]
  BY <1>7 DEF AfterCall, EnterStage
<1>9. stage' \in [Workflows -> 0 .. Stages]
  BY <1>1, <1>8
<1> QED
  BY <1>4, <1>6, <1>9

\* What follows a planner call that threw keeps the types.
LEMMA AfterThrowType ==
  ASSUME TypeOK, NEW w \in Workflows, AfterThrow(w)
  PROVE  pc' \in [Workflows -> PC] /\ call' \in [Workflows -> [Roles -> Call]]
<1>1. pc \in [Workflows -> PC]
  BY DEF TypeOK
<1>2. Complete("failed") \in Edit
  BY EditTypes
<1>3. Returns(w) \/ Asks(w, Complete("failed"))
  BY DEF AfterThrow
<1>4. call' \in [Workflows -> [Roles -> Call]]
  BY <1>2, <1>3, WorkflowCall
<1>5. \E q \in PC : pc' = [pc EXCEPT ![w] = q]
  BY DEF AfterThrow, Go, PC
<1> QED
  BY <1>1, <1>4, <1>5

\* A statement of a call keeps the types.
LEMMA StatementType ==
  ASSUME TypeOK, NEW w \in Workflows, NEW r \in Roles, Statement(w, r)
  PROVE  TypeOK'
<1>1. /\ pc \in [Workflows -> PC] /\ stage \in [Workflows -> 0 .. Stages]
      /\ proposal \in [Workflows -> Proposal] /\ rows \in [Workflows -> Seq(Record)]
      /\ call \in [Workflows -> [Roles -> Call]] /\ operated \subseteq Operated
  BY DEF TypeOK
<1>2. call[w][r] \in Call
  BY <1>1
<1>3. CASE ReadFinds(w, r)
  <2>1. call[w][r].edit \in Edit
    BY <1>2, <1>3 DEF ReadFinds, Call
  <2>2. Latest(w) \in Record
    <3>1. rows[w] \in Seq(Record) /\ rows[w] # <<>>
      BY <1>1, <1>3 DEF ReadFinds
    <3> QED
      BY <3>1, EmptySeq, LenProperties DEF Latest, Last
  <2>3. Writing(Edited(Latest(w), call[w][r].edit)) \in Call
    BY <2>1, <2>2, RecordTypes, CallTypes
  <2>4. call' \in [Workflows -> [Roles -> Call]]
    BY <1>1, <1>3, <2>3, CallUpdate DEF ReadFinds
  <2> QED
    BY <1>1, <1>3, <2>4 DEF ReadFinds, TypeOK
<1>4. CASE ReadMisses(w, r)
  <2>1. pc' \in [Workflows -> PC] /\ call' \in [Workflows -> [Roles -> Call]]
    <3>1. CASE r = "workflow"
      BY <1>4, <3>1, AfterThrowType DEF ReadMisses
    <3>2. CASE r # "workflow"
      <4>1. call' = [call EXCEPT ![w][r] = NoCall] /\ pc' = pc
        BY <1>4, <3>2 DEF ReadMisses
      <4>2. NoCall \in Call
        BY CallTypes
      <4> QED
        BY <1>1, <4>1, <4>2, CallUpdate
    <3> QED
      BY <3>1, <3>2
  <2> QED
    BY <1>1, <1>4, <2>1 DEF ReadMisses, TypeOK
<1>5. CASE Delete(w, r)
  <2>1. call[w][r].record \in Record
    BY <1>2, <1>5 DEF Delete, Call
  <2>2. [call[w][r] EXCEPT !.step = "insert"] \in Call
    BY <1>2, <1>5 DEF Delete, Call
  <2>3. call' = [call EXCEPT ![w][r] = [call[w][r] EXCEPT !.step = "insert"]]
    BY <1>1, <1>5 DEF Delete
  <2>4. call' \in [Workflows -> [Roles -> Call]]
    BY <1>1, <2>2, <2>3, CallUpdate
  <2>5. rows' \in [Workflows -> Seq(Record)]
    BY <1>1, <1>5 DEF Delete
  <2> QED
    BY <1>1, <1>5, <2>4, <2>5 DEF Delete, TypeOK
<1>6. CASE Insert(w, r)
  <2>1. call[w][r].record \in Record
    BY <1>2, <1>6 DEF Insert, Call
  <2>2. rows' \in [Workflows -> Seq(Record)]
    <3>1. Append(rows[w], call[w][r].record) \in Seq(Record)
      BY <1>1, <2>1, AppendProperties
    <3>2. rows' = [rows EXCEPT ![w] = Append(rows[w], call[w][r].record)]
      BY <1>6 DEF Insert
    <3> QED
      BY <1>1, <3>1, <3>2
  <2>3. /\ pc' \in [Workflows -> PC] /\ stage' \in [Workflows -> 0 .. Stages]
        /\ call' \in [Workflows -> [Roles -> Call]]
    <3>1. CASE r = "workflow"
      BY <1>6, <3>1, AfterCallType DEF Insert
    <3>2. CASE r # "workflow"
      <4>1. call' = [call EXCEPT ![w][r] = NoCall] /\ pc' = pc /\ stage' = stage
        BY <1>6, <3>2 DEF Insert
      <4>2. NoCall \in Call
        BY CallTypes
      <4>3. call' \in [Workflows -> [Roles -> Call]]
        BY <1>1, <4>1, <4>2, CallUpdate
      <4> QED
        BY <1>1, <4>1, <4>3
    <3> QED
      BY <3>1, <3>2
  <2> QED
    BY <1>1, <1>6, <2>2, <2>3 DEF Insert, TypeOK
<1> QED
  BY <1>3, <1>4, <1>5, <1>6 DEF Statement

\* Every step keeps the types.
LEMMA StepType ==
  ASSUME TypeOK, [Next]_vars
  PROVE  TypeOK'
<1>1. /\ pc \in [Workflows -> PC] /\ stage \in [Workflows -> 0 .. Stages]
      /\ proposal \in [Workflows -> Proposal] /\ rows \in [Workflows -> Seq(Record)]
      /\ call \in [Workflows -> [Roles -> Call]] /\ operated \subseteq Operated
  BY DEF TypeOK
<1>2. CASE UNCHANGED vars
  BY <1>1, <1>2 DEF TypeOK, vars
<1>3. ASSUME NEW w \in Workflows, Start(w) PROVE TypeOK'
  <2>1. "workflow" \in Roles /\ Writing(NewRecord(w)) \in Call
    BY RecordTypes, CallTypes DEF Roles
  <2>2. call' \in [Workflows -> [Roles -> Call]]
    BY <1>1, <1>3, <2>1, CallUpdate DEF Start
  <2>3. "creating" \in PC /\ (IF w \in Gated THEN "open" ELSE "none") \in Proposal
    BY DEF PC, Proposal
  <2>4. pc' \in [Workflows -> PC] /\ proposal' \in [Workflows -> Proposal]
    BY <1>1, <1>3, <2>3 DEF Start, Go
  <2> QED
    BY <1>1, <1>3, <2>2, <2>4 DEF Start, TypeOK
<1>4. ASSUME NEW w \in Workflows, StartFails(w) PROVE TypeOK'
  BY <1>1, <1>4 DEF StartFails, Go, TypeOK, PC
<1>5. ASSUME NEW w \in Workflows, WaitTimesOut(w) PROVE TypeOK'
  <2>1. call' \in [Workflows -> [Roles -> Call]]
    BY <1>5, EditTypes, WorkflowCall DEF WaitTimesOut
  <2>2. pc' \in [Workflows -> PC]
    BY <1>1, <1>5 DEF WaitTimesOut, Go, PC
  <2> QED
    BY <1>1, <1>5, <2>1, <2>2 DEF WaitTimesOut, TypeOK
<1>6. ASSUME NEW w \in Workflows, NEW ok \in BOOLEAN, StageEnds(w, ok) PROVE TypeOK'
  <2>1. stage[w] \in Labels
    BY <1>1, LabelTypes
  <2>2. (IF ok THEN Checkpoint(stage[w]) ELSE Complete("failed")) \in Edit
    BY <2>1, EditTypes
  <2>3. call' \in [Workflows -> [Roles -> Call]]
    BY <1>6, <2>2, WorkflowCall DEF StageEnds
  <2>4. pc' \in [Workflows -> PC]
    BY <1>1, <1>6 DEF StageEnds, Go, PC
  <2> QED
    BY <1>1, <1>6, <2>3, <2>4 DEF StageEnds, TypeOK
<1>7. ASSUME NEW w \in Workflows, NEW ok \in BOOLEAN, Decide(w, ok) PROVE TypeOK'
  <2>1. Reading(Verdict(ok)) \in Call
    BY EditTypes, CallTypes
  <2>2. Reading(IF ok THEN Checkpoint(Approved) ELSE Complete("aborted")) \in Call
    BY EditTypes, LabelTypes, CallTypes
  <2> HIDE DEF Reading, Call, Roles, Verdict
  <2>3. call' \in [Workflows -> [Roles -> Call]]
    BY <1>1, <1>7, <2>1, <2>2 DEF Decide
  <2>4. pc' \in [Workflows -> PC]
    BY <1>1, <1>7 DEF Decide, AfterWait, PC
  <2>5. proposal' \in [Workflows -> Proposal]
    BY <1>1, <1>7 DEF Decide, Proposal
  <2> QED
    BY <1>1, <1>7, <2>3, <2>4, <2>5 DEF Decide, TypeOK
<1>8. ASSUME NEW w \in Workflows,
             NEW e \in {Checkpoint(Note), Complete("aborted"), Complete("completed")},
             OperatorCalls(w, e)
      PROVE  TypeOK'
  <2>1. "operator" \in Roles /\ Reading(e) \in Call
    BY EditTypes, LabelTypes, CallTypes DEF Roles
  <2>2. call' \in [Workflows -> [Roles -> Call]]
    BY <1>1, <1>8, <2>1, CallUpdate DEF OperatorCalls
  <2> QED
    BY <1>1, <1>8, <2>2 DEF OperatorCalls, TypeOK
<1> QED
  BY <1>2, <1>3, <1>4, <1>5, <1>6, <1>7, <1>8, StatementType DEF Next

-----------------------------------------------------------------------------
(* The gate.                                                                *)

\* Past the gate, or with a stage run: what GateHolds speaks of.
Passed(w) == pc[w] \in {"approving", "working", "saving", "finishing", "done"} \/ stage[w] > 0

\* Every step keeps the gate.
LEMMA GateStep ==
  ASSUME Inv, [Next]_vars
  PROVE  IdleIsFresh' /\ GateHolds'
<1> USE DEF Inv
<1>1. /\ pc \in [Workflows -> PC] /\ stage \in [Workflows -> 0 .. Stages]
      /\ proposal \in [Workflows -> Proposal]
  BY DEF TypeOK
<1>2. ASSUME UNCHANGED <<pc, stage, proposal>> PROVE IdleIsFresh' /\ GateHolds'
  BY <1>2 DEF IdleIsFresh, GateHolds
<1>3. ASSUME NEW w \in Workflows, Start(w) PROVE IdleIsFresh' /\ GateHolds'
  BY <1>1, <1>3, WorkflowsAssumption DEF Start, Go, IdleIsFresh, GateHolds
<1>4. ASSUME NEW w \in Workflows, StartFails(w) PROVE IdleIsFresh' /\ GateHolds'
  BY <1>1, <1>4, WorkflowsAssumption DEF StartFails, Go, IdleIsFresh, GateHolds
<1>5. ASSUME NEW w \in Workflows, WaitTimesOut(w) PROVE IdleIsFresh' /\ GateHolds'
  BY <1>1, <1>5, WorkflowsAssumption DEF WaitTimesOut, Go, IdleIsFresh, GateHolds
<1>6. ASSUME NEW w \in Workflows, NEW ok \in BOOLEAN, StageEnds(w, ok)
      PROVE  IdleIsFresh' /\ GateHolds'
  BY <1>1, <1>6, WorkflowsAssumption DEF StageEnds, Go, IdleIsFresh, GateHolds
<1>7. ASSUME NEW w \in Workflows, NEW ok \in BOOLEAN, Decide(w, ok)
      PROVE  IdleIsFresh' /\ GateHolds'
  BY <1>1, <1>7, WorkflowsAssumption DEF Decide, Hears, AfterWait, IdleIsFresh, GateHolds
<1>8. ASSUME NEW w \in Workflows, NEW r \in Roles, ReadMisses(w, r)
      PROVE  IdleIsFresh' /\ GateHolds'
  <2>1. CASE r = "workflow"
    BY <1>1, <1>8, <2>1, WorkflowsAssumption
       DEF ReadMisses, AfterThrow, Go, IdleIsFresh, GateHolds
  <2>2. CASE r # "workflow"
    BY <1>2, <1>8, <2>2 DEF ReadMisses
  <2> QED
    BY <2>1, <2>2
<1>9. ASSUME NEW w \in Workflows, NEW r \in Roles, Insert(w, r)
      PROVE  IdleIsFresh' /\ GateHolds'
  <2>1. CASE r # "workflow"
    BY <1>2, <1>9, <2>1 DEF Insert
  <2>2. CASE r = "workflow"
    <3>1. AfterCall(w) /\ proposal' = proposal
      BY <1>9, <2>2 DEF Insert
    <3>2. /\ pc'[w] # "idle"
          /\ \A u \in Workflows \ {w} : pc'[u] = pc[u] /\ stage'[u] = stage[u]
      BY <1>1, <3>1 DEF AfterCall, EnterStage, Go
    <3>3. Passed(w)' /\ w \in Gated => Passed(w)
      BY <1>1, <3>1 DEF AfterCall, EnterStage, Go, Passed
    <3> QED
      BY <3>1, <3>2, <3>3, WorkflowsAssumption DEF IdleIsFresh, GateHolds, Passed
  <2> QED
    BY <2>1, <2>2
<1> QED
  BY <1>2, <1>3, <1>4, <1>5, <1>6, <1>7, <1>8, <1>9
     DEF Next, vars, Statement, ReadFinds, Delete, OperatorCalls

-----------------------------------------------------------------------------
(* The theorems.                                                            *)

\* The invariant holds in every reachable state.
THEOREM Invariance == Spec => []Inv
<1>1. Init => Inv
  <2>1. Init => IdleIsFresh /\ GateHolds
    BY WorkflowsAssumption DEF Init, IdleIsFresh, GateHolds
  <2> QED
    BY <2>1, InitType DEF Inv
<1>2. Inv /\ [Next]_vars => Inv'
  BY StepType, GateStep DEF Inv
<1> QED
  BY <1>1, <1>2, PTL DEF Spec

\* No stage of a gated workflow runs unless its own proposal was accepted
\* (executeTask and waitForConsensusDecision).
THEOREM GateSafe == Spec => []GateHolds
<1>1. Inv => GateHolds
  BY DEF Inv
<1> QED
  BY Invariance, <1>1, PTL

\* The variables keep their types.
THEOREM TypeCorrect == Spec => []TypeOK
<1>1. Inv => TypeOK
  BY DEF Inv
<1> QED
  BY Invariance, <1>1, PTL

-----------------------------------------------------------------------------
(* The record.  An action moves one workflow, so that the invariant is said *)
(* of one workflow at a time.                                               *)

\* A planner call is in progress only where executeTask awaits it, where the decision
\* has been made, and where the operator has called; before the plan there is nothing.
TurnAt(w) ==
    /\ pc[w] \in {"idle", "waiting", "working"} \cup Ended => call[w]["workflow"] = NoCall
    /\ proposal[w] \in {"none", "open"} => call[w]["verdict"] = NoCall
    /\ w \notin operated => call[w]["operator"] = NoCall
    /\ pc[w] = "idle" => proposal[w] = "none" /\ w \notin operated /\ rows[w] = <<>>
    /\ pc[w] \in {"idle", "creating", "waiting", "approving"} => stage[w] = 0
    /\ pc[w] \in {"working", "saving", "finishing"} => stage[w] > 0
    /\ w \notin Gated => proposal[w] = "none" /\ pc[w] \notin {"waiting", "approving", "blocking", "blocked"}

\* A decision and checkpoints that are claimed have happened.
ClaimsFit(w, accepted, marks) ==
    /\ accepted = "yes" \/ Approved \in marks => proposal[w] = "accepted"
    /\ accepted = "no" => proposal[w] = "rejected"
    /\ \A k \in marks \ {Approved, Note} : k <= stage[w]

\* What is in the rows, what a call is about to write, and what it will change of the
\* record it has not read yet, are such claims.
CallFits(w, c) ==
    /\ c.step = "read" => ClaimsFit(w, c.edit.accepted, c.edit.mark)
    /\ c.step \in {"delete", "insert"} => ClaimsFit(w, c.record.accepted, c.record.marks)
HonestAt(w) ==
    /\ \A i \in DOMAIN rows[w] : ClaimsFit(w, rows[w][i].accepted, rows[w][i].marks)
    /\ \A r \in Roles : CallFits(w, call[w][r])

\* A plan without a row is being written, does not exist yet, or was never made.
SurvivesAt(w) ==
    pc[w] # "idle" /\ (\A r \in Roles : call[w][r].step # "insert")
        => rows[w] # <<>> \/ pc[w] \in {"creating", "failed"}

\* The record of a plan after k stages, and an update of it that nobody interferes with.
After(status, k) == [status |-> status, accepted |-> "unset", marks |-> 1 .. k]
Inserting(rec) == [step |-> "insert", record |-> rec]
Updates(w, e, before, after) ==
    \/ call[w]["workflow"] = Reading(e) /\ rows[w] = <<before>>
    \/ call[w]["workflow"] = Writing(after)
    \/ call[w]["workflow"] = Inserting(after) /\ rows[w] = <<>>

\* How far the record of a plan is that only its workflow updates.
SoleAt(w) ==
    w \notin Gated \cup Operated =>
    /\ pc[w] = "creating" => /\ rows[w] = <<>>
                             /\ call[w]["workflow"] \in {Writing(NewRecord(w)), Inserting(NewRecord(w))}
    /\ pc[w] = "working"   => rows[w] = <<After("running", stage[w] - 1)>>
    /\ pc[w] = "saving"    => Updates(w, Checkpoint(stage[w]), After("running", stage[w] - 1),
                                      After("running", stage[w]))
    /\ pc[w] = "finishing" => Updates(w, Complete("completed"), After("running", Stages),
                                      After("completed", Stages))
    /\ pc[w] = "failing"   => Updates(w, Complete("failed"), After("running", stage[w] - 1),
                                      After("failed", stage[w] - 1))
    /\ pc[w] = "done"      => rows[w] = <<After("completed", Stages)>>
    /\ pc[w] = "failed"    => rows[w] = <<After("failed", stage[w] - 1)>>

PlanAt(w) == TurnAt(w) /\ HonestAt(w) /\ SurvivesAt(w) /\ SoleAt(w)

\* What an action does not touch of a plan stays as it is.
LEMMA PlanStands ==
  ASSUME NEW w \in Workflows, PlanAt(w), pc'[w] = pc[w], stage'[w] = stage[w],
         proposal'[w] = proposal[w], rows'[w] = rows[w], call'[w] = call[w],
         w \in operated' <=> w \in operated
  PROVE  PlanAt(w)'
<1>1. TurnAt(w)'
  BY DEF PlanAt, TurnAt
<1>2. HonestAt(w)'
  BY DEF PlanAt, HonestAt, CallFits, ClaimsFit
<1>3. SurvivesAt(w)'
  BY DEF PlanAt, SurvivesAt
<1>4. SoleAt(w)'
  BY DEF PlanAt, SoleAt, Updates
<1> QED
  BY <1>1, <1>2, <1>3, <1>4 DEF PlanAt

\* Claims stand while stages are only entered and decisions only made.
LEMMA ClaimsStand ==
  ASSUME TypeOK, TypeOK', NEW w \in Workflows, stage[w] <= stage'[w],
         proposal[w] \in {"accepted", "rejected"} => proposal'[w] = proposal[w],
         NEW accepted, NEW marks \in SUBSET Labels, ClaimsFit(w, accepted, marks)
  PROVE  ClaimsFit(w, accepted, marks)'
<1>1. stage[w] \in Nat /\ stage'[w] \in Nat /\ \A k \in marks : k \in Nat
  BY StagesAssumption DEF TypeOK, Labels
<1>2. \A k \in marks \ {Approved, Note} : k <= stage'[w]
  BY <1>1 DEF ClaimsFit
<1> QED
  BY <1>2 DEF ClaimsFit

\* An edit of an honest record that claims no more than what has happened leaves it honest.
LEMMA EditedFits ==
  ASSUME NEW w \in Workflows, NEW rec \in Record, NEW e \in Edit,
         ClaimsFit(w, rec.accepted, rec.marks), ClaimsFit(w, e.accepted, e.mark)
  PROVE  ClaimsFit(w, Edited(rec, e).accepted, Edited(rec, e).marks)
BY DEF ClaimsFit, Edited

\* What executeTask asks of the planner replaces the workflow's call only.
LEMMA OtherCallsStand ==
  ASSUME TypeOK, NEW w \in Workflows, NEW c, call' = [call EXCEPT ![w]["workflow"] = c]
  PROVE  /\ call'[w]["workflow"] = c
         /\ call'[w]["verdict"] = call[w]["verdict"] /\ call'[w]["operator"] = call[w]["operator"]
         /\ \A u \in Workflows \ {w} : call'[u] = call[u]
<1>1. call \in [Workflows -> [Roles -> Call]]
  BY DEF TypeOK
<1> HIDE DEF Call
<1> QED
  BY <1>1 DEF Roles

\* A call that asks for an edit, or writes a record, of honest claims.
LEMMA CallSteps ==
  /\ NoCall.step = "idle"
  /\ \A e : Reading(e).step = "read" /\ Reading(e).edit = e
  /\ \A rec : Writing(rec).step = "delete" /\ Writing(rec).record = rec
  /\ \A rec : Inserting(rec).step = "insert" /\ Inserting(rec).record = rec
BY DEF NoCall, Reading, Writing, Inserting

\* What a call in progress carries.
LEMMA CallCarries ==
  ASSUME NEW c \in Call
  PROVE  /\ c.step \in {"idle", "read", "delete", "insert"}
         /\ c.step = "read" => c.edit \in Edit
         /\ c.step \in {"delete", "insert"} => c.record \in Record
BY DEF Call

\* A plan stays honest when the rows and the calls that are new claim what has happened.
LEMMA HonestyKept ==
  ASSUME TypeOK, TypeOK', NEW w \in Workflows, HonestAt(w), stage[w] <= stage'[w],
         proposal[w] \in {"accepted", "rejected"} => proposal'[w] = proposal[w],
         \A i \in DOMAIN rows'[w] :
            \/ i \in DOMAIN rows[w] /\ rows'[w][i] = rows[w][i]
            \/ ClaimsFit(w, rows[w][i].accepted, rows[w][i].marks)',
         \A r \in Roles : call'[w][r] = call[w][r] \/ CallFits(w, call[w][r])'
  PROVE  HonestAt(w)'
<1>1. \A accepted, marks : marks \in SUBSET Labels /\ ClaimsFit(w, accepted, marks)
                             => ClaimsFit(w, accepted, marks)'
  BY ClaimsStand
<1>2. ASSUME NEW i \in DOMAIN rows'[w]
      PROVE  ClaimsFit(w, rows[w][i].accepted, rows[w][i].marks)'
  <2>1. CASE i \in DOMAIN rows[w] /\ rows'[w][i] = rows[w][i]
    <3>1. rows[w] \in Seq(Record)
      BY DEF TypeOK
    <3>2. rows[w][i] \in Record
      BY <2>1, <3>1
    <3>3. rows[w][i].marks \in SUBSET Labels
      BY <3>2 DEF Record
    <3>4. ClaimsFit(w, rows[w][i].accepted, rows[w][i].marks)
      BY <2>1 DEF HonestAt
    <3> QED
      BY <1>1, <2>1, <3>3, <3>4
  <2> QED
    BY <2>1
<1>3. ASSUME NEW r \in Roles PROVE CallFits(w, call[w][r])'
  <2>1. CASE call'[w][r] = call[w][r]
    <3>1. call[w][r] \in Call /\ CallFits(w, call[w][r])
      BY DEF TypeOK, HonestAt
    <3>2. /\ call[w][r].step = "read" => call[w][r].edit.mark \in SUBSET Labels
          /\ call[w][r].step \in {"delete", "insert"} => call[w][r].record.marks \in SUBSET Labels
      BY <3>1, CallCarries DEF Edit, Record
    <3> QED
      BY <1>1, <2>1, <3>1, <3>2 DEF CallFits
  <2> QED
    BY <2>1
<1> QED
  BY <1>2, <1>3 DEF HonestAt

\* createPlan begins to write a record that claims nothing.
LEMMA StartPlan ==
  ASSUME TypeOK, TypeOK', NEW w \in Workflows, PlanAt(w), Start(w)
  PROVE  PlanAt(w)'
<1>1. /\ pc[w] = "idle" /\ pc'[w] = "creating" /\ stage' = stage /\ rows' = rows
      /\ operated' = operated
      /\ proposal'[w] = IF w \in Gated THEN "open" ELSE "none"
      /\ call' = [call EXCEPT ![w]["workflow"] = Writing(NewRecord(w))]
  BY DEF Start, Go, TypeOK
<1>2. /\ proposal[w] = "none" /\ w \notin operated /\ rows[w] = <<>> /\ stage[w] = 0
      /\ call[w]["verdict"] = NoCall /\ call[w]["operator"] = NoCall
  BY <1>1 DEF PlanAt, TurnAt
<1>3. /\ call'[w]["workflow"] = Writing(NewRecord(w))
      /\ call'[w]["verdict"] = NoCall /\ call'[w]["operator"] = NoCall
  BY <1>1, <1>2, OtherCallsStand
<1>4. TurnAt(w)'
  BY <1>1, <1>2, <1>3 DEF TurnAt, Ended
<1>5. HonestAt(w)'
  <2>1. CallFits(w, call[w]["workflow"])'
    BY <1>3, CallSteps DEF CallFits, ClaimsFit, NewRecord
  <2>2. \A r \in Roles : call'[w][r] = call[w][r] \/ CallFits(w, call[w][r])'
    BY <1>2, <1>3, <2>1 DEF Roles
  <2>3. stage[w] <= stage'[w]
    BY <1>1, <1>2
  <2> QED
    BY <1>1, <1>2, <2>2, <2>3, HonestyKept DEF PlanAt
<1>6. SurvivesAt(w)'
  BY <1>1 DEF SurvivesAt
<1>7. SoleAt(w)'
  BY <1>1, <1>2, <1>3 DEF SoleAt
<1> QED
  BY <1>4, <1>5, <1>6, <1>7 DEF PlanAt

\* Without a coordinator there never is a plan.
LEMMA StartFailsPlan ==
  ASSUME TypeOK, TypeOK', NEW w \in Workflows, PlanAt(w), StartFails(w)
  PROVE  PlanAt(w)'
<1>1. /\ pc[w] = "idle" /\ pc'[w] = "failed" /\ w \in Gated
      /\ UNCHANGED <<stage, proposal, rows, call, operated>>
  BY DEF StartFails, Go, TypeOK
<1>2. TurnAt(w)'
  BY <1>1 DEF PlanAt, TurnAt, Ended
<1>3. HonestAt(w)'
  BY <1>1 DEF PlanAt, HonestAt, CallFits, ClaimsFit
<1>4. SurvivesAt(w)' /\ SoleAt(w)'
  BY <1>1 DEF SurvivesAt, SoleAt
<1> QED
  BY <1>2, <1>3, <1>4 DEF PlanAt

\* The waiter that gives up asks for the plan to be aborted, which claims nothing.
LEMMA WaitTimesOutPlan ==
  ASSUME TypeOK, TypeOK', NEW w \in Workflows, PlanAt(w), WaitTimesOut(w)
  PROVE  PlanAt(w)'
<1>1. /\ pc[w] = "waiting" /\ pc'[w] = "blocking"
      /\ UNCHANGED <<stage, proposal, rows, operated>>
      /\ call' = [call EXCEPT ![w]["workflow"] = Reading(Complete("aborted"))]
  BY DEF WaitTimesOut, Go, Asks, TypeOK
<1>2. call[w]["workflow"] = NoCall /\ w \in Gated
  BY <1>1 DEF PlanAt, TurnAt
<1>3. /\ call'[w]["workflow"] = Reading(Complete("aborted"))
      /\ call'[w]["verdict"] = call[w]["verdict"] /\ call'[w]["operator"] = call[w]["operator"]
  BY <1>1, OtherCallsStand
<1>4. TurnAt(w)'
  BY <1>1, <1>2, <1>3 DEF PlanAt, TurnAt, Ended
<1>5. HonestAt(w)'
  <2>1. CallFits(w, call[w]["workflow"])'
    BY <1>3, CallSteps DEF CallFits, ClaimsFit, Complete
  <2>2. \A r \in Roles : call'[w][r] = call[w][r] \/ CallFits(w, call[w][r])'
    BY <1>3, <2>1 DEF Roles
  <2>3. stage[w] <= stage'[w] /\ rows'[w] = rows[w] /\ proposal'[w] = proposal[w]
    BY <1>1 DEF TypeOK
  <2> QED
    BY <2>2, <2>3, HonestyKept DEF PlanAt
<1>6. SurvivesAt(w)'
  <2>1. "workflow" \in Roles /\ NoCall.step # "insert"
    BY DEF Roles, NoCall
  <2>2. (\A r \in Roles : call'[w][r].step # "insert") => \A r \in Roles : call[w][r].step # "insert"
    BY <1>2, <1>3, <2>1 DEF Roles
  <2> QED
    BY <1>1, <2>2 DEF PlanAt, SurvivesAt
<1>7. SoleAt(w)'
  BY <1>2 DEF SoleAt
<1> QED
  BY <1>4, <1>5, <1>6, <1>7 DEF PlanAt

\* The end of a stage asks for its checkpoint, or for the failure to be recorded.
LEMMA StageEndsPlan ==
  ASSUME TypeOK, TypeOK', NEW w \in Workflows, NEW ok \in BOOLEAN, PlanAt(w), StageEnds(w, ok)
  PROVE  PlanAt(w)'
<1> DEFINE e == IF ok THEN Checkpoint(stage[w]) ELSE Complete("failed")
<1>1. /\ pc[w] = "working" /\ pc'[w] = IF ok THEN "saving" ELSE "failing"
      /\ UNCHANGED <<stage, proposal, rows, operated>>
      /\ call' = [call EXCEPT ![w]["workflow"] = Reading(e)]
  BY DEF StageEnds, Go, Asks, TypeOK
<1>2. call[w]["workflow"] = NoCall /\ stage[w] > 0 /\ stage[w] \in Nat
  BY <1>1 DEF PlanAt, TurnAt, TypeOK
<1>3. /\ call'[w]["workflow"] = Reading(e)
      /\ call'[w]["verdict"] = call[w]["verdict"] /\ call'[w]["operator"] = call[w]["operator"]
  <2> HIDE DEF e
  <2> QED
    BY <1>1, OtherCallsStand
<1>4. TurnAt(w)'
  BY <1>1, <1>2, <1>3 DEF PlanAt, TurnAt, Ended
<1>5. HonestAt(w)'
  <2>1. CallFits(w, call[w]["workflow"])'
    <3>1. call'[w]["workflow"].step = "read" /\ call'[w]["workflow"].edit = e
      BY <1>3, CallSteps
    <3>2. e.accepted = "same" /\ e.mark \in {{stage[w]}, {}}
      BY DEF Checkpoint, Complete
    <3>3. stage'[w] = stage[w] /\ stage[w] # Approved /\ stage[w] <= stage[w]
      BY <1>1, <1>2 DEF Approved
    <3> HIDE DEF e
    <3> QED
      BY <3>1, <3>2, <3>3 DEF CallFits, ClaimsFit
  <2>2. \A r \in Roles : call'[w][r] = call[w][r] \/ CallFits(w, call[w][r])'
    BY <1>3, <2>1 DEF Roles
  <2>3. stage[w] <= stage'[w] /\ rows'[w] = rows[w] /\ proposal'[w] = proposal[w]
    BY <1>1, <1>2
  <2> QED
    BY <2>2, <2>3, HonestyKept DEF PlanAt
<1>6. SurvivesAt(w)'
  <2>1. NoCall.step # "insert"
    BY DEF NoCall
  <2>2. (\A r \in Roles : call'[w][r].step # "insert") => \A r \in Roles : call[w][r].step # "insert"
    BY <1>2, <1>3, <2>1 DEF Roles
  <2> QED
    BY <1>1, <2>2 DEF PlanAt, SurvivesAt
<1>7. SoleAt(w)'
  BY <1>1, <1>3 DEF PlanAt, SoleAt, Updates
<1> QED
  BY <1>4, <1>5, <1>6, <1>7 DEF PlanAt

\* The decision is recorded by handleConsensusResult, and by the workflow if it still waits.
LEMMA DecidePlan ==
  ASSUME TypeOK, TypeOK', NEW w \in Workflows, NEW ok \in BOOLEAN, PlanAt(w), Decide(w, ok)
  PROVE  PlanAt(w)'
<1> DEFINE e == IF ok THEN Checkpoint(Approved) ELSE Complete("aborted")
<1>1. /\ proposal[w] = "open" /\ proposal'[w] = IF ok THEN "accepted" ELSE "rejected"
      /\ UNCHANGED <<stage, rows, operated>>
      /\ pc'[w] = IF pc[w] = "waiting" THEN (IF ok THEN "approving" ELSE "blocking") ELSE pc[w]
  BY DEF Decide, Hears, AfterWait, TypeOK
<1>2. w \in Gated /\ pc[w] # "idle" /\ call[w]["verdict"] = NoCall
      /\ (pc[w] = "waiting" => call[w]["workflow"] = NoCall)
  BY <1>1 DEF PlanAt, TurnAt
<1>3. /\ call'[w]["verdict"] = Reading(Verdict(ok)) /\ call'[w]["operator"] = call[w]["operator"]
      /\ call'[w]["workflow"] = IF pc[w] = "waiting" THEN Reading(e) ELSE call[w]["workflow"]
  BY DEF Decide, Hears, Roles
<1>4. TurnAt(w)'
  BY <1>1, <1>2, <1>3 DEF PlanAt, TurnAt, Ended
<1>5. HonestAt(w)'
  <2>1. CallFits(w, call[w]["verdict"])'
    BY <1>1, <1>3, CallSteps DEF CallFits, ClaimsFit, Verdict
  <2>2. pc[w] = "waiting" => CallFits(w, call[w]["workflow"])'
    <3>1. e.accepted = "same" /\ (e.mark = {} \/ (ok /\ e.mark = {Approved}))
      BY DEF Checkpoint, Complete
    <3>2. pc[w] = "waiting" => call'[w]["workflow"].step = "read" /\ call'[w]["workflow"].edit = e
      BY <1>3, CallSteps
    <3> HIDE DEF e
    <3> QED
      BY <1>1, <3>1, <3>2 DEF CallFits, ClaimsFit
  <2>3. \A r \in Roles : call'[w][r] = call[w][r] \/ CallFits(w, call[w][r])'
    BY <1>3, <2>1, <2>2 DEF Roles
  <2>4. stage[w] <= stage'[w] /\ rows'[w] = rows[w]
    BY <1>1 DEF TypeOK
  <2> QED
    BY <1>1, <2>3, <2>4, HonestyKept DEF PlanAt
<1>6. SurvivesAt(w)'
  <2>1. NoCall.step # "insert"
    BY DEF NoCall
  <2>2. (\A r \in Roles : call'[w][r].step # "insert") => \A r \in Roles : call[w][r].step # "insert"
    BY <1>2, <1>3, <2>1 DEF Roles
  <2> QED
    BY <1>1, <1>2, <2>2 DEF PlanAt, SurvivesAt
<1>7. SoleAt(w)'
  BY <1>2 DEF SoleAt
<1> QED
  BY <1>4, <1>5, <1>6, <1>7 DEF PlanAt

\* A planner call is replaced, the others stand.
LEMMA CallReplaced ==
  ASSUME TypeOK, NEW w \in Workflows, NEW r \in Roles, NEW c, call' = [call EXCEPT ![w][r] = c]
  PROVE  call'[w][r] = c /\ \A q \in Roles \ {r} : call'[w][q] = call[w][q]
<1>1. call \in [Workflows -> [Roles -> Call]]
  BY DEF TypeOK
<1> HIDE DEF Call, Roles
<1> QED
  BY <1>1

\* A plan keeps its row, or its outstanding insert, when a call that is not inserting moves on.
LEMMA SurvivalKept ==
  ASSUME NEW w \in Workflows, SurvivesAt(w), pc[w] # "idle", rows'[w] = rows[w],
         pc[w] \in {"creating", "failed"} => pc'[w] \in {"creating", "failed"},
         NEW r \in Roles, call[w][r].step # "insert",
         \A q \in Roles \ {r} : call'[w][q] = call[w][q]
  PROVE  SurvivesAt(w)'
<1>1. (\A q \in Roles : call'[w][q].step # "insert") => \A q \in Roles : call[w][q].step # "insert"
  OBVIOUS
<1> QED
  BY <1>1 DEF SurvivesAt

\* An operator's call claims at most its own checkpoint.
LEMMA OperatorCallsPlan ==
  ASSUME TypeOK, TypeOK', NEW w \in Workflows, PlanAt(w),
         NEW e \in {Checkpoint(Note), Complete("aborted"), Complete("completed")},
         OperatorCalls(w, e)
  PROVE  PlanAt(w)'
<1>1. /\ w \in Operated \ operated /\ pc[w] \notin {"idle", "creating"}
      /\ operated' = operated \cup {w} /\ UNCHANGED <<pc, stage, proposal, rows>>
      /\ call' = [call EXCEPT ![w]["operator"] = Reading(e)]
  BY DEF OperatorCalls, Known
<1>2. "operator" \in Roles /\ "workflow" \in Roles /\ "verdict" \in Roles
  BY DEF Roles
<1>3. call'[w]["operator"] = Reading(e) /\ \A q \in Roles \ {"operator"} : call'[w][q] = call[w][q]
  BY <1>1, <1>2, CallReplaced
<1>4. call'[w]["workflow"] = call[w]["workflow"] /\ call'[w]["verdict"] = call[w]["verdict"]
  BY <1>2, <1>3
<1>5. TurnAt(w)'
  BY <1>1, <1>4 DEF PlanAt, TurnAt
<1>6. HonestAt(w)'
  <2>1. e.accepted = "same" /\ e.mark \in {{}, {Note}}
    BY DEF Checkpoint, Complete
  <2>2. call'[w]["operator"].step = "read" /\ call'[w]["operator"].edit = e
    BY <1>3, CallSteps
  <2>3. Approved # Note
    BY StagesAssumption DEF Approved, Note
  <2>4. CallFits(w, call[w]["operator"])'
    BY <2>1, <2>2, <2>3 DEF CallFits, ClaimsFit
  <2>5. \A r \in Roles : call'[w][r] = call[w][r] \/ CallFits(w, call[w][r])'
    BY <1>3, <2>4
  <2>6. stage[w] <= stage'[w] /\ rows'[w] = rows[w] /\ proposal'[w] = proposal[w]
    BY <1>1 DEF TypeOK
  <2> QED
    BY <2>5, <2>6, HonestyKept DEF PlanAt
<1>7. SurvivesAt(w)'
  <2>1. call[w]["operator"].step # "insert"
    BY <1>1, CallSteps DEF PlanAt, TurnAt
  <2> QED
    BY <1>1, <1>2, <1>3, <2>1, SurvivalKept DEF PlanAt
<1>8. SoleAt(w)'
  BY <1>1 DEF SoleAt
<1> QED
  BY <1>5, <1>6, <1>7, <1>8 DEF PlanAt

\* A call in progress is of a plan that exists, and of one who calls where he may.
LEMMA WhoCalls ==
  ASSUME TypeOK, NEW w \in Workflows, PlanAt(w), NEW r \in Roles, call[w][r].step # "idle"
  PROVE  /\ pc[w] # "idle"
         /\ r = "workflow" => pc[w] \notin {"waiting", "working"} \cup Ended
         /\ r = "verdict" => proposal[w] \notin {"none", "open"}
         /\ r = "operator" => w \in operated
         /\ w \notin Gated \cup Operated => r = "workflow" /\ pc[w] \in {"creating", "saving", "finishing", "failing"}
<1>1. call[w][r] # NoCall
  BY DEF NoCall
<1>2. r \in {"workflow", "verdict", "operator"} /\ operated \subseteq Operated /\ pc[w] \in PC
  BY DEF Roles, TypeOK
<1> HIDE DEF NoCall
<1> QED
  BY <1>1, <1>2 DEF PlanAt, TurnAt, Ended, PC

\* Marking a stage done, and completing, in the record after the stages before it.
LEMMA AfterEdit ==
  /\ \A k \in Nat \ {0} : Edited(After("running", k - 1), Checkpoint(k)) = After("running", k)
  /\ \A k \in Int : Edited(After("running", k), Complete("completed")) = After("completed", k)
  /\ \A k \in Int : Edited(After("running", k), Complete("failed")) = After("failed", k)
<1>1. ASSUME NEW k \in Nat \ {0} PROVE Edited(After("running", k - 1), Checkpoint(k)) = After("running", k)
  <2>1. (1 .. k - 1) \cup {k} = 1 .. k
    OBVIOUS
  <2> QED
    BY <2>1 DEF Edited, After, Checkpoint
<1>2. ASSUME NEW k \in Int PROVE Edited(After("running", k), Complete("completed")) = After("completed", k)
  BY DEF Edited, After, Complete
<1>3. ASSUME NEW k \in Int PROVE Edited(After("running", k), Complete("failed")) = After("failed", k)
  BY DEF Edited, After, Complete
<1> QED
  BY <1>1, <1>2, <1>3

\* getLatest found a row: the call goes on to write an honest update of it.
LEMMA ReadFindsPlan ==
  ASSUME TypeOK, TypeOK', NEW w \in Workflows, NEW r \in Roles, PlanAt(w), ReadFinds(w, r)
  PROVE  PlanAt(w)'
<1> DEFINE new == Edited(Latest(w), call[w][r].edit)
<1>1. /\ call[w][r].step = "read" /\ rows[w] # <<>>
      /\ UNCHANGED <<pc, stage, proposal, rows, operated>>
      /\ call' = [call EXCEPT ![w][r] = Writing(new)]
  BY DEF ReadFinds
<1>2. call'[w][r] = Writing(new) /\ \A q \in Roles \ {r} : call'[w][q] = call[w][q]
  <2> HIDE DEF new
  <2> QED
    BY <1>1, CallReplaced
<1>3. /\ pc[w] # "idle"
      /\ r = "workflow" => pc[w] \notin {"waiting", "working"} \cup Ended
      /\ r = "verdict" => proposal[w] \notin {"none", "open"}
      /\ r = "operator" => w \in operated
      /\ w \notin Gated \cup Operated => r = "workflow" /\ pc[w] \in {"creating", "saving", "finishing", "failing"}
  BY <1>1, WhoCalls
<1>4. "operator" \in Roles /\ "workflow" \in Roles /\ "verdict" \in Roles
  BY DEF Roles
<1>5. TurnAt(w)'
  <2>1. \A q \in Roles : q = r \/ call'[w][q] = call[w][q]
    BY <1>2
  <2> HIDE DEF NoCall, new, Roles
  <2> QED
    BY <1>1, <1>3, <1>4, <2>1 DEF PlanAt, TurnAt
<1>6. HonestAt(w)'
  <2>1. rows[w] \in Seq(Record) /\ Len(rows[w]) \in DOMAIN rows[w]
    BY <1>1, EmptySeq, LenProperties DEF TypeOK
  <2>2. Latest(w) \in Record /\ ClaimsFit(w, Latest(w).accepted, Latest(w).marks)
    BY <2>1 DEF Latest, Last, PlanAt, HonestAt
  <2>3. call[w][r] \in Call /\ CallFits(w, call[w][r])
    BY DEF TypeOK, PlanAt, HonestAt
  <2>4. call[w][r].edit \in Edit /\ ClaimsFit(w, call[w][r].edit.accepted, call[w][r].edit.mark)
    BY <1>1, <2>3, CallCarries DEF CallFits
  <2>5. ClaimsFit(w, new.accepted, new.marks)
    BY <2>2, <2>4, EditedFits
  <2> HIDE DEF new
  <2>6. call'[w][r].step = "delete" /\ call'[w][r].record = new
    BY <1>2, CallSteps
  <2>7. CallFits(w, call[w][r])'
    BY <1>1, <2>5, <2>6 DEF CallFits, ClaimsFit
  <2>8. \A q \in Roles : call'[w][q] = call[w][q] \/ CallFits(w, call[w][q])'
    BY <1>2, <2>7
  <2>9. stage[w] <= stage'[w] /\ rows'[w] = rows[w] /\ proposal'[w] = proposal[w]
    BY <1>1 DEF TypeOK
  <2> QED
    BY <2>8, <2>9, HonestyKept DEF PlanAt
<1>7. SurvivesAt(w)'
  BY <1>1, <1>2, <1>3, SurvivalKept DEF PlanAt
<1>8. SoleAt(w)'
  <2>1. SUFFICES ASSUME w \notin Gated \cup Operated PROVE SoleAt(w)'
    BY DEF SoleAt
  <2>2. r = "workflow" /\ call[w]["workflow"].step = "read"
    BY <1>1, <1>3, <2>1
  <2>3. ASSUME NEW e, NEW before, NEW after, Updates(w, e, before, after), Edited(before, e) = after
        PROVE  call'[w]["workflow"] = Writing(after)
    <3>1. call[w]["workflow"] = Reading(e) /\ rows[w] = <<before>>
      BY <2>2, <2>3, CallSteps DEF Updates
    <3>2. Latest(w) = before /\ call[w]["workflow"].edit = e
      BY <3>1, CallSteps DEF Latest, Last
    <3>3. new = after
      BY <2>2, <2>3, <3>2
    <3> QED
      BY <1>2, <2>2, <3>3
  <2>4. stage[w] \in Nat /\ Stages \in Nat /\ (pc[w] = "saving" => stage[w] > 0)
    BY StagesAssumption DEF TypeOK, PlanAt, TurnAt
  <2>5. pc[w] # "creating"
    BY <2>1, <2>2, CallSteps DEF PlanAt, SoleAt
  <2> HIDE DEF new
  <2>6. CASE pc[w] = "saving"
    <3>1. Updates(w, Checkpoint(stage[w]), After("running", stage[w] - 1), After("running", stage[w]))
      BY <2>1, <2>6 DEF PlanAt, SoleAt
    <3>2. call'[w]["workflow"] = Writing(After("running", stage[w]))
      BY <2>3, <2>4, <2>6, <3>1, AfterEdit
    <3> QED
      BY <1>1, <2>6, <3>2 DEF SoleAt, Updates
  <2>7. CASE pc[w] = "finishing"
    <3>1. Updates(w, Complete("completed"), After("running", Stages), After("completed", Stages))
      BY <2>1, <2>7 DEF PlanAt, SoleAt
    <3>2. call'[w]["workflow"] = Writing(After("completed", Stages))
      BY <2>3, <2>4, <3>1, AfterEdit
    <3> QED
      BY <1>1, <2>7, <3>2 DEF SoleAt, Updates
  <2>8. CASE pc[w] = "failing"
    <3>1. Updates(w, Complete("failed"), After("running", stage[w] - 1), After("failed", stage[w] - 1))
      BY <2>1, <2>8 DEF PlanAt, SoleAt
    <3>2. stage[w] - 1 \in Int
      BY <2>4
    <3>3. call'[w]["workflow"] = Writing(After("failed", stage[w] - 1))
      BY <2>3, <3>1, <3>2, AfterEdit
    <3> QED
      BY <1>1, <2>8, <3>3 DEF SoleAt, Updates
  <2> QED
    BY <1>3, <2>1, <2>5, <2>6, <2>7, <2>8
<1> QED
  BY <1>5, <1>6, <1>7, <1>8 DEF PlanAt

\* getLatest found no row: the call ends, and the workflow may ask for its failure to be recorded.
LEMMA ReadMissesPlan ==
  ASSUME TypeOK, TypeOK', NEW w \in Workflows, NEW r \in Roles, PlanAt(w), ReadMisses(w, r)
  PROVE  PlanAt(w)'
<1>1. /\ call[w][r].step = "read" /\ rows[w] = <<>> /\ UNCHANGED <<stage, proposal, rows, operated>>
      /\ IF r = "workflow" THEN AfterThrow(w)
         ELSE call' = [call EXCEPT ![w][r] = NoCall] /\ UNCHANGED pc
  BY DEF ReadMisses
<1>2. /\ pc[w] # "idle"
      /\ r = "workflow" => pc[w] \notin {"waiting", "working"} \cup Ended
      /\ r = "verdict" => proposal[w] \notin {"none", "open"}
      /\ r = "operator" => w \in operated
      /\ w \notin Gated \cup Operated => r = "workflow" /\ pc[w] \in {"creating", "saving", "finishing", "failing"}
  BY <1>1, WhoCalls
<1>3. /\ \A q \in Roles \ {r} : call'[w][q] = call[w][q]
      /\ call'[w][r] = NoCall \/ (r = "workflow" /\ call'[w][r] = Reading(Complete("failed")))
  <2> HIDE DEF NoCall, Reading, Complete, Roles
  <2>1. PICK c \in {NoCall, Reading(Complete("failed"))} :
          call' = [call EXCEPT ![w][r] = c] /\ (c = NoCall \/ r = "workflow")
    BY <1>1 DEF AfterThrow, Returns, Asks
  <2>2. call'[w][r] = c /\ \A q \in Roles \ {r} : call'[w][q] = call[w][q]
    BY <2>1, CallReplaced
  <2> QED
    BY <2>1, <2>2
<1>4. r = "workflow" =>
        /\ pc[w] \in {"saving", "finishing", "approving", "blocking", "failing"}
        /\ pc'[w] = (IF pc[w] \in {"saving", "finishing"} THEN "failing"
                     ELSE IF pc[w] = "blocking" THEN "blocked" ELSE "failed")
        /\ call'[w][r] = (IF pc[w] \in {"saving", "finishing"} THEN Reading(Complete("failed"))
                          ELSE NoCall)
  <2>1. SUFFICES ASSUME r = "workflow", AfterThrow(w)
                 PROVE  /\ pc[w] \in {"saving", "finishing", "approving", "blocking", "failing"}
                        /\ pc'[w] = (IF pc[w] \in {"saving", "finishing"} THEN "failing"
                                     ELSE IF pc[w] = "blocking" THEN "blocked" ELSE "failed")
                        /\ call'[w][r] = (IF pc[w] \in {"saving", "finishing"} THEN Reading(Complete("failed"))
                                          ELSE NoCall)
    BY <1>1
  <2> HIDE DEF NoCall, Reading, Complete
  <2>2. CASE pc[w] \in {"saving", "finishing"}
    <3>1. call' = [call EXCEPT ![w]["workflow"] = Reading(Complete("failed"))] /\ pc'[w] = "failing"
      BY <2>1, <2>2 DEF AfterThrow, Go, Asks, TypeOK
    <3> QED
      <4>1. call'[w]["workflow"] = Reading(Complete("failed"))
        BY <3>1, OtherCallsStand
      <4> QED
        BY <2>1, <2>2, <3>1, <4>1
  <2>3. CASE pc[w] \in {"approving", "blocking", "failing"}
    <3>1. /\ call' = [call EXCEPT ![w]["workflow"] = NoCall]
          /\ pc'[w] = IF pc[w] = "blocking" THEN "blocked" ELSE "failed"
      BY <2>1, <2>3 DEF AfterThrow, Go, Returns, TypeOK
    <3> QED
      <4>1. call'[w]["workflow"] = NoCall
        BY <3>1, OtherCallsStand
      <4> QED
        BY <2>1, <2>3, <3>1, <4>1
  <2> QED
    BY <2>1, <2>2, <2>3 DEF AfterThrow
<1>5. r # "workflow" => pc'[w] = pc[w]
  BY <1>1
<1>6. "operator" \in Roles /\ "workflow" \in Roles /\ "verdict" \in Roles
  BY DEF Roles
<1>7. TurnAt(w)'
  <2>1. \A q \in Roles : q = r \/ call'[w][q] = call[w][q]
    BY <1>3
  <2> HIDE DEF NoCall, Reading, Complete, Roles
  <2>2. CASE r = "workflow"
    BY <1>1, <1>2, <1>4, <1>6, <2>1, <2>2 DEF PlanAt, TurnAt, Ended
  <2>3. CASE r # "workflow"
    BY <1>1, <1>2, <1>3, <1>5, <1>6, <2>1, <2>3 DEF PlanAt, TurnAt, Ended
  <2> QED
    BY <2>2, <2>3
<1>8. HonestAt(w)'
  <2>1. CallFits(w, call[w][r])'
    BY <1>3, CallSteps DEF CallFits, ClaimsFit, Complete
  <2>2. \A q \in Roles : call'[w][q] = call[w][q] \/ CallFits(w, call[w][q])'
    BY <1>3, <2>1
  <2>3. stage[w] <= stage'[w] /\ rows'[w] = rows[w] /\ proposal'[w] = proposal[w]
    BY <1>1 DEF TypeOK
  <2> QED
    BY <2>2, <2>3, HonestyKept DEF PlanAt
<1>9. SurvivesAt(w)'
  <2>1. pc[w] \in {"creating", "failed"} => pc'[w] \in {"creating", "failed"}
    BY <1>4, <1>5
  <2> QED
    BY <1>1, <1>2, <1>3, <2>1, SurvivalKept DEF PlanAt
<1>10. SoleAt(w)'
  <2>1. SUFFICES ASSUME w \notin Gated \cup Operated PROVE FALSE
    BY DEF SoleAt
  <2>2. call[w]["workflow"].step = "read"
    BY <1>1, <1>2, <2>1
  <2>3. pc[w] # "creating"
    BY <2>1, <2>2, CallSteps DEF PlanAt, SoleAt
  <2>4. \A e, before, after : ~ Updates(w, e, before, after)
    BY <1>1, <2>2, CallSteps DEF Updates
  <2> QED
    BY <1>2, <2>1, <2>3, <2>4 DEF PlanAt, SoleAt
<1> QED
  BY <1>7, <1>8, <1>9, <1>10 DEF PlanAt

\* logReasoningRun deletes the rows while the call that does so still carries its record.
LEMMA DeletePlan ==
  ASSUME TypeOK, TypeOK', NEW w \in Workflows, NEW r \in Roles, PlanAt(w), Delete(w, r)
  PROVE  PlanAt(w)'
<1> DEFINE c == [call[w][r] EXCEPT !.step = "insert"]
<1>1. /\ call[w][r].step = "delete" /\ rows'[w] = <<>> /\ UNCHANGED <<pc, stage, proposal, operated>>
      /\ call' = [call EXCEPT ![w][r] = c]
  BY DEF Delete, TypeOK
<1>2. call[w][r] = Writing(call[w][r].record) /\ c = Inserting(call[w][r].record)
  <2>1. call[w][r] \in Call
    BY DEF TypeOK
  <2>2. PICK rec \in Record : call[w][r] = [step |-> "delete", record |-> rec]
    BY <1>1, <2>1 DEF Call
  <2> QED
    BY <2>2 DEF Writing, Inserting
<1>3. call'[w][r] = Inserting(call[w][r].record) /\ \A q \in Roles \ {r} : call'[w][q] = call[w][q]
  <2> HIDE DEF c
  <2> QED
    BY <1>1, <1>2, CallReplaced
<1> HIDE DEF c
<1>4. /\ pc[w] # "idle"
      /\ r = "workflow" => pc[w] \notin {"waiting", "working"} \cup Ended
      /\ r = "verdict" => proposal[w] \notin {"none", "open"}
      /\ r = "operator" => w \in operated
      /\ w \notin Gated \cup Operated => r = "workflow" /\ pc[w] \in {"creating", "saving", "finishing", "failing"}
  BY <1>1, WhoCalls
<1>5. "operator" \in Roles /\ "workflow" \in Roles /\ "verdict" \in Roles
  BY DEF Roles
<1>6. TurnAt(w)'
  <2>1. \A q \in Roles : q = r \/ call'[w][q] = call[w][q]
    BY <1>3
  <2> HIDE DEF NoCall, Roles
  <2> QED
    BY <1>1, <1>4, <1>5, <2>1 DEF PlanAt, TurnAt
<1>7. HonestAt(w)'
  <2>1. call'[w][r].step = "insert" /\ call'[w][r].record = call[w][r].record
    BY <1>3, CallSteps
  <2>2. CallFits(w, call[w][r])
    BY DEF PlanAt, HonestAt
  <2>3. CallFits(w, call[w][r])'
    BY <1>1, <2>1, <2>2 DEF CallFits, ClaimsFit
  <2>4. \A q \in Roles : call'[w][q] = call[w][q] \/ CallFits(w, call[w][q])'
    BY <1>3, <2>3
  <2>5. stage[w] <= stage'[w] /\ DOMAIN rows'[w] = {} /\ proposal'[w] = proposal[w]
    BY <1>1 DEF TypeOK
  <2> QED
    BY <2>4, <2>5, HonestyKept DEF PlanAt
<1>8. SurvivesAt(w)'
  BY <1>3, CallSteps DEF SurvivesAt
<1>9. SoleAt(w)'
  <2>1. SUFFICES ASSUME w \notin Gated \cup Operated PROVE SoleAt(w)'
    BY DEF SoleAt
  <2>2. r = "workflow" /\ call[w]["workflow"].step = "delete"
    BY <1>1, <1>4, <2>1
  <2>3. \A e, before, after : Updates(w, e, before, after) =>
          call'[w]["workflow"] = Inserting(after)
    BY <1>3, <2>2, CallSteps DEF Updates
  <2>4. pc[w] = "creating" => call'[w]["workflow"] = Inserting(NewRecord(w))
    BY <1>3, <2>1, <2>2, CallSteps DEF PlanAt, SoleAt
  <2> HIDE DEF Inserting, Writing, Reading, After, NewRecord
  <2> QED
    BY <1>1, <1>4, <2>1, <2>3, <2>4 DEF PlanAt, SoleAt, Updates
<1> QED
  BY <1>6, <1>7, <1>8, <1>9 DEF PlanAt

\* Where the workflow goes, and with what, when its record has been written.
LEMMA AfterCallSteps ==
  ASSUME TypeOK, NEW w \in Workflows, AfterCall(w)
  PROVE  /\ \E c \in {NoCall, Reading(Complete("completed"))} : call' = [call EXCEPT ![w]["workflow"] = c]
         /\ \/ /\ pc[w] = "creating" /\ w \in Gated /\ pc'[w] = "waiting"
               /\ stage'[w] = stage[w] /\ call'[w]["workflow"] = NoCall
            \/ /\ pc[w] = "creating" /\ w \notin Gated /\ pc'[w] = "working"
               /\ stage'[w] = 1 /\ call'[w]["workflow"] = NoCall
            \/ /\ pc[w] = "approving" /\ pc'[w] = "working"
               /\ stage'[w] = 1 /\ call'[w]["workflow"] = NoCall
            \/ /\ pc[w] = "saving" /\ pc'[w] = "working" /\ stage[w] < Stages
               /\ stage'[w] = stage[w] + 1 /\ call'[w]["workflow"] = NoCall
            \/ /\ pc[w] = "saving" /\ pc'[w] = "finishing" /\ stage[w] = Stages
               /\ stage'[w] = stage[w] /\ call'[w]["workflow"] = Reading(Complete("completed"))
            \/ /\ pc[w] = "finishing" /\ pc'[w] = "done"
               /\ stage'[w] = stage[w] /\ call'[w]["workflow"] = NoCall
            \/ /\ pc[w] = "blocking" /\ pc'[w] = "blocked"
               /\ stage'[w] = stage[w] /\ call'[w]["workflow"] = NoCall
            \/ /\ pc[w] = "failing" /\ pc'[w] = "failed"
               /\ stage'[w] = stage[w] /\ call'[w]["workflow"] = NoCall
<1>1. pc \in [Workflows -> PC] /\ stage \in [Workflows -> 0 .. Stages]
  BY DEF TypeOK
<1> HIDE DEF NoCall, Reading, Complete
<1>2. /\ Returns(w) => call'[w]["workflow"] = NoCall
      /\ Asks(w, Complete("completed")) => call'[w]["workflow"] = Reading(Complete("completed"))
  BY OtherCallsStand DEF Returns, Asks
<1>3. \E c \in {NoCall, Reading(Complete("completed"))} : call' = [call EXCEPT ![w]["workflow"] = c]
  BY DEF AfterCall, EnterStage, Returns, Asks
<1> QED
  BY <1>1, <1>2, <1>3 DEF AfterCall, EnterStage, Go

\* logReasoningRun inserts the record of the call, and the workflow goes on.
LEMMA InsertPlan ==
  ASSUME TypeOK, TypeOK', NEW w \in Workflows, NEW r \in Roles, PlanAt(w), Insert(w, r)
  PROVE  PlanAt(w)'
<1>1. /\ call[w][r].step = "insert" /\ UNCHANGED <<proposal, operated>>
      /\ rows' = [rows EXCEPT ![w] = Append(rows[w], call[w][r].record)]
      /\ IF r = "workflow" THEN AfterCall(w)
         ELSE call' = [call EXCEPT ![w][r] = NoCall] /\ UNCHANGED <<pc, stage>>
  BY DEF Insert
<1>2. /\ pc[w] # "idle"
      /\ r = "workflow" => pc[w] \notin {"waiting", "working"} \cup Ended
      /\ r = "verdict" => proposal[w] \notin {"none", "open"}
      /\ r = "operator" => w \in operated
      /\ w \notin Gated \cup Operated => r = "workflow" /\ pc[w] \in {"creating", "saving", "finishing", "failing"}
  BY <1>1, WhoCalls
<1>3. /\ \A q \in Roles \ {r} : call'[w][q] = call[w][q]
      /\ call'[w][r] = NoCall \/ (r = "workflow" /\ call'[w][r] = Reading(Complete("completed")))
  <2> HIDE DEF NoCall, Reading, Complete, Roles
  <2>1. PICK c \in {NoCall, Reading(Complete("completed"))} :
          call' = [call EXCEPT ![w][r] = c] /\ (c = NoCall \/ r = "workflow")
    BY <1>1, AfterCallSteps
  <2>2. call'[w][r] = c /\ \A q \in Roles \ {r} : call'[w][q] = call[w][q]
    BY <2>1, CallReplaced
  <2> QED
    BY <2>1, <2>2
<1>4. r # "workflow" => pc'[w] = pc[w] /\ stage'[w] = stage[w]
  BY <1>1
<1>5. "operator" \in Roles /\ "workflow" \in Roles /\ "verdict" \in Roles
  BY DEF Roles
<1>6. /\ stage[w] \in Nat /\ stage'[w] \in Nat /\ Stages \in Nat
      /\ pc[w] \in {"creating", "approving"} => stage[w] = 0
      /\ pc[w] \in {"saving", "finishing"} => stage[w] > 0
      /\ w \notin Gated => pc[w] \notin {"waiting", "approving", "blocking", "blocked"}
  BY StagesAssumption DEF TypeOK, PlanAt, TurnAt
<1>7. TurnAt(w)'
  <2>1. \A q \in Roles : q = r \/ call'[w][q] = call[w][q]
    BY <1>3
  <2>2. CASE r = "workflow"
    <3> HIDE DEF NoCall, Reading, Complete, Roles
    <3> QED
      BY <1>1, <1>2, <1>5, <1>6, <2>1, <2>2, AfterCallSteps DEF PlanAt, TurnAt, Ended
  <2>3. CASE r # "workflow"
    <3> HIDE DEF NoCall, Reading, Complete, Roles
    <3> QED
      BY <1>1, <1>2, <1>3, <1>4, <1>5, <2>1, <2>3 DEF PlanAt, TurnAt, Ended
  <2> QED
    BY <2>2, <2>3
<1>8. HonestAt(w)'
  <2>1. CallFits(w, call[w][r])'
    BY <1>3, CallSteps DEF CallFits, ClaimsFit, Complete
  <2>2. \A q \in Roles : call'[w][q] = call[w][q] \/ CallFits(w, call[w][q])'
    BY <1>3, <2>1
  <2>3. stage[w] <= stage'[w] /\ proposal'[w] = proposal[w]
    <3> HIDE DEF NoCall, Reading, Complete
    <3> QED
      BY <1>1, <1>4, <1>6, AfterCallSteps
  <2>4. call[w][r] \in Call /\ CallFits(w, call[w][r])
    BY DEF TypeOK, PlanAt, HonestAt
  <2>5. /\ call[w][r].record \in Record
        /\ ClaimsFit(w, call[w][r].record.accepted, call[w][r].record.marks)
    BY <1>1, <2>4, CallCarries DEF CallFits
  <2>6. ClaimsFit(w, call[w][r].record.accepted, call[w][r].record.marks) =>
          \A rec : rec = call[w][r].record => ClaimsFit(w, rec.accepted, rec.marks)'
    <3>1. call[w][r].record.marks \in SUBSET Labels
      BY <2>5 DEF Record
    <3>2. \A accepted, marks : marks \in SUBSET Labels /\ ClaimsFit(w, accepted, marks)
                                 => ClaimsFit(w, accepted, marks)'
      BY <2>3, ClaimsStand
    <3> QED
      BY <3>1, <3>2
  <2>7. rows[w] \in Seq(Record) /\ rows'[w] = Append(rows[w], call[w][r].record)
    BY <1>1 DEF TypeOK
  <2>8. \A i \in DOMAIN rows'[w] :
           (i \in DOMAIN rows[w] /\ rows'[w][i] = rows[w][i]) \/ rows'[w][i] = call[w][r].record
    BY <2>5, <2>7
  <2>9. \A i \in DOMAIN rows'[w] :
           \/ i \in DOMAIN rows[w] /\ rows'[w][i] = rows[w][i]
           \/ ClaimsFit(w, rows[w][i].accepted, rows[w][i].marks)'
    BY <2>5, <2>6, <2>8
  <2> QED
    BY <2>2, <2>3, <2>9, HonestyKept DEF PlanAt
<1>9. SurvivesAt(w)'
  <2>1. call[w][r] \in Call /\ rows[w] \in Seq(Record)
    BY DEF TypeOK
  <2>2. rows'[w] # <<>>
    BY <1>1, <2>1, CallCarries, AppendProperties DEF TypeOK
  <2> QED
    BY <2>2 DEF SurvivesAt
<1>10. SoleAt(w)'
  <2>1. SUFFICES ASSUME w \notin Gated \cup Operated PROVE SoleAt(w)'
    BY DEF SoleAt
  <2>2. r = "workflow" /\ call[w]["workflow"].step = "insert" /\ AfterCall(w)
    BY <1>1, <1>2, <2>1
  <2>3. ASSUME NEW rec, rows[w] = <<>>, call[w]["workflow"] = Inserting(rec)
        PROVE  rows'[w] = <<rec>>
    <3>1. call[w][r].record = rec
      BY <2>2, <2>3, CallSteps
    <3> QED
      BY <1>1, <2>3, <3>1 DEF TypeOK
  <2>4. \A e, before, after : Updates(w, e, before, after) => rows'[w] = <<after>>
    BY <2>2, <2>3, CallSteps DEF Updates
  <2>5. pc[w] = "creating" => rows'[w] = <<After("running", 0)>>
    <3>1. NewRecord(w) = After("running", 0)
      BY <2>1 DEF NewRecord, After
    <3>2. pc[w] = "creating" => rows[w] = <<>> /\ call[w]["workflow"] = Inserting(NewRecord(w))
      BY <2>1, <2>2, CallSteps DEF PlanAt, SoleAt
    <3> QED
      BY <2>3, <3>1, <3>2
  <2>6. /\ pc[w] = "saving" => rows'[w] = <<After("running", stage[w])>>
        /\ pc[w] = "finishing" => rows'[w] = <<After("completed", Stages)>>
        /\ pc[w] = "failing" => rows'[w] = <<After("failed", stage[w] - 1)>>
    BY <2>1, <2>4 DEF PlanAt, SoleAt
  <2> HIDE DEF NoCall, Reading, Complete, After
  <2>7. CASE pc[w] = "creating"
    <3>1. pc'[w] = "working" /\ stage'[w] = 1 /\ stage'[w] - 1 = 0
      BY <2>1, <2>2, <2>7, AfterCallSteps
    <3> QED
      BY <2>5, <2>7, <3>1 DEF SoleAt
  <2>8. CASE pc[w] = "saving" /\ stage[w] < Stages
    <3>1. pc'[w] = "working" /\ stage'[w] - 1 = stage[w]
      BY <1>6, <2>2, <2>8, AfterCallSteps
    <3> QED
      BY <2>6, <2>8, <3>1 DEF SoleAt
  <2>9. CASE pc[w] = "saving" /\ ~ (stage[w] < Stages)
    <3>1. /\ pc'[w] = "finishing" /\ stage[w] = Stages
          /\ call'[w]["workflow"] = Reading(Complete("completed"))
      BY <2>2, <2>9, AfterCallSteps
    <3> QED
      BY <2>6, <2>9, <3>1 DEF SoleAt, Updates
  <2>10. CASE pc[w] = "finishing"
    <3>1. pc'[w] = "done"
      BY <2>2, <2>10, AfterCallSteps
    <3> QED
      BY <2>6, <2>10, <3>1 DEF SoleAt
  <2>11. CASE pc[w] = "failing"
    <3>1. pc'[w] = "failed" /\ stage'[w] = stage[w]
      BY <2>2, <2>11, AfterCallSteps
    <3> QED
      BY <2>6, <2>11, <3>1 DEF SoleAt
  <2> QED
    BY <1>2, <2>1, <2>7, <2>8, <2>9, <2>10, <2>11
<1> QED
  BY <1>7, <1>8, <1>9, <1>10 DEF PlanAt

\* Nothing changes of a plan.
Stands(u) ==
    /\ pc'[u] = pc[u] /\ stage'[u] = stage[u] /\ proposal'[u] = proposal[u]
    /\ rows'[u] = rows[u] /\ call'[u] = call[u] /\ (u \in operated' <=> u \in operated)

\* What a workflow does, and what happens to its plan.
PlanStep(w) ==
    \/ Start(w) \/ StartFails(w) \/ WaitTimesOut(w)
    \/ \E ok \in BOOLEAN : StageEnds(w, ok) \/ Decide(w, ok)
    \/ \E e \in {Checkpoint(Note), Complete("aborted"), Complete("completed")} : OperatorCalls(w, e)
    \/ \E r \in Roles : Statement(w, r)

\* A step of one workflow, its gate or its planner calls leaves the others alone: a decision
\* wakes only the workflow whose proposal it is, and every statement has the plan's key.
LEMMA OthersStand ==
  ASSUME TypeOK, NEW w \in Workflows, NEW u \in Workflows \ {w}, PlanStep(w)
  PROVE  Stands(u)
<1>1. /\ pc \in [Workflows -> PC] /\ stage \in [Workflows -> 0 .. Stages]
      /\ proposal \in [Workflows -> Proposal] /\ rows \in [Workflows -> Seq(Record)]
      /\ call \in [Workflows -> [Roles -> Call]]
  BY DEF TypeOK
<1> HIDE DEF Record, Call, PC, Proposal
<1>2. CASE Start(w) \/ StartFails(w) \/ WaitTimesOut(w)
  BY <1>1, <1>2 DEF Start, StartFails, WaitTimesOut, Go, Asks, Stands
<1>3. ASSUME NEW ok \in BOOLEAN, StageEnds(w, ok) PROVE Stands(u)
  BY <1>1, <1>3 DEF StageEnds, Go, Asks, Stands
<1>4. ASSUME NEW ok \in BOOLEAN, Decide(w, ok) PROVE Stands(u)
  <2>1. pc'[u] = pc[u] /\ proposal'[u] = proposal[u] /\ UNCHANGED <<stage, rows, operated>>
    BY <1>1, <1>4 DEF Decide, Hears
  <2>2. call'[u] = [r \in Roles |-> call[u][r]]
    BY <1>4 DEF Decide, Hears
  <2>3. call'[u] = call[u]
    BY <1>1, <2>2
  <2> QED
    BY <2>1, <2>3 DEF Stands
<1>5. ASSUME NEW e, OperatorCalls(w, e) PROVE Stands(u)
  BY <1>1, <1>5 DEF OperatorCalls, Stands
<1>6. ASSUME NEW r \in Roles, ReadFinds(w, r) \/ Delete(w, r) PROVE Stands(u)
  BY <1>1, <1>6 DEF ReadFinds, Delete, Stands
<1>7. ASSUME NEW r \in Roles, ReadMisses(w, r) PROVE Stands(u)
  BY <1>1, <1>7 DEF ReadMisses, AfterThrow, Go, Asks, Returns, Stands
<1>8. ASSUME NEW r \in Roles, Insert(w, r) PROVE Stands(u)
  BY <1>1, <1>8 DEF Insert, AfterCall, EnterStage, Go, Asks, Returns, Stands
<1> QED
  BY <1>2, <1>3, <1>4, <1>5, <1>6, <1>7, <1>8 DEF PlanStep, Statement

\* A step of a workflow keeps what is said of its plan.
LEMMA PlanStepKeeps ==
  ASSUME TypeOK, TypeOK', NEW w \in Workflows, PlanAt(w), PlanStep(w)
  PROVE  PlanAt(w)'
BY StartPlan, StartFailsPlan, WaitTimesOutPlan, StageEndsPlan, DecidePlan, OperatorCallsPlan,
   ReadFindsPlan, ReadMissesPlan, DeletePlan, InsertPlan DEF PlanStep, Statement

\* What is said of every plan is an invariant.
LEMMA PlansInvariance == Spec => [](TypeOK /\ \A w \in Workflows : PlanAt(w))
<1> DEFINE Plans == \A w \in Workflows : PlanAt(w)
<1>1. Init => Plans
  <2>1. ASSUME Init, NEW w \in Workflows PROVE PlanAt(w)
    <3>1. /\ pc[w] = "idle" /\ stage[w] = 0 /\ proposal[w] = "none" /\ rows[w] = <<>>
          /\ \A r \in Roles : call[w][r] = NoCall
          /\ w \notin operated
      BY <2>1 DEF Init
    <3>2. "operator" \in Roles /\ "workflow" \in Roles /\ "verdict" \in Roles
      BY DEF Roles
    <3>3. TurnAt(w)
      BY <3>1, <3>2 DEF TurnAt
    <3>4. HonestAt(w)
      BY <3>1, CallSteps DEF HonestAt, CallFits
    <3> QED
      BY <3>1, <3>3, <3>4 DEF PlanAt, SurvivesAt, SoleAt
  <2> QED
    BY <2>1
<1>2. TypeOK /\ TypeOK' /\ Plans /\ [Next]_vars => Plans'
  <2>1. SUFFICES ASSUME TypeOK, TypeOK', Plans, [Next]_vars, NEW u \in Workflows
                 PROVE  PlanAt(u)'
    OBVIOUS
  <2>2. CASE UNCHANGED vars
    BY <2>1, <2>2, PlanStands DEF vars
  <2>3. CASE Next
    <3>1. PICK w \in Workflows : PlanStep(w)
      BY <2>3 DEF Next, PlanStep
    <3>2. CASE u = w
      <4>1. PlanAt(w)'
        BY <2>1, <3>1, PlanStepKeeps
      <4> QED
        BY <3>2, <4>1
    <3>3. CASE u # w
      <4>1. Stands(u)
        BY <2>1, <3>1, <3>3, OthersStand
      <4> QED
        BY <2>1, <4>1, PlanStands DEF Stands
    <3> QED
      BY <3>2, <3>3
  <2> QED
    BY <2>1, <2>2, <2>3
<1> HIDE DEF Plans
<1>3. Spec => []Plans
  BY <1>1, <1>2, TypeCorrect, PTL DEF Spec
<1> QED
  BY <1>3, TypeCorrect, PTL DEF Plans

\* The record of a plan never claims a decision that was not made or a stage that was not
\* reached, and a plan that exists has a row whenever no insert is outstanding, however many
\* workflows there are and in whatever order the statements of the three writers come
\* (logReasoningRun, handleConsensusResult).
THEOREM RecordStaysSound == Spec => []RecordIsSound
<1>1. TypeOK /\ (\A w \in Workflows : PlanAt(w)) => AuditIsHonest
  <2>1. ASSUME TypeOK, NEW w \in Workflows, PlanAt(w), NEW rec \in Records(w)
        PROVE  ClaimsFit(w, rec.accepted, rec.marks)
    <3>1. CASE rec \in Range(rows[w])
      <4>1. PICK i \in DOMAIN rows[w] : rec = rows[w][i]
        BY <3>1 DEF Range
      <4> QED
        BY <2>1, <4>1 DEF PlanAt, HonestAt
    <3>2. CASE rec \notin Range(rows[w])
      <4>1. PICK r \in Roles : call[w][r].step \in {"delete", "insert"} /\ rec = call[w][r].record
        BY <2>1, <3>2 DEF Records
      <4> QED
        BY <2>1, <4>1 DEF PlanAt, HonestAt, CallFits
    <3> QED
      BY <3>1, <3>2
  <2> QED
    BY <2>1 DEF AuditIsHonest, ClaimsFit
<1>2. (\A w \in Workflows : PlanAt(w)) => RecordSurvives
  BY DEF PlanAt, SurvivesAt, RecordSurvives
<1> QED
  BY <1>1, <1>2, PlansInvariance, PTL DEF RecordIsSound

\* A plan that only its workflow updates has exactly one row, with every stage done so far and
\* how the workflow ended, for any number of stages (checkpoint, complete).
THEOREM SoleWriterStaysExact == Spec => []SoleWriterIsExact
<1>1. (\A w \in Workflows : PlanAt(w)) => SoleWriterIsExact
  BY DEF PlanAt, SoleAt, SoleWriterIsExact, After
<1> QED
  BY <1>1, PlansInvariance, PTL
=============================================================================
