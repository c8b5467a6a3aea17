--------------------------- MODULE ValidationGate ---------------------------
(***************************************************************************)
(* The validation gate of a workflow: CodexSynapticSystem.executeTask      *)
(* (src/core/system.ts) creates a reasoning plan, waits for its consensus  *)
(* decision and records its progress through the ReasoningPlanner          *)
(* (src/reasoning/planner.ts), which keeps one record of the plan in the   *)
(* memory_entries table (src/memory/memory-system.ts).                     *)
(*                                                                         *)
(* Every update of the record is getLatest, delete, insert: three awaited  *)
(* database statements.  Up to three calls update the record of a plan at  *)
(* the same time, with no lock: the workflow's, handleConsensusResult's    *)
(* and an operator's.  A statement is one action; the code between two of  *)
(* them belongs to the action before it.  The ConsensusManager is only the *)
(* decision it announces, which module ConsensusManager describes.         *)
(***************************************************************************)
EXTENDS Integers, SequencesExt

CONSTANTS
    Workflows,  \* the executeTask calls, each with its own plan and proposal
    Gated,      \* those whose prompt requires consensus
    Operated,   \* those whose plan an operator updates once, from the CLI or the API
    Stages      \* how many stages a workflow has

ASSUME WorkflowsAssumption == Gated \subseteq Workflows /\ Operated \subseteq Workflows
ASSUME StagesAssumption == Stages \in Nat \ {0}

VARIABLES
    pc,        \* where executeTask is
    stage,     \* the stage it is in, or was in when it ended
    proposal,  \* what became of the plan's consensus proposal
    rows,      \* the rows with the plan's key, oldest first
    call,      \* the planner calls in progress, one of each role at most
    operated   \* plans whose operator has made the call

vars == <<pc, stage, proposal, rows, call, operated>>

PC == {"idle", "creating", "waiting", "approving", "working", "saving", "finishing",
       "blocking", "failing", "done", "blocked", "failed"}
Ended == {"done", "blocked", "failed"}
Proposal == {"none", "open", "accepted", "rejected"}

\* A checkpoint is known by its label: "consensus-approved", the number of a
\* stage, or an operator's.
Approved == 0
Note     == Stages + 1
Labels   == 0 .. Stages + 1

\* A ReasoningRunRecord; accepted is validation.consensusAccepted.
Record == [status : {"awaiting_approval", "running", "completed", "failed", "aborted"},
           accepted : {"unset", "yes", "no"},
           marks : SUBSET Labels]

\* What a call changes of the record it reads, the rest of it stays the "same".
Edit == [status : {"same", "running", "completed", "failed", "aborted"},
         accepted : {"same", "yes", "no"},
         mark : SUBSET Labels]

\* Mutated forms of Checkpoint, Verdict and Edited, each a plausible bug.
Verdict_AlwaysYes(accepted) == [status |-> "running", accepted |-> "yes", mark |-> {}]
Edited_Fresh(rec, e) ==
    [status   |-> IF e.status = "same" THEN rec.status ELSE e.status,
     accepted |-> IF e.accepted = "same" THEN rec.accepted ELSE e.accepted,
     marks    |-> e.mark]

Checkpoint(label) == [status |-> "same", accepted |-> "same", mark |-> {label}]
Complete(status)  == [status |-> status, accepted |-> "same", mark |-> {}]
Verdict(accepted) == [status   |-> IF accepted THEN "running" ELSE "aborted",
                      accepted |-> IF accepted THEN "yes" ELSE "no",
                      mark     |-> {}]

Edited(rec, e) ==
    [status   |-> IF e.status = "same" THEN rec.status ELSE e.status,
     accepted |-> IF e.accepted = "same" THEN rec.accepted ELSE e.accepted,
     marks    |-> rec.marks \cup e.mark]

NewRecord(w) == [status   |-> IF w \in Gated THEN "awaiting_approval" ELSE "running",
                 accepted |-> "unset", marks |-> {}]

\* A planner call: the statement it waits for, and what it will do with it.
Roles == {"workflow", "verdict", "operator"}
Call ==
    [step : {"idle"}] \cup [step : {"read"}, edit : Edit]
    \cup [step : {"delete", "insert"}, record : Record]

NoCall       == [step |-> "idle"]
Reading(e)   == [step |-> "read", edit |-> e]
Writing(rec) == [step |-> "delete", record |-> rec]

Known(w) == pc[w] \notin {"idle", "creating"}
Busy(w)  == \E r \in Roles : call[w][r] # NoCall
Latest(w) == Last(rows[w])

-----------------------------------------------------------------------------
(* Mutated forms, each a plausible bug of the definition it is named for.   *)

WaitTimesOut_Approved(w) ==
    /\ pc[w] = "waiting"
    /\ pc' = [pc EXCEPT ![w] = "approving"]
    /\ call' = [call EXCEPT ![w]["workflow"] = Reading(Checkpoint(Approved))]
    /\ UNCHANGED <<stage, proposal, rows, operated>>
WaitTimesOut_Undecided(w) ==
    /\ pc[w] = "waiting"
    /\ proposal[w] = "open"
    /\ pc' = [pc EXCEPT ![w] = "blocking"]
    /\ call' = [call EXCEPT ![w]["workflow"] = Reading(Complete("aborted"))]
    /\ UNCHANGED <<stage, proposal, rows, operated>>

-----------------------------------------------------------------------------
(* The workflow between its planner calls.                                  *)

\* executeTask moves on, and awaits a planner call or needs none.
Go(w, p) == pc' = [pc EXCEPT ![w] = p]
Asks(w, e) == call' = [call EXCEPT ![w]["workflow"] = Reading(e)]
Returns(w) == call' = [call EXCEPT ![w]["workflow"] = NoCall]

EnterStage(w, k) ==
    /\ Go(w, "working")
    /\ stage' = [stage EXCEPT ![w] = k]
    /\ Returns(w)

\* createPlan: the proposal is made first, the record written afterwards.
Start(w) ==
    /\ pc[w] = "idle"
    /\ Go(w, "creating")
    /\ proposal' = [proposal EXCEPT ![w] = IF w \in Gated THEN "open" ELSE "none"]
    /\ call' = [call EXCEPT ![w]["workflow"] = Writing(NewRecord(w))]
    /\ UNCHANGED <<stage, rows, operated>>

\* No consensus coordinator is registered: there is no plan and no work.
StartFails(w) ==
    /\ pc[w] = "idle"
    /\ w \in Gated
    /\ Go(w, "failed")
    /\ UNCHANGED <<stage, proposal, rows, call, operated>>

\* What executeTask does when its planner call has written the record.
AfterCall(w) ==
    \/ /\ pc[w] = "creating" /\ w \in Gated
       /\ Go(w, "waiting") /\ Returns(w) /\ UNCHANGED stage
    \/ /\ pc[w] = "creating" /\ w \notin Gated
       /\ EnterStage(w, 1)
    \/ /\ pc[w] = "approving"
       /\ EnterStage(w, 1)
    \/ /\ pc[w] = "saving" /\ stage[w] < Stages
       /\ EnterStage(w, stage[w] + 1)
    \/ /\ pc[w] = "saving" /\ stage[w] = Stages
       /\ Go(w, "finishing") /\ Asks(w, Complete("completed")) /\ UNCHANGED stage
    \/ /\ pc[w] \in {"finishing", "blocking", "failing"}
       /\ Go(w, CASE pc[w] = "finishing" -> "done" [] pc[w] = "blocking" -> "blocked"
                  [] pc[w] = "failing" -> "failed")
       /\ Returns(w) /\ UNCHANGED stage

\* The planner found no record and threw: only what runs inside the second try
\* block is recorded as a failure.
AfterThrow(w) ==
    \/ /\ pc[w] \in {"saving", "finishing"}
       /\ Go(w, "failing") /\ Asks(w, Complete("failed"))
    \/ /\ pc[w] \in {"approving", "blocking", "failing"}
       /\ Go(w, IF pc[w] = "blocking" THEN "blocked" ELSE "failed") /\ Returns(w)

\* The task of the stage succeeds, fails or times out (module TaskScheduler).
StageEnds(w, ok) ==
    /\ pc[w] = "working"
    /\ Go(w, IF ok THEN "saving" ELSE "failing")
    /\ Asks(w, IF ok THEN Checkpoint(stage[w]) ELSE Complete("failed"))
    /\ UNCHANGED <<stage, proposal, rows, operated>>

-----------------------------------------------------------------------------
(* The gate.                                                                *)

\* The handler of waitForConsensusDecision looks at the proposal's id.
Hears(u, w) == pc[u] = "waiting" /\ u = w

AfterWait(accepted) == IF accepted THEN "approving" ELSE "blocking"

\* consensusReached: handleConsensusResult starts, and the waiter, if it has
\* come that far, goes on.
Decide(w, accepted) ==
    /\ proposal[w] = "open"
    /\ proposal' = [proposal EXCEPT ![w] = IF accepted THEN "accepted" ELSE "rejected"]
    /\ pc' = [u \in Workflows |-> IF Hears(u, w) THEN AfterWait(accepted) ELSE pc[u]]
    /\ call' = [u \in Workflows |->
                   [r \in Roles |->
                       CASE r = "verdict" /\ u = w -> Reading(Verdict(accepted))
                         [] r = "workflow" /\ Hears(u, w) ->
                                Reading(IF accepted THEN Checkpoint(Approved)
                                        ELSE Complete("aborted"))
                         [] OTHER -> call[u][r]]]
    /\ UNCHANGED <<stage, rows, operated>>

\* The timer of waitForConsensusDecision, half as long as the proposal's own.
WaitTimesOut(w) ==
    /\ pc[w] = "waiting"
    /\ Go(w, "blocking")
    /\ Asks(w, Complete("aborted"))
    /\ UNCHANGED <<stage, proposal, rows, operated>>

-----------------------------------------------------------------------------
(* The planner calls.                                                       *)

\* An operator checkpoints or completes a plan listed in the history.
OperatorCalls(w, e) ==
    /\ w \in Operated \ operated
    /\ Known(w)
    /\ operated' = operated \cup {w}
    /\ call' = [call EXCEPT ![w]["operator"] = Reading(e)]
    /\ UNCHANGED <<pc, stage, proposal, rows>>

\* getLatest returns the newest row, and the call makes a new record of it ...
ReadFinds(w, r) ==
    /\ call[w][r].step = "read"
    /\ rows[w] # <<>>
    /\ call' = [call EXCEPT ![w][r] = Writing(Edited(Latest(w), call[w][r].edit))]
    /\ UNCHANGED <<pc, stage, proposal, rows, operated>>

\* ... or finds none: handleConsensusResult gives up, the others throw.
ReadMisses(w, r) ==
    /\ call[w][r].step = "read"
    /\ rows[w] = <<>>
    /\ IF r = "workflow" THEN AfterThrow(w)
       ELSE call' = [call EXCEPT ![w][r] = NoCall] /\ UNCHANGED pc
    /\ UNCHANGED <<stage, proposal, rows, operated>>

\* logReasoningRun first deletes every row with the key ...
Delete(w, r) ==
    /\ call[w][r].step = "delete"
    /\ rows' = [rows EXCEPT ![w] = <<>>]
    /\ call' = [call EXCEPT ![w][r].step = "insert"]
    /\ UNCHANGED <<pc, stage, proposal, operated>>

\* ... and then inserts its own, next to those inserted meanwhile.
Insert(w, r) ==
    /\ call[w][r].step = "insert"
    /\ rows' = [rows EXCEPT ![w] = Append(@, call[w][r].record)]
    /\ IF r = "workflow" THEN AfterCall(w)
       ELSE call' = [call EXCEPT ![w][r] = NoCall] /\ UNCHANGED <<pc, stage>>
    /\ UNCHANGED <<proposal, operated>>

-----------------------------------------------------------------------------
(* The specification.                                                       *)

Init ==
    /\ pc = [w \in Workflows |-> "idle"]
    /\ stage = [w \in Workflows |-> 0]
    /\ proposal = [w \in Workflows |-> "none"]
    /\ rows = [w \in Workflows |-> <<>>]
    /\ call = [w \in Workflows |-> [r \in Roles |-> NoCall]]
    /\ operated = {}

Statement(w, r) == ReadFinds(w, r) \/ ReadMisses(w, r) \/ Delete(w, r) \/ Insert(w, r)

Next ==
    \E w \in Workflows :
        \/ Start(w) \/ StartFails(w) \/ WaitTimesOut(w)
        \/ \E ok \in BOOLEAN : StageEnds(w, ok) \/ Decide(w, ok)
        \/ \E e \in {Checkpoint(Note), Complete("aborted"), Complete("completed")} :
               OperatorCalls(w, e)
        \/ \E r \in Roles : Statement(w, r)

\* SQLite answers every statement, timers fire, and tasks end (every task has a
\* timeout); nobody has to vote.
Fairness ==
    \A w \in Workflows :
        /\ \A r \in Roles : WF_vars(Statement(w, r))
        /\ WF_vars(WaitTimesOut(w))
        /\ WF_vars(\E ok \in BOOLEAN : StageEnds(w, ok))

Spec == Init /\ [][Next]_vars /\ Fairness

-----------------------------------------------------------------------------
(* Properties.                                                              *)

\* The variables keep their types.
TypeOK ==
    /\ pc \in [Workflows -> PC]
    /\ stage \in [Workflows -> 0 .. Stages]
    /\ proposal \in [Workflows -> Proposal]
    /\ rows \in [Workflows -> Seq(Record)]
    /\ call \in [Workflows -> [Roles -> Call]]
    /\ operated \subseteq Operated

\* No stage of a gated workflow runs unless its own proposal was accepted,
\* whatever was decided about others and however late (executeTask).
GateHolds ==
    \A w \in Gated :
        pc[w] \in {"approving", "working", "saving", "finishing", "done"} \/ stage[w] > 0
            => proposal[w] = "accepted"

\* The records of a plan and those about to be written.
Records(w) ==
    Range(rows[w]) \cup {call[w][r].record : r \in {q \in Roles : call[w][q].step \in {"delete", "insert"}}}

\* The record never claims a decision that was not made or a stage that was not
\* reached, whichever of the concurrent writers wrote it (the audit trail of
\* docs/runbooks/validation-gating.md).
AuditIsHonest ==
    \A w \in Workflows : \A rec \in Records(w) :
        /\ rec.accepted = "yes" \/ Approved \in rec.marks => proposal[w] = "accepted"
        /\ rec.accepted = "no" => proposal[w] = "rejected"
        /\ \A k \in rec.marks \ {Approved, Note} : k <= stage[w]

\* Between the delete and the insert of a call a plan has no row; but it is never
\* lost: once created it has one whenever no insert is outstanding (logReasoningRun).
RecordSurvives ==
    \A w \in Workflows :
        pc[w] # "idle" /\ (\A r \in Roles : call[w][r].step # "insert")
            => rows[w] # <<>> \/ pc[w] \in {"creating", "failed"}

\* The record of a plan neither lies nor gets lost, whichever of its three writers comes last.
RecordIsSound == AuditIsHonest /\ RecordSurvives

\* A plan that only its workflow updates has exactly one row, with every stage
\* done so far and how the workflow ended (checkpoint, complete).
SoleWriterIsExact ==
    \A w \in Workflows \ (Gated \cup Operated) :
        /\ pc[w] = "working" =>
               rows[w] = <<[status |-> "running", accepted |-> "unset", marks |-> 1 .. stage[w] - 1]>>
        /\ pc[w] = "done" =>
               rows[w] = <<[status |-> "completed", accepted |-> "unset", marks |-> 1 .. Stages]>>
        /\ pc[w] = "failed" =>
               rows[w] = <<[status |-> "failed", accepted |-> "unset", marks |-> 1 .. stage[w] - 1]>>

\* A workflow that has started ends, though nobody may ever vote (executeTask).
EveryWorkflowEnds == \A w \in Workflows : []<>(pc[w] \in Ended \cup {"idle"})

\* "Approval automatically records a `consensus-approved` checkpoint" and the
\* decision.  The code loses one of the two concurrent updates.
ApprovalIsFiled ==
    \A w \in Gated : pc[w] = "done" /\ ~Busy(w) =>
        Approved \in Latest(w).marks /\ Latest(w).accepted = "yes"

\* After the gate's timeout "the workflow aborts" and "an `aborted` completion
\* record is stored".  An approval that comes later makes it running again.
BlockedStaysAborted ==
    \A w \in Gated : pc[w] = "blocked" /\ ~Busy(w) => Latest(w).status = "aborted"
=============================================================================
