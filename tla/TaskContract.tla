---------------------------- MODULE TaskContract ----------------------------
(***************************************************************************)
(* What the task path promises to the code that submits a task and waits   *)
(* for its result (executeTask and waitForTaskResult of src/core/system.ts):*)
(* a task is worked on at most once, its waiter is answered at most once,  *)
(* and a result is delivered only at the moment the work ends.  The waiter *)
(* may be turned away at any time, with the work not begun or going on.    *)
(***************************************************************************)
CONSTANT Tasks

VARIABLES
    work,   \* [Tasks -> {"unstarted", "going on", "over"}]
    answer  \* [Tasks -> {"none", "waiting", "resolved", "rejected"}]

vars == <<work, answer>>

Init == /\ work = [t \in Tasks |-> "unstarted"]
        /\ answer = [t \in Tasks |-> "none"]

Ask(t) == /\ answer[t] = "none"
          /\ answer' = [answer EXCEPT ![t] = "waiting"]
          /\ UNCHANGED work

Begin(t) == /\ work[t] = "unstarted"
            /\ answer[t] # "none"
            /\ work' = [work EXCEPT ![t] = "going on"]
            /\ UNCHANGED answer

\* The outcome reaches the waiter, unless it has been turned away.
End(t) == /\ work[t] = "going on"
          /\ work' = [work EXCEPT ![t] = "over"]
          /\ \/ UNCHANGED answer
             \/ /\ answer[t] = "waiting"
                /\ \E r \in {"resolved", "rejected"} : answer' = [answer EXCEPT ![t] = r]

TurnAway(S) == /\ \A t \in S : answer[t] = "waiting"
               /\ answer' = [t \in Tasks |-> IF t \in S THEN "rejected" ELSE answer[t]]
               /\ UNCHANGED work

Next == \/ \E t \in Tasks : Ask(t) \/ Begin(t) \/ End(t)
        \/ \E S \in SUBSET Tasks : TurnAway(S)

Spec == Init /\ [][Next]_vars
=============================================================================
