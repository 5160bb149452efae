------------------------------ MODULE Autonomous -----------------------------
(***************************************************************************)
(* `session autonomous`: a client that fetches the goal, runs the quality  *)
(* gate, looks at its budget and sends one more prompt toward the goal,    *)
(* over and over, while other clients edit the goal.  Source: client.rs    *)
(* (session_autonomous, run_quality_gate, fetch_goal, set_goal,            *)
(* goal_update), daemon/mod.rs (handle_goal_show reads state.json,         *)
(* handle_goal_update asks the worker).                                    *)
(***************************************************************************)
EXTENDS Turns

CONSTANTS
  Loop,       \* the autonomous client
  MaxTurns,   \* --max-turns
  MaxGoals    \* bound: texts a goal is set to

ASSUME LoopAssumption == Loop \in Askers /\ MaxTurns \in Nat /\ MaxGoals \in Nat \ {0}

VARIABLE loop   \* stage, turns used, the goal's text it goes by

loopVars == <<turnVars, loop>>

LoopTypeOK ==
  loop \in [stage : {"fetch", "gate", "complete", "budget", "send", "prompting", "done"},
            turns : 0..MaxTurns, text : 0..MaxGoals, fetched : BOOLEAN,
            stray : 0..MaxPrompts, swapped : BOOLEAN]

LoopInit ==
  loop = [stage |-> "fetch", turns |-> 0, text |-> 0, fetched |-> FALSE,
          stray |-> 0, swapped |-> FALSE]

LoopGoes(stage) == loop' = [loop EXCEPT !.stage = stage]

(* Mutant: the goal is fetched before the loop only.                       *)
FetchedOnce == loop.fetched \/ goal.active

StillActive == goal.active

(* goal show reads state.json beside the worker, also in a turn; without a *)
(* supervisor the run ends.                                                *)
Fetch ==
  /\ loop.stage = "fetch"
  /\ \/ /\ StillActive
        /\ loop' = [loop EXCEPT !.stage = "gate", !.text = goal.text, !.fetched = TRUE]
     \/ LoopGoes("done")
  /\ UNCHANGED turnVars

(* The gate's command exits zero, or not, or cannot be run.                *)
RunGate ==
  /\ loop.stage = "gate"
  /\ \E next \in {"complete", "budget", "done"} : LoopGoes(next)
  /\ UNCHANGED turnVars

(* GoalAction::Complete, for whatever goal is there by now.                *)
CompleteGoal ==
  /\ loop.stage = "complete"
  /\ \/ /\ UpdateGoal(Activated(goal, FALSE))
        /\ loop' = [loop EXCEPT !.stage = "done",
                                !.swapped = goal.text # 0 /\ goal.text # loop.text]
     \/ LoopGoes("done") /\ UNCHANGED turnVars     \* not answered

(* --max-time-ms may have run out at any turn.                             *)
CheckBudget ==
  /\ loop.stage = "budget"
  /\ \/ loop.turns < MaxTurns /\ LoopGoes("send")
     \/ LoopGoes("done")
  /\ UNCHANGED turnVars

SendContinue ==
  /\ loop.stage = "send"
  /\ Sends(Loop)
  /\ loop' = [loop EXCEPT !.stage = "prompting",
                          !.stray = IF goal.active THEN @ ELSE @ + 1]
  /\ UNCHANGED <<worker, log, left, events, goal>>

TurnDone ==
  /\ loop.stage = "prompting"
  /\ \/ Takes(Loop, "ok") /\ loop' = [loop EXCEPT !.stage = "fetch", !.turns = @ + 1]
     \/ Takes(Loop, "error") /\ LoopGoes("done")
  /\ UNCHANGED <<worker, log, left, events, goal, spent>>

(* Other clients: goal set, clear, pause, resume, complete.                *)
EditGoal ==
  /\ \E g \in {[text |-> n, active |-> TRUE] : n \in goal.text + 1..MaxGoals}
            \cup {[text |-> 0, active |-> FALSE], Activated(goal, TRUE), Activated(goal, FALSE)} :
       /\ g # goal
       /\ UpdateGoal(g)
       /\ loop' = IF g.active THEN [loop EXCEPT !.stray = 0] ELSE loop

LoopStep == Fetch \/ RunGate \/ CompleteGoal \/ CheckBudget \/ SendContinue \/ TurnDone

-----------------------------------------------------------------------------
(* Properties.                                                             *)

(* A goal paused, completed or cleared by another client stops the loop:   *)
(* at most one prompt, already past its fetch, still goes out, whatever    *)
(* turns, timeouts and edits lie in between.                               *)
StopsWithTheGoal == loop.stray <= 1

(* The gate completes the goal it was run for: does not hold, another      *)
(* client may have set a new one while the gate ran.                       *)
GateCompletesItsGoal == ~loop.swapped
=============================================================================
