------------------------------- MODULE Clients -------------------------------
(***************************************************************************)
(* The clients of one session at work together: an attached viewer, an     *)
(* autonomous run with others editing its goal, an ACP connection, a REPL, *)
(* and `session prompt` and `session stop` from anyone.  They meet only in *)
(* the worker's lock, transcript, goal and events (module Turns).  A cast  *)
(* says who takes part.                                                    *)
(***************************************************************************)
EXTENDS Viewer, Autonomous, Acp, Repl

CONSTANTS
  Prompter,   \* runs of `session prompt`
  Casts       \* sets of parts: "viewer", "loop", "acp", "repl", "prompter", "stopper"

(* A session/close does not end a viewer's stream here, and other clients  *)
(* may revive what it stopped: a connection plays alone.                   *)
ASSUME CastsAssumption ==
  /\ Prompter \in Askers
  /\ \A c \in Casts : "acp" \in c => c = {"acp"}

VARIABLE cast

vars == <<turnVars, viewer, loop, line, conn, typed, repl, cast>>

TypeOK ==
  /\ TurnsTypeOK /\ ViewerTypeOK /\ LoopTypeOK /\ AcpTypeOK /\ ReplTypeOK
  /\ cast \in Casts

Init ==
  /\ cast \in Casts
  /\ TurnsInit /\ ViewerInit /\ LoopInit /\ AcpInit /\ ReplInit

NotViewer == UNCHANGED viewer
NotLoop == UNCHANGED loop
NotAcp == UNCHANGED <<line, conn>>
NotRepl == UNCHANGED <<typed, repl>>

Plays(part) == part \in cast /\ UNCHANGED cast

(* The worker goes on, or a client hears nothing from it.                  *)
WorkerMoves ==
  /\ WorkerStep
  /\ NotViewer /\ NotLoop /\ NotAcp /\ NotRepl /\ UNCHANGED cast

TimesOut(a) == GiveUp(a) /\ NotViewer /\ NotLoop /\ NotAcp /\ NotRepl /\ UNCHANGED cast

Refused(a) == Refuse(a) /\ NotViewer /\ NotLoop /\ NotAcp /\ NotRepl /\ UNCHANGED cast

Crashes == CrashWorker /\ CutOff /\ NotLoop /\ NotAcp /\ NotRepl /\ UNCHANGED cast

(* `session stop`.                                                         *)
Stopped == Plays("stopper") /\ StopWorker /\ CutOff /\ NotLoop /\ NotAcp /\ NotRepl

(* `session prompt` and every other one-shot prompt.                       *)
Prompts ==
  /\ Plays("prompter")
  /\ Sends(Prompter)
  /\ UNCHANGED <<worker, log, left, events, goal>>
  /\ NotViewer /\ NotLoop /\ NotAcp /\ NotRepl

Prompted ==
  /\ Plays("prompter")
  /\ Takes(Prompter, "ok") \/ Takes(Prompter, "error")
  /\ UNCHANGED <<worker, log, left, events, goal, spent>>
  /\ NotViewer /\ NotLoop /\ NotAcp /\ NotRepl

Views == Plays("viewer") /\ ViewerStep /\ NotLoop /\ NotAcp /\ NotRepl

Loops == Plays("loop") /\ LoopStep /\ NotViewer /\ NotAcp /\ NotRepl

Edits == Plays("loop") /\ EditGoal /\ NotViewer /\ NotAcp /\ NotRepl

Connection == (ReadLine \/ EndOfInput \/ Exit) /\ Plays("acp") /\ NotViewer /\ NotLoop /\ NotRepl

Handles(l) == Handle(l) /\ Plays("acp") /\ NotViewer /\ NotLoop /\ NotRepl

Types == Plays("repl") /\ ReplStep /\ NotViewer /\ NotLoop /\ NotAcp

Next ==
  \/ WorkerMoves \/ Crashes \/ Stopped
  \/ \E a \in Askers : TimesOut(a) \/ Refused(a)
  \/ Prompts \/ Prompted
  \/ Views
  \/ Loops \/ Edits
  \/ Connection
  \/ \E l \in Lines : Handles(l)
  \/ Types

Spec == Init /\ [][Next]_vars

(* Fair are the tasks of the ACP process and its requests' timeouts; not   *)
(* the worker, nor whoever types.                                          *)
Fairness ==
  /\ WF_vars(\E l \in Lines : Handles(l))
  /\ WF_vars(\E l \in Lines : TimesOut(l))

FairSpec == Spec /\ Fairness
=============================================================================
