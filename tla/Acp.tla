--------------------------------- MODULE Acp ---------------------------------
(***************************************************************************)
(* `harness acp`: the Agent Client Protocol on standard input and output.  *)
(* Lines are read one by one and each is handled by a task of its own, so  *)
(* that a cancel overtakes the prompt it cancels; at the end of the input  *)
(* the process waits for all of them.  The connection knows its sessions   *)
(* in a set that session/new adds to and session/close removes from.  One  *)
(* session is modelled.  Source: acp.rs.                                   *)
(***************************************************************************)
EXTENDS Turns

CONSTANTS
  Lines   \* the lines of input, in order: 1..n

ASSUME LinesAssumption == Lines \subseteq Nat /\ Lines \subseteq Askers

VARIABLES
  line,   \* each line's method and how far its task has come
  conn    \* initialized, input at its end, the session, process exited

acpVars == <<turnVars, line, conn>>

Methods == {"initialize", "new", "prompt", "close", "cancel"}

AcpTypeOK ==
  /\ line \in [Lines -> [method : Methods \cup {"none"},
                         stage : {"unread", "read", "dispatched", "answered"},
                         known : BOOLEAN]]
  /\ conn \in [initialized : BOOLEAN, eof : BOOLEAN, exited : BOOLEAN,
               exists : BOOLEAN, known : BOOLEAN, closed : BOOLEAN, kept : BOOLEAN]

AcpInit ==
  /\ line = [l \in Lines |-> [method |-> "none", stage |-> "unread", known |-> FALSE]]
  /\ conn = [initialized |-> FALSE, eof |-> FALSE, exited |-> FALSE,
             exists |-> FALSE, known |-> FALSE, closed |-> FALSE, kept |-> FALSE]

Running == ~conn.exited

(* The reader: a line becomes a task.  A second session is left out.       *)
ReadLine ==
  /\ Running /\ ~conn.eof
  /\ \E l \in Lines, m \in Methods :
       /\ line[l].stage = "unread"
       /\ \A k \in Lines : k < l => line[k].stage # "unread"
       /\ m = "new" => \A k \in Lines : line[k].method # "new"
       /\ line' = [line EXCEPT ![l] = [method |-> m, stage |-> "read", known |-> FALSE]]
  /\ UNCHANGED <<turnVars, conn>>

EndOfInput ==
  /\ ~conn.eof
  /\ conn' = [conn EXCEPT !.eof = TRUE]
  /\ UNCHANGED <<turnVars, line>>

(* Mutant: the process does not wait for its tasks.                        *)
NotAwaited == TRUE

HandlesAwaited == \A l \in Lines : line[l].stage \in {"unread", "answered"}

Exit ==
  /\ Running /\ conn.eof
  /\ HandlesAwaited
  /\ conn' = [conn EXCEPT !.exited = TRUE]
  /\ UNCHANGED <<turnVars, line>>

Answer(l) == line' = [line EXCEPT ![l].stage = "answered"]

At(l, method, stage) == Running /\ line[l].method = method /\ line[l].stage = stage

-----------------------------------------------------------------------------
(* The handlers.  Only initialize may go before the handshake is done;     *)
(* cancel has nothing to find then.                                        *)

TooEarly(l) ==
  /\ Running /\ line[l].stage = "read"
  /\ line[l].method \notin {"initialize", "cancel"}
  /\ ~conn.initialized
  /\ Answer(l)
  /\ UNCHANGED <<turnVars, conn>>

Initialize(l) ==
  /\ At(l, "initialize", "read")
  /\ conn' = [conn EXCEPT !.initialized = TRUE]
  /\ Answer(l)
  /\ UNCHANGED turnVars

(* SessionNew spawns the session's worker, or is answered with an error.   *)
New(l) ==
  /\ At(l, "new", "read")
  /\ conn.initialized
  /\ \/ /\ conn' = [conn EXCEPT !.exists = TRUE]
        /\ worker' = [worker EXCEPT !.up = TRUE]
        /\ line' = [line EXCEPT ![l].stage = "dispatched"]
     \/ Answer(l) /\ UNCHANGED <<conn, worker>>
  /\ UNCHANGED <<log, ask, left, events, goal, spent>>

NewKnown(l) ==
  /\ At(l, "new", "dispatched")
  /\ conn' = [conn EXCEPT !.known = TRUE]
  /\ Answer(l)
  /\ UNCHANGED turnVars

Prompt(l) ==
  /\ At(l, "prompt", "read")
  /\ conn.initialized
  /\ IF conn.known
       THEN /\ Sends(l)
            /\ line' = [line EXCEPT ![l].stage = "dispatched", ![l].known = TRUE]
       ELSE Answer(l) /\ UNCHANGED <<ask, spent>>
  /\ UNCHANGED <<worker, log, left, events, goal, conn>>

(* Two session/update lines and the result, or an error.                   *)
PromptDone(l) ==
  /\ At(l, "prompt", "dispatched")
  /\ Takes(l, "ok") \/ Takes(l, "error")
  /\ Answer(l)
  /\ UNCHANGED <<worker, log, left, events, goal, spent, conn>>

(* SessionStop waits for the turn in the worker; its failure is ignored.   *)
Close(l) ==
  /\ At(l, "close", "read")
  /\ conn.initialized
  /\ line' = [line EXCEPT ![l].stage = "dispatched"]
  /\ \/ StopWorker /\ UNCHANGED conn
     \/ ~worker.up /\ UNCHANGED <<turnVars, conn>>

CloseFails(l) ==
  /\ At(l, "close", "read")
  /\ conn.initialized
  /\ line' = [line EXCEPT ![l].stage = "dispatched"]
  /\ conn' = [conn EXCEPT !.kept = TRUE]
  /\ UNCHANGED turnVars

(* Mutant: the closed session stays in the set.                            *)
StillKnown == conn.known

Removed == FALSE

CloseDone(l) ==
  /\ At(l, "close", "dispatched")
  /\ conn' = [conn EXCEPT !.known = Removed, !.closed = @ \/ conn.known]
  /\ Answer(l)
  /\ UNCHANGED turnVars

(* An interrupt goes past the session lock; what it does to the turn is    *)
(* module Sessions'.  A cancel has no answer.                              *)
Cancel(l) ==
  /\ At(l, "cancel", "read")
  /\ Answer(l)
  /\ UNCHANGED <<turnVars, conn>>

Handle(l) ==
  \/ TooEarly(l) \/ Initialize(l) \/ New(l) \/ NewKnown(l)
  \/ Prompt(l) \/ PromptDone(l) \/ Close(l) \/ CloseFails(l) \/ CloseDone(l) \/ Cancel(l)

AcpStep == ReadLine \/ EndOfInput \/ Exit \/ \E l \in Lines : Handle(l)

-----------------------------------------------------------------------------
(* Properties.                                                             *)

(* A prompt let in before the close ran late, or is still to run.          *)
PromptInFlight == left > 0 \/ \E l \in Lines : ask[l] # "idle"

(* session/close frees the session's worker, and nothing sent through the  *)
(* connection afterwards revives it: unless the stop failed or a prompt    *)
(* was let in before the close, a closed session's worker stays down.      *)
ClosedStaysClosed ==
  [][(conn.closed /\ ~conn.kept /\ ~PromptInFlight /\ ~worker.up)
       => ~worker'.up /\ ~PromptInFlight']_acpVars

(* Every line that was read is answered (a cancel handled), also when the  *)
(* input ends first and whatever the worker does.                          *)
LinesAreAnswered ==
  \A l \in Lines : (line[l].stage = "read") ~> (line[l].stage = "answered")
=============================================================================
