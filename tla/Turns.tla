-------------------------------- MODULE Turns --------------------------------
(***************************************************************************)
(* One session as its clients see it: a worker that runs one turn at a     *)
(* time under the session lock, a transcript that grows by each turn's     *)
(* entries, events broadcast to whoever attached, a goal, and requests     *)
(* that wait for their answer only so long.  A client that stops waiting   *)
(* leaves its request behind: the worker runs it all the same.  Source:    *)
(* client.rs (dispatch_one_shot, send_prompt, read_response_with_timeout), *)
(* session.rs (prompt, append_entry, update_goal, mark_stopped) and the    *)
(* relays between them in daemon/mod.rs and worker/mod.rs.                 *)
(***************************************************************************)
EXTENDS Naturals, Sequences

CONSTANTS
  Askers,      \* the tasks of clients that send prompts
  Attacher,    \* the attach that may hold the session lock
  Abandoned,   \* a turn whose client no longer waits
  Nobody,
  Capacity,    \* EVENT_CHANNEL_CAPACITY
  MaxPrompts,  \* bound: prompts sent
  MaxFaults    \* bound: crashes and failed writes

ASSUME TurnsAssumption ==
  /\ Attacher \notin Askers /\ Abandoned \notin Askers /\ Nobody \notin Askers
  /\ Attacher # Abandoned /\ Nobody \notin {Attacher, Abandoned}
  /\ Capacity \in Nat \ {0} /\ MaxPrompts \in Nat /\ MaxFaults \in Nat

VARIABLES
  worker,   \* whether it runs, who holds the session lock, entries of the turn
  log,      \* number of transcript entries
  ask,      \* each asker's request
  left,     \* requests whose client gave up before their turn began
  events,   \* the attached stream: subscribed, unread events, overrun
  goal,     \* the goal's text, 0 for none, and whether it is active
  spent     \* prompts, faults; history: whether an event was lost

turnVars == <<worker, log, ask, left, events, goal, spent>>

NoStream == [on |-> FALSE, ring |-> <<>>, lagged |-> FALSE]

TurnsTypeOK ==
  /\ worker \in [up : BOOLEAN, holder : Askers \cup {Attacher, Abandoned, Nobody}, part : 0..2]
  /\ log \in Nat
  /\ ask \in [Askers -> {"idle", "waiting", "turn", "ok", "error"}]
  /\ left \in 0..MaxPrompts
  /\ events.ring \in Seq(Nat) /\ Len(events.ring) <= Capacity
  /\ goal \in [text : Nat, active : BOOLEAN]
  /\ spent \in [prompts : 0..MaxPrompts, faults : 0..MaxFaults, unseen : BOOLEAN]

TurnsInit ==
  /\ worker = [up |-> FALSE, holder |-> Nobody, part |-> 0]
  /\ log = 0
  /\ ask = [a \in Askers |-> "idle"]
  /\ left = 0
  /\ events = NoStream
  /\ goal = [text |-> 1, active |-> TRUE]
  /\ spent = [prompts |-> 0, faults |-> 0, unseen |-> FALSE]

-----------------------------------------------------------------------------
(* The client's half.                                                      *)

(* Conjoined by a client's step that sends a prompt, or takes its answer.  *)
Sends(a) ==
  /\ ask[a] = "idle"
  /\ spent.prompts < MaxPrompts
  /\ ask' = [ask EXCEPT ![a] = "waiting"]
  /\ spent' = [spent EXCEPT !.prompts = @ + 1]

Takes(a, answer) ==
  /\ ask[a] = answer
  /\ ask' = [ask EXCEPT ![a] = "idle"]

Bounded(a) == ask[a] \in {"waiting", "turn"}

(* PROMPT_RESPONSE_TIMEOUT: the request stays where it is.                 *)
GiveUp(a) ==
  /\ Bounded(a)
  /\ ask' = [ask EXCEPT ![a] = "error"]
  /\ IF ask[a] = "waiting"
       THEN left' = left + 1 /\ UNCHANGED worker
       ELSE worker' = [worker EXCEPT !.holder = Abandoned] /\ UNCHANGED left
  /\ UNCHANGED <<log, events, goal, spent>>

(* No supervisor, no worker to be had, or a relay that lost its peer.      *)
Refuse(a) ==
  /\ ask[a] = "waiting"
  /\ ask' = [ask EXCEPT ![a] = "error"]
  /\ UNCHANGED <<worker, log, left, events, goal, spent>>

-----------------------------------------------------------------------------
(* The worker's half.                                                      *)

LockIsFree == worker.holder = Nobody

InTurn == worker.holder \in Askers \cup {Abandoned}

(* resolve_worker revives the worker a prompt is for.                      *)
Begin(a) ==
  /\ ask[a] = "waiting"
  /\ LockIsFree
  /\ worker' = [up |-> TRUE, holder |-> a, part |-> 0]
  /\ ask' = [ask EXCEPT ![a] = "turn"]
  /\ UNCHANGED <<log, left, events, goal, spent>>

BeginAbandoned ==
  /\ left > 0
  /\ LockIsFree
  /\ worker' = [up |-> TRUE, holder |-> Abandoned, part |-> 0]
  /\ left' = left - 1
  /\ UNCHANGED <<log, ask, events, goal, spent>>

(* The channel keeps the newest Capacity events and tells who fell behind. *)
Published(n) ==
  IF ~events.on THEN events
  ELSE IF Len(events.ring) < Capacity
    THEN [events EXCEPT !.ring = Append(@, n)]
    ELSE [events EXCEPT !.ring = Append(Tail(@), n), !.lagged = TRUE]

(* append_entry: the line, the state, the event.                           *)
AppendEntry ==
  /\ InTurn
  /\ worker.part < 2
  /\ log' = log + 1
  /\ events' = Published(log + 1)
  /\ worker' = [worker EXCEPT !.part = @ + 1]
  /\ UNCHANGED <<ask, left, goal, spent>>

Ends(answer) ==
  /\ worker' = [worker EXCEPT !.holder = Nobody, !.part = 0]
  /\ ask' = IF worker.holder \in Askers
              THEN [ask EXCEPT ![worker.holder] = answer] ELSE ask

(* write_state fails after the line was appended: no event, and the turn   *)
(* ends with the error.                                                    *)
StateUnwritten ==
  /\ InTurn
  /\ worker.part < 2
  /\ spent.faults < MaxFaults
  /\ log' = log + 1
  /\ Ends("error")
  /\ spent' = [spent EXCEPT !.faults = @ + 1, !.unseen = TRUE]
  /\ UNCHANGED <<left, events, goal>>

EndTurn ==
  /\ InTurn
  /\ \/ worker.part = 2 /\ Ends("ok")
     \/ worker.part = 1 /\ Ends("error")    \* the provider failed
  /\ UNCHANGED <<log, left, events, goal, spent>>

(* update_goal, under the lock, in a worker revived for it.  A goal that   *)
(* is not there is neither paused, resumed nor completed.                  *)
UpdateGoal(updated) ==
  /\ LockIsFree
  /\ worker' = [worker EXCEPT !.up = TRUE]
  /\ goal' = updated
  /\ UNCHANGED <<log, ask, left, events, spent>>

Activated(g, on) == IF g.text = 0 THEN g ELSE [g EXCEPT !.active = on]

-----------------------------------------------------------------------------
(* Ends of the worker.  What the attached stream had not written is lost,  *)
(* from some event on; the viewer takes what was written.                  *)

Down ==
  /\ worker' = [up |-> FALSE, holder |-> Nobody, part |-> 0]
  /\ events' = NoStream
  /\ ask' = IF worker.holder \in Askers
              THEN [ask EXCEPT ![worker.holder] = "error"] ELSE ask
  /\ UNCHANGED <<log, left, goal>>

StopWorker ==
  /\ worker.up
  /\ LockIsFree
  /\ Down
  /\ UNCHANGED spent

CrashWorker ==
  /\ worker.up
  /\ spent.faults < MaxFaults
  /\ Down
  /\ spent' = [spent EXCEPT !.faults = @ + 1]

WorkerStep ==
  \/ \E a \in Askers : Begin(a)
  \/ BeginAbandoned
  \/ AppendEntry
  \/ StateUnwritten
  \/ EndTurn
=============================================================================
