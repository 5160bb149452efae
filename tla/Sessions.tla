------------------------------ MODULE Sessions ------------------------------
(***************************************************************************)
(* Requests on many sessions at once: the supervisor's connection tasks,   *)
(* its maintenance loop, spawn_lock, each worker's session lock, and the   *)
(* turns under that lock whose tool calls make requests of their own       *)
(* (rlm.run, rlm.delete_subagent, agent_message.send).  Source:            *)
(* daemon/mod.rs (the handlers), worker/mod.rs (handle_private_connection) *)
(* and session.rs (the prompt loop and the host requests).                 *)
(*                                                                         *)
(* One task stands for a connection to the supervisor and for the worker   *)
(* connection it relays to.  The fence always lets this supervisor in (it  *)
(* is modelled in Fence), and a worker that is started either serves or    *)
(* dies before wait_ready gives up.                                        *)
(***************************************************************************)
EXTENDS Integers, FiniteSets

CONSTANTS
  Sessions,     \* session ids
  First,        \* the session there is at first
  Tasks,        \* connection tasks of the supervisor
  Loop,         \* its maintenance task
  Client,       \* whoever is not a turn waiting for an answer
  Nobody,       \* no holder, no parent, no argument
  Requests,     \* what clients ask for
  HostCalls,    \* what turns ask for
  MaxDepth,     \* RLM_MAX_DEPTH
  MaxRounds,    \* MAX_TOOL_ROUNDS
  MaxRequests,  \* bound: requests of clients
  MaxCrashes    \* bound: worker crashes

ASSUME SessionsAssumption ==
  /\ First \in Sessions
  /\ Loop \notin Tasks
  /\ Client \notin Tasks \cup {Loop}
  /\ Nobody \notin Sessions \cup Tasks \cup {Loop, Client}
  /\ Requests \subseteq {"prompt", "edit", "interrupt", "stop", "new", "fork"}
  /\ HostCalls \subseteq {"rlm", "message", "delete", "heartbeat"}
  /\ {MaxDepth, MaxRounds, MaxRequests, MaxCrashes} \subseteq Nat

VARIABLES
  task,        \* what each task is doing
  spawnLock,   \* Supervisor::spawn_lock, its holder
  lock,        \* each worker's session lock, its holder
  file,        \* status in state.json; none: there is no such session
  proc,        \* the processes of each session
  tree,        \* parent_id and rlm_depth of each session
  cancel,      \* cancel_requested
  due,         \* sessions with a schedule that is due
  settled,     \* attributions of each child in its parent's transcript
  seen         \* history: requests, crashes, interrupts of this turn, forks

vars == <<task, spawnLock, lock, file, proc, tree, cancel, due, settled, seen>>

All == Tasks \cup {Loop}

Ops == {"prompt", "edit", "interrupt", "stop", "new", "fork", "attribute", "none"}

(* look: ensure_worker_running before spawn_lock; ready: wait_ready; lock: *)
(* in the worker, waiting for the session; begin: in a prompt, before the  *)
(* flag is cleared; round, model, await: in its turn;                      *)
(* marked: between mark_stopped and exit; done, refused, lost: answered,   *)
(* answered with an error, or the connection was dropped.                  *)
Stages == {"idle", "look", "spawnLock", "spawn", "ready", "connect", "lock", "begin",
           "round", "model", "await", "marked", "done", "refused", "lost"}

Idle == [op |-> "none", sess |-> Nobody, arg |-> Nobody, from |-> Client,
         rounds |-> 0, stage |-> "idle"]

TypeOK ==
  /\ task \in [All -> [op : Ops, sess : Sessions \cup {Nobody}, arg : Sessions \cup {Nobody},
                       from : All \cup {Client}, rounds : 0..MaxRounds, stage : Stages]]
  /\ spawnLock \in All \cup {Nobody}
  /\ lock \in [Sessions -> All \cup {Nobody}]
  /\ file \in [Sessions -> {"none", "Active", "Stopped"}]
  /\ proc \in [Sessions -> [starting : 0..2, up : BOOLEAN, alive : BOOLEAN]]
  /\ tree \in [Sessions -> [parent : Sessions \cup {Nobody}, depth : Nat, rlm : BOOLEAN]]
  /\ cancel \in [Sessions -> BOOLEAN]
  /\ due \subseteq Sessions
  /\ settled \in [Sessions -> Nat]
  /\ seen \in [requests : 0..MaxRequests, crashes : 0..MaxCrashes,
               asked : SUBSET Sessions, forked : SUBSET Sessions]
  /\ \A s \in Sessions : lock[s] # Nobody =>
       /\ task[lock[s]].sess = s
       /\ task[lock[s]].stage \in {"begin", "round", "model", "await"}

Init ==
  /\ task = [t \in All |-> Idle]
  /\ spawnLock = Nobody
  /\ lock = [s \in Sessions |-> Nobody]
  /\ file = [s \in Sessions |-> IF s = First THEN "Active" ELSE "none"]
  /\ proc = [s \in Sessions |-> [starting |-> 0, up |-> s = First, alive |-> s = First]]
  /\ tree = [s \in Sessions |-> [parent |-> Nobody, depth |-> 0, rlm |-> FALSE]]
  /\ cancel = [s \in Sessions |-> FALSE]
  /\ due = {}
  /\ settled = [s \in Sessions |-> 0]
  /\ seen = [requests |-> 0, crashes |-> 0, asked |-> {}, forked |-> {}]

-----------------------------------------------------------------------------
(* What the supervisor reads off the files.                                *)

Exists(s) == file[s] # "none"

(* is_worker_alive: by the recorded pid, whatever the status says.         *)
Alive(s) == proc[s].alive

(* effective_status: an Active session without its process is Crashed.     *)
IsActive(s) == file[s] = "Active" /\ Alive(s)

Children(s) == {c \in Sessions : Exists(c) /\ tree[c].parent = s}

(* new_session_id: an id no session has had and nobody is setting up.      *)
Fresh == {s \in Sessions : ~Exists(s) /\ \A t \in All : task[t].sess # s}

InWorker(t) == task[t].stage \in {"lock", "begin", "round", "model", "await", "marked"}

Answered(t) == task[t].stage \in {"done", "refused", "lost"}

IdleTasks == {t \in Tasks : task[t].stage = "idle"}

Spawned(s) == [proc EXCEPT ![s].starting = @ + 1]

(* The guard on spawn_lock is dropped at the end of its holder's scope.    *)
Released(t) == IF spawnLock = t THEN Nobody ELSE spawnLock

Go(t, stage) == task' = [task EXCEPT ![t].stage = stage]

Asks(u, op, s, arg, from, stage) ==
  [task EXCEPT ![u] = [op |-> op, sess |-> s, arg |-> arg, from |-> from, rounds |-> 0,
                       stage |-> stage]]

-----------------------------------------------------------------------------
(* Requests of clients.  A session that does not exist is an error and     *)
(* changes nothing.                                                        *)

Ask(op) ==
  /\ op \in Requests
  /\ seen.requests < MaxRequests
  /\ seen' = [seen EXCEPT !.requests = @ + 1]

(* dispatch_public: prompt, interrupt and every request with one session's *)
(* worker behind it (rename, compact, goal, harness, extension command,    *)
(* active leaf, branch summary) resolve the worker first.                  *)
Resolve ==
  \E u \in IdleTasks, s \in Sessions, op \in {"prompt", "edit", "interrupt"} :
    /\ Ask(op)
    /\ Exists(s)
    /\ task' = Asks(u, op, s, Nobody, Client, "look")
    /\ UNCHANGED <<spawnLock, lock, file, proc, tree, cancel, due, settled>>

(* handle_session_stop takes spawn_lock before it looks at the worker.     *)
Stop ==
  \E u \in IdleTasks, s \in Sessions :
    /\ Ask("stop")
    /\ Exists(s)
    /\ task' = Asks(u, "stop", s, Nobody, Client, "spawnLock")
    /\ UNCHANGED <<spawnLock, lock, file, proc, tree, cancel, due, settled>>

(* Mutant: new and fork spawn under spawn_lock, as every revival does.     *)
UnderSpawnLock == "spawnLock"

(* They do not take it: until their answer is sent nobody knows the id.    *)
SpawnsFrom == "spawn"

(* handle_session_new reads the parent's depth and spawns; the child's own *)
(* state.json is written by its worker.                                    *)
ChildDepth(parent) == IF parent = Nobody THEN 0 ELSE tree[parent].depth + 1

Admit(child, parent, byRlm) ==
  /\ tree' = [tree EXCEPT ![child] = [parent |-> parent, depth |-> ChildDepth(parent),
                                      rlm |-> byRlm]]
  /\ settled' = [settled EXCEPT ![child] = 0]

New ==
  \E u \in IdleTasks, c \in Fresh, parent \in Sessions \cup {Nobody} :
    /\ Ask("new")
    /\ parent # Nobody => Exists(parent)
    /\ Admit(c, parent, FALSE)
    /\ task' = Asks(u, "new", c, parent, Client, SpawnsFrom)
    /\ UNCHANGED <<spawnLock, lock, file, proc, cancel, due>>

(* handle_session_fork seeds state.json, with no pid, before it spawns.    *)
Fork ==
  \E u \in IdleTasks, c \in Fresh, s \in Sessions :
    /\ "fork" \in Requests
    /\ seen.requests < MaxRequests
    /\ Exists(s)
    /\ seen' = [seen EXCEPT !.requests = @ + 1, !.forked = @ \cup {c}]
    /\ Admit(c, Nobody, FALSE)
    /\ file' = [file EXCEPT ![c] = "Active"]
    /\ task' = Asks(u, "fork", c, s, Client, SpawnsFrom)
    /\ UNCHANGED <<spawnLock, lock, proc, cancel, due>>

-----------------------------------------------------------------------------
(* Reaching the worker.                                                    *)

(* The fast path of ensure_worker_running, outside spawn_lock.             *)
Look(t) ==
  /\ task[t].stage = "look"
  /\ Go(t, IF Alive(task[t].sess) THEN "connect" ELSE "spawnLock")
  /\ UNCHANGED <<spawnLock, lock, file, proc, tree, cancel, due, settled, seen>>

(* Mutant: what was read before spawn_lock was awaited is trusted.          *)
NeverAlive(t) == FALSE

FoundAlive(t) == Alive(task[t].sess)

(* Mutant: stop looks at the worker without taking spawn_lock.             *)
FreeToAll(t) == task[t].op = "stop" \/ spawnLock = Nobody

SpawnLockFree(t) == spawnLock = Nobody

(* Under the lock the state is read again: someone may have spawned it. A  *)
(* stop that finds no worker is done, others spawn one and wait for it.    *)
TakeSpawnLock(t) ==
  /\ task[t].stage = "spawnLock"
  /\ SpawnLockFree(t)
  /\ LET s == task[t].sess
     IN \/ /\ FoundAlive(t)
           /\ Go(t, "connect")
           /\ spawnLock' = IF task[t].op = "stop" THEN t ELSE spawnLock
           /\ UNCHANGED proc
        \/ /\ ~FoundAlive(t)
           /\ task[t].op = "stop"
           /\ Go(t, "done")
           /\ UNCHANGED <<spawnLock, proc>>
        \/ /\ ~FoundAlive(t)
           /\ task[t].op # "stop"
           /\ proc[s].starting < 2
           /\ Go(t, "ready")
           /\ spawnLock' = t
           /\ proc' = Spawned(s)
  /\ UNCHANGED <<lock, file, tree, cancel, due, settled, seen>>

(* worker::spawn of handle_session_new and handle_session_fork.            *)
SpawnNew(t) ==
  /\ task[t].stage = "spawn"
  /\ proc[task[t].sess].starting < 2
  /\ proc' = Spawned(task[t].sess)
  /\ Go(t, "ready")
  /\ UNCHANGED <<spawnLock, lock, file, tree, cancel, due, settled, seen>>

(* wait_ready: the socket answers, whichever process is behind it.         *)
Ready(t) ==
  /\ task[t].stage = "ready"
  /\ proc[task[t].sess].up
  /\ spawnLock' = Released(t)
  /\ Go(t, IF task[t].op \in {"new", "fork"} THEN "done" ELSE "connect")
  /\ UNCHANGED <<lock, file, proc, tree, cancel, due, settled, seen>>

(* Mutant: wait_ready has no timeout.                                      *)
ReadyOrNever(t) == FALSE

NeverReady(t) == ~proc[task[t].sess].up /\ proc[task[t].sess].starting = 0

(* Its timeout, once the process has died.                                 *)
ReadyTimesOut(t) ==
  /\ task[t].stage = "ready"
  /\ NeverReady(t)
  /\ spawnLock' = Released(t)
  /\ Go(t, "refused")
  /\ UNCHANGED <<lock, file, proc, tree, cancel, due, settled, seen>>

(* connect_worker; a stop acknowledges even if it cannot connect, and an   *)
(* interrupt sets the flag without the session lock.                       *)
Connect(t) ==
  /\ task[t].stage = "connect"
  /\ LET s == task[t].sess
     IN \/ /\ ~proc[s].up
           /\ Go(t, IF task[t].op = "stop" THEN "done" ELSE "lost")
           /\ spawnLock' = Released(t)
           /\ UNCHANGED <<cancel, seen>>
        \/ /\ proc[s].up
           /\ task[t].op = "interrupt"
           /\ cancel' = [cancel EXCEPT ![s] = TRUE]
           /\ seen' = IF lock[s] = Nobody THEN seen
                      ELSE [seen EXCEPT !.asked = @ \cup {s}]
           /\ Go(t, "done")
           /\ UNCHANGED spawnLock
        \/ /\ proc[s].up
           /\ task[t].op # "interrupt"
           /\ Go(t, "lock")
           /\ UNCHANGED <<spawnLock, cancel, seen>>
  /\ UNCHANGED <<lock, file, proc, tree, due, settled>>

-----------------------------------------------------------------------------
(* In the worker, under the session lock.                                  *)

Holds(t) == lock[task[t].sess] = t

Enter(t, op) ==
  /\ task[t].stage = "lock"
  /\ task[t].op = op
  /\ lock[task[t].sess] = Nobody

(* rename, compact_now, update_goal, set_active_leaf, ...: one hold.       *)
Edit(t) ==
  /\ Enter(t, "edit")
  /\ Go(t, "done")
  /\ UNCHANGED <<spawnLock, lock, file, proc, tree, cancel, due, settled, seen>>

(* Mutant: a poll that is repeated is counted again.                       *)
NeverSettled(c) == TRUE

Unsettled(c) == settled[c] = 0

(* attribute_child_usage scans its own transcript before it appends.       *)
Attribute(t) ==
  /\ Enter(t, "attribute")
  /\ LET c == task[t].arg
     IN settled' = IF Unsettled(c) /\ tree[c].parent = task[t].sess /\ tree[c].rlm
                   THEN [settled EXCEPT ![c] = @ + 1] ELSE settled
  /\ Go(t, "done")
  /\ UNCHANGED <<spawnLock, lock, file, proc, tree, cancel, due, seen>>

(* mark_stopped, and the lock is dropped; the process exits in a later     *)
(* step, after the acknowledgement.                                        *)
MarkStopped(t) ==
  /\ Enter(t, "stop")
  /\ file' = [file EXCEPT ![task[t].sess] = "Stopped"]
  /\ Go(t, "marked")
  /\ UNCHANGED <<spawnLock, lock, proc, tree, cancel, due, settled, seen>>

(* Mutant: the flag is left as the last turn found it.                     *)
FlagKept(s) == UNCHANGED cancel

FlagCleared(s) == cancel' = [cancel EXCEPT ![s] = FALSE]

(* prompt_with_images_and_request_id, from the session lock to the         *)
(* journal's record of the request.                                        *)
BeginTurn(t) ==
  /\ Enter(t, "prompt")
  /\ lock' = [lock EXCEPT ![task[t].sess] = t]
  /\ Go(t, "begin")
  /\ UNCHANGED <<spawnLock, file, proc, tree, cancel, due, settled, seen>>

(* prompt_with_images_inner, up to the user's entry.  An interrupt that    *)
(* came before this is lost, though the lock was held by then.             *)
ClearFlag(t) ==
  /\ task[t].stage = "begin"
  /\ FlagCleared(task[t].sess)
  /\ seen' = [seen EXCEPT !.asked = @ \ {task[t].sess}]
  /\ Go(t, "round")
  /\ UNCHANGED <<spawnLock, lock, file, proc, tree, due, settled>>

EndTurn(t, stage) ==
  /\ lock' = [lock EXCEPT ![task[t].sess] = Nobody]
  /\ Go(t, stage)

(* A round begins with a look at the flag; a turn out of rounds says so.   *)
Round(t) ==
  /\ task[t].stage = "round"
  /\ \/ /\ task[t].rounds = MaxRounds \/ cancel[task[t].sess]
        /\ EndTurn(t, "done")
     \/ /\ task[t].rounds < MaxRounds /\ ~cancel[task[t].sess]
        /\ task' = [task EXCEPT ![t].stage = "model", ![t].rounds = @ + 1]
        /\ UNCHANGED lock
  /\ UNCHANGED <<spawnLock, file, proc, tree, cancel, due, settled, seen>>

(* The provider's answer is text, or a tool call that stays in the worker. *)
Reply(t) ==
  /\ task[t].stage = "model"
  /\ \/ EndTurn(t, "done")
     \/ Go(t, "round") /\ UNCHANGED lock
  /\ UNCHANGED <<spawnLock, file, proc, tree, cancel, due, settled, seen>>

(* Or the journal, the provider, the kernel or a tool fails, and the turn  *)
(* with it.                                                                *)
Fail(t) ==
  /\ task[t].stage \in {"begin", "model"}
  /\ EndTurn(t, "lost")
  /\ UNCHANGED <<spawnLock, file, proc, tree, cancel, due, settled, seen>>

Calls(t, kind) == task[t].stage = "model" /\ kind \in HostCalls

HostTask(t, u, op, s, arg, stage) ==
  task' = [Asks(u, op, s, arg, t, stage) EXCEPT ![t].stage = "await"]

BelowMax(s) == tree[s].depth < MaxDepth

(* handle_rlm_run: SessionNew, by the depth the session itself holds.      *)
Rlm(t, u) ==
  LET s == task[t].sess
  IN /\ Calls(t, "rlm")
     /\ BelowMax(s)
     /\ \E c \in Fresh :
          /\ Admit(c, s, TRUE)
          /\ HostTask(t, u, "new", c, s, SpawnsFrom)
     /\ UNCHANGED <<spawnLock, lock, file, proc, cancel, due, seen>>

(* handle_agent_message_send: a SessionPrompt to the parent or to a child, *)
(* whose answer is awaited under this session's own lock.                  *)
Message(t, u) ==
  LET s == task[t].sess
  IN /\ Calls(t, "message")
     /\ \E r \in Children(s) \cup ({tree[s].parent} \ {Nobody}) :
          HostTask(t, u, "prompt", r, Nobody, "look")
     /\ UNCHANGED <<spawnLock, lock, file, proc, tree, cancel, due, settled, seen>>

(* handle_delete_subagent: a SessionStop of a direct child.                *)
Delete(t, u) ==
  /\ Calls(t, "delete")
  /\ \E c \in Children(task[t].sess) : HostTask(t, u, "stop", c, Nobody, "spawnLock")
  /\ UNCHANGED <<spawnLock, lock, file, proc, tree, cancel, due, settled, seen>>

(* trigger_heartbeat: a schedule for the session itself, due at once.      *)
Heartbeat(t) ==
  /\ Calls(t, "heartbeat")
  /\ due' = due \cup {task[t].sess}
  /\ Go(t, "round")
  /\ UNCHANGED <<spawnLock, lock, file, proc, tree, cancel, settled, seen>>

-----------------------------------------------------------------------------
(* Answers.                                                                *)

(* To a client, or to the loop, which only logs failures.                  *)
Answer(t) ==
  /\ Answered(t)
  /\ task[t].from = Client
  /\ task' = [task EXCEPT ![t] = Idle]
  /\ UNCHANGED <<spawnLock, lock, file, proc, tree, cancel, due, settled, seen>>

(* To a turn: an answer or an error is the result of its tool call, and a  *)
(* new child's task is scheduled; a dropped connection fails the turn.     *)
AnswerTurn(t) ==
  LET u == task[t].from
  IN /\ Answered(t)
     /\ u # Client
     /\ \/ /\ task[t].stage # "lost"
           /\ task' = [task EXCEPT ![t] = Idle, ![u].stage = "round"]
           /\ UNCHANGED lock
        \/ /\ task[t].stage = "lost"
           /\ task' = [task EXCEPT ![t] = Idle, ![u].stage = "lost"]
           /\ lock' = [lock EXCEPT ![task[u].sess] = Nobody]
     /\ due' = IF task[t].op = "new" /\ task[t].stage = "done"
               THEN due \cup {task[t].sess} ELSE due
     /\ UNCHANGED <<spawnLock, file, proc, tree, cancel, settled, seen>>

-----------------------------------------------------------------------------
(* The maintenance loop: due prompts, then the usage of children.          *)

FireDue(s) ==
  /\ task[Loop].stage = "idle"
  /\ s \in due
  /\ due' = due \ {s}
  /\ task' = Asks(Loop, "prompt", s, Nobody, Client, "look")
  /\ UNCHANGED <<spawnLock, lock, file, proc, tree, cancel, settled, seen>>

(* Mutant: only a child that was stopped is looked at, not a crashed one.  *)
StoppedOnly(c) == file[c] = "Stopped"

NotActive(c) == Exists(c) /\ ~IsActive(c)

(* attribute_pending_child_usage: a child that is not active, whose parent *)
(* is; the parent's worker is not revived for it.                          *)
Poll(c) ==
  LET p == tree[c].parent
  IN /\ task[Loop].stage = "idle"
     /\ NotActive(c)
     /\ p # Nobody
     /\ IsActive(p)
     /\ task' = Asks(Loop, "attribute", p, c, Client, "connect")
     /\ UNCHANGED <<spawnLock, lock, file, proc, tree, cancel, due, settled, seen>>

-----------------------------------------------------------------------------
(* Worker processes.                                                       *)

(* A process records its pid and binds the socket.  A second one records   *)
(* its pid too, and dies when it cannot bind (its retries are one step).   *)
Serve(s) ==
  /\ proc[s].starting > 0
  /\ proc[s].up => \A t \in All : ~(task[t].sess = s /\ task[t].stage = "marked")
  /\ file' = [file EXCEPT ![s] = "Active"]
  /\ proc' = [proc EXCEPT ![s] = [starting |-> @.starting - 1, up |-> TRUE, alive |-> ~@.up]]
  /\ cancel' = IF proc[s].up THEN cancel ELSE [cancel EXCEPT ![s] = FALSE]
  /\ UNCHANGED <<task, spawnLock, lock, tree, due, settled, seen>>

(* The connections of a worker that is gone: a stop acknowledges all the   *)
(* same, others are dropped; what its turn asked for goes on, unheard.     *)
Gone(s) ==
  LET cut == {t \in All : InWorker(t) /\ task[t].sess = s}
  IN /\ task' = [t \in All |->
          IF t \in cut
          THEN [task[t] EXCEPT !.stage = IF task[t].op = "stop" THEN "done" ELSE "lost"]
          ELSE IF task[t].from \in cut THEN [task[t] EXCEPT !.from = Client] ELSE task[t]]
     /\ lock' = [lock EXCEPT ![s] = Nobody]
     /\ spawnLock' = IF spawnLock \in cut THEN Nobody ELSE spawnLock
     /\ proc' = [proc EXCEPT ![s].up = FALSE, ![s].alive = FALSE]

Exit(t) ==
  /\ task[t].stage = "marked"
  /\ Gone(task[t].sess)
  /\ UNCHANGED <<file, tree, cancel, due, settled, seen>>

MayCrash == seen.crashes < MaxCrashes /\ seen' = [seen EXCEPT !.crashes = @ + 1]

WorkerCrash(s) ==
  /\ MayCrash
  /\ proc[s].up
  /\ Gone(s)
  /\ UNCHANGED <<file, tree, cancel, due, settled>>

StartCrash(s) ==
  /\ MayCrash
  /\ proc[s].starting > 0
  /\ proc' = [proc EXCEPT ![s].starting = @ - 1]
  /\ UNCHANGED <<task, spawnLock, lock, file, tree, cancel, due, settled>>

Requested == Resolve \/ Stop \/ New \/ Fork

Reaching(t) ==
  Look(t) \/ TakeSpawnLock(t) \/ SpawnNew(t) \/ Ready(t) \/ ReadyTimesOut(t) \/ Connect(t)

Working(t) ==
  \/ Edit(t) \/ Attribute(t) \/ MarkStopped(t) \/ Exit(t)
  \/ BeginTurn(t) \/ ClearFlag(t) \/ Round(t) \/ Reply(t)

HostCall(t) ==
  \/ \E u \in IdleTasks : Rlm(t, u) \/ Message(t, u) \/ Delete(t, u)
  \/ Heartbeat(t)

Next ==
  \/ Requested
  \/ \E t \in All : Reaching(t) \/ Working(t) \/ Fail(t) \/ HostCall(t)
                    \/ Answer(t) \/ AnswerTurn(t)
  \/ \E s \in Sessions : FireDue(s) \/ Poll(s) \/ Serve(s) \/ WorkerCrash(s) \/ StartCrash(s)

Spec == Init /\ [][Next]_vars

(* Tasks and processes are scheduled, a provider answers or fails, and the *)
(* loop comes to every due session and every child again and again.        *)
Fairness ==
  /\ \A t \in All : WF_vars(Reaching(t) \/ Working(t) \/ Answer(t) \/ AnswerTurn(t))
  /\ \A s \in Sessions : WF_vars(Serve(s)) /\ SF_vars(FireDue(s)) /\ SF_vars(Poll(s))

FairSpec == Spec /\ Fairness

-----------------------------------------------------------------------------
(* Properties.                                                             *)

Processes(s) == proc[s].starting + (IF proc[s].up THEN 1 ELSE 0)

(* spawn_lock and the second look under it keep every session to one       *)
(* worker process, over prompts, stops, crashes and the loop's revivals.   *)
(* A fork is the exception: its state.json is there before its worker.     *)
OneWorker == \A s \in Sessions \ seen.forked : Processes(s) <= 1

(* When a stop is acknowledged no worker of the session runs or starts: a  *)
(* revival that raced it was either seen and stopped, or comes after it.   *)
StopLeavesNoWorker ==
  [][\A t \in All :
       /\ task[t].op = "stop"
       /\ task[t].stage # "done"
       /\ task'[t].stage = "done"
       /\ task[t].sess \notin seen.forked
       => Processes(task[t].sess)' = 0]_vars

(* However often a child is polled, stopped and revived, its usage is in   *)
(* its parent's transcript at most once, and only a direct rlm child's.    *)
SettledOnce ==
  \A c \in Sessions : settled[c] <= 1 /\ (settled[c] = 1 => tree[c].rlm)

(* The flag a turn looks at was set during that turn, not before or for    *)
(* another session's, and one set since the turn's user entry is there     *)
(* until the turn ends.                                                    *)
FlagIsOfThisTurn ==
  \A s \in Sessions :
    lock[s] # Nobody /\ task[lock[s]].stage # "begin" => (cancel[s] <=> s \in seen.asked)

(* Who waits for whom: for a lock's holder, or for what a turn asked for.  *)
Waits(t, u) ==
  \/ task[t].stage = "spawnLock" /\ spawnLock = u
  \/ task[t].stage = "lock" /\ lock[task[t].sess] = u
  \/ task[t].stage = "await" /\ task[u].from = t

Deadlocked(S) == S # {} /\ \A t \in S : \E u \in S : Waits(t, u)

Asking(S) == {u \in S : task[u].from \in S}

(* The locks alone never deadlock: whoever waits in a circle, some turn    *)
(* among them is waiting for a prompt or a stop it asked for itself.       *)
OnlyCallsDeadlock ==
  \A S \in SUBSET All :
    Deadlocked(S) => \E u \in Asking(S) : task[u].op \in {"prompt", "stop"}

(* A message is delivered without waiting for the receiver's answer: no    *)
(* turns wait for each other.                                              *)
NoMutualWait == \A S \in SUBSET All : ~Deadlocked(S)

(* Every request is answered.                                              *)
RequestsAreAnswered ==
  \A t \in All : task[t].stage # "idle" ~> task[t].stage = "idle"

Owed(c) ==
  /\ tree[c].rlm /\ settled[c] = 0
  /\ Exists(c) /\ ~IsActive(c) /\ IsActive(tree[c].parent)

(* A child that stays stopped or crashed under a parent that stays active  *)
(* has its usage in the parent's transcript in the end.                    *)
UsageIsSettled == \A c \in Sessions : []<>~Owed(c)
=============================================================================
