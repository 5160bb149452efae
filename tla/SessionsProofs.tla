---------------------------- MODULE SessionsProofs ----------------------------
(* One worker per session, none after a stop, flags and settlements that   *)
(* belong where they are, and locks that never deadlock by themselves: for *)
(* any sessions, tasks, depth, rounds, requests and crashes.               *)
EXTENDS Sessions, TLAPS

(* Where a task may be, by what was asked of it.                           *)
StagesOf(op) ==
  CASE op = "prompt" -> Stages \ {"idle", "spawn", "marked"}
    [] op = "edit" -> {"look", "spawnLock", "ready", "connect", "lock", "done", "refused", "lost"}
    [] op = "interrupt" -> {"look", "spawnLock", "ready", "connect", "done", "refused", "lost"}
    [] op = "stop" -> {"spawnLock", "connect", "lock", "marked", "done"}
    [] op \in {"new", "fork"} -> {"spawn", "ready", "done", "refused"}
    [] op = "attribute" -> {"connect", "lock", "done", "lost"}
    [] OTHER -> {"idle"}

TurnStages == {"begin", "round", "model", "await"}

(* The inductive invariant, part by part.                                  *)

StageOK ==
  \A t \in All :
    /\ task[t].stage \in StagesOf(task[t].op)
    /\ task[t].op # "none" => task[t].sess \in Sessions

(* Whoever a turn asks is the only one it asked, for another session.      *)
CallsOK ==
  /\ \A t \in All : task[t].from # Client =>
       /\ task[task[t].from].stage = "await"
       /\ task[task[t].from].sess # task[t].sess
       /\ task[t].op \in {"prompt", "stop", "new"}
  /\ \A t, u \in All : task[t].from = task[u].from /\ task[t].from # Client => t = u

(* A parent was there before its child, and sessions with something due    *)
(* exist.                                                                  *)
FamilyOK ==
  /\ \A s \in Sessions : tree[s].parent # Nobody => tree[s].parent # s /\ Exists(tree[s].parent)
  /\ \A s \in due : Exists(s)

(* A turn holds its session's lock, in a worker that is up.                *)
TurnsOK ==
  \A t \in All :
    /\ task[t].stage \in TurnStages => lock[task[t].sess] = t
    /\ InWorker(t) => proc[task[t].sess].up

(* Until its worker first serves, a new session is its creator's alone.    *)
UnbornOK ==
  \A s \in Sessions : ~Exists(s) =>
    /\ s \notin seen.forked /\ ~proc[s].up /\ ~proc[s].alive
    /\ \A t \in All : task[t].sess = s =>
         /\ task[t].op = "new" /\ task[t].stage \in {"spawn", "ready", "refused"}
         /\ task[t].stage = "spawn" => proc[s].starting = 0
    /\ \A t, u \in All : task[t].sess = s /\ task[u].sess = s => t = u
    /\ proc[s].starting > 0 => \E t \in All : task[t].sess = s /\ task[t].stage = "ready"

(* Only creations start a worker outside spawn_lock, and of sessions that  *)
(* do not exist yet, but for forks.                                        *)
CreationOK ==
  \A t \in All :
    /\ task[t].op = "fork" => task[t].sess \in seen.forked
    /\ task[t].op = "new" /\ task[t].stage = "spawn" => ~Exists(task[t].sess)

(* spawn_lock is held by who waits for a worker it spawned or stops one.   *)
HolderOK ==
  /\ spawnLock # Nobody =>
       \/ task[spawnLock].stage = "ready" /\ task[spawnLock].op \notin {"new", "fork"}
       \/ task[spawnLock].stage \in {"connect", "lock", "marked"} /\ task[spawnLock].op = "stop"
  /\ \A t \in All : task[t].op = "stop" /\ task[t].stage \in {"connect", "lock", "marked"} =>
       spawnLock = t

(* Under spawn_lock one process of a session starts, if none is up.        *)
WorkersOK ==
  \A s \in Sessions \ seen.forked :
    /\ Processes(s) <= 1
    /\ proc[s].alive = proc[s].up
    /\ Exists(s) /\ proc[s].starting > 0 =>
         /\ spawnLock # Nobody
         /\ task[spawnLock].sess = s /\ task[spawnLock].stage = "ready"

SessionsInv ==
  /\ TypeOK /\ StageOK /\ CallsOK /\ FamilyOK /\ TurnsOK
  /\ UnbornOK /\ CreationOK /\ HolderOK /\ WorkersOK
  /\ SettledOnce /\ FlagIsOfThisTurn
-----------------------------------------------------------------------------
(* What the forms of update the actions use do, field by field.            *)

TaskType ==
  [op : Ops, sess : Sessions \cup {Nobody}, arg : Sessions \cup {Nobody},
   from : All \cup {Client}, rounds : 0..MaxRounds, stage : Stages]

SameButStage(r) ==
  /\ task'[r].op = task[r].op
  /\ task'[r].sess = task[r].sess
  /\ task'[r].arg = task[r].arg
  /\ task'[r].from = task[r].from

(* One task goes on, the others stay where they are.                       *)
Moves(t, stage) ==
  /\ task' \in [All -> TaskType]
  /\ \A r \in All : SameButStage(r)
  /\ \A r \in All : task'[r].stage = IF r = t THEN stage ELSE task[r].stage

LEMMA GoMoves ==
  ASSUME TypeOK, NEW t \in All, NEW stage \in Stages, Go(t, stage)
  PROVE  Moves(t, stage)
<1>1. task \in [All -> TaskType]
  BY DEF TypeOK, TaskType
<1>2. task' = [task EXCEPT ![t] = [task[t] EXCEPT !.stage = stage]]
  BY DEF Go
<1>3. [task[t] EXCEPT !.stage = stage] \in TaskType
  BY <1>1 DEF TaskType
<1> QED BY <1>1, <1>2, <1>3 DEF Moves, SameButStage, TaskType

(* An idle task becomes a request.                                         *)
IsRequest(u, op, s, arg, from, stage) ==
  /\ task' \in [All -> TaskType]
  /\ \A r \in All \ {u} : SameButStage(r)
  /\ task'[u].op = op /\ task'[u].sess = s /\ task'[u].arg = arg
  /\ task'[u].from = from /\ task'[u].stage = stage

LEMMA AsksRequests ==
  ASSUME TypeOK, NEW u \in All, NEW op \in Ops, NEW s \in Sessions,
         NEW arg \in Sessions \cup {Nobody}, NEW stage \in Stages,
         task' = Asks(u, op, s, arg, Client, stage)
  PROVE  /\ IsRequest(u, op, s, arg, Client, stage)
         /\ \A r \in All \ {u} : task'[r].stage = task[r].stage
BY SessionsAssumption DEF TypeOK, Asks, IsRequest, SameButStage, TaskType

LEMMA HostRequests ==
  ASSUME TypeOK, NEW t \in All, NEW u \in All, t # u, NEW op \in Ops, NEW s \in Sessions,
         NEW arg \in Sessions \cup {Nobody}, NEW stage \in Stages,
         HostTask(t, u, op, s, arg, stage)
  PROVE  /\ IsRequest(u, op, s, arg, t, stage)
         /\ \A r \in All \ {u} : task'[r].stage = IF r = t THEN "await" ELSE task[r].stage
<1> DEFINE asked == Asks(u, op, s, arg, t, stage)
<1>1. /\ asked \in [All -> TaskType]
      /\ asked = [task EXCEPT ![u] = asked[u]]
      /\ asked[u] = [op |-> op, sess |-> s, arg |-> arg, from |-> t, rounds |-> 0, stage |-> stage]
  BY SessionsAssumption DEF TypeOK, Asks, TaskType
<1>2. task' = [asked EXCEPT ![t].stage = "await"]
  BY DEF HostTask
<1> HIDE DEF asked
<1>3. task' \in [All -> TaskType]
  BY <1>1, <1>2 DEF TaskType, Stages
<1>4. task \in [All -> TaskType]
  BY DEF TypeOK, TaskType
<1> QED BY <1>1, <1>2, <1>3, <1>4 DEF IsRequest, SameButStage, TaskType

(* The process of a session is gone.                                       *)
Cut(s) == {t \in All : InWorker(t) /\ task[t].sess = s}

Ends(s) ==
  /\ task' \in [All -> TaskType]
  /\ \A r \in All :
       /\ task'[r].op = task[r].op /\ task'[r].sess = task[r].sess /\ task'[r].arg = task[r].arg
       /\ task'[r].from = IF r \notin Cut(s) /\ task[r].from \in Cut(s)
                          THEN Client ELSE task[r].from
       /\ task'[r].stage = IF r \in Cut(s) THEN IF task[r].op = "stop" THEN "done" ELSE "lost"
                           ELSE task[r].stage

LEMMA GoneEnds == ASSUME TypeOK, NEW s \in Sessions, Gone(s) PROVE Ends(s)
<1> DEFINE New1(t) == [task[t] EXCEPT !.stage = IF task[t].op = "stop" THEN "done" ELSE "lost"]
           New2(t) == [task[t] EXCEPT !.from = Client]
<1>1. task \in [All -> TaskType]
  BY DEF TypeOK, TaskType
<1>2. \A t \in All : New1(t) \in TaskType /\ New2(t) \in TaskType
  BY <1>1 DEF TaskType, Stages
<1>3. task' = [t \in All |-> IF t \in Cut(s) THEN New1(t)
                             ELSE IF task[t].from \in Cut(s) THEN New2(t) ELSE task[t]]
  BY DEF Gone, Cut
<1>4. \A t \in All :
        /\ New1(t).op = task[t].op /\ New1(t).sess = task[t].sess /\ New1(t).arg = task[t].arg
        /\ New1(t).from = task[t].from
        /\ New1(t).stage = IF task[t].op = "stop" THEN "done" ELSE "lost"
        /\ New2(t).op = task[t].op /\ New2(t).sess = task[t].sess /\ New2(t).arg = task[t].arg
        /\ New2(t).stage = task[t].stage /\ New2(t).from = Client
  BY <1>1 DEF TaskType
<1> HIDE DEF New1, New2
<1> QED BY <1>1, <1>2, <1>3, <1>4 DEF Ends

(* An answer ends its task, and moves the turn that asked.                 *)
Closes(t) ==
  /\ task' \in [All -> TaskType]
  /\ task'[t] = Idle
  /\ \A r \in All \ {t} : SameButStage(r)

LEMMA AnswerCloses ==
  ASSUME TypeOK, NEW t \in All, Answer(t)
  PROVE  Closes(t) /\ \A r \in All \ {t} : task'[r].stage = task[r].stage
BY SessionsAssumption DEF TypeOK, Answer, Closes, SameButStage, TaskType, Idle, Stages, Ops

LEMMA AnswerTurnCloses ==
  ASSUME TypeOK, NEW t \in All, AnswerTurn(t), task[t].from # t
  PROVE  /\ Closes(t)
         /\ \A r \in All \ {t} :
              task'[r].stage = IF r # task[t].from THEN task[r].stage
                               ELSE IF task[t].stage = "lost" THEN "lost" ELSE "round"
<1> DEFINE u == task[t].from
           stage == IF task[t].stage = "lost" THEN "lost" ELSE "round"
           idled == [task EXCEPT ![t] = Idle]
<1>1. u \in All /\ u # t
  BY DEF TypeOK, AnswerTurn
<1>2. idled \in [All -> TaskType] /\ idled[t] = Idle /\ \A r \in All \ {t} : idled[r] = task[r]
  BY SessionsAssumption DEF TypeOK, TaskType, Idle, Stages, Ops
<1>3. task' = [idled EXCEPT ![u].stage = stage]
  BY DEF AnswerTurn
<1>4. stage \in Stages
  BY DEF Stages
<1> HIDE DEF idled, stage
<1>5. /\ task' \in [All -> TaskType]
      /\ \A r \in All \ {u} : task'[r] = idled[r]
      /\ task'[u] = [idled[u] EXCEPT !.stage = stage]
  BY <1>1, <1>2, <1>3, <1>4 DEF TaskType
<1>6. /\ task'[u].op = task[u].op /\ task'[u].sess = task[u].sess
      /\ task'[u].arg = task[u].arg /\ task'[u].from = task[u].from
      /\ task'[u].stage = stage
  BY <1>1, <1>2, <1>5 DEF TaskType
<1> QED BY <1>1, <1>2, <1>5, <1>6 DEF Closes, SameButStage, stage
-----------------------------------------------------------------------------
(* What a task's going on preserves.                                       *)

LEMMA MovesCalls ==
  ASSUME SessionsInv, NEW t \in All, NEW stage \in Stages, Moves(t, stage), task[t].stage # "await"
  PROVE  CallsOK'
<1>1. \A r \in All : task[r].from # Client => task[r].from \in All /\ task[r].from # t
  BY DEF SessionsInv, TypeOK, CallsOK
<1>2. \A r \in All : task'[r].from # Client =>
        /\ task'[task'[r].from].stage = "await"
        /\ task'[task'[r].from].sess # task'[r].sess
        /\ task'[r].op \in {"prompt", "stop", "new"}
  BY <1>1 DEF SessionsInv, CallsOK, Moves, SameButStage
<1>3. \A r, u \in All : task'[r].from = task'[u].from /\ task'[r].from # Client => r = u
  BY DEF SessionsInv, CallsOK, Moves, SameButStage
<1> QED BY <1>2, <1>3 DEF CallsOK

(* A lock is held by a turn of its session.                                *)
LocksTyped ==
  /\ lock \in [Sessions -> All \cup {Nobody}]
  /\ \A s \in Sessions : lock[s] # Nobody =>
       /\ task[lock[s]].sess = s
       /\ task[lock[s]].stage \in TurnStages

LEMMA MovesLocks ==
  ASSUME SessionsInv, NEW t \in All, NEW stage \in Stages, Moves(t, stage), UNCHANGED lock,
         task[t].stage \in TurnStages => stage \in TurnStages
  PROVE  LocksTyped'
BY DEF SessionsInv, TypeOK, LocksTyped, TurnStages, Moves, SameButStage

SeenType ==
  [requests : 0..MaxRequests, crashes : 0..MaxCrashes,
   asked : SUBSET Sessions, forked : SUBSET Sessions]

LEMMA Typed ==
  ASSUME task' \in [All -> TaskType], LocksTyped', spawnLock' \in All \cup {Nobody},
         file' \in [Sessions -> {"none", "Active", "Stopped"}],
         proc' \in [Sessions -> [starting : 0..2, up : BOOLEAN, alive : BOOLEAN]],
         tree' \in [Sessions -> [parent : Sessions \cup {Nobody}, depth : Nat, rlm : BOOLEAN]],
         cancel' \in [Sessions -> BOOLEAN], due' \subseteq Sessions,
         settled' \in [Sessions -> Nat], seen' \in SeenType
  PROVE  TypeOK'
BY DEF TypeOK, TaskType, LocksTyped, TurnStages, SeenType

LEMMA SessionIsThere ==
  ASSUME SessionsInv, NEW t \in All, task[t].op # "none"
  PROVE  /\ task[t].sess \in Sessions
         /\ task[t].stage \notin {"spawn", "ready", "refused"} \/ task[t].op # "new" => Exists(task[t].sess)
BY DEF SessionsInv, StageOK, UnbornOK

LEMMA MovesUnborn ==
  ASSUME SessionsInv, NEW t \in All, NEW stage \in Stages, Moves(t, stage),
         Exists(task[t].sess), UNCHANGED <<file, proc>>, seen'.forked = seen.forked
  PROVE  UnbornOK'
BY DEF SessionsInv, UnbornOK, Moves, SameButStage, Exists

LEMMA MovesCreation ==
  ASSUME SessionsInv, NEW t \in All, NEW stage \in Stages, Moves(t, stage),
         stage # "spawn", \A s \in Sessions : Exists(s)' => Exists(s), seen'.forked = seen.forked
  PROVE  CreationOK'
<1>1. \A r \in All : task[r].op = "new" => task[r].sess \in Sessions
  BY DEF SessionsInv, StageOK
<1> QED BY <1>1 DEF SessionsInv, CreationOK, Moves, SameButStage, Exists

LEMMA MovesTurns ==
  ASSUME SessionsInv, NEW t \in All, NEW stage \in Stages, Moves(t, stage), UNCHANGED <<lock, proc>>,
         stage \in TurnStages => task[t].stage \in TurnStages,
         stage \in TurnStages \cup {"lock", "marked"} => InWorker(t)
  PROVE  TurnsOK'
BY DEF SessionsInv, TurnsOK, Moves, SameButStage, InWorker, TurnStages

LEMMA MovesHolder ==
  ASSUME SessionsInv, NEW t \in All, NEW stage \in Stages, Moves(t, stage), UNCHANGED spawnLock,
         spawnLock # t,
         task[t].op = "stop" => stage \notin {"connect", "lock", "marked"}
  PROVE  HolderOK'
BY DEF SessionsInv, HolderOK, TypeOK, Moves, SameButStage

LEMMA MovesWorkers ==
  ASSUME SessionsInv, NEW t \in All, NEW stage \in Stages, Moves(t, stage), UNCHANGED <<file, proc>>,
         seen'.forked = seen.forked,
         spawnLock # Nobody /\ task[spawnLock].stage = "ready" => spawnLock' = spawnLock /\ spawnLock # t
  PROVE  WorkersOK'
<1>1. spawnLock # Nobody => spawnLock \in All
  BY DEF SessionsInv, TypeOK
<1> QED BY <1>1 DEF SessionsInv, WorkersOK, Moves, SameButStage, Exists, Processes

LEMMA MovesFlag ==
  ASSUME SessionsInv, NEW t \in All, NEW stage \in Stages, Moves(t, stage),
         UNCHANGED <<lock, cancel, seen>>, task[t].stage # "begin"
  PROVE  FlagIsOfThisTurn'
BY SMTT(20) DEF SessionsInv, FlagIsOfThisTurn, TypeOK, Moves, SameButStage

LEMMA FamilyKept ==
  ASSUME SessionsInv, UNCHANGED <<file, tree>>, \A s \in due' : Exists(s)
  PROVE  FamilyOK'
BY DEF SessionsInv, FamilyOK, Exists

LEMMA NotHolding ==
  ASSUME SessionsInv, NEW t \in All,
         \/ task[t].stage \notin {"ready", "connect", "lock", "marked"}
         \/ task[t].stage = "ready" /\ task[t].op \in {"new", "fork"}
         \/ task[t].stage \notin {"ready"} /\ task[t].op # "stop"
  PROVE  spawnLock # t
BY SessionsAssumption DEF SessionsInv, HolderOK, All

-----------------------------------------------------------------------------
(* Each action preserves the invariant.                                    *)

(* A task goes on, and nothing else changes.                               *)
LEMMA OnlyMoves ==
  ASSUME SessionsInv, NEW t \in All, NEW stage \in Stages, Moves(t, stage),
         UNCHANGED <<spawnLock, lock, file, proc, tree, cancel, due, settled, seen>>,
         task[t].op # "none", stage \in StagesOf(task[t].op), Exists(task[t].sess),
         task[t].stage \notin {"await", "begin"}, stage # "spawn", spawnLock # t,
         stage \in TurnStages <=> task[t].stage \in TurnStages,
         stage \in TurnStages \cup {"lock", "marked"} => InWorker(t),
         task[t].op = "stop" => stage \notin {"connect", "lock", "marked"}
  PROVE  SessionsInv'
<1>1. TypeOK'
  BY MovesLocks, Typed DEF SessionsInv, TypeOK, Moves, SeenType
<1>2. StageOK'
  BY DEF SessionsInv, StageOK, Moves, SameButStage
<1>3. CallsOK'
  BY MovesCalls
<1>4. FamilyOK'
  BY FamilyKept DEF SessionsInv, FamilyOK
<1>5. TurnsOK'
  BY MovesTurns
<1>6. UnbornOK' /\ WorkersOK'
  BY MovesUnborn, MovesWorkers
<1>7. CreationOK' /\ HolderOK'
  BY MovesCreation, MovesHolder DEF Exists
<1>8. SettledOnce' /\ FlagIsOfThisTurn'
  BY MovesFlag DEF SessionsInv, SettledOnce
<1> QED BY <1>1, <1>2, <1>3, <1>4, <1>5, <1>6, <1>7, <1>8 DEF SessionsInv

LEMMA LookStep == ASSUME SessionsInv, NEW t \in All, Look(t) PROVE SessionsInv'
<1>1. PICK stage \in {"connect", "spawnLock"} : Go(t, stage)
  BY DEF Look
<1>2. task[t].stage = "look" /\ task[t].op \in {"prompt", "edit", "interrupt"}
  BY DEF Look, SessionsInv, StageOK, StagesOf
<1>3. Moves(t, stage) /\ stage \in Stages
  BY <1>1, GoMoves DEF SessionsInv, Stages
<1>4. stage \in StagesOf(task[t].op)
  BY <1>2 DEF StagesOf, Stages
<1>5. spawnLock # t /\ Exists(task[t].sess)
  BY <1>2, NotHolding, SessionIsThere
<1> QED BY <1>2, <1>3, <1>4, <1>5, OnlyMoves DEF Look, TurnStages

LEMMA EditStep == ASSUME SessionsInv, NEW t \in All, Edit(t) PROVE SessionsInv'
<1>1. task[t].stage = "lock" /\ task[t].op = "edit"
  BY DEF Edit, Enter
<1>2. Moves(t, "done") /\ "done" \in Stages
  BY GoMoves DEF Edit, SessionsInv, Stages
<1>3. spawnLock # t /\ Exists(task[t].sess)
  BY <1>1, NotHolding, SessionIsThere
<1> QED BY <1>1, <1>2, <1>3, OnlyMoves DEF Edit, TurnStages, StagesOf

LEMMA ConnectStep == ASSUME SessionsInv, NEW t \in All, Connect(t) PROVE SessionsInv'
<1> DEFINE s == task[t].sess
<1> USE DEF SessionsInv
<1>1. /\ task[t].stage = "connect" /\ s \in Sessions
      /\ task[t].op \in {"prompt", "edit", "interrupt", "stop", "attribute"}
  BY DEF Connect, StageOK, StagesOf
<1>2. PICK stage \in {"done", "lost", "lock"} :
        /\ Moves(t, stage)
        /\ stage = "lost" => task[t].op # "stop"
        /\ stage = "done" => task[t].op \in {"stop", "interrupt"}
        /\ stage = "lock" => task[t].op # "interrupt" /\ proc[s].up
        /\ spawnLock' = IF stage = "lock" THEN spawnLock ELSE Released(t)
  <2>1. ~proc[s].up \/ (proc[s].up /\ task[t].op = "interrupt") \/ (proc[s].up /\ task[t].op # "interrupt")
    OBVIOUS
  <2>2. task[t].op = "interrupt" => spawnLock # t
    BY <1>1, SessionsAssumption DEF HolderOK, All
  <2>3. {"done", "lost", "lock"} \subseteq Stages
    BY DEF Stages
  <2> QED BY <2>1, <2>2, <2>3, GoMoves DEF Connect, Released
<1>3. UNCHANGED <<lock, file, proc, tree, due, settled>>
  BY DEF Connect
<1>4. \/ UNCHANGED <<cancel, seen>>
      \/ /\ cancel' = [cancel EXCEPT ![s] = TRUE]
         /\ seen' = IF lock[s] = Nobody THEN seen ELSE [seen EXCEPT !.asked = @ \cup {s}]
  BY DEF Connect
<1>5. TypeOK'
  <2>1. task' \in [All -> TaskType] /\ spawnLock' \in All \cup {Nobody}
    BY <1>2 DEF Moves, TypeOK, Released
  <2>2. LocksTyped'
    BY <1>1, <1>2, <1>3, MovesLocks DEF TurnStages, Stages
  <2>3. cancel' \in [Sessions -> BOOLEAN]
    BY <1>4 DEF TypeOK
  <2>4. seen' \in [requests : 0..MaxRequests, crashes : 0..MaxCrashes,
                   asked : SUBSET Sessions, forked : SUBSET Sessions]
    BY <1>1, <1>4 DEF TypeOK
  <2> QED BY <1>3, <2>1, <2>2, <2>3, <2>4 DEF TypeOK, TaskType, LocksTyped, TurnStages
<1>6. StageOK'
  BY <1>1, <1>2 DEF StageOK, StagesOf, Moves, SameButStage, Stages
<1>7. CallsOK'
  BY <1>1, <1>2, MovesCalls DEF Stages
<1>8. FamilyOK'
  BY <1>3 DEF FamilyOK, Exists
<1>9. TurnsOK'
  BY <1>1, <1>2, <1>3 DEF TurnsOK, Moves, SameButStage, TurnStages, InWorker
<1>10. seen'.forked = seen.forked
  BY <1>4 DEF TypeOK
<1>11. UnbornOK'
  BY <1>1, <1>2, <1>3, <1>10 DEF UnbornOK, Moves, SameButStage, Exists
<1>12. CreationOK'
  BY <1>1, <1>2, <1>3, <1>10 DEF CreationOK, Moves, SameButStage, Exists
<1>13. HolderOK'
  BY <1>1, <1>2, SessionsAssumption DEF HolderOK, Moves, SameButStage, Released, TypeOK
<1>14. WorkersOK'
  <2>1. spawnLock # Nobody /\ task[spawnLock].stage = "ready" => spawnLock' = spawnLock /\ spawnLock # t
    BY <1>1, <1>2 DEF Released
  <2>2. spawnLock # Nobody => spawnLock \in All
    BY DEF TypeOK
  <2> QED BY <1>2, <1>3, <1>10, <2>1, <2>2 DEF WorkersOK, Moves, SameButStage, Exists, Processes
<1>15. SettledOnce'
  BY <1>3 DEF SettledOnce
<1>16. FlagIsOfThisTurn'
  BY <1>1, <1>2, <1>3, <1>4, SessionsAssumption DEF FlagIsOfThisTurn, TypeOK, Moves, SameButStage
<1> QED BY <1>5, <1>6, <1>7, <1>8, <1>9, <1>11, <1>12, <1>13, <1>14, <1>15, <1>16

(* Going on within a turn.                                                 *)
LEMMA RoundStep == ASSUME SessionsInv, NEW t \in All, Round(t), task[t].rounds < MaxRounds,
                          ~cancel[task[t].sess]
                   PROVE  task[t].rounds # MaxRounds /\ Moves(t, "model")
<1>1. task[t].rounds # MaxRounds
  BY SessionsAssumption DEF SessionsInv, TypeOK
<1>2. task' = [task EXCEPT ![t] = [task[t] EXCEPT !.stage = "model", !.rounds = @ + 1]]
  BY <1>1 DEF Round
<1>3. task \in [All -> TaskType]
  BY DEF SessionsInv, TypeOK, TaskType
<1>4. [task[t] EXCEPT !.stage = "model", !.rounds = @ + 1] \in TaskType
  <2>1. task[t].rounds + 1 \in 0..MaxRounds
    BY <1>3, SessionsAssumption DEF TaskType
  <2>2. "model" \in Stages
    BY DEF Stages
  <2> QED BY <1>3, <2>1, <2>2 DEF TaskType
<1> QED BY <1>1, <1>2, <1>3, <1>4 DEF Moves, SameButStage, TaskType

LEMMA EndTurnStep ==
  ASSUME SessionsInv, NEW t \in All, NEW stage \in {"done", "lost"}, EndTurn(t, stage),
         task[t].stage \in {"begin", "round", "model"},
         UNCHANGED <<spawnLock, file, proc, tree, cancel, due, settled, seen>>
  PROVE  SessionsInv'
<1> DEFINE s == task[t].sess
<1>1. stage \in Stages /\ task[t].op = "prompt" /\ s \in Sessions
  BY DEF SessionsInv, StageOK, StagesOf, Stages
<1>2. Moves(t, stage)
  BY <1>1, GoMoves DEF SessionsInv, EndTurn
<1>3. lock[s] = t /\ lock' = [lock EXCEPT ![s] = Nobody]
  BY DEF SessionsInv, TurnsOK, TurnStages, EndTurn
<1>4. spawnLock # t /\ Exists(s)
  BY <1>1, NotHolding, SessionIsThere
<1>5. TypeOK'
  <2>1. \A r \in Sessions : r # s => lock[r] # t
    BY <1>1, SessionsAssumption DEF SessionsInv, TypeOK, All
  <2>2. lock' \in [Sessions -> All \cup {Nobody}]
    BY <1>3 DEF SessionsInv, TypeOK
  <2>3. LocksTyped'
    BY <1>1, <1>2, <1>3, <2>1, <2>2
    DEF SessionsInv, TypeOK, LocksTyped, TurnStages, Moves, SameButStage
  <2> QED BY <1>2, <2>3, Typed DEF SessionsInv, TypeOK, Moves, SeenType
<1>6. StageOK'
  BY <1>1, <1>2 DEF SessionsInv, StageOK, StagesOf, Stages, Moves, SameButStage
<1>7. CallsOK'
  BY <1>1, <1>2, MovesCalls
<1>8. FamilyOK'
  BY FamilyKept DEF SessionsInv, FamilyOK
<1>9. TurnsOK'
  <2>1. \A r \in All : task[r].op # "none" => task[r].sess \in Sessions
    BY DEF SessionsInv, StageOK
  <2>2. \A r \in All : task[r].stage \in TurnStages => task[r].op # "none"
    BY DEF SessionsInv, StageOK, StagesOf, TurnStages
  <2>3. \A r \in All : r # t /\ task[r].stage \in TurnStages => task[r].sess # s
    BY <1>3 DEF SessionsInv, TurnsOK
  <2> QED BY SMTT(20), <1>1, <1>2, <1>3, <2>1, <2>2, <2>3
          DEF SessionsInv, TypeOK, TurnsOK, TurnStages, InWorker, Moves, SameButStage
<1>10. UnbornOK' /\ WorkersOK'
  BY <1>1, <1>2, <1>4, MovesUnborn, MovesWorkers
<1>11. CreationOK' /\ HolderOK'
  BY <1>1, <1>2, <1>4, MovesCreation, MovesHolder DEF Exists
<1>12. SettledOnce' /\ FlagIsOfThisTurn'
  BY SMTT(20), <1>1, <1>2, <1>3, SessionsAssumption
  DEF SessionsInv, TypeOK, SettledOnce, FlagIsOfThisTurn, Moves, SameButStage
<1> QED BY <1>5, <1>6, <1>7, <1>8, <1>9, <1>10, <1>11, <1>12 DEF SessionsInv

LEMMA TurnStep == ASSUME SessionsInv, NEW t \in All, Round(t) \/ Reply(t) \/ Fail(t) PROVE SessionsInv'
<1>1. /\ task[t].stage \in {"begin", "round", "model"}
      /\ task[t].op = "prompt"
  BY DEF Round, Reply, Fail, SessionsInv, StageOK, StagesOf
<1>2. CASE EndTurn(t, "done") \/ EndTurn(t, "lost")
  BY <1>1, <1>2, EndTurnStep DEF Round, Reply, Fail
<1>3. CASE ~EndTurn(t, "done") /\ ~EndTurn(t, "lost")
  <2>1. PICK stage \in {"round", "model"} : Moves(t, stage)
    <3>1. CASE Reply(t)
      BY <1>3, <3>1, GoMoves DEF Reply, SessionsInv, Stages
    <3>2. CASE Round(t)
      BY <1>3, <3>2, RoundStep DEF Round
    <3> QED BY <1>3, <3>1, <3>2 DEF Fail
  <2>2. spawnLock # t /\ Exists(task[t].sess)
    BY <1>1, NotHolding, SessionIsThere
  <2>3. UNCHANGED <<spawnLock, lock, file, proc, tree, cancel, due, settled, seen>>
    BY <1>3 DEF Round, Reply, Fail
  <2>4. task[t].stage # "begin"
    BY <1>3 DEF Round, Reply, Fail
  <2>5. stage \in Stages /\ stage \in StagesOf(task[t].op)
    BY <1>1 DEF Stages, StagesOf
  <2> QED BY <1>1, <2>1, <2>2, <2>3, <2>4, <2>5, OnlyMoves DEF TurnStages, InWorker
<1> QED BY <1>2, <1>3

LEMMA BeginTurnStep == ASSUME SessionsInv, NEW t \in All, BeginTurn(t) PROVE SessionsInv'
<1> DEFINE s == task[t].sess
<1>1. /\ task[t].stage = "lock" /\ task[t].op = "prompt" /\ lock[s] = Nobody
      /\ lock' = [lock EXCEPT ![s] = t]
      /\ UNCHANGED <<spawnLock, file, proc, tree, cancel, due, settled, seen>>
  BY DEF BeginTurn, Enter
<1>2. Moves(t, "begin") /\ "begin" \in Stages
  BY GoMoves DEF SessionsInv, BeginTurn, Stages
<1>3. spawnLock # t /\ s \in Sessions /\ Exists(s)
  BY <1>1, NotHolding, SessionIsThere
<1>4. TypeOK'
  <2>1. LocksTyped'
    BY <1>1, <1>2, <1>3 DEF SessionsInv, TypeOK, LocksTyped, TurnStages, Moves, SameButStage
  <2> QED BY <1>1, <1>2, <2>1, Typed DEF SessionsInv, TypeOK, Moves, SeenType
<1>5. StageOK'
  BY <1>1, <1>2 DEF SessionsInv, StageOK, StagesOf, Moves, SameButStage
<1>6. CallsOK'
  BY <1>1, <1>2, MovesCalls
<1>7. FamilyOK'
  BY <1>1, FamilyKept DEF SessionsInv, FamilyOK
<1>8. TurnsOK'
  <2>1. \A r \in All : task[r].stage \in TurnStages => task[r].sess # s
    BY <1>1, SessionsAssumption DEF SessionsInv, TurnsOK, All
  <2> QED BY <1>1, <1>2, <1>3, <2>1
          DEF SessionsInv, TypeOK, TurnsOK, TurnStages, InWorker, Moves, SameButStage
<1>9. UnbornOK' /\ WorkersOK'
  BY <1>1, <1>2, <1>3, MovesUnborn, MovesWorkers
<1>10. CreationOK' /\ HolderOK'
  BY <1>1, <1>2, <1>3, MovesCreation, MovesHolder DEF Exists
<1>11. SettledOnce' /\ FlagIsOfThisTurn'
  BY <1>1, <1>2, <1>3, SessionsAssumption
  DEF SessionsInv, TypeOK, SettledOnce, FlagIsOfThisTurn, Moves, SameButStage
<1> QED BY <1>4, <1>5, <1>6, <1>7, <1>8, <1>9, <1>10, <1>11 DEF SessionsInv

(* The flag is cleared, and with it what was asked of an earlier turn.     *)
LEMMA ClearFlagStep == ASSUME SessionsInv, NEW t \in All, ClearFlag(t) PROVE SessionsInv'
<1> DEFINE s == task[t].sess
<1>1. /\ task[t].stage = "begin"
      /\ cancel' = [cancel EXCEPT ![s] = FALSE]
      /\ seen' = [seen EXCEPT !.asked = @ \ {s}]
      /\ UNCHANGED <<spawnLock, lock, file, proc, tree, due, settled>>
  BY DEF ClearFlag, FlagCleared
<1>2. Moves(t, "round") /\ "round" \in Stages
  BY GoMoves DEF SessionsInv, ClearFlag, Stages
<1>3. task[t].op = "prompt"
  BY <1>1 DEF SessionsInv, StageOK, StagesOf
<1>4. spawnLock # t /\ s \in Sessions /\ Exists(s)
  BY <1>1, <1>3, NotHolding, SessionIsThere
<1>5. /\ seen' \in SeenType /\ seen'.forked = seen.forked
      /\ seen'.asked = seen.asked \ {s}
  BY <1>1 DEF SessionsInv, TypeOK, SeenType
<1>6. TypeOK'
  <2>1. LocksTyped'
    BY <1>1, <1>2, MovesLocks DEF TurnStages
  <2> QED BY <1>1, <1>2, <1>5, <2>1, Typed DEF SessionsInv, TypeOK, Moves
<1>7. StageOK'
  BY <1>2, <1>3 DEF SessionsInv, StageOK, StagesOf, Stages, Moves, SameButStage
<1>8. CallsOK'
  BY <1>1, <1>2, MovesCalls
<1>9. FamilyOK'
  BY <1>1, FamilyKept DEF SessionsInv, FamilyOK
<1>10. TurnsOK'
  BY <1>1, <1>2, MovesTurns DEF TurnStages, InWorker
<1>11. UnbornOK' /\ WorkersOK'
  BY <1>1, <1>2, <1>4, <1>5, MovesUnborn, MovesWorkers
<1>12. CreationOK' /\ HolderOK'
  BY <1>1, <1>2, <1>3, <1>4, <1>5, MovesCreation, MovesHolder DEF Exists
<1>13. SettledOnce' /\ FlagIsOfThisTurn'
  BY <1>1, <1>2, <1>4, <1>5
  DEF SessionsInv, TypeOK, SettledOnce, FlagIsOfThisTurn, Moves, SameButStage
<1> QED BY <1>6, <1>7, <1>8, <1>9, <1>10, <1>11, <1>12, <1>13 DEF SessionsInv

(* A stop marks the session, and its worker is about to exit.              *)
LEMMA MarkStoppedStep == ASSUME SessionsInv, NEW t \in All, MarkStopped(t) PROVE SessionsInv'
<1> DEFINE s == task[t].sess
<1>1. /\ task[t].stage = "lock" /\ task[t].op = "stop"
      /\ file' = [file EXCEPT ![s] = "Stopped"]
      /\ UNCHANGED <<spawnLock, lock, proc, tree, cancel, due, settled, seen>>
  BY DEF MarkStopped, Enter
<1>2. Moves(t, "marked") /\ "marked" \in Stages
  BY GoMoves DEF SessionsInv, MarkStopped, Stages
<1>3. s \in Sessions /\ Exists(s) /\ spawnLock = t
  BY <1>1, SessionIsThere DEF SessionsInv, HolderOK
<1>4. \A r \in Sessions : Exists(r)' <=> Exists(r)
  BY <1>1, <1>3 DEF SessionsInv, TypeOK, Exists
<1>5. TypeOK'
  <2>1. LocksTyped'
    BY <1>1, <1>2, MovesLocks DEF TurnStages
  <2> QED BY <1>1, <1>2, <2>1, Typed DEF SessionsInv, TypeOK, Moves, SeenType
<1>6. StageOK'
  BY <1>1, <1>2 DEF SessionsInv, StageOK, StagesOf, Moves, SameButStage
<1>7. CallsOK'
  BY <1>1, <1>2, MovesCalls
<1>8. FamilyOK'
  BY <1>1, <1>4, SessionsAssumption DEF SessionsInv, TypeOK, FamilyOK
<1>9. TurnsOK'
  BY <1>1, <1>2, MovesTurns DEF TurnStages, InWorker
<1>10. UnbornOK'
  BY <1>1, <1>2, <1>3, <1>4 DEF SessionsInv, UnbornOK, Moves, SameButStage
<1>11. CreationOK'
  BY <1>1, <1>2, <1>4, MovesCreation
<1>12. HolderOK'
  BY <1>1, <1>2, <1>3 DEF SessionsInv, HolderOK, Moves, SameButStage
<1>13. WorkersOK'
  BY <1>1, <1>2, <1>3, <1>4 DEF SessionsInv, WorkersOK, Moves, SameButStage, Processes
<1>14. SettledOnce' /\ FlagIsOfThisTurn'
  BY <1>1, <1>2, MovesFlag DEF SessionsInv, SettledOnce
<1> QED BY <1>5, <1>6, <1>7, <1>8, <1>9, <1>10, <1>11, <1>12, <1>13, <1>14 DEF SessionsInv

(* A child's usage is added once, by its parent.                           *)
LEMMA AttributeStep == ASSUME SessionsInv, NEW t \in All, Attribute(t) PROVE SessionsInv'
<1> DEFINE c == task[t].arg
<1>1. /\ task[t].stage = "lock" /\ task[t].op = "attribute"
      /\ settled' = IF settled[c] = 0 /\ tree[c].parent = task[t].sess /\ tree[c].rlm
                    THEN [settled EXCEPT ![c] = @ + 1] ELSE settled
      /\ UNCHANGED <<spawnLock, lock, file, proc, tree, cancel, due, seen>>
  BY DEF Attribute, Enter, Unsettled
<1>2. Moves(t, "done") /\ "done" \in Stages
  BY GoMoves DEF SessionsInv, Attribute, Stages
<1>3. spawnLock # t /\ Exists(task[t].sess)
  BY <1>1, NotHolding, SessionIsThere
<1>4. settled' \in [Sessions -> Nat] /\ SettledOnce'
  <2>1. settled \in [Sessions -> Nat]
    BY DEF SessionsInv, TypeOK
  <2>2. CASE UNCHANGED settled
    BY <1>1, <2>1, <2>2 DEF SessionsInv, SettledOnce
  <2>3. CASE settled[c] = 0 /\ tree[c].rlm /\ settled' = [settled EXCEPT ![c] = settled[c] + 1]
    <3>1. settled' = [settled EXCEPT ![c] = 1]
      BY <2>3
    <3>2. settled' \in [Sessions -> Nat]
      BY <2>1, <3>1
    <3>3. \A r \in Sessions : settled'[r] = IF r = c THEN 1 ELSE settled[r]
      BY <2>1, <3>1
    <3> QED BY <1>1, <2>3, <3>2, <3>3 DEF SessionsInv, SettledOnce
  <2> QED BY <1>1, <2>2, <2>3
<1>5. TypeOK'
  <2>1. LocksTyped'
    BY <1>1, <1>2, MovesLocks DEF TurnStages
  <2> QED BY <1>1, <1>2, <1>4, <2>1, Typed DEF SessionsInv, TypeOK, Moves, SeenType
<1>6. StageOK'
  BY <1>1, <1>2 DEF SessionsInv, StageOK, StagesOf, Moves, SameButStage
<1>7. CallsOK'
  BY <1>1, <1>2, MovesCalls
<1>8. FamilyOK'
  BY <1>1, FamilyKept DEF SessionsInv, FamilyOK
<1>9. TurnsOK'
  BY <1>1, <1>2, MovesTurns DEF TurnStages, InWorker
<1>10. UnbornOK' /\ WorkersOK'
  BY <1>1, <1>2, <1>3, MovesUnborn, MovesWorkers
<1>11. CreationOK' /\ HolderOK'
  BY <1>1, <1>2, <1>3, MovesCreation, MovesHolder DEF Exists
<1>12. FlagIsOfThisTurn'
  BY <1>1, <1>2, MovesFlag
<1> QED BY <1>4, <1>5, <1>6, <1>7, <1>8, <1>9, <1>10, <1>11, <1>12 DEF SessionsInv

LEMMA HeartbeatStep == ASSUME SessionsInv, NEW t \in All, Heartbeat(t) PROVE SessionsInv'
<1> DEFINE s == task[t].sess
<1>1. /\ task[t].stage = "model"
      /\ due' = due \cup {s}
      /\ UNCHANGED <<spawnLock, lock, file, proc, tree, cancel, settled, seen>>
  BY DEF Heartbeat, Calls
<1>2. Moves(t, "round") /\ "round" \in Stages
  BY GoMoves DEF SessionsInv, Heartbeat, Stages
<1>3. task[t].op = "prompt"
  BY <1>1 DEF SessionsInv, StageOK, StagesOf
<1>4. spawnLock # t /\ s \in Sessions /\ Exists(s)
  BY <1>1, <1>3, NotHolding, SessionIsThere
<1>5. TypeOK'
  <2>1. LocksTyped'
    BY <1>1, <1>2, MovesLocks DEF TurnStages
  <2> QED BY <1>1, <1>2, <1>4, <2>1, Typed DEF SessionsInv, TypeOK, Moves, SeenType
<1>6. StageOK'
  BY <1>2, <1>3 DEF SessionsInv, StageOK, StagesOf, Stages, Moves, SameButStage
<1>7. CallsOK'
  BY <1>1, <1>2, MovesCalls
<1>8. FamilyOK'
  BY <1>1, <1>4, FamilyKept DEF SessionsInv, FamilyOK
<1>9. TurnsOK'
  BY <1>1, <1>2, MovesTurns DEF TurnStages, InWorker
<1>10. UnbornOK' /\ WorkersOK'
  BY <1>1, <1>2, <1>4, MovesUnborn, MovesWorkers
<1>11. CreationOK' /\ HolderOK'
  BY <1>1, <1>2, <1>3, <1>4, MovesCreation, MovesHolder DEF Exists
<1>12. SettledOnce' /\ FlagIsOfThisTurn'
  BY <1>1, <1>2, MovesFlag DEF SessionsInv, SettledOnce
<1> QED BY <1>5, <1>6, <1>7, <1>8, <1>9, <1>10, <1>11, <1>12 DEF SessionsInv

-----------------------------------------------------------------------------
(* Spawning.                                                               *)

(* Whoever takes spawn_lock finds no process of a session starting.        *)
LEMMA NoneStarting ==
  ASSUME SessionsInv, NEW s \in Sessions, Exists(s), s \notin seen.forked,
         spawnLock = Nobody \/ task[spawnLock].stage # "ready"
  PROVE  proc[s].starting = 0
BY DEF SessionsInv, TypeOK, WorkersOK

LEMMA TakeSpawnLockStep == ASSUME SessionsInv, NEW t \in All, TakeSpawnLock(t) PROVE SessionsInv'
<1> DEFINE s == task[t].sess
<1>1. /\ task[t].stage = "spawnLock" /\ spawnLock = Nobody
      /\ task[t].op \in {"prompt", "edit", "interrupt", "stop"}
      /\ UNCHANGED <<lock, file, tree, cancel, due, settled, seen>>
  BY DEF TakeSpawnLock, SpawnLockFree, SessionsInv, StageOK, StagesOf
<1>2. s \in Sessions /\ Exists(s) /\ spawnLock # t
  BY <1>1, SessionIsThere, NotHolding
<1>3. CASE UNCHANGED spawnLock
  <2>1. PICK stage \in {"connect", "done"} :
          /\ Go(t, stage) /\ UNCHANGED proc
          /\ task[t].op = "stop" => stage = "done"
          /\ stage = "done" => task[t].op = "stop"
    BY <1>1, <1>2, <1>3 DEF TakeSpawnLock, FoundAlive
  <2>2. Moves(t, stage) /\ stage \in Stages
    BY <2>1, GoMoves DEF SessionsInv, Stages
  <2>3. stage \in StagesOf(task[t].op)
    BY <1>1, <2>1 DEF StagesOf, Stages
  <2> QED BY <1>1, <1>2, <1>3, <2>1, <2>2, <2>3, OnlyMoves DEF TurnStages
<1>4. CASE spawnLock' = t
  <2>1. PICK stage \in {"connect", "ready"} :
          /\ Go(t, stage)
          /\ stage = "connect" => task[t].op = "stop" /\ UNCHANGED proc
          /\ stage = "ready" => /\ task[t].op # "stop" /\ ~proc[s].alive
                                /\ proc[s].starting < 2 /\ proc' = Spawned(s)
    BY <1>1, <1>2, <1>4 DEF TakeSpawnLock, FoundAlive, Alive
  <2>2. Moves(t, stage) /\ stage \in Stages
    BY <2>1, GoMoves DEF SessionsInv, Stages
  <2>3. /\ proc' \in [Sessions -> [starting : 0..2, up : BOOLEAN, alive : BOOLEAN]]
        /\ \A r \in Sessions : proc'[r].up = proc[r].up /\ proc'[r].alive = proc[r].alive
        /\ \A r \in Sessions : proc'[r].starting =
             IF r = s /\ stage = "ready" THEN proc[r].starting + 1 ELSE proc[r].starting
    <3>1. CASE stage = "connect"
      BY <2>1, <3>1 DEF SessionsInv, TypeOK
    <3>2. CASE stage = "ready"
      <4>1. proc' = [proc EXCEPT ![s] = [proc[s] EXCEPT !.starting = @ + 1]]
        BY <2>1, <3>2 DEF Spawned
      <4>2. proc[s].starting + 1 \in 0..2
        BY <1>2, <2>1, <3>2 DEF SessionsInv, TypeOK
      <4> QED BY <1>2, <3>2, <4>1, <4>2 DEF SessionsInv, TypeOK
    <3> QED BY <3>1, <3>2
  <2>4. TypeOK'
    <3>1. LocksTyped'
      BY <1>1, <2>2, MovesLocks DEF TurnStages
    <3> QED BY <1>1, <1>4, <2>2, <2>3, <3>1, Typed DEF SessionsInv, TypeOK, Moves, SeenType
  <2>5. StageOK'
    BY <1>1, <2>1, <2>2 DEF SessionsInv, StageOK, StagesOf, Stages, Moves, SameButStage
  <2>6. CallsOK'
    BY <1>1, <2>2, MovesCalls
  <2>7. FamilyOK'
    BY <1>1, FamilyKept DEF SessionsInv, FamilyOK
  <2>8. TurnsOK'
    <3>1. \A r \in All : task[r].op # "none" => task[r].sess \in Sessions
      BY DEF SessionsInv, StageOK
    <3>2. \A r \in All : InWorker(r) => task[r].op # "none"
      BY DEF SessionsInv, StageOK, StagesOf, InWorker
    <3> QED BY <1>1, <2>2, <2>3, <3>1, <3>2
            DEF SessionsInv, TurnsOK, Moves, SameButStage, InWorker, TurnStages
  <2>9. UnbornOK'
    BY SMTT(20), <1>1, <1>2, <2>2, <2>3 DEF SessionsInv, UnbornOK, Moves, SameButStage, Exists
  <2>10. CreationOK'
    BY <1>1, <2>2, MovesCreation DEF Exists
  <2>11. HolderOK'
    BY <1>1, <1>4, <2>1, <2>2, SessionsAssumption DEF SessionsInv, HolderOK, All, Moves, SameButStage
  <2>12. WorkersOK'
    <3>1. \A r \in Sessions \ seen.forked : Exists(r) => proc[r].starting = 0
      BY <1>1, NoneStarting
    <3>2. s \notin seen.forked => proc[s].up = proc[s].alive
      BY <1>2 DEF SessionsInv, WorkersOK
    <3> QED BY <1>1, <1>2, <1>4, <2>1, <2>2, <2>3, <3>1, <3>2
            DEF SessionsInv, TypeOK, WorkersOK, Processes, Exists, Moves, SameButStage
  <2>13. SettledOnce' /\ FlagIsOfThisTurn'
    BY <1>1, <2>2, MovesFlag DEF SessionsInv, SettledOnce
  <2> QED BY <2>4, <2>5, <2>6, <2>7, <2>8, <2>9, <2>10, <2>11, <2>12, <2>13 DEF SessionsInv
<1> QED BY <1>3, <1>4 DEF TakeSpawnLock

LEMMA SpawnNewStep == ASSUME SessionsInv, NEW t \in All, SpawnNew(t) PROVE SessionsInv'
<1> DEFINE s == task[t].sess
<1>1. /\ task[t].stage = "spawn" /\ proc[s].starting < 2
      /\ task[t].op \in {"new", "fork"} /\ s \in Sessions
      /\ UNCHANGED <<spawnLock, lock, file, tree, cancel, due, settled, seen>>
  BY DEF SpawnNew, SessionsInv, StageOK, StagesOf, Stages
<1>2. Moves(t, "ready") /\ "ready" \in Stages
  BY GoMoves DEF SessionsInv, SpawnNew, Stages
<1>3. /\ proc' \in [Sessions -> [starting : 0..2, up : BOOLEAN, alive : BOOLEAN]]
      /\ \A r \in Sessions : proc'[r].up = proc[r].up /\ proc'[r].alive = proc[r].alive
      /\ \A r \in Sessions : proc'[r].starting = IF r = s THEN proc[r].starting + 1 ELSE proc[r].starting
  <2>1. proc' = [proc EXCEPT ![s] = [proc[s] EXCEPT !.starting = @ + 1]]
    BY DEF SpawnNew, Spawned
  <2>2. proc[s].starting + 1 \in 0..2
    BY <1>1 DEF SessionsInv, TypeOK
  <2> QED BY <1>1, <2>1, <2>2 DEF SessionsInv, TypeOK
<1>4. spawnLock # t
  BY <1>1, NotHolding
<1>5. TypeOK'
  <2>1. LocksTyped'
    BY <1>1, <1>2, MovesLocks DEF TurnStages
  <2> QED BY <1>1, <1>2, <1>3, <2>1, Typed DEF SessionsInv, TypeOK, Moves, SeenType
<1>6. StageOK'
  BY <1>1, <1>2 DEF SessionsInv, StageOK, StagesOf, Stages, Moves, SameButStage
<1>7. CallsOK'
  BY <1>1, <1>2, MovesCalls
<1>8. FamilyOK'
  BY <1>1, FamilyKept DEF SessionsInv, FamilyOK
<1>9. TurnsOK'
  <2>1. \A r \in All : task[r].op # "none" => task[r].sess \in Sessions
    BY DEF SessionsInv, StageOK
  <2>2. \A r \in All : InWorker(r) => task[r].op # "none"
    BY DEF SessionsInv, StageOK, StagesOf, InWorker
  <2> QED BY <1>1, <1>2, <1>3, <2>1, <2>2
          DEF SessionsInv, TurnsOK, Moves, SameButStage, InWorker, TurnStages
<1>10. UnbornOK'
  BY <1>1, <1>2, <1>3 DEF SessionsInv, UnbornOK, Moves, SameButStage, Exists
<1>11. CreationOK' /\ HolderOK'
  BY <1>1, <1>2, <1>4, MovesCreation, MovesHolder DEF Exists
<1>12. s \notin seen.forked => ~Exists(s) /\ proc[s].starting = 0 /\ ~proc[s].up
  BY <1>1 DEF SessionsInv, CreationOK, UnbornOK
<1>13. WorkersOK'
  BY <1>1, <1>2, <1>3, <1>4, <1>12
  DEF SessionsInv, TypeOK, WorkersOK, Processes, Exists, Moves, SameButStage
<1>14. SettledOnce' /\ FlagIsOfThisTurn'
  BY <1>1, <1>2, MovesFlag DEF SessionsInv, SettledOnce
<1> QED BY <1>5, <1>6, <1>7, <1>8, <1>9, <1>10, <1>11, <1>13, <1>14 DEF SessionsInv

(* wait_ready ends, and spawn_lock is dropped with it: no process of the   *)
(* session is starting any more.                                           *)
LEMMA ReadyStep == ASSUME SessionsInv, NEW t \in All, Ready(t) \/ ReadyTimesOut(t) PROVE SessionsInv'
<1> DEFINE s == task[t].sess
<1>1. /\ task[t].stage = "ready" /\ s \in Sessions
      /\ task[t].op \in {"prompt", "edit", "interrupt", "new", "fork"}
      /\ spawnLock' = Released(t)
      /\ UNCHANGED <<lock, file, proc, tree, cancel, due, settled, seen>>
  BY DEF Ready, ReadyTimesOut, SessionsInv, StageOK, StagesOf
<1>2. PICK stage \in {"done", "connect", "refused"} :
        /\ Moves(t, stage)
        /\ stage \in {"done", "connect"} => proc[s].up
        /\ stage = "connect" => task[t].op \notin {"new", "fork"}
        /\ stage = "done" => task[t].op \in {"new", "fork"}
        /\ stage = "refused" => proc[s].starting = 0
  <2>1. {"done", "connect", "refused"} \subseteq Stages
    BY DEF Stages
  <2> QED BY <2>1, GoMoves DEF Ready, ReadyTimesOut, NeverReady, SessionsInv
<1>3. stage \in Stages /\ stage \in StagesOf(task[t].op)
  BY <1>1, <1>2 DEF Stages, StagesOf
<1>4. stage # "refused" => Exists(s)
  BY <1>1, <1>2 DEF SessionsInv, UnbornOK
<1>5. TypeOK'
  <2>1. LocksTyped'
    BY <1>1, <1>2, <1>3, MovesLocks DEF TurnStages
  <2> QED BY <1>1, <1>2, <2>1, Typed DEF SessionsInv, TypeOK, Moves, SeenType, Released
<1>6. StageOK'
  BY <1>1, <1>2, <1>3 DEF SessionsInv, StageOK, Moves, SameButStage
<1>7. CallsOK'
  BY <1>1, <1>2, <1>3, MovesCalls
<1>8. FamilyOK'
  BY <1>1, FamilyKept DEF SessionsInv, FamilyOK
<1>9. TurnsOK'
  BY <1>1, <1>2, <1>3, MovesTurns DEF TurnStages
<1>10. UnbornOK'
  <2>1. CASE Exists(s)
    BY <1>1, <1>2, <1>3, <2>1, MovesUnborn
  <2>2. CASE ~Exists(s)
    <3>1. stage = "refused" /\ ~(proc[s].starting > 0)
      BY <1>2, <1>4, <2>2
    <3>2. \A r \in All : task[r].sess = s => r = t
      BY <1>1, <2>2 DEF SessionsInv, UnbornOK
    <3> QED BY <1>1, <1>2, <2>2, <3>1, <3>2 DEF SessionsInv, UnbornOK, Moves, SameButStage, Exists
  <2> QED BY <2>1, <2>2
<1>11. CreationOK'
  BY <1>1, <1>2, <1>3, MovesCreation DEF Exists
<1>12. HolderOK'
  BY <1>1, <1>2, SessionsAssumption DEF SessionsInv, TypeOK, HolderOK, All, Moves, SameButStage, Released
<1>13. s \notin seen.forked /\ Exists(s) => proc[s].starting = 0
  <2>1. CASE stage = "refused"
    BY <1>2, <2>1
  <2>2. CASE stage # "refused"
    BY <1>1, <1>2, <2>2 DEF SessionsInv, TypeOK, WorkersOK, Processes
  <2> QED BY <2>1, <2>2
<1>14. WorkersOK'
  <2>1. spawnLock # Nobody => spawnLock \in All
    BY DEF SessionsInv, TypeOK
  <2>2. spawnLock # t => spawnLock' = spawnLock
    BY <1>1 DEF Released
  <2>3. \A r \in Sessions \ seen.forked : spawnLock = t /\ Exists(r) => proc[r].starting = 0
    BY <1>13 DEF SessionsInv, TypeOK, WorkersOK
  <2> QED BY <1>1, <1>2, <2>1, <2>2, <2>3
          DEF SessionsInv, TypeOK, WorkersOK, Processes, Exists, Moves, SameButStage
<1>15. SettledOnce' /\ FlagIsOfThisTurn'
  BY <1>1, <1>2, <1>3, MovesFlag DEF SessionsInv, SettledOnce
<1> QED BY <1>5, <1>6, <1>7, <1>8, <1>9, <1>10, <1>11, <1>12, <1>14, <1>15 DEF SessionsInv

-----------------------------------------------------------------------------
(* New requests.                                                           *)

LEMMA IdleTask ==
  ASSUME SessionsInv, NEW u \in All, task[u].stage = "idle"
  PROVE  /\ task[u].op = "none" /\ spawnLock # u
         /\ \A r \in All : task[r].from # u
         /\ \A s \in Sessions : lock[s] # u
<1>1. task[u].op = "none"
  <2>1. task[u].op \in Ops /\ "idle" \in StagesOf(task[u].op)
    BY DEF SessionsInv, StageOK, TypeOK
  <2> QED BY <2>1 DEF StagesOf, Ops
<1>2. spawnLock # u
  BY <1>1, NotHolding
<1>3. \A r \in All : task[r].from # u
  BY SessionsAssumption DEF SessionsInv, CallsOK, All
<1>4. \A s \in Sessions : lock[s] # u
  BY SessionsAssumption DEF SessionsInv, TypeOK, All
<1> QED BY <1>1, <1>2, <1>3, <1>4

(* Who asks: a client or the loop, or a turn that waits from then on.      *)
Asked(u, op, s, arg, from, stage) ==
  /\ IsRequest(u, op, s, arg, from, stage)
  /\ \A r \in All \ {u} : task'[r].stage = IF r = from THEN "await" ELSE task[r].stage
  /\ \/ from = Client
     \/ /\ from \in All \ {u}
        /\ task[from].stage = "model"
        /\ task[from].sess # s
        /\ op \in {"prompt", "stop", "new"}

LEMMA ClientAsks ==
  ASSUME SessionsInv, NEW u \in All, NEW op \in Ops, NEW s \in Sessions,
         NEW arg \in Sessions \cup {Nobody}, NEW stage \in Stages,
         task' = Asks(u, op, s, arg, Client, stage)
  PROVE  Asked(u, op, s, arg, Client, stage)
<1>1. \A r \in All : r # Client
  BY SessionsAssumption DEF All
<1> QED BY <1>1, AsksRequests DEF SessionsInv, Asked

LEMMA TurnAsks ==
  ASSUME SessionsInv, NEW t \in All, task[t].stage = "model", NEW u \in All, t # u,
         NEW op \in {"prompt", "stop", "new"}, NEW s \in Sessions, task[t].sess # s,
         NEW arg \in Sessions \cup {Nobody}, NEW stage \in Stages,
         HostTask(t, u, op, s, arg, stage)
  PROVE  Asked(u, op, s, arg, t, stage)
<1>1. op \in Ops
  BY DEF Ops
<1> QED BY <1>1, HostRequests DEF SessionsInv, Asked

LEMMA AskedOthers ==
  ASSUME NEW u \in All, NEW op, NEW s, NEW arg, NEW from, NEW stage,
         Asked(u, op, s, arg, from, stage)
  PROVE  \A r \in All \ {u} :
           /\ SameButStage(r)
           /\ \/ task'[r].stage = task[r].stage
              \/ task'[r].stage = "await" /\ task[r].stage = "model"
<1> SUFFICES ASSUME NEW r \in All \ {u}
             PROVE  /\ SameButStage(r)
                    /\ \/ task'[r].stage = task[r].stage
                       \/ task'[r].stage = "await" /\ task[r].stage = "model"
  OBVIOUS
<1>1. r # Client
  BY SessionsAssumption DEF All
<1>2. SameButStage(r)
  BY DEF Asked, IsRequest
<1>3. CASE r = from
  BY <1>1, <1>2, <1>3 DEF Asked
<1>4. CASE r # from
  BY <1>2, <1>4 DEF Asked
<1> QED BY <1>3, <1>4

(* What a request preserves, whoever asks and whatever is asked.           *)
LEMMA AskedCalls ==
  ASSUME SessionsInv, NEW u \in All, task[u].stage = "idle", NEW op, NEW s, NEW arg, NEW from, NEW stage,
         Asked(u, op, s, arg, from, stage)
  PROVE  CallsOK'
<1>1. \A r \in All \ {u} : task'[r].from = task[r].from /\ task'[r].from # u
  BY IdleTask DEF Asked, IsRequest, SameButStage
<1>2. \A r \in All : task[r].from # Client =>
        task[r].from \in All \ {u} /\ (from # Client => task[r].from # from)
  BY IdleTask DEF SessionsInv, TypeOK, CallsOK, Asked
<1>3. \A r \in All : task'[r].from # Client =>
        /\ task'[task'[r].from].stage = "await"
        /\ task'[task'[r].from].sess # task'[r].sess
        /\ task'[r].op \in {"prompt", "stop", "new"}
  <2>1. CASE from = Client
    BY <1>1, <1>2, <2>1 DEF SessionsInv, CallsOK, Asked, IsRequest, SameButStage
  <2>2. CASE from # Client
    BY <1>1, <1>2, <2>2 DEF SessionsInv, CallsOK, Asked, IsRequest, SameButStage
  <2> QED BY <2>1, <2>2
<1>4. \A r, v \in All : task'[r].from = task'[v].from /\ task'[r].from # Client => r = v
  BY <1>1, <1>2 DEF SessionsInv, CallsOK, Asked, IsRequest
<1> QED BY <1>3, <1>4 DEF CallsOK

LEMMA AskedTurns ==
  ASSUME SessionsInv, NEW u \in All, task[u].stage = "idle", NEW op, NEW s, NEW arg, NEW from, NEW stage,
         Asked(u, op, s, arg, from, stage), UNCHANGED <<lock, proc, cancel>>,
         seen'.asked = seen.asked,
         stage \notin TurnStages \cup {"lock", "marked"}
  PROVE  LocksTyped' /\ TurnsOK' /\ FlagIsOfThisTurn'
<1>1. /\ \A r \in All \ {u} : task'[r].sess = task[r].sess
      /\ \A r \in All \ {u} : task'[r].stage = task[r].stage
                              \/ (task'[r].stage = "await" /\ task[r].stage = "model")
      /\ task'[u].stage = stage
  <2>1. task'[u].stage = stage
    BY DEF Asked, IsRequest
  <2> QED BY <2>1, AskedOthers DEF SameButStage
<1>2. \A r \in Sessions : lock[r] # u
  BY IdleTask
<1>3. LocksTyped'
  BY <1>1, <1>2 DEF SessionsInv, TypeOK, LocksTyped, TurnStages
<1>4. TurnsOK'
  BY <1>1 DEF SessionsInv, TurnsOK, InWorker, TurnStages
<1>5. FlagIsOfThisTurn'
  BY <1>1, <1>2 DEF SessionsInv, TypeOK, FlagIsOfThisTurn
<1> QED BY <1>3, <1>4, <1>5

LEMMA AskedHolder ==
  ASSUME SessionsInv, NEW u \in All, task[u].stage = "idle", NEW op, NEW s, NEW arg, NEW from, NEW stage,
         Asked(u, op, s, arg, from, stage), UNCHANGED spawnLock,
         op = "stop" => stage \notin {"connect", "lock", "marked"}
  PROVE  HolderOK'
<1>1. /\ \A r \in All \ {u} : task'[r].op = task[r].op
      /\ \A r \in All \ {u} : task'[r].stage = task[r].stage
                              \/ (task'[r].stage = "await" /\ task[r].stage = "model")
      /\ task'[u].stage = stage /\ task'[u].op = op
  <2>1. task'[u].stage = stage /\ task'[u].op = op
    BY DEF Asked, IsRequest
  <2> QED BY <2>1, AskedOthers DEF SameButStage
<1>2. spawnLock # u /\ (spawnLock # Nobody => spawnLock \in All)
  BY IdleTask DEF SessionsInv, TypeOK
<1> QED BY <1>1, <1>2 DEF SessionsInv, HolderOK

(* A request, of whoever asks, for a session that exists.                  *)
LEMMA AskStep ==
  ASSUME SessionsInv, NEW u \in All, task[u].stage = "idle",
         NEW op \in {"prompt", "edit", "interrupt", "stop", "attribute"},
         NEW s \in Sessions, Exists(s), NEW arg, NEW from, NEW stage,
         stage = (IF op = "stop" THEN "spawnLock" ELSE IF op = "attribute" THEN "connect" ELSE "look"),
         Asked(u, op, s, arg, from, stage),
         UNCHANGED <<spawnLock, lock, file, proc, tree, cancel, settled>>, due' \subseteq due,
         seen' \in SeenType, seen'.asked = seen.asked, seen'.forked = seen.forked
  PROVE  SessionsInv'
<1>1. /\ stage \notin TurnStages \cup {"lock", "marked", "ready", "spawn"}
      /\ op = "stop" => stage = "spawnLock"
      /\ op \notin {"new", "fork", "none"}
      /\ stage \in StagesOf(op)
  BY DEF TurnStages, StagesOf, Stages
<1>2. /\ \A r \in All \ {u} : SameButStage(r)
      /\ \A r \in All \ {u} : task'[r].stage = task[r].stage
                              \/ (task'[r].stage = "await" /\ task[r].stage = "model")
      /\ task'[u].op = op /\ task'[u].sess = s /\ task'[u].stage = stage
      /\ task' \in [All -> TaskType]
  <2>1. /\ task' \in [All -> TaskType]
        /\ task'[u].op = op /\ task'[u].sess = s /\ task'[u].stage = stage
    BY DEF Asked, IsRequest
  <2> QED BY <2>1, AskedOthers
<1>3. spawnLock # u /\ (spawnLock # Nobody => spawnLock \in All)
  BY IdleTask DEF SessionsInv, TypeOK
<1>4. LocksTyped' /\ TurnsOK' /\ FlagIsOfThisTurn'
  BY <1>1, AskedTurns
<1>5. TypeOK'
  BY <1>2, <1>4, Typed DEF SessionsInv, TypeOK
<1>6. StageOK'
  <2>1. \A r \in All : task[r].stage = "model" => task[r].op = "prompt"
    BY DEF SessionsInv, StageOK, StagesOf
  <2>2. "await" \in StagesOf("prompt")
    BY DEF StagesOf, Stages
  <2> QED BY <1>1, <1>2, <2>1, <2>2 DEF SessionsInv, StageOK, SameButStage
<1>7. CallsOK' /\ HolderOK'
  BY <1>1, AskedCalls, AskedHolder
<1>8. FamilyOK'
  BY FamilyKept DEF SessionsInv, FamilyOK
<1>9. UnbornOK'
  BY <1>2 DEF SessionsInv, UnbornOK, SameButStage, Exists
<1>10. CreationOK'
  BY <1>1, <1>2 DEF SessionsInv, CreationOK, SameButStage, Exists
<1>11. WorkersOK'
  BY <1>2, <1>3 DEF SessionsInv, WorkersOK, SameButStage, Exists, Processes
<1>12. SettledOnce'
  BY DEF SessionsInv, SettledOnce
<1> QED BY <1>4, <1>5, <1>6, <1>7, <1>8, <1>9, <1>10, <1>11, <1>12 DEF SessionsInv

(* Requests of clients that are counted.                                   *)
LEMMA AskCounts ==
  ASSUME SessionsInv, NEW op, Ask(op)
  PROVE  seen' \in SeenType /\ seen'.asked = seen.asked /\ seen'.forked = seen.forked
<1>1. seen.requests + 1 \in 0..MaxRequests
  BY SessionsAssumption DEF SessionsInv, TypeOK, Ask
<1> QED BY <1>1 DEF SessionsInv, TypeOK, Ask, SeenType

LEMMA ResolveStep == ASSUME SessionsInv, Resolve PROVE SessionsInv'
<1>1. PICK u \in IdleTasks, s \in Sessions, op \in {"prompt", "edit", "interrupt"} :
        /\ Ask(op) /\ Exists(s)
        /\ task' = Asks(u, op, s, Nobody, Client, "look")
        /\ UNCHANGED <<spawnLock, lock, file, proc, tree, cancel, due, settled>>
  BY DEF Resolve
<1>2. u \in All /\ task[u].stage = "idle" /\ op \in Ops /\ "look" \in Stages
  BY DEF IdleTasks, All, Ops, Stages
<1>3. Asked(u, op, s, Nobody, Client, "look")
  BY <1>1, <1>2, ClientAsks
<1>4. seen' \in SeenType /\ seen'.asked = seen.asked /\ seen'.forked = seen.forked
  BY <1>1, AskCounts
<1> QED BY <1>1, <1>2, <1>3, <1>4, AskStep

LEMMA StopStep == ASSUME SessionsInv, Stop PROVE SessionsInv'
<1>1. PICK u \in IdleTasks, s \in Sessions :
        /\ Ask("stop") /\ Exists(s)
        /\ task' = Asks(u, "stop", s, Nobody, Client, "spawnLock")
        /\ UNCHANGED <<spawnLock, lock, file, proc, tree, cancel, due, settled>>
  BY DEF Stop
<1>2. u \in All /\ task[u].stage = "idle" /\ "stop" \in Ops /\ "spawnLock" \in Stages
  BY DEF IdleTasks, All, Ops, Stages
<1>3. Asked(u, "stop", s, Nobody, Client, "spawnLock")
  BY <1>1, <1>2, ClientAsks
<1>4. seen' \in SeenType /\ seen'.asked = seen.asked /\ seen'.forked = seen.forked
  BY <1>1, AskCounts
<1> QED BY <1>1, <1>2, <1>3, <1>4, AskStep

LEMMA LoopStep == ASSUME SessionsInv, NEW s \in Sessions, FireDue(s) \/ Poll(s) PROVE SessionsInv'
<1>1. /\ Loop \in All /\ task[Loop].stage = "idle"
      /\ {"prompt", "attribute"} \subseteq Ops /\ {"look", "connect"} \subseteq Stages
      /\ seen \in SeenType
  BY DEF FireDue, Poll, All, Ops, Stages, SessionsInv, TypeOK, SeenType
<1>2. CASE FireDue(s)
  <2>1. Exists(s)
    BY <1>2 DEF FireDue, SessionsInv, FamilyOK
  <2>2. Asked(Loop, "prompt", s, Nobody, Client, "look")
    BY <1>1, <1>2, ClientAsks DEF FireDue
  <2> QED BY <1>1, <1>2, <2>1, <2>2, AskStep DEF FireDue
<1>3. CASE Poll(s)
  <2> DEFINE p == tree[s].parent
  <2>1. p \in Sessions /\ Exists(p)
    BY <1>3 DEF Poll, SessionsInv, FamilyOK, TypeOK
  <2>2. task' = Asks(Loop, "attribute", p, s, Client, "connect")
    BY <1>3 DEF Poll
  <2>3. Asked(Loop, "attribute", p, s, Client, "connect")
    BY <1>1, <2>1, <2>2, ClientAsks
  <2> QED BY <1>1, <1>3, <2>1, <2>3, AskStep DEF Poll
<1> QED BY <1>2, <1>3

(* A turn's request of another session, its parent or a child.             *)
LEMMA HostAskStep ==
  ASSUME SessionsInv, NEW t \in All, NEW u \in IdleTasks, Message(t, u) \/ Delete(t, u)
  PROVE  SessionsInv'
<1>1. /\ task[t].stage = "model" /\ u \in All /\ task[u].stage = "idle" /\ t # u
      /\ UNCHANGED <<spawnLock, lock, file, proc, tree, cancel, due, settled, seen>>
      /\ seen \in SeenType
  BY DEF Message, Delete, Calls, IdleTasks, All, SessionsInv, TypeOK, SeenType
<1>2. task[t].op = "prompt" /\ task[t].sess \in Sessions
  BY <1>1 DEF SessionsInv, StageOK, StagesOf
<1>3. {"look", "spawnLock"} \subseteq Stages
  BY DEF Stages
<1>4. CASE Message(t, u)
  <2>1. PICK r \in Children(task[t].sess) \cup ({tree[task[t].sess].parent} \ {Nobody}) :
          HostTask(t, u, "prompt", r, Nobody, "look")
    BY <1>4 DEF Message
  <2>2. r \in Sessions /\ Exists(r) /\ r # task[t].sess
    BY <1>2, SessionsAssumption DEF Children, SessionsInv, FamilyOK, TypeOK
  <2>3. Asked(u, "prompt", r, Nobody, t, "look")
    BY <1>1, <1>3, <2>1, <2>2, TurnAsks
  <2> QED BY <1>1, <2>2, <2>3, AskStep
<1>5. CASE Delete(t, u)
  <2>1. PICK r \in Children(task[t].sess) : HostTask(t, u, "stop", r, Nobody, "spawnLock")
    BY <1>5 DEF Delete
  <2>2. r \in Sessions /\ Exists(r) /\ r # task[t].sess
    BY <1>2, SessionsAssumption DEF Children, SessionsInv, FamilyOK, TypeOK
  <2>3. Asked(u, "stop", r, Nobody, t, "spawnLock")
    BY <1>1, <1>3, <2>1, <2>2, TurnAsks
  <2> QED BY <1>1, <2>2, <2>3, AskStep
<1> QED BY <1>4, <1>5

(* A session is created, as a client's new session, a fork or a child.     *)
LEMMA CreateStep ==
  ASSUME SessionsInv, NEW u \in All, task[u].stage = "idle", NEW op \in {"new", "fork"},
         NEW c \in Fresh, NEW arg, NEW from, Asked(u, op, c, arg, from, "spawn"),
         NEW parent \in Sessions \cup {Nobody}, parent # Nobody => Exists(parent),
         NEW byRlm \in BOOLEAN, Admit(c, parent, byRlm),
         UNCHANGED <<spawnLock, lock, proc, cancel, due>>,
         file' = IF op = "fork" THEN [file EXCEPT ![c] = "Active"] ELSE file,
         seen' \in SeenType, seen'.asked = seen.asked,
         seen'.forked = IF op = "fork" THEN seen.forked \cup {c} ELSE seen.forked
  PROVE  SessionsInv'
<1>1. /\ c \in Sessions /\ ~Exists(c) /\ c # parent
      /\ \A r \in All : task[r].sess # c
  BY SessionsAssumption DEF Fresh
<1>2. /\ \A r \in All \ {u} : SameButStage(r)
      /\ \A r \in All \ {u} : task'[r].stage = task[r].stage
                              \/ (task'[r].stage = "await" /\ task[r].stage = "model")
      /\ task'[u].op = op /\ task'[u].sess = c /\ task'[u].stage = "spawn"
      /\ task' \in [All -> TaskType]
  <2>1. /\ task' \in [All -> TaskType]
        /\ task'[u].op = op /\ task'[u].sess = c /\ task'[u].stage = "spawn"
    BY DEF Asked, IsRequest
  <2> QED BY <2>1, AskedOthers
<1>3. spawnLock # u /\ (spawnLock # Nobody => spawnLock \in All)
  BY IdleTask DEF SessionsInv, TypeOK
<1>4. \A r \in Sessions : Exists(r)' <=> (Exists(r) \/ (op = "fork" /\ r = c))
  BY <1>1 DEF SessionsInv, TypeOK, Exists
<1>5. /\ tree' \in [Sessions -> [parent : Sessions \cup {Nobody}, depth : Nat, rlm : BOOLEAN]]
      /\ tree'[c].parent = parent
      /\ \A r \in Sessions \ {c} : tree'[r] = tree[r]
      /\ settled' \in [Sessions -> Nat] /\ settled'[c] = 0
      /\ \A r \in Sessions \ {c} : settled'[r] = settled[r]
  <2>1. ChildDepth(parent) \in Nat
    BY DEF SessionsInv, TypeOK, ChildDepth
  <2> QED BY <1>1, <2>1 DEF Admit, SessionsInv, TypeOK
<1>6. LocksTyped' /\ TurnsOK' /\ FlagIsOfThisTurn'
  BY AskedTurns DEF TurnStages
<1>7. TypeOK'
  <2>1. file' \in [Sessions -> {"none", "Active", "Stopped"}]
    BY <1>1 DEF SessionsInv, TypeOK
  <2> QED BY <1>2, <1>5, <1>6, <2>1, Typed DEF SessionsInv, TypeOK
<1>8. StageOK'
  <2>1. \A r \in All : task[r].stage = "model" => task[r].op = "prompt"
    BY DEF SessionsInv, StageOK, StagesOf
  <2>2. "await" \in StagesOf("prompt") /\ "spawn" \in StagesOf(op)
    BY DEF StagesOf, Stages
  <2> QED BY <1>1, <1>2, <2>1, <2>2 DEF SessionsInv, StageOK, SameButStage
<1>9. CallsOK' /\ HolderOK'
  BY AskedCalls, AskedHolder
<1>10. FamilyOK'
  <2>1. \A r \in Sessions : tree'[r].parent # Nobody => tree'[r].parent # r /\ Exists(tree[r].parent)'
    BY <1>1, <1>4, <1>5 DEF SessionsInv, TypeOK, FamilyOK
  <2>2. \A r \in due' : Exists(r)'
    BY <1>4 DEF SessionsInv, TypeOK, FamilyOK
  <2> QED BY <2>1, <2>2 DEF FamilyOK
<1>11. UnbornOK'
  <2> SUFFICES ASSUME NEW r \in Sessions, ~Exists(r)'
               PROVE  /\ r \notin seen'.forked /\ ~proc'[r].up /\ ~proc'[r].alive
                      /\ \A t \in All : task'[t].sess = r =>
                           /\ task'[t].op = "new" /\ task'[t].stage \in {"spawn", "ready", "refused"}
                           /\ task'[t].stage = "spawn" => proc'[r].starting = 0
                      /\ \A t, v \in All : task'[t].sess = r /\ task'[v].sess = r => t = v
                      /\ proc'[r].starting > 0 =>
                           \E t \in All : task'[t].sess = r /\ task'[t].stage = "ready"
    BY DEF UnbornOK
  <2>1. ~Exists(r) /\ (r = c => op = "new")
    BY <1>1, <1>4
  <2>2. CASE r = c
    <3>1. ~(proc[c].starting > 0)
      BY <1>1 DEF SessionsInv, UnbornOK
    <3>2. proc[c].starting = 0
      BY <1>1, <3>1 DEF SessionsInv, TypeOK
    <3> QED BY <1>1, <1>2, <2>1, <2>2, <3>2 DEF SessionsInv, UnbornOK, SameButStage
  <2>3. CASE r # c
    BY <1>2, <2>1, <2>3 DEF SessionsInv, UnbornOK, SameButStage
  <2> QED BY <2>2, <2>3
<1>12. CreationOK'
  <2>1. \A r \in All : task[r].op # "none" => task[r].sess \in Sessions
    BY DEF SessionsInv, StageOK
  <2> QED BY <1>1, <1>2, <1>4, <2>1 DEF SessionsInv, CreationOK, SameButStage
<1>13. WorkersOK'
  BY <1>1, <1>2, <1>3, <1>4 DEF SessionsInv, WorkersOK, SameButStage, Processes
<1>14. SettledOnce'
  BY <1>1, <1>5 DEF SessionsInv, SettledOnce
<1> QED BY <1>6, <1>7, <1>8, <1>9, <1>10, <1>11, <1>12, <1>13, <1>14 DEF SessionsInv

LEMMA NewStep == ASSUME SessionsInv, New PROVE SessionsInv'
<1>1. PICK u \in IdleTasks, c \in Fresh, parent \in Sessions \cup {Nobody} :
        /\ Ask("new")
        /\ parent # Nobody => Exists(parent)
        /\ Admit(c, parent, FALSE)
        /\ task' = Asks(u, "new", c, parent, Client, "spawn")
        /\ UNCHANGED <<spawnLock, lock, file, proc, cancel, due>>
  BY DEF New, SpawnsFrom
<1>2. u \in All /\ task[u].stage = "idle" /\ "new" \in Ops /\ "spawn" \in Stages /\ c \in Sessions
  BY DEF IdleTasks, All, Ops, Stages, Fresh
<1>3. Asked(u, "new", c, parent, Client, "spawn")
  BY <1>1, <1>2, ClientAsks
<1>4. seen' \in SeenType /\ seen'.asked = seen.asked /\ seen'.forked = seen.forked
  BY <1>1, AskCounts
<1> QED BY <1>1, <1>2, <1>3, <1>4, CreateStep

LEMMA ForkStep == ASSUME SessionsInv, Fork PROVE SessionsInv'
<1>1. PICK u \in IdleTasks, c \in Fresh, s \in Sessions :
        /\ seen.requests < MaxRequests
        /\ seen' = [seen EXCEPT !.requests = @ + 1, !.forked = @ \cup {c}]
        /\ Admit(c, Nobody, FALSE)
        /\ file' = [file EXCEPT ![c] = "Active"]
        /\ task' = Asks(u, "fork", c, s, Client, "spawn")
        /\ UNCHANGED <<spawnLock, lock, proc, cancel, due>>
  BY DEF Fork, SpawnsFrom
<1>2. u \in All /\ task[u].stage = "idle" /\ "fork" \in Ops /\ "spawn" \in Stages /\ c \in Sessions
  BY DEF IdleTasks, All, Ops, Stages, Fresh
<1>3. Asked(u, "fork", c, s, Client, "spawn")
  BY <1>1, <1>2, ClientAsks
<1>4. seen' \in SeenType /\ seen'.asked = seen.asked /\ seen'.forked = seen.forked \cup {c}
  <2>1. seen.requests + 1 \in 0..MaxRequests
    BY <1>1, SessionsAssumption DEF SessionsInv, TypeOK
  <2>2. seen' = [requests |-> seen.requests + 1, crashes |-> seen.crashes,
                 asked |-> seen.asked, forked |-> seen.forked \cup {c}]
    BY <1>1 DEF SessionsInv, TypeOK
  <2> QED BY <1>2, <2>1, <2>2 DEF SessionsInv, TypeOK, SeenType
<1> QED BY <1>1, <1>2, <1>3, <1>4, CreateStep

LEMMA RlmStep == ASSUME SessionsInv, NEW t \in All, NEW u \in IdleTasks, Rlm(t, u) PROVE SessionsInv'
<1> DEFINE s == task[t].sess
<1>1. /\ task[t].stage = "model" /\ u \in All /\ task[u].stage = "idle" /\ t # u
      /\ UNCHANGED <<spawnLock, lock, file, proc, cancel, due, seen>>
      /\ seen \in SeenType
  BY DEF Rlm, Calls, IdleTasks, All, SessionsInv, TypeOK, SeenType
<1>2. task[t].op = "prompt"
  BY <1>1 DEF SessionsInv, StageOK, StagesOf
<1>3. s \in Sessions /\ Exists(s)
  BY <1>1, <1>2, SessionIsThere
<1>4. PICK c \in Fresh : Admit(c, s, TRUE) /\ HostTask(t, u, "new", c, s, "spawn")
  BY DEF Rlm, SpawnsFrom
<1>5. c \in Sessions /\ c # s /\ "spawn" \in Stages
  BY DEF Fresh, Stages
<1>6. Asked(u, "new", c, s, t, "spawn")
  BY <1>1, <1>3, <1>4, <1>5, TurnAsks
<1> QED BY <1>1, <1>3, <1>4, <1>6, CreateStep

-----------------------------------------------------------------------------
(* Answers and processes.                                                  *)

(* An answer ends its task; the turn that asked goes on, or is lost.       *)
LEMMA CloseStep ==
  ASSUME SessionsInv, NEW t \in All, Answered(t), Closes(t), NEW f, f = task[t].from,
         NEW stage, stage = (IF task[t].stage = "lost" THEN "lost" ELSE "round"),
         \A r \in All \ {t} : task'[r].stage = IF r = f THEN stage ELSE task[r].stage,
         lock' = IF f # Client /\ stage = "lost" THEN [lock EXCEPT ![task[f].sess] = Nobody] ELSE lock,
         \A s \in due' : s \in due \/ (s = task[t].sess /\ task[t].op = "new" /\ task[t].stage = "done"),
         UNCHANGED <<spawnLock, file, proc, tree, cancel, settled, seen>>
  PROVE  SessionsInv'
<1>1. /\ \A r \in All : task[r].from # t
      /\ \A r \in Sessions : lock[r] # t
      /\ spawnLock # t /\ (spawnLock # Nobody => spawnLock \in All)
  <2>1. \A r \in All : task[r].from # t
    BY SessionsAssumption DEF SessionsInv, CallsOK, Answered, All
  <2>2. \A r \in Sessions : lock[r] # t
    BY SessionsAssumption DEF SessionsInv, TypeOK, Answered, All
  <2> QED BY <2>1, <2>2, NotHolding DEF Answered, SessionsInv, TypeOK
<1>2. /\ task'[t].op = "none" /\ task'[t].stage = "idle" /\ task'[t].from = Client
      /\ task'[t].sess = Nobody /\ task' \in [All -> TaskType]
  BY DEF Closes, Idle
<1>3. Client \notin All /\ (f # Client => f \in All \ {t})
  BY <1>1, SessionsAssumption DEF SessionsInv, TypeOK, All
<1>4. f # Client =>
        /\ task[f].stage = "await" /\ task[f].op = "prompt" /\ task[f].sess \in Sessions
        /\ Exists(task[f].sess) /\ lock[task[f].sess] = f
        /\ \A r \in All : task[r].from = f => r = t
  <2> SUFFICES ASSUME f # Client
               PROVE  /\ task[f].stage = "await" /\ task[f].op = "prompt" /\ task[f].sess \in Sessions
                      /\ Exists(task[f].sess) /\ lock[task[f].sess] = f
                      /\ \A r \in All : task[r].from = f => r = t
    OBVIOUS
  <2>1. task[f].stage = "await" /\ \A r \in All : task[r].from = f => r = t
    BY <1>3 DEF SessionsInv, CallsOK
  <2>2. task[f].op = "prompt"
    BY <1>3, <2>1 DEF SessionsInv, StageOK, StagesOf
  <2>3. task[f].sess \in Sessions /\ Exists(task[f].sess)
    BY <1>3, <2>2, SessionIsThere
  <2>4. lock[task[f].sess] = f
    BY <1>3, <2>1 DEF SessionsInv, TurnsOK, TurnStages
  <2> QED BY <2>1, <2>2, <2>3, <2>4
<1>5. /\ \A r \in All \ {t} : SameButStage(r)
      /\ \A r \in All \ {t} :
           task'[r].stage = task[r].stage \/ (r = f /\ f # Client /\ task'[r].stage = stage)
  <2>1. \A r \in All \ {t} : SameButStage(r)
    BY DEF Closes
  <2>2. \A r \in All \ {t} : r = f => f # Client
    BY <1>3
  <2> QED BY <2>1, <2>2
<1>6. lock' \in [Sessions -> All \cup {Nobody}] /\ \A r \in Sessions :
        lock'[r] = IF f # Client /\ stage = "lost" /\ r = task[f].sess THEN Nobody ELSE lock[r]
  BY <1>3, <1>4 DEF SessionsInv, TypeOK
<1>7. \A r \in Sessions : lock[r] # Nobody =>
        lock[r] \in All \ {t} /\ task[lock[r]].sess = r /\ task[lock[r]].stage \in TurnStages
  BY <1>1 DEF SessionsInv, TypeOK, TurnStages
<1>8. TypeOK'
  <2>1. LocksTyped'
    <3>1. \A r \in Sessions : lock'[r] # Nobody =>
            /\ lock[r] \in All \ {t} /\ lock'[r] = lock[r]
            /\ lock[r] = f => stage = "round"
      <4> SUFFICES ASSUME NEW r \in Sessions, lock'[r] # Nobody
                   PROVE  /\ lock[r] \in All \ {t} /\ lock'[r] = lock[r]
                          /\ lock[r] = f => stage = "round"
        OBVIOUS
      <4>1. lock[r] # Nobody /\ lock'[r] = lock[r]
        BY <1>6
      <4>2. lock[r] = f => r = task[f].sess /\ f # Client
        BY <1>3, <1>7, <4>1
      <4>3. lock[r] = f => stage # "lost"
        BY <1>6, <4>1, <4>2
      <4> QED BY <1>7, <4>1, <4>3
    <3>2. \A r \in Sessions : lock'[r] # Nobody =>
            task'[lock[r]].sess = r /\ task'[lock[r]].stage \in TurnStages
      BY <1>5, <1>7, <3>1 DEF SameButStage, TurnStages
    <3> QED BY <1>6, <3>1, <3>2 DEF LocksTyped
  <2>2. due' \subseteq Sessions
    BY SessionIsThere DEF SessionsInv, TypeOK
  <2> QED BY <1>2, <2>1, <2>2, Typed DEF SessionsInv, TypeOK, SeenType
<1>9. StageOK'
  <2>1. stage \in StagesOf("prompt") /\ "idle" \in StagesOf("none")
    BY DEF StagesOf, Stages
  <2> QED BY <1>2, <1>4, <1>5, <2>1 DEF SessionsInv, StageOK, SameButStage
<1>10. CallsOK'
  <2>1. \A r \in All : task'[r].from # Client =>
          /\ r # t /\ task'[r].from = task[r].from /\ task'[r].op = task[r].op
          /\ task'[r].sess = task[r].sess
          /\ task[r].from \in All \ {t} /\ task[r].from # f
    BY <1>1, <1>2, <1>4, <1>5 DEF SessionsInv, TypeOK, SameButStage
  <2>2. \A r \in All : task'[r].from # Client =>
          /\ task'[task'[r].from].stage = "await"
          /\ task'[task'[r].from].sess # task'[r].sess
          /\ task'[r].op \in {"prompt", "stop", "new"}
    BY <1>5, <2>1 DEF SessionsInv, CallsOK, SameButStage
  <2>3. \A r, v \in All : task'[r].from = task'[v].from /\ task'[r].from # Client => r = v
    BY <2>1 DEF SessionsInv, CallsOK
  <2> QED BY <2>2, <2>3 DEF CallsOK
<1>11. FamilyOK'
  BY SessionIsThere, FamilyKept DEF SessionsInv, FamilyOK
<1>12. TurnsOK'
  <2>1. \A r \in All : task'[r].stage \in TurnStages => lock'[task'[r].sess] = r
    <3> SUFFICES ASSUME NEW r \in All, task'[r].stage \in TurnStages
                 PROVE  lock'[task'[r].sess] = r
      OBVIOUS
    <3>1. r # t /\ task'[r].sess = task[r].sess /\ task[r].stage \in TurnStages
      BY <1>2, <1>4, <1>5 DEF TurnStages, SameButStage
    <3>2. lock[task[r].sess] = r /\ task[r].sess \in Sessions
      BY <3>1 DEF SessionsInv, TurnsOK, StageOK, StagesOf, TurnStages
    <3>3. r = f /\ f # Client => stage = "round"
      BY <1>5, <3>1 DEF TurnStages
    <3> QED BY <1>3, <1>4, <1>6, <3>1, <3>2, <3>3
  <2>2. \A r \in All : InWorker(r)' => InWorker(r) /\ task'[r].sess = task[r].sess
    BY <1>2, <1>4, <1>5 DEF InWorker, SameButStage
  <2> QED BY <2>1, <2>2 DEF SessionsInv, TurnsOK
<1>13. UnbornOK'
  <2>1. \A r \in Sessions : r # Nobody
    BY SessionsAssumption
  <2>2. \A r \in Sessions : ~Exists(r) => f = Client \/ task[f].sess # r
    BY <1>4
  <2>3. task[t].stage # "ready"
    BY DEF Answered
  <2> QED BY <1>2, <1>5, <2>1, <2>2, <2>3 DEF SessionsInv, UnbornOK, Exists, SameButStage
<1>14. CreationOK' /\ HolderOK' /\ WorkersOK'
  <2>1. CreationOK'
    BY <1>2, <1>4, <1>5 DEF SessionsInv, CreationOK, Exists, SameButStage
  <2>2. HolderOK'
    BY <1>1, <1>2, <1>4, <1>5 DEF SessionsInv, HolderOK, SameButStage
  <2>3. WorkersOK'
    BY <1>1, <1>4, <1>5 DEF SessionsInv, WorkersOK, Exists, Processes, SameButStage
  <2> QED BY <2>1, <2>2, <2>3
<1>15. SettledOnce' /\ FlagIsOfThisTurn'
  <2>1. \A r \in Sessions : lock'[r] # Nobody /\ task'[lock'[r]].stage # "begin" =>
          lock[r] # Nobody /\ task[lock[r]].stage # "begin"
    BY <1>4, <1>5, <1>6, <1>7
  <2> QED BY <2>1 DEF SessionsInv, SettledOnce, FlagIsOfThisTurn
<1> QED BY <1>8, <1>9, <1>10, <1>11, <1>12, <1>13, <1>14, <1>15 DEF SessionsInv

LEMMA AnswerStep == ASSUME SessionsInv, NEW t \in All, Answer(t) \/ AnswerTurn(t) PROVE SessionsInv'
<1>1. CASE Answer(t)
  <2>1. Closes(t) /\ \A r \in All \ {t} : task'[r].stage = task[r].stage
    BY <1>1, AnswerCloses DEF SessionsInv
  <2>2. \A r \in All : r # Client
    BY SessionsAssumption DEF All
  <2>3. /\ Answered(t) /\ task[t].from = Client
        /\ UNCHANGED <<spawnLock, lock, file, proc, tree, cancel, due, settled, seen>>
    BY <1>1 DEF Answer
  <2> QED BY <2>1, <2>2, <2>3, CloseStep
<1>2. CASE AnswerTurn(t)
  <2> DEFINE f == task[t].from
             stage == IF task[t].stage = "lost" THEN "lost" ELSE "round"
  <2>1. f # t
    BY <1>2, SessionsAssumption DEF SessionsInv, CallsOK, AnswerTurn, Answered, All
  <2>2. /\ Closes(t)
        /\ \A r \in All \ {t} : task'[r].stage = IF r = f THEN stage ELSE task[r].stage
    BY <1>2, <2>1, AnswerTurnCloses DEF SessionsInv
  <2>3. /\ Answered(t) /\ f # Client
        /\ lock' = IF f # Client /\ stage = "lost" THEN [lock EXCEPT ![task[f].sess] = Nobody] ELSE lock
        /\ \A s \in due' : s \in due \/ (s = task[t].sess /\ task[t].op = "new" /\ task[t].stage = "done")
        /\ UNCHANGED <<spawnLock, file, proc, tree, cancel, settled, seen>>
    BY <1>2 DEF AnswerTurn
  <2> HIDE DEF f, stage
  <2>4. f = task[t].from /\ stage = (IF task[t].stage = "lost" THEN "lost" ELSE "round")
    BY DEF f, stage
  <2> QED BY <2>2, <2>3, <2>4, CloseStep
<1> QED BY <1>1, <1>2

(* A process records its pid and serves, or dies before it does.           *)
LEMMA StartedStep ==
  ASSUME SessionsInv, NEW s \in Sessions, Serve(s) \/ StartCrash(s)
  PROVE  SessionsInv'
<1>1. /\ proc[s].starting > 0 /\ proc[s].starting - 1 \in 0..2
      /\ UNCHANGED <<task, spawnLock, lock, tree, due, settled>>
      /\ seen' \in SeenType /\ seen'.asked = seen.asked /\ seen'.forked = seen.forked
  BY SessionsAssumption DEF SessionsInv, TypeOK, Serve, StartCrash, MayCrash, SeenType
<1>2. /\ proc' \in [Sessions -> [starting : 0..2, up : BOOLEAN, alive : BOOLEAN]]
      /\ \A r \in Sessions \ {s} : proc'[r] = proc[r]
      /\ proc'[s].starting = proc[s].starting - 1
      /\ Serve(s) => proc'[s].up /\ proc'[s].alive = ~proc[s].up
      /\ ~Serve(s) => proc'[s].up = proc[s].up /\ proc'[s].alive = proc[s].alive
  <2>1. CASE Serve(s)
    BY <1>1, <2>1 DEF SessionsInv, TypeOK, Serve
  <2>2. CASE ~Serve(s)
    <3>1. proc' = [proc EXCEPT ![s] = [proc[s] EXCEPT !.starting = proc[s].starting - 1]]
      BY <2>2 DEF StartCrash
    <3> QED BY <1>1, <2>2, <3>1 DEF SessionsInv, TypeOK
  <2> QED BY <2>1, <2>2
<1>3. /\ file' \in [Sessions -> {"none", "Active", "Stopped"}]
      /\ \A r \in Sessions \ {s} : file'[r] = file[r]
      /\ Serve(s) => file'[s] = "Active"
      /\ ~Serve(s) => file'[s] = file[s]
  BY DEF SessionsInv, TypeOK, Serve, StartCrash
<1>4. /\ cancel' \in [Sessions -> BOOLEAN]
      /\ \A r \in Sessions \ {s} : cancel'[r] = cancel[r]
      /\ proc[s].up => cancel'[s] = cancel[s]
      /\ ~Serve(s) => cancel'[s] = cancel[s]
  <2>1. CASE Serve(s)
    <3>1. cancel' = IF proc[s].up THEN cancel ELSE [cancel EXCEPT ![s] = FALSE]
      BY <2>1 DEF Serve
    <3> QED BY <2>1, <3>1 DEF SessionsInv, TypeOK
  <2>2. CASE ~Serve(s)
    <3>1. cancel' = cancel
      BY <2>2 DEF StartCrash
    <3> QED BY <2>2, <3>1 DEF SessionsInv, TypeOK
  <2> QED BY <2>1, <2>2
<1>5. \A r \in Sessions : Exists(r)' <=> (Exists(r) \/ (Serve(s) /\ r = s))
  BY <1>3 DEF Exists
<1>6. TypeOK'
  BY <1>1, <1>2, <1>3, <1>4 DEF SessionsInv, TypeOK, SeenType
<1>7. StageOK' /\ CallsOK' /\ HolderOK' /\ SettledOnce'
  BY <1>1 DEF SessionsInv, StageOK, CallsOK, HolderOK, SettledOnce
<1>8. FamilyOK'
  BY <1>1, <1>5 DEF SessionsInv, TypeOK, FamilyOK
<1>9. TurnsOK'
  <2>1. \A r \in All : InWorker(r) => task[r].sess \in Sessions
    BY DEF SessionsInv, StageOK, StagesOf, InWorker
  <2> QED BY <1>1, <1>2, <2>1 DEF SessionsInv, TurnsOK, InWorker
<1>10. UnbornOK'
  <2>1. \A r \in Sessions \ {s} : ~Exists(r)' => ~Exists(r) /\ proc'[r] = proc[r]
    BY <1>2, <1>5
  <2>2. ~Exists(s)' => ~Exists(s) /\ ~Serve(s)
    BY <1>5
  <2> QED BY <1>1, <1>2, <2>1, <2>2 DEF SessionsInv, UnbornOK
<1>11. CreationOK'
  <2>1. \A r \in All : task[r].op = "new" => task[r].sess \in Sessions
    BY DEF SessionsInv, StageOK
  <2>2. \A r \in All : task[r].op = "new" /\ task[r].stage = "spawn" => task[r].sess # s
    BY <1>1 DEF SessionsInv, TypeOK, CreationOK, UnbornOK
  <2> QED BY <1>1, <1>5, <2>1, <2>2 DEF SessionsInv, CreationOK
<1>12. WorkersOK'
  <2>1. s \notin seen.forked => proc[s].starting = 1 /\ ~proc[s].up
    BY <1>1 DEF SessionsInv, TypeOK, WorkersOK, Processes
  <2>2. \A r \in Sessions \ {s} : Processes(r)' = Processes(r) /\ (Exists(r)' <=> Exists(r))
    BY <1>2, <1>5 DEF Processes
  <2>3. s \notin seen.forked => /\ Processes(s)' <= 1 /\ proc'[s].alive = proc'[s].up
                                /\ ~(proc'[s].starting > 0)
    BY <1>2, <2>1 DEF Processes, SessionsInv, TypeOK, WorkersOK
  <2> QED BY <1>1, <1>2, <2>2, <2>3 DEF SessionsInv, WorkersOK
<1>13. FlagIsOfThisTurn'
  <2>1. lock[s] # Nobody => proc[s].up
    BY DEF SessionsInv, TypeOK, TurnsOK, InWorker
  <2> QED BY <1>1, <1>4, <2>1 DEF SessionsInv, FlagIsOfThisTurn
<1> QED BY <1>6, <1>7, <1>8, <1>9, <1>10, <1>11, <1>12, <1>13 DEF SessionsInv

(* A worker's process ends, and its connections and locks with it.         *)
LEMMA GoneStep ==
  ASSUME SessionsInv, NEW s \in Sessions, proc[s].up, Gone(s),
         UNCHANGED <<file, tree, cancel, due, settled>>,
         seen' \in SeenType, seen'.asked = seen.asked, seen'.forked = seen.forked
  PROVE  SessionsInv'
<1>1. Ends(s)
  BY GoneEnds DEF SessionsInv
<1>2. /\ task' \in [All -> TaskType]
      /\ \A r \in All : task'[r].op = task[r].op /\ task'[r].sess = task[r].sess
      /\ \A r \in All \ Cut(s) : task'[r].stage = task[r].stage
      /\ \A r \in Cut(s) : task'[r].stage = IF task[r].op = "stop" THEN "done" ELSE "lost"
      /\ \A r \in All : task'[r].from = task[r].from \/ task'[r].from = Client
      /\ \A r \in All \ Cut(s) : task[r].from \in Cut(s) => task'[r].from = Client
  BY <1>1 DEF Ends, Cut
<1>3. \A r \in Cut(s) : r \in All /\ InWorker(r) /\ task[r].sess = s
  BY DEF Cut
<1>4. \A r \in All \ Cut(s) : InWorker(r) => task[r].sess # s
  BY DEF Cut
<1>5. \A r \in All : InWorker(r) =>
        task[r].sess \in Sessions /\ task[r].op \in {"prompt", "edit", "stop", "attribute"}
  BY DEF SessionsInv, StageOK, StagesOf, InWorker
<1>6. /\ proc' \in [Sessions -> [starting : 0..2, up : BOOLEAN, alive : BOOLEAN]]
      /\ \A r \in Sessions \ {s} : proc'[r] = proc[r]
      /\ proc'[s].starting = proc[s].starting /\ ~proc'[s].up /\ ~proc'[s].alive
  <2> DEFINE downed == [proc EXCEPT ![s].up = FALSE]
  <2>1. /\ downed \in [Sessions -> [starting : 0..2, up : BOOLEAN, alive : BOOLEAN]]
        /\ \A r \in Sessions \ {s} : downed[r] = proc[r]
        /\ downed[s].starting = proc[s].starting /\ ~downed[s].up
    <3>1. proc[s] \in [starting : 0..2, up : BOOLEAN, alive : BOOLEAN]
      BY DEF SessionsInv, TypeOK
    <3>2. [proc[s] EXCEPT !.up = FALSE] \in [starting : 0..2, up : BOOLEAN, alive : BOOLEAN]
      BY <3>1
    <3> QED BY <3>1, <3>2 DEF SessionsInv, TypeOK
  <2>2. proc' = [downed EXCEPT ![s].alive = FALSE]
    BY DEF Gone
  <2> HIDE DEF downed
  <2> QED BY <2>1, <2>2
<1>7. /\ lock' \in [Sessions -> All \cup {Nobody}]
      /\ \A r \in Sessions \ {s} : lock'[r] = lock[r]
      /\ lock'[s] = Nobody
  BY DEF Gone, SessionsInv, TypeOK
<1>8. spawnLock' = IF spawnLock \in Cut(s) THEN Nobody ELSE spawnLock
  BY DEF Gone, Cut
<1>9. \A r \in Sessions \ {s} : lock[r] # Nobody =>
        lock[r] \in All \ Cut(s) /\ task[lock[r]].sess = r /\ task[lock[r]].stage \in TurnStages
  BY <1>3 DEF SessionsInv, TypeOK, TurnStages
<1>10. TypeOK'
  <2>1. LocksTyped'
    BY <1>2, <1>7, <1>9 DEF LocksTyped
  <2> QED BY <1>2, <1>6, <1>8, <2>1, Typed DEF SessionsInv, TypeOK
<1>11. StageOK'
  <2>1. /\ "done" \in StagesOf("stop")
        /\ \A op \in {"prompt", "edit", "attribute"} : "lost" \in StagesOf(op)
    BY DEF StagesOf, Stages
  <2>2. \A r \in Cut(s) : task'[r].stage \in StagesOf(task[r].op)
    BY <1>2, <1>3, <1>5, <2>1
  <2> QED BY <1>2, <2>2 DEF SessionsInv, StageOK
<1>12. CallsOK'
  <2>1. \A r \in All : task'[r].from # Client =>
          task'[r].from = task[r].from /\ task[r].from \in All \ Cut(s)
    <3> SUFFICES ASSUME NEW r \in All, task'[r].from # Client
                 PROVE  task'[r].from = task[r].from /\ task[r].from \in All \ Cut(s)
      OBVIOUS
    <3>1. task'[r].from = task[r].from /\ task[r].from \in All
      BY <1>2 DEF SessionsInv, TypeOK
    <3>2. task[task[r].from].sess # task[r].sess
      BY <3>1 DEF SessionsInv, CallsOK
    <3> QED BY <1>2, <1>3, <3>1, <3>2
  <2> QED BY <1>2, <2>1 DEF SessionsInv, CallsOK
<1>13. FamilyOK'
  BY FamilyKept DEF SessionsInv, FamilyOK
<1>14. TurnsOK'
  <2>1. \A r \in All : task'[r].stage \in TurnStages \cup {"lock", "marked"} =>
          /\ r \notin Cut(s) /\ InWorker(r) /\ task'[r].stage = task[r].stage
          /\ task[r].sess \in Sessions \ {s}
    BY <1>2, <1>4, <1>5 DEF TurnStages, InWorker
  <2>2. \A r \in All : InWorker(r)' => task'[r].stage \in TurnStages \cup {"lock", "marked"}
    BY DEF InWorker, TurnStages
  <2>3. \A r \in All : task'[r].stage \in TurnStages => lock'[task'[r].sess] = r
    BY <1>2, <1>7, <2>1 DEF SessionsInv, TurnsOK
  <2>4. \A r \in All : InWorker(r)' => proc'[task'[r].sess].up
    BY <1>2, <1>6, <2>1, <2>2 DEF SessionsInv, TurnsOK
  <2> QED BY <2>3, <2>4 DEF TurnsOK
<1>15. UnbornOK'
  <2>1. \A r \in Sessions : ~Exists(r)' => ~Exists(r) /\ r # s
    BY DEF Exists, SessionsInv, UnbornOK
  <2>2. \A r \in All : ~Exists(task[r].sess) /\ task[r].sess \in Sessions => r \notin Cut(s)
    BY <1>3 DEF SessionsInv, UnbornOK
  <2>3. \A r \in Sessions : ~Exists(r) => \A t \in All : task[t].sess = r => task'[t].stage = task[t].stage
    BY <1>2, <2>2
  <2> QED BY <1>2, <1>6, <2>1, <2>3 DEF SessionsInv, UnbornOK
<1>16. CreationOK'
  BY <1>2 DEF SessionsInv, CreationOK, Exists
<1>17. HolderOK'
  BY <1>2, <1>8 DEF SessionsInv, TypeOK, HolderOK
<1>18. WorkersOK'
  <2>1. s \notin seen.forked => proc[s].starting = 0
    BY DEF SessionsInv, TypeOK, WorkersOK, Processes
  <2>2. \A r \in Sessions \ {s} : Processes(r)' = Processes(r)
    BY <1>6 DEF Processes
  <2>3. spawnLock # Nobody /\ task[spawnLock].stage = "ready" =>
          /\ spawnLock' = spawnLock /\ task'[spawnLock].stage = "ready"
          /\ task'[spawnLock].sess = task[spawnLock].sess
    BY <1>2, <1>3, <1>8 DEF SessionsInv, TypeOK, InWorker
  <2>4. s \notin seen.forked => /\ Processes(s)' <= 1 /\ proc'[s].alive = proc'[s].up
                                /\ ~(proc'[s].starting > 0)
    BY <1>6, <2>1 DEF Processes
  <2> QED BY <1>6, <2>2, <2>3, <2>4 DEF SessionsInv, TypeOK, WorkersOK, Exists
<1>19. SettledOnce' /\ FlagIsOfThisTurn'
  BY <1>2, <1>7, <1>9 DEF SessionsInv, SettledOnce, FlagIsOfThisTurn
<1> QED BY <1>10, <1>11, <1>12, <1>13, <1>14, <1>15, <1>16, <1>17, <1>18, <1>19 DEF SessionsInv

LEMMA ExitStep == ASSUME SessionsInv, NEW t \in All, Exit(t) PROVE SessionsInv'
<1>1. task[t].sess \in Sessions /\ proc[task[t].sess].up
  BY DEF Exit, SessionsInv, StageOK, StagesOf, TurnsOK, InWorker
<1> QED BY <1>1, GoneStep DEF Exit, SessionsInv, TypeOK, SeenType

LEMMA CrashStep == ASSUME SessionsInv, NEW s \in Sessions, WorkerCrash(s) PROVE SessionsInv'
<1>1. seen' \in SeenType /\ seen'.asked = seen.asked /\ seen'.forked = seen.forked
  <2>1. seen.crashes + 1 \in 0..MaxCrashes
    BY SessionsAssumption DEF SessionsInv, TypeOK, WorkerCrash, MayCrash
  <2> QED BY <2>1 DEF SessionsInv, TypeOK, WorkerCrash, MayCrash, SeenType
<1> QED BY <1>1, GoneStep DEF WorkerCrash

-----------------------------------------------------------------------------
(* The invariant holds at first and is kept by every step.                 *)

LEMMA Starts == Init => SessionsInv
<1> SUFFICES ASSUME Init PROVE SessionsInv
  OBVIOUS
<1>1. /\ \A t \in All : task[t] = Idle
      /\ spawnLock = Nobody /\ due = {}
      /\ \A s \in Sessions : lock[s] = Nobody /\ settled[s] = 0
      /\ \A s \in Sessions : file[s] = IF s = First THEN "Active" ELSE "none"
      /\ \A s \in Sessions : /\ proc[s].starting = 0
                             /\ proc[s].up <=> s = First
                             /\ proc[s].alive <=> s = First
      /\ \A s \in Sessions : tree[s].parent = Nobody
      /\ seen.asked = {} /\ seen.forked = {}
  BY DEF Init
<1>2. Idle.op = "none" /\ Idle.stage = "idle" /\ Idle.from = Client /\ Idle.sess = Nobody
  BY DEF Idle
<1>3. TypeOK
  <2>1. Idle \in TaskType
    BY SessionsAssumption DEF Idle, TaskType, Ops, Stages
  <2>2. task \in [All -> TaskType]
    BY <2>1 DEF Init
  <2>3. /\ spawnLock \in All \cup {Nobody}
        /\ lock \in [Sessions -> All \cup {Nobody}]
        /\ file \in [Sessions -> {"none", "Active", "Stopped"}]
        /\ proc \in [Sessions -> [starting : 0..2, up : BOOLEAN, alive : BOOLEAN]]
        /\ tree \in [Sessions -> [parent : Sessions \cup {Nobody}, depth : Nat, rlm : BOOLEAN]]
        /\ cancel \in [Sessions -> BOOLEAN]
        /\ due \subseteq Sessions
        /\ settled \in [Sessions -> Nat]
    BY DEF Init
  <2>4. seen \in [requests : 0..MaxRequests, crashes : 0..MaxCrashes,
                  asked : SUBSET Sessions, forked : SUBSET Sessions]
    BY SessionsAssumption DEF Init
  <2> QED BY <1>1, <2>2, <2>3, <2>4 DEF TypeOK, TaskType
<1>4. StageOK /\ CallsOK /\ FamilyOK
  BY <1>1, <1>2 DEF StageOK, StagesOf, CallsOK, FamilyOK
<1>5. TurnsOK /\ CreationOK /\ HolderOK
  BY <1>1, <1>2 DEF TurnsOK, TurnStages, InWorker, CreationOK, HolderOK
<1>6. UnbornOK
  <2>1. \A s \in Sessions : ~Exists(s) => ~proc[s].up /\ ~proc[s].alive /\ ~(proc[s].starting > 0)
    BY <1>1 DEF Exists
  <2>2. \A s \in Sessions, t \in All : task[t].sess # s
    BY <1>1, <1>2, SessionsAssumption
  <2> QED BY <1>1, <2>1, <2>2 DEF UnbornOK
<1>7. WorkersOK
  <2>1. \A s \in Sessions : Processes(s) <= 1 /\ ~(proc[s].starting > 0)
    BY <1>1 DEF Processes
  <2>2. \A s \in Sessions : proc[s].alive = proc[s].up
    BY DEF Init
  <2> QED BY <2>1, <2>2 DEF WorkersOK
<1>8. SettledOnce /\ FlagIsOfThisTurn
  BY <1>1 DEF SettledOnce, FlagIsOfThisTurn
<1> QED BY <1>3, <1>4, <1>5, <1>6, <1>7, <1>8 DEF SessionsInv

LEMMA Steps == SessionsInv /\ [Next]_vars => SessionsInv'
<1> SUFFICES ASSUME SessionsInv, [Next]_vars PROVE SessionsInv'
  OBVIOUS
<1>1. CASE Requested
  BY <1>1, ResolveStep, StopStep, NewStep, ForkStep DEF Requested
<1>2. ASSUME NEW t \in All, Reaching(t) PROVE SessionsInv'
  BY <1>2, LookStep, TakeSpawnLockStep, SpawnNewStep, ReadyStep, ConnectStep DEF Reaching
<1>3. ASSUME NEW t \in All, Working(t) PROVE SessionsInv'
  BY <1>3, EditStep, AttributeStep, MarkStoppedStep, ExitStep, BeginTurnStep, ClearFlagStep, TurnStep
  DEF Working
<1>4. ASSUME NEW t \in All, HostCall(t) PROVE SessionsInv'
  BY <1>4, RlmStep, HostAskStep, HeartbeatStep DEF HostCall
<1>5. ASSUME NEW t \in All, Fail(t) \/ Answer(t) \/ AnswerTurn(t) PROVE SessionsInv'
  BY <1>5, TurnStep, AnswerStep
<1>6. ASSUME NEW s \in Sessions,
             FireDue(s) \/ Poll(s) \/ Serve(s) \/ WorkerCrash(s) \/ StartCrash(s)
      PROVE  SessionsInv'
  BY <1>6, LoopStep, StartedStep, CrashStep
<1>7. CASE UNCHANGED vars
  BY <1>7 DEF vars, SessionsInv, TypeOK, StageOK, CallsOK, FamilyOK, TurnsOK, UnbornOK, CreationOK,
             HolderOK, WorkersOK, SettledOnce, FlagIsOfThisTurn, Exists, InWorker, Processes
<1> QED BY <1>1, <1>2, <1>3, <1>4, <1>5, <1>6, <1>7 DEF Next

LEMMA Inductive == Spec => []SessionsInv
BY Starts, Steps, PTL DEF Spec

(* Every variable keeps its type, and whoever holds a session's lock is in *)
(* a turn of that session.                                                 *)
THEOREM Typing == Spec => []TypeOK
<1>1. SessionsInv => TypeOK
  BY DEF SessionsInv
<1> QED BY <1>1, Inductive, PTL

(* spawn_lock and the second look under it keep every session but a fork   *)
(* to one worker process, whatever is asked, crashes or is revived.        *)
THEOREM OneWorkerEach == Spec => []OneWorker
<1>1. SessionsInv => OneWorker
  BY DEF SessionsInv, WorkersOK, OneWorker
<1> QED BY <1>1, Inductive, PTL

(* A child's usage is in its parent's transcript at most once, and only a  *)
(* subagent's ever is.                                                     *)
THEOREM Settled == Spec => []SettledOnce
<1>1. SessionsInv => SettledOnce
  BY DEF SessionsInv
<1> QED BY <1>1, Inductive, PTL

(* The interrupt a turn sees was meant for it, and none meant for it is    *)
(* lost between its user entry and its end.                                *)
THEOREM FlagsOfTheirTurn == Spec => []FlagIsOfThisTurn
<1>1. SessionsInv => FlagIsOfThisTurn
  BY DEF SessionsInv
<1> QED BY <1>1, Inductive, PTL

(* In a circle nobody waits for spawn_lock, nobody for a session lock.     *)
LEMMA CirclesHaveCalls == SessionsInv => OnlyCallsDeadlock
<1> SUFFICES ASSUME SessionsInv, NEW S \in SUBSET All, Deadlocked(S),
                    \A u \in Asking(S) : task[u].op \notin {"prompt", "stop"}
             PROVE  FALSE
  BY DEF OnlyCallsDeadlock
<1>1. \A t \in S : t \in All /\ task[t].stage \in {"spawnLock", "lock", "await"}
  BY DEF Deadlocked, Waits
<1>2. \A t \in S : task[t].stage # "await"
  <2> SUFFICES ASSUME NEW t \in S, task[t].stage = "await" PROVE FALSE
    OBVIOUS
  <2>1. PICK u \in S : task[u].from = t
    BY DEF Deadlocked, Waits
  <2>2. u \in Asking(S) /\ task[u].from # Client
    BY <1>1, <2>1, SessionsAssumption DEF Asking, All
  <2>3. task[u].op = "new"
    BY <1>1, <2>2 DEF SessionsInv, CallsOK
  <2> QED BY <1>1, <2>3 DEF SessionsInv, StageOK, StagesOf
<1>3. \A t \in S : task[t].stage # "lock"
  <2> SUFFICES ASSUME NEW t \in S, task[t].stage = "lock" PROVE FALSE
    OBVIOUS
  <2>1. PICK u \in S : lock[task[t].sess] = u
    BY DEF Deadlocked, Waits
  <2>2. task[t].sess \in Sessions /\ u # Nobody
    BY <1>1, SessionsAssumption DEF SessionsInv, StageOK, StagesOf, All
  <2> QED BY <1>1, <1>2, <2>1, <2>2 DEF SessionsInv, TypeOK
<1>4. \A t \in S : task[t].stage = "spawnLock"
  BY <1>1, <1>2, <1>3
<1>5. PICK t \in S, u \in S : Waits(t, u)
  BY DEF Deadlocked
<1>6. spawnLock = u /\ u # Nobody
  BY <1>1, <1>4, <1>5, SessionsAssumption DEF Waits, All
<1> QED BY <1>4, <1>6 DEF SessionsInv, HolderOK

(* A circle of waiting tasks has a turn in it that waits for a prompt or a *)
(* stop it asked for under its own session's lock: spawn_lock and the      *)
(* session locks are never a circle by themselves.                         *)
THEOREM LocksDoNotDeadlock == Spec => []OnlyCallsDeadlock
BY CirclesHaveCalls, Inductive, PTL

-----------------------------------------------------------------------------
(* The step that acknowledges a stop.                                      *)

Acknowledged(t) == task[t].op = "stop" /\ task[t].stage # "done" /\ task'[t].stage = "done"

LEMMA GoAcknowledges ==
  ASSUME SessionsInv, NEW r \in All, NEW stage \in Stages, Go(r, stage),
         NEW t \in All, Acknowledged(t)
  PROVE  r = t /\ stage = "done" /\ task[r].op = "stop"
BY GoMoves DEF SessionsInv, Moves, Acknowledged

(* Whoever holds spawn_lock without waiting for a worker's start knows     *)
(* that none is starting.                                                  *)
LEMMA NoneLeft ==
  ASSUME SessionsInv, NEW t \in All, task[t].op = "stop", task[t].sess \notin seen.forked,
         \/ task[t].stage = "spawnLock" /\ spawnLock = Nobody
         \/ task[t].stage \in {"connect", "lock", "marked"}
  PROVE  proc[task[t].sess].starting = 0 /\ task[t].sess \in Sessions
<1>1. task[t].sess \in Sessions /\ Exists(task[t].sess)
  BY SessionIsThere
<1>2. spawnLock = Nobody \/ task[spawnLock].stage # "ready"
  BY DEF SessionsInv, HolderOK
<1> QED BY <1>1, <1>2, NoneStarting

LEMMA GoneAcknowledges ==
  ASSUME SessionsInv, NEW s \in Sessions, proc[s].up, Gone(s),
         NEW t \in All, Acknowledged(t), task[t].sess \notin seen.forked
  PROVE  Processes(task[t].sess)' = 0
<1>1. t \in Cut(s)
  BY GoneEnds DEF SessionsInv, Ends, Acknowledged
<1>2. task[t].sess = s /\ proc[s].starting = 0
  BY <1>1 DEF Cut, SessionsInv, TypeOK, WorkersOK, Processes
<1>3. proc'[s].starting = proc[s].starting /\ ~proc'[s].up
  BY DEF Gone, SessionsInv, TypeOK
<1>4. task'[t].sess = s
  BY <1>2, GoneEnds DEF SessionsInv, Ends
<1> QED BY <1>2, <1>3, <1>4 DEF Processes

LEMMA AskedByNone ==
  ASSUME SessionsInv, NEW u \in IdleTasks, NEW op \in Ops, NEW s \in Sessions,
         NEW arg \in Sessions \cup {Nobody}, NEW stage \in Stages, stage # "done",
         \/ task' = Asks(u, op, s, arg, Client, stage)
         \/ \E r \in All : HostTask(r, u, op, s, arg, stage) /\ r # u,
         NEW t \in All
  PROVE  ~Acknowledged(t)
<1>1. u \in All
  BY DEF IdleTasks, All
<1>2. CASE task' = Asks(u, op, s, arg, Client, stage)
  BY <1>1, <1>2, AsksRequests DEF SessionsInv, IsRequest, Acknowledged
<1>3. ASSUME NEW r \in All, HostTask(r, u, op, s, arg, stage), r # u PROVE ~Acknowledged(t)
  BY <1>1, <1>3, HostRequests DEF SessionsInv, IsRequest, Acknowledged
<1> QED BY <1>2, <1>3

LEMMA Acknowledging ==
  ASSUME SessionsInv, Next, NEW t \in All, Acknowledged(t), task[t].sess \notin seen.forked
  PROVE  Processes(task[t].sess)' = 0
<1>1. ~Requested
  <2>1. {"prompt", "edit", "interrupt", "stop", "new", "fork"} \subseteq Ops
        /\ {"look", "spawnLock", "spawn"} \subseteq Stages /\ Fresh \subseteq Sessions
    BY DEF Ops, Stages, Fresh
  <2>2. Resolve \/ Stop \/ New \/ Fork =>
          \E u \in IdleTasks, op \in Ops, s \in Sessions, arg \in Sessions \cup {Nobody},
             stage \in {"look", "spawnLock", "spawn"} : task' = Asks(u, op, s, arg, Client, stage)
    BY <2>1 DEF Resolve, Stop, New, Fork, SpawnsFrom
  <2> QED BY <2>1, <2>2, AskedByNone DEF Requested
<1>2. ~\E r \in All : HostCall(r)
  <2> SUFFICES ASSUME NEW r \in All, HostCall(r) PROVE FALSE
    OBVIOUS
  <2>1. CASE Heartbeat(r)
    BY <2>1, GoAcknowledges DEF Heartbeat, Stages
  <2>2. CASE \E u \in IdleTasks : Rlm(r, u) \/ Message(r, u) \/ Delete(r, u)
    <3>1. /\ {"prompt", "stop", "new"} \subseteq Ops
          /\ {"look", "spawnLock", "spawn"} \subseteq Stages /\ Fresh \subseteq Sessions
      BY DEF Ops, Stages, Fresh
    <3>2. \A s \in Sessions : Children(s) \subseteq Sessions
      BY DEF Children
    <3>3. PICK u \in IdleTasks : Rlm(r, u) \/ Message(r, u) \/ Delete(r, u)
      BY <2>2
    <3>4. task[r].stage = "model" /\ r # u
      BY <3>3 DEF Rlm, Message, Delete, Calls, IdleTasks
    <3>5. task[r].sess \in Sessions
      BY <3>4 DEF SessionsInv, StageOK, StagesOf
    <3>6. \E op \in Ops, s \in Sessions, arg \in Sessions \cup {Nobody},
             stage \in {"look", "spawnLock", "spawn"} : HostTask(r, u, op, s, arg, stage)
      <4>1. CASE Rlm(r, u)
        BY <3>1, <3>5, <4>1 DEF Rlm, SpawnsFrom
      <4>2. CASE Message(r, u)
        BY <3>1, <3>2, <3>5, <4>2 DEF Message, SessionsInv, TypeOK
      <4>3. CASE Delete(r, u)
        BY <3>1, <3>2, <3>5, <4>3 DEF Delete
      <4> QED BY <3>3, <4>1, <4>2, <4>3
    <3> QED BY <3>1, <3>4, <3>6, AskedByNone
  <2> QED BY <2>1, <2>2 DEF HostCall
<1>3. ASSUME NEW r \in All, Reaching(r) PROVE Processes(task[t].sess)' = 0
  <2>1. PICK stage \in Stages : Go(r, stage)
    BY <1>3 DEF Reaching, Look, TakeSpawnLock, SpawnNew, Ready, ReadyTimesOut, Connect, Stages
  <2>2. r = t /\ Go(t, "done") /\ task[t].op = "stop" /\ task'[t].stage = "done"
    BY <2>1, GoAcknowledges DEF Acknowledged
  <2>3. task[t].stage \in {"spawnLock", "connect"}
    BY <1>3, <2>2 DEF SessionsInv, StageOK, StagesOf, Acknowledged,
                      Reaching, Look, TakeSpawnLock, SpawnNew, Ready, ReadyTimesOut, Connect
  <2>4. Moves(t, "done") /\ task'[t].sess = task[t].sess
    BY <2>2, GoMoves DEF SessionsInv, Stages, Moves, SameButStage
  <2>5. CASE task[t].stage = "connect"
    <3>1. Connect(t)
      BY <1>3, <2>2, <2>5 DEF Reaching, Look, TakeSpawnLock, SpawnNew, Ready, ReadyTimesOut
    <3>2. ~proc[task[t].sess].up /\ UNCHANGED proc
      BY <2>2, <3>1, GoAcknowledges DEF Connect, Stages
    <3> QED BY <2>2, <2>4, <2>5, <3>2, NoneLeft DEF Processes
  <2>6. CASE task[t].stage = "spawnLock"
    <3>1. TakeSpawnLock(t)
      BY <1>3, <2>2, <2>6 DEF Reaching, Look, Connect, SpawnNew, Ready, ReadyTimesOut
    <3>2. ~proc[task[t].sess].alive /\ UNCHANGED proc /\ spawnLock = Nobody
      BY <2>2, <3>1, GoAcknowledges DEF TakeSpawnLock, SpawnLockFree, FoundAlive, Alive, Stages
    <3>3. proc[task[t].sess].starting = 0 /\ task[t].sess \in Sessions
      BY <2>2, <2>6, <3>2, NoneLeft
    <3>4. ~proc[task[t].sess].up
      BY <3>2, <3>3 DEF SessionsInv, WorkersOK
    <3> QED BY <2>4, <3>2, <3>3, <3>4 DEF Processes
  <2> QED BY <2>3, <2>5, <2>6
<1>4. ASSUME NEW r \in All, Working(r) \/ Fail(r) PROVE Processes(task[t].sess)' = 0
  <2>1. CASE Exit(r)
    <3>1. task[r].sess \in Sessions /\ proc[task[r].sess].up
      BY <2>1 DEF Exit, SessionsInv, StageOK, StagesOf, TurnsOK, InWorker
    <3> QED BY <2>1, <3>1, GoneAcknowledges DEF Exit
  <2>2. ~Edit(r) /\ ~Attribute(r) /\ ~MarkStopped(r) /\ ~BeginTurn(r) /\ ~ClearFlag(r)
    BY GoAcknowledges DEF Edit, Attribute, MarkStopped, BeginTurn, ClearFlag, Enter, Stages
  <2>3. ~Round(r) /\ ~Reply(r) /\ ~Fail(r)
    <3>1. Round(r) \/ Reply(r) \/ Fail(r) => task[r].op = "prompt"
      BY DEF Round, Reply, Fail, SessionsInv, StageOK, StagesOf
    <3>2. Reply(r) \/ Fail(r) => \E stage \in Stages : Go(r, stage)
      BY DEF Reply, Fail, EndTurn, Stages
    <3>3. Round(r) => (\E stage \in Stages : Go(r, stage)) \/ Moves(r, "model")
      BY RoundStep DEF Round, EndTurn, Stages
    <3>4. Moves(r, "model") => ~Acknowledged(t)
      BY DEF Moves, Acknowledged
    <3> QED BY <3>1, <3>2, <3>3, <3>4, GoAcknowledges
  <2> QED BY <1>4, <2>1, <2>2, <2>3 DEF Working
<1>5. ASSUME NEW r \in All, Answer(r) \/ AnswerTurn(r) PROVE FALSE
  <2>1. AnswerTurn(r) => task[r].from # r
    BY SessionsAssumption DEF SessionsInv, CallsOK, AnswerTurn, Answered, All
  <2>2. task'[r].stage = "idle" /\ \A v \in All \ {r} :
          task'[v].stage = task[v].stage \/ task'[v].stage \in {"lost", "round"}
    BY <1>5, <2>1, AnswerCloses, AnswerTurnCloses DEF SessionsInv, Closes, Idle
  <2> QED BY <2>2 DEF Acknowledged
<1>6. ASSUME NEW s \in Sessions,
             FireDue(s) \/ Poll(s) \/ Serve(s) \/ WorkerCrash(s) \/ StartCrash(s)
      PROVE  Processes(task[t].sess)' = 0
  <2>1. CASE WorkerCrash(s)
    BY <2>1, GoneAcknowledges DEF WorkerCrash
  <2>2. ~Serve(s) /\ ~StartCrash(s)
    BY DEF Serve, StartCrash, Acknowledged
  <2>3. ~FireDue(s) /\ ~Poll(s)
    <3>1. FireDue(s) \/ Poll(s) =>
            \E op \in Ops, p \in Sessions, arg \in Sessions \cup {Nobody}, stage \in {"look", "connect"} :
              task' = Asks(Loop, op, p, arg, Client, stage)
      BY DEF FireDue, Poll, Ops, SessionsInv, TypeOK
    <3>2. Loop \in All /\ {"look", "connect"} \subseteq Stages
      BY DEF All, Stages
    <3> QED BY <3>1, <3>2, AsksRequests DEF SessionsInv, IsRequest, Acknowledged
  <2> QED BY <1>6, <2>1, <2>2, <2>3
<1> QED BY <1>1, <1>2, <1>3, <1>4, <1>5, <1>6 DEF Next

(* When a stop is acknowledged its session, if no fork, has no worker that *)
(* runs or starts: what raced the stop was stopped with it or comes later. *)
THEOREM StopsLeaveNoWorker == Spec => StopLeavesNoWorker
<1>1. SessionsInv /\ [Next]_vars =>
        [\A t \in All :
           /\ task[t].op = "stop"
           /\ task[t].stage # "done"
           /\ task'[t].stage = "done"
           /\ task[t].sess \notin seen.forked
           => Processes(task[t].sess)' = 0]_vars
  BY Acknowledging DEF Acknowledged
<1> QED BY <1>1, Inductive, PTL DEF Spec, StopLeavesNoWorker
=============================================================================
