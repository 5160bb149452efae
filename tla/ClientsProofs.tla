---------------------------- MODULE ClientsProofs ----------------------------
(***************************************************************************)
(* Proofs about module Clients: the types, what a viewer is shown, that an *)
(* autonomous run stops with its goal, that a closed session stays closed  *)
(* and that a REPL sends what was typed.                                   *)
(***************************************************************************)
EXTENDS Clients, FiniteSetTheorems, SequenceTheorems, TLAPS

-----------------------------------------------------------------------------
(* The inductive invariants, one per client, over what they share.         *)

(* The requests that wait, each sent with a prompt of its own.             *)
Pending == {a \in Askers : ask[a] = "waiting"}

(* A request is counted once, waiting or left behind.                      *)
Counted == IsFiniteSet(Pending) /\ Cardinality(Pending) + left <= spent.prompts

TurnTypes ==
  /\ worker \in [up : BOOLEAN, holder : Askers \cup {Attacher, Abandoned, Nobody}, part : 0..2]
  /\ log \in Nat
  /\ ask \in [Askers -> {"idle", "waiting", "turn", "ok", "error"}]
  /\ left \in Nat
  /\ events \in [on : BOOLEAN, ring : Seq(Nat), lagged : BOOLEAN]
  /\ Len(events.ring) <= Capacity
  /\ goal \in [text : 0..MaxGoals, active : BOOLEAN]
  /\ spent \in [prompts : 0..MaxPrompts, faults : 0..MaxFaults, unseen : BOOLEAN]

(* A turn runs under the lock.                                             *)
Held == \A a \in Askers : ask[a] = "turn" <=> worker.holder = a

TurnsInv == TurnTypes /\ Counted /\ Held

(* The stream is there while the viewer is attached; the lock is the       *)
(* attach's from the snapshot to the subscription.                         *)
Arriving == viewer.view \o viewer.wire

ViewInv ==
  /\ viewer \in [stage : Stages, wire : Seq(Nat), view : Seq(Nat)]
  /\ worker.holder = Attacher <=> viewer.stage = "subscribing"
  /\ events.on <=> viewer.stage = "attached"
  /\ ~events.on => events = NoStream
  /\ viewer.stage \in {"off", "asked", "subscribing"} => viewer.wire = <<>>
  /\ ~spent.unseen =>
       /\ Arriving = Upto(Len(Arriving))
       /\ viewer.stage = "subscribing" => Arriving = Upto(log)
       /\ (viewer.stage = "attached" /\ ~events.lagged) => Arriving \o events.ring = Upto(log)

(* One prompt after the goal ended leaves the loop short of its next one.  *)
LoopInv ==
  /\ loop \in [stage : {"fetch", "gate", "complete", "budget", "send", "prompting", "done"},
               turns : 0..MaxTurns, text : 0..MaxGoals, fetched : BOOLEAN,
               stray : 0..1, swapped : BOOLEAN]
  /\ loop.stage \in {"send", "prompting"} => loop.turns < MaxTurns
  /\ loop.stray = 1 => /\ ~goal.active
                       /\ loop.stage \in {"fetch", "prompting", "done"}
                       /\ spent.prompts > 0

(* A connection knows its session after a session/new it answered, and     *)
(* there is one of those; with nobody else about, the connection's lines   *)
(* are all that prompts.                                                   *)
News == {l \in Lines : line[l].method = "new"}

Alone == {"acp"}

AcpInv ==
  /\ AcpTypeOK
  /\ \A k, l \in News : k = l
  /\ conn.known \/ conn.closed => \E l \in News : line[l].stage = "answered"
  /\ conn.closed => ~conn.known
  /\ "acp" \notin cast => ~conn.closed
  /\ cast = Alone => /\ \A a \in Askers \ Lines : ask[a] = "idle"
                     /\ viewer.stage = "off"

(* The line of the last prompt sent.                                       *)
LastSent == IF repl.sent = <<>> THEN 0 ELSE repl.sent[Len(repl.sent)].line

ReplTypes ==
  /\ typed \in [kinds : Seq(Kinds), eof : BOOLEAN]
  /\ Len(typed.kinds) <= MaxTyped
  /\ repl \in [stage : {"running", "prompting", "inline", "login", "done"},
               received : Nat, queue : Seq(Nat), readerDone : BOOLEAN,
               file : Nat, answers : {0, 1}, why : {"none", "eof", "error", "exit"},
               eaten : SUBSET Nat, sent : Seq([line : Nat, file : Nat])]

(* The queue holds received lines in order, later than whatever was sent   *)
(* and than the file that waits for its prompt.                            *)
InOrder ==
  /\ repl.received <= Len(typed.kinds)
  /\ repl.eaten \subseteq 1..repl.received
  /\ \A i \in 1..Len(repl.queue) : /\ repl.queue[i] \in 1..repl.received
                                   /\ repl.queue[i] \notin repl.eaten
                                   /\ LastSent < repl.queue[i]
                                   /\ repl.file < repl.queue[i]
  /\ \A i, j \in 1..Len(repl.queue) : i < j => repl.queue[i] < repl.queue[j]
  /\ LastSent <= repl.received
  /\ repl.file # 0 => /\ repl.file \in LastSent + 1..repl.received
                      /\ repl.file \notin repl.eaten
                      /\ Kind(repl.file) = "file"

Filed ==
  \A i \in 1..Len(repl.sent) :
    LET prev == IF i = 1 THEN 0 ELSE repl.sent[i - 1].line
        this == repl.sent[i]
    IN  /\ prev < this.line
        /\ this.line <= LastSent
        /\ this.file \in FilesBetween(prev + 1, this.line) \cup {0}

SentLines == {repl.sent[i].line : i \in 1..Len(repl.sent)}

QueuedLines == {repl.queue[i] : i \in 1..Len(repl.queue)}

(* A text the loop received was sent, or is queued, while the loop goes on *)
(* and if it ended with its input.                                         *)
NoneLost ==
  /\ SentLines \subseteq Texts
  /\ repl.stage # "done" \/ repl.why = "eof" =>
       {l \in Texts : l <= repl.received} \subseteq SentLines \cup QueuedLines
  /\ repl.stage = "done" /\ repl.why = "eof" =>
       typed.eof /\ repl.queue = <<>> /\ repl.received = Len(typed.kinds)

ReplInv == ReplTypes /\ InOrder /\ Filed /\ NoneLost

ClientsInv == TurnsInv /\ ViewInv /\ LoopInv /\ AcpInv /\ ReplInv /\ cast \in Casts

-----------------------------------------------------------------------------
(* What the clients share.                                                 *)

LEMMA Fewer ==
  ASSUME TurnsInv, left' \in Nat, left' <= left, Pending' \subseteq Pending,
         spent'.prompts \in Nat, spent.prompts <= spent'.prompts
  PROVE  Counted'
<1>1. IsFiniteSet(Pending') /\ Cardinality(Pending') <= Cardinality(Pending)
  BY FS_Subset DEF TurnsInv, Counted
<1>2. Cardinality(Pending) \in Nat /\ Cardinality(Pending') \in Nat
  BY <1>1, FS_CardinalityType DEF TurnsInv, Counted
<1>3. Cardinality(Pending) + left <= spent.prompts /\ left \in Nat /\ spent.prompts \in Nat
  BY DEF TurnsInv, TurnTypes, Counted
<1> QED
  BY <1>1, <1>2, <1>3 DEF Counted

LEMMA LeavesOne ==
  ASSUME TurnsInv, NEW a \in Pending, left' = left + 1, Pending' = Pending \ {a},
         spent' = spent
  PROVE  Counted'
<1>1. IsFiniteSet(Pending')
  BY FS_RemoveElement DEF TurnsInv, Counted
<1>2. Cardinality(Pending') = Cardinality(Pending) - 1
  BY FS_RemoveElement DEF TurnsInv, Counted
<1>3. Cardinality(Pending) \in Nat
  BY FS_CardinalityType DEF TurnsInv, Counted
<1>4. Cardinality(Pending) + left <= spent.prompts /\ left \in Nat /\ spent.prompts \in Nat
  BY DEF TurnsInv, TurnTypes, Counted
<1> QED
  BY <1>1, <1>2, <1>3, <1>4 DEF Counted

LEMMA AddsOne ==
  ASSUME TurnsInv, NEW a, left' = left, Pending' \subseteq Pending \cup {a},
         spent'.prompts = spent.prompts + 1
  PROVE  Counted'
<1>1. IsFiniteSet(Pending \cup {a})
  BY FS_AddElement DEF TurnsInv, Counted
<1>2. Cardinality(Pending \cup {a}) <= Cardinality(Pending) + 1
  BY FS_AddElement, FS_CardinalityType DEF TurnsInv, Counted
<1>3. IsFiniteSet(Pending') /\ Cardinality(Pending') <= Cardinality(Pending \cup {a})
  BY <1>1, FS_Subset
<1>4. /\ Cardinality(Pending) \in Nat /\ Cardinality(Pending') \in Nat
      /\ Cardinality(Pending \cup {a}) \in Nat
  BY <1>1, <1>3, FS_CardinalityType DEF TurnsInv, Counted
<1>5. Cardinality(Pending) + left <= spent.prompts /\ left \in Nat /\ spent.prompts \in Nat
  BY DEF TurnsInv, TurnTypes, Counted
<1> QED
  BY <1>2, <1>3, <1>4, <1>5 DEF Counted

(* A prompt sent, an answer taken, with nothing else of the session.       *)
SendsOnly(a) == Sends(a) /\ UNCHANGED <<worker, log, left, events, goal>>

TakesOnly(a) ==
  (Takes(a, "ok") \/ Takes(a, "error")) /\ UNCHANGED <<worker, log, left, events, goal, spent>>

GoalSet == \E g \in [text : 0..MaxGoals, active : BOOLEAN] : UpdateGoal(g)

Revives ==
  /\ worker' = [worker EXCEPT !.up = TRUE]
  /\ UNCHANGED <<log, ask, left, events, goal, spent>>

Asks(a) == GiveUp(a) \/ Refuse(a) \/ SendsOnly(a) \/ TakesOnly(a)

Streams == TakeSnapshot \/ Subscribe \/ Forward \/ EndStream

TurnMoves ==
  \/ UNCHANGED turnVars
  \/ WorkerStep
  \/ \E a \in Askers : Asks(a)
  \/ GoalSet \/ Revives
  \/ StopWorker \/ CrashWorker
  \/ Streams

(* Records whose field is written.                                         *)
LEMMA SpentType ==
  ASSUME NEW r \in [prompts : 0..MaxPrompts, faults : 0..MaxFaults, unseen : BOOLEAN]
  PROVE  /\ r.prompts < MaxPrompts =>
              /\ [r EXCEPT !.prompts = @ + 1]
                   \in [prompts : 0..MaxPrompts, faults : 0..MaxFaults, unseen : BOOLEAN]
              /\ [r EXCEPT !.prompts = @ + 1].prompts = r.prompts + 1
         /\ r.faults < MaxFaults =>
              /\ [r EXCEPT !.faults = @ + 1]
                   \in [prompts : 0..MaxPrompts, faults : 0..MaxFaults, unseen : BOOLEAN]
              /\ [r EXCEPT !.faults = @ + 1, !.unseen = TRUE]
                   \in [prompts : 0..MaxPrompts, faults : 0..MaxFaults, unseen : BOOLEAN]
<1> USE TurnsAssumption
<1>1. r.prompts < MaxPrompts => r.prompts + 1 \in 0..MaxPrompts
  OBVIOUS
<1>2. r.faults < MaxFaults => r.faults + 1 \in 0..MaxFaults
  OBVIOUS
<1>3. [r EXCEPT !.faults = @ + 1, !.unseen = TRUE]
        = [[r EXCEPT !.faults = r.faults + 1] EXCEPT !.unseen = TRUE]
  OBVIOUS
<1> QED
  BY <1>1, <1>2, <1>3

LEMMA HeldMoves ==
  ASSUME TurnsInv, NEW a \in Askers, Asks(a)
  PROVE  Held'
<1> USE TurnsAssumption DEF TurnsInv, TurnTypes, Held
<1>1. CASE GiveUp(a)
  <2>1. \A b \in Askers : ask'[b] = "turn" <=> ask[b] = "turn" /\ b # a
    BY <1>1 DEF GiveUp
  <2>2. CASE ask[a] = "waiting"
    BY <1>1, <2>1, <2>2 DEF GiveUp
  <2>3. CASE ask[a] = "turn"
    <3>1. worker.holder = a /\ worker'.holder = Abandoned
      BY <1>1, <2>3 DEF GiveUp
    <3> QED
      BY <2>1, <3>1
  <2> QED
    BY <1>1, <2>2, <2>3 DEF GiveUp, Bounded
<1>2. CASE Refuse(a)
  BY <1>2 DEF Refuse
<1>3. CASE SendsOnly(a)
  BY <1>3 DEF SendsOnly, Sends
<1>4. CASE TakesOnly(a)
  BY <1>4 DEF TakesOnly, Takes
<1> QED
  BY <1>1, <1>2, <1>3, <1>4 DEF Asks

LEMMA AskerMoves ==
  ASSUME TurnsInv, NEW a \in Askers, Asks(a)
  PROVE  TurnsInv'
<1> USE TurnsAssumption
<1>1. CASE GiveUp(a)
  <2>1. worker' \in [up : BOOLEAN, holder : Askers \cup {Attacher, Abandoned, Nobody}, part : 0..2]
    BY <1>1 DEF TurnsInv, TurnTypes, GiveUp
  <2>4. ask' \in [Askers -> {"idle", "waiting", "turn", "ok", "error"}] /\ left' \in Nat
    BY <1>1 DEF TurnsInv, TurnTypes, GiveUp
  <2>5. TurnTypes'
    BY <1>1, <2>1, <2>4 DEF TurnsInv, TurnTypes, GiveUp
  <2>2. CASE ask[a] = "waiting"
    <3>1. a \in Pending /\ Pending' = Pending \ {a} /\ left' = left + 1 /\ spent' = spent
      BY <1>1, <2>2 DEF TurnsInv, TurnTypes, GiveUp, Pending
    <3> QED
      BY <2>5, <3>1, HeldMoves, LeavesOne DEF TurnsInv
  <2>3. CASE ask[a] # "waiting"
    <3>1. Pending' \subseteq Pending /\ left' = left /\ spent' = spent
      BY <1>1, <2>3 DEF TurnsInv, TurnTypes, GiveUp, Pending
    <3>2. left' \in Nat /\ left' <= left /\ spent'.prompts \in Nat /\ spent.prompts <= spent'.prompts
      BY <3>1 DEF TurnsInv, TurnTypes
    <3> QED
      BY <2>5, <3>1, <3>2, HeldMoves, Fewer DEF TurnsInv
  <2> QED
    BY <2>2, <2>3
<1>2. CASE Refuse(a)
  <2>1. TurnTypes'
    BY <1>2 DEF TurnsInv, TurnTypes, Refuse
  <2>2. Pending' \subseteq Pending /\ left' = left /\ spent' = spent
    BY <1>2 DEF TurnsInv, TurnTypes, Refuse, Pending
  <2>3. left' \in Nat /\ left' <= left /\ spent'.prompts \in Nat /\ spent.prompts <= spent'.prompts
    BY <2>2 DEF TurnsInv, TurnTypes
  <2> QED
    BY <2>1, <2>2, <2>3, HeldMoves, Fewer DEF TurnsInv
<1>3. CASE SendsOnly(a)
  <2>3. ask' \in [Askers -> {"idle", "waiting", "turn", "ok", "error"}]
    BY <1>3 DEF TurnsInv, TurnTypes, SendsOnly, Sends
  <2>4. spent' \in [prompts : 0..MaxPrompts, faults : 0..MaxFaults, unseen : BOOLEAN]
    BY <1>3, SpentType DEF TurnsInv, TurnTypes, SendsOnly, Sends
  <2>1. TurnTypes'
    BY <1>3, <2>3, <2>4 DEF TurnsInv, TurnTypes, SendsOnly
  <2>2. Pending' \subseteq Pending \cup {a} /\ left' = left /\ spent'.prompts = spent.prompts + 1
    BY <1>3 DEF TurnsInv, TurnTypes, SendsOnly, Sends, Pending
  <2> QED
    BY <2>1, <2>2, HeldMoves, AddsOne DEF TurnsInv
<1>4. CASE TakesOnly(a)
  <2>1. TurnTypes'
    BY <1>4 DEF TurnsInv, TurnTypes, TakesOnly, Takes
  <2>2. Pending' \subseteq Pending /\ left' = left /\ spent' = spent
    BY <1>4 DEF TurnsInv, TurnTypes, TakesOnly, Takes, Pending
  <2>3. left' \in Nat /\ left' <= left /\ spent'.prompts \in Nat /\ spent.prompts <= spent'.prompts
    BY <2>2 DEF TurnsInv, TurnTypes
  <2> QED
    BY <2>1, <2>2, <2>3, HeldMoves, Fewer DEF TurnsInv
<1> QED
  BY <1>1, <1>2, <1>3, <1>4 DEF Asks

LEMMA WorkerTypes ==
  ASSUME TurnTypes, WorkerStep
  PROVE  TurnTypes'
<1> USE TurnsAssumption
<1>1. ASSUME NEW a \in Askers, Begin(a) PROVE TurnTypes'
  BY <1>1 DEF TurnTypes, Begin
<1>2. CASE BeginAbandoned
  BY <1>2 DEF TurnTypes, BeginAbandoned
<1>3. CASE AppendEntry
  <2>1. /\ events' \in [on : BOOLEAN, ring : Seq(Nat), lagged : BOOLEAN]
        /\ Len(events'.ring) <= Capacity
    <3>1. events' = Published(log + 1) /\ log + 1 \in Nat
      BY <1>3 DEF AppendEntry, TurnTypes
    <3>2. /\ Append(events.ring, log + 1) \in Seq(Nat)
          /\ Len(Append(events.ring, log + 1)) = Len(events.ring) + 1
      BY <3>1 DEF TurnTypes
    <3>3. ~(Len(events.ring) < Capacity) =>
            /\ Append(Tail(events.ring), log + 1) \in Seq(Nat)
            /\ Len(Append(Tail(events.ring), log + 1)) = Len(events.ring)
      BY <3>1 DEF TurnTypes
    <3> QED
      <4>1. CASE ~events.on
        BY <4>1, <3>1 DEF TurnTypes, Published
      <4>2. CASE events.on /\ Len(events.ring) < Capacity
        <5>1. events' = [on |-> events.on, ring |-> Append(events.ring, log + 1),
                         lagged |-> events.lagged]
          BY <4>2, <3>1 DEF TurnTypes, Published
        <5> QED
          BY <4>2, <5>1, <3>2 DEF TurnTypes
      <4>3. CASE events.on /\ ~(Len(events.ring) < Capacity)
        <5>1. events' = [on |-> events.on, ring |-> Append(Tail(events.ring), log + 1),
                         lagged |-> TRUE]
          BY <4>3, <3>1 DEF TurnTypes, Published
        <5> QED
          BY <4>3, <5>1, <3>3 DEF TurnTypes
      <4> QED
        BY <4>1, <4>2, <4>3
  <2>2. worker' \in [up : BOOLEAN, holder : Askers \cup {Attacher, Abandoned, Nobody}, part : 0..2]
    <3>1. worker.part + 1 \in 0..2 /\ worker' = [worker EXCEPT !.part = worker.part + 1]
      BY <1>3 DEF TurnTypes, AppendEntry
    <3> QED
      BY <3>1 DEF TurnTypes
  <2> QED
    BY <1>3, <2>1, <2>2 DEF TurnTypes, AppendEntry
<1>6. ASSUME NEW answer \in {"ok", "error"}, Ends(answer)
      PROVE  /\ worker' \in [up : BOOLEAN, holder : Askers \cup {Attacher, Abandoned, Nobody}, part : 0..2]
             /\ ask' \in [Askers -> {"idle", "waiting", "turn", "ok", "error"}]
  <2>1. worker' \in [up : BOOLEAN, holder : Askers \cup {Attacher, Abandoned, Nobody}, part : 0..2]
    <3>1. worker' = [up |-> worker.up, holder |-> Nobody, part |-> 0]
      BY <1>6 DEF TurnTypes, Ends
    <3> QED
      BY <3>1 DEF TurnTypes
  <2>2. ask' \in [Askers -> {"idle", "waiting", "turn", "ok", "error"}]
    BY <1>6 DEF TurnTypes, Ends
  <2> QED
    BY <2>1, <2>2
<1>4. CASE StateUnwritten
  <2>1. spent' \in [prompts : 0..MaxPrompts, faults : 0..MaxFaults, unseen : BOOLEAN]
    BY <1>4, SpentType DEF TurnTypes, StateUnwritten
  <2> QED
    BY <1>4, <1>6, <2>1 DEF TurnTypes, StateUnwritten
<1>5. CASE EndTurn
  BY <1>5, <1>6 DEF TurnTypes, EndTurn
<1> QED
  BY <1>1, <1>2, <1>3, <1>4, <1>5 DEF WorkerStep

LEMMA WorkerMovesCount ==
  ASSUME TurnsInv, WorkerStep
  PROVE  /\ Pending' \subseteq Pending /\ left' \in Nat /\ left' <= left
         /\ spent'.prompts = spent.prompts
<1> USE TurnsAssumption DEF TurnsInv, TurnTypes
<1>1. ASSUME NEW a \in Askers, Begin(a)
      PROVE  Pending' \subseteq Pending /\ left' = left /\ spent'.prompts = spent.prompts
  BY <1>1 DEF Begin, Pending
<1>2. CASE BeginAbandoned
  BY <1>2 DEF BeginAbandoned, Pending
<1>3. CASE AppendEntry
  BY <1>3 DEF AppendEntry, Pending
<1>4. CASE StateUnwritten
  BY <1>4 DEF StateUnwritten, Ends, Pending
<1>5. CASE EndTurn
  BY <1>5 DEF EndTurn, Ends, Pending
<1> QED
  BY <1>1, <1>2, <1>3, <1>4, <1>5 DEF WorkerStep

LEMMA HeldByWorker ==
  ASSUME TurnsInv, WorkerStep
  PROVE  Held'
<1> USE TurnsAssumption DEF TurnsInv, TurnTypes, Held
<1>1. ASSUME NEW a \in Askers, Begin(a) PROVE Held'
  BY <1>1 DEF Begin, LockIsFree
<1>2. CASE BeginAbandoned
  BY <1>2 DEF BeginAbandoned, LockIsFree
<1>3. CASE AppendEntry
  BY <1>3 DEF AppendEntry
<1>4. CASE StateUnwritten
  BY <1>4 DEF StateUnwritten, Ends
<1>5. CASE EndTurn
  <2>1. ASSUME NEW answer \in {"ok", "error"}, Ends(answer) PROVE Held'
    BY <2>1 DEF Ends
  <2> QED
    BY <1>5, <2>1 DEF EndTurn
<1> QED
  BY <1>1, <1>2, <1>3, <1>4, <1>5 DEF WorkerStep

LEMMA StreamTypes ==
  ASSUME TurnTypes, Streams
  PROVE  TurnTypes'
<1> USE TurnsAssumption
<1>1. CASE TakeSnapshot
  BY <1>1 DEF TurnTypes, TakeSnapshot, AttachLocked
<1>2. CASE Subscribe
  <2>1. events' = [on |-> TRUE, ring |-> <<>>, lagged |-> FALSE]
    BY <1>2 DEF Subscribe, NoStream
  <2>2. worker' \in [up : BOOLEAN, holder : Askers \cup {Attacher, Abandoned, Nobody}, part : 0..2]
    BY <1>2 DEF TurnTypes, Subscribe
  <2>3. <<>> \in Seq(Nat) /\ Len(<<>>) = 0
    OBVIOUS
  <2>4. /\ events' \in [on : BOOLEAN, ring : Seq(Nat), lagged : BOOLEAN]
        /\ Len(events'.ring) <= Capacity
    BY <2>1, <2>3
  <2> QED
    BY <1>2, <2>4, <2>2 DEF TurnTypes, Subscribe
<1>3. CASE Forward
  <2>1. Tail(events.ring) \in Seq(Nat) /\ Len(Tail(events.ring)) <= Capacity
    BY <1>3 DEF TurnTypes, Forward
  <2> QED
    BY <1>3, <2>1 DEF TurnTypes, Forward
<1>4. CASE EndStream
  BY <1>4 DEF TurnTypes, EndStream, NoStream
<1> QED
  BY <1>1, <1>2, <1>3, <1>4 DEF Streams

LEMMA TurnsKeep ==
  ASSUME TurnsInv, TurnMoves
  PROVE  TurnsInv'
<1> USE TurnsAssumption
<1>1. CASE UNCHANGED turnVars
  BY <1>1 DEF turnVars, TurnsInv, TurnTypes, Counted, Held, Pending
<1>2. CASE WorkerStep
  BY <1>2, WorkerTypes, WorkerMovesCount, HeldByWorker, Fewer DEF TurnsInv, TurnTypes
<1>3. CASE \E a \in Askers : Asks(a)
  BY <1>3, AskerMoves
<1>4. CASE GoalSet \/ Revives
  <2>1. /\ UNCHANGED <<log, ask, left, events, spent>>
        /\ worker' = [worker EXCEPT !.up = TRUE]
        /\ goal' \in [text : 0..MaxGoals, active : BOOLEAN]
    BY <1>4 DEF TurnsInv, TurnTypes, GoalSet, Revives, UpdateGoal
  <2> QED
    <3>1. worker' \in [up : BOOLEAN, holder : Askers \cup {Attacher, Abandoned, Nobody}, part : 0..2]
      BY <2>1 DEF TurnsInv, TurnTypes
    <3>2. TurnTypes'
      BY <2>1, <3>1 DEF TurnsInv, TurnTypes
    <3> QED
      BY <2>1, <3>2 DEF TurnsInv, Counted, Held, Pending
<1>5. CASE StopWorker \/ CrashWorker
  <2>3. /\ worker' = [up |-> FALSE, holder |-> Nobody, part |-> 0]
        /\ events' = [on |-> FALSE, ring |-> <<>>, lagged |-> FALSE]
        /\ UNCHANGED <<log, left, goal>>
    BY <1>5 DEF StopWorker, CrashWorker, Down, NoStream
  <2>4. ask' \in [Askers -> {"idle", "waiting", "turn", "ok", "error"}]
    BY <1>5 DEF TurnsInv, TurnTypes, StopWorker, CrashWorker, Down
  <2>5. spent' \in [prompts : 0..MaxPrompts, faults : 0..MaxFaults, unseen : BOOLEAN]
    BY <1>5 DEF TurnsInv, TurnTypes, StopWorker, CrashWorker
  <2>1. TurnTypes'
    BY <2>3, <2>4, <2>5 DEF TurnsInv, TurnTypes
  <2>2. Pending' \subseteq Pending /\ left' = left /\ spent'.prompts = spent.prompts
    BY <1>5 DEF TurnsInv, TurnTypes, StopWorker, CrashWorker, Down, Pending
  <2> QED
    <3>1. Held'
      BY <1>5, <2>3 DEF TurnsInv, TurnTypes, Held, StopWorker, CrashWorker, Down
    <3> QED
      BY <2>1, <2>2, <3>1, Fewer DEF TurnsInv, TurnTypes
<1>6. CASE Streams
  <2>1. UNCHANGED <<ask, left, spent>>
    BY <1>6 DEF Streams, TakeSnapshot, Subscribe, Forward, EndStream
  <2> QED
    <3>1. Held'
      <4>1. worker'.holder = worker.holder \/ {worker.holder, worker'.holder} = {Attacher, Nobody}
        <5>1. CASE TakeSnapshot
          BY <5>1 DEF TurnsInv, TurnTypes, TakeSnapshot, AttachLocked, LockIsFree
        <5>2. CASE Subscribe
          BY <5>2 DEF TurnsInv, TurnTypes, Subscribe
        <5>3. CASE Forward \/ EndStream
          BY <5>3 DEF Forward, EndStream
        <5> QED
          BY <1>6, <5>1, <5>2, <5>3 DEF Streams
      <4>2. \A a \in Askers : worker'.holder = a <=> worker.holder = a
        BY <4>1
      <4> QED
        BY <2>1, <4>2 DEF TurnsInv, Held
    <3> QED
      BY <1>6, <2>1, <3>1, StreamTypes DEF TurnsInv, Counted, Pending
<1> QED
  BY <1>1, <1>2, <1>3, <1>4, <1>5, <1>6 DEF TurnMoves

-----------------------------------------------------------------------------
(* The autonomous run.                                                     *)

LEMMA LoopFrame ==
  ASSUME LoopInv, UNCHANGED <<loop, goal>>, spent.prompts \in Nat, spent'.prompts \in Nat,
         spent.prompts <= spent'.prompts
  PROVE  LoopInv'
  BY DEF LoopInv

(* What leaves the goal alone and takes back no prompt.                    *)
Spares == goal' = goal /\ spent'.prompts >= spent.prompts

LEMMA Spared ==
  ASSUME TurnsInv,
         \/ UNCHANGED turnVars \/ WorkerStep \/ \E a \in Askers : Asks(a)
         \/ Revives \/ StopWorker \/ CrashWorker \/ Streams
  PROVE  Spares
<1> USE DEF TurnsInv, TurnTypes, Spares
<1>1. CASE UNCHANGED turnVars
  BY <1>1 DEF turnVars
<1>2. CASE WorkerStep
  <2>1. goal' = goal
    BY <1>2 DEF WorkerStep, Begin, BeginAbandoned, AppendEntry, StateUnwritten, EndTurn
  <2> QED
    BY <1>2, <2>1, WorkerMovesCount
<1>3. ASSUME NEW a \in Askers, Asks(a)
      PROVE  Spares
  BY <1>3 DEF Asks, GiveUp, Refuse, SendsOnly, Sends, TakesOnly, Takes
<1>4. CASE Revives \/ StopWorker \/ CrashWorker
  BY <1>4 DEF Revives, StopWorker, CrashWorker, Down
<1>5. CASE Streams
  BY <1>5 DEF Streams, TakeSnapshot, Subscribe, Forward, EndStream
<1> QED
  BY <1>1, <1>2, <1>3, <1>4, <1>5

LEMMA LoopFields ==
  ASSUME LoopInv, NEW s \in {"fetch", "gate", "complete", "budget", "send", "prompting", "done"}
  PROVE  /\ [loop EXCEPT !.stage = s].stage = s
         /\ [loop EXCEPT !.stage = s].turns = loop.turns
         /\ [loop EXCEPT !.stage = s].stray = loop.stray
         /\ [loop EXCEPT !.stage = s] \in
              [stage : {"fetch", "gate", "complete", "budget", "send", "prompting", "done"},
               turns : 0..MaxTurns, text : 0..MaxGoals, fetched : BOOLEAN,
               stray : 0..1, swapped : BOOLEAN]
  BY DEF LoopInv

LEMMA LoopKeeps ==
  ASSUME TurnsInv, LoopInv, LoopStep
  PROVE  /\ LoopInv'
         /\ UNCHANGED turnVars \/ (\E a \in Askers : Asks(a)) \/ GoalSet
<1> USE TurnsAssumption, LoopAssumption
<1> DEFINE Result == LoopInv' /\ (UNCHANGED turnVars \/ (\E a \in Askers : Asks(a)) \/ GoalSet)
           LoopType == [stage : {"fetch", "gate", "complete", "budget", "send", "prompting", "done"},
                        turns : 0..MaxTurns, text : 0..MaxGoals, fetched : BOOLEAN,
                        stray : 0..1, swapped : BOOLEAN]
<1>0. /\ goal \in [text : 0..MaxGoals, active : BOOLEAN]
      /\ spent \in [prompts : 0..MaxPrompts, faults : 0..MaxFaults, unseen : BOOLEAN]
  BY DEF TurnsInv, TurnTypes
<1>1. CASE Fetch
  <2>1. goal' = goal /\ spent' = spent /\ UNCHANGED turnVars
    BY <1>1 DEF Fetch, turnVars
  <2>2. CASE loop' = [loop EXCEPT !.stage = "gate", !.text = goal.text, !.fetched = TRUE] /\ goal.active
    <3>1. loop'.stage = "gate" /\ loop'.stray = loop.stray /\ loop'.turns = loop.turns
      BY <2>2 DEF LoopInv
    <3>2. loop' \in LoopType
      BY <2>2, <1>0 DEF LoopInv
    <3> QED
      BY <1>1, <2>1, <2>2, <3>1, <3>2 DEF Fetch, LoopInv
  <2>3. CASE LoopGoes("done")
    BY <1>1, <2>1, <2>3, LoopFields DEF Fetch, LoopGoes, LoopInv
  <2> QED
    BY <1>1, <2>2, <2>3 DEF Fetch, StillActive
<1>2. CASE RunGate
  <2>1. /\ loop.stage = "gate" /\ goal' = goal /\ spent' = spent /\ UNCHANGED turnVars
        /\ \E s \in {"complete", "budget", "done"} : loop' = [loop EXCEPT !.stage = s]
    BY <1>2 DEF RunGate, LoopGoes, turnVars
  <2> QED
    BY <2>1, LoopFields DEF LoopInv
<1>3. CASE CompleteGoal
  <2>1. loop.stage = "complete" /\ loop.stray = 0
    BY <1>3 DEF CompleteGoal, LoopInv
  <2>2. CASE LoopGoes("done") /\ UNCHANGED turnVars
    <3>1. goal' = goal /\ spent' = spent
      BY <2>2 DEF turnVars
    <3> QED
      BY <2>1, <2>2, <3>1, LoopFields DEF LoopGoes, LoopInv
  <2>3. CASE /\ UpdateGoal(Activated(goal, FALSE))
             /\ loop' = [loop EXCEPT !.stage = "done",
                                     !.swapped = goal.text # 0 /\ goal.text # loop.text]
    <3>1. loop' \in LoopType /\ loop'.stage = "done" /\ loop'.stray = 0
      BY <2>1, <2>3 DEF LoopInv
    <3>2. Activated(goal, FALSE) \in [text : 0..MaxGoals, active : BOOLEAN]
      BY <1>0 DEF Activated
    <3>3. GoalSet
      BY <2>3, <3>2 DEF GoalSet
    <3> QED
      BY <3>1, <3>3 DEF LoopInv
  <2> QED
    BY <1>3, <2>2, <2>3 DEF CompleteGoal
<1>4. CASE CheckBudget
  <2>1. /\ loop.stage = "budget" /\ goal' = goal /\ spent' = spent /\ UNCHANGED turnVars
        /\ loop.stray = 0
        /\ \/ loop.turns < MaxTurns /\ loop' = [loop EXCEPT !.stage = "send"]
           \/ loop' = [loop EXCEPT !.stage = "done"]
    BY <1>4 DEF CheckBudget, LoopGoes, turnVars, LoopInv
  <2> QED
    BY <2>1, LoopFields DEF LoopInv
<1>5. CASE SendContinue
  <2>1. SendsOnly(Loop) /\ goal' = goal /\ loop.stage = "send" /\ loop.stray = 0
    BY <1>5 DEF SendContinue, SendsOnly, LoopInv
  <2>2. spent'.prompts > 0
    <3>1. spent' = [spent EXCEPT !.prompts = @ + 1] /\ spent.prompts < MaxPrompts
      BY <2>1 DEF SendsOnly, Sends
    <3>2. spent'.prompts = spent.prompts + 1
      BY <1>0, <3>1
    <3> QED
      BY <1>0, <3>2
  <2>3. loop' = [loop EXCEPT !.stage = "prompting", !.stray = IF goal.active THEN 0 ELSE 1]
    BY <1>5, <2>1 DEF SendContinue, LoopInv
  <2>4. /\ loop' \in LoopType /\ loop'.stage = "prompting" /\ loop'.turns = loop.turns
        /\ loop'.stray = 1 => ~goal.active
    <3> DEFINE n == IF goal.active THEN 0 ELSE 1
    <3>1. loop' = [[loop EXCEPT !.stage = "prompting"] EXCEPT !.stray = n]
      BY <2>3
    <3>2. n \in 0..1 /\ (n = 1 => ~goal.active)
      OBVIOUS
    <3>3. [loop EXCEPT !.stage = "prompting"] \in LoopType
      BY LoopFields
    <3> HIDE DEF n
    <3> QED
      BY <3>1, <3>2, <3>3 DEF LoopInv
  <2> QED
    BY <2>1, <2>2, <2>4 DEF LoopInv, Asks
<1>6. CASE TurnDone
  <2>1. TakesOnly(Loop) /\ goal' = goal /\ spent' = spent /\ loop.stage = "prompting"
    BY <1>6 DEF TurnDone, TakesOnly
  <2>2. /\ loop' \in LoopType /\ loop'.stage \in {"fetch", "done"}
        /\ loop'.stray = loop.stray
    <3>1. loop.turns + 1 \in 0..MaxTurns
      BY <2>1 DEF LoopInv
    <3>2. CASE loop' = [loop EXCEPT !.stage = "fetch", !.turns = @ + 1]
      <4>1. loop' = [[loop EXCEPT !.turns = loop.turns + 1] EXCEPT !.stage = "fetch"]
        BY <3>2 DEF LoopInv
      <4> QED
        BY <4>1, <3>1 DEF LoopInv
    <3>3. CASE LoopGoes("done")
      BY <3>3, LoopFields DEF LoopGoes
    <3> QED
      BY <1>6, <3>2, <3>3 DEF TurnDone
  <2> QED
    BY <2>1, <2>2 DEF LoopInv, Asks
<1> QED
  BY <1>1, <1>2, <1>3, <1>4, <1>5, <1>6 DEF LoopStep

LEMMA EditKeeps ==
  ASSUME TurnsInv, LoopInv, EditGoal
  PROVE  LoopInv' /\ GoalSet
<1> USE LoopAssumption
<1>1. goal \in [text : 0..MaxGoals, active : BOOLEAN]
  BY DEF TurnsInv, TurnTypes
<1>2. PICK g \in {[text |-> n, active |-> TRUE] : n \in goal.text + 1..MaxGoals}
               \cup {[text |-> 0, active |-> FALSE], Activated(goal, TRUE), Activated(goal, FALSE)} :
        /\ UpdateGoal(g)
        /\ loop' = IF g.active THEN [loop EXCEPT !.stray = 0] ELSE loop
  BY DEF EditGoal
<1>3. g \in [text : 0..MaxGoals, active : BOOLEAN]
  <2>1. \A on \in BOOLEAN : Activated(goal, on) \in [text : 0..MaxGoals, active : BOOLEAN]
    BY <1>1 DEF Activated
  <2>2. \A n \in goal.text + 1..MaxGoals : n \in 0..MaxGoals
    BY <1>1
  <2>3. 0 \in 0..MaxGoals
    OBVIOUS
  <2> QED
    <3>1. CASE \E n \in goal.text + 1..MaxGoals : g = [text |-> n, active |-> TRUE]
      BY <3>1, <2>2
    <3>2. CASE g = [text |-> 0, active |-> FALSE]
      BY <3>2, <2>3
    <3>3. CASE g = Activated(goal, TRUE) \/ g = Activated(goal, FALSE)
      BY <3>3, <2>1
    <3> QED
      BY <1>2, <3>1, <3>2, <3>3
<1>4. GoalSet /\ goal' = g /\ spent' = spent
  BY <1>2, <1>3 DEF GoalSet, UpdateGoal
<1>5. LoopInv'
  BY <1>2, <1>3, <1>4 DEF LoopInv
<1> QED
  BY <1>4, <1>5

-----------------------------------------------------------------------------
(* The connection.                                                         *)

(* What the worker and the timeouts do makes no request.                   *)
LEMMA IdleStays ==
  ASSUME TurnsInv, NEW a \in Askers, ask[a] = "idle",
         \/ WorkerStep \/ StopWorker \/ CrashWorker \/ Revives \/ UNCHANGED turnVars
         \/ \E b \in Askers : GiveUp(b) \/ Refuse(b)
  PROVE  ask'[a] = "idle"
<1> USE DEF TurnsInv, TurnTypes, Held
<1>1. worker.holder # a
  OBVIOUS
<1>2. ASSUME NEW b \in Askers, Begin(b) \/ GiveUp(b) \/ Refuse(b)
      PROVE  ask'[a] = "idle"
  BY <1>2 DEF Begin, GiveUp, Bounded, Refuse
<1>3. CASE BeginAbandoned \/ AppendEntry \/ Revives \/ UNCHANGED turnVars
  BY <1>3 DEF BeginAbandoned, AppendEntry, Revives, turnVars
<1>4. CASE StateUnwritten \/ EndTurn \/ StopWorker \/ CrashWorker
  BY <1>1, <1>4 DEF StateUnwritten, EndTurn, Ends, StopWorker, CrashWorker, Down
<1> QED
  BY <1>2, <1>3, <1>4 DEF WorkerStep

(* With the connection left alone, by others or by the worker.             *)
LEMMA AcpFrame ==
  ASSUME AcpInv, UNCHANGED <<line, conn, cast>>,
         cast = Alone => viewer' = viewer /\ \A a \in Askers \ Lines : ask'[a] = "idle"
  PROVE  AcpInv'
  BY DEF AcpInv, AcpTypeOK, News

LineType == [method : Methods \cup {"none"},
             stage : {"unread", "read", "dispatched", "answered"}, known : BOOLEAN]

ConnType == [initialized : BOOLEAN, eof : BOOLEAN, exited : BOOLEAN,
             exists : BOOLEAN, known : BOOLEAN, closed : BOOLEAN, kept : BOOLEAN]

(* A line that goes on, without a word to the session's set.               *)
LEMMA LineFrame ==
  ASSUME AcpInv, "acp" \in cast, cast = Alone, UNCHANGED <<cast, viewer>>,
         NEW l \in Lines, line[l].stage # "answered",
         line' \in [Lines -> LineType],
         \A k \in Lines : /\ line'[k].method = line[k].method
                          /\ k # l => line'[k] = line[k],
         conn' \in ConnType, conn'.known = conn.known, conn'.closed = conn.closed,
         \A a \in Askers \ Lines : ask'[a] = "idle"
  PROVE  AcpInv'
<1>1. News' = News
  BY DEF News
<1>2. \A k \in News : line[k].stage = "answered" => line'[k].stage = "answered"
  BY DEF News
<1> QED
  BY <1>1, <1>2 DEF AcpInv, AcpTypeOK, LineType, ConnType

LEMMA ReadKeeps ==
  ASSUME AcpInv, "acp" \in cast, cast = Alone, UNCHANGED <<cast, viewer>>,
         ReadLine \/ EndOfInput \/ Exit
  PROVE  AcpInv' /\ UNCHANGED turnVars
<1>0. UNCHANGED turnVars /\ ask' = ask
  BY DEF ReadLine, EndOfInput, Exit, turnVars
<1>1. CASE ReadLine
  <2>1. PICK l \in Lines, m \in Methods :
          /\ line[l].stage = "unread"
          /\ m = "new" => \A k \in Lines : line[k].method # "new"
          /\ line' = [line EXCEPT ![l] = [method |-> m, stage |-> "read", known |-> FALSE]]
    BY <1>1 DEF ReadLine
  <2>2. conn' = conn
    BY <1>1 DEF ReadLine
  <2>3. line' \in [Lines -> LineType]
    BY <2>1 DEF AcpInv, AcpTypeOK, LineType
  <2>4. \A k \in Lines : k # l => line'[k] = line[k]
    BY <2>1 DEF AcpInv, AcpTypeOK
  <2>5. line'[l].method = m
    BY <2>1 DEF AcpInv, AcpTypeOK
  <2>6. \A k, j \in News' : k = j
    BY <2>1, <2>4, <2>5 DEF News, AcpInv
  <2>7. \A k \in News : line[k].stage = "answered" => k \in News' /\ line'[k].stage = "answered"
    BY <2>1, <2>4 DEF News
  <2> QED
    BY <1>0, <2>2, <2>3, <2>6, <2>7 DEF AcpInv, AcpTypeOK, LineType
<1>2. CASE EndOfInput \/ Exit
  <2>1. /\ line' = line /\ conn' \in ConnType
        /\ conn'.known = conn.known /\ conn'.closed = conn.closed
    BY <1>2 DEF EndOfInput, Exit, AcpInv, AcpTypeOK, ConnType
  <2> QED
    BY <1>0, <2>1 DEF AcpInv, AcpTypeOK, News, ConnType
<1> QED
  BY <1>0, <1>1, <1>2

LEMMA Answered ==
  ASSUME AcpInv, NEW l \in Lines, NEW s \in {"answered", "dispatched"},
         line' = [line EXCEPT ![l].stage = s]
  PROVE  /\ line' \in [Lines -> LineType]
         /\ \A k \in Lines : line'[k].method = line[k].method /\ (k # l => line'[k] = line[k])
         /\ line'[l].stage = s
  BY DEF AcpInv, AcpTypeOK, LineType

LEMMA HandleKeeps ==
  ASSUME TurnsInv, AcpInv, "acp" \in cast, cast = Alone, UNCHANGED <<cast, viewer>>,
         NEW l \in Lines, Handle(l)
  PROVE  /\ AcpInv'
         /\ UNCHANGED turnVars \/ Revives \/ StopWorker \/ \E a \in Lines : Asks(a)
<1> USE LinesAssumption
<1> DEFINE Moves == UNCHANGED turnVars \/ Revives \/ StopWorker \/ \E a \in Lines : Asks(a)
           Idle == \A a \in Askers \ Lines : ask'[a] = "idle"
<1>a. conn \in ConnType /\ \A a \in Askers \ Lines : ask[a] = "idle"
  BY DEF AcpInv, AcpTypeOK, ConnType
<1>b. UNCHANGED turnVars \/ Revives \/ StopWorker => Idle
  BY <1>a, IdleStays
<1>c. ASSUME NEW a \in Lines, Asks(a) PROVE Idle
  BY <1>a, <1>c DEF Asks, GiveUp, Refuse, SendsOnly, Sends, TakesOnly, Takes, TurnsInv, TurnTypes
<1>1. CASE TooEarly(l) \/ Cancel(l)
  <2>1. /\ line' = [line EXCEPT ![l].stage = "answered"] /\ line[l].stage = "read"
        /\ UNCHANGED turnVars /\ conn' = conn
    BY <1>1 DEF TooEarly, Cancel, Answer, At
  <2> QED
    BY <1>a, <1>b, <2>1, Answered, LineFrame
<1>2. CASE Initialize(l)
  <2>1. /\ line' = [line EXCEPT ![l].stage = "answered"] /\ line[l].stage = "read"
        /\ UNCHANGED turnVars /\ conn' = [conn EXCEPT !.initialized = TRUE]
    BY <1>2 DEF Initialize, Answer, At
  <2>2. conn' \in ConnType /\ conn'.known = conn.known /\ conn'.closed = conn.closed
    BY <1>a, <2>1 DEF ConnType
  <2> QED
    BY <1>b, <2>1, <2>2, Answered, LineFrame
<1>3. CASE New(l)
  <2>1. line[l].stage = "read" /\ \E s \in {"answered", "dispatched"} : line' = [line EXCEPT ![l].stage = s]
    BY <1>3 DEF New, Answer, At
  <2>2. conn' \in ConnType /\ conn'.known = conn.known /\ conn'.closed = conn.closed
    BY <1>3, <1>a DEF New, ConnType
  <2>3. Revives \/ UNCHANGED turnVars
    BY <1>3 DEF New, Revives, turnVars
  <2> QED
    BY <1>b, <2>1, <2>2, <2>3, Answered, LineFrame
<1>4. CASE NewKnown(l)
  <2>1. /\ line' = [line EXCEPT ![l].stage = "answered"]
        /\ l \in News /\ line[l].stage = "dispatched"
        /\ UNCHANGED turnVars /\ conn' = [conn EXCEPT !.known = TRUE]
    BY <1>4 DEF NewKnown, Answer, At, News
  <2>2. ~conn.closed
    BY <2>1 DEF AcpInv
  <2>3. conn' \in ConnType /\ conn'.known = TRUE /\ conn'.closed = FALSE
    BY <1>a, <2>1, <2>2 DEF ConnType
  <2>4. News' = News /\ line' \in [Lines -> LineType] /\ line'[l].stage = "answered"
    BY ZenonT(30), <2>1, Answered DEF News
  <2> QED
    BY <1>b, <2>1, <2>3, <2>4 DEF AcpInv, AcpTypeOK, LineType, ConnType
<1>5. CASE Prompt(l)
  <2>1. line[l].stage = "read" /\ conn' = conn
    BY <1>5 DEF Prompt, At
  <2>2. CASE conn.known
    <3>1. /\ SendsOnly(l)
          /\ line' = [line EXCEPT ![l].stage = "dispatched", ![l].known = TRUE]
      BY <1>5, <2>2 DEF Prompt, SendsOnly
    <3>2. /\ line' \in [Lines -> LineType]
          /\ \A k \in Lines : line'[k].method = line[k].method /\ (k # l => line'[k] = line[k])
      BY ZenonT(30), <3>1 DEF AcpInv, AcpTypeOK, LineType
    <3>3. Asks(l)
      BY <3>1 DEF Asks
    <3> QED
      BY <1>a, <1>c, <2>1, <3>2, <3>3, LineFrame
  <2>3. CASE ~conn.known
    <3>1. line' = [line EXCEPT ![l].stage = "answered"] /\ UNCHANGED turnVars
      BY <1>5, <2>3 DEF Prompt, Answer, turnVars
    <3> QED
      BY <1>a, <1>b, <2>1, <3>1, Answered, LineFrame
  <2> QED
    BY <2>2, <2>3
<1>6. CASE PromptDone(l)
  <2>1. /\ line' = [line EXCEPT ![l].stage = "answered"] /\ line[l].stage = "dispatched"
        /\ conn' = conn /\ Asks(l)
    BY <1>6 DEF PromptDone, Answer, At, Asks, TakesOnly
  <2> QED
    BY <1>a, <1>c, <2>1, Answered, LineFrame
<1>7. CASE Close(l) \/ CloseFails(l)
  <2>1. line' = [line EXCEPT ![l].stage = "dispatched"] /\ line[l].stage = "read"
    BY <1>7 DEF Close, CloseFails, At
  <2>2. conn' \in ConnType /\ conn'.known = conn.known /\ conn'.closed = conn.closed
    BY <1>7, <1>a DEF Close, CloseFails, ConnType
  <2>3. StopWorker \/ UNCHANGED turnVars
    BY <1>7 DEF Close, CloseFails, turnVars
  <2> QED
    BY <1>b, <2>1, <2>2, <2>3, Answered, LineFrame
<1>8. CASE CloseDone(l)
  <2>1. /\ line' = [line EXCEPT ![l].stage = "answered"]
        /\ line[l].method = "close"
        /\ UNCHANGED turnVars
        /\ conn' = [conn EXCEPT !.known = FALSE, !.closed = conn.closed \/ conn.known]
    BY <1>8 DEF CloseDone, Answer, At, Removed
  <2>2. conn' \in ConnType /\ conn'.known = FALSE /\ conn'.closed = (conn.closed \/ conn.known)
    BY <1>a, <2>1 DEF ConnType
  <2>3. News' = News /\ line' \in [Lines -> LineType] /\ \A k \in News : line'[k] = line[k]
    BY <2>1, Answered DEF News
  <2> QED
    BY <1>b, <2>1, <2>2, <2>3 DEF AcpInv, AcpTypeOK, LineType, ConnType
<1> QED
  BY <1>1, <1>2, <1>3, <1>4, <1>5, <1>6, <1>7, <1>8 DEF Handle

-----------------------------------------------------------------------------
(* The viewer.                                                             *)

LEMMA UptoIs ==
  ASSUME NEW n \in Nat
  PROVE  /\ Upto(n) \in Seq(Nat) /\ Len(Upto(n)) = n
         /\ \A i \in 1..n : Upto(n)[i] = i
         /\ Append(Upto(n), n + 1) = Upto(n + 1)
<1>1. \A k \in Nat : Upto(k) \in Seq(Nat) /\ Len(Upto(k)) = k /\ \A i \in 1..k : Upto(k)[i] = i
  BY DEF Upto
<1>2. Append(Upto(n), n + 1) = Upto(n + 1)
  <2>1. Append(Upto(n), n + 1) \in Seq(Nat) /\ Len(Append(Upto(n), n + 1)) = n + 1
    BY <1>1
  <2>2. \A i \in 1..n + 1 : Append(Upto(n), n + 1)[i] = i
    BY <1>1
  <2> QED
    BY <1>1, <2>1, <2>2, SeqEqual
<1> QED
  BY <1>1, <1>2

(* A stretch of the transcript from its start is one up to its length.     *)
LEMMA Prefix ==
  ASSUME NEW s \in Seq(Nat), NEW t \in Seq(Nat), NEW n \in Nat, s \o t = Upto(n),
         NEW k \in 0..Len(t)
  PROVE  /\ SubSeq(t, 1, k) \in Seq(Nat)
         /\ s \o SubSeq(t, 1, k) = Upto(Len(s \o SubSeq(t, 1, k)))
<1> DEFINE u == SubSeq(t, 1, k)
<1>1. u \in Seq(Nat) /\ Len(u) = k /\ \A i \in 1..k : u[i] = t[i]
  OBVIOUS
<1>2. /\ s \o u \in Seq(Nat) /\ Len(s \o u) = Len(s) + k
      /\ \A i \in 1..Len(s) + k : (s \o u)[i] = IF i <= Len(s) THEN s[i] ELSE u[i - Len(s)]
  BY <1>1, ConcatProperties
<1>3. /\ Len(s) + Len(t) = n
      /\ \A i \in 1..n : i = IF i <= Len(s) THEN s[i] ELSE t[i - Len(s)]
  <2>1. /\ Len(s \o t) = Len(s) + Len(t)
        /\ \A i \in 1..Len(s) + Len(t) : (s \o t)[i] = IF i <= Len(s) THEN s[i] ELSE t[i - Len(s)]
    BY ConcatProperties
  <2>2. Len(Upto(n)) = n /\ \A i \in 1..n : Upto(n)[i] = i
    BY UptoIs
  <2> QED
    BY <2>1, <2>2
<1>7. Len(s) \in Nat /\ Len(t) \in Nat /\ k \in Nat /\ k <= Len(t) /\ Len(s) + k \in Nat
  OBVIOUS
<1>4. ASSUME NEW i \in 1..Len(s) + k
      PROVE  (s \o u)[i] = i
  <2>1. i \in 1..n
    BY <1>3, <1>7
  <2>2. CASE i <= Len(s)
    BY <1>2, <1>3, <2>1, <2>2
  <2>3. CASE ~(i <= Len(s))
    <3>1. i - Len(s) \in 1..k
      BY <1>7, <2>3
    <3>2. (s \o u)[i] = u[i - Len(s)] /\ u[i - Len(s)] = t[i - Len(s)]
      BY <1>1, <1>2, <2>3, <3>1
    <3> QED
      BY <1>3, <2>1, <2>3, <3>2
  <2> QED
    BY <2>2, <2>3
<1>5. /\ Upto(Len(s) + k) \in Seq(Nat) /\ Len(Upto(Len(s) + k)) = Len(s) + k
      /\ \A i \in 1..Len(s) + k : Upto(Len(s) + k)[i] = i
  BY <1>7, UptoIs
<1> HIDE DEF u
<1>6. s \o u = Upto(Len(s) + k)
  BY <1>2, <1>4, <1>5, SeqEqual
<1> QED
  BY <1>1, <1>2, <1>6 DEF u

LEMMA Regrouped ==
  ASSUME NEW s \in Seq(Nat), NEW t \in Seq(Nat), NEW u \in Seq(Nat)
  PROVE  s \o (t \o u) = (s \o t) \o u
BY SMTT(20)

LEMMA HeadThenTail ==
  ASSUME NEW s \in Seq(Nat), s # <<>>
  PROVE  /\ Head(s) \in Nat /\ Tail(s) \in Seq(Nat) /\ <<Head(s)>> \in Seq(Nat)
         /\ <<Head(s)>> \o Tail(s) = s
<1>1. Head(s) \in Nat /\ Tail(s) \in Seq(Nat) /\ Len(Tail(s)) = Len(s) - 1 /\ <<Head(s)>> \in Seq(Nat)
  OBVIOUS
<1>2. Len(s) \in Nat \ {0} /\ Head(s) = s[1] /\ \A i \in 1..Len(s) - 1 : Tail(s)[i] = s[i + 1]
  OBVIOUS
<1>3. /\ <<Head(s)>> \o Tail(s) \in Seq(Nat) /\ Len(<<Head(s)>> \o Tail(s)) = Len(s)
      /\ \A i \in 1..Len(s) : (<<Head(s)>> \o Tail(s))[i]
                               = IF i <= 1 THEN Head(s) ELSE Tail(s)[i - 1]
  BY <1>1, <1>2, ConcatProperties
<1>4. \A i \in 1..Len(s) : (<<Head(s)>> \o Tail(s))[i] = s[i]
  BY <1>2, <1>3
<1> QED
  BY <1>1, <1>3, <1>4, SeqEqual

(* What one sequence gives up at its head the other gains at its end.      *)
LEMMA Shifted ==
  ASSUME NEW s \in Seq(Nat), NEW t \in Seq(Nat), t # <<>>
  PROVE  /\ Append(s, Head(t)) \in Seq(Nat) /\ Tail(t) \in Seq(Nat)
         /\ Append(s, Head(t)) \o Tail(t) = s \o t
<1>1. Append(s, Head(t)) = s \o <<Head(t)>>
  BY HeadThenTail, AppendIsConcat
<1>2. Head(t) \in Nat /\ Tail(t) \in Seq(Nat) /\ <<Head(t)>> \in Seq(Nat)
      /\ <<Head(t)>> \o Tail(t) = t
  BY HeadThenTail
<1>3. s \o (<<Head(t)>> \o Tail(t)) = (s \o <<Head(t)>>) \o Tail(t)
  BY <1>2, Regrouped
<1>4. Append(s, Head(t)) \in Seq(Nat)
  BY <1>2
<1> QED
  BY <1>1, <1>2, <1>3, <1>4

ViewerType == [stage : Stages, wire : Seq(Nat), view : Seq(Nat)]

LEMMA ArrivingType ==
  ASSUME viewer \in ViewerType
  PROVE  Arriving \in Seq(Nat)
  BY ConcatProperties DEF Arriving, ViewerType

LEMMA ViewFrame ==
  ASSUME ViewInv, UNCHANGED <<viewer, events, log>>, spent'.unseen = spent.unseen,
         worker'.holder = Attacher <=> worker.holder = Attacher
  PROVE  ViewInv'
  BY DEF ViewInv, Arriving

LEMMA PublishedIs ==
  ASSUME TurnTypes, NEW n \in Nat
  PROVE  /\ ~events.on => Published(n) = events
         /\ events.on => Published(n).on /\ (~Published(n).lagged =>
              ~events.lagged /\ Published(n).ring = Append(events.ring, n))
  BY DEF TurnTypes, Published

LEMMA AppendKeepsView ==
  ASSUME TurnsInv, ViewInv, AppendEntry, viewer' = viewer
  PROVE  ViewInv'
<1> USE TurnsAssumption
<1>1. /\ log \in Nat /\ log' = log + 1 /\ events' = Published(log + 1)
      /\ worker'.holder = worker.holder /\ worker.holder # Attacher /\ spent' = spent
  BY DEF AppendEntry, InTurn, TurnsInv, TurnTypes
<1>2. viewer \in ViewerType /\ viewer.stage # "subscribing" /\ Arriving' = Arriving
  BY <1>1 DEF ViewInv, ViewerType, Arriving
<1>3. events'.on <=> events.on
  BY <1>1, PublishedIs DEF TurnsInv
<1>4. ~events'.on => events' = NoStream
  BY <1>1, <1>3, PublishedIs DEF TurnsInv, ViewInv
<1>5. (~spent.unseen /\ viewer.stage = "attached" /\ ~events'.lagged) =>
        Arriving \o events'.ring = Upto(log')
  <2> SUFFICES ASSUME ~spent.unseen, viewer.stage = "attached", ~events'.lagged
               PROVE  Arriving \o events'.ring = Upto(log + 1)
    BY <1>1
  <2>1. events.on
    BY DEF ViewInv
  <2>2. ~events.lagged /\ events'.ring = Append(events.ring, log + 1)
    BY <1>1, <2>1, PublishedIs DEF TurnsInv
  <2>3. Arriving \o events.ring = Upto(log)
    BY <2>2 DEF ViewInv
  <2>4. Arriving \in Seq(Nat) /\ events.ring \in Seq(Nat) /\ log + 1 \in Nat /\ <<log + 1>> \in Seq(Nat)
    BY <1>1, <1>2, ArrivingType DEF TurnsInv, TurnTypes
  <2>5. Append(events.ring, log + 1) = events.ring \o <<log + 1>>
    BY <2>4, AppendIsConcat
  <2>6. Arriving \o (events.ring \o <<log + 1>>) = (Arriving \o events.ring) \o <<log + 1>>
    BY ZenonT(30), <2>4, Regrouped
  <2>7. Upto(log) \o <<log + 1>> = Append(Upto(log), log + 1)
    BY <1>1, <2>4, UptoIs, AppendIsConcat
  <2> QED
    BY <1>1, <2>2, <2>3, <2>5, <2>6, <2>7, UptoIs
<1> QED
  BY <1>1, <1>2, <1>3, <1>4, <1>5 DEF ViewInv

LEMMA WorkerKeepsView ==
  ASSUME TurnsInv, ViewInv, WorkerStep, viewer' = viewer
  PROVE  ViewInv'
<1> USE TurnsAssumption
<1>1. CASE AppendEntry
  BY <1>1, AppendKeepsView
<1>2. ASSUME NEW a \in Askers, Begin(a)
      PROVE  ViewInv'
  BY <1>2, ViewFrame DEF Begin, LockIsFree
<1>3. CASE BeginAbandoned
  BY <1>3, ViewFrame DEF BeginAbandoned, LockIsFree
<1>4. CASE EndTurn
  <2>1. worker.holder # Attacher
    BY <1>4 DEF EndTurn, InTurn
  <2>2. worker'.holder = Nobody
    <3>1. Ends("ok") \/ Ends("error")
      BY <1>4 DEF EndTurn
    <3>2. worker' = [worker EXCEPT !.holder = Nobody, !.part = 0]
      BY <3>1 DEF Ends
    <3> QED
      BY <3>2 DEF TurnsInv, TurnTypes
  <2> QED
    BY <1>4, <2>1, <2>2, ViewFrame DEF EndTurn
<1>5. CASE StateUnwritten
  <2>1. /\ worker.holder # Attacher /\ worker'.holder = Nobody
        /\ spent'.unseen = TRUE /\ events' = events
    BY <1>5 DEF StateUnwritten, InTurn, Ends, TurnsInv, TurnTypes
  <2> QED
    BY <2>1 DEF ViewInv
<1> QED
  BY <1>1, <1>2, <1>3, <1>4, <1>5 DEF WorkerStep

LEMMA AsksKeepView ==
  ASSUME TurnsInv, ViewInv, NEW a \in Askers, Asks(a), viewer' = viewer
  PROVE  ViewInv'
<1> USE TurnsAssumption
<1>1. UNCHANGED <<events, log>> /\ spent'.unseen = spent.unseen
  BY DEF Asks, GiveUp, Refuse, SendsOnly, Sends, TakesOnly, Takes, TurnsInv, TurnTypes
<1>2. worker'.holder = Attacher <=> worker.holder = Attacher
  <2>1. CASE GiveUp(a)
    <3>1. ask[a] = "turn" => worker.holder = a
      BY DEF TurnsInv, Held
    <3> QED
      BY <2>1, <3>1 DEF GiveUp, Bounded, TurnsInv, TurnTypes
  <2>2. CASE ~GiveUp(a)
    BY <2>2 DEF Asks, Refuse, SendsOnly, TakesOnly
  <2> QED
    BY <2>1, <2>2
<1> QED
  BY <1>1, <1>2, ViewFrame

LEMMA OthersKeepView ==
  ASSUME TurnsInv, ViewInv, viewer' = viewer,
         \/ UNCHANGED turnVars \/ GoalSet \/ Revives
         \/ StopWorker /\ viewer.stage = "off"
  PROVE  ViewInv'
<1> USE TurnsAssumption
<1>1. CASE UNCHANGED turnVars
  BY <1>1, ViewFrame DEF turnVars
<1>2. CASE GoalSet \/ Revives
  <2>1. /\ UNCHANGED <<events, log, spent>>
        /\ worker'.holder = worker.holder
    BY <1>2 DEF GoalSet, UpdateGoal, Revives, TurnsInv, TurnTypes
  <2> QED
    BY <2>1, ViewFrame
<1>3. CASE StopWorker /\ viewer.stage = "off"
  <2>1. UNCHANGED <<log, spent>> /\ worker'.holder = Nobody /\ events' = NoStream
    BY <1>3 DEF StopWorker, Down
  <2>2. worker.holder # Attacher /\ events = NoStream
    BY <1>3 DEF ViewInv
  <2> QED
    BY <2>1, <2>2, ViewFrame
<1> QED
  BY <1>1, <1>2, <1>3

LEMMA CutKeepsView ==
  ASSUME TurnsInv, ViewInv, StopWorker \/ CrashWorker, CutOff
  PROVE  ViewInv'
<1> USE TurnsAssumption
<1>1. /\ log' = log /\ worker'.holder = Nobody /\ events' = NoStream /\ ~events'.on
      /\ spent'.unseen = spent.unseen
  BY DEF StopWorker, CrashWorker, Down, NoStream, TurnsInv, TurnTypes
<1>2. viewer \in ViewerType /\ Arriving \in Seq(Nat)
  BY ArrivingType DEF ViewInv, ViewerType
<1>3. CASE viewer.stage \notin {"attached", "subscribing"} /\ UNCHANGED viewer
  BY <1>1, <1>3 DEF ViewInv, Arriving
<1>4. CASE viewer.stage = "subscribing" /\ viewer' = [viewer EXCEPT !.stage = "closing"]
  <2>1. viewer' \in ViewerType /\ viewer'.stage = "closing" /\ Arriving' = Arriving
    BY <1>2, <1>4 DEF ViewerType, Stages, Arriving
  <2> QED
    BY <1>1, <2>1 DEF ViewInv, ViewerType
<1>5. CASE viewer.stage = "attached"
  <2>1. PICK k \in 0..Len(events.ring) :
          /\ k > 0 => ~FellBehind
          /\ viewer' = [viewer EXCEPT !.stage = "closing",
                                      !.wire = @ \o SubSeq(events.ring, 1, k)]
    BY <1>5 DEF CutOff
  <2> DEFINE u == SubSeq(events.ring, 1, k)
  <2>2. events.ring \in Seq(Nat) /\ u \in Seq(Nat)
    BY DEF TurnsInv, TurnTypes
  <2>3. viewer.wire \o u \in Seq(Nat)
    BY <1>2, <2>2, ConcatProperties DEF ViewerType
  <2>4. viewer'.stage = "closing" /\ viewer'.view = viewer.view /\ viewer'.wire = viewer.wire \o u
    BY <1>2, <2>1 DEF ViewerType
  <2>5. viewer' \in ViewerType
    <3>1. viewer' = [[viewer EXCEPT !.stage = "closing"] EXCEPT !.wire = viewer.wire \o u]
      BY <1>2, <2>1 DEF ViewerType
    <3> QED
      BY <1>2, <2>3, <3>1 DEF ViewerType, Stages
  <2>6. Arriving' = Arriving \o u
    <3>1. viewer.view \in Seq(Nat) /\ viewer.wire \in Seq(Nat)
      BY <1>2 DEF ViewerType
    <3> HIDE DEF u
    <3>2. viewer.view \o (viewer.wire \o u) = (viewer.view \o viewer.wire) \o u
      BY ZenonT(30), <2>2, <3>1, Regrouped
    <3> QED
      BY <2>4, <3>2 DEF Arriving
  <2>7. ASSUME ~spent.unseen PROVE Arriving \o u = Upto(Len(Arriving \o u))
    <3>1. CASE k = 0
      <4>1. u = <<>>
        BY <3>1, SubSeqEmpty
      <4>2. Arriving \o u = Arriving
        BY <1>2, <4>1, ConcatEmptySeq
      <4> QED
        BY <2>7, <4>2 DEF ViewInv
    <3>2. CASE k > 0
      <4>1. Arriving \o events.ring = Upto(log) /\ log \in Nat
        BY <1>5, <2>1, <2>7, <3>2 DEF ViewInv, FellBehind, TurnsInv, TurnTypes
      <4> QED
        BY <1>2, <2>1, <2>2, <4>1, Prefix
    <3> QED
      BY <2>1, <3>1, <3>2
  <2> HIDE DEF u
  <2> QED
    BY <1>1, <2>4, <2>5, <2>6, <2>7 DEF ViewInv, ViewerType
<1> QED
  BY <1>3, <1>4, <1>5 DEF CutOff

LEMMA ViewerKeeps ==
  ASSUME TurnsInv, ViewInv, ViewerStep
  PROVE  ViewInv' /\ (UNCHANGED turnVars \/ Streams)
<1> USE TurnsAssumption
<1>a. viewer \in ViewerType /\ Arriving \in Seq(Nat) /\ viewer.wire \in Seq(Nat) /\ viewer.view \in Seq(Nat)
  BY ArrivingType DEF ViewInv, ViewerType
<1>b. log \in Nat /\ events.ring \in Seq(Nat)
  BY DEF TurnsInv, TurnTypes
<1>1. CASE AskToAttach \/ ShowEnd
  <2>1. /\ UNCHANGED turnVars /\ Arriving' = Arriving /\ viewer' \in ViewerType
        /\ viewer'.wire = viewer.wire /\ viewer.stage \in {"off", "closing"}
        /\ viewer'.stage \in {"asked", "ended"} /\ viewer.wire = <<>>
    BY <1>1, <1>a DEF AskToAttach, ShowEnd, ViewerType, Stages, Arriving, ViewInv
  <2>2. UNCHANGED <<log, events, spent, worker>>
    BY <2>1 DEF turnVars
  <2> QED
    BY <2>1, <2>2 DEF ViewInv, ViewerType
<1>2. CASE TakeSnapshot
  <2>1. /\ viewer' = [stage |-> "subscribing", wire |-> <<>>, view |-> Upto(log)]
        /\ UNCHANGED <<log, events, spent>> /\ worker'.holder = Attacher /\ viewer.stage = "asked"
    BY <1>2 DEF TakeSnapshot, AttachLocked, TurnsInv, TurnTypes
  <2>2. Upto(log) \in Seq(Nat) /\ Len(Upto(log)) = log /\ <<>> \in Seq(Nat)
    <3>1. <<>> \in Seq(Nat)
      OBVIOUS
    <3> QED
      BY <1>b, <3>1, UptoIs, Zenon
  <2>3. viewer' \in ViewerType
    BY <2>1, <2>2 DEF ViewerType, Stages
  <2>4. Arriving' = Upto(log)
    BY <2>1, <2>2, ConcatEmptySeq DEF Arriving
  <2> QED
    BY <1>2, <2>1, <2>2, <2>3, <2>4 DEF ViewInv, ViewerType, Streams
<1>3. CASE Subscribe
  <2>1. /\ events' = [on |-> TRUE, ring |-> <<>>, lagged |-> FALSE]
        /\ viewer' = [viewer EXCEPT !.stage = "attached"] /\ viewer.stage = "subscribing"
        /\ UNCHANGED <<log, spent>>
    BY <1>3 DEF Subscribe, NoStream
  <2>2. worker'.holder = Nobody
    BY <1>3, <2>1 DEF Subscribe, ViewInv, TurnsInv, TurnTypes
  <2>3. viewer' \in ViewerType /\ viewer'.stage = "attached" /\ Arriving' = Arriving
    BY <2>1, <1>a DEF ViewerType, Stages, Arriving
  <2>4. Arriving \o <<>> = Arriving
    BY <1>a, ConcatEmptySeq
  <2> QED
    BY <1>3, <2>1, <2>2, <2>3, <2>4 DEF ViewInv, ViewerType, Streams
<1>4. CASE Forward
  <2> DEFINE r == events.ring
  <2>1. /\ viewer.stage = "attached" /\ r # <<>> /\ ~events.lagged
        /\ viewer' = [viewer EXCEPT !.wire = Append(viewer.wire, Head(r))]
        /\ events' = [events EXCEPT !.ring = Tail(r), !.lagged = FALSE]
        /\ UNCHANGED <<worker, log, spent>>
    BY <1>4 DEF Forward, FellBehind
  <2>2. Append(viewer.wire, Head(r)) \in Seq(Nat) /\ Head(r) \in Nat
    BY <2>1, <1>a, <1>b, HeadThenTail, AppendProperties DEF TurnsInv, TurnTypes
  <2>3. /\ viewer' \in ViewerType /\ viewer'.stage = "attached"
        /\ viewer'.view = viewer.view /\ viewer'.wire = Append(viewer.wire, Head(r))
    BY <2>1, <2>2, <1>a DEF ViewerType
  <2>4. events'.on = events.on /\ events'.ring = Tail(r)
    BY <2>1 DEF TurnsInv, TurnTypes
  <2>5. Arriving' = Append(Arriving, Head(r))
    <3>1. r \in Seq(Nat) /\ <<Head(r)>> \in Seq(Nat)
      BY <2>1, HeadThenTail DEF TurnsInv, TurnTypes
    <3>2. Append(viewer.wire, Head(r)) = viewer.wire \o <<Head(r)>>
      BY <1>a, <2>2, AppendIsConcat
    <3>3. viewer.view \o (viewer.wire \o <<Head(r)>>) = Arriving \o <<Head(r)>>
      BY <1>a, <3>1, Regrouped DEF Arriving
    <3>4. Append(Arriving, Head(r)) = Arriving \o <<Head(r)>>
      BY <1>a, <2>2, AppendIsConcat
    <3> QED
      BY <2>3, <3>2, <3>3, <3>4 DEF Arriving
  <2>6. ASSUME ~spent.unseen
        PROVE  /\ Arriving' \o Tail(r) = Upto(log)
               /\ Arriving' = Upto(Len(Arriving'))
    <3>1. r \in Seq(Nat) /\ Arriving \o r = Upto(log) /\ log \in Nat
      BY <2>1, <2>6 DEF ViewInv, TurnsInv, TurnTypes
    <3>2. Arriving' \o Tail(r) = Upto(log) /\ Arriving' \in Seq(Nat) /\ Tail(r) \in Seq(Nat)
      BY <1>a, <2>1, <2>5, <3>1, Shifted
    <3>3. Arriving' \o SubSeq(Tail(r), 1, 0) = Upto(Len(Arriving' \o SubSeq(Tail(r), 1, 0)))
      <4>1. PICK s \in Seq(Nat), t \in Seq(Nat), n \in Nat :
              s = Arriving' /\ t = Tail(r) /\ n = log
        BY <3>1, <3>2
      <4>2. s \o t = Upto(n) /\ 0 \in 0..Len(t)
        BY <3>2, <4>1
      <4>3. s \o SubSeq(t, 1, 0) = Upto(Len(s \o SubSeq(t, 1, 0)))
        BY <4>2, Prefix
      <4> QED
        BY <4>1, <4>3
    <3>4. Arriving' \o SubSeq(Tail(r), 1, 0) = Arriving'
      BY <3>2, SubSeqEmpty, ConcatEmptySeq
    <3> QED
      BY <3>2, <3>3, <3>4
  <2>7. ViewInv'
    BY <2>1, <2>3, <2>4, <2>6 DEF ViewInv, ViewerType
  <2> QED
    BY <1>4, <2>7 DEF Streams
<1>5. CASE EndStream
  <2>1. /\ viewer.stage = "attached" /\ viewer' = [viewer EXCEPT !.stage = "closing"]
        /\ events' = NoStream /\ ~events'.on /\ UNCHANGED <<worker, log, spent>>
    BY <1>5 DEF EndStream, NoStream
  <2>2. viewer' \in ViewerType /\ viewer'.stage = "closing" /\ Arriving' = Arriving
    BY <2>1, <1>a DEF ViewerType, Stages, Arriving
  <2> QED
    BY <1>5, <2>1, <2>2 DEF ViewInv, ViewerType, Streams
<1>6. CASE Show
  <2>1. /\ viewer.wire # <<>> /\ UNCHANGED turnVars
        /\ viewer' = [viewer EXCEPT !.wire = Tail(viewer.wire),
                                    !.view = Append(viewer.view, Head(viewer.wire))]
    BY <1>6 DEF Show
  <2>2. /\ Append(viewer.view, Head(viewer.wire)) \in Seq(Nat) /\ Tail(viewer.wire) \in Seq(Nat)
        /\ Append(viewer.view, Head(viewer.wire)) \o Tail(viewer.wire) = Arriving
    BY <1>a, <2>1, Shifted DEF Arriving
  <2>3. /\ viewer'.stage = viewer.stage /\ viewer'.wire = Tail(viewer.wire)
        /\ viewer'.view = Append(viewer.view, Head(viewer.wire))
    BY <1>a, <2>1 DEF ViewerType
  <2>4. viewer' \in ViewerType
    <3>1. viewer' = [[viewer EXCEPT !.wire = Tail(viewer.wire)]
                       EXCEPT !.view = Append(viewer.view, Head(viewer.wire))]
      BY <1>a, <2>1 DEF ViewerType
    <3> QED
      BY <1>a, <2>2, <3>1 DEF ViewerType
  <2>5. Arriving' = Arriving
    BY <2>2, <2>3 DEF Arriving
  <2>6. UNCHANGED <<log, events, spent, worker>>
    BY <2>1 DEF turnVars
  <2> QED
    BY <2>1, <2>3, <2>4, <2>5, <2>6 DEF ViewInv, ViewerType
<1> QED
  BY <1>1, <1>2, <1>3, <1>4, <1>5, <1>6 DEF ViewerStep

-----------------------------------------------------------------------------
(* The REPL.                                                               *)

ReplType ==
  [stage : {"running", "prompting", "inline", "login", "done"},
   received : Nat, queue : Seq(Nat), readerDone : BOOLEAN,
   file : Nat, answers : {0, 1}, why : {"none", "eof", "error", "exit"},
   eaten : SUBSET Nat, sent : Seq([line : Nat, file : Nat])]

LEMMA LastSentIs ==
  ASSUME ReplInv
  PROVE  /\ LastSent \in Nat
         /\ \A i \in 1..Len(repl.sent) : repl.sent[i].line \in 1..LastSent
<1>1. repl.sent \in Seq([line : Nat, file : Nat])
  BY DEF ReplInv, ReplTypes
<1>2. LastSent \in Nat
  <2>1. CASE repl.sent = <<>>
    BY <2>1 DEF LastSent
  <2>2. CASE repl.sent # <<>>
    <3>1. Len(repl.sent) \in 1..Len(repl.sent)
      BY <1>1, <2>2
    <3>2. repl.sent[Len(repl.sent)] \in [line : Nat, file : Nat]
      BY <1>1, <3>1, ElementOfSeq
    <3> QED
      BY <2>2, <3>2 DEF LastSent
  <2> QED
    BY <2>1, <2>2
<1>3. ASSUME NEW i \in 1..Len(repl.sent)
      PROVE  repl.sent[i].line \in 1..LastSent
  <2>1. \A j \in 1..Len(repl.sent) : repl.sent[j].line \in Nat
    <3>1. ASSUME NEW j \in 1..Len(repl.sent)
          PROVE  repl.sent[j] \in [line : Nat, file : Nat]
      BY <1>1, ElementOfSeq
    <3> QED
      BY <3>1
  <2>2. i - 1 \in 1..Len(repl.sent) \/ i = 1
    BY <1>1
  <2>3. (IF i = 1 THEN 0 ELSE repl.sent[i - 1].line) < repl.sent[i].line /\ repl.sent[i].line <= LastSent
    BY DEF ReplInv, Filed
  <2>4. (IF i = 1 THEN 0 ELSE repl.sent[i - 1].line) \in Nat
    BY <2>1, <2>2
  <2> QED
    BY <1>2, <2>1, <2>3, <2>4
<1> QED
  BY <1>2, <1>3

(* Only the stage, the reader's end and the answers of a login change.     *)
LEMMA ReplFrame ==
  ASSUME ReplInv, typed' = typed, repl' \in ReplType,
         UNCHANGED <<repl.received, repl.queue, repl.file, repl.eaten, repl.sent>>,
         repl.stage # "done",
         repl'.stage = "done" /\ repl'.why = "eof" =>
           typed.eof /\ repl.queue = <<>> /\ repl.received = Len(typed.kinds)
  PROVE  ReplInv'
<1>1. ReplTypes'
  BY DEF ReplInv, ReplTypes, ReplType
<1>2. LastSent' = LastSent /\ Texts' = Texts /\ SentLines' = SentLines /\ QueuedLines' = QueuedLines
  BY DEF LastSent, Texts, Kind, SentLines, QueuedLines
<1>3. InOrder'
  BY <1>2 DEF ReplInv, InOrder, Kind
<1>4. Filed'
  BY <1>2 DEF ReplInv, Filed, FilesBetween, Kind
<1>5. NoneLost'
  BY <1>2 DEF ReplInv, NoneLost
<1> QED
  BY <1>1, <1>3, <1>4, <1>5 DEF ReplInv

(* More is typed: what was received stays what it was.                     *)
Longer ==
  /\ typed' \in [kinds : Seq(Kinds), eof : BOOLEAN] /\ Len(typed'.kinds) <= MaxTyped
  /\ Len(typed.kinds) <= Len(typed'.kinds)
  /\ \A i \in 1..Len(typed.kinds) : typed'.kinds[i] = typed.kinds[i]

LEMMA TypeKeeps ==
  ASSUME ReplInv, Type
  PROVE  ReplInv'
<1> USE ReplAssumption
<1>1. repl' = repl /\ ~typed.eof
  BY DEF Type
<1>2. Longer
  <2>1. typed \in [kinds : Seq(Kinds), eof : BOOLEAN] /\ Len(typed.kinds) <= MaxTyped
    BY DEF ReplInv, ReplTypes
  <2>2. ASSUME NEW k \in Kinds, Len(typed.kinds) < MaxTyped,
               typed' = [typed EXCEPT !.kinds = Append(typed.kinds, k)]
        PROVE  Longer
    <3> DEFINE more == Append(typed.kinds, k)
    <3>1. /\ more \in Seq(Kinds) /\ Len(more) = Len(typed.kinds) + 1
          /\ \A i \in 1..Len(typed.kinds) : more[i] = typed.kinds[i]
      BY <2>1, AppendProperties
    <3>2. Len(typed.kinds) \in Nat
      BY <2>1
    <3> HIDE DEF more
    <3> QED
      BY SMTT(20), <2>1, <2>2, <3>1, <3>2 DEF more, Longer
  <2>3. CASE typed' = [typed EXCEPT !.eof = TRUE]
    <3>1. typed'.kinds = typed.kinds /\ typed' \in [kinds : Seq(Kinds), eof : BOOLEAN]
      BY <2>1, <2>3
    <3>2. Len(typed.kinds) \in Nat
      BY <2>1
    <3> QED
      BY <2>1, <3>1, <3>2 DEF Longer
  <2> QED
    BY <2>2, <2>3 DEF Type
<1>3. repl.received \in Nat /\ Len(typed.kinds) \in Nat /\ Len(typed'.kinds) \in Nat
  BY <1>2 DEF ReplInv, ReplTypes, Longer
<1>4. \A i \in 1..repl.received : /\ i \in 1..Len(typed.kinds) /\ i \in 1..Len(typed'.kinds)
                                  /\ typed'.kinds[i] = typed.kinds[i]
  BY <1>2, <1>3 DEF ReplInv, InOrder, Longer
<1>5. ReplTypes'
  BY <1>1, <1>2 DEF ReplInv, ReplTypes, Longer
<1>6. LastSent' = LastSent /\ SentLines' = SentLines /\ QueuedLines' = QueuedLines
  BY <1>1 DEF LastSent, SentLines, QueuedLines
<1>7. InOrder'
  <2>1. repl.received <= Len(typed'.kinds)
    BY <1>2, <1>3 DEF ReplInv, InOrder, Longer
  <2>2. LastSent \in Nat
    BY LastSentIs
  <2>3. repl.file # 0 => Kind(repl.file)' = "file"
    <3>1. repl.file # 0 => repl.file \in 1..repl.received
      BY <1>3, <2>2 DEF ReplInv, InOrder
    <3> QED
      BY <1>1, <1>4, <3>1 DEF ReplInv, InOrder, Kind
  <2> QED
    BY <1>1, <1>6, <2>1, <2>3 DEF ReplInv, InOrder
<1>8. LastSent \in Nat /\ LastSent <= repl.received /\ \A l \in SentLines : l \in 1..LastSent
  BY LastSentIs DEF ReplInv, InOrder, SentLines
<1>9. Filed'
  <2>1. \A k \in Nat, l \in 1..LastSent : FilesBetween(k + 1, l)' = FilesBetween(k + 1, l)
    BY SMTT(20), <1>1, <1>3, <1>4, <1>8 DEF FilesBetween, Kind
  <2>2. ASSUME NEW i \in 1..Len(repl.sent)
        PROVE  /\ (IF i = 1 THEN 0 ELSE repl.sent[i - 1].line) \in Nat
               /\ repl.sent[i].line \in 1..LastSent
    <3>1. i - 1 \in 1..Len(repl.sent) \/ i = 1
      BY DEF ReplInv, ReplTypes
    <3> QED
      BY <1>8, <3>1, LastSentIs
  <2> QED
    BY <1>1, <1>6, <2>1, <2>2 DEF ReplInv, Filed
<1>10. \A l \in 1..repl.received : l \in Texts' <=> l \in Texts
  BY <1>1, <1>4 DEF Texts, Kind
<1>11. \A l \in SentLines : l \in 1..repl.received
  BY <1>3, <1>8
<1>12. \A l \in Texts' : l <= repl.received => l \in 1..repl.received
  BY <1>3 DEF Texts
<1>13. NoneLost'
  BY <1>1, <1>6, <1>10, <1>11, <1>12 DEF ReplInv, NoneLost
<1> QED
  BY <1>5, <1>7, <1>9, <1>13 DEF ReplInv

(* A line is received, and queued.                                         *)
LEMMA QueueKeeps ==
  ASSUME ReplInv, QueueLine
  PROVE  ReplInv'
<1> USE ReplAssumption
<1>a. /\ typed' = typed /\ repl \in ReplType /\ repl.queue \in Seq(Nat) /\ repl.received \in Nat
      /\ Len(typed.kinds) \in Nat /\ Len(repl.queue) \in Nat /\ repl.file \in Nat
  BY DEF QueueLine, ReplInv, ReplTypes, ReplType
<1>1. CASE repl' = [repl EXCEPT !.readerDone = TRUE] /\ repl.stage = "prompting"
  BY <1>a, <1>1, ReplFrame DEF ReplType
<1>2. CASE /\ Arrived /\ repl.stage = "prompting"
           /\ repl' = [repl EXCEPT !.received = @ + 1, !.queue = Queued(repl.received + 1)]
  <2> DEFINE n == repl.received + 1
             more == Append(repl.queue, n)
  <2>1. n \in Nat /\ n <= Len(typed.kinds) /\ repl.received < n
    BY <1>a, <1>2 DEF Arrived
  <2>2. /\ more \in Seq(Nat) /\ Len(more) = Len(repl.queue) + 1
        /\ \A i \in 1..Len(repl.queue) : more[i] = repl.queue[i]
        /\ more[Len(repl.queue) + 1] = n
    BY <1>a, <2>1, AppendProperties
  <2>3. repl' = [[repl EXCEPT !.received = n] EXCEPT !.queue = more]
    BY <1>a, <1>2 DEF Queued, ReplType
  <2> HIDE DEF n, more
  <2>4. /\ repl' \in ReplType /\ repl'.received = n /\ repl'.queue = more
        /\ UNCHANGED <<repl.stage, repl.file, repl.eaten, repl.sent, repl.why>>
    BY <1>a, <2>1, <2>2, <2>3 DEF ReplType
  <2>5. LastSent' = LastSent /\ Texts' = Texts /\ SentLines' = SentLines
    BY <1>a, <2>4 DEF LastSent, Texts, Kind, SentLines
  <2>6. LastSent \in Nat /\ LastSent <= repl.received
    BY LastSentIs DEF ReplInv, InOrder
  <2>7. \A l \in repl.eaten : l \in 1..repl.received
    BY DEF ReplInv, InOrder
  <2>8. ASSUME NEW i \in 1..Len(more)
        PROVE  /\ more[i] \in 1..n /\ more[i] \notin repl.eaten
               /\ LastSent < more[i] /\ repl.file < more[i]
    <3>1. CASE i \in 1..Len(repl.queue)
      <4>1. /\ repl.queue[i] \in 1..repl.received /\ repl.queue[i] \notin repl.eaten
            /\ LastSent < repl.queue[i] /\ repl.file < repl.queue[i]
        BY <3>1 DEF ReplInv, InOrder
      <4> QED
        <5>1. more[i] = repl.queue[i]
          BY <2>2, <3>1
        <5>2. repl.queue[i] \in 1..n
          BY <1>a, <2>1, <4>1
        <5> QED
          BY <4>1, <5>1, <5>2
    <3>2. CASE i = Len(repl.queue) + 1
      <4>1. repl.file <= repl.received
        BY <1>a, <2>6 DEF ReplInv, InOrder
      <4>2. n \in 1..n /\ n \notin repl.eaten
        BY <1>a, <2>1, <2>7
      <4> QED
        BY SMTT(20), <1>a, <2>1, <2>2, <2>6, <3>2, <4>1, <4>2
    <3> QED
      BY SMTT(20), <1>a, <2>2, <3>1, <3>2
  <2>9. ASSUME NEW i \in 1..Len(more), NEW j \in 1..Len(more), i < j
        PROVE  more[i] < more[j]
    <3>1. i \in 1..Len(repl.queue) /\ more[i] = repl.queue[i] /\ repl.queue[i] \in 1..repl.received
      <4>1. i \in 1..Len(repl.queue)
        BY <1>a, <2>2, <2>9
      <4>2. repl.queue[i] \in 1..repl.received
        BY <4>1 DEF ReplInv, InOrder
      <4> QED
        BY <2>2, <4>1, <4>2
    <3>2. CASE j \in 1..Len(repl.queue)
      BY <2>2, <2>9, <3>1, <3>2 DEF ReplInv, InOrder
    <3>3. CASE j = Len(repl.queue) + 1
      <4>1. more[j] = n /\ more[i] \in 1..repl.received
        BY <2>2, <3>1, <3>3
      <4> QED
        BY <1>a, <2>1, <4>1
    <3> QED
      BY <1>a, <2>2, <3>2, <3>3
  <2>10. InOrder'
    <3>1. repl.eaten \subseteq 1..n
      BY <1>a, <2>1, <2>7
    <3>2. repl.file # 0 => repl.file \in LastSent + 1..n /\ repl.file \notin repl.eaten /\ Kind(repl.file)' = "file"
      <4>1. repl.file # 0 => /\ repl.file \in LastSent + 1..repl.received
                            /\ repl.file \notin repl.eaten /\ Kind(repl.file) = "file"
        BY DEF ReplInv, InOrder
      <4>2. Kind(repl.file)' = Kind(repl.file)
        BY <1>a, <2>4 DEF Kind
      <4> QED
        BY <1>a, <2>1, <2>6, <4>1, <4>2
    <3> QED
      BY <1>a, <2>1, <2>4, <2>5, <2>6, <2>8, <2>9, <3>1, <3>2 DEF InOrder
  <2>11. Filed'
    BY <1>a, <2>4, <2>5 DEF ReplInv, Filed, FilesBetween, Kind
  <2>12. NoneLost'
    <3>1. \A l \in QueuedLines : l \in QueuedLines'
      <4> SUFFICES ASSUME NEW i \in 1..Len(repl.queue)
                   PROVE  repl.queue[i] \in QueuedLines'
        BY DEF QueuedLines
      <4>1. i \in 1..Len(more) /\ more[i] = repl.queue[i]
        BY <1>a, <2>2
      <4> QED
        BY <2>4, <4>1 DEF QueuedLines
    <3>2. n \in QueuedLines'
      <4>1. Len(repl.queue) + 1 \in 1..Len(more)
        BY <1>a, <2>2
      <4> QED
        BY <2>2, <2>4, <4>1 DEF QueuedLines
    <3>3. \A l \in Texts : l <= n => l <= repl.received \/ l = n
      BY <1>a, <2>1 DEF Texts, n
    <3> QED
      BY <1>a, <1>2, <2>4, <2>5, <3>1, <3>2, <3>3 DEF ReplInv, NoneLost
  <2> QED
    BY <1>a, <2>4, <2>10, <2>11, <2>12 DEF ReplInv, ReplTypes, ReplType
<1> QED
  BY <1>1, <1>2 DEF QueueLine

(* A login's answer is received, and eaten.                                *)
LEMMA EatKeeps ==
  ASSUME ReplInv, LoginAnswer
  PROVE  ReplInv'
<1> USE ReplAssumption
<1>a. /\ typed' = typed /\ repl \in ReplType /\ repl.queue \in Seq(Nat) /\ repl.received \in Nat
      /\ Len(typed.kinds) \in Nat /\ Len(repl.queue) \in Nat /\ repl.file \in Nat
      /\ repl.stage = "login"
  <2>1. typed' = typed /\ repl.stage = "login"
    BY DEF LoginAnswer
  <2> QED
    BY <2>1 DEF ReplInv, ReplTypes, ReplType
<1>1. CASE repl' = [repl EXCEPT !.readerDone = TRUE, !.stage = "running", !.answers = 0]
  <2>1. repl' = [[[repl EXCEPT !.readerDone = TRUE] EXCEPT !.stage = "running"] EXCEPT !.answers = 0]
    BY <1>a, <1>1 DEF ReplType
  <2> QED
    BY <1>a, <2>1, ReplFrame DEF ReplType
<1>2. CASE /\ Arrived
           /\ \E more \in {n \in {1} : repl.answers = 0} \cup {0} :
                repl' = [repl EXCEPT !.received = @ + 1, !.eaten = @ \cup {repl.received + 1},
                                     !.answers = more,
                                     !.stage = IF more = 1 THEN "login" ELSE "running"]
  <2> DEFINE n == repl.received + 1
             gone == repl.eaten \cup {n}
  <2>1. n \in Nat /\ n <= Len(typed.kinds) /\ repl.received < n
    BY <1>a, <1>2 DEF Arrived
  <2>2. PICK more \in {0, 1}, s \in {"login", "running"} :
          repl' = [[[[repl EXCEPT !.received = n] EXCEPT !.eaten = gone] EXCEPT !.answers = more]
                     EXCEPT !.stage = s]
    BY <1>a, <1>2 DEF ReplType
  <2>3. gone \in SUBSET Nat
    BY <1>a, <2>1 DEF ReplType
  <2>0. n = repl.received + 1 /\ gone = repl.eaten \cup {n}
    OBVIOUS
  <2> HIDE DEF n, gone
  <2>4. /\ repl' \in ReplType /\ repl'.received = n /\ repl'.eaten = gone
        /\ UNCHANGED <<repl.queue, repl.file, repl.sent>> /\ repl'.stage # "done"
    BY <1>a, <2>1, <2>2, <2>3 DEF ReplType
  <2>5. LastSent' = LastSent /\ Texts' = Texts \ {n} /\ SentLines' = SentLines /\ QueuedLines' = QueuedLines
    BY <1>a, <2>0, <2>4 DEF LastSent, Texts, Kind, SentLines, QueuedLines
  <2>6. /\ LastSent \in Nat /\ LastSent <= repl.received
        /\ \A i \in 1..Len(repl.sent) : repl.sent[i].line \in 1..LastSent
    BY LastSentIs DEF ReplInv, InOrder
  <2>7. InOrder'
    <3>1. gone \subseteq 1..n
      BY <1>a, <2>0, <2>1 DEF ReplInv, InOrder
    <3>2. repl.file # 0 => repl.file \in LastSent + 1..n /\ repl.file \notin gone /\ Kind(repl.file)' = "file"
      <4>1. repl.file # 0 => /\ repl.file \in LastSent + 1..repl.received
                            /\ repl.file \notin repl.eaten /\ Kind(repl.file) = "file"
        BY DEF ReplInv, InOrder
      <4>2. Kind(repl.file)' = Kind(repl.file)
        BY <1>a, <2>4 DEF Kind
      <4> QED
        BY <1>a, <2>0, <2>1, <2>6, <4>1, <4>2
    <3>3. ASSUME NEW i \in 1..Len(repl.queue)
          PROVE  /\ repl.queue[i] \in 1..n /\ repl.queue[i] \notin gone
                 /\ LastSent < repl.queue[i] /\ repl.file < repl.queue[i]
      <4>1. /\ repl.queue[i] \in 1..repl.received /\ repl.queue[i] \notin repl.eaten
            /\ LastSent < repl.queue[i] /\ repl.file < repl.queue[i]
        BY DEF ReplInv, InOrder
      <4> QED
        BY SMTT(20), <1>a, <2>0, <2>1, <4>1
    <3>4. \A i, j \in 1..Len(repl.queue) : i < j => repl.queue[i] < repl.queue[j]
      BY DEF ReplInv, InOrder
    <3>5. LastSent <= n
      BY <1>a, <2>0, <2>6
    <3> QED
      BY <1>a, <2>1, <2>4, <2>5, <3>1, <3>2, <3>3, <3>4, <3>5 DEF InOrder
  <2>8. Filed'
    <3>1. ASSUME NEW i \in 1..Len(repl.sent), NEW k \in Nat
          PROVE  FilesBetween(k, repl.sent[i].line)' = FilesBetween(k, repl.sent[i].line)
      BY SMTT(20), <1>a, <2>0, <2>1, <2>4, <2>6 DEF FilesBetween, Kind
    <3>2. ASSUME NEW i \in 1..Len(repl.sent)
          PROVE  (IF i = 1 THEN 0 ELSE repl.sent[i - 1].line) + 1 \in Nat
      <4>1. i - 1 \in 1..Len(repl.sent) \/ i = 1
        BY DEF ReplInv, ReplTypes
      <4> QED
        BY <2>6, <4>1
    <3> QED
      BY <2>4, <2>5, <3>1, <3>2 DEF ReplInv, Filed
  <2>9. NoneLost'
    <3>1. SentLines \subseteq Texts'
      BY <1>a, <2>0, <2>5, <2>6 DEF ReplInv, NoneLost, SentLines
    <3>2. \A l \in Texts' : l <= n => l \in Texts /\ l <= repl.received
      BY <1>a, <2>0, <2>5 DEF Texts
    <3> QED
      BY <1>a, <2>4, <2>5, <3>1, <3>2 DEF ReplInv, NoneLost
  <2> QED
    BY <1>a, <2>4, <2>7, <2>8, <2>9 DEF ReplInv, ReplTypes, ReplType
<1> QED
  BY <1>1, <1>2 DEF LoginAnswer

(* What is left once a line is taken: later lines, in order, and no text   *)
(* that was received is missed.                                            *)
Rest(l, q, r) ==
  /\ l \in 1..Len(typed.kinds) /\ l <= r /\ l \notin repl.eaten
  /\ LastSent < l /\ repl.file < l
  /\ q \in Seq(Nat) /\ r \in Nat /\ r <= Len(typed.kinds) /\ repl.received <= r
  /\ \A i \in 1..Len(q) : q[i] \in 1..r /\ q[i] \notin repl.eaten /\ l < q[i]
  /\ \A i, j \in 1..Len(q) : i < j => q[i] < q[j]
  /\ \A m \in Texts : m <= r => \/ m = l \/ m \in SentLines
                                \/ \E i \in 1..Len(q) : q[i] = m

LEMMA TakenIs ==
  ASSUME ReplInv, HasLine
  PROVE  /\ Taken \in ReplType
         /\ Taken.stage = repl.stage /\ Taken.file = repl.file /\ Taken.eaten = repl.eaten
         /\ Taken.sent = repl.sent /\ Taken.why = repl.why
         /\ Rest(NextLine, Taken.queue, Taken.received)
<1>a. /\ repl \in ReplType /\ repl.queue \in Seq(Nat) /\ repl.received \in Nat
      /\ Len(typed.kinds) \in Nat /\ Len(repl.queue) \in Nat /\ repl.file \in Nat
      /\ repl.received <= Len(typed.kinds) /\ repl.stage = "running"
  BY DEF ReplInv, ReplTypes, ReplType, InOrder, HasLine
<1>b. LastSent \in Nat /\ LastSent <= repl.received
  BY LastSentIs DEF ReplInv, InOrder
<1>c. \A m \in Texts : m <= repl.received => m \in SentLines \/ m \in QueuedLines
  BY <1>a DEF ReplInv, NoneLost
<1>1. CASE repl.queue # <<>>
  <2> DEFINE l == Head(repl.queue)
             q == Tail(repl.queue)
  <2>1. /\ q \in Seq(Nat) /\ Len(q) = Len(repl.queue) - 1 /\ l = repl.queue[1]
        /\ \A i \in 1..Len(q) : q[i] = repl.queue[i + 1]
        /\ 1 \in 1..Len(repl.queue) /\ \A i \in 1..Len(q) : i + 1 \in 1..Len(repl.queue)
    BY <1>a, <1>1
  <2>2. NextLine = l /\ Taken = [repl EXCEPT !.queue = q]
    BY <1>1 DEF NextLine, Taken
  <2> HIDE DEF l, q
  <2>3. /\ Taken \in ReplType /\ Taken.queue = q /\ Taken.received = repl.received
        /\ Taken.stage = repl.stage /\ Taken.file = repl.file /\ Taken.eaten = repl.eaten
        /\ Taken.sent = repl.sent /\ Taken.why = repl.why
    BY <1>a, <2>1, <2>2 DEF ReplType
  <2>4. l \in 1..repl.received /\ l \notin repl.eaten /\ LastSent < l /\ repl.file < l
    BY <2>1 DEF ReplInv, InOrder
  <2>5. ASSUME NEW i \in 1..Len(q)
        PROVE  q[i] \in 1..repl.received /\ q[i] \notin repl.eaten /\ l < q[i]
    <3>1. /\ q[i] = repl.queue[i + 1] /\ i + 1 \in 1..Len(repl.queue) /\ 1 < i + 1
          /\ i \in Nat
      <4>1. Len(q) \in Int
        BY <1>a, <2>1
      <4>2. i \in Nat /\ i >= 1
        BY <4>1
      <4> QED
        BY <2>1, <4>2
    <3> QED
      BY <2>1, <3>1 DEF ReplInv, InOrder
  <2>6. ASSUME NEW i \in 1..Len(q), NEW j \in 1..Len(q), i < j
        PROVE  q[i] < q[j]
    <3>1. q[i] = repl.queue[i + 1] /\ q[j] = repl.queue[j + 1]
      BY <2>1
    <3>2. /\ i + 1 \in 1..Len(repl.queue) /\ j + 1 \in 1..Len(repl.queue)
          /\ i + 1 < j + 1
      BY <1>a, <2>1, <2>6
    <3> QED
      BY <3>1, <3>2 DEF ReplInv, InOrder
  <2>7. ASSUME NEW m \in QueuedLines
        PROVE  m = l \/ \E i \in 1..Len(q) : q[i] = m
    <3>1. PICK j \in 1..Len(repl.queue) : repl.queue[j] = m
      BY DEF QueuedLines
    <3>2. CASE j = 1
      BY <2>1, <3>1, <3>2
    <3>3. CASE j # 1
      <4>1. j - 1 \in 1..Len(q) /\ (j - 1) + 1 = j
        BY <1>a, <2>1, <3>3
      <4>2. q[j - 1] = repl.queue[j]
        BY <2>1, <4>1
      <4> QED
        BY <3>1, <4>1, <4>2
    <3> QED
      BY <3>2, <3>3
  <2>8. Rest(l, q, repl.received)
    BY <1>a, <1>c, <2>1, <2>4, <2>5, <2>6, <2>7 DEF Rest
  <2> QED
    BY <2>2, <2>3, <2>8
<1>2. CASE repl.queue = <<>>
  <2> DEFINE n == repl.received + 1
  <2>1. n \in Nat /\ n <= Len(typed.kinds) /\ repl.received < n
    BY <1>a, <1>2 DEF HasLine, Arrived
  <2>2. NextLine = n /\ Taken = [repl EXCEPT !.received = n]
    BY <1>2 DEF NextLine, Taken
  <2>3. Len(repl.queue) = 0
    BY <1>2
  <2>4. \A m \in Texts : m <= n => m = n \/ m <= repl.received
    BY <1>a DEF Texts
  <2> HIDE DEF n
  <2>5. /\ Taken \in ReplType /\ Taken.queue = repl.queue /\ Taken.received = n
        /\ Taken.stage = repl.stage /\ Taken.file = repl.file /\ Taken.eaten = repl.eaten
        /\ Taken.sent = repl.sent /\ Taken.why = repl.why
    BY <1>a, <2>1, <2>2 DEF ReplType
  <2>6. repl.file < n /\ LastSent < n /\ n \notin repl.eaten
    <3>1. repl.file <= repl.received
      BY <1>a, <1>b DEF ReplInv, InOrder
    <3>2. \A e \in repl.eaten : e \in 1..repl.received
      BY DEF ReplInv, InOrder
    <3> QED
      BY <1>a, <1>b, <2>1, <3>1, <3>2
  <2>7. QueuedLines = {}
    BY <2>3 DEF QueuedLines
  <2>8. Rest(n, repl.queue, n)
    BY <1>a, <1>c, <2>1, <2>3, <2>4, <2>6, <2>7 DEF Rest
  <2> QED
    BY <2>2, <2>5, <2>8
<1> QED
  BY <1>1, <1>2

LEMMA RestOrdered ==
  ASSUME NEW l, NEW q, NEW r, Rest(l, q, r), ReplInv,
         typed' = typed, repl' \in ReplType, repl'.queue = q, repl'.received = r,
         repl'.eaten = repl.eaten, LastSent' \in {LastSent, l},
         repl'.file \in {0, repl.file} \/ (Kind(l) = "file" /\ repl'.file = l),
         LastSent' = l => repl'.file = 0
  PROVE  InOrder'
<1>1. /\ LastSent \in Nat /\ LastSent <= repl.received /\ repl.file \in Nat
      /\ l \in Nat /\ r \in Nat /\ repl.received \in Nat /\ Len(typed.kinds) \in Nat
  BY LastSentIs DEF ReplInv, InOrder, ReplTypes, Rest
<1>2. repl.eaten \subseteq 1..r
  BY <1>1 DEF ReplInv, InOrder, Rest
<1>3. LastSent' <= l /\ LastSent' <= r /\ repl'.file <= l
  BY <1>1 DEF Rest
<1>4. ASSUME NEW i \in 1..Len(q)
      PROVE  /\ q[i] \in 1..r /\ q[i] \notin repl.eaten
             /\ LastSent' < q[i] /\ repl'.file < q[i]
  <2>1. q[i] \in 1..r /\ q[i] \notin repl.eaten /\ l < q[i]
    BY DEF Rest
  <2>2. repl'.file \in Nat /\ LastSent' \in Nat
    BY <1>1 DEF ReplType
  <2> QED
    BY <1>1, <1>3, <2>1, <2>2
<1>5. repl'.file # 0 => /\ repl'.file \in LastSent' + 1..r
                        /\ repl'.file \notin repl.eaten /\ Kind(repl'.file) = "file"
  <2>1. CASE repl'.file = repl.file /\ repl.file # 0
    <3>1. /\ repl.file \in LastSent + 1..repl.received
          /\ repl.file \notin repl.eaten /\ Kind(repl.file) = "file"
      BY <2>1 DEF ReplInv, InOrder
    <3>2. LastSent' = LastSent
      BY <2>1
    <3>3. repl.received <= r
      BY DEF Rest
    <3> QED
      BY <1>1, <2>1, <3>1, <3>2, <3>3
  <2>2. CASE Kind(l) = "file" /\ repl'.file = l
    <3>1. repl'.file # 0 => LastSent' = LastSent
      OBVIOUS
    <3> QED
      BY <1>1, <2>2, <3>1 DEF Rest
  <2> QED
    BY <2>1, <2>2
<1>6. \A i, j \in 1..Len(q) : i < j => q[i] < q[j]
  BY DEF Rest
<1>7. r <= Len(typed.kinds)
  BY DEF Rest
<1> QED
  BY <1>2, <1>3, <1>4, <1>5, <1>6, <1>7 DEF InOrder, Kind

(* A line that is no prompt is taken.                                      *)
LEMMA TakeKeeps ==
  ASSUME ReplInv, HasLine, typed' = typed, repl' \in ReplType,
         repl'.queue = Taken.queue, repl'.received = Taken.received,
         repl'.eaten = repl.eaten, repl'.sent = repl.sent,
         Kind(NextLine) # "text",
         repl'.file = repl.file \/ (Kind(NextLine) = "file" /\ repl'.file = NextLine),
         repl'.stage = "done" => repl'.why # "eof"
  PROVE  ReplInv'
<1>1. PICK l, q, r : /\ l = NextLine /\ q = Taken.queue /\ r = Taken.received
                     /\ Rest(l, q, r)
  BY TakenIs
<1>2. LastSent' = LastSent /\ Texts' = Texts /\ SentLines' = SentLines
  BY DEF LastSent, Texts, Kind, SentLines
<1>3. LastSent # l
  BY <1>1, LastSentIs DEF Rest
<1>4. InOrder'
  BY <1>1, <1>2, <1>3, RestOrdered
<1>5. Filed'
  BY <1>2 DEF ReplInv, Filed, FilesBetween, Kind
<1>6. NoneLost'
  <2>1. \A m \in Texts : m <= r => m \in SentLines \/ m \in QueuedLines'
    <3>1. \A i \in 1..Len(q) : q[i] \in QueuedLines'
      BY <1>1 DEF QueuedLines
    <3>2. l \notin Texts
      BY <1>1 DEF Texts
    <3> QED
      BY <1>1, <3>1, <3>2 DEF Rest
  <2> QED
    BY <1>1, <1>2, <2>1 DEF ReplInv, NoneLost
<1> QED
  BY <1>4, <1>5, <1>6 DEF ReplInv, ReplTypes, ReplType

(* A prompt is taken, and sent with the file that waited for it.           *)
LEMMA TextKeeps ==
  ASSUME ReplInv, HasLine, typed' = typed, repl' \in ReplType,
         repl'.queue = Taken.queue, repl'.received = Taken.received,
         repl'.eaten = repl.eaten, Kind(NextLine) = "text",
         repl'.sent = Append(repl.sent, [line |-> NextLine, file |-> repl.file]),
         repl'.file = 0, repl'.stage # "done"
  PROVE  ReplInv'
<1>1. PICK l, q, r : /\ l = NextLine /\ q = Taken.queue /\ r = Taken.received
                     /\ Rest(l, q, r)
  BY TakenIs
<1> DEFINE n == Len(repl.sent)
           new == [line |-> l, file |-> repl.file]
<1>a. l \in Nat /\ repl.file \in Nat /\ new \in [line : Nat, file : Nat] /\ n \in Nat
  BY <1>1 DEF Rest, ReplInv, ReplTypes
<1>2. /\ Len(repl'.sent) = n + 1 /\ repl'.sent[n + 1] = new
      /\ \A i \in 1..n : repl'.sent[i] = repl.sent[i]
      /\ repl'.sent # <<>>
  <2>1. repl.sent \in Seq([line : Nat, file : Nat]) /\ repl'.sent = Append(repl.sent, new)
    BY <1>1 DEF ReplInv, ReplTypes
  <2> QED
    <3>1. Len(repl'.sent) = n + 1 /\ repl'.sent # <<>> /\ repl'.sent[n + 1] = new
      BY SMTT(20), <1>a, <2>1, AppendProperties
    <3>2. \A i \in 1..n : repl'.sent[i] = repl.sent[i]
      BY <1>a, <2>1, AppendProperties
    <3> QED
      BY <3>1, <3>2
<1>b. new.line = l /\ new.file = repl.file
  OBVIOUS
<1> HIDE DEF n, new
<1>3. LastSent' = l /\ Texts' = Texts
  BY <1>a, <1>b, <1>2 DEF LastSent, Texts, Kind
<1>4. InOrder'
  BY <1>1, <1>3, RestOrdered
<1>5. /\ LastSent \in Nat /\ LastSent < l
      /\ \A i \in 1..n : repl.sent[i].line \in 1..LastSent
  BY <1>1, LastSentIs DEF Rest, n
<1>6. LastSent = IF n + 1 = 1 THEN 0 ELSE repl.sent[n].line
  <2>1. n = 0 <=> repl.sent = <<>>
    BY DEF n, ReplInv, ReplTypes
  <2> QED
    BY <1>a, <2>1 DEF LastSent, n
<1>7. Filed'
  <2> DEFINE Prev(i) == IF i = 1 THEN 0 ELSE repl'.sent[i - 1].line
             Fits(i) == /\ Prev(i) < repl'.sent[i].line
                        /\ repl'.sent[i].line <= l
                        /\ repl'.sent[i].file
                             \in FilesBetween(Prev(i) + 1, repl'.sent[i].line) \cup {0}
  <2>1. ASSUME NEW i \in 1..n + 1
        PROVE  Fits(i)
    <3>1. CASE i \in 1..n
      <4>1. i = 1 \/ i - 1 \in 1..n
        BY <1>a, <3>1
      <4>2. /\ repl'.sent[i] = repl.sent[i]
            /\ Prev(i) = IF i = 1 THEN 0 ELSE repl.sent[i - 1].line
        BY <1>2, <3>1, <4>1
      <4>3. LET prev == IF i = 1 THEN 0 ELSE repl.sent[i - 1].line
                this == repl.sent[i]
            IN  /\ prev < this.line
                /\ this.line <= LastSent
                /\ this.file \in FilesBetween(prev + 1, this.line) \cup {0}
        BY <3>1 DEF ReplInv, Filed, n
      <4>4. repl.sent[i].line <= l
        BY <1>a, <1>5, <3>1
      <4> QED
        BY <4>2, <4>3, <4>4
    <3>2. CASE i = n + 1
      <4>1. Prev(i) = LastSent
        <5>1. n = 0 \/ n \in 1..n
          BY <1>a
        <5>2. i - 1 = n /\ (i = 1 <=> n = 0) /\ (n + 1 = 1 <=> n = 0)
          BY <1>a, <3>2
        <5> QED
          BY <1>2, <1>6, <5>1, <5>2
      <4>2. repl'.sent[i].line = l /\ repl'.sent[i].file = repl.file
        BY <1>b, <1>2, <3>2
      <4>3. repl.file \in FilesBetween(LastSent + 1, l) \cup {0}
        <5>1. repl.file # 0 => /\ repl.file \in LastSent + 1..repl.received
                              /\ repl.file \notin repl.eaten /\ Kind(repl.file) = "file"
          BY DEF ReplInv, InOrder
        <5>2. repl.file < l /\ repl.received \in Nat
          BY <1>1 DEF Rest, ReplInv, ReplTypes
        <5> QED
          BY <1>a, <1>5, <5>1, <5>2 DEF FilesBetween
      <4>4. Prev(i) < repl'.sent[i].line /\ repl'.sent[i].line <= l
        <5> HIDE DEF Prev
        <5>1. LastSent < l /\ l <= l
          BY <1>a, <1>5
        <5> QED
          BY <4>1, <4>2, <5>1
      <4>5. repl'.sent[i].file \in FilesBetween(Prev(i) + 1, repl'.sent[i].line) \cup {0}
        BY <4>1, <4>2, <4>3
      <4> QED
        BY <4>4, <4>5
    <3> HIDE DEF Fits
    <3> QED
      BY <1>a, <3>1, <3>2
  <2>2. \A k, m : FilesBetween(k, m)' = FilesBetween(k, m)
    BY DEF FilesBetween, Kind
  <2> QED
    BY <1>2, <1>3, <2>1, <2>2 DEF Filed
<1>8. NoneLost'
  <2>1. l \in Texts
    BY <1>1 DEF Rest, Texts
  <2>2. SentLines' = SentLines \cup {l}
    <3>1. \A i \in 1..n + 1 : i \in 1..n \/ i = n + 1
      BY <1>a
    <3>2. \A i \in 1..n : i \in 1..n + 1
      BY <1>a
    <3>3. n + 1 \in 1..n + 1
      BY <1>a
    <3> QED
      BY <1>b, <1>2, <3>1, <3>2, <3>3 DEF SentLines, n
  <2>3. \A i \in 1..Len(q) : q[i] \in QueuedLines'
    BY <1>1 DEF QueuedLines
  <2>4. \A m \in Texts : m <= r => m \in SentLines' \/ m \in QueuedLines'
    BY <1>1, <2>2, <2>3 DEF Rest
  <2> QED
    BY <1>1, <1>3, <2>1, <2>2, <2>4 DEF ReplInv, NoneLost
<1> QED
  BY <1>4, <1>7, <1>8 DEF ReplInv, ReplTypes, ReplType

LEMMA ReplKeeps ==
  ASSUME ReplInv, ReplStep
  PROVE  ReplInv' /\ (UNCHANGED turnVars \/ \E a \in Askers : Asks(a))
<1> USE ReplAssumption
<1>a. repl \in ReplType
  BY DEF ReplInv, ReplTypes, ReplType
<1>1. CASE Type
  BY <1>1, TypeKeeps DEF Type
<1>2. CASE QueueLine
  BY <1>2, QueueKeeps DEF QueueLine
<1>3. CASE LoginAnswer
  BY <1>3, EatKeeps DEF LoginAnswer
<1>4. CASE Reply
  <2>1. TakesOnly(Main) /\ typed' = typed /\ repl.stage # "done"
    BY <1>4 DEF Reply, TakesOnly
  <2>2. \/ repl' = [repl EXCEPT !.stage = "running"]
        \/ repl' = [[repl EXCEPT !.stage = "done"] EXCEPT !.why = "error"]
    BY <1>4, <1>a DEF Reply, Stops, ReplType
  <2>3. ReplInv'
    BY <1>a, <2>1, <2>2, ReplFrame DEF ReplType
  <2> QED
    BY <2>1, <2>3 DEF Asks
<1>5. CASE EndOfLines
  <2>1. /\ UNCHANGED turnVars /\ typed' = typed /\ repl.stage = "running"
        /\ repl.queue = <<>> /\ AtEnd
        /\ repl' = [[repl EXCEPT !.stage = "done"] EXCEPT !.why = "eof"]
    BY <1>5, <1>a DEF EndOfLines, Drained, Stops, ReplType
  <2>2. typed.eof /\ repl.received = Len(typed.kinds)
    BY <2>1 DEF AtEnd, Arrived, ReplInv, ReplTypes, InOrder
  <2> QED
    BY <1>a, <2>1, <2>2, ReplFrame DEF ReplType
<1>6. ASSUME HasLine
      PROVE  /\ Taken \in ReplType /\ NextLine \in Nat
             /\ Taken.stage = "running" /\ Taken.file = repl.file /\ Taken.eaten = repl.eaten
             /\ Taken.sent = repl.sent /\ Taken.why = repl.why
  BY <1>6, TakenIs DEF Rest, HasLine
<1>7. CASE Text
  <2> DEFINE new == Append(repl.sent, [line |-> NextLine, file |-> repl.file])
  <2>1. /\ SendsOnly(Main) /\ typed' = typed /\ HasLine /\ Kind(NextLine) = "text"
        /\ repl' = [Taken EXCEPT !.stage = "prompting", !.file = FileTaken,
                                 !.sent = Append(@, [line |-> NextLine, file |-> repl.file])]
    BY <1>7 DEF Text, SendsOnly
  <2>2. new \in Seq([line : Nat, file : Nat])
    <3>1. repl.sent \in Seq([line : Nat, file : Nat])
      BY <1>a DEF ReplType
    <3>2. [line |-> NextLine, file |-> repl.file] \in [line : Nat, file : Nat]
      BY <1>a, <1>6, <2>1 DEF ReplType
    <3> QED
      BY <3>1, <3>2, AppendProperties
  <2>3. Append(Taken.sent, [line |-> NextLine, file |-> repl.file]) = new
    BY <1>6, <2>1
  <2> HIDE DEF new
  <2>4. repl' = [[[Taken EXCEPT !.stage = "prompting"] EXCEPT !.file = 0] EXCEPT !.sent = new]
    BY <1>6, <2>1, <2>3 DEF FileTaken, ReplType
  <2>5. /\ repl' \in ReplType /\ repl'.queue = Taken.queue /\ repl'.received = Taken.received
        /\ repl'.eaten = repl.eaten /\ repl'.file = 0 /\ repl'.sent = new /\ repl'.stage # "done"
    <3> DEFINE bare == [[Taken EXCEPT !.stage = "prompting"] EXCEPT !.file = 0]
    <3>1. /\ bare \in ReplType /\ bare.queue = Taken.queue /\ bare.received = Taken.received
          /\ bare.eaten = repl.eaten /\ bare.file = 0 /\ bare.stage = "prompting"
      BY <1>6, <2>1 DEF ReplType
    <3>2. repl' = [bare EXCEPT !.sent = new]
      BY <2>4
    <3> HIDE DEF bare
    <3> QED
      BY <2>2, <3>1, <3>2 DEF ReplType
  <2>6. ReplInv'
    BY <2>1, <2>5, TextKeeps DEF new
  <2> QED
    BY <2>1, <2>6 DEF Asks
<1>8. CASE File
  <2>1. /\ UNCHANGED turnVars /\ typed' = typed /\ HasLine /\ Kind(NextLine) = "file"
        /\ repl' = [Taken EXCEPT !.file = NextLine] \/ repl' = Taken
    BY <1>8 DEF File
  <2>2. /\ repl' \in ReplType /\ repl'.queue = Taken.queue /\ repl'.received = Taken.received
        /\ repl'.eaten = repl.eaten /\ repl'.sent = repl.sent /\ repl'.stage # "done"
        /\ repl'.file = repl.file \/ repl'.file = NextLine
    BY <1>6, <2>1 DEF ReplType
  <2> QED
    BY <2>1, <2>2, TakeKeeps
<1>9. ASSUME typed' = typed, HasLine, Kind(NextLine) # "text",
             \/ repl' = Taken
             \/ \E s \in {"inline", "login", "running"} : repl' = [Taken EXCEPT !.stage = s]
             \/ \E w \in {"error", "exit"} : repl' = [[Taken EXCEPT !.stage = "done"] EXCEPT !.why = w]
             \/ repl' = [[Taken EXCEPT !.stage = "login"] EXCEPT !.answers = 0]
      PROVE  ReplInv'
  <2>1. /\ repl' \in ReplType /\ repl'.queue = Taken.queue /\ repl'.received = Taken.received
        /\ repl'.eaten = repl.eaten /\ repl'.sent = repl.sent /\ repl'.file = repl.file
        /\ repl'.stage = "done" => repl'.why # "eof"
    BY <1>6, <1>9 DEF ReplType
  <2> QED
    BY <1>9, <2>1, TakeKeeps
<1>10. CASE Heartbeat
  <2>1. /\ typed' = typed /\ HasLine /\ Kind(NextLine) # "text"
        /\ repl' = Taken \/ repl' = [Taken EXCEPT !.stage = "inline"]
    BY <1>10 DEF Heartbeat
  <2>2. SendsOnly(Main) \/ UNCHANGED turnVars
    BY <1>10 DEF Heartbeat, SendsOnly, turnVars
  <2> QED
    BY <1>9, <2>1, <2>2 DEF Asks
<1>11. CASE Command
  <2>1. /\ typed' = typed /\ HasLine /\ Kind(NextLine) # "text" /\ UNCHANGED turnVars
        /\ repl' = Taken \/ repl' = [[Taken EXCEPT !.stage = "done"] EXCEPT !.why = "error"]
    BY <1>6, <1>11 DEF Command, ReplType
  <2> QED
    BY <1>9, <2>1
<1>12. CASE Switch
  BY <1>9, <1>12 DEF Switch
<1>13. CASE Login
  <2>1. /\ typed' = typed /\ HasLine /\ Kind(NextLine) # "text" /\ UNCHANGED turnVars
        /\ repl' = [[Taken EXCEPT !.stage = "login"] EXCEPT !.answers = 0]
    BY <1>6, <1>13 DEF Login, ReplType
  <2> QED
    BY <1>9, <2>1
<1>14. CASE Quit
  <2>1. /\ typed' = typed /\ HasLine /\ Kind(NextLine) # "text" /\ UNCHANGED turnVars
        /\ repl' = [[Taken EXCEPT !.stage = "done"] EXCEPT !.why = "exit"]
    BY <1>6, <1>14 DEF Quit, ReplType
  <2> QED
    BY <1>9, <2>1
<1> QED
  BY <1>1, <1>2, <1>3, <1>4, <1>5, <1>7, <1>8, <1>10, <1>11, <1>12, <1>13, <1>14 DEF ReplStep

-----------------------------------------------------------------------------
(* The clients together.                                                   *)

LEMMA ReplStays ==
  ASSUME ReplInv, UNCHANGED <<typed, repl>>
  PROVE  ReplInv'
<1>1. LastSent' = LastSent /\ Texts' = Texts /\ SentLines' = SentLines /\ QueuedLines' = QueuedLines
  BY DEF LastSent, Texts, Kind, SentLines, QueuedLines
<1>2. ReplTypes' /\ InOrder'
  BY <1>1 DEF ReplInv, ReplTypes, InOrder, Kind
<1>3. Filed'
  BY <1>1 DEF ReplInv, Filed, FilesBetween, Kind
<1>4. NoneLost'
  BY <1>1 DEF ReplInv, NoneLost
<1> QED
  BY <1>2, <1>3, <1>4 DEF ReplInv

(* A step that only Turns and the viewer take part in.                     *)
LEMMA SharedStep ==
  ASSUME ClientsInv, UNCHANGED <<loop, line, conn, typed, repl, cast>>, ViewInv',
         \/ UNCHANGED turnVars \/ WorkerStep \/ (\E a \in Askers : Asks(a))
         \/ Revives \/ StopWorker \/ CrashWorker \/ Streams,
         cast = Alone => /\ viewer' = viewer
                         /\ \/ WorkerStep \/ StopWorker \/ CrashWorker \/ UNCHANGED turnVars
                            \/ \E a \in Askers : GiveUp(a) \/ Refuse(a)
  PROVE  ClientsInv'
<1>1. TurnsInv'
  BY TurnsKeep DEF ClientsInv, TurnMoves
<1>2. LoopInv'
  <2>1. Spares
    BY Spared DEF ClientsInv
  <2> QED
    BY <1>1, <2>1, LoopFrame DEF ClientsInv, Spares, TurnsInv, TurnTypes
<1>3. AcpInv'
  <2>1. ASSUME cast = Alone, NEW a \in Askers \ Lines
        PROVE  ask'[a] = "idle"
    <3>1. ask[a] = "idle"
      BY <2>1 DEF ClientsInv, AcpInv
    <3> QED
      BY <2>1, <3>1, IdleStays DEF ClientsInv
  <2> QED
    BY <2>1, AcpFrame DEF ClientsInv
<1> QED
  BY <1>1, <1>2, <1>3, ReplStays DEF ClientsInv

LEMMA AlonePlays ==
  ASSUME ClientsInv
  PROVE  /\ "acp" \in cast => cast = Alone
         /\ cast = Alone => \A part \in {"viewer", "loop", "repl", "prompter", "stopper"} : part \notin cast
BY CastsAssumption DEF ClientsInv, Alone

LEMMA ClientsStep ==
  ASSUME ClientsInv, Next
  PROVE  ClientsInv'
<1> USE DEF ClientsInv
<1>1. CASE WorkerMoves
  <2>1. WorkerStep /\ UNCHANGED <<viewer, loop, line, conn, typed, repl, cast>>
    BY <1>1 DEF WorkerMoves, NotViewer, NotLoop, NotAcp, NotRepl
  <2> QED
    BY <2>1, WorkerKeepsView, SharedStep
<1>2. CASE Crashes
  <2>1. CrashWorker /\ CutOff /\ UNCHANGED <<loop, line, conn, typed, repl, cast>>
    BY <1>2 DEF Crashes, NotLoop, NotAcp, NotRepl
  <2>2. cast = Alone => viewer' = viewer
    BY <2>1 DEF AcpInv, CutOff
  <2> QED
    BY <2>1, <2>2, CutKeepsView, SharedStep
<1>3. CASE Stopped
  <2>1. StopWorker /\ CutOff /\ UNCHANGED <<loop, line, conn, typed, repl, cast>> /\ "stopper" \in cast
    BY <1>3 DEF Stopped, Plays, NotLoop, NotAcp, NotRepl
  <2> QED
    BY <2>1, CutKeepsView, SharedStep, AlonePlays
<1>4. ASSUME NEW a \in Askers, TimesOut(a) \/ Refused(a)
      PROVE  ClientsInv'
  <2>1. (GiveUp(a) \/ Refuse(a)) /\ UNCHANGED <<viewer, loop, line, conn, typed, repl, cast>>
    BY <1>4 DEF TimesOut, Refused, NotViewer, NotLoop, NotAcp, NotRepl
  <2> QED
    BY <2>1, AsksKeepView, SharedStep DEF Asks
<1>5. CASE Prompts \/ Prompted
  <2>1. /\ SendsOnly(Prompter) \/ TakesOnly(Prompter)
        /\ UNCHANGED <<viewer, loop, line, conn, typed, repl, cast>> /\ "prompter" \in cast
    BY <1>5 DEF Prompts, Prompted, SendsOnly, TakesOnly, Plays, NotViewer, NotLoop, NotAcp, NotRepl
  <2>2. Asks(Prompter) /\ Prompter \in Askers
    BY <2>1, CastsAssumption DEF Asks
  <2> QED
    BY <2>1, <2>2, AsksKeepView, SharedStep, AlonePlays
<1>6. CASE Views
  <2>1. ViewerStep /\ UNCHANGED <<loop, line, conn, typed, repl, cast>> /\ "viewer" \in cast
    BY <1>6 DEF Views, Plays, NotLoop, NotAcp, NotRepl
  <2> QED
    BY <2>1, ViewerKeeps, SharedStep, AlonePlays
<1>7. CASE Loops
  <2>1. LoopStep /\ UNCHANGED <<viewer, line, conn, typed, repl, cast>> /\ "loop" \in cast
    BY <1>7 DEF Loops, Plays, NotViewer, NotAcp, NotRepl
  <2>2. LoopInv' /\ (UNCHANGED turnVars \/ (\E a \in Askers : Asks(a)) \/ GoalSet)
    BY <2>1, LoopKeeps
  <2>3. TurnsInv'
    BY <2>2, TurnsKeep DEF TurnMoves
  <2>4. ViewInv'
    BY <2>1, <2>2, OthersKeepView, AsksKeepView
  <2>5. AcpInv'
    BY <2>1, AcpFrame, AlonePlays
  <2> QED
    BY <2>1, <2>2, <2>3, <2>4, <2>5, ReplStays
<1>8. CASE Edits
  <2>1. EditGoal /\ UNCHANGED <<viewer, line, conn, typed, repl, cast>> /\ "loop" \in cast
    BY <1>8 DEF Edits, Plays, NotViewer, NotAcp, NotRepl
  <2>2. LoopInv' /\ GoalSet
    BY <2>1, EditKeeps
  <2>3. TurnsInv'
    BY <2>2, TurnsKeep DEF TurnMoves
  <2>4. ViewInv'
    BY <2>1, <2>2, OthersKeepView
  <2>5. AcpInv'
    BY <2>1, AcpFrame, AlonePlays
  <2> QED
    BY <2>1, <2>2, <2>3, <2>4, <2>5, ReplStays
<1>9. ASSUME AcpInv', UNCHANGED <<viewer, loop, typed, repl, cast>>, viewer.stage = "off",
             UNCHANGED turnVars \/ Revives \/ StopWorker \/ \E a \in Askers : Asks(a)
      PROVE  ClientsInv'
  <2>1. TurnsInv'
    BY <1>9, TurnsKeep DEF TurnMoves
  <2>2. ViewInv'
    BY <1>9, OthersKeepView, AsksKeepView
  <2>3. LoopInv'
    <3>1. Spares
      BY <1>9, Spared
    <3> QED
      BY <1>9, <2>1, <3>1, LoopFrame DEF Spares, TurnsInv, TurnTypes
  <2> QED
    BY <1>9, <2>1, <2>2, <2>3, ReplStays
<1>10. CASE Connection
  <2>1. /\ ReadLine \/ EndOfInput \/ Exit
        /\ UNCHANGED <<viewer, loop, typed, repl, cast>> /\ "acp" \in cast
    BY <1>10 DEF Connection, Plays, NotViewer, NotLoop, NotRepl
  <2>2. cast = Alone /\ viewer.stage = "off"
    BY <2>1, AlonePlays DEF AcpInv
  <2>3. AcpInv' /\ UNCHANGED turnVars
    BY <2>1, <2>2, ReadKeeps
  <2> QED
    BY <1>9, <2>1, <2>2, <2>3
<1>11. ASSUME NEW l \in Lines, Handles(l)
       PROVE  ClientsInv'
  <2>1. Handle(l) /\ UNCHANGED <<viewer, loop, typed, repl, cast>> /\ "acp" \in cast
    BY <1>11 DEF Handles, Plays, NotViewer, NotLoop, NotRepl
  <2>2. cast = Alone /\ viewer.stage = "off"
    BY <2>1, AlonePlays DEF AcpInv
  <2>3. AcpInv' /\ (UNCHANGED turnVars \/ Revives \/ StopWorker \/ \E a \in Lines : Asks(a))
    BY <2>1, <2>2, HandleKeeps
  <2>4. UNCHANGED turnVars \/ Revives \/ StopWorker \/ \E a \in Askers : Asks(a)
    BY <2>3, LinesAssumption
  <2> QED
    BY <1>9, <2>1, <2>2, <2>3, <2>4
<1>12. CASE Types
  <2>1. ReplStep /\ UNCHANGED <<viewer, loop, line, conn, cast>> /\ "repl" \in cast
    BY <1>12 DEF Types, Plays, NotViewer, NotLoop, NotAcp
  <2>2. ReplInv' /\ (UNCHANGED turnVars \/ \E a \in Askers : Asks(a))
    BY <2>1, ReplKeeps
  <2>3. TurnsInv'
    BY <2>2, TurnsKeep DEF TurnMoves
  <2>4. ViewInv'
    BY <2>1, <2>2, OthersKeepView, AsksKeepView
  <2>5. AcpInv'
    BY <2>1, AcpFrame, AlonePlays
  <2>6. LoopInv'
    <3>1. Spares
      BY <2>2, Spared
    <3> QED
      BY <2>1, <2>3, <3>1, LoopFrame DEF Spares, TurnsInv, TurnTypes
  <2> QED
    BY <2>1, <2>2, <2>3, <2>4, <2>5, <2>6
<1> QED
  BY <1>1, <1>2, <1>3, <1>4, <1>5, <1>6, <1>7, <1>8, <1>10, <1>11, <1>12 DEF Next

LEMMA SeqOf ==
  ASSUME NEW S, NEW s \in Seq(S), NEW T, \A i \in 1..Len(s) : s[i] \in T
  PROVE  s \in Seq(T)
<1>1. Len(s) \in Nat /\ s \in [1..Len(s) -> S]
  BY LenProperties
<1>2. s \in [1..Len(s) -> T]
  BY <1>1
<1> QED
  BY <1>1, <1>2

LEMMA ClientsStart ==
  ASSUME Init
  PROVE  ClientsInv
<1> USE TurnsAssumption, LoopAssumption, ReplAssumption
<1>1. TurnsInv
  <2>1. TurnTypes
    <3>1. <<>> \in Seq(Nat) /\ Len(<<>>) = 0
      OBVIOUS
    <3>2. events = [on |-> FALSE, ring |-> <<>>, lagged |-> FALSE]
      BY DEF Init, TurnsInit, NoStream
    <3> QED
      BY <3>1, <3>2 DEF Init, TurnsInit, TurnTypes
  <2>2. Pending = {} /\ left = 0 /\ spent.prompts = 0
    BY DEF Init, TurnsInit, Pending
  <2>3. Counted
    BY <2>2, FS_EmptySet DEF Counted
  <2>4. Held
    BY DEF Init, TurnsInit, Held
  <2> QED
    BY <2>1, <2>3, <2>4 DEF TurnsInv
<1>2. ViewInv
  <2>1. /\ viewer = [stage |-> "off", wire |-> <<>>, view |-> <<>>]
        /\ events = NoStream /\ ~NoStream.on /\ worker.holder # Attacher
    BY DEF Init, ViewerInit, TurnsInit, NoStream
  <2>2. <<>> \in Seq(Nat) /\ <<>> \o <<>> = <<>> /\ Len(<<>>) = 0
    OBVIOUS
  <2>3. Upto(0) = <<>>
    BY DEF Upto
  <2>4. viewer \in ViewerType /\ Arriving = <<>>
    BY <2>1, <2>2 DEF ViewerType, Stages, Arriving
  <2> QED
    BY <2>1, <2>2, <2>3, <2>4 DEF ViewInv, ViewerType
<1>3. LoopInv
  BY DEF Init, LoopInit, LoopInv
<1>4. AcpInv
  BY DEF Init, AcpInit, AcpInv, AcpTypeOK, News, TurnsInit, ViewerInit, LinesAssumption
<1>5. ReplInv
  <2>1. /\ typed = [kinds |-> <<>>, eof |-> FALSE]
        /\ repl = [stage |-> "running", received |-> 0, queue |-> <<>>, readerDone |-> FALSE,
                   file |-> 0, answers |-> 0, why |-> "none", eaten |-> {}, sent |-> <<>>]
    BY DEF Init, ReplInit
  <2>2. /\ <<>> \in Seq(Kinds) /\ <<>> \in Seq(Nat) /\ <<>> \in Seq([line : Nat, file : Nat])
        /\ Len(<<>>) = 0 /\ \A i : i \notin 1..0
    OBVIOUS
  <2>3. ReplTypes
    BY <2>1, <2>2 DEF ReplTypes
  <2>4. /\ typed.kinds = <<>> /\ repl.queue = <<>> /\ repl.sent = <<>> /\ repl.received = 0
        /\ repl.file = 0 /\ repl.eaten = {} /\ repl.stage = "running" /\ LastSent = 0
    BY <2>1 DEF LastSent
  <2>5. SentLines = {} /\ QueuedLines = {} /\ Texts = {}
    BY <2>2, <2>4 DEF SentLines, QueuedLines, Texts
  <2>6. InOrder /\ Filed
    BY <2>2, <2>4 DEF InOrder, Filed
  <2>7. NoneLost
    BY <2>4, <2>5 DEF NoneLost
  <2> QED
    BY <2>3, <2>6, <2>7 DEF ReplInv
<1> QED
  BY <1>1, <1>2, <1>3, <1>4, <1>5 DEF Init, ClientsInv

LEMMA ClientsStutter ==
  ASSUME ClientsInv, UNCHANGED vars
  PROVE  ClientsInv'
<1>1. /\ UNCHANGED turnVars /\ UNCHANGED <<viewer, loop, line, conn, typed, repl, cast>>
  BY DEF vars
<1>2. ViewInv'
  BY <1>1, OthersKeepView DEF ClientsInv
<1> QED
  BY <1>1, <1>2, SharedStep

LEMMA Always == Spec => []ClientsInv
<1>1. Init => ClientsInv
  BY ClientsStart
<1>2. ClientsInv /\ [Next]_vars => ClientsInv'
  BY ClientsStep, ClientsStutter
<1> QED
  BY <1>1, <1>2, PTL DEF Spec

-----------------------------------------------------------------------------
(* Theorems.                                                               *)

(* The types of everything the clients and the session keep: the counters  *)
(* within their bounds, requests left behind never more than were sent.    *)
THEOREM Typing == Spec => []TypeOK
<1>1. ClientsInv => TypeOK
  <2> SUFFICES ASSUME ClientsInv PROVE TypeOK
    OBVIOUS
  <2> USE TurnsAssumption, LoopAssumption, ReplAssumption DEF ClientsInv
  <2>1. TurnsTypeOK
    <3>1. left \in 0..MaxPrompts
      <4>1. Cardinality(Pending) \in Nat
        BY FS_CardinalityType DEF TurnsInv, Counted
      <4> QED
        BY <4>1 DEF TurnsInv, TurnTypes, Counted
    <3>2. goal \in [text : Nat, active : BOOLEAN]
      BY DEF TurnsInv, TurnTypes
    <3>3. events.ring \in Seq(Nat) /\ Len(events.ring) <= Capacity
      BY DEF TurnsInv, TurnTypes
    <3> QED
      BY <3>1, <3>2, <3>3 DEF TurnsInv, TurnTypes, TurnsTypeOK
  <2>2. ViewerTypeOK
    BY DEF ViewInv, ViewerTypeOK
  <2>3. LoopTypeOK
    <3>1. loop.stray \in 0..MaxPrompts
      BY DEF LoopInv, TurnsInv, TurnTypes
    <3> QED
      BY <3>1 DEF LoopInv, LoopTypeOK
  <2>4. AcpTypeOK
    BY DEF AcpInv
  <2>5. ReplTypeOK
    <3>1. /\ repl.received \in 0..MaxTyped /\ Len(typed.kinds) \in Nat /\ repl.received \in Nat
          /\ repl.received <= MaxTyped
      BY DEF ReplInv, ReplTypes, InOrder
    <3>2. repl.queue \in Seq(1..MaxTyped)
      <4>1. \A i \in 1..Len(repl.queue) : repl.queue[i] \in 1..MaxTyped
        BY <3>1 DEF ReplInv, InOrder
      <4> QED
        BY <4>1, SeqOf DEF ReplInv, ReplTypes
    <3>3. repl.file \in 0..MaxTyped
      BY <3>1, LastSentIs DEF ReplInv, ReplTypes, InOrder
    <3>4. repl.sent \in Seq([line : 1..MaxTyped, file : 0..MaxTyped])
      <4>1. LastSent \in Nat /\ LastSent <= MaxTyped
        BY <3>1, LastSentIs DEF ReplInv, InOrder
      <4>2. ASSUME NEW i \in 1..Len(repl.sent)
            PROVE  repl.sent[i] \in [line : 1..MaxTyped, file : 0..MaxTyped]
        <5>1. repl.sent[i] \in [line : Nat, file : Nat]
          BY ElementOfSeq DEF ReplInv, ReplTypes
        <5>2. repl.sent[i].line \in 1..LastSent
          BY LastSentIs
        <5>3. repl.sent[i].file <= repl.sent[i].line
          BY <5>1 DEF ReplInv, Filed, FilesBetween
        <5> QED
          BY <4>1, <5>1, <5>2, <5>3
      <4> QED
        BY <4>2, SeqOf DEF ReplInv, ReplTypes
    <3> QED
      BY <3>1, <3>2, <3>3, <3>4 DEF ReplInv, ReplTypes, ReplTypeOK
  <2> QED
    BY <2>1, <2>2, <2>3, <2>4, <2>5 DEF TypeOK
<1> QED
  BY <1>1, Always, PTL

(* What a viewer is shown is the transcript from its first entry without   *)
(* gap, repeat or reordering, and all of it while the stream lasts: the    *)
(* snapshot and the subscription lie under one lock, and a reader that     *)
(* fell behind is cut off.                                                 *)
THEOREM Exact == Spec => []ViewIsExact
<1>1. ClientsInv => ViewIsExact
  BY DEF ClientsInv, ViewInv, ViewIsExact, Arriving
<1> QED
  BY <1>1, Always, PTL

(* A goal that ends lets at most one more prompt of an autonomous run out: *)
(* the loop fetches it anew before each turn.                              *)
THEOREM AtMostOneStray == Spec => []StopsWithTheGoal
<1>1. ClientsInv => StopsWithTheGoal
  BY DEF ClientsInv, LoopInv, StopsWithTheGoal
<1> QED
  BY <1>1, Always, PTL

(* A REPL sends what was typed in order, each prompt with the file named   *)
(* for it, and has sent all of it when its input ends.                     *)
THEOREM SentAsTyped == Spec => []TypedIsSent
<1>1. ClientsInv => TypedIsSent
  <2> SUFFICES ASSUME ReplInv PROVE TypedIsSent
    BY DEF ClientsInv
  <2>1. ASSUME repl.stage = "done" /\ repl.why = "eof"
        PROVE  Texts = SentLines
    <3>1. repl.queue = <<>> /\ repl.received = Len(typed.kinds) /\ SentLines \subseteq Texts
      BY <2>1 DEF ReplInv, NoneLost
    <3>2. QueuedLines = {}
      BY <3>1 DEF QueuedLines
    <3>3. \A l \in Texts : l <= repl.received
      BY <3>1 DEF Texts, ReplInv, ReplTypes
    <3> QED
      BY <2>1, <3>1, <3>2, <3>3 DEF ReplInv, NoneLost
  <2> QED
    BY <2>1 DEF ReplInv, Filed, TypedIsSent, SentLines
<1> QED
  BY <1>1, Always, PTL

(* Once a connection closed its session and nothing of it is under way,    *)
(* none of its lines brings the worker back.                               *)
THEOREM ClosedForGood == Spec => ClosedStaysClosed
<1> DEFINE Quiet == conn.closed /\ ~conn.kept /\ ~PromptInFlight /\ ~worker.up
           Stays == Quiet => ~worker'.up /\ ~PromptInFlight'
<1>1. ClientsInv /\ [Next]_vars => [Stays]_acpVars
  <2> SUFFICES ASSUME ClientsInv, [Next]_vars, Quiet
               PROVE  ~worker'.up /\ ~PromptInFlight'
    OBVIOUS
  <2> USE DEF ClientsInv
  <2>1. cast = Alone /\ ~conn.known /\ left = 0 /\ ~worker.up
    <3>1. "acp" \in cast /\ ~conn.known
      BY DEF AcpInv
    <3>2. left = 0
      BY DEF PromptInFlight, TurnsInv, TurnTypes
    <3> QED
      BY <3>1, <3>2, AlonePlays
  <2>2. \A a \in Askers : ask[a] = "idle"
    BY <2>1 DEF PromptInFlight, AcpInv
  <2>3. worker.holder \notin Askers
    BY <2>2 DEF TurnsInv, Held
  <2>4. ASSUME UNCHANGED <<ask, left>>, worker' = worker \/ ~worker'.up
        PROVE  ~worker'.up /\ ~PromptInFlight'
    BY <2>1, <2>4 DEF PromptInFlight
  <2>a. ASSUME Down PROVE ~worker'.up /\ UNCHANGED <<ask, left>>
    BY <2>3, <2>a DEF Down
  <2>5. CASE UNCHANGED vars
    BY <2>4, <2>5 DEF vars, turnVars
  <2>6. CASE WorkerMoves
    <3>1. \A a \in Askers : ~Begin(a)
      BY <2>2 DEF Begin
    <3>2. ~BeginAbandoned
      BY <2>1 DEF BeginAbandoned
    <3>3. CASE AppendEntry
      BY <2>1, <2>4, <3>3 DEF AppendEntry, TurnsInv, TurnTypes, PromptInFlight
    <3>4. ASSUME NEW answer, Ends(answer)
          PROVE  ~worker'.up /\ ask' = ask
      BY <2>1, <2>3, <3>4 DEF Ends, TurnsInv, TurnTypes
    <3>5. CASE StateUnwritten \/ EndTurn
      BY <2>4, <3>4, <3>5 DEF StateUnwritten, EndTurn
    <3> QED
      BY <2>6, <3>1, <3>2, <3>3, <3>5 DEF WorkerMoves, WorkerStep
  <2>7. CASE Crashes
    BY <2>4, <2>a, <2>7 DEF Crashes, CrashWorker
  <2>8. CASE \E a \in Askers : TimesOut(a) \/ Refused(a)
    BY <2>2, <2>8 DEF TimesOut, GiveUp, Bounded, Refused, Refuse
  <2>9. ~(Stopped \/ Prompts \/ Prompted \/ Views \/ Loops \/ Edits \/ Types)
    BY <2>1, AlonePlays DEF Stopped, Prompts, Prompted, Views, Loops, Edits, Types, Plays
  <2>10. CASE Connection
    BY <2>4, <2>10 DEF Connection, ReadLine, EndOfInput, Exit, turnVars
  <2>11. ASSUME NEW l \in Lines, Handle(l)
         PROVE  ~worker'.up /\ ~PromptInFlight'
    <3>1. ~New(l)
      <4>1. \E k \in News : line[k].stage = "answered"
        BY DEF AcpInv
      <4> QED
        BY <4>1 DEF AcpInv, New, At, News
    <3>2. CASE Prompt(l)
      BY <2>1, <2>4, <3>2 DEF Prompt
    <3>3. ~PromptDone(l)
      BY <2>2, LinesAssumption DEF PromptDone, Takes
    <3>4. CASE Close(l)
      <4>1. StopWorker \/ UNCHANGED turnVars
        BY <3>4 DEF Close
      <4> QED
        BY <2>1, <2>4, <4>1 DEF StopWorker, turnVars
    <3>5. CASE TooEarly(l) \/ Initialize(l) \/ NewKnown(l) \/ CloseFails(l) \/ CloseDone(l) \/ Cancel(l)
      BY <2>4, <3>5 DEF TooEarly, Initialize, NewKnown, CloseFails, CloseDone, Cancel, turnVars
    <3> QED
      BY <2>11, <3>1, <3>2, <3>3, <3>4, <3>5 DEF Handle
  <2> QED
    BY <2>5, <2>6, <2>7, <2>8, <2>9, <2>10, <2>11 DEF Next, Handles
<1> HIDE DEF Stays
<1>2. Spec => [][Stays]_acpVars
  BY <1>1, Always, PTL DEF Spec
<1> QED
  BY <1>2 DEF ClosedStaysClosed, Stays, Quiet
=============================================================================
