------------------------------- MODULE Fence -------------------------------
(***************************************************************************)
(* The generation fence of one session: supervisor processes that start,  *)
(* recover, bind daemon.sock, command, crash and shut down; the worker    *)
(* processes they spawn; daemon.pid, worker-fence.json, state.json's      *)
(* worker_pid and worker.sock on disk.  Sources: daemon/mod.rs (run,       *)
(* record_daemon_pid, adopt_worker, recover_on_startup,                    *)
(* ensure_worker_running, handle_daemon_shutdown), worker/mod.rs (run,     *)
(* authorize_private_connection, spawn) and fence.rs.                      *)
(*                                                                         *)
(* Supervisors and Workers are process incarnations: each is started at    *)
(* most once.  The 128 random bits of SupervisorIdentity.instance are the  *)
(* process itself; the worker_token minted by a spawn is the worker it     *)
(* spawns; the token invented for an unfenced worker is its inventor.      *)
(***************************************************************************)
EXTENDS Integers

CONSTANTS
  Supervisors, Workers,
  NoWorker,          \* state.json's worker_pid or worker.sock before any
  NoFence,           \* WorkerFence::read's Ok(None), FenceCell's None
  NoToken, NoSupervisor,
  Hazards            \* which of AllHazards the environment may produce

(***************************************************************************)
(* overlap:  two supervisor processes run at the same time                 *)
(* misjudge: bind_with_retry's probe calls a live daemon.sock dead         *)
(* torn:     a crash between daemon.pid's truncation and its write         *)
(* slow:     a handshake or readiness wait gives up before the answer      *)
(* midspawn: a supervisor goes away while a worker it spawned is starting  *)
(* revive:   a request respawns a worker a daemon shutdown just stopped    *)
(* force:    daemon shutdown --force                                       *)
(* legacy:   a live worker predates fencing when the first one starts      *)
(***************************************************************************)
AllHazards ==
  {"overlap", "misjudge", "torn", "slow", "midspawn", "revive", "force",
   "legacy"}

ASSUME HazardsAssumption == Hazards \subseteq AllHazards
ASSUME ModelValuesAssumption ==
  /\ NoWorker \notin Workers
  /\ NoSupervisor \notin Supervisors
  /\ NoToken \notin Supervisors \cup Workers
  /\ NoFence \notin [token : Supervisors \cup Workers,
                     supervisor : [counter : Nat, instance : Supervisors]]

VARIABLES
  supPc,      \* where in daemon::run each supervisor process is
  gen,        \* the generation record_daemon_pid read and bumped
  tok,        \* the worker_token adopt_worker read off the fence file
  waiting,    \* the worker a supervisor awaits holding spawn_lock
  pidFile,    \* daemon.pid's generation, 0 when missing or unreadable
  fenceFile,  \* worker-fence.json
  recorded,   \* state.json's worker_pid
  sock,       \* the worker whose listener worker.sock's path names
  wPc,        \* where in worker::run each worker process is
  wFence,     \* FenceCell: the fence a worker holds in memory
  msgs,       \* private connections a worker has not yet served
  accepted,   \* commands a worker let in and has not yet run
  owned       \* history: <<s, w>> when s was ever w's fenced supervisor

supVars  == <<supPc, gen, tok, waiting>>
diskVars == <<pidFile, fenceFile, recorded, sock>>
wrkVars  == <<wPc, wFence, msgs, accepted, owned>>
vars == <<supVars, diskVars, wrkVars>>

Tokens == Supervisors \cup Workers
Identities == [counter : Nat, instance : Supervisors]
Fences == [token : Tokens, supervisor : Identities]
Messages ==
  [kind : {"adopt"}, from : Supervisors, to : Workers, token : Tokens]
    \cup [kind : {"auth"}, from : Supervisors, to : Workers]

SupStates == {"off", "read", "truncated", "scan", "ensure", "readFence",
              "adopt", "await", "bind", "serve", "stopping", "dead"}
WrkStates == {"unspawned", "starting", "recorded", "fenced", "serving", "dead"}

TypeOK ==
  /\ supPc \in [Supervisors -> SupStates]
  /\ gen \in [Supervisors -> Nat]
  /\ tok \in [Supervisors -> Tokens \cup {NoToken}]
  /\ \A s \in Supervisors : supPc[s] = "adopt" => tok[s] # NoToken
  /\ waiting \in [Supervisors -> Workers \cup {NoWorker}]
  /\ pidFile \in Nat
  /\ fenceFile \in Fences \cup {NoFence}
  /\ recorded \in Workers \cup {NoWorker}
  /\ sock \in Workers \cup {NoWorker}
  /\ wPc \in [Workers -> WrkStates]
  /\ wFence \in [Workers -> Fences \cup {NoFence}]
  /\ msgs \in SUBSET Messages
  /\ accepted \in SUBSET (Supervisors \X Workers)
  /\ owned \in SUBSET (Supervisors \X Workers)

Identity(s) == [counter |-> gen[s], instance |-> s]

(* Mutant: a tie adopts.                                                   *)
AdoptsTie(new, current) == new.counter >= current.counter

(* fence.rs: strictly greater, so that a tie fails in both directions.     *)
MayAdoptFrom(new, current) == new.counter > current.counter

(* is_worker_alive: is the process state.json records still running?       *)
Alive(w) == w \in Workers /\ wPc[w] \notin {"unspawned", "dead"}

(* Mutant: a supervisor is told from another by its generation alone.      *)
ObeysGeneration(w, s) ==
  wFence[w] # NoFence => wFence[w].supervisor.counter = gen[s]

(* A worker nobody fenced obeys everybody, a fenced one its supervisor.    *)
Obeys(w, s) == wFence[w] # NoFence => wFence[w].supervisor = Identity(s)

(* A connect to worker.sock reaches a listener.                            *)
Listening == sock \in Workers /\ wPc[sock] = "serving"

Running(s) == supPc[s] \notin {"off", "dead"}

StartingUp(w) == wPc[w] \in {"starting", "recorded", "fenced"}

(* A fresh state root, or one upgraded under a live, unfenced worker.      *)
Init ==
  /\ supPc = [s \in Supervisors |-> "off"]
  /\ gen = [s \in Supervisors |-> 0]
  /\ tok = [s \in Supervisors |-> NoToken]
  /\ waiting = [s \in Supervisors |-> NoWorker]
  /\ pidFile \in {0, 1}
  /\ fenceFile = NoFence
  /\ recorded \in Workers \cup {NoWorker}
  /\ recorded # NoWorker => pidFile = 1 /\ "legacy" \in Hazards
  /\ sock = recorded
  /\ wPc = [w \in Workers |-> IF w = recorded THEN "serving" ELSE "unspawned"]
  /\ wFence = [w \in Workers |-> NoFence]
  /\ msgs = {}
  /\ accepted = {}
  /\ owned = {}

Goto(s, pc) == supPc' = [supPc EXCEPT ![s] = pc]

-----------------------------------------------------------------------------
(* Supervisor start: record_daemon_pid, recover_on_startup, bind.          *)

(* Reads daemon.pid; an absent or unparsable file counts as generation 0.  *)
Start(s) ==
  /\ supPc[s] = "off"
  /\ "overlap" \in Hazards \/ \A t \in Supervisors : ~Running(t)
  /\ gen' = [gen EXCEPT ![s] = pidFile + 1]
  /\ Goto(s, "read")
  /\ UNCHANGED <<tok, waiting, diskVars, wrkVars>>

(* std::fs::write truncates first ...                                      *)
PidTruncate(s) ==
  /\ supPc[s] = "read"
  /\ pidFile' = 0
  /\ Goto(s, "truncated")
  /\ UNCHANGED <<gen, tok, waiting, fenceFile, recorded, sock, wrkVars>>

(* ... and then writes the bumped generation.                              *)
PidWrite(s) ==
  /\ supPc[s] = "truncated"
  /\ pidFile' = gen[s]
  /\ Goto(s, "scan")
  /\ UNCHANGED <<gen, tok, waiting, fenceFile, recorded, sock, wrkVars>>

(* catalog::scan keeps the session only if its recorded worker is alive.   *)
RecoverScan(s) ==
  /\ supPc[s] = "scan"
  /\ Goto(s, IF Alive(recorded) THEN "ensure" ELSE "bind")
  /\ UNCHANGED <<gen, tok, waiting, diskVars, wrkVars>>

(* ensure_worker_running's fast path, no lock taken.                       *)
EnsureAlive(s) ==
  /\ supPc[s] = "ensure"
  /\ Alive(recorded)
  /\ Goto(s, "readFence")
  /\ UNCHANGED <<gen, tok, waiting, diskVars, wrkVars>>

(* A respawn that fails is logged and the session left behind.             *)
EnsureFails(s) ==
  /\ supPc[s] = "ensure"
  /\ ~Alive(recorded)
  /\ Goto(s, "bind")
  /\ UNCHANGED <<gen, tok, waiting, diskVars, wrkVars>>

(* The token an adopter invents is known by its inventor.                  *)
Minted(s) == s

(* adopt_worker: learn the token, unless the fence already names us.       *)
AdoptRead(s) ==
  /\ supPc[s] = "readFence"
  /\ waiting[s] = NoWorker
  /\ \/ /\ fenceFile # NoFence
        /\ fenceFile.supervisor = Identity(s)
        /\ Goto(s, "bind")
        /\ UNCHANGED tok
     \/ /\ fenceFile # NoFence
        /\ fenceFile.supervisor # Identity(s)
        /\ tok' = [tok EXCEPT ![s] = fenceFile.token]
        /\ Goto(s, "adopt")
     \/ /\ fenceFile = NoFence
        /\ tok' = [tok EXCEPT ![s] = Minted(s)]
        /\ Goto(s, "adopt")
  /\ UNCHANGED <<gen, waiting, diskVars, wrkVars>>

(* Connect and send WorkerAdopt; a failed connect is logged and skipped.   *)
AdoptSend(s) ==
  /\ supPc[s] = "adopt"
  /\ \/ /\ Listening
        /\ msgs' = msgs \cup {[kind |-> "adopt", from |-> s, to |-> sock,
                               token |-> tok[s]]}
        /\ Goto(s, "await")
     \/ /\ ~Listening
        /\ Goto(s, "bind")
        /\ UNCHANGED msgs
  /\ UNCHANGED <<gen, tok, waiting, diskVars, wPc, wFence, accepted, owned>>

(* Mutant: the verdict is not waited for.                                  *)
AdoptReturnAtOnce(s) ==
  /\ supPc[s] = "await"
  /\ Goto(s, "bind")
  /\ UNCHANGED <<gen, tok, waiting, diskVars, wrkVars>>

(* handshake_response: the verdict, the connection's end, or the timeout.  *)
AdoptReturn(s) ==
  /\ supPc[s] = "await"
  /\ "slow" \in Hazards \/ \A m \in msgs : ~(m.kind = "adopt" /\ m.from = s)
  /\ Goto(s, "bind")
  /\ UNCHANGED <<gen, tok, waiting, diskVars, wrkVars>>

(* Only now is daemon.sock claimed; a live owner's Pong makes us give up.  *)
DaemonBind(s) ==
  /\ supPc[s] = "bind"
  /\ \/ \A t \in Supervisors : supPc[t] \notin {"serve", "stopping"}
     \/ "misjudge" \in Hazards
  /\ Goto(s, "serve")
  /\ UNCHANGED <<gen, tok, waiting, diskVars, wrkVars>>

(* Mutant: a starting supervisor waits for daemon.sock to be given up.     *)
DaemonBindWaits(s) == FALSE

DaemonBindFails(s) ==
  /\ supPc[s] = "bind"
  /\ \E t \in Supervisors : supPc[t] \in {"serve", "stopping"}
  /\ Goto(s, "dead")
  /\ UNCHANGED <<gen, tok, waiting, diskVars, wrkVars>>

-----------------------------------------------------------------------------
(* Supervisor end.                                                         *)

MayLeave ==
  "midspawn" \in Hazards \/ \A w \in Workers : ~StartingUp(w)

Crash(s) ==
  /\ Running(s)
  /\ MayLeave
  /\ "torn" \in Hazards \/ supPc[s] # "truncated"
  /\ Goto(s, "dead")
  /\ UNCHANGED <<gen, tok, waiting, diskVars, wrkVars>>

(* The worker's mark_stopped, ack and exit(0), if it obeys the sender.     *)
ShutdownBegin(s) ==
  /\ supPc[s] = "serve"
  /\ MayLeave
  /\ Goto(s, "stopping")
  /\ LET obeys == Alive(recorded) /\ Listening /\ Obeys(sock, s)
     IN \/ /\ obeys
           /\ wPc' = [wPc EXCEPT ![sock] = "dead"]
           /\ msgs' = {m \in msgs : m.to # sock}
           /\ accepted' = {a \in accepted : a[2] # sock}
        \/ /\ ~obeys
           /\ UNCHANGED <<wPc, msgs, accepted>>
  /\ UNCHANGED <<gen, tok, waiting, diskVars, wFence, owned>>

(* remove_file(daemon.sock), remove_file(daemon.pid), exit(0).             *)
ShutdownEnd(s) ==
  /\ supPc[s] = "stopping"
  /\ MayLeave
  /\ pidFile' = 0
  /\ Goto(s, "dead")
  /\ UNCHANGED <<gen, tok, waiting, fenceFile, recorded, sock, wrkVars>>

ShutdownForce(s) ==
  /\ "force" \in Hazards
  /\ supPc[s] = "serve"
  /\ MayLeave
  /\ pidFile' = 0
  /\ Goto(s, "dead")
  /\ UNCHANGED <<gen, tok, waiting, fenceFile, recorded, sock, wrkVars>>

-----------------------------------------------------------------------------
(* Spawning.  The fence is minted and written before the process starts.   *)

(* handle_session_new spawns a session's first worker, for a client; only  *)
(* a session state.json knows of is respawned, for a client, at recovery   *)
(* or by the schedule loop, which runs before daemon.sock is bound.        *)
MaySpawn(s) ==
  /\ \/ supPc[s] \in {"ensure", "bind", "serve"}
     \/ supPc[s] = "stopping" /\ "revive" \in Hazards
  /\ recorded = NoWorker => supPc[s] = "serve" /\ fenceFile = NoFence

(* Mutant: the recorded worker's liveness is not checked under the lock.   *)
SpawnUnchecked(s, w) ==
  /\ MaySpawn(s)
  /\ waiting[s] = NoWorker
  /\ wPc[w] = "unspawned"
  /\ fenceFile' = [token |-> w, supervisor |-> Identity(s)]
  /\ wPc' = [wPc EXCEPT ![w] = "starting"]
  /\ waiting' = [waiting EXCEPT ![s] = w]
  /\ supPc' = [supPc EXCEPT ![s] = IF @ = "ensure" THEN "readFence" ELSE @]
  /\ UNCHANGED <<gen, tok, pidFile, recorded, sock, wFence, msgs, accepted, owned>>

Spawn(s, w) ==
  /\ MaySpawn(s)
  /\ waiting[s] = NoWorker
  /\ ~Alive(recorded)
  /\ wPc[w] = "unspawned"
  /\ fenceFile' = [token |-> w, supervisor |-> Identity(s)]
  /\ wPc' = [wPc EXCEPT ![w] = "starting"]
  /\ waiting' = [waiting EXCEPT ![s] = w]
  /\ supPc' = [supPc EXCEPT ![s] = IF @ = "ensure" THEN "readFence" ELSE @]
  /\ UNCHANGED <<gen, tok, pidFile, recorded, sock, wFence, msgs, accepted, owned>>

(* wait_ready pings whoever listens on worker.sock, for up to 30 seconds.  *)
SpawnDone(s) ==
  /\ Running(s)
  /\ waiting[s] # NoWorker
  /\ Listening \/ ~Alive(waiting[s]) \/ "slow" \in Hazards
  /\ waiting' = [waiting EXCEPT ![s] = NoWorker]
  /\ supPc' = [supPc EXCEPT ![s] =
                 IF @ = "readFence" /\ ~Listening THEN "bind" ELSE @]
  /\ UNCHANGED <<gen, tok, diskVars, wrkVars>>

-----------------------------------------------------------------------------
(* Worker start: state.json, then the fence, then the socket.              *)

WorkerRecord(w) ==
  /\ wPc[w] = "starting"
  /\ recorded' = w
  /\ wPc' = [wPc EXCEPT ![w] = "recorded"]
  /\ UNCHANGED <<supVars, pidFile, fenceFile, sock, wFence, msgs, accepted, owned>>

Own(w, fence) ==
  owned' = owned \cup
    (IF fence = NoFence THEN {} ELSE {<<fence.supervisor.instance, w>>})

WorkerReadFence(w) ==
  /\ wPc[w] = "recorded"
  /\ wFence' = [wFence EXCEPT ![w] = fenceFile]
  /\ Own(w, fenceFile)
  /\ wPc' = [wPc EXCEPT ![w] = "fenced"]
  /\ UNCHANGED <<supVars, diskVars, msgs, accepted>>

(* A listener that answers Ping keeps the path and the newcomer exits.     *)
WorkerBind(w) ==
  /\ wPc[w] = "fenced"
  /\ \/ /\ ~Listening
        /\ sock' = w
        /\ wPc' = [wPc EXCEPT ![w] = "serving"]
     \/ /\ Listening
        /\ wPc' = [wPc EXCEPT ![w] = "dead"]
        /\ UNCHANGED sock
  /\ UNCHANGED <<supVars, pidFile, fenceFile, recorded, wFence, msgs, accepted, owned>>

WorkerCrash(w) ==
  /\ Alive(w)
  /\ wPc' = [wPc EXCEPT ![w] = "dead"]
  /\ msgs' = {m \in msgs : m.to # w}
  /\ accepted' = {a \in accepted : a[2] # w}
  /\ UNCHANGED <<supVars, diskVars, wFence, owned>>

-----------------------------------------------------------------------------
(* authorize_private_connection.                                           *)

(* connect_worker: WorkerAuth and the request behind it, no ack awaited.   *)
(* The schedule loop commands workers before daemon.sock is bound.         *)
SendCommand(s) ==
  /\ supPc[s] \in {"bind", "serve", "stopping"}
  /\ Alive(recorded)
  /\ Listening
  /\ msgs' = msgs \cup {[kind |-> "auth", from |-> s, to |-> sock]}
  /\ UNCHANGED <<supVars, diskVars, wPc, wFence, accepted, owned>>

RecvAuth(m) ==
  /\ m.kind = "auth"
  /\ msgs' = msgs \ {m}
  /\ accepted' = accepted \cup (IF Obeys(m.to, m.from) THEN {<<m.from, m.to>>} ELSE {})
  /\ UNCHANGED <<supVars, diskVars, wPc, wFence, owned>>

(* Mutant: the token is all an adopter needs.                              *)
AdoptableByToken(m) == wFence[m.to] # NoFence => wFence[m.to].token = m.token

(* The fence advances for the token and a later generation; an unfenced    *)
(* worker takes the fence it is offered.  Memory first, then the file.     *)
Adoptable(m) ==
  wFence[m.to] # NoFence =>
    /\ wFence[m.to].token = m.token
    /\ MayAdoptFrom(Identity(m.from), wFence[m.to].supervisor)

RecvAdopt(m) ==
  /\ m.kind = "adopt"
  /\ msgs' = msgs \ {m}
  /\ \/ /\ Adoptable(m)
        /\ LET fence == [token |-> m.token, supervisor |-> Identity(m.from)]
           IN /\ wFence' = [wFence EXCEPT ![m.to] = fence]
              /\ fenceFile' = fence
              /\ Own(m.to, fence)
     \/ /\ ~Adoptable(m)
        /\ UNCHANGED <<wFence, fenceFile, owned>>
  /\ UNCHANGED <<supVars, pidFile, recorded, sock, wPc, accepted>>

(* The command gets the session lock and runs.                             *)
RunCommand(a) ==
  /\ accepted' = accepted \ {a}
  /\ UNCHANGED <<supVars, diskVars, wPc, wFence, msgs, owned>>

(* Every private connection is served by a task of its own.                *)
Receive(m) == m \in msgs /\ (RecvAuth(m) \/ RecvAdopt(m))

-----------------------------------------------------------------------------
Startup(s) ==
  \/ PidTruncate(s) \/ PidWrite(s) \/ RecoverScan(s) \/ EnsureAlive(s)
  \/ EnsureFails(s) \/ AdoptRead(s) \/ AdoptSend(s) \/ AdoptReturn(s)
  \/ DaemonBind(s) \/ DaemonBindFails(s)

WorkerStep(w) == WorkerRecord(w) \/ WorkerReadFence(w) \/ WorkerBind(w)

Next ==
  \/ \E s \in Supervisors :
       \/ Start(s) \/ Startup(s) \/ Crash(s) \/ SpawnDone(s) \/ SendCommand(s)
       \/ ShutdownBegin(s) \/ ShutdownEnd(s) \/ ShutdownForce(s)
       \/ \E w \in Workers : Spawn(s, w)
  \/ \E w \in Workers : WorkerStep(w) \/ WorkerCrash(w)
  \/ \E m \in msgs : Receive(m)
  \/ \E a \in accepted : RunCommand(a)

Spec == Init /\ [][Next]_vars

(* A process that lives keeps running, its startup, its readiness wait and *)
(* each of its connections being tasks of their own.                       *)
Fairness ==
  /\ \A s \in Supervisors : WF_vars(Startup(s)) /\ WF_vars(SpawnDone(s))
  /\ \A w \in Workers : WF_vars(WorkerStep(w))
  /\ \A s \in Supervisors, w \in Workers, t \in Tokens :
       WF_vars(Receive([kind |-> "adopt", from |-> s, to |-> w, token |-> t]))

FairSpec == Spec /\ Fairness

-----------------------------------------------------------------------------
(***************************************************************************)
(* Properties.                                                             *)
(***************************************************************************)

(* However supervisors overlap, tie, crash or reset daemon.pid: of all     *)
(* supervisors that ever held a worker's fence, the one that holds it now  *)
(* is of a strictly later generation than every other.  So no superseded   *)
(* supervisor gets a worker back, and two that raced to one generation     *)
(* never both own a worker (fence.rs, may_adopt_from).                     *)
OwnerIsNewest ==
  \A s \in Supervisors, w \in Workers :
    <<s, w>> \in owned =>
      /\ wFence[w] # NoFence
      /\ \/ s = wFence[w].supervisor.instance
         \/ gen[s] < wFence[w].supervisor.counter

(* What keeps OwnerIsNewest inductive: only supervisors that have started  *)
(* are named anywhere, a fence carries its owner's own generation, and a   *)
(* worker that reads its fence is one nobody has owned yet.                *)
FenceOfStarted(fence) ==
  fence # NoFence =>
    /\ supPc[fence.supervisor.instance] # "off"
    /\ fence.supervisor = Identity(fence.supervisor.instance)

FenceInv ==
  /\ \A s \in Supervisors : supPc[s] = "off" <=> gen[s] = 0
  /\ FenceOfStarted(fenceFile)
  /\ \A w \in Workers :
       /\ FenceOfStarted(wFence[w])
       /\ wFence[w] # NoFence => <<wFence[w].supervisor.instance, w>> \in owned
       /\ wPc[w] \in {"unspawned", "starting", "recorded"} => wFence[w] = NoFence
  /\ \A m \in msgs : supPc[m.from] # "off" /\ wPc[m.to] = "serving"
  /\ \A s \in Supervisors, w \in Workers : <<s, w>> \in owned => supPc[s] # "off"
  /\ OwnerIsNewest

(* A worker lets in no command of a supervisor once one of the same or a   *)
(* later generation has held its fence, not even a command that was sent   *)
(* before and arrives late (authorize_private_connection, WorkerAuth).     *)
SupersededNeverServed ==
  [][\A s \in Supervisors, w \in Workers :
       <<s, w>> \in accepted' \ accepted =>
         \A r \in Supervisors : <<r, w>> \in owned => r = s \/ gen[r] < gen[s]]_vars

(* recover_on_startup: "startup is the only moment a live worker can       *)
(* legitimately belong to a different supervisor".  Past its recovery, a   *)
(* supervisor is the one the session's listening worker obeys.             *)
ReplacementOwnsWorker ==
  \A s \in Supervisors :
    supPc[s] \in {"serve", "stopping"} /\ waiting[s] = NoWorker /\ Listening =>
      wFence[sock] # NoFence /\ wFence[sock].supervisor = Identity(s)

(* README.md on daemon shutdown --force: a skipped worker "keeps running   *)
(* and stays reachable, the same as after any other supervisor crash".     *)
(* The next supervisor past its recovery is one that worker obeys.         *)
ForcedShutdownIsLikeACrash == ReplacementOwnsWorker

(* COMPARISON.md: "daemon.sock's bind exclusivity makes the supervisor a   *)
(* singleton per state root".  While one supervisor holds daemon.sock, no  *)
(* other supervisor process takes a worker away from it.                   *)
BinderKeepsItsWorkers ==
  [][\A s \in Supervisors, w \in Workers :
       /\ supPc[s] = "serve" /\ supPc'[s] = "serve"
       /\ wPc[w] = "serving"
       /\ wFence[w] # NoFence /\ wFence[w].supervisor = Identity(s)
       => wFence'[w] = wFence[w]]_vars

(* The token on disk stays the one the listening worker would accept: a    *)
(* replacement supervisor can always learn what adoption takes (fence.rs,  *)
(* WorkerFence::write).                                                    *)
TokenOnDiskOpensWorker ==
  Listening /\ wFence[sock] # NoFence =>
    fenceFile # NoFence /\ fenceFile.token = wFence[sock].token

(* daemon::run: a supervisor that started either ends up serving clients   *)
(* or is gone; no handshake, spawn or bind holds its startup for ever.     *)
StartupCompletes ==
  \A s \in Supervisors : supPc[s] = "read" ~> supPc[s] \in {"serve", "dead"}

(* The fence implements Succession: counters, tokens, files and in-flight  *)
(* connections amount to each worker obeying a line of masters of strictly *)
(* rising generation.                                                      *)
Master(w) ==
  IF wFence[w] = NoFence THEN NoSupervisor ELSE wFence[w].supervisor.instance

OwnersOf(w) == {s \in Supervisors : <<s, w>> \in owned}

Abstract == INSTANCE Succession WITH
  rank <- gen,
  master <- [w \in Workers |-> Master(w)],
  past <- [w \in Workers |-> OwnersOf(w) \ {Master(w)}]

ImplementsSuccession == Abstract!Spec
=============================================================================
