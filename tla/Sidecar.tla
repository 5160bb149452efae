------------------------------- MODULE Sidecar -------------------------------
(***************************************************************************)
(* The rp-server sidecar: one process per state root that every session    *)
(* with a model shares, found through a record {port, pid}.  ensure_running*)
(* looks at the record, asks the port for its health, and otherwise picks  *)
(* a port, writes the configuration, launches a process, waits for its     *)
(* health and records it.  Nothing holds a lock over that: the supervisor's*)
(* revivals are serialised by spawn_lock, its creations and forks are not, *)
(* and `model list --detailed` does the same from a process of its own.    *)
(* Source: rp_server.rs; its callers in daemon/mod.rs and client.rs;       *)
(* worker::build_provider and session::mcp_client_or_connect.              *)
(***************************************************************************)
EXTENDS Naturals, FiniteSets

CONSTANTS
  Revivals,    \* sessions whose worker ensure_worker_running spawns
  Creations,   \* sessions that new and fork spawn
  Listings,    \* runs of `model list --detailed`
  Procs,       \* pids the launched processes get; bounds the launches
  Ports,
  None,        \* no port, no process, no record
  Unread,      \* a worker's port before its first use of --tools mcp
  MaxFaults    \* bound: crashes of sidecars, workers and supervisors

ASSUME SidecarAssumption ==
  /\ Revivals \cap Creations = {} /\ (Revivals \cup Creations) \cap Listings = {}
  /\ None \notin Ports /\ None \notin Procs /\ None \notin [port : Ports, pid : Procs]
  /\ Unread \notin Ports /\ Unread # None
  /\ MaxFaults \in Nat

VARIABLES
  record,   \* provider state file: port and pid, or None (missing, torn)
  config,   \* the port in the configuration file
  proc,     \* rp-server processes
  call,     \* calls of ensure_running, each with the worker spawn after it
  worker,   \* of each session: None, or the port its provider was built with
  seen      \* history: sidecars lost, a race or a call cut short, faults

vars == <<record, config, proc, call, worker, seen>>

Sessions == Revivals \cup Creations

Callers == Sessions \cup Listings

(* From the record found missing or stale to the new one written.          *)
Launching == {"picked", "configured", "waiting", "cut"}

Resting == [stage |-> "idle", port |-> None, pid |-> None]

ProviderState == [port : Ports, pid : Procs]

TypeOK ==
  /\ record \in ProviderState \cup {None}
  /\ config \in Ports \cup {None}
  /\ proc \in [Procs -> [state : {"unborn", "starting", "up", "dead"}, port : Ports \cup {None}]]
  /\ \A p, q \in Procs :
       (proc[p].state = "up" /\ proc[q].state = "up" /\ proc[p].port = proc[q].port) => p = q
  /\ call \in [Callers -> [stage : Launching \cup {"idle", "checking", "start"},
                           port : Ports \cup {None}, pid : Procs \cup {None}]]
  /\ worker \in [Sessions -> Ports \cup {None, Unread}]
  /\ seen \in [lost : SUBSET Ports, raced : BOOLEAN, faults : 0..MaxFaults]

Init ==
  /\ record = None
  /\ config = None
  /\ proc = [p \in Procs |-> [state |-> "unborn", port |-> None]]
  /\ call = [c \in Callers |-> Resting]
  /\ worker = [s \in Sessions |-> None]
  /\ seen = [lost |-> {}, raced |-> FALSE, faults |-> 0]

-----------------------------------------------------------------------------
(* What the operating system and rp-server do.                             *)

Served(port) == \E p \in Procs : proc[p].state = "up" /\ proc[p].port = port

(* Mutant: no recorded sidecar ever counts as healthy.                     *)
NeverHealthy(port) == FALSE

(* health_check of a recorded port.                                        *)
Healthy(port) == Served(port)

(* rp-server reads the configuration when it starts, not when it was       *)
(* launched, and exits if its port is taken.                               *)
Boot(p) ==
  /\ proc[p].state = "starting"
  /\ proc' = [proc EXCEPT ![p] =
                [state |-> IF Served(config) THEN "dead" ELSE "up", port |-> config]]
  /\ UNCHANGED <<record, config, call, worker, seen>>

Die(p) ==
  /\ proc[p].state \in {"starting", "up"}
  /\ seen.faults < MaxFaults
  /\ proc' = [proc EXCEPT ![p].state = "dead"]
  /\ seen' = [seen EXCEPT !.lost = @ \cup ({proc[p].port} \ {None}), !.faults = @ + 1]
  /\ UNCHANGED <<record, config, call, worker>>

-----------------------------------------------------------------------------
(* ensure_running.                                                         *)

Goes(c, stage) == call' = [call EXCEPT ![c].stage = stage]

Gives(c) == call' = [call EXCEPT ![c] = Resting]

(* Every session call spawns its worker next; the listing only fetches.    *)
After(c) == IF c \in Sessions THEN [Resting EXCEPT !.stage = "start"] ELSE Resting

(* Revivals hold spawn_lock from before ensure_running until their worker  *)
(* is spawned; a revival and a creation find no worker of their session.   *)
MayCall(c) ==
  /\ call[c] = Resting
  /\ c \in Sessions => worker[c] = None
  /\ c \in Revivals => \A d \in Revivals : call[d] = Resting

(* Another call is launching a sidecar, or has recorded one since c looked.*)
Overtakes(c) ==
  \/ \E d \in Callers \ {c} : call[d].stage \in Launching
  \/ call[c].port # None /\ record # None /\ record.port # call[c].port

Look(c) ==
  /\ MayCall(c)
  /\ IF record = None
       THEN /\ Goes(c, "picked")
            /\ seen' = [seen EXCEPT !.raced = @ \/ Overtakes(c)]
       ELSE /\ call' = [call EXCEPT ![c] = [stage |-> "checking", port |-> record.port, pid |-> None]]
            /\ UNCHANGED seen
  /\ UNCHANGED <<record, config, proc, worker>>

Adopt(c) ==
  /\ call[c].stage = "checking"
  /\ Healthy(call[c].port)
  /\ call' = [call EXCEPT ![c] = After(c)]
  /\ UNCHANGED <<record, config, proc, worker, seen>>

(* The record is stale, or its sidecar answered too late.                  *)
FindStale(c) ==
  /\ call[c].stage = "checking"
  /\ call' = [call EXCEPT ![c] = [Resting EXCEPT !.stage = "picked"]]
  /\ seen' = [seen EXCEPT !.raced = @ \/ Healthy(call[c].port) \/ Overtakes(c)]
  /\ UNCHANGED <<record, config, proc, worker>>

(* pick_free_port gives the port back at once; resolve_auth_env may run a  *)
(* command of the user's before write_config, and fail.                    *)
Configure(c) ==
  /\ call[c].stage = "picked"
  /\ \E port \in Ports :
       /\ ~Served(port)
       /\ config' = port
       /\ call' = [call EXCEPT ![c] = [stage |-> "configured", port |-> port, pid |-> None]]
  /\ UNCHANGED <<record, proc, worker, seen>>

(* Mutant: recorded before it is healthy.                                  *)
RecordEarly(c, p) == record' = [port |-> call[c].port, pid |-> p]

RecordLater(c, p) == UNCHANGED record

Launch(c) ==
  \E p \in Procs :
    /\ call[c].stage = "configured"
    /\ proc[p].state = "unborn"
    /\ proc' = [proc EXCEPT ![p].state = "starting"]
    /\ call' = [call EXCEPT ![c].stage = "waiting", ![c].pid = p]
    /\ RecordLater(c, p)
    /\ UNCHANGED <<config, worker, seen>>

(* The key's command, the binary or a file write failed.                   *)
LaunchFails(c) ==
  /\ call[c].stage \in {"picked", "configured"}
  /\ Gives(c)
  /\ UNCHANGED <<record, config, proc, worker, seen>>

(* wait_for_health asks the port it picked, whoever serves it; write_state *)
(* truncates the record before it writes it.                               *)
BecomesHealthy(c) ==
  /\ call[c].stage = "waiting"
  /\ Served(call[c].port)
  /\ Goes(c, "cut")
  /\ record' = None
  /\ UNCHANGED <<config, proc, worker, seen>>

RecordNew(c) == record' = [port |-> call[c].port, pid |-> call[c].pid]

WriteState(c) ==
  /\ call[c].stage = "cut"
  /\ RecordNew(c)
  /\ call' = [call EXCEPT ![c] = After(c)]
  /\ UNCHANGED <<config, proc, worker, seen>>

(* Twenty seconds went by: the process is left to itself.                  *)
TimeOut(c) ==
  /\ call[c].stage = "waiting"
  /\ Gives(c)
  /\ seen' = [seen EXCEPT !.raced = TRUE]
  /\ UNCHANGED <<record, config, proc, worker>>

-----------------------------------------------------------------------------
(* Workers.                                                                *)

(* build_provider reads the record once, in the worker, and keeps the port;*)
(* with --tools mcp and no model the first tool call does.  Without a      *)
(* record the worker does not start.                                       *)
StartWorker(s) ==
  /\ call[s].stage = "start"
  /\ Gives(s)
  /\ \/ worker' = [worker EXCEPT ![s] = IF record = None THEN None ELSE record.port]
     \/ worker' = [worker EXCEPT ![s] = Unread]
  /\ UNCHANGED <<record, config, proc, seen>>

ConnectMcp(s) ==
  /\ worker[s] = Unread
  /\ record # None
  /\ Served(record.port)
  /\ worker' = [worker EXCEPT ![s] = record.port]
  /\ UNCHANGED <<record, config, proc, call, seen>>

WorkerGone(s) ==
  /\ s \in Revivals
  /\ worker[s] # None
  /\ seen.faults < MaxFaults
  /\ worker' = [worker EXCEPT ![s] = None]
  /\ seen' = [seen EXCEPT !.faults = @ + 1]
  /\ UNCHANGED <<record, config, proc, call>>

-----------------------------------------------------------------------------
(* The end of a supervisor takes the calls of its sessions with it; a      *)
(* listing goes on.                                                        *)

CallsEnd ==
  /\ call' = [c \in Callers |-> IF c \in Sessions THEN Resting ELSE call[c]]

(* A process launched and not recorded is on its own from here.            *)
CutShort == \E s \in Sessions : call[s].stage \in {"waiting", "cut"}

SupervisorDies ==
  /\ \E s \in Sessions : call[s] # Resting
  /\ seen.faults < MaxFaults
  /\ CallsEnd
  /\ seen' = [seen EXCEPT !.faults = @ + 1, !.raced = @ \/ CutShort]
  /\ UNCHANGED <<record, config, proc, worker>>

(* Mutant: the record is removed, its process goes on.                     *)
KillsNone == {}

(* kill(state.pid).                                                        *)
Killed == IF record = None THEN {} ELSE {p \in {record.pid} : proc[p].state # "unborn"}

(* handle_daemon_shutdown: workers were asked to stop first, or with       *)
(* --force left alone.                                                     *)
Shutdown ==
  /\ record # None \/ CutShort
  /\ proc' = [p \in Procs |-> IF p \in Killed THEN [proc[p] EXCEPT !.state = "dead"] ELSE proc[p]]
  /\ record' = None
  /\ CallsEnd
  /\ \/ worker' = [s \in Sessions |-> None]
     \/ UNCHANGED worker
  /\ seen' = [seen EXCEPT !.lost = @ \cup ({proc[p].port : p \in Killed} \ {None}),
                          !.raced = @ \/ CutShort]
  /\ UNCHANGED config

Next ==
  \/ \E p \in Procs : Boot(p) \/ Die(p)
  \/ \E c \in Callers :
       \/ Look(c) \/ Adopt(c) \/ FindStale(c)
       \/ Configure(c) \/ Launch(c) \/ LaunchFails(c)
       \/ BecomesHealthy(c) \/ WriteState(c) \/ TimeOut(c)
  \/ \E s \in Sessions : StartWorker(s) \/ ConnectMcp(s) \/ WorkerGone(s)
  \/ SupervisorDies
  \/ Shutdown

Spec == Init /\ [][Next]_vars

-----------------------------------------------------------------------------
(* Properties.                                                             *)

Running == {p \in Procs : proc[p].state \in {"starting", "up"}}

(* ensure_running adopts rather than double-spawns: while no two calls     *)
(* overlap between check and record and none is cut short or gives up, at  *)
(* most one sidecar runs, over crashes, adoptions, restarts and shutdowns. *)
OneSidecar == ~seen.raced => Cardinality(Running) <= 1

(* Daemon shutdown stops the sidecar: the record names the process that    *)
(* runs, and no other is left, on the same terms.                          *)
ShutdownStopsSidecar ==
  [][(Shutdown /\ ~seen.raced /\ ~\E c \in Callers : call[c].stage \in {"waiting", "cut"})
       => Running' = {}]_vars

(* A worker built its provider for a port a sidecar served, whatever       *)
(* raced: the record is never written, nor left, for one not yet healthy.  *)
WorkerFoundSidecar ==
  \A s \in Sessions : worker[s] \in Ports => Served(worker[s]) \/ worker[s] \in seen.lost

(* Sessions share one sidecar: while nothing raced, workers whose sidecar  *)
(* was not lost use the same one, and it is the recorded one.              *)
SessionsShareOne ==
  ~seen.raced =>
    \A s \in Sessions :
      worker[s] \in Ports \ seen.lost => record # None /\ record.port = worker[s]

(* No lock needed, as the module's documentation says: does not hold.      *)
NeverTwoSidecars == Cardinality({p \in Procs : proc[p].state = "up"}) <= 1
=============================================================================
