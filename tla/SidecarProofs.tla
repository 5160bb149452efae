---------------------------- MODULE SidecarProofs ----------------------------
(* One sidecar at a time, shared and stopped, for any number of sessions,  *)
(* listings, processes, ports and faults.                                  *)
EXTENDS Sidecar, FiniteSetTheorems, TLAPS

Calls ==
  [stage : Launching \cup {"idle", "checking", "start"},
   port : Ports \cup {None}, pid : Procs \cup {None}]

(* What a call knows by its stage.                                         *)
StageOK ==
  \A c \in Callers :
    /\ call[c].stage \in {"checking", "configured", "waiting", "cut"} => call[c].port \in Ports
    /\ call[c].stage \in {"waiting", "cut"} => call[c].pid \in Procs

Found(q) == Served(q) \/ q \in seen.lost

(* Ports that are recorded, about to be, or used have had a sidecar.       *)
FoundOK ==
  /\ record # None => Found(record.port)
  /\ \A c \in Callers : call[c].stage = "cut" => Found(call[c].port)
  /\ WorkerFoundSidecar

BaseInv == TypeOK /\ StageOK /\ FoundOK

LEMMA RestingType == Resting \in Calls /\ \A c : After(c) \in Calls
BY DEF Calls, Resting, After, Launching

(* A sidecar's port stays served or becomes one that was lost.             *)
LEMMA FoundKept ==
  ASSUME TypeOK, [Next]_vars, NEW q \in Ports, Found(q)
  PROVE  Found(q)'
<1>1. q # None
  BY SidecarAssumption
<1>2. CASE UNCHANGED proc /\ seen.lost \subseteq seen'.lost
  BY <1>2 DEF Found, Served
<1>3. CASE \E p \in Procs : Boot(p)
  <2>1. PICK p \in Procs : Boot(p)
    BY <1>3
  <2>2. \A r \in Procs : proc[r].state = "up" => proc'[r] = proc[r]
    BY <2>1 DEF Boot, TypeOK
  <2> QED BY <2>1, <2>2 DEF Found, Served, Boot
<1>4. CASE \E p \in Procs : Die(p)
  <2>1. PICK p \in Procs : Die(p)
    BY <1>4
  <2>2. \A r \in Procs : r # p => proc'[r] = proc[r]
    BY <2>1 DEF Die, TypeOK
  <2>3. seen'.lost = seen.lost \cup ({proc[p].port} \ {None})
    BY <2>1 DEF Die, TypeOK
  <2> QED BY <1>1, <2>2, <2>3 DEF Found, Served
<1>5. CASE Shutdown
  <2>1. \A r \in Procs : r \notin Killed => proc'[r] = proc[r]
    BY <1>5 DEF Shutdown
  <2>2. seen'.lost = seen.lost \cup ({proc[p].port : p \in Killed} \ {None})
    BY <1>5 DEF Shutdown, TypeOK
  <2> QED BY <1>1, <2>1, <2>2 DEF Found, Served
<1>6. CASE \E c \in Callers : Launch(c)
  <2>1. PICK c \in Callers, p \in Procs :
          /\ proc[p].state = "unborn"
          /\ proc' = [proc EXCEPT ![p].state = "starting"]
          /\ UNCHANGED seen
    BY <1>6 DEF Launch
  <2>2. \A r \in Procs : proc[r].state = "up" => proc'[r] = proc[r]
    BY <2>1 DEF TypeOK
  <2> QED BY <2>1, <2>2 DEF Found, Served
<1>7. CASE SupervisorDies \/ UNCHANGED vars
  <2>1. UNCHANGED proc /\ seen.lost \subseteq seen'.lost
    BY <1>7 DEF SupervisorDies, vars, TypeOK
  <2> QED BY <1>2, <2>1
<1>8. CASE \E s \in Sessions : StartWorker(s) \/ ConnectMcp(s) \/ WorkerGone(s)
  <2>1. UNCHANGED proc /\ seen.lost \subseteq seen'.lost
    BY <1>8 DEF StartWorker, ConnectMcp, WorkerGone, TypeOK
  <2> QED BY <1>2, <2>1
<1>9. CASE \E c \in Callers :
             \/ Look(c) \/ Adopt(c) \/ FindStale(c) \/ Configure(c) \/ LaunchFails(c)
             \/ BecomesHealthy(c) \/ WriteState(c) \/ TimeOut(c)
  <2>1. UNCHANGED proc /\ seen.lost \subseteq seen'.lost
    BY <1>9 DEF Look, Adopt, FindStale, Configure, LaunchFails, BecomesHealthy,
                 WriteState, TimeOut, TypeOK
  <2> QED BY <1>2, <2>1
<1> QED BY <1>3, <1>4, <1>5, <1>6, <1>7, <1>8, <1>9 DEF Next

-----------------------------------------------------------------------------
(* Types, and what FoundOK says, step by step.                             *)

LEMMA BaseInit == Init => BaseInv
<1> SUFFICES ASSUME Init PROVE BaseInv
  OBVIOUS
<1>1. TypeOK
  BY RestingType, SidecarAssumption DEF Init, TypeOK, Calls
<1>2. StageOK
  BY DEF Init, StageOK, Resting
<1>3. FoundOK
  BY SidecarAssumption DEF Init, FoundOK, WorkerFoundSidecar, Resting
<1> QED BY <1>1, <1>2, <1>3 DEF BaseInv

LEMMA TypeStep ==
  ASSUME TypeOK, StageOK, [Next]_vars
  PROVE  TypeOK'
<1> USE SidecarAssumption
<1>1. ASSUME NEW p \in Procs, Boot(p) PROVE TypeOK'
  <2>1. CASE Served(config)
    BY <1>1, <2>1 DEF Boot, TypeOK
  <2>2. CASE ~Served(config)
    BY <1>1, <2>2 DEF Boot, TypeOK, Served
  <2> QED BY <2>1, <2>2
<1>2. ASSUME NEW p \in Procs, Die(p) PROVE TypeOK'
  <2>1. seen' \in [lost : SUBSET Ports, raced : BOOLEAN, faults : 0..MaxFaults]
    <3>1. {proc[p].port} \ {None} \subseteq Ports
      BY DEF TypeOK
    <3>2. seen' = [lost |-> seen.lost \cup ({proc[p].port} \ {None}), raced |-> seen.raced,
                   faults |-> seen.faults + 1]
      BY <1>2 DEF Die, TypeOK
    <3>3. seen.faults + 1 \in 0..MaxFaults
      BY <1>2 DEF Die, TypeOK
    <3> QED BY <3>1, <3>2, <3>3 DEF TypeOK
  <2>2. /\ proc' \in [Procs -> [state : {"unborn", "starting", "up", "dead"},
                                port : Ports \cup {None}]]
        /\ \A r \in Procs : proc'[r].state = "up" => proc'[r] = proc[r]
    BY <1>2 DEF Die, TypeOK
  <2> QED BY <1>2, <2>1, <2>2 DEF Die, TypeOK
<1>3. ASSUME NEW c \in Callers, Look(c) \/ Adopt(c) \/ FindStale(c) \/ TimeOut(c)
      PROVE  TypeOK'
  <2>1. call' \in [Callers -> Calls]
    <3>1. CASE Look(c) \/ FindStale(c)
      BY <3>1 DEF Look, FindStale, Goes, Launching, TypeOK, ProviderState, Resting, Calls
    <3>2. CASE Adopt(c)
      BY <3>2, RestingType DEF Adopt, TypeOK, Calls
    <3>3. CASE TimeOut(c)
      BY <3>3, RestingType DEF TimeOut, Gives, TypeOK, Calls
    <3> QED BY <1>3, <3>1, <3>2, <3>3
  <2>2. seen' \in [lost : SUBSET Ports, raced : BOOLEAN, faults : 0..MaxFaults]
    BY <1>3 DEF Look, Adopt, FindStale, TimeOut, TypeOK
  <2>3. UNCHANGED <<record, config, proc, worker>>
    BY <1>3 DEF Look, Adopt, FindStale, TimeOut
  <2> QED BY <2>1, <2>2, <2>3 DEF TypeOK, Calls
<1>4. ASSUME NEW c \in Callers, Configure(c) \/ LaunchFails(c) \/ BecomesHealthy(c)
      PROVE  TypeOK'
  <2>1. call' \in [Callers -> Calls]
    <3>1. CASE Configure(c)
      BY <3>1 DEF Configure, Launching, TypeOK, Calls
    <3>2. CASE LaunchFails(c)
      BY <3>2, RestingType DEF LaunchFails, Gives, TypeOK, Calls
    <3>3. CASE BecomesHealthy(c)
      BY <3>3 DEF BecomesHealthy, Goes, Launching, TypeOK, Calls
    <3> QED BY <1>4, <3>1, <3>2, <3>3
  <2>2. UNCHANGED <<proc, worker, seen>> /\ config' \in Ports \cup {None}
        /\ record' \in ProviderState \cup {None}
    BY <1>4 DEF Configure, LaunchFails, BecomesHealthy, TypeOK
  <2> QED BY <2>1, <2>2 DEF TypeOK, Calls
<1>5. ASSUME NEW c \in Callers, WriteState(c) PROVE TypeOK'
  <2>1. call' \in [Callers -> Calls]
    BY <1>5, RestingType DEF WriteState, TypeOK, Calls
  <2>2. record' \in ProviderState
    BY <1>5 DEF WriteState, RecordNew, StageOK, ProviderState
  <2> QED BY <1>5, <2>1, <2>2 DEF WriteState, TypeOK, Calls
<1>6. ASSUME NEW c \in Callers, Launch(c) PROVE TypeOK'
  <2>1. PICK p \in Procs :
          /\ proc[p].state = "unborn"
          /\ proc' = [proc EXCEPT ![p].state = "starting"]
          /\ call' = [call EXCEPT ![c].stage = "waiting", ![c].pid = p]
          /\ UNCHANGED <<record, config, worker, seen>>
    BY <1>6 DEF Launch, RecordLater
  <2>2. call' \in [Callers -> Calls]
    <3>1. call[c] \in Calls
      BY DEF TypeOK, Calls
    <3>2. [call[c] EXCEPT !.stage = "waiting", !.pid = p] \in Calls
      BY <3>1 DEF Launching, Calls
    <3>3. call' = [call EXCEPT ![c] = [@ EXCEPT !.stage = "waiting", !.pid = p]]
      BY <2>1, <3>1 DEF TypeOK, Calls
    <3> QED BY <3>2, <3>3 DEF TypeOK, Calls
  <2>3. /\ proc' \in [Procs -> [state : {"unborn", "starting", "up", "dead"},
                                port : Ports \cup {None}]]
        /\ \A r \in Procs : proc'[r].state = "up" => proc'[r] = proc[r]
    BY <2>1 DEF TypeOK
  <2> QED BY <2>1, <2>2, <2>3 DEF TypeOK, Calls
<1>7. ASSUME NEW s \in Sessions, StartWorker(s) \/ ConnectMcp(s) \/ WorkerGone(s)
      PROVE  TypeOK'
  <2>1. call' \in [Callers -> Calls]
    BY <1>7, RestingType DEF StartWorker, ConnectMcp, WorkerGone, Gives, TypeOK, Calls
  <2>2. worker' \in [Sessions -> Ports \cup {None, Unread}]
    BY <1>7 DEF StartWorker, ConnectMcp, WorkerGone, TypeOK, ProviderState
  <2>3. seen' \in [lost : SUBSET Ports, raced : BOOLEAN, faults : 0..MaxFaults]
    BY <1>7 DEF StartWorker, ConnectMcp, WorkerGone, TypeOK
  <2>4. UNCHANGED <<record, config, proc>>
    BY <1>7 DEF StartWorker, ConnectMcp, WorkerGone
  <2> QED BY <2>1, <2>2, <2>3, <2>4 DEF TypeOK, Calls
<1>8. CASE SupervisorDies
  <2>1. call' \in [Callers -> Calls]
    BY <1>8, RestingType DEF SupervisorDies, CallsEnd, TypeOK, Calls
  <2>2. seen' \in [lost : SUBSET Ports, raced : BOOLEAN, faults : 0..MaxFaults]
    <3>1. seen' = [lost |-> seen.lost, raced |-> seen.raced \/ CutShort,
                   faults |-> seen.faults + 1]
      BY <1>8 DEF SupervisorDies, TypeOK
    <3>2. (seen.raced \/ CutShort) \in BOOLEAN
      BY DEF CutShort
    <3>3. seen.faults + 1 \in 0..MaxFaults
      BY <1>8 DEF SupervisorDies, TypeOK
    <3> QED BY <3>1, <3>2, <3>3 DEF TypeOK
  <2> QED BY <1>8, <2>1, <2>2 DEF SupervisorDies, TypeOK, Calls
<1>9. CASE Shutdown
  <2>1. call' \in [Callers -> Calls]
    BY <1>9, RestingType DEF Shutdown, CallsEnd, TypeOK, Calls
  <2>2. seen' \in [lost : SUBSET Ports, raced : BOOLEAN, faults : 0..MaxFaults]
    <3>1. Killed \subseteq Procs
      BY DEF Killed, TypeOK, ProviderState
    <3>2. {proc[p].port : p \in Killed} \ {None} \subseteq Ports
      BY <3>1 DEF TypeOK
    <3> QED BY <1>9, <3>2 DEF Shutdown, CutShort, TypeOK
  <2>3. worker' \in [Sessions -> Ports \cup {None, Unread}]
    BY <1>9 DEF Shutdown, TypeOK
  <2>4. /\ proc' \in [Procs -> [state : {"unborn", "starting", "up", "dead"},
                                port : Ports \cup {None}]]
        /\ \A r \in Procs : proc'[r].state = "up" => proc'[r] = proc[r]
    BY <1>9 DEF Shutdown, TypeOK
  <2>5. record' = None /\ UNCHANGED config
    BY <1>9 DEF Shutdown
  <2> QED BY <2>1, <2>2, <2>3, <2>4, <2>5 DEF TypeOK, Calls
<1>10. CASE UNCHANGED vars
  BY <1>10 DEF vars, TypeOK
<1> QED BY <1>1, <1>2, <1>3, <1>4, <1>5, <1>6, <1>7, <1>8, <1>9, <1>10 DEF Next

(* What the steps do to the calls.                                         *)
LEMMA CallMoves ==
  ASSUME TypeOK, NEW c \in Callers
  PROVE
    /\ Look(c) => call' = [call EXCEPT ![c] = call'[c]]
                   /\ \/ record = None /\ call'[c].stage = "picked"
                      \/ record # None /\ call'[c].stage = "checking" /\ call'[c].port = record.port
    /\ Adopt(c) \/ WriteState(c)
         => call' = [call EXCEPT ![c] = call'[c]] /\ call'[c].stage \in {"idle", "start"}
    /\ LaunchFails(c) \/ TimeOut(c) \/ (c \in Sessions /\ StartWorker(c))
         => call' = [call EXCEPT ![c] = call'[c]] /\ call'[c].stage = "idle"
    /\ FindStale(c)
         => call' = [call EXCEPT ![c] = call'[c]] /\ call'[c].stage = "picked"
    /\ Configure(c)
         => call' = [call EXCEPT ![c] = call'[c]] /\ call'[c].stage = "configured"
            /\ call'[c].port = config' /\ config' \in Ports /\ ~Served(config')
    /\ Launch(c)
         => call' = [call EXCEPT ![c] = call'[c]] /\ call'[c].stage = "waiting"
            /\ call'[c].port = call[c].port /\ call'[c].pid \in Procs
            /\ proc[call'[c].pid].state = "unborn"
            /\ proc' = [proc EXCEPT ![call'[c].pid].state = "starting"]
            /\ UNCHANGED <<record, config, worker, seen>>
    /\ BecomesHealthy(c)
         => call' = [call EXCEPT ![c] = call'[c]] /\ call'[c].stage = "cut"
            /\ call'[c].port = call[c].port /\ call'[c].pid = call[c].pid
<1> USE DEF TypeOK
<1>1. Look(c) => call' = [call EXCEPT ![c] = call'[c]]
                   /\ \/ record = None /\ call'[c].stage = "picked"
                      \/ record # None /\ call'[c].stage = "checking" /\ call'[c].port = record.port
  BY DEF Look, Goes
<1>2. Adopt(c) \/ WriteState(c)
         => call' = [call EXCEPT ![c] = call'[c]] /\ call'[c].stage \in {"idle", "start"}
  BY DEF Adopt, WriteState, After, Resting
<1>3. LaunchFails(c) \/ TimeOut(c) \/ (c \in Sessions /\ StartWorker(c))
         => call' = [call EXCEPT ![c] = call'[c]] /\ call'[c].stage = "idle"
  BY DEF LaunchFails, TimeOut, StartWorker, Gives, Resting
<1>4. FindStale(c)
         => call' = [call EXCEPT ![c] = call'[c]] /\ call'[c].stage = "picked"
  BY DEF FindStale, Resting
<1>5. Configure(c)
         => call' = [call EXCEPT ![c] = call'[c]] /\ call'[c].stage = "configured"
            /\ call'[c].port = config' /\ config' \in Ports /\ ~Served(config')
  BY DEF Configure
<1>6. Launch(c)
         => call' = [call EXCEPT ![c] = call'[c]] /\ call'[c].stage = "waiting"
            /\ call'[c].port = call[c].port /\ call'[c].pid \in Procs
            /\ proc[call'[c].pid].state = "unborn"
            /\ proc' = [proc EXCEPT ![call'[c].pid].state = "starting"]
            /\ UNCHANGED <<record, config, worker, seen>>
  <2> SUFFICES ASSUME Launch(c)
               PROVE  /\ call' = [call EXCEPT ![c] = call'[c]] /\ call'[c].stage = "waiting"
                      /\ call'[c].port = call[c].port /\ call'[c].pid \in Procs
                      /\ proc[call'[c].pid].state = "unborn"
                      /\ proc' = [proc EXCEPT ![call'[c].pid].state = "starting"]
                      /\ UNCHANGED <<record, config, worker, seen>>
    OBVIOUS
  <2>1. PICK p \in Procs :
          /\ proc[p].state = "unborn"
          /\ proc' = [proc EXCEPT ![p].state = "starting"]
          /\ call' = [call EXCEPT ![c].stage = "waiting", ![c].pid = p]
          /\ UNCHANGED <<record, config, worker, seen>>
    BY DEF Launch, RecordLater
  <2>2. call' = [call EXCEPT ![c] = [@ EXCEPT !.stage = "waiting", !.pid = p]]
    BY <2>1
  <2>3. call'[c].pid = p /\ call'[c].stage = "waiting" /\ call'[c].port = call[c].port
    BY <2>2
  <2> QED BY <2>1, <2>2, <2>3
<1>7. BecomesHealthy(c)
         => call' = [call EXCEPT ![c] = call'[c]] /\ call'[c].stage = "cut"
            /\ call'[c].port = call[c].port /\ call'[c].pid = call[c].pid
  BY DEF BecomesHealthy, Goes
<1> QED BY <1>1, <1>2, <1>3, <1>4, <1>5, <1>6, <1>7

LEMMA CallsRest ==
  ASSUME TypeOK, CallsEnd
  PROVE  \A c \in Callers : call'[c] = call[c] \/ call'[c].stage = "idle"
BY DEF CallsEnd, Resting

LEMMA StageStep ==
  ASSUME TypeOK, StageOK, [Next]_vars
  PROVE  StageOK'
<1> USE DEF StageOK
<1>1. ASSUME NEW c \in Callers,
             \/ Look(c) \/ Adopt(c) \/ FindStale(c) \/ Configure(c) \/ Launch(c)
             \/ LaunchFails(c) \/ BecomesHealthy(c) \/ WriteState(c) \/ TimeOut(c)
             \/ (c \in Sessions /\ StartWorker(c))
      PROVE  StageOK'
  <2>1. call' = [call EXCEPT ![c] = call'[c]]
    BY <1>1, CallMoves
  <2>2. /\ call'[c].stage \in {"checking", "configured", "waiting", "cut"}
             => call'[c].port \in Ports
        /\ call'[c].stage \in {"waiting", "cut"} => call'[c].pid \in Procs
    BY <1>1, CallMoves DEF Launch, BecomesHealthy, TypeOK, ProviderState
  <2>3. \A d \in Callers : d # c => call'[d] = call[d]
    BY <2>1 DEF TypeOK
  <2> QED BY <2>2, <2>3
<1>2. CASE UNCHANGED call
  BY <1>2
<1>3. CASE SupervisorDies \/ Shutdown
  <2>1. CallsEnd
    BY <1>3 DEF SupervisorDies, Shutdown
  <2> QED BY <2>1, CallsRest
<1>4. ASSUME NEW p \in Procs, Boot(p) \/ Die(p) PROVE UNCHANGED call
  BY <1>4 DEF Boot, Die
<1>5. ASSUME NEW s \in Sessions, ConnectMcp(s) \/ WorkerGone(s) PROVE UNCHANGED call
  BY <1>5 DEF ConnectMcp, WorkerGone
<1>6. CASE UNCHANGED vars
  BY <1>6, <1>2 DEF vars
<1> QED BY <1>1, <1>2, <1>3, <1>4, <1>5, <1>6 DEF Next, Callers

LEMMA FoundStep ==
  ASSUME BaseInv, [Next]_vars
  PROVE  FoundOK'
<1> USE DEF BaseInv
<1>1. \A q \in Ports : Found(q) => Found(q)'
  BY FoundKept
<1>2. StageOK' /\ TypeOK'
  BY StageStep, TypeStep
<1>3. (record # None => Found(record.port))'
  <2>1. CASE record' = record \/ record' = None
    BY <2>1, <1>1 DEF FoundOK, TypeOK, ProviderState, Found, Served
  <2>2. CASE \E c \in Callers : WriteState(c)
    <3>1. PICK c \in Callers : WriteState(c)
      BY <2>2
    <3>2. record'.port = call[c].port /\ call[c].stage = "cut"
      BY <3>1 DEF WriteState, RecordNew
    <3>3. Found(call[c].port) /\ call[c].port \in Ports
      BY <3>2 DEF FoundOK, StageOK
    <3> QED BY <1>1, <3>2, <3>3 DEF Found, Served
  <2>3. record' = record \/ record' = None \/ \E c \in Callers : WriteState(c)
    BY DEF Next, vars, Boot, Die, Look, Adopt, FindStale, Configure, Launch, RecordLater,
           LaunchFails, BecomesHealthy, TimeOut, StartWorker, ConnectMcp, WorkerGone,
           SupervisorDies, Shutdown
  <2> QED BY <2>1, <2>2, <2>3
<1>4. (\A c \in Callers : call[c].stage = "cut" => Found(call[c].port))'
  <2> SUFFICES ASSUME NEW c \in Callers, call'[c].stage = "cut" PROVE Found(call[c].port)'
    OBVIOUS
  <2>1. CASE call'[c] = call[c]
    BY <2>1, <1>1 DEF FoundOK, StageOK, Found, Served
  <2>2. CASE BecomesHealthy(c)
    <3>1. call'[c].port = call[c].port /\ call[c].port \in Ports
      BY <2>2, CallMoves DEF BecomesHealthy, StageOK
    <3>2. Found(call[c].port)
      BY <2>2 DEF BecomesHealthy, Found
    <3> QED BY <1>1, <3>1, <3>2 DEF Found, Served
  <2>3. call'[c] = call[c] \/ BecomesHealthy(c)
    <3>1. ASSUME NEW d \in Callers,
             \/ Look(d) \/ Adopt(d) \/ FindStale(d) \/ Configure(d) \/ Launch(d)
             \/ LaunchFails(d) \/ BecomesHealthy(d) \/ WriteState(d) \/ TimeOut(d)
             \/ (d \in Sessions /\ StartWorker(d))
          PROVE  call'[c] = call[c] \/ BecomesHealthy(c)
      <4>1. call' = [call EXCEPT ![d] = call'[d]]
        BY <3>1, CallMoves
      <4>2. CASE c # d
        BY <4>1, <4>2 DEF TypeOK
      <4>3. CASE c = d
        BY <3>1, <4>3, CallMoves
      <4> QED BY <4>2, <4>3
    <3>2. CASE SupervisorDies \/ Shutdown
      <4>1. CallsEnd
        BY <3>2 DEF SupervisorDies, Shutdown
      <4> QED BY <4>1, CallsRest
    <3>3. ASSUME NEW p \in Procs, Boot(p) \/ Die(p) PROVE UNCHANGED call
      BY <3>3 DEF Boot, Die
    <3>4. ASSUME NEW s \in Sessions, ConnectMcp(s) \/ WorkerGone(s) PROVE UNCHANGED call
      BY <3>4 DEF ConnectMcp, WorkerGone
    <3> QED BY <3>1, <3>2, <3>3, <3>4 DEF Next, Callers, vars
  <2> QED BY <2>1, <2>2, <2>3
<1>5. WorkerFoundSidecar'
  <2> SUFFICES ASSUME NEW s \in Sessions, worker'[s] \in Ports PROVE Found(worker[s])'
    BY DEF WorkerFoundSidecar, Found
  <2>1. CASE worker'[s] = worker[s]
    BY <2>1, <1>1 DEF FoundOK, WorkerFoundSidecar, Found, Served
  <2>2. CASE record # None /\ worker'[s] = record.port
    BY <2>2, <1>1 DEF FoundOK, TypeOK, ProviderState, Found, Served
  <2>3. worker'[s] = worker[s] \/ (record # None /\ worker'[s] = record.port)
    <3>1. CASE \E r \in Sessions : StartWorker(r) \/ ConnectMcp(r) \/ WorkerGone(r)
      BY <3>1, SidecarAssumption DEF StartWorker, ConnectMcp, WorkerGone, TypeOK
    <3>2. CASE Shutdown
      BY <3>2, SidecarAssumption DEF Shutdown
    <3>3. CASE \/ \E p \in Procs : Boot(p) \/ Die(p)
               \/ \E c \in Callers :
                    \/ Look(c) \/ Adopt(c) \/ FindStale(c) \/ Configure(c) \/ Launch(c)
                    \/ LaunchFails(c) \/ BecomesHealthy(c) \/ WriteState(c) \/ TimeOut(c)
               \/ SupervisorDies
               \/ UNCHANGED vars
      BY <3>3 DEF vars, Boot, Die, Look, Adopt, FindStale, Configure, Launch, LaunchFails,
                  BecomesHealthy, WriteState, TimeOut, SupervisorDies
    <3> QED BY <3>1, <3>2, <3>3 DEF Next
  <2> QED BY <2>1, <2>2, <2>3
<1> QED BY <1>3, <1>4, <1>5 DEF FoundOK

LEMMA BaseStep == BaseInv /\ [Next]_vars => BaseInv'
BY TypeStep, StageStep, FoundStep DEF BaseInv

(* Every state is of the declared types, for every bound.                  *)
THEOREM TypeCorrect == Spec => []TypeOK
<1>1. BaseInv => TypeOK
  BY DEF BaseInv
<1> QED BY <1>1, BaseInit, BaseStep, PTL DEF Spec

(* A worker is built with the port of a sidecar that was there, and only a *)
(* sidecar that ended since can be missing: for every bound, and whatever  *)
(* calls overlap, are cut short or time out.                               *)
THEOREM WorkersFoundSidecars == Spec => []WorkerFoundSidecar
<1>1. BaseInv => WorkerFoundSidecar
  BY DEF BaseInv, FoundOK
<1> QED BY <1>1, BaseInit, BaseStep, PTL DEF Spec

-----------------------------------------------------------------------------
(* While nothing raced: one launch at a time, and what runs is what the    *)
(* launch in progress started or else what the record names.               *)

AllLost ==
  /\ record # None => record.port \in seen.lost
  /\ \A s \in Sessions : worker[s] \in Ports => worker[s] \in seen.lost

OneLaunch ==
  \A c, d \in Callers : call[c].stage \in Launching /\ call[d].stage \in Launching => c = d

Launches ==
  \A c \in Callers :
    /\ call[c].stage \in {"picked", "configured"} => Running = {}
    /\ call[c].stage \in {"configured", "waiting"} => config = call[c].port
    /\ call[c].stage \in {"waiting", "cut"} =>
         /\ AllLost
         /\ \A p \in Running :
              p = call[c].pid /\ (proc[p].state = "up" => proc[p].port = call[c].port)
    /\ call[c].stage = "cut" => record = None /\ \A p \in Running : proc[p].state = "up"

Recorded ==
  (\A c \in Callers : call[c].stage \notin Launching) =>
    /\ \A p \in Running :
         /\ record # None /\ p = record.pid
         /\ proc[p].state = "up" /\ proc[p].port = record.port
    /\ \A s \in Sessions :
         worker[s] \in Ports \ seen.lost => record # None /\ record.port = worker[s]

Alone == ~seen.raced => OneLaunch /\ Launches /\ Recorded

SidecarInv == BaseInv /\ Alone

(* With no sidecar running every port ever found is lost.                  *)
LEMMA NoneLeft == BaseInv /\ Running = {} => AllLost
<1> SUFFICES ASSUME BaseInv, Running = {} PROVE AllLost
  OBVIOUS
<1>1. \A q : ~Served(q)
  BY DEF Running, Served
<1> QED BY <1>1 DEF BaseInv, FoundOK, WorkerFoundSidecar, Found, AllLost

LEMMA NoneLeftNext == (BaseInv /\ Running = {})' => AllLost'
BY NoneLeft, PTL

LEMMA AloneInit == Init => Alone
<1> SUFFICES ASSUME Init PROVE Alone
  OBVIOUS
<1>1. Running = {}
  BY DEF Init, Running
<1>2. \A c \in Callers : call[c].stage = "idle"
  BY DEF Init, Resting
<1>3. \A s \in Sessions : worker[s] \notin Ports
  BY SidecarAssumption DEF Init
<1> QED BY <1>1, <1>2, <1>3 DEF Alone, OneLaunch, Launches, Recorded, Launching

(* A step that touches no call nor the configuration, and starts nothing.  *)
LEMMA AloneWorker ==
  ASSUME SidecarInv, NEW s \in Sessions, StartWorker(s) \/ ConnectMcp(s) \/ WorkerGone(s)
  PROVE  Alone'
<1> SUFFICES ASSUME ~seen'.raced PROVE (OneLaunch /\ Launches /\ Recorded)'
  BY DEF Alone
<1>1. /\ ~seen.raced /\ seen'.lost = seen.lost
      /\ UNCHANGED <<record, config, proc>> /\ Running' = Running
  BY DEF SidecarInv, BaseInv, TypeOK, StartWorker, ConnectMcp, WorkerGone, Running
<1>2. OneLaunch /\ Launches /\ Recorded
  BY <1>1 DEF SidecarInv, Alone
<1>3. \A c \in Callers : call'[c] = call[c]
                          \/ (call[c].stage \notin Launching /\ call'[c].stage \notin Launching)
  <2>1. CASE StartWorker(s)
    <3>1. call[s].stage = "start" /\ call'[s].stage = "idle" /\ call' = [call EXCEPT ![s] = call'[s]]
      BY <2>1, CallMoves DEF Callers, SidecarInv, BaseInv, StartWorker
    <3> QED BY <3>1 DEF SidecarInv, BaseInv, TypeOK, Launching
  <2>2. CASE UNCHANGED call
    BY <2>2
  <2> QED BY <2>1, <2>2 DEF ConnectMcp, WorkerGone
<1>4. \A r \in Sessions : \/ worker'[r] = worker[r]
                           \/ worker'[r] \notin Ports
                           \/ (record # None /\ worker'[r] = record.port)
  BY SidecarAssumption DEF SidecarInv, BaseInv, TypeOK, StartWorker, ConnectMcp, WorkerGone
<1>5. OneLaunch'
  BY <1>2, <1>3 DEF OneLaunch
<1>6. AllLost => AllLost'
  BY <1>1, <1>4 DEF AllLost
<1>7. Launches'
  <2> SUFFICES ASSUME NEW c \in Callers, call'[c].stage \in Launching
               PROVE  /\ call'[c] = call[c]
                      /\ UNCHANGED <<record, config, proc>> /\ Running' = Running
                      /\ AllLost => AllLost'
    BY <1>2 DEF Launches, Launching
  <2> QED BY <1>1, <1>3, <1>6
<1>8. Recorded'
  BY <1>1, <1>2, <1>3, <1>4 DEF Recorded
<1> QED BY <1>5, <1>7, <1>8

(* A sidecar starts to serve, or ends.                                     *)
LEMMA AloneProc ==
  ASSUME SidecarInv, NEW p \in Procs, Boot(p) \/ Die(p)
  PROVE  Alone'
<1> SUFFICES ASSUME ~seen'.raced PROVE (OneLaunch /\ Launches /\ Recorded)'
  BY DEF Alone
<1>1. /\ ~seen.raced /\ seen.lost \subseteq seen'.lost
      /\ UNCHANGED <<record, config, call, worker>>
  <2>1. CASE Boot(p)
    BY <2>1 DEF Boot
  <2>2. CASE Die(p)
    BY <2>2 DEF Die, SidecarInv, BaseInv, TypeOK
  <2> QED BY <2>1, <2>2
<1>2. OneLaunch /\ Launches /\ Recorded
  BY <1>1 DEF SidecarInv, Alone
<1>3. AllLost => AllLost'
  BY <1>1 DEF AllLost
<1>4. /\ Running' \subseteq Running /\ p \in Running
      /\ \A r \in Running' : proc'[r] = proc[r] \/ r = p
  BY DEF SidecarInv, BaseInv, TypeOK, Boot, Die, Running
<1>5. CASE Die(p)
  <2>1. p \notin Running'
    BY <1>5 DEF SidecarInv, BaseInv, TypeOK, Die, Running
  <2>2. \A r \in Running' : r \in Running /\ proc'[r] = proc[r]
    BY <2>1, <1>4
  <2>3. Launches'
    BY <1>1, <1>2, <1>3, <2>2 DEF Launches
  <2>4. Recorded'
    BY <1>1, <1>2, <2>2 DEF Recorded
  <2> QED BY <1>1, <1>2, <2>3, <2>4 DEF OneLaunch
<1>6. CASE Boot(p)
  <2>1. proc[p].state = "starting" /\ UNCHANGED seen
    BY <1>6 DEF Boot
  <2>2. proc'[p].state = "up" => proc'[p].port = config
    BY <1>6 DEF Boot, SidecarInv, BaseInv, TypeOK
  <2>3. PICK c \in Callers : call[c].stage \in Launching
    BY <1>2, <1>4, <2>1 DEF Recorded
  <2>4. call[c].stage = "waiting" /\ config = call[c].port
    BY <1>2, <1>4, <2>1, <2>3 DEF Launches, Launching
  <2>5. \A d \in Callers : d # c => call[d].stage \notin Launching
    BY <1>2, <2>3 DEF OneLaunch
  <2>6. Launches'
    BY <1>1, <1>2, <1>3, <1>4, <2>2, <2>4, <2>5 DEF Launches, Launching
  <2>7. Recorded'
    BY <1>1, <2>3 DEF Recorded
  <2> QED BY <1>1, <1>2, <2>6, <2>7 DEF OneLaunch
<1> QED BY <1>5, <1>6

(* A call goes on without coming into, or out of, a launch.                *)
LEMMA AloneAside ==
  ASSUME SidecarInv, NEW c \in Callers,
         (Look(c) /\ record # None) \/ Adopt(c)
  PROVE  Alone'
<1> SUFFICES ASSUME ~seen'.raced PROVE (OneLaunch /\ Launches /\ Recorded)'
  BY DEF Alone
<1>1. UNCHANGED <<record, config, proc, worker, seen>>
  BY DEF Look, Adopt
<1>2. OneLaunch /\ Launches /\ Recorded
  BY <1>1 DEF SidecarInv, Alone
<1>3. call' = [call EXCEPT ![c] = call'[c]] /\ call'[c].stage \notin Launching
  BY CallMoves DEF SidecarInv, BaseInv, Launching
<1>4. call[c].stage \notin Launching
  BY DEF Look, MayCall, Resting, Adopt, Launching
<1>5. \A d \in Callers : call'[d] = call[d]
                          \/ (call[d].stage \notin Launching /\ call'[d].stage \notin Launching)
  BY <1>3, <1>4 DEF SidecarInv, BaseInv, TypeOK
<1>6. Running' = Running /\ (AllLost => AllLost')
  BY <1>1 DEF Running, AllLost
<1>7. OneLaunch'
  BY <1>2, <1>5 DEF OneLaunch
<1>8. Launches'
  BY <1>1, <1>2, <1>5, <1>6 DEF Launches, Launching
<1>9. Recorded'
  BY <1>1, <1>2, <1>5, <1>6 DEF Recorded
<1> QED BY <1>7, <1>8, <1>9

(* A launch begins: nobody else is at it, and nothing runs, since the      *)
(* recorded sidecar would have been adopted.                               *)
LEMMA AloneBegins ==
  ASSUME SidecarInv, NEW c \in Callers,
         (Look(c) /\ record = None) \/ FindStale(c)
  PROVE  Alone'
<1> SUFFICES ASSUME ~seen'.raced PROVE (OneLaunch /\ Launches /\ Recorded)'
  BY DEF Alone
<1>1. /\ ~seen.raced /\ ~Overtakes(c)
      /\ FindStale(c) => ~Healthy(call[c].port)
      /\ UNCHANGED <<record, config, proc, worker>>
  BY DEF Look, FindStale, SidecarInv, BaseInv, TypeOK
<1>2. OneLaunch /\ Launches /\ Recorded
  BY <1>1 DEF SidecarInv, Alone
<1>3. call' = [call EXCEPT ![c] = call'[c]] /\ call'[c].stage = "picked"
  BY CallMoves DEF SidecarInv, BaseInv
<1>4. \A d \in Callers : call[d].stage \notin Launching
  BY <1>1 DEF Overtakes, Look, MayCall, Resting, FindStale, Launching
<1>5. \A d \in Callers : d # c => call'[d] = call[d]
  BY <1>3 DEF SidecarInv, BaseInv, TypeOK
<1>6. Running = {}
  <2> SUFFICES ASSUME NEW p \in Running PROVE FALSE
    OBVIOUS
  <2>1. record # None /\ proc[p].state = "up" /\ proc[p].port = record.port
    BY <1>2, <1>4 DEF Recorded
  <2>2. FindStale(c)
    BY <2>1
  <2>3. call[c].port # None
    BY <2>2, SidecarAssumption DEF FindStale, SidecarInv, BaseInv, StageOK
  <2>4. record.port = call[c].port
    BY <1>1, <2>1, <2>3 DEF Overtakes
  <2> QED BY <1>1, <2>1, <2>2, <2>4 DEF Healthy, Served, Running
<1>7. Running' = {}
  BY <1>1, <1>6 DEF Running
<1>8. \A d \in Callers : call'[d].stage \in Launching => d = c
  BY <1>4, <1>5
<1> QED BY <1>3, <1>7, <1>8 DEF OneLaunch, Launches, Recorded, Launching

(* The launch in progress goes on.                                         *)
LEMMA AloneGoesOn ==
  ASSUME SidecarInv, NEW c \in Callers,
         Configure(c) \/ Launch(c) \/ BecomesHealthy(c)
  PROVE  Alone'
<1> SUFFICES ASSUME ~seen'.raced PROVE (OneLaunch /\ Launches /\ Recorded)'
  BY DEF Alone
<1>1. ~seen.raced /\ UNCHANGED <<worker, seen>>
  BY DEF Configure, Launch, BecomesHealthy
<1>2. OneLaunch /\ Launches /\ Recorded
  BY <1>1 DEF SidecarInv, Alone
<1>3. call' = [call EXCEPT ![c] = call'[c]]
  BY CallMoves DEF SidecarInv, BaseInv
<1>4. call[c].stage \in Launching
  BY DEF Configure, Launch, BecomesHealthy, Launching
<1>5. \A d \in Callers : d # c => call'[d] = call[d] /\ call[d].stage \notin Launching
  BY <1>2, <1>3, <1>4 DEF SidecarInv, BaseInv, TypeOK, OneLaunch
<1>6. CASE Configure(c)
  <2>1. call'[c].stage = "configured" /\ call'[c].port = config'
    BY <1>6, CallMoves DEF SidecarInv, BaseInv
  <2>2. Running' = {}
    BY <1>6, <1>2 DEF Configure, Launches, Running
  <2> QED BY <1>5, <2>1, <2>2 DEF OneLaunch, Launches, Recorded, Launching
<1>7. CASE Launch(c)
  <2>1. /\ call'[c].stage = "waiting" /\ call'[c].port = call[c].port
        /\ call'[c].pid \in Procs
        /\ proc' = [proc EXCEPT ![call'[c].pid].state = "starting"]
        /\ UNCHANGED <<record, config, worker, seen>>
    BY <1>7, CallMoves DEF SidecarInv, BaseInv
  <2>2. call[c].stage = "configured"
    BY <1>7 DEF Launch
  <2>3. Running = {} /\ config = call[c].port
    BY <1>2, <2>2 DEF Launches
  <2>4. AllLost'
    BY <2>1, <2>3, NoneLeft DEF SidecarInv, AllLost
  <2>5. \A p \in Running' : p = call'[c].pid /\ proc'[p].state = "starting"
    BY <2>1, <2>3 DEF Running, SidecarInv, BaseInv, TypeOK
  <2> QED BY <1>5, <2>1, <2>3, <2>4, <2>5 DEF OneLaunch, Launches, Recorded, Launching
<1>8. CASE BecomesHealthy(c)
  <2>1. /\ call'[c].stage = "cut" /\ call'[c].port = call[c].port
        /\ call'[c].pid = call[c].pid
    BY <1>8, CallMoves DEF SidecarInv, BaseInv
  <2>2. /\ call[c].stage = "waiting" /\ Served(call[c].port)
        /\ record' = None /\ UNCHANGED <<config, proc, worker, seen>>
    BY <1>8 DEF BecomesHealthy
  <2>3. AllLost /\ \A p \in Running : p = call[c].pid
                    /\ (proc[p].state = "up" => proc[p].port = call[c].port)
    BY <1>2, <2>2 DEF Launches
  <2>4. AllLost'
    BY <2>2, <2>3 DEF AllLost
  <2>5. PICK q \in Procs : proc[q].state = "up"
    BY <2>2 DEF Served
  <2>6. \A p \in Running : proc[p].state = "up"
    BY <2>3, <2>5 DEF Running
  <2>7. Running' = Running
    BY <2>2 DEF Running
  <2> QED BY <1>5, <2>1, <2>2, <2>3, <2>4, <2>6, <2>7
          DEF OneLaunch, Launches, Recorded, Launching
<1> QED BY <1>6, <1>7, <1>8

(* A launch ends in its record, or before it launched anything.            *)
LEMMA AloneEnds ==
  ASSUME SidecarInv, NEW c \in Callers,
         LaunchFails(c) \/ WriteState(c) \/ TimeOut(c), BaseInv'
  PROVE  Alone'
<1> SUFFICES ASSUME ~seen'.raced PROVE (OneLaunch /\ Launches /\ Recorded)'
  BY DEF Alone
<1>1. ~TimeOut(c)
  BY DEF TimeOut, SidecarInv, BaseInv, TypeOK
<1>2. ~seen.raced /\ UNCHANGED <<config, proc, worker, seen>>
  BY <1>1 DEF LaunchFails, WriteState
<1>3. OneLaunch /\ Launches /\ Recorded
  BY <1>2 DEF SidecarInv, Alone
<1>4. call' = [call EXCEPT ![c] = call'[c]] /\ call'[c].stage \notin Launching
  BY CallMoves DEF SidecarInv, BaseInv, Launching
<1>5. call[c].stage \in Launching
  BY <1>1 DEF LaunchFails, WriteState, Launching
<1>6. \A d \in Callers : call'[d].stage \notin Launching
  BY <1>3, <1>4, <1>5 DEF SidecarInv, BaseInv, TypeOK, OneLaunch
<1>7. Running' = Running
  BY <1>2 DEF Running
<1>8. CASE LaunchFails(c)
  <2>1. Running' = {}
    BY <1>3, <1>7, <1>8 DEF LaunchFails, Launches
  <2>2. AllLost'
    BY <2>1, NoneLeftNext
  <2> QED BY <1>6, <2>1, <2>2 DEF OneLaunch, Launches, Recorded, AllLost, Launching
<1>9. CASE WriteState(c)
  <2>1. record' = [port |-> call[c].port, pid |-> call[c].pid] /\ call[c].stage = "cut"
    BY <1>9 DEF WriteState, RecordNew
  <2>2. /\ AllLost
        /\ \A p \in Running : /\ p = call[c].pid
                              /\ proc[p].state = "up" /\ proc[p].port = call[c].port
    BY <1>3, <2>1 DEF Launches
  <2>3. record' # None
    BY <2>1, SidecarAssumption DEF SidecarInv, BaseInv, StageOK
  <2> QED BY <1>2, <1>6, <1>7, <2>1, <2>2, <2>3 DEF OneLaunch, Launches, Recorded, AllLost, Launching
<1> QED BY <1>1, <1>8, <1>9

(* The supervisor ends, by a crash or by a shutdown that kills the         *)
(* recorded sidecar; its sessions' calls end before they launched anything.*)
LEMMA AloneSupervisor ==
  ASSUME SidecarInv, SupervisorDies \/ Shutdown, BaseInv'
  PROVE  /\ Alone'
         /\ ~seen'.raced /\ Shutdown /\ (\A c \in Callers : call[c].stage \notin {"waiting", "cut"})
              => Running' = {}
<1> SUFFICES ASSUME ~seen'.raced
             PROVE  /\ (OneLaunch /\ Launches /\ Recorded)'
                    /\ Shutdown /\ (\A c \in Callers : call[c].stage \notin {"waiting", "cut"})
                         => Running' = {}
  BY DEF Alone
<1>1. ~seen.raced /\ ~CutShort
  BY DEF SupervisorDies, Shutdown, SidecarInv, BaseInv, TypeOK
<1>2. seen.lost \subseteq seen'.lost /\ UNCHANGED config
  <2>1. CASE Shutdown
    BY <2>1 DEF Shutdown, SidecarInv, BaseInv, TypeOK
  <2>2. CASE SupervisorDies
    BY <2>2 DEF SupervisorDies, SidecarInv, BaseInv, TypeOK
  <2> QED BY <2>1, <2>2
<1>3. record' = record \/ record' = None
  BY DEF SupervisorDies, Shutdown
<1>4. OneLaunch /\ Launches /\ Recorded
  BY <1>1 DEF SidecarInv, Alone
<1>5. \A c \in Callers : call'[c] = call[c] \/ call'[c].stage = "idle"
  BY CallsRest DEF SupervisorDies, Shutdown, SidecarInv, BaseInv
<1>6. \A s \in Sessions : worker'[s] = worker[s] \/ worker'[s] = None
  BY DEF SupervisorDies, Shutdown
<1>7. /\ Running' \subseteq Running
      /\ \A p \in Running' : proc'[p] = proc[p]
      /\ Shutdown => Running' = Running \ Killed
  <2>1. CASE Shutdown
    <3>1. \A p \in Procs : IF p \in Killed THEN proc'[p].state = "dead" ELSE proc'[p] = proc[p]
      <4>1. proc' = [p \in Procs |-> IF p \in Killed THEN [proc[p] EXCEPT !.state = "dead"]
                                                    ELSE proc[p]]
        BY <2>1 DEF Shutdown
      <4> QED BY <4>1 DEF SidecarInv, BaseInv, TypeOK
    <3> QED BY <3>1 DEF Running
  <2>2. CASE ~Shutdown
    BY <2>2 DEF SupervisorDies, Running
  <2> QED BY <2>1, <2>2
<1>8. AllLost => AllLost'
  BY <1>2, <1>3, <1>6, SidecarAssumption DEF AllLost
<1>9. OneLaunch'
  BY <1>4, <1>5 DEF OneLaunch, Launching
<1>10. Launches'
  <2> SUFFICES ASSUME NEW c \in Callers, call'[c].stage \in Launching
               PROVE  /\ call'[c] = call[c] /\ config' = config
                      /\ record' = record \/ record' = None
                      /\ Running' \subseteq Running
                      /\ \A p \in Running' : proc'[p] = proc[p]
                      /\ AllLost => AllLost'
    BY <1>4 DEF Launches, Launching
  <2> QED BY <1>2, <1>3, <1>5, <1>7, <1>8 DEF Launching
<1>11. ASSUME NEW c \in Callers, call[c].stage \in {"picked", "configured"}
       PROVE  Running' = {} /\ AllLost'
  <2>1. Running' = {}
    BY <1>4, <1>7, <1>11 DEF Launches
  <2> QED BY <2>1, NoneLeftNext
<1>12. CASE \E c \in Callers : call[c].stage \in {"picked", "configured"}
  <2>1. Running' = {} /\ AllLost'
    BY <1>11, <1>12
  <2> QED BY <1>9, <1>10, <2>1 DEF Recorded, AllLost
<1>13. CASE \E c \in Callers : call[c].stage \in {"waiting", "cut"}
  <2>1. PICK c \in Callers : call[c].stage \in {"waiting", "cut"}
    BY <1>13
  <2>2. c \notin Sessions
    BY <1>1, <2>1 DEF CutShort
  <2>3. call'[c] = call[c]
    BY <2>2 DEF SupervisorDies, Shutdown, CallsEnd
  <2>4. call'[c].stage \in Launching
    BY <2>1, <2>3 DEF Launching
  <2> QED BY <1>9, <1>10, <1>13, <2>4 DEF Recorded
<1>14. CASE \A c \in Callers : call[c].stage \notin Launching
  <2>1. CASE Shutdown
    <3>1. Running' = {}
      BY <1>4, <1>7, <1>14, <2>1 DEF Recorded, Killed, Running
    <3>2. AllLost'
      BY <3>1, NoneLeftNext
    <3> QED BY <1>9, <1>10, <3>1, <3>2 DEF Recorded, AllLost
  <2>2. CASE ~Shutdown
    <3>1. UNCHANGED <<record, proc, worker>> /\ seen'.lost = seen.lost
      BY <2>2 DEF SupervisorDies, SidecarInv, BaseInv, TypeOK
    <3>2. Running' = Running
      BY <3>1 DEF Running
    <3> QED BY <1>4, <1>9, <1>10, <1>14, <2>2, <3>1, <3>2 DEF Recorded
  <2> QED BY <2>1, <2>2
<1> QED BY <1>12, <1>13, <1>14 DEF Launching

LEMMA SidecarStep == SidecarInv /\ [Next]_vars => SidecarInv'
<1> SUFFICES ASSUME SidecarInv, [Next]_vars PROVE Alone'
  BY BaseStep DEF SidecarInv
<1>1. BaseInv'
  BY BaseStep DEF SidecarInv
<1>2. CASE \E p \in Procs : Boot(p) \/ Die(p)
  BY <1>2, AloneProc
<1>3. CASE \E c \in Callers : Look(c) \/ Adopt(c) \/ FindStale(c)
  BY <1>3, AloneAside, AloneBegins
<1>4. CASE \E c \in Callers : Configure(c) \/ Launch(c) \/ BecomesHealthy(c)
  BY <1>4, AloneGoesOn
<1>5. CASE \E c \in Callers : LaunchFails(c) \/ WriteState(c) \/ TimeOut(c)
  BY <1>1, <1>5, AloneEnds
<1>6. CASE \E s \in Sessions : StartWorker(s) \/ ConnectMcp(s) \/ WorkerGone(s)
  BY <1>6, AloneWorker
<1>7. CASE SupervisorDies \/ Shutdown
  BY <1>1, <1>7, AloneSupervisor
<1>8. CASE UNCHANGED vars
  BY <1>8 DEF vars, SidecarInv, Alone, OneLaunch, Launches, Recorded, AllLost, Running
<1> QED BY <1>2, <1>3, <1>4, <1>5, <1>6, <1>7, <1>8 DEF Next

(* What runs is at most the one process that a launch or the record knows. *)
LEMMA AtMostOne == SidecarInv => OneSidecar /\ SessionsShareOne
<1> SUFFICES ASSUME SidecarInv, ~seen.raced
             PROVE  /\ Cardinality(Running) <= 1
                    /\ \A s \in Sessions : worker[s] \in Ports \ seen.lost
                                           => record # None /\ record.port = worker[s]
  BY DEF OneSidecar, SessionsShareOne
<1>1. OneLaunch /\ Launches /\ Recorded
  BY DEF SidecarInv, Alone
<1>2. \E x : Running \subseteq {x}
  <2>1. CASE \A c \in Callers : call[c].stage \notin Launching
    BY <1>1, <2>1 DEF Recorded
  <2>2. ASSUME NEW c \in Callers, call[c].stage \in Launching
        PROVE  Running \subseteq {call[c].pid}
    BY <1>1, <2>2 DEF Launches, Launching
  <2> QED BY <2>1, <2>2
<1>3. Cardinality(Running) <= 1
  <2>1. PICK x : Running \subseteq {x}
    BY <1>2
  <2>2. Running = {} \/ Running = {x}
    BY <2>1
  <2>3. CASE Running = {}
    BY <2>3, FS_EmptySet
  <2>4. CASE Running = {x}
    <3>1. Cardinality({x}) = 1
      BY FS_Singleton, Zenon
    <3>2. Cardinality(Running) = 1
      BY <2>4, <3>1
    <3> QED BY <3>2
  <2> QED BY <2>2, <2>3, <2>4
<1>4. \A s \in Sessions : worker[s] \in Ports \ seen.lost => record # None /\ record.port = worker[s]
  <2>1. CASE \A c \in Callers : call[c].stage \notin Launching
    BY <1>1, <2>1 DEF Recorded
  <2>2. ASSUME NEW c \in Callers, call[c].stage \in Launching
        PROVE  AllLost
    BY <1>1, <2>2, NoneLeft DEF Launches, Launching, SidecarInv
  <2> QED BY <2>1, <2>2 DEF AllLost
<1> QED BY <1>3, <1>4

(* Between them the calls of any number of sessions and listings start one *)
(* sidecar at a time, unless two overlap from check to record, or one is   *)
(* cut short, times out or overlooks a healthy sidecar.                    *)
THEOREM OneAtATime == Spec => []OneSidecar
<1>1. Init => SidecarInv
  BY BaseInit, AloneInit DEF SidecarInv
<1> QED BY <1>1, SidecarStep, AtMostOne, PTL DEF Spec

(* On the same terms all workers whose sidecar lives use the recorded one. *)
THEOREM AllShareTheRecorded == Spec => []SessionsShareOne
<1>1. Init => SidecarInv
  BY BaseInit, AloneInit DEF SidecarInv
<1> QED BY <1>1, SidecarStep, AtMostOne, PTL DEF Spec

(* And daemon shutdown leaves no sidecar behind.                           *)
THEOREM ShutdownLeavesNone == Spec => ShutdownStopsSidecar
<1>1. Init => SidecarInv
  BY BaseInit, AloneInit DEF SidecarInv
<1>2. SidecarInv /\ [Next]_vars
        => [(Shutdown /\ ~seen.raced /\ ~\E c \in Callers : call[c].stage \in {"waiting", "cut"})
              => Running' = {}]_vars
  <2> SUFFICES ASSUME SidecarInv, [Next]_vars, Shutdown, ~seen.raced,
                      \A c \in Callers : call[c].stage \notin {"waiting", "cut"}
               PROVE  Running' = {}
    OBVIOUS
  <2>1. BaseInv'
    BY BaseStep DEF SidecarInv
  <2>2. ~seen'.raced
    BY DEF Shutdown, CutShort, Callers, SidecarInv, BaseInv, TypeOK
  <2> QED BY <2>1, <2>2, AloneSupervisor
<1> QED BY <1>1, <1>2, SidecarStep, PTL DEF Spec, ShutdownStopsSidecar
=============================================================================
