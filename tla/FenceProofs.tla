---------------------------- MODULE FenceProofs ----------------------------
(* Proofs about Fence, for every set of supervisors, workers and hazards.  *)
EXTENDS Fence, TLAPS

LEMMA Typing == Spec => []TypeOK
<1>1. Init => TypeOK
  BY ModelValuesAssumption DEF Init, TypeOK, SupStates, WrkStates
<1>2. TypeOK /\ [Next]_vars => TypeOK'
  <2> SUFFICES ASSUME TypeOK, [Next]_vars PROVE TypeOK'
    OBVIOUS
  <2> USE DEF TypeOK, SupStates, WrkStates, Goto, diskVars, wrkVars, supVars
  <2>1. ASSUME NEW s \in Supervisors, Start(s) PROVE TypeOK'
    BY <2>1 DEF Start
  <2>2. ASSUME NEW s \in Supervisors, PidTruncate(s) \/ PidWrite(s) PROVE TypeOK'
    BY <2>2 DEF PidTruncate, PidWrite
  <2>3. ASSUME NEW s \in Supervisors,
               RecoverScan(s) \/ EnsureAlive(s) \/ EnsureFails(s)
        PROVE  TypeOK'
    BY <2>3 DEF RecoverScan, EnsureAlive, EnsureFails
  <2>4. ASSUME NEW s \in Supervisors, AdoptRead(s) PROVE TypeOK'
    BY <2>4, ModelValuesAssumption DEF AdoptRead, Minted, Fences, Tokens
  <2>5. ASSUME NEW s \in Supervisors, AdoptSend(s) PROVE TypeOK'
    BY <2>5 DEF AdoptSend, Messages, Listening
  <2>6. ASSUME NEW s \in Supervisors,
               AdoptReturn(s) \/ DaemonBind(s) \/ DaemonBindFails(s) \/ Crash(s)
        PROVE  TypeOK'
    BY <2>6 DEF AdoptReturn, DaemonBind, DaemonBindFails, Crash
  <2>7. ASSUME NEW s \in Supervisors, ShutdownBegin(s) PROVE TypeOK'
    BY <2>7 DEF ShutdownBegin, Listening
  <2>8. ASSUME NEW s \in Supervisors, ShutdownEnd(s) \/ ShutdownForce(s)
        PROVE  TypeOK'
    BY <2>8 DEF ShutdownEnd, ShutdownForce
  <2>9. ASSUME NEW s \in Supervisors, NEW w \in Workers, Spawn(s, w) PROVE TypeOK'
    BY <2>9 DEF Spawn, Fences, Tokens, Identities, Identity
  <2>10. ASSUME NEW s \in Supervisors, SpawnDone(s) PROVE TypeOK'
    BY <2>10 DEF SpawnDone
  <2>11. ASSUME NEW w \in Workers, WorkerRecord(w) PROVE TypeOK'
    BY <2>11 DEF WorkerRecord
  <2>12. ASSUME NEW w \in Workers, WorkerReadFence(w) PROVE TypeOK'
    BY <2>12 DEF WorkerReadFence, Own, Fences, Identities
  <2>13. ASSUME NEW w \in Workers, WorkerBind(w) PROVE TypeOK'
    BY <2>13 DEF WorkerBind
  <2>14. ASSUME NEW w \in Workers, WorkerCrash(w) PROVE TypeOK'
    BY <2>14 DEF WorkerCrash
  <2>15. ASSUME NEW s \in Supervisors, SendCommand(s) PROVE TypeOK'
    BY <2>15 DEF SendCommand, Messages, Listening
  <2>16. ASSUME NEW m \in msgs, RecvAuth(m) PROVE TypeOK'
    BY <2>16 DEF RecvAuth, Messages
  <2>17. ASSUME NEW m \in msgs, RecvAdopt(m) PROVE TypeOK'
    BY <2>17 DEF RecvAdopt, Own, Messages, Fences, Tokens, Identities, Identity
  <2>18. ASSUME NEW a \in accepted, RunCommand(a) PROVE TypeOK'
    BY <2>18 DEF RunCommand
  <2>19. CASE UNCHANGED vars
    BY <2>19 DEF vars
  <2>20. QED
    BY <2>1, <2>2, <2>3, <2>4, <2>5, <2>6, <2>7, <2>8, <2>9, <2>10, <2>11, <2>12,
       <2>13, <2>14, <2>15, <2>16, <2>17, <2>18, <2>19
    DEF Next, Startup, WorkerStep, Receive
<1>3. QED
  BY <1>1, <1>2, PTL DEF Spec

(* Every action of Next keeps FenceInv.                                    *)
LEMMA FenceInvInit == Init => FenceInv
BY DEF Init, FenceInv, FenceOfStarted, OwnerIsNewest

(* Once a supervisor has started, moving on keeps every part of FenceInv   *)
(* as long as workers, fences and connections are left alone.              *)
LEMMA FenceInvFrame ==
  ASSUME TypeOK, FenceInv,
         \A s \in Supervisors : supPc'[s] # "off" <=> supPc[s] # "off",
         UNCHANGED <<gen, fenceFile, wPc, wFence, msgs, owned>>
  PROVE  FenceInv'
<1> USE DEF FenceInv, FenceOfStarted, Identity, TypeOK, Fences, Identities, Messages
<1>1. FenceOfStarted(fenceFile)'
  OBVIOUS
<1>2. \A w \in Workers : FenceOfStarted(wFence[w])'
  OBVIOUS
<1>3. OwnerIsNewest'
  BY DEF OwnerIsNewest
<1>4. QED
  BY <1>1, <1>2, <1>3

LEMMA FenceInvStep == TypeOK /\ FenceInv /\ [Next]_vars => FenceInv'
<1> SUFFICES ASSUME TypeOK, FenceInv, [Next]_vars PROVE FenceInv'
  OBVIOUS
<1> USE DEF FenceInv, FenceOfStarted, OwnerIsNewest, Identity, TypeOK, Goto,
            diskVars, wrkVars, supVars
(* A supervisor's own program counter moves, and nothing the parts name.   *)
<1>1. ASSUME NEW s \in Supervisors, Start(s) PROVE FenceInv'
  <2>1. /\ supPc[s] = "off" /\ supPc' = [supPc EXCEPT ![s] = "read"]
        /\ gen' = [gen EXCEPT ![s] = pidFile + 1] /\ pidFile + 1 > 0
        /\ UNCHANGED <<fenceFile, wPc, wFence, msgs, owned>>
    BY <1>1 DEF Start
  <2>2. FenceOfStarted(fenceFile)'
    BY <2>1 DEF Fences, Identities
  <2>3. \A w \in Workers : FenceOfStarted(wFence[w])'
    BY <2>1 DEF Fences, Identities
  <2>4. \A t \in Supervisors : supPc'[t] = "off" <=> gen'[t] = 0
    BY <2>1
  <2>5. \A m \in msgs' : supPc'[m.from] # "off" /\ wPc'[m.to] = "serving"
    BY <2>1 DEF Messages
  <2>6. OwnerIsNewest'
    BY <2>1 DEF Fences, Identities
  <2>7. QED
    BY <2>1, <2>2, <2>3, <2>4, <2>5, <2>6
<1>2. ASSUME NEW s \in Supervisors,
             \/ PidTruncate(s) \/ PidWrite(s) \/ RecoverScan(s) \/ EnsureAlive(s)
             \/ EnsureFails(s) \/ AdoptReturn(s) \/ DaemonBind(s) \/ DaemonBindFails(s)
      PROVE  FenceInv'
  <2>1. supPc[s] # "off" /\ \E pc \in SupStates \ {"off"} :
                               supPc' = [supPc EXCEPT ![s] = pc]
    BY <1>2 DEF PidTruncate, PidWrite, RecoverScan, EnsureAlive, EnsureFails,
                AdoptReturn, DaemonBind, DaemonBindFails, SupStates
  <2>2. \A t \in Supervisors : supPc'[t] # "off" <=> supPc[t] # "off"
    BY <2>1
  <2>3. QED
    BY <1>2, <2>1, <2>2, FenceInvFrame
    DEF PidTruncate, PidWrite, RecoverScan, EnsureAlive, EnsureFails,
        AdoptReturn, DaemonBind, DaemonBindFails
<1>3. ASSUME NEW s \in Supervisors,
             \/ Crash(s) \/ ShutdownEnd(s) \/ ShutdownForce(s) \/ SpawnDone(s)
             \/ AdoptRead(s)
      PROVE  FenceInv'
  <2>1. \A t \in Supervisors : supPc'[t] # "off" <=> supPc[t] # "off"
    BY <1>3 DEF Crash, ShutdownEnd, ShutdownForce, SpawnDone, AdoptRead, Running
  <2>2. QED
    BY <1>3, <2>1, FenceInvFrame
    DEF Crash, ShutdownEnd, ShutdownForce, SpawnDone, AdoptRead
<1>4. ASSUME NEW s \in Supervisors, AdoptSend(s) PROVE FenceInv'
  <2>1. \A t \in Supervisors : supPc'[t] # "off" <=> supPc[t] # "off"
    BY <1>4 DEF AdoptSend
  <2>2. \A m \in msgs' : supPc'[m.from] # "off" /\ wPc'[m.to] = "serving"
    BY <1>4, <2>1 DEF AdoptSend, Listening, Messages
  <2>3. FenceOfStarted(fenceFile)' /\ OwnerIsNewest'
    BY <1>4, <2>1 DEF AdoptSend, Fences, Identities
  <2>4. ASSUME NEW w \in Workers PROVE FenceOfStarted(wFence[w])'
    BY <1>4, <2>1 DEF AdoptSend, Fences, Identities
  <2>5. QED
    BY <1>4, <2>1, <2>2, <2>3, <2>4 DEF AdoptSend
<1>5. ASSUME NEW s \in Supervisors, SendCommand(s) PROVE FenceInv'
  BY <1>5 DEF SendCommand, Listening
<1>6. ASSUME NEW s \in Supervisors, ShutdownBegin(s) PROVE FenceInv'
  BY <1>6 DEF ShutdownBegin, Listening, Fences, Identities, Messages
<1>7. ASSUME NEW s \in Supervisors, NEW w \in Workers, Spawn(s, w) PROVE FenceInv'
  BY <1>7 DEF Spawn, MaySpawn, Fences, Identities, Messages
<1>8. ASSUME NEW w \in Workers, WorkerRecord(w) PROVE FenceInv'
  BY <1>8 DEF WorkerRecord, Messages
<1>9. ASSUME NEW w \in Workers, WorkerReadFence(w) PROVE FenceInv'
  BY ZenonT(30), <1>9 DEF WorkerReadFence, Own, Fences, Identities, Messages
<1>10. ASSUME NEW w \in Workers, WorkerBind(w) \/ WorkerCrash(w) PROVE FenceInv'
  BY <1>10 DEF WorkerBind, WorkerCrash, Alive, Messages
<1>11. ASSUME NEW m \in msgs, RecvAuth(m) PROVE FenceInv'
  BY <1>11 DEF RecvAuth
<1>12. ASSUME NEW m \in msgs, RecvAdopt(m) PROVE FenceInv'
  <2>1. m.from \in Supervisors /\ m.to \in Workers /\ m.token \in Tokens
    BY <1>12 DEF RecvAdopt, Messages
  <2>2. CASE ~Adoptable(m)
    BY <1>12, <2>2 DEF RecvAdopt
  <2>3. CASE Adoptable(m)
    <3> DEFINE fence == [token |-> m.token, supervisor |-> Identity(m.from)]
    <3>1. /\ wFence' = [wFence EXCEPT ![m.to] = fence]
          /\ fenceFile' = fence
          /\ owned' = owned \cup {<<m.from, m.to>>}
          /\ msgs' \in SUBSET msgs
          /\ UNCHANGED <<supPc, gen, wPc>>
      <4>1. fence \in Fences
        BY <2>1 DEF Fences, Identities
      <4>2. fence # NoFence
        BY <4>1, ModelValuesAssumption DEF Fences, Tokens, Identities
      <4>3. QED
        BY <1>12, <2>3, <4>2 DEF RecvAdopt, Own
    <3>2. FenceOfStarted(fenceFile)'
      BY <2>1, <3>1
    <3>3. ASSUME NEW w \in Workers
          PROVE  /\ FenceOfStarted(wFence[w])'
                 /\ wFence'[w] # NoFence => <<wFence'[w].supervisor.instance, w>> \in owned'
                 /\ wPc'[w] \in {"unspawned", "starting", "recorded"} => wFence'[w] = NoFence
      BY <2>1, <3>1
    <3>4. OwnerIsNewest'
      <4> SUFFICES ASSUME NEW s \in Supervisors, NEW w \in Workers, <<s, w>> \in owned'
                   PROVE  /\ wFence'[w] # NoFence
                          /\ \/ s = wFence'[w].supervisor.instance
                             \/ gen[s] < wFence'[w].supervisor.counter
        BY <3>1
      <4>1. CASE w # m.to
        BY <2>1, <3>1, <4>1
      <4>2. CASE w = m.to /\ s = m.from
        BY <2>1, <3>1, <4>2, ModelValuesAssumption DEF Tokens
      <4>3. CASE w = m.to /\ s # m.from
        <5>1. <<s, w>> \in owned
          BY <3>1, <4>3
        <5>2. /\ wFence[w] \in Fences
              /\ gen[s] <= wFence[w].supervisor.counter
              /\ gen[m.from] > wFence[w].supervisor.counter
          <6>1. wFence[w] # NoFence /\ wFence[w] \in Fences
            BY <5>1
          <6>2. s = wFence[w].supervisor.instance => gen[s] = wFence[w].supervisor.counter
            <7>1. wFence[w].supervisor =
                    [counter |-> gen[wFence[w].supervisor.instance],
                     instance |-> wFence[w].supervisor.instance]
              BY <6>1
            <7>2. wFence[w].supervisor.counter = gen[wFence[w].supervisor.instance]
              BY <7>1
            <7>3. QED
              BY <7>2
          <6>3. gen[s] \in Nat /\ wFence[w].supervisor.counter \in Nat
            BY <6>1 DEF Fences, Identities
          <6>4. gen[s] <= wFence[w].supervisor.counter
            BY <5>1, <6>2, <6>3
          <6>5. gen[m.from] > wFence[w].supervisor.counter
            BY <2>3, <4>3, <6>1 DEF Adoptable, MayAdoptFrom
          <6>6. QED
            BY <6>1, <6>4, <6>5
        <5>3. QED
          BY <2>1, <3>1, <4>3, <5>2, ModelValuesAssumption DEF Fences, Identities, Tokens
      <4>4. QED
        BY <4>1, <4>2, <4>3
    <3>5. QED
      BY <3>1, <3>2, <3>3, <3>4
  <2>4. QED
    BY <2>2, <2>3
<1>13. ASSUME NEW a \in accepted, RunCommand(a) PROVE FenceInv'
  BY <1>13 DEF RunCommand
<1>14. CASE UNCHANGED vars
  BY <1>14 DEF vars
<1>15. QED
  BY <1>1, <1>2, <1>3, <1>4, <1>5, <1>6, <1>7, <1>8, <1>9, <1>10, <1>11, <1>12,
     <1>13, <1>14
  DEF Next, Startup, WorkerStep, Receive

(* At most one supervisor owns a worker at a time, always the newest of    *)
(* all that ever did.                                                      *)
THEOREM NewestOwner == Spec => []OwnerIsNewest
<1>1. FenceInv => OwnerIsNewest
  BY DEF FenceInv
<1>2. QED
  BY <1>1, FenceInvInit, FenceInvStep, Typing, PTL DEF Spec

(* No worker lets in a command of a supervisor that was superseded there.  *)
THEOREM SupersededOut == Spec => SupersededNeverServed
<1> DEFINE Out == \A s \in Supervisors, w \in Workers :
      <<s, w>> \in accepted' \ accepted =>
        \A r \in Supervisors : <<r, w>> \in owned => r = s \/ gen[r] < gen[s]
<1>1. TypeOK /\ FenceInv /\ [Next]_vars => [Out]_vars
  <2> SUFFICES ASSUME TypeOK, FenceInv, Next,
                      NEW s \in Supervisors, NEW w \in Workers,
                      <<s, w>> \in accepted', <<s, w>> \notin accepted,
                      NEW r \in Supervisors, <<r, w>> \in owned
               PROVE  r = s \/ gen[r] < gen[s]
    OBVIOUS
  <2> USE DEF wrkVars
  <2>1. PICK m \in msgs : RecvAuth(m)
    BY DEF Next, Startup, WorkerStep, Receive, Start, PidTruncate, PidWrite,
       RecoverScan, EnsureAlive, EnsureFails, AdoptRead, AdoptSend, AdoptReturn,
       DaemonBind, DaemonBindFails, Crash, ShutdownBegin, ShutdownEnd, ShutdownForce,
       Spawn, SpawnDone, SendCommand, WorkerRecord, WorkerReadFence, WorkerBind,
       WorkerCrash, RecvAdopt, RunCommand
  <2>2. m.from = s /\ m.to = w /\ Obeys(w, s)
    BY <2>1 DEF RecvAuth
  <2>3. wFence[w] # NoFence /\ wFence[w].supervisor = Identity(s)
    BY <2>2 DEF FenceInv, OwnerIsNewest, Obeys
  <2>4. wFence[w].supervisor.instance = s /\ wFence[w].supervisor.counter = gen[s]
    BY <2>3 DEF Identity
  <2>5. QED
    BY <2>4 DEF FenceInv, OwnerIsNewest
<1>2. QED
  BY <1>1, FenceInvInit, FenceInvStep, Typing, PTL DEF Spec, SupersededNeverServed

-----------------------------------------------------------------------------
(* The refinement: what each kind of step is to Succession.                *)

LEMMA AbstractInit == Init => Abstract!Init
<1> SUFFICES ASSUME Init PROVE Abstract!Init
  OBVIOUS
<1>1. [w \in Workers |-> Master(w)] = [w \in Workers |-> NoSupervisor]
  BY DEF Init, Master
<1>2. [w \in Workers |-> OwnersOf(w) \ {Master(w)}] = [w \in Workers |-> {}]
  BY DEF Init, OwnersOf
<1>3. QED
  BY <1>1, <1>2 DEF Init, Abstract!Init

(* Only generations, fences, their history and accepted commands show.     *)
LEMMA AbstractStutter ==
  ASSUME UNCHANGED <<gen, wFence, owned, accepted>>
  PROVE  UNCHANGED Abstract!vars
BY DEF Abstract!vars, Master, OwnersOf

LEMMA AbstractFinish ==
  ASSUME UNCHANGED <<gen, wFence, owned>>, accepted' \in SUBSET accepted
  PROVE  Abstract!Next
BY DEF Abstract!Next, Abstract!Finish, Master, OwnersOf

(* A worker that reads or takes a fence gets a new master.                 *)
LEMMA AbstractSucceed ==
  ASSUME TypeOK, FenceInv,
         NEW s \in Supervisors, NEW w \in Workers, NEW fence \in Fences,
         fence.supervisor = Identity(s), supPc[s] # "off", gen[s] > 0,
         wFence[w] # NoFence => gen[s] > wFence[w].supervisor.counter,
         wFence' = [wFence EXCEPT ![w] = fence],
         owned' = owned \cup {<<s, w>>},
         UNCHANGED <<gen, accepted>>
  PROVE  Abstract!Next
<1> USE DEF TypeOK, FenceInv, OwnerIsNewest, FenceOfStarted, Fences, Identities
<1>1. fence # NoFence /\ fence.supervisor.instance = s
  BY ModelValuesAssumption DEF Identity, Tokens
<1>2. \A v \in Workers : Master(v)' = IF v = w THEN s ELSE Master(v)
  BY <1>1 DEF Master
<1>3. s \notin OwnersOf(w)
  <2> SUFFICES ASSUME <<s, w>> \in owned PROVE FALSE
    BY DEF OwnersOf
  <2>1. wFence[w] # NoFence /\ wFence[w] \in Fences
    OBVIOUS
  <2>2. gen[s] > wFence[w].supervisor.counter
    BY <2>1
  <2>3. wFence[w].supervisor.counter \in Nat /\ gen[s] \in Nat
    BY <2>1
  <2>4. s = wFence[w].supervisor.instance
    BY <2>2, <2>3
  <2>5. wFence[w].supervisor = Identity(s)
    BY <2>1, <2>4
  <2>6. QED
    BY <2>2, <2>3, <2>5 DEF Identity
<1>4. \A v \in Workers : OwnersOf(v)' = OwnersOf(v) \cup (IF v = w THEN {s} ELSE {})
  BY DEF OwnersOf
<1>5. Master(w) # NoSupervisor => Master(w) \in OwnersOf(w) /\ gen[s] > gen[Master(w)]
  <2> SUFFICES ASSUME Master(w) # NoSupervisor
               PROVE  Master(w) \in OwnersOf(w) /\ gen[s] > gen[Master(w)]
    OBVIOUS
  <2>1. wFence[w] # NoFence /\ wFence[w] \in Fences
    BY DEF Master
  <2>2. Master(w) = wFence[w].supervisor.instance
    BY <2>1 DEF Master
  <2>3. wFence[w].supervisor = Identity(wFence[w].supervisor.instance)
    BY <2>1
  <2>4. wFence[w].supervisor.counter = gen[Master(w)]
    BY <2>2, <2>3 DEF Identity
  <2>5. QED
    BY <2>1, <2>2, <2>4 DEF OwnersOf
<1>6. [v \in Workers |-> Master(v)]' = [[v \in Workers |-> Master(v)] EXCEPT ![w] = s]
  BY <1>2
<1>7. \A v \in Workers :
        (OwnersOf(v) \ {Master(v)})' =
          (OwnersOf(v) \ {Master(v)}) \cup
            (IF v = w THEN {Master(w)} \ {NoSupervisor} ELSE {})
  <2> SUFFICES ASSUME NEW v \in Workers
               PROVE (OwnersOf(v) \ {Master(v)})' =
                       (OwnersOf(v) \ {Master(v)}) \cup
                         (IF v = w THEN {Master(w)} \ {NoSupervisor} ELSE {})
    OBVIOUS
  <2>1. CASE v # w
    BY <1>2, <1>4, <2>1
  <2>2. CASE v = w
    <3>1. NoSupervisor \notin OwnersOf(w)
      BY ModelValuesAssumption DEF OwnersOf
    <3>2. QED
      BY <1>2, <1>3, <1>4, <1>5, <2>2, <3>1
  <2>3. QED
    BY <2>1, <2>2
<1>8. [v \in Workers |-> OwnersOf(v) \ {Master(v)}]' =
        [[v \in Workers |-> OwnersOf(v) \ {Master(v)}] EXCEPT
           ![w] = @ \cup ({[v \in Workers |-> Master(v)][w]} \ {NoSupervisor})]
  BY ZenonT(30), <1>7
<1>9. Abstract!Succeed(s, w)
  BY <1>5, <1>6, <1>8 DEF Abstract!Succeed
<1>10. QED
  BY <1>9 DEF Abstract!Next

LEMMA AbstractStep == TypeOK /\ FenceInv /\ [Next]_vars => [Abstract!Next]_(Abstract!vars)
<1> SUFFICES ASSUME TypeOK, FenceInv, [Next]_vars
             PROVE  Abstract!Next \/ UNCHANGED Abstract!vars
  OBVIOUS
<1> USE DEF diskVars, wrkVars, supVars
<1>1. ASSUME NEW s \in Supervisors, Start(s)
      PROVE  Abstract!Next
  <2>1. gen[s] \in Nat /\ pidFile + 1 \in Nat \ {0}
    BY DEF TypeOK
  <2>2. gen[s] = 0
    BY <1>1 DEF Start, FenceInv
  <2>3. Abstract!Born(s)
    BY <1>1, <2>1, <2>2 DEF Start, Abstract!Born, TypeOK, Master, OwnersOf
  <2>4. QED
    BY <2>3 DEF Abstract!Next
<1>2. ASSUME NEW s \in Supervisors,
             \/ Startup(s) \/ SpawnDone(s) \/ SendCommand(s) \/ Crash(s)
             \/ ShutdownEnd(s) \/ ShutdownForce(s) \/ \E w \in Workers : Spawn(s, w)
      PROVE  UNCHANGED Abstract!vars
  BY <1>2, AbstractStutter
  DEF Startup, PidTruncate, PidWrite, RecoverScan, EnsureAlive, EnsureFails,
      AdoptRead, AdoptSend, AdoptReturn, DaemonBind, DaemonBindFails, SpawnDone,
      SendCommand, Crash, ShutdownEnd, ShutdownForce, Spawn
<1>3. ASSUME NEW s \in Supervisors, ShutdownBegin(s)
      PROVE  Abstract!Next
  BY <1>3, AbstractFinish DEF ShutdownBegin
<1>4. ASSUME NEW w \in Workers, WorkerRecord(w) \/ WorkerBind(w)
      PROVE  UNCHANGED Abstract!vars
  BY <1>4, AbstractStutter DEF WorkerRecord, WorkerBind
<1>5. ASSUME NEW w \in Workers, WorkerCrash(w)
      PROVE  Abstract!Next
  BY <1>5, AbstractFinish DEF WorkerCrash
<1>6. ASSUME NEW a \in accepted, RunCommand(a)
      PROVE  Abstract!Next
  BY <1>6, AbstractFinish DEF RunCommand
<1>7. ASSUME NEW w \in Workers, WorkerReadFence(w)
      PROVE  Abstract!Next \/ UNCHANGED Abstract!vars
  <2>1. CASE fenceFile = NoFence
    <3>1. wFence[w] = NoFence /\ wFence' = [wFence EXCEPT ![w] = NoFence]
      BY <1>7, <2>1 DEF WorkerReadFence, FenceInv
    <3>2. UNCHANGED <<gen, wFence, owned, accepted>>
      BY <1>7, <2>1, <3>1 DEF WorkerReadFence, Own, TypeOK
    <3>3. QED
      BY <3>2, AbstractStutter
  <2>2. CASE fenceFile # NoFence
    <3> DEFINE s == fenceFile.supervisor.instance
    <3>1. fenceFile \in Fences /\ s \in Supervisors
      BY <2>2 DEF TypeOK, Fences, Identities
    <3>2. fenceFile.supervisor = Identity(s) /\ supPc[s] # "off" /\ gen[s] > 0
      BY <2>2, <3>1 DEF FenceInv, FenceOfStarted, TypeOK
    <3>3. wFence[w] = NoFence
      BY <1>7 DEF WorkerReadFence, FenceInv
    <3>4. QED
      BY <1>7, <2>2, <3>1, <3>2, <3>3, AbstractSucceed DEF WorkerReadFence, Own
  <2>3. QED
    BY <2>1, <2>2
<1>8. ASSUME NEW m \in msgs, RecvAuth(m)
      PROVE  Abstract!Next
  <2>1. m.from \in Supervisors /\ m.to \in Workers
    BY <1>8 DEF RecvAuth, TypeOK, Messages
  <2>2. CASE ~Obeys(m.to, m.from)
    BY <1>8, <2>2, AbstractFinish DEF RecvAuth
  <2>3. CASE Obeys(m.to, m.from)
    <3>1. Master(m.to) \in {m.from, NoSupervisor}
      BY <2>3 DEF Obeys, Master, Identity
    <3>2. Abstract!Accept(m.from, m.to)
      BY <1>8, <2>1, <2>3, <3>1 DEF RecvAuth, Abstract!Accept, Master, OwnersOf
    <3>3. QED
      BY <2>1, <3>2 DEF Abstract!Next
  <2>4. QED
    BY <2>2, <2>3
<1>9. ASSUME NEW m \in msgs, RecvAdopt(m)
      PROVE  Abstract!Next \/ UNCHANGED Abstract!vars
  <2> DEFINE fence == [token |-> m.token, supervisor |-> Identity(m.from)]
  <2>1. m.from \in Supervisors /\ m.to \in Workers /\ m.token \in Tokens
    BY <1>9 DEF RecvAdopt, TypeOK, Messages
  <2>2. CASE ~Adoptable(m)
    BY <1>9, <2>2, AbstractStutter DEF RecvAdopt
  <2>3. CASE Adoptable(m)
    <3>1. fence \in Fences /\ fence # NoFence
      BY <2>1, ModelValuesAssumption DEF Fences, Identities, Identity, TypeOK, Tokens
    <3>2. supPc[m.from] # "off" /\ gen[m.from] > 0
      BY <2>1 DEF FenceInv, TypeOK
    <3>3. wFence[m.to] # NoFence => gen[m.from] > wFence[m.to].supervisor.counter
      BY <2>3 DEF Adoptable, MayAdoptFrom, Identity
    <3>4. owned' = owned \cup {<<m.from, m.to>>}
      BY <1>9, <2>3, <3>1 DEF RecvAdopt, Own, Identity
    <3>5. QED
      BY <1>9, <2>1, <2>3, <3>1, <3>2, <3>3, <3>4, AbstractSucceed DEF RecvAdopt
  <2>4. QED
    BY <2>2, <2>3
<1>10. CASE UNCHANGED vars
  BY <1>10, AbstractStutter DEF vars
<1>11. QED
  BY <1>1, <1>2, <1>3, <1>4, <1>5, <1>6, <1>7, <1>8, <1>9, <1>10
  DEF Next, WorkerStep, Receive

(* Every behaviour of the fence is a succession of strictly senior masters.*)
THEOREM Refinement == Spec => ImplementsSuccession
BY AbstractInit, AbstractStep, FenceInvInit, FenceInvStep, Typing, PTL
DEF Spec, ImplementsSuccession, Abstract!Spec

-----------------------------------------------------------------------------
(* With one supervisor at a time, that leaves no worker half started.      *)

(* Of a session's processes one runs at a time, known by the pid, the      *)
(* fence and the socket on disk; one that starts up is awaited by the      *)
(* supervisor that runs, under the fence it wrote.                         *)
OneRuns ==
  /\ \A s, t \in Supervisors : Running(s) /\ Running(t) => s = t
  /\ \A v, w \in Workers : Alive(v) /\ Alive(w) => v = w
  /\ \A w \in Workers : StartingUp(w) => \E s \in Supervisors :
       /\ Running(s) /\ waiting[s] = w
       /\ fenceFile = [token |-> w, supervisor |-> Identity(s)]
  /\ \A w \in Workers :
       /\ wPc[w] \in {"recorded", "fenced", "serving"} => recorded = w
       /\ wPc[w] \in {"fenced", "serving"} => wFence[w] = fenceFile /\ fenceFile # NoFence
       /\ wPc[w] = "serving" => sock = w

(* Where a supervisor is, what it awaits, and the generation on disk.      *)
Steps ==
  \A s \in Supervisors :
    /\ supPc[s] \in {"off", "read", "truncated", "scan", "ensure", "adopt", "await"}
         => waiting[s] = NoWorker
    /\ supPc[s] = "read" => gen[s] = pidFile + 1
    /\ Running(s) /\ supPc[s] \notin {"read", "truncated"} => gen[s] = pidFile
    /\ supPc[s] = "stopping" => \A w \in Workers : ~Alive(w)

(* Whom a worker obeys, or may come to obey by a connection on its way, is *)
(* the supervisor that runs or of an earlier generation.                   *)
Named(r) ==
  \/ \E w \in Workers : Alive(w) /\ wFence[w] # NoFence /\ wFence[w].supervisor.instance = r
  \/ \E m \in msgs : m.kind = "adopt" /\ m.from = r

NamesAreOlder ==
  \A r \in Supervisors : Named(r) =>
    /\ supPc[r] \notin {"off", "read", "truncated"}
    /\ \A s \in Supervisors : Running(s) => s = r \/ gen[r] < gen[s]
    /\ (\A s \in Supervisors : ~Running(s)) => gen[r] <= pidFile

Adoption(s, w) == [kind |-> "adopt", from |-> s, to |-> w, token |-> wFence[w].token]

(* An adoption on its way has the token it takes; past it, it is done.     *)
Adopting ==
  \A s \in Supervisors, w \in Workers : wPc[w] = "serving" =>
    /\ supPc[s] = "adopt" => tok[s] = wFence[w].token
    /\ supPc[s] = "await" => wFence[w].supervisor = Identity(s) \/ Adoption(s, w) \in msgs
    /\ supPc[s] \in {"bind", "serve", "stopping"} => wFence[w].supervisor = Identity(s)

CleanInv == OneRuns /\ Steps /\ NamesAreOlder /\ Adopting

LEMMA CleanInit ==
  ASSUME Init, TypeOK, "legacy" \notin Hazards
  PROVE  CleanInv
<1>1. /\ \A s \in Supervisors : supPc[s] = "off" /\ waiting[s] = NoWorker /\ ~Running(s)
      /\ \A w \in Workers : wPc[w] = "unspawned" /\ ~Alive(w) /\ ~StartingUp(w)
      /\ msgs = {}
  BY ModelValuesAssumption DEF Init, Running, Alive, StartingUp
<1> QED BY <1>1 DEF CleanInv, OneRuns, Steps, NamesAreOlder, Named, Adopting

(* Where no worker runs there is little to keep.                           *)
LEMMA NoneAlive ==
  ASSUME TypeOK', FenceInv', \A w \in Workers : ~Alive(w)',
         (\A s, t \in Supervisors : Running(s) /\ Running(t) => s = t)', Steps'
  PROVE  CleanInv'
<1>1. \A w \in Workers : /\ wPc'[w] \in {"unspawned", "dead"} /\ ~StartingUp(w)'
  BY DEF Alive, StartingUp
<1>2. \A m \in msgs' : FALSE
  BY <1>1 DEF FenceInv, TypeOK, Messages
<1>3. \A r \in Supervisors : ~Named(r)'
  BY <1>2 DEF Named
<1> QED BY <1>1, <1>3 DEF CleanInv, OneRuns, NamesAreOlder, Adopting

(* Where a supervisor may go next, the files and its token being as they   *)
(* become.                                                                 *)
MayGo(s, pc) ==
  /\ pc \notin {"off", "read", "stopping", "dead"}
  /\ pc = "truncated" => supPc[s] = "read"
  /\ pc \in {"scan", "truncated", "ensure", "adopt", "await"} => waiting[s] = NoWorker
  /\ pc # "truncated" => pidFile' = gen[s]
  /\ \A w \in Workers : wPc[w] = "serving" =>
       /\ pc = "adopt" => tok'[s] = wFence[w].token
       /\ pc = "await" => wFence[w].supervisor = Identity(s) \/ Adoption(s, w) \in msgs
       /\ pc \in {"bind", "serve"} => wFence[w].supervisor = Identity(s)

(* A supervisor goes on, and nothing of a worker changes.                  *)
LEMMA GoesOn ==
  ASSUME TypeOK, FenceInv, CleanInv, NEW s \in Supervisors, NEW pc, Running(s),
         supPc' = [supPc EXCEPT ![s] = pc],
         MayGo(s, pc),
         UNCHANGED <<gen, waiting, fenceFile, recorded, sock, wPc, wFence, msgs>>
  PROVE  CleanInv'
<1> USE DEF MayGo
<1>1. supPc'[s] = pc /\ \A t \in Supervisors \ {s} : supPc'[t] = supPc[t]
  BY DEF TypeOK
<1>2. \A t \in Supervisors : (Running(t)' <=> Running(t)) /\ (Running(t) => t = s)
  BY <1>1 DEF Running, CleanInv, OneRuns
<1>3. \A w \in Workers : (Alive(w)' <=> Alive(w)) /\ (StartingUp(w)' <=> StartingUp(w))
  BY DEF Alive, StartingUp
<1>4. \A t \in Supervisors : Identity(t)' = Identity(t)
  BY DEF Identity
<1>5. OneRuns'
  BY <1>2, <1>3, <1>4 DEF CleanInv, OneRuns
<1>6. Steps'
  BY <1>1, <1>2, <1>3 DEF CleanInv, Steps, Running
<1>7. \A r \in Supervisors : Named(r)' => Named(r)
  BY <1>3 DEF Named
<1>8. NamesAreOlder'
  BY <1>1, <1>2, <1>7 DEF CleanInv, NamesAreOlder
<1>9. \A t \in Supervisors, w \in Workers : Adoption(t, w)' = Adoption(t, w)
  BY DEF Adoption
<1>10. \A t \in Supervisors \ {s} : supPc[t] \in {"off", "dead"}
  BY <1>2 DEF Running
<1>11. Adopting'
  BY <1>1, <1>4, <1>9, <1>10 DEF Adopting
<1> QED BY <1>5, <1>6, <1>8, <1>11 DEF CleanInv

(* A supervisor leaves, with no worker half started.                       *)
LEMMA Leaves ==
  ASSUME TypeOK, FenceInv, CleanInv, NEW s \in Supervisors, Running(s),
         supPc' = [supPc EXCEPT ![s] = "dead"],
         \A w \in Workers : ~StartingUp(w),
         \A r \in Supervisors : Named(r) => gen[r] <= pidFile',
         UNCHANGED <<gen, waiting, fenceFile, recorded, sock, wPc, wFence, msgs>>
  PROVE  CleanInv'
<1>1. supPc'[s] = "dead" /\ \A t \in Supervisors \ {s} : supPc'[t] = supPc[t]
  BY DEF TypeOK
<1>2. \A t \in Supervisors : ~Running(t)' /\ (t # s => supPc[t] \in {"off", "dead"})
  BY <1>1 DEF Running, CleanInv, OneRuns
<1>3. \A w \in Workers : (Alive(w)' <=> Alive(w)) /\ ~StartingUp(w)'
  BY DEF Alive, StartingUp
<1>4. OneRuns'
  BY <1>2, <1>3 DEF CleanInv, OneRuns
<1>5. Steps'
  BY <1>1, <1>2 DEF CleanInv, Steps
<1>6. \A r \in Supervisors : Named(r)' => Named(r)
  BY <1>3 DEF Named
<1>7. NamesAreOlder'
  BY <1>1, <1>2, <1>6 DEF CleanInv, NamesAreOlder
<1>8. Adopting'
  BY <1>1, <1>2 DEF Adopting
<1> QED BY <1>4, <1>5, <1>7, <1>8 DEF CleanInv

(* While a supervisor starts up and awaits no worker, one that runs is the *)
(* one on record.                                                          *)
LEMMA AliveServes ==
  ASSUME TypeOK, CleanInv, NEW w \in Workers, Alive(w), ~StartingUp(w)
  PROVE  /\ wPc[w] = "serving" /\ recorded = w /\ sock = w /\ Listening
         /\ wFence[w] = fenceFile /\ fenceFile # NoFence
BY DEF TypeOK, WrkStates, Alive, StartingUp, CleanInv, OneRuns, Listening

LEMMA NoneStarts ==
  ASSUME CleanInv, NEW s \in Supervisors, Running(s), waiting[s] = NoWorker, NEW w \in Workers
  PROVE  ~StartingUp(w)
BY ModelValuesAssumption DEF CleanInv, OneRuns

LEMMA CleanStart ==
  ASSUME TypeOK, FenceInv, CleanInv, "overlap" \notin Hazards, NEW s \in Supervisors, Start(s)
  PROVE  CleanInv'
<1>1. /\ supPc[s] = "off" /\ \A t \in Supervisors : ~Running(t)
      /\ supPc' = [supPc EXCEPT ![s] = "read"] /\ gen' = [gen EXCEPT ![s] = pidFile + 1]
      /\ UNCHANGED <<tok, waiting, diskVars, wrkVars>>
  BY DEF Start, Goto
<1>2. UNCHANGED <<waiting, pidFile, fenceFile, recorded, sock, wPc, wFence, msgs>>
  BY <1>1 DEF diskVars, wrkVars
<1>3. /\ supPc'[s] = "read" /\ gen'[s] = pidFile + 1
      /\ \A t \in Supervisors \ {s} : supPc'[t] = supPc[t] /\ gen'[t] = gen[t]
      /\ \A t \in Supervisors : supPc[t] \in {"off", "dead"}
  BY <1>1 DEF TypeOK, Running
<1>4. \A t \in Supervisors : Running(t)' => t = s
  BY <1>3 DEF Running
<1>5. \A w \in Workers : /\ (Alive(w)' <=> Alive(w)) /\ ~StartingUp(w)
                         /\ (StartingUp(w)' <=> StartingUp(w))
  BY <1>1, <1>2 DEF Alive, StartingUp, CleanInv, OneRuns
<1>6. OneRuns'
  BY <1>2, <1>4, <1>5 DEF CleanInv, OneRuns
<1>7. Steps'
  <2> SUFFICES ASSUME NEW t \in Supervisors
               PROVE  /\ supPc'[t] \in {"off", "read", "truncated", "scan", "ensure", "adopt", "await"}
                           => waiting[t] = NoWorker
                      /\ supPc'[t] = "read" => gen'[t] = pidFile + 1
                      /\ Running(t)' => supPc'[t] = "read"
                      /\ supPc'[t] # "stopping"
    BY <1>2 DEF Steps
  <2>1. CASE t = s
    BY <1>1, <1>3, <2>1 DEF CleanInv, Steps
  <2>2. CASE t # s
    <3>1. supPc'[t] \in {"off", "dead"} /\ ~Running(t)'
      BY <1>3, <1>4, <2>2
    <3> QED BY <1>3, <2>2, <3>1 DEF CleanInv, Steps
  <2> QED BY <2>1, <2>2
<1>8. \A r \in Supervisors : Named(r)' => Named(r)
  BY <1>2, <1>5 DEF Named
<1>9. NamesAreOlder'
  <2> SUFFICES ASSUME NEW r \in Supervisors, Named(r)
               PROVE  /\ supPc'[r] \notin {"off", "read", "truncated"}
                      /\ gen'[r] < gen'[s] /\ Running(s)'
    BY <1>4, <1>8 DEF NamesAreOlder
  <2>1. supPc[r] \notin {"off", "read", "truncated"} /\ gen[r] <= pidFile
    BY <1>1 DEF CleanInv, NamesAreOlder
  <2> QED BY <1>1, <1>3, <2>1 DEF TypeOK, Running
<1>10. Adopting'
  BY <1>3 DEF Adopting
<1> QED BY <1>6, <1>7, <1>9, <1>10 DEF CleanInv

LEMMA CleanStartup ==
  ASSUME TypeOK, FenceInv, CleanInv, "slow" \notin Hazards,
         NEW s \in Supervisors, Startup(s)
  PROVE  CleanInv'
<1> USE DEF Goto, diskVars, wrkVars, supVars
<1>1. ASSUME PidTruncate(s) PROVE CleanInv'
  <2>1. Running(s) /\ waiting[s] = NoWorker
    BY <1>1 DEF PidTruncate, Running, CleanInv, Steps
  <2>2. PICK pc : pc = "truncated" /\ supPc' = [supPc EXCEPT ![s] = pc]
    BY <1>1 DEF PidTruncate
  <2>3. /\ supPc[s] = "read"
        /\ UNCHANGED <<gen, waiting, fenceFile, recorded, sock, wPc, wFence, msgs>>
    BY <1>1 DEF PidTruncate
  <2>4. MayGo(s, pc)
    BY <2>1, <2>2, <2>3 DEF MayGo
  <2> QED BY <2>1, <2>2, <2>3, <2>4, GoesOn
<1>2. ASSUME PidWrite(s) PROVE CleanInv'
  <2>1. Running(s) /\ waiting[s] = NoWorker
    BY <1>2 DEF PidWrite, Running, CleanInv, Steps
  <2>2. PICK pc : pc = "scan" /\ supPc' = [supPc EXCEPT ![s] = pc]
    BY <1>2 DEF PidWrite
  <2>3. /\ supPc[s] = "truncated" /\ pidFile' = gen[s]
        /\ UNCHANGED <<gen, waiting, fenceFile, recorded, sock, wPc, wFence, msgs>>
    BY <1>2 DEF PidWrite
  <2>4. MayGo(s, pc)
    BY <2>1, <2>2, <2>3 DEF MayGo
  <2> QED BY <2>1, <2>2, <2>3, <2>4, GoesOn
<1>3. ASSUME NEW w \in Workers, wPc[w] = "serving"
      PROVE  /\ Alive(w) /\ recorded = w /\ sock = w /\ Listening
             /\ wFence[w] = fenceFile /\ fenceFile # NoFence
  BY <1>3 DEF CleanInv, OneRuns, Alive, Listening
<1>4. ASSUME RecoverScan(s) \/ EnsureAlive(s) \/ EnsureFails(s) PROVE CleanInv'
  <2>1. Running(s) /\ waiting[s] = NoWorker /\ pidFile = gen[s]
    BY <1>4 DEF RecoverScan, EnsureAlive, EnsureFails, Running, CleanInv, Steps
  <2>2. CASE Alive(recorded)
    BY <1>4, <2>1, <2>2, GoesOn DEF MayGo, RecoverScan, EnsureAlive, EnsureFails
  <2>3. CASE ~Alive(recorded)
    BY <1>3, <1>4, <2>1, <2>3, GoesOn DEF MayGo, RecoverScan, EnsureAlive, EnsureFails
  <2> QED BY <2>2, <2>3
<1>5. ASSUME AdoptRead(s) PROVE CleanInv'
  <2>1. Running(s) /\ waiting[s] = NoWorker /\ pidFile = gen[s]
    BY <1>5 DEF AdoptRead, Running, CleanInv, Steps
  <2>2. CASE fenceFile # NoFence /\ fenceFile.supervisor = Identity(s)
    BY <1>3, <1>5, <2>1, <2>2, GoesOn DEF MayGo, AdoptRead
  <2>3. CASE fenceFile # NoFence /\ fenceFile.supervisor # Identity(s)
    <3>1. tok'[s] = fenceFile.token
      BY <1>5, <2>3 DEF AdoptRead, TypeOK
    <3> QED BY <1>3, <1>5, <2>1, <2>3, <3>1, GoesOn DEF MayGo, AdoptRead
  <2>4. CASE fenceFile = NoFence
    BY <1>3, <1>5, <2>1, <2>4, GoesOn DEF MayGo, AdoptRead
  <2> QED BY <2>2, <2>3, <2>4
<1>6. ASSUME AdoptSend(s), ~Listening PROVE CleanInv'
  <2>1. Running(s) /\ pidFile = gen[s]
    BY <1>6 DEF AdoptSend, Running, CleanInv, Steps
  <2> QED BY <1>3, <1>6, <2>1, GoesOn DEF MayGo, AdoptSend
<1>7. ASSUME AdoptSend(s), Listening PROVE CleanInv'
  <2> DEFINE m == [kind |-> "adopt", from |-> s, to |-> sock, token |-> tok[s]]
  <2>1. /\ supPc[s] = "adopt" /\ supPc' = [supPc EXCEPT ![s] = "await"]
        /\ msgs' = msgs \cup {m}
        /\ UNCHANGED <<gen, tok, waiting, pidFile, fenceFile, recorded, sock, wPc, wFence>>
    BY <1>7 DEF AdoptSend
  <2> HIDE DEF m
  <2>2. /\ supPc'[s] = "await" /\ \A t \in Supervisors \ {s} : supPc'[t] = supPc[t]
        /\ Running(s) /\ waiting[s] = NoWorker /\ pidFile = gen[s]
    BY <2>1 DEF TypeOK, Running, CleanInv, Steps
  <2>3. \A t \in Supervisors : (Running(t)' <=> Running(t)) /\ (Running(t) => t = s)
    BY <2>1, <2>2 DEF Running, CleanInv, OneRuns
  <2>4. \A w \in Workers : (Alive(w)' <=> Alive(w)) /\ (StartingUp(w)' <=> StartingUp(w))
    BY <2>1 DEF Alive, StartingUp
  <2>5. \A t \in Supervisors : Identity(t)' = Identity(t)
    BY <2>1 DEF Identity
  <2>6. OneRuns'
    BY <2>1, <2>3, <2>4, <2>5 DEF CleanInv, OneRuns
  <2>7. Steps'
    BY <2>1, <2>2, <2>3, <2>4 DEF CleanInv, Steps, Running
  <2>8. \A r \in Supervisors : Named(r)' => Named(r) \/ r = s
    BY <2>1, <2>4 DEF Named, m
  <2>9. NamesAreOlder'
    BY <2>1, <2>2, <2>3, <2>8 DEF CleanInv, NamesAreOlder
  <2>10. Adopting'
    <3>1. ASSUME NEW w \in Workers, wPc[w] = "serving"
          PROVE  Adoption(s, w)' \in msgs'
      <4>1. sock = w /\ tok[s] = wFence[w].token
        BY <1>3, <2>1, <3>1 DEF CleanInv, Adopting
      <4> QED BY <2>1, <4>1 DEF Adoption, m
    <3>2. \A t \in Supervisors : Running(t)' => t = s
      BY <2>3
    <3> QED BY <2>1, <2>2, <3>1, <3>2 DEF Adopting, Running
  <2> QED BY <2>6, <2>7, <2>9, <2>10 DEF CleanInv
<1>8. ASSUME AdoptReturn(s) PROVE CleanInv'
  <2>1. Running(s) /\ pidFile = gen[s] /\ supPc[s] = "await"
    BY <1>8 DEF AdoptReturn, Running, CleanInv, Steps
  <2>2. ASSUME NEW w \in Workers, wPc[w] = "serving"
        PROVE  wFence[w].supervisor = Identity(s)
    <3>1. Adoption(s, w) \notin msgs
      BY <1>8 DEF AdoptReturn, Adoption
    <3> QED BY <2>1, <2>2, <3>1 DEF CleanInv, Adopting
  <2>3. PICK pc : pc = "bind" /\ supPc' = [supPc EXCEPT ![s] = pc]
    BY <1>8 DEF AdoptReturn
  <2>4. UNCHANGED <<gen, waiting, pidFile, fenceFile, recorded, sock, wPc, wFence, msgs>>
    BY <1>8 DEF AdoptReturn
  <2>5. MayGo(s, pc)
    BY <2>1, <2>2, <2>3, <2>4 DEF MayGo
  <2> QED BY <2>1, <2>3, <2>4, <2>5, GoesOn
<1>9. ASSUME DaemonBind(s) PROVE CleanInv'
  <2>1. Running(s) /\ pidFile = gen[s] /\ supPc[s] = "bind"
    BY <1>9 DEF DaemonBind, Running, CleanInv, Steps
  <2>2. \A w \in Workers : wPc[w] = "serving" => wFence[w].supervisor = Identity(s)
    BY <2>1 DEF CleanInv, Adopting
  <2>3. PICK pc : pc = "serve" /\ supPc' = [supPc EXCEPT ![s] = pc]
    BY <1>9 DEF DaemonBind
  <2>4. UNCHANGED <<gen, waiting, pidFile, fenceFile, recorded, sock, wPc, wFence, msgs>>
    BY <1>9 DEF DaemonBind
  <2>5. MayGo(s, pc)
    BY <2>1, <2>2, <2>3, <2>4 DEF MayGo
  <2> QED BY <2>1, <2>3, <2>4, <2>5, GoesOn
<1>10. ~DaemonBindFails(s)
  BY DEF DaemonBindFails, CleanInv, OneRuns, Running
<1> QED
  BY <1>1, <1>2, <1>4, <1>5, <1>6, <1>7, <1>8, <1>9, <1>10 DEF Startup

LEMMA CleanEnd ==
  ASSUME TypeOK, TypeOK', FenceInv, FenceInv', CleanInv,
         Hazards \cap {"torn", "midspawn", "force"} = {}, NEW s \in Supervisors,
         Crash(s) \/ ShutdownBegin(s) \/ ShutdownEnd(s) \/ ShutdownForce(s)
  PROVE  CleanInv'
<1> USE DEF Goto, diskVars, wrkVars, supVars
<1>1. Running(s) /\ \A w \in Workers : ~StartingUp(w)
  BY DEF Crash, ShutdownBegin, ShutdownEnd, ShutdownForce, MayLeave, Running
<1>2. ASSUME Crash(s) PROVE CleanInv'
  <2>1. ASSUME NEW r \in Supervisors, Named(r) PROVE gen[r] <= pidFile
    <3>1. supPc[r] \notin {"off", "read", "truncated"} /\ (s = r \/ gen[r] < gen[s])
      BY <1>1, <2>1 DEF CleanInv, NamesAreOlder
    <3>2. supPc[s] # "truncated"
      BY <1>2 DEF Crash
    <3>3. IF supPc[s] = "read" THEN gen[s] = pidFile + 1 ELSE gen[s] = pidFile
      BY <1>1, <3>2 DEF CleanInv, Steps
    <3> QED BY <3>1, <3>3 DEF TypeOK
  <2> QED BY <1>1, <1>2, <2>1, Leaves DEF Crash
<1>3. ASSUME ShutdownBegin(s) PROVE CleanInv'
  <2>1. /\ supPc[s] = "serve" /\ supPc' = [supPc EXCEPT ![s] = "stopping"]
        /\ UNCHANGED <<gen, tok, waiting, pidFile>>
    BY <1>3 DEF ShutdownBegin
  <2>2. ASSUME NEW w \in Workers PROVE ~Alive(w)'
    <3>1. CASE \E v \in Workers : Alive(v)
      <4>1. PICK v \in Workers : Alive(v)
        BY <3>1
      <4>2. sock = v /\ recorded = v /\ Listening /\ wFence[v].supervisor = Identity(s)
        BY <1>1, <2>1, <4>1, AliveServes DEF CleanInv, Adopting
      <4>3. wPc' = [wPc EXCEPT ![v] = "dead"]
        BY <1>3, <4>1, <4>2 DEF ShutdownBegin, Obeys
      <4>4. w # v => ~Alive(w)
        BY <4>1 DEF CleanInv, OneRuns
      <4> QED BY <4>3, <4>4 DEF TypeOK, Alive
    <3>2. CASE \A v \in Workers : ~Alive(v)
      <4>1. UNCHANGED wPc
        <5>1. ~(Alive(recorded) /\ Listening /\ Obeys(sock, s))
          BY <3>2 DEF Alive
        <5> QED BY <1>3, <5>1 DEF ShutdownBegin
      <4> QED BY <3>2, <4>1 DEF Alive
    <3> QED BY <3>1, <3>2
  <2>3. supPc'[s] = "stopping" /\ \A t \in Supervisors \ {s} : supPc'[t] = supPc[t]
    BY <2>1 DEF TypeOK
  <2>4. \A t \in Supervisors : Running(t)' <=> Running(t)
    BY <1>1, <2>3 DEF Running
  <2>5. (\A t, r \in Supervisors : Running(t) /\ Running(r) => t = r)'
    BY <2>4 DEF CleanInv, OneRuns
  <2>6. Steps'
    BY <1>1, <2>1, <2>2, <2>3, <2>4 DEF CleanInv, Steps
  <2> QED BY <2>2, <2>5, <2>6, NoneAlive
<1>4. ASSUME ShutdownEnd(s) PROVE CleanInv'
  <2>1. \A w \in Workers : ~Alive(w)
    BY <1>4 DEF ShutdownEnd, CleanInv, Steps
  <2>2. \A r \in Supervisors : ~Named(r)
    BY <2>1 DEF Named, Alive, FenceInv, TypeOK, Messages
  <2> QED BY <1>1, <1>4, <2>2, Leaves DEF ShutdownEnd
<1>5. ~ShutdownForce(s)
  BY DEF ShutdownForce
<1> QED BY <1>2, <1>3, <1>4, <1>5

LEMMA CleanSpawn ==
  ASSUME TypeOK, TypeOK', FenceInv, FenceInv', CleanInv,
         Hazards \cap {"slow", "revive"} = {}, NEW s \in Supervisors,
         SpawnDone(s) \/ \E w \in Workers : Spawn(s, w)
  PROVE  CleanInv'
<1> USE DEF diskVars, wrkVars, supVars
<1>1. ASSUME NEW w \in Workers, Spawn(s, w) PROVE CleanInv'
  <2>1. /\ supPc[s] \in {"ensure", "bind", "serve"} /\ waiting[s] = NoWorker /\ ~Alive(recorded)
        /\ wPc[w] = "unspawned" /\ fenceFile' = [token |-> w, supervisor |-> Identity(s)]
        /\ wPc' = [wPc EXCEPT ![w] = "starting"] /\ waiting' = [waiting EXCEPT ![s] = w]
        /\ supPc' = [supPc EXCEPT ![s] = IF @ = "ensure" THEN "readFence" ELSE @]
        /\ UNCHANGED <<gen, pidFile, wFence, msgs>>
    BY <1>1 DEF Spawn, MaySpawn
  <2>2. Running(s)
    BY <2>1 DEF Running
  <2>3. ASSUME NEW v \in Workers PROVE ~Alive(v)
    BY <2>1, <2>2, NoneStarts, AliveServes
  <2>4. /\ wPc'[w] = "starting" /\ \A v \in Workers \ {w} : wPc'[v] = wPc[v]
        /\ waiting'[s] = w /\ \A t \in Supervisors \ {s} : waiting'[t] = waiting[t]
        /\ supPc'[s] \in {"readFence", "bind", "serve"}
        /\ \A t \in Supervisors \ {s} : supPc'[t] = supPc[t]
    BY <2>1 DEF TypeOK
  <2>5. \A v \in Workers : (Alive(v)' => v = w) /\ (StartingUp(v)' => v = w) /\ wPc'[v] # "serving"
    BY <2>3, <2>4 DEF Alive, StartingUp
  <2>6. \A t \in Supervisors : (Running(t)' <=> Running(t)) /\ (Running(t) => t = s)
    BY <2>2, <2>4 DEF Running, CleanInv, OneRuns
  <2>7. OneRuns'
    <3>1. Identity(s)' = Identity(s) /\ Running(s)'
      BY <2>1, <2>2, <2>6 DEF Identity
    <3>2. /\ \A v \in Workers : wPc'[v] \notin {"recorded", "fenced", "serving"}
          /\ \A t, r \in Supervisors : Running(t)' /\ Running(r)' => t = r
      BY <2>3, <2>4, <2>6 DEF Alive
    <3> QED BY <2>1, <2>4, <2>5, <3>1, <3>2 DEF OneRuns
  <2>8. Steps'
    <3>1. gen[s] = pidFile
      BY <2>1, <2>2 DEF CleanInv, Steps
    <3> QED BY <2>1, <2>4, <2>6, <3>1 DEF CleanInv, Steps, Running
  <2>9. \A r \in Supervisors : ~Named(r)'
    <3>1. msgs = {}
      BY <2>3 DEF FenceInv, TypeOK, Messages, Alive
    <3>2. wFence'[w] = NoFence
      BY <2>1 DEF FenceInv
    <3> QED BY <2>1, <2>5, <3>1, <3>2 DEF Named
  <2> QED BY <2>5, <2>7, <2>8, <2>9 DEF CleanInv, NamesAreOlder, Adopting
<1>2. ASSUME SpawnDone(s) PROVE CleanInv'
  <2>1. /\ Running(s) /\ waiting[s] # NoWorker /\ (Listening \/ ~Alive(waiting[s]))
        /\ waiting' = [waiting EXCEPT ![s] = NoWorker]
        /\ supPc' = [supPc EXCEPT ![s] = IF @ = "readFence" /\ ~Listening THEN "bind" ELSE @]
        /\ UNCHANGED <<gen, pidFile, fenceFile, recorded, sock, wPc, wFence, msgs>>
    BY <1>2 DEF SpawnDone
  <2>2. ASSUME NEW w \in Workers PROVE ~StartingUp(w)
    <3> SUFFICES ASSUME StartingUp(w) PROVE FALSE
      OBVIOUS
    <3>1. waiting[s] = w /\ Alive(w)
      BY <2>1 DEF CleanInv, OneRuns, StartingUp, Alive
    <3>2. Listening /\ Alive(sock) /\ sock \in Workers /\ ~StartingUp(sock)
      BY <2>1, <3>1 DEF Listening, Alive, StartingUp
    <3> QED BY <3>1, <3>2 DEF CleanInv, OneRuns
  <2>3. /\ supPc'[s] \in {supPc[s], "bind"} /\ \A t \in Supervisors \ {s} : supPc'[t] = supPc[t]
        /\ supPc[s] \in {"readFence", "bind", "serve", "stopping"}
        /\ supPc'[s] # supPc[s] => supPc[s] = "readFence" /\ ~Listening
        /\ \A t \in Supervisors \ {s} : waiting'[t] = waiting[t]
    BY <2>1 DEF TypeOK, Running, SupStates, CleanInv, Steps
  <2>4. \A t \in Supervisors : (Running(t)' <=> Running(t)) /\ (Running(t) => t = s)
    BY <2>1, <2>3 DEF Running, CleanInv, OneRuns
  <2>5. \A w \in Workers : (Alive(w)' <=> Alive(w)) /\ ~StartingUp(w)'
    BY <2>1, <2>2 DEF Alive, StartingUp
  <2>6. OneRuns'
    BY <2>1, <2>4, <2>5 DEF CleanInv, OneRuns
  <2>7. Steps'
    BY <2>1, <2>3, <2>4, <2>5 DEF CleanInv, Steps, Running
  <2>8. NamesAreOlder'
    <3>1. \A r \in Supervisors : Named(r)' => Named(r)
      BY <2>1, <2>5 DEF Named
    <3>2. ASSUME NEW r \in Supervisors PROVE supPc'[r] \in {"off", "read", "truncated"}
                                                => supPc'[r] = supPc[r]
      BY <2>3
    <3> QED BY <2>1, <2>4, <3>1, <3>2 DEF CleanInv, NamesAreOlder
  <2>9. Adopting'
    <3>1. \A t \in Supervisors, w \in Workers :
             Adoption(t, w)' = Adoption(t, w) /\ Identity(t)' = Identity(t)
      BY <2>1 DEF Adoption, Identity
    <3>2. supPc'[s] # supPc[s] => \A w \in Workers : wPc[w] # "serving"
      BY <2>3 DEF CleanInv, OneRuns, Listening
    <3>3. ASSUME NEW t \in Supervisors, NEW w \in Workers, wPc[w] = "serving"
          PROVE  supPc'[t] = supPc[t]
      BY <2>3, <3>2, <3>3
    <3>4. UNCHANGED tok
      BY <1>2 DEF SpawnDone
    <3> QED BY <2>1, <3>1, <3>3, <3>4 DEF CleanInv, Adopting
  <2> QED BY <2>6, <2>7, <2>8, <2>9 DEF CleanInv
<1> QED BY <1>1, <1>2

LEMMA CleanWorker ==
  ASSUME TypeOK, TypeOK', FenceInv, FenceInv', CleanInv, NEW w \in Workers,
         WorkerStep(w) \/ WorkerCrash(w)
  PROVE  CleanInv'
<1> USE DEF diskVars, wrkVars, supVars
<1>1. UNCHANGED <<supPc, gen, tok, waiting, pidFile, fenceFile>> /\ Alive(w)
  BY DEF WorkerStep, WorkerRecord, WorkerReadFence, WorkerBind, WorkerCrash, Alive
<1>2. \A v \in Workers : v # w => ~Alive(v) /\ ~StartingUp(v)
  BY <1>1 DEF CleanInv, OneRuns, Alive, StartingUp
<1>3. /\ \A v \in Workers \ {w} : wPc'[v] = wPc[v]
      /\ \A v \in Workers : v # w => ~Alive(v)' /\ ~StartingUp(v)'
  BY <1>2 DEF WorkerStep, WorkerRecord, WorkerReadFence, WorkerBind, WorkerCrash, TypeOK,
              Alive, StartingUp, Listening
<1>4. \A t \in Supervisors : (Running(t)' <=> Running(t)) /\ Identity(t)' = Identity(t)
  BY <1>1 DEF Running, Identity
<1>5. Steps'
  <2>1. \A t \in Supervisors : supPc[t] # "stopping"
    BY <1>1 DEF CleanInv, Steps
  <2> QED BY <1>1, <1>4, <2>1 DEF CleanInv, Steps
<1>6. ASSUME ~Alive(w)' PROVE CleanInv'
  BY <1>3, <1>4, <1>5, <1>6, NoneAlive DEF CleanInv, OneRuns
<1>7. ASSUME WorkerStep(w), Alive(w)' PROVE CleanInv'
  <2>1. StartingUp(w) /\ msgs' = msgs
    BY <1>7 DEF WorkerStep, WorkerRecord, WorkerReadFence, WorkerBind, StartingUp
  <2>2. PICK s \in Supervisors :
          /\ Running(s) /\ waiting[s] = w
          /\ fenceFile = [token |-> w, supervisor |-> Identity(s)]
    BY <2>1 DEF CleanInv, OneRuns
  <2>3. /\ \A t \in Supervisors : Running(t) => t = s
        /\ supPc[s] \in {"readFence", "bind", "serve", "stopping"}
    BY <2>2, ModelValuesAssumption DEF CleanInv, OneRuns, Steps, Running, TypeOK, SupStates
  <2>4. fenceFile # NoFence
    BY <2>2, ModelValuesAssumption DEF Identity, TypeOK
  <2>5. /\ wFence'[w] \in {wFence[w], fenceFile}
        /\ wPc'[w] \in {"recorded", "fenced", "serving"} => recorded' = w
        /\ wPc'[w] \in {"fenced", "serving"} => wFence'[w] = fenceFile
        /\ wPc'[w] = "serving" => sock' = w
        /\ wPc'[w] \notin {"unspawned", "dead", "starting"}
        /\ \A v \in Workers \ {w} : wFence'[v] = wFence[v]
    BY <1>7 DEF WorkerStep, WorkerRecord, WorkerReadFence, WorkerBind, CleanInv, OneRuns,
                TypeOK, Alive
  <2>6. OneRuns'
    <3>1. \A v \in Workers : v # w => wPc'[v] \in {"unspawned", "dead"}
      BY <1>3 DEF Alive
    <3> QED BY <1>1, <1>3, <1>4, <2>2, <2>3, <2>4, <2>5, <3>1 DEF OneRuns, StartingUp
  <2>7. \A r \in Supervisors : Named(r)' => Named(r) \/ r = s
    <3> SUFFICES ASSUME NEW r \in Supervisors, Named(r)' PROVE Named(r) \/ r = s
      OBVIOUS
    <3>1. CASE \E m \in msgs' : m.kind = "adopt" /\ m.from = r
      BY <2>1, <3>1 DEF Named
    <3>2. CASE wFence'[w] # NoFence /\ wFence'[w].supervisor.instance = r
      BY <1>1, <2>2, <2>5, <3>2 DEF Named, Identity
    <3> QED BY <1>3, <3>1, <3>2 DEF Named
  <2>8. NamesAreOlder'
    BY <1>1, <1>4, <2>2, <2>3, <2>7 DEF CleanInv, NamesAreOlder
  <2>9. Adopting'
    <3>1. ASSUME NEW t \in Supervisors, supPc'[t] \notin {"off", "dead"}
          PROVE  t = s
      BY <1>1, <2>3, <3>1 DEF Running
    <3>2. ASSUME NEW v \in Workers, wPc'[v] = "serving"
          PROVE  v = w /\ wFence'[w].supervisor = Identity(s)
      BY <1>3, <2>2, <2>5, <3>2 DEF Alive
    <3> QED BY <1>1, <1>4, <2>3, <3>1, <3>2 DEF Adopting
  <2> QED BY <1>5, <2>6, <2>8, <2>9 DEF CleanInv
<1>8. WorkerCrash(w) => ~Alive(w)'
  BY DEF WorkerCrash, Alive, TypeOK
<1> QED BY <1>6, <1>7, <1>8

(* Connections come and go; processes and the rest of the disk stand still.*)
LEMMA CleanFrame ==
  ASSUME CleanInv,
         UNCHANGED <<supPc, gen, tok, waiting, pidFile, fenceFile, recorded, sock, wPc, wFence>>,
         \A m \in msgs' : m.kind = "adopt" => m \in msgs,
         \A s \in Supervisors, w \in Workers :
           Adoption(s, w) \in msgs /\ wPc[w] = "serving" /\ supPc[s] = "await" =>
             wFence[w].supervisor = Identity(s) \/ Adoption(s, w) \in msgs'
  PROVE  CleanInv'
<1>1. \A w \in Workers : (Alive(w)' <=> Alive(w)) /\ (StartingUp(w)' <=> StartingUp(w))
  BY DEF Alive, StartingUp
<1>2. \A t \in Supervisors : (Running(t)' <=> Running(t)) /\ Identity(t)' = Identity(t)
  BY DEF Running, Identity
<1>3. OneRuns'
  BY <1>1, <1>2 DEF CleanInv, OneRuns
<1>4. Steps'
  BY <1>1, <1>2 DEF CleanInv, Steps
<1>5. \A r \in Supervisors : Named(r)' => Named(r)
  BY <1>1 DEF Named
<1>6. NamesAreOlder'
  BY <1>2, <1>5 DEF CleanInv, NamesAreOlder
<1>7. \A s \in Supervisors, w \in Workers : Adoption(s, w)' = Adoption(s, w)
  BY DEF Adoption
<1>8. Adopting'
  BY <1>2, <1>7 DEF CleanInv, Adopting
<1> QED BY <1>3, <1>4, <1>6, <1>8 DEF CleanInv

LEMMA CleanConnections ==
  ASSUME TypeOK, FenceInv, CleanInv,
         \/ \E s \in Supervisors : SendCommand(s)
         \/ \E m \in msgs : Receive(m)
         \/ \E a \in accepted : RunCommand(a)
         \/ UNCHANGED vars
  PROVE  CleanInv'
<1> USE DEF diskVars, wrkVars, supVars
<1>1. ASSUME NEW s \in Supervisors, SendCommand(s) PROVE CleanInv'
  BY <1>1, CleanFrame DEF SendCommand
<1>2. ASSUME NEW m \in msgs, RecvAuth(m) PROVE CleanInv'
  <2>1. \A s \in Supervisors, w \in Workers : Adoption(s, w) # m
    BY <1>2 DEF RecvAuth, Adoption
  <2> QED BY <1>2, <2>1, CleanFrame DEF RecvAuth
<1>3. ASSUME NEW m \in msgs, RecvAdopt(m) PROVE CleanInv'
  <2>1. /\ m.kind = "adopt" /\ m.from \in Supervisors /\ m.to \in Workers /\ m.token \in Tokens
        /\ wPc[m.to] = "serving" /\ Named(m.from) /\ Alive(m.to)
    BY <1>3 DEF RecvAdopt, TypeOK, Messages, FenceInv, Named, Alive
  <2>2. wFence[m.to] # NoFence /\ wFence[m.to] \in Fences /\ wFence[m.to] = fenceFile
    BY <2>1 DEF TypeOK, CleanInv, OneRuns
  <2> DEFINE r == wFence[m.to].supervisor.instance
  <2>3. /\ r \in Supervisors /\ Named(r) /\ wFence[m.to].supervisor = Identity(r)
    BY <2>1, <2>2 DEF Fences, Identities, Named, FenceInv, FenceOfStarted
  <2>4. CASE ~Adoptable(m)
    <3>1. ASSUME NEW s \in Supervisors, NEW w \in Workers, Adoption(s, w) = m,
                 supPc[s] = "await"
          PROVE  wFence[w].supervisor = Identity(s)
      <4>1. m.from = s /\ m.to = w /\ m.token = wFence[w].token
        BY <3>1 DEF Adoption
      <4>2. ~(gen[s] > gen[r])
        BY <2>2, <2>3, <2>4, <4>1 DEF Adoptable, MayAdoptFrom, Identity
      <4>3. s = r \/ gen[r] < gen[s]
        BY <2>3, <3>1 DEF CleanInv, NamesAreOlder, Running
      <4> QED BY <2>3, <4>1, <4>2, <4>3
    <3>2. /\ msgs' = msgs \ {m}
          /\ UNCHANGED <<supVars, pidFile, recorded, sock, wPc, wFence, fenceFile>>
      BY <1>3, <2>4 DEF RecvAdopt
    <3> QED BY <3>1, <3>2, CleanFrame
  <2>5. CASE Adoptable(m)
    <3> DEFINE f == [token |-> m.token, supervisor |-> Identity(m.from)]
    <3>1. /\ wFence' = [wFence EXCEPT ![m.to] = f] /\ fenceFile' = f
          /\ msgs' = msgs \ {m}
          /\ UNCHANGED <<supPc, gen, tok, waiting, pidFile, recorded, sock, wPc>>
      BY <1>3, <2>5 DEF RecvAdopt
    <3>2. f.token = wFence[m.to].token /\ gen[m.from] > gen[r] /\ f # NoFence
      BY <2>1, <2>2, <2>3, <2>5, ModelValuesAssumption
      DEF Adoptable, MayAdoptFrom, Identity, TypeOK, Tokens
    <3>3. f.supervisor = Identity(m.from) /\ f.supervisor.instance = m.from
      BY DEF Identity
    <3> HIDE DEF f
    <3>4. wFence'[m.to] = f /\ \A w \in Workers \ {m.to} : wFence'[w] = wFence[w]
      BY <2>1, <3>1 DEF TypeOK
    <3>5. \A w \in Workers : (Alive(w)' <=> Alive(w)) /\ (Alive(w) => w = m.to)
                             /\ ~StartingUp(w) /\ ~StartingUp(w)'
      BY <2>1, <3>1 DEF Alive, StartingUp, CleanInv, OneRuns
    <3>6. \A t \in Supervisors : (Running(t)' <=> Running(t)) /\ Identity(t)' = Identity(t)
      BY <3>1 DEF Running, Identity
    <3>7. OneRuns'
      <4>1. \A w \in Workers : wPc[w] \in {"recorded", "fenced", "serving"} => w = m.to
        BY <3>5 DEF Alive
      <4> QED BY <3>1, <3>2, <3>4, <3>5, <3>6, <4>1 DEF CleanInv, OneRuns
    <3>8. Steps'
      BY <3>1, <3>5, <3>6 DEF CleanInv, Steps
    <3>9. \A p \in Supervisors : Named(p)' => Named(p)
      BY <2>1, <3>1, <3>3, <3>4, <3>5 DEF Named
    <3>10. NamesAreOlder'
      BY <3>1, <3>6, <3>9 DEF CleanInv, NamesAreOlder
    <3>11. ASSUME NEW s \in Supervisors, Running(s), wFence[m.to].supervisor = Identity(s)
           PROVE  FALSE
      <4>1. s = r
        BY <2>3, <3>11 DEF Identity
      <4>2. s = m.from \/ gen[m.from] < gen[s]
        BY <2>1, <3>11 DEF CleanInv, NamesAreOlder
      <4> QED BY <2>1, <2>3, <3>2, <4>1, <4>2 DEF TypeOK
    <3>12. Adopting'
      <4> SUFFICES ASSUME NEW s \in Supervisors
                   PROVE  /\ supPc[s] = "adopt" => tok[s] = f.token
                          /\ supPc[s] = "await" =>
                               f.supervisor = Identity(s) \/ Adoption(s, m.to)' \in msgs'
                          /\ supPc[s] \notin {"bind", "serve", "stopping"}
        BY <3>1, <3>4, <3>5, <3>6 DEF Adopting, Alive
      <4>1. supPc[s] = "adopt" => tok[s] = f.token
        BY <2>1, <3>2 DEF CleanInv, Adopting
      <4>2. supPc[s] \notin {"bind", "serve", "stopping"}
        BY <2>1, <3>11 DEF CleanInv, Adopting, Running
      <4>3. ASSUME supPc[s] = "await", m # Adoption(s, m.to)
            PROVE  Adoption(s, m.to)' \in msgs'
        <5>1. Adoption(s, m.to) \in msgs
          BY <2>1, <3>11, <4>3 DEF CleanInv, Adopting, Running
        <5>2. Adoption(s, m.to)' = Adoption(s, m.to)
          BY <3>2, <3>4 DEF Adoption
        <5> QED BY <3>1, <4>3, <5>1, <5>2
      <4>4. m = Adoption(s, m.to) => f.supervisor = Identity(s)
        BY <3>3 DEF Adoption
      <4> QED BY <4>1, <4>2, <4>3, <4>4
    <3> QED BY <3>7, <3>8, <3>10, <3>12 DEF CleanInv
  <2> QED BY <2>4, <2>5
<1>4. ASSUME NEW a \in accepted, RunCommand(a) PROVE CleanInv'
  BY <1>4, CleanFrame DEF RunCommand
<1>5. ASSUME UNCHANGED vars PROVE CleanInv'
  BY <1>5, CleanFrame DEF vars
<1> QED BY <1>1, <1>2, <1>3, <1>4, <1>5 DEF Receive

LEMMA CleanStep ==
  ASSUME Hazards \subseteq {"misjudge"}, TypeOK, TypeOK', FenceInv, FenceInv', CleanInv,
         [Next]_vars
  PROVE  CleanInv'
<1>1. /\ "overlap" \notin Hazards /\ "slow" \notin Hazards
      /\ Hazards \cap {"torn", "midspawn", "force"} = {}
      /\ Hazards \cap {"slow", "revive"} = {}
  OBVIOUS
<1>2. ASSUME NEW s \in Supervisors, Start(s) PROVE CleanInv'
  BY <1>1, <1>2, CleanStart
<1>3. ASSUME NEW s \in Supervisors, Startup(s) PROVE CleanInv'
  BY <1>1, <1>3, CleanStartup
<1>4. ASSUME NEW s \in Supervisors,
             Crash(s) \/ ShutdownBegin(s) \/ ShutdownEnd(s) \/ ShutdownForce(s)
      PROVE  CleanInv'
  BY <1>1, <1>4, CleanEnd
<1>5. ASSUME NEW s \in Supervisors, SpawnDone(s) \/ \E w \in Workers : Spawn(s, w)
      PROVE  CleanInv'
  BY <1>1, <1>5, CleanSpawn
<1>6. ASSUME NEW w \in Workers, WorkerStep(w) \/ WorkerCrash(w) PROVE CleanInv'
  BY <1>6, CleanWorker
<1> QED BY <1>2, <1>3, <1>4, <1>5, <1>6, CleanConnections DEF Next

LEMMA Clean == ASSUME Hazards \subseteq {"misjudge"} PROVE Spec => []CleanInv
<1>1. Init /\ TypeOK => CleanInv
  BY CleanInit
<1>2. TypeOK /\ TypeOK' /\ FenceInv /\ FenceInv' /\ CleanInv /\ [Next]_vars => CleanInv'
  BY CleanStep
<1> QED BY <1>1, <1>2, FenceInvInit, FenceInvStep, Typing, PTL DEF Spec

(* Past its recovery a supervisor is the one the session's listening       *)
(* worker obeys: adoption, spawning and binding daemon.sock, in whatever   *)
(* order crashes, shutdowns and late connections leave them, when one      *)
(* supervisor runs at a time and none leaves a worker half started         *)
(* (daemon::run, recover_on_startup).                                      *)
THEOREM Replacement ==
  ASSUME Hazards \subseteq {"misjudge"}
  PROVE  Spec => []ReplacementOwnsWorker
<1>1. TypeOK /\ CleanInv => ReplacementOwnsWorker
  BY DEF TypeOK, CleanInv, OneRuns, Adopting, Listening, ReplacementOwnsWorker
<1> QED BY <1>1, Clean, Typing, PTL

(* The token on disk is the one the listening worker accepts, so that a    *)
(* later supervisor can learn what adoption takes (WorkerFence::write).    *)
THEOREM TokenOpens ==
  ASSUME Hazards \subseteq {"misjudge"}
  PROVE  Spec => []TokenOnDiskOpensWorker
<1>1. TypeOK /\ CleanInv => TokenOnDiskOpensWorker
  BY DEF TypeOK, CleanInv, OneRuns, Listening, TokenOnDiskOpensWorker
<1> QED BY <1>1, Clean, Typing, PTL
=============================================================================
