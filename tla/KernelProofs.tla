----------------------------- MODULE KernelProofs ----------------------------
(***************************************************************************)
(* Proofs about module Kernel: the types, that a tool call is answered     *)
(* with the whole of its cell's output, and that a veto holds.             *)
(***************************************************************************)
EXTENDS Kernel, FiniteSetTheorems, SequenceTheorems, TLAPS

-----------------------------------------------------------------------------
(* The inductive invariant.                                                *)

(* The members of a sequence that are in a set, each place counted.        *)
CountIn(s, S) == Cardinality({i \in 1..Len(s) : s[i] \in S})

Streams(c) == {[kind |-> "stream", cell |-> c]}

Awaits(c) == {[kind |-> "await", cell |-> c]}

Replies(c) == {[cell |-> c, awaited |-> TRUE]}

HostType ==
  [stage : {"start", "welcome", "ready", "run", "drain", "handle", "down"},
   purpose : Purposes, sent : 0..MaxCells, drains : 0..MaxCells,
   out : Nat, mark : BOOLEAN, result : Results, awaited : BOOLEAN, hooked : BOOLEAN]

SeenType ==
  [printed : [Cells -> 0..MaxPrints], result : [Cells -> Results],
   asking : SUBSET Cells, marked : SUBSET Cells, failed : SUBSET Cells, wrong : SUBSET Cells,
   purpose : [Cells -> Purposes], hookOf : [Cells -> 0..MaxCells], missed : BOOLEAN]

KernelTypes ==
  /\ host \in HostType
  /\ pending \in [cell : 0..MaxCells, result : Results]
  /\ kernel \in [up : BOOLEAN, heard : BOOLEAN, cell : 0..MaxCells,
                 asked : 0..MaxAsks, waits : 0..MaxAsks]
  /\ shell \in Seq(Cells) /\ iopub \in Seq(Messages)
  /\ control \in Seq([cell : Cells, awaited : BOOLEAN])
  /\ seen \in SeenType

InShell(c) == \E i \in 1..Len(shell) : shell[i] = c

(* Cells are run in the order they were sent, each once.                   *)
InTurn ==
  /\ kernel.cell <= host.sent
  /\ \A i \in 1..Len(shell) : shell[i] <= host.sent /\ kernel.cell < shell[i]
  /\ \A i, j \in 1..Len(shell) : i < j => shell[i] < shell[j]

(* A cell not begun has done nothing.                                      *)
Untouched ==
  \A c \in Cells : c > host.sent \/ InShell(c) =>
    /\ seen.printed[c] = 0 /\ seen.result[c] = "none"
    /\ c \notin seen.marked /\ c \notin seen.asking

(* What comes back is of cells begun; a cell's idle is its last message.   *)
Returned ==
  /\ \A i \in 1..Len(iopub) : /\ iopub[i].cell <= host.sent
                              /\ ~InShell(iopub[i].cell)
                              /\ iopub[i].kind = "idle" => kernel.cell # iopub[i].cell
                              /\ iopub[i].kind \in {"ask", "await"} => iopub[i].cell \in seen.asking
  /\ \A i, j \in 1..Len(iopub) :
       i < j /\ iopub[i].kind = "idle" => iopub[j].cell # iopub[i].cell
  /\ \A i \in 1..Len(control) : control[i].cell \in seen.asking

Booted == host.stage = "ready" \/ host.purpose # "boot"

(* Only the bootstrap's cell may go unheard.                               *)
Heard ==
  /\ iopub # <<>> => kernel.heard
  /\ Booted => kernel.heard /\ host.sent >= 1
  /\ \A c \in Cells : seen.purpose[c] # "boot" => kernel.heard
  /\ host.stage \in {"run", "drain", "handle", "ready"} \/ host.sent >= 1 =>
       kernel.heard \/ seen.missed
  /\ host.stage \in {"start", "welcome"} => host.purpose = "boot" /\ host.sent = 0
  /\ host.purpose = "boot" /\ host.stage = "run" => host.sent = 0
  /\ host.purpose = "boot" /\ host.stage \in {"drain", "handle"} => host.sent = 1

Reading == host.stage \in {"drain", "handle"}

(* What was read of the cell at hand and what is still to come make up     *)
(* what the cell did.                                                      *)
MakesUp ==
  LET c == host.sent
  IN  /\ host.drains = c /\ c \in Cells
      /\ host.purpose = seen.purpose[c]
      /\ host.stage = "handle" => /\ host.purpose = "tool" /\ c \in seen.asking
                                  /\ pending = [cell |-> c, result |-> host.result]
      /\ \A i \in 1..Len(iopub) : iopub[i].cell = c => iopub[i].kind # "torn"
      /\ host.out + CountIn(iopub, Streams(c)) = seen.printed[c]
      /\ host.purpose = "tool" =>
           /\ kernel.cell = c => seen.result[c] = "none"
           /\ \A i \in 1..Len(iopub) :
                iopub[i].cell = c /\ iopub[i].kind \in {"result", "error"} =>
                  iopub[i].kind = seen.result[c]
           /\ host.result \in {"none", seen.result[c]}
           /\ host.result = "none" /\ seen.result[c] # "none" =>
                \E i \in 1..Len(iopub) : /\ iopub[i].cell = c
                                         /\ iopub[i].kind \in {"result", "error"}
      /\ host.purpose # "tool" /\ ~seen.missed /\ c \in seen.marked /\ c \notin seen.asking =>
           host.mark \/ \E i \in 1..Len(iopub) : iopub[i] = [kind |-> "mark", cell |-> c]

AtHand ==
  IF Reading THEN MakesUp
  ELSE host.out = 0 /\ host.result = "none" /\ ~host.mark /\ ~host.awaited

(* A cell that was to run hooks and is over gave no reason, or its answer  *)
(* was not waited for.                                                     *)
Cleared(h) ==
  \/ seen.missed \/ h \in seen.asking
  \/ h \notin seen.marked /\ h <= host.sent /\ kernel.cell # h /\ ~InShell(h)

HookOf(c) == IF seen.hookOf[c] = NoCell THEN 1 ELSE seen.hookOf[c]

Vetted ==
  /\ \A c \in 1..host.sent : seen.purpose[c] = "tool" => Cleared(HookOf(c))
  /\ host.stage = "run" /\ host.purpose = "hook" => Cleared(host.sent)
  /\ Booted /\ ~host.hooked => Cleared(1)

(* A reply on its way to the cell that runs, or a request of it that will  *)
(* bring one, is one that it waits for.                                    *)
Coming(c) ==
  CountIn(control, Replies(c)) + CountIn(iopub, Awaits(c))
    + (IF host.stage = "handle" /\ host.awaited /\ host.drains = c THEN 1 ELSE 0)

AwaitedOnes ==
  /\ kernel.waits <= kernel.asked
  /\ IF kernel.cell = NoCell THEN kernel.waits = 0 ELSE Coming(kernel.cell) <= kernel.waits

KernelInv ==
  /\ KernelTypes /\ InTurn /\ Untouched /\ Returned /\ Heard /\ AtHand /\ Vetted
  /\ AwaitedOnes /\ seen.wrong = {}

-----------------------------------------------------------------------------
(* Counting in sequences.                                                  *)

Places(s, S) == {i \in 1..Len(s) : s[i] \in S}

LEMMA PlacesFinite ==
  ASSUME NEW T, NEW s \in Seq(T), NEW S
  PROVE  /\ IsFiniteSet(Places(s, S))
         /\ CountIn(s, S) = Cardinality(Places(s, S))
         /\ CountIn(s, S) \in Nat
<1>1. Len(s) \in Nat
  BY LenProperties
<1>2. IsFiniteSet(1..Len(s)) /\ Places(s, S) \in SUBSET (1..Len(s))
  BY <1>1, FS_Interval DEF Places
<1>3. IsFiniteSet(Places(s, S))
  BY <1>2, FS_Subset
<1>4. CountIn(s, S) = Cardinality(Places(s, S))
  BY DEF CountIn, Places
<1> QED BY <1>3, <1>4, FS_CardinalityType

(* Nothing is counted exactly where no member of the set is.               *)
LEMMA CountNone ==
  ASSUME NEW T, NEW s \in Seq(T), NEW S
  PROVE  CountIn(s, S) = 0 <=> \A i \in 1..Len(s) : s[i] \notin S
<1>1. Places(s, S) = {} <=> \A i \in 1..Len(s) : s[i] \notin S
  BY DEF Places
<1> QED BY <1>1, PlacesFinite, FS_EmptySet

(* Fewer members of the set, no larger a count.                            *)
LEMMA CountFewer ==
  ASSUME NEW T, NEW s \in Seq(T), NEW r \in Seq(T), NEW S, Len(r) = Len(s),
         \A i \in 1..Len(s) : r[i] \in S => s[i] \in S
  PROVE  CountIn(r, S) <= CountIn(s, S)
<1>1. Places(r, S) \in SUBSET Places(s, S)
  BY DEF Places
<1> QED BY <1>1, PlacesFinite, FS_Subset

(* Sequences that agree on the set up to where one ends, the other going   *)
(* on with none of its members.                                            *)
LEMMA CountLonger ==
  ASSUME NEW T, NEW s \in Seq(T), NEW r \in Seq(T), NEW S, Len(s) <= Len(r),
         \A i \in 1..Len(s) : r[i] = s[i],
         \A i \in 1..Len(r) : i > Len(s) => r[i] \notin S
  PROVE  CountIn(r, S) = CountIn(s, S)
<1>1. Places(r, S) = Places(s, S)
  BY LenProperties DEF Places
<1> QED BY <1>1, PlacesFinite

LEMMA CountAppend ==
  ASSUME NEW T, NEW s \in Seq(T), NEW e \in T, NEW S
  PROVE  CountIn(Append(s, e), S) = CountIn(s, S) + (IF e \in S THEN 1 ELSE 0)
<1> DEFINE r == Append(s, e)
<1>1. r \in Seq(T) /\ Len(r) = Len(s) + 1 /\ Len(s) \in Nat
      /\ r[Len(s) + 1] = e /\ \A i \in 1..Len(s) : r[i] = s[i]
  BY AppendProperties, LenProperties
<1> HIDE DEF r
<1>2. CASE e \in S
  <2>1. Places(r, S) = Places(s, S) \cup {Len(s) + 1} /\ Len(s) + 1 \notin Places(s, S)
    BY <1>1, <1>2 DEF Places
  <2>2. Cardinality(Places(r, S)) = Cardinality(Places(s, S)) + 1
    BY <2>1, PlacesFinite, FS_AddElement
  <2> QED BY <1>1, <1>2, <2>2, PlacesFinite DEF r
<1>3. CASE e \notin S
  <2>1. CountIn(r, S) = CountIn(s, S)
    BY <1>1, <1>3, CountLonger
  <2> QED BY <1>3, <2>1, PlacesFinite DEF r
<1> QED BY <1>2, <1>3

LEMMA TailFacts ==
  ASSUME NEW T, NEW s \in Seq(T), s # <<>>
  PROVE  /\ Tail(s) \in Seq(T) /\ Head(s) = s[1] /\ Head(s) \in T
         /\ Len(s) \in Nat /\ Len(s) >= 1 /\ Len(Tail(s)) = Len(s) - 1
         /\ \A i \in 1..Len(Tail(s)) : Tail(s)[i] = s[i + 1] /\ i + 1 \in 1..Len(s)
         /\ \A i \in 1..Len(s) : i # 1 => i - 1 \in 1..Len(Tail(s)) /\ s[i] = Tail(s)[i - 1]
OBVIOUS

LEMMA CountTail ==
  ASSUME NEW T, NEW s \in Seq(T), s # <<>>, NEW S
  PROVE  CountIn(s, S) = CountIn(Tail(s), S) + (IF Head(s) \in S THEN 1 ELSE 0)
<1> DEFINE r == Tail(s)
           J == Places(r, S)
           K == Places(s, S) \ {1}
           f == [i \in J |-> i + 1]
<1>1. /\ r \in Seq(T) /\ Head(s) = s[1] /\ Len(s) \in Nat /\ Len(s) >= 1 /\ Len(r) = Len(s) - 1
      /\ \A i \in 1..Len(r) : r[i] = s[i + 1] /\ i + 1 \in 1..Len(s)
      /\ \A i \in 1..Len(s) : i # 1 => i - 1 \in 1..Len(r) /\ s[i] = r[i - 1]
  BY TailFacts
<1> HIDE DEF r
<1>2. f \in [J -> K]
  BY <1>1 DEF Places
<1>3. \A i, j \in J : f[i] = f[j] => i = j
  BY <1>1 DEF Places
<1>4. \A k \in K : \E i \in J : f[i] = k
  <2> SUFFICES ASSUME NEW k \in K PROVE k - 1 \in J /\ f[k - 1] = k
    OBVIOUS
  <2> QED BY <1>1 DEF Places
<1>5. ExistsBijection(J, K)
  <2>1. DOMAIN f = J
    OBVIOUS
  <2> HIDE DEF f, J, K
  <2>2. f \in Bijection(J, K)
    BY <1>2, <1>3, <1>4, <2>1, Zenon DEF Bijection, Injection, Surjection, IsInjective
  <2> QED BY <2>2, Zenon DEF ExistsBijection
<1>6. Cardinality(K) = Cardinality(J)
  BY <1>1, <1>5, PlacesFinite, FS_Bijection
<1>7. Cardinality(K) = IF 1 \in Places(s, S) THEN CountIn(s, S) - 1 ELSE CountIn(s, S)
  BY ZenonT(30), PlacesFinite, FS_RemoveElement
<1>8. 1 \in Places(s, S) <=> Head(s) \in S
  BY <1>1 DEF Places
<1>9. CountIn(r, S) = Cardinality(J) /\ CountIn(s, S) \in Nat /\ CountIn(r, S) \in Nat
  BY <1>1, PlacesFinite
<1> QED BY <1>6, <1>7, <1>8, <1>9 DEF r

-----------------------------------------------------------------------------
(* What the worker's steps do, field by field.                             *)

Stages == {"start", "welcome", "ready", "run", "drain", "handle", "down"}

(* Nothing is read, and nothing of what was is kept.                       *)
AtRest(h) == h.out = 0 /\ h.mark = FALSE /\ h.result = "none" /\ h.awaited = FALSE

LEMMA ReturnsFields ==
  ASSUME host \in HostType, NEW stage \in Stages
  PROVE  /\ Returns(stage) \in HostType /\ Returns(stage).stage = stage
         /\ Returns(stage).purpose = host.purpose /\ Returns(stage).sent = host.sent
         /\ Returns(stage).drains = NoCell /\ Returns(stage).hooked = host.hooked
         /\ AtRest(Returns(stage))
<1> DEFINE h0 == [host EXCEPT !.stage = stage]
           h1 == [h0 EXCEPT !.drains = NoCell]
           h2 == [[h1 EXCEPT !.out = 0] EXCEPT !.mark = FALSE]
           h3 == [[h2 EXCEPT !.result = "none"] EXCEPT !.awaited = FALSE]
<1>0. /\ h0 \in HostType /\ h0.stage = stage /\ h0.purpose = host.purpose
      /\ h0.sent = host.sent /\ h0.hooked = host.hooked
  BY DEF HostType, Stages
<1>2. Returns(stage) = h3
  BY DEF Returns
<1> HIDE DEF h0
<1>1. /\ h1 \in HostType /\ h1.stage = stage /\ h1.purpose = host.purpose
      /\ h1.sent = host.sent /\ h1.drains = NoCell /\ h1.hooked = host.hooked
  BY <1>0, KernelAssumption DEF HostType, NoCell
<1> HIDE DEF h1
<1>3. /\ h2 \in HostType /\ h2.stage = stage /\ h2.purpose = host.purpose
      /\ h2.sent = host.sent /\ h2.drains = NoCell /\ h2.hooked = host.hooked
      /\ h2.out = 0 /\ h2.mark = FALSE
  BY <1>1 DEF HostType
<1> HIDE DEF h2
<1>4. /\ h3 \in HostType /\ h3.stage = stage /\ h3.purpose = host.purpose
      /\ h3.sent = host.sent /\ h3.drains = NoCell /\ h3.hooked = host.hooked
      /\ AtRest(h3)
  BY <1>3 DEF HostType, Results, AtRest
<1> QED BY <1>2, <1>4

(* What cells have done and were sent for stays.                           *)
SeenStays ==
  /\ seen' \in SeenType
  /\ seen'.printed = seen.printed /\ seen'.result = seen.result
  /\ seen'.asking = seen.asking /\ seen'.marked = seen.marked
  /\ seen'.purpose = seen.purpose /\ seen'.hookOf = seen.hookOf
  /\ seen.missed => seen'.missed

Cuts ==
  iopub # <<>> /\ iopub' = [iopub EXCEPT ![1].kind = "torn"]

Drops == iopub # <<>> /\ iopub' = Tail(iopub)

(* The worker takes the message before it, cuts it or leaves it.           *)
Reads1 ==
  /\ UNCHANGED <<kernel, shell>>
  /\ host'.sent = host.sent
  /\ SeenStays
  /\ \/ iopub' = iopub
     \/ Drops
     \/ Cuts

LEMMA CutFacts ==
  ASSUME iopub \in Seq(Messages), Cuts
  PROVE  /\ iopub' \in Seq(Messages) /\ Len(iopub') = Len(iopub) /\ Len(iopub) \in Nat
         /\ Len(iopub) >= 1
         /\ iopub'[1].cell = iopub[1].cell /\ iopub'[1].kind = "torn"
         /\ \A i \in 1..Len(iopub) : i # 1 => iopub'[i] = iopub[i]
<1>1. iopub[1] \in Messages /\ Len(iopub) \in Nat /\ Len(iopub) >= 1
  BY DEF Cuts
<1> DEFINE m == [iopub[1] EXCEPT !.kind = "torn"]
<1>2. m \in Messages /\ m.cell = iopub[1].cell /\ m.kind = "torn"
  BY <1>1 DEF Messages
<1>3. iopub' = [iopub EXCEPT ![1] = m]
  BY DEF Cuts
<1> HIDE DEF m
<1> QED BY <1>1, <1>2, <1>3

(* What is left on iopub was on it before.                                 *)
LEMMA ReadsLess ==
  ASSUME iopub \in Seq(Messages), Reads1
  PROVE  /\ iopub' \in Seq(Messages) /\ Len(iopub') \in Nat
         /\ iopub' # <<>> => iopub # <<>>
         /\ \E d \in {0, 1} : \A i \in 1..Len(iopub') :
              /\ i + d \in 1..Len(iopub) /\ iopub'[i].cell = iopub[i + d].cell
              /\ iopub'[i].kind # "torn" => iopub'[i] = iopub[i + d]
<1>1. CASE iopub' = iopub
  BY <1>1
<1>2. CASE Drops
  <2>1. \A i \in 1..Len(iopub') : i + 1 \in 1..Len(iopub) /\ iopub'[i] = iopub[i + 1]
    BY <1>2, TailFacts DEF Drops
  <2> QED BY <1>2, <2>1, TailFacts DEF Drops
<1>3. CASE Cuts
  <2>1. iopub # <<>>
    BY <1>3 DEF Cuts
  <2>2. \A i \in 1..Len(iopub') :
              /\ i + 0 \in 1..Len(iopub) /\ iopub'[i].cell = iopub[i + 0].cell
              /\ iopub'[i].kind # "torn" => iopub'[i] = iopub[i + 0]
    BY <1>3, CutFacts
  <2> QED BY <1>3, <2>1, <2>2, CutFacts
<1> QED BY <1>1, <1>2, <1>3 DEF Reads1

LEMMA ReadsFewer ==
  ASSUME iopub \in Seq(Messages), Reads1, NEW c \in Cells
  PROVE  /\ CountIn(iopub', Awaits(c)) <= CountIn(iopub, Awaits(c))
         /\ CountIn(iopub', Awaits(c)) \in Nat /\ CountIn(iopub, Awaits(c)) \in Nat
<1>1. iopub' \in Seq(Messages)
  BY ReadsLess
<1>2. CountIn(iopub', Awaits(c)) \in Nat /\ CountIn(iopub, Awaits(c)) \in Nat
  BY <1>1, PlacesFinite
<1>3. CASE iopub' = iopub
  BY <1>2, <1>3
<1>4. CASE Drops
  BY <1>2, <1>4, CountTail DEF Drops
<1>5. CASE Cuts
  <2>1. \A i \in 1..Len(iopub) : iopub'[i] \in Awaits(c) => iopub[i] \in Awaits(c)
    <3> TAKE i \in 1..Len(iopub)
    <3>1. CASE i = 1
      BY <1>5, <3>1, CutFacts DEF Awaits
    <3>2. CASE i # 1
      BY <1>5, <3>2, CutFacts
    <3> QED BY <3>1, <3>2
  <2> QED BY <1>1, <1>2, <1>5, <2>1, CutFacts, CountFewer
<1> QED BY <1>3, <1>4, <1>5 DEF Reads1

(* The order of the cells and of what comes back is not the reader's.      *)
LEMMA ReadsKeep ==
  ASSUME KernelTypes, InTurn, Untouched, Returned, Reads1,
         \A i \in 1..Len(control') : control'[i].cell \in seen.asking
  PROVE  InTurn' /\ Untouched' /\ Returned'
<1>1. InTurn'
  BY DEF InTurn, Reads1
<1>2. \A c : InShell(c)' <=> InShell(c)
  BY DEF Reads1, InShell
<1>3. Untouched'
  BY <1>2 DEF Untouched, Reads1, SeenStays
<1>4. PICK d \in {0, 1} : \A i \in 1..Len(iopub') :
              /\ i + d \in 1..Len(iopub) /\ iopub'[i].cell = iopub[i + d].cell
              /\ iopub'[i].kind # "torn" => iopub'[i] = iopub[i + d]
  BY ReadsLess DEF KernelTypes
<1>5. ASSUME NEW i \in 1..Len(iopub')
      PROVE  /\ iopub'[i].cell <= host'.sent
             /\ \A k \in 1..Len(shell') : shell'[k] # iopub'[i].cell
             /\ iopub'[i].kind = "idle" => kernel'.cell # iopub'[i].cell
             /\ iopub'[i].kind \in {"ask", "await"} => iopub'[i].cell \in seen'.asking
  <2>1. /\ i + d \in 1..Len(iopub) /\ iopub'[i].cell = iopub[i + d].cell
        /\ iopub'[i].kind # "torn" => iopub'[i] = iopub[i + d]
    BY <1>4
  <2>2. /\ iopub[i + d].cell <= host.sent /\ ~InShell(iopub[i + d].cell)
        /\ iopub[i + d].kind = "idle" => kernel.cell # iopub[i + d].cell
        /\ iopub[i + d].kind \in {"ask", "await"} => iopub[i + d].cell \in seen.asking
    BY <2>1 DEF Returned
  <2>3. iopub'[i].kind # "torn" => iopub'[i].kind = iopub[i + d].kind
    BY <2>1
  <2> QED BY <2>1, <2>2, <2>3 DEF Reads1, SeenStays, InShell
<1>6. ASSUME NEW i \in 1..Len(iopub'), NEW j \in 1..Len(iopub'), i < j, iopub'[i].kind = "idle"
      PROVE  iopub'[j].cell # iopub'[i].cell
  <2>1. /\ i + d \in 1..Len(iopub) /\ j + d \in 1..Len(iopub) /\ i + d < j + d
        /\ iopub'[i] = iopub[i + d] /\ iopub'[j].cell = iopub[j + d].cell
    <3>1. iopub'[i].kind # "torn"
      BY <1>6
    <3>2. /\ i + d \in 1..Len(iopub) /\ iopub'[i] = iopub[i + d]
      BY <1>4, <3>1
    <3>3. j + d \in 1..Len(iopub) /\ iopub'[j].cell = iopub[j + d].cell
      BY <1>4
    <3> QED BY <1>6, <3>2, <3>3
  <2>2. iopub[i + d].kind = "idle" /\ iopub'[i].cell = iopub[i + d].cell
    BY <1>6, <2>1
  <2> QED BY <2>1, <2>2 DEF Returned
<1>7. \A i \in 1..Len(control') : control'[i].cell \in seen'.asking
  BY DEF Reads1, SeenStays
<1> QED BY <1>1, <1>3, <1>5, <1>6, <1>7 DEF Returned, InShell

LEMMA ClearedStays ==
  ASSUME KernelTypes, Reads1, NEW h, Cleared(h)
  PROVE  Cleared(h)'
BY DEF Cleared, Reads1, SeenStays, InShell

LEMMA AwaitedLess ==
  ASSUME KernelInv, Reads1, control' = control, host'.stage # "handle"
  PROVE  AwaitedOnes'
<1> USE DEF KernelInv
<1>1. CASE kernel.cell = NoCell
  BY <1>1 DEF AwaitedOnes, Reads1
<1>2. CASE kernel.cell # NoCell
  <2>1. kernel.cell \in Cells
    BY <1>2 DEF KernelTypes, Cells, NoCell
  <2>2. /\ CountIn(iopub', Awaits(kernel.cell)) <= CountIn(iopub, Awaits(kernel.cell))
        /\ CountIn(iopub', Awaits(kernel.cell)) \in Nat
        /\ CountIn(iopub, Awaits(kernel.cell)) \in Nat
    BY <2>1, ReadsFewer DEF KernelTypes
  <2>3. CountIn(control, Replies(kernel.cell)) \in Nat
    BY PlacesFinite DEF KernelTypes
  <2>4. Coming(kernel.cell)' <= Coming(kernel.cell)
    BY <2>2, <2>3 DEF Coming, Reads1, Awaits, Replies
  <2>5. Coming(kernel.cell) \in Nat /\ Coming(kernel.cell)' \in Nat
    BY <2>2, <2>3 DEF Coming, Reads1, Awaits, Replies
  <2> QED BY <1>2, <2>4, <2>5 DEF AwaitedOnes, Reads1, KernelTypes
<1> QED BY <1>1, <1>2

(* The worker is done with a cell, one way or the other.                   *)
Leaves ==
  /\ Reads1 /\ control' = control
  /\ host' \in HostType /\ AtRest(host')
  /\ host'.purpose = host.purpose
  /\ host'.stage \in {"run", "ready", "down"}
  /\ pending' \in [cell : 0..MaxCells, result : Results]
  /\ seen'.wrong = {}
  /\ host'.stage = "run" => host.purpose = "hook" /\ Cleared(host.sent)
  /\ Booted' => kernel.heard /\ host.sent >= 1
  /\ Booted' /\ ~host'.hooked => Cleared(1)
  /\ kernel.heard \/ seen'.missed

LEMMA LeavesKeeps ==
  ASSUME KernelInv, Leaves
  PROVE  KernelInv'
<1> USE DEF KernelInv
<1>1. KernelTypes'
  BY ReadsLess DEF Leaves, KernelTypes, Reads1, SeenStays
<1>2. InTurn' /\ Untouched' /\ Returned'
  BY ReadsKeep DEF Leaves, Returned
<1>3. Heard'
  BY ReadsLess DEF Leaves, Heard, KernelTypes, Reads1, SeenStays, Booted
<1>4. AtHand'
  BY DEF AtHand, Leaves, AtRest, Reading
<1>5. Vetted'
  <2>1. \A c \in 1..host'.sent : seen'.purpose[c] = "tool" => Cleared(HookOf(c))'
    <3> SUFFICES ASSUME NEW c \in 1..host'.sent, seen'.purpose[c] = "tool"
                 PROVE  Cleared(HookOf(c))'
      OBVIOUS
    <3>1. HookOf(c)' = HookOf(c) /\ Cleared(HookOf(c))
      BY DEF Leaves, Vetted, Reads1, SeenStays, HookOf
    <3>2. PICK h : h = HookOf(c)
      OBVIOUS
    <3>3. Cleared(h)'
      BY <3>1, <3>2, ClearedStays DEF Leaves, KernelTypes
    <3> QED BY <3>1, <3>2, <3>3
  <2>2. ASSUME host'.stage = "run", host'.purpose = "hook"
        PROVE  Cleared(host.sent)'
    <3>1. PICK h : h = host.sent
      OBVIOUS
    <3>2. Cleared(h)'
      BY <2>2, <3>1, ClearedStays DEF Leaves
    <3> QED BY <3>1, <3>2 DEF Leaves, Reads1
  <2>3. Booted' /\ ~host'.hooked => Cleared(1)'
    BY ClearedStays DEF Leaves
  <2> QED BY <2>1, <2>2, <2>3 DEF Vetted, Leaves, Reads1
<1>6. AwaitedOnes'
  BY AwaitedLess DEF Leaves
<1> QED BY <1>1, <1>2, <1>3, <1>4, <1>5, <1>6 DEF Leaves

-----------------------------------------------------------------------------
(* The worker gives up on a cell, or has it whole.                         *)

LEMMA HostIs ==
  ASSUME KernelInv
  PROVE  /\ host \in HostType /\ host.sent \in 0..MaxCells /\ host.stage \in Stages
         /\ host.purpose \in Purposes /\ MaxCells \in Nat
         /\ seen \in SeenType /\ seen.wrong = {}
BY KernelAssumption DEF KernelInv, KernelTypes, HostType, Stages

(* The cells sent and not yet begun are numbered from 1.                    *)
LEMMA ShellCells ==
  ASSUME MaxCells \in Nat, shell \in Seq(Cells)
  PROVE  \A i \in 1..Len(shell) : shell[i] \in Nat /\ shell[i] > 0
<1> SUFFICES ASSUME NEW i \in 1..Len(shell)
             PROVE  shell[i] \in Nat /\ shell[i] > 0
  OBVIOUS
<1>1. shell[i] \in Cells
  OBVIOUS
<1> QED BY <1>1 DEF Cells

LEMMA GivesUpLeaves ==
  ASSUME KernelInv, Reading, GivesUp, Reads1, UNCHANGED <<pending, control>>, seen'.wrong = {}
  PROVE  Leaves
<1> DEFINE stage == IF host.purpose = "boot" THEN "down" ELSE "ready"
<1>1. stage \in Stages /\ host' = Returns(stage) /\ host \in HostType
  BY HostIs DEF GivesUp, Stages
<1> HIDE DEF stage
<1>2. /\ host' \in HostType /\ host'.stage = stage /\ host'.purpose = host.purpose
      /\ host'.sent = host.sent /\ host'.hooked = host.hooked /\ AtRest(host')
  BY <1>1, ReturnsFields
<1>3. /\ host'.stage \in {"ready", "down"}
      /\ Booted' => host.purpose # "boot"
  BY <1>2 DEF Booted, stage
<1>4. kernel.heard \/ seen'.missed
  BY DEF KernelInv, Heard, Reading, Reads1, SeenStays
<1>5. /\ Booted' => kernel.heard /\ host.sent >= 1
      /\ Booted' /\ ~host'.hooked => Cleared(1)
  BY <1>2, <1>3 DEF KernelInv, Heard, Vetted, Booted
<1> QED BY <1>2, <1>3, <1>4, <1>5 DEF Leaves, KernelInv, KernelTypes

LEMMA AbandonsStays ==
  ASSUME KernelInv, Reading, Abandons
  PROVE  SeenStays /\ seen'.wrong = {}
<1>1. host.sent \in Cells
  BY DEF KernelInv, AtHand, MakesUp
<1> QED BY <1>1, HostIs DEF Abandons, SeenStays, SeenType

LEMMA GarbageKeeps ==
  ASSUME KernelInv, Garbage
  PROVE  KernelInv'
<1>1. Reading
  BY DEF Garbage, Reading
<1>2. Reads1 /\ seen'.wrong = {}
  <2>1. host'.sent = host.sent
    BY HostIs, ReturnsFields DEF Garbage, GivesUp, Stages
  <2> QED BY <1>1, <2>1, AbandonsStays DEF Garbage, Reads1, Drops
<1> QED BY <1>1, <1>2, GivesUpLeaves, LeavesKeeps DEF Garbage

LEMMA TimeoutKeeps ==
  ASSUME KernelInv, Timeout
  PROVE  KernelInv'
<1>1. Reading
  BY DEF Timeout, Reading
<1>2. Reads1 /\ seen'.wrong = {}
  <2>1. host'.sent = host.sent
    BY HostIs, ReturnsFields DEF Timeout, GivesUp, Stages
  <2>2. SeenStays /\ seen'.wrong = {}
    BY <1>1, AbandonsStays, HostIs DEF Timeout, SeenStays
  <2> QED BY <2>1, <2>2 DEF Timeout, Reads1, Cuts
<1> QED BY <1>1, <1>2, GivesUpLeaves, LeavesKeeps DEF Timeout

LEMMA HandleFailsKeeps ==
  ASSUME KernelInv, HandleFails
  PROVE  KernelInv'
<1>1. Reading
  BY DEF HandleFails, Reading
<1>2. Reads1 /\ seen'.wrong = {}
  <2>1. host'.sent = host.sent
    BY HostIs, ReturnsFields DEF HandleFails, GivesUp, Stages
  <2> QED BY <1>1, <2>1, AbandonsStays DEF HandleFails, Reads1
<1> QED BY <1>1, <1>2, GivesUpLeaves, LeavesKeeps DEF HandleFails

LEMMA BrokenKeeps ==
  ASSUME KernelInv, Broken
  PROVE  KernelInv'
<1>1. SeenStays /\ seen'.wrong = {}
  <2> DEFINE more == {host.sent} \ {NoCell}
  <2>1. more \subseteq Cells
    BY HostIs DEF Cells, NoCell
  <2>2. seen' = [seen EXCEPT !.failed = seen.failed \cup more]
    BY DEF Broken
  <2> HIDE DEF more
  <2> QED BY <2>1, <2>2, HostIs DEF SeenStays, SeenType
<1>2. CASE Reading
  <2>1. GivesUp
    BY <1>2 DEF Broken, Reading
  <2>2. host'.sent = host.sent
    BY <2>1, HostIs, ReturnsFields DEF GivesUp, Stages
  <2> QED BY <1>1, <1>2, <2>1, <2>2, GivesUpLeaves, LeavesKeeps DEF Broken, Reads1
<1>3. CASE ~Reading
  <2>1. /\ host.stage = "run"
        /\ host' = [host EXCEPT !.stage = IF host.purpose = "boot" THEN "down" ELSE "ready"]
    BY <1>3 DEF Broken, Reading
  <2>2. /\ host' \in HostType /\ host'.purpose = host.purpose /\ host'.sent = host.sent
        /\ host'.hooked = host.hooked /\ host'.out = host.out /\ host'.mark = host.mark
        /\ host'.result = host.result /\ host'.awaited = host.awaited
        /\ host'.stage = IF host.purpose = "boot" THEN "down" ELSE "ready"
    BY <2>1, HostIs DEF HostType
  <2>3. AtRest(host')
    BY <1>3, <2>2, HostIs DEF KernelInv, AtHand, AtRest, HostType
  <2>4. /\ Booted' => host.purpose # "boot"
        /\ host'.stage \in {"ready", "down"}
    BY <2>2 DEF Booted
  <2>5. /\ Booted' => kernel.heard /\ host.sent >= 1
        /\ Booted' /\ ~host'.hooked => Cleared(1)
        /\ kernel.heard \/ seen'.missed
    BY <1>1, <2>1, <2>2, <2>4 DEF KernelInv, Heard, Vetted, Booted, SeenStays
  <2>6. Leaves
    BY <1>1, <2>2, <2>3, <2>4, <2>5 DEF Leaves, Broken, Reads1, KernelInv, KernelTypes
  <2> QED BY <2>6, LeavesKeeps
<1> QED BY <1>2, <1>3

(* No message of the cell is left behind its idle.                         *)
LEMMA IdleIsLast ==
  ASSUME KernelInv, iopub # <<>>, Head(iopub).kind = "idle"
  PROVE  /\ \A i \in 1..Len(iopub) : iopub[i].cell = Head(iopub).cell => i = 1
         /\ Head(iopub).cell <= host.sent /\ kernel.cell # Head(iopub).cell
         /\ ~InShell(Head(iopub).cell)
<1>1. /\ iopub \in Seq(Messages) /\ Head(iopub) = iopub[1]
      /\ Len(iopub) \in Nat /\ 1 \in 1..Len(iopub)
  BY TailFacts DEF KernelInv, KernelTypes
<1>2. iopub[1].kind = "idle"
  BY <1>1
<1>3. \A i \in 1..Len(iopub) : iopub[i].cell = iopub[1].cell => i = 1
  <2> SUFFICES ASSUME NEW i \in 1..Len(iopub), i # 1 PROVE iopub[i].cell # iopub[1].cell
    OBVIOUS
  <2>1. 1 < i
    BY <1>1
  <2> QED BY <1>1, <1>2, <2>1 DEF KernelInv, Returned
<1> QED BY <1>1, <1>2, <1>3 DEF KernelInv, Returned

(* At its idle all of a cell has been read.                                *)
LEMMA IdleIsWhole ==
  ASSUME KernelInv, host.stage = "drain", iopub # <<>>, Idle
  PROVE  /\ host.out = seen.printed[host.sent]
         /\ host.purpose = "tool" => host.result = seen.result[host.sent]
         /\ ~host.mark /\ host.purpose # "tool" => Cleared(host.sent)
<1> DEFINE c == host.sent
<1>1. /\ iopub \in Seq(Messages) /\ Head(iopub) = iopub[1]
      /\ Len(iopub) \in Nat /\ 1 \in 1..Len(iopub)
  BY TailFacts DEF KernelInv, KernelTypes
<1>2. MakesUp
  BY DEF KernelInv, AtHand, Reading
<1>3. iopub[1].kind = "idle" /\ iopub[1].cell = c
  BY <1>1, <1>2 DEF Idle, OwnParent, MakesUp
<1>4. \A i \in 1..Len(iopub) : iopub[i].cell = c => iopub[i].kind = "idle"
  BY <1>1, <1>3, IdleIsLast
<1>5. CountIn(iopub, Streams(c)) = 0
  <2>1. \A i \in 1..Len(iopub) : iopub[i] \notin Streams(c)
    BY <1>4 DEF Streams
  <2> QED BY <1>1, <2>1, CountNone
<1>6. host.out = seen.printed[c]
  BY <1>2, <1>5 DEF MakesUp, KernelInv, KernelTypes, HostType
<1>7. host.purpose = "tool" => host.result = seen.result[c]
  BY <1>2, <1>4 DEF MakesUp
<1>8. ASSUME ~host.mark, host.purpose # "tool"
      PROVE  Cleared(c)
  <2>1. \A i \in 1..Len(iopub) : iopub[i] # [kind |-> "mark", cell |-> c]
    BY <1>4
  <2>2. seen.missed \/ c \notin seen.marked \/ c \in seen.asking
    BY <1>2, <1>8, <2>1 DEF MakesUp
  <2> QED BY <1>1, <1>3, <2>2, IdleIsLast DEF Cleared
<1> QED BY <1>6, <1>7, <1>8

LEMMA CompleteLeaves ==
  ASSUME KernelInv, host.stage = "drain", Complete(host.out, host.result),
         Drops, UNCHANGED <<kernel, shell, control>>,
         pending' \in [cell : 0..MaxCells, result : Results],
         host.purpose = "tool" => /\ host.out = seen.printed[host.sent]
                                  /\ host.result = seen.result[host.sent],
         ~host.mark /\ host.purpose # "tool" => Cleared(host.sent)
  PROVE  Leaves
<1> DEFINE stage == IF host.purpose = "hook" /\ ~host.mark THEN "run" ELSE "ready"
           hooked == IF host.purpose = "boot" THEN host.mark ELSE host.hooked
<1>0. stage \in Stages /\ hooked \in BOOLEAN
  BY HostIs DEF HostType, Stages
<1>1. /\ Returns(stage) \in HostType /\ Returns(stage).stage = stage
      /\ Returns(stage).purpose = host.purpose /\ Returns(stage).sent = host.sent
      /\ Returns(stage).hooked = host.hooked /\ AtRest(Returns(stage))
  BY <1>0, HostIs, ReturnsFields
<1>2. host' = [Returns(stage) EXCEPT !.hooked = hooked]
  BY <1>1 DEF Complete
<1> HIDE DEF stage, hooked
<1>3. /\ host' \in HostType /\ host'.stage = stage /\ host'.purpose = host.purpose
      /\ host'.sent = host.sent /\ host'.hooked = hooked /\ AtRest(host')
  BY <1>0, <1>1, <1>2 DEF HostType, AtRest
<1>4. SeenStays /\ seen'.wrong = {}
  <2>1. seen' = [seen EXCEPT !.wrong = {}]
    BY HostIs DEF Complete
  <2> QED BY <2>1, HostIs DEF SeenStays, SeenType
<1>5. MakesUp /\ kernel.heard
  BY DEF KernelInv, AtHand, Reading, Heard, Drops
<1>6. host.purpose = "boot" => host.sent = 1
  BY DEF KernelInv, Heard
<1>7. host'.stage = "run" => host.purpose = "hook" /\ Cleared(host.sent)
  BY <1>3 DEF stage
<1>8. host.sent >= 1
  BY <1>5 DEF MakesUp, Cells
<1>9. ASSUME Booted', ~host'.hooked
      PROVE  Cleared(1)
  <2>1. CASE host.purpose = "boot"
    BY <1>3, <1>6, <1>9, <2>1 DEF hooked
  <2>2. CASE host.purpose # "boot"
    BY <1>3, <1>9, <2>2 DEF hooked, KernelInv, Vetted, Booted
  <2> QED BY <2>1, <2>2
<1>10. host'.stage \in {"run", "ready", "down"}
  BY <1>3 DEF stage
<1> QED BY <1>3, <1>4, <1>5, <1>7, <1>8, <1>9, <1>10 DEF Leaves, Reads1

LEMMA IdleKeeps ==
  ASSUME KernelInv, Receive, Idle
  PROVE  KernelInv'
BY IdleIsWhole, CompleteLeaves, LeavesKeeps
   DEF Receive, Idle, Drops, KernelInv, KernelTypes

LEMMA UnansweredKeeps ==
  ASSUME KernelInv, Receive, Request, host.purpose # "tool"
  PROVE  KernelInv'
<1>1. MakesUp
  BY DEF KernelInv, AtHand, Reading, Receive
<1>2. host.sent \in seen.asking
  <2>1. Head(iopub) = iopub[1] /\ 1 \in 1..Len(iopub)
    BY TailFacts DEF Receive, KernelInv, KernelTypes
  <2>2. iopub[1].kind \in {"ask", "await"} /\ iopub[1].cell = host.sent
    BY <1>1, <2>1 DEF Request, OwnParent, MakesUp
  <2> QED BY <2>1, <2>2 DEF KernelInv, Returned
<1>3. Cleared(host.sent)
  BY <1>2 DEF Cleared
<1>4. pending' \in [cell : 0..MaxCells, result : Results]
  <2>1. host.drains \in 0..MaxCells /\ host.result \in Results
    BY HostIs DEF HostType
  <2> QED BY <2>1 DEF Request
<1>5. Complete(host.out, host.result)
  BY DEF Request
<1> QED BY <1>3, <1>4, <1>5, CompleteLeaves, LeavesKeeps DEF Receive, Drops

-----------------------------------------------------------------------------
(* The worker reads on.                                                    *)

Continues ==
  /\ Reading /\ Reading'
  /\ Reads1 /\ seen' = seen
  /\ host' \in HostType
  /\ host'.purpose = host.purpose /\ host'.drains = host.drains /\ host'.hooked = host.hooked
  /\ pending' \in [cell : 0..MaxCells, result : Results]
  /\ control' \in Seq([cell : Cells, awaited : BOOLEAN])
  /\ \A i \in 1..Len(control') : control'[i].cell \in seen.asking

LEMMA ContinuesKeeps ==
  ASSUME KernelInv, Continues, MakesUp', AwaitedOnes'
  PROVE  KernelInv'
<1> USE DEF KernelInv
<1>1. KernelTypes'
  BY ReadsLess DEF Continues, KernelTypes, Reads1
<1>2. InTurn' /\ Untouched' /\ Returned'
  BY ReadsKeep DEF Continues
<1>3. Heard'
  <2>1. iopub' # <<>> => kernel'.heard
    BY ReadsLess DEF Continues, Heard, KernelTypes, Reads1
  <2>2. Booted' => Booted
    BY DEF Continues, Reading, Booted
  <2> QED BY <2>1, <2>2 DEF Continues, Heard, Reads1, Reading
<1>4. AtHand'
  BY DEF AtHand, Continues
<1>5. Vetted'
  <2>1. \A c \in 1..host'.sent : seen'.purpose[c] = "tool" => Cleared(HookOf(c))'
    BY DEF Continues, Vetted, Reads1, HookOf, Cleared, InShell
  <2>2. host'.stage # "run"
    BY DEF Continues, Reading
  <2>3. Booted' /\ ~host'.hooked => Cleared(1)'
    BY DEF Continues, Vetted, Reads1, Reading, Booted, Cleared, InShell
  <2> QED BY <2>1, <2>2, <2>3 DEF Vetted
<1>6. seen'.wrong = {}
  BY DEF Continues
<1> QED BY <1>1, <1>2, <1>3, <1>4, <1>5, <1>6

LEMMA SkipKeeps ==
  ASSUME KernelInv, Receive, Skip
  PROVE  KernelInv'
<1> DEFINE c == host.sent
<1>1. MakesUp
  BY DEF KernelInv, AtHand, Reading, Receive
<1>2. /\ iopub \in Seq(Messages) /\ iopub # <<>> /\ iopub' = Tail(iopub)
      /\ Head(iopub) = iopub[1] /\ Head(iopub).cell # c
      /\ UNCHANGED <<host, pending, kernel, shell, control, seen>>
  BY <1>1, TailFacts DEF KernelInv, KernelTypes, Receive, Skip, OwnParent, MakesUp
<1>3. Continues
  BY <1>2 DEF Continues, Reading, Receive, Reads1, Drops, SeenStays, KernelInv, KernelTypes,
              Returned
<1>4. CountIn(iopub', Streams(c)) = CountIn(iopub, Streams(c))
  <2>1. Head(iopub) \notin Streams(c)
    BY <1>2 DEF Streams
  <2>2. CountIn(iopub', Streams(c)) \in Nat
    BY <1>2, TailFacts, PlacesFinite
  <2> QED BY <1>2, <2>1, <2>2, CountTail
<1>5. MakesUp'
  <2>1. \A i \in 1..Len(iopub') : i + 1 \in 1..Len(iopub) /\ iopub'[i] = iopub[i + 1]
    BY <1>2, TailFacts
  <2>2. \A i \in 1..Len(iopub) : iopub[i].cell = c =>
          i - 1 \in 1..Len(iopub') /\ iopub[i] = iopub'[i - 1]
    BY <1>2, TailFacts
  <2>3. host'.result = "none" /\ seen'.result[c] # "none" /\ host'.purpose = "tool" =>
           \E i \in 1..Len(iopub') : /\ iopub'[i].cell = c
                                     /\ iopub'[i].kind \in {"result", "error"}
    BY <1>1, <1>2, <2>2 DEF MakesUp
  <2>4. host'.purpose # "tool" /\ ~seen'.missed /\ c \in seen'.marked /\ c \notin seen'.asking =>
           host'.mark \/ \E i \in 1..Len(iopub') : iopub'[i] = [kind |-> "mark", cell |-> c]
    <3>1. \A i \in 1..Len(iopub) : iopub[i] = [kind |-> "mark", cell |-> c] => iopub[i].cell = c
      OBVIOUS
    <3>2. \A i \in 1..Len(iopub) : iopub[i] = [kind |-> "mark", cell |-> c] =>
            i - 1 \in 1..Len(iopub') /\ iopub'[i - 1] = [kind |-> "mark", cell |-> c]
      BY <2>2, <3>1
    <3> QED BY <1>1, <1>2, <3>2 DEF MakesUp
  <2>5. \A i \in 1..Len(iopub') : iopub'[i].cell = c =>
          /\ iopub'[i].kind # "torn"
          /\ host.purpose = "tool" /\ iopub'[i].kind \in {"result", "error"} =>
               iopub'[i].kind = seen.result[c]
    BY <1>1, <2>1 DEF MakesUp
  <2> QED BY <1>1, <1>2, <1>4, <2>3, <2>4, <2>5 DEF MakesUp
<1>6. AwaitedOnes'
  BY <1>2, <1>3, AwaitedLess DEF Continues, Receive
<1> QED BY <1>3, <1>5, <1>6, ContinuesKeeps

LEMMA OutputKeeps ==
  ASSUME KernelInv, Receive, Output
  PROVE  KernelInv'
<1> DEFINE c == host.sent
           m == Head(iopub)
<1>1. MakesUp
  BY DEF KernelInv, AtHand, Reading, Receive
<1>2. /\ iopub \in Seq(Messages) /\ iopub # <<>> /\ iopub' = Tail(iopub)
      /\ m = iopub[1] /\ 1 \in 1..Len(iopub) /\ m \in Messages /\ m.cell = c
      /\ UNCHANGED <<pending, kernel, shell, control, seen>>
  BY <1>1, TailFacts DEF KernelInv, KernelTypes, Receive, Output, OwnParent, MakesUp
<1>3. m.kind \in {"stream", "mark", "result", "error"}
  BY DEF Output
<1>4. /\ host' \in HostType /\ host'.stage = "drain"
      /\ host'.purpose = host.purpose /\ host'.sent = c /\ host'.drains = host.drains
      /\ host'.hooked = host.hooked /\ host'.awaited = host.awaited
      /\ host'.out = IF m.kind = "stream" THEN host.out + 1 ELSE host.out
      /\ host'.mark = (host.mark \/ m.kind = "mark")
      /\ host'.result = IF m.kind \in {"result", "error"} THEN m.kind ELSE host.result
  <2>1. host \in HostType /\ host.stage = "drain"
    BY HostIs DEF Receive
  <2>2. CASE m.kind = "stream"
    <3>1. host' = [host EXCEPT !.out = host.out + 1]
      BY <2>2 DEF Output
    <3> QED BY <2>1, <2>2, <3>1 DEF HostType
  <2>3. CASE m.kind = "mark"
    <3>1. host' = [host EXCEPT !.mark = TRUE]
      BY <2>3 DEF Output
    <3> QED BY <2>1, <2>3, <3>1 DEF HostType
  <2>4. CASE m.kind \in {"result", "error"}
    <3>1. host' = [host EXCEPT !.result = m.kind]
      BY <2>4 DEF Output
    <3> QED BY <2>1, <2>4, <3>1 DEF HostType, Results
  <2> QED BY <1>3, <2>2, <2>3, <2>4
<1> HIDE DEF m
<1>5. Continues
  BY <1>2, <1>4 DEF Continues, Reading, Receive, Reads1, Drops, SeenStays, KernelInv,
              KernelTypes, Returned
<1>6. host'.out + CountIn(iopub', Streams(c)) = seen.printed[c]
  <2>1. m \in Streams(c) <=> m.kind = "stream"
    BY <1>2 DEF Streams, Messages
  <2>2. CountIn(iopub', Streams(c)) \in Nat
    BY <1>2, TailFacts, PlacesFinite
  <2>3. CountIn(iopub, Streams(c))
          = CountIn(iopub', Streams(c)) + (IF m \in Streams(c) THEN 1 ELSE 0)
    BY <1>2, CountTail DEF m
  <2>4. host.out + CountIn(iopub, Streams(c)) = seen.printed[c] /\ host.out \in Nat
    BY <1>1, HostIs DEF MakesUp, HostType
  <2> QED BY <1>4, <2>1, <2>2, <2>3, <2>4
<1>7. MakesUp'
  <2>1. \A i \in 1..Len(iopub') : i + 1 \in 1..Len(iopub) /\ iopub'[i] = iopub[i + 1]
    BY <1>2, TailFacts
  <2>2. \A i \in 1..Len(iopub) : i # 1 => i - 1 \in 1..Len(iopub') /\ iopub[i] = iopub'[i - 1]
    BY <1>2, TailFacts
  <2>3. ASSUME host'.result = "none", seen.result[c] # "none", host.purpose = "tool"
        PROVE  \E i \in 1..Len(iopub') : /\ iopub'[i].cell = c
                                         /\ iopub'[i].kind \in {"result", "error"}
    <3>1. host.result = "none" /\ m.kind \notin {"result", "error"}
      BY <1>4, <2>3
    <3>2. PICK i \in 1..Len(iopub) : iopub[i].cell = c /\ iopub[i].kind \in {"result", "error"}
      BY <1>1, <2>3, <3>1 DEF MakesUp
    <3>3. i # 1
      BY <1>2, <3>1, <3>2
    <3> QED BY <2>2, <3>2, <3>3
  <2>4. ASSUME host.purpose # "tool", ~seen.missed, c \in seen.marked, c \notin seen.asking,
               ~host'.mark
        PROVE  \E i \in 1..Len(iopub') : iopub'[i] = [kind |-> "mark", cell |-> c]
    <3>1. ~host.mark /\ m.kind # "mark"
      BY <1>4, <2>4
    <3>2. PICK i \in 1..Len(iopub) : iopub[i] = [kind |-> "mark", cell |-> c]
      BY <1>1, <2>4, <3>1 DEF MakesUp
    <3>3. i # 1
      BY <1>2, <3>1, <3>2
    <3> QED BY <2>2, <3>2, <3>3
  <2>5. \A i \in 1..Len(iopub) : iopub[i].cell = c =>
          /\ iopub[i].kind # "torn"
          /\ host.purpose = "tool" /\ iopub[i].kind \in {"result", "error"} =>
               iopub[i].kind = seen.result[c]
    BY <1>1 DEF MakesUp
  <2>6. \A i \in 1..Len(iopub') : iopub'[i].cell = c =>
          /\ iopub'[i].kind # "torn"
          /\ host.purpose = "tool" /\ iopub'[i].kind \in {"result", "error"} =>
               iopub'[i].kind = seen.result[c]
    BY <2>1, <2>5
  <2>7. host.purpose = "tool" => host'.result \in {"none", seen.result[c]}
    BY <1>1, <1>2, <1>4, <2>5 DEF MakesUp
  <2> QED BY <1>1, <1>2, <1>4, <1>6, <2>3, <2>4, <2>6, <2>7 DEF MakesUp
<1>8. AwaitedOnes'
  BY <1>2, <1>4, <1>5, AwaitedLess DEF Continues
<1> QED BY <1>5, <1>7, <1>8, ContinuesKeeps

(* The worker reads a host request of a tool call, and the cell waits.     *)
LEMMA RequestKeeps ==
  ASSUME KernelInv, Receive, Request, host.purpose = "tool"
  PROVE  KernelInv'
<1> DEFINE c == host.sent
           m == Head(iopub)
<1>1. MakesUp /\ host.stage = "drain"
  BY DEF KernelInv, AtHand, Reading, Receive
<1>2. /\ iopub \in Seq(Messages) /\ iopub # <<>> /\ iopub' = Tail(iopub)
      /\ m = iopub[1] /\ 1 \in 1..Len(iopub) /\ m \in Messages /\ m.cell = c
      /\ UNCHANGED <<kernel, shell, control, seen>>
  BY <1>1, TailFacts DEF KernelInv, KernelTypes, Receive, Request, OwnParent, MakesUp
<1>3. m.kind \in {"ask", "await"}
  BY DEF Request
<1>4. /\ host' \in HostType /\ host'.stage = "handle"
      /\ host'.purpose = host.purpose /\ host'.sent = c /\ host'.drains = host.drains
      /\ host'.hooked = host.hooked /\ host'.awaited = (m.kind = "await")
      /\ host'.out = host.out /\ host'.mark = host.mark /\ host'.result = host.result
  <2> DEFINE awaited == m.kind = "await"
             h1 == [host EXCEPT !.stage = "handle"]
  <2>1. host' = [h1 EXCEPT !.awaited = awaited] /\ awaited \in BOOLEAN
    BY DEF Request
  <2> HIDE DEF awaited
  <2> QED BY <2>1, HostIs DEF HostType, awaited
<1>5. /\ pending' = [cell |-> c, result |-> host.result]
      /\ pending' \in [cell : 0..MaxCells, result : Results]
  BY <1>1, HostIs DEF Request, MakesUp, HostType
<1> HIDE DEF m
<1>6. Continues
  BY <1>2, <1>4, <1>5 DEF Continues, Reading, Receive, Reads1, Drops, SeenStays, KernelInv,
              KernelTypes, Returned
<1>7. CountIn(iopub', Streams(c)) = CountIn(iopub, Streams(c))
  <2>1. m \notin Streams(c)
    BY <1>3 DEF Streams
  <2>2. CountIn(iopub', Streams(c)) \in Nat
    BY <1>2, TailFacts, PlacesFinite
  <2> QED BY <1>2, <2>1, <2>2, CountTail DEF m
<1>8. MakesUp'
  <2>1. \A i \in 1..Len(iopub') : i + 1 \in 1..Len(iopub) /\ iopub'[i] = iopub[i + 1]
    BY <1>2, TailFacts
  <2>2. \A i \in 1..Len(iopub) : i # 1 => i - 1 \in 1..Len(iopub') /\ iopub[i] = iopub'[i - 1]
    BY <1>2, TailFacts
  <2>3. ASSUME host'.result = "none", seen.result[c] # "none"
        PROVE  \E i \in 1..Len(iopub') : /\ iopub'[i].cell = c
                                         /\ iopub'[i].kind \in {"result", "error"}
    <3>1. PICK i \in 1..Len(iopub) : iopub[i].cell = c /\ iopub[i].kind \in {"result", "error"}
      BY <1>1, <1>4, <2>3 DEF MakesUp
    <3>2. i # 1
      BY <1>2, <1>3, <3>1
    <3> QED BY <2>2, <3>1, <3>2
  <2>4. \A i \in 1..Len(iopub') : iopub'[i].cell = c =>
          /\ iopub'[i].kind # "torn"
          /\ iopub'[i].kind \in {"result", "error"} => iopub'[i].kind = seen.result[c]
    BY <1>1, <2>1 DEF MakesUp
  <2>5. c \in seen.asking
    BY <1>2, <1>3 DEF KernelInv, Returned
  <2> QED BY <1>1, <1>2, <1>4, <1>5, <1>7, <2>3, <2>4, <2>5 DEF MakesUp
<1>9. AwaitedOnes'
  <2>1. CASE kernel.cell = NoCell
    BY <1>2, <2>1 DEF AwaitedOnes, KernelInv
  <2>2. CASE kernel.cell # NoCell
    <3> DEFINE k == kernel.cell
    <3>1. /\ CountIn(iopub', Awaits(k)) \in Nat /\ CountIn(control, Replies(k)) \in Nat
      BY <1>2, TailFacts, PlacesFinite DEF KernelInv, KernelTypes
    <3>2. CountIn(iopub, Awaits(k))
            = CountIn(iopub', Awaits(k)) + (IF m \in Awaits(k) THEN 1 ELSE 0)
      BY <1>2, CountTail DEF m
    <3>3. m \in Awaits(k) <=> host'.awaited /\ host'.drains = k
      <4>1. m \in Awaits(k) <=> m.kind = "await" /\ m.cell = k
        BY <1>2 DEF Awaits, Messages
      <4>2. host'.drains = m.cell
        BY <1>1, <1>2, <1>4 DEF MakesUp
      <4> QED BY <1>4, <4>1, <4>2
    <3>4. Coming(k)' = Coming(k)
      BY <1>1, <1>2, <1>4, <3>1, <3>2, <3>3 DEF Coming, Awaits, Replies
    <3> QED BY <1>2, <2>2, <3>4 DEF AwaitedOnes, KernelInv
  <2> QED BY <2>1, <2>2
<1> QED BY <1>6, <1>8, <1>9, ContinuesKeeps

LEMMA ReceiveKeeps ==
  ASSUME KernelInv, Receive
  PROVE  KernelInv'
<1>1. Skip \/ Output \/ Request \/ Idle
  BY DEF Receive
<1> QED BY <1>1, SkipKeeps, OutputKeeps, RequestKeeps, UnansweredKeeps, IdleKeeps

LEMMA HandleKeeps ==
  ASSUME KernelInv, Handle
  PROVE  KernelInv'
<1> DEFINE c == host.sent
           reply == [cell |-> host.drains, awaited |-> host.awaited]
<1>1. MakesUp /\ host.stage = "handle"
  BY DEF KernelInv, AtHand, Reading, Handle
<1>2. /\ reply \in [cell : Cells, awaited : BOOLEAN] /\ reply.cell = c
      /\ reply.awaited = host.awaited /\ control' = Append(control, reply)
      /\ UNCHANGED <<kernel, shell, iopub, seen>>
  BY <1>1, HostIs DEF Handle, MakesUp, HostType
<1>3. /\ host' \in HostType /\ host'.stage = "drain"
      /\ host'.purpose = host.purpose /\ host'.sent = c /\ host'.drains = c
      /\ host'.hooked = host.hooked /\ host'.out = host.out
      /\ host'.mark = host.mark /\ host'.result = host.result
  <2> DEFINE h1 == [host EXCEPT !.stage = "drain"]
             h2 == [h1 EXCEPT !.drains = c]
  <2>1. pending.cell = c /\ pending.result = host.result
    BY <1>1 DEF MakesUp
  <2>2. host' = [h2 EXCEPT !.result = host.result]
    BY <2>1 DEF Handle
  <2>3. c \in 0..MaxCells
    BY HostIs
  <2> QED BY <2>2, <2>3, HostIs DEF HostType
<1>4. pending' \in [cell : 0..MaxCells, result : Results]
  BY HostIs DEF Handle, NoCell, Results
<1> HIDE DEF reply
<1>5. /\ control \in Seq([cell : Cells, awaited : BOOLEAN])
      /\ control' \in Seq([cell : Cells, awaited : BOOLEAN])
  BY <1>2 DEF KernelInv, KernelTypes
<1>6. \A i \in 1..Len(control') : control'[i].cell \in seen.asking
  BY <1>1, <1>2, <1>5 DEF KernelInv, Returned, MakesUp
<1>7. Continues
  BY <1>1, <1>2, <1>3, <1>4, <1>5, <1>6
     DEF Continues, Reading, Reads1, SeenStays, KernelInv, KernelTypes, MakesUp
<1>8. MakesUp'
  BY <1>1, <1>2, <1>3 DEF MakesUp
<1>9. AwaitedOnes'
  <2>1. CASE kernel.cell = NoCell
    BY <1>2, <2>1 DEF AwaitedOnes, KernelInv
  <2>2. CASE kernel.cell # NoCell
    <3> DEFINE k == kernel.cell
    <3>1. /\ CountIn(iopub, Awaits(k)) \in Nat /\ CountIn(control, Replies(k)) \in Nat
      BY PlacesFinite DEF KernelInv, KernelTypes
    <3>2. CountIn(control', Replies(k))
            = CountIn(control, Replies(k)) + (IF reply \in Replies(k) THEN 1 ELSE 0)
      <4>1. ASSUME NEW S
            PROVE  CountIn(Append(control, reply), S)
                     = CountIn(control, S) + (IF reply \in S THEN 1 ELSE 0)
        <5> DEFINE R == [cell : Cells, awaited : BOOLEAN]
        <5>1. control \in Seq(R) /\ reply \in R
          BY <1>2, <1>5
        <5> HIDE DEF R
        <5> QED BY <5>1, CountAppend
      <4> QED BY <1>2, <4>1
    <3>3. reply \in Replies(k) => host.awaited /\ host.drains = k
      BY <1>1, <1>2 DEF Replies, MakesUp
    <3>4. Coming(k)' <= Coming(k) /\ Coming(k) \in Nat /\ Coming(k)' \in Nat
      BY <1>1, <1>2, <1>3, <3>1, <3>2, <3>3 DEF Coming, Awaits, Replies
    <3> QED BY <1>2, <2>2, <3>4 DEF AwaitedOnes, KernelInv, KernelTypes
  <2> QED BY <2>1, <2>2
<1> QED BY <1>7, <1>8, <1>9, ContinuesKeeps

-----------------------------------------------------------------------------
(* The worker sends a cell.                                                *)

LEMMA SendsFields ==
  ASSUME KernelInv, NEW purpose \in Purposes, NEW hook \in 0..MaxCells, Sends(purpose, hook)
  PROVE  /\ host.sent + 1 \in Cells
         /\ host' \in HostType /\ host'.stage = "drain" /\ host'.purpose = purpose
         /\ host'.sent = host.sent + 1 /\ host'.drains = host.sent + 1
         /\ host'.out = host.out /\ host'.mark = host.mark /\ host'.result = host.result
         /\ host'.awaited = host.awaited /\ host'.hooked = host.hooked
         /\ seen' \in SeenType
         /\ seen'.printed = seen.printed /\ seen'.result = seen.result
         /\ seen'.asking = seen.asking /\ seen'.marked = seen.marked
         /\ seen'.wrong = seen.wrong /\ seen'.missed = seen.missed
         /\ seen'.purpose[host.sent + 1] = purpose /\ seen'.hookOf[host.sent + 1] = hook
         /\ \A d \in Cells : d # host.sent + 1 =>
              seen'.purpose[d] = seen.purpose[d] /\ seen'.hookOf[d] = seen.hookOf[d]
<1> DEFINE c == host.sent + 1
           h1 == [host EXCEPT !.stage = "drain"]
           h2 == [h1 EXCEPT !.purpose = purpose]
           h3 == [h2 EXCEPT !.sent = c]
           purposes == [seen.purpose EXCEPT ![c] = purpose]
           hooks == [seen.hookOf EXCEPT ![c] = hook]
<1>1. c + (IF purpose = "hook" THEN 1 ELSE 0) \in Cells
  BY DEF Sends
<1>2. host.sent \in Nat /\ MaxCells \in Nat
  BY HostIs
<1>3. c \in Cells /\ c \in 0..MaxCells
  BY <1>1, <1>2 DEF Cells
<1>4. host' = [h3 EXCEPT !.drains = c]
  BY DEF Sends
<1>5. seen' = [[seen EXCEPT !.purpose = purposes] EXCEPT !.hookOf = hooks]
  BY HostIs DEF Sends, SeenType
<1>6. /\ purposes \in [Cells -> Purposes] /\ hooks \in [Cells -> 0..MaxCells]
      /\ purposes[c] = purpose /\ hooks[c] = hook
      /\ \A d \in Cells : d # c => purposes[d] = seen.purpose[d] /\ hooks[d] = seen.hookOf[d]
  BY <1>3, HostIs DEF SeenType
<1> HIDE DEF c, purposes, hooks
<1>7. /\ h2 \in HostType /\ h2.stage = "drain" /\ h2.purpose = purpose
      /\ h2.out = host.out /\ h2.mark = host.mark /\ h2.result = host.result
      /\ h2.awaited = host.awaited /\ h2.hooked = host.hooked
  BY HostIs DEF HostType
<1> HIDE DEF h2
<1>8. /\ host' \in HostType /\ host'.stage = "drain" /\ host'.purpose = purpose
      /\ host'.sent = c /\ host'.drains = c
      /\ host'.out = host.out /\ host'.mark = host.mark /\ host'.result = host.result
      /\ host'.awaited = host.awaited /\ host'.hooked = host.hooked
  BY <1>3, <1>4, <1>7 DEF HostType
<1>9. /\ seen' \in SeenType /\ seen'.purpose = purposes /\ seen'.hookOf = hooks
      /\ seen'.printed = seen.printed /\ seen'.result = seen.result
      /\ seen'.asking = seen.asking /\ seen'.marked = seen.marked
      /\ seen'.wrong = seen.wrong /\ seen'.missed = seen.missed
  BY <1>5, <1>6, HostIs DEF SeenType
<1> QED BY <1>3, <1>6, <1>8, <1>9 DEF c

LEMMA SendsKeeps ==
  ASSUME KernelInv, NEW purpose \in Purposes, NEW hook \in 0..MaxCells, Sends(purpose, hook),
         host.stage \in {"run", "ready"},
         purpose = "boot" => host.purpose = "boot" /\ host.stage = "run",
         purpose # "boot" => Booted,
         purpose = "tool" => \/ hook # NoCell /\ Cleared(hook)
                             \/ hook = NoCell /\ Cleared(1)
  PROVE  KernelInv'
<1> USE DEF KernelInv
<1> DEFINE c == host.sent + 1
<1>1. /\ c \in Cells /\ host.sent \in Nat /\ MaxCells \in Nat /\ Cells = 1..MaxCells
      /\ shell' = Append(shell, c) /\ UNCHANGED <<pending, kernel, iopub, control>>
  <2>1. c \in Cells
    BY SendsFields
  <2>2. host.sent \in Nat /\ MaxCells \in Nat
    BY HostIs
  <2> QED BY <2>1, <2>2 DEF Sends, Cells
<1>2. /\ host' \in HostType /\ host'.stage = "drain" /\ host'.purpose = purpose
      /\ host'.sent = c /\ host'.drains = c
      /\ host'.out = host.out /\ host'.mark = host.mark /\ host'.result = host.result
      /\ host'.awaited = host.awaited /\ host'.hooked = host.hooked
  BY SendsFields
<1>3. /\ seen' \in SeenType
      /\ seen'.printed = seen.printed /\ seen'.result = seen.result
      /\ seen'.asking = seen.asking /\ seen'.marked = seen.marked
      /\ seen'.wrong = seen.wrong /\ seen'.missed = seen.missed
      /\ seen'.purpose[c] = purpose /\ seen'.hookOf[c] = hook
      /\ \A d \in Cells : d # c =>
           seen'.purpose[d] = seen.purpose[d] /\ seen'.hookOf[d] = seen.hookOf[d]
  BY SendsFields
<1> HIDE DEF c
<1>4. /\ Len(shell) \in Nat /\ Len(shell') = Len(shell) + 1 /\ shell' \in Seq(Cells)
      /\ shell'[Len(shell) + 1] = c /\ \A i \in 1..Len(shell) : shell'[i] = shell[i]
  BY <1>1 DEF KernelTypes
<1>5. /\ c = host.sent + 1
      /\ kernel.cell \in Nat /\ \A i \in 1..Len(shell) : shell[i] \in Nat
      /\ \A i \in 1..Len(iopub) : iopub[i].cell \in Nat
  <2>1. \A i \in 1..Len(shell) : shell[i] \in Nat
    BY SMTT(20), <1>1 DEF KernelTypes
  <2>2. \A i \in 1..Len(iopub) : iopub[i].cell \in Nat
    <3>1. \A i \in 1..Len(iopub) : iopub[i] \in Messages
      BY DEF KernelTypes
    <3> QED BY <1>1, <3>1 DEF Messages
  <2> QED BY <2>1, <2>2 DEF c, KernelTypes
<1>6. \A d : InShell(d)' <=> InShell(d) \/ d = c
  BY <1>4 DEF InShell
<1>7. KernelTypes'
  BY <1>1, <1>2, <1>3, <1>4 DEF KernelTypes
<1>8. InTurn'
  <2>1. kernel.cell \in Nat /\ kernel.cell <= host.sent
    BY DEF KernelTypes, InTurn
  <2>2. \A i \in 1..Len(shell') : shell'[i] <= c /\ kernel.cell < shell'[i]
    <3> SUFFICES ASSUME NEW i \in 1..Len(shell')
                 PROVE  shell'[i] <= c /\ kernel.cell < shell'[i]
      OBVIOUS
    <3>1. CASE i \in 1..Len(shell)
      BY SMTT(20), <1>1, <1>4, <1>5, <3>1 DEF InTurn
    <3>2. CASE i = Len(shell) + 1
      BY <1>1, <1>4, <1>5, <2>1, <3>2
    <3> QED BY <1>4, <3>1, <3>2
  <2>3. \A i, j \in 1..Len(shell') : i < j => shell'[i] < shell'[j]
    <3> SUFFICES ASSUME NEW i \in 1..Len(shell'), NEW j \in 1..Len(shell'), i < j
                 PROVE  shell'[i] < shell'[j]
      OBVIOUS
    <3>0. i \in 1..Len(shell)
      BY <1>4
    <3>1. CASE j \in 1..Len(shell)
      BY <1>4, <3>0, <3>1 DEF InTurn
    <3>2. CASE j = Len(shell) + 1
      <4>1. shell[i] <= host.sent
        BY <3>0 DEF InTurn
      <4> QED BY <1>1, <1>4, <1>5, <3>0, <3>2, <4>1
    <3> QED BY <1>4, <3>1, <3>2
  <2> QED BY <1>1, <1>2, <1>5, <2>1, <2>2, <2>3 DEF InTurn
<1>9. Untouched'
  BY <1>1, <1>2, <1>3, <1>5, <1>6 DEF Untouched
<1>10. Returned'
  <2>1. \A i \in 1..Len(iopub) : /\ iopub[i].cell <= c /\ iopub[i].cell # c
                                 /\ ~InShell(iopub[i].cell)
    BY <1>1, <1>5 DEF Returned
  <2>2. \A i \in 1..Len(iopub) : ~InShell(iopub[i].cell)'
    BY <1>1, <1>6, <2>1
  <2> QED BY <1>1, <1>2, <1>3, <2>1, <2>2 DEF Returned
<1>11. Heard'
  <2>1. purpose # "boot" => kernel.heard
    BY DEF Heard
  <2>2. \A d \in Cells : seen'.purpose[d] # "boot" => kernel.heard
    BY <1>3, <2>1 DEF Heard
  <2>3. purpose = "boot" => c = 1
    BY <1>5 DEF Heard
  <2> QED BY <1>1, <1>2, <1>3, <1>5, <2>1, <2>2, <2>3 DEF Heard, Booted
<1>12. AtHand'
  <2>1. /\ host.out = 0 /\ host.result = "none" /\ ~host.mark /\ ~host.awaited
    BY DEF AtHand, Reading
  <2>2. /\ seen.printed[c] = 0 /\ seen.result[c] = "none"
        /\ c \notin seen.marked /\ c \notin seen.asking
    BY <1>1, <1>5 DEF Untouched
  <2>3. \A i \in 1..Len(iopub) : iopub[i].cell # c
    BY SMTT(20), <1>1, <1>5 DEF Returned, KernelTypes, Messages
  <2>4. CountIn(iopub, Streams(c)) = 0
    <3>1. \A i \in 1..Len(iopub) : iopub[i] \notin Streams(c)
      BY <2>3 DEF Streams
    <3> QED BY <3>1, CountNone DEF KernelTypes
  <2>5. MakesUp'
    BY <1>1, <1>2, <1>3, <2>1, <2>2, <2>3, <2>4 DEF MakesUp
  <2> QED BY <2>5, <1>2 DEF AtHand, Reading
<1>13. Vetted'
  <2>1. ASSUME NEW h \in Nat, Cleared(h) PROVE Cleared(h)'
    BY <1>1, <1>2, <1>3, <1>5, <1>6, <2>1 DEF Cleared
  <2>2. ASSUME NEW d \in 1..host'.sent, seen'.purpose[d] = "tool"
        PROVE  Cleared(HookOf(d))'
    <3>1. d \in Cells
      BY <1>1, <1>2
    <3>2. CASE d # c
      <4>1. d \in 1..host.sent /\ seen.purpose[d] = "tool" /\ HookOf(d)' = HookOf(d)
        BY <1>1, <1>2, <1>3, <1>5, <2>2, <3>1, <3>2 DEF HookOf
      <4>2. HookOf(d) \in Nat
        BY <1>1, <3>1, HostIs DEF HookOf, SeenType
      <4>3. PICK h \in Nat : h = HookOf(d)
        BY <4>2
      <4>4. Cleared(h)'
        BY <2>1, <4>1, <4>3 DEF Vetted
      <4> QED BY <4>1, <4>3, <4>4
    <3>3. CASE d = c
      <4>1. HookOf(d)' = IF hook = NoCell THEN 1 ELSE hook
        BY <1>3, <3>3 DEF HookOf
      <4>2. purpose = "tool"
        BY <1>3, <2>2, <3>3
      <4>3. hook # NoCell => Cleared(hook)'
        BY <2>1, <4>2
      <4>4. hook = NoCell => Cleared(1)'
        BY <2>1, <4>2
      <4> QED BY <4>1, <4>3, <4>4
    <3> QED BY <3>2, <3>3
  <2>3. Booted' /\ ~host'.hooked => Cleared(1)'
    BY <1>2, <2>1 DEF Vetted, Booted
  <2> QED BY <1>2, <2>2, <2>3 DEF Vetted
<1>14. AwaitedOnes'
  BY <1>1, <1>2 DEF AwaitedOnes, Coming, Awaits, Replies
<1>15. seen'.wrong = {}
  BY <1>3
<1> QED BY <1>7, <1>8, <1>9, <1>10, <1>11, <1>12, <1>13, <1>14, <1>15

LEMMA SendingKeeps ==
  ASSUME KernelInv, Boot \/ CallTool \/ RunTool \/ Command
  PROVE  KernelInv'
<1>0. NoCell \in 0..MaxCells /\ Purposes = {"boot", "hook", "tool", "command"}
  BY HostIs DEF NoCell, Purposes
<1>1. CASE Boot
  BY <1>0, <1>1, SendsKeeps DEF Boot
<1>2. CASE CallTool
  <2>1. Booted /\ (~host.hooked => Cleared(1))
    BY <1>2 DEF CallTool, Booted, KernelInv, Vetted
  <2>2. CASE host.hooked
    <3>1. Sends("hook", NoCell)
      BY <1>2, <2>2 DEF CallTool
    <3> QED BY <1>0, <1>2, <2>1, <3>1, SendsKeeps DEF CallTool
  <2>3. CASE ~host.hooked
    <3>1. Sends("tool", NoCell)
      BY <1>2, <2>3 DEF CallTool
    <3> QED BY <1>0, <1>2, <2>1, <2>3, <3>1, SendsKeeps DEF CallTool
  <2> QED BY <2>2, <2>3
<1>3. CASE RunTool
  <2>1. Booted /\ host.sent \in 0..MaxCells /\ host.sent # NoCell /\ Cleared(host.sent)
    BY <1>3, HostIs DEF RunTool, Booted, KernelInv, Vetted, Heard, NoCell
  <2>2. PICK hook \in 0..MaxCells : hook = host.sent
    BY <2>1
  <2>3. Sends("tool", hook) /\ hook # NoCell /\ Cleared(hook)
    BY <1>3, <2>1, <2>2 DEF RunTool
  <2>4. host.stage \in {"run", "ready"}
    BY <1>3 DEF RunTool
  <2> QED BY <1>0, <2>1, <2>3, <2>4, SendsKeeps
<1>4. CASE Command
  <2>1. Booted
    BY <1>4 DEF Command, Booted
  <2> QED BY <1>0, <1>4, <2>1, SendsKeeps DEF Command
<1> QED BY <1>1, <1>2, <1>3, <1>4

-----------------------------------------------------------------------------
(* The kernel comes and goes.                                              *)

KernelType ==
  [up : BOOLEAN, heard : BOOLEAN, cell : 0..MaxCells, asked : 0..MaxAsks, waits : 0..MaxAsks]

LEMMA KernelIs ==
  ASSUME KernelInv
  PROVE  /\ kernel \in KernelType /\ MaxAsks \in Nat /\ MaxAsks >= 1 /\ MaxCells \in Nat
         /\ kernel.cell \in Nat /\ kernel.waits \in Nat /\ kernel.asked \in Nat
BY KernelAssumption DEF KernelInv, KernelTypes, KernelType

(* Whoever vets a cell is a cell.                                          *)
LEMMA VettedCells ==
  ASSUME KernelInv
  PROVE  /\ \A c \in 1..host.sent : c \in Cells /\ HookOf(c) \in Cells /\ 1 \in Cells
         /\ host.stage = "run" /\ host.purpose = "hook" => host.sent \in Cells
         /\ Booted => 1 \in Cells
BY HostIs DEF HookOf, SeenType, Cells, NoCell, KernelInv, Heard, Booted

LEMMA StartKeeps ==
  ASSUME KernelInv, Start
  PROVE  KernelInv'
<1> USE DEF KernelInv
<1>1. /\ kernel' \in KernelType /\ kernel'.heard = kernel.heard /\ kernel'.cell = kernel.cell
      /\ kernel'.asked = kernel.asked /\ kernel'.waits = kernel.waits
  BY KernelIs DEF Start, KernelType
<1>2. /\ host' \in HostType /\ host'.stage \in {"welcome", "down"}
      /\ host'.purpose = host.purpose /\ host'.sent = host.sent /\ host'.drains = host.drains
      /\ host'.out = host.out /\ host'.mark = host.mark /\ host'.result = host.result
      /\ host'.awaited = host.awaited /\ host'.hooked = host.hooked
  <2>1. PICK stage \in {"welcome", "down"} : host' = [host EXCEPT !.stage = stage]
    BY DEF Start
  <2> QED BY <2>1, HostIs DEF HostType
<1>3. host.purpose = "boot" /\ host.sent = 0 /\ host.stage = "start"
      /\ UNCHANGED <<pending, shell, iopub, control, seen>>
  BY DEF Heard, Start
<1>4. KernelTypes' /\ InTurn' /\ Untouched' /\ Returned'
  BY <1>1, <1>2, <1>3 DEF KernelTypes, KernelType, InTurn, Untouched, InShell, Returned
<1>5. Heard' /\ AtHand'
  BY <1>1, <1>2, <1>3 DEF Heard, AtHand, Reading, Booted
<1>6. Vetted' /\ AwaitedOnes'
  <2>1. \A c \in 1..host'.sent : seen'.purpose[c] # "tool"
    BY <1>2, <1>3
  <2> QED BY <1>1, <1>2, <1>3, <2>1
             DEF Vetted, Booted, AwaitedOnes, Coming, Awaits, Replies
<1> QED BY <1>3, <1>4, <1>5, <1>6

LEMMA WelcomeKeeps ==
  ASSUME KernelInv, Welcome
  PROVE  KernelInv'
<1> USE DEF KernelInv
<1>1. /\ host' \in HostType /\ host'.stage \in {"run", "down"}
      /\ host'.purpose = host.purpose /\ host'.sent = host.sent /\ host'.drains = host.drains
      /\ host'.out = host.out /\ host'.mark = host.mark /\ host'.result = host.result
      /\ host'.awaited = host.awaited /\ host'.hooked = host.hooked
  <2>1. PICK stage \in {"run", "down"} : host' = [host EXCEPT !.stage = stage]
    BY DEF Welcome
  <2> QED BY <2>1, HostIs DEF HostType
<1>2. SeenStays /\ seen'.wrong = {}
  BY HostIs DEF Welcome, SeenStays, SeenType
<1>3. host.purpose = "boot" /\ host.sent = 0 /\ host.stage = "welcome"
      /\ UNCHANGED <<pending, kernel, shell, iopub, control>>
  BY DEF Heard, Welcome
<1>4. KernelTypes' /\ InTurn' /\ Untouched' /\ Returned'
  <2>1. KernelTypes'
    BY <1>1, <1>2, <1>3 DEF KernelTypes, SeenStays
  <2>2. Reads1
    BY <1>1, <1>2, <1>3 DEF Reads1
  <2>3. \A i \in 1..Len(control') : control'[i].cell \in seen.asking
    BY <1>3 DEF Returned
  <2> QED BY <2>1, <2>2, <2>3, ReadsKeep
<1>5. host'.stage = "run" => kernel.heard \/ seen'.missed
  BY HostIs DEF Welcome, Welcomed, SeenType, HostType
<1>6. Heard' /\ AtHand'
  BY <1>1, <1>2, <1>3, <1>5 DEF Heard, AtHand, Reading, Booted, SeenStays
<1>7. Vetted' /\ AwaitedOnes'
  <2>1. \A c \in 1..host'.sent : seen'.purpose[c] # "tool"
    BY <1>1, <1>3
  <2> QED BY <1>1, <1>2, <1>3, <2>1
             DEF Vetted, Booted, AwaitedOnes, Coming, Awaits, Replies
<1> QED BY <1>2, <1>4, <1>6, <1>7

(* Nothing runs any more; the worker reads on, if it reads.                *)
Stops ==
  kernel' = [kernel EXCEPT !.up = FALSE, !.cell = NoCell, !.asked = 0, !.waits = 0]

LEMMA StopsFields ==
  ASSUME KernelInv, Stops
  PROVE  /\ kernel' \in KernelType /\ kernel'.heard = kernel.heard
         /\ kernel'.cell = NoCell /\ kernel'.asked = 0 /\ kernel'.waits = 0
<1> DEFINE k1 == [kernel EXCEPT !.up = FALSE]
           k2 == [k1 EXCEPT !.cell = NoCell]
           k3 == [k2 EXCEPT !.asked = 0]
<1>1. kernel' = [k3 EXCEPT !.waits = 0]
  BY DEF Stops
<1>2. k1 \in KernelType /\ k1.heard = kernel.heard
  BY KernelIs DEF KernelType
<1> HIDE DEF k1
<1>3. k2 \in KernelType /\ k2.heard = kernel.heard /\ k2.cell = NoCell
  BY <1>2, KernelIs DEF KernelType, NoCell
<1> HIDE DEF k2
<1>4. k3 \in KernelType /\ k3.heard = kernel.heard /\ k3.cell = NoCell /\ k3.asked = 0
  BY <1>3, KernelIs DEF KernelType
<1> HIDE DEF k3
<1> QED BY <1>1, <1>4, KernelIs DEF KernelType

(* A cell that ran has ended; nothing of what it did changes.              *)
LEMMA StopsKeep ==
  ASSUME KernelInv, Stops, UNCHANGED <<pending, shell, iopub, control, seen>>,
         host'.sent = host.sent
  PROVE  /\ InTurn' /\ Untouched' /\ Returned' /\ AwaitedOnes'
         /\ \A h \in Cells : Cleared(h) => Cleared(h)'
<1> USE StopsFields DEF KernelInv
<1>1. \A i \in 1..Len(shell) : shell[i] \in Cells
  BY DEF KernelTypes
<1>2. \A i \in 1..Len(iopub) : iopub[i].cell \in Cells
  <2>1. \A i \in 1..Len(iopub) : iopub[i] \in Messages
    BY DEF KernelTypes
  <2> QED BY <2>1 DEF Messages
<1>3. InTurn'
  BY <1>1, KernelIs, HostIs DEF InTurn, NoCell, Cells
<1>4. Untouched' /\ Returned'
  BY <1>2 DEF Untouched, Returned, InShell, NoCell, Cells
<1>5. AwaitedOnes'
  BY DEF AwaitedOnes
<1>6. \A h \in Cells : Cleared(h) => Cleared(h)'
  BY DEF Cleared, InShell, NoCell, Cells
<1> QED BY <1>3, <1>4, <1>5, <1>6

LEMMA DieKeeps ==
  ASSUME KernelInv, Die
  PROVE  KernelInv'
<1> USE DEF KernelInv
<1>1. Stops /\ UNCHANGED <<host, pending, shell, iopub, control, seen>>
  BY DEF Die, Stops
<1>2. /\ InTurn' /\ Untouched' /\ Returned' /\ AwaitedOnes'
      /\ \A h \in Cells : Cleared(h) => Cleared(h)'
  BY <1>1, StopsKeep
<1>3. KernelTypes' /\ Heard'
  BY <1>1, StopsFields DEF KernelTypes, KernelType, Heard, Booted
<1>4. AtHand'
  <2>1. ASSUME MakesUp PROVE MakesUp'
    BY <1>1, <2>1, StopsFields DEF MakesUp, NoCell, Cells
  <2> QED BY <1>1, <2>1 DEF AtHand, Reading
<1>5. Vetted'
  BY <1>1, <1>2, VettedCells DEF Vetted, Booted, HookOf
<1> QED BY <1>1, <1>2, <1>3, <1>4, <1>5

LEMMA ShutdownKeeps ==
  ASSUME KernelInv, Shutdown
  PROVE  KernelInv'
<1> USE DEF KernelInv
<1>1. /\ Stops /\ UNCHANGED <<pending, shell, iopub, control, seen>>
      /\ host.stage = "ready" /\ host' = Returns("down")
  BY DEF Shutdown, Stops
<1>2. /\ host' \in HostType /\ host'.stage = "down" /\ host'.purpose = host.purpose
      /\ host'.sent = host.sent /\ host'.hooked = host.hooked /\ AtRest(host')
  BY <1>1, HostIs, ReturnsFields DEF Stages
<1>3. /\ InTurn' /\ Untouched' /\ Returned' /\ AwaitedOnes'
      /\ \A h \in Cells : Cleared(h) => Cleared(h)'
  BY <1>1, <1>2, StopsKeep
<1>4. KernelTypes' /\ Heard'
  BY <1>1, <1>2, StopsFields DEF KernelTypes, KernelType, Heard, Booted
<1>5. AtHand'
  BY <1>2 DEF AtHand, Reading, AtRest
<1>6. Vetted'
  BY <1>1, <1>2, <1>3, VettedCells DEF Vetted, Booted, HookOf
<1> QED BY <1>1, <1>3, <1>4, <1>5, <1>6

LEMMA SubscribeKeeps ==
  ASSUME KernelInv, Subscribe
  PROVE  KernelInv'
<1> USE DEF KernelInv
<1>1. /\ kernel' \in KernelType /\ kernel'.heard = TRUE /\ kernel'.cell = kernel.cell
      /\ kernel'.asked = kernel.asked /\ kernel'.waits = kernel.waits
      /\ UNCHANGED <<host, pending, shell, iopub, control, seen>>
  BY KernelIs DEF Subscribe, KernelType
<1>2. KernelTypes' /\ Heard'
  BY <1>1 DEF KernelTypes, KernelType, Heard, Booted
<1>3. InTurn' /\ Untouched' /\ Returned' /\ AtHand'
  BY <1>1 DEF InTurn, Untouched, InShell, Returned, AtHand, Reading, MakesUp
<1>4. Vetted' /\ AwaitedOnes'
  BY <1>1 DEF Vetted, Booted, Cleared, HookOf, InShell, AwaitedOnes, Coming, Awaits, Replies
<1> QED BY <1>1, <1>2, <1>3, <1>4

-----------------------------------------------------------------------------
(* The kernel runs a cell.                                                 *)

(* What is on iopub stays there, and more may come behind it.              *)
Grows ==
  /\ iopub' \in Seq(Messages) /\ Len(iopub') \in Nat /\ Len(iopub) \in Nat
  /\ Len(iopub) <= Len(iopub')
  /\ \A i \in 1..Len(iopub) : iopub'[i] = iopub[i]

New(i) == i \in 1..Len(iopub') /\ i > Len(iopub)

(* A step of the cell that runs, for all but what it publishes.            *)
Steps(c) ==
  /\ kernel.cell = c /\ kernel'.cell \in {c, NoCell}
  /\ kernel' \in KernelType /\ kernel'.heard = kernel.heard
  /\ UNCHANGED <<host, pending, control>>
  /\ shell' \in {shell, <<>>}
  /\ seen' \in SeenType
  /\ seen'.purpose = seen.purpose /\ seen'.hookOf = seen.hookOf
  /\ seen'.wrong = seen.wrong /\ seen'.missed = seen.missed
  /\ seen.asking \subseteq seen'.asking /\ seen'.asking \subseteq seen.asking \cup {c}
  /\ seen.marked \subseteq seen'.marked /\ seen'.marked \subseteq seen.marked \cup {c}
  /\ \A d \in Cells \ {c} : seen'.printed[d] = seen.printed[d] /\ seen'.result[d] = seen.result[d]

LEMMA StepsFrom ==
  ASSUME KernelInv, NEW c \in Cells, kernel.cell = c
  PROVE  /\ c <= host.sent /\ ~InShell(c) /\ c \in Nat /\ c # NoCell
         /\ kernel.heard \/ seen.missed
         /\ seen.purpose[c] = "tool" => kernel.heard
<1>1. c <= host.sent /\ ~InShell(c) /\ c \in Nat /\ c # NoCell
  <2>1. \A i \in 1..Len(shell) : shell[i] \in Nat /\ c < shell[i]
    BY HostIs DEF KernelInv, KernelTypes, InTurn, Cells
  <2> QED BY <2>1, HostIs DEF KernelInv, InTurn, InShell, Cells, NoCell
<1>2. host.sent >= 1
  BY <1>1, HostIs DEF NoCell
<1> QED BY <1>1, <1>2 DEF KernelInv, Heard

LEMMA StepsKeep ==
  ASSUME KernelInv, NEW c \in Cells, Steps(c), Grows, iopub' # <<>> => kernel.heard
  PROVE  /\ KernelTypes' /\ InTurn' /\ Untouched' /\ Heard' /\ Vetted'
         /\ seen'.wrong = {}
<1> USE DEF KernelInv
<1>1. c <= host.sent /\ ~InShell(c) /\ c \in Nat /\ c # NoCell
  BY StepsFrom DEF Steps
<1>2. \A d : InShell(d)' => InShell(d)
  BY DEF Steps, InShell
<1>3. KernelTypes'
  <2>1. shell' \in Seq(Cells)
    <3>1. shell \in Seq(Cells) /\ <<>> \in Seq(Cells)
      BY EmptySeq DEF KernelTypes
    <3> QED BY <3>1, Zenon DEF Steps
  <2>2. /\ host' \in HostType /\ pending' \in [cell : 0..MaxCells, result : Results]
        /\ control' \in Seq([cell : Cells, awaited : BOOLEAN])
    BY DEF KernelTypes, Steps
  <2>3. /\ kernel' \in [up : BOOLEAN, heard : BOOLEAN, cell : 0..MaxCells,
                        asked : 0..MaxAsks, waits : 0..MaxAsks]
        /\ iopub' \in Seq(Messages) /\ seen' \in SeenType
    BY DEF Steps, Grows, KernelType
  <2> QED BY <2>1, <2>2, <2>3 DEF KernelTypes
<1>4. InTurn'
  <2>1. \A i \in 1..Len(shell) : shell[i] \in Nat /\ shell[i] > 0
    <3>1. MaxCells \in Nat /\ shell \in Seq(Cells)
      BY KernelAssumption DEF KernelTypes
    <3> HIDE DEF KernelInv
    <3> QED BY <3>1, ShellCells
  <2>2. CASE shell' = shell
    BY <1>1, <2>1, <2>2, HostIs DEF InTurn, Steps, NoCell
  <2>3. CASE shell' = <<>>
    BY <1>1, <2>3, HostIs DEF InTurn, Steps, NoCell
  <2> QED BY <2>2, <2>3 DEF Steps
<1>5. Untouched'
  <2> SUFFICES ASSUME NEW d \in Cells, d > host.sent \/ InShell(d)'
               PROVE  /\ seen'.printed[d] = 0 /\ seen'.result[d] = "none"
                      /\ d \notin seen'.marked /\ d \notin seen'.asking
    BY DEF Untouched, Steps
  <2>1. d # c /\ (d > host.sent \/ InShell(d))
    BY <1>1, <1>2, HostIs DEF Cells
  <2> QED BY <2>1 DEF Untouched, Steps
<1>6. Heard'
  BY DEF Heard, Steps, Booted
<1>7. \A h \in Cells : Cleared(h) => Cleared(h)'
  BY <1>1, <1>2 DEF Cleared, Steps, NoCell, Cells
<1>8. Vetted'
  BY <1>7, VettedCells DEF Vetted, Booted, HookOf, Steps
<1> QED BY <1>3, <1>4, <1>5, <1>6, <1>8 DEF Steps

(* The cells new messages are of have not been idle before.                *)
LEMMA GrowsReturned ==
  ASSUME KernelInv, NEW c \in Cells, Steps(c), Grows,
         \A i : New(i) =>
           /\ iopub'[i].cell = c \/ InShell(iopub'[i].cell)
           /\ iopub'[i].cell # c => shell' = <<>>
           /\ iopub'[i].kind = "idle" => kernel'.cell = NoCell
           /\ iopub'[i].kind \in {"ask", "await"} => iopub'[i].cell \in seen'.asking,
         \A i, j : New(i) /\ New(j) /\ i < j /\ iopub'[i].kind = "idle" =>
                     iopub'[j].cell # iopub'[i].cell
  PROVE  Returned'
<1> USE DEF KernelInv
<1>1. c <= host.sent /\ ~InShell(c) /\ c \in Nat /\ c # NoCell
  BY StepsFrom DEF Steps
<1>2. \A i \in 1..Len(iopub') : i \in 1..Len(iopub) \/ New(i)
  BY DEF Grows, New
<1>3. \A i \in 1..Len(iopub') : iopub'[i].cell \in Cells
  <2>1. \A i \in 1..Len(iopub') : iopub'[i] \in Messages
    BY DEF Grows
  <2> QED BY <2>1 DEF Messages
<1>4. ASSUME NEW i \in 1..Len(iopub')
      PROVE  /\ iopub'[i].cell <= host'.sent
             /\ \A k \in 1..Len(shell') : shell'[k] # iopub'[i].cell
             /\ iopub'[i].kind = "idle" => kernel'.cell # iopub'[i].cell
             /\ iopub'[i].kind \in {"ask", "await"} => iopub'[i].cell \in seen'.asking
  <2>1. CASE i \in 1..Len(iopub)
    <3>1. iopub'[i] = iopub[i]
      BY <2>1 DEF Grows
    <3>2. /\ iopub[i].cell <= host.sent /\ ~InShell(iopub[i].cell)
          /\ iopub[i].kind = "idle" => kernel.cell # iopub[i].cell
          /\ iopub[i].kind \in {"ask", "await"} => iopub[i].cell \in seen.asking
      BY <2>1 DEF Returned
    <3> QED BY <1>3, <3>1, <3>2 DEF Steps, InShell, NoCell, Cells
  <2>2. CASE New(i)
    <3>1. iopub'[i].cell <= host.sent
      BY <1>1, <2>2 DEF InShell, InTurn
    <3>2. \A k \in 1..Len(shell') : shell'[k] # iopub'[i].cell
      BY <1>1, <2>2 DEF InShell, Steps
    <3> QED BY <1>3, <2>2, <3>1, <3>2 DEF Steps, NoCell, Cells
  <2> QED BY <1>2, <2>1, <2>2
<1>5. ASSUME NEW i \in 1..Len(iopub'), NEW j \in 1..Len(iopub'), i < j, iopub'[i].kind = "idle"
      PROVE  iopub'[j].cell # iopub'[i].cell
  <2>1. CASE New(i)
    <3>1. New(j)
      BY <1>5, <2>1 DEF New, Grows
    <3> QED BY <1>5, <2>1, <3>1
  <2>2. CASE i \in 1..Len(iopub)
    <3>1. iopub'[i] = iopub[i] /\ iopub[i].kind = "idle"
      BY <1>5, <2>2 DEF Grows
    <3>2. CASE j \in 1..Len(iopub)
      BY <1>5, <2>2, <3>1, <3>2 DEF Grows, Returned
    <3>3. CASE New(j)
      <4>1. iopub[i].cell # c /\ ~InShell(iopub[i].cell)
        BY <2>2, <3>1 DEF Returned, Steps
      <4> QED BY <3>1, <3>3, <4>1
    <3> QED BY <1>2, <3>2, <3>3
  <2> QED BY <1>2, <2>1, <2>2
<1>6. \A i \in 1..Len(control') : control'[i].cell \in seen'.asking
  BY DEF Returned, Steps
<1> QED BY <1>4, <1>5, <1>6 DEF Returned, InShell

LEMMA GrowsMakesUp ==
  ASSUME KernelInv, MakesUp, NEW c \in Cells, Steps(c), Grows,
         host.out + CountIn(iopub', Streams(host.sent)) = seen'.printed[host.sent],
         \A i : New(i) => iopub'[i].kind # "torn",
         host.purpose = "tool" =>
           /\ kernel'.cell = host.sent => seen'.result[host.sent] = "none"
           /\ \A i : New(i) /\ iopub'[i].cell = host.sent
                            /\ iopub'[i].kind \in {"result", "error"} =>
                iopub'[i].kind = seen'.result[host.sent]
           /\ \/ seen'.result[host.sent] = seen.result[host.sent]
              \/ /\ host.sent = c
                 /\ \E i : /\ New(i) /\ iopub'[i].cell = host.sent
                           /\ iopub'[i].kind \in {"result", "error"},
         host.sent \in seen'.marked /\ ~seen.missed =>
           \/ host.sent \in seen.marked
           \/ \E i : New(i) /\ iopub'[i] = [kind |-> "mark", cell |-> host.sent]
  PROVE  MakesUp'
<1> DEFINE d == host.sent
<1>1. \A i \in 1..Len(iopub') : i \in 1..Len(iopub) \/ New(i)
  BY DEF Grows, New
<1>2. \A i : New(i) => i \in 1..Len(iopub')
  BY DEF New
<1>3. \A i \in 1..Len(iopub) : i \in 1..Len(iopub') /\ iopub'[i] = iopub[i]
  BY DEF Grows
<1>4. \A i \in 1..Len(iopub') : iopub'[i].cell = d => iopub'[i].kind # "torn"
  BY <1>1, <1>3 DEF MakesUp
<1>5. ASSUME host.purpose = "tool"
      PROVE  /\ \A i \in 1..Len(iopub') :
                  iopub'[i].cell = d /\ iopub'[i].kind \in {"result", "error"} =>
                    iopub'[i].kind = seen'.result[d]
             /\ host.result \in {"none", seen'.result[d]}
             /\ host.result = "none" /\ seen'.result[d] # "none" =>
                  \E i \in 1..Len(iopub') : /\ iopub'[i].cell = d
                                            /\ iopub'[i].kind \in {"result", "error"}
  <2>1. CASE seen'.result[d] = seen.result[d]
    BY <1>1, <1>2, <1>3, <1>5, <2>1 DEF MakesUp
  <2>2. CASE seen'.result[d] # seen.result[d]
    <3>1. d = c /\ seen.result[d] = "none"
      BY <1>5, <2>2 DEF MakesUp, Steps
    <3>2. host.result = "none"
      BY <1>5, <3>1 DEF MakesUp
    <3>3. \A i \in 1..Len(iopub) :
            iopub[i].cell = d => iopub[i].kind \notin {"result", "error"}
      BY <1>5, <3>1 DEF MakesUp
    <3> QED BY <1>1, <1>2, <1>3, <1>5, <2>2, <3>2, <3>3
  <2> QED BY <2>1, <2>2
<1>6. ASSUME host.purpose # "tool", ~seen.missed, d \in seen'.marked, d \notin seen'.asking
      PROVE  host.mark \/ \E i \in 1..Len(iopub') : iopub'[i] = [kind |-> "mark", cell |-> d]
  <2>1. CASE d \in seen.marked
    BY <1>3, <1>6, <2>1 DEF MakesUp, Steps
  <2>2. CASE d \notin seen.marked
    BY <1>2, <1>6, <2>2
  <2> QED BY <2>1, <2>2
<1>7. host.stage = "handle" => d \in seen'.asking
  BY DEF MakesUp, Steps
<1> QED BY <1>4, <1>5, <1>6, <1>7 DEF MakesUp, Steps

(* One message is published, if anyone has subscribed.                     *)
Adds(m) ==
  /\ Grows
  /\ \A i : New(i) => kernel.heard /\ iopub'[i] = m
  /\ \A i, j : New(i) /\ New(j) => i = j
  /\ kernel.heard => \E i : New(i) /\ iopub'[i] = m
  /\ \A S : CountIn(iopub', S) = CountIn(iopub, S) + (IF kernel.heard /\ m \in S THEN 1 ELSE 0)
  /\ iopub' # <<>> => iopub # <<>> \/ kernel.heard

LEMMA PublishOne ==
  ASSUME iopub \in Seq(Messages), NEW k, NEW c, [kind |-> k, cell |-> c] \in Messages,
         Publish(<<k>>, c)
  PROVE  Adds([kind |-> k, cell |-> c])
<1> DEFINE m == [kind |-> k, cell |-> c]
<1>1. m \in Messages
  OBVIOUS
<1>2. [i \in DOMAIN <<k>> |-> [kind |-> <<k>>[i], cell |-> c]] = <<m>>
  OBVIOUS
<1> HIDE DEF m
<1>3. CASE kernel.heard
  <2>1. iopub' = Append(iopub, m)
    <3>1. iopub' = iopub \o <<m>>
      BY <1>2, <1>3 DEF Publish
    <3> QED BY <1>1, <3>1
  <2>2. /\ Len(iopub) \in Nat /\ Len(iopub') = Len(iopub) + 1 /\ iopub' \in Seq(Messages)
        /\ iopub'[Len(iopub) + 1] = m /\ \A i \in 1..Len(iopub) : iopub'[i] = iopub[i]
    BY <1>1, <2>1
  <2>3. \A S : CountIn(iopub', S) = CountIn(iopub, S) + (IF m \in S THEN 1 ELSE 0)
    BY <1>1, <2>1, CountAppend
  <2>4. New(Len(iopub) + 1) /\ \A i : New(i) => i = Len(iopub) + 1
    BY <2>2 DEF New
  <2> QED BY <1>3, <2>2, <2>3, <2>4 DEF Adds, Grows, m
<1>4. CASE ~kernel.heard
  <2>1. iopub' = iopub
    BY <1>4 DEF Publish
  <2>2. \A i : ~New(i)
    BY <2>1 DEF New
  <2>3. \A S : CountIn(iopub, S) \in Nat
    BY PlacesFinite
  <2> QED BY <1>4, <2>1, <2>2, <2>3 DEF Adds, Grows, m
<1> QED BY <1>3, <1>4

(* A frame for the steps that leave the cell running and what it came to.  *)
LEMMA AddsKeep ==
  ASSUME KernelInv, NEW c \in Cells, Steps(c), kernel'.cell = c,
         NEW kind \in {"stream", "mark", "ask", "await"},
         Adds([kind |-> kind, cell |-> c]),
         kind \in {"ask", "await"} => c \in seen'.asking,
         seen'.result = seen.result,
         kind = "stream" => kernel.heard /\ seen'.printed[c] = seen.printed[c] + 1,
         kind # "stream" => seen'.printed = seen.printed,
         c \in seen'.marked => c \in seen.marked \/ kind = "mark",
         AwaitedOnes'
  PROVE  KernelInv'
<1> USE DEF KernelInv
<1> DEFINE m == [kind |-> kind, cell |-> c]
<1>1. /\ Grows /\ \A i : New(i) => kernel.heard /\ iopub'[i] = m
      /\ m.kind = kind /\ m.cell = c
      /\ \A i, j : New(i) /\ New(j) => i = j
      /\ kernel.heard => \E i : New(i) /\ iopub'[i] = m
      /\ \A S : CountIn(iopub', S) = CountIn(iopub, S) + (IF kernel.heard /\ m \in S THEN 1 ELSE 0)
      /\ iopub' # <<>> => iopub # <<>> \/ kernel.heard
  BY DEF Adds
<1>2. iopub' # <<>> => kernel.heard
  BY <1>1 DEF Heard
<1>3. /\ KernelTypes' /\ InTurn' /\ Untouched' /\ Heard' /\ Vetted' /\ seen'.wrong = {}
  BY <1>1, <1>2, StepsKeep
<1>4. Returned'
  <2>1. \A i : New(i) => iopub'[i].cell = c /\ iopub'[i].kind = kind
    BY <1>1
  <2>2. \A i, j : New(i) /\ New(j) => ~(i < j)
    <3> SUFFICES ASSUME NEW i, NEW j, New(i), New(j) PROVE ~(i < j)
      OBVIOUS
    <3>1. i = j
      BY <1>1
    <3>2. i \in Int
      BY DEF New
    <3> QED BY <3>1, <3>2
  <2> QED BY <1>1, <2>1, <2>2, GrowsReturned
<1>5. AtHand'
  <2>1. CASE ~Reading
    BY <2>1 DEF AtHand, Reading, Steps
  <2>2. CASE Reading
    <3> DEFINE d == host.sent
    <3>1. MakesUp /\ d \in Cells
      BY <2>2 DEF AtHand, MakesUp
    <3>2. host.out + CountIn(iopub', Streams(d)) = seen'.printed[d]
      <4>1. host.out + CountIn(iopub, Streams(d)) = seen.printed[d]
        BY <3>1 DEF MakesUp
      <4>2. CountIn(iopub', Streams(d))
              = CountIn(iopub, Streams(d)) + (IF kernel.heard /\ m \in Streams(d) THEN 1 ELSE 0)
        BY <1>1
      <4>3. m \in Streams(d) <=> kind = "stream" /\ c = d
        BY DEF Streams
      <4>4. CountIn(iopub, Streams(d)) \in Nat /\ host.out \in Nat
        BY PlacesFinite, HostIs DEF KernelTypes, HostType
      <4>5. CASE kind = "stream" /\ c = d
        BY <4>1, <4>2, <4>3, <4>4, <4>5
      <4>6. CASE ~(kind = "stream" /\ c = d)
        <5>1. seen'.printed[d] = seen.printed[d]
          BY <3>1, <4>6 DEF Steps
        <5> QED BY <4>1, <4>2, <4>3, <4>4, <4>6, <5>1
      <4> QED BY <4>5, <4>6
    <3>3. \A i : New(i) => /\ iopub'[i].kind # "torn"
                           /\ iopub'[i].kind \notin {"result", "error"}
      BY <1>1
    <3>4. host.purpose = "tool" /\ kernel'.cell = d => seen'.result[d] = "none"
      BY <3>1 DEF MakesUp, Steps
    <3>5. ASSUME d \in seen'.marked, ~seen.missed
          PROVE  \/ d \in seen.marked
                 \/ \E i : New(i) /\ iopub'[i] = [kind |-> "mark", cell |-> d]
      <4>1. CASE d # c
        BY <3>5, <4>1 DEF Steps
      <4>2. CASE d = c /\ d \notin seen.marked
        <5>1. kind = "mark" /\ kernel.heard
          BY <3>5, <4>2, StepsFrom DEF Steps
        <5> QED BY <1>1, <4>2, <5>1
      <4> QED BY <4>1, <4>2
    <3>6. MakesUp'
      <4> HIDE DEF d
      <4>1. d = host.sent
        BY DEF d
      <4> QED BY <1>1, <3>1, <3>2, <3>3, <3>4, <3>5, <4>1, GrowsMakesUp
    <3> QED BY <2>2, <3>6 DEF AtHand, Reading, Steps
  <2> QED BY <2>1, <2>2
<1> QED BY <1>3, <1>4, <1>5

LEMMA PrintLineKeeps ==
  ASSUME KernelInv, NEW c \in Cells, PrintLine(c)
  PROVE  KernelInv'
<1> USE DEF KernelInv
<1>1. /\ kernel.cell = c /\ seen.purpose[c] = "tool" /\ seen.printed[c] < MaxPrints
      /\ UNCHANGED <<host, pending, kernel, shell, control>>
  BY DEF PrintLine, Running
<1>2. kernel.heard
  BY <1>1, StepsFrom
<1>3. /\ seen' \in SeenType
      /\ seen'.printed[c] = seen.printed[c] + 1
      /\ \A d \in Cells \ {c} : seen'.printed[d] = seen.printed[d]
      /\ seen'.result = seen.result /\ seen'.purpose = seen.purpose
      /\ seen'.hookOf = seen.hookOf /\ seen'.wrong = seen.wrong /\ seen'.missed = seen.missed
      /\ seen'.asking = seen.asking /\ seen'.marked = seen.marked
  <2> DEFINE printed == [seen.printed EXCEPT ![c] = seen.printed[c] + 1]
  <2>1. seen' = [seen EXCEPT !.printed = printed]
    BY DEF PrintLine
  <2>2. seen.printed \in [Cells -> 0..MaxPrints] /\ MaxPrints \in Nat
    BY HostIs, KernelAssumption DEF SeenType
  <2>3. /\ printed \in [Cells -> 0..MaxPrints] /\ printed[c] = seen.printed[c] + 1
        /\ \A d \in Cells \ {c} : printed[d] = seen.printed[d]
    BY <1>1, <2>2
  <2> HIDE DEF printed
  <2> QED BY <2>1, <2>3, HostIs DEF SeenType
<1>4. Steps(c) /\ kernel'.cell = c
  BY <1>1, <1>3, KernelIs DEF Steps
<1>5. Adds([kind |-> "stream", cell |-> c])
  BY PublishOne DEF PrintLine, KernelTypes, Messages
<1>6. AwaitedOnes'
  <2>1. c # NoCell /\ Coming(c) <= kernel.waits
    BY <1>1, StepsFrom DEF AwaitedOnes
  <2>2. CountIn(iopub', Awaits(c)) = CountIn(iopub, Awaits(c))
    <3>1. [kind |-> "stream", cell |-> c] \notin Awaits(c)
      BY DEF Awaits
    <3>2. CountIn(iopub, Awaits(c)) \in Nat
      BY PlacesFinite DEF KernelTypes
    <3> QED BY <1>5, <3>1, <3>2 DEF Adds
  <2> QED BY <1>1, <2>1, <2>2 DEF AwaitedOnes, Coming, Awaits, Replies
<1> QED BY <1>2, <1>3, <1>4, <1>5, <1>6, AddsKeep

LEMMA MarkKeeps ==
  ASSUME KernelInv, NEW c \in Cells, Mark(c)
  PROVE  KernelInv'
<1> USE DEF KernelInv
<1>1. kernel.cell = c /\ UNCHANGED <<host, pending, kernel, shell, control>>
  BY DEF Mark, Running
<1>2. /\ seen' \in SeenType
      /\ seen'.printed = seen.printed
      /\ seen'.result = seen.result /\ seen'.purpose = seen.purpose
      /\ seen'.hookOf = seen.hookOf /\ seen'.wrong = seen.wrong /\ seen'.missed = seen.missed
      /\ seen'.asking = seen.asking /\ seen'.marked = seen.marked \cup {c}
  BY HostIs DEF Mark, SeenType
<1>3. Steps(c) /\ kernel'.cell = c
  BY <1>1, <1>2, KernelIs DEF Steps
<1>4. Adds([kind |-> "mark", cell |-> c])
  BY PublishOne DEF Mark, KernelTypes, Messages
<1>5. AwaitedOnes'
  <2>1. c # NoCell /\ Coming(c) <= kernel.waits
    BY <1>1, StepsFrom DEF AwaitedOnes
  <2>2. CountIn(iopub', Awaits(c)) = CountIn(iopub, Awaits(c))
    <3>1. [kind |-> "mark", cell |-> c] \notin Awaits(c)
      BY DEF Awaits
    <3>2. CountIn(iopub, Awaits(c)) \in Nat
      BY PlacesFinite DEF KernelTypes
    <3> QED BY <1>4, <3>1, <3>2 DEF Adds
  <2> QED BY <1>1, <2>1, <2>2 DEF AwaitedOnes, Coming, Awaits, Replies
<1> QED BY <1>2, <1>3, <1>4, <1>5, AddsKeep

(* A request that is awaited adds one that is coming and one waited for.   *)
LEMMA AskKeeps ==
  ASSUME KernelInv, NEW c \in Cells, Ask(c)
  PROVE  KernelInv'
<1> USE DEF KernelInv
<1>1. /\ kernel.cell = c /\ kernel.asked < MaxAsks /\ c \notin seen.marked
      /\ UNCHANGED <<host, pending, shell, control>>
  BY KernelIs DEF Ask
<1>2. PICK awaits \in BOOLEAN :
        /\ kernel' = [kernel EXCEPT !.asked = @ + 1, !.waits = IF awaits THEN @ + 1 ELSE @]
        /\ Publish(<<IF awaits THEN "await" ELSE "ask">>, c)
  BY DEF Ask
<1>3. c # NoCell /\ Coming(c) <= kernel.waits /\ kernel.waits <= kernel.asked
  BY <1>1, StepsFrom DEF AwaitedOnes
<1>4. /\ kernel' \in KernelType /\ kernel'.heard = kernel.heard /\ kernel'.cell = c
      /\ kernel'.asked = kernel.asked + 1
      /\ kernel'.waits = kernel.waits + (IF awaits THEN 1 ELSE 0)
  <2> DEFINE waits == IF awaits THEN kernel.waits + 1 ELSE kernel.waits
             k1 == [kernel EXCEPT !.asked = kernel.asked + 1]
  <2>1. kernel' = [k1 EXCEPT !.waits = waits]
    BY <1>2
  <2>2. kernel.asked + 1 \in 0..MaxAsks /\ waits \in 0..MaxAsks
        /\ waits = kernel.waits + (IF awaits THEN 1 ELSE 0)
    BY <1>1, <1>3, KernelIs
  <2> HIDE DEF waits
  <2>3. k1 \in KernelType /\ k1.heard = kernel.heard /\ k1.cell = c /\ k1.asked = kernel.asked + 1
    BY <1>1, <2>2, KernelIs DEF KernelType
  <2> HIDE DEF k1
  <2> QED BY <2>1, <2>2, <2>3 DEF KernelType
<1>5. /\ seen' \in SeenType
      /\ seen'.printed = seen.printed
      /\ seen'.result = seen.result /\ seen'.purpose = seen.purpose
      /\ seen'.hookOf = seen.hookOf /\ seen'.wrong = seen.wrong /\ seen'.missed = seen.missed
      /\ seen'.asking = seen.asking \cup {c} /\ seen'.marked = seen.marked
  BY HostIs DEF Ask, SeenType
<1>6. Steps(c) /\ kernel'.cell = c
  BY <1>1, <1>4, <1>5 DEF Steps
<1>7. PICK kind \in {"ask", "await"} : kind = IF awaits THEN "await" ELSE "ask"
  OBVIOUS
<1>8. Adds([kind |-> kind, cell |-> c])
  <2>1. [kind |-> kind, cell |-> c] \in Messages /\ iopub \in Seq(Messages)
    BY DEF Messages, KernelTypes
  <2>2. Publish(<<kind>>, c)
    BY <1>2, <1>7
  <2> QED BY <2>1, <2>2, PublishOne
<1>9. AwaitedOnes'
  <2> DEFINE m == [kind |-> kind, cell |-> c]
  <2>1. CountIn(iopub', Awaits(c))
          = CountIn(iopub, Awaits(c)) + (IF kernel.heard /\ m \in Awaits(c) THEN 1 ELSE 0)
    BY <1>8 DEF Adds
  <2>2. m \in Awaits(c) => awaits
    BY <1>7 DEF Awaits
  <2>3. CountIn(iopub, Awaits(c)) \in Nat /\ CountIn(control, Replies(c)) \in Nat
    BY PlacesFinite DEF KernelTypes
  <2> HIDE DEF m
  <2>4. CountIn(iopub', Awaits(c)) \in Nat
        /\ CountIn(iopub', Awaits(c)) <= CountIn(iopub, Awaits(c)) + (IF awaits THEN 1 ELSE 0)
    BY <2>1, <2>2, <2>3
  <2>5. Coming(c)' <= Coming(c) + (IF awaits THEN 1 ELSE 0)
    BY <1>1, <2>3, <2>4 DEF Coming, Awaits, Replies
  <2>6. Coming(c) \in Nat /\ Coming(c)' \in Nat
    BY <1>1, <2>3, <2>4 DEF Coming, Awaits, Replies
  <2>7. Coming(c)' <= kernel'.waits /\ kernel'.waits <= kernel'.asked
    BY <1>3, <1>4, <2>5, <2>6, KernelIs
  <2> QED BY <1>1, <1>3, <1>4, <2>7 DEF AwaitedOnes
<1> QED BY <1>1, <1>5, <1>6, <1>8, <1>9, AddsKeep

(* The cell ends: what it came to is among what is published, if it was a  *)
(* tool call's and came to something.                                      *)
LEMMA EndsKeep ==
  ASSUME KernelInv, NEW c \in Cells, Steps(c), Grows, Returned', iopub' # <<>> => kernel.heard,
         kernel'.cell = NoCell, kernel'.waits = 0, kernel'.asked = 0,
         seen'.printed = seen.printed, seen'.marked = seen.marked,
         \A i : New(i) => iopub'[i].kind \in {"result", "error", "idle"},
         seen.purpose[c] = "tool" =>
           /\ \A i : New(i) /\ iopub'[i].kind \in {"result", "error"} =>
                iopub'[i].kind = seen'.result[c]
           /\ \/ seen'.result[c] = seen.result[c]
              \/ \E i : /\ New(i) /\ iopub'[i].cell = c
                        /\ iopub'[i].kind \in {"result", "error"},
         \A i : New(i) /\ iopub'[i].kind \in {"result", "error"} => iopub'[i].cell = c
  PROVE  KernelInv'
<1> USE DEF KernelInv
<1>1. /\ KernelTypes' /\ InTurn' /\ Untouched' /\ Heard' /\ Vetted' /\ seen'.wrong = {}
  BY StepsKeep
<1>2. AwaitedOnes'
  BY DEF AwaitedOnes
<1>3. AtHand'
  <2>1. CASE ~Reading
    BY <2>1 DEF AtHand, Reading, Steps
  <2>2. CASE Reading
    <3>1. MakesUp /\ host.sent \in Cells
      BY <2>2 DEF AtHand, MakesUp
    <3>2. CountIn(iopub', Streams(host.sent)) = CountIn(iopub, Streams(host.sent))
      <4>1. \A i \in 1..Len(iopub') : i > Len(iopub) => iopub'[i] \notin Streams(host.sent)
        BY DEF New, Streams
      <4>2. /\ iopub \in Seq(Messages) /\ iopub' \in Seq(Messages)
            /\ Len(iopub) <= Len(iopub') /\ \A i \in 1..Len(iopub) : iopub'[i] = iopub[i]
        BY DEF Grows, KernelTypes
      <4> HIDE DEF KernelInv
      <4> QED BY <4>1, <4>2, CountLonger
    <3>3. host.out + CountIn(iopub', Streams(host.sent)) = seen'.printed[host.sent]
      BY <3>1, <3>2 DEF MakesUp
    <3>4. \A i : New(i) => iopub'[i].kind # "torn"
      OBVIOUS
    <3>5. ASSUME host.purpose = "tool"
          PROVE  /\ kernel'.cell = host.sent => seen'.result[host.sent] = "none"
                 /\ \A i : New(i) /\ iopub'[i].cell = host.sent
                                  /\ iopub'[i].kind \in {"result", "error"} =>
                      iopub'[i].kind = seen'.result[host.sent]
                 /\ \/ seen'.result[host.sent] = seen.result[host.sent]
                    \/ /\ host.sent = c
                       /\ \E i : /\ New(i) /\ iopub'[i].cell = host.sent
                                 /\ iopub'[i].kind \in {"result", "error"}
      <4>1. kernel'.cell # host.sent
        BY <3>1 DEF NoCell, Cells
      <4>2. CASE host.sent = c
        <5>1. seen.purpose[c] = "tool"
          BY <3>1, <3>5, <4>2 DEF MakesUp
        <5> QED BY <4>1, <4>2, <5>1
      <4>3. CASE host.sent # c
        <5>1. seen'.result[host.sent] = seen.result[host.sent]
          BY <3>1, <4>3 DEF Steps
        <5> QED BY <4>1, <4>3, <5>1
      <4> QED BY <4>2, <4>3
    <3>6. MakesUp'
      <4>1. host.sent \in seen'.marked => host.sent \in seen.marked
        OBVIOUS
      <4> QED BY <3>1, <3>3, <3>4, <3>5, <4>1, GrowsMakesUp
    <3> QED BY <2>2, <3>6 DEF AtHand, Reading, Steps
  <2> QED BY <2>1, <2>2
<1> QED BY <1>1, <1>2, <1>3

LEMMA EndFields ==
  ASSUME KernelInv, NEW c \in Cells, End(c)
  PROVE  /\ kernel.cell = c /\ kernel' \in KernelType /\ kernel'.heard = kernel.heard
         /\ kernel'.cell = NoCell /\ kernel'.waits = 0 /\ kernel'.asked = 0
         /\ UNCHANGED <<host, pending, control>>
<1>1. kernel.cell = c /\ kernel.waits = 0 /\ UNCHANGED <<host, pending, control>>
  BY DEF End, Running
<1> DEFINE k1 == [kernel EXCEPT !.cell = NoCell]
<1>2. kernel' = [k1 EXCEPT !.asked = 0]
  BY DEF End
<1>3. k1 \in KernelType /\ k1.heard = kernel.heard /\ k1.cell = NoCell /\ k1.waits = 0
  BY <1>1, KernelIs DEF KernelType, NoCell
<1> HIDE DEF k1
<1> QED BY <1>1, <1>2, <1>3, KernelIs DEF KernelType

(* The cell returns nothing.                                               *)
LEMMA EndSilentKeeps ==
  ASSUME KernelInv, NEW c \in Cells, End(c), Publish(<<"idle">>, c), UNCHANGED <<shell, seen>>
  PROVE  KernelInv'
<1>1. Adds([kind |-> "idle", cell |-> c])
  BY PublishOne DEF KernelInv, KernelTypes, Messages
<1>2. Steps(c)
  BY EndFields, HostIs DEF Steps
<1>3. Grows /\ \A i : New(i) => iopub'[i] = [kind |-> "idle", cell |-> c]
  BY <1>1 DEF Adds
<1>4. \A i : New(i) => iopub'[i].kind = "idle" /\ iopub'[i].cell = c
  BY <1>3
<1>5. \A i, j : New(i) /\ New(j) => ~(i < j)
  <2> SUFFICES ASSUME NEW i, NEW j, New(i), New(j) PROVE ~(i < j)
    OBVIOUS
  <2>1. i = j
    BY <1>1 DEF Adds
  <2>2. i \in Int
    BY DEF New
  <2> QED BY <2>1, <2>2
<1>6. Returned'
  BY <1>2, <1>3, <1>4, <1>5, EndFields, GrowsReturned
<1>7. iopub' # <<>> => kernel.heard
  BY <1>1 DEF Adds, KernelInv, Heard
<1> QED BY <1>2, <1>3, <1>4, <1>6, <1>7, EndFields, EndsKeep

(* A tool call's cell returns something.                                   *)
LEMMA EndResultKeeps ==
  ASSUME KernelInv, NEW c \in Cells, End(c), seen.purpose[c] = "tool",
         Publish(<<"result", "idle">>, c), seen' = [seen EXCEPT !.result[c] = "result"],
         UNCHANGED shell
  PROVE  KernelInv'
<1> DEFINE r == [kind |-> "result", cell |-> c]
           e == [kind |-> "idle", cell |-> c]
<1>1. kernel.heard
  BY EndFields, StepsFrom
<1>2. r \in Messages /\ e \in Messages /\ r.kind = "result" /\ e.kind = "idle"
      /\ r.cell = c /\ e.cell = c
  BY DEF Messages
<1>3. [i \in DOMAIN <<"result", "idle">> |-> [kind |-> <<"result", "idle">>[i], cell |-> c]]
        = <<r, e>>
  OBVIOUS
<1> HIDE DEF r, e
<1>4. iopub' = iopub \o <<r, e>> /\ iopub \in Seq(Messages)
  BY <1>1, <1>3 DEF Publish, KernelInv, KernelTypes
<1>5. /\ Grows /\ Len(iopub') = Len(iopub) + 2
      /\ iopub'[Len(iopub) + 1] = r /\ iopub'[Len(iopub) + 2] = e
  BY <1>2, <1>4 DEF Grows
<1>6. /\ New(Len(iopub) + 1)
      /\ \A i : New(i) => i = Len(iopub) + 1 \/ i = Len(iopub) + 2
  BY <1>5 DEF New, Grows
<1>7. \A i : New(i) => /\ iopub'[i].cell = c /\ iopub'[i].kind \in {"result", "idle"}
  BY <1>2, <1>5, <1>6
<1>8. ASSUME NEW i, NEW j, New(i), New(j), i < j, iopub'[i].kind = "idle"
      PROVE  FALSE
  <2>1. i = Len(iopub) + 1
    BY <1>5, <1>6, <1>8 DEF Grows
  <2> QED BY <1>2, <1>5, <1>8, <2>1
<1>9. /\ seen' \in SeenType
      /\ seen'.printed = seen.printed /\ seen'.result[c] = "result"
      /\ \A d \in Cells \ {c} : seen'.result[d] = seen.result[d]
      /\ seen'.purpose = seen.purpose
      /\ seen'.hookOf = seen.hookOf /\ seen'.wrong = seen.wrong /\ seen'.missed = seen.missed
      /\ seen'.asking = seen.asking /\ seen'.marked = seen.marked
  <2> DEFINE results == [seen.result EXCEPT ![c] = "result"]
  <2>1. seen' = [seen EXCEPT !.result = results]
    OBVIOUS
  <2>2. /\ results \in [Cells -> Results] /\ results[c] = "result"
        /\ \A d \in Cells \ {c} : results[d] = seen.result[d]
    BY HostIs DEF SeenType, Results
  <2> HIDE DEF results
  <2> QED BY <2>1, <2>2, HostIs DEF SeenType
<1>10. Steps(c)
  BY <1>9, EndFields, HostIs DEF Steps
<1>11. Returned'
  BY <1>5, <1>7, <1>8, <1>10, EndFields, GrowsReturned
<1>12. \A i : New(i) /\ iopub'[i].kind \in {"result", "error"} => iopub'[i].kind = "result"
  BY <1>7
<1>13. \E i : New(i) /\ iopub'[i].cell = c /\ iopub'[i].kind \in {"result", "error"}
  BY <1>2, <1>5, <1>6
<1>14. \A i : New(i) => iopub'[i].kind \in {"result", "error", "idle"}
  BY <1>7
<1> QED BY ZenonT(30), <1>1, <1>5, <1>7, <1>9, <1>10, <1>11, <1>12, <1>13, <1>14, EndFields, EndsKeep

Idles(c) == [kind |-> "idle", cell |-> c]

(* With an error, the requests behind are aborted: each is idle, in turn.  *)
Aborts(c) ==
  iopub' = IF kernel.heard
             THEN iopub \o <<[kind |-> "error", cell |-> c], Idles(c)>>
                        \o [i \in DOMAIN shell |-> Idles(shell[i])]
             ELSE iopub

LEMMA AbortsFacts ==
  ASSUME KernelInv, NEW c \in Cells, Aborts(c), kernel.heard
  PROVE  /\ Grows /\ Len(iopub') = Len(iopub) + 2 + Len(shell)
         /\ iopub'[Len(iopub) + 1] = [kind |-> "error", cell |-> c]
         /\ iopub'[Len(iopub) + 2] = Idles(c)
         /\ \A k \in 1..Len(shell) : iopub'[Len(iopub) + 2 + k] = Idles(shell[k])
<1> DEFINE r == [kind |-> "error", cell |-> c]
           tail == [i \in DOMAIN shell |-> Idles(shell[i])]
           head == iopub \o <<r, Idles(c)>>
<1>1. /\ shell \in Seq(Cells) /\ iopub \in Seq(Messages)
      /\ Len(shell) \in Nat /\ Len(iopub) \in Nat /\ DOMAIN shell = 1..Len(shell)
  BY DEF KernelInv, KernelTypes
<1>2. r \in Messages /\ \A d \in Cells : Idles(d) \in Messages
  BY DEF Messages, Idles
<1>3. /\ tail \in Seq(Messages) /\ Len(tail) = Len(shell)
      /\ \A k \in 1..Len(shell) : tail[k] = Idles(shell[k])
  <2>1. \A k \in 1..Len(shell) : Idles(shell[k]) \in Messages
    BY <1>1, <1>2
  <2> QED BY <1>1, <2>1
<1>4. iopub' = head \o tail
  BY DEF Aborts
<1> HIDE DEF r, tail
<1>5. /\ head \in Seq(Messages) /\ Len(head) = Len(iopub) + 2
      /\ head[Len(iopub) + 1] = r /\ head[Len(iopub) + 2] = Idles(c)
      /\ \A i \in 1..Len(iopub) : head[i] = iopub[i]
  BY <1>1, <1>2
<1> HIDE DEF head
<1>6. /\ iopub' \in Seq(Messages) /\ Len(iopub') = Len(iopub) + 2 + Len(shell)
      /\ \A i \in 1..(Len(iopub) + 2) : iopub'[i] = head[i]
      /\ \A k \in 1..Len(shell) : iopub'[Len(iopub) + 2 + k] = tail[k]
  <2>1. /\ Len(head \o tail) = Len(head) + Len(tail) /\ head \o tail \in Seq(Messages)
        /\ \A i \in 1..(Len(head) + Len(tail)) :
             (head \o tail)[i] = IF i <= Len(head) THEN head[i] ELSE tail[i - Len(head)]
    <3>1. PICK s1 \in Seq(Messages), s2 \in Seq(Messages) : s1 = head /\ s2 = tail
      BY <1>3, <1>5
    <3>2. /\ s1 \o s2 \in Seq(Messages) /\ Len(s1 \o s2) = Len(s1) + Len(s2)
          /\ \A i \in 1..(Len(s1) + Len(s2)) :
               (s1 \o s2)[i] = IF i <= Len(s1) THEN s1[i] ELSE s2[i - Len(s1)]
      BY ConcatProperties
    <3> QED BY <3>1, <3>2
  <2> QED BY <1>1, <1>3, <1>4, <1>5, <2>1
<1>7. Grows
  BY <1>1, <1>5, <1>6 DEF Grows
<1>8. iopub'[Len(iopub) + 1] = r /\ iopub'[Len(iopub) + 2] = Idles(c)
  <2>1. Len(iopub) + 1 \in 1..(Len(iopub) + 2) /\ Len(iopub) + 2 \in 1..(Len(iopub) + 2)
    BY <1>1
  <2> QED BY <1>5, <1>6, <2>1
<1>9. \A k \in 1..Len(shell) : iopub'[Len(iopub) + 2 + k] = Idles(shell[k])
  BY <1>3, <1>6
<1> QED BY <1>6, <1>7, <1>8, <1>9 DEF r

LEMMA EndErrorKeeps ==
  ASSUME KernelInv, NEW c \in Cells, End(c), shell' = <<>>, Aborts(c),
         seen' = [seen EXCEPT !.result[c] = IF seen.purpose[c] = "tool" THEN "error" ELSE @]
  PROVE  KernelInv'
<1>1. /\ seen' \in SeenType
      /\ seen'.printed = seen.printed
      /\ seen'.result[c] = IF seen.purpose[c] = "tool" THEN "error" ELSE seen.result[c]
      /\ \A d \in Cells \ {c} : seen'.result[d] = seen.result[d]
      /\ seen'.purpose = seen.purpose
      /\ seen'.hookOf = seen.hookOf /\ seen'.wrong = seen.wrong /\ seen'.missed = seen.missed
      /\ seen'.asking = seen.asking /\ seen'.marked = seen.marked
  <2> DEFINE result == IF seen.purpose[c] = "tool" THEN "error" ELSE seen.result[c]
             results == [seen.result EXCEPT ![c] = result]
  <2>1. seen' = [seen EXCEPT !.result = results]
    OBVIOUS
  <2>2. result \in Results
    BY HostIs DEF SeenType, Results
  <2> HIDE DEF result
  <2>3. /\ results \in [Cells -> Results] /\ results[c] = result
        /\ \A d \in Cells \ {c} : results[d] = seen.result[d]
    BY <2>2, HostIs DEF SeenType
  <2> HIDE DEF results
  <2> QED BY <2>1, <2>3, HostIs DEF SeenType, result
<1>2. Steps(c)
  BY <1>1, EndFields DEF Steps
<1>3. CASE kernel.heard
  <2> DEFINE n == Len(iopub)
  <2>1. /\ Grows /\ Len(iopub') = n + 2 + Len(shell)
        /\ iopub'[n + 1] = [kind |-> "error", cell |-> c] /\ iopub'[n + 2] = Idles(c)
        /\ \A k \in 1..Len(shell) : iopub'[n + 2 + k] = Idles(shell[k])
    BY <1>3, AbortsFacts
  <2>2. n \in Nat /\ Len(shell) \in Nat
    BY DEF KernelInv, KernelTypes
  <2>3. \A i : New(i) => \/ i = n + 1 \/ i = n + 2
                         \/ i - n - 2 \in 1..Len(shell) /\ i = n + 2 + (i - n - 2)
    BY <2>1, <2>2 DEF New
  <2>4. New(n + 1)
    BY <2>1, <2>2 DEF New
  <2>5. /\ iopub'[n + 1].kind = "error" /\ iopub'[n + 1].cell = c
        /\ iopub'[n + 2].kind = "idle" /\ iopub'[n + 2].cell = c
        /\ \A k \in 1..Len(shell) : /\ iopub'[n + 2 + k].kind = "idle"
                                    /\ iopub'[n + 2 + k].cell = shell[k]
    <3>1. \A d : Idles(d).kind = "idle" /\ Idles(d).cell = d
      BY DEF Idles
    <3> QED BY <2>1, <3>1
  <2>6. \A i : New(i) =>
          /\ iopub'[i].cell = c \/ InShell(iopub'[i].cell)
          /\ iopub'[i].kind \in {"error", "idle"}
          /\ iopub'[i].kind = "error" => iopub'[i].cell = c
    <3> SUFFICES ASSUME NEW i, New(i)
                 PROVE  /\ iopub'[i].cell = c \/ InShell(iopub'[i].cell)
                        /\ iopub'[i].kind \in {"error", "idle"}
                        /\ iopub'[i].kind = "error" => iopub'[i].cell = c
      OBVIOUS
    <3>1. CASE i = n + 1 \/ i = n + 2
      BY <2>5, <3>1
    <3>2. ASSUME NEW k \in 1..Len(shell), i = n + 2 + k
          PROVE  iopub'[i].kind = "idle" /\ InShell(iopub'[i].cell)
      BY <2>5, <3>2 DEF InShell
    <3> QED BY <2>3, <3>1, <3>2
  <2>7. ASSUME NEW i, NEW j, New(i), New(j), i < j, iopub'[i].kind = "idle"
        PROVE  iopub'[j].cell # iopub'[i].cell
    <3>1. i \in Int /\ j \in Int
      BY <2>7 DEF New
    <3>2. i # n + 1
      BY <2>5, <2>7
    <3>3. \A k \in 1..Len(shell) : shell[k] \in Nat /\ c < shell[k]
      BY SMTT(20), <1>2, HostIs DEF KernelInv, KernelTypes, InTurn, Cells, Steps
    <3>4. PICK l \in 1..Len(shell) : j = n + 2 + l
      BY SMTT(20), <2>2, <2>3, <2>7, <3>1, <3>2
    <3>5. iopub'[j].cell = shell[l]
      BY <2>5, <3>4
    <3>6. CASE i = n + 2
      BY <2>5, <3>3, <3>5, <3>6, StepsFrom, <1>2 DEF Steps
    <3>7. CASE i # n + 2
      <4>1. PICK k \in 1..Len(shell) : i = n + 2 + k
        BY <2>3, <2>7, <3>2, <3>7
      <4>2. k < l
        BY <2>2, <2>7, <3>4, <4>1
      <4>3. shell[k] < shell[l]
        BY <4>2 DEF KernelInv, InTurn
      <4> QED BY <2>5, <3>3, <3>5, <4>1, <4>3
    <3> QED BY <3>6, <3>7
  <2>8. Returned'
    <3>1. kernel'.cell = NoCell
      BY EndFields
    <3> QED BY <1>2, <2>1, <2>6, <2>7, <3>1, GrowsReturned
  <2>9. \A i : New(i) /\ iopub'[i].kind \in {"result", "error"} =>
          iopub'[i].kind = "error" /\ iopub'[i].cell = c
    BY <2>6
  <2>10. \A i : New(i) => iopub'[i].kind \in {"result", "error", "idle"}
    BY <2>6
  <2>11. \E i : New(i) /\ iopub'[i].cell = c /\ iopub'[i].kind \in {"result", "error"}
    BY <2>4, <2>5
  <2> QED BY ZenonT(30), <1>1, <1>2, <1>3, <2>1, <2>8, <2>9, <2>10, <2>11, EndFields, EndsKeep
<1>4. CASE ~kernel.heard
  <2>1. iopub' = iopub /\ iopub \in Seq(Messages) /\ Len(iopub) \in Nat
    BY <1>4 DEF Aborts, KernelInv, KernelTypes
  <2>2. Grows /\ \A i : ~New(i)
    BY <2>1 DEF Grows, New
  <2>3. Returned'
    BY <1>2, <2>2, GrowsReturned
  <2>4. seen.purpose[c] # "tool"
    BY <1>4, EndFields, StepsFrom
  <2>5. iopub' # <<>> => kernel.heard
    BY <2>1 DEF KernelInv, Heard
  <2> QED BY <1>1, <1>2, <2>2, <2>3, <2>4, <2>5, EndFields, EndsKeep
<1> QED BY <1>3, <1>4

LEMMA EndKeeps ==
  ASSUME KernelInv, NEW c \in Cells, End(c)
  PROVE  KernelInv'
<1>1. CASE Publish(<<"idle">>, c) /\ UNCHANGED <<shell, seen>>
  BY <1>1, EndSilentKeeps
<1>2. CASE /\ seen.purpose[c] = "tool"
           /\ Publish(<<"result", "idle">>, c)
           /\ seen' = [seen EXCEPT !.result[c] = "result"]
           /\ UNCHANGED shell
  BY <1>2, EndResultKeeps
<1>3. CASE /\ shell' = <<>>
           /\ seen' = [seen EXCEPT !.result[c] = IF seen.purpose[c] = "tool" THEN "error" ELSE @]
           /\ Aborts(c)
  BY <1>3, EndErrorKeeps
<1> QED BY <1>1, <1>2, <1>3 DEF End, Aborts, Idles

(* The next cell begins, and nothing is coming for it yet.                 *)
LEMMA TakeKeeps ==
  ASSUME KernelInv, Take
  PROVE  KernelInv'
<1> USE DEF KernelInv
<1> DEFINE c == Head(shell)
<1>1. /\ shell \in Seq(Cells) /\ shell # <<>> /\ shell' = Tail(shell) /\ kernel.cell = NoCell
      /\ UNCHANGED <<host, pending, iopub, control, seen>>
  BY DEF Take, KernelTypes
<1>2. /\ shell' \in Seq(Cells) /\ c = shell[1] /\ c \in Cells
      /\ Len(shell) \in Nat /\ 1 \in 1..Len(shell) /\ Len(shell') = Len(shell) - 1
      /\ \A i \in 1..Len(shell') : shell'[i] = shell[i + 1] /\ i + 1 \in 1..Len(shell)
  BY <1>1, TailFacts
<1>3. /\ kernel' \in KernelType /\ kernel'.heard = kernel.heard /\ kernel'.cell = c
      /\ kernel'.asked = 0 /\ kernel'.waits = 0
  <2> DEFINE k1 == [kernel EXCEPT !.cell = c]
             k2 == [k1 EXCEPT !.asked = 0]
  <2>1. kernel' = [k2 EXCEPT !.waits = 0] /\ c \in 0..MaxCells
    BY <1>2, KernelIs DEF Take, Cells
  <2>2. k1 \in KernelType /\ k1.heard = kernel.heard /\ k1.cell = c
    BY <2>1, KernelIs DEF KernelType
  <2> HIDE DEF k1, c
  <2>3. k2 \in KernelType /\ k2.heard = kernel.heard /\ k2.cell = c /\ k2.asked = 0
    BY <2>2, KernelIs DEF KernelType
  <2> HIDE DEF k2
  <2> QED BY <2>1, <2>3, KernelIs DEF KernelType
<1> HIDE DEF c
<1>4. InShell(c) /\ \A d : InShell(d)' => InShell(d)
  BY <1>2 DEF InShell
<1>5. KernelTypes'
  BY <1>1, <1>2, <1>3 DEF KernelTypes, KernelType
<1>6. InTurn'
  <2>1. c <= host.sent
    BY <1>2 DEF InTurn
  <2>2. \A i \in 1..Len(shell') : shell'[i] <= host.sent /\ c < shell'[i]
    <3> SUFFICES ASSUME NEW i \in 1..Len(shell')
                 PROVE  shell'[i] <= host.sent /\ c < shell'[i]
      OBVIOUS
    <3>1. shell'[i] = shell[i + 1] /\ i + 1 \in 1..Len(shell) /\ 1 < i + 1
      BY <1>2
    <3> QED BY <1>2, <3>1 DEF InTurn
  <2>3. \A i, j \in 1..Len(shell') : i < j => shell'[i] < shell'[j]
    <3> SUFFICES ASSUME NEW i \in 1..Len(shell'), NEW j \in 1..Len(shell'), i < j
                 PROVE  shell'[i] < shell'[j]
      OBVIOUS
    <3>1. /\ shell'[i] = shell[i + 1] /\ i + 1 \in 1..Len(shell)
          /\ shell'[j] = shell[j + 1] /\ j + 1 \in 1..Len(shell) /\ i + 1 < j + 1
      BY <1>2
    <3> QED BY <3>1 DEF InTurn
  <2> QED BY <1>1, <1>3, <2>1, <2>2, <2>3 DEF InTurn
<1>7. Untouched'
  BY <1>1, <1>4 DEF Untouched
<1>8. Returned'
  <2>1. \A i \in 1..Len(iopub) : ~InShell(iopub[i].cell)
    BY DEF Returned
  <2>2. \A i \in 1..Len(iopub) : iopub[i].cell # c /\ ~InShell(iopub[i].cell)'
    BY <1>1, <1>4, <2>1
  <2> QED BY <1>1, <1>3, <2>2 DEF Returned
<1>9. Heard'
  BY <1>1, <1>3 DEF Heard, Booted
<1>10. AtHand'
  <2>1. seen.result[c] = "none"
    BY <1>2, <1>4 DEF Untouched
  <2>2. MakesUp => MakesUp'
    BY <1>1, <1>3, <2>1 DEF MakesUp
  <2> QED BY <1>1, <2>2 DEF AtHand, Reading
<1>11. Vetted'
  <2>1. \A h \in Cells : Cleared(h) => Cleared(h)'
    BY <1>1, <1>3, <1>4 DEF Cleared
  <2> QED BY <1>1, <2>1, VettedCells DEF Vetted, Booted, HookOf
<1>12. AwaitedOnes'
  <2>1. c \notin seen.asking
    BY <1>2, <1>4 DEF Untouched
  <2>2. CountIn(iopub, Awaits(c)) = 0
    <3>1. \A i \in 1..Len(iopub) : iopub[i] \notin Awaits(c)
      <4> SUFFICES ASSUME NEW i \in 1..Len(iopub), iopub[i] = [kind |-> "await", cell |-> c]
                   PROVE  FALSE
        BY DEF Awaits
      <4>1. iopub[i].kind = "await" /\ iopub[i].cell = c
        OBVIOUS
      <4> QED BY <2>1, <4>1 DEF Returned
    <3> QED BY <3>1, CountNone DEF KernelTypes
  <2>3. CountIn(control, Replies(c)) = 0
    <3>1. \A i \in 1..Len(control) : control[i] \notin Replies(c)
      <4> SUFFICES ASSUME NEW i \in 1..Len(control), control[i] = [cell |-> c, awaited |-> TRUE]
                   PROVE  FALSE
        BY DEF Replies
      <4>1. control[i].cell = c
        OBVIOUS
      <4> QED BY <2>1, <4>1 DEF Returned
    <3> QED BY <3>1, CountNone DEF KernelTypes
  <2>4. ~(host.stage = "handle" /\ host.awaited /\ host.drains = c)
    BY <2>1 DEF AtHand, Reading, MakesUp
  <2>5. PICK d \in Cells : d = c
    BY <1>2
  <2>6. Coming(d)' = 0
    BY <1>1, <2>2, <2>3, <2>4, <2>5 DEF Coming, Awaits, Replies
  <2>7. Coming(kernel.cell)' = Coming(d)'
    BY <1>3, <2>5 DEF Coming
  <2> QED BY <1>3, <2>6, <2>7 DEF AwaitedOnes
<1> QED BY <1>1, <1>5, <1>6, <1>7, <1>8, <1>9, <1>10, <1>11, <1>12

(* A reply is read: it is one the cell waits for, or it is nobody's.       *)
LEMMA ResolveKeeps ==
  ASSUME KernelInv, Resolve
  PROVE  KernelInv'
<1> USE DEF KernelInv
<1> DEFINE R == [cell : Cells, awaited : BOOLEAN]
           reply == Head(control)
           k == kernel.cell
<1>1. /\ control \in Seq(R) /\ control # <<>> /\ control' = Tail(control)
      /\ UNCHANGED <<host, pending, shell, iopub, seen>>
  BY DEF Resolve, KernelTypes
<1>2. reply \in [cell : Cells, awaited : BOOLEAN]
  <2> HIDE DEF R
  <2>1. reply \in R
    BY <1>1, TailFacts
  <2> QED BY <2>1 DEF R
<1> HIDE DEF R
<1>3. /\ control' \in Seq(R)
      /\ \A i \in 1..Len(control') : control'[i] = control[i + 1] /\ i + 1 \in 1..Len(control)
  BY <1>1, TailFacts
<1>4. /\ CountIn(control, Replies(k))
           = CountIn(control', Replies(k)) + (IF reply \in Replies(k) THEN 1 ELSE 0)
      /\ CountIn(control', Replies(k)) \in Nat
  BY <1>1, <1>3, CountTail, PlacesFinite
<1>5. Answers(reply) <=> reply \in Replies(k)
  <2> HIDE DEF reply, k
  <2>1. reply = [cell |-> reply.cell, awaited |-> reply.awaited] /\ reply.awaited \in BOOLEAN
    BY <1>2
  <2> QED BY <2>1 DEF Answers, Replies, k
<1>6. CountIn(iopub, Awaits(k)) \in Nat
  BY PlacesFinite DEF KernelTypes
<1>7. /\ Coming(k)' \in Nat
      /\ Coming(k) = Coming(k)' + (IF Answers(reply) THEN 1 ELSE 0)
  <2>1. Coming(k)' = CountIn(control', Replies(k)) + CountIn(iopub, Awaits(k))
                     + (IF host.stage = "handle" /\ host.awaited /\ host.drains = k THEN 1 ELSE 0)
        \/ kernel'.cell # k
    BY <1>1 DEF Coming, Awaits, Replies
  <2>2. kernel'.cell = k
    BY KernelIs DEF Resolve, KernelType
  <2> QED BY <1>4, <1>5, <1>6, <2>1, <2>2 DEF Coming
<1>8. /\ kernel' \in KernelType /\ kernel'.heard = kernel.heard /\ kernel'.cell = k
      /\ kernel'.asked = kernel.asked
      /\ kernel'.waits = kernel.waits - (IF Answers(reply) THEN 1 ELSE 0)
  <2>1. CASE Answers(reply)
    <3>1. k # NoCell
      BY <1>2, <2>1 DEF Answers, NoCell, Cells
    <3>2. Coming(k) <= kernel.waits /\ Coming(k) >= 1
      BY <1>7, <2>1, <3>1 DEF AwaitedOnes
    <3>3. kernel.waits >= 1
      BY <1>7, <2>1, <3>2, KernelIs
    <3>4. kernel' = [kernel EXCEPT !.waits = kernel.waits - 1]
      BY <2>1 DEF Resolve
    <3> QED BY <2>1, <3>3, <3>4, KernelIs DEF KernelType
  <2>2. CASE ~Answers(reply)
    <3>1. kernel' = kernel
      BY <2>2 DEF Resolve
    <3> QED BY <2>2, <3>1, KernelIs
  <2> QED BY <2>1, <2>2
<1>9. KernelTypes'
  BY <1>1, <1>3, <1>8 DEF KernelTypes, KernelType, R
<1>10. InTurn' /\ Untouched'
  BY <1>1, <1>8 DEF InTurn, Untouched, InShell
<1>11. Returned'
  <2>1. \A i \in 1..Len(control') : control'[i].cell \in seen.asking
    BY <1>3 DEF Returned
  <2> QED BY <1>1, <1>8, <2>1 DEF Returned, InShell
<1>12. Heard' /\ AtHand' /\ Vetted'
  BY <1>1, <1>8
     DEF Heard, Booted, AtHand, Reading, MakesUp, Vetted, Cleared, HookOf, InShell
<1>13. AwaitedOnes'
  <2>1. CASE k = NoCell
    <3>1. ~Answers(reply)
      BY <1>2, <2>1 DEF Answers, NoCell, Cells
    <3> QED BY <1>8, <2>1, <3>1, KernelIs DEF AwaitedOnes
  <2>2. CASE k # NoCell
    BY <1>7, <1>8, <2>2, KernelIs DEF AwaitedOnes
  <2> QED BY <2>1, <2>2
<1> QED BY <1>1, <1>9, <1>10, <1>11, <1>12, <1>13

-----------------------------------------------------------------------------
(* The theorems.                                                           *)

LEMMA InitInv ==
  ASSUME Init
  PROVE  KernelInv
<1> USE KernelAssumption DEF Init
<1>1. host \in HostType /\ host.stage = "start" /\ host.purpose = "boot" /\ host.sent = 0
      /\ AtRest(host)
  BY DEF HostType, Purposes, Results, NoCell, AtRest
<1>2. seen \in SeenType /\ \A c \in Cells : seen.purpose[c] = "boot"
      /\ seen.printed[c] = 0 /\ seen.result[c] = "none"
  BY DEF SeenType, Purposes, Results, NoCell
<1>3. seen.marked = {} /\ seen.asking = {} /\ seen.wrong = {}
  OBVIOUS
<1>4. shell = <<>> /\ iopub = <<>> /\ control = <<>>
      /\ Len(shell) = 0 /\ Len(iopub) = 0 /\ Len(control) = 0
  OBVIOUS
<1>5. kernel.cell = NoCell /\ kernel.waits = 0 /\ kernel.asked = 0 /\ kernel.heard = FALSE
      /\ kernel \in KernelType
  BY DEF KernelType, NoCell
<1>6. pending \in [cell : 0..MaxCells, result : Results]
  BY DEF NoCell, Results
<1> USE DEF NoCell
<1>7. KernelTypes
  BY <1>1, <1>2, <1>4, <1>5, <1>6 DEF KernelTypes, KernelType
<1>8. InTurn /\ Untouched /\ Returned
  BY <1>1, <1>2, <1>3, <1>4, <1>5 DEF InTurn, Untouched, Returned, InShell
<1>9. Heard /\ AtHand
  BY <1>1, <1>2, <1>4, <1>5 DEF Heard, Booted, AtHand, Reading, AtRest
<1>10. Vetted /\ AwaitedOnes
  BY <1>1, <1>5 DEF Vetted, Booted, AwaitedOnes
<1> QED BY <1>3, <1>7, <1>8, <1>9, <1>10 DEF KernelInv

LEMMA NextInv ==
  ASSUME KernelInv, [Next]_vars
  PROVE  KernelInv'
<1>1. CASE UNCHANGED vars
  BY <1>1
     DEF vars, KernelInv, KernelTypes, InTurn, Untouched, InShell, Returned, Heard, Booted,
         AtHand, Reading, MakesUp, Vetted, Cleared, HookOf, AwaitedOnes, Coming, Awaits, Replies,
         Streams
<1>2. CASE Start \/ Welcome
  BY <1>2, StartKeeps, WelcomeKeeps
<1>3. CASE Boot \/ CallTool \/ RunTool \/ Command
  BY <1>3, SendingKeeps
<1>4. CASE Reads
  BY <1>4, ReceiveKeeps, GarbageKeeps, TimeoutKeeps, BrokenKeeps DEF Reads
<1>5. CASE Handle \/ HandleFails
  BY <1>5, HandleKeeps, HandleFailsKeeps
<1>6. CASE Shutdown \/ Die
  BY <1>6, ShutdownKeeps, DieKeeps
<1>7. CASE Subscribe \/ Take \/ Resolve
  BY <1>7, SubscribeKeeps, TakeKeeps, ResolveKeeps
<1>8. ASSUME NEW c \in Cells, KernelStep(c)
      PROVE  KernelInv'
  BY <1>8, PrintLineKeeps, MarkKeeps, AskKeeps, EndKeeps DEF KernelStep
<1> QED BY <1>1, <1>2, <1>3, <1>4, <1>5, <1>6, <1>7, <1>8 DEF Next

LEMMA Invariant == Spec => []KernelInv
<1>1. Init => KernelInv
  BY InitInv
<1>2. KernelInv /\ [Next]_vars => KernelInv'
  BY NextInv
<1> QED BY <1>1, <1>2, PTL DEF Spec

(* The types hold; a reader never has more lines than a cell may print,    *)
(* which is no bound of its own.                                           *)
THEOREM Typing == Spec => []TypeOK
<1>1. KernelInv => TypeOK
  <2> SUFFICES ASSUME KernelInv PROVE TypeOK
    OBVIOUS
  <2>1. KernelTypes /\ host \in HostType /\ seen \in SeenType /\ MaxPrints \in Nat
    BY KernelAssumption DEF KernelInv, KernelTypes
  <2>2. host.out \in 0..MaxPrints
    <3>1. CASE Reading
      <4>1. host.out + CountIn(iopub, Streams(host.sent)) = seen.printed[host.sent]
            /\ host.sent \in Cells
        BY <3>1 DEF KernelInv, AtHand, MakesUp
      <4>2. CountIn(iopub, Streams(host.sent)) \in Nat /\ host.out \in Nat
        BY <2>1, PlacesFinite DEF KernelTypes, HostType
      <4>3. seen.printed[host.sent] \in 0..MaxPrints
        BY <2>1, <4>1 DEF SeenType
      <4> QED BY <2>1, <4>1, <4>2, <4>3
    <3>2. CASE ~Reading
      BY <2>1, <3>2 DEF KernelInv, AtHand
    <3> QED BY <3>1, <3>2
  <2>3. host \in [stage : {"start", "welcome", "ready", "run", "drain", "handle", "down"},
                  purpose : Purposes, sent : 0..MaxCells, drains : 0..MaxCells,
                  out : 0..MaxPrints, mark : BOOLEAN, result : Results, awaited : BOOLEAN,
                  hooked : BOOLEAN]
    BY <2>1, <2>2 DEF HostType
  <2>4. \A s \in {"asking", "marked", "failed", "wrong"} : seen[s] \subseteq Cells
    BY <2>1 DEF SeenType
  <2>5. /\ seen.printed \in [Cells -> 0..MaxPrints] /\ seen.result \in [Cells -> Results]
        /\ seen.purpose \in [Cells -> Purposes] /\ seen.hookOf \in [Cells -> 0..MaxCells]
        /\ seen.missed \in BOOLEAN
    BY <2>1 DEF SeenType
  <2> QED BY <2>1, <2>3, <2>4, <2>5 DEF TypeOK, KernelTypes
<1> QED BY <1>1, Invariant, PTL

(* A tool call is answered with the whole output of its own cell, whatever *)
(* was left behind by the cells before it.                                 *)
THEOREM Whole == Spec => []OutputIsWhole
<1>1. KernelInv => OutputIsWhole
  BY DEF KernelInv, OutputIsWhole
<1> QED BY <1>1, Invariant, PTL

(* No tool call runs that its hooks gave a reason against, unless the      *)
(* answer was cut short by a request or the subscription came too late.    *)
THEOREM Vetoed == Spec => []VetoHolds
<1>1. KernelInv => VetoHolds
  <2> SUFFICES ASSUME KernelInv, NEW c \in 1..host.sent, seen.purpose[c] = "tool"
               PROVE  LET h == IF seen.hookOf[c] = NoCell THEN 1 ELSE seen.hookOf[c]
                      IN h \notin seen.marked \/ h \in seen.asking \/ seen.missed
    BY DEF VetoHolds
  <2>1. Cleared(HookOf(c))
    BY DEF KernelInv, Vetted
  <2> QED BY <2>1 DEF Cleared, HookOf
<1> QED BY <1>1, Invariant, PTL
=============================================================================
