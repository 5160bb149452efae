-------------------------- MODULE SessionLogProofs --------------------------
(* The transcript stays a tree, for every bound of SessionLog.             *)
EXTENDS SessionLog, TLAPS, WellFoundedInduction

Fields == {"last", "leaf", "upTo", "covers"}

(* What the file holds: an entry's place is its sequence and its parent is *)
(* before it.                                                              *)
TreeOK ==
  /\ transcript \in Seq(Entries)
  /\ \A i \in DOMAIN transcript :
       transcript[i].sequence = i /\ transcript[i].parent \in 0..(i - 1)

(* state.json's cursor and leaf never run ahead of the file.               *)
SavedOK ==
  /\ DOMAIN saved = Fields
  /\ saved.last \in 0..Len(transcript)
  /\ saved.leaf \in 0..Len(transcript)

(* A running worker's cursor is exact, and its leaf exists: what recover   *)
(* re-establishes from a file that may be one line ahead of state.json.    *)
CursorOK ==
  pc # "down" =>
    /\ DOMAIN state = Fields
    /\ state.last = Len(transcript)
    /\ state.leaf \in DOMAIN transcript \/ (state.leaf = 0 /\ transcript = << >>)

PlanOK ==
  /\ plan \in Seq(Kinds)
  /\ pc \in {"append", "save"} => plan # << >>
  /\ after \in {"idle", "round", "respond"}

TreeInv == TreeOK /\ SavedOK /\ CursorOK /\ PlanOK

-----------------------------------------------------------------------------
(* Whatever is appended to a tree by a worker whose cursor is exact, from  *)
(* a leaf that exists, is a tree.                                          *)
LEMMA AppendKeepsTree ==
  ASSUME TreeInv, AppendLine
  PROVE  TreeOK' /\ Len(transcript') = Len(transcript) + 1
<1> DEFINE n == Len(transcript) + 1
           entry == [sequence |-> n, parent |-> state.leaf, kind |-> Head(plan)]
<1>1. pc = "append" /\ state.last + 1 = n /\ state.leaf \in 0..(n - 1)
  BY DEF TreeInv, TreeOK, CursorOK, AppendLine
<1>2. Head(plan) \in Kinds
  BY <1>1 DEF TreeInv, PlanOK
<1>3. entry \in Entries
  BY <1>1, <1>2 DEF TreeInv, TreeOK, Entries
<1>4. transcript' = Append(transcript, entry)
  BY <1>1 DEF AppendLine
<1>5. transcript \in Seq(Entries)
  BY DEF TreeInv, TreeOK
<1> HIDE DEF entry
<1>6. /\ transcript' \in Seq(Entries)
      /\ Len(transcript') = n
      /\ DOMAIN transcript' = 1..n
      /\ transcript'[n] = entry
      /\ \A i \in 1..(n - 1) : transcript'[i] = transcript[i]
  BY <1>3, <1>4, <1>5
<1>7. ASSUME NEW i \in DOMAIN transcript'
      PROVE  transcript'[i].sequence = i /\ transcript'[i].parent \in 0..(i - 1)
  <2>1. CASE i = n
    BY <2>1, <1>1, <1>6 DEF entry
  <2>2. CASE i # n
    BY <2>2, <1>5, <1>6 DEF TreeInv, TreeOK
  <2> QED BY <2>1, <2>2
<1> QED BY <1>6, <1>7 DEF TreeOK

(* Every new session, and every one from before parent_sequence, is a tree.*)
LEMMA TreeInit == Init => TreeInv
<1> SUFFICES ASSUME Init PROVE TreeInv
  OBVIOUS
<1>1. PICK n \in LegacyEntries :
        /\ transcript = [i \in 1..n |-> [sequence |-> i, parent |-> 0,
                           kind |-> IF i % 2 = 1 THEN "user" ELSE "assistant"]]
        /\ saved = [last |-> n, leaf |-> 0, upTo |-> 0, covers |-> {}]
  BY DEF Init
<1>2. n \in Nat
  BY LimitsAssumption
<1>3. \A i \in 1..n : transcript[i] = [sequence |-> i, parent |-> 0,
                           kind |-> IF i % 2 = 1 THEN "user" ELSE "assistant"]
  BY <1>1
<1>4. transcript \in Seq(Entries) /\ Len(transcript) = n /\ DOMAIN transcript = 1..n
  <2>1. \A i \in 1..n : transcript[i] \in Entries
    <3> SUFFICES ASSUME NEW i \in 1..n PROVE transcript[i] \in Entries
      OBVIOUS
    <3>1. PICK kind \in {"user", "assistant"} :
            transcript[i] = [sequence |-> i, parent |-> 0, kind |-> kind]
      <4>1. CASE i % 2 = 1
        BY <4>1, <1>3
      <4>2. CASE i % 2 # 1
        BY <4>2, <1>3
      <4> QED BY <4>1, <4>2
    <3> QED BY <3>1, <1>2 DEF Entries, Kinds
  <2> QED BY <1>1, <1>2, <2>1
<1>5. TreeOK
  BY <1>2, <1>3, <1>4 DEF TreeOK
<1>6. SavedOK
  BY <1>1, <1>2, <1>4 DEF SavedOK, Fields
<1>7. CursorOK /\ PlanOK
  BY DEF Init, CursorOK, PlanOK
<1> QED BY <1>5, <1>6, <1>7 DEF TreeInv

(* What a step that leaves the file alone has to show.                     *)
LEMMA TreeKept == ASSUME TreeOK, UNCHANGED transcript PROVE TreeOK'
BY DEF TreeOK

LEMMA TreeStep == TreeInv /\ [Next]_vars => TreeInv'
<1> SUFFICES ASSUME TreeInv, [Next]_vars PROVE TreeInv'
  OBVIOUS
<1> USE DEF Fields
<1>1. CASE AppendLine
  <2>1. TreeOK' /\ Len(transcript') = Len(transcript) + 1
    BY <1>1, AppendKeepsTree
  <2>2. Len(transcript) \in Nat
    BY DEF TreeInv, TreeOK
  <2>3. SavedOK'
    BY <1>1, <2>1, <2>2 DEF TreeInv, SavedOK, AppendLine
  <2>4. CursorOK'
    BY <1>1, <2>1, <2>2 DEF TreeInv, TreeOK, CursorOK, AppendLine
  <2>5. PlanOK'
    BY <1>1 DEF TreeInv, PlanOK, AppendLine
  <2> QED BY <2>1, <2>3, <2>4, <2>5 DEF TreeInv
<1>2. CASE AppendDone
  <2>1. TreeOK'
    BY <1>2, TreeKept DEF TreeInv, AppendDone
  <2>2. SavedOK' /\ CursorOK'
    BY <1>2 DEF TreeInv, TreeOK, SavedOK, CursorOK, AppendDone, WriteState
  <2>3. PlanOK'
    BY <1>2 DEF TreeInv, PlanOK, AppendDone
  <2> QED BY <2>1, <2>2, <2>3 DEF TreeInv
<1>3. CASE Prompt \/ SystemEntry
  <2>1. PICK kind \in Kinds : \E next \in {"round", "idle"} : Begin(kind, next)
    BY <1>3 DEF Prompt, SystemEntry, Kinds
  <2>2. TreeOK'
    BY <2>1, TreeKept DEF TreeInv, Begin
  <2>3. SavedOK' /\ CursorOK'
    BY <2>1 DEF TreeInv, SavedOK, CursorOK, Begin
  <2>4. PlanOK'
    BY <2>1 DEF PlanOK, Begin
  <2> QED BY <2>2, <2>3, <2>4 DEF TreeInv
<1>4. CASE Respond
  <2>1. TreeOK'
    BY <1>4, TreeKept DEF TreeInv, Respond
  <2>2. SavedOK' /\ CursorOK'
    BY <1>4 DEF TreeInv, SavedOK, CursorOK, Respond
  <2>3. <<"assistant">> \in Seq(Kinds) /\ <<"assistant">> # << >>
    BY DEF Kinds
  <2>4. ASSUME NEW calls \in 1..MaxCalls,
               plan' = <<"request">> \o [i \in 1..calls |-> "tool"]
        PROVE  plan' \in Seq(Kinds) /\ plan' # << >>
    <3>1. <<"request">> \in Seq(Kinds) /\ Len(<<"request">>) = 1
      BY DEF Kinds
    <3>2. [i \in 1..calls |-> "tool"] \in Seq(Kinds)
      BY LimitsAssumption DEF Kinds
    <3> DEFINE results == [i \in 1..calls |-> "tool"]
    <3> HIDE DEF results
    <3>3. <<"request">> \o results \in Seq(Kinds) /\ Len(<<"request">> \o results) > 0
      BY <3>1, <3>2 DEF results
    <3> QED BY <2>4, <3>3 DEF results
  <2>5. \/ plan' = <<"assistant">>
        \/ \E calls \in 1..MaxCalls :
             plan' = <<"request">> \o [i \in 1..calls |-> "tool"]
    BY <1>4 DEF Respond
  <2>6. plan' \in Seq(Kinds) /\ plan' # << >>
    <3>1. CASE plan' = <<"assistant">>
      BY <2>3, <3>1
    <3>2. CASE \E calls \in 1..MaxCalls :
                 plan' = <<"request">> \o [i \in 1..calls |-> "tool"]
      BY <2>4, <3>2
    <3> QED BY <2>5, <3>1, <3>2
  <2>7. after' \in {"idle", "round", "respond"}
    BY <1>4 DEF Respond
  <2>8. PlanOK'
    BY <2>6, <2>7 DEF PlanOK
  <2> QED BY <2>1, <2>2, <2>8 DEF TreeInv
<1>5. CASE Fail
  <2>1. TreeOK'
    BY <1>5, TreeKept DEF TreeInv, Fail, Fault
  <2>2. SavedOK' /\ CursorOK' /\ PlanOK'
    BY <1>5 DEF TreeInv, SavedOK, CursorOK, PlanOK, Fail, Fault
  <2> QED BY <2>1, <2>2 DEF TreeInv
<1>6. CASE Compact
  <2>1. PICK n \in Visible : state' = FoldUpTo(TurnBoundary(n))
    BY <1>6 DEF Compact
  <2>2. /\ DOMAIN state' = DOMAIN state
        /\ DOMAIN state = Fields => state'.last = state.last /\ state'.leaf = state.leaf
    BY <2>1 DEF FoldUpTo
  <2>3. TreeOK'
    BY <1>6, TreeKept DEF TreeInv, Compact
  <2>4. SavedOK' /\ CursorOK'
    BY <1>6, <2>2 DEF TreeInv, TreeOK, CursorOK, SavedOK, Compact
  <2>5. PlanOK'
    <3>1. <<"system">> \in Seq(Kinds) /\ plan \in Seq(Kinds)
      BY DEF TreeInv, PlanOK, Kinds
    <3>2. plan' = <<"system">> \o plan
      BY <1>6 DEF Compact
    <3>3. Len(<<"system">>) = 1
      OBVIOUS
    <3>4. plan' \in Seq(Kinds) /\ Len(plan') > 0
      BY <3>1, <3>2, <3>3
    <3>5. after' \in {"idle", "round", "respond"}
      BY <1>6 DEF TreeInv, PlanOK, Compact
    <3> QED BY <3>4, <3>5 DEF PlanOK
  <2> QED BY <2>3, <2>4, <2>5 DEF TreeInv
<1>7. CASE Crash
  <2>1. TreeOK'
    BY <1>7, TreeKept DEF TreeInv, Crash, Fault
  <2>2. SavedOK' /\ CursorOK' /\ PlanOK'
    BY <1>7 DEF TreeInv, SavedOK, CursorOK, PlanOK, Crash, Fault
  <2> QED BY <2>1, <2>2 DEF TreeInv
<1>8. CASE Recover
  <2>1. TreeOK'
    BY <1>8, TreeKept DEF TreeInv, Recover
  <2>2. LastWritten = Len(transcript)
    BY DEF TreeInv, TreeOK, LastWritten
  <2>3. Cursor = Len(transcript)
    BY <2>2 DEF TreeInv, TreeOK, SavedOK, Cursor
  <2>4. SavedOK' /\ CursorOK'
    BY <1>8, <2>2, <2>3 DEF TreeInv, TreeOK, SavedOK, CursorOK, Recover
  <2>5. PlanOK'
    BY <1>8 DEF TreeInv, PlanOK, Recover
  <2> QED BY <2>1, <2>4, <2>5 DEF TreeInv
<1>9. ASSUME NEW n \in DOMAIN transcript, SetActiveLeaf(n) PROVE TreeInv'
  <2>1. TreeOK'
    BY <1>9, TreeKept DEF TreeInv, SetActiveLeaf
  <2>2. SavedOK' /\ CursorOK'
    BY <1>9 DEF TreeInv, TreeOK, SavedOK, CursorOK, SetActiveLeaf
  <2>3. PlanOK'
    BY <1>9 DEF TreeInv, PlanOK, SetActiveLeaf
  <2> QED BY <2>1, <2>2, <2>3 DEF TreeInv
<1>10. CASE UNCHANGED vars
  BY <1>10 DEF vars, TreeInv, TreeOK, SavedOK, CursorOK, PlanOK
<1> QED
  BY <1>1, <1>2, <1>3, <1>4, <1>5, <1>6, <1>7, <1>8, <1>9, <1>10 DEF Next

LEMMA TreeInvIsWhole == TreeInv => TreeIsWhole
<1> SUFFICES ASSUME TreeInv PROVE TreeIsWhole
  OBVIOUS
<1>1. ASSUME NEW i \in DOMAIN transcript
      PROVE  transcript[i].sequence = i /\ EffectiveParent(transcript[i]) \in 0..(i - 1)
  BY DEF TreeInv, TreeOK, EffectiveParent
<1> QED BY <1>1 DEF TreeInv, CursorOK, TreeIsWhole

(* Through any crashes, failures, compactions and redirections, the file   *)
(* is a tree numbered without gaps and the active leaf is one of its       *)
(* entries (append_entry, recover).                                        *)
THEOREM Whole == Spec => []TreeIsWhole
<1>1. Spec => []TreeInv
  BY TreeInit, TreeStep, PTL DEF Spec
<1> QED BY <1>1, TreeInvIsWhole, PTL

-----------------------------------------------------------------------------
(* The active chain.  What holds of it for every leaf is proved from the   *)
(* least leaf it fails for.                                                *)

(* A set of naturals that is not empty has a least element.                *)
LEMMA LeastNat ==
  ASSUME NEW T \in SUBSET Nat, T # {}
  PROVE  \E x \in T : \A y \in T : x <= y
<1> DEFINE R == {ss \in Nat \X Nat : ss[1] < ss[2]}
<1>1. IsWellFoundedOn(R, Nat)
  BY NatLessThanWellFounded DEF OpToRel
<1> HIDE DEF R
<1>3. PICK x \in T : \A y \in T : ~(<<y, x>> \in R)
  BY <1>1, WFMin
<1>4. \A y \in T : y < x => <<y, x>> \in R
  BY DEF R
<1>5. \A y \in T : ~(y < x)
  BY <1>3, <1>4, Zenon
<1>6. \A y \in T : x <= y
  BY <1>5
<1> QED BY <1>6

(* One that is bounded has a greatest.                                     *)
LEMMA GreatestNat ==
  ASSUME NEW b \in Nat, NEW S, S \subseteq 0..b, S # {}
  PROVE  \E n \in S : \A m \in S : m <= n
<1> DEFINE D == {b - n : n \in S}
<1>1. D \in SUBSET Nat /\ D # {}
  <2>1. \A n \in S : b - n \in Nat
    OBVIOUS
  <2>2. \A d \in D : d \in Nat
    BY <2>1
  <2>3. PICK s \in S : TRUE
    OBVIOUS
  <2>4. b - s \in D
    OBVIOUS
  <2> HIDE DEF D
  <2> QED BY <2>2, <2>4
<1>2. PICK d \in D : \A e \in D : d <= e
  BY <1>1, LeastNat
<1>3. PICK n \in S : d = b - n
  BY <1>2
<1>4. \A m \in S : d <= b - m
  <2>1. \A m \in S : b - m \in D
    OBVIOUS
  <2> QED BY <1>2, <2>1
<1>5. \A m \in S : m <= n
  BY <1>3, <1>4
<1> QED BY <1>5

(* Whatever the parents, so long as each is before its child, the          *)
(* recursion of active_chain ends.                                         *)
LEMMA ChainsExist ==
  ASSUME NEW len \in Nat, NEW parent, \A n \in 1..len : parent[n] \in 0..(n - 1)
  PROVE  \E f : f = [n \in 0..len |-> IF n = 0 THEN {} ELSE {n} \cup f[parent[n]]]
<1> DEFINE G(f, k) == [n \in 0..k |-> IF n = 0 THEN {} ELSE {n} \cup f[parent[n]]]
           Up(k) == \E f : f = G(f, k)
           S == {k \in 0..len : ~Up(k)}
<1>1. ASSUME NEW k \in 0..len, \A j \in 0..len : j < k => Up(j)
      PROVE  Up(k)
  <2>1. CASE k = 0
    <3> DEFINE g == [n \in 0..0 |-> {}]
    <3>1. g = G(g, 0)
      OBVIOUS
    <3> QED BY <2>1, <3>1
  <2>2. CASE k # 0
    <3>1. k - 1 \in 0..len /\ k - 1 < k
      BY <2>2
    <3>2. Up(k - 1)
      BY <1>1, <3>1
    <3>3. PICK f : f = G(f, k - 1)
      BY <3>2
    <3>4. \A n \in 0..(k - 1) : f[n] = IF n = 0 THEN {} ELSE {n} \cup f[parent[n]]
      BY <3>3
    <3> DEFINE g == [n \in 0..k |-> IF n = k THEN {k} \cup f[parent[k]] ELSE f[n]]
    <3>5. \A n \in 0..(k - 1) : g[n] = f[n]
      OBVIOUS
    <3>6. g[k] = {k} \cup f[parent[k]]
      OBVIOUS
    <3>7. ASSUME NEW n \in 0..k
          PROVE  g[n] = IF n = 0 THEN {} ELSE {n} \cup g[parent[n]]
      <4> HIDE DEF g
      <4>1. n # 0 => parent[n] \in 0..(k - 1)
        OBVIOUS
      <4>2. CASE n = k
        BY <2>2, <3>5, <3>6, <4>1, <4>2
      <4>3. CASE n # k
        <5>1. n \in 0..(k - 1)
          BY <4>3
        <5>2. g[n] = f[n]
          BY <3>5, <5>1
        <5>3. n # 0 => g[parent[n]] = f[parent[n]]
          BY <3>5, <4>1
        <5> QED BY <3>4, <5>1, <5>2, <5>3
      <4> QED BY <4>2, <4>3
    <3>8. g = [n \in 0..k |-> g[n]]
      OBVIOUS
    <3>9. g = G(g, k)
      <4> HIDE DEF g
      <4> QED BY <3>7, <3>8
    <3> QED BY <3>9
  <2> QED BY <2>1, <2>2
<1> HIDE DEF Up
<1>2. S = {}
  <2>1. SUFFICES ASSUME S # {} PROVE FALSE
    OBVIOUS
  <2>2. S \in SUBSET Nat
    OBVIOUS
  <2>3. PICK k \in S : \A j \in S : k <= j
    BY <2>1, <2>2, LeastNat
  <2>4. \A j \in 0..len : j < k => Up(j)
    BY <2>3
  <2> QED BY <1>1, <2>3, <2>4
<1>3. Up(len)
  BY <1>2
<1> QED BY <1>3 DEF Up

(* What active_chain computes.                                             *)
ChainUnfolds ==
  /\ Chain(0) = {}
  /\ \A n \in DOMAIN transcript, p \in 0..Len(transcript) :
       p = EffectiveParent(transcript[n]) => Chain(n) = {n} \cup Chain(p)

LEMMA ParentsAreBefore ==
  TreeOK => \A n \in 1..Len(transcript) : EffectiveParent(transcript[n]) \in 0..(n - 1)
BY DEF TreeOK, EffectiveParent

LEMMA ChainIsDefined == TreeOK => ChainUnfolds
<1> SUFFICES ASSUME TreeOK PROVE ChainUnfolds
  OBVIOUS
<1> DEFINE len == Len(transcript)
           up == [n \in 1..len |-> EffectiveParent(transcript[n])]
           F(h) == [n \in 0..len |-> IF n = 0 THEN {} ELSE {n} \cup h[EffectiveParent(transcript[n])]]
           the == CHOOSE h : h = F(h)
<1>1. len \in Nat /\ DOMAIN transcript = 1..len
  BY DEF TreeOK
<1>2. \A n \in 1..len : up[n] = EffectiveParent(transcript[n]) /\ up[n] \in 0..(n - 1)
  BY <1>1 DEF TreeOK, EffectiveParent
<1>3. PICK f : f = [n \in 0..len |-> IF n = 0 THEN {} ELSE {n} \cup f[up[n]]]
  BY <1>1, <1>2, ChainsExist
<1>4. f = F(f)
  <2>1. \A n \in 0..len : n # 0 => up[n] = EffectiveParent(transcript[n])
    BY <1>1, <1>2
  <2> HIDE DEF up
  <2> QED BY <1>3, <2>1
<1>5. the = F(the)
  BY <1>4
<1>6. \A leaf : Chain(leaf) = the[leaf]
  BY DEF Chain
<1> HIDE DEF the
<1>7. \A n \in 0..len : the[n] = IF n = 0 THEN {} ELSE {n} \cup the[EffectiveParent(transcript[n])]
  BY <1>5
<1>8. Chain(0) = {}
  <2>1. 0 \in 0..len
    BY <1>1
  <2> QED BY <1>6, <1>7, <2>1
<1>9. ASSUME NEW n \in DOMAIN transcript
      PROVE  Chain(n) = {n} \cup Chain(EffectiveParent(transcript[n]))
  <2>1. n \in 0..len /\ n # 0
    BY <1>1
  <2> QED BY <1>6, <1>7, <2>1
<1> QED BY <1>8, <1>9 DEF ChainUnfolds

(* A chain runs back to the root: what is on it is no later than its leaf, *)
(* and from any of its entries on it is that entry's own chain.            *)
ChainFacts ==
  /\ ChainUnfolds
  /\ \A n \in 0..Len(transcript) : Chain(n) \subseteq 1..n
  /\ \A n \in 0..Len(transcript) : n # 0 => n \in Chain(n)
  /\ \A n \in 0..Len(transcript) : \A m \in Chain(n) :
       /\ Chain(m) \subseteq Chain(n)
       /\ \A k \in Chain(n) : k <= m => k \in Chain(m)

LEMMA Chains == TreeOK => ChainFacts
<1> SUFFICES ASSUME TreeOK PROVE ChainFacts
  OBVIOUS
<1> DEFINE len == Len(transcript)
           up == [n \in 1..len |-> EffectiveParent(transcript[n])]
<1>1. len \in Nat /\ DOMAIN transcript = 1..len
  BY DEF TreeOK
<1>2. \A n \in 1..len : up[n] = EffectiveParent(transcript[n]) /\ up[n] \in 0..(n - 1)
  BY <1>1 DEF TreeOK, EffectiveParent
<1>3. ChainUnfolds
  BY ChainIsDefined
<1> HIDE DEF up, len
<1>4. Chain(0) = {} /\ \A n \in 1..len : Chain(n) = {n} \cup Chain(up[n])
  <2>1. \A n \in 1..len : up[n] \in 0..len
    BY <1>1, <1>2
  <2> QED BY <1>1, <1>2, <1>3, <2>1 DEF ChainUnfolds, len
<1> DEFINE Back(n) == \A m \in Chain(n) :
             /\ Chain(m) \subseteq Chain(n)
             /\ \A k \in Chain(n) : k <= m => k \in Chain(m)
           P(n) == Chain(n) \subseteq 1..n /\ Back(n)
           S == {n \in 0..len : ~P(n)}
<1>5. ASSUME NEW n \in 0..len, \A j \in 0..len : j < n => P(j)
      PROVE  P(n)
  <2>1. CASE n = 0
    BY <1>4, <2>1
  <2>2. CASE n # 0
    <3>1. n \in 1..len /\ up[n] \in 0..(n - 1) /\ up[n] \in 0..len
      BY <1>1, <1>2, <2>2
    <3>2. P(up[n])
      BY <1>5, <3>1
    <3>3. Chain(n) = {n} \cup Chain(up[n])
      BY <1>4, <3>1
    <3>4. Chain(n) \subseteq 1..n
      BY <3>1, <3>2, <3>3
    <3>5. ASSUME NEW m \in Chain(n)
          PROVE  Chain(m) \subseteq Chain(n) /\ \A k \in Chain(n) : k <= m => k \in Chain(m)
      <4>1. CASE m = n
        BY <4>1
      <4>2. CASE m # n
        <5>1. m \in Chain(up[n])
          BY <3>3, <4>2
        <5>2. Chain(m) \subseteq Chain(up[n])
          BY <3>2, <5>1
        <5>3. ASSUME NEW k \in Chain(n), k <= m PROVE k \in Chain(m)
          <6>1. m < n
            BY <3>1, <3>2, <5>1
          <6>2. k # n
            BY <3>1, <3>4, <5>3, <6>1
          <6> QED BY <3>2, <3>3, <5>1, <5>3, <6>2
        <5> QED BY <3>3, <5>2, <5>3
      <4> QED BY <4>1, <4>2
    <3> QED BY <3>4, <3>5
  <2> QED BY <2>1, <2>2
<1> HIDE DEF P
<1>6. S = {}
  <2>1. SUFFICES ASSUME S # {} PROVE FALSE
    OBVIOUS
  <2>2. S \in SUBSET Nat
    BY <1>1
  <2>3. PICK n \in S : \A j \in S : n <= j
    BY <2>1, <2>2, LeastNat
  <2>4. \A j \in 0..len : j < n => P(j)
    BY <1>1, <2>3
  <2> QED BY <1>5, <2>3, <2>4
<1>7. \A n \in 0..len : P(n)
  BY <1>6
<1>8. \A n \in 0..len : n # 0 => n \in Chain(n)
  BY <1>1, <1>4
<1>9. \A n \in 0..len : Chain(n) \subseteq 1..n /\ Back(n)
  BY <1>7 DEF P
<1> HIDE DEF Back
<1>10. \A n \in 0..Len(transcript) : Chain(n) \subseteq 1..n /\ Back(n) /\ (n # 0 => n \in Chain(n))
  BY <1>8, <1>9 DEF len
<1> QED BY <1>3, <1>10 DEF ChainFacts, Back
(* Appending to the file changes no chain.                                 *)
LEMMA ChainsKept ==
  ASSUME TreeOK, TreeOK', ChainFacts, ChainFacts',
         \A i \in DOMAIN transcript : i \in DOMAIN transcript' /\ transcript'[i] = transcript[i]
  PROVE  \A n \in 0..Len(transcript) : Chain(n)' = Chain(n)
<1> DEFINE len == Len(transcript)
           up == [n \in 1..len |-> EffectiveParent(transcript[n])]
<1>1. len \in Nat /\ DOMAIN transcript = 1..len
  BY DEF TreeOK
<1>2. \A n \in 1..len : up[n] = EffectiveParent(transcript[n]) /\ up[n] \in 0..(n - 1)
  BY ParentsAreBefore
<1>8. Len(transcript') \in Nat /\ len <= Len(transcript')
  <2>1. DOMAIN transcript' = 1..Len(transcript') /\ Len(transcript') \in Nat
    BY DEF TreeOK
  <2>2. len = 0 \/ len \in DOMAIN transcript'
    BY <1>1
  <2> QED BY <1>1, <2>1, <2>2
<1> HIDE DEF up, len
<1>3. /\ Chain(0) = {}
      /\ \A n \in 1..len, p \in 0..len : p = up[n] => Chain(n) = {n} \cup Chain(p)
  BY <1>1, <1>2 DEF ChainFacts, ChainUnfolds, len
<1>4. /\ Chain(0)' = {}
      /\ \A n \in 1..len, p \in 0..len : p = up[n] => Chain(n)' = {n} \cup Chain(p)'
  <2>1. \A p \in 0..len : p \in 0..Len(transcript')
    BY <1>1, <1>8
  <2>2. \A n \in 1..len : n \in DOMAIN transcript' /\ EffectiveParent(transcript[n])' = up[n]
    BY <1>1, <1>2 DEF EffectiveParent
  <2> QED BY <2>1, <2>2 DEF ChainFacts, ChainUnfolds
<1>5. ASSUME NEW n \in 0..len, \A j \in 0..len : j < n => Chain(j)' = Chain(j)
      PROVE  Chain(n)' = Chain(n)
  <2>1. CASE n = 0
    BY <1>3, <1>4, <2>1
  <2>2. CASE n # 0
    <3>1. n \in 1..len /\ up[n] \in 0..len /\ up[n] < n
      BY <1>1, <1>2, <2>2
    <3>3. PICK p \in 0..len : p = up[n]
      BY <3>1
    <3>4. Chain(p)' = Chain(p)
      BY <1>5, <3>1, <3>3
    <3> QED BY <1>3, <1>4, <3>1, <3>3, <3>4
  <2> QED BY <2>1, <2>2
<1> DEFINE S == {n \in 0..len : Chain(n)' # Chain(n)}
<1>6. S = {}
  <2>1. SUFFICES ASSUME S # {} PROVE FALSE
    OBVIOUS
  <2>2. S \in SUBSET Nat
    BY <1>1
  <2>3. PICK n \in S : \A j \in S : n <= j
    BY <2>1, <2>2, LeastNat
  <2>4. \A j \in 0..len : j < n => Chain(j)' = Chain(j)
    BY <1>1, <2>3
  <2> QED BY <1>5, <2>3, <2>4
<1> QED BY <1>6 DEF len

(* In a file in which every entry follows the one before, a chain is all   *)
(* entries up to its leaf.                                                 *)
Linear == \A i \in DOMAIN transcript : EffectiveParent(transcript[i]) = i - 1

LEMMA LinearChains ==
  ASSUME TreeOK, ChainFacts, Linear
  PROVE  \A n \in 0..Len(transcript) : Chain(n) = 1..n
<1> DEFINE len == Len(transcript)
           S == {n \in 0..len : Chain(n) # 1..n}
<1>1. len \in Nat /\ DOMAIN transcript = 1..len
  BY DEF TreeOK
<1>2. Chain(0) = {} /\ \A n \in 1..len : Chain(n) = {n} \cup Chain(n - 1)
  <2>1. \A n \in 1..len : n - 1 \in 0..len
    BY <1>1
  <2> QED BY <1>1, <2>1 DEF ChainFacts, ChainUnfolds, Linear
<1> HIDE DEF len
<1>3. S = {}
  <2>1. SUFFICES ASSUME S # {} PROVE FALSE
    OBVIOUS
  <2>2. S \in SUBSET Nat
    BY <1>1
  <2>3. PICK n \in S : \A j \in S : n <= j
    BY <2>1, <2>2, LeastNat
  <2>4. n # 0
    <3>1. 1..0 = {}
      OBVIOUS
    <3> QED BY <1>2, <2>3, <3>1
  <2>5. n \in 1..len /\ n - 1 \in 0..len
    BY <1>1, <2>3, <2>4
  <2>6. Chain(n - 1) = 1..(n - 1)
    <3>1. n - 1 \notin S
      BY <2>3, <2>5
    <3> QED BY <2>5, <3>1
  <2>7. Chain(n) = 1..n
    <3>1. {n} \cup (1..(n - 1)) = 1..n
      BY <2>5
    <3> QED BY <1>2, <2>5, <2>6, <3>1
  <2> QED BY <2>3, <2>7
<1> QED BY <1>3 DEF len
-----------------------------------------------------------------------------
(* Where compaction cuts.  The boundary adjust_fold_count_to_turn_boundary *)
(* looks for is there: the least entry from n on that no kept result       *)
(* follows, since before each other kept entry there would be a lesser one.*)
AtBoundary(n, m) ==
  /\ m >= n
  /\ \A k \in Visible : n < k /\ k <= m => Kind(k) = "tool"
  /\ \A k \in Visible : m < k => \E j \in Visible : m < j /\ j <= k /\ Kind(j) # "tool"

LEMMA BoundaryExists ==
  ASSUME TreeOK, ChainFacts, state.leaf \in 0..Len(transcript), NEW n \in Visible
  PROVE  TurnBoundary(n) \in Visible /\ AtBoundary(n, TurnBoundary(n))
<1> DEFINE len == Len(transcript)
           V == Visible
           Clear(m) == \A k \in V : m < k => \E j \in V : m < j /\ j <= k /\ Kind(j) # "tool"
           S == {m \in V : m >= n /\ Clear(m)}
<1>1. V \subseteq 1..len /\ len \in Nat
  BY DEF Visible, ChainFacts, TreeOK
<1> HIDE DEF V, len
<1>2. PICK t \in V : \A k \in V : k <= t
  <2>1. V \subseteq 0..len /\ V # {}
    BY <1>1 DEF V
  <2> QED BY <1>1, <2>1, GreatestNat
<1>3. t \in S
  <2>1. n \in V
    BY DEF V
  <2>2. t >= n
    BY <1>1, <1>2, <2>1
  <2>3. \A k \in V : ~(t < k)
    BY <1>1, <1>2
  <2> QED BY <2>2, <2>3
<1>4. PICK m \in S : \A j \in S : m <= j
  <2>1. \A i \in V : i \in Nat
    BY <1>1
  <2>2. S \in SUBSET Nat
    BY <2>1, Zenon
  <2> QED BY <1>3, <2>2, LeastNat
<1>5. ASSUME NEW k \in V, n < k, k <= m, Kind(k) # "tool" PROVE FALSE
  <2> DEFINE B == {j \in V : j < k}
  <2>1. n \in B
    BY <1>5 DEF V
  <2>2. B \subseteq 0..len
    <3>1. \A i \in V : i \in 0..len
      BY <1>1
    <3> QED BY <3>1, Zenon
  <2>3. PICK p \in B : \A j \in B : j <= p
    BY <1>1, <2>1, <2>2, GreatestNat
  <2>4. p >= n
    BY <1>1, <2>1, <2>3
  <2>5. ASSUME NEW j \in V, p < j
        PROVE  \E i \in V : p < i /\ i <= j /\ Kind(i) # "tool"
    <3>1. ~(j < k)
      BY <1>1, <2>3, <2>5
    <3>2. p < k /\ k <= j
      BY <1>1, <2>3, <3>1
    <3> QED BY <1>5, <3>2
  <2>6. p \in S
    BY <2>3, <2>4, <2>5
  <2>7. p < m
    BY <1>1, <1>5, <2>3
  <2> QED BY <1>1, <1>4, <2>3, <2>6, <2>7
<1>6. m \in Visible /\ AtBoundary(n, m)
  BY <1>4, <1>5 DEF V, AtBoundary
<1> QED BY <1>6 DEF TurnBoundary, AtBoundary
-----------------------------------------------------------------------------
(* Types.                                                                  *)

LEMMA FaultTypes ==
  ASSUME TypeOK, Fault
  PROVE  /\ plan' = << >> /\ after' = "idle" /\ rounds' = 0
         /\ transcript' \in Seq(Entries) /\ saved' \in States /\ acked' \subseteq Nat
         /\ used' \in [switches : 0..MaxSwitches, faults : 0..MaxFaults, kernel : BOOLEAN]
         /\ used'.switches = used.switches /\ used'.kernel = used.kernel
<1>1. used.faults + 1 \in 0..MaxFaults
  BY LimitsAssumption DEF TypeOK, Fault
<1>2. used' = [used EXCEPT !.faults = used.faults + 1]
  BY DEF Fault
<1> QED BY <1>1, <1>2 DEF TypeOK, Fault

LEMMA VisibleIsInFile ==
  ASSUME TreeInv, ChainFacts, pc # "down"
  PROVE  /\ state.leaf \in 0..Len(transcript) /\ Len(transcript) \in Nat
         /\ Visible \subseteq 1..Len(transcript)
<1>1. state.leaf \in 0..Len(transcript) /\ Len(transcript) \in Nat
  BY DEF TreeInv, TreeOK, CursorOK
<1>2. Chain(state.leaf) \subseteq 1..Len(transcript)
  BY <1>1 DEF ChainFacts
<1> QED BY <1>1, <1>2 DEF Visible

LEMMA FoldTypes ==
  ASSUME TypeOK, TreeInv, ChainFacts, pc # "down", NEW cut \in Visible
  PROVE  /\ FoldUpTo(cut) \in States
         /\ FoldUpTo(cut).last = state.last /\ FoldUpTo(cut).leaf = state.leaf
         /\ FoldUpTo(cut).upTo = cut
         /\ FoldUpTo(cut).covers = state.covers \cup {k \in Visible : k <= cut}
<1> DEFINE all == state.covers \cup {k \in Visible : k <= cut}
           atCut == [state EXCEPT !.upTo = cut]
           folded == [atCut EXCEPT !.covers = all]
<1>1. Visible \subseteq Nat
  BY VisibleIsInFile
<1>2. all \in SUBSET Nat /\ cut \in Nat /\ state \in States
  BY <1>1 DEF TypeOK, States
<1> HIDE DEF all
<1>3. /\ atCut \in States
      /\ atCut.last = state.last /\ atCut.leaf = state.leaf /\ atCut.upTo = cut
  BY <1>2 DEF States
<1> HIDE DEF atCut
<1>4. /\ folded \in States
      /\ folded.last = atCut.last /\ folded.leaf = atCut.leaf /\ folded.upTo = atCut.upTo
      /\ folded.covers = all
  BY <1>2, <1>3 DEF States
<1>5. FoldUpTo(cut) = folded
  <2>1. state.covers = atCut.covers
    BY <1>2 DEF atCut, States
  <2> QED BY <2>1 DEF FoldUpTo, atCut, all
<1> HIDE DEF folded
<1> QED BY <1>3, <1>4, <1>5 DEF all

(* What a compaction does, wherever its budget ended the fold.             *)
LEMMA CompactCuts ==
  ASSUME TypeOK, TreeInv, ChainFacts, Compact
  PROVE  \E n \in Visible, cut \in Visible :
           /\ cut \in 1..Len(transcript) /\ AtBoundary(n, cut)
           /\ state' \in States /\ saved' = state'
           /\ state'.last = state.last /\ state'.leaf = state.leaf /\ state'.upTo = cut
           /\ state'.covers = state.covers \cup {k \in Visible : k <= cut}
<1>1. pc # "down" /\ saved' = state'
  BY DEF Compact
<1>2. PICK n \in Visible : state' = FoldUpTo(TurnBoundary(n))
  BY DEF Compact
<1>3. state.leaf \in 0..Len(transcript) /\ Visible \subseteq 1..Len(transcript)
  BY <1>1, VisibleIsInFile
<1>4. TurnBoundary(n) \in Visible /\ AtBoundary(n, TurnBoundary(n))
  BY <1>3, BoundaryExists DEF TreeInv
<1>5. PICK cut \in Visible : cut = TurnBoundary(n)
  BY <1>4
<1>6. /\ FoldUpTo(cut) \in States
      /\ FoldUpTo(cut).last = state.last /\ FoldUpTo(cut).leaf = state.leaf
      /\ FoldUpTo(cut).upTo = cut
      /\ FoldUpTo(cut).covers = state.covers \cup {k \in Visible : k <= cut}
  BY <1>1, FoldTypes
<1>7. state' = FoldUpTo(cut) /\ AtBoundary(n, cut) /\ cut \in 1..Len(transcript)
  BY <1>2, <1>3, <1>4, <1>5
<1> QED BY <1>1, <1>6, <1>7

LEMMA TypeInit == Init => TypeOK
<1> SUFFICES ASSUME Init PROVE TypeOK
  OBVIOUS
<1>1. PICK n \in LegacyEntries :
        /\ saved = [last |-> n, leaf |-> 0, upTo |-> 0, covers |-> {}]
        /\ acked = 1..n
  BY DEF Init
<1>2. n \in Nat
  BY LimitsAssumption
<1>3. saved \in States /\ state \in States
  BY <1>1, <1>2 DEF Init, States
<1>4. transcript \in Seq(Entries)
  BY TreeInit DEF TreeInv, TreeOK
<1>5. used \in [switches : 0..MaxSwitches, faults : 0..MaxFaults, kernel : BOOLEAN]
  BY LimitsAssumption DEF Init
<1>6. plan \in Seq(Kinds)
  BY DEF Init
<1> QED BY <1>1, <1>2, <1>3, <1>4, <1>5, <1>6, LimitsAssumption DEF Init, TypeOK

LEMMA TypeStep == TypeOK /\ TreeInv /\ [Next]_vars => TypeOK'
<1> SUFFICES ASSUME TypeOK, TreeInv, [Next]_vars PROVE TypeOK'
  OBVIOUS
<1>1. TreeInv'
  BY TreeStep
<1>2. /\ transcript' \in Seq(Entries) /\ plan' \in Seq(Kinds)
      /\ (pc' \in {"append", "save"} => plan' # << >>)
      /\ after' \in {"idle", "round", "respond"}
  BY <1>1 DEF TreeInv, TreeOK, PlanOK
<1>3. ChainFacts
  BY Chains DEF TreeInv
<1>4. /\ state \in States /\ saved \in States
      /\ used \in [switches : 0..MaxSwitches, faults : 0..MaxFaults, kernel : BOOLEAN]
      /\ rounds \in 0..MaxRounds /\ acked \subseteq Nat
      /\ pc \in {"down", "idle", "append", "save", "round", "respond"}
  BY DEF TypeOK
<1> DEFINE Rest == /\ pc' \in {"down", "idle", "append", "save", "round", "respond"}
                   /\ rounds' \in 0..MaxRounds
                   /\ state' \in States /\ saved' \in States /\ acked' \subseteq Nat
                   /\ used' \in [switches : 0..MaxSwitches, faults : 0..MaxFaults,
                                  kernel : BOOLEAN]
<1>5. SUFFICES Rest
  BY <1>2 DEF TypeOK
<1>6. CASE AppendLine
  <2> DEFINE n == state.last + 1
             read == [state EXCEPT !.last = n]
  <2>1. n \in Nat
    BY <1>4 DEF States
  <2> HIDE DEF n
  <2>2. read \in States
    BY <1>4, <2>1 DEF States
  <2> HIDE DEF read
  <2>3. [read EXCEPT !.leaf = n] \in States
    BY <2>1, <2>2 DEF States
  <2>4. state' = [read EXCEPT !.leaf = n]
    BY <1>6 DEF AppendLine, read, n
  <2> QED BY <1>4, <1>6, <2>3, <2>4 DEF AppendLine
<1>7. CASE AppendDone
  <2>1. state.leaf \in Nat
    BY <1>4 DEF States
  <2>2. after \in {"idle", "round", "respond"}
    BY DEF TypeOK
  <2>3. pc' \in {"idle", "round", "respond", "append"}
    BY <1>7, <2>2 DEF AppendDone
  <2>4. acked' \subseteq Nat
    BY <1>4, <1>7, <2>1 DEF AppendDone
  <2>5. rounds' \in 0..MaxRounds
    <3>1. rounds' = 0 \/ rounds' = rounds
      BY <1>7 DEF AppendDone
    <3> QED BY <1>4, <3>1, LimitsAssumption
  <2> QED BY <1>4, <1>7, <2>3, <2>4, <2>5 DEF AppendDone, WriteState
<1>8. CASE Prompt \/ SystemEntry
  BY <1>4, <1>8 DEF Prompt, SystemEntry, Begin
<1>9. CASE Respond
  <2>1. rounds' \in 0..MaxRounds
    BY <1>4, <1>9, LimitsAssumption DEF Respond, RoundsLeft
  <2> QED BY <1>4, <1>9, <2>1 DEF Respond
<1>10. CASE Fail
  BY <1>4, <1>10, FaultTypes, LimitsAssumption DEF Fail
<1>11. CASE Compact
  <2>1. state' \in States /\ saved' = state'
    BY <1>3, <1>11, CompactCuts
  <2>2. used' \in [switches : 0..MaxSwitches, faults : 0..MaxFaults, kernel : BOOLEAN]
    BY <1>4, <1>11 DEF Compact
  <2> QED BY <1>4, <1>11, <2>1, <2>2 DEF Compact
<1>12. CASE Crash
  BY <1>4, <1>12, FaultTypes, LimitsAssumption DEF Crash
<1>13. CASE Recover
  <2> DEFINE read == [saved EXCEPT !.last = Cursor]
  <2>1. Len(transcript) \in Nat /\ LastWritten = Len(transcript) /\ Cursor \in Nat
    BY SMTT(20), <1>4 DEF TreeInv, TreeOK, LastWritten, Cursor, States
  <2>2. read \in States /\ saved.leaf = read.leaf
    BY <1>4, <2>1 DEF States
  <2> HIDE DEF read
  <2>3. [read EXCEPT !.leaf = IF saved.leaf = 0 THEN LastWritten ELSE saved.leaf] \in States
    BY <2>1, <2>2 DEF States
  <2>4. state' = [read EXCEPT !.leaf = IF saved.leaf = 0 THEN LastWritten ELSE saved.leaf]
    BY <1>13, <2>2 DEF Recover, read
  <2> QED BY <1>4, <1>13, <2>3, <2>4 DEF Recover
<1>14. ASSUME NEW n \in DOMAIN transcript, SetActiveLeaf(n) PROVE Rest
  <2>1. n \in Nat
    BY DEF TreeInv, TreeOK
  <2>2. [state EXCEPT !.leaf = n] \in States
    BY <1>4, <2>1 DEF States
  <2>3. [used EXCEPT !.switches = used.switches + 1]
          \in [switches : 0..MaxSwitches, faults : 0..MaxFaults, kernel : BOOLEAN]
    BY <1>4, <1>14, LimitsAssumption DEF SetActiveLeaf
  <2> QED BY <1>4, <1>14, <2>2, <2>3 DEF SetActiveLeaf
<1>15. CASE UNCHANGED vars
  BY <1>4, <1>15 DEF vars
<1> QED
  BY <1>6, <1>7, <1>8, <1>9, <1>10, <1>11, <1>12, <1>13, <1>14, <1>15 DEF Next

(* Types of the plan, the file, the worker's state and the histories.      *)
THEOREM Typing == Spec => []TypeOK
<1>1. TypeOK /\ TreeInv /\ [Next]_vars => TypeOK' /\ TreeInv'
  BY TypeStep, TreeStep
<1> QED BY <1>1, TypeInit, TreeInit, PTL DEF Spec

-----------------------------------------------------------------------------
(* Where the conversation is.                                              *)

(* Of what is before any entry, a conversation with this leaf has nothing  *)
(* that entry's own chain lacks.                                           *)
Continues(l) ==
  \A at \in DOMAIN transcript : \A n \in Chain(l) : n <= at => n \in Chain(at)

(* Until somebody redirects the leaf: state.json's is an entry the running *)
(* worker's conversation goes through, and has all that was acknowledged   *)
(* on its chain; where it names none the file is a single line of entries. *)
SavedLeafOK ==
  IF saved.leaf = 0 THEN Linear
  ELSE Continues(saved.leaf) /\ \A i \in acked : i \in Chain(saved.leaf)

StateLeafOK ==
  pc # "down" =>
    /\ Continues(state.leaf)
    /\ saved.leaf = 0 => state.leaf = Len(transcript)
    /\ saved.leaf # 0 => saved.leaf \in Chain(state.leaf)

LeavesInv ==
  /\ acked \subseteq 1..Len(transcript)
  /\ pc = "save" => transcript # << >> /\ state.leaf = Len(transcript)
  /\ used.switches = 0 => SavedLeafOK /\ StateLeafOK

Basis == TypeOK /\ TreeInv /\ ChainFacts

(* An append adds one entry to the file and to the conversation.           *)
LEMMA AppendGrows ==
  ASSUME Basis, Basis', AppendLine, NEW n \in Nat, n = Len(transcript) + 1
  PROVE  /\ DOMAIN transcript = 1..(n - 1)
         /\ Len(transcript') = n /\ DOMAIN transcript' = 1..n
         /\ \A i \in 1..(n - 1) : transcript'[i] = transcript[i]
         /\ \A l \in 0..(n - 1) : Chain(l)' = Chain(l)
         /\ Chain(n)' = {n} \cup Chain(state.leaf)
         /\ transcript'[n].kind = Head(plan) /\ EffectiveParent(transcript'[n]) = state.leaf
         /\ state.leaf \in 0..(n - 1)
         /\ state'.leaf = n /\ state'.upTo = state.upTo /\ state'.covers = state.covers
<1> DEFINE entry == [sequence |-> n, parent |-> state.leaf, kind |-> Head(plan)]
<1>1. /\ Len(transcript) = n - 1 /\ transcript \in Seq(Entries) /\ DOMAIN transcript = 1..(n - 1)
      /\ transcript' \in Seq(Entries) /\ n - 1 \in Nat
  BY DEF Basis, TreeInv, TreeOK
<1>2. /\ state.last = n - 1 /\ state.leaf \in 0..(n - 1)
      /\ state.leaf = 0 => n - 1 = 0
  BY <1>1 DEF Basis, TreeInv, TreeOK, CursorOK, AppendLine
<1>3. Head(plan) \in Kinds
  BY DEF Basis, TreeInv, PlanOK, AppendLine
<1>4. entry \in Entries
  BY <1>1, <1>2, <1>3 DEF Entries
<1>5. transcript' = Append(transcript, entry)
  BY <1>2 DEF AppendLine
<1> HIDE DEF entry
<1>6. /\ Len(transcript') = n /\ DOMAIN transcript' = 1..n
      /\ transcript'[n] = entry
      /\ \A i \in 1..(n - 1) : transcript'[i] = transcript[i]
  BY <1>1, <1>4, <1>5
<1>7. \A l \in 0..(n - 1) : Chain(l)' = Chain(l)
  <2>1. \A i \in DOMAIN transcript : i \in DOMAIN transcript' /\ transcript'[i] = transcript[i]
    BY <1>1, <1>6
  <2> QED BY <1>1, <2>1, ChainsKept DEF Basis, TreeInv
<1>8. EffectiveParent(transcript'[n]) = state.leaf /\ transcript'[n].kind = Head(plan)
  BY <1>1, <1>2, <1>6 DEF EffectiveParent, entry
<1>9. Chain(n)' = {n} \cup Chain(state.leaf)
  <2>1. PICK p \in 0..(n - 1) : p = state.leaf
    BY <1>2
  <2>2. p \in 0..Len(transcript') /\ n \in DOMAIN transcript'
    BY <1>1, <1>6
  <2>3. EffectiveParent(transcript[n])' = p
    BY <1>8, <2>1 DEF EffectiveParent
  <2>4. Chain(n)' = {n} \cup Chain(p)'
    BY <2>2, <2>3 DEF Basis, ChainFacts, ChainUnfolds
  <2> QED BY <1>7, <2>1, <2>4
<1>10. /\ state'.leaf = n
       /\ state'.upTo = state.upTo /\ state'.covers = state.covers
  <2> DEFINE read == [state EXCEPT !.last = n]
  <2>1. state \in States
    BY DEF Basis, TypeOK
  <2>2. /\ read \in States /\ read.upTo = state.upTo /\ read.covers = state.covers
    BY <2>1 DEF States
  <2>3. state' = [read EXCEPT !.leaf = n]
    BY <1>1, <1>2 DEF AppendLine
  <2> HIDE DEF read
  <2> QED BY <2>2, <2>3 DEF States
<1> QED BY <1>1, <1>2, <1>6, <1>7, <1>8, <1>9, <1>10

(* Every other step leaves the file and all chains alone.                  *)
LEMMA FileStays ==
  ASSUME Basis, Basis', UNCHANGED transcript
  PROVE  /\ Len(transcript) \in Nat /\ DOMAIN transcript = 1..Len(transcript)
         /\ \A l \in 0..Len(transcript) : Chain(l)' = Chain(l)
         /\ \A l \in 0..Len(transcript) : Continues(l)' <=> Continues(l)
         /\ Linear' <=> Linear
<1>1. Len(transcript) \in Nat /\ DOMAIN transcript = 1..Len(transcript)
  BY DEF Basis, TreeInv, TreeOK
<1>2. \A l \in 0..Len(transcript) : Chain(l)' = Chain(l)
  BY ChainsKept DEF Basis, TreeInv
<1>3. Linear' <=> Linear
  BY DEF Linear, EffectiveParent
<1>4. ASSUME NEW l \in 0..Len(transcript)
      PROVE  Continues(l)' <=> Continues(l)
  <2>1. \A at \in DOMAIN transcript : Chain(at)' = Chain(at)
    BY <1>1, <1>2
  <2>2. Chain(l)' = Chain(l)
    BY <1>2
  <2> QED BY <2>1, <2>2 DEF Continues
<1> QED BY <1>1, <1>2, <1>3, <1>4

LEMMA LeavesInit == Init => LeavesInv
<1> SUFFICES ASSUME Init PROVE LeavesInv
  OBVIOUS
<1>1. PICK n \in LegacyEntries :
        /\ transcript = [i \in 1..n |-> [sequence |-> i, parent |-> 0,
                           kind |-> IF i % 2 = 1 THEN "user" ELSE "assistant"]]
        /\ saved = [last |-> n, leaf |-> 0, upTo |-> 0, covers |-> {}]
        /\ acked = 1..n
  BY DEF Init
<1>2. n \in Nat /\ Len(transcript) = n /\ DOMAIN transcript = 1..n
  BY <1>1, LimitsAssumption
<1>3. Linear
  BY <1>1, <1>2 DEF Linear, EffectiveParent
<1> QED BY <1>1, <1>2, <1>3 DEF Init, LeavesInv, SavedLeafOK, StateLeafOK

LEMMA LeafIsInFile ==
  ASSUME Basis
  PROVE  /\ Len(transcript) \in Nat /\ DOMAIN transcript = 1..Len(transcript)
         /\ saved.leaf \in 0..Len(transcript)
         /\ pc # "down" => state.leaf \in 0..Len(transcript)
BY DEF Basis, TreeInv, TreeOK, SavedOK, CursorOK

(* What was acknowledged is on the running worker's chain.                 *)
LEMMA AckedOnChain ==
  ASSUME Basis, LeavesInv, pc # "down", used.switches = 0
  PROVE  \A i \in acked : i \in Chain(state.leaf)
<1>1. SavedLeafOK /\ StateLeafOK /\ acked \subseteq 1..Len(transcript)
  BY DEF LeavesInv
<1>2. CASE saved.leaf = 0
  <2>1. state.leaf = Len(transcript) /\ Linear
    BY <1>1, <1>2 DEF SavedLeafOK, StateLeafOK
  <2>2. Chain(Len(transcript)) = 1..Len(transcript)
    BY <2>1, LinearChains, LeafIsInFile DEF Basis, TreeInv
  <2> QED BY <1>1, <2>1, <2>2
<1>3. CASE saved.leaf # 0
  <2>1. saved.leaf \in Chain(state.leaf) /\ \A i \in acked : i \in Chain(saved.leaf)
    BY <1>1, <1>3 DEF SavedLeafOK, StateLeafOK
  <2>2. Chain(saved.leaf) \subseteq Chain(state.leaf)
    BY <2>1, LeafIsInFile DEF Basis, ChainFacts
  <2> QED BY <2>1, <2>2
<1> QED BY <1>2, <1>3

(* state.json with an entry the conversation may continue from.            *)
LEMMA LeafSaved ==
  ASSUME Basis, Basis', UNCHANGED transcript,
         NEW l \in 1..Len(transcript), saved'.leaf = l, state'.leaf = l,
         Continues(l), \A i \in acked' : i \in Chain(l)
  PROVE  SavedLeafOK' /\ StateLeafOK'
<1>1. l \in 0..Len(transcript) /\ l # 0
  BY LeafIsInFile
<1>2. Continues(l)' /\ Chain(l)' = Chain(l) /\ l \in Chain(l)
  BY <1>1, FileStays DEF Basis, ChainFacts
<1>3. SavedLeafOK'
  BY <1>1, <1>2 DEF SavedLeafOK
<1>4. StateLeafOK'
  BY <1>1, <1>2 DEF StateLeafOK
<1> QED BY <1>3, <1>4

(* A step that leaves files and leaf alone.                                *)
LEMMA LeavesStay ==
  ASSUME Basis, Basis', LeavesInv,
         UNCHANGED <<transcript, saved, acked>>, used'.switches = used.switches,
         pc' # "down" => pc # "down" /\ UNCHANGED state, pc' = "save" => pc = "save"
  PROVE  LeavesInv'
<1>1. /\ acked' \subseteq 1..Len(transcript')
      /\ pc' = "save" => transcript' # << >> /\ state'.leaf = Len(transcript')
  BY DEF LeavesInv
<1>2. ASSUME used.switches = 0 PROVE SavedLeafOK' /\ StateLeafOK'
  <2>1. SavedLeafOK /\ StateLeafOK
    BY <1>2 DEF LeavesInv
  <2>2. PICK l \in 0..Len(transcript) : l = saved.leaf
    BY LeafIsInFile
  <2>3. Continues(l)' <=> Continues(l)
    BY FileStays
  <2>4. Chain(l)' = Chain(l) /\ (Linear' <=> Linear)
    BY FileStays
  <2>5. SavedLeafOK'
    BY <2>1, <2>2, <2>3, <2>4 DEF SavedLeafOK
  <2>6. ASSUME pc' # "down" PROVE StateLeafOK'
    <3>1. PICK m \in 0..Len(transcript) : m = state.leaf
      BY <2>6, LeafIsInFile
    <3>2. (Continues(m)' <=> Continues(m)) /\ Chain(m)' = Chain(m)
      BY FileStays
    <3> QED BY <2>1, <2>6, <3>1, <3>2 DEF StateLeafOK
  <2> QED BY <2>5, <2>6 DEF StateLeafOK
<1> QED BY <1>1, <1>2 DEF LeavesInv

LEMMA AppendKeepsLeaves ==
  ASSUME Basis, Basis', LeavesInv, AppendLine PROVE LeavesInv'
<1>1. PICK n \in Nat : n = Len(transcript) + 1
  BY LeafIsInFile
<1>2. /\ DOMAIN transcript = 1..(n - 1)
      /\ Len(transcript') = n /\ DOMAIN transcript' = 1..n
      /\ \A i \in 1..(n - 1) : transcript'[i] = transcript[i]
      /\ \A l \in 0..(n - 1) : Chain(l)' = Chain(l)
      /\ Chain(n)' = {n} \cup Chain(state.leaf)
      /\ EffectiveParent(transcript'[n]) = state.leaf
      /\ state.leaf \in 0..(n - 1) /\ state'.leaf = n
  BY <1>1, AppendGrows
<1>3. /\ pc # "down" /\ saved' = saved /\ acked' = acked /\ used' = used
  BY DEF AppendLine
<1>4. n - 1 = Len(transcript) /\ n - 1 \in Nat
  BY <1>1, LeafIsInFile
<1>5. /\ acked' \subseteq 1..Len(transcript')
      /\ transcript' # << >> /\ state'.leaf = Len(transcript')
  <2>1. acked \subseteq 1..(n - 1)
    BY <1>4 DEF LeavesInv
  <2>2. transcript' # << >>
    BY <1>2, <1>4
  <2> QED BY <1>2, <1>3, <2>1, <2>2
<1>6. ASSUME used.switches = 0 PROVE SavedLeafOK' /\ StateLeafOK'
  <2>1. SavedLeafOK /\ StateLeafOK
    BY <1>6 DEF LeavesInv
  <2>2. PICK l \in 0..(n - 1) : l = saved.leaf
    BY <1>4, LeafIsInFile
  <2>3. PICK p \in 0..(n - 1) : p = state.leaf
    BY <1>2
  <2>4. Continues(p) /\ (l = 0 => p = n - 1) /\ (l # 0 => l \in Chain(p))
    BY <1>3, <1>4, <2>1, <2>2, <2>3 DEF StateLeafOK
  <2>5. l # 0 => Chain(l) \subseteq Chain(p)
    BY <1>4, <2>4 DEF Basis, ChainFacts
  <2>6. \A m \in 0..(n - 1) : Chain(m) \subseteq 1..(n - 1)
    <3>1. \A m \in 0..(n - 1) : Chain(m) \subseteq 1..m
      BY <1>4 DEF Basis, ChainFacts
    <3> QED BY <1>4, <3>1
  <2>7. ASSUME l = 0 PROVE SavedLeafOK'
    <3>1. Linear
      BY <2>1, <2>2, <2>7 DEF SavedLeafOK
    <3>2. ASSUME NEW i \in 1..n PROVE EffectiveParent(transcript'[i]) = i - 1
      <4>1. CASE i = n
        BY <1>2, <2>3, <2>4, <2>7, <4>1
      <4>2. CASE i # n
        BY <1>2, <3>1, <4>2 DEF Linear
      <4> QED BY <4>1, <4>2
    <3>3. Linear'
      BY <1>2, <3>2 DEF Linear, EffectiveParent
    <3>4. saved'.leaf = 0
      BY <1>3, <2>2, <2>7
    <3> QED BY <3>3, <3>4 DEF SavedLeafOK
  <2>8. ASSUME NEW m \in 0..(n - 1), Continues(m), Chain(m) \subseteq Chain(p) \/ m = p
        PROVE  Continues(m)'
    <3>1. ASSUME NEW at \in 1..n, NEW k \in Chain(m), k <= at PROVE k \in Chain(at)'
      <4>1. CASE at = n
        BY <1>2, <2>3, <2>8, <3>1, <4>1
      <4>2. CASE at # n
        <5>1. at \in DOMAIN transcript /\ Chain(at)' = Chain(at)
          BY <1>2, <4>2
        <5> QED BY <2>8, <3>1, <5>1 DEF Continues
      <4> QED BY <4>1, <4>2
    <3>2. Chain(m)' = Chain(m)
      BY <1>2
    <3> QED BY <1>2, <3>1, <3>2 DEF Continues
  <2>9. ASSUME l # 0 PROVE SavedLeafOK'
    <3>1. Continues(l) /\ \A i \in acked : i \in Chain(l)
      BY <2>1, <2>2, <2>9 DEF SavedLeafOK
    <3>2. Continues(l)'
      BY <2>5, <2>8, <2>9, <3>1
    <3>3. Chain(l)' = Chain(l)
      BY <1>2
    <3>4. saved'.leaf = l /\ acked' = acked
      BY <1>3, <2>2
    <3> QED BY <2>9, <3>1, <3>2, <3>3, <3>4 DEF SavedLeafOK
  <2>10. Continues(n)'
    <3>1. ASSUME NEW at \in 1..n, NEW k \in Chain(n)', k <= at PROVE k \in Chain(at)'
      <4>1. CASE at = n
        BY <3>1, <4>1
      <4>2. CASE at # n
        <5>1. k \in Chain(p)
          BY <1>2, <2>3, <3>1, <4>2
        <5>2. at \in DOMAIN transcript /\ Chain(at)' = Chain(at)
          BY <1>2, <4>2
        <5> QED BY <2>4, <3>1, <5>1, <5>2 DEF Continues
      <4> QED BY <4>1, <4>2
    <3> QED BY <1>2, <3>1 DEF Continues
  <2>11. l # 0 => l \in Chain(n)'
    BY <1>2, <2>3, <2>4
  <2>12. StateLeafOK'
    BY <1>2, <1>3, <2>2, <2>10, <2>11 DEF StateLeafOK
  <2> QED BY <2>7, <2>9, <2>12
<1> QED BY <1>3, <1>5, <1>6 DEF LeavesInv

LEMMA LeavesStep ==
  ASSUME Basis, Basis', LeavesInv, [Next]_vars PROVE LeavesInv'
<1>0. Len(transcript) \in Nat /\ DOMAIN transcript = 1..Len(transcript)
  BY LeafIsInFile
<1>1. CASE AppendLine
  BY <1>1, AppendKeepsLeaves
<1>2. CASE AppendDone
  <2>1. /\ pc = "save" /\ pc' # "save" /\ saved' = state /\ state' = state
        /\ transcript' = transcript /\ used' = used /\ acked' = acked \cup {state.leaf}
    BY <1>2 DEF AppendDone, WriteState, Basis, TypeOK
  <2>2. PICK l \in 1..Len(transcript) : l = state.leaf
    <3>1. state.leaf = Len(transcript) /\ transcript # << >>
      BY <2>1 DEF LeavesInv
    <3>2. Len(transcript) # 0
      BY <3>1 DEF Basis, TypeOK
    <3>3. state.leaf \in 1..Len(transcript)
      BY <1>0, <3>1, <3>2
    <3> QED BY <3>3
  <2>3. acked' \subseteq 1..Len(transcript')
    BY <2>1, <2>2 DEF LeavesInv
  <2>4. ASSUME used.switches = 0 PROVE SavedLeafOK' /\ StateLeafOK'
    <3>1. Continues(l)
      BY <2>1, <2>2, <2>4 DEF LeavesInv, StateLeafOK
    <3>2. \A i \in acked : i \in Chain(l)
      BY <2>1, <2>2, <2>4, AckedOnChain
    <3>3. l \in Chain(l)
      BY <1>0 DEF Basis, ChainFacts
    <3>4. \A i \in acked' : i \in Chain(l)
      BY <2>1, <2>2, <3>2, <3>3
    <3> QED BY <2>1, <2>2, <3>1, <3>4, LeafSaved
  <2> QED BY <2>1, <2>3, <2>4 DEF LeavesInv
<1>3. CASE Prompt \/ SystemEntry \/ Respond
  BY <1>3, LeavesStay DEF Prompt, SystemEntry, Begin, Respond
<1>4. CASE Fail
  <2>1. used'.switches = used.switches
    BY <1>4, FaultTypes DEF Fail, Basis
  <2> QED BY <1>4, <2>1, LeavesStay DEF Fail, Fault
<1>5. CASE Compact
  <2>1. /\ pc # "down" /\ pc' = "append" /\ transcript' = transcript /\ acked' = acked
        /\ used'.switches = used.switches
    BY <1>5 DEF Compact, Basis, TypeOK
  <2>2. PICK cut \in Visible : state'.leaf = state.leaf /\ saved' = state'
    BY <1>5, CompactCuts DEF Basis
  <2>3. PICK l \in 1..Len(transcript) : l = state.leaf
    <3>1. state.leaf \in 0..Len(transcript)
      BY <2>1, LeafIsInFile
    <3>2. state.leaf # 0
      <4>1. Chain(0) = {}
        BY DEF Basis, ChainFacts, ChainUnfolds
      <4>2. cut \in Chain(state.leaf)
        BY DEF Visible
      <4> QED BY <4>1, <4>2
    <3> QED BY <1>0, <3>1, <3>2
  <2>4. ASSUME used.switches = 0 PROVE SavedLeafOK' /\ StateLeafOK'
    <3>1. Continues(l)
      BY <2>1, <2>3, <2>4 DEF LeavesInv, StateLeafOK
    <3>2. \A i \in acked' : i \in Chain(l)
      BY <2>1, <2>3, <2>4, AckedOnChain
    <3> QED BY <2>1, <2>2, <2>3, <3>1, <3>2, LeafSaved
  <2> QED BY <2>1, <2>4 DEF LeavesInv
<1>6. CASE Crash
  <2>1. used'.switches = used.switches
    BY <1>6, FaultTypes DEF Crash, Basis
  <2> QED BY <1>6, <2>1, LeavesStay DEF Crash, Fault
<1>7. CASE Recover
  <2>1. /\ pc' = "idle" /\ transcript' = transcript /\ acked' = acked /\ used' = used
        /\ saved' = state'
    BY <1>7 DEF Recover
  <2>2. LastWritten = Len(transcript)
    BY DEF Basis, TreeInv, TreeOK, LastWritten
  <2>3. state'.leaf = IF saved.leaf = 0 THEN Len(transcript) ELSE saved.leaf
    BY <1>7, <2>2 DEF Recover, Basis, TypeOK, States
  <2>4. PICK l \in 0..Len(transcript) : l = state'.leaf
    <3>1. saved.leaf \in 0..Len(transcript)
      BY LeafIsInFile
    <3>2. state'.leaf \in 0..Len(transcript)
      BY <1>0, <2>3, <3>1
    <3> QED BY <3>2
  <2>5. ASSUME used.switches = 0 PROVE SavedLeafOK' /\ StateLeafOK'
    <3>1. SavedLeafOK
      BY <2>5 DEF LeavesInv
    <3>2. CASE saved.leaf = 0
      <4>1. Linear /\ \A n \in 0..Len(transcript) : Chain(n) = 1..n
        BY <3>1, <3>2, LinearChains DEF SavedLeafOK, Basis, TreeInv
      <4>2. l = Len(transcript)
        BY <2>3, <2>4, <3>2
      <4>3. Continues(l)
        BY <1>0, <4>1, <4>2 DEF Continues
      <4>4. CASE l = 0
        <5>1. Linear' /\ Continues(l)'
          BY <2>1, <4>1, <4>3, FileStays
        <5> QED BY <2>1, <2>4, <4>2, <4>4, <5>1 DEF SavedLeafOK, StateLeafOK
      <4>5. CASE l # 0
        <5>1. \A i \in acked' : i \in Chain(l)
          BY <1>0, <2>1, <4>1, <4>2 DEF LeavesInv
        <5>2. l \in 1..Len(transcript)
          BY <1>0, <4>5
        <5> QED BY <2>1, <2>4, <4>3, <5>1, <5>2, LeafSaved
      <4> QED BY <4>4, <4>5
    <3>3. CASE saved.leaf # 0
      <4>1. l = saved.leaf /\ l \in 1..Len(transcript)
        BY <1>0, <2>3, <2>4, <3>3
      <4>2. Continues(l) /\ \A i \in acked' : i \in Chain(l)
        BY <2>1, <3>1, <3>3, <4>1 DEF SavedLeafOK
      <4> QED BY <2>1, <2>4, <4>1, <4>2, LeafSaved
    <3> QED BY <3>2, <3>3
  <2>6. acked' \subseteq 1..Len(transcript')
    BY <2>1 DEF LeavesInv
  <2> QED BY <2>1, <2>5, <2>6 DEF LeavesInv
<1>8. ASSUME NEW n \in DOMAIN transcript, SetActiveLeaf(n) PROVE LeavesInv'
  <2>1. used'.switches # 0 /\ pc' # "save"
    BY <1>8 DEF SetActiveLeaf, Basis, TypeOK
  <2> QED BY <1>8, <2>1 DEF SetActiveLeaf, LeavesInv
<1>9. CASE UNCHANGED vars
  BY <1>9, LeavesStay DEF vars
<1> QED BY <1>1, <1>2, <1>3, <1>4, <1>5, <1>6, <1>7, <1>8, <1>9 DEF Next

BasisInv == TypeOK /\ TreeInv

LEMMA BasisHolds == BasisInv => Basis
BY Chains DEF BasisInv, Basis, TreeInv

LEMMA BasisStep == BasisInv /\ [Next]_vars => BasisInv' /\ Basis /\ Basis'
<1>1. BasisInv /\ [Next]_vars => BasisInv'
  BY TypeStep, TreeStep DEF BasisInv
<1>2. BasisInv' => Basis'
  BY BasisHolds, PTL
<1> QED BY <1>1, <1>2, BasisHolds

LEMMA LeavesAlways == Spec => [](BasisInv /\ LeavesInv)
<1>1. Init => BasisInv /\ LeavesInv
  BY TypeInit, TreeInit, LeavesInit DEF BasisInv
<1>2. BasisInv /\ LeavesInv /\ [Next]_vars => BasisInv' /\ LeavesInv'
  BY BasisStep, LeavesStep
<1> QED BY <1>1, <1>2, PTL DEF Spec

(* Everything acknowledged is on the active chain until somebody redirects *)
(* the leaf, over any crashes, failed requests, compactions and recoveries *)
(* (append_entry, recover, active_chain).                                  *)
THEOREM Acknowledged == Spec => []AckedTurnsStay
<1>1. BasisInv /\ LeavesInv => AckedTurnsStay
  BY BasisHolds, AckedOnChain DEF AckedTurnsStay
<1> QED BY <1>1, LeavesAlways, PTL

(* A fork cut anywhere has all the entries of the source's conversation up *)
(* to there, whatever crash or failure it caught half-written, until       *)
(* somebody redirects the leaf (snapshot_for_fork, seed_forked_session).   *)
THEOREM ForksContinue == Spec => []ForkContinues
<1>1. ASSUME BasisInv, LeavesInv PROVE ForkContinues
  <2>1. Basis
    BY <1>1, BasisHolds
  <2>2. Len(transcript) \in Nat /\ DOMAIN transcript = 1..Len(transcript)
    BY <2>1, LeafIsInFile
  <2>3. ASSUME NEW at \in DOMAIN transcript PROVE ForkedChain(at) = Chain(at)
    <3>1. Retained(at) = 1..at
      BY <1>1, <2>2 DEF Retained, BasisInv, TreeInv, TreeOK
    <3>2. at \in Retained(at) /\ \A m \in Retained(at) : m <= at
      BY <2>2, <3>1
    <3>3. (CHOOSE n \in Retained(at) : \A m \in Retained(at) : m <= n) = at
      <4>1. \A n \in 1..at : (\A m \in 1..at : m <= n) => n = at
        BY <2>2
      <4> QED BY <3>1, <3>2, <4>1
    <3> QED BY <3>2, <3>3 DEF ForkedChain
  <2>4. ASSUME saved.leaf # 0, used.switches = 0 PROVE Continues(saved.leaf)
    BY <1>1, <2>4 DEF LeavesInv, SavedLeafOK
  <2> QED BY <2>3, <2>4 DEF ForkContinues, Continues
<1> QED BY <1>1, LeavesAlways, PTL

-----------------------------------------------------------------------------
(* What the summary covers.                                                *)

HiddenBelow(l, upTo) == {n \in Chain(l) : n <= upTo}

(* Boundary and summary change together, in memory and in state.json, and  *)
(* while the leaf is never redirected what the boundary hides of either    *)
(* one's chain is what the summary was made of.                            *)
SummaryInv ==
  /\ saved.upTo \in 0..Len(transcript)
  /\ pc # "down" => state.upTo = saved.upTo /\ state.covers = saved.covers
  /\ used.switches = 0 =>
       /\ saved.leaf = 0 => saved.upTo = 0
       /\ saved.covers = HiddenBelow(saved.leaf, saved.upTo)
       /\ pc # "down" => state.covers = HiddenBelow(state.leaf, state.upTo)

LEMMA SummaryInit == Init => SummaryInv
<1> SUFFICES ASSUME Init PROVE SummaryInv
  OBVIOUS
<1>1. saved.upTo = 0 /\ saved.leaf = 0 /\ saved.covers = {} /\ pc = "down"
  BY DEF Init
<1>2. BasisInv
  BY TypeInit, TreeInit DEF BasisInv
<1>3. Chain(0) = {} /\ Len(transcript) \in Nat
  BY <1>2, BasisHolds DEF Basis, ChainFacts, ChainUnfolds, TreeInv, TreeOK
<1>4. HiddenBelow(0, 0) = {}
  BY <1>3 DEF HiddenBelow
<1> QED BY <1>1, <1>3, <1>4 DEF SummaryInv

LEMMA HiddenStays ==
  ASSUME Basis, Basis', UNCHANGED transcript, NEW l \in 0..Len(transcript), NEW u
  PROVE  HiddenBelow(l, u)' = HiddenBelow(l, u)
<1>1. Chain(l)' = Chain(l)
  BY FileStays
<1> QED BY <1>1 DEF HiddenBelow

LEMMA SummaryStays ==
  ASSUME Basis, Basis', SummaryInv, UNCHANGED <<transcript, saved>>,
         used'.switches = used.switches, pc' # "down" => pc # "down" /\ UNCHANGED state
  PROVE  SummaryInv'
<1>1. PICK l \in 0..Len(transcript), u \in Nat : l = saved.leaf /\ u = saved.upTo
  BY LeafIsInFile DEF Basis, TypeOK, States
<1>2. HiddenBelow(l, u)' = HiddenBelow(l, u)
  BY HiddenStays
<1>3. used.switches = 0 => saved'.covers = HiddenBelow(saved.leaf, saved.upTo)'
  BY <1>1, <1>2 DEF SummaryInv
<1>4. ASSUME pc' # "down", used.switches = 0
      PROVE  state'.covers = HiddenBelow(state.leaf, state.upTo)'
  <2>1. PICK m \in 0..Len(transcript), v \in Nat : m = state.leaf /\ v = state.upTo
    BY <1>4, LeafIsInFile DEF Basis, TypeOK, States
  <2>2. HiddenBelow(m, v)' = HiddenBelow(m, v)
    BY HiddenStays
  <2> QED BY <1>4, <2>1, <2>2 DEF SummaryInv
<1> QED BY <1>3, <1>4 DEF SummaryInv

(* state.json takes over the boundary and the summary of a leaf that they  *)
(* agree with.                                                             *)
LEMMA SummarySaved ==
  ASSUME Basis, Basis', UNCHANGED transcript, saved' = state',
         NEW l \in 0..Len(transcript), NEW u \in 0..Len(transcript),
         state'.leaf = l, state'.upTo = u,
         used'.switches = 0 =>
           /\ l = 0 => u = 0
           /\ state'.covers = HiddenBelow(l, u)
  PROVE  SummaryInv'
<1>1. HiddenBelow(l, u)' = HiddenBelow(l, u)
  BY HiddenStays
<1> QED BY <1>1 DEF SummaryInv

LEMMA SummaryStep ==
  ASSUME Basis, Basis', LeavesInv, SummaryInv, [Next]_vars PROVE SummaryInv'
<1>0. Len(transcript) \in Nat /\ DOMAIN transcript = 1..Len(transcript)
  BY LeafIsInFile
<1>1. CASE AppendLine
  <2>1. PICK n \in Nat : n = Len(transcript) + 1
    BY <1>0
  <2>2. /\ Len(transcript') = n
        /\ \A l \in 0..(n - 1) : Chain(l)' = Chain(l)
        /\ Chain(n)' = {n} \cup Chain(state.leaf)
        /\ state.leaf \in 0..(n - 1)
        /\ state'.leaf = n /\ state'.upTo = state.upTo /\ state'.covers = state.covers
    BY <1>1, <2>1, AppendGrows
  <2>3. pc # "down" /\ saved' = saved /\ used' = used
    BY <1>1 DEF AppendLine
  <2>4. PICK l \in 0..(n - 1), u \in 0..(n - 1) : l = saved.leaf /\ u = saved.upTo
    <3>1. saved.leaf \in 0..(n - 1) /\ saved.upTo \in 0..(n - 1)
      BY <1>0, <2>1, LeafIsInFile DEF SummaryInv
    <3> QED BY <3>1
  <2>5. HiddenBelow(l, u)' = HiddenBelow(l, u)
    BY <2>2 DEF HiddenBelow
  <2>6. HiddenBelow(n, u)' = HiddenBelow(state.leaf, u)
    <3>1. ~(n <= u)
      BY <2>1, <2>4
    <3> QED BY <2>2, <3>1 DEF HiddenBelow
  <2>7. state'.upTo = u /\ state.upTo = u /\ state'.covers = saved'.covers
    BY <2>2, <2>3, <2>4 DEF SummaryInv
  <2>8. saved'.upTo \in 0..Len(transcript')
    BY <2>1, <2>2, <2>3, <2>4
  <2> QED BY <2>2, <2>3, <2>4, <2>5, <2>6, <2>7, <2>8 DEF SummaryInv
<1>2. CASE AppendDone
  <2>1. /\ pc # "down" /\ saved' = state /\ state' = state
        /\ transcript' = transcript /\ used' = used
    BY <1>2 DEF AppendDone, WriteState
  <2>2. PICK l \in 0..Len(transcript), u \in 0..Len(transcript) :
          l = state.leaf /\ u = state.upTo
    BY <2>1, LeafIsInFile DEF SummaryInv
  <2>3. l # 0
    <3>1. state.leaf = Len(transcript) /\ transcript # << >>
      BY <1>2 DEF LeavesInv, AppendDone
    <3> QED BY <2>2, <3>1 DEF Basis, TypeOK
  <2>4. used.switches = 0 => state.covers = HiddenBelow(l, u)
    BY <2>1, <2>2 DEF SummaryInv
  <2> QED BY <2>1, <2>2, <2>3, <2>4, SummarySaved
<1>3. CASE Prompt \/ SystemEntry \/ Respond
  BY <1>3, SummaryStays DEF Prompt, SystemEntry, Begin, Respond
<1>4. CASE Fail
  <2>1. used'.switches = used.switches
    BY <1>4, FaultTypes DEF Fail, Basis
  <2> QED BY <1>4, <2>1, SummaryStays DEF Fail, Fault
<1>5. CASE Compact
  <2>1. pc # "down" /\ transcript' = transcript /\ used'.switches = used.switches
    BY <1>5 DEF Compact, Basis, TypeOK
  <2>2. PICK cut \in Visible :
          /\ cut \in 1..Len(transcript) /\ saved' = state'
          /\ state'.leaf = state.leaf /\ state'.upTo = cut
          /\ state'.covers = state.covers \cup {k \in Visible : k <= cut}
    BY <1>5, CompactCuts DEF Basis
  <2>3. PICK l \in 0..Len(transcript) : l = state.leaf
    BY <2>1, LeafIsInFile
  <2>4. /\ Chain(l) \subseteq 1..Len(transcript) /\ state.upTo \in 0..Len(transcript)
        /\ Visible = {n \in Chain(l) : n > state.upTo}
    BY <2>1, <2>3 DEF Visible, Basis, ChainFacts, SummaryInv
  <2>5. l # 0
    <3>1. Chain(0) = {}
      BY DEF Basis, ChainFacts, ChainUnfolds
    <3> QED BY <2>4, <3>1
  <2>6. ASSUME used.switches = 0 PROVE state'.covers = HiddenBelow(l, cut)
    <3>1. state.covers = {n \in Chain(l) : n <= state.upTo}
      BY <2>1, <2>3, <2>6 DEF SummaryInv, HiddenBelow
    <3>2. cut > state.upTo
      BY <2>4
    <3>3. \A n \in Chain(l) : n <= cut <=> n <= state.upTo \/ (n > state.upTo /\ n <= cut)
      BY <1>0, <2>2, <2>4, <3>2
    <3> QED BY <2>2, <2>4, <3>1, <3>3 DEF HiddenBelow
  <2>7. cut \in 0..Len(transcript)
    BY <2>2
  <2> QED BY <2>1, <2>2, <2>3, <2>5, <2>6, <2>7, SummarySaved
<1>6. CASE Crash
  <2>1. used'.switches = used.switches
    BY <1>6, FaultTypes DEF Crash, Basis
  <2> QED BY <1>6, <2>1, SummaryStays DEF Crash, Fault
<1>7. CASE Recover
  <2>1. transcript' = transcript /\ used' = used /\ saved' = state'
    BY <1>7 DEF Recover
  <2>2. LastWritten = Len(transcript)
    BY DEF Basis, TreeInv, TreeOK, LastWritten
  <2>3. /\ state'.leaf = IF saved.leaf = 0 THEN Len(transcript) ELSE saved.leaf
        /\ state'.upTo = saved.upTo /\ state'.covers = saved.covers
    <3> DEFINE read == [saved EXCEPT !.last = Cursor]
    <3>1. /\ saved \in States /\ DOMAIN read = DOMAIN saved
          /\ read.leaf = saved.leaf /\ read.upTo = saved.upTo /\ read.covers = saved.covers
      BY DEF Basis, TypeOK, States
    <3>2. state' = [read EXCEPT !.leaf = IF saved.leaf = 0 THEN LastWritten ELSE saved.leaf]
      BY <1>7, <3>1 DEF Recover
    <3>3. DOMAIN saved = {"last", "leaf", "upTo", "covers"}
      BY <3>1 DEF States
    <3> HIDE DEF read
    <3> QED BY <2>2, <3>1, <3>2, <3>3
  <2>4. PICK l \in 0..Len(transcript), u \in 0..Len(transcript) :
          l = state'.leaf /\ u = state'.upTo
    <3>1. saved.leaf \in 0..Len(transcript) /\ saved.upTo \in 0..Len(transcript)
      BY LeafIsInFile DEF SummaryInv
    <3>2. state'.leaf \in 0..Len(transcript)
      BY <1>0, <2>3, <3>1
    <3> QED BY <2>3, <3>1, <3>2
  <2>5. ASSUME used.switches = 0
        PROVE  (l = 0 => u = 0) /\ state'.covers = HiddenBelow(l, u)
    <3>1. saved.covers = HiddenBelow(saved.leaf, u) /\ (saved.leaf = 0 => u = 0)
      BY <2>3, <2>4, <2>5 DEF SummaryInv
    <3>2. CASE saved.leaf # 0
      BY <2>3, <2>4, <3>1, <3>2
    <3>3. CASE saved.leaf = 0
      <4>1. \A m \in 0..Len(transcript) : HiddenBelow(m, 0) = {}
        <5>1. \A m \in 0..Len(transcript) : Chain(m) \subseteq 1..m
          BY DEF Basis, ChainFacts
        <5> QED BY <1>0, <5>1 DEF HiddenBelow
      <4>2. HiddenBelow(l, 0) = {} /\ HiddenBelow(0, 0) = {}
        BY <1>0, <4>1
      <4> QED BY <2>3, <3>1, <3>3, <4>2
    <3> QED BY <3>2, <3>3
  <2> QED BY <2>1, <2>4, <2>5, SummarySaved
<1>8. ASSUME NEW n \in DOMAIN transcript, SetActiveLeaf(n) PROVE SummaryInv'
  <2>1. /\ used'.switches # 0 /\ transcript' = transcript /\ saved' = state' /\ pc # "down"
    BY <1>8 DEF SetActiveLeaf, Basis, TypeOK
  <2>2. state' = [state EXCEPT !.leaf = n] /\ state \in States
    BY <1>8 DEF SetActiveLeaf, Basis, TypeOK
  <2>3. state'.upTo = state.upTo /\ state.upTo \in 0..Len(transcript)
    BY <2>1, <2>2 DEF SummaryInv, States
  <2> QED BY <2>1, <2>3 DEF SummaryInv
<1>9. CASE UNCHANGED vars
  BY <1>9, SummaryStays DEF vars
<1> QED BY <1>1, <1>2, <1>3, <1>4, <1>5, <1>6, <1>7, <1>8, <1>9 DEF Next

(* What build_turns leaves out of the conversation is exactly what the     *)
(* running summary was made of, until somebody redirects the leaf: over    *)
(* compactions in the middle of a turn, crashes and failures (compact_now).*)
THEOREM Summarised == Spec => []SummaryIsOfHidden
<1>1. Init => BasisInv /\ LeavesInv /\ SummaryInv
  BY TypeInit, TreeInit, LeavesInit, SummaryInit DEF BasisInv
<1>2. BasisInv /\ LeavesInv /\ SummaryInv /\ [Next]_vars
        => BasisInv' /\ LeavesInv' /\ SummaryInv'
  BY BasisStep, LeavesStep, SummaryStep
<1>3. SummaryInv => SummaryIsOfHidden
  BY DEF SummaryInv, SummaryIsOfHidden, Hidden, HiddenBelow
<1> QED BY <1>1, <1>2, <1>3, PTL DEF Spec

-----------------------------------------------------------------------------
(* Calls and their results.                                                *)

OfTurn == {"request", "tool"}

(* While the kernel compacts nothing: the results of a round are appended  *)
(* after their request and nothing else in between, all of it above the    *)
(* boundary.                                                               *)
PlansInv ==
  /\ pc \notin {"append", "save"} => plan = << >>
  /\ pc = "save" => Kind(state.leaf) = plan[1] /\ state.leaf > state.upTo
  /\ ~used.kernel =>
       /\ \A i \in 2..Len(plan) : plan[i] = "tool" /\ plan[1] \in OfTurn
       /\ pc = "append" /\ plan[1] = "tool" =>
            state.leaf > state.upTo /\ Kind(state.leaf) \in OfTurn

LEMMA PlansInit == Init => PlansInv
BY DEF Init, PlansInv

(* A plan of one entry that is no result.                                  *)
LEMMA OneEntryPlan ==
  ASSUME NEW kind, kind # "tool", plan' = <<kind>>, pc' = "append"
  PROVE  PlansInv'
<1>1. Len(plan') = 1 /\ plan'[1] = kind
  OBVIOUS
<1>2. 2..1 = {}
  OBVIOUS
<1> QED BY <1>1, <1>2 DEF PlansInv

LEMMA NothingPlanned ==
  ASSUME plan' = << >>, pc' \notin {"append", "save"}
  PROVE  PlansInv'
<1>1. Len(plan') = 0 /\ 2..0 = {}
  OBVIOUS
<1> QED BY <1>1 DEF PlansInv

LEMMA PlansStep ==
  ASSUME Basis, Basis', LeavesInv, SummaryInv, PlansInv, [Next]_vars PROVE PlansInv'
<1>0. Len(transcript) \in Nat /\ DOMAIN transcript = 1..Len(transcript)
  BY LeafIsInFile
<1>1. CASE AppendLine
  <2>1. PICK n \in Nat : n = Len(transcript) + 1
    BY <1>0
  <2>2. /\ transcript'[n].kind = Head(plan) /\ state'.leaf = n /\ state'.upTo = state.upTo
    BY <1>1, <2>1, AppendGrows
  <2>3. pc = "append" /\ pc' = "save" /\ plan' = plan /\ used' = used
    BY <1>1 DEF AppendLine
  <2>4. plan # << >> /\ plan \in Seq(Kinds) /\ Head(plan) = plan[1]
    BY <2>3 DEF Basis, TypeOK
  <2>5. state'.leaf > state'.upTo
    <3>1. state.upTo \in 0..Len(transcript)
      BY <2>3 DEF SummaryInv
    <3> QED BY <1>0, <2>1, <2>2, <3>1
  <2> QED BY <2>2, <2>3, <2>4, <2>5 DEF PlansInv, Kind
<1>2. CASE AppendDone
  <2>1. /\ pc = "save" /\ plan' = Tail(plan) /\ state' = state /\ used' = used
        /\ transcript' = transcript /\ pc' = IF plan' = << >> THEN after ELSE "append"
    BY <1>2 DEF AppendDone
  <2>2. after \notin {"append", "save"} /\ plan # << >> /\ plan \in Seq(Kinds)
    BY <2>1 DEF Basis, TypeOK
  <2>3. /\ Len(plan') = Len(plan) - 1 /\ Len(plan) \in Nat
        /\ \A i \in 1..Len(plan') : plan'[i] = plan[i + 1]
    BY <2>1, <2>2
  <2>4. CASE plan' = << >>
    BY <2>1, <2>2, <2>4, NothingPlanned
  <2>5. CASE plan' # << >>
    <3>1. pc' = "append" /\ Len(plan) >= 2
      BY <2>1, <2>2, <2>3, <2>5
    <3>2. ASSUME ~used.kernel
          PROVE  /\ \A i \in 1..Len(plan') : plan'[i] = "tool"
                 /\ plan[1] \in OfTurn
      <4>1. \A i \in 2..Len(plan) : plan[i] = "tool" /\ plan[1] \in OfTurn
        BY <3>2 DEF PlansInv
      <4>2. \A i \in 1..Len(plan') : i + 1 \in 2..Len(plan)
        BY <2>3
      <4>3. 2 \in 2..Len(plan)
        BY <2>3, <3>1
      <4> QED BY <2>3, <4>1, <4>2, <4>3
    <3>3. ASSUME ~used'.kernel
          PROVE  \A i \in 2..Len(plan') : plan'[i] = "tool" /\ plan'[1] \in OfTurn
      <4>1. \A i \in 1..Len(plan') : plan'[i] = "tool"
        BY <2>1, <3>2, <3>3
      <4>2. \A i \in 2..Len(plan') : i \in 1..Len(plan') /\ 1 \in 1..Len(plan')
        BY <2>3
      <4> QED BY <4>1, <4>2 DEF OfTurn
    <3>4. ASSUME ~used'.kernel
          PROVE  state'.leaf > state'.upTo /\ Kind(state.leaf)' \in OfTurn
      BY <2>1, <3>2, <3>4 DEF PlansInv, Kind
    <3> QED BY <3>1, <3>3, <3>4 DEF PlansInv
  <2> QED BY <2>4, <2>5
<1>3. CASE Prompt \/ SystemEntry
  BY <1>3, OneEntryPlan DEF Prompt, SystemEntry, Begin
<1>4. CASE Respond
  <2>1. pc' = "append" /\ used' = used
    BY <1>4 DEF Respond
  <2>2. CASE plan' = <<"assistant">>
    BY <2>1, <2>2, OneEntryPlan
  <2>3. ASSUME NEW calls \in 1..MaxCalls,
               plan' = <<"request">> \o [i \in 1..calls |-> "tool"]
        PROVE  PlansInv'
    <3> DEFINE results == [i \in 1..calls |-> "tool"]
    <3>1. /\ <<"request">> \in Seq(Kinds) /\ Len(<<"request">>) = 1
          /\ results \in Seq(Kinds) /\ Len(results) = calls /\ calls \in Nat
          /\ \A i \in 1..calls : results[i] = "tool"
      BY LimitsAssumption DEF Kinds
    <3> HIDE DEF results
    <3>2. PICK r \in Seq(Kinds) : r = <<"request">>
      BY <3>1
    <3>3. plan' = r \o results
      BY <2>3, <3>2 DEF results
    <3>4. /\ Len(plan') = calls + 1 /\ plan'[1] = "request"
          /\ \A i \in 2..(calls + 1) : plan'[i] = results[i - 1]
      BY <3>1, <3>2, <3>3
    <3>5. \A i \in 2..(calls + 1) : plan'[i] = "tool"
      BY <3>1, <3>4
    <3> QED BY <2>1, <3>4, <3>5 DEF PlansInv, OfTurn
  <2> QED BY <1>4, <2>2, <2>3 DEF Respond
<1>5. CASE Fail
  BY <1>5, NothingPlanned DEF Fail, Fault
<1>6. CASE Compact
  <2>1. pc' = "append" /\ plan' = <<"system">> \o plan
    BY <1>6 DEF Compact
  <2>2. CASE pc = "append"
    <3>1. used'.kernel
      BY <1>6, <2>2 DEF Compact, Basis, TypeOK
    <3> QED BY <2>1, <3>1 DEF PlansInv
  <2>3. CASE pc # "append"
    <3>1. plan = << >>
      BY <1>6, <2>3 DEF Compact, PlansInv
    <3>2. plan' = <<"system">>
      BY <2>1, <3>1
    <3> QED BY <2>1, <3>2, OneEntryPlan
  <2> QED BY <2>2, <2>3
<1>7. CASE Crash
  BY <1>7, NothingPlanned DEF Crash, Fault
<1>8. CASE Recover \/ \E n \in DOMAIN transcript : SetActiveLeaf(n)
  <2>1. pc \in {"down", "idle"} /\ pc' = "idle" /\ plan' = plan
    BY <1>8 DEF Recover, SetActiveLeaf
  <2> QED BY <2>1, NothingPlanned DEF PlansInv
<1>9. CASE UNCHANGED vars
  BY <1>9 DEF vars, PlansInv, Kind
<1> QED BY <1>1, <1>2, <1>3, <1>4, <1>5, <1>6, <1>7, <1>8, <1>9 DEF Next

(* A result above the boundary has its parent above it, too.               *)
Together(l, upTo) ==
  \A n \in Chain(l) :
    n > upTo /\ Kind(n) = "tool" => EffectiveParent(transcript[n]) > upTo

(* While the kernel compacts nothing every result follows its request or   *)
(* another result of it, and until somebody redirects the leaf no boundary *)
(* comes between the two, in memory or in state.json.                      *)
FollowsTurn(i) ==
  /\ EffectiveParent(transcript[i]) > 0
  /\ Kind(EffectiveParent(transcript[i])) \in OfTurn

ResultsInv ==
  ~used.kernel =>
    /\ \A i \in DOMAIN transcript : Kind(i) = "tool" => FollowsTurn(i)
    /\ used.switches = 0 => Together(saved.leaf, saved.upTo)
    /\ used.switches = 0 /\ pc # "down" => Together(state.leaf, state.upTo)

LEMMA ResultsInit == Init => ResultsInv
<1> SUFFICES ASSUME Init PROVE ResultsInv
  OBVIOUS
<1>1. PICK m \in LegacyEntries :
        transcript = [i \in 1..m |-> [sequence |-> i, parent |-> 0,
                        kind |-> IF i % 2 = 1 THEN "user" ELSE "assistant"]]
  BY DEF Init
<1>2. DOMAIN transcript = 1..m /\ \A i \in 1..m : Kind(i) \in {"user", "assistant"}
  BY <1>1 DEF Kind
<1>3. pc = "down" /\ saved.leaf = 0
  BY DEF Init
<1>4. Chain(0) = {}
  BY TypeInit, TreeInit, BasisHolds DEF BasisInv, Basis, ChainFacts, ChainUnfolds
<1> QED BY <1>2, <1>3, <1>4 DEF ResultsInv, Together

LEMMA TogetherStays ==
  ASSUME Basis, Basis', UNCHANGED transcript, NEW l \in 0..Len(transcript), NEW u
  PROVE  Together(l, u)' <=> Together(l, u)
<1>1. Chain(l)' = Chain(l)
  BY FileStays
<1> QED BY <1>1 DEF Together, Kind, EffectiveParent

LEMMA FollowingStays ==
  ASSUME UNCHANGED transcript, \A i \in DOMAIN transcript : Kind(i) = "tool" => FollowsTurn(i)
  PROVE  (\A i \in DOMAIN transcript : Kind(i) = "tool" => FollowsTurn(i))'
BY DEF FollowsTurn, Kind, EffectiveParent

(* A step that leaves the file and what state.json says alone.             *)
LEMMA ResultsStay ==
  ASSUME Basis, Basis', ResultsInv, UNCHANGED <<transcript, saved>>,
         used'.switches = used.switches, used'.kernel = used.kernel,
         pc' # "down" => pc # "down" /\ UNCHANGED state
  PROVE  ResultsInv'
<1> SUFFICES ASSUME ~used.kernel PROVE ResultsInv'
  BY DEF ResultsInv
<1>1. (\A i \in DOMAIN transcript : Kind(i) = "tool" => FollowsTurn(i))'
  BY FollowingStays DEF ResultsInv
<1>2. PICK l \in 0..Len(transcript), u \in Nat : l = saved.leaf /\ u = saved.upTo
  BY LeafIsInFile DEF Basis, TypeOK, States
<1>3. Together(l, u)' <=> Together(l, u)
  BY TogetherStays
<1>4. used'.switches = 0 => Together(saved.leaf, saved.upTo)'
  BY <1>2, <1>3 DEF ResultsInv
<1>5. ASSUME pc' # "down", used'.switches = 0 PROVE Together(state.leaf, state.upTo)'
  <2>1. PICK m \in 0..Len(transcript), v \in Nat : m = state.leaf /\ v = state.upTo
    BY <1>5, LeafIsInFile DEF Basis, TypeOK, States
  <2>2. Together(m, v)' <=> Together(m, v)
    BY TogetherStays
  <2> QED BY <1>5, <2>1, <2>2 DEF ResultsInv
<1> QED BY <1>1, <1>4, <1>5 DEF ResultsInv

LEMMA ResultsSaved ==
  ASSUME Basis, Basis', ResultsInv, UNCHANGED transcript, saved' = state',
         used'.kernel = used.kernel,
         NEW l \in 0..Len(transcript), NEW u, state'.leaf = l, state'.upTo = u,
         ~used.kernel /\ used'.switches = 0 => Together(l, u)
  PROVE  ResultsInv'
<1> SUFFICES ASSUME ~used.kernel PROVE ResultsInv'
  BY DEF ResultsInv
<1>1. (\A i \in DOMAIN transcript : Kind(i) = "tool" => FollowsTurn(i))'
  BY FollowingStays DEF ResultsInv
<1>2. Together(l, u)' <=> Together(l, u)
  BY TogetherStays
<1> QED BY <1>1, <1>2 DEF ResultsInv

(* A cut at a turn's boundary leaves no result without its parent.         *)
LEMMA CutKeepsTogether ==
  ASSUME Basis, SummaryInv, pc # "down", NEW n \in Visible, NEW cut \in Visible,
         AtBoundary(n, cut)
  PROVE  Together(state.leaf, cut)
<1> DEFINE len == Len(transcript)
<1>1. /\ len \in Nat /\ DOMAIN transcript = 1..len /\ state.leaf \in 0..len
      /\ state.upTo \in 0..len
  BY LeafIsInFile DEF SummaryInv
<1>2. /\ Chain(state.leaf) \subseteq 1..len
      /\ Visible = {k \in Chain(state.leaf) : k > state.upTo}
  BY <1>1 DEF Basis, ChainFacts, Visible
<1> SUFFICES ASSUME NEW i \in Chain(state.leaf), i > cut, Kind(i) = "tool"
             PROVE  EffectiveParent(transcript[i]) > cut
  BY DEF Together
<1>3. i \in Visible
  BY <1>1, <1>2
<1>4. PICK j \in Visible : cut < j /\ j <= i /\ Kind(j) # "tool"
  BY <1>3 DEF AtBoundary
<1>5. j \in Chain(state.leaf) /\ j # i /\ i \in 1..len /\ j \in 1..len /\ cut \in 1..len
  BY <1>2, <1>4
<1>6. j \in Chain(i)
  BY <1>1, <1>4, <1>5 DEF Basis, ChainFacts
<1>7. PICK p \in 0..len : p = EffectiveParent(transcript[i])
  <2>1. EffectiveParent(transcript[i]) \in 0..(i - 1)
    BY <1>1, <1>5, ParentsAreBefore DEF Basis, TreeInv
  <2> QED BY <1>1, <1>5, <2>1
<1>8. Chain(i) = {i} \cup Chain(p)
  BY <1>1, <1>5, <1>7 DEF Basis, ChainFacts, ChainUnfolds
<1>9. j \in Chain(p)
  BY <1>5, <1>6, <1>8
<1>10. Chain(p) \subseteq 1..p
  BY <1>7 DEF Basis, ChainFacts
<1> QED BY <1>1, <1>4, <1>5, <1>7, <1>9, <1>10

LEMMA ResultsStep ==
  ASSUME Basis, Basis', LeavesInv, SummaryInv, PlansInv, ResultsInv, [Next]_vars
  PROVE  ResultsInv'
<1>0. Len(transcript) \in Nat /\ DOMAIN transcript = 1..Len(transcript)
  BY LeafIsInFile
<1>1. CASE AppendLine
  <2>1. PICK n \in Nat : n = Len(transcript) + 1
    BY <1>0
  <2>2. /\ DOMAIN transcript' = 1..n
        /\ \A i \in 1..(n - 1) : transcript'[i] = transcript[i]
        /\ \A l \in 0..(n - 1) : Chain(l)' = Chain(l)
        /\ Chain(n)' = {n} \cup Chain(state.leaf)
        /\ transcript'[n].kind = Head(plan) /\ EffectiveParent(transcript'[n]) = state.leaf
        /\ state.leaf \in 0..(n - 1)
        /\ state'.leaf = n /\ state'.upTo = state.upTo
    BY <1>1, <2>1, AppendGrows
  <2>3. pc = "append" /\ pc # "down" /\ saved' = saved /\ used' = used
    BY <1>1 DEF AppendLine
  <2>4. Head(plan) = plan[1]
    BY <2>3 DEF Basis, TypeOK
  <2>5. SUFFICES ASSUME ~used.kernel PROVE ResultsInv'
    BY <2>3 DEF ResultsInv
  <2>6. PICK p \in 0..(n - 1), u \in Nat : p = state.leaf /\ u = state.upTo
    <3>1. state.upTo \in Nat
      BY DEF Basis, TypeOK, States
    <3> QED BY <2>2, <3>1
  <2>7. transcript'[n].kind = "tool" => p > u /\ Kind(p) \in OfTurn
    BY <2>2, <2>3, <2>4, <2>5, <2>6 DEF PlansInv
  <2>8. \A i \in 1..(n - 1) :
          transcript[i].kind = "tool" =>
            /\ EffectiveParent(transcript[i]) > 0
            /\ transcript[EffectiveParent(transcript[i])].kind \in OfTurn
    BY <1>0, <2>1, <2>5 DEF ResultsInv, FollowsTurn, Kind
  <2>9. \A i \in 1..(n - 1) : EffectiveParent(transcript[i]) \in 0..(i - 1)
    BY <2>1, <1>0, ParentsAreBefore DEF Basis, TreeInv
  <2>10. ASSUME NEW i \in 1..n, transcript'[i].kind = "tool"
         PROVE  /\ EffectiveParent(transcript'[i]) > 0
                /\ transcript'[EffectiveParent(transcript'[i])].kind \in OfTurn
    <3>1. CASE i = n
      <4>1. p \in 1..(n - 1) /\ Kind(p) \in OfTurn
        BY <2>6, <2>7, <2>10, <3>1
      <4> QED BY <2>2, <2>6, <3>1, <4>1 DEF Kind
    <3>2. CASE i # n
      <4>1. i \in 1..(n - 1) /\ transcript'[i] = transcript[i]
        BY <2>2, <3>2
      <4>2. PICK q \in 0..(i - 1) : q = EffectiveParent(transcript[i])
        BY <2>9, <4>1
      <4>3. q > 0 /\ transcript[q].kind \in OfTurn
        BY <2>8, <2>10, <4>1, <4>2
      <4>4. transcript'[q] = transcript[q]
        BY <2>2, <4>1, <4>2, <4>3
      <4> QED BY <4>1, <4>2, <4>3, <4>4
    <3> QED BY <3>1, <3>2
  <2>11. (\A i \in DOMAIN transcript : Kind(i) = "tool" => FollowsTurn(i))'
    BY <2>2, <2>10 DEF FollowsTurn, Kind, EffectiveParent
  <2>12. ASSUME NEW l \in 0..(n - 1), NEW v, Together(l, v) PROVE Together(l, v)'
    <3>1. Chain(l) \subseteq 1..(n - 1) /\ Chain(l)' = Chain(l)
      <4>1. Chain(l) \subseteq 1..l
        BY <1>0, <2>1 DEF Basis, ChainFacts
      <4> QED BY <2>2, <4>1
    <3> QED BY <2>2, <2>12, <3>1 DEF Together, Kind, EffectiveParent
  <2>13. ASSUME used.switches = 0 PROVE Together(saved.leaf, saved.upTo)'
    <3>1. PICK l \in 0..(n - 1), v \in Nat : l = saved.leaf /\ v = saved.upTo
      <4>1. saved.leaf \in 0..(n - 1)
        <5>1. saved.leaf \in 0..Len(transcript)
          BY LeafIsInFile
        <5>2. Len(transcript) = n - 1
          BY <1>0, <2>1
        <5> QED BY <5>1, <5>2
      <4>2. saved.upTo \in Nat
        BY DEF Basis, TypeOK, States
      <4> QED BY <4>1, <4>2
    <3>2. Together(l, v)'
      BY <2>5, <2>12, <2>13, <3>1 DEF ResultsInv
    <3> QED BY <2>3, <3>1, <3>2
  <2>14. ASSUME used.switches = 0 PROVE Together(n, u)'
    <3>1. Together(p, u)
      BY <2>3, <2>5, <2>6, <2>14 DEF ResultsInv
    <3>2. Together(p, u)' /\ Chain(p)' = Chain(p)
      BY <2>2, <2>12, <3>1
    <3>3. Chain(n)' = {n} \cup Chain(p)'
      BY <2>2, <2>6, <3>2
    <3>4. transcript'[n].kind = "tool" => EffectiveParent(transcript[n])' > u
      BY <2>2, <2>6, <2>7 DEF EffectiveParent
    <3> QED BY <3>2, <3>3, <3>4 DEF Together, Kind
  <2>15. used.switches = 0 => Together(state.leaf, state.upTo)'
    BY <2>2, <2>6, <2>14
  <2> QED BY <2>3, <2>11, <2>13, <2>15 DEF ResultsInv
<1>2. CASE AppendDone
  <2>1. /\ pc # "down" /\ saved' = state /\ state' = state
        /\ transcript' = transcript /\ used' = used
    BY <1>2 DEF AppendDone, WriteState
  <2>2. PICK l \in 0..Len(transcript), u \in Nat : l = state.leaf /\ u = state.upTo
    BY <2>1, LeafIsInFile DEF Basis, TypeOK, States
  <2>3. ~used.kernel /\ used'.switches = 0 => Together(l, u)
    BY <2>1, <2>2 DEF ResultsInv
  <2> QED BY <2>1, <2>2, <2>3, ResultsSaved
<1>3. CASE Prompt \/ SystemEntry \/ Respond
  BY <1>3, ResultsStay DEF Prompt, SystemEntry, Begin, Respond
<1>4. CASE Fail
  <2>1. used'.switches = used.switches /\ used'.kernel = used.kernel
    BY <1>4, FaultTypes DEF Fail, Basis
  <2> QED BY <1>4, <2>1, ResultsStay DEF Fail, Fault
<1>5. CASE Compact
  <2>1. /\ pc # "down" /\ transcript' = transcript
        /\ used \in [switches : 0..MaxSwitches, faults : 0..MaxFaults, kernel : BOOLEAN]
    BY <1>5 DEF Compact, Basis, TypeOK
  <2>2. CASE pc = "append"
    <3>1. used'.kernel
      BY <1>5, <2>1, <2>2 DEF Compact
    <3> QED BY <3>1 DEF ResultsInv
  <2>3. CASE pc # "append"
    <3>1. used' = used
      BY <1>5, <2>3 DEF Compact
    <3>2. PICK n \in Visible, cut \in Visible :
            /\ AtBoundary(n, cut) /\ saved' = state'
            /\ state'.leaf = state.leaf /\ state'.upTo = cut
      BY <1>5, CompactCuts DEF Basis
    <3>3. PICK l \in 0..Len(transcript) : l = state.leaf
      BY <2>1, LeafIsInFile
    <3>4. Together(l, cut)
      BY <2>1, <3>2, <3>3, CutKeepsTogether
    <3> QED BY <2>1, <3>1, <3>2, <3>3, <3>4, ResultsSaved
  <2> QED BY <2>2, <2>3
<1>6. CASE Crash
  <2>1. used'.switches = used.switches /\ used'.kernel = used.kernel
    BY <1>6, FaultTypes DEF Crash, Basis
  <2> QED BY <1>6, <2>1, ResultsStay DEF Crash, Fault
<1>7. CASE Recover
  <2>1. transcript' = transcript /\ used' = used /\ saved' = state'
    BY <1>7 DEF Recover
  <2>2. LastWritten = Len(transcript)
    BY DEF Basis, TreeInv, TreeOK, LastWritten
  <2>3. /\ state'.leaf = IF saved.leaf = 0 THEN Len(transcript) ELSE saved.leaf
        /\ state'.upTo = saved.upTo
    <3> DEFINE read == [saved EXCEPT !.last = Cursor]
    <3>1. /\ saved \in States /\ DOMAIN read = DOMAIN saved
          /\ read.leaf = saved.leaf /\ read.upTo = saved.upTo
      BY DEF Basis, TypeOK, States
    <3>2. state' = [read EXCEPT !.leaf = IF saved.leaf = 0 THEN LastWritten ELSE saved.leaf]
      BY <1>7, <3>1 DEF Recover
    <3>3. DOMAIN saved = {"last", "leaf", "upTo", "covers"}
      BY <3>1 DEF States
    <3> HIDE DEF read
    <3> QED BY <2>2, <3>1, <3>2, <3>3
  <2>4. PICK l \in 0..Len(transcript), u \in Nat : l = state'.leaf /\ u = state'.upTo
    <3>1. saved.leaf \in 0..Len(transcript) /\ saved.upTo \in Nat
      BY LeafIsInFile DEF Basis, TypeOK, States
    <3>2. state'.leaf \in 0..Len(transcript)
      BY <1>0, <2>3, <3>1
    <3> QED BY <2>3, <3>1, <3>2
  <2>5. ASSUME ~used.kernel, used.switches = 0 PROVE Together(l, u)
    <3>1. CASE saved.leaf # 0
      <4>1. l = saved.leaf /\ u = saved.upTo
        BY <2>3, <2>4, <3>1
      <4> QED BY <2>5, <4>1 DEF ResultsInv
    <3>2. CASE saved.leaf = 0
      <4>1. u = 0
        BY <2>3, <2>4, <2>5, <3>2 DEF SummaryInv
      <4>2. Chain(l) \subseteq DOMAIN transcript
        <5>1. Chain(l) \subseteq 1..l
          BY DEF Basis, ChainFacts
        <5> QED BY <1>0, <5>1
      <4>3. \A i \in DOMAIN transcript : Kind(i) = "tool" => EffectiveParent(transcript[i]) > 0
        BY <2>5 DEF ResultsInv, FollowsTurn
      <4> QED BY <4>1, <4>2, <4>3 DEF Together
    <3> QED BY <3>1, <3>2
  <2> QED BY <2>1, <2>4, <2>5, ResultsSaved
<1>8. ASSUME NEW n \in DOMAIN transcript, SetActiveLeaf(n) PROVE ResultsInv'
  <2>1. /\ used'.switches # 0 /\ used'.kernel = used.kernel /\ transcript' = transcript
    BY <1>8 DEF SetActiveLeaf, Basis, TypeOK
  <2> QED BY <2>1, FollowingStays DEF ResultsInv
<1>9. CASE UNCHANGED vars
  BY <1>9, ResultsStay DEF vars
<1> QED BY <1>1, <1>2, <1>3, <1>4, <1>5, <1>6, <1>7, <1>8, <1>9 DEF Next

(* Every result the provider is shown has its request shown, with nothing  *)
(* but results between them: from a result, parents lead back to it.       *)
ShownWith(n, r) ==
  /\ r < n /\ Kind(r) = "request"
  /\ \A k \in Chain(state.leaf) : r < k /\ k < n => Kind(k) \in {"tool", "system"}

LEMMA RequestIsShown ==
  ASSUME Basis, SummaryInv, ResultsInv, pc # "down", used.switches = 0, ~used.kernel
  PROVE  \A n \in Visible : Kind(n) = "tool" => \E r \in Visible : ShownWith(n, r)
<1> DEFINE len == Len(transcript)
           V == Visible
           S == {n \in V : Kind(n) = "tool" /\ ~ \E r \in V : ShownWith(n, r)}
<1>1. /\ len \in Nat /\ DOMAIN transcript = 1..len /\ state.leaf \in 0..len
      /\ state.upTo \in 0..len
  BY LeafIsInFile DEF SummaryInv
<1>2. /\ Chain(state.leaf) \subseteq 1..len
      /\ V = {k \in Chain(state.leaf) : k > state.upTo}
  BY <1>1 DEF Basis, ChainFacts, Visible
<1> HIDE DEF V
<1>3. SUFFICES ASSUME S # {} PROVE FALSE
  BY DEF V
<1>4. PICK n \in S : \A m \in S : n <= m
  <2>1. \A m \in V : m \in Nat
    BY <1>1, <1>2
  <2>2. S \in SUBSET Nat
    BY <2>1, Zenon
  <2> QED BY <1>3, <2>2, LeastNat
<1>5. n \in Chain(state.leaf) /\ n \in 1..len /\ n > state.upTo /\ Kind(n) = "tool"
  BY <1>2, <1>4
<1>6. PICK p \in 0..(n - 1) : p = EffectiveParent(transcript[n])
  BY <1>1, <1>5, ParentsAreBefore DEF Basis, TreeInv
<1>7. p > state.upTo /\ p \in 1..(n - 1) /\ Kind(p) \in OfTurn
  BY <1>1, <1>5, <1>6 DEF ResultsInv, FollowsTurn, Together
<1>8. Chain(n) = {n} \cup Chain(p) /\ p \in Chain(p) /\ Chain(p) \subseteq 1..p
  BY <1>1, <1>5, <1>6, <1>7 DEF Basis, ChainFacts, ChainUnfolds
<1>9. Chain(n) \subseteq Chain(state.leaf) /\ \A k \in Chain(state.leaf) : k <= n => k \in Chain(n)
  BY <1>1, <1>5 DEF Basis, ChainFacts
<1>10. p \in V
  BY <1>2, <1>7, <1>8, <1>9
<1>11. \A k \in Chain(state.leaf) : k < n => k <= p
  BY <1>2, <1>5, <1>8, <1>9
<1>12. CASE Kind(p) = "request"
  <2>1. ShownWith(n, p)
    BY <1>2, <1>5, <1>7, <1>11, <1>12 DEF ShownWith
  <2> QED BY <1>4, <1>10, <2>1
<1>13. CASE Kind(p) = "tool"
  <2>1. p \notin S
    BY <1>4, <1>5, <1>7
  <2>2. PICK r \in V : ShownWith(p, r)
    BY <1>10, <1>13, <2>1
  <2>3. r \in 1..len
    BY <1>2
  <2>4. ASSUME NEW k \in Chain(state.leaf), r < k, k < n PROVE Kind(k) \in {"tool", "system"}
    <3>1. k \in 1..len /\ k <= p
      BY <1>2, <1>11, <2>4
    <3>2. CASE k = p
      BY <1>13, <3>2
    <3>3. CASE k # p
      BY <1>7, <2>2, <2>4, <3>1, <3>3 DEF ShownWith
    <3> QED BY <3>2, <3>3
  <2>5. r < n
    BY <1>5, <1>7, <2>2, <2>3 DEF ShownWith
  <2>6. ShownWith(n, r)
    BY <2>2, <2>4, <2>5 DEF ShownWith
  <2> QED BY <1>4, <2>2, <2>6
<1> QED BY <1>7, <1>12, <1>13 DEF OfTurn

(* No compaction between rounds or prompts parts a tool call from a result *)
(* that the provider is still shown, after any crashes and failures, until *)
(* somebody redirects the leaf (adjust_fold_count_to_turn_boundary).       *)
THEOREM CutsBetweenTurns == Spec => []CutBetweenTurns
<1> DEFINE Inv == BasisInv /\ LeavesInv /\ SummaryInv /\ PlansInv /\ ResultsInv
<1>1. Init => Inv
  BY TypeInit, TreeInit, LeavesInit, SummaryInit, PlansInit, ResultsInit DEF BasisInv
<1>2. Inv /\ [Next]_vars => Inv'
  BY BasisStep, LeavesStep, SummaryStep, PlansStep, ResultsStep
<1>3. ASSUME Inv PROVE CutBetweenTurns
  <2>1. Basis
    BY <1>3, BasisHolds
  <2>2. ASSUME used.switches = 0, ~used.kernel, pc # "down"
        PROVE  \A n \in Visible : Kind(n) = "tool" => \E r \in Visible : ShownWith(n, r)
    BY <1>3, <2>1, <2>2, RequestIsShown
  <2> QED BY <2>2 DEF CutBetweenTurns, CutNeverSplitsToolCall, ShownWith
<1> QED BY <1>1, <1>2, <1>3, PTL DEF Spec
=============================================================================
