------------------------ MODULE RequestJournalProofs ------------------------
(* Proofs about RequestJournal, for every set of ids and every limit.      *)
EXTENDS RequestJournal, SequenceTheorems, FiniteSetTheorems,
        WellFoundedInduction, TLAPS

(* A record of either kind keeps the file a sequence of lines of records.  *)
LEMMA AppendRecordType ==
  ASSUME TypeOK, NEW record \in Records, AppendRecord(record)
  PROVE  journal' \in Seq(Seq(Records)) /\ open' = TRUE /\ journal' # << >>
<1>1. CASE open
  <2>1. journal \in Seq(Seq(Records)) /\ Len(journal) \in 1..Len(journal)
    BY <1>1, EmptySeq DEF TypeOK
  <2>2. journal[Len(journal)] \in Seq(Records)
    BY <2>1, ElementOfSeq
  <2>3. Append(journal[Len(journal)], record) \in Seq(Records)
    BY <2>2, AppendProperties
  <2> QED
    BY <1>1, <2>1, <2>3, ExceptSeq, EmptySeq DEF AppendRecord
<1>2. CASE ~open
  <2>1. journal \in Seq(Seq(Records)) /\ <<record>> \in Seq(Records)
    BY DEF TypeOK
  <2> QED
    BY <1>2, <2>1, AppendProperties DEF AppendRecord
<1> QED
  BY <1>1, <1>2

(* `remember` keeps each id once in the order.                             *)
LEMMA RememberType ==
  ASSUME TypeOK, NEW id \in Ids, NEW outcome \in Outcomes, Remember(id, outcome),
         outcomes[id] = Unseen => \A i \in DOMAIN order : order[i] # id
  PROVE  /\ outcomes' \in [Ids -> Outcomes \cup {Unseen}]
         /\ order' \in Seq(Ids)
         /\ \A i, j \in DOMAIN order' : order'[i] = order'[j] => i = j
<1>1. CASE outcomes[id] = Unseen
  <2>1. order \in Seq(Ids) /\ DOMAIN order = 1..Len(order) /\ Len(order) \in Nat
    BY LenProperties DEF TypeOK
  <2>2. order' = Append(order, id)
    BY <1>1 DEF Remember
  <2>3. /\ order' \in Seq(Ids)
        /\ Len(order') = Len(order) + 1
        /\ \A i \in 1..Len(order) : order'[i] = order[i]
        /\ order'[Len(order) + 1] = id
    BY <2>1, <2>2, AppendProperties
  <2>4. DOMAIN order' = 1..(Len(order) + 1)
    BY <2>3, LenProperties
  <2>5. ASSUME NEW i \in DOMAIN order', NEW j \in DOMAIN order',
               order'[i] = order'[j]
        PROVE  i = j
    <3>1. \A k \in 1..Len(order) : order[k] # id
      BY <1>1, <2>1
    <3>2. i \in 1..Len(order) \/ i = Len(order) + 1
      BY <2>1, <2>4
    <3>3. j \in 1..Len(order) \/ j = Len(order) + 1
      BY <2>1, <2>4
    <3>4. CASE i \in 1..Len(order) /\ j \in 1..Len(order)
      BY <3>4, <2>1, <2>3, <2>5 DEF TypeOK
    <3> QED
      BY <3>1, <3>2, <3>3, <3>4, <2>3, <2>5
  <2> QED
    BY <2>3, <2>5 DEF Remember, TypeOK
<1>2. CASE outcomes[id] # Unseen
  BY <1>2 DEF Remember, TypeOK
<1> QED
  BY <1>1, <1>2

(* A file with one more record, all of whose lines parse.                  *)
LEMMA AppendRecordMentions ==
  ASSUME TypeOK, NEW record \in Records, AppendRecord(record), ~open,
         \A i \in DOMAIN journal : Parses(journal[i])
  PROVE  /\ \A i \in DOMAIN journal' : Parses(journal'[i])
         /\ \A id \in Ids : Mentions(journal, id) # {} => Mentions(journal', id) # {}
         /\ Mentions(journal', record.id) # {}
<1> DEFINE n == Len(journal)
<1>1. journal \in Seq(Seq(Records)) /\ DOMAIN journal = 1..n /\ n \in Nat
  BY LenProperties DEF TypeOK
<1>2. <<record>> \in Seq(Records) /\ Len(<<record>>) = 1 /\ <<record>>[1] = record
  OBVIOUS
<1>3. /\ journal' \in Seq(Seq(Records))
      /\ Len(journal') = n + 1
      /\ \A i \in 1..n : journal'[i] = journal[i]
      /\ journal'[n + 1] = <<record>>
  BY <1>1, <1>2, AppendProperties DEF AppendRecord
<1>4. DOMAIN journal' = 1..(n + 1)
  BY <1>3, LenProperties
<1>5. ASSUME NEW i \in DOMAIN journal' PROVE Parses(journal'[i])
  <2>1. i \in 1..n \/ i = n + 1
    BY <1>1, <1>4
  <2> QED
    BY <1>1, <1>2, <1>3, <2>1 DEF Parses
<1>6. ASSUME NEW id \in Ids, Mentions(journal, id) # {}
      PROVE  Mentions(journal', id) # {}
  <2>1. PICK i \in 1..n : Parses(journal[i]) /\ journal[i][1].id = id
    BY <1>1, <1>6 DEF Mentions
  <2>2. i \in DOMAIN journal' /\ journal'[i] = journal[i]
    BY <1>1, <1>3, <1>4, <2>1
  <2> QED
    BY <2>1, <2>2 DEF Mentions
<1>7. Mentions(journal', record.id) # {}
  <2>1. n + 1 \in DOMAIN journal'
    BY <1>1, <1>4
  <2> QED
    BY <1>2, <1>3, <2>1 DEF Mentions, Parses
<1> QED
  BY <1>5, <1>6, <1>7

(* `remember` keeps the order a list of exactly the ids with an outcome.   *)
LEMMA RememberMemory ==
  ASSUME TypeOK, NEW id \in Ids, NEW outcome \in Outcomes, Remember(id, outcome),
         \A x \in Ids : outcomes[x] # Unseen <=> \E i \in DOMAIN order : order[i] = x
  PROVE  \A x \in Ids : outcomes'[x] # Unseen <=> \E i \in DOMAIN order' : order'[i] = x
<1>0. outcome # Unseen
  BY ModelValuesAssumption DEF Outcomes
<1>1. CASE outcomes[id] = Unseen
  <2>1. order \in Seq(Ids) /\ DOMAIN order = 1..Len(order) /\ Len(order) \in Nat
    BY LenProperties DEF TypeOK
  <2>2. /\ order' \in Seq(Ids)
        /\ Len(order') = Len(order) + 1
        /\ \A i \in 1..Len(order) : order'[i] = order[i]
        /\ order'[Len(order) + 1] = id
    BY <1>1, <2>1, AppendProperties DEF Remember
  <2>3. DOMAIN order' = 1..(Len(order) + 1)
    BY <2>2, LenProperties
  <2>4. ASSUME NEW x \in Ids
        PROVE  (\E i \in DOMAIN order' : order'[i] = x)
               <=> x = id \/ \E i \in DOMAIN order : order[i] = x
    BY <2>1, <2>2, <2>3
  <2> QED
    BY <1>0, <2>4 DEF Remember, TypeOK
<1>2. CASE outcomes[id] # Unseen
  BY <1>0, <1>2 DEF Remember, TypeOK
<1> QED
  BY <1>1, <1>2

(* Compaction evicts a prefix of the order and keeps the rest as it was.   *)
LEMMA KeptOrder ==
  ASSUME TypeOK, NEW evicted \in 0..Len(order)
  PROVE  LET kept == SubSeq(order, evicted + 1, Len(order))
         IN /\ kept \in Seq(Ids)
            /\ DOMAIN kept = 1..(Len(order) - evicted)
            /\ Len(kept) = Len(order) - evicted
            /\ \A i \in DOMAIN kept : i + evicted \in DOMAIN order /\ kept[i] = order[i + evicted]
            /\ \A i, j \in DOMAIN kept : kept[i] = kept[j] => i = j
<1> DEFINE n == Len(order)
           kept == SubSeq(order, evicted + 1, n)
<1>1. order \in Seq(Ids) /\ DOMAIN order = 1..n /\ n \in Nat
  BY LenProperties DEF TypeOK
<1>2. \A i \in (evicted + 1)..n : order[i] \in Ids
  BY <1>1, ElementOfSeq
<1>3. /\ kept \in Seq(Ids)
      /\ Len(kept) = IF evicted + 1 <= n THEN n - (evicted + 1) + 1 ELSE 0
      /\ \A i \in 1..(n - (evicted + 1) + 1) : kept[i] = order[evicted + 1 + i - 1]
  <2> evicted + 1 \in Int /\ n \in Int
    BY <1>1
  <2> HIDE DEF n
  <2> QED
    BY <1>2, SubSeqProperties
<1>4. Len(kept) = n - evicted
  BY <1>1, <1>3
<1>5. DOMAIN kept = 1..(n - evicted)
  BY <1>3, <1>4, LenProperties
<1>6. ASSUME NEW i \in DOMAIN kept
      PROVE  i + evicted \in DOMAIN order /\ kept[i] = order[i + evicted]
  <2>1. i \in 1..(n - (evicted + 1) + 1) /\ evicted + 1 + i - 1 = i + evicted
    BY <1>1, <1>5
  <2> QED
    BY <1>1, <1>3, <1>5, <2>1
<1>7. ASSUME NEW i \in DOMAIN kept, NEW j \in DOMAIN kept, kept[i] = kept[j]
      PROVE  i = j
  <2>1. i + evicted = j + evicted
    BY <1>6, <1>7 DEF TypeOK
  <2> QED
    BY <1>1, <1>5, <2>1
<1> QED
  BY <1>3, <1>4, <1>5, <1>6, <1>7

(* A non-empty set of naturals with an upper bound has a greatest element. *)
LEMMA Greatest ==
  ASSUME NEW n \in Nat, NEW M, M \subseteq 1..n, M # {}
  PROVE  \E i \in M : \A j \in M : j <= i
<1> DEFINE T == {n - i : i \in M}
           R == OpToRel(<, Nat)
<1>1. T \subseteq Nat /\ T # {}
  <2> HIDE DEF R
  <2>1. \A i \in M : n - i \in Nat
    OBVIOUS
  <2>2. \A t \in T : t \in Nat
    BY <2>1
  <2>3. \E i : i \in M
    OBVIOUS
  <2>4. PICK i : i \in M
    BY <2>3
  <2>5. n - i \in T
    BY <2>4
  <2> QED
    BY <2>2, <2>5
<1>2. IsWellFoundedOn(R, Nat)
  BY NatLessThanWellFounded
<1>3. \A x, y \in Nat : x < y => <<x, y>> \in R
  BY DEF OpToRel
<1> HIDE DEF R
<1>4. PICK x \in T : \A y \in T : ~(<<y, x>> \in R)
  <2> HIDE DEF T
  <2> QED BY <1>1, <1>2, WFMin
<1>5. PICK i \in M : x = n - i
  OBVIOUS
<1>6. \A j \in M : ~(n - j < n - i)
  BY <1>3, <1>4, <1>5, <1>1
<1> QED
  BY <1>6

(* What a reload finds: ids in the order they were first seen, each once.  *)
LEMMA LoadedType ==
  ASSUME TypeOK, NEW id \in Ids
  PROVE  /\ Loaded(journal, id) \in Outcomes \cup {Unseen}
         /\ Loaded(journal, id) = Unseen <=> Mentions(journal, id) = {}
<1>1. CASE Mentions(journal, id) = {}
  BY <1>1 DEF Loaded
<1>2. CASE Mentions(journal, id) # {}
  <2> DEFINE M == Mentions(journal, id)
             last == CHOOSE i \in M : \A j \in M : j <= i
  <2>1. journal \in Seq(Seq(Records)) /\ DOMAIN journal = 1..Len(journal)
        /\ Len(journal) \in Nat
    BY LenProperties DEF TypeOK
  <2>2. M \subseteq 1..Len(journal)
    BY <2>1 DEF Mentions
  <2>3. \E i \in M : \A j \in M : j <= i
    <3> HIDE DEF M
    <3> QED
      BY <1>2, <2>1, <2>2, Greatest DEF M
  <2>5. last \in M
    BY <2>3
  <2>6. journal[last] \in Seq(Records) /\ Len(journal[last]) = 1
    BY <2>1, <2>2, <2>5, ElementOfSeq DEF Mentions, Parses
  <2>7. journal[last][1] \in Records
    BY <2>6, ElementOfSeq
  <2>8. journal[last][1].outcome \in Outcomes
    BY <2>7 DEF Records
  <2> QED
    BY <1>2, <2>8, ModelValuesAssumption DEF Loaded, Outcomes
<1> QED
  BY <1>1, <1>2

LEMMA InOrderSeenOnce ==
  ASSUME TypeOK, NEW ids, InOrderSeen(journal, ids),
         NEW n \in Nat, ids \in [1..n -> Ids]
  PROVE  /\ \A i, j \in DOMAIN ids : ids[i] = ids[j] => i = j
         /\ \A id \in Ids : Mentions(journal, id) # {} <=> \E i \in DOMAIN ids : ids[i] = id
<1>1. \A id : Mentions(journal, id) \subseteq Int
  BY LenProperties DEF TypeOK, Mentions
<1>2. \A id : ~SeenBefore(journal, id, id)
  BY <1>1 DEF SeenBefore
<1>3. ASSUME NEW i \in DOMAIN ids, NEW j \in DOMAIN ids, ids[i] = ids[j] PROVE i = j
  BY <1>2, <1>3 DEF InOrderSeen
<1> QED
  BY <1>3 DEF InOrderSeen

(* Type correctness goes together with what memory knows: `remember` lists *)
(* an id once because the order has exactly the ids with an outcome.       *)
LEMMA TypingInit == Init => TypeOK /\ MemoryInv
<1> SUFFICES ASSUME Init PROVE TypeOK /\ MemoryInv
  OBVIOUS
<1> USE DEF Init
<1>1. /\ journal \in Seq(Seq(Records)) /\ order \in Seq(Ids)
      /\ transcript \in Seq(Entries)
  BY EmptySeq
<1>2. DOMAIN order = {}
  BY EmptySeq, LenProperties
<1>3. reply \in Entries
  BY DEF NoEntry, Entries
<1> QED
  BY <1>1, <1>2, <1>3 DEF TypeOK, MemoryInv

LEMMA TypingStep ==
  ASSUME TypeOK, MemoryInv, [Next]_vars PROVE TypeOK' /\ MemoryInv'
<1> USE DEF files, memory, ghosts
<1>1. ASSUME NEW id \in Ids, Replay(id) PROVE TypeOK' /\ MemoryInv'
  <2>1. \A i \in DOMAIN transcript : transcript[i] \in Entries
    BY ElementOfSeq, LenProperties DEF TypeOK
  <2>2. told' \in [Ids -> Entries \cup {Uncertain, NoAnswer}]
    BY <1>1, <2>1 DEF Replay, TypeOK
  <2> QED
    BY <1>1, <2>2 DEF Replay, TypeOK, MemoryInv
<1>2. ASSUME NEW id \in Ids \cup {NoId}, Arrive(id) PROVE TypeOK' /\ MemoryInv'
  BY <1>2 DEF Arrive, TypeOK, MemoryInv
<1>3. CASE BeginLine
  <2>1. [id |-> cur, outcome |-> Uncertain] \in Records
    BY <1>3 DEF BeginLine, MemoryInv, Records, Outcomes
  <2>2. journal' \in Seq(Seq(Records)) /\ open' = TRUE /\ journal' # << >>
    BY <1>3, <2>1, AppendRecordType DEF BeginLine
  <2> QED
    BY <1>3, <2>2 DEF BeginLine, TypeOK, MemoryInv
<1>4. CASE BeginSync
  <2>1. cur \in Ids /\ Remember(cur, Uncertain) /\ Uncertain \in Outcomes
    BY <1>4 DEF BeginSync, MemoryInv, Outcomes
  <2>2. \A x \in Ids : outcomes[x] # Unseen <=> \E i \in DOMAIN order : order[i] = x
    BY <1>4 DEF BeginSync, MemoryInv
  <2>3. /\ outcomes' \in [Ids -> Outcomes \cup {Unseen}]
        /\ order' \in Seq(Ids)
        /\ \A i, j \in DOMAIN order' : order'[i] = order'[j] => i = j
    BY <2>1, <2>2, RememberType
  <2>4. \A x \in Ids : outcomes'[x] # Unseen <=> \E i \in DOMAIN order' : order'[i] = x
    BY <2>1, <2>2, RememberMemory
  <2>5. /\ open' = FALSE /\ records' \in Nat /\ pc' = "user"
        /\ UNCHANGED <<cur, journal, transcript, stateSeq, lastSeq, reply, rebooted,
                       executed, told>>
    BY <1>4 DEF BeginSync, TypeOK
  <2>6. TypeOK'
    BY <2>3, <2>5 DEF TypeOK
  <2> QED
    BY <2>4, <2>5, <2>6 DEF MemoryInv
<1>5. ASSUME NEW role \in {"user", "assistant"}, AppendTurn(role)
      PROVE  reply' \in Entries /\ transcript' \in Seq(Entries) /\ lastSeq' \in Nat
  <2>1. reply' \in Entries
    BY <1>5 DEF AppendTurn, TypeOK, Entries
  <2> QED
    BY <1>5, <2>1, AppendProperties DEF AppendTurn, TypeOK
<1>6. CASE UserTurn
  BY <1>5, <1>6 DEF UserTurn, AppendTurn, TypeOK, MemoryInv
<1>7. CASE ReplyTurn
  BY <1>5, <1>7 DEF ReplyTurn, AppendTurn, TypeOK, MemoryInv
<1>8. CASE WriteState
  BY <1>8 DEF WriteState, TypeOK, MemoryInv
<1>9. CASE ResultLine
  <2>1. [id |-> cur, outcome |-> SequenceOfReply] \in Records
    BY <1>9 DEF ResultLine, MemoryInv, TypeOK, Records, Outcomes, Entries, SequenceOfReply
  <2>2. journal' \in Seq(Seq(Records)) /\ open' = TRUE /\ journal' # << >>
    BY <1>9, <2>1, AppendRecordType DEF ResultLine
  <2> QED
    BY <1>9, <2>2 DEF ResultLine, TypeOK, MemoryInv
<1>10. CASE ResultSync
  <2>1. cur \in Ids /\ Remember(cur, SequenceOfReply) /\ SequenceOfReply \in Outcomes
    BY <1>10 DEF ResultSync, MemoryInv, TypeOK, Outcomes, Entries, SequenceOfReply
  <2>2. \A x \in Ids : outcomes[x] # Unseen <=> \E i \in DOMAIN order : order[i] = x
    BY <1>10 DEF ResultSync, MemoryInv
  <2>3. /\ outcomes' \in [Ids -> Outcomes \cup {Unseen}]
        /\ order' \in Seq(Ids)
        /\ \A i, j \in DOMAIN order' : order'[i] = order'[j] => i = j
    BY <2>1, <2>2, RememberType
  <2>4. \A x \in Ids : outcomes'[x] # Unseen <=> \E i \in DOMAIN order' : order'[i] = x
    BY <2>1, <2>2, RememberMemory
  <2>5. told' \in [Ids -> Entries \cup {Uncertain, NoAnswer}]
    BY <1>10 DEF ResultSync, TypeOK
  <2>6. /\ open' = FALSE /\ records' \in Nat /\ pc' \in {"idle", "compact"}
        /\ UNCHANGED <<cur, journal, transcript, stateSeq, lastSeq, reply, rebooted, executed>>
    BY <1>10 DEF ResultSync, TypeOK
  <2>7. TypeOK'
    BY <2>3, <2>5, <2>6 DEF TypeOK
  <2> QED
    BY <2>1, <2>4, <2>6, <2>7 DEF MemoryInv
<1>11. CASE Compact
  <2> DEFINE evicted == IF Len(order) > RetainedIds THEN Len(order) - RetainedIds ELSE 0
             kept == SubSeq(order, evicted + 1, Len(order))
             gone == {order[i] : i \in 1..evicted}
  <2>1. Len(order) \in Nat /\ DOMAIN order = 1..Len(order) /\ evicted \in 0..Len(order)
    BY LimitsAssumption, LenProperties DEF TypeOK
  <2>2. /\ kept \in Seq(Ids)
        /\ DOMAIN kept = 1..(Len(order) - evicted)
        /\ Len(kept) = Len(order) - evicted
        /\ \A i \in DOMAIN kept : i + evicted \in DOMAIN order /\ kept[i] = order[i + evicted]
        /\ \A i, j \in DOMAIN kept : kept[i] = kept[j] => i = j
    BY <2>1, KeptOrder
  <2>3. \A i \in DOMAIN kept : kept[i] \in Ids /\ outcomes[kept[i]] \in Outcomes
    <3>1. \A i \in DOMAIN kept : kept[i] \in Ids
      BY <2>2, ElementOfSeq
    <3> HIDE DEF kept
    <3> QED
      BY <1>11, <2>2, <3>1 DEF Compact, MemoryInv, TypeOK
  <2>4. /\ order' = kept
        /\ outcomes' = [id \in Ids |-> IF id \in gone THEN Unseen ELSE outcomes[id]]
        /\ executed' = executed \ gone
        /\ pc' = "idle" /\ UNCHANGED <<cur, transcript, stateSeq, lastSeq, reply, rebooted>>
    BY <1>11 DEF Compact
  <2>5. /\ \/ /\ journal' = [i \in DOMAIN kept |->
                             <<[id |-> kept[i], outcome |-> outcomes[kept[i]]]>>]
              /\ open' = FALSE
              /\ records' = Len(kept)
           \/ UNCHANGED <<journal, open, records>>
        /\ told' \in [Ids -> Entries \cup {Uncertain, NoAnswer}]
    BY <1>11 DEF Compact, TypeOK
  <2>6. \A x \in Ids : outcomes'[x] # Unseen <=> \E i \in DOMAIN order' : order'[i] = x
    <3> HIDE DEF kept, evicted
    <3>1. ASSUME NEW x \in Ids, outcomes[x] # Unseen, x \notin gone
          PROVE  \E i \in DOMAIN kept : kept[i] = x
      <4>1. PICK k \in 1..Len(order) : order[k] = x
        BY <1>11, <2>1, <3>1 DEF Compact, MemoryInv
      <4>2. k \notin 1..evicted
        BY <3>1, <4>1
      <4>3. k - evicted \in DOMAIN kept /\ (k - evicted) + evicted = k
        BY <2>1, <2>2, <4>2
      <4> QED
        BY <2>2, <4>1, <4>3
    <3>2. ASSUME NEW i \in DOMAIN kept
          PROVE  kept[i] \notin gone
      <4>1. i + evicted \notin 1..evicted /\ i + evicted \in DOMAIN order
        BY <2>1, <2>2
      <4> QED
        BY <2>1, <2>2, <4>1 DEF TypeOK
    <3> HIDE DEF gone
    <3> QED
      BY <2>3, <2>4, <3>1, <3>2, ModelValuesAssumption DEF Outcomes
  <2>7. journal' \in Seq(Seq(Records)) /\ open' \in BOOLEAN /\ records' \in Nat
        /\ (open' => journal' # << >>)
    <3> HIDE DEF kept, evicted
    <3>1. CASE UNCHANGED <<journal, open, records>>
      BY <3>1 DEF TypeOK
    <3>2. CASE /\ journal' = [i \in DOMAIN kept |->
                             <<[id |-> kept[i], outcome |-> outcomes[kept[i]]]>>]
               /\ open' = FALSE
               /\ records' = Len(kept)
      <4>1. Len(kept) \in Nat /\ DOMAIN kept = 1..Len(kept)
        BY <2>2, LenProperties
      <4>2. \A i \in DOMAIN kept :
              <<[id |-> kept[i], outcome |-> outcomes[kept[i]]]>> \in Seq(Records)
        BY <2>3 DEF Records
      <4>3. journal' \in [1..Len(kept) -> Seq(Records)]
        BY <3>2, <4>1, <4>2
      <4>4. journal' \in Seq(Seq(Records))
        BY <4>1, <4>3
      <4> QED
        BY <3>2, <4>1, <4>4
    <3> QED
      BY <2>5, <3>1, <3>2
  <2>8. /\ outcomes' \in [Ids -> Outcomes \cup {Unseen}]
        /\ executed' \in SUBSET Ids
        /\ order' \in Seq(Ids)
        /\ \A i, j \in DOMAIN order' : order'[i] = order'[j] => i = j
    BY <2>2, <2>4 DEF TypeOK
  <2>9. TypeOK'
    BY <2>4, <2>5, <2>7, <2>8 DEF TypeOK
  <2> QED
    BY <2>4, <2>6, <2>9 DEF MemoryInv
<1>12. CASE PromptFails
  BY <1>12 DEF PromptFails, TypeOK, MemoryInv
<1>13. CASE WorkerCrash
  BY <1>13 DEF WorkerCrash, TypeOK, MemoryInv
<1>14. CASE MachineCrash
  <2>1. PICK n \in 0..Len(transcript) : transcript' = SubSeq(transcript, 1, n)
    BY <1>14 DEF MachineCrash
  <2>2. Len(transcript) \in Nat /\ \A i \in 1..n : transcript[i] \in Entries
    BY ElementOfSeq, LenProperties DEF TypeOK
  <2>3. transcript' \in Seq(Entries)
    BY <2>1, <2>2, SubSeqProperties
  <2> QED
    BY <1>14, <2>3 DEF MachineCrash, TypeOK, MemoryInv
<1>15. CASE Recover
  <2>1. PICK n \in Nat : order' \in [1..n -> Ids]
    BY <1>15 DEF Recover
  <2>2. InOrderSeen(journal, order')
    BY <1>15 DEF Recover
  <2>3. /\ order' \in Seq(Ids)
        /\ \A i, j \in DOMAIN order' : order'[i] = order'[j] => i = j
        /\ \A id \in Ids : Mentions(journal, id) # {} <=> \E i \in DOMAIN order' : order'[i] = id
    BY <2>1, <2>2, InOrderSeenOnce
  <2>4. outcomes' = [id \in Ids |-> Loaded(journal, id)]
    BY <1>15 DEF Recover
  <2>5. /\ outcomes' \in [Ids -> Outcomes \cup {Unseen}]
        /\ \A id \in Ids : outcomes'[id] # Unseen <=> Mentions(journal, id) # {}
    BY <2>4, LoadedType
  <2>6. records' \in Nat
    <3>1. journal \in Seq(Seq(Records)) /\ DOMAIN journal = 1..Len(journal)
          /\ Len(journal) \in Nat
      BY LenProperties DEF TypeOK
    <3> DEFINE good == {i \in DOMAIN journal : Parses(journal[i])}
    <3>2. IsFiniteSet(1..Len(journal)) /\ good \subseteq 1..Len(journal)
      BY <3>1, FS_Interval
    <3>3. IsFiniteSet(good)
      BY <3>2, FS_Subset
    <3>4. records' = Cardinality(good)
      BY <1>15 DEF Recover
    <3> HIDE DEF good
    <3> QED
      BY <3>3, <3>4, FS_CardinalityType
  <2>7. LastWritten \in Nat
    <3>1. transcript # << >> => Len(transcript) \in 1..Len(transcript)
      BY EmptySeq DEF TypeOK
    <3>2. transcript # << >> => transcript[Len(transcript)] \in Entries
      BY <3>1, ElementOfSeq DEF TypeOK
    <3> QED
      BY <3>2 DEF LastWritten, Entries
  <2>8. lastSeq' \in Nat /\ stateSeq' \in Nat /\ reply' \in Entries
        /\ pc' = "idle" /\ cur' = NoId
        /\ UNCHANGED <<journal, open, transcript, rebooted, executed, told>>
    BY <1>15, <2>7 DEF Recover, TypeOK, NoEntry, Entries
  <2> QED
    BY <2>3, <2>5, <2>6, <2>8 DEF TypeOK, MemoryInv
<1>16. CASE UNCHANGED vars
  BY <1>16 DEF vars, TypeOK, MemoryInv
<1> QED
  BY <1>1, <1>2, <1>3, <1>4, <1>6, <1>7, <1>8, <1>9, <1>10, <1>11, <1>12, <1>13,
     <1>14, <1>15, <1>16 DEF Next

THEOREM Typing == Spec => [](TypeOK /\ MemoryInv)
  BY TypingInit, TypingStep, PTL DEF Spec

(* The write-ahead discipline is kept by every step, as long as no record  *)
(* is left without its newline.                                            *)
LEMMA JournalInit == Init => JournalInv
<1> SUFFICES ASSUME Init PROVE JournalInv
  OBVIOUS
<1>1. DOMAIN journal = {}
  BY EmptySeq, LenProperties DEF Init
<1> QED
  BY <1>1 DEF Init, JournalInv, JournaledBeforeDispatch

LEMMA JournalStep ==
  ASSUME TypeOK, MemoryInv, JournalInv, [Next]_vars, "torn" \notin Hazards
  PROVE  JournalInv'
<1> USE DEF JournalInv, JournaledBeforeDispatch, files, memory, ghosts
<1>0. ASSUME UNCHANGED journal PROVE \A id : Mentions(journal, id)' = Mentions(journal, id)
  BY <1>0 DEF Mentions, Parses
<1>1. ASSUME NEW id \in Ids, Replay(id) PROVE JournalInv'
  BY <1>0, <1>1 DEF Replay, Parses
<1>2. ASSUME NEW id \in Ids \cup {NoId}, Arrive(id) PROVE JournalInv'
  <2>1. id \notin executed
    BY <1>2, ModelValuesAssumption DEF Arrive, NeverSeen, TypeOK
  <2>2. pc' = "user" => cur' \notin Ids
    BY <1>2, ModelValuesAssumption DEF Arrive
  <2>3. /\ pc' \in {"begin", "user"} /\ pc = "idle" /\ cur' = id
        /\ UNCHANGED <<files, memory, ghosts>>
    BY <1>2 DEF Arrive
  <2> QED
    BY <1>0, <2>1, <2>2, <2>3 DEF Parses
<1>3. CASE BeginLine
  <2>1. [id |-> cur, outcome |-> Uncertain] \in Records
    BY <1>3 DEF BeginLine, MemoryInv, Records, Outcomes
  <2>2. /\ \A i \in DOMAIN journal' : Parses(journal'[i])
        /\ \A id \in Ids : Mentions(journal, id) # {} => Mentions(journal', id) # {}
        /\ Mentions(journal', cur) # {}
        /\ open' = TRUE
    BY <1>3, <2>1, AppendRecordMentions DEF BeginLine, AppendRecord
  <2>3. /\ pc = "begin" /\ pc' = "beginLine"
        /\ UNCHANGED <<cur, outcomes, executed>>
    BY <1>3 DEF BeginLine
  <2> QED
    BY <2>2, <2>3 DEF TypeOK
<1>4. CASE BeginSync
  <2>1. cur \in Ids /\ cur \notin executed /\ Mentions(journal, cur) # {}
    BY <1>4 DEF BeginSync, MemoryInv
  <2>2. /\ outcomes' = [outcomes EXCEPT ![cur] = Uncertain]
        /\ open' = FALSE /\ pc' = "user"
        /\ UNCHANGED <<cur, journal, executed>>
    BY <1>4 DEF BeginSync, Remember
  <2>3. \A id \in Ids : outcomes[id] # Unseen \/ id = cur => outcomes'[id] # Unseen
    BY <2>2, ModelValuesAssumption DEF TypeOK
  <2> QED
    BY <1>0, <1>4, <2>1, <2>2, <2>3 DEF Parses, BeginSync, TypeOK
<1>5. CASE UserTurn
  <2>1. /\ pc = "user" /\ pc' = "userSave"
        /\ executed' = executed \cup ({cur} \cap Ids)
        /\ UNCHANGED <<cur, journal, open, outcomes>>
    BY <1>5 DEF UserTurn, AppendTurn
  <2> QED
    BY <1>0, <2>1 DEF Parses
<1>6. CASE ReplyTurn
  BY <1>0, <1>6 DEF ReplyTurn, AppendTurn, Parses
<1>7. CASE WriteState
  BY <1>0, <1>7 DEF WriteState, Parses
<1>8. CASE ResultLine
  <2>1. [id |-> cur, outcome |-> SequenceOfReply] \in Records
    BY <1>8 DEF ResultLine, MemoryInv, TypeOK, Records, Outcomes, Entries, SequenceOfReply
  <2>2. /\ \A i \in DOMAIN journal' : Parses(journal'[i])
        /\ \A id \in Ids : Mentions(journal, id) # {} => Mentions(journal', id) # {}
        /\ open' = TRUE
    BY <1>8, <2>1, AppendRecordMentions DEF ResultLine, AppendRecord
  <2>3. /\ pc = "result" /\ pc' = "resultLine"
        /\ UNCHANGED <<cur, outcomes, executed>>
    BY <1>8 DEF ResultLine
  <2> QED
    BY <2>2, <2>3 DEF TypeOK
<1>9. CASE ResultSync
  <2>1. cur \in Ids /\ SequenceOfReply # Unseen
    BY <1>9, ModelValuesAssumption
    DEF ResultSync, MemoryInv, TypeOK, Entries, SequenceOfReply
  <2>2. /\ outcomes' = [outcomes EXCEPT ![cur] = SequenceOfReply]
        /\ open' = FALSE /\ pc' \in {"idle", "compact"}
        /\ UNCHANGED <<cur, journal, executed>>
    BY <1>9 DEF ResultSync, Remember
  <2>3. \A id \in Ids : outcomes[id] # Unseen => outcomes'[id] # Unseen
    BY <2>1, <2>2 DEF TypeOK
  <2> QED
    BY <1>0, <1>9, <2>1, <2>2, <2>3 DEF Parses, ResultSync, TypeOK
<1>10. CASE Compact
  <2> DEFINE evicted == IF Len(order) > RetainedIds THEN Len(order) - RetainedIds ELSE 0
             kept == SubSeq(order, evicted + 1, Len(order))
             gone == {order[i] : i \in 1..evicted}
  <2>1. Len(order) \in Nat /\ DOMAIN order = 1..Len(order) /\ evicted \in 0..Len(order)
    BY LimitsAssumption, LenProperties DEF TypeOK
  <2>2. /\ DOMAIN kept = 1..(Len(order) - evicted)
        /\ \A i \in DOMAIN kept : kept[i] = order[i + evicted]
    BY <2>1, KeptOrder
  <2>3. /\ outcomes' = [id \in Ids |-> IF id \in gone THEN Unseen ELSE outcomes[id]]
        /\ executed' = executed \ gone
        /\ pc = "compact" /\ pc' = "idle" /\ UNCHANGED cur
    BY <1>10 DEF Compact
  <2>4. \/ journal' = [i \in DOMAIN kept |->
                        <<[id |-> kept[i], outcome |-> outcomes[kept[i]]]>>] /\ open' = FALSE
        \/ UNCHANGED <<journal, open>>
    BY <1>10 DEF Compact
  <2>5. \A id \in executed' : outcomes'[id] # Unseen
    <3> HIDE DEF gone
    <3> QED
      BY <2>3 DEF TypeOK
  <2>6. ~open'
    BY <2>3, <2>4
  <2>7. /\ \A i \in DOMAIN journal' : Parses(journal'[i])
        /\ \A id \in executed' : Mentions(journal', id) # {}
    <3>1. CASE UNCHANGED <<journal, open>>
      <4> HIDE DEF gone
      <4> QED
        BY <1>0, <2>3, <3>1 DEF Parses
    <3>2. CASE journal' = [i \in DOMAIN kept |->
                            <<[id |-> kept[i], outcome |-> outcomes[kept[i]]]>>]
      <4> HIDE DEF kept, evicted
      <4>1. \A i \in DOMAIN kept :
              /\ Parses(journal'[i])
              /\ journal'[i][1].id = kept[i]
        BY <3>2 DEF Parses
      <4>2. ASSUME NEW id \in executed' PROVE Mentions(journal', id) # {}
        <5>1. id \in Ids /\ id \notin gone /\ outcomes[id] # Unseen
          BY <2>3, <4>2 DEF TypeOK
        <5>2. PICK k \in 1..Len(order) : order[k] = id
          BY <2>1, <2>3, <5>1 DEF MemoryInv
        <5>3. k \notin 1..evicted
          BY <5>1, <5>2
        <5>4. k - evicted \in DOMAIN kept /\ (k - evicted) + evicted = k
          BY <2>1, <2>2, <5>3
        <5>5. kept[k - evicted] = id
          BY <2>2, <5>2, <5>4
        <5> QED
          BY <3>2, <4>1, <5>4, <5>5 DEF Mentions
      <4> QED
        BY <3>2, <4>1, <4>2
    <3> QED
      BY <2>4, <3>1, <3>2
  <2> HIDE DEF gone, kept, evicted
  <2> QED
    BY <2>3, <2>5, <2>6, <2>7
<1>11. CASE PromptFails
  BY <1>0, <1>11 DEF PromptFails, Parses
<1>12. CASE WorkerCrash
  BY <1>0, <1>12 DEF WorkerCrash, Parses
<1>13. CASE MachineCrash
  BY <1>0, <1>13 DEF MachineCrash, Parses
<1>14. CASE Recover
  <2>1. /\ pc = "down" /\ pc' = "idle" /\ UNCHANGED <<journal, open, executed>>
        /\ \A id \in Ids : outcomes'[id] = Loaded(journal, id)
    BY <1>14 DEF Recover
  <2>2. \A id \in executed : outcomes'[id] # Unseen
    BY <2>1, LoadedType DEF TypeOK
  <2> QED
    BY <1>0, <2>1, <2>2 DEF Parses
<1>15. CASE UNCHANGED vars
  BY <1>0, <1>15 DEF vars, Parses
<1> QED
  BY <1>1, <1>2, <1>3, <1>4, <1>5, <1>6, <1>7, <1>8, <1>9, <1>10, <1>11, <1>12,
     <1>13, <1>14, <1>15 DEF Next

(* Whatever the ids, limits, worker crashes, failed writes and lost page   *)
(* caches: a request the journal has not evicted is dispatched once, if    *)
(* no record is ever left without its newline.                             *)
THEOREM AtMostOnce ==
  ASSUME "torn" \notin Hazards
  PROVE  Spec => []NeverBlindlyReplayed
<1>1. Init => TypeOK /\ MemoryInv /\ JournalInv
  BY TypingInit, JournalInit
<1>2. TypeOK /\ MemoryInv /\ JournalInv /\ [Next]_vars => (TypeOK /\ MemoryInv /\ JournalInv)'
  BY TypingStep, JournalStep
<1>3. JournalInv => NeverBlindlyReplayed
  BY DEF JournalInv, NeverBlindlyReplayed
<1> QED
  BY <1>1, <1>2, <1>3, PTL DEF Spec

(* Under the same assumption the file is always ahead of the dispatches.   *)
THEOREM WrittenAhead ==
  ASSUME "torn" \notin Hazards
  PROVE  Spec => []JournaledBeforeDispatch
<1>1. Init => TypeOK /\ MemoryInv /\ JournalInv
  BY TypingInit, JournalInit
<1>2. TypeOK /\ MemoryInv /\ JournalInv /\ [Next]_vars => (TypeOK /\ MemoryInv /\ JournalInv)'
  BY TypingStep, JournalStep
<1>3. JournalInv => JournaledBeforeDispatch
  BY DEF JournalInv
<1> QED
  BY <1>1, <1>2, <1>3, PTL DEF Spec
-----------------------------------------------------------------------------
(* Before the machine goes down, what an answer is traced back to.         *)

(* The transcript numbers its entries by place, and the worker, once it    *)
(* recovered, goes on where the file ends.                                 *)
Numbered ==
  /\ \A i \in DOMAIN transcript : transcript[i].sequence = i
  /\ stateSeq <= Len(transcript)
  /\ pc # "down" => lastSeq = Len(transcript)

(* A sequence is recorded for a request only where its answer stands.      *)
IsAnswer(id, outcome) ==
  outcome \in Nat =>
    /\ outcome \in DOMAIN transcript
    /\ transcript[outcome].by = id
    /\ transcript[outcome].role = "assistant"

Recorded ==
  /\ \A i \in DOMAIN journal :
       Parses(journal[i]) => IsAnswer(journal[i][1].id, journal[i][1].outcome)
  /\ pc # "down" => \A id \in Ids : IsAnswer(id, outcomes[id])
  /\ pc \in {"replySave", "result", "resultLine", "compact"} =>
       /\ reply.sequence \in DOMAIN transcript
       /\ reply = transcript[reply.sequence]
       /\ reply.by = cur /\ reply.role = "assistant"

OwnInv == ~rebooted => Numbered /\ Recorded /\ AnswerIsOwn

(* An answer handed out is what file and memory have for its request, and  *)
(* no prompt of that request is under way.                                 *)
Answered(id) == told[id] \notin {Uncertain, NoAnswer}

Final(id) ==
  /\ told[id].sequence \in DOMAIN transcript
  /\ transcript[told[id].sequence] = told[id]
  /\ Loaded(journal, id) = told[id].sequence
  /\ pc # "down" => outcomes[id] = told[id].sequence
  /\ pc \notin {"down", "idle"} => cur # id

(* Between two writes memory repeats what the file says.                   *)
Agrees ==
  /\ pc # "down" =>
       \A id \in Ids :
         outcomes[id] # Unseen /\ ~(pc \in {"beginLine", "resultLine"} /\ cur = id)
           => Loaded(journal, id) = outcomes[id]
  /\ pc = "beginLine" => Loaded(journal, cur) = Uncertain
  /\ pc = "resultLine" => Loaded(journal, cur) = reply.sequence
  /\ pc = "compact" => outcomes[cur] = reply.sequence

FinalInv == ~rebooted => Agrees /\ \A id \in Ids : Answered(id) => Final(id)

(* What a file says of an id is what its last line on the id says.         *)
LEMMA LoadedIs ==
  ASSUME NEW lines, NEW id, NEW k \in Mentions(lines, id),
         Mentions(lines, id) \subseteq Int, \A j \in Mentions(lines, id) : j <= k
  PROVE  Loaded(lines, id) = lines[k][1].outcome
<1> DEFINE M == Mentions(lines, id)
           last == CHOOSE i \in M : \A j \in M : j <= i
<1>1. last \in M /\ \A j \in M : j <= last
  OBVIOUS
<1>2. last = k
  BY <1>1
<1> QED BY <1>2 DEF Loaded

LEMMA LastMention ==
  ASSUME TypeOK, NEW id, Mentions(journal, id) # {}
  PROVE  /\ Mentions(journal, id) \subseteq 1..Len(journal)
         /\ \E k \in Mentions(journal, id) :
              /\ \A j \in Mentions(journal, id) : j <= k
              /\ Loaded(journal, id) = journal[k][1].outcome
<1>1. DOMAIN journal = 1..Len(journal) /\ Len(journal) \in Nat
  BY LenProperties DEF TypeOK
<1>2. Mentions(journal, id) \subseteq 1..Len(journal)
  BY <1>1 DEF Mentions
<1>3. PICK k \in Mentions(journal, id) : \A j \in Mentions(journal, id) : j <= k
  BY <1>1, <1>2, Greatest
<1>4. Mentions(journal, id) \subseteq Int
  BY <1>1, <1>2
<1> QED BY <1>2, <1>3, <1>4, LoadedIs

(* A record counts for its id, and changes nothing for the others.         *)
LEMMA AppendRecordLoaded ==
  ASSUME TypeOK, NEW record \in Records, AppendRecord(record), ~open
  PROVE  /\ Loaded(journal', record.id) = record.outcome
         /\ \A id \in Ids \ {record.id} : Loaded(journal', id) = Loaded(journal, id)
<1> DEFINE n == Len(journal)
<1>1. journal \in Seq(Seq(Records)) /\ DOMAIN journal = 1..n /\ n \in Nat
  BY LenProperties DEF TypeOK
<1>2. <<record>> \in Seq(Records) /\ Len(<<record>>) = 1 /\ <<record>>[1] = record
  OBVIOUS
<1>3. /\ journal' \in Seq(Seq(Records))
      /\ Len(journal') = n + 1
      /\ \A i \in 1..n : journal'[i] = journal[i]
      /\ journal'[n + 1] = <<record>>
  BY <1>1, <1>2, AppendProperties DEF AppendRecord
<1>4. DOMAIN journal' = 1..(n + 1)
  BY <1>3, LenProperties
<1>5. Loaded(journal', record.id) = record.outcome
  <2>1. Mentions(journal', record.id) \subseteq 1..(n + 1)
    BY <1>4 DEF Mentions
  <2>2. n + 1 \in Mentions(journal', record.id)
    <3>1. n + 1 \in DOMAIN journal' /\ journal'[n + 1][1] = record /\ Len(journal'[n + 1]) = 1
      BY <1>1, <1>2, <1>3, <1>4
    <3> HIDE DEF n
    <3> QED BY <3>1 DEF Mentions, Parses
  <2>3. Mentions(journal', record.id) \subseteq Int
        /\ \A j \in Mentions(journal', record.id) : j <= n + 1
    BY <1>1, <2>1
  <2> HIDE DEF n
  <2> QED BY <1>2, <1>3, <2>2, <2>3, LoadedIs
<1>6. ASSUME NEW id \in Ids \ {record.id}
      PROVE  Loaded(journal', id) = Loaded(journal, id)
  <2>1. Mentions(journal', id) = Mentions(journal, id)
    <3>1. ASSUME NEW i \in 1..n PROVE i \in Mentions(journal', id) <=> i \in Mentions(journal, id)
      BY <1>1, <1>3, <1>4 DEF Mentions, Parses
    <3>2. n + 1 \notin Mentions(journal', id) /\ n + 1 \notin Mentions(journal, id)
      BY <1>1, <1>2, <1>3 DEF Mentions
    <3>3. /\ Mentions(journal', id) \subseteq 1..(n + 1)
          /\ Mentions(journal, id) \subseteq 1..n
      BY <1>1, <1>4 DEF Mentions
    <3>4. \A i \in 1..(n + 1) : i \in 1..n \/ i = n + 1
      BY <1>1
    <3> QED BY <3>1, <3>2, <3>3, <3>4
  <2>2. CASE Mentions(journal, id) = {}
    BY <2>1, <2>2 DEF Loaded
  <2>3. CASE Mentions(journal, id) # {}
    <3>1. PICK k \in Mentions(journal, id) :
            /\ \A j \in Mentions(journal, id) : j <= k
            /\ Loaded(journal, id) = journal[k][1].outcome
      BY <2>3, LastMention
    <3>2. k \in 1..n /\ Mentions(journal, id) \subseteq 1..n
      BY <2>3, LastMention
    <3>3. Mentions(journal', id) \subseteq Int
      BY <1>1, <2>1, <3>2
    <3>4. Loaded(journal', id) = journal'[k][1].outcome
      BY <2>1, <3>1, <3>3, LoadedIs
    <3> QED BY <1>3, <3>1, <3>2, <3>4
  <2> QED BY <2>2, <2>3
<1> QED BY <1>5, <1>6

(* A record that names an answer, in a file whose records do.              *)
LEMMA AppendRecordRecorded ==
  ASSUME TypeOK, NEW record \in Records, AppendRecord(record),
         IsAnswer(record.id, record.outcome), UNCHANGED transcript,
         \A i \in DOMAIN journal :
           Parses(journal[i]) => IsAnswer(journal[i][1].id, journal[i][1].outcome)
  PROVE  (\A i \in DOMAIN journal :
            Parses(journal[i]) => IsAnswer(journal[i][1].id, journal[i][1].outcome))'
<1> DEFINE n == Len(journal)
<1>1. journal \in Seq(Seq(Records)) /\ DOMAIN journal = 1..n /\ n \in Nat
  BY LenProperties DEF TypeOK
<1>2. \A id, o : IsAnswer(id, o) => IsAnswer(id, o)'
  BY DEF IsAnswer
<1>3. CASE ~open
  <2>1. <<record>> \in Seq(Records) /\ Len(<<record>>) = 1 /\ <<record>>[1] = record
    OBVIOUS
  <2>2. /\ journal' \in Seq(Seq(Records))
        /\ Len(journal') = n + 1
        /\ \A i \in 1..n : journal'[i] = journal[i]
        /\ journal'[n + 1] = <<record>>
    BY <1>1, <1>3, <2>1, AppendProperties DEF AppendRecord
  <2>3. DOMAIN journal' = 1..(n + 1)
    BY <2>2, LenProperties
  <2>4. ASSUME NEW i \in DOMAIN journal', Parses(journal'[i])
        PROVE  IsAnswer(journal'[i][1].id, journal'[i][1].outcome)
    <3>1. i \in 1..n \/ i = n + 1
      BY <1>1, <2>3
    <3> QED BY <1>1, <2>1, <2>2, <2>4, <3>1
  <2> QED BY <1>2, <2>4
<1>4. CASE open
  <2>1. n \in 1..n /\ journal[n] \in Seq(Records)
    <3>1. journal # << >>
      BY <1>4 DEF TypeOK
    <3>2. n \in 1..n
      BY <1>1, <3>1, EmptySeq
    <3> QED BY <1>1, <3>2, ElementOfSeq
  <2>2. /\ Len(Append(journal[n], record)) = Len(journal[n]) + 1
        /\ Append(journal[n], record)[Len(journal[n]) + 1] = record
    BY <2>1, AppendProperties
  <2>3. /\ journal' = [journal EXCEPT ![n] = Append(journal[n], record)]
        /\ DOMAIN journal' = 1..n /\ journal'[n] = Append(journal[n], record)
        /\ \A i \in 1..n : i # n => journal'[i] = journal[i]
    BY <1>1, <1>4, <2>1 DEF AppendRecord
  <2>4. Parses(journal'[n]) => journal'[n][1] = record
    <3>1. Len(journal[n]) \in Nat
      BY <2>1, LenProperties
    <3> QED BY <2>2, <2>3, <3>1 DEF Parses
  <2>5. ASSUME NEW i \in DOMAIN journal', Parses(journal'[i])
        PROVE  IsAnswer(journal'[i][1].id, journal'[i][1].outcome)
    BY <1>1, <2>3, <2>4, <2>5
  <2> QED BY <1>2, <2>5
<1> QED BY <1>3, <1>4

LEMMA OwnInit == Init => OwnInv
<1> SUFFICES ASSUME Init PROVE OwnInv
  OBVIOUS
<1>1. DOMAIN journal = {} /\ DOMAIN transcript = {} /\ Len(transcript) = 0
  BY EmptySeq, LenProperties DEF Init
<1> QED
  BY <1>1, ModelValuesAssumption
  DEF Init, OwnInv, Numbered, Recorded, IsAnswer, AnswerIsOwn, IsOwn

(* Nothing of the transcript, the records or the answers changes.          *)
LEMMA OwnFrame ==
  ASSUME OwnInv, UNCHANGED <<journal, transcript, outcomes, lastSeq, reply, stateSeq, told>>,
         UNCHANGED rebooted,
         pc' # "down" => pc # "down",
         pc' \in {"replySave", "result", "resultLine", "compact"} =>
           pc \in {"replySave", "result", "resultLine", "compact"} /\ UNCHANGED cur
  PROVE  OwnInv'
<1>1. \A id, o : IsAnswer(id, o)' <=> IsAnswer(id, o)
  BY DEF IsAnswer
<1>2. Numbered /\ ~rebooted => Numbered'
  BY DEF Numbered
<1>3. Recorded /\ ~rebooted => Recorded'
  BY <1>1 DEF Recorded, Parses
<1>4. AnswerIsOwn /\ ~rebooted => AnswerIsOwn'
  BY DEF AnswerIsOwn, IsOwn
<1> QED BY <1>2, <1>3, <1>4 DEF OwnInv

LEMMA AppendTurnOwn ==
  ASSUME TypeOK, OwnInv, ~rebooted, pc # "down", NEW role \in {"user", "assistant"},
         AppendTurn(role)
  PROVE  /\ (\A i \in DOMAIN transcript : transcript[i].sequence = i)'
         /\ stateSeq <= Len(transcript') /\ lastSeq' = Len(transcript')
         /\ lastSeq' \in DOMAIN transcript' /\ transcript'[lastSeq'] = reply'
         /\ reply' = [sequence |-> lastSeq', by |-> cur, role |-> role]
         /\ \A i \in DOMAIN transcript : i \in DOMAIN transcript' /\ transcript'[i] = transcript[i]
         /\ \A id, o : IsAnswer(id, o) => IsAnswer(id, o)'
<1> DEFINE n == Len(transcript)
<1>1. transcript \in Seq(Entries) /\ DOMAIN transcript = 1..n /\ n \in Nat
  BY LenProperties DEF TypeOK
<1>2. lastSeq = n /\ stateSeq <= n /\ \A i \in 1..n : transcript[i].sequence = i
  BY <1>1 DEF OwnInv, Numbered
<1>3. /\ reply' = [sequence |-> n + 1, by |-> cur, role |-> role]
      /\ transcript' = Append(transcript, reply') /\ lastSeq' = n + 1
  BY <1>2 DEF AppendTurn
<1>4. reply' \in Entries
  BY <1>1, <1>3 DEF Entries, TypeOK
<1>5. /\ transcript' \in Seq(Entries) /\ Len(transcript') = n + 1
      /\ \A i \in 1..n : transcript'[i] = transcript[i]
      /\ transcript'[n + 1] = reply'
  BY <1>1, <1>3, <1>4, AppendProperties
<1>6. DOMAIN transcript' = 1..(n + 1)
  BY <1>5, LenProperties
<1>7. \A i \in 1..(n + 1) : i \in 1..n \/ i = n + 1
  BY <1>1
<1>8. \A i \in DOMAIN transcript' : transcript'[i].sequence = i
  BY <1>2, <1>3, <1>5, <1>6, <1>7
<1>9. stateSeq \in Nat
  BY DEF TypeOK
<1> HIDE DEF n
<1>10. n + 1 \in 1..(n + 1) /\ stateSeq <= n + 1 /\ \A i \in 1..n : i \in 1..(n + 1)
  BY <1>1, <1>2, <1>9
<1>11. \A id, o : IsAnswer(id, o) => IsAnswer(id, o)'
  BY <1>1, <1>5, <1>6, <1>10 DEF IsAnswer
<1> QED BY <1>1, <1>3, <1>5, <1>6, <1>8, <1>10, <1>11

LEMMA OwnStep ==
  ASSUME TypeOK, TypeOK', MemoryInv, OwnInv, [Next]_vars
  PROVE  OwnInv'
<1> SUFFICES ASSUME ~rebooted' PROVE OwnInv'
  BY DEF OwnInv
<1> USE DEF files, memory, ghosts
<1>0. ~rebooted /\ Numbered /\ Recorded /\ AnswerIsOwn
  BY DEF OwnInv, Next, Replay, Arrive, BeginLine, BeginSync, UserTurn, ReplyTurn, WriteState,
         AppendTurn, ResultLine, ResultSync, Compact, PromptFails, WorkerCrash, MachineCrash,
         Recover, vars
<1>k. \A id, o : UNCHANGED transcript => (IsAnswer(id, o)' <=> IsAnswer(id, o))
  BY DEF IsAnswer
<1>1. ASSUME NEW id \in Ids, Replay(id) PROVE OwnInv'
  <2> DEFINE at == {i \in DOMAIN transcript : transcript[i].sequence = outcomes[id]}
  <2>1. \A i \in at : i = outcomes[id] /\ i \in Nat
    <3>1. \A i \in DOMAIN transcript : transcript[i].sequence = i /\ i \in Nat
      BY <1>0, LenProperties DEF Numbered, TypeOK
    <3> QED BY <3>1
  <2>2. \A i \in at : transcript[i].by = id /\ transcript[i].role = "assistant"
    BY <1>0, <1>1, <2>1 DEF Recorded, IsAnswer, Replay
  <2>3. \A x \in Ids : x # id => told'[x] = told[x]
    BY <1>1 DEF Replay, TypeOK
  <2>4. IsOwn(told'[id], id)
    BY <1>1, <2>2 DEF Replay, TypeOK, IsOwn
  <2>5. AnswerIsOwn'
    BY <1>0, <2>3, <2>4 DEF AnswerIsOwn
  <2>6. Numbered' /\ Recorded'
    BY <1>0, <1>1, <1>k DEF Replay, Numbered, Recorded, Parses
  <2> QED BY <2>5, <2>6 DEF OwnInv
<1>2. ASSUME NEW id \in Ids \cup {NoId}, Arrive(id) PROVE OwnInv'
  BY <1>2, OwnFrame DEF Arrive
<1>3. CASE BeginLine
  <2>1. [id |-> cur, outcome |-> Uncertain] \in Records
    BY <1>3 DEF BeginLine, MemoryInv, Records, Outcomes
  <2>2. IsAnswer(cur, Uncertain)
    BY ModelValuesAssumption DEF IsAnswer
  <2>3. (\A i \in DOMAIN journal :
           Parses(journal[i]) => IsAnswer(journal[i][1].id, journal[i][1].outcome))'
    BY <1>0, <1>3, <2>1, <2>2, AppendRecordRecorded DEF BeginLine, Recorded
  <2> QED
    BY <1>0, <1>3, <1>k, <2>3 DEF BeginLine, OwnInv, Numbered, Recorded, AnswerIsOwn, IsOwn
<1>4. CASE BeginSync
  <2>1. outcomes' = [outcomes EXCEPT ![cur] = Uncertain]
    BY <1>4 DEF BeginSync, Remember
  <2>2. ASSUME NEW id \in Ids PROVE IsAnswer(id, outcomes'[id])
    BY <1>0, <1>4, <2>1, ModelValuesAssumption DEF BeginSync, Recorded, TypeOK, IsAnswer
  <2> QED
    BY <1>0, <1>4, <1>k, <2>2
    DEF BeginSync, OwnInv, Numbered, Recorded, AnswerIsOwn, IsOwn, Parses
<1>5. CASE UserTurn
  <2>1. AppendTurn("user") /\ pc = "user" /\ pc' = "userSave"
    BY <1>5 DEF UserTurn
  <2>2. /\ \A i \in DOMAIN transcript' : transcript'[i].sequence = i
        /\ stateSeq <= Len(transcript') /\ lastSeq' = Len(transcript')
        /\ \A id, o : IsAnswer(id, o) => IsAnswer(id, o)'
    BY <1>0, <2>1, AppendTurnOwn
  <2>3. UNCHANGED <<journal, outcomes, stateSeq, told, rebooted>>
    BY <2>1 DEF AppendTurn
  <2> QED
    BY <1>0, <2>1, <2>2, <2>3 DEF OwnInv, Numbered, Recorded, AnswerIsOwn, IsOwn, Parses
<1>6. CASE ReplyTurn
  <2>1. AppendTurn("assistant") /\ pc = "reply" /\ pc' = "replySave"
    BY <1>6 DEF ReplyTurn
  <2>2. /\ \A i \in DOMAIN transcript' : transcript'[i].sequence = i
        /\ stateSeq <= Len(transcript') /\ lastSeq' = Len(transcript')
        /\ lastSeq' \in DOMAIN transcript' /\ transcript'[lastSeq'] = reply'
        /\ reply' = [sequence |-> lastSeq', by |-> cur, role |-> "assistant"]
        /\ \A id, o : IsAnswer(id, o) => IsAnswer(id, o)'
    BY <1>0, <2>1, AppendTurnOwn
  <2>3. UNCHANGED <<cur, journal, outcomes, stateSeq, told, rebooted>>
    BY <2>1 DEF AppendTurn
  <2>4. Numbered'
    BY <2>1, <2>2, <2>3 DEF Numbered
  <2>5. Recorded'
    BY <1>0, <2>1, <2>2, <2>3 DEF Recorded, Parses
  <2> QED
    BY <1>0, <2>3, <2>4, <2>5 DEF OwnInv, AnswerIsOwn, IsOwn
<1>7. CASE WriteState
  <2>1. stateSeq' = Len(transcript)
    BY <1>0, <1>7 DEF WriteState, Numbered
  <2>2. Len(transcript) \in Nat
    BY LenProperties DEF TypeOK
  <2> QED
    BY <1>0, <1>7, <1>k, <2>1, <2>2
    DEF WriteState, OwnInv, Numbered, Recorded, AnswerIsOwn, IsOwn, Parses
<1>8. CASE ResultLine
  <2>1. [id |-> cur, outcome |-> SequenceOfReply] \in Records
    BY <1>8 DEF ResultLine, MemoryInv, TypeOK, Records, Outcomes, Entries, SequenceOfReply
  <2>2. IsAnswer(cur, SequenceOfReply)
    BY <1>0, <1>8 DEF IsAnswer, Recorded, ResultLine, SequenceOfReply
  <2>3. (\A i \in DOMAIN journal :
           Parses(journal[i]) => IsAnswer(journal[i][1].id, journal[i][1].outcome))'
    BY <1>0, <1>8, <2>1, <2>2, AppendRecordRecorded DEF ResultLine, Recorded
  <2> QED
    BY <1>0, <1>8, <1>k, <2>3 DEF ResultLine, OwnInv, Numbered, Recorded, AnswerIsOwn, IsOwn
<1>9. CASE ResultSync
  <2>1. outcomes' = [outcomes EXCEPT ![cur] = SequenceOfReply] /\ cur \in Ids
    BY <1>9 DEF ResultSync, Remember, MemoryInv
  <2>2. IsAnswer(cur, SequenceOfReply)
    BY <1>0, <1>9 DEF IsAnswer, Recorded, ResultSync, SequenceOfReply
  <2>3. ASSUME NEW id \in Ids PROVE IsAnswer(id, outcomes'[id])
    BY <1>0, <1>9, <2>1, <2>2 DEF ResultSync, Recorded, TypeOK
  <2>4. reply.by = cur /\ reply.role = "assistant"
    BY <1>0, <1>9 DEF ResultSync, Recorded
  <2>5. \A id \in Ids : told'[id] = told[id] \/ (id = cur /\ told'[id] = reply)
    BY <1>9 DEF ResultSync, TypeOK
  <2>6. AnswerIsOwn'
    BY <1>0, <2>4, <2>5 DEF AnswerIsOwn, IsOwn
  <2>7. /\ pc = "resultLine" /\ pc' \in {"idle", "compact"}
        /\ UNCHANGED <<cur, journal, transcript, stateSeq, lastSeq, reply>>
    BY <1>9 DEF ResultSync
  <2>8. Numbered' /\ Recorded'
    BY <1>0, <1>k, <2>3, <2>7 DEF Numbered, Recorded, Parses
  <2> QED BY <2>6, <2>8 DEF OwnInv
<1>10. CASE Compact
  <2> DEFINE evicted == IF Len(order) > RetainedIds THEN Len(order) - RetainedIds ELSE 0
             kept == SubSeq(order, evicted + 1, Len(order))
             gone == {order[i] : i \in 1..evicted}
  <2>1. /\ outcomes' = [id \in Ids |-> IF id \in gone THEN Unseen ELSE outcomes[id]]
        /\ pc = "compact" /\ pc' = "idle"
        /\ UNCHANGED <<transcript, stateSeq, lastSeq>>
        /\ \/ journal' = [i \in DOMAIN kept |-> <<[id |-> kept[i], outcome |-> outcomes[kept[i]]]>>]
           \/ UNCHANGED journal
    BY <1>10 DEF Compact
  <2>2. \A id \in Ids : told'[id] \in {NoAnswer, told[id]} \/ (id = cur /\ told'[id] = reply)
    <3>1. \/ told' = [id \in Ids |-> IF id \in gone THEN NoAnswer
                                     ELSE IF id = cur THEN reply ELSE told[id]]
          \/ told' = [id \in Ids |-> IF id \in gone THEN NoAnswer ELSE told[id]]
      BY <1>10 DEF Compact
    <3> HIDE DEF gone
    <3> QED BY <3>1
  <2>3. \A i \in DOMAIN kept : kept[i] \in Ids
    <3>1. Len(order) \in Nat /\ evicted \in 0..Len(order)
      BY LimitsAssumption, LenProperties DEF TypeOK
    <3>2. kept \in Seq(Ids)
      BY <3>1, KeptOrder
    <3> QED BY <3>2, ElementOfSeq, LenProperties
  <2> HIDE DEF kept, gone, evicted
  <2>4. reply.by = cur /\ reply.role = "assistant"
    BY <1>0, <2>1 DEF Recorded
  <2>5. AnswerIsOwn'
    BY <1>0, <2>2, <2>4 DEF AnswerIsOwn, IsOwn
  <2>6. \A id \in Ids : IsAnswer(id, outcomes[id])
    BY <1>0, <2>1 DEF Recorded
  <2>7. \A id \in Ids : IsAnswer(id, outcomes'[id])
    <3>1. \A id : IsAnswer(id, Unseen)
      BY ModelValuesAssumption DEF IsAnswer
    <3> QED BY <2>1, <2>6, <3>1
  <2>8. ASSUME NEW i \in DOMAIN journal', Parses(journal'[i])
        PROVE  IsAnswer(journal'[i][1].id, journal'[i][1].outcome)
    <3>1. CASE UNCHANGED journal
      BY <1>0, <2>8, <3>1 DEF Recorded
    <3>2. CASE journal' = [j \in DOMAIN kept |->
                             <<[id |-> kept[j], outcome |-> outcomes[kept[j]]]>>]
      <4>1. journal'[i][1] = [id |-> kept[i], outcome |-> outcomes[kept[i]]] /\ i \in DOMAIN kept
        BY <2>8, <3>2
      <4> QED BY <2>3, <2>6, <4>1
    <3> QED BY <2>1, <3>1, <3>2
  <2>9. Numbered' /\ Recorded'
    BY <1>0, <1>k, <2>1, <2>7, <2>8 DEF Numbered, Recorded
  <2> QED BY <2>5, <2>9 DEF OwnInv
<1>11. CASE PromptFails
  BY <1>11, OwnFrame DEF PromptFails
<1>12. CASE WorkerCrash
  BY <1>12, OwnFrame DEF WorkerCrash
<1>13. ~MachineCrash
  BY DEF MachineCrash
<1>14. CASE Recover
  <2>1. DOMAIN transcript = 1..Len(transcript) /\ Len(transcript) \in Nat
    BY LenProperties DEF TypeOK
  <2>2. transcript # << >> => Len(transcript) \in 1..Len(transcript)
    BY <2>1, EmptySeq DEF TypeOK
  <2>3. LastWritten = Len(transcript)
    <3>1. transcript = << >> => Len(transcript) = 0
      BY EmptySeq
    <3> QED BY <1>0, <2>1, <2>2, <3>1 DEF LastWritten, Numbered
  <2>4. /\ lastSeq' = Len(transcript) /\ stateSeq' = Len(transcript)
        /\ outcomes' = [id \in Ids |-> Loaded(journal, id)]
        /\ pc' = "idle" /\ UNCHANGED <<journal, transcript, told>>
    <3>1. stateSeq <= Len(transcript) /\ stateSeq \in Nat
      BY <1>0 DEF Numbered, TypeOK
    <3>2. /\ lastSeq' = IF LastWritten > stateSeq THEN LastWritten ELSE stateSeq
          /\ stateSeq' = lastSeq'
      BY <1>14 DEF Recover
    <3>3. /\ outcomes' = [id \in Ids |-> Loaded(journal, id)]
          /\ pc' = "idle" /\ UNCHANGED <<journal, transcript, told>>
      BY <1>14 DEF Recover
    <3>4. lastSeq' = Len(transcript)
      <4>1. \A n, m \in Nat : m <= n => (IF n > m THEN n ELSE m) = n
        OBVIOUS
      <4> QED BY <2>1, <2>3, <3>1, <3>2, <4>1
    <3> QED BY <3>2, <3>3, <3>4
  <2>5. ASSUME NEW id \in Ids PROVE IsAnswer(id, outcomes'[id])
    <3>1. CASE Mentions(journal, id) = {}
      BY <2>4, <3>1, LoadedType, ModelValuesAssumption DEF IsAnswer
    <3>2. CASE Mentions(journal, id) # {}
      <4>1. PICK k \in Mentions(journal, id) : Loaded(journal, id) = journal[k][1].outcome
        BY <3>2, LastMention
      <4> QED BY <1>0, <2>4, <4>1 DEF Recorded, Mentions
    <3> QED BY <3>1, <3>2
  <2>6. Numbered' /\ Recorded'
    BY <1>0, <1>k, <2>1, <2>4, <2>5 DEF Numbered, Recorded, Parses
  <2> QED BY <1>0, <2>4, <2>6 DEF OwnInv, AnswerIsOwn, IsOwn
<1>15. CASE UNCHANGED vars
  BY <1>15, OwnFrame DEF vars
<1> QED
  BY <1>1, <1>2, <1>3, <1>4, <1>5, <1>6, <1>7, <1>8, <1>9, <1>10, <1>11, <1>12,
     <1>13, <1>14, <1>15 DEF Next

(* However workers crash, records tear and the journal is compacted, every *)
(* answer a client gets is the assistant's turn of its own request, as     *)
(* long as the machine stays up.                                           *)
THEOREM OwnAnswers == Spec => []AnswerIsOwn
<1>1. Init => TypeOK /\ MemoryInv /\ OwnInv
  BY TypingInit, OwnInit
<1>2. TypeOK /\ MemoryInv /\ OwnInv /\ [Next]_vars => (TypeOK /\ MemoryInv /\ OwnInv)'
  BY TypingStep, OwnStep
<1>3. OwnInv => AnswerIsOwn
  BY DEF OwnInv, AnswerIsOwn
<1> QED BY <1>1, <1>2, <1>3, PTL DEF Spec

LEMMA FinalInit == Init => FinalInv
BY DEF Init, FinalInv, Agrees, Answered

(* The file, the outcomes and the answers stay; the transcript may grow.   *)
LEMMA FinalFrame ==
  ASSUME FinalInv, UNCHANGED <<journal, outcomes, told, rebooted>>,
         \A i \in DOMAIN transcript : i \in DOMAIN transcript' /\ transcript'[i] = transcript[i],
         pc' # "down" => pc \notin {"down", "beginLine", "resultLine"},
         \A id \in Ids : Answered(id) /\ Final(id) /\ pc' \notin {"down", "idle"} => cur' # id,
         pc' \notin {"beginLine", "resultLine", "compact"}
  PROVE  /\ FinalInv'
         /\ \A id \in Ids : Answered(id) => told'[id] = told[id]
<1>1. \A id \in Ids : Answered(id)' <=> Answered(id)
  BY DEF Answered
<1>2. \A id : Loaded(journal', id) = Loaded(journal, id)
  OBVIOUS
<1>3. \A id \in Ids : Answered(id) /\ Final(id) => Final(id)'
  BY <1>2 DEF Final
<1>4. Agrees /\ ~rebooted => Agrees'
  BY <1>2 DEF Agrees
<1> QED BY <1>1, <1>3, <1>4 DEF FinalInv

(* A compacted file says of each id it keeps what memory said.             *)
LineOf(id) == <<[id |-> id, outcome |-> outcomes[id]]>>

LEMMA CompactedLoaded ==
  ASSUME NEW kept \in Seq(Ids), \A i, j \in DOMAIN kept : kept[i] = kept[j] => i = j,
         NEW lines, DOMAIN lines = DOMAIN kept,
         \A i \in DOMAIN kept : lines[i] = LineOf(kept[i]),
         NEW k \in DOMAIN kept
  PROVE  Loaded(lines, kept[k]) = outcomes[kept[k]]
<1>1. DOMAIN kept = 1..Len(kept) /\ Len(kept) \in Nat
  BY LenProperties
<1>2. ASSUME NEW i \in DOMAIN lines
      PROVE  /\ lines[i][1].id = kept[i] /\ Len(lines[i]) = 1
             /\ lines[i][1].outcome = outcomes[kept[i]]
  <2>1. lines[i] = <<[id |-> kept[i], outcome |-> outcomes[kept[i]]]>>
    BY DEF LineOf
  <2> QED BY <2>1
<1>3. Mentions(lines, kept[k]) = {k}
  BY <1>2 DEF Mentions, Parses
<1>4. k \in DOMAIN lines /\ k \in Int /\ k <= k
  BY <1>1, <1>2
<1> DEFINE M == Mentions(lines, kept[k])
<1> M = {k}
  BY <1>3
<1> HIDE DEF M
<1>6. M \subseteq Int /\ k \in M /\ \A j \in M : j <= k
  BY <1>4
<1>5. Loaded(lines, kept[k]) = lines[k][1].outcome
  BY <1>6, LoadedIs DEF M
<1> QED BY <1>2, <1>4, <1>5

LEMMA FinalStep ==
  ASSUME TypeOK, TypeOK', MemoryInv, JournalInv, OwnInv, FinalInv, "torn" \notin Hazards,
         [Next]_vars, ~rebooted'
  PROVE  /\ FinalInv'
         /\ \A id \in Ids : Answered(id) => told'[id] \in {told[id], NoAnswer}
<1> DEFINE Goal == /\ FinalInv'
                   /\ \A id \in Ids : Answered(id) => told'[id] \in {told[id], NoAnswer}
<1> SUFFICES Goal
  OBVIOUS
<1> USE DEF files, memory, ghosts
<1>0. /\ ~rebooted /\ Numbered /\ Recorded /\ Agrees
      /\ \A id \in Ids : Answered(id) => Final(id) /\ told[id] \in Entries
  <2>1. ~rebooted
    BY DEF Next, Replay, Arrive, BeginLine, BeginSync, UserTurn, ReplyTurn, WriteState,
           AppendTurn, ResultLine, ResultSync, Compact, PromptFails, WorkerCrash, MachineCrash,
           Recover, vars
  <2> QED BY <2>1 DEF OwnInv, FinalInv, Answered, TypeOK
<1>1. ASSUME NEW id \in Ids, Replay(id) PROVE Goal
  <2> DEFINE at == {i \in DOMAIN transcript : transcript[i].sequence = outcomes[id]}
  <2>1. \A i \in at : i = outcomes[id]
    BY <1>0 DEF Numbered
  <2>2. /\ pc = "idle" /\ pc' = "idle" /\ UNCHANGED <<journal, outcomes, transcript, cur>>
        /\ \A x \in Ids : x # id => told'[x] = told[x]
        /\ \/ \E i \in at : told'[id] = transcript[i]
           \/ told'[id] = Uncertain /\ at = {}
        /\ outcomes[id] # Unseen
    BY <1>1 DEF Replay, TypeOK, NeverSeen
  <2>3. ASSUME Answered(id) PROVE told'[id] = told[id]
    <3>1. /\ told[id].sequence \in DOMAIN transcript /\ outcomes[id] = told[id].sequence
          /\ transcript[outcomes[id]] = told[id]
      BY <1>0, <2>2, <2>3 DEF Final
    <3>2. outcomes[id] \in at
      BY <1>0, <3>1 DEF Numbered
    <3> HIDE DEF at
    <3> QED BY <2>1, <2>2, <3>1, <3>2
  <2>4. ASSUME Answered(id)' PROVE Final(id)'
    <3>1. PICK i \in at : told'[id] = transcript[i]
      BY <2>2, <2>4 DEF Answered
    <3>2. i = outcomes[id] /\ i \in DOMAIN transcript /\ told'[id].sequence = i
      BY <1>0, <2>1, <3>1 DEF Numbered
    <3>3. Loaded(journal, id) = outcomes[id]
      BY <1>0, <2>2 DEF Agrees
    <3> QED BY <2>2, <3>1, <3>2, <3>3 DEF Final
  <2>5. \A x \in Ids : Answered(x)' => Final(x)'
    <3>1. \A x \in Ids : x # id /\ Answered(x)' => Answered(x) /\ Final(x)
      BY <1>0, <2>2 DEF Answered
    <3>2. \A x \in Ids : x # id /\ Final(x) => Final(x)'
      BY <2>2 DEF Final
    <3> QED BY <2>4, <3>1, <3>2
  <2>6. Agrees'
    BY <1>0, <2>2 DEF Agrees
  <2> QED BY <2>2, <2>3, <2>5, <2>6 DEF FinalInv
<1>2. ASSUME NEW id \in Ids \cup {NoId}, Arrive(id) PROVE Goal
  <2>1. /\ pc = "idle" /\ pc' \in {"begin", "user"} /\ cur' = id
        /\ UNCHANGED <<journal, outcomes, told, rebooted, transcript>>
        /\ id \in Ids => outcomes[id] = Unseen
    BY <1>2, ModelValuesAssumption DEF Arrive, NeverSeen
  <2>2. \A x \in Ids : Answered(x) /\ Final(x) => x # id
    <3>1. \A x \in Ids : Answered(x) => told[x].sequence \in Nat
      BY <1>0 DEF Entries
    <3> QED BY <2>1, <3>1, ModelValuesAssumption DEF Final
  <2> QED BY <2>1, <2>2, FinalFrame
<1>3. ASSUME NEW record \in Records, AppendRecord(record), pc' \in {"beginLine", "resultLine"},
             pc \in {"begin", "result"}, record.id = cur, cur \in Ids,
             pc' = "beginLine" => record.outcome = Uncertain,
             pc' = "resultLine" => record.outcome = reply.sequence,
             UNCHANGED <<cur, transcript, outcomes, told, reply>>
      PROVE  Goal
  <2>1. /\ Loaded(journal', cur) = record.outcome
        /\ \A id \in Ids \ {cur} : Loaded(journal', id) = Loaded(journal, id)
    BY <1>3, AppendRecordLoaded DEF JournalInv
  <2>2. Agrees'
    BY <1>0, <1>3, <2>1 DEF Agrees
  <2>3. \A id \in Ids : Answered(id)' => Final(id)'
    <3>1. \A id \in Ids : Answered(id)' => Answered(id) /\ Final(id) /\ id # cur
      BY <1>0, <1>3 DEF Answered, Final
    <3>2. ASSUME NEW id \in Ids, Final(id), id # cur PROVE Final(id)'
      BY <1>3, <2>1, <3>2 DEF Final
    <3> QED BY <3>1, <3>2
  <2> QED BY <1>3, <2>2, <2>3 DEF FinalInv
<1>4. CASE BeginLine
  <2>1. [id |-> cur, outcome |-> Uncertain] \in Records /\ cur \in Ids
    BY <1>4 DEF BeginLine, MemoryInv, Records, Outcomes
  <2>2. AppendRecord([id |-> cur, outcome |-> Uncertain])
    BY <1>4 DEF BeginLine
  <2>3. pc = "begin" /\ pc' = "beginLine" /\ UNCHANGED <<cur, transcript, outcomes, told, reply>>
    BY <1>4 DEF BeginLine
  <2> QED BY <1>3, <2>1, <2>2, <2>3
<1>5. CASE ResultLine
  <2>1. [id |-> cur, outcome |-> SequenceOfReply] \in Records /\ cur \in Ids
    BY <1>5 DEF ResultLine, MemoryInv, TypeOK, Records, Outcomes, Entries, SequenceOfReply
  <2>2. AppendRecord([id |-> cur, outcome |-> SequenceOfReply])
    BY <1>5 DEF ResultLine
  <2>3. pc = "result" /\ pc' = "resultLine" /\ UNCHANGED <<cur, transcript, outcomes, told, reply>>
    BY <1>5 DEF ResultLine
  <2> QED BY <1>3, <2>1, <2>2, <2>3 DEF SequenceOfReply
<1>6. CASE BeginSync
  <2>1. /\ outcomes' = [outcomes EXCEPT ![cur] = Uncertain] /\ cur \in Ids
        /\ pc = "beginLine" /\ pc' = "user" /\ UNCHANGED <<cur, journal, transcript, told>>
    BY <1>6 DEF BeginSync, Remember, MemoryInv
  <2>2. outcomes'[cur] = Uncertain /\ \A id \in Ids \ {cur} : outcomes'[id] = outcomes[id]
    BY <2>1 DEF TypeOK
  <2>3. Agrees'
    BY <1>0, <2>1, <2>2 DEF Agrees
  <2>4. \A id \in Ids : Answered(id)' => Answered(id) /\ Final(id) /\ id # cur
    BY <1>0, <2>1 DEF Answered, Final
  <2>5. \A id \in Ids : Final(id) /\ id # cur => Final(id)'
    BY <2>1, <2>2 DEF Final
  <2> QED BY <2>1, <2>3, <2>4, <2>5 DEF FinalInv
<1>7. CASE UserTurn \/ ReplyTurn
  <2>1. PICK role \in {"user", "assistant"} : AppendTurn(role)
    BY <1>7 DEF UserTurn, ReplyTurn
  <2>2. pc \in {"user", "reply"} /\ pc' \in {"userSave", "replySave"}
    BY <1>7 DEF UserTurn, ReplyTurn
  <2>3. \A i \in DOMAIN transcript : i \in DOMAIN transcript' /\ transcript'[i] = transcript[i]
    BY <1>0, <2>1, <2>2, AppendTurnOwn
  <2>4. UNCHANGED <<cur, journal, outcomes, told, rebooted>>
    BY <2>1 DEF AppendTurn
  <2>5. \A id \in Ids : Answered(id) /\ Final(id) => cur' # id
    BY <2>2, <2>4 DEF Final
  <2> QED BY <2>2, <2>3, <2>4, <2>5, FinalFrame
<1>8. CASE WriteState \/ PromptFails
  <2>1. /\ pc \notin {"down", "idle", "beginLine", "resultLine"}
        /\ pc' \in {"reply", "idle", "result"}
        /\ UNCHANGED <<cur, journal, outcomes, told, rebooted, transcript>>
    BY <1>8 DEF WriteState, PromptFails
  <2>2. \A id \in Ids : Answered(id) /\ Final(id) => cur' # id
    BY <2>1 DEF Final
  <2> QED BY <2>1, <2>2, FinalFrame
<1>9. CASE WorkerCrash
  BY <1>9, FinalFrame DEF WorkerCrash
<1>10. CASE ResultSync
  <2>1. /\ outcomes' = [outcomes EXCEPT ![cur] = reply.sequence] /\ cur \in Ids
        /\ pc = "resultLine" /\ pc' \in {"idle", "compact"}
        /\ UNCHANGED <<cur, journal, transcript, reply>>
    BY <1>10 DEF ResultSync, Remember, MemoryInv, SequenceOfReply
  <2>2. \/ told' = told
        \/ pc' = "idle" /\ told' = [told EXCEPT ![cur] = reply]
    BY <1>10 DEF ResultSync
  <2>3. outcomes'[cur] = reply.sequence /\ \A id \in Ids \ {cur} : outcomes'[id] = outcomes[id]
    BY <2>1 DEF TypeOK
  <2>4. Loaded(journal, cur) = reply.sequence
    BY <1>0, <2>1 DEF Agrees
  <2>5. Agrees'
    BY <1>0, <2>1, <2>3, <2>4 DEF Agrees
  <2>6. ~Answered(cur) /\ \A id \in Ids \ {cur} : told'[id] = told[id]
    <3>1. ~Answered(cur)
      BY <1>0, <2>1 DEF Final
    <3> QED BY <2>2, <3>1 DEF TypeOK
  <2>7. ASSUME NEW id \in Ids, Answered(id)' PROVE Final(id)'
    <3>1. CASE id # cur
      <4>1. Answered(id) /\ told'[id] = told[id] /\ Final(id)
        BY <1>0, <2>6, <2>7, <3>1 DEF Answered
      <4> QED BY <2>1, <2>3, <3>1, <4>1 DEF Final
    <3>2. CASE id = cur
      <4>1. told'[cur] = reply /\ pc' = "idle"
        BY <2>1, <2>2, <2>6, <2>7, <3>2 DEF Answered, TypeOK
      <4>2. reply.sequence \in DOMAIN transcript /\ reply = transcript[reply.sequence]
        BY <1>0, <2>1 DEF Recorded
      <4> QED BY <2>1, <2>3, <2>4, <3>2, <4>1, <4>2 DEF Final
    <3> QED BY <3>1, <3>2
  <2> QED BY <2>5, <2>6, <2>7 DEF FinalInv
<1>11. CASE Compact
  <2> DEFINE evicted == IF Len(order) > RetainedIds THEN Len(order) - RetainedIds ELSE 0
             kept == SubSeq(order, evicted + 1, Len(order))
             gone == {order[i] : i \in 1..evicted}
  <2>1. /\ outcomes' = [id \in Ids |-> IF id \in gone THEN Unseen ELSE outcomes[id]]
        /\ pc = "compact" /\ pc' = "idle" /\ cur \in Ids
        /\ UNCHANGED <<cur, transcript, stateSeq, lastSeq, reply>>
        /\ \/ /\ journal' = [i \in DOMAIN kept |->
                               <<[id |-> kept[i], outcome |-> outcomes[kept[i]]]>>]
              /\ told' = [id \in Ids |-> IF id \in gone THEN NoAnswer
                                         ELSE IF id = cur THEN reply ELSE told[id]]
           \/ /\ UNCHANGED journal
              /\ told' = [id \in Ids |-> IF id \in gone THEN NoAnswer ELSE told[id]]
    BY <1>11 DEF Compact, MemoryInv
  <2>2. Len(order) \in Nat /\ DOMAIN order = 1..Len(order) /\ evicted \in 0..Len(order)
    BY LimitsAssumption, LenProperties DEF TypeOK
  <2>3. /\ kept \in Seq(Ids)
        /\ DOMAIN kept = 1..(Len(order) - evicted)
        /\ \A i \in DOMAIN kept : kept[i] = order[i + evicted]
        /\ \A i, j \in DOMAIN kept : kept[i] = kept[j] => i = j
    BY <2>2, KeptOrder
  <2>4. ASSUME NEW id \in Ids, id \notin gone, outcomes[id] # Unseen
        PROVE  \E k \in DOMAIN kept : kept[k] = id
    <3> HIDE DEF kept, evicted
    <3>1. PICK k \in 1..Len(order) : order[k] = id
      BY <2>1, <2>2, <2>4 DEF MemoryInv
    <3>2. k \notin 1..evicted
      BY <2>4, <3>1
    <3>3. k - evicted \in DOMAIN kept /\ (k - evicted) + evicted = k
      BY <2>2, <2>3, <3>2
    <3> QED BY <2>3, <3>1, <3>3
  <2> HIDE DEF kept, evicted, gone
  <2>5. ASSUME NEW id \in Ids, id \notin gone, outcomes[id] # Unseen
        PROVE  Loaded(journal', id) = outcomes[id]
    <3>1. Loaded(journal, id) = outcomes[id]
      BY <1>0, <2>1, <2>5 DEF Agrees
    <3>2. PICK k \in DOMAIN kept : kept[k] = id
      BY <2>4, <2>5
    <3>3. ASSUME journal' = [i \in DOMAIN kept |->
                               <<[id |-> kept[i], outcome |-> outcomes[kept[i]]]>>]
          PROVE  Loaded(journal', kept[k]) = outcomes[kept[k]]
      <4>1. /\ DOMAIN journal' = DOMAIN kept
            /\ \A i \in DOMAIN kept : journal'[i] = LineOf(kept[i])
        BY <3>3 DEF LineOf
      <4>2. /\ kept \in Seq(Ids) /\ k \in DOMAIN kept
            /\ \A i, j \in DOMAIN kept : kept[i] = kept[j] => i = j
        BY <2>3, <3>2
      <4> QED BY <4>1, <4>2, CompactedLoaded
    <3> QED BY <2>1, <3>1, <3>2, <3>3
  <2>6. Agrees'
    BY <2>1, <2>5 DEF Agrees
  <2>7. ~Answered(cur) /\ outcomes[cur] = reply.sequence /\ reply.sequence \in Nat
        /\ reply.sequence \in DOMAIN transcript /\ reply = transcript[reply.sequence]
    BY <1>0, <2>1 DEF Final, Agrees, Recorded, TypeOK, Entries
  <2>8. ASSUME NEW id \in Ids
        PROVE  \/ told'[id] = NoAnswer
               \/ id \notin gone /\ told'[id] = told[id]
               \/ id \notin gone /\ id = cur /\ told'[id] = reply
    BY <2>1
  <2>9. ASSUME NEW id \in Ids, Answered(id)' PROVE Final(id)'
    <3>1. CASE id \notin gone /\ id = cur /\ told'[id] = reply
      <4>1. Loaded(journal', id) = outcomes[id] /\ outcomes'[id] = outcomes[id]
        BY <2>1, <2>5, <2>7, <3>1, ModelValuesAssumption
      <4> QED BY <2>1, <2>7, <3>1, <4>1 DEF Final
    <3>2. CASE id \notin gone /\ told'[id] = told[id]
      <4>1. Answered(id) /\ Final(id) /\ told[id] \in Entries
        BY <1>0, <2>9, <3>2 DEF Answered
      <4>2. outcomes[id] = told[id].sequence /\ outcomes[id] # Unseen
        BY <2>1, <4>1, ModelValuesAssumption DEF Final, Entries
      <4>3. Loaded(journal', id) = outcomes[id] /\ outcomes'[id] = outcomes[id]
        BY <2>1, <2>5, <3>2, <4>2
      <4> QED BY <2>1, <3>2, <4>1, <4>2, <4>3 DEF Final
    <3> QED BY <2>8, <2>9, <3>1, <3>2 DEF Answered
  <2> QED BY <2>6, <2>7, <2>8, <2>9 DEF FinalInv
<1>12. ~MachineCrash
  BY DEF MachineCrash
<1>13. CASE Recover
  <2>1. /\ pc = "down" /\ pc' = "idle" /\ UNCHANGED <<journal, transcript, told>>
        /\ \A id \in Ids : outcomes'[id] = Loaded(journal, id)
    BY <1>13 DEF Recover
  <2>2. Agrees'
    BY <2>1 DEF Agrees
  <2>3. \A id \in Ids : (Answered(id)' => Answered(id)) /\ (Final(id) => Final(id)')
    BY <2>1 DEF Answered, Final
  <2> QED BY <1>0, <2>1, <2>2, <2>3 DEF FinalInv
<1>14. CASE UNCHANGED vars
  <2>1. UNCHANGED <<pc, cur, journal, transcript, outcomes, reply, told, rebooted>>
    BY <1>14 DEF vars
  <2>2. \A id \in Ids : (Answered(id)' => Answered(id)) /\ (Final(id) => Final(id)')
    BY <2>1 DEF Answered, Final
  <2>3. Agrees'
    BY <1>0, <2>1 DEF Agrees
  <2> QED BY <1>0, <2>1, <2>2, <2>3 DEF FinalInv
<1> HIDE DEF Goal
<1> QED
  BY <1>1, <1>2, <1>4, <1>5, <1>6, <1>7, <1>8, <1>9, <1>10, <1>11, <1>12, <1>13, <1>14
  DEF Next

(* A client that was handed an answer gets the same one for as long as the *)
(* journal keeps its request, over any number of worker crashes and        *)
(* compactions, if no record is left without its newline and the machine   *)
(* stays up.                                                               *)
THEOREM FinalAnswers ==
  ASSUME "torn" \notin Hazards
  PROVE  Spec => AnswerIsFinal
<1> DEFINE I == TypeOK /\ MemoryInv /\ JournalInv /\ OwnInv /\ FinalInv
           A == ~rebooted' => \A id \in Ids :
                  told[id] \notin {Uncertain, NoAnswer} => told'[id] \in {told[id], NoAnswer}
<1>1. Init => I
  BY TypingInit, JournalInit, OwnInit, FinalInit
<1>2. I /\ [Next]_vars => I'
  <2> SUFFICES ASSUME I, [Next]_vars PROVE I'
    OBVIOUS
  <2>1. TypeOK' /\ MemoryInv'
    BY TypingStep
  <2>2. JournalInv' /\ OwnInv'
    BY <2>1, JournalStep, OwnStep
  <2>3. FinalInv'
    BY <2>1, FinalStep DEF FinalInv
  <2> QED BY <2>1, <2>2, <2>3
<1>3. I /\ I' /\ [Next]_vars => A
  BY FinalStep DEF Answered
<1>4. I /\ I' /\ [Next]_vars => [A]_vars
  BY <1>3
<1> HIDE DEF I, A
<1>5. Spec => []I
  BY <1>1, <1>2, PTL DEF Spec
<1>6. Spec => [][A]_vars
  BY <1>4, <1>5, PTL DEF Spec
<1> QED BY <1>6 DEF A, AnswerIsFinal
=============================================================================
