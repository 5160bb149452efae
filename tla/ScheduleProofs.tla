---------------------------- MODULE ScheduleProofs ----------------------------
(* An acknowledged schedule is kept, a Once fires once, a cancelled one is *)
(* not taken and nothing fires early: for any sessions, ids, handlers,     *)
(* times, durations and crashes.                                           *)
EXTENDS Schedule, WellFoundedInduction, TLAPS

Stages == {"idle", "cut", "write", "fire", "spin"}

ActorType ==
  [stage : Stages, sess : Sessions \cup {NoId}, id : Ids \cup {NoId},
   entries : SUBSET Entries, due : SUBSET Ids]

Rewriting(a) == actor[a].stage \in {"cut", "write"}

(* No two entries have one id.                                             *)
Distinct(entries) == \A e1, e2 \in entries : e1.id = e2.id => e1 = e2

(* What an entry says of its schedule was asked for.                       *)
Known(entries) == \A e \in entries : e.id \in seen.known /\ e.every = asked[e.id].every

(* Who rewrites a file, and what it is about to write.                     *)
ActorsOK ==
  /\ actor \in [Actors -> ActorType]
  /\ \A a \in Actors :
       /\ Rewriting(a) => actor[a].sess \in Sessions
       /\ ~Rewriting(a) => actor[a].entries = {}
       /\ Distinct(actor[a].entries) /\ Known(actor[a].entries)
       /\ actor[a].due \subseteq seen.known
  /\ \A h \in Handlers : Rewriting(h) =>
       /\ actor[h].id \in seen.known
       /\ actor[h].due = {} => actor[h].id \in IdsOf(actor[h].entries)
       /\ actor[h].due \cap IdsOf(actor[h].entries) = {}
  /\ \A h \in Handlers : actor[h].stage \in {"idle", "cut", "write"}
  /\ Rewriting(Loop) => \A i \in actor[Loop].due :
       asked[i].every <=> i \in IdsOf(actor[Loop].entries)
  /\ actor[Loop].stage = "fire" => actor[Loop].due \subseteq seen.taken
  /\ actor[Loop].stage \in {"idle", "spin"} => actor[Loop].due = {}

HistoryOK ==
  /\ \A s \in Sessions : Known(file[s].entries)
  /\ seen.acked \subseteq seen.known
  /\ seen.fired \subseteq seen.taken
  /\ seen.taken \cup seen.cancelled \subseteq seen.known

BaseInv == TypeOK /\ ActorsOK /\ HistoryOK
-----------------------------------------------------------------------------
(* While no two rewrites overlapped.                                       *)

(* Who has cut a file to nothing is alone with it.                         *)
Exclusive ==
  \A a \in Actors : actor[a].stage = "write" =>
    /\ ~file[actor[a].sess].whole /\ file[actor[a].sess].entries = {}
    /\ \A b \in Actors \ {a} : Rewriting(b) => actor[b].sess # actor[a].sess

(* What was read and is about to be cut is still what the file has.        *)
Intact ==
  \A a \in Actors : actor[a].stage = "cut" =>
    IdsOf(file[actor[a].sess].entries) \subseteq IdsOf(actor[a].entries) \cup actor[a].due

(* A schedule is of one session.                                           *)
At(s, i) ==
  \/ i \in IdsOf(file[s].entries)
  \/ \E a \in Actors : /\ Rewriting(a) /\ actor[a].sess = s
                       /\ i \in IdsOf(actor[a].entries) \cup actor[a].due

Placed == \A s1, s2 \in Sessions, i \in Ids : At(s1, i) /\ At(s2, i) => s1 = s2

Listed(s, i) ==
  \/ i \in IdsOf(file[s].entries)
  \/ \E a \in Actors : Rewriting(a) /\ actor[a].sess = s /\ i \in IdsOf(actor[a].entries)

(* What was cancelled, or taken for the one time it fires, is in no file.  *)
Removed == {i \in Ids : i \in seen.cancelled \/ (i \in seen.taken /\ ~asked[i].every)}

RemovedOK ==
  /\ \A s \in Sessions, i \in Removed : ~Listed(s, i)
  /\ Rewriting(Loop) => \A i \in actor[Loop].due : asked[i].every \/ i \notin seen.taken
  /\ actor[Loop].stage = "fire" => \A i \in actor[Loop].due \cap seen.fired : asked[i].every

Orderly == Exclusive /\ Intact /\ Placed /\ RemovedOK /\ AckedAreKept /\ seen.again = {}

FilesInv == BaseInv /\ (seen.raced = {} => Orderly)
-----------------------------------------------------------------------------
(* Times.                                                                  *)

OnTime(e) == ~Overflows(e.id) => WantedAt(e.id) <= e.next

(* An Every is some intervals past the time it was added.                  *)
OnMultiple(e) ==
  e.every /\ ~Wraps(e.id) /\ e.interval > 0 =>
    /\ e.interval = asked[e.id].amount
    /\ \E m \in Nat : e.next = asked[e.id].at + m * e.interval

TimesOK ==
  /\ pass.now <= now
  /\ \A s \in Sessions : \A e \in file[s].entries : OnTime(e)
  /\ \A a \in Actors : \A e \in actor[a].entries : OnTime(e)
  /\ \A i \in actor[Loop].due : ~Overflows(i) => WantedAt(i) <= now
  /\ \A i \in seen.early : Overflows(i) /\ i \in seen.known
  /\ \A s \in Sessions : \A e \in file[s].entries : OnMultiple(e)
  /\ \A a \in Actors : \A e \in actor[a].entries : OnMultiple(e)

TimesInv == BaseInv /\ TimesOK
-----------------------------------------------------------------------------
(* What the forms of update the actions use do, field by field.            *)

(* One actor goes on, the others stay where they are.                      *)
Becomes(a, stage, sess, id, entries, due) ==
  /\ actor' \in [Actors -> ActorType]
  /\ \A b \in Actors \ {a} : actor'[b] = actor[b]
  /\ actor'[a].stage = stage /\ actor'[a].sess = sess /\ actor'[a].id = id
  /\ actor'[a].entries = entries /\ actor'[a].due = due

LEMMA BeginBecomes ==
  ASSUME ActorsOK, NEW a \in Actors, NEW s \in Sessions, NEW id \in Ids \cup {NoId},
         NEW due \in SUBSET Ids, NEW entries \in SUBSET Entries, Begin(a, s, id, due, entries)
  PROVE  Becomes(a, "cut", s, id, entries, due)
<1>1. [stage |-> "cut", sess |-> s, id |-> id, entries |-> entries, due |-> due] \in ActorType
  BY DEF ActorType, Stages
<1> QED BY <1>1 DEF ActorsOK, Becomes, Begin

LEMMA RestingType == Resting \in ActorType /\ Resting.stage = "idle" /\ Resting.entries = {} /\ Resting.due = {}
BY DEF Resting, ActorType, Stages

(* Everything stays true of the actors that do not move.                   *)
LEMMA ActorMoves ==
  ASSUME ActorsOK, NEW a \in Actors,
         actor' \in [Actors -> ActorType], \A b \in Actors \ {a} : actor'[b] = actor[b],
         seen.known \subseteq seen'.known, seen.taken \subseteq seen'.taken,
         \A i \in seen.known : asked'[i] = asked[i],
         Rewriting(a)' => actor'[a].sess \in Sessions,
         ~Rewriting(a)' => actor'[a].entries = {},
         Distinct(actor'[a].entries),
         \A e \in actor'[a].entries : e.id \in seen'.known /\ e.every = asked'[e.id].every,
         actor'[a].due \subseteq seen'.known,
         a # Loop => /\ actor'[a].stage \in {"idle", "cut", "write"}
                     /\ Rewriting(a)' =>
                          /\ actor'[a].id \in seen'.known
                          /\ actor'[a].due = {} => actor'[a].id \in IdsOf(actor'[a].entries)
                          /\ actor'[a].due \cap IdsOf(actor'[a].entries) = {},
         a = Loop => /\ Rewriting(a)' => \A i \in actor'[a].due :
                          asked'[i].every <=> i \in IdsOf(actor'[a].entries)
                     /\ actor'[a].stage = "fire" => actor'[a].due \subseteq seen'.taken
                     /\ actor'[a].stage \in {"idle", "spin"} => actor'[a].due = {}
  PROVE  ActorsOK'
<1>1. \A b \in Actors \ {a} : Rewriting(b)' <=> Rewriting(b)
  BY DEF Rewriting
<1>2. \A b \in Actors :
        /\ Rewriting(b)' => actor'[b].sess \in Sessions
        /\ ~Rewriting(b)' => actor'[b].entries = {}
        /\ Distinct(actor'[b].entries)
        /\ actor'[b].due \subseteq seen'.known
  BY <1>1 DEF ActorsOK
<1>3. \A b \in Actors : Known(actor[b].entries)'
  BY DEF ActorsOK, Known
<1>4. \A h \in Handlers : h \in Actors /\ h # Loop
  BY ScheduleAssumption DEF Actors
<1>5. \A h \in Handlers :
        /\ actor'[h].stage \in {"idle", "cut", "write"}
        /\ Rewriting(h)' => /\ actor'[h].id \in seen'.known
                            /\ actor'[h].due = {} => actor'[h].id \in IdsOf(actor'[h].entries)
                            /\ actor'[h].due \cap IdsOf(actor'[h].entries) = {}
  BY <1>1, <1>4 DEF ActorsOK
<1>6. /\ Rewriting(Loop)' => \A i \in actor'[Loop].due :
           asked'[i].every <=> i \in IdsOf(actor'[Loop].entries)
      /\ actor'[Loop].stage = "fire" => actor'[Loop].due \subseteq seen'.taken
      /\ actor'[Loop].stage \in {"idle", "spin"} => actor'[Loop].due = {}
  <2>1. Loop \in Actors
    BY DEF Actors
  <2>2. CASE a # Loop
    <3>1. actor'[Loop] = actor[Loop] /\ (Rewriting(Loop)' <=> Rewriting(Loop))
      BY <1>1, <2>1, <2>2
    <3>2. actor[Loop].due \subseteq seen.known
      BY <2>1 DEF ActorsOK
    <3> QED BY <3>1, <3>2 DEF ActorsOK
  <2> QED BY <2>2
<1> QED BY <1>2, <1>3, <1>5, <1>6 DEF ActorsOK

SeenType ==
  [known : SUBSET Ids, acked : SUBSET Ids, cancelled : SUBSET Ids,
   taken : SUBSET Ids, fired : SUBSET Ids, again : SUBSET Ids,
   early : SUBSET Ids, raced : SUBSET Sessions, torn : SUBSET Sessions,
   crashes : 0..MaxCrashes]

FilesTyped ==
  /\ file \in [Sessions -> [whole : BOOLEAN, entries : SUBSET Entries]]
  /\ \A s \in Sessions : Distinct(file[s].entries)

LEMMA Typed ==
  ASSUME now' \in 0..MaxTime, FilesTyped', ActorsOK',
         \A a \in Actors : actor'[a].stage \in {"fire", "spin"} => actor'[a].sess \in Sessions,
         pass' \in [todo : SUBSET Sessions, now : 0..MaxTime],
         asked' \in [Ids -> [every : BOOLEAN, amount : Nat, at : 0..MaxTime]],
         seen' \in SeenType
  PROVE  TypeOK'
<1>1. \A a \in Actors :
        /\ actor'[a].stage \in Stages
        /\ actor'[a].entries \subseteq Entries
        /\ actor'[a].due \subseteq Ids
  BY DEF ActorsOK, ActorType
<1>2. \A a \in Actors : actor'[a].stage # "idle" => actor'[a].sess \in Sessions
  BY <1>1 DEF Stages, ActorsOK, Rewriting
<1>3. \A a \in Actors : a # Loop => actor'[a].stage \notin {"fire", "spin"}
  BY DEF ActorsOK, Actors
<1> QED BY <1>1, <1>2, <1>3 DEF TypeOK, Stages, FilesTyped, Distinct, SeenType

LEMMA FilesAre == ASSUME TypeOK PROVE FilesTyped /\ seen \in SeenType
BY DEF TypeOK, FilesTyped, Distinct, SeenType

-----------------------------------------------------------------------------
(* Each action keeps files, actors and history what they are.              *)

LEMMA AddsBase ==
  ASSUME BaseInv, NEW h \in Handlers, NEW i \in Ids \ seen.known, NEW every \in BOOLEAN,
         NEW ms \in Times, NEW amount \in Nat, Adds(h, i, every, ms, amount)
  PROVE  BaseInv'
<1> USE DEF BaseInv
<1> DEFINE new == [id |-> i, every |-> every, interval |-> ms, next |-> FirstFire(every, ms)]
<1>1. PICK s \in Sessions :
        /\ actor[h].stage = "idle"
        /\ Begin(h, s, i, {}, file[s].entries \cup {new})
  BY DEF Adds
<1>2. /\ asked' = [asked EXCEPT ![i] = [every |-> every, amount |-> amount,
                                        at |-> IF every THEN now ELSE 0]]
      /\ seen' = [seen EXCEPT !.known = @ \cup {i}]
      /\ UNCHANGED <<now, file, pass>>
  BY DEF Adds
<1>3. new \in Entries
  <2>1. FirstFire(every, ms) \in Times
    BY ScheduleAssumption DEF FirstFire, Times, TypeOK
  <2> QED BY <2>1 DEF Entries
<1>4. h \in Actors /\ h # Loop
  BY ScheduleAssumption DEF Actors
<1>5. file[s].entries \cup {new} \in SUBSET Entries
  BY <1>3 DEF TypeOK
<1>6. Becomes(h, "cut", s, i, file[s].entries \cup {new}, {})
  BY <1>1, <1>4, <1>5, BeginBecomes
<1>7. /\ asked' \in [Ids -> [every : BOOLEAN, amount : Nat, at : 0..MaxTime]]
      /\ \A j \in Ids \ {i} : asked'[j] = asked[j]
      /\ asked'[i].every = every
  BY <1>2, ScheduleAssumption DEF TypeOK
<1>8. /\ seen' \in SeenType /\ seen'.known = seen.known \cup {i}
      /\ seen'.taken = seen.taken /\ seen'.acked = seen.acked /\ seen'.fired = seen.fired
      /\ seen'.cancelled = seen.cancelled
  BY <1>2, FilesAre DEF SeenType
<1>9. seen.known \subseteq Ids
  BY DEF TypeOK
<1>10. ActorsOK'
  <2> DEFINE entries == file[s].entries \cup {new}
  <2>1. new.id = i /\ new.every = every
    OBVIOUS
  <2> HIDE DEF new
  <2>2. \A e \in file[s].entries : e.id \in seen.known /\ e.every = asked[e.id].every
    BY DEF HistoryOK, Known
  <2>3. Distinct(entries)
    BY <2>1, <2>2 DEF TypeOK, Distinct
  <2>4. \A e \in entries : e.id \in seen'.known /\ e.every = asked'[e.id].every
    BY <1>7, <1>8, <1>9, <2>1, <2>2
  <2>5. i \in IdsOf(entries)
    BY <2>1 DEF IdsOf
  <2>6. Rewriting(h)'
    BY <1>6 DEF Becomes, Rewriting
  <2> HIDE DEF entries
  <2>7. Becomes(h, "cut", s, i, entries, {})
    BY <1>6 DEF entries
  <2> QED BY <1>4, <1>7, <1>8, <1>9, <2>3, <2>4, <2>5, <2>6, <2>7, ActorMoves DEF Becomes
<1>11. HistoryOK'
  BY <1>2, <1>7, <1>8, <1>9 DEF HistoryOK, Known
<1>12. TypeOK'
  <2>1. \A a \in Actors : actor'[a].stage \in {"fire", "spin"} => actor'[a].sess \in Sessions
    BY <1>6 DEF TypeOK, Becomes
  <2>2. FilesTyped'
    BY <1>2, FilesAre DEF FilesTyped
  <2> QED BY <1>2, <1>7, <1>8, <1>10, <2>1, <2>2, Typed DEF TypeOK
<1> QED BY <1>10, <1>11, <1>12

LEMMA AddBase == ASSUME BaseInv, NEW h \in Handlers, Add(h) PROVE BaseInv'
<1>1. PICK i \in Ids \ seen.known :
        \/ \E t \in AtTimes : Adds(h, i, FALSE, t, t)
        \/ \E n \in Counts, u \in Units : Adds(h, i, TRUE, Interval(n, u), n * u)
  BY DEF Add
<1>2. CASE \E t \in AtTimes : Adds(h, i, FALSE, t, t)
  <2>1. AtTimes \subseteq Times /\ AtTimes \subseteq Nat
    BY ScheduleAssumption DEF Times
  <2> QED BY <1>2, <2>1, AddsBase
<1>3. CASE \E n \in Counts, u \in Units : Adds(h, i, TRUE, Interval(n, u), n * u)
  <2>1. PICK n \in Counts, u \in Units : Adds(h, i, TRUE, Interval(n, u), n * u)
    BY <1>3
  <2>2. n * u \in Nat
    BY ScheduleAssumption
  <2>3. Interval(n, u) \in Times
    BY <2>2, ScheduleAssumption DEF Interval, Times
  <2> QED BY <2>1, <2>2, <2>3, AddsBase
<1> QED BY <1>1, <1>2, <1>3

LEMMA CancelBase == ASSUME BaseInv, NEW h \in Handlers, Cancel(h) PROVE BaseInv'
<1> USE DEF BaseInv
<1>1. PICK s \in Sessions, i \in seen.acked :
        /\ i \in IdsOf(file[s].entries)
        /\ Begin(h, s, i, {i}, Without(file[s].entries, i))
        /\ UNCHANGED <<now, file, pass, asked, seen>>
  BY DEF Cancel
<1>2. h \in Actors /\ h # Loop
  BY ScheduleAssumption DEF Actors
<1> DEFINE entries == Without(file[s].entries, i)
<1>3. entries \in SUBSET Entries /\ i \in Ids /\ i \in seen.known
  BY DEF TypeOK, Without, HistoryOK
<1>4. Becomes(h, "cut", s, i, entries, {i})
  BY <1>1, <1>2, <1>3, BeginBecomes
<1>5. /\ \A e \in entries : e.id \in seen.known /\ e.every = asked[e.id].every
      /\ Distinct(entries) /\ {i} \cap IdsOf(entries) = {}
  BY DEF HistoryOK, Known, TypeOK, Without, Distinct, IdsOf
<1> HIDE DEF entries
<1>6. ActorsOK'
  BY <1>1, <1>2, <1>3, <1>4, <1>5, ActorMoves DEF Becomes, Rewriting
<1>7. HistoryOK'
  BY <1>1 DEF HistoryOK, Known
<1>8. TypeOK'
  <2>1. \A a \in Actors : actor'[a].stage \in {"fire", "spin"} => actor'[a].sess \in Sessions
    BY <1>4 DEF TypeOK, Becomes
  <2>2. FilesTyped'
    BY <1>1, FilesAre DEF FilesTyped
  <2> QED BY <1>1, <1>6, <2>1, <2>2, FilesAre, Typed DEF TypeOK
<1> QED BY <1>6, <1>7, <1>8

(* Of the times that lie ahead there is a first.                           *)
LEMMA LeastNat ==
  ASSUME NEW T \in SUBSET Nat, T # {}
  PROVE  \E x \in T : \A y \in T : x <= y
<1> DEFINE R == {ss \in Nat \X Nat : ss[1] < ss[2]}
<1>1. IsWellFoundedOn(R, Nat)
  BY NatLessThanWellFounded DEF OpToRel
<1> HIDE DEF R
<1>3. PICK x \in T : \A y \in T : ~(<<y, x>> \in R)
  BY <1>1, WFMin
<1>4. \A y \in T : y < x => <<y, x>> \in R
  BY DEF R
<1>5. \A y \in T : ~(y < x)
  BY <1>3, <1>4, Zenon
<1>6. \A y \in T : x <= y
  BY <1>5
<1> QED BY <1>6

LEMMA AheadIsFirst ==
  ASSUME TypeOK, NEW e \in Entries, StepsAhead(e) # {}
  PROVE  \E k \in StepsAhead(e) :
           /\ \A j \in StepsAhead(e) : k <= j
           /\ NextAhead(e) = (e.next + k * e.interval) % Top
           /\ NextAhead(e) > pass.now /\ NextAhead(e) \in Times
<1>1. StepsAhead(e) \in SUBSET Nat
  BY ScheduleAssumption DEF StepsAhead
<1>2. \E k \in StepsAhead(e) : \A j \in StepsAhead(e) : k <= j
  BY <1>1, LeastNat
<1> DEFINE k == CHOOSE k \in StepsAhead(e) : \A j \in StepsAhead(e) : k <= j
<1>3. k \in StepsAhead(e) /\ \A j \in StepsAhead(e) : k <= j
  BY <1>2
<1>4. NextAhead(e) = (e.next + k * e.interval) % Top
  BY DEF NextAhead
<1> HIDE DEF k
<1>5. NextAhead(e) > pass.now
  BY <1>3, <1>4 DEF StepsAhead
<1>6. NextAhead(e) \in Times
  <2>1. k \in Nat /\ e.next \in Nat /\ e.interval \in Nat
    BY <1>1, <1>3 DEF Entries, Times
  <2>2. e.next + k * e.interval \in Int
    BY <2>1
  <2> QED BY <1>4, <2>2, ScheduleAssumption DEF Times
<1> QED BY <1>3, <1>4, <1>5, <1>6

(* What the loop writes back after it took what is due.                    *)
Left(s) ==
  (file[s].entries \ DueOf(s)) \cup {Advanced(e) : e \in {d \in DueOf(s) : StaysAfterFiring(d)}}

LEMMA AdvancedIs ==
  ASSUME TypeOK, NEW s \in Sessions, ~Spins(s), NEW e \in DueOf(s), e.every
  PROVE  /\ Advanced(e) \in Entries
         /\ Advanced(e).id = e.id /\ Advanced(e).every = e.every
         /\ Advanced(e).interval = e.interval /\ Advanced(e).next = NextAhead(e)
         /\ StepsAhead(e) # {} /\ e \in Entries
<1>1. e \in Entries /\ StepsAhead(e) # {}
  BY DEF DueOf, TypeOK, Spins
<1>2. NextAhead(e) \in Times
  BY <1>1, AheadIsFirst
<1>3. Advanced(e) = [e EXCEPT !.next = NextAhead(e)]
  BY DEF Advanced
<1> QED BY <1>1, <1>2, <1>3 DEF Entries

LEMMA LeftIs ==
  ASSUME TypeOK, NEW s \in Sessions, ~Spins(s)
  PROVE  /\ Left(s) \in SUBSET Entries /\ Distinct(Left(s))
         /\ IdsOf(DueOf(s)) \subseteq Ids
         /\ \A e \in Left(s) : \E d \in file[s].entries : e.id = d.id /\ e.every = d.every
         /\ \A e \in file[s].entries :
              e.id \in IdsOf(Left(s)) <=> e \notin DueOf(s) \/ e.every
<1>1. DueOf(s) \subseteq file[s].entries /\ file[s].entries \subseteq Entries
  BY DEF DueOf, TypeOK
<1>2. \A e \in Left(s) : \E d \in file[s].entries :
        /\ e.id = d.id /\ e.every = d.every /\ e \in Entries
        /\ \/ e = d /\ d \notin DueOf(s)
           \/ d \in DueOf(s) /\ d.every /\ e = Advanced(d)
  BY <1>1, AdvancedIs DEF Left, StaysAfterFiring
<1>3. \A d1, d2 \in file[s].entries : d1.id = d2.id => d1 = d2
  BY DEF TypeOK
<1>4. Distinct(Left(s))
  BY <1>2, <1>3 DEF Distinct
<1>5. \A e \in file[s].entries : e \notin DueOf(s) \/ e.every => e.id \in IdsOf(Left(s))
  <2> SUFFICES ASSUME NEW e \in file[s].entries, e \notin DueOf(s) \/ e.every
               PROVE  e.id \in IdsOf(Left(s))
    OBVIOUS
  <2>1. CASE e \notin DueOf(s)
    BY <2>1 DEF Left, IdsOf
  <2>2. CASE e \in DueOf(s) /\ e.every
    <3>1. Advanced(e) \in Left(s) /\ Advanced(e).id = e.id
      BY <2>2, AdvancedIs DEF Left, StaysAfterFiring
    <3> QED BY <3>1 DEF IdsOf
  <2> QED BY <2>1, <2>2
<1>6. \A e \in file[s].entries : e.id \in IdsOf(Left(s)) => e \notin DueOf(s) \/ e.every
  BY <1>2, <1>3 DEF IdsOf
<1>7. IdsOf(DueOf(s)) \subseteq Ids
  BY <1>1 DEF IdsOf, Entries
<1> QED BY <1>2, <1>4, <1>5, <1>6, <1>7

(* What a pass does of one session: nothing, takes what is due, or spins.  *)
LEMMA TakeCases ==
  ASSUME BaseInv, NEW s \in Sessions, TakeDue(s)
  PROVE  \/ UNCHANGED actor
         \/ ~Spins(s) /\ Becomes(Loop, "cut", s, NoId, Left(s), IdsOf(DueOf(s)))
         \/ Becomes(Loop, "spin", s, NoId, {}, {})
<1> USE DEF BaseInv
<1>1. Loop \in Actors
  BY DEF Actors
<1>2. CASE ~Spins(s) /\ Begin(Loop, s, NoId, IdsOf(DueOf(s)), Left(s))
  BY <1>1, <1>2, LeftIs, BeginBecomes
<1>3. CASE actor' = [actor EXCEPT ![Loop] = [Resting EXCEPT !.stage = "spin", !.sess = s]]
  <2> DEFINE stuck == [Resting EXCEPT !.stage = "spin", !.sess = s]
  <2>1. Resting \in ActorType /\ Resting.id = NoId /\ Resting.entries = {} /\ Resting.due = {}
    BY RestingType DEF Resting
  <2>2. /\ stuck \in ActorType /\ stuck.stage = "spin" /\ stuck.sess = s
        /\ stuck.id = NoId /\ stuck.entries = {} /\ stuck.due = {}
    BY <2>1 DEF ActorType, Stages
  <2>3. actor' = [actor EXCEPT ![Loop] = stuck]
    BY <1>3
  <2> HIDE DEF stuck
  <2> QED BY <1>1, <2>2, <2>3 DEF ActorsOK, Becomes
<1> QED BY <1>2, <1>3 DEF TakeDue, Left

LEMMA TakeBase == ASSUME BaseInv, NEW s \in Sessions, TakeDue(s) PROVE BaseInv'
<1> USE DEF BaseInv
<1>1. /\ PassWithout(s) /\ UNCHANGED <<now, file, asked, seen>>
      /\ Loop \in Actors
  BY DEF TakeDue, Actors
<1>2. ActorsOK'
  <2>1. CASE UNCHANGED actor
    BY <1>1, <2>1 DEF ActorsOK, Known, Rewriting
  <2>2. CASE ~Spins(s) /\ Becomes(Loop, "cut", s, NoId, Left(s), IdsOf(DueOf(s)))
    <3>1. \A e \in Left(s) : e.id \in seen.known /\ e.every = asked[e.id].every
      BY <2>2, LeftIs DEF HistoryOK, Known
    <3>2. \A i \in IdsOf(DueOf(s)) : i \in seen.known /\ (asked[i].every <=> i \in IdsOf(Left(s)))
      BY <2>2, LeftIs DEF HistoryOK, Known, IdsOf, DueOf
    <3>3. Distinct(Left(s)) /\ IdsOf(DueOf(s)) \subseteq seen.known
      BY <2>2, <3>2, LeftIs
    <3> QED BY <1>1, <2>2, <3>1, <3>2, <3>3, ActorMoves DEF Becomes, Rewriting
  <2>3. CASE Becomes(Loop, "spin", s, NoId, {}, {})
    BY <1>1, <2>3, ActorMoves DEF Becomes, Rewriting, Distinct
  <2> QED BY <2>1, <2>2, <2>3, TakeCases
<1>3. HistoryOK'
  BY <1>1 DEF HistoryOK, Known
<1>4. TypeOK'
  <2>1. \A a \in Actors : actor'[a].stage \in {"fire", "spin"} => actor'[a].sess \in Sessions
    BY TakeCases DEF TypeOK, Becomes
  <2>2. FilesTyped'
    BY <1>1, FilesAre DEF FilesTyped
  <2>3. pass' \in [todo : SUBSET Sessions, now : 0..MaxTime]
    BY <1>1, ScheduleAssumption DEF TypeOK, PassWithout, NoPass
  <2> QED BY <1>1, <1>2, <2>1, <2>2, <2>3, FilesAre, Typed DEF TypeOK
<1> QED BY <1>2, <1>3, <1>4

LEMMA FireBecomes ==
  ASSUME BaseInv, NEW i \in Ids, Fire(i)
  PROVE  /\ Loop \in Actors /\ actor[Loop].stage = "fire" /\ i \in actor[Loop].due
         /\ actor' \in [Actors -> ActorType]
         /\ \A b \in Actors \ {Loop} : actor'[b] = actor[b]
         /\ actor'[Loop].entries = {} /\ actor'[Loop].due = actor[Loop].due \ {i}
         /\ \/ actor'[Loop].stage = "idle" /\ actor'[Loop].due = {}
            \/ actor'[Loop].stage = "fire" /\ actor'[Loop].sess = actor[Loop].sess
<1> USE DEF BaseInv
<1>1. Loop \in Actors /\ actor \in [Actors -> ActorType] /\ actor[Loop] \in ActorType
      /\ actor[Loop].stage = "fire" /\ i \in actor[Loop].due
      /\ actor[Loop].entries = {}
  BY DEF Actors, ActorsOK, Fire, Rewriting
<1>2. CASE actor[Loop].due = {i}
  <2>1. actor' = [actor EXCEPT ![Loop] = Resting]
    BY <1>2 DEF Fire
  <2> QED BY <1>1, <1>2, <2>1, RestingType
<1>3. CASE actor[Loop].due # {i}
  <2>1. actor' = [actor EXCEPT ![Loop] = [actor[Loop] EXCEPT !.due = actor[Loop].due \ {i}]]
    BY <1>3 DEF Fire
  <2>2. [actor[Loop] EXCEPT !.due = actor[Loop].due \ {i}] \in ActorType
    BY <1>1 DEF ActorType
  <2> QED BY <1>1, <2>1, <2>2 DEF ActorType
<1> QED BY <1>2, <1>3

LEMMA FireSeen ==
  ASSUME BaseInv, NEW i \in Ids, Fire(i)
  PROVE  \/ seen' = seen
         \/ /\ seen' \in SeenType
            /\ seen'.known = seen.known /\ seen'.acked = seen.acked
            /\ seen'.cancelled = seen.cancelled /\ seen'.taken = seen.taken
            /\ seen'.raced = seen.raced /\ seen'.torn = seen.torn
            /\ seen'.fired = seen.fired \cup {i}
            /\ seen'.again = IF i \in seen.fired /\ ~asked[i].every THEN seen.again \cup {i}
                             ELSE seen.again
            /\ seen'.early = IF now < WantedAt(i) THEN seen.early \cup {i} ELSE seen.early
<1>1. seen \in SeenType
  BY FilesAre DEF BaseInv
<1> DEFINE again == IF i \in seen.fired /\ ~asked[i].every THEN seen.again \cup {i} ELSE seen.again
           early == IF now < WantedAt(i) THEN seen.early \cup {i} ELSE seen.early
<1>2. \/ seen' = seen
      \/ seen' = [seen EXCEPT !.fired = seen.fired \cup {i}, !.again = again, !.early = early]
  BY DEF Fire
<1>3. again \in SUBSET Ids /\ early \in SUBSET Ids
  BY <1>1 DEF SeenType
<1> HIDE DEF again, early
<1>4. CASE seen' = [seen EXCEPT !.fired = seen.fired \cup {i}, !.again = again, !.early = early]
  <2>1. /\ seen'.fired = seen.fired \cup {i} /\ seen'.again = again /\ seen'.early = early
    BY <1>1, <1>4 DEF SeenType
  <2>2. /\ seen'.known = seen.known /\ seen'.acked = seen.acked
        /\ seen'.cancelled = seen.cancelled /\ seen'.taken = seen.taken
        /\ seen'.raced = seen.raced /\ seen'.torn = seen.torn
    BY <1>1, <1>4 DEF SeenType
  <2>3. seen' \in SeenType
    BY <1>1, <1>3, <1>4 DEF SeenType
  <2> QED BY <2>1, <2>2, <2>3 DEF again, early
<1> QED BY <1>2, <1>4

LEMMA FireBase == ASSUME BaseInv, NEW i \in Ids, Fire(i) PROVE BaseInv'
<1> USE DEF BaseInv
<1>1. UNCHANGED <<now, file, pass, asked>>
  BY DEF Fire
<1>2. /\ seen' \in SeenType
      /\ seen'.known = seen.known /\ seen'.acked = seen.acked
      /\ seen'.cancelled = seen.cancelled /\ seen'.taken = seen.taken
      /\ seen'.fired \subseteq seen.fired \cup {i}
  BY FireSeen, FilesAre
<1>3. ActorsOK'
  <2>1. actor[Loop].due \subseteq seen.known /\ actor[Loop].due \subseteq seen.taken
    BY FireBecomes DEF ActorsOK
  <2>2. Distinct({})
    BY DEF Distinct
  <2> QED BY <1>1, <1>2, <2>1, <2>2, FireBecomes, ActorMoves DEF Rewriting
<1>4. HistoryOK'
  <2>1. i \in seen.taken
    BY FireBecomes DEF ActorsOK
  <2> QED BY <1>1, <1>2, <2>1 DEF HistoryOK, Known
<1>5. TypeOK'
  <2>1. \A a \in Actors : actor'[a].stage \in {"fire", "spin"} => actor'[a].sess \in Sessions
    BY FireBecomes DEF TypeOK
  <2>2. FilesTyped'
    BY <1>1, FilesAre DEF FilesTyped
  <2> QED BY <1>1, <1>2, <1>3, <2>1, <2>2, Typed DEF TypeOK
<1> QED BY <1>3, <1>4, <1>5

(* The file is cut to nothing.                                             *)
Truncated(a) ==
  /\ actor[a].stage = "cut" /\ actor[a].sess \in Sessions
  /\ actor' \in [Actors -> ActorType]
  /\ \A b \in Actors \ {a} : actor'[b] = actor[b]
  /\ actor'[a].stage = "write" /\ actor'[a].sess = actor[a].sess
  /\ actor'[a].id = actor[a].id
  /\ actor'[a].entries = actor[a].entries /\ actor'[a].due = actor[a].due
  /\ file' \in [Sessions -> [whole : BOOLEAN, entries : SUBSET Entries]]
  /\ \A s \in Sessions \ {actor[a].sess} : file'[s] = file[s]
  /\ ~file'[actor[a].sess].whole /\ file'[actor[a].sess].entries = {}
  /\ seen' \in SeenType
  /\ seen'.known = seen.known /\ seen'.acked = seen.acked
  /\ seen'.cancelled = seen.cancelled /\ seen'.taken = seen.taken
  /\ seen'.fired = seen.fired /\ seen'.again = seen.again /\ seen'.early = seen.early
  /\ seen'.torn = seen.torn
  /\ seen'.raced = IF Overlaps(a) THEN seen.raced \cup {actor[a].sess} ELSE seen.raced

LEMMA TruncateDoes ==
  ASSUME BaseInv, NEW a \in Actors, Truncate(a)
  PROVE  Truncated(a)
<1> USE DEF BaseInv
<1>1. actor \in [Actors -> ActorType] /\ actor[a].stage = "cut" /\ actor[a].sess \in Sessions
  BY DEF Truncate, ActorsOK, Rewriting
<1>2. /\ actor' \in [Actors -> ActorType]
      /\ \A b \in Actors \ {a} : actor'[b] = actor[b]
      /\ actor'[a].stage = "write" /\ actor'[a].sess = actor[a].sess
      /\ actor'[a].id = actor[a].id
      /\ actor'[a].entries = actor[a].entries /\ actor'[a].due = actor[a].due
  <2>1. actor' = [actor EXCEPT ![a] = [actor[a] EXCEPT !.stage = "write"]]
    BY DEF Truncate
  <2>2. [actor[a] EXCEPT !.stage = "write"] \in ActorType
    BY <1>1 DEF ActorType, Stages
  <2> QED BY <1>1, <2>1, <2>2 DEF ActorType
<1>3. /\ file' \in [Sessions -> [whole : BOOLEAN, entries : SUBSET Entries]]
      /\ \A s \in Sessions \ {actor[a].sess} : file'[s] = file[s]
      /\ ~file'[actor[a].sess].whole /\ file'[actor[a].sess].entries = {}
  BY <1>1 DEF Truncate, TypeOK
<1>4. seen \in SeenType
  BY FilesAre
<1> DEFINE raced == IF Overlaps(a) THEN seen.raced \cup {actor[a].sess} ELSE seen.raced
<1>5. seen' = [seen EXCEPT !.raced = raced] /\ raced \in SUBSET Sessions
  BY <1>1, <1>4 DEF Truncate, SeenType
<1> HIDE DEF raced
<1>6. /\ seen' \in SeenType
      /\ seen'.known = seen.known /\ seen'.acked = seen.acked
      /\ seen'.cancelled = seen.cancelled /\ seen'.taken = seen.taken
      /\ seen'.fired = seen.fired /\ seen'.again = seen.again /\ seen'.early = seen.early
      /\ seen'.torn = seen.torn /\ seen'.raced = raced
  BY <1>4, <1>5 DEF SeenType
<1> QED BY <1>1, <1>2, <1>3, <1>6 DEF raced, Truncated

LEMMA TruncateBase == ASSUME BaseInv, NEW a \in Actors, Truncate(a) PROVE BaseInv'
<1> USE DEF BaseInv
<1>1. UNCHANGED <<now, pass, asked>> /\ Truncated(a)
  BY TruncateDoes DEF Truncate
<1>2. ActorsOK'
  <2>1. a # Loop => a \in Handlers
    BY DEF Actors
  <2>2. \A e \in actor[a].entries : e.id \in seen.known /\ e.every = asked[e.id].every
    BY DEF ActorsOK, Known
  <2>3. /\ Distinct(actor[a].entries) /\ actor[a].due \subseteq seen.known
        /\ Rewriting(a) /\ Rewriting(a)'
    BY <1>1 DEF ActorsOK, Rewriting, Truncated
  <2> QED BY <1>1, <2>1, <2>2, <2>3, ActorMoves DEF ActorsOK, Truncated
<1>3. HistoryOK'
  <2>1. \A s \in Sessions : Known(file[s].entries)'
    BY <1>1 DEF HistoryOK, Known, Truncated
  <2> QED BY <1>1, <2>1 DEF HistoryOK, Truncated
<1>4. TypeOK'
  <2>1. \A b \in Actors : actor'[b].stage \in {"fire", "spin"} => actor'[b].sess \in Sessions
    BY <1>1 DEF TypeOK, Truncated
  <2>2. FilesTyped'
    <3>1. Distinct({})
      BY DEF Distinct
    <3> QED BY <1>1, <3>1, FilesAre DEF FilesTyped, Truncated
  <2> QED BY <1>1, <1>2, <2>1, <2>2, Typed DEF TypeOK, Truncated
<1> QED BY <1>2, <1>3, <1>4

(* The end of a rewrite, for its actor and in the history.                 *)
Finished(a) ==
  /\ actor' \in [Actors -> ActorType]
  /\ \A b \in Actors \ {a} : actor'[b] = actor[b]
  /\ actor'[a].entries = {}
  /\ a # Loop => actor'[a].stage = "idle" /\ actor'[a].due = {}
  /\ a = Loop => /\ actor'[a].stage = "fire" /\ actor'[a].due = actor[a].due
                 /\ actor'[a].sess = actor[a].sess
  /\ seen' \in SeenType
  /\ seen'.known = seen.known /\ seen'.raced = seen.raced /\ seen'.torn = seen.torn
  /\ seen'.fired = seen.fired /\ seen'.again = seen.again /\ seen'.early = seen.early
  /\ seen'.acked = IF a # Loop /\ actor[a].due = {} THEN seen.acked \cup {actor[a].id}
                   ELSE seen.acked
  /\ seen'.cancelled = IF a # Loop THEN seen.cancelled \cup actor[a].due ELSE seen.cancelled
  /\ seen'.taken = IF a = Loop THEN seen.taken \cup actor[a].due ELSE seen.taken

LEMMA DoneDoes ==
  ASSUME BaseInv, NEW a \in Actors, actor[a].stage = "write", Done(a)
  PROVE  Finished(a)
<1> USE DEF BaseInv
<1>1. actor \in [Actors -> ActorType] /\ actor[a] \in ActorType
  BY DEF ActorsOK
<1>2. /\ actor' \in [Actors -> ActorType]
      /\ \A b \in Actors \ {a} : actor'[b] = actor[b]
      /\ actor'[a].entries = {}
      /\ a # Loop => actor'[a].stage = "idle" /\ actor'[a].due = {}
      /\ a = Loop => /\ actor'[a].stage = "fire" /\ actor'[a].due = actor[a].due
                     /\ actor'[a].sess = actor[a].sess
  <2>1. CASE a # Loop
    <3>1. actor' = [actor EXCEPT ![a] = Resting]
      BY <2>1 DEF Done
    <3> QED BY <1>1, <2>1, <3>1, RestingType
  <2>2. CASE a = Loop
    <3> DEFINE fires == [actor[a] EXCEPT !.stage = "fire", !.entries = {}]
    <3>1. /\ fires \in ActorType /\ fires.entries = {} /\ fires.stage = "fire"
          /\ fires.due = actor[a].due /\ fires.sess = actor[a].sess
      BY <1>1 DEF ActorType, Stages
    <3>2. actor' = [actor EXCEPT ![a] = fires]
      BY <2>2 DEF Done
    <3> HIDE DEF fires
    <3> QED BY <1>1, <2>2, <3>1, <3>2
  <2> QED BY <2>1, <2>2
<1>3. seen \in SeenType /\ actor[a].due \subseteq Ids /\ (a # Loop => actor[a].id \in Ids)
  <2>1. a # Loop => a \in Handlers
    BY DEF Actors
  <2> QED BY <1>1, <2>1, FilesAre DEF ActorsOK, ActorType, Rewriting, TypeOK
<1> DEFINE acked == IF a # Loop /\ actor[a].due = {} THEN seen.acked \cup {actor[a].id} ELSE seen.acked
           cancelled == IF a # Loop THEN seen.cancelled \cup actor[a].due ELSE seen.cancelled
           taken == IF a = Loop THEN seen.taken \cup actor[a].due ELSE seen.taken
<1>4. seen' = [seen EXCEPT !.acked = acked, !.cancelled = cancelled, !.taken = taken]
  BY DEF Done
<1>5. acked \in SUBSET Ids /\ cancelled \in SUBSET Ids /\ taken \in SUBSET Ids
  BY <1>3 DEF SeenType
<1> HIDE DEF acked, cancelled, taken
<1>6. seen'.acked = acked /\ seen'.cancelled = cancelled /\ seen'.taken = taken
  BY <1>3, <1>4 DEF SeenType
<1>7. /\ seen'.known = seen.known /\ seen'.raced = seen.raced /\ seen'.torn = seen.torn
      /\ seen'.fired = seen.fired /\ seen'.again = seen.again /\ seen'.early = seen.early
  BY <1>3, <1>4 DEF SeenType
<1>8. seen' \in SeenType
  BY <1>3, <1>4, <1>5 DEF SeenType
<1> QED BY <1>2, <1>6, <1>7, <1>8 DEF acked, cancelled, taken, Finished

(* ... and in the file.                                                    *)
Written(a) ==
  /\ actor[a].stage = "write" /\ actor[a].sess \in Sessions /\ Done(a)
  /\ UNCHANGED <<now, pass, asked>>
  /\ file' \in [Sessions -> [whole : BOOLEAN, entries : SUBSET Entries]]
  /\ \A s \in Sessions \ {actor[a].sess} : file'[s] = file[s]
  /\ \/ file'[actor[a].sess].whole /\ file'[actor[a].sess].entries = actor[a].entries
     \/ /\ Overlaps(a) \/ file[actor[a].sess].whole
        /\ file'[actor[a].sess].entries = {}

LEMMA WriteDoes ==
  ASSUME BaseInv, NEW a \in Actors, Write(a)
  PROVE  Written(a)
<1>1. actor[a].stage = "write" /\ actor[a].sess \in Sessions /\ actor[a].entries \in SUBSET Entries
  BY DEF BaseInv, Write, ActorsOK, ActorType, Rewriting
<1>2. Done(a) /\ UNCHANGED <<now, pass, asked>>
  BY DEF Write
<1>3. CASE file' = [file EXCEPT ![actor[a].sess] = [whole |-> TRUE, entries |-> actor[a].entries]]
  BY <1>1, <1>2, <1>3 DEF BaseInv, TypeOK, Written
<1>4. CASE /\ Overlaps(a) \/ file[actor[a].sess].whole
           /\ file' = [file EXCEPT ![actor[a].sess] = [whole |-> FALSE, entries |-> {}]]
  BY <1>1, <1>2, <1>4 DEF BaseInv, TypeOK, Written
<1> QED BY <1>3, <1>4 DEF Write

LEMMA WriteBase == ASSUME BaseInv, NEW a \in Actors, Write(a) PROVE BaseInv'
<1> USE DEF BaseInv
<1>1. Written(a) /\ Finished(a)
  BY WriteDoes, DoneDoes DEF Written
<1>2. ActorsOK'
  <2>1. a # Loop => a \in Handlers
    BY DEF Actors
  <2>2. Distinct({}) /\ ~Rewriting(a)' /\ actor[a].due \subseteq seen.known
    BY <1>1 DEF Distinct, ActorsOK, Rewriting, Written, Finished
  <2>3. /\ seen.known \subseteq seen'.known /\ seen.taken \subseteq seen'.taken
        /\ \A i \in seen.known : asked'[i] = asked[i]
    BY <1>1 DEF Written, Finished
  <2>4. /\ actor'[a].entries = {} /\ actor'[a].due \subseteq seen'.known
        /\ actor' \in [Actors -> ActorType] /\ \A b \in Actors \ {a} : actor'[b] = actor[b]
    BY <1>1, <2>2 DEF Finished
  <2>5. /\ a # Loop => actor'[a].stage \in {"idle", "cut", "write"}
        /\ a = Loop => actor'[a].stage = "fire" /\ actor'[a].due \subseteq seen'.taken
    BY <1>1 DEF Finished
  <2> QED BY <2>2, <2>3, <2>4, <2>5, ActorMoves
<1>3. HistoryOK'
  <2>1. Known(actor[a].entries) /\ actor[a].due \subseteq seen.known
    BY DEF ActorsOK
  <2>2. a # Loop => actor[a].id \in seen.known
    <3>1. a # Loop => a \in Handlers /\ Rewriting(a)
      BY <1>1 DEF Actors, Rewriting, Written
    <3> QED BY <3>1 DEF ActorsOK
  <2>3. \A s \in Sessions : Known(file[s].entries)'
    BY <1>1, <2>1 DEF HistoryOK, Known, Written, Finished
  <2> QED BY <1>1, <2>1, <2>2, <2>3 DEF HistoryOK, Written, Finished
<1>4. TypeOK'
  <2>1. \A b \in Actors : actor'[b].stage \in {"fire", "spin"} => actor'[b].sess \in Sessions
    BY <1>1 DEF TypeOK, Written, Finished
  <2>2. FilesTyped'
    <3>1. Distinct({}) /\ Distinct(actor[a].entries)
      BY DEF Distinct, ActorsOK
    <3> QED BY <1>1, <3>1, FilesAre DEF FilesTyped, Written, Finished
  <2> QED BY <1>1, <1>2, <2>1, <2>2, Typed DEF TypeOK, Written, Finished
<1> QED BY <1>2, <1>3, <1>4

(* Everyone rests again, and files that were cut stay so.                  *)
Crashed ==
  /\ \A a \in Actors : actor'[a] = Resting
  /\ actor' \in [Actors -> ActorType] /\ pass' = NoPass
  /\ UNCHANGED <<now, file, asked>>
  /\ seen' \in SeenType
  /\ seen'.known = seen.known /\ seen'.acked = seen.acked
  /\ seen'.cancelled = seen.cancelled /\ seen'.taken = seen.taken
  /\ seen'.fired = seen.fired /\ seen'.again = seen.again /\ seen'.early = seen.early
  /\ seen'.raced = seen.raced
  /\ seen'.torn = seen.torn \cup {s \in Sessions : ~CanRead(s)}

LEMMA CrashDoes ==
  ASSUME BaseInv, Crash
  PROVE  Crashed
<1>1. actor' = [a \in Actors |-> Resting] /\ pass' = NoPass /\ UNCHANGED <<now, file, asked>>
  BY DEF Crash
<1>2. seen \in SeenType
  BY FilesAre DEF BaseInv
<1> DEFINE torn == seen.torn \cup {s \in Sessions : ~CanRead(s)}
<1>3. seen' = [seen EXCEPT !.crashes = seen.crashes + 1, !.torn = torn]
  BY DEF Crash
<1>4. torn \in SUBSET Sessions /\ seen.crashes + 1 \in 0..MaxCrashes
  BY <1>2, ScheduleAssumption DEF Crash, SeenType
<1> HIDE DEF torn
<1>5. seen' \in SeenType
  BY <1>2, <1>3, <1>4 DEF SeenType
<1>6. /\ seen'.known = seen.known /\ seen'.acked = seen.acked
      /\ seen'.cancelled = seen.cancelled /\ seen'.taken = seen.taken
      /\ seen'.fired = seen.fired /\ seen'.again = seen.again /\ seen'.early = seen.early
      /\ seen'.raced = seen.raced /\ seen'.torn = torn
  BY <1>2, <1>3 DEF SeenType
<1> QED BY <1>1, <1>5, <1>6, RestingType DEF torn, Crashed

LEMMA CrashBase == ASSUME BaseInv, Crash PROVE BaseInv'
<1> USE DEF BaseInv
<1>1. ActorsOK'
  <2>1. \A a \in Actors : /\ actor'[a].stage = "idle" /\ actor'[a].entries = {}
                          /\ actor'[a].due = {} /\ ~Rewriting(a)'
    BY CrashDoes, RestingType DEF Crashed, Rewriting
  <2>2. Loop \in Actors /\ Handlers \subseteq Actors
    BY DEF Actors
  <2> QED BY <2>1, <2>2, CrashDoes DEF Crashed, ActorsOK, Distinct, Known
<1>2. HistoryOK'
  BY CrashDoes DEF Crashed, HistoryOK, Known
<1>3. TypeOK'
  <2>1. \A a \in Actors : actor'[a].stage \notin {"fire", "spin"}
    BY CrashDoes, RestingType DEF Crashed
  <2>2. FilesTyped'
    BY CrashDoes, FilesAre DEF Crashed, FilesTyped
  <2>3. NoPass \in [todo : SUBSET Sessions, now : 0..MaxTime]
    BY ScheduleAssumption DEF NoPass
  <2> QED BY <1>1, <2>1, <2>2, <2>3, CrashDoes, Typed DEF Crashed, TypeOK
<1> QED BY <1>1, <1>2, <1>3

(* The clock, the start of a pass, and a file that cannot be read.         *)
LEMMA RestBase ==
  ASSUME BaseInv, \/ StartPass \/ Tick
                  \/ \E s \in Sessions : TakeFails(s)
  PROVE  BaseInv' /\ UNCHANGED <<file, actor, asked, seen>> /\ now <= now'
<1> USE DEF BaseInv
<1>1. UNCHANGED <<file, actor, asked, seen>>
  BY DEF StartPass, Tick, TakeFails
<1>2. now' \in 0..MaxTime /\ now <= now'
  BY ScheduleAssumption DEF TypeOK, StartPass, Tick, TakeFails
<1>3. pass' \in [todo : SUBSET Sessions, now : 0..MaxTime]
  BY ScheduleAssumption DEF TypeOK, StartPass, Tick, TakeFails, PassGoesOn, PassWithout, NoPass
<1>4. ActorsOK'
  BY <1>1 DEF ActorsOK, Known, Rewriting
<1>5. HistoryOK'
  BY <1>1 DEF HistoryOK, Known
<1>6. TypeOK'
  <2>1. \A b \in Actors : actor'[b].stage \in {"fire", "spin"} => actor'[b].sess \in Sessions
    BY <1>1 DEF TypeOK
  <2>2. FilesTyped'
    BY <1>1, FilesAre DEF FilesTyped
  <2> QED BY <1>1, <1>2, <1>3, <1>4, <2>1, <2>2, FilesAre, Typed DEF TypeOK
<1> QED BY <1>1, <1>2, <1>4, <1>5, <1>6

LEMMA InitBase == Init => BaseInv
<1> SUFFICES ASSUME Init PROVE BaseInv
  OBVIOUS
<1>1. \A a \in Actors : /\ actor[a] \in ActorType /\ actor[a].stage = "idle"
                        /\ actor[a].entries = {} /\ actor[a].due = {} /\ ~Rewriting(a)
  BY RestingType DEF Init, Rewriting
<1>2. Loop \in Actors /\ Handlers \subseteq Actors
  BY DEF Actors
<1>3. ActorsOK
  <2>1. actor \in [Actors -> ActorType]
    BY <1>1 DEF Init
  <2> QED BY <1>1, <1>2, <2>1 DEF ActorsOK, Distinct, Known
<1>4. HistoryOK
  BY DEF Init, HistoryOK, Known
<1>5. TypeOK
  <2>1. seen \in SeenType
    BY ScheduleAssumption DEF Init, SeenType
  <2>2. FilesTyped
    BY DEF Init, FilesTyped, Distinct
  <2>3. /\ now \in 0..MaxTime /\ pass \in [todo : SUBSET Sessions, now : 0..MaxTime]
        /\ asked \in [Ids -> [every : BOOLEAN, amount : Nat, at : 0..MaxTime]]
    BY ScheduleAssumption DEF Init, NoPass
  <2> QED BY <1>1, <2>1, <2>2, <2>3 DEF TypeOK, FilesTyped, Distinct, SeenType
<1> QED BY <1>3, <1>4, <1>5 DEF BaseInv

LEMMA BaseStep == BaseInv /\ [Next]_vars => BaseInv'
<1> SUFFICES ASSUME BaseInv, [Next]_vars PROVE BaseInv'
  OBVIOUS
<1>1. \A h \in Handlers : h \in Actors
  BY DEF Actors
<1>2. Loop \in Actors
  BY DEF Actors
<1>3. CASE \E a \in Actors : Truncate(a) \/ Write(a)
  BY <1>3, TruncateBase, WriteBase
<1>4. CASE \E h \in Handlers : Add(h) \/ Cancel(h)
  BY <1>4, AddBase, CancelBase
<1>5. CASE \/ StartPass \/ Tick
           \/ \E s \in Sessions : TakeFails(s)
  BY <1>5, RestBase
<1>6. CASE (\E s \in Sessions : TakeDue(s)) \/ (\E i \in Ids : Fire(i)) \/ Crash
  BY <1>6, TakeBase, FireBase, CrashBase
<1>7. CASE UNCHANGED vars
  BY <1>7 DEF vars, BaseInv, TypeOK, ActorsOK, HistoryOK, Known, Rewriting
<1> QED BY <1>1, <1>2, <1>3, <1>4, <1>5, <1>6, <1>7 DEF Next, LoopStep

(* Every schedules.json and every rewrite in hand is well-formed, and no   *)
(* two entries of a file share an id.                                      *)
THEOREM Typing == Spec => []TypeOK
<1>1. BaseInv => TypeOK
  BY DEF BaseInv
<1> QED BY <1>1, InitBase, BaseStep, PTL DEF Spec

-----------------------------------------------------------------------------
(* While no rewrites overlap, each action keeps the files in order.        *)

(* Steps that touch no file and no rewrite.                                *)
LEMMA QuietOrderly ==
  ASSUME BaseInv, Orderly, UNCHANGED <<file, asked>>,
         \A a \in Actors : /\ Rewriting(a)' <=> Rewriting(a)
                           /\ Rewriting(a) => actor'[a] = actor[a],
         seen'.acked = seen.acked, seen'.cancelled = seen.cancelled, seen'.taken = seen.taken,
         seen'.raced = seen.raced, seen'.torn = seen.torn, seen'.again = {},
         actor'[Loop].stage = "fire" => \A i \in actor'[Loop].due \cap seen'.fired : asked[i].every
  PROVE  Orderly'
<1>1. \A a \in Actors : /\ actor'[a].stage = "write" <=> actor[a].stage = "write"
                        /\ actor'[a].stage = "cut" <=> actor[a].stage = "cut"
  BY DEF Rewriting
<1>2. Loop \in Actors
  BY DEF Actors
<1>3. Exclusive'
  BY <1>1 DEF Orderly, Exclusive, Rewriting
<1>4. Intact'
  BY <1>1 DEF Orderly, Intact, Rewriting
<1>5. \A s \in Sessions, i \in Ids : (At(s, i)' => At(s, i)) /\ (Listed(s, i)' => Listed(s, i))
  BY DEF At, Listed
<1>6. Placed'
  BY <1>5 DEF Orderly, Placed
<1>7. Removed' = Removed
  BY DEF Removed
<1>8. RemovedOK'
  BY <1>2, <1>5, <1>7 DEF Orderly, RemovedOK, Removed
<1>9. \A s \in Sessions, i \in Ids : Holds(s, i) => Holds(s, i)'
  BY <1>1 DEF Holds, Rewriting
<1>10. AckedAreKept'
  BY <1>9 DEF Orderly, AckedAreKept, Undisturbed, BaseInv, TypeOK
<1> QED BY <1>3, <1>4, <1>6, <1>8, <1>10 DEF Orderly

(* A rewrite begins from what the file has, or with a new id.              *)
LEMMA BeginOrderly ==
  ASSUME BaseInv, Orderly, NEW a \in Actors, NEW s \in Sessions, NEW id,
         NEW entries \in SUBSET Entries, NEW due \in SUBSET Ids,
         ~Rewriting(a), CanRead(s), Becomes(a, "cut", s, id, entries, due), file' = file,
         \A i \in seen.known : asked'[i] = asked[i],
         seen'.acked = seen.acked, seen'.cancelled = seen.cancelled, seen'.taken = seen.taken,
         seen'.raced = seen.raced, seen'.torn = seen.torn, seen'.again = seen.again,
         seen'.fired = seen.fired,
         IdsOf(file[s].entries) \subseteq IdsOf(entries) \cup due,
         \A i \in IdsOf(entries) \cup due : i \in IdsOf(file[s].entries) \/ i \notin seen.known,
         a = Loop => due \subseteq IdsOf(file[s].entries)
  PROVE  Orderly'
<1>1. /\ \A b \in Actors \ {a} : actor'[b] = actor[b]
      /\ actor'[a].stage = "cut" /\ actor'[a].sess = s
      /\ actor'[a].entries = entries /\ actor'[a].due = due
  BY DEF Becomes
<1>2. \A b \in Actors \ {a} : Rewriting(b)' <=> Rewriting(b)
  BY <1>1 DEF Rewriting
<1>3. /\ seen.acked \subseteq seen.known /\ seen.taken \cup seen.cancelled \subseteq seen.known
      /\ seen.fired \subseteq seen.known /\ \A b \in Actors : actor[b].due \subseteq seen.known
  BY DEF BaseInv, HistoryOK, ActorsOK
<1>4. Exclusive'
  BY <1>1, <1>2 DEF Orderly, Exclusive, CanRead
<1>5. Intact'
  BY <1>1, <1>2 DEF Orderly, Intact
<1>6. \A t \in Sessions, i \in Ids : At(t, i) => i \in seen.known
  BY DEF At, BaseInv, HistoryOK, ActorsOK, Known, IdsOf
<1>7. \A t \in Sessions, i \in Ids : At(t, i)' => At(t, i) \/ (t = s /\ i \notin seen.known)
  BY <1>1, <1>2 DEF At
<1>8. Placed'
  BY <1>6, <1>7 DEF Orderly, Placed
<1>9. Removed' = Removed /\ \A i \in Removed : i \in seen.known
  BY <1>3 DEF Removed
<1>10. \A t \in Sessions, i \in Ids : Listed(t, i)' => Listed(t, i) \/ i \notin seen.known
  BY <1>1, <1>2 DEF Listed
<1>11. RemovedOK'
  <2>1. \A t \in Sessions, i \in Removed' : ~Listed(t, i)'
    BY <1>9, <1>10 DEF Orderly, RemovedOK, Removed
  <2>2. Loop \in Actors
    BY DEF Actors
  <2>3. Rewriting(Loop)' => \A i \in actor'[Loop].due : asked'[i].every \/ i \notin seen'.taken
    <3>1. CASE a = Loop
      <4>1. \A i \in due : Listed(s, i) /\ i \in Ids
        BY <3>1 DEF Listed
      <4>2. \A i \in due : i \notin Removed
        BY <4>1 DEF Orderly, RemovedOK
      <4>3. \A i \in due : asked[i].every \/ i \notin seen.taken
        BY <4>1, <4>2 DEF Removed
      <4> QED BY <1>1, <1>3, <3>1, <4>3
    <3>2. CASE a # Loop
      BY <1>1, <1>2, <1>3, <2>2, <3>2 DEF Orderly, RemovedOK
    <3> QED BY <3>1, <3>2
  <2>4. actor'[Loop].stage = "fire" => \A i \in actor'[Loop].due \cap seen'.fired : asked'[i].every
    BY <1>1, <1>3, <2>2 DEF Orderly, RemovedOK
  <2> QED BY <2>1, <2>3, <2>4 DEF RemovedOK
<1>12. \A t \in Sessions, i \in Ids : Holds(t, i) => Holds(t, i)'
  BY <1>1, <1>2 DEF Holds, Rewriting
<1>13. AckedAreKept'
  BY <1>3, <1>12 DEF Orderly, AckedAreKept, Undisturbed, BaseInv, TypeOK
<1> QED BY <1>4, <1>5, <1>8, <1>11, <1>13 DEF Orderly

LEMMA AddsOrderly ==
  ASSUME BaseInv, Orderly, NEW h \in Handlers, NEW i \in Ids \ seen.known, NEW every \in BOOLEAN,
         NEW ms \in Times, NEW amount \in Nat, Adds(h, i, every, ms, amount)
  PROVE  Orderly'
<1> DEFINE new == [id |-> i, every |-> every, interval |-> ms, next |-> FirstFire(every, ms)]
<1>1. PICK s \in Sessions :
        /\ actor[h].stage = "idle" /\ CanRead(s)
        /\ Begin(h, s, i, {}, file[s].entries \cup {new})
  BY DEF Adds
<1>2. /\ asked' = [asked EXCEPT ![i] = [every |-> every, amount |-> amount,
                                        at |-> IF every THEN now ELSE 0]]
      /\ seen' = [seen EXCEPT !.known = @ \cup {i}]
      /\ UNCHANGED <<now, file, pass>>
  BY DEF Adds
<1>3. new \in Entries /\ new.id = i
  <2>1. FirstFire(every, ms) \in Times
    BY ScheduleAssumption DEF FirstFire, Times, BaseInv, TypeOK
  <2> QED BY <2>1 DEF Entries
<1> HIDE DEF new
<1> DEFINE entries == file[s].entries \cup {new}
<1>4. entries \in SUBSET Entries
  BY <1>3 DEF BaseInv, TypeOK
<1>5. h \in Actors /\ h # Loop
  BY ScheduleAssumption DEF Actors
<1>6. Becomes(h, "cut", s, i, entries, {})
  BY <1>1, <1>4, <1>5, BeginBecomes DEF BaseInv
<1>7. IdsOf(entries) = IdsOf(file[s].entries) \cup {i}
  BY <1>3 DEF IdsOf
<1>8. \A j \in seen.known : asked'[j] = asked[j]
  BY <1>2 DEF BaseInv, TypeOK
<1>9. /\ seen'.acked = seen.acked /\ seen'.cancelled = seen.cancelled
      /\ seen'.taken = seen.taken /\ seen'.raced = seen.raced /\ seen'.torn = seen.torn
      /\ seen'.again = seen.again /\ seen'.fired = seen.fired
  BY <1>2 DEF BaseInv, TypeOK
<1>10. ~Rewriting(h) /\ CanRead(s) /\ file' = file
  BY <1>1, <1>2 DEF Rewriting
<1> HIDE DEF entries
<1> QED BY <1>4, <1>5, <1>6, <1>7, <1>8, <1>9, <1>10, BeginOrderly

LEMMA CancelOrderly == ASSUME BaseInv, Orderly, NEW h \in Handlers, Cancel(h) PROVE Orderly'
<1>1. PICK s \in Sessions, i \in seen.acked :
        /\ actor[h].stage = "idle" /\ CanRead(s)
        /\ i \in IdsOf(file[s].entries)
        /\ Begin(h, s, i, {i}, Without(file[s].entries, i))
        /\ UNCHANGED <<now, file, pass, asked, seen>>
  BY DEF Cancel
<1> DEFINE entries == Without(file[s].entries, i)
<1>2. entries \in SUBSET Entries /\ i \in Ids
  BY DEF BaseInv, TypeOK, Without
<1>3. h \in Actors /\ h # Loop
  BY ScheduleAssumption DEF Actors
<1>4. Becomes(h, "cut", s, i, entries, {i})
  BY <1>1, <1>2, <1>3, BeginBecomes DEF BaseInv
<1>5. /\ IdsOf(file[s].entries) \subseteq IdsOf(entries) \cup {i}
      /\ IdsOf(entries) \subseteq IdsOf(file[s].entries)
  BY DEF IdsOf, Without
<1>6. ~Rewriting(h)
  BY <1>1 DEF Rewriting
<1> HIDE DEF entries
<1> QED BY <1>1, <1>2, <1>3, <1>4, <1>5, <1>6, BeginOrderly

LEMMA TakeOrderly == ASSUME BaseInv, Orderly, NEW s \in Sessions, TakeDue(s) PROVE Orderly'
<1>1. /\ actor[Loop].stage = "idle" /\ CanRead(s) /\ Loop \in Actors /\ ~Rewriting(Loop)
      /\ UNCHANGED <<now, file, asked, seen>>
  BY DEF TakeDue, Actors, Rewriting
<1>2. CASE UNCHANGED actor
  BY <1>1, <1>2, QuietOrderly DEF Orderly, Rewriting
<1>3. CASE ~Spins(s) /\ Becomes(Loop, "cut", s, NoId, Left(s), IdsOf(DueOf(s)))
  <2>1. Left(s) \in SUBSET Entries /\ IdsOf(DueOf(s)) \in SUBSET Ids
    BY <1>3, LeftIs DEF BaseInv
  <2>2. IdsOf(file[s].entries) \subseteq IdsOf(Left(s)) \cup IdsOf(DueOf(s))
    BY <1>3, LeftIs DEF BaseInv, IdsOf
  <2>3. IdsOf(DueOf(s)) \subseteq IdsOf(file[s].entries)
    BY DEF IdsOf, DueOf
  <2>4. IdsOf(Left(s)) \subseteq IdsOf(file[s].entries)
    BY <1>3, LeftIs DEF BaseInv, IdsOf
  <2> QED BY <1>1, <1>3, <2>1, <2>2, <2>3, <2>4, BeginOrderly
<1>4. CASE Becomes(Loop, "spin", s, NoId, {}, {})
  <2>1. \A a \in Actors : /\ Rewriting(a)' <=> Rewriting(a)
                          /\ Rewriting(a) => actor'[a] = actor[a]
    BY <1>1, <1>4 DEF Becomes, Rewriting
  <2>2. actor'[Loop].stage = "spin"
    BY <1>4 DEF Becomes
  <2> QED BY <1>1, <2>1, <2>2, QuietOrderly DEF Orderly
<1> QED BY <1>2, <1>3, <1>4, TakeCases

LEMMA FireOrderly == ASSUME BaseInv, Orderly, NEW i \in Ids, Fire(i) PROVE Orderly'
<1>1. UNCHANGED <<now, file, pass, asked>>
  BY DEF Fire
<1>2. /\ actor[Loop].stage = "fire" /\ i \in actor[Loop].due /\ Loop \in Actors
      /\ \A b \in Actors \ {Loop} : actor'[b] = actor[b]
      /\ actor'[Loop].due = actor[Loop].due \ {i}
      /\ actor'[Loop].stage \in {"idle", "fire"}
  BY FireBecomes
<1>3. \A a \in Actors : /\ Rewriting(a)' <=> Rewriting(a)
                        /\ Rewriting(a) => actor'[a] = actor[a]
  BY <1>2 DEF Rewriting
<1>4. \A j \in actor[Loop].due \cap seen.fired : asked[j].every
  BY <1>2 DEF Orderly, RemovedOK
<1>5. /\ seen'.acked = seen.acked /\ seen'.cancelled = seen.cancelled
      /\ seen'.taken = seen.taken /\ seen'.raced = seen.raced /\ seen'.torn = seen.torn
      /\ seen'.fired \subseteq seen.fired \cup {i}
  BY FireSeen
<1>6. seen'.again = {}
  BY <1>2, <1>4, FireSeen DEF Orderly
<1>7. \A j \in actor'[Loop].due \cap seen'.fired : asked[j].every
  BY <1>2, <1>4, <1>5
<1> QED BY <1>1, <1>3, <1>5, <1>6, <1>7, QuietOrderly

(* Whoever cuts the file to nothing holds what was in it.                  *)
LEMMA TruncateOrderly ==
  ASSUME BaseInv, Orderly, NEW a \in Actors, Truncate(a), seen'.raced = {}
  PROVE  Orderly'
<1>1. Truncated(a) /\ UNCHANGED <<now, pass, asked>>
  BY TruncateDoes DEF Truncate
<1> DEFINE s == actor[a].sess
<1>2. ~Overlaps(a)
  BY <1>1 DEF Truncated
<1>3. \A b \in Actors \ {a} : Rewriting(b) => actor[b].sess # s
  BY <1>2 DEF Overlaps, Rewriting
<1>4. /\ \A b \in Actors \ {a} : actor'[b] = actor[b] /\ (Rewriting(b)' <=> Rewriting(b))
      /\ Rewriting(a) /\ Rewriting(a)' /\ s \in Sessions
      /\ actor[a].stage = "cut" /\ actor'[a].stage = "write" /\ actor'[a].sess = s
      /\ actor'[a].entries = actor[a].entries /\ actor'[a].due = actor[a].due
      /\ \A t \in Sessions \ {s} : file'[t] = file[t]
      /\ ~file'[s].whole /\ file'[s].entries = {}
  BY <1>1 DEF Truncated, Rewriting
<1>5. /\ seen'.acked = seen.acked /\ seen'.cancelled = seen.cancelled
      /\ seen'.taken = seen.taken /\ seen'.torn = seen.torn /\ seen'.fired = seen.fired
      /\ seen'.again = {} /\ seen'.raced = seen.raced /\ asked' = asked
  BY <1>1, <1>2 DEF Truncated, Orderly
<1>6. \A b \in Actors : Rewriting(b) => actor[b].sess \in Sessions
  BY DEF BaseInv, ActorsOK
<1> HIDE DEF s
<1>7. Exclusive'
  BY <1>3, <1>4, <1>6 DEF Orderly, Exclusive, Rewriting
<1>8. Intact'
  BY <1>3, <1>4, <1>6 DEF Orderly, Intact, Rewriting
<1>9. IdsOf({}) = {}
  BY DEF IdsOf
<1>10. \A t \in Sessions, i \in Ids : (At(t, i)' => At(t, i)) /\ (Listed(t, i)' => Listed(t, i))
  <2>1. \A t \in Sessions : IdsOf(file'[t].entries) \subseteq IdsOf(file[t].entries)
    BY <1>4, <1>9
  <2>2. \A b \in Actors : /\ Rewriting(b)' <=> Rewriting(b)
                          /\ actor'[b].sess = actor[b].sess
                          /\ actor'[b].entries = actor[b].entries
                          /\ actor'[b].due = actor[b].due
    BY <1>4 DEF s
  <2> QED BY <2>1, <2>2 DEF At, Listed
<1>11. Placed'
  BY <1>10 DEF Orderly, Placed
<1>12. RemovedOK'
  <2>1. Removed' = Removed
    BY <1>5 DEF Removed
  <2>2. Loop \in Actors
    BY DEF Actors
  <2> QED BY <1>4, <1>5, <1>10, <2>1, <2>2 DEF Orderly, RemovedOK, Removed
<1>13. \A t \in Sessions, i \in Ids : Holds(t, i) => Holds(t, i)'
  <2> SUFFICES ASSUME NEW t \in Sessions, NEW i \in Ids, Holds(t, i) PROVE Holds(t, i)'
    OBVIOUS
  <2>1. CASE i \in IdsOf(file[t].entries) /\ t # s
    BY <1>4, <2>1 DEF Holds
  <2>2. CASE i \in IdsOf(file[t].entries) /\ t = s
    <3>1. i \in IdsOf(actor[a].entries) \cup actor[a].due
      BY <1>4, <2>2 DEF Orderly, Intact, s
    <3> QED BY <1>4, <2>2, <3>1 DEF Holds
  <2>3. CASE \E b \in Actors : /\ actor[b].stage = "write" /\ actor[b].sess = t
                               /\ i \in IdsOf(actor[b].entries) \cup actor[b].due
    <3>1. PICK b \in Actors : /\ actor[b].stage = "write" /\ actor[b].sess = t
                              /\ i \in IdsOf(actor[b].entries) \cup actor[b].due
      BY <2>3
    <3>2. b # a
      BY <1>4, <3>1
    <3> QED BY <1>4, <3>1, <3>2 DEF Holds
  <2> QED BY <2>1, <2>2, <2>3 DEF Holds
<1>14. AckedAreKept'
  BY <1>5, <1>13 DEF Orderly, AckedAreKept, Undisturbed, BaseInv, TypeOK
<1> QED BY <1>5, <1>7, <1>8, <1>11, <1>12, <1>14 DEF Orderly

(* What is written is what was in the file, but for what the rewrite is    *)
(* for.                                                                    *)
LEMMA WriteOrderly ==
  ASSUME BaseInv, Orderly, NEW a \in Actors, Write(a)
  PROVE  Orderly'
<1>1. Written(a) /\ Finished(a)
  BY WriteDoes, DoneDoes DEF Written
<1> DEFINE s == actor[a].sess
<1>2. /\ ~file[s].whole /\ file[s].entries = {}
      /\ \A b \in Actors \ {a} : Rewriting(b) => actor[b].sess # s
  BY <1>1 DEF Orderly, Exclusive, Written
<1>3. ~Overlaps(a)
  BY <1>2 DEF Overlaps, Rewriting
<1>4. /\ \A b \in Actors \ {a} : actor'[b] = actor[b] /\ (Rewriting(b)' <=> Rewriting(b))
      /\ Rewriting(a) /\ ~Rewriting(a)' /\ s \in Sessions
      /\ \A t \in Sessions \ {s} : file'[t] = file[t]
      /\ file'[s].whole /\ file'[s].entries = actor[a].entries
      /\ actor[a].stage = "write"
  BY <1>1, <1>2, <1>3 DEF Written, Finished, Rewriting
<1>5. /\ seen'.torn = seen.torn /\ seen'.fired = seen.fired
      /\ seen'.again = {} /\ seen'.raced = seen.raced /\ asked' = asked
      /\ seen'.acked = IF a # Loop /\ actor[a].due = {} THEN seen.acked \cup {actor[a].id}
                       ELSE seen.acked
      /\ seen'.cancelled = IF a # Loop THEN seen.cancelled \cup actor[a].due ELSE seen.cancelled
      /\ seen'.taken = IF a = Loop THEN seen.taken \cup actor[a].due ELSE seen.taken
  BY <1>1 DEF Written, Finished, Orderly
<1>6. \A b \in Actors : Rewriting(b) => actor[b].sess \in Sessions
  BY DEF BaseInv, ActorsOK
<1>7. Loop \in Actors /\ (a # Loop => a \in Handlers)
  BY DEF Actors
<1>8. /\ a # Loop => /\ actor[a].due = {} => actor[a].id \in IdsOf(actor[a].entries)
                     /\ actor[a].due \cap IdsOf(actor[a].entries) = {}
      /\ a = Loop => \A i \in actor[a].due : asked[i].every <=> i \in IdsOf(actor[a].entries)
  BY <1>4, <1>7 DEF BaseInv, ActorsOK
<1>9. /\ actor[a].due \subseteq Ids
      /\ \A i \in IdsOf(actor[a].entries) \cup actor[a].due : At(s, i)
      /\ \A i \in IdsOf(actor[a].entries) : Listed(s, i)
  BY <1>4 DEF BaseInv, TypeOK, At, Listed
<1> HIDE DEF s
<1>10. Exclusive'
  BY <1>2, <1>4, <1>6 DEF Orderly, Exclusive, Rewriting
<1>11. Intact'
  BY <1>2, <1>4, <1>6 DEF Orderly, Intact, Rewriting
<1>12. \A t \in Sessions, i \in Ids : (At(t, i)' => At(t, i)) /\ (Listed(t, i)' => Listed(t, i))
  BY <1>4, <1>9 DEF At, Listed
<1>13. Placed'
  BY <1>12 DEF Orderly, Placed
<1>14. \A t \in Sessions, i \in actor[a].due : Listed(t, i)' =>
         t = s /\ i \in IdsOf(actor[a].entries)
  <2> SUFFICES ASSUME NEW t \in Sessions, NEW i \in actor[a].due, Listed(t, i)'
               PROVE  t = s /\ i \in IdsOf(actor[a].entries)
    OBVIOUS
  <2>1. i \in Ids /\ At(s, i) /\ At(t, i)
    BY <1>9, <1>12 DEF Listed, At
  <2>2. t = s
    BY <1>4, <2>1 DEF Orderly, Placed
  <2>3. ~\E b \in Actors : Rewriting(b)' /\ actor'[b].sess = s
    BY <1>2, <1>4
  <2> QED BY <1>4, <2>2, <2>3 DEF Listed
<1>15. RemovedOK'
  <2>1. \A i \in Removed' : i \in Removed \/ (i \in actor[a].due /\ (a # Loop \/ ~asked[i].every))
    BY <1>5 DEF Removed
  <2>2. \A t \in Sessions, i \in Removed' : ~Listed(t, i)'
    <3> SUFFICES ASSUME NEW t \in Sessions, NEW i \in Removed', Listed(t, i)' PROVE FALSE
      OBVIOUS
    <3>1. CASE i \in Removed
      <4>1. i \in Ids /\ ~Listed(t, i)
        BY <3>1 DEF Orderly, RemovedOK, Removed
      <4> QED BY <1>12, <4>1
    <3>2. CASE i \in actor[a].due /\ (a # Loop \/ ~asked[i].every)
      <4>1. i \in IdsOf(actor[a].entries)
        BY <1>14, <3>2
      <4> QED BY <1>8, <3>2, <4>1
    <3> QED BY <2>1, <3>1, <3>2
  <2>3. Rewriting(Loop)' => \A i \in actor'[Loop].due : asked'[i].every \/ i \notin seen'.taken
    BY <1>4, <1>5, <1>7 DEF Orderly, RemovedOK
  <2>4. actor'[Loop].stage = "fire" => \A i \in actor'[Loop].due \cap seen'.fired : asked'[i].every
    <3>1. CASE a = Loop
      <4>1. actor'[Loop].due = actor[a].due
        BY <1>1, <3>1 DEF Finished
      <4>2. \A i \in actor[a].due : asked[i].every \/ i \notin seen.taken
        BY <1>4, <3>1 DEF Orderly, RemovedOK
      <4>3. seen.fired \subseteq seen.taken
        BY DEF BaseInv, HistoryOK
      <4> QED BY <1>5, <4>1, <4>2, <4>3
    <3>2. CASE a # Loop
      BY <1>4, <1>5, <1>7, <3>2 DEF Orderly, RemovedOK
    <3> QED BY <3>1, <3>2
  <2> QED BY <2>2, <2>3, <2>4 DEF RemovedOK
<1>16. \A t \in Sessions, i \in Ids : Holds(t, i) =>
         Holds(t, i)' \/ (i \in actor[a].due /\ i \notin IdsOf(actor[a].entries))
  <2> SUFFICES ASSUME NEW t \in Sessions, NEW i \in Ids, Holds(t, i)
               PROVE  Holds(t, i)' \/ (i \in actor[a].due /\ i \notin IdsOf(actor[a].entries))
    OBVIOUS
  <2>1. CASE i \in IdsOf(file[t].entries)
    <3>1. t # s
      BY <1>2, <2>1 DEF IdsOf
    <3> QED BY <1>4, <2>1, <3>1 DEF Holds
  <2>2. CASE \E b \in Actors : /\ actor[b].stage = "write" /\ actor[b].sess = t
                               /\ i \in IdsOf(actor[b].entries) \cup actor[b].due
    <3>1. PICK b \in Actors : /\ actor[b].stage = "write" /\ actor[b].sess = t
                              /\ i \in IdsOf(actor[b].entries) \cup actor[b].due
      BY <2>2
    <3>2. CASE b = a
      BY <1>4, <3>1, <3>2 DEF Holds, s
    <3>3. CASE b # a
      BY <1>4, <3>1, <3>3 DEF Holds
    <3> QED BY <3>2, <3>3
  <2> QED BY <2>1, <2>2 DEF Holds
<1>17. AckedAreKept'
  <2> SUFFICES ASSUME NEW i \in seen'.acked \ seen'.cancelled,
                      (\A t \in Sessions : Undisturbed(t))',
                      asked'[i].every \/ i \notin seen'.taken
               PROVE  \E t \in Sessions : Holds(t, i)'
    BY DEF AckedAreKept
  <2>1. CASE i \in seen.acked
    <3>1. PICK t \in Sessions : Holds(t, i)
      BY <1>5, <2>1 DEF Orderly, AckedAreKept, Undisturbed
    <3>2. i \in Ids
      BY <2>1 DEF BaseInv, TypeOK
    <3>3. ~(i \in actor[a].due /\ i \notin IdsOf(actor[a].entries))
      BY <1>5, <1>8
    <3> QED BY <1>16, <3>1, <3>2, <3>3
  <2>2. CASE i \notin seen.acked
    BY <1>4, <1>5, <1>8, <2>2 DEF Holds
  <2> QED BY <2>1, <2>2
<1> QED BY <1>5, <1>10, <1>11, <1>13, <1>15, <1>17 DEF Orderly

(* A file that was cut when the supervisor died is torn, the others are as *)
(* they were.                                                              *)
LEMMA CrashOrderly == ASSUME BaseInv, Orderly, Crash PROVE Orderly'
<1>1. \A a \in Actors : actor'[a].stage = "idle" /\ ~Rewriting(a)'
  BY CrashDoes, RestingType DEF Crashed, Rewriting
<1>2. /\ UNCHANGED <<file, asked>> /\ Loop \in Actors
      /\ seen'.acked = seen.acked /\ seen'.cancelled = seen.cancelled
      /\ seen'.taken = seen.taken /\ seen'.again = {}
      /\ seen'.torn = seen.torn \cup {s \in Sessions : ~CanRead(s)} /\ seen'.raced = seen.raced
  BY CrashDoes DEF Crashed, Actors, Orderly
<1>3. Exclusive' /\ Intact'
  BY <1>1 DEF Exclusive, Intact
<1>4. \A t \in Sessions, i \in Ids : (At(t, i)' => At(t, i)) /\ (Listed(t, i)' => Listed(t, i))
  BY <1>1, <1>2 DEF At, Listed
<1>5. Placed'
  BY <1>4 DEF Orderly, Placed
<1>6. RemovedOK'
  <2>1. Removed' = Removed
    BY <1>2 DEF Removed
  <2> QED BY <1>1, <1>2, <1>4, <2>1 DEF Orderly, RemovedOK, Removed
<1>7. AckedAreKept'
  <2> SUFFICES ASSUME NEW i \in seen'.acked \ seen'.cancelled,
                      (\A t \in Sessions : Undisturbed(t))',
                      asked'[i].every \/ i \notin seen'.taken
               PROVE  \E t \in Sessions : Holds(t, i)'
    BY DEF AckedAreKept
  <2>1. \A t \in Sessions : Undisturbed(t) /\ file[t].whole
    BY <1>2 DEF Undisturbed, CanRead
  <2>2. PICK t \in Sessions : Holds(t, i)
    BY <1>2, <2>1 DEF Orderly, AckedAreKept
  <2>3. i \in IdsOf(file[t].entries)
    BY <2>1, <2>2 DEF Holds, Orderly, Exclusive
  <2> QED BY <1>2, <2>3 DEF Holds
<1> QED BY <1>2, <1>3, <1>5, <1>6, <1>7 DEF Orderly

LEMMA InitFiles == Init => FilesInv
<1> SUFFICES ASSUME Init PROVE FilesInv
  OBVIOUS
<1>1. \A a \in Actors : actor[a].stage = "idle" /\ ~Rewriting(a)
  BY RestingType DEF Init, Rewriting
<1>2. Loop \in Actors /\ seen.again = {} /\ seen.acked = {}
  BY DEF Actors, Init
<1>3. \A s \in Sessions, i \in Ids : ~At(s, i) /\ ~Listed(s, i)
  BY <1>1 DEF Init, At, Listed, IdsOf
<1>4. RemovedOK
  BY <1>1, <1>2, <1>3 DEF RemovedOK, Removed
<1> QED BY <1>1, <1>2, <1>3, <1>4, InitBase
        DEF FilesInv, Orderly, Exclusive, Intact, Placed, AckedAreKept

LEMMA FilesStep == FilesInv /\ [Next]_vars => FilesInv'
<1> SUFFICES ASSUME FilesInv, [Next]_vars, seen'.raced = {} PROVE Orderly'
  BY BaseStep DEF FilesInv
<1> USE DEF FilesInv
<1>1. \A h \in Handlers : h \in Actors
  BY DEF Actors
<1>2. Loop \in Actors
  BY DEF Actors
<1>3. ASSUME NEW a \in Actors, Truncate(a) \/ Write(a) PROVE Orderly'
  <2>1. CASE Truncate(a)
    <3>1. seen.raced = {}
      BY <2>1, TruncateDoes DEF Truncated
    <3> QED BY <2>1, <3>1, TruncateOrderly
  <2>2. CASE Write(a)
    <3>1. seen.raced = {}
      BY <2>2, WriteDoes, DoneDoes DEF Written, Finished
    <3> QED BY <2>2, <3>1, WriteOrderly
  <2> QED BY <1>3, <2>1, <2>2
<1>4. ASSUME NEW h \in Handlers, Add(h) PROVE Orderly'
  <2>1. seen' = [seen EXCEPT !.known = seen'.known] => seen.raced = {}
    BY DEF BaseInv, TypeOK
  <2>2. PICK i \in Ids \ seen.known :
          \/ \E t \in AtTimes : Adds(h, i, FALSE, t, t)
          \/ \E n \in Counts, u \in Units : Adds(h, i, TRUE, Interval(n, u), n * u)
    BY <1>4 DEF Add
  <2>3. seen.raced = {}
    BY <2>2 DEF Adds, BaseInv, TypeOK
  <2>4. CASE \E t \in AtTimes : Adds(h, i, FALSE, t, t)
    <3>1. AtTimes \subseteq Times /\ AtTimes \subseteq Nat
      BY ScheduleAssumption DEF Times
    <3> QED BY <2>3, <2>4, <3>1, AddsOrderly
  <2>5. CASE \E n \in Counts, u \in Units : Adds(h, i, TRUE, Interval(n, u), n * u)
    <3>1. PICK n \in Counts, u \in Units : Adds(h, i, TRUE, Interval(n, u), n * u)
      BY <2>5
    <3>2. n * u \in Nat
      BY ScheduleAssumption
    <3>3. Interval(n, u) \in Times
      BY <3>2, ScheduleAssumption DEF Interval, Times
    <3> QED BY <2>3, <3>1, <3>2, <3>3, AddsOrderly
  <2> QED BY <2>2, <2>4, <2>5
<1>5. ASSUME NEW h \in Handlers, Cancel(h) PROVE Orderly'
  BY <1>5, CancelOrderly DEF Cancel
<1>6. ASSUME NEW s \in Sessions, TakeDue(s) PROVE Orderly'
  BY <1>6, TakeOrderly DEF TakeDue
<1>7. ASSUME NEW i \in Ids, Fire(i) PROVE Orderly'
  BY <1>7, FireSeen, FireOrderly
<1>8. CASE Crash
  BY <1>8, CrashDoes, CrashOrderly DEF Crashed
<1>9. CASE \/ StartPass \/ Tick
           \/ \E s \in Sessions : TakeFails(s)
  <2>1. UNCHANGED <<file, actor, asked, seen>>
    BY <1>9, RestBase
  <2> QED BY <1>2, <2>1, QuietOrderly DEF Orderly, Rewriting, RemovedOK
<1>10. CASE UNCHANGED vars
  BY <1>2, <1>10, QuietOrderly DEF vars, Orderly, Rewriting, RemovedOK
<1> QED BY <1>1, <1>2, <1>3, <1>4, <1>5, <1>6, <1>7, <1>8, <1>9, <1>10 DEF Next, LoopStep

LEMMA FilesAlways == Spec => []FilesInv
BY InitFiles, FilesStep, PTL DEF Spec
-----------------------------------------------------------------------------
(* A schedule that was acknowledged is in a file, or with a rewrite of it, *)
(* until it is cancelled or, a Once, taken: through any number of adds,    *)
(* cancels, firings and restarts, unless rewrites overlapped or a restart  *)
(* tore a file.                                                            *)
THEOREM Kept == Spec => []AckedAreKept
<1>1. FilesInv => AckedAreKept
  <2> SUFFICES ASSUME FilesInv, NEW i \in seen.acked, \A s \in Sessions : Undisturbed(s),
                      ~AckedAreKept
               PROVE  FALSE
    BY DEF AckedAreKept
  <2>1. seen.raced = {}
    BY DEF Undisturbed, FilesInv, BaseInv, TypeOK
  <2> QED BY <2>1 DEF FilesInv, Orderly
<1> QED BY <1>1, FilesAlways, PTL

(* A Once fires at most once, restarts included, unless rewrites of a file *)
(* overlapped.                                                             *)
THEOREM FiredOnce == Spec => []OnceFiresOnce
<1>1. FilesInv => OnceFiresOnce
  BY DEF FilesInv, Orderly, OnceFiresOnce
<1> QED BY <1>1, FilesAlways, PTL

(* A step that lists a schedule as due finds it in a file, and what was    *)
(* cancelled is in none, unless rewrites overlapped.                       *)
THEOREM CancelledStaysOut == Spec => CancelledIsNotTaken
<1>1. FilesInv /\ [Next]_vars =>
        [\A i \in seen.cancelled :
           i \in actor'[Loop].due \ actor[Loop].due => seen.raced # {}]_vars
  <2> SUFFICES ASSUME FilesInv, Next, NEW i \in seen.cancelled, seen.raced = {},
                      i \in actor'[Loop].due, i \notin actor[Loop].due
               PROVE  FALSE
    BY DEF vars
  <2> USE DEF FilesInv
  <2>1. Loop \in Actors /\ Loop \notin Handlers /\ actor \in [Actors -> ActorType]
        /\ \A h \in Handlers : h \in Actors /\ h # Loop
    BY ScheduleAssumption DEF Actors, BaseInv, ActorsOK
  <2>2. CASE \E s \in Sessions : TakeDue(s)
    <3>1. PICK s \in Sessions : TakeDue(s)
      BY <2>2
    <3>2. i \in IdsOf(DueOf(s))
      BY <3>1, TakeCases DEF Becomes
    <3>3. Listed(s, i) /\ i \in Removed
      BY <3>2 DEF IdsOf, DueOf, Listed, Removed, BaseInv, TypeOK
    <3> QED BY <3>3 DEF Orderly, RemovedOK
  <2>3. CASE \E h \in Handlers : Add(h) \/ Cancel(h)
    <3>1. PICK h \in Handlers : Add(h) \/ Cancel(h)
      BY <2>3
    <3>2. \E t, id, due, entries : Begin(h, t, id, due, entries)
      BY <3>1 DEF Add, Adds, Cancel
    <3>3. actor'[Loop] = actor[Loop]
      BY <2>1, <3>2 DEF Begin
    <3> QED BY <3>3
  <2>4. CASE \E a \in Actors : Truncate(a)
    <3>1. actor'[Loop].due = actor[Loop].due
      BY ZenonT(30), <2>1, <2>4, TruncateDoes DEF Truncated
    <3> QED BY <3>1
  <2>5. CASE \E a \in Actors : Write(a)
    BY ZenonT(30), <2>1, <2>5, WriteDoes, DoneDoes DEF Written, Finished
  <2>6. CASE \E j \in Ids : Fire(j)
    BY <2>6, FireBecomes
  <2>7. CASE Crash
    BY <2>1, <2>7, CrashDoes, RestingType DEF Crashed
  <2>8. CASE \/ StartPass \/ Tick
             \/ \E s \in Sessions : TakeFails(s)
    BY <2>8 DEF StartPass, Tick, TakeFails
  <2> QED BY <2>1, <2>2, <2>3, <2>4, <2>5, <2>6, <2>7, <2>8 DEF Next, LoopStep
<1> QED BY <1>1, FilesAlways, PTL DEF Spec, CancelledIsNotTaken

-----------------------------------------------------------------------------
(* Times: what each action writes and lists is on time.                    *)

LEMMA StillOnTime ==
  ASSUME BaseInv, now' \in Nat, now <= now', NEW e \in Entries, asked'[e.id] = asked[e.id],
         OnTime(e), OnMultiple(e)
  PROVE  OnTime(e)' /\ OnMultiple(e)'
<1>1. e.id \in Ids /\ asked[e.id].amount \in Nat /\ now \in Nat
  BY ScheduleAssumption DEF BaseInv, TypeOK, Entries
<1>2. Overflows(e.id)' <=> Overflows(e.id)
  BY DEF Overflows
<1>3. WantedAt(e.id)' = WantedAt(e.id)
  BY DEF WantedAt
<1>4. Wraps(e.id) => Wraps(e.id)'
  BY <1>1, ScheduleAssumption DEF Wraps
<1>5. OnTime(e)'
  BY <1>2, <1>3 DEF OnTime
<1>6. OnMultiple(e)'
  BY <1>4 DEF OnMultiple
<1> QED BY <1>5, <1>6

(* An entry some file has, or someone is about to write.                   *)
InHand(e) ==
  \/ \E s \in Sessions : e \in file[s].entries
  \/ \E a \in Actors : e \in actor[a].entries

LEMMA TimesMove ==
  ASSUME TimesInv, BaseInv', now <= now', pass'.now <= now',
         \A i \in seen.known : asked'[i] = asked[i] /\ i \in seen'.known,
         \A s \in Sessions : \A e \in file'[s].entries : InHand(e),
         \A a \in Actors : \A e \in actor'[a].entries :
           InHand(e) \/ (OnTime(e)' /\ OnMultiple(e)'),
         \A i \in actor'[Loop].due :
           i \in actor[Loop].due \/ (i \in seen.known /\ (~Overflows(i) => WantedAt(i) <= now)),
         \A i \in seen'.early : i \in seen.early \/ (Overflows(i) /\ i \in seen.known)
  PROVE  TimesOK'
<1>1. now \in Nat /\ now' \in Nat /\ Loop \in Actors
  BY ScheduleAssumption DEF TimesInv, BaseInv, TypeOK, Actors
<1>2. ASSUME NEW e, InHand(e)
      PROVE  OnTime(e)' /\ OnMultiple(e)'
  <2>1. e \in Entries /\ e.id \in seen.known
    BY <1>2 DEF InHand, TimesInv, BaseInv, TypeOK, HistoryOK, ActorsOK, Known
  <2>2. OnTime(e) /\ OnMultiple(e)
    BY <1>2 DEF InHand, TimesInv, TimesOK
  <2> QED BY <1>1, <2>1, <2>2, StillOnTime DEF TimesInv
<1>3. \A s \in Sessions : \A e \in file'[s].entries : OnTime(e)' /\ OnMultiple(e)'
  BY <1>2
<1>4. \A a \in Actors : \A e \in actor'[a].entries : OnTime(e)' /\ OnMultiple(e)'
  BY <1>2
<1>5. \A i \in seen.known : (Overflows(i)' <=> Overflows(i)) /\ WantedAt(i)' = WantedAt(i)
  BY DEF Overflows, WantedAt
<1>6. \A i \in actor'[Loop].due : ~Overflows(i)' => (WantedAt(i) <= now)'
  <2> SUFFICES ASSUME NEW i \in actor'[Loop].due, ~Overflows(i)'
               PROVE  (WantedAt(i) <= now)'
    OBVIOUS
  <2>1. i \in seen.known /\ seen.known \subseteq Ids
    BY <1>1 DEF TimesInv, BaseInv, ActorsOK, TypeOK
  <2>2. WantedAt(i) <= now
    BY <1>5, <2>1 DEF TimesInv, TimesOK
  <2>3. WantedAt(i) \in Nat
    BY <2>1, ScheduleAssumption DEF WantedAt, TimesInv, BaseInv, TypeOK
  <2> QED BY <1>1, <1>5, <2>1, <2>2, <2>3
<1>7. \A i \in seen'.early : Overflows(i)' /\ i \in seen'.known
  BY <1>5 DEF TimesInv, TimesOK
<1> QED BY <1>3, <1>4, <1>6, <1>7 DEF TimesOK

LEMMA SmallModulo == ASSUME NEW x \in Nat, x < Top PROVE x % Top = x
BY ScheduleAssumption

(* An interval on, by as many as it takes: within a u64 when one interval  *)
(* from now is.                                                            *)
LEMMA AdvancedOnTime ==
  ASSUME TimesInv, NEW s \in Sessions, ~Spins(s), NEW e \in DueOf(s), e.every
  PROVE  OnTime(Advanced(e)) /\ OnMultiple(Advanced(e))
<1> DEFINE b == Advanced(e)
<1>1. /\ b.id = e.id /\ b.every = e.every /\ b.interval = e.interval
      /\ b.next = NextAhead(e) /\ e \in Entries /\ StepsAhead(e) # {}
  BY AdvancedIs DEF TimesInv, BaseInv
<1>2. OnTime(e) /\ OnMultiple(e) /\ e.next <= pass.now /\ pass.now <= now
  BY DEF DueOf, TimesInv, TimesOK
<1>3. /\ pass.now \in Nat /\ now \in Nat /\ e.next \in Nat /\ e.interval \in Nat
      /\ e.id \in Ids /\ asked[e.id].amount \in Nat /\ asked[e.id].at \in Nat
  BY <1>1, ScheduleAssumption DEF TimesInv, BaseInv, TypeOK, Entries, Times
<1>4. PICK k \in StepsAhead(e) :
        /\ \A j \in StepsAhead(e) : k <= j
        /\ NextAhead(e) = (e.next + k * e.interval) % Top
        /\ NextAhead(e) > pass.now /\ NextAhead(e) \in Times
  BY <1>1, AheadIsFirst DEF TimesInv, BaseInv
<1> HIDE DEF b
<1>5. OnTime(b)
  <2>1. WantedAt(e.id) \in Nat
    BY <1>3 DEF WantedAt
  <2> QED BY <1>1, <1>2, <1>3, <1>4, <2>1 DEF OnTime, Times
<1>6. OnMultiple(b)
  <2> SUFFICES ASSUME ~Wraps(e.id), e.interval > 0
               PROVE  /\ e.interval = asked[e.id].amount
                      /\ \E m \in Nat : NextAhead(e) = asked[e.id].at + m * e.interval
    BY <1>1 DEF OnMultiple
  <2>1. PICK m \in Nat : e.next = asked[e.id].at + m * e.interval
    BY <1>2 DEF OnMultiple
  <2>2. e.interval = asked[e.id].amount /\ now + e.interval < Top
    BY <1>2, <1>3, ScheduleAssumption DEF OnMultiple, Wraps
  <2> DEFINE n == e.interval
             K == {j \in Nat : e.next + j * n > pass.now}
  <2>3. (pass.now + 1) * n >= pass.now + 1
    BY <1>3
  <2>4. pass.now + 1 \in K
    BY <1>3, <2>3
  <2>5. PICK j \in K : \A x \in K : j <= x
    BY <2>4, LeastNat
  <2>6. j # 0
    BY <1>2, <1>3, <2>5
  <2>7. j - 1 \in Nat /\ j - 1 \notin K
    BY <2>5, <2>6
  <2>8. e.next + (j - 1) * n <= pass.now
    BY <1>3, <2>7
  <2>9. e.next + j * n < Top /\ j * n >= j
    BY <1>2, <1>3, <2>2, <2>6, <2>8, ScheduleAssumption
  <2>10. j \in StepsAhead(e)
    <3>1. j \in 1..Top
      BY <1>3, <2>6, <2>9, ScheduleAssumption
    <3>2. (e.next + j * n) % Top = e.next + j * n
      BY <1>3, <2>9, <3>1, SmallModulo
    <3> QED BY <2>5, <3>1, <3>2 DEF StepsAhead
  <2>11. k \in Nat /\ k <= j
    BY <1>4, <2>10, ScheduleAssumption DEF StepsAhead
  <2>12. k * n <= j * n
    BY <1>3, <2>11
  <2>13. NextAhead(e) = e.next + k * n
    <3>1. e.next + k * n \in Nat /\ e.next + k * n < Top
      BY <1>3, <2>9, <2>11, <2>12, ScheduleAssumption
    <3> QED BY <1>4, <3>1, SmallModulo
  <2>14. NextAhead(e) = asked[e.id].at + (m + k) * n /\ m + k \in Nat
    BY <1>3, <2>1, <2>11, <2>13
  <2> QED BY <2>2, <2>14
<1> QED BY <1>5, <1>6 DEF b

LEMMA InitTimes == Init => TimesInv
<1> SUFFICES ASSUME Init PROVE TimesInv
  OBVIOUS
<1>1. Loop \in Actors
  BY DEF Actors
<1>2. pass.now <= now
  BY DEF Init, NoPass
<1> QED BY <1>1, <1>2, InitBase, RestingType DEF Init, TimesInv, TimesOK

LEMMA AddsTimes ==
  ASSUME TimesInv, BaseInv', NEW h \in Handlers, NEW i \in Ids \ seen.known, NEW every \in BOOLEAN,
         NEW ms \in Times, NEW amount \in Nat, Adds(h, i, every, ms, amount),
         every => ms = amount % Top, ~every => ms = amount
  PROVE  TimesOK'
<1> USE DEF TimesInv
<1>1. /\ asked' = [asked EXCEPT ![i] = [every |-> every, amount |-> amount,
                                        at |-> IF every THEN now ELSE 0]]
      /\ seen' = [seen EXCEPT !.known = @ \cup {i}]
      /\ UNCHANGED <<now, file, pass>>
  BY DEF Adds
<1>2. now \in Nat /\ ms \in Nat /\ ms < Top /\ FirstFire(every, ms) \in Times
  BY ScheduleAssumption DEF FirstFire, Times, BaseInv, TypeOK
<1>3. PICK s \in Sessions, e \in Entries :
        /\ e.id = i /\ e.every = every /\ e.interval = ms /\ e.next = FirstFire(every, ms)
        /\ Begin(h, s, i, {}, file[s].entries \cup {e})
  <2> DEFINE new == [id |-> i, every |-> every, interval |-> ms, next |-> FirstFire(every, ms)]
  <2>1. \E s \in Sessions : Begin(h, s, i, {}, file[s].entries \cup {new})
    BY DEF Adds
  <2>2. /\ new \in Entries /\ new.id = i /\ new.every = every /\ new.interval = ms
        /\ new.next = FirstFire(every, ms)
    BY <1>2 DEF Entries
  <2> HIDE DEF new
  <2> QED BY <2>1, <2>2
<1>4. asked'[i].every = every /\ asked'[i].amount = amount /\ asked'[i].at = IF every THEN now ELSE 0
  BY <1>1 DEF BaseInv, TypeOK
<1>5. every /\ now + amount < Top => ms = amount /\ e.next = now + amount
  <2> SUFFICES ASSUME every, now + amount < Top PROVE ms = amount /\ e.next = now + amount
    OBVIOUS
  <2>1. amount < Top /\ now + amount \in Nat
    BY <1>2, ScheduleAssumption
  <2>2. ms = amount
    BY <2>1, SmallModulo
  <2> QED BY <1>3, <2>1, <2>2, SmallModulo DEF FirstFire
<1>6. ~every => e.next = amount
  BY <1>3 DEF FirstFire
<1>7. OnTime(e)'
  <2> SUFFICES ASSUME ~Overflows(i)' PROVE WantedAt(i)' <= e.next
    BY <1>3 DEF OnTime
  <2>1. CASE every
    <3>1. now + amount < Top
      BY <1>1, <1>2, <1>4, <2>1, ScheduleAssumption DEF Overflows
    <3>2. WantedAt(i)' = amount + now
      BY <1>4, <2>1 DEF WantedAt
    <3> QED BY <1>2, <1>5, <2>1, <3>1, <3>2
  <2>2. CASE ~every
    BY <1>4, <1>6, <2>2 DEF WantedAt
  <2> QED BY <2>1, <2>2
<1>8. OnMultiple(e)'
  <2> SUFFICES ASSUME every, ~Wraps(i)'
               PROVE  e.interval = asked'[i].amount /\ e.next = asked'[i].at + 1 * e.interval
    BY <1>3 DEF OnMultiple
  <2>1. now + amount < Top
    BY <1>1, <1>2, <1>4, ScheduleAssumption DEF Wraps
  <2>2. ms = amount /\ e.next = now + amount
    BY <1>5, <2>1
  <2>3. e.interval = ms /\ asked'[i].at = now /\ asked'[i].amount = amount
    BY <1>3, <1>4
  <2>4. now + amount = now + 1 * amount
    BY <1>2
  <2> QED BY <2>2, <2>3, <2>4
<1>9. h \in Actors /\ h # Loop /\ Loop \in Actors
  BY ScheduleAssumption DEF Actors
<1>10. file[s].entries \cup {e} \in SUBSET Entries
  BY DEF BaseInv, TypeOK
<1>11. Becomes(h, "cut", s, i, file[s].entries \cup {e}, {})
  BY <1>3, <1>9, <1>10, BeginBecomes DEF BaseInv
<1>12. \A a \in Actors : \A d \in actor'[a].entries : InHand(d) \/ (OnTime(d)' /\ OnMultiple(d)')
  <2> SUFFICES ASSUME NEW a \in Actors, NEW d \in actor'[a].entries, d # e PROVE InHand(d)
    BY <1>7, <1>8
  <2>1. CASE a = h
    BY <1>11, <2>1 DEF Becomes, InHand
  <2>2. CASE a # h
    BY <1>11, <2>2 DEF Becomes, InHand
  <2> QED BY <2>1, <2>2
<1>13. actor'[Loop].due = actor[Loop].due
  BY <1>9, <1>11 DEF Becomes
<1>14. \A j \in seen.known : asked'[j] = asked[j] /\ j \in seen'.known
  BY <1>1 DEF BaseInv, TypeOK
<1>15. seen'.early = seen.early /\ pass'.now <= now' /\ now <= now'
  BY <1>1, <1>2 DEF BaseInv, TypeOK, TimesOK
<1>16. \A t \in Sessions : \A d \in file'[t].entries : InHand(d)
  BY <1>1 DEF InHand
<1> QED BY <1>12, <1>13, <1>14, <1>15, <1>16, TimesMove

LEMMA TakeTimes == ASSUME TimesInv, BaseInv', NEW s \in Sessions, TakeDue(s) PROVE TimesOK'
<1> USE DEF TimesInv
<1>1. /\ PassWithout(s) /\ UNCHANGED <<now, file, asked, seen>> /\ Loop \in Actors
      /\ now \in Nat /\ pass.now \in Nat /\ pass.now <= now
  BY ScheduleAssumption DEF TakeDue, Actors, BaseInv, TypeOK, TimesOK
<1>2. pass'.now <= now'
  BY <1>1 DEF PassWithout, NoPass, BaseInv, TypeOK
<1>3. \A a \in Actors : \A e \in actor'[a].entries : InHand(e) \/ (OnTime(e) /\ OnMultiple(e))
  <2>1. CASE UNCHANGED actor
    BY <2>1 DEF InHand
  <2>2. CASE ~Spins(s) /\ Becomes(Loop, "cut", s, NoId, Left(s), IdsOf(DueOf(s)))
    <3>1. \A e \in Left(s) : InHand(e) \/ (OnTime(e) /\ OnMultiple(e))
      BY <2>2, AdvancedOnTime DEF Left, StaysAfterFiring, InHand
    <3> QED BY <2>2, <3>1 DEF Becomes, InHand
  <2>3. CASE Becomes(Loop, "spin", s, NoId, {}, {})
    BY <2>3 DEF Becomes, InHand
  <2> QED BY <2>1, <2>2, <2>3, TakeCases
<1>4. \A e : (OnTime(e) => OnTime(e)') /\ (OnMultiple(e) => OnMultiple(e)')
  BY <1>1 DEF OnTime, OnMultiple, Overflows, WantedAt, Wraps
<1>5. \A i \in actor'[Loop].due :
        i \in actor[Loop].due \/ (i \in seen.known /\ (~Overflows(i) => WantedAt(i) <= now))
  <2>1. \A i \in IdsOf(DueOf(s)) : i \in seen.known /\ (~Overflows(i) => WantedAt(i) <= now)
    <3> SUFFICES ASSUME NEW e \in DueOf(s)
                 PROVE  e.id \in seen.known /\ (~Overflows(e.id) => WantedAt(e.id) <= now)
      BY DEF IdsOf
    <3>1. e.id \in seen.known /\ OnTime(e) /\ e \in Entries /\ e.next <= pass.now
      BY DEF DueOf, BaseInv, HistoryOK, Known, TypeOK, TimesOK
    <3>2. WantedAt(e.id) \in Nat /\ e.next \in Nat
      BY <3>1, ScheduleAssumption DEF WantedAt, Entries, Times, BaseInv, TypeOK
    <3> QED BY <1>1, <3>1, <3>2 DEF OnTime
  <2> QED BY <2>1, TakeCases DEF Becomes
<1>6. \A t \in Sessions : \A e \in file'[t].entries : InHand(e)
  BY <1>1 DEF InHand
<1> QED BY <1>1, <1>2, <1>3, <1>4, <1>5, <1>6, TimesMove

(* Steps that write no entry that was not in hand, and list nothing.       *)
LEMMA OtherTimes ==
  ASSUME TimesInv, BaseInv', now <= now', pass'.now <= now', asked' = asked,
         seen'.known = seen.known,
         \A i \in seen'.early : i \in seen.early \/ (Overflows(i) /\ i \in seen.known),
         \A s \in Sessions : \A e \in file'[s].entries : InHand(e),
         \A a \in Actors : \A e \in actor'[a].entries : InHand(e),
         actor'[Loop].due \subseteq actor[Loop].due
  PROVE  TimesOK'
BY TimesMove

LEMMA TimesStep == TimesInv /\ [Next]_vars => TimesInv'
<1> SUFFICES ASSUME TimesInv, [Next]_vars PROVE TimesOK'
  BY BaseStep DEF TimesInv
<1>1. BaseInv /\ BaseInv' /\ TimesOK
  BY BaseStep DEF TimesInv
<1>2. /\ Loop \in Actors /\ (\A h \in Handlers : h \in Actors /\ h # Loop)
      /\ now \in Nat /\ pass.now <= now /\ seen.known \subseteq Ids
      /\ actor \in [Actors -> ActorType]
  BY <1>1, ScheduleAssumption DEF Actors, BaseInv, TypeOK, ActorsOK, TimesOK
<1>3. \A s \in Sessions : \A e \in file[s].entries : InHand(e)
  BY DEF InHand
<1>4. \A a \in Actors : \A e \in actor[a].entries : InHand(e)
  BY DEF InHand
<1>5. ASSUME NEW h \in Handlers, Add(h) PROVE TimesOK'
  <2>1. PICK i \in Ids \ seen.known :
          \/ \E t \in AtTimes : Adds(h, i, FALSE, t, t)
          \/ \E n \in Counts, u \in Units : Adds(h, i, TRUE, Interval(n, u), n * u)
    BY <1>5 DEF Add
  <2>2. CASE \E t \in AtTimes : Adds(h, i, FALSE, t, t)
    <3>1. AtTimes \subseteq Times /\ AtTimes \subseteq Nat
      BY ScheduleAssumption DEF Times
    <3> QED BY <1>1, <2>2, <3>1, AddsTimes
  <2>3. CASE \E n \in Counts, u \in Units : Adds(h, i, TRUE, Interval(n, u), n * u)
    <3>1. PICK n \in Counts, u \in Units : Adds(h, i, TRUE, Interval(n, u), n * u)
      BY <2>3
    <3>2. n * u \in Nat
      BY ScheduleAssumption
    <3>3. Interval(n, u) \in Times /\ Interval(n, u) = (n * u) % Top
      BY <3>2, ScheduleAssumption DEF Interval, Times
    <3> QED BY <1>1, <3>1, <3>2, <3>3, AddsTimes
  <2> QED BY <2>1, <2>2, <2>3
<1>6. ASSUME NEW h \in Handlers, Cancel(h) PROVE TimesOK'
  <2>1. PICK s \in Sessions, i \in seen.acked :
          /\ Begin(h, s, i, {i}, Without(file[s].entries, i))
          /\ UNCHANGED <<now, file, pass, asked, seen>>
    BY <1>6 DEF Cancel
  <2>2. \A a \in Actors : \A e \in actor'[a].entries : InHand(e)
    <3>1. \A a \in Actors : actor'[a].entries =
            IF a = h THEN Without(file[s].entries, i) ELSE actor[a].entries
      BY <1>2, <2>1 DEF Begin
    <3> QED BY <1>3, <1>4, <3>1 DEF Without
  <2>3. actor'[Loop] = actor[Loop]
    BY <1>2, <2>1 DEF Begin
  <2> QED BY <1>1, <1>2, <1>3, <2>1, <2>2, <2>3, OtherTimes
<1>7. ASSUME NEW i \in Ids, Fire(i) PROVE TimesOK'
  <2>1. UNCHANGED <<now, file, pass, asked>>
    BY <1>7 DEF Fire
  <2>2. i \in actor[Loop].due /\ i \in seen.known
    BY <1>1, <1>7, FireBecomes DEF BaseInv, ActorsOK
  <2>3. now < WantedAt(i) => Overflows(i)
    <3>1. WantedAt(i) \in Nat
      BY <1>1, ScheduleAssumption DEF WantedAt, BaseInv, TypeOK
    <3> QED BY <1>1, <1>2, <2>2, <3>1 DEF TimesOK
  <2>4. /\ seen'.known = seen.known
        /\ \A j \in seen'.early : j \in seen.early \/ (Overflows(j) /\ j \in seen.known)
    BY ZenonT(30), <1>1, <1>7, <2>2, <2>3, FireSeen
  <2>5. /\ \A a \in Actors : actor'[a].entries \subseteq actor[a].entries
        /\ actor'[Loop].due \subseteq actor[Loop].due
    BY <1>1, <1>7, FireBecomes
  <2> QED BY <1>1, <1>2, <1>3, <1>4, <2>1, <2>4, <2>5, OtherTimes
<1>8. ASSUME NEW a \in Actors, Truncate(a) PROVE TimesOK'
  <2>1. UNCHANGED <<now, pass, asked>> /\ Truncated(a)
    BY <1>1, <1>8, TruncateDoes DEF Truncate
  <2>2. /\ \A b \in Actors : actor'[b].entries = actor[b].entries /\ actor'[b].due = actor[b].due
        /\ \A s \in Sessions : file'[s].entries \subseteq file[s].entries
        /\ seen'.known = seen.known /\ seen'.early = seen.early
    BY <2>1 DEF Truncated
  <2> QED BY <1>1, <1>2, <1>3, <1>4, <2>1, <2>2, OtherTimes
<1>9. ASSUME NEW a \in Actors, Write(a) PROVE TimesOK'
  <2>1. UNCHANGED <<now, pass, asked>> /\ Written(a) /\ Finished(a)
    BY <1>1, <1>9, WriteDoes, DoneDoes DEF Written
  <2>2. /\ \A b \in Actors : actor'[b].entries \subseteq actor[b].entries
        /\ actor'[Loop].due = actor[Loop].due
        /\ seen'.known = seen.known /\ seen'.early = seen.early
    BY <1>2, <2>1 DEF Finished
  <2>3. \A s \in Sessions : \A e \in file'[s].entries : InHand(e)
    BY <2>1 DEF Written, InHand
  <2> QED BY <1>1, <1>2, <1>4, <2>1, <2>2, <2>3, OtherTimes
<1>10. CASE Crash
  <2>1. Crashed /\ pass'.now = 0
    BY <1>1, <1>10, CrashDoes DEF Crashed, NoPass
  <2>2. \A a \in Actors : actor'[a].entries = {} /\ actor'[a].due = {}
    BY <2>1, RestingType DEF Crashed
  <2>3. /\ UNCHANGED <<now, file, asked>>
        /\ seen'.known = seen.known /\ seen'.early = seen.early
    BY <2>1 DEF Crashed
  <2> QED BY <1>1, <1>2, <1>3, <2>1, <2>2, <2>3, OtherTimes
<1>11. CASE \/ StartPass \/ Tick
            \/ \E s \in Sessions : TakeFails(s)
  <2>1. UNCHANGED <<file, actor, asked, seen>> /\ now <= now' /\ now' \in Nat
    BY <1>1, <1>11, RestBase, ScheduleAssumption DEF BaseInv, TypeOK
  <2>2. pass'.now <= now'
    BY <1>1, <1>2, <1>11, ScheduleAssumption
       DEF StartPass, Tick, TakeFails, PassGoesOn, PassWithout, NoPass, BaseInv, TypeOK
  <2> QED BY <1>1, <1>3, <1>4, <2>1, <2>2, OtherTimes
<1>12. CASE \E s \in Sessions : TakeDue(s)
  BY <1>1, <1>12, TakeTimes
<1>13. CASE UNCHANGED vars
  BY <1>1, <1>2, <1>3, <1>4, <1>13, OtherTimes DEF vars
<1> QED BY <1>2, <1>5, <1>6, <1>7, <1>8, <1>9, <1>10, <1>11, <1>12, <1>13 DEF Next, LoopStep

(* Nothing fires before the time it was asked for, and an Every keeps to   *)
(* the multiples of its interval from when it was added, unless a sum or a *)
(* product passed what a u64 holds.                                        *)
THEOREM Punctual == Spec => []FiresOnTime
<1>1. TimesInv => FiresOnTime
  <2> SUFFICES ASSUME TimesInv, NEW s \in Sessions, NEW e \in file[s].entries,
                      e.every, ~Wraps(e.id), e.interval > 0
               PROVE  (e.next - asked[e.id].at) % asked[e.id].amount = 0
    BY DEF TimesInv, TimesOK, FiresOnTime
  <2>1. e \in Entries /\ OnMultiple(e)
    BY DEF TimesInv, TimesOK, BaseInv, TypeOK
  <2>2. e.interval = asked[e.id].amount /\ e.interval \in Nat \ {0}
        /\ asked[e.id].at \in Nat
    BY <2>1, ScheduleAssumption DEF OnMultiple, Entries, Times, TimesInv, BaseInv, TypeOK
  <2>3. PICK m \in Nat : e.next = asked[e.id].at + m * e.interval
    BY <2>1 DEF OnMultiple
  <2>4. e.next - asked[e.id].at = m * e.interval
    BY <2>2, <2>3
  <2>5. (m * e.interval) % e.interval = 0
    BY <2>2
  <2> QED BY <2>2, <2>4, <2>5
<1> QED BY <1>1, InitTimes, TimesStep, PTL DEF Spec
=============================================================================
