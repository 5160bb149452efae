------------------------------ MODULE Schedule ------------------------------
(***************************************************************************)
(* Prompts scheduled for later: every session's schedules.json, rewritten  *)
(* whole by the handlers of `schedule add` and `schedule cancel` and by    *)
(* the supervisor's firing loop, which takes what is due and fires it.     *)
(* Each reads, changes and writes the file with no lock, on a thread of    *)
(* its own; the write truncates first.  Source: schedule.rs, daemon/mod.rs *)
(* (handle_schedule_add, handle_schedule_cancel, fire_due_schedules),      *)
(* cli.rs (parse_duration_ms).                                             *)
(*                                                                         *)
(* One unit of time stands for the polling interval and for a millisecond; *)
(* Top is the width of the u64 the times are held in.                      *)
(***************************************************************************)
EXTENDS Integers, FiniteSets

CONSTANTS
  Sessions,   \* sessions with a state.json
  Ids,        \* schedule ids
  Handlers,   \* connections that add or cancel
  Loop,       \* the firing loop
  NoId,       \* no schedule
  AtTimes,    \* the times asked for with --at
  Counts,     \* the numbers in the durations asked for with --every
  Units,      \* what their units multiply them by
  Top,        \* 2^64
  MaxTime,    \* bound: the clock
  MaxCrashes  \* bound: crashes of the supervisor

ASSUME ScheduleAssumption ==
  /\ Loop \notin Handlers /\ NoId \notin Ids
  /\ Counts \subseteq Nat /\ AtTimes \subseteq 0..(Top - 1) /\ Units \subseteq Nat \ {0}
  /\ Top \in Nat \ {0} /\ MaxTime \in 0..(Top - 1) /\ MaxCrashes \in Nat

VARIABLES
  now,      \* now_ms
  file,     \* schedules.json of each session: parses or not, entries
  actor,    \* the handlers and the loop, each in one read-modify-write
  pass,     \* this pass of the loop: its time, the sessions still to come
  asked,    \* history: what each id was asked for
  seen      \* history: ids acked, cancelled, taken, fired; overlaps, crashes

vars == <<now, file, actor, pass, asked, seen>>

Actors == Handlers \cup {Loop}

Times == 0..(Top - 1)

(* next_fire_ms and the kind: Every has an interval, Once has none.        *)
Entries == [id : Ids, every : BOOLEAN, interval : Times, next : Times]

Resting == [stage |-> "idle", sess |-> NoId, id |-> NoId, entries |-> {}, due |-> {}]

NoPass == [todo |-> {}, now |-> 0]

TypeOK ==
  /\ now \in 0..MaxTime
  /\ file \in [Sessions -> [whole : BOOLEAN, entries : SUBSET Entries]]
  /\ \A s \in Sessions : \A e1, e2 \in file[s].entries : e1.id = e2.id => e1 = e2
  /\ \A a \in Actors :
       /\ actor[a].stage \in {"idle", "cut", "write", "fire", "spin"}
       /\ actor[a].stage # "idle" => actor[a].sess \in Sessions
       /\ actor[a].entries \subseteq Entries
       /\ actor[a].due \subseteq Ids
       /\ a # Loop => actor[a].stage \notin {"fire", "spin"}
  /\ pass \in [todo : SUBSET Sessions, now : 0..MaxTime]
  /\ asked \in [Ids -> [every : BOOLEAN, amount : Nat, at : 0..MaxTime]]
  /\ seen \in [known : SUBSET Ids, acked : SUBSET Ids, cancelled : SUBSET Ids,
               taken : SUBSET Ids, fired : SUBSET Ids, again : SUBSET Ids,
               early : SUBSET Ids, raced : SUBSET Sessions, torn : SUBSET Sessions,
               crashes : 0..MaxCrashes]

Init ==
  /\ now = 0
  /\ file = [s \in Sessions |-> [whole |-> TRUE, entries |-> {}]]
  /\ actor = [a \in Actors |-> Resting]
  /\ pass = NoPass
  /\ asked = [i \in Ids |-> [every |-> FALSE, amount |-> 0, at |-> 0]]
  /\ seen = [known |-> {}, acked |-> {}, cancelled |-> {}, taken |-> {},
             fired |-> {}, again |-> {}, early |-> {}, raced |-> {}, torn |-> {}, crashes |-> 0]

-----------------------------------------------------------------------------
(* Reading.  A file that does not parse is an error of whoever reads it.   *)

CanRead(s) == file[s].whole

IdsOf(entries) == {e.id : e \in entries}

Begin(a, s, id, due, entries) ==
  actor' = [actor EXCEPT ![a] = [stage |-> "cut", sess |-> s, id |-> id,
                                 entries |-> entries, due |-> due]]

(* parse_duration_ms: a product of u64s, unchecked in release builds.      *)
Interval(count, unit) == (count * unit) % Top

(* Mutant: an Every fires at once, and then every interval.                *)
FireAtOnce(every, interval) == IF every THEN now ELSE interval

(* now_ms() + interval_ms, likewise.                                       *)
FirstFire(every, interval) == IF every THEN (now + interval) % Top ELSE interval

(* add_sync, from handle_schedule_add; trigger_heartbeat asks for a Once   *)
(* that is due now, or an Every.                                           *)
Adds(h, i, every, ms, amount) ==
  \E s \in Sessions :
    /\ actor[h].stage = "idle"
    /\ CanRead(s)
    /\ Begin(h, s, i, {}, file[s].entries \cup
         {[id |-> i, every |-> every, interval |-> ms, next |-> FirstFire(every, ms)]})
    /\ asked' = [asked EXCEPT ![i] = [every |-> every, amount |-> amount,
                                      at |-> IF every THEN now ELSE 0]]
    /\ seen' = [seen EXCEPT !.known = @ \cup {i}]
    /\ UNCHANGED <<now, file, pass>>

Add(h) ==
  \E i \in Ids \ seen.known :
    \/ \E t \in AtTimes : Adds(h, i, FALSE, t, t)
    \/ \E n \in Counts, u \in Units : Adds(h, i, TRUE, Interval(n, u), n * u)

(* Mutant: the entry to be cancelled stays.                                *)
AllKept(entries, i) == entries

Without(entries, i) == {e \in entries : e.id # i}

(* cancel_sync writes only if it found the entry.                          *)
Cancel(h) ==
  \E s \in Sessions, i \in seen.acked :
    /\ actor[h].stage = "idle"
    /\ CanRead(s)
    /\ i \in IdsOf(file[s].entries)
    /\ Begin(h, s, i, {i}, Without(file[s].entries, i))
    /\ UNCHANGED <<now, file, pass, asked, seen>>

-----------------------------------------------------------------------------
(* The firing loop.                                                        *)

(* A pass: fire_due_schedules scans the catalog, notes the time, and goes  *)
(* through the sessions one by one.                                        *)
StartPass ==
  /\ pass.todo = {}
  /\ actor[Loop].stage = "idle"
  /\ pass' = [todo |-> Sessions, now |-> now]
  /\ UNCHANGED <<now, file, actor, asked, seen>>

PassWithout(s) ==
  pass' = IF pass.todo = {s} THEN NoPass ELSE [pass EXCEPT !.todo = @ \ {s}]

DueOf(s) == {e \in file[s].entries : e.next <= pass.now}

(* The times an Every takes on as its interval is added, in a u64.         *)
StepsAhead(e) == {k \in 1..Top : (e.next + k * e.interval) % Top > pass.now}

(* Mutant: the next firing is counted from this one.                       *)
FromNow(e) == (pass.now + e.interval) % Top

(* take_due_sync: the first of the entry's times that lies ahead.          *)
NextAhead(e) ==
  LET k == CHOOSE k \in StepsAhead(e) : \A j \in StepsAhead(e) : k <= j
  IN (e.next + k * e.interval) % Top

(* Mutant: a fired entry stays in the file, or leaves it, whatever it is.  *)
AlwaysStays(e) == TRUE

NeverStays(e) == FALSE

StaysAfterFiring(e) == e.every

Advanced(e) == IF e.every THEN [e EXCEPT !.next = NextAhead(e)] ELSE e

(* With an interval of 0 next never passes now: the thread spins, and the  *)
(* loop awaits it for ever.                                                *)
Spins(s) == \E e \in DueOf(s) : e.every /\ StepsAhead(e) = {}

TakeDue(s) ==
  /\ actor[Loop].stage = "idle"
  /\ s \in pass.todo
  /\ CanRead(s)
  /\ PassWithout(s)
  /\ \/ DueOf(s) = {} /\ UNCHANGED actor
     \/ /\ DueOf(s) # {} /\ ~Spins(s)
        /\ Begin(Loop, s, NoId, IdsOf(DueOf(s)),
                 (file[s].entries \ DueOf(s))
                   \cup {Advanced(e) : e \in {d \in DueOf(s) : StaysAfterFiring(d)}})
     \/ /\ Spins(s)
        /\ actor' = [actor EXCEPT ![Loop] = [Resting EXCEPT !.stage = "spin", !.sess = s]]
  /\ UNCHANGED <<now, file, asked, seen>>

(* Mutant: an unreadable file ends the pass.                               *)
PassEnds(s) == pass' = NoPass

PassGoesOn(s) == PassWithout(s)

(* ... is reported, and the pass goes on with the next session.            *)
TakeFails(s) ==
  /\ actor[Loop].stage = "idle"
  /\ s \in pass.todo
  /\ ~CanRead(s)
  /\ PassGoesOn(s)
  /\ UNCHANGED <<now, file, actor, asked, seen>>

(* When it was asked to fire first, by numbers that do not overflow.       *)
WantedAt(i) == asked[i].amount + (IF asked[i].every THEN asked[i].at ELSE 0)

(* fire_one_schedule awaits the whole turn; when it fails (the worker does *)
(* not start, the turn breaks) it is reported and nothing else.            *)
Fire(i) ==
  /\ actor[Loop].stage = "fire"
  /\ i \in actor[Loop].due
  /\ actor' = [actor EXCEPT ![Loop] =
       IF @.due = {i} THEN Resting ELSE [@ EXCEPT !.due = actor[Loop].due \ {i}]]
  /\ seen' \in {seen, [seen EXCEPT
       !.fired = @ \cup {i},
       !.again = IF i \in seen.fired /\ ~asked[i].every THEN @ \cup {i} ELSE @,
       !.early = IF now < WantedAt(i) THEN @ \cup {i} ELSE @]}
  /\ UNCHANGED <<now, file, pass, asked>>

-----------------------------------------------------------------------------
(* write_all, std::fs::write: the file is opened and cut to nothing, then  *)
(* written.  Two at once overlay each other and may leave what parses as   *)
(* neither.                                                                *)

Overlaps(a) ==
  \E b \in Actors \ {a} : /\ actor[b].stage \in {"cut", "write"}
                          /\ actor[b].sess = actor[a].sess

Truncate(a) ==
  /\ actor[a].stage = "cut"
  /\ file' = [file EXCEPT ![actor[a].sess] = [whole |-> FALSE, entries |-> {}]]
  /\ actor' = [actor EXCEPT ![a].stage = "write"]
  /\ seen' = [seen EXCEPT !.raced = IF Overlaps(a) THEN @ \cup {actor[a].sess} ELSE @]
  /\ UNCHANGED <<now, pass, asked>>

(* The answer to an add or a cancel follows, or the loop begins to fire.   *)
Done(a) ==
  /\ actor' = [actor EXCEPT ![a] =
       IF a = Loop THEN [@ EXCEPT !.stage = "fire", !.entries = {}]
       ELSE Resting]
  /\ seen' = [seen EXCEPT
       !.acked = IF a # Loop /\ actor[a].due = {} THEN @ \cup {actor[a].id} ELSE @,
       !.cancelled = IF a # Loop THEN @ \cup actor[a].due ELSE @,
       !.taken = IF a = Loop THEN @ \cup actor[a].due ELSE @]

Write(a) ==
  LET s == actor[a].sess
  IN /\ actor[a].stage = "write"
     /\ \/ file' = [file EXCEPT ![s] = [whole |-> TRUE, entries |-> actor[a].entries]]
        \/ /\ Overlaps(a) \/ file[s].whole
           /\ file' = [file EXCEPT ![s] = [whole |-> FALSE, entries |-> {}]]
     /\ Done(a)
     /\ UNCHANGED <<now, pass, asked>>

(* The supervisor dies and comes back: what it was doing is lost.          *)
Crash ==
  /\ seen.crashes < MaxCrashes
  /\ actor' = [a \in Actors |-> Resting]
  /\ pass' = NoPass
  /\ seen' = [seen EXCEPT !.crashes = @ + 1,
                          !.torn = @ \cup {s \in Sessions : ~CanRead(s)}]
  /\ UNCHANGED <<now, file, asked>>

Tick ==
  /\ now < MaxTime
  /\ now' = now + 1
  /\ UNCHANGED <<file, actor, pass, asked, seen>>

LoopStep ==
  \/ StartPass
  \/ \E s \in Sessions : TakeDue(s) \/ TakeFails(s)
  \/ \E i \in Ids : Fire(i)
  \/ Truncate(Loop)
  \/ Write(Loop)

Next ==
  \/ LoopStep
  \/ \E h \in Handlers : Add(h) \/ Cancel(h) \/ Truncate(h) \/ Write(h)
  \/ Crash
  \/ Tick

Spec == Init /\ [][Next]_vars

(* The clock advances, threads are scheduled and turns end.                *)
Fairness ==
  /\ WF_vars(LoopStep)
  /\ WF_vars(Tick)
  /\ \A h \in Handlers : WF_vars(Truncate(h) \/ Write(h))

FairSpec == Spec /\ Fairness

-----------------------------------------------------------------------------
(* Properties.  raced is where two rewrites of one file overlapped, torn   *)
(* where the supervisor died between cutting a file and writing it.        *)

Undisturbed(s) == s \notin seen.raced \cup seen.torn

Holds(s, i) ==
  \/ i \in IdsOf(file[s].entries)
  \/ \E a \in Actors : /\ actor[a].stage = "write" /\ actor[a].sess = s
                       /\ i \in IdsOf(actor[a].entries) \cup actor[a].due

(* A schedule that was acknowledged is in a file until it is cancelled or, *)
(* if it is a Once, taken: restarts, other adds and firings in between     *)
(* leave it there, unless a rewrite overlapped another or was torn.        *)
AckedAreKept ==
  \A i \in seen.acked \ seen.cancelled :
    (\A s \in Sessions : Undisturbed(s)) /\ (asked[i].every \/ i \notin seen.taken)
      => \E s \in Sessions : Holds(s, i)

(* A Once fires at most once, restarts included.                           *)
OnceFiresOnce ==
  seen.again # {} => seen.raced # {}

(* Once its cancellation was acknowledged a schedule is not taken again;   *)
(* it may still fire from the list it was on by then.                      *)
CancelledIsNotTaken ==
  [][\A i \in seen.cancelled :
       i \in actor'[Loop].due \ actor[Loop].due => seen.raced # {}]_vars

Overflows(i) == asked[i].at + asked[i].amount >= Top

(* One interval from now is past what a u64 holds.                         *)
Wraps(i) == now + asked[i].amount >= Top

(* Nothing fires before the time it was asked for, and an Every keeps to   *)
(* the multiples of its interval from when it was added, however late a    *)
(* pass is; unless the arithmetic overflowed.                              *)
FiresOnTime ==
  /\ \A i \in seen.early : Overflows(i)
  /\ \A s \in Sessions : \A e \in file[s].entries :
       e.every /\ ~Wraps(e.id) /\ e.interval > 0 =>
         (e.next - asked[e.id].at) % asked[e.id].amount = 0

IsDue(s, i) == \E e \in file[s].entries : e.id = i /\ e.next <= now

(* What is due is taken or cancelled in the end, whatever became of other  *)
(* sessions' files, unless an entry with an interval of 0 stops the loop.  *)
DueIsTaken ==
  \A s \in Sessions, i \in Ids :
    IsDue(s, i) ~> \/ i \in seen.taken \cup seen.cancelled
                  \/ ~Undisturbed(s)
                  \/ actor[Loop].stage = "spin"

(* schedules are durable across a daemon restart.                          *)
AckedSurvive ==
  \A i \in seen.acked \ seen.cancelled :
    asked[i].every \/ i \notin seen.taken => \E s \in Sessions : Holds(s, i)
=============================================================================
