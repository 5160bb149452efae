--------------------------- MODULE RequestJournal ---------------------------
(***************************************************************************)
(* `session prompt --request-id` across worker crashes: one session's      *)
(* worker, serving one prompt at a time under the session lock, its        *)
(* request-journal.jsonl, transcript.jsonl and state.json's last_sequence. *)
(* Sources: request_journal.rs; session.rs (recover,                       *)
(* prompt_with_images_and_request_id, append_entry, write_state).          *)
(***************************************************************************)
EXTENDS Integers, Sequences, FiniteSets

CONSTANTS
  Ids,               \* request ids clients use, and retry, in any order
  NoId,              \* a prompt without --request-id
  Unseen,            \* RequestJournal::lookup's None
  Uncertain,         \* Outcome::Uncertain, and the answer it becomes
  NoAnswer,          \* no answer given, or an error
  CompactAfter,      \* COMPACT_AFTER_RECORDS
  RetainedIds,       \* RETAINED_IDS
  MaxEntries,        \* bound: transcript entries
  MaxLines,          \* bound: journal lines
  Hazards            \* which of AllHazards the environment may produce

(***************************************************************************)
(* torn:    a crash or a failed write between the two writes of a record,  *)
(*          its text and its newline                                       *)
(* machine: the machine goes down, once, and loses what was not synced     *)
(***************************************************************************)
AllHazards == {"torn", "machine"}

ASSUME HazardsAssumption == Hazards \subseteq AllHazards
ASSUME LimitsAssumption ==
  CompactAfter \in Nat /\ RetainedIds \in Nat \ {0} /\ MaxEntries \in Nat /\ MaxLines \in Nat
ASSUME ModelValuesAssumption ==
  NoId \notin Ids /\ Unseen # Uncertain /\ Unseen \notin Nat /\ Uncertain \notin Nat

VARIABLES
  pc,          \* the worker: down, idle, or where in the prompt it is
  cur,         \* the request id being prompted
  journal,     \* the file's lines; a line of one record parses
  open,        \* the file's last line has no newline yet
  outcomes,    \* RequestJournal.outcomes
  order,       \* RequestJournal.order, first seen first
  records,     \* RequestJournal.records
  transcript,  \* transcript.jsonl, equal to the worker's copy
  stateSeq,    \* state.json's last_sequence
  lastSeq,     \* the worker's state.last_sequence
  reply,       \* the entry prompt_with_images returned
  rebooted,    \* the machine went down already
  executed,    \* history: ids dispatched since the journal last forgot them
  told         \* history: the last verdict a client got for each id

files  == <<journal, open, transcript, stateSeq>>
memory == <<outcomes, order, records, lastSeq, reply>>
ghosts == <<rebooted, executed, told>>
vars == <<pc, cur, files, memory, ghosts>>

Outcomes == Nat \cup {Uncertain}
Records == [id : Ids, outcome : Outcomes]
Entries == [sequence : Nat, by : Ids \cup {NoId}, role : {"user", "assistant"}]
NoEntry == [sequence |-> 0, by |-> NoId, role |-> "user"]

TypeOK ==
  /\ pc \in {"down", "idle", "begin", "beginLine", "user", "userSave", "reply",
             "replySave", "result", "resultLine", "compact"}
  /\ cur \in Ids \cup {NoId}
  /\ journal \in Seq(Seq(Records))
  /\ open \in BOOLEAN
  /\ open => journal # << >>
  /\ outcomes \in [Ids -> Outcomes \cup {Unseen}]
  /\ order \in Seq(Ids)
  /\ \A i, j \in DOMAIN order : order[i] = order[j] => i = j
  /\ records \in Nat
  /\ transcript \in Seq(Entries)
  /\ stateSeq \in Nat
  /\ lastSeq \in Nat
  /\ reply \in Entries
  /\ rebooted \in BOOLEAN
  /\ executed \in SUBSET Ids
  /\ told \in [Ids -> Entries \cup {Uncertain, NoAnswer}]

Init ==
  /\ pc = "idle"
  /\ cur = NoId
  /\ journal = << >>
  /\ open = FALSE
  /\ outcomes = [id \in Ids |-> Unseen]
  /\ order = << >>
  /\ records = 0
  /\ transcript = << >>
  /\ stateSeq = 0
  /\ lastSeq = 0
  /\ reply = NoEntry
  /\ rebooted = FALSE
  /\ executed = {}
  /\ told = [id \in Ids |-> NoAnswer]

-----------------------------------------------------------------------------
(* What a journal file says.  A line that does not parse is skipped.       *)

Parses(line) == Len(line) = 1

(* The parsed lines that speak of id.                                      *)
Mentions(lines, id) ==
  {i \in DOMAIN lines : Parses(lines[i]) /\ lines[i][1].id = id}

(* Mutant: a later record does not replace an earlier one.                 *)
FirstWordCounts(lines, id) ==
  IF Mentions(lines, id) = {} THEN Unseen
  ELSE LET first == CHOOSE i \in Mentions(lines, id) :
                      \A j \in Mentions(lines, id) : i <= j
       IN lines[first][1].outcome

(* `remember`: the last word on an id counts ...                           *)
Loaded(lines, id) ==
  IF Mentions(lines, id) = {} THEN Unseen
  ELSE LET last == CHOOSE i \in Mentions(lines, id) :
                     \A j \in Mentions(lines, id) : j <= i
       IN lines[last][1].outcome

(* ... but its place is where it was first seen.                           *)
SeenBefore(lines, a, b) ==
  \E i \in Mentions(lines, a) : \A j \in Mentions(lines, b) : i < j

InOrderSeen(lines, ids) ==
  LET known == {id \in Ids : Mentions(lines, id) # {}}
  IN /\ \A id \in known : \E i \in DOMAIN ids : ids[i] = id
     /\ \A i \in DOMAIN ids : ids[i] \in known
     /\ \A i, j \in DOMAIN ids : i < j => SeenBefore(lines, ids[i], ids[j])

(* Two processes' records share a line if the first lost its newline.      *)
AppendRecord(record) ==
  /\ journal' = IF open THEN [journal EXCEPT ![Len(journal)] = Append(@, record)]
                ELSE Append(journal, <<record>>)
  /\ open' = TRUE

(* Mutant: push_back without asking whether the id is new.                 *)
RememberTwice(id, outcome) ==
  /\ outcomes' = [outcomes EXCEPT ![id] = outcome]
  /\ order' = Append(order, id)

Remember(id, outcome) ==
  /\ outcomes' = [outcomes EXCEPT ![id] = outcome]
  /\ order' = IF outcomes[id] = Unseen THEN Append(order, id) ELSE order

LastWritten == IF transcript = << >> THEN 0 ELSE transcript[Len(transcript)].sequence

-----------------------------------------------------------------------------
(* prompt_with_images_and_request_id.  A retry waits for the session lock. *)

(* Mutant: a request without a result is run again.                        *)
NoResultYet(id) == outcomes[id] \in {Unseen, Uncertain}

NeverSeen(id) == outcomes[id] = Unseen

(* Answered out of the journal, without a second dispatch: the entry at    *)
(* the recorded sequence, or Uncertain if there is none.                   *)
Replay(id) ==
  /\ pc = "idle"
  /\ ~NeverSeen(id)
  /\ LET at == {i \in DOMAIN transcript : transcript[i].sequence = outcomes[id]}
     IN \/ /\ at # {}
           /\ \E i \in at : /\ \A j \in at : i <= j
                            /\ told' = [told EXCEPT ![id] = transcript[i]]
        \/ /\ at = {}
           /\ told' = [told EXCEPT ![id] = Uncertain]
  /\ UNCHANGED <<pc, cur, files, memory, rebooted, executed>>

(* MaxEntries and MaxLines bound the run, not the program.                 *)
Arrive(id) ==
  /\ pc = "idle"
  /\ lastSeq + 2 <= MaxEntries
  /\ \/ /\ id = NoId
        /\ pc' = "user"
     \/ /\ id \in Ids
        /\ NeverSeen(id)
        /\ Len(journal) + 2 <= MaxLines
        /\ pc' = "begin"
  /\ cur' = id
  /\ UNCHANGED <<files, memory, ghosts>>

(* Mutant: the record reaches memory only.                                 *)
BeginUnwritten ==
  /\ pc = "begin"
  /\ pc' = "beginLine"
  /\ UNCHANGED <<cur, files, memory, ghosts>>

(* begin: the text, then the newline and sync_all, before any dispatch.    *)
BeginLine ==
  /\ pc = "begin"
  /\ AppendRecord([id |-> cur, outcome |-> Uncertain])
  /\ pc' = "beginLine"
  /\ UNCHANGED <<cur, transcript, stateSeq, memory, ghosts>>

BeginSync ==
  /\ pc = "beginLine"
  /\ open' = FALSE
  /\ Remember(cur, Uncertain)
  /\ records' = records + 1
  /\ pc' = "user"
  /\ UNCHANGED <<cur, journal, transcript, stateSeq, lastSeq, reply, ghosts>>

(* append_entry: the line, flushed and not synced, then the state file.    *)
(* The tool rounds between the user's turn and the answer are left out.    *)
AppendTurn(role) ==
  /\ reply' = [sequence |-> lastSeq + 1, by |-> cur, role |-> role]
  /\ transcript' = Append(transcript, reply')
  /\ lastSeq' = lastSeq + 1
  /\ UNCHANGED <<cur, journal, open, stateSeq, outcomes, order, records,
                 rebooted, told>>

UserTurn ==
  /\ pc = "user"
  /\ AppendTurn("user")
  /\ executed' = executed \cup ({cur} \cap Ids)
  /\ pc' = "userSave"

ReplyTurn ==
  /\ pc = "reply"
  /\ AppendTurn("assistant")
  /\ pc' = "replySave"
  /\ UNCHANGED executed

WriteState ==
  /\ \/ pc = "userSave" /\ pc' = "reply"
     \/ pc = "replySave" /\ pc' = IF cur = NoId THEN "idle" ELSE "result"
  /\ stateSeq' = lastSeq
  /\ UNCHANGED <<cur, journal, open, transcript, memory, ghosts>>

(* Mutant: the sequence of the user's turn.                                *)
SequenceBefore == reply.sequence - 1

SequenceOfReply == reply.sequence

(* record_result, with the answer's sequence, and the answer itself.       *)
ResultLine ==
  /\ pc = "result"
  /\ AppendRecord([id |-> cur, outcome |-> SequenceOfReply])
  /\ pc' = "resultLine"
  /\ UNCHANGED <<cur, transcript, stateSeq, memory, ghosts>>

ResultSync ==
  /\ pc = "resultLine"
  /\ open' = FALSE
  /\ Remember(cur, SequenceOfReply)
  /\ records' = records + 1
  /\ IF records' >= CompactAfter
     THEN pc' = "compact" /\ UNCHANGED told
     ELSE pc' = "idle" /\ told' = [told EXCEPT ![cur] = reply]
  /\ UNCHANGED <<cur, journal, transcript, stateSeq, lastSeq, reply,
                 rebooted, executed>>

(* compact: the oldest ids are forgotten, one record each of the others    *)
(* replaces the file by a rename; if that fails, the client gets an error. *)
(* A forgotten id behaves as one never seen, which the histories follow.   *)
Compact ==
  /\ pc = "compact"
  /\ LET evicted == IF Len(order) > RetainedIds THEN Len(order) - RetainedIds ELSE 0
         kept == SubSeq(order, evicted + 1, Len(order))
         gone == {order[i] : i \in 1..evicted}
     IN /\ order' = kept
        /\ outcomes' = [id \in Ids |-> IF id \in gone THEN Unseen ELSE outcomes[id]]
        /\ executed' = executed \ gone
        /\ \/ /\ journal' = [i \in DOMAIN kept |->
                               <<[id |-> kept[i], outcome |-> outcomes[kept[i]]]>>]
              /\ open' = FALSE
              /\ records' = Len(kept)
              /\ told' = [id \in Ids |-> IF id \in gone THEN NoAnswer
                                         ELSE IF id = cur THEN reply ELSE told[id]]
           \/ /\ UNCHANGED <<journal, open, records>>
              /\ told' = [id \in Ids |-> IF id \in gone THEN NoAnswer ELSE told[id]]
  /\ pc' = "idle"
  /\ UNCHANGED <<cur, transcript, stateSeq, lastSeq, reply, rebooted>>

(* The provider or a file write fails; the caller gets an error.  A record *)
(* whose text is written may or may not have its newline.                  *)
PromptFails ==
  /\ \/ pc \in {"begin", "user", "reply", "result"}
     \/ pc \in {"beginLine", "resultLine"} /\ "torn" \in Hazards
  /\ pc' = "idle"
  /\ UNCHANGED <<cur, files, memory, ghosts>>

-----------------------------------------------------------------------------
(* The worker goes away and another recovers the session.                  *)

WorkerCrash ==
  /\ pc # "down"
  /\ "torn" \in Hazards \/ pc \notin {"beginLine", "resultLine"}
  /\ pc' = "down"
  /\ UNCHANGED <<cur, files, memory, ghosts>>

(* Every synced journal record survives; of transcript.jsonl some prefix,  *)
(* of state.json the version of some earlier moment.                       *)
MachineCrash ==
  /\ "machine" \in Hazards
  /\ ~rebooted
  /\ pc \notin {"beginLine", "resultLine"}
  /\ \E n \in 0..Len(transcript) : transcript' = SubSeq(transcript, 1, n)
  /\ stateSeq' \in 0..stateSeq
  /\ rebooted' = TRUE
  /\ pc' = "down"
  /\ UNCHANGED <<cur, journal, open, memory, executed, told>>

(* recover and RequestJournal::load.                                       *)
Recover ==
  /\ pc = "down"
  /\ lastSeq' = IF LastWritten > stateSeq THEN LastWritten ELSE stateSeq
  /\ stateSeq' = lastSeq'
  /\ outcomes' = [id \in Ids |-> Loaded(journal, id)]
  /\ order' \in UNION {[1..n -> Ids] : n \in 0..Cardinality(Ids)}
  /\ InOrderSeen(journal, order')
  /\ records' = Cardinality({i \in DOMAIN journal : Parses(journal[i])})
  /\ pc' = "idle"
  /\ cur' = NoId
  /\ reply' = NoEntry
  /\ UNCHANGED <<journal, open, transcript, ghosts>>

-----------------------------------------------------------------------------
Next ==
  \/ \E id \in Ids : Replay(id)
  \/ \E id \in Ids \cup {NoId} : Arrive(id)
  \/ BeginLine \/ BeginSync \/ UserTurn \/ ReplyTurn \/ WriteState
  \/ ResultLine \/ ResultSync \/ Compact \/ PromptFails
  \/ WorkerCrash \/ MachineCrash \/ Recover

Spec == Init /\ [][Next]_vars

-----------------------------------------------------------------------------
(***************************************************************************)
(* Properties.                                                             *)
(***************************************************************************)

(* A request is never dispatched a second time, whatever crashed in        *)
(* between, unless compaction has forgotten it: "a command received but    *)
(* lacking a durable result is reported uncertain and never blindly        *)
(* replayed" (request_journal.rs, begin before dispatch).                  *)
NeverBlindlyReplayed == pc = "user" => cur \notin executed

(* The file and, while a worker runs, its memory know of every request     *)
(* that was dispatched and not forgotten: the journal is written ahead.    *)
JournaledBeforeDispatch ==
  /\ \A id \in executed : Mentions(journal, id) # {}
  /\ pc # "down" => \A id \in executed : outcomes[id] # Unseen

(* What makes both inductive: memory lists the ids it has an outcome for;  *)
(* between records every line parses, and the request being dispatched is  *)
(* already in the file and in memory.                                      *)
MemoryInv ==
  /\ pc # "down" =>
       \A id \in Ids : outcomes[id] # Unseen <=> \E i \in DOMAIN order : order[i] = id
  /\ pc \in {"begin", "beginLine", "result", "resultLine", "compact"} => cur \in Ids

JournalInv ==
  /\ open <=> pc \in {"beginLine", "resultLine"}
  /\ \A i \in DOMAIN journal : Parses(journal[i])
  /\ pc \in {"begin", "beginLine", "user"} => cur \notin executed
  /\ pc \in {"beginLine", "user"} /\ cur \in Ids => Mentions(journal, cur) # {}
  /\ pc = "user" /\ cur \in Ids => outcomes[cur] # Unseen
  /\ JournaledBeforeDispatch

(* However often the worker crashes and the journal is compacted, a client *)
(* is only handed the answer of its own request: no replay returns another *)
(* prompt's entry or the user's turn (the lookup by sequence in            *)
(* prompt_with_images_and_request_id, the cursor recover takes up).        *)
IsOwn(answer, id) ==
  answer \notin {Uncertain, NoAnswer} => answer.by = id /\ answer.role = "assistant"

AnswerIsOwn == ~rebooted => \A id \in Ids : IsOwn(told[id], id)

(* Across a machine crash too: "a Completed record whose sequence is       *)
(* absent from the transcript is treated as Uncertain, not as a result to  *)
(* hand back" (request_journal.rs).                                        *)
AnswerIsOwnAfterReboot == \A id \in Ids : IsOwn(told[id], id)

(* Once a client was handed an answer, every retry gets the same one, over *)
(* any number of worker crashes and compactions, until the id is evicted:  *)
(* "repeating a completed command returns its stored result".              *)
AnswerIsFinal ==
  [][~rebooted' =>
       \A id \in Ids :
         told[id] \notin {Uncertain, NoAnswer} => told'[id] \in {told[id], NoAnswer}]_vars
=============================================================================
