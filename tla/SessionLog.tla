----------------------------- MODULE SessionLog -----------------------------
(***************************************************************************)
(* One session's transcript.jsonl and state.json: the tree of entries, the *)
(* active leaf the next entry continues from, compaction of the active     *)
(* chain, crashes and recovery, and what `session fork` copies.  Source:   *)
(* session.rs (recover, prompt_with_images_inner, append_entry,            *)
(* active_chain, build_turns, compact_now, set_active_leaf,                *)
(* snapshot_for_fork, seed_forked_session), under the session lock.        *)
(***************************************************************************)
EXTENDS Integers, Sequences, FiniteSets

CONSTANTS
  MaxRounds,     \* MAX_TOOL_ROUNDS
  MaxCalls,      \* bound: tool calls in one reply of the model
  MaxEntries,    \* bound: transcript entries
  MaxSwitches,   \* bound: times the leaf is redirected
  MaxFaults,     \* bound: crashes and failed requests
  LegacyEntries  \* lengths of transcripts that predate parent_sequence

ASSUME LimitsAssumption ==
  /\ MaxRounds \in Nat \ {0} /\ MaxCalls \in Nat \ {0} /\ MaxEntries \in Nat
  /\ MaxSwitches \in Nat /\ MaxFaults \in Nat
  /\ LegacyEntries \subseteq Nat

VARIABLES
  pc,          \* the worker: down, idle, or where in a request it is
  plan,        \* kinds of the entries the request still has to append
  after,       \* pc once the plan is carried out
  rounds,      \* tool rounds of this prompt
  transcript,  \* transcript.jsonl, equal to the worker's copy
  state,       \* the worker's SessionState
  saved,       \* state.json
  acked,       \* history: entries whose append returned
  used         \* history: leaf switches, faults, kernel compactions

vars == <<pc, plan, after, rounds, transcript, state, saved, acked, used>>

(* request: an assistant entry with tool calls; tool: a call's result.     *)
Kinds == {"user", "assistant", "request", "tool", "system"}
Entries == [sequence : Nat, parent : Nat, kind : Kinds]

(* covers: the entries the running summary was made of.                    *)
States == [last : Nat, leaf : Nat, upTo : Nat, covers : SUBSET Nat]

TypeOK ==
  /\ pc \in {"down", "idle", "append", "save", "round", "respond"}
  /\ plan \in Seq(Kinds)
  /\ pc \in {"append", "save"} => plan # << >>
  /\ after \in {"idle", "round", "respond"}
  /\ rounds \in 0..MaxRounds
  /\ transcript \in Seq(Entries)
  /\ state \in States
  /\ saved \in States
  /\ acked \subseteq Nat
  /\ used \in [switches : 0..MaxSwitches, faults : 0..MaxFaults, kernel : BOOLEAN]

(* A new session, or one whose entries carry no parent_sequence and whose  *)
(* state.json has no active leaf; 0 is None.                               *)
Init ==
  /\ pc = "down"
  /\ plan = << >>
  /\ after = "idle"
  /\ rounds = 0
  /\ \E n \in LegacyEntries :
       /\ transcript = [i \in 1..n |-> [sequence |-> i, parent |-> 0,
                          kind |-> IF i % 2 = 1 THEN "user" ELSE "assistant"]]
       /\ saved = [last |-> n, leaf |-> 0, upTo |-> 0, covers |-> {}]
       /\ acked = 1..n
  /\ state = saved
  /\ used = [switches |-> 0, faults |-> 0, kernel |-> FALSE]

-----------------------------------------------------------------------------
(* The tree.  An entry's sequence is its place in the file (TreeIsWhole),  *)
(* so that looking it up by sequence is indexing.                          *)

LastWritten == IF transcript = << >> THEN 0 ELSE transcript[Len(transcript)].sequence

(* effective_parent_sequence: a legacy entry continues from the one before *)
EffectiveParent(entry) ==
  IF entry.parent # 0 THEN entry.parent ELSE entry.sequence - 1

(* active_chain: the sequences from a leaf back to the root.               *)
Chain(leaf) ==
  LET upFrom[n \in 0..Len(transcript)] ==
        IF n = 0 THEN {} ELSE {n} \cup upFrom[EffectiveParent(transcript[n])]
  IN upFrom[leaf]

Kind(n) == transcript[n].kind

(* build_turns: what of the active chain the provider is sent verbatim.    *)
Visible == {n \in Chain(state.leaf) : n > state.upTo}

-----------------------------------------------------------------------------
(* append_entry: the line, then the leaf and the cursor, then state.json.  *)

AppendLine ==
  /\ pc = "append"
  /\ Len(transcript) < MaxEntries
  /\ LET n == state.last + 1
     IN /\ transcript' = Append(transcript, [sequence |-> n, parent |-> state.leaf,
                                             kind |-> Head(plan)])
        /\ state' = [state EXCEPT !.last = n, !.leaf = n]
  /\ pc' = "save"
  /\ UNCHANGED <<plan, after, rounds, saved, acked, used>>

(* Mutant: the leaf moves after the state file is written.                 *)
WriteStateTooEarly ==
  saved' = [state EXCEPT !.leaf = transcript[state.leaf].parent]

WriteState == saved' = state

AppendDone ==
  /\ pc = "save"
  /\ WriteState
  /\ acked' = acked \cup {state.leaf}
  /\ plan' = Tail(plan)
  /\ pc' = IF plan' = << >> THEN after ELSE "append"
  /\ rounds' = IF pc' = "idle" THEN 0 ELSE rounds
  /\ UNCHANGED <<after, transcript, state, used>>

-----------------------------------------------------------------------------
(* prompt_with_images_inner, and entries appended outside of a prompt:     *)
(* agent messages, usage attributions, branch summaries.                   *)

Begin(kind, next) ==
  /\ pc = "idle"
  /\ plan' = <<kind>>
  /\ after' = next
  /\ pc' = "append"
  /\ UNCHANGED <<rounds, transcript, state, saved, acked, used>>

Prompt == Begin("user", "round")

SystemEntry == Begin("system", "idle")

RoundsLeft == rounds < MaxRounds

(* One round: a final text (or "(cancelled", or "(stopped after"), or tool *)
(* calls and each call's result in turn.                                   *)
Respond ==
  /\ pc \in {"round", "respond"}
  /\ \/ /\ plan' = <<"assistant">>
        /\ after' = "idle"
        /\ UNCHANGED rounds
     \/ /\ RoundsLeft
        /\ \E calls \in 1..MaxCalls : plan' = <<"request">> \o [i \in 1..calls |-> "tool"]
        /\ after' = "round"
        /\ rounds' = rounds + 1
  /\ pc' = "append"
  /\ UNCHANGED <<transcript, state, saved, acked, used>>

Fault ==
  /\ used.faults < MaxFaults
  /\ used' = [used EXCEPT !.faults = @ + 1]
  /\ after' = "idle"
  /\ plan' = << >>
  /\ rounds' = 0
  /\ UNCHANGED <<transcript, saved, acked>>

(* A provider, tool or file error ends the request where it is.            *)
Fail ==
  /\ pc \in {"append", "save", "round", "respond"}
  /\ Fault
  /\ pc' = "idle"
  /\ UNCHANGED state

-----------------------------------------------------------------------------
(* compact_now.  The token budget may end the fold at any candidate that   *)
(* has text (a tool request has none).                                     *)

(* Mutant: the cut stays where the budget put it.                          *)
NaiveCut(n) == n

(* adjust_fold_count_to_turn_boundary: past every result that follows.     *)
TurnBoundary(n) ==
  CHOOSE m \in Visible :
    /\ m >= n
    /\ \A k \in Visible : n < k /\ k <= m => Kind(k) = "tool"
    /\ \A k \in Visible : m < k => \E j \in Visible : m < j /\ j <= k /\ Kind(j) # "tool"

(* Mutant: the boundary is the first entry that is kept.                   *)
FoldPastTo(cut) ==
  LET kept == {k \in Visible : k > cut}
      boundary == IF kept = {} THEN cut ELSE CHOOSE k \in kept : \A j \in kept : k <= j
  IN [state EXCEPT !.upTo = boundary,
                   !.covers = @ \cup {k \in Visible : k <= cut}]

FoldUpTo(cut) ==
  [state EXCEPT !.upTo = cut, !.covers = @ \cup {k \in Visible : k <= cut}]

(* By /compact or session compact; before a round; or by compact.now from  *)
(* the kernel, while one of the round's tool calls runs.                   *)
Compact ==
  /\ \/ /\ pc = "idle"
        /\ UNCHANGED <<after, used>>
     \/ /\ pc = "round" /\ RoundsLeft /\ after' = "respond"
        /\ UNCHANGED used
     \/ /\ pc = "append" /\ Head(plan) = "tool"
        /\ used' = [used EXCEPT !.kernel = TRUE]
        /\ UNCHANGED after
  /\ Len(transcript) < MaxEntries
  /\ \E n \in Visible :
       /\ Kind(n) # "request"
       /\ state' = FoldUpTo(TurnBoundary(n))
  /\ saved' = state'
  /\ plan' = <<"system">> \o plan
  /\ pc' = "append"
  /\ UNCHANGED <<rounds, transcript, acked>>

(* set_active_leaf: any entry of the transcript, on any branch.            *)
SetActiveLeaf(n) ==
  /\ pc = "idle"
  /\ n # state.leaf
  /\ state' = [state EXCEPT !.leaf = n]
  /\ saved' = state'
  /\ used.switches < MaxSwitches
  /\ used' = [used EXCEPT !.switches = @ + 1]
  /\ UNCHANGED <<pc, plan, after, rounds, transcript, acked>>

-----------------------------------------------------------------------------
Crash ==
  /\ pc # "down"
  /\ Fault
  /\ pc' = "down"
  /\ state' = saved

(* Mutant: state.json's cursor is trusted.                                 *)
SavedCursor == saved.last

Cursor == IF LastWritten > saved.last THEN LastWritten ELSE saved.last

Recover ==
  /\ pc = "down"
  /\ state' = [saved EXCEPT !.last = Cursor,
                            !.leaf = IF @ = 0 THEN LastWritten ELSE @]
  /\ saved' = state'
  /\ pc' = "idle"
  /\ UNCHANGED <<plan, after, rounds, transcript, acked, used>>

Next ==
  \/ AppendLine \/ AppendDone \/ Prompt \/ SystemEntry \/ Respond \/ Fail
  \/ Compact \/ Crash \/ Recover
  \/ \E n \in DOMAIN transcript : SetActiveLeaf(n)

Spec == Init /\ [][Next]_vars

-----------------------------------------------------------------------------
(* session fork, read off the files at any moment.                         *)

(* Mutant: the entry named by --at is left out.                            *)
RetainedBelow(at) == {n \in DOMAIN transcript : transcript[n].sequence < at}

(* snapshot_for_fork's retain.                                             *)
Retained(at) == {n \in DOMAIN transcript : transcript[n].sequence <= at}

(* The seeded session has no leaf, so its recovery takes the last entry.   *)
ForkedChain(at) ==
  IF Retained(at) = {} THEN {}
  ELSE Chain(CHOOSE n \in Retained(at) : \A m \in Retained(at) : m <= n)

-----------------------------------------------------------------------------
(***************************************************************************)
(* Properties.                                                             *)
(***************************************************************************)

(* The file stays a tree: through crashes between a line and state.json no *)
(* sequence is used twice or skipped, every entry's parent was written     *)
(* before it, and the leaf names an entry if there is one (append_entry,   *)
(* recover, active_chain).                                                 *)
TreeIsWhole ==
  /\ \A i \in DOMAIN transcript :
       /\ transcript[i].sequence = i
       /\ EffectiveParent(transcript[i]) \in 0..(i - 1)
  /\ pc # "down" =>
       /\ state.last = Len(transcript)
       /\ state.leaf \in DOMAIN transcript \/ (state.leaf = 0 /\ transcript = << >>)

(* An entry whose append returned stays part of the conversation, over any *)
(* crash, failed write, compaction or recovery, until somebody redirects   *)
(* the leaf (active_chain, write_state before the broadcast).              *)
AckedTurnsStay ==
  pc # "down" /\ used.switches = 0 => acked \subseteq Chain(state.leaf)

(* recover's comment: if "a crash between an append and the state-file     *)
(* rewrite left it stale", the leaf is to "fall back to the transcript's   *)
(* own last entry".  An entry in the file stays in the conversation.       *)
WrittenTurnsStay ==
  pc # "down" /\ used.switches = 0 => DOMAIN transcript \subseteq Chain(state.leaf)

(* README.md: "The cut point never lands between a tool call and its own   *)
(* result".  Every tool result the provider is shown has its request shown *)
(* too.                                                                    *)
CutNeverSplitsToolCall ==
  pc # "down" =>
    \A n \in Visible : Kind(n) = "tool" =>
      \E r \in Visible :
        /\ r < n /\ Kind(r) = "request"
        /\ \A k \in Chain(state.leaf) : r < k /\ k < n => Kind(k) \in {"tool", "system"}

(* The same of compactions between rounds or between prompts, after any    *)
(* crash or failed tool call, while the leaf is never redirected.  (A      *)
(* boundary is a sequence number, so redirecting the leaf to a branch made *)
(* while a turn was cut off elsewhere may show the end of a tool call      *)
(* whose request is below the boundary.)                                   *)
CutBetweenTurns == used.switches = 0 /\ ~used.kernel => CutNeverSplitsToolCall

Hidden == {n \in Chain(state.leaf) : n <= state.upTo}

(* protocol.rs: "`summary` always covers everything up through             *)
(* `compacted_up_to_sequence` in one piece".  Whatever of the conversation *)
(* build_turns leaves out, the running summary was made of.                *)
HiddenIsSummarised == pc # "down" => Hidden \subseteq state.covers

(* While the leaf is never redirected the summary is of exactly what is    *)
(* left out, nothing else and nothing less: through kernel compactions in  *)
(* the middle of a turn, and crashes or failures between the state file    *)
(* and the note (compact_now, build_turns).                                *)
SummaryIsOfHidden ==
  pc # "down" /\ used.switches = 0 => Hidden = state.covers

(* README.md: a fork's transcript is a copy "up through --at N".  As long  *)
(* as the leaf is never redirected, the fork's own conversation has every  *)
(* entry of the source's up to there, whatever it caught half-written.     *)
ForkContinues ==
  saved.leaf # 0 /\ used.switches = 0 =>
    \A at \in DOMAIN transcript :
      {n \in Chain(saved.leaf) : n <= at} \subseteq ForkedChain(at)
=============================================================================
