-------------------------------- MODULE Viewer -------------------------------
(***************************************************************************)
(* A client attached to a session: the worker takes a snapshot of the      *)
(* transcript and subscribes to its events under the session lock, then    *)
(* copies events to the connection until the session ends or the reader    *)
(* fell behind; the supervisor relays them; the client shows them in the   *)
(* order they arrive.  `session attach`, the event lane of `session rpc`   *)
(* and, up to the snapshot, `session tree` and the REPL do this.  Source:  *)
(* client.rs (session_attach, session_rpc, forward_events,                 *)
(* fetch_session_snapshot), daemon/mod.rs (handle_session_attach),         *)
(* worker/mod.rs (SessionAttach).                                          *)
(***************************************************************************)
EXTENDS Turns

VARIABLE viewer   \* stage, the events on their way to it, the entries shown

viewerVars == <<turnVars, viewer>>

Stages == {"off", "asked", "subscribing", "attached", "closing", "ended"}

ViewerTypeOK ==
  /\ viewer.stage \in Stages
  /\ viewer.wire \in Seq(Nat) /\ viewer.view \in Seq(Nat)

Upto(n) == [i \in 1..n |-> i]

ViewerInit == viewer = [stage |-> "off", wire |-> <<>>, view |-> <<>>]

AskToAttach ==
  /\ viewer.stage = "off"
  /\ viewer' = [viewer EXCEPT !.stage = "asked"]
  /\ UNCHANGED turnVars

(* Mutant: the snapshot is taken beside the lock.                          *)
AttachUnlocked == worker' = [worker EXCEPT !.up = TRUE]

AttachLocked ==
  /\ LockIsFree
  /\ worker' = [worker EXCEPT !.up = TRUE, !.holder = Attacher]

(* resolve_worker revived the worker; snapshot_event.                      *)
TakeSnapshot ==
  /\ viewer.stage = "asked"
  /\ AttachLocked
  /\ viewer' = [stage |-> "subscribing", wire |-> <<>>, view |-> Upto(log)]
  /\ UNCHANGED <<log, ask, left, events, goal, spent>>

(* subscribe, then the guard is dropped.                                   *)
Subscribe ==
  /\ viewer.stage = "subscribing"
  /\ worker.up
  /\ events' = [NoStream EXCEPT !.on = TRUE]
  /\ worker' = IF worker.holder = Attacher THEN [worker EXCEPT !.holder = Nobody] ELSE worker
  /\ viewer' = [viewer EXCEPT !.stage = "attached"]
  /\ UNCHANGED <<log, ask, left, goal, spent>>

(* Mutant: a reader that fell behind goes on with what is left.            *)
LagIgnored == FALSE

FellBehind == events.lagged

Forward ==
  /\ viewer.stage = "attached"
  /\ events.ring # <<>>
  /\ ~FellBehind
  /\ viewer' = [viewer EXCEPT !.wire = Append(@, Head(events.ring))]
  /\ events' = [events EXCEPT !.ring = Tail(@), !.lagged = FALSE]
  /\ UNCHANGED <<worker, log, ask, left, goal, spent>>

EndStream ==
  /\ viewer.stage = "attached"
  /\ FellBehind
  /\ viewer' = [viewer EXCEPT !.stage = "closing"]
  /\ events' = NoStream
  /\ UNCHANGED <<worker, log, ask, left, goal, spent>>

Show ==
  /\ viewer.wire # <<>>
  /\ viewer' = [viewer EXCEPT !.wire = Tail(@), !.view = Append(@, Head(viewer.wire))]
  /\ UNCHANGED turnVars

ShowEnd ==
  /\ viewer.stage = "closing"
  /\ viewer.wire = <<>>
  /\ viewer' = [viewer EXCEPT !.stage = "ended"]
  /\ UNCHANGED turnVars

(* The worker ends: some of the unread events were still written.          *)
CutOff ==
  \/ /\ viewer.stage = "attached"
     /\ \E k \in 0..Len(events.ring) :
          /\ k > 0 => ~FellBehind
          /\ viewer' = [viewer EXCEPT !.stage = "closing",
                                      !.wire = @ \o SubSeq(events.ring, 1, k)]
  \/ viewer.stage = "subscribing" /\ viewer' = [viewer EXCEPT !.stage = "closing"]
  \/ viewer.stage \notin {"attached", "subscribing"} /\ UNCHANGED viewer

ViewerStep == AskToAttach \/ TakeSnapshot \/ Subscribe \/ Forward \/ EndStream \/ Show \/ ShowEnd

-----------------------------------------------------------------------------
(* Properties.                                                             *)

(* What a viewer is shown, has on its way and could still read is the      *)
(* transcript from its first entry without gap, repeat or reordering; and  *)
(* all of it while the stream lasts.  A reader that falls behind is cut    *)
(* off rather than skipped.  (An entry whose state.json could not be       *)
(* written has no event; the property leaves such histories out.)          *)
ViewIsExact ==
  LET arriving == viewer.view \o viewer.wire
      all == arriving \o events.ring
  IN  ~spent.unseen =>
        /\ arriving = Upto(Len(arriving))
        /\ (viewer.stage = "attached" /\ ~events.lagged) => all = Upto(log)
=============================================================================
