----------------------------- MODULE Succession -----------------------------
(***************************************************************************)
(* What the worker fence promises, with no tokens, files or messages: each *)
(* worker process serves a line of masters of strictly rising rank, and a  *)
(* command is taken only from the master of the moment.  A worker nobody   *)
(* has ever fenced serves everybody (worker/mod.rs, FenceCell).            *)
(***************************************************************************)
EXTENDS Integers

CONSTANTS Supervisors, Workers, NoSupervisor

VARIABLES
  rank,       \* rank[s]: fixed when supervisor process s is born, 0 before
  master,     \* master[w]: the supervisor w obeys, or NoSupervisor
  past,       \* past[w]: the supervisors that were w's master before
  accepted    \* <<s, w>>: a command of s that w has let in and not yet run

vars == <<rank, master, past, accepted>>

Init ==
  /\ rank = [s \in Supervisors |-> 0]
  /\ master = [w \in Workers |-> NoSupervisor]
  /\ past = [w \in Workers |-> {}]
  /\ accepted = {}

(* A supervisor process is born with some positive rank, once.             *)
Born(s) ==
  /\ rank[s] = 0
  /\ rank'[s] \in Nat \ {0}
  /\ rank' = [rank EXCEPT ![s] = rank'[s]]
  /\ UNCHANGED <<master, past, accepted>>

(* A first master may be anybody; a successor outranks its predecessor.    *)
Succeed(s, w) ==
  /\ rank[s] > 0
  /\ master[w] # NoSupervisor => rank[s] > rank[master[w]]
  /\ master' = [master EXCEPT ![w] = s]
  /\ past' = [past EXCEPT ![w] = @ \cup ({master[w]} \ {NoSupervisor})]
  /\ UNCHANGED <<rank, accepted>>

Accept(s, w) ==
  /\ master[w] \in {s, NoSupervisor}
  /\ accepted' = accepted \cup {<<s, w>>}
  /\ UNCHANGED <<rank, master, past>>

(* Commands are carried out, or die with their worker.                     *)
Finish ==
  /\ accepted' \in SUBSET accepted
  /\ UNCHANGED <<rank, master, past>>

Next ==
  \/ \E s \in Supervisors : Born(s)
  \/ \E s \in Supervisors, w \in Workers : Succeed(s, w) \/ Accept(s, w)
  \/ Finish

Spec == Init /\ [][Next]_vars
=============================================================================
