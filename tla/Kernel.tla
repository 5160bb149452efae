------------------------------- MODULE Kernel -------------------------------
(***************************************************************************)
(* A session's IPython kernel and the worker that drives it: cells go out  *)
(* on shell, what they print, return and ask comes back on iopub, and the  *)
(* answers to what they ask (host_request) go in on control.  The worker   *)
(* runs one cell at a time, gives up on it after EXECUTE_TIMEOUT, and goes *)
(* on to the next while the kernel may still be at the old one.            *)
(* Source: ipython_runtime.rs, tool_runtime.rs, worker/mod.rs              *)
(* (bootstrap_kernel), session.rs (execute_tool_call,                      *)
(* run_pre_tool_call_hooks, execute_python_tool_call,                      *)
(* invoke_extension_command).                                              *)
(*                                                                         *)
(* The kernel itself is external: it is modelled from how bootstrap_kernel *)
(* programs it and what drain_until_idle_or_host_request expects of it.    *)
(***************************************************************************)
EXTENDS Integers, Sequences, SequencesExt

CONSTANTS
  MaxCells,   \* bound: cells sent in the worker's life
  MaxPrints,  \* bound: lines a cell prints
  MaxAsks     \* bound: host requests a tool call's cell makes; others make one

ASSUME KernelAssumption ==
  MaxCells \in Nat /\ MaxPrints \in Nat /\ MaxAsks \in Nat \ {0}

VARIABLES
  host,     \* what the worker is at, and what it has read for it
  pending,  \* PendingExecution: the cell a reply resumes, its result so far
  kernel,   \* up; subscribed to; its cell and what it waits for
  shell,    \* execute_requests on their way
  iopub,    \* messages on their way back
  control,  \* replies on their way
  seen      \* history

vars == <<host, pending, kernel, shell, iopub, control, seen>>

Cells == 1..MaxCells

NoCell == 0

Purposes == {"boot", "hook", "tool", "command"}

(* ask and await are comm_opens, of a request the cell then awaits or not. *)
Messages == [kind : {"stream", "mark", "result", "error", "ask", "await", "idle", "torn"},
             cell : Cells]

Results == {"none", "result", "error"}

TypeOK ==
  /\ host \in [stage : {"start", "welcome", "ready", "run", "drain", "handle", "down"},
               purpose : Purposes, sent : 0..MaxCells, drains : 0..MaxCells,
               out : 0..MaxPrints, mark : BOOLEAN, result : Results, awaited : BOOLEAN,
               hooked : BOOLEAN]
  /\ pending \in [cell : 0..MaxCells, result : Results]
  /\ kernel \in [up : BOOLEAN, heard : BOOLEAN, cell : 0..MaxCells,
                 asked : 0..MaxAsks, waits : 0..MaxAsks]
  /\ shell \in Seq(Cells) /\ iopub \in Seq(Messages)
  /\ control \in Seq([cell : Cells, awaited : BOOLEAN])
  /\ seen.printed \in [Cells -> 0..MaxPrints]
  /\ seen.result \in [Cells -> Results]
  /\ \A s \in {"asking", "marked", "failed", "wrong"} : seen[s] \subseteq Cells
  /\ seen.purpose \in [Cells -> Purposes]
  /\ seen.hookOf \in [Cells -> 0..MaxCells]
  /\ seen.missed \in BOOLEAN

Init ==
  /\ host = [stage |-> "start", purpose |-> "boot", sent |-> 0, drains |-> NoCell,
             out |-> 0, mark |-> FALSE, result |-> "none", awaited |-> FALSE,
             hooked |-> FALSE]
  /\ pending = [cell |-> NoCell, result |-> "none"]
  /\ kernel = [up |-> FALSE, heard |-> FALSE, cell |-> NoCell, asked |-> 0, waits |-> 0]
  /\ shell = <<>> /\ iopub = <<>> /\ control = <<>>
  /\ seen = [printed |-> [c \in Cells |-> 0], result |-> [c \in Cells |-> "none"],
             asking |-> {}, marked |-> {}, failed |-> {}, wrong |-> {},
             purpose |-> [c \in Cells |-> "boot"], hookOf |-> [c \in Cells |-> NoCell],
             missed |-> FALSE]

-----------------------------------------------------------------------------
(* The worker starts the kernel.                                           *)

(* start: the process is spawned, shell and iopub connect with retries     *)
(* until a deadline, and iopub subscribes; or something of that fails and  *)
(* the worker exits.                                                       *)
Start ==
  /\ host.stage = "start"
  /\ \/ kernel' = [kernel EXCEPT !.up = TRUE] /\ host' = [host EXCEPT !.stage = "welcome"]
     \/ kernel' \in {kernel, [kernel EXCEPT !.up = TRUE]}
        /\ host' = [host EXCEPT !.stage = "down"]
  /\ UNCHANGED <<pending, shell, iopub, control, seen>>

(* Mutant: start does not wait for the welcome.                            *)
NotWaited == TRUE

(* iopub_welcome, which the kernel sends once the subscription is live ... *)
Welcomed == kernel.heard

(* ... or IOPUB_WELCOME_TIMEOUT; then control connects and the kernel      *)
(* answers a kernel_info_request, or start fails.                          *)
Welcome ==
  /\ host.stage = "welcome"
  /\ \/ Welcomed /\ host' = [host EXCEPT !.stage = "run"] /\ UNCHANGED seen
     \/ /\ ~kernel.heard
        /\ host' = [host EXCEPT !.stage = "run"]
        /\ seen' = [seen EXCEPT !.missed = TRUE]
     \/ host' = [host EXCEPT !.stage = "down"] /\ UNCHANGED seen
  /\ UNCHANGED <<pending, kernel, shell, iopub, control>>

-----------------------------------------------------------------------------
(* The worker runs cells, under the session lock.                          *)

Sends(purpose, hook) ==
  LET c == host.sent + 1
  IN /\ c + (IF purpose = "hook" THEN 1 ELSE 0) \in Cells
     /\ kernel.up
     /\ shell' = Append(shell, c)
     /\ host' = [host EXCEPT !.stage = "drain", !.purpose = purpose, !.sent = c,
                             !.drains = c]
     /\ seen' = [seen EXCEPT !.purpose[c] = purpose, !.hookOf[c] = hook]
     /\ UNCHANGED <<pending, kernel, iopub, control>>

(* bootstrap_kernel's one cell.                                            *)
Boot ==
  /\ host.stage = "run" /\ host.purpose = "boot"
  /\ Sends("boot", NoCell)

(* execute_tool_call: the hooks first, if any were registered.             *)
CallTool ==
  /\ host.stage = "ready"
  /\ Sends(IF host.hooked THEN "hook" ELSE "tool", NoCell)

(* ... then execute_python_tool_call, unless they vetoed it.               *)
RunTool ==
  /\ host.stage = "run" /\ host.purpose = "hook"
  /\ Sends("tool", host.sent)

(* invoke_extension_command.                                               *)
Command ==
  /\ host.stage = "ready"
  /\ Sends("command", NoCell)

(* The future that was reading is dropped, with what it had read.          *)
Returns(stage) ==
  [host EXCEPT !.stage = stage, !.drains = NoCell, !.out = 0, !.mark = FALSE,
               !.result = "none", !.awaited = FALSE]

(* Mutant: hooks that do not come back veto nothing.                       *)
FailsOpen ==
  host' = Returns(CASE host.purpose = "boot" -> "down"
                    [] host.purpose = "hook" -> "run"
                    [] OTHER -> "ready")

(* An Err, passed up by every caller: the turn ends, and only bootstrap's  *)
(* ends the worker.                                                        *)
GivesUp == host' = Returns(IF host.purpose = "boot" THEN "down" ELSE "ready")

(* What the cell has come to: bootstrap reads the registry, the hooks'     *)
(* answer is their mark, and a tool call or a command has its output.      *)
Complete(out, result) ==
  LET c == host.sent
      whole == out = seen.printed[c] /\ result = seen.result[c]
  IN /\ host' = [Returns(IF host.purpose = "hook" /\ ~host.mark THEN "run" ELSE "ready")
                  EXCEPT !.hooked = IF host.purpose = "boot" THEN host.mark ELSE @]
     /\ seen' = [seen EXCEPT !.wrong = IF whole \/ host.purpose # "tool" THEN @
                                       ELSE @ \cup {c}]

(* Mutant: whatever comes on iopub is taken for this cell's.               *)
AnyParent(m) == TRUE

(* parent_header's msg_id is the request's.                                *)
OwnParent(m) == m.cell = host.drains

Skip ==
  /\ ~OwnParent(Head(iopub))
  /\ UNCHANGED <<host, pending, seen>>

Output ==
  LET m == Head(iopub)
  IN /\ OwnParent(m)
     /\ m.kind \in {"stream", "mark", "result", "error"}
     /\ host' = IF m.kind \in {"result", "error"} THEN [host EXCEPT !.result = m.kind]
                ELSE IF m.kind = "mark" THEN [host EXCEPT !.mark = TRUE]
                ELSE [host EXCEPT !.out = @ + 1]
     /\ UNCHANGED <<pending, seen>>

(* A host request: only execute_python_tool_call answers it; the others    *)
(* take what there is so far for the whole.                                *)
Request ==
  LET m == Head(iopub)
  IN /\ OwnParent(m) /\ m.kind \in {"ask", "await"}
     /\ pending' = [cell |-> host.drains, result |-> host.result]
     /\ IF host.purpose = "tool"
        THEN host' = [host EXCEPT !.stage = "handle", !.awaited = (m.kind = "await")] /\ UNCHANGED seen
        ELSE Complete(host.out, host.result)

Idle ==
  LET m == Head(iopub)
  IN /\ OwnParent(m) /\ m.kind = "idle"
     /\ Complete(host.out, host.result)
     /\ UNCHANGED pending

(* drain_until_idle_or_host_request, one message of it.                    *)
Receive ==
  /\ host.stage = "drain"
  /\ iopub # <<>> /\ Head(iopub).kind # "torn"
  /\ iopub' = Tail(iopub)
  /\ Skip \/ Output \/ Request \/ Idle
  /\ UNCHANGED <<kernel, shell, control>>

(* handle_host_request answers, resume_execute sends it and takes pending; *)
(* or the handler fails, and nothing is sent.                              *)
Handle ==
  /\ host.stage = "handle"
  /\ control' = Append(control, [cell |-> host.drains, awaited |-> host.awaited])
  /\ pending' = [cell |-> NoCell, result |-> "none"]
  /\ host' = [host EXCEPT !.stage = "drain", !.drains = pending.cell, !.result = pending.result]
  /\ UNCHANGED <<kernel, shell, iopub, seen>>

(* The request the cell awaits, if any, is left unanswered.                *)
Abandons == seen' = [seen EXCEPT !.failed = @ \cup {host.sent}]

HandleFails ==
  /\ host.stage = "handle"
  /\ Abandons
  /\ GivesUp
  /\ UNCHANGED <<pending, kernel, shell, iopub, control>>

(* Mutant: comm_msg is not among the control handlers.                     *)
BetweenCells == kernel.cell = NoCell

(* bootstrap_kernel puts it there: read while a cell runs.                 *)
ControlIsRead == TRUE

(* The cell waits, the worker has read all it asked, and the cell could    *)
(* read no reply.                                                          *)
Stuck(c) ==
  /\ kernel.cell = c /\ kernel.waits > 0
  /\ control = <<>> \/ ~ControlIsRead
  /\ \A i \in DOMAIN iopub : iopub[i].kind # "await" \/ iopub[i].cell # c

(* Mutant: nothing bounds a cell.                                          *)
Unbounded == FALSE

Bounded == TRUE

(* EXECUTE_TIMEOUT cuts the drain wherever it is, in the middle of a       *)
(* message too: the rest of it is taken for a message of its own.          *)
Timeout ==
  /\ Bounded
  /\ host.stage = "drain"
  /\ IF Stuck(host.sent) THEN UNCHANGED seen ELSE Abandons
  /\ iopub' \in {iopub} \cup
       (IF iopub = <<>> THEN {} ELSE {[iopub EXCEPT ![1].kind = "torn"]})
  /\ GivesUp
  /\ UNCHANGED <<pending, kernel, shell, control>>

(* What is left of a cut message does not parse: an Err, after which the   *)
(* stream is in step again or never.                                       *)
Garbage ==
  /\ host.stage = "drain"
  /\ iopub # <<>> /\ Head(iopub).kind = "torn"
  /\ iopub' \in {iopub, Tail(iopub)}
  /\ GivesUp
  /\ Abandons
  /\ UNCHANGED <<pending, kernel, shell, control>>

(* The kernel is gone: sending to it, or reading past its last message.    *)
Broken ==
  /\ ~kernel.up
  /\ \/ host.stage = "run" /\ host' = [host EXCEPT !.stage = IF host.purpose = "boot"
                                                            THEN "down" ELSE "ready"]
     \/ host.stage \in {"drain", "handle"} /\ iopub = <<>> /\ GivesUp
  /\ seen' = [seen EXCEPT !.failed = @ \cup ({host.sent} \ {NoCell})]
  /\ UNCHANGED <<pending, kernel, shell, iopub, control>>

(* mark_stopped: a shutdown_request on control, then a kill either way.    *)
Shutdown ==
  /\ host.stage = "ready"
  /\ host' = Returns("down")
  /\ kernel' = [kernel EXCEPT !.up = FALSE, !.cell = NoCell, !.asked = 0, !.waits = 0]
  /\ UNCHANGED <<pending, shell, iopub, control, seen>>

-----------------------------------------------------------------------------
(* The kernel.                                                             *)

(* Before the subscription is live, what is published is lost.             *)
Publish(kinds, c) ==
  iopub' = IF kernel.heard THEN iopub \o [i \in DOMAIN kinds |-> [kind |-> kinds[i], cell |-> c]]
           ELSE iopub

Subscribe ==
  /\ kernel.up /\ ~kernel.heard
  /\ host.stage # "start"
  /\ kernel' = [kernel EXCEPT !.heard = TRUE]
  /\ UNCHANGED <<host, pending, shell, iopub, control, seen>>

(* After the worker is gone nothing of what it does is seen.               *)
Attended == kernel.up /\ host.stage # "down"

(* shell is served one request after the other.                            *)
Take ==
  /\ Attended /\ kernel.cell = NoCell
  /\ shell # <<>>
  /\ kernel' = [kernel EXCEPT !.cell = Head(shell), !.asked = 0, !.waits = 0]
  /\ shell' = Tail(shell)
  /\ UNCHANGED <<host, pending, iopub, control, seen>>

Running(c) == Attended /\ kernel.cell = c /\ kernel.waits = 0

PrintLine(c) ==
  /\ Running(c)
  /\ seen.purpose[c] = "tool" /\ seen.printed[c] < MaxPrints
  /\ c \notin seen.marked
  /\ seen' = [seen EXCEPT !.printed[c] = @ + 1]
  /\ Publish(<<"stream">>, c)
  /\ UNCHANGED <<host, pending, kernel, shell, control>>

(* The last line of bootstrap_kernel's cell, if hooks were registered, and *)
(* of the hooks' cell, if one of them gave a reason.                       *)
Mark(c) ==
  /\ Running(c)
  /\ c \notin seen.marked
  /\ c = 1 \/ seen.purpose[c] = "hook"
  /\ seen' = [seen EXCEPT !.marked = @ \cup {c}]
  /\ Publish(<<"mark">>, c)
  /\ UNCHANGED <<host, pending, kernel, shell, control>>

(* host_request opens a comm; the cell may make several and need not await *)
(* them, and what an extension runs cannot.                                *)
Ask(c) ==
  /\ Attended /\ kernel.cell = c
  /\ kernel.asked < (IF seen.purpose[c] = "tool" THEN MaxAsks ELSE 1)
  /\ c \notin seen.marked
  /\ \E awaits \in BOOLEAN :
       /\ awaits => seen.purpose[c] = "tool"
       /\ kernel.waits > 0 => awaits
       /\ kernel' = [kernel EXCEPT !.asked = @ + 1,
                                   !.waits = IF awaits THEN @ + 1 ELSE @]
       /\ Publish(<<IF awaits THEN "await" ELSE "ask">>, c)
  /\ seen' = [seen EXCEPT !.asking = @ \cup {c}]
  /\ UNCHANGED <<host, pending, shell, control>>

(* The comm it is addressed to.                                            *)
Answers(reply) == reply.awaited /\ reply.cell = kernel.cell

Resolve ==
  /\ Attended
  /\ control # <<>>
  /\ ControlIsRead
  /\ control' = Tail(control)
  /\ kernel' = IF Answers(Head(control))
               THEN [kernel EXCEPT !.waits = @ - 1] ELSE kernel
  /\ UNCHANGED <<host, pending, shell, iopub, seen>>

(* The cell ends.  stop_on_error: with an error, the requests behind it    *)
(* are aborted.                                                            *)
End(c) ==
  /\ Running(c)
  /\ kernel' = [kernel EXCEPT !.cell = NoCell, !.asked = 0]
  /\ \/ /\ Publish(<<"idle">>, c)
        /\ UNCHANGED <<shell, seen>>
     \/ /\ seen.purpose[c] = "tool"
        /\ Publish(<<"result", "idle">>, c)
        /\ seen' = [seen EXCEPT !.result[c] = "result"]
        /\ UNCHANGED shell
     \/ /\ c \notin seen.marked
        /\ shell' = <<>>
        /\ seen' = [seen EXCEPT !.result[c] = IF seen.purpose[c] = "tool" THEN "error" ELSE @]
        /\ iopub' = IF kernel.heard
             THEN iopub \o <<[kind |-> "error", cell |-> c], [kind |-> "idle", cell |-> c]>>
                        \o [i \in DOMAIN shell |-> [kind |-> "idle", cell |-> shell[i]]]
             ELSE iopub
  /\ UNCHANGED <<host, pending, control>>

(* The kernel dies, or its parent poller finds the worker gone.            *)
Die ==
  /\ kernel.up
  /\ kernel' = [kernel EXCEPT !.up = FALSE, !.cell = NoCell, !.asked = 0, !.waits = 0]
  /\ UNCHANGED <<host, pending, shell, iopub, control, seen>>

KernelStep(c) == PrintLine(c) \/ Mark(c) \/ Ask(c) \/ End(c)

Reads == Receive \/ Garbage \/ Timeout \/ Broken

Next ==
  \/ Start \/ Welcome \/ Boot \/ CallTool \/ RunTool \/ Command
  \/ Reads
  \/ Handle \/ HandleFails
  \/ Shutdown
  \/ Subscribe \/ Take \/ Resolve \/ Die
  \/ \E c \in Cells : KernelStep(c)

Spec == Init /\ [][Next]_vars

(* The worker's own steps are taken, user code may run for ever, a kernel  *)
(* whose worker is gone notices.                                           *)
Fairness ==
  /\ WF_vars(Start \/ Welcome \/ Boot \/ RunTool)
  /\ WF_vars(Reads)
  /\ WF_vars(Handle \/ HandleFails)
  /\ WF_vars(Take)
  /\ WF_vars(Resolve)

FairSpec == Spec /\ Fairness

-----------------------------------------------------------------------------
(* Properties.                                                             *)

(* A tool call that is answered with a cell's output is answered with all  *)
(* of that cell's and nothing else: over pauses for host requests, after   *)
(* cells given up on that go on printing, and after requests left open by  *)
(* the bootstrap, hooks and commands.                                      *)
OutputIsWhole == seen.wrong = {}

(* A tool call runs only after the hooks did, when there are any, and not  *)
(* when they gave a reason; unless what ran them asked the host something, *)
(* which ends the reading before the mark.                                 *)
VetoHolds ==
  \A c \in 1..host.sent :
    LET h == IF seen.hookOf[c] = NoCell THEN 1 ELSE seen.hookOf[c]
    IN seen.purpose[c] = "tool" =>
         \/ h \notin seen.marked
         \/ h \in seen.asking
         \/ seen.missed

(* A request that a cell awaits is answered, unless the handler failed or  *)
(* the worker had given up on the cell; a timeout is no way out of a cell  *)
(* that waits for the worker alone.                                        *)
AwaitedIsAnswered ==
  \A c \in Cells :
    kernel.cell = c /\ kernel.waits > 0 ~> \/ kernel.cell # c \/ kernel.waits = 0
                                          \/ c \in seen.failed \/ host.stage = "down"

(* Whatever the kernel does, a cell's caller comes back.                   *)
CallReturns == host.stage \in {"drain", "handle", "run"} ~> host.stage \in {"ready", "down"}
=============================================================================
