-------------------------------- MODULE Repl ---------------------------------
(***************************************************************************)
(* `session repl`: a reader thread passes lines to the main loop through a *)
(* channel; the main loop runs one prompt at a time beside it and queues   *)
(* the lines that come in meanwhile; commands run to their end before the  *)
(* next line.  A file named by /file goes with the next prompt.  Source:   *)
(* client.rs (session_repl, next_repl_line).                               *)
(***************************************************************************)
EXTENDS Turns

CONSTANTS
  Main,      \* the REPL's prompts
  MaxTyped   \* bound: lines typed

ASSUME ReplAssumption == Main \in Askers /\ MaxTyped \in Nat

VARIABLES
  typed,   \* kinds of the lines typed so far, in order; the end of input
  repl     \* the main loop

replVars == <<turnVars, typed, repl>>

(* "command" stands for the commands that do not prompt.                   *)
Kinds == {"text", "file", "heartbeat", "command", "switch", "login", "exit"}

ReplTypeOK ==
  /\ typed.kinds \in Seq(Kinds) /\ typed.eof \in BOOLEAN
  /\ repl.stage \in {"running", "prompting", "inline", "login", "done"}
  /\ repl.received \in 0..MaxTyped
  /\ repl.queue \in Seq(1..MaxTyped)
  /\ repl.file \in 0..MaxTyped
  /\ repl.sent \in Seq([line : 1..MaxTyped, file : 0..MaxTyped])

ReplInit ==
  /\ typed = [kinds |-> <<>>, eof |-> FALSE]
  /\ repl = [stage |-> "running", received |-> 0, queue |-> <<>>, readerDone |-> FALSE,
             file |-> 0, answers |-> 0, why |-> "none", eaten |-> {}, sent |-> <<>>]

(* The reader's thread: what it typed and the loop has not received is in  *)
(* the channel.                                                            *)
Type ==
  /\ ~typed.eof
  /\ \/ /\ Len(typed.kinds) < MaxTyped
        /\ \E k \in Kinds : typed' = [typed EXCEPT !.kinds = Append(@, k)]
     \/ typed' = [typed EXCEPT !.eof = TRUE]
  /\ UNCHANGED <<turnVars, repl>>

Arrived == repl.received < Len(typed.kinds)

AtEnd == typed.eof /\ ~Arrived

Kind(l) == typed.kinds[l]

Stops(why) == repl' = [repl EXCEPT !.stage = "done", !.why = why]

-----------------------------------------------------------------------------
(* While a prompt is in flight: the reader and the reply race.             *)

(* Mutant: a line typed during a reply goes in front.                      *)
QueueAtFront(l) == <<l>> \o repl.queue

Queued(l) == Append(repl.queue, l)

QueueLine ==
  /\ repl.stage = "prompting"
  /\ \/ /\ Arrived
        /\ repl' = [repl EXCEPT !.received = @ + 1, !.queue = Queued(repl.received + 1)]
     \/ AtEnd /\ ~repl.readerDone /\ repl' = [repl EXCEPT !.readerDone = TRUE]
  /\ UNCHANGED <<turnVars, typed>>

(* A failed prompt, a timeout among them, ends the REPL with its queue.    *)
Reply ==
  /\ repl.stage \in {"prompting", "inline"}
  /\ \/ Takes(Main, "ok") /\ repl' = [repl EXCEPT !.stage = "running"]
     \/ Takes(Main, "error") /\ Stops("error")
  /\ UNCHANGED <<worker, log, left, events, goal, spent, typed>>

-----------------------------------------------------------------------------
(* Otherwise the queue's first line is handled, then the channel's.        *)

NextLine == IF repl.queue # <<>> THEN Head(repl.queue) ELSE repl.received + 1

HasLine == repl.stage = "running" /\ (repl.queue # <<>> \/ Arrived)

(* What is left of queue and channel once the next line is taken.          *)
Taken ==
  IF repl.queue # <<>> THEN [repl EXCEPT !.queue = Tail(@)]
                       ELSE [repl EXCEPT !.received = @ + 1]

(* Mutant: the end of the input ends the loop, queue or not.               *)
EndsAtOnce == repl.stage = "running" /\ repl.readerDone

Drained == repl.stage = "running" /\ repl.queue = <<>> /\ AtEnd

EndOfLines ==
  /\ Drained
  /\ Stops("eof")
  /\ UNCHANGED <<turnVars, typed>>

(* Mutant: the file stays for later prompts too.                           *)
FileKept == repl.file

FileTaken == 0

Text ==
  /\ HasLine /\ Kind(NextLine) = "text"
  /\ Sends(Main)
  /\ repl' = [Taken EXCEPT !.stage = "prompting", !.file = FileTaken,
                           !.sent = Append(@, [line |-> NextLine, file |-> repl.file])]
  /\ UNCHANGED <<worker, log, left, events, goal, typed>>

(* Images collect, a text file replaces the one before: the last one named *)
(* stands for both.                                                        *)
File ==
  /\ HasLine /\ Kind(NextLine) = "file"
  /\ \/ repl' = [Taken EXCEPT !.file = NextLine]
     \/ repl' = Taken                             \* not readable
  /\ UNCHANGED <<turnVars, typed>>

(* /heartbeat and /skill send a prompt of their own and wait for it here;  *)
(* without an active goal /heartbeat only says so.                         *)
Heartbeat ==
  /\ HasLine /\ Kind(NextLine) = "heartbeat"
  /\ \/ goal.active /\ Sends(Main) /\ repl' = [Taken EXCEPT !.stage = "inline"]
     \/ ~goal.active /\ repl' = Taken /\ UNCHANGED <<ask, spent>>
  /\ UNCHANGED <<worker, log, left, events, goal, typed>>

(* /compact, /fork, /tree, /branch-summary, /name, /session, extensions:   *)
(* one request each, whose failure ends the REPL.                          *)
Command ==
  /\ HasLine /\ Kind(NextLine) = "command"
  /\ \/ repl' = Taken
     \/ repl' = [Taken EXCEPT !.stage = "done", !.why = "error"]
  /\ UNCHANGED <<turnVars, typed>>

(* /new and /resume: refused while lines are queued, and dropped.  Which   *)
(* session the prompts go to from then on is not told apart.               *)
Switch ==
  /\ HasLine /\ Kind(NextLine) = "switch"
  /\ repl' = Taken
  /\ UNCHANGED <<turnVars, typed>>

(* /login takes its two answers from the channel, past the queue.          *)
Login ==
  /\ HasLine /\ Kind(NextLine) = "login"
  /\ repl' = [Taken EXCEPT !.stage = "login", !.answers = 0]
  /\ UNCHANGED <<turnVars, typed>>

LoginAnswer ==
  /\ repl.stage = "login"
  /\ \/ /\ Arrived
        /\ \E more \in {n \in {1} : repl.answers = 0} \cup {0} :
             repl' = [repl EXCEPT !.received = @ + 1, !.eaten = @ \cup {repl.received + 1},
                                  !.answers = more,
                                  !.stage = IF more = 1 THEN "login" ELSE "running"]
     \/ AtEnd /\ repl' = [repl EXCEPT !.readerDone = TRUE, !.stage = "running", !.answers = 0]
  /\ UNCHANGED <<turnVars, typed>>

Quit ==
  /\ HasLine /\ Kind(NextLine) = "exit"
  /\ repl' = [Taken EXCEPT !.stage = "done", !.why = "exit"]
  /\ UNCHANGED <<turnVars, typed>>

ReplStep ==
  \/ Type \/ QueueLine \/ Reply \/ EndOfLines
  \/ Text \/ File \/ Heartbeat \/ Command \/ Switch \/ Login \/ LoginAnswer \/ Quit

-----------------------------------------------------------------------------
(* Properties.                                                             *)

Texts == {l \in 1..Len(typed.kinds) : Kind(l) = "text"} \ repl.eaten

FilesBetween(k, l) == {f \in k..l : Kind(f) = "file" /\ f \notin repl.eaten}

(* Prompts go out in the order they were typed, through queue and channel, *)
(* each with a file named after the prompt before it and before itself, if *)
(* any; and a REPL that ends with its input, not by /exit or an error, has *)
(* sent every one of them.                                                 *)
TypedIsSent ==
  /\ \A i \in 1..Len(repl.sent) :
       LET prev == IF i = 1 THEN 0 ELSE repl.sent[i - 1].line
           this == repl.sent[i]
       IN  /\ prev < this.line
           /\ this.file \in FilesBetween(prev + 1, this.line) \cup {0}
  /\ (repl.stage = "done" /\ repl.why = "eof") =>
       Texts = {repl.sent[i].line : i \in 1..Len(repl.sent)}

(* /login is answered with the lines typed after it: does not hold, with   *)
(* lines queued behind it those become prompts instead.                    *)
LoginTakesNextLines ==
  repl.stage = "login" => repl.queue = <<>>
=============================================================================
