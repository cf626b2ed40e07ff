----------------------------- MODULE WarmShell -----------------------------
(***************************************************************************)
(* Persistent quartus_sh processes and the request protocol over their     *)
(* pipes (warm_shell.py, warm_shell.tcl).  A request is answered in the    *)
(* order of its arrival; `inbox` is both what the process still has to     *)
(* read and what the handle still has in _pending.  The reply queue of a   *)
(* call belongs to its caller alone, so a call that timed out leaves a     *)
(* request behind whose answer nobody hears: its `by` becomes Nobody.      *)
(*                                                                         *)
(* A compile runs in child processes of the shell.  Only the shell itself  *)
(* is terminated, never its group, so the compile of a shell that is gone  *)
(* goes on (`flow`) and holds the pipes open until it ends.                *)
(*                                                                         *)
(* The answer to a request and its delivery by the reader thread are one   *)
(* step.  The module only defines what happens to shells; who calls it,    *)
(* and with which locks held, is up to the modules that EXTEND it.         *)
(***************************************************************************)
EXTENDS Naturals, Sequences, FiniteSets

CONSTANTS
  Shells,   \* as many processes as may exist at a time
  Callers,  \* the threads that call run_tcl
  Replies,  \* what evaluating a TCL body can come to
  Nobody

ASSUME ShellAssumption ==
  /\ Replies \subseteq {"ok", "err", "exit"}
  /\ Nobody \notin Callers

Kinds   == {"ping", "open", "compile"}
Request == [kind : Kinds, by : Callers \cup {Nobody}]

VARIABLES
  proc,    \* the process; `busy` while it evaluates the head of its inbox
  mark,    \* _ready: attribute missing, event clear, event set
  flow,    \* does the compile of a shell that is gone still run?
  eof,     \* has the reader thread seen the end of stdout?
  inbox,   \* requests written and not answered
  answer   \* what each caller finds in the reply queue of its last call

shells == <<proc, mark, flow, eof, inbox, answer>>

ShellsTypeOK ==
  /\ proc \in [Shells -> {"unborn", "booting", "up", "busy", "dead"}]
  /\ mark \in [Shells -> {"missing", "clear", "set"}]
  /\ flow \in [Shells -> BOOLEAN]
  /\ eof \in [Shells -> BOOLEAN]
  /\ inbox \in [Shells -> Seq(Request)]
  /\ answer \in [Callers -> {"none", "ok", "err"}]

ShellsInit ==
  /\ proc = [s \in Shells |-> "unborn"]
  /\ mark = [s \in Shells |-> "missing"]
  /\ flow = [s \in Shells |-> FALSE]
  /\ eof = [s \in Shells |-> FALSE]
  /\ inbox = [s \in Shells |-> <<>>]
  /\ answer = [b \in Callers |-> "none"]

Alive(s)     == proc[s] \in {"booting", "up", "busy"}
Current(s)   == Head(inbox[s])
Compiling(s) == proc[s] = "busy" /\ Current(s).kind = "compile"

\* A name of the model is used again once its process and its reader are gone.
Reusable(s) == proc[s] = "unborn" \/ (proc[s] = "dead" /\ eof[s])
-----------------------------------------------------------------------------
(* The handle *)

Spawn(s) ==
  /\ proc' = [proc EXCEPT ![s] = "booting"]
  /\ mark' = [mark EXCEPT ![s] = "missing"]
  /\ eof' = [eof EXCEPT ![s] = FALSE]
  /\ inbox' = [inbox EXCEPT ![s] = <<>>]
  /\ UNCHANGED <<flow, answer>>

\* The request is registered and written under the handle's lock, with a reply
\* queue of its own.
Send(s, b, kind) ==
  /\ Alive(s) \/ flow[s]
  /\ inbox' = [inbox EXCEPT ![s] = Append(@, [kind |-> kind, by |-> b])]
  /\ answer' = [answer EXCEPT ![b] = "none"]
  /\ UNCHANGED <<proc, mark, flow, eof>>

\* Writing to a pipe that nobody holds open any more raises BrokenPipeError; a
\* compile that goes on may or may not have inherited it.
SendBreaks(s) ==
  /\ ~ Alive(s)
  /\ UNCHANGED shells

\* The caller stops listening; its request stays where it is.
Forget(s, b) ==
  [r \in DOMAIN inbox[s] |->
     IF inbox[s][r].by = b THEN [inbox[s][r] EXCEPT !.by = Nobody] ELSE inbox[s][r]]

Abandon(s, b) ==
  /\ answer[b] = "none"
  /\ inbox' = [inbox EXCEPT ![s] = Forget(s, b)]
  /\ UNCHANGED <<proc, mark, flow, eof, answer>>

\* The processes in S are gone, but not what they had started.
Kill(S) ==
  /\ proc' = [s \in Shells |-> IF s \in S /\ Alive(s) THEN "dead" ELSE proc[s]]
  /\ flow' = [s \in Shells |-> flow[s] \/ (s \in S /\ Compiling(s))]

\* close() sets _closed before it calls run_tcl, so the quit request is never
\* sent: the processes in S are terminated, and b waits for none of them.
Close(S, b) ==
  /\ Kill(S)
  /\ inbox' = [s \in Shells |-> IF s \in S THEN Forget(s, b) ELSE inbox[s]]
  /\ UNCHANGED <<mark, eof, answer>>
-----------------------------------------------------------------------------
(* The process and the reader thread *)

\* The first statement of _read_loop, in the new thread.
ReaderStarts(s) ==
  /\ proc[s] # "unborn"
  /\ mark[s] = "missing"
  /\ mark' = [mark EXCEPT ![s] = "clear"]
  /\ UNCHANGED <<proc, flow, eof, inbox, answer>>

Announce(s) ==
  /\ proc[s] = "booting"
  /\ mark[s] = "clear"
  /\ proc' = [proc EXCEPT ![s] = "up"]
  /\ mark' = [mark EXCEPT ![s] = "set"]
  /\ UNCHANGED <<flow, eof, inbox, answer>>

ReadLine(s) ==
  /\ proc[s] = "up"
  /\ inbox[s] # <<>>
  /\ proc' = [proc EXCEPT ![s] = "busy"]
  /\ UNCHANGED <<mark, flow, eof, inbox, answer>>

\* A ping is answered by the loop itself, a body is evaluated first.
Outcomes(s) == IF Current(s).kind = "ping" THEN {"ok"} ELSE Replies

SendFrame(s, outcome) ==
  /\ proc[s] = "busy"
  /\ outcome \in Outcomes(s) \ {"exit"}
  /\ proc' = [proc EXCEPT ![s] = "up"]
  /\ inbox' = [inbox EXCEPT ![s] = Tail(@)]
  /\ answer' = IF Current(s).by = Nobody THEN answer
               ELSE [answer EXCEPT ![Current(s).by] = outcome]
  /\ UNCHANGED <<mark, flow, eof>>

\* `exit` in the body, or an error outside the catch around it.
BodyExits(s) ==
  /\ proc[s] = "busy"
  /\ "exit" \in Outcomes(s)
  /\ proc' = [proc EXCEPT ![s] = "dead"]
  /\ UNCHANGED <<mark, flow, eof, inbox, answer>>

Die(s) ==
  /\ Alive(s)
  /\ Kill({s})
  /\ UNCHANGED <<mark, eof, inbox, answer>>

FlowEnds(s) ==
  /\ flow[s]
  /\ flow' = [flow EXCEPT ![s] = FALSE]
  /\ UNCHANGED <<proc, mark, eof, inbox, answer>>

\* Mutant: the reader forgets the pending requests without answering them.
MutDrain(s) ==
  /\ proc[s] = "dead"
  /\ ~ flow[s]
  /\ mark[s] # "missing"
  /\ ~ eof[s]
  /\ eof' = [eof EXCEPT ![s] = TRUE]
  /\ inbox' = [inbox EXCEPT ![s] = <<>>]
  /\ UNCHANGED <<proc, mark, flow, answer>>

\* At the end of stdout every pending request is answered with a failure.
Drain(s) ==
  /\ proc[s] = "dead"
  /\ ~ flow[s]
  /\ mark[s] # "missing"
  /\ ~ eof[s]
  /\ eof' = [eof EXCEPT ![s] = TRUE]
  /\ inbox' = [inbox EXCEPT ![s] = <<>>]
  /\ answer' = [b \in Callers |->
       IF \E i \in DOMAIN inbox[s] : inbox[s][i].by = b THEN "err" ELSE answer[b]]
  /\ UNCHANGED <<proc, mark, flow>>
=============================================================================
