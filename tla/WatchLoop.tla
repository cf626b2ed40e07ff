----------------------------- MODULE WatchLoop -----------------------------
(***************************************************************************)
(* watch-build (watch.py): the main thread waits for debounced changes and *)
(* sets an Event, one consumer thread clears it and builds.  Ctrl-C in the *)
(* main thread stops both.                                                 *)
(*                                                                         *)
(* Sources are abstracted to a version that every save increases.  A build *)
(* reads them once, at some moment after it has started, if it gets there: *)
(* one that fails before is reported, and not tried again.                 *)
(***************************************************************************)
EXTENDS Naturals

CONSTANTS
  MaxSaves,      \* bound on saves
  MayInterrupt   \* may the user press Ctrl-C?

ASSUME WatchAssumption == MaxSaves \in Nat /\ MayInterrupt \in BOOLEAN

VARIABLES
  main,      \* control point of run() and stop()
  consumer,  \* control point of _build_consumer
  pending,   \* _pending.is_set()
  stopping,  \* _stopping.is_set()
  saved,     \* version of the sources on disk
  dirty,     \* changes the watcher has seen and not yet yielded
  read,      \* the version the latest build has read
  asked,     \* history: the latest noticed version when the latest build was asked for
  failed,    \* history: the same of the latest build that failed before it read
  noticed,   \* history: latest version saved while the watcher was there
  reports,   \* history: changes yielded to run()
  builds     \* history: builds started

mainVars     == <<main, dirty, reports>>
consumerVars == <<consumer, read, asked, failed, builds>>
sourceVars   == <<saved, noticed>>
vars         == <<mainVars, consumerVars, sourceVars, pending, stopping>>

TypeOK ==
  /\ main \in {"prime", "register", "watch", "changed", "stop", "wake", "shutdown", "over"}
  /\ consumer \in {"absent", "loop", "wait", "woken", "check", "clear", "start", "build", "gone"}
  /\ pending \in BOOLEAN /\ stopping \in BOOLEAN /\ dirty \in BOOLEAN
  /\ saved \in 0..MaxSaves /\ noticed \in 0..MaxSaves
  /\ read \in 0..MaxSaves /\ asked \in 0..MaxSaves /\ failed \in 0..MaxSaves
  /\ reports \in Nat /\ builds \in Nat

Init ==
  /\ main = "prime"
  /\ consumer = "absent"
  /\ pending = FALSE /\ stopping = FALSE /\ dirty = FALSE
  /\ saved = 0 /\ noticed = 0 /\ read = 0 /\ asked = 0 /\ failed = 0
  /\ reports = 0 /\ builds = 0
-----------------------------------------------------------------------------
(* The user *)

Watching == main \notin {"prime", "register", "over"}

\* Only a watcher that is registered with the file system sees the change.
Save ==
  /\ saved < MaxSaves
  /\ saved' = saved + 1
  /\ dirty' = (dirty \/ Watching)
  /\ noticed' = IF Watching THEN saved' ELSE noticed
  /\ UNCHANGED <<main, reports, consumerVars, pending, stopping>>

\* KeyboardInterrupt while run() waits for changes or handles one.
Interrupt ==
  /\ MayInterrupt
  /\ main \in {"watch", "changed"}
  /\ main' = "stop"
  /\ UNCHANGED <<dirty, reports, consumerVars, sourceVars, pending, stopping>>
-----------------------------------------------------------------------------
(* run() and stop() in the main thread *)

\* The consumer starts on an initial build before anybody watches.
Prime ==
  /\ main = "prime"
  /\ pending' = TRUE
  /\ consumer' = "loop"
  /\ main' = "register"
  /\ UNCHANGED <<dirty, reports, read, asked, failed, builds, sourceVars, stopping>>

Register ==
  /\ main = "register"
  /\ main' = "watch"
  /\ UNCHANGED <<dirty, reports, consumerVars, sourceVars, pending, stopping>>

\* All changes of the debounce interval arrive as one.
Yield ==
  /\ main = "watch"
  /\ dirty
  /\ dirty' = FALSE
  /\ reports' = reports + 1
  /\ main' = "changed"
  /\ UNCHANGED <<consumerVars, sourceVars, pending, stopping>>

Request ==
  /\ main = "changed"
  /\ pending' = TRUE
  /\ main' = "watch"
  /\ UNCHANGED <<dirty, reports, consumerVars, sourceVars, stopping>>

Stop ==
  /\ main = "stop"
  /\ stopping' = TRUE
  /\ main' = "wake"
  /\ UNCHANGED <<dirty, reports, consumerVars, sourceVars, pending>>

Wake ==
  /\ main = "wake"
  /\ pending' = TRUE
  /\ main' = "shutdown"
  /\ UNCHANGED <<dirty, reports, consumerVars, sourceVars, stopping>>

\* The shells are closed and run() returns; the consumer, a daemon thread, dies
\* with the process wherever it is.
Exit ==
  /\ main = "shutdown"
  /\ main' = "over"
  /\ consumer' = "gone"
  /\ UNCHANGED <<dirty, reports, read, asked, failed, builds, sourceVars, pending, stopping>>

RunLoop == Prime \/ Register \/ Yield \/ Request \/ Stop \/ Wake \/ Exit
-----------------------------------------------------------------------------
(* _build_consumer *)

Loop ==
  /\ consumer = "loop"
  /\ consumer' = IF stopping THEN "gone" ELSE "wait"
  /\ UNCHANGED <<mainVars, read, asked, failed, builds, sourceVars, pending, stopping>>

\* wait(timeout=0.5) returns with or without the Event.
Wait ==
  /\ consumer = "wait"
  /\ consumer' = "woken"
  /\ UNCHANGED <<mainVars, read, asked, failed, builds, sourceVars, pending, stopping>>

\* _stopping and _pending are read one after the other, and stop() may run in
\* between.
Woken ==
  /\ consumer = "woken"
  /\ consumer' = IF stopping THEN "gone" ELSE "check"
  /\ UNCHANGED <<mainVars, read, asked, failed, builds, sourceVars, pending, stopping>>

Check ==
  /\ consumer = "check"
  /\ consumer' = IF pending THEN "clear" ELSE "loop"
  /\ UNCHANGED <<mainVars, read, asked, failed, builds, sourceVars, pending, stopping>>

\* Mutant: the Event stays set.
MutClear ==
  /\ consumer = "clear"
  /\ consumer' = "start"
  /\ builds' = builds + 1 /\ asked' = noticed
  /\ UNCHANGED <<mainVars, read, failed, sourceVars, pending, stopping>>

Clear ==
  /\ consumer = "clear"
  /\ pending' = FALSE
  /\ consumer' = "start"
  /\ builds' = builds + 1 /\ asked' = noticed
  /\ UNCHANGED <<mainVars, read, failed, sourceVars, stopping>>

ReadSources ==
  /\ consumer = "start"
  /\ read' = saved
  /\ consumer' = "build"
  /\ UNCHANGED <<mainVars, asked, failed, builds, sourceVars, pending, stopping>>

\* Mutant: the exception ends the consumer.
MutFailEarly ==
  /\ consumer = "start"
  /\ failed' = asked
  /\ consumer' = "gone"
  /\ UNCHANGED <<mainVars, read, asked, builds, sourceVars, pending, stopping>>

\* builder.run() raises, or gives a failed result, before Quartus has read anything.
FailEarly ==
  /\ consumer = "start"
  /\ failed' = asked
  /\ consumer' = "loop"
  /\ UNCHANGED <<mainVars, read, asked, builds, sourceVars, pending, stopping>>

\* Mutant: the request is taken back when the build is done.
MutBuilt ==
  /\ consumer = "build"
  /\ consumer' = "loop"
  /\ pending' = FALSE
  /\ UNCHANGED <<mainVars, read, asked, failed, builds, sourceVars, stopping>>

\* A build that fails or raises later is reported too and the loop goes on.
Built ==
  /\ consumer = "build"
  /\ consumer' = "loop"
  /\ UNCHANGED <<mainVars, read, asked, failed, builds, sourceVars, pending, stopping>>

Consume == Loop \/ Wait \/ Woken \/ Check \/ Clear \/ ReadSources \/ FailEarly \/ Built

\* After the process has ended nothing but saves can happen.
Over == main = "over" /\ UNCHANGED vars

Next == Save \/ Interrupt \/ RunLoop \/ Consume \/ Over

Spec == Init /\ [][Next]_vars

\* Both threads are scheduled, the watcher yields what it has seen, and a build
\* ends (it has a time limit); nobody has to save or to press Ctrl-C.
FairSpec == Spec /\ WF_vars(RunLoop) /\ WF_vars(Consume)
-----------------------------------------------------------------------------
(* Properties *)

\* Between two builds nothing is forgotten silently: every noticed save has been read by
\* a build, or is still on its way to the consumer, or a build that was started for it was
\* reported failed, wherever it fell in the clear-and-build of the consumer and the report
\* of the watcher.
NothingForgotten ==
  main \in {"watch", "changed"} /\ consumer \in {"loop", "wait", "woken", "check"} =>
    read >= noticed \/ failed >= noticed \/ dirty \/ main = "changed" \/ pending

\* Builds are asked for by the start and by changes only; the wake-up of stop()
\* adds one at most, when it falls between the consumer's two tests.
BuildsAskedFor == builds <= 1 + reports + (IF stopping THEN 1 ELSE 0)

\* "if a change arrives while a build is running, we mark a pending rebuild and fire it":
\* a noticed save is read by a build, or the build that was started for it is reported
\* failed, or the loop is stopped.
NoticedSavesBuilt ==
  \A v \in 1..MaxSaves : noticed = v ~> read >= v \/ failed >= v \/ main \in {"stop", "over"}

(* The inductive invariant *)

\* The consumer exists once the loop is primed; stop() comes after watching; only
\* the consumer takes a request away.
Phases ==
  /\ main = "prime" <=> consumer = "absent"
  /\ stopping <=> main \in {"wake", "shutdown", "over"}
  /\ consumer = "clear" => pending
  /\ failed <= asked /\ asked <= noticed /\ noticed <= saved

\* While the loop runs, a noticed save is newer than the last build, read or failed, only
\* if somebody has it in hand.
Coming ==
  main \in {"prime", "register", "watch", "changed"} =>
    \/ read >= noticed \/ failed >= noticed
    \/ dirty \/ main = "changed" \/ pending
    \/ consumer = "start" /\ asked >= noticed

\* Each time the Event is set it pays for one build.
Used ==
  builds + (IF pending THEN 1 ELSE 0) + (IF main = "changed" THEN 1 ELSE 0)
    <= (IF main = "prime" THEN 0 ELSE 1) + reports
         + (IF main \in {"shutdown", "over"} THEN 1 ELSE 0)

LoopInv == TypeOK /\ Phases /\ Coming /\ Used
=============================================================================
