---------------------------- MODULE MCServices ----------------------------
(***************************************************************************)
(* Instances of the parts of super-q that share no state, for TLC: a       *)
(* behaviour picks one of them at the start, and the others stay where     *)
(* they begin.                                                             *)
(***************************************************************************)
EXTENDS WatchLoop, Daemon, Explore, GhaWatch, Commands, Timing, FindCores

VARIABLE service

services ==
  <<vars, daemonVars, clash, exploreVars, ghaWatchVars, commandVars, timingVars, findVars>>

Picked(s) == service = s

\* A part that is not picked begins in one way.
MCInit ==
  /\ service \in {"watch", "daemon", "explore", "gha", "commands", "timing", "find"}
  /\ Init
  /\ DaemonInit   /\ (Picked("daemon") \/ asks = [c \in Callers |-> "ping"])
  /\ ExploreInit  /\ (Picked("explore") \/ ~printed)
  /\ GhaWatchInit /\ (Picked("gha") \/ (remote[0] = "absent" /\ ghaAt = "post" /\ ~thenWatch))
  /\ TimingInit
  /\ FindInit     /\ (Picked("find") \/ (projects = {} /\ marked = {}))
  /\ CommandsInit /\ (Picked("commands") \/ (command = "build" /\ ~asJson /\ plan = <<1>>))

MCNext ==
  \/ Picked("watch") /\ Next
       /\ UNCHANGED <<service, daemonVars, clash, exploreVars, ghaWatchVars, commandVars,
                      timingVars, findVars>>
  \/ Picked("daemon") /\ DaemonNext
       /\ UNCHANGED <<service, vars, exploreVars, ghaWatchVars, commandVars, timingVars, findVars>>
  \/ Picked("explore") /\ ExploreNext
       /\ UNCHANGED <<service, vars, daemonVars, clash, ghaWatchVars, commandVars, timingVars,
                      findVars>>
  \/ Picked("gha") /\ GhaWatchNext
       /\ UNCHANGED <<service, vars, daemonVars, clash, exploreVars, commandVars, timingVars,
                      findVars>>
  \/ Picked("commands") /\ CommandsNext
       /\ UNCHANGED <<service, vars, daemonVars, clash, exploreVars, ghaWatchVars, timingVars,
                      findVars>>
  \/ Picked("timing") /\ TimingNext
       /\ UNCHANGED <<service, vars, daemonVars, clash, exploreVars, ghaWatchVars, commandVars,
                      findVars>>
  \/ Picked("find") /\ FindNext
       /\ UNCHANGED <<service, vars, daemonVars, clash, exploreVars, ghaWatchVars, commandVars,
                      timingVars>>

\* The fairness of the watch loop and of a gha command.  The processes of the daemon run;
\* it need not be told to stop, nor a command be given.
MCFairness ==
  /\ WF_vars(Picked("watch") /\ RunLoop) /\ WF_vars(Picked("watch") /\ Consume)
  /\ \A p \in Parties : WF_daemonVars(Picked("daemon") /\ Steps(p))
  /\ \A p \in Callers : WF_daemonVars(Picked("daemon") /\ Client(p))
  /\ \A d \in Servers : WF_daemonVars(Picked("daemon") /\ Server(d))
  /\ WF_ghaWatchVars(Picked("gha") /\ GhaCommand)

MCSpec == MCInit /\ [][MCNext]_<<services, service>>

MCFairSpec == MCSpec /\ MCFairness

\* Rungs of at most one, two and four waves; the second shares a synthesis.
Rungs ==
  << [waves |-> 1, split |-> FALSE], [waves |-> 2, split |-> TRUE], [waves |-> 4, split |-> FALSE] >>

\* Projects in three search directories, beside one another and below each other's
\* parents; two of them below directories no walk enters, and one too deep.
Directories ==
  { <<"r", "src", "fpga">>, <<"r", "fpga">>, <<"r", "a", "quartus">>,
    <<"r", "db", "src", "fpga">>, <<"r", ".cache", "fpga">>,
    <<"r", "1", "2", "3", "4", "5", "6", "7">> }

Marks == { <<>>, <<"r">>, <<"r", "a">> }

BatchPaths == << <<"r", "a">>, <<"r">>, <<"r", "db">> >>

Signs == {-1, 1}

-----------------------------------------------------------------------------
\* The state of the watch loop and of the daemon has its type.
ServicesTypeOK == TypeOK /\ DaemonTypeOK

\* Whichever command it is (build, sweep, batch, ci, explore, gha watch): the code it ends
\* with, its outputs and its last report say what its sweeps or its run did
\* (src/super_q/cli.py:8-13).
CodesTell == ToldAsItWent /\ EndIsTold /\ BatchTellsAll /\ CodeIsEarned /\ OutputsAgree

\* No command hangs: a ping or call of the daemon is answered or hung up on, be the
\* daemon stopped or killed meanwhile, and gha trigger and watch stop asking.
CommandsEnd == CallsEnd /\ GhaEnds
=============================================================================
