---------------------------- MODULE MCLocalBuild ----------------------------
(***************************************************************************)
(* Instances of LocalBuild, SandboxCopy and Artifacts for TLC.  The second *)
(* details the step Start of LocalBuild, and the third the step Collect.   *)
(* They share no variable with it, so a behaviour is one of a single       *)
(* module: their states add up and do not multiply.                        *)
(***************************************************************************)
EXTENDS LocalBuild, SandboxCopy, Artifacts

MCInit == LocalInit /\ ArtInit /\ CopyInit

MCNext ==
  \/ /\ links /\ (\A b \in Builds : step[b] = "build") /\ work = <<>>
     /\ LocalNext /\ UNCHANGED <<artVars, copyVars>>
  \/ /\ mode = "ask full" /\ host.quartus /\ host.scripts /\ work = <<>>
     /\ ArtNext /\ UNCHANGED <<vars, copyVars>>
  \/ /\ links /\ (\A b \in Builds : step[b] = "build")
     /\ mode = "ask full" /\ host.quartus /\ host.scripts
     /\ CopyNext /\ UNCHANGED <<vars, artVars>>

MCSpec == MCInit /\ [][MCNext]_<<vars, artVars, copyVars>>

MCFairSpec == MCSpec /\ LocalFairness

\* A core with a directory of its own, and what earlier commands left in it.
Core ==
  {<<>>, <<"src">>, <<"src", "file">>, <<"src", "db">>,
   <<".superq">>, <<".superq", "file">>}

\* Where a sweep builds, and another file system.
Apart == {<<"core", ".superq", "job">>, <<"tmp">>}

-----------------------------------------------------------------------------
\* The state of the tasks and of the artifacts has its type.
LocalTypesOK == LocalTypeOK /\ ArtTypeOK
=============================================================================
