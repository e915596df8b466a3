------------------------------ MODULE MCRetained ------------------------------
(* Small instances of what a session retains: the history of its commands, and *)
(* the environment of its last success.  A behaviour is one of one lane; the   *)
(* variables of the other lane never change.                                   *)
EXTENDS CommandHistory, EnvironmentDrift, TLC

CONSTANTS w1, w2, k1, k2

VARIABLE lane

allVars == <<lane, vars, driftVars>>

-----------------------------------------------------------------------------
(* The history: two commands of the user and two that run the CLI.  A frame of *)
(* the plug-in carries neither line nor output, a JSON shell's both.           *)
MCControls == {k1, k2}
MCCommands == {w1, w2} \cup MCControls
MCFinishes == {[line |-> FALSE, out |-> None, err |-> None],
               [line |-> TRUE, out |-> 3, err |-> 2]}
MCSymmetry == Permutations({w1, w2}) \cup Permutations(MCControls)

-----------------------------------------------------------------------------
(* The environments are the configuration's: two places, one environment, and  *)
(* in each place a branch, another one or a repository that Git cannot read.   *)
-----------------------------------------------------------------------------
MCInit ==
  /\ lane \in {"history", "drift"}
  /\ Init /\ DriftInit
  /\ lane # "drift" => git = [p \in Places |-> "main"] /\ shell.cwd = "work"

MCNext ==
  \/ lane = "history" /\ Next /\ UNCHANGED <<lane, driftVars>>
  \/ lane = "drift" /\ DriftNext /\ UNCHANGED <<lane, vars>>

MCSpec == MCInit /\ [][MCNext]_allVars

-----------------------------------------------------------------------------
(* What the documents say and the code does not keep.                          *)

\* What was erased is sent to no provider afterwards.
NothingErasedIsAnalyzed == lane = "history" => ErasedIsNotAnalyzed
=============================================================================
