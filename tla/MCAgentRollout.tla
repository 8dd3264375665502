---------------------------- MODULE MCAgentRollout ----------------------------
(***************************************************************************)
(* Instances of AgentRollout for TLC.                                      *)
(***************************************************************************)
EXTENDS AgentRollout

\* An agent that leaves updates to the panel, one that updates itself, and one
\* that updates itself and was deployed with the first release as its target.
Manual == [auto |-> FALSE, default |-> NoTarget]
Automatic == [auto |-> TRUE, default |-> NoTarget]
Held == [auto |-> TRUE, default |-> 1]

Flags == {Manual, Automatic, Held}

\* Only the agent that leaves updates to the panel is rolled; the others keep
\* what the panel holds for them at first.
ManualRolls == deployment.auto => UNCHANGED roll

EachSpec == RolloutInit /\ [][RolloutNext /\ ManualRolls]_rolloutVars /\ RolloutFairness
=============================================================================
