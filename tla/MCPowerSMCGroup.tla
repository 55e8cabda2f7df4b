---------------------------- MODULE MCPowerSMCGroup ----------------------------
(* Instances of PowerSMCGroup for TLC.                                      *)
EXTENDS PowerSMCGroup

MCBaseLogp == [t \in Tokens |-> IF t = 1 THEN -1 ELSE -3]
MCProposalLogq == [t \in Tokens |-> IF t = 1 THEN -1 ELSE -2]
=============================================================================
