-------------------------------- MODULE MCEngineCore --------------------------------
(***************************************************************************)
(* Instances of EngineCore for TLC.                                        *)
(***************************************************************************)
EXTENDS EngineCore

\* Requests with the same prompt, so that they meet in the prefix cache.
MCSamePrompt == [r \in Requests |-> <<1, 1>>]

MCShortPrompt == [r \in Requests |-> <<1>>]

MCFourTokens == [r \in Requests |-> 4]

MCThreeTokens == [r \in Requests |-> 3]

MCParticleIdx == CHOOSE f \in [Requests -> Particles] :
                     \A i \in Particles : \E r \in Requests : f[r] = i

\* Two tokens of different weight.
MCBaseLogp == [t \in Tokens |-> -t]

MCProposalLogq == [t \in Tokens |-> -1]
=============================================================================
