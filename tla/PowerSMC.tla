------------------------------- MODULE PowerSMC -------------------------------
(***************************************************************************)
(* The algorithmic state of one Power-SMC particle group                   *)
(* (vllm/v1/power_smc.py), as operators on values.  PowerSMCGroup makes a  *)
(* state machine of one group; the scheduler and the front end each keep   *)
(* a copy of a group and drive it with these operators.                    *)
(*                                                                         *)
(* The annealing exponent is a rational with denominator AlphaRampTokens,  *)
(* so exponents and log weights are kept multiplied by AlphaScale and stay *)
(* integers.  A token determines its base and proposal log probability:    *)
(* particles whose tokens differ may get different weights.  Exponentials  *)
(* are not modelled: the effective sample size (ESS) of unequal weights    *)
(* may fall on either side of the threshold, and any non-decreasing vector *)
(* of ancestors may be drawn.                                              *)
(***************************************************************************)
EXTENDS Integers, Sequences

CONSTANTS NumParticles,     \* config.particles
          SMCBlockSize,     \* config.block_size
          AlphaFinal,       \* config.alpha
          AlphaRampTokens,  \* config.alpha_ramp_tokens
          Tokens,           \* token ids a particle may sample
          BaseLogp,         \* [Tokens -> Int], log p of a sampled token
          ProposalLogq      \* [Tokens -> Int], log q of a sampled token

ASSUME PowerSMCAssumption ==
    /\ NumParticles \in Nat \ {0}
    /\ SMCBlockSize \in Nat \ {0}
    /\ AlphaFinal \in Nat \ {0}
    /\ AlphaRampTokens \in Nat
    /\ BaseLogp \in [Tokens -> Int]
    /\ ProposalLogq \in [Tokens -> Int]

Particles == 0 .. (NumParticles - 1)

NoPlan == [ancestors |-> <<>>, boundary |-> 0]

-----------------------------------------------------------------------------
(* Annealing and weights.  A weight state is the triple                     *)
(* (log_weight, cum_logp, prev_alpha).                                      *)

AlphaScale == IF AlphaRampTokens <= 1 THEN 1 ELSE AlphaRampTokens

AlphaAtStep(step) ==
    IF AlphaRampTokens <= 1 \/ step >= AlphaRampTokens
    THEN AlphaFinal * AlphaScale
    ELSE AlphaScale + (AlphaFinal - 1) * (step + 1)

WeightStates == [log_weight : Int, cum_logp : Int, prev_alpha : Int]

InitialWeightState == [log_weight |-> 0, cum_logp |-> 0, prev_alpha |-> AlphaScale]

\* Mutant: the exponent moves along the ramp without re-weighting the past.
MutNoRampCorrection(w, alpha, token) ==
    [log_weight |-> w.log_weight + alpha * BaseLogp[token]
                    - AlphaScale * ProposalLogq[token],
     cum_logp   |-> w.cum_logp + BaseLogp[token],
     prev_alpha |-> alpha]

UpdateLogWeight(w, alpha, token) ==
    [log_weight |-> w.log_weight + (alpha - w.prev_alpha) * w.cum_logp
                    + alpha * BaseLogp[token] - AlphaScale * ProposalLogq[token],
     cum_logp   |-> w.cum_logp + BaseLogp[token],
     prev_alpha |-> alpha]

-----------------------------------------------------------------------------
(* One particle.                                                            *)

ParticleStates ==
    [token_ids              : Seq(Tokens),
     weight                 : WeightStates,
     done                   : BOOLEAN,
     history_start_length   : Nat,
     history_start_state    : WeightStates,
     boundary_state_history : Seq([length : Nat, state : WeightStates])]

NewParticle ==
    [token_ids              |-> <<>>,
     weight                 |-> InitialWeightState,
     done                   |-> FALSE,
     history_start_length   |-> 0,
     history_start_state    |-> InitialWeightState,
     boundary_state_history |-> <<>>]

Length(p) == Len(p.token_ids)

AtBlockBoundary(n) == n % SMCBlockSize = 0

\* Lengths only grow between resamples, so each is recorded at most once.
RecordedAt(p, n) ==
    {k \in DOMAIN p.boundary_state_history : p.boundary_state_history[k].length = n}

\* Mutant: the state at a boundary is kept only for the first boundary.
MutRecordsFirstBoundaryOnly(p, token, done) ==
    LET n == Length(p) + 1
        w == UpdateLogWeight(p.weight, AlphaAtStep(Length(p)), token)
    IN  [p EXCEPT !.token_ids = Append(@, token),
                  !.weight = w,
                  !.done = done,
                  !.boundary_state_history =
                      IF n = SMCBlockSize THEN Append(@, [length |-> n, state |-> w])
                      ELSE @]

\* What update_after_token does to the particle that sampled the token.
ParticleAfterToken(p, token, done) ==
    LET n == Length(p) + 1
        w == UpdateLogWeight(p.weight, AlphaAtStep(Length(p)), token)
    IN  [p EXCEPT !.token_ids = Append(@, token),
                  !.weight = w,
                  !.done = done,
                  !.boundary_state_history =
                      IF AtBlockBoundary(n) THEN Append(@, [length |-> n, state |-> w])
                      ELSE @]

\* state_at raises a ValueError exactly where this is FALSE.
HasStateAt(p, n) ==
    \/ n = Length(p)
    \/ n <= 0
    \/ n = p.history_start_length
    \/ n > p.history_start_length /\ RecordedAt(p, n) # {}

StateAt(p, n) ==
    IF n = Length(p) THEN p.weight
    ELSE IF n <= 0 THEN InitialWeightState
    ELSE IF n = p.history_start_length THEN p.history_start_state
    ELSE p.boundary_state_history[CHOOSE k \in RecordedAt(p, n) : TRUE].state

\* Mutants: the prefix slice is short by one; the slice starts one late.
MutShortPrefix(ancestor, n) ==
    LET w == [StateAt(ancestor, n) EXCEPT !.log_weight = 0]
    IN  [token_ids              |-> SubSeq(ancestor.token_ids, 1, n - 1),
         weight                 |-> w,
         done                   |-> FALSE,
         history_start_length   |-> n - 1,
         history_start_state    |-> w,
         boundary_state_history |-> <<>>]

MutLateSlice(ancestor, n) ==
    LET w == [StateAt(ancestor, n) EXCEPT !.log_weight = 0]
    IN  [token_ids              |-> SubSeq(ancestor.token_ids, 2, n),
         weight                 |-> w,
         done                   |-> FALSE,
         history_start_length   |-> n,
         history_start_state    |-> w,
         boundary_state_history |-> <<>>]

\* A slot after resampling: the ancestor's prefix, weight reset, history
\* compacted to the boundary.
ResampledParticle(ancestor, n) ==
    LET w == [StateAt(ancestor, n) EXCEPT !.log_weight = 0]
    IN  [token_ids              |-> SubSeq(ancestor.token_ids, 1, n),
         weight                 |-> w,
         done                   |-> FALSE,
         history_start_length   |-> n,
         history_start_state    |-> w,
         boundary_state_history |-> <<>>]

-----------------------------------------------------------------------------
(* One group.                                                               *)

Plans ==
    {NoPlan} \cup [ancestors : [Particles -> Particles], boundary : Nat]

Groups ==
    [particles                  : [Particles -> ParticleStates],
     last_boundary_check_length : Nat,
     last_resample_plan         : Plans,
     chosen_particle            : Particles \cup {-1}]

NewGroup ==
    [particles                  |-> [i \in Particles |-> NewParticle],
     last_boundary_check_length |-> 0,
     last_resample_plan         |-> NoPlan,
     chosen_particle            |-> -1]

UpdateAfterToken(g, i, token, done) ==
    [g EXCEPT !.particles[i] = ParticleAfterToken(@, token, done)]

HasDoneParticle(g) == \E i \in Particles : g.particles[i].done

\* boundary = (shortest length // block_size) * block_size, and it is not 0.
EligibleResampleBoundary(g, boundary) ==
    /\ boundary > 0
    /\ AtBlockBoundary(boundary)
    /\ \A i \in Particles : boundary <= Length(g.particles[i])
    /\ \E i \in Particles : Length(g.particles[i]) < boundary + SMCBlockSize

\* Mutant: a group with a finished particle is resampled too.
MutResampleDone(g, boundary) ==
    /\ NumParticles # 1
    /\ EligibleResampleBoundary(g, boundary)
    /\ boundary > g.last_boundary_check_length

\* maybe_resample gets past its four early returns.
ChecksEss(g, boundary) ==
    /\ NumParticles # 1
    /\ ~HasDoneParticle(g)
    /\ EligibleResampleBoundary(g, boundary)
    /\ boundary > g.last_boundary_check_length

AllLogWeightsEqual(g, boundary) ==
    \A i, j \in Particles :
        StateAt(g.particles[i], boundary).log_weight
            = StateAt(g.particles[j], boundary).log_weight

\* systematic_resample walks the cumulative weights once, upwards.
AncestorVectors ==
    {a \in [Particles -> Particles] :
        \A i, j \in Particles : i <= j => a[i] <= a[j]}

SkipResample(g) == [g EXCEPT !.last_resample_plan = NoPlan]

KeepAfterEssCheck(g, boundary) ==
    [g EXCEPT !.last_resample_plan = NoPlan,
              !.last_boundary_check_length = boundary]

\* Mutant: the plan counts its ancestors from one.
MutOneBasedPlan(g, boundary, ancestors) ==
    [g EXCEPT !.particles =
                  [i \in Particles |->
                      ResampledParticle(g.particles[ancestors[i]], boundary)],
              !.last_boundary_check_length = boundary,
              !.last_resample_plan =
                  [ancestors |-> [i \in Particles |-> ancestors[i] + 1],
                   boundary |-> boundary]]

ResampleGroup(g, boundary, ancestors) ==
    [g EXCEPT !.particles =
                  [i \in Particles |->
                      ResampledParticle(g.particles[ancestors[i]], boundary)],
              !.last_boundary_check_length = boundary,
              !.last_resample_plan =
                  [ancestors |-> ancestors, boundary |-> boundary]]

\* Every group maybe_resample may leave behind.
MaybeResampleOutcomes(g) ==
    LET boundaries == {b \in 1 .. Length(g.particles[0]) : ChecksEss(g, b)}
    IN  IF boundaries = {} THEN {SkipResample(g)}
        ELSE {KeepAfterEssCheck(g, b) : b \in boundaries}
             \cup {ResampleGroup(g, b, a) :
                      b \in {c \in boundaries : ~AllLogWeightsEqual(g, c)},
                      a \in AncestorVectors}

Resampled(g) == g.last_resample_plan # NoPlan

FinalSelect(g, i) == [g EXCEPT !.chosen_particle = i]
=============================================================================
