----------------------------- MODULE PowerSMCGroup -----------------------------
(***************************************************************************)
(* PowerSMCGroupManager (vllm/v1/power_smc.py) as a state machine: tokens  *)
(* reach the particles in any order and at any relative speed, and         *)
(* maybe_resample may be called after any of them.                         *)
(***************************************************************************)
EXTENDS PowerSMC

CONSTANT MaxOutputTokens   \* bound: longest output of a particle

ASSUME MaxOutputTokensAssumption == MaxOutputTokens \in Nat

VARIABLE group

vars == <<group>>

Init == group = NewGroup

\* update_after_token; a particle that is done raises, so callers stop.
Token(i, token, done) ==
    /\ ~group.particles[i].done
    /\ Length(group.particles[i]) < MaxOutputTokens
    /\ group' = UpdateAfterToken(group, i, token, done)

MaybeResampleSkip ==
    /\ ~\E b \in 1 .. MaxOutputTokens : ChecksEss(group, b)
    /\ group' = SkipResample(group)

MaybeResampleKeep ==
    \E b \in 1 .. MaxOutputTokens :
        /\ ChecksEss(group, b)
        /\ group' = KeepAfterEssCheck(group, b)

MaybeResampleDraw ==
    \E b \in 1 .. MaxOutputTokens, a \in AncestorVectors :
        /\ ChecksEss(group, b)
        /\ ~AllLogWeightsEqual(group, b)
        /\ group' = ResampleGroup(group, b, a)

\* final_select, once every particle is done.
Select(i) ==
    /\ \A j \in Particles : group.particles[j].done
    /\ group' = FinalSelect(group, i)

Next ==
    \/ \E i \in Particles, t \in Tokens, d \in BOOLEAN : Token(i, t, d)
    \/ MaybeResampleSkip
    \/ MaybeResampleKeep
    \/ MaybeResampleDraw
    \/ \E i \in Particles : Select(i)

Spec == Init /\ [][Next]_vars

-----------------------------------------------------------------------------
(* What the weight recurrence computes, in closed form.                     *)

\* The sums of f over the first n tokens of s, for every n.
PrefixSums(f, s) ==
    LET sum[n \in 0 .. Len(s)] == IF n = 0 THEN 0 ELSE sum[n - 1] + f[s[n]]
    IN  sum

AlphaAtLength(n) == IF n = 0 THEN AlphaScale ELSE AlphaAtStep(n - 1)

\* alpha_n * log p(y_1..n) for the first n tokens of the particle.
AnnealedTarget(p, n) == AlphaAtLength(n) * PrefixSums(BaseLogp, p.token_ids)[n]

\* The weight state of the particle's first n tokens: the importance weight
\* since its history starts, and what the recurrence carries along.
WeightStateOf(p, n) ==
    LET start == p.history_start_length
        logq  == PrefixSums(ProposalLogq, p.token_ids)
    IN  [log_weight |-> AnnealedTarget(p, n) - AnnealedTarget(p, start)
                        - AlphaScale * (logq[n] - logq[start]),
         cum_logp   |-> PrefixSums(BaseLogp, p.token_ids)[n],
         prev_alpha |-> AlphaAtLength(n)]

-----------------------------------------------------------------------------
(* The fields of PowerSMCGroupManager and PowerSMCParticleState keep their  *)
(* types through update_after_token, maybe_resample and final_select.       *)
TypeOK == group \in Groups

\* maybe_resample never asks state_at for a length it cannot answer: at the
\* boundary it is about to examine, every particle still has its recorded
\* weight state, so neither ValueError of state_at can be raised, however far
\* apart the particles have run and whatever earlier resamples compacted.
BoundaryStateAvailable ==
    \A b \in 1 .. MaxOutputTokens :
        ChecksEss(group, b) =>
            \A i \in Particles : HasStateAt(group.particles[i], b)

\* No particle is ever shorter than the last boundary maybe_resample examined:
\* a resample truncates to the boundary it examines and never below it, so a
\* boundary is never examined a second time with other contents.
NoParticleBehindLastCheck ==
    \A i \in Particles :
        /\ group.last_boundary_check_length <= Length(group.particles[i])
        /\ group.particles[i].history_start_length
               <= group.last_boundary_check_length

\* Between the start of its history and its length a particle has kept the
\* weight state of every block boundary: update_after_token records each one
\* and only a resample, which moves the start up to the boundary, drops any.
BoundariesRecorded ==
    \A i \in Particles :
        \A n \in 1 .. Length(group.particles[i]) :
            n > group.particles[i].history_start_length /\ AtBlockBoundary(n)
                => RecordedAt(group.particles[i], n) # {}

\* The inductive invariant behind BoundaryStateAvailable.
GroupInv == TypeOK /\ NoParticleBehindLastCheck /\ BoundariesRecorded

\* The incremental update of update_after_token telescopes: after any
\* interleaving of tokens and resamples, log_weight is exactly
\* log p^alpha_n(y) - log p^alpha_h(y_<=h) - log q(y_>h) for the history start
\* h, so changing the exponent along the ramp never counts a token twice; and
\* each state kept for a boundary or for the start of the history is the one
\* of the prefix of that length.
WeightTelescopes ==
    \A i \in Particles :
        LET p == group.particles[i]
        IN  /\ p.weight = WeightStateOf(p, Length(p))
            /\ p.history_start_state = WeightStateOf(p, p.history_start_length)
            /\ \A k \in DOMAIN p.boundary_state_history :
                   LET h == p.boundary_state_history[k]
                   IN  /\ h.length \in p.history_start_length .. Length(p)
                       /\ h.state = WeightStateOf(p, h.length)

\* A step that changes the tokens of several particles at once is a resample,
\* and then each slot continues the prefix of one particle of the group: no
\* token sequence appears that no particle had generated.
ResampleOnlyCopiesPrefixes ==
    [][ \A i \in Particles :
          LET new == group'.particles[i].token_ids
          IN  \/ \E j \in Particles :
                    /\ Len(new) <= Length(group.particles[j])
                    /\ new = SubSeq(group.particles[j].token_ids, 1, Len(new))
              \/ /\ new # <<>>
                 /\ SubSeq(new, 1, Len(new) - 1) = group.particles[i].token_ids ]_vars

\* A particle that is done keeps its tokens and its weight for good: neither a
\* late token nor a resample of its siblings rewrites it.
DoneParticleIsFrozen ==
    [][ \A i \in Particles :
          group.particles[i].done => group'.particles[i] = group.particles[i] ]_vars
=============================================================================
