-------------------------- MODULE PowerSMCGroupProofs --------------------------
(***************************************************************************)
(* Proofs about PowerSMCGroup, for every number of particles, block size,  *)
(* ramp, token set and output length: the type invariant, that             *)
(* maybe_resample always finds the weight states it asks for and only      *)
(* copies prefixes, and that the incremental weights are the annealed      *)
(* importance weights.                                                     *)
(***************************************************************************)
EXTENDS PowerSMCGroup, WellFoundedInduction, TLAPS

\* An element of a sequence belongs to the set the sequence is over.
LEMMA SeqElement ==
    ASSUME NEW S, NEW s \in Seq(S), NEW k \in DOMAIN s
    PROVE  s[k] \in S
OBVIOUS

\* The annealing exponent of _alpha_at_step, scaled, is an integer.
LEMMA AlphaType ==
    ASSUME NEW step \in Nat
    PROVE  AlphaAtStep(step) \in Int /\ AlphaScale \in Int
BY PowerSMCAssumption DEF AlphaAtStep, AlphaScale

\* The weight recurrence of update_after_token keeps the type of its state.
LEMMA UpdateLogWeightType ==
    ASSUME NEW w \in WeightStates, NEW alpha \in Int, NEW t \in Tokens
    PROVE  UpdateLogWeight(w, alpha, t) \in WeightStates
<1>1. AlphaScale \in Int /\ BaseLogp[t] \in Int /\ ProposalLogq[t] \in Int
  BY PowerSMCAssumption DEF AlphaScale
<1>2. w.log_weight \in Int /\ w.cum_logp \in Int /\ w.prev_alpha \in Int
  BY DEF WeightStates
<1> QED
  BY <1>1, <1>2 DEF UpdateLogWeight, WeightStates

\* The weight state PowerSMCParticleState starts with has its type.
LEMMA InitialWeightType == InitialWeightState \in WeightStates
BY PowerSMCAssumption DEF InitialWeightState, WeightStates, AlphaScale

\* state_at answers with a weight state wherever it does not raise.
LEMMA StateAtType ==
    ASSUME NEW p \in ParticleStates, NEW n \in Nat, HasStateAt(p, n)
    PROVE  StateAt(p, n) \in WeightStates
<1>1. /\ p.weight \in WeightStates
      /\ p.history_start_state \in WeightStates
      /\ p.boundary_state_history \in Seq([length : Nat, state : WeightStates])
  BY DEF ParticleStates
<1>2. ASSUME RecordedAt(p, n) # {}
      PROVE  p.boundary_state_history[CHOOSE k \in RecordedAt(p, n) : TRUE].state
                 \in WeightStates
  <2> DEFINE k == CHOOSE k \in RecordedAt(p, n) : TRUE
  <2>1. k \in RecordedAt(p, n)
    BY <1>2
  <2>2. k \in DOMAIN p.boundary_state_history
    BY <2>1 DEF RecordedAt
  <2> HIDE DEF k
  <2>3. p.boundary_state_history[k] \in [length : Nat, state : WeightStates]
    BY <1>1, <2>2, SeqElement
  <2> QED
    BY <2>3 DEF k
<1> QED
  BY <1>1, <1>2, InitialWeightType DEF HasStateAt, StateAt

\* update_after_token keeps the type of the particle it extends.
LEMMA ParticleAfterTokenType ==
    ASSUME NEW p \in ParticleStates, NEW t \in Tokens, NEW d \in BOOLEAN
    PROVE  ParticleAfterToken(p, t, d) \in ParticleStates
<1> DEFINE w == UpdateLogWeight(p.weight, AlphaAtStep(Length(p)), t)
           n == Length(p) + 1
<1>1. p.token_ids \in Seq(Tokens) /\ Length(p) \in Nat
  BY DEF ParticleStates, Length
<1>2. w \in WeightStates
  BY <1>1, AlphaType, UpdateLogWeightType DEF ParticleStates
<1>3. Append(p.token_ids, t) \in Seq(Tokens)
  BY <1>1
<1>4. [length |-> n, state |-> w] \in [length : Nat, state : WeightStates]
  BY <1>1, <1>2
<1>5. p.boundary_state_history \in Seq([length : Nat, state : WeightStates])
  BY DEF ParticleStates
<1>6. Append(p.boundary_state_history, [length |-> n, state |-> w])
          \in Seq([length : Nat, state : WeightStates])
  BY <1>4, <1>5
<1> HIDE DEF w, n
<1>7. ParticleAfterToken(p, t, d) =
          [p EXCEPT !.token_ids = Append(@, t), !.weight = w, !.done = d,
                    !.boundary_state_history =
                       IF AtBlockBoundary(n)
                       THEN Append(@, [length |-> n, state |-> w]) ELSE @]
  BY DEF ParticleAfterToken, w, n
<1> QED
  BY <1>2, <1>3, <1>5, <1>6, <1>7 DEF ParticleStates

\* A slot maybe_resample fills has its type and exactly the boundary length.
LEMMA ResampledParticleType ==
    ASSUME NEW p \in ParticleStates, NEW n \in Nat, HasStateAt(p, n), n <= Length(p)
    PROVE  /\ ResampledParticle(p, n) \in ParticleStates
           /\ Length(ResampledParticle(p, n)) = n
<1> DEFINE w == [StateAt(p, n) EXCEPT !.log_weight = 0]
<1>1. w \in WeightStates
  BY StateAtType DEF WeightStates
<1>2. /\ SubSeq(p.token_ids, 1, n) \in Seq(Tokens)
      /\ Len(SubSeq(p.token_ids, 1, n)) = n
  BY DEF ParticleStates, Length
<1> HIDE DEF w
<1>3. ResampledParticle(p, n) =
          [token_ids |-> SubSeq(p.token_ids, 1, n), weight |-> w, done |-> FALSE,
           history_start_length |-> n, history_start_state |-> w,
           boundary_state_history |-> <<>>]
  BY DEF ResampledParticle, w
<1>4. <<>> \in Seq([length : Nat, state : WeightStates])
  OBVIOUS
<1> QED
  BY <1>1, <1>2, <1>3, <1>4 DEF ParticleStates, Length

\* One token recorded: the other particles are as they were, the particle is one
\* longer, and its recorded boundaries are those it had and perhaps the new one.
LEMMA ParticleAfterTokenHistory ==
    ASSUME NEW p \in ParticleStates, NEW t \in Tokens, NEW d \in BOOLEAN
    PROVE  LET q == ParticleAfterToken(p, t, d)
           IN  /\ Length(q) = Length(p) + 1
               /\ q.history_start_length = p.history_start_length
               /\ \A n \in Nat : RecordedAt(p, n) # {} => RecordedAt(q, n) # {}
               /\ AtBlockBoundary(Length(q)) => RecordedAt(q, Length(q)) # {}
<1> DEFINE q == ParticleAfterToken(p, t, d)
           w == UpdateLogWeight(p.weight, AlphaAtStep(Length(p)), t)
           e == [length |-> Length(p) + 1, state |-> w]
           h == p.boundary_state_history
<1>1. p.token_ids \in Seq(Tokens) /\ Length(p) = Len(p.token_ids)
  BY DEF ParticleStates, Length
<1>2. h \in Seq([length : Nat, state : WeightStates])
  BY DEF ParticleStates
<1>3. /\ q.token_ids = Append(p.token_ids, t)
      /\ q.history_start_length = p.history_start_length
      /\ q.boundary_state_history =
            IF AtBlockBoundary(Length(p) + 1) THEN Append(h, e) ELSE h
  BY DEF ParticleAfterToken, ParticleStates
<1>4. Length(q) = Length(p) + 1
  BY <1>1, <1>3 DEF Length
<1>5. e.length = Length(p) + 1
  OBVIOUS
<1> HIDE DEF q, e, h, w
<1>6. /\ DOMAIN Append(h, e) = 1 .. Len(h) + 1
      /\ DOMAIN h = 1 .. Len(h)
      /\ Len(h) \in Nat
      /\ \A k \in 1 .. Len(h) : Append(h, e)[k] = h[k]
      /\ Append(h, e)[Len(h) + 1] = e
  BY <1>2
<1>7. ASSUME NEW n \in Nat, RecordedAt(p, n) # {}
      PROVE  RecordedAt(q, n) # {}
  <2>1. PICK k \in DOMAIN h : h[k].length = n
    BY <1>7 DEF RecordedAt, h
  <2>2. /\ k \in DOMAIN q.boundary_state_history
        /\ q.boundary_state_history[k].length = n
    BY <1>3, <1>6, <2>1
  <2> QED
    BY <2>2 DEF RecordedAt
<1>8. ASSUME AtBlockBoundary(Length(q))
      PROVE  RecordedAt(q, Length(q)) # {}
  <2>1. q.boundary_state_history = Append(h, e)
    BY <1>3, <1>4, <1>8
  <2>2. /\ Len(h) + 1 \in DOMAIN q.boundary_state_history
        /\ q.boundary_state_history[Len(h) + 1].length = Length(q)
    BY <1>4, <1>5, <1>6, <2>1
  <2> QED
    BY <2>2 DEF RecordedAt
<1> QED
  BY <1>3, <1>4, <1>7, <1>8 DEF q

\* The boundary maybe_resample examines is answerable in every particle.
LEMMA CoverageAtBoundary ==
    ASSUME GroupInv, NEW b \in Nat, ChecksEss(group, b), NEW i \in Particles
    PROVE  /\ HasStateAt(group.particles[i], b)
           /\ b <= Length(group.particles[i])
<1> DEFINE p == group.particles[i]
<1>1. /\ b > 0
      /\ AtBlockBoundary(b)
      /\ b <= Length(p)
      /\ b > group.last_boundary_check_length
  BY DEF ChecksEss, EligibleResampleBoundary
<1>2. p \in ParticleStates /\ group.last_boundary_check_length \in Nat
  BY DEF GroupInv, TypeOK, Groups
<1>3. Length(p) \in Nat /\ p.history_start_length \in Nat
  BY <1>2 DEF ParticleStates, Length
<1>4. b > p.history_start_length
  BY <1>1, <1>2, <1>3 DEF GroupInv, NoParticleBehindLastCheck
<1>5. RecordedAt(p, b) # {}
  BY <1>1, <1>3, <1>4 DEF GroupInv, BoundariesRecorded
<1> QED
  BY <1>1, <1>4, <1>5 DEF HasStateAt

\* A new PowerSMCGroupManager satisfies the inductive invariant.
LEMMA InitGroupInv == Init => GroupInv
<1> SUFFICES ASSUME Init PROVE GroupInv
  OBVIOUS
<1>1. NewParticle \in ParticleStates /\ Length(NewParticle) = 0
  BY InitialWeightType DEF NewParticle, ParticleStates, Length
<1>2. TypeOK
  BY <1>1 DEF Init, NewGroup, TypeOK, Groups, Plans
<1>3. \A i \in Particles : group.particles[i] = NewParticle
  BY DEF Init, NewGroup
<1>4. group.last_boundary_check_length = 0
  BY DEF Init, NewGroup
<1>5. NoParticleBehindLastCheck
  <2>1. NewParticle.history_start_length = 0
    BY DEF NewParticle
  <2> QED
    BY <1>1, <1>3, <1>4, <2>1 DEF NoParticleBehindLastCheck
<1>6. BoundariesRecorded
  BY <1>1, <1>3 DEF BoundariesRecorded
<1> QED
  BY <1>2, <1>5, <1>6 DEF GroupInv

\* update_after_token preserves the inductive invariant.
LEMMA TokenPreservesGroupInv ==
    ASSUME GroupInv, NEW i \in Particles, NEW t \in Tokens, NEW d \in BOOLEAN,
           Token(i, t, d)
    PROVE  GroupInv'
<1> DEFINE q == ParticleAfterToken(group.particles[i], t, d)
<1>1. group \in Groups /\ group.particles \in [Particles -> ParticleStates]
  BY DEF GroupInv, TypeOK, Groups
<1>2. q \in ParticleStates
  BY <1>1, ParticleAfterTokenType
<1>3. /\ Length(q) = Length(group.particles[i]) + 1
      /\ q.history_start_length = group.particles[i].history_start_length
      /\ \A n \in Nat : RecordedAt(group.particles[i], n) # {} => RecordedAt(q, n) # {}
      /\ AtBlockBoundary(Length(q)) => RecordedAt(q, Length(q)) # {}
  BY <1>1, ParticleAfterTokenHistory
<1> HIDE DEF q
<1>4. group' = [group EXCEPT !.particles = [group.particles EXCEPT ![i] = q]]
  BY <1>1 DEF Token, UpdateAfterToken, q, Groups
<1>5. /\ group'.particles = [group.particles EXCEPT ![i] = q]
      /\ group'.last_boundary_check_length = group.last_boundary_check_length
  BY <1>1, <1>4 DEF Groups
<1>6. group'.particles[i] = q
      /\ \A j \in Particles \ {i} : group'.particles[j] = group.particles[j]
  BY <1>1, <1>5
<1>7. \A j \in Particles : Length(group.particles[j]) \in Nat
  BY <1>1 DEF ParticleStates, Length
<1>8. TypeOK'
  <2>1. [group.particles EXCEPT ![i] = q] \in [Particles -> ParticleStates]
    BY <1>1, <1>2
  <2> QED
    BY <1>1, <1>4, <2>1 DEF TypeOK, Groups
<1>9. NoParticleBehindLastCheck'
  <2>1. group.last_boundary_check_length \in Nat
    BY <1>1 DEF Groups
  <2> QED
    BY <1>3, <1>5, <1>6, <1>7, <2>1 DEF GroupInv, NoParticleBehindLastCheck
<1>10. BoundariesRecorded'
  <2> SUFFICES ASSUME NEW j \in Particles, NEW n \in 1 .. Length(group'.particles[j]),
                      n > group'.particles[j].history_start_length, AtBlockBoundary(n)
               PROVE  RecordedAt(group'.particles[j], n) # {}
    BY DEF BoundariesRecorded
  <2>1. CASE j # i
    BY <1>6, <2>1 DEF GroupInv, BoundariesRecorded
  <2>2. CASE j = i /\ n = Length(q)
    BY <1>3, <1>6, <2>2
  <2>3. CASE j = i /\ n # Length(q)
    <3>1. n \in 1 .. Length(group.particles[i]) /\ n \in Nat
      BY <1>3, <1>6, <1>7, <2>3
    <3>2. RecordedAt(group.particles[i], n) # {}
      BY <1>3, <1>6, <2>3, <3>1 DEF GroupInv, BoundariesRecorded
    <3> QED
      BY <1>3, <1>6, <2>3, <3>1, <3>2
  <2> QED
    BY <2>1, <2>2, <2>3
<1> QED
  BY <1>8, <1>9, <1>10 DEF GroupInv

\* maybe_resample preserves the invariant when the ESS is above the threshold.
LEMMA KeepPreservesGroupInv ==
    ASSUME GroupInv, NEW b \in 1 .. MaxOutputTokens, ChecksEss(group, b),
           group' = KeepAfterEssCheck(group, b)
    PROVE  GroupInv'
<1>1. b \in Nat /\ group \in Groups
  BY MaxOutputTokensAssumption DEF GroupInv, TypeOK
<1>2. group' = [group EXCEPT !.last_resample_plan = NoPlan,
                             !.last_boundary_check_length = b]
  BY DEF KeepAfterEssCheck
<1>3. group'.particles = group.particles /\ group'.last_boundary_check_length = b
  BY <1>1, <1>2 DEF Groups
<1>4. TypeOK'
  BY <1>1, <1>2 DEF TypeOK, Groups, Plans
<1>5. \A i \in Particles : b <= Length(group.particles[i])
  BY <1>1, CoverageAtBoundary
<1>6. \A i \in Particles : group.particles[i].history_start_length \in Nat
  BY <1>1 DEF Groups, ParticleStates
<1>7. group.last_boundary_check_length \in Nat /\ group.last_boundary_check_length < b
  BY <1>1 DEF Groups, ChecksEss
<1>8. NoParticleBehindLastCheck'
  BY <1>1, <1>3, <1>5, <1>6, <1>7 DEF GroupInv, NoParticleBehindLastCheck
<1>9. BoundariesRecorded'
  BY <1>3 DEF GroupInv, BoundariesRecorded
<1> QED
  BY <1>4, <1>8, <1>9 DEF GroupInv

\* maybe_resample preserves the invariant when it replaces the particles.
LEMMA DrawPreservesGroupInv ==
    ASSUME GroupInv, NEW b \in 1 .. MaxOutputTokens, NEW a \in AncestorVectors,
           ChecksEss(group, b), group' = ResampleGroup(group, b, a)
    PROVE  GroupInv'
<1> DEFINE R(i) == ResampledParticle(group.particles[a[i]], b)
<1>1. b \in Nat /\ group \in Groups /\ a \in [Particles -> Particles]
  BY MaxOutputTokensAssumption DEF GroupInv, TypeOK, AncestorVectors
<1>2. group.particles \in [Particles -> ParticleStates]
  BY <1>1 DEF Groups
<1>3. \A i \in Particles : HasStateAt(group.particles[i], b)
                           /\ b <= Length(group.particles[i])
  BY <1>1, CoverageAtBoundary
<1>4. \A i \in Particles : R(i) \in ParticleStates /\ Length(R(i)) = b
  BY <1>1, <1>2, <1>3, ResampledParticleType
<1>5. \A i \in Particles : R(i).history_start_length = b
  BY DEF ResampledParticle
<1> HIDE DEF R
<1>6. group' = [group EXCEPT !.particles = [i \in Particles |-> R(i)],
                             !.last_boundary_check_length = b,
                             !.last_resample_plan = [ancestors |-> a, boundary |-> b]]
  BY DEF ResampleGroup, R
<1>7. /\ group'.particles = [i \in Particles |-> R(i)]
      /\ group'.last_boundary_check_length = b
  BY <1>1, <1>6 DEF Groups
<1>8. TypeOK'
  <2>1. [i \in Particles |-> R(i)] \in [Particles -> ParticleStates]
    BY <1>4
  <2>2. [ancestors |-> a, boundary |-> b] \in Plans
    BY <1>1 DEF Plans
  <2> QED
    BY <1>1, <1>6, <2>1, <2>2 DEF TypeOK, Groups
<1>9. NoParticleBehindLastCheck'
  BY <1>1, <1>4, <1>5, <1>7 DEF NoParticleBehindLastCheck
<1>10. BoundariesRecorded'
  BY <1>1, <1>4, <1>5, <1>7 DEF BoundariesRecorded
<1> QED
  BY <1>8, <1>9, <1>10 DEF GroupInv

\* Every step of the group manager preserves the inductive invariant.
LEMMA NextPreservesGroupInv == GroupInv /\ [Next]_vars => GroupInv'
<1> SUFFICES ASSUME GroupInv, [Next]_vars PROVE GroupInv'
  OBVIOUS
<1>1. ASSUME NEW i \in Particles, NEW t \in Tokens, NEW d \in BOOLEAN, Token(i, t, d)
      PROVE  GroupInv'
  BY <1>1, TokenPreservesGroupInv
<1>2. ASSUME group'.particles = group.particles,
             group'.last_boundary_check_length = group.last_boundary_check_length,
             TypeOK'
      PROVE  GroupInv'
  BY <1>2 DEF GroupInv, NoParticleBehindLastCheck, BoundariesRecorded
<1>3. CASE MaybeResampleSkip
  <2>1. group \in Groups /\ group' = [group EXCEPT !.last_resample_plan = NoPlan]
    BY <1>3 DEF MaybeResampleSkip, SkipResample, GroupInv, TypeOK
  <2>2. TypeOK'
    BY <2>1 DEF TypeOK, Groups, Plans
  <2> QED
    BY <1>2, <2>1, <2>2 DEF Groups
<1>4. CASE MaybeResampleKeep
  BY <1>4, KeepPreservesGroupInv DEF MaybeResampleKeep
<1>5. CASE MaybeResampleDraw
  BY <1>5, DrawPreservesGroupInv DEF MaybeResampleDraw
<1>6. ASSUME NEW i \in Particles, Select(i)
      PROVE  GroupInv'
  <2>1. group \in Groups /\ group' = [group EXCEPT !.chosen_particle = i]
    BY <1>6 DEF Select, FinalSelect, GroupInv, TypeOK
  <2>2. TypeOK'
    BY <2>1 DEF TypeOK, Groups
  <2> QED
    BY <1>2, <2>1, <2>2 DEF Groups
<1>7. CASE UNCHANGED vars
  BY <1>7 DEF vars, GroupInv, TypeOK, NoParticleBehindLastCheck, BoundariesRecorded
<1> QED
  BY <1>1, <1>3, <1>4, <1>5, <1>6, <1>7 DEF Next

\* The inductive invariant of the group manager holds in every reachable state.
THEOREM GroupInvariance == Spec => []GroupInv
<1>1. Init => GroupInv
  BY InitGroupInv
<1>2. GroupInv /\ [Next]_vars => GroupInv'
  BY NextPreservesGroupInv
<1> QED
  BY <1>1, <1>2, PTL DEF Spec

\* update_after_token, maybe_resample and final_select keep the types of the
\* manager's fields.
THEOREM TypeCorrect == Spec => []TypeOK
<1>1. GroupInv => TypeOK
  BY DEF GroupInv
<1> QED
  BY <1>1, GroupInvariance, PTL

\* maybe_resample never makes state_at raise: at the boundary it examines every
\* particle still has its weight state, for any number of particles, any block
\* size and any speeds of the particles.
THEOREM StateAtNeverRaises == Spec => []BoundaryStateAvailable
<1>1. GroupInv => BoundaryStateAvailable
  <2> SUFFICES ASSUME GroupInv, NEW b \in 1 .. MaxOutputTokens, ChecksEss(group, b),
                      NEW i \in Particles
               PROVE  HasStateAt(group.particles[i], b)
    BY DEF BoundaryStateAvailable
  <2>1. b \in Nat
    BY MaxOutputTokensAssumption
  <2> QED
    BY <2>1, CoverageAtBoundary
<1> QED
  BY <1>1, GroupInvariance, PTL

\* maybe_resample never leaves a particle shorter than the last boundary it
\* examined, so a boundary is examined at most once.
THEOREM NeverBehindLastCheck == Spec => []NoParticleBehindLastCheck
<1>1. GroupInv => NoParticleBehindLastCheck
  BY DEF GroupInv
<1> QED
  BY <1>1, GroupInvariance, PTL

\* A finished particle is never rewritten: update_after_token refuses it and
\* maybe_resample leaves a group with a finished particle alone.
THEOREM DoneParticlesFrozen == Spec => DoneParticleIsFrozen
<1> DEFINE Frozen == \A i \in Particles :
                group.particles[i].done => group'.particles[i] = group.particles[i]
<1>1. GroupInv /\ [Next]_vars => [Frozen]_vars
  <2> SUFFICES ASSUME GroupInv, Next, NEW i \in Particles, group.particles[i].done
               PROVE  group'.particles[i] = group.particles[i]
    BY DEF vars
  <2>1. group \in Groups /\ group.particles \in [Particles -> ParticleStates]
    BY DEF GroupInv, TypeOK, Groups
  <2>2. \A b \in 1 .. MaxOutputTokens : ~ChecksEss(group, b)
    BY DEF ChecksEss, HasDoneParticle
  <2>3. ASSUME NEW j \in Particles, NEW t \in Tokens, NEW d \in BOOLEAN, Token(j, t, d)
        PROVE  group'.particles[i] = group.particles[i]
    <3>1. j # i
      BY <2>3 DEF Token
    <3> QED
      BY <2>1, <2>3, <3>1 DEF Token, UpdateAfterToken, Groups
  <2>4. CASE MaybeResampleSkip
    BY <2>1, <2>4 DEF MaybeResampleSkip, SkipResample, Groups
  <2>5. ASSUME NEW j \in Particles, Select(j)
        PROVE  group'.particles[i] = group.particles[i]
    BY <2>1, <2>5 DEF Select, FinalSelect, Groups
  <2> QED
    BY <2>2, <2>3, <2>4, <2>5 DEF Next, MaybeResampleKeep, MaybeResampleDraw
<1> QED
  BY <1>1, GroupInvariance, PTL DEF Spec, DoneParticleIsFrozen

-----------------------------------------------------------------------------
(* Induction over the length of a sequence.                                 *)

\* Every non-empty set of natural numbers has a least element.
LEMMA NatMin ==
    ASSUME NEW T \in SUBSET Nat, T # {}
    PROVE  \E x \in T : \A y \in T : x <= y
<1> DEFINE R == OpToRel(<, Nat)
<1>1. IsWellFoundedOn(R, Nat)
  BY NatLessThanWellFounded
<1>2. \A x, y \in Nat : x < y => <<x, y>> \in R
  BY DEF OpToRel
<1> HIDE DEF R
<1>3. PICK x \in T : \A y \in T : ~ (<<y, x>> \in R)
  BY <1>1, WFMin
<1>4. ASSUME NEW y \in T
      PROVE  x <= y
  <2>1. x \in Nat /\ y \in Nat
    OBVIOUS
  <2>2. ~ (y < x)
    BY <2>1, <1>2, <1>3
  <2> QED
    BY <2>1, <2>2
<1> QED
  BY <1>4

\* A set that has the lengths up to N, step by step, has all of them.
LEMMA LengthInduction ==
    ASSUME NEW N \in Nat, NEW S, 0 \in S, \A n \in 0 .. N - 1 : n \in S => n + 1 \in S
    PROVE  0 .. N \subseteq S
<1> DEFINE T == (0 .. N) \ S
<1> SUFFICES ASSUME T # {} PROVE FALSE
  OBVIOUS
<1>1. PICK x \in T : \A y \in T : x <= y
  <2>1. T \in SUBSET Nat
    OBVIOUS
  <2> HIDE DEF T
  <2> QED
    BY <2>1, NatMin
<1>2. x # 0 /\ x \in 0 .. N
  OBVIOUS
<1>3. x - 1 \in 0 .. N - 1 /\ x = (x - 1) + 1 /\ x - 1 < x
  BY <1>2
<1>4. x - 1 \notin T
  BY <1>1, <1>3
<1>5. x - 1 \in S
  BY <1>3, <1>4
<1> QED
  BY <1>3, <1>5

-----------------------------------------------------------------------------
(* The sums of log probabilities.                                           *)

\* g obeys the recurrence of the sums of f over the first tokens of s, up to m.
Recurrence(g, f, s, m) ==
    g[0] = 0 /\ \A n \in 1 .. m : g[n] = g[n - 1] + f[s[n]]

SameTokens(s, t, m) == \A n \in 1 .. m : s[n] = t[n]

SameSums(g, h, m) == \A n \in 0 .. m : g[n] = h[n]

SumsUpTo(g, f, s, m) == g \in [0 .. m -> Int] /\ Recurrence(g, f, s, m)

\* Such sums exist.
LEMMA SumsExist ==
    ASSUME NEW f \in [Tokens -> Int], NEW s \in Seq(Tokens)
    PROVE  \E g : SumsUpTo(g, f, s, Len(s))
<1> DEFINE S == {m \in Nat : \E g : SumsUpTo(g, f, s, m)}
<1>1. 0 \in S
  <2>1. SumsUpTo([n \in 0 .. 0 |-> 0], f, s, 0)
    BY DEF SumsUpTo, Recurrence
  <2> QED
    BY <2>1
<1>2. ASSUME NEW m \in 0 .. Len(s) - 1, m \in S
      PROVE  m + 1 \in S
  <2>1. PICK g : SumsUpTo(g, f, s, m)
    BY <1>2
  <2>2. m \in Nat /\ m + 1 \in DOMAIN s /\ f[s[m + 1]] \in Int
    OBVIOUS
  <2> DEFINE h == [n \in 0 .. m + 1 |-> IF n <= m THEN g[n] ELSE g[m] + f[s[m + 1]]]
  <2>3. h \in [0 .. m + 1 -> Int]
    BY <2>1, <2>2 DEF SumsUpTo, Recurrence
  <2>4. h[0] = 0
    BY <2>1, <2>2 DEF SumsUpTo, Recurrence
  <2>5. ASSUME NEW n \in 1 .. m + 1
        PROVE  h[n] = h[n - 1] + f[s[n]]
    <3>1. CASE n <= m
      BY <2>1, <2>2, <3>1 DEF SumsUpTo, Recurrence
    <3>2. CASE n = m + 1
      BY <2>2, <3>2
    <3> QED
      BY <2>2, <3>1, <3>2
  <2>6. SumsUpTo(h, f, s, m + 1)
    BY <2>3, <2>4, <2>5 DEF SumsUpTo, Recurrence
  <2> QED
    BY <2>2, <2>6
<1>3. Len(s) \in Nat
  OBVIOUS
<1> HIDE DEF S
<1>4. 0 .. Len(s) \subseteq S
  BY <1>1, <1>2, <1>3, LengthInduction
<1> QED
  BY <1>3, <1>4 DEF S

\* Two sequences with the same first n tokens have the same sums there.
LEMMA SumsAgree ==
    ASSUME NEW f, NEW s, NEW t, NEW N \in Nat, NEW g, NEW h,
           Recurrence(g, f, s, N), Recurrence(h, f, t, N), SameTokens(s, t, N)
    PROVE  SameSums(g, h, N)
<1> DEFINE S == {n \in Nat : g[n] = h[n]}
<1>1. 0 \in S
  BY DEF Recurrence
<1>2. ASSUME NEW n \in 0 .. N - 1, n \in S
      PROVE  n + 1 \in S
  <2>1. n + 1 \in 1 .. N /\ (n + 1) - 1 = n /\ n + 1 \in Nat /\ g[n] = h[n]
    BY <1>2
  <2> QED
    BY <2>1 DEF Recurrence, SameTokens
<1> HIDE DEF S
<1>3. 0 .. N \subseteq S
  BY <1>1, <1>2, LengthInduction
<1> QED
  BY <1>3 DEF S, SameSums

\* PrefixSums is such a function.
LEMMA PrefixSumsUpTo ==
    ASSUME NEW f \in [Tokens -> Int], NEW s \in Seq(Tokens)
    PROVE  SumsUpTo(PrefixSums(f, s), f, s, Len(s))
<1> DEFINE P(h) == h = [n \in 0 .. Len(s) |-> IF n = 0 THEN 0 ELSE h[n - 1] + f[s[n]]]
           q == PrefixSums(f, s)
<1>1. PICK g : SumsUpTo(g, f, s, Len(s))
  BY SumsExist
<1>2. Len(s) \in Nat
  OBVIOUS
<1>3. P(g)
  BY <1>1, <1>2 DEF SumsUpTo, Recurrence
<1>4. q = CHOOSE h : P(h)
  BY DEF PrefixSums
<1>5. P(q)
  <2> HIDE DEF P, q
  <2> QED
    BY <1>3, <1>4
<1>6. Recurrence(q, f, s, Len(s))
  <2> HIDE DEF q
  <2> QED
    BY <1>2, <1>5 DEF Recurrence
<1>7. SameSums(q, g, Len(s))
  <2> HIDE DEF q, P
  <2>1. SameTokens(s, s, Len(s)) /\ Recurrence(g, f, s, Len(s))
    BY <1>1 DEF SameTokens, SumsUpTo
  <2> QED
    BY <1>2, <1>6, <2>1, SumsAgree, Zenon
<1>8. q = [n \in 0 .. Len(s) |-> q[n]]
  <2> HIDE DEF q
  <2> QED
    BY <1>5
<1> HIDE DEF q, P
<1>9. q \in [0 .. Len(s) -> Int]
  BY <1>1, <1>7, <1>8 DEF SumsUpTo, SameSums
<1> QED
  BY <1>6, <1>9 DEF SumsUpTo, q

\* The sums over the first n tokens depend on those tokens only.
LEMMA SamePrefixSums ==
    ASSUME NEW f \in [Tokens -> Int], NEW s \in Seq(Tokens), NEW t \in Seq(Tokens),
           NEW N \in Nat, N <= Len(s), N <= Len(t), SameTokens(s, t, N)
    PROVE  SameSums(PrefixSums(f, s), PrefixSums(f, t), N)
<1> DEFINE g == PrefixSums(f, s)
           h == PrefixSums(f, t)
<1>1. SumsUpTo(g, f, s, Len(s)) /\ SumsUpTo(h, f, t, Len(t))
  BY PrefixSumsUpTo
<1> HIDE DEF g, h
<1>2. 1 .. N \subseteq 1 .. Len(s) /\ 1 .. N \subseteq 1 .. Len(t)
  OBVIOUS
<1>3. Recurrence(g, f, s, N) /\ Recurrence(h, f, t, N)
  BY <1>1, <1>2 DEF SumsUpTo, Recurrence
<1>4. SameSums(g, h, N)
  BY <1>3, SumsAgree, Zenon
<1> QED
  BY <1>4 DEF g, h

-----------------------------------------------------------------------------
(* The weight recurrence.                                                   *)

\* The weight state of the first n tokens, from the sums B of log p and Q of
\* log q.
WeightFrom(B, Q, start, n) ==
    [log_weight |-> AlphaAtLength(n) * B[n] - AlphaAtLength(start) * B[start]
                    - AlphaScale * (Q[n] - Q[start]),
     cum_logp   |-> B[n],
     prev_alpha |-> AlphaAtLength(n)]

\* WeightStateOf takes its sums from the tokens of the particle.
LEMMA WeightStateFromSums ==
    ASSUME NEW p, NEW n
    PROVE  WeightStateOf(p, n) = WeightFrom(PrefixSums(BaseLogp, p.token_ids),
                                            PrefixSums(ProposalLogq, p.token_ids),
                                            p.history_start_length, n)
BY DEF WeightStateOf, WeightFrom, AnnealedTarget

\* One step of update_after_token takes the closed form to the next length.
LEMMA UpdateTelescopes ==
    ASSUME NEW B, NEW Q, NEW start \in Nat, NEW n \in Nat, NEW t \in Tokens,
           B[n] \in Int, B[start] \in Int, Q[n] \in Int, Q[start] \in Int,
           B[n + 1] = B[n] + BaseLogp[t], Q[n + 1] = Q[n] + ProposalLogq[t]
    PROVE  UpdateLogWeight(WeightFrom(B, Q, start, n), AlphaAtStep(n), t)
               = WeightFrom(B, Q, start, n + 1)
<1> DEFINE a == AlphaAtLength(n)
           c == AlphaAtStep(n)
           z == AlphaAtLength(start) * B[start]
           x == BaseLogp[t]
           y == ProposalLogq[t]
           s == AlphaScale
           w == WeightFrom(B, Q, start, n)
<1>1. a \in Int /\ c \in Int /\ s \in Int /\ AlphaAtLength(start) \in Int
  BY AlphaType DEF AlphaAtLength
<1>2. x \in Int /\ y \in Int
  BY PowerSMCAssumption
<1>3. AlphaAtLength(n + 1) = c
  BY DEF AlphaAtLength
<1>4. z \in Int
  BY <1>1
<1>5. /\ w.log_weight = a * B[n] - z - s * (Q[n] - Q[start])
      /\ w.cum_logp = B[n] /\ w.prev_alpha = a
  BY DEF WeightFrom
<1>6. WeightFrom(B, Q, start, n + 1) =
          [log_weight |-> c * (B[n] + x) - z - s * ((Q[n] + y) - Q[start]),
           cum_logp |-> B[n] + x, prev_alpha |-> c]
  BY <1>3 DEF WeightFrom
<1>7. UpdateLogWeight(w, c, t) =
          [log_weight |-> w.log_weight + (c - w.prev_alpha) * w.cum_logp + c * x - s * y,
           cum_logp |-> w.cum_logp + x, prev_alpha |-> c]
  BY DEF UpdateLogWeight
<1> HIDE DEF a, c, z, x, y, s, w
<1>8. (a * B[n] - z - s * (Q[n] - Q[start])) + (c - a) * B[n] + c * x - s * y
          = c * (B[n] + x) - z - s * ((Q[n] + y) - Q[start])
  BY <1>1, <1>2, <1>4
<1> QED
  BY <1>5, <1>6, <1>7, <1>8 DEF w, c

\* The sums of a longer sequence continue those of its prefix.
LEMMA AppendSums ==
    ASSUME NEW f \in [Tokens -> Int], NEW s \in Seq(Tokens), NEW t \in Tokens
    PROVE  /\ SameSums(PrefixSums(f, s), PrefixSums(f, Append(s, t)), Len(s))
           /\ PrefixSums(f, Append(s, t))[Len(s) + 1]
                  = PrefixSums(f, Append(s, t))[Len(s)] + f[t]
<1> DEFINE u == Append(s, t)
<1>1. /\ u \in Seq(Tokens) /\ Len(u) = Len(s) + 1 /\ Len(s) \in Nat
      /\ u[Len(s) + 1] = t /\ \A n \in 1 .. Len(s) : u[n] = s[n]
  OBVIOUS
<1>2. SameTokens(s, u, Len(s))
  BY <1>1 DEF SameTokens
<1> HIDE DEF u
<1>3. SameSums(PrefixSums(f, s), PrefixSums(f, u), Len(s))
  BY <1>1, <1>2, SamePrefixSums
<1>4. Recurrence(PrefixSums(f, u), f, u, Len(u))
  BY <1>1, PrefixSumsUpTo DEF SumsUpTo
<1>5. Len(s) + 1 \in 1 .. Len(u) /\ (Len(s) + 1) - 1 = Len(s)
  BY <1>1
<1>6. PrefixSums(f, u)[Len(s) + 1] = PrefixSums(f, u)[Len(s)] + f[t]
  BY <1>1, <1>4, <1>5 DEF Recurrence
<1> QED
  BY <1>3, <1>6 DEF u

\* The sums are integers.
LEMMA SumsType ==
    ASSUME NEW f \in [Tokens -> Int], NEW s \in Seq(Tokens), NEW n \in 0 .. Len(s)
    PROVE  PrefixSums(f, s)[n] \in Int
BY PrefixSumsUpTo DEF SumsUpTo

\* What WeightTelescopes says of one particle.
Telescopes(p) ==
    /\ p.weight = WeightStateOf(p, Length(p))
    /\ p.history_start_state = WeightStateOf(p, p.history_start_length)
    /\ \A k \in DOMAIN p.boundary_state_history :
          /\ p.boundary_state_history[k].length \in p.history_start_length .. Length(p)
          /\ p.boundary_state_history[k].state
                 = WeightStateOf(p, p.boundary_state_history[k].length)

\* update_after_token keeps every weight at its closed form.
LEMMA TokenTelescopes ==
    ASSUME NEW p \in ParticleStates, NEW t \in Tokens, NEW d \in BOOLEAN,
           p.history_start_length <= Length(p), Telescopes(p)
    PROVE  Telescopes(ParticleAfterToken(p, t, d))
<1> DEFINE q == ParticleAfterToken(p, t, d)
           w == UpdateLogWeight(p.weight, AlphaAtStep(Length(p)), t)
           e == [length |-> Length(p) + 1, state |-> w]
           h == p.boundary_state_history
           s == p.token_ids
           start == p.history_start_length
           N == Len(s)
<1>1. /\ s \in Seq(Tokens) /\ Length(p) = N /\ N \in Nat /\ start \in 0 .. N
      /\ h \in Seq([length : Nat, state : WeightStates])
  BY DEF ParticleStates, Length
<1>2. /\ q.token_ids = Append(s, t)
      /\ q.history_start_length = start
      /\ q.history_start_state = p.history_start_state
      /\ q.weight = w
      /\ q.boundary_state_history =
            IF AtBlockBoundary(Length(p) + 1) THEN Append(h, e) ELSE h
  BY DEF ParticleAfterToken, ParticleStates
<1>3. Length(q) = N + 1
  BY <1>1, <1>2 DEF Length
<1>4. e.length = N + 1 /\ e.state = w
  BY <1>1
<1> DEFINE B == PrefixSums(BaseLogp, Append(s, t))
           Q == PrefixSums(ProposalLogq, Append(s, t))
           B0 == PrefixSums(BaseLogp, s)
           Q0 == PrefixSums(ProposalLogq, s)
<1>5. /\ SameSums(B0, B, N) /\ B[N + 1] = B[N] + BaseLogp[t]
      /\ SameSums(Q0, Q, N) /\ Q[N + 1] = Q[N] + ProposalLogq[t]
  BY <1>1, AppendSums, PowerSMCAssumption
<1>6. \A n \in 0 .. N : B[n] \in Int /\ Q[n] \in Int
  <2>1. Append(s, t) \in Seq(Tokens) /\ 0 .. N \subseteq 0 .. Len(Append(s, t))
    BY <1>1
  <2> QED
    BY <2>1, SumsType, PowerSMCAssumption
<1>7. /\ \A n : WeightStateOf(q, n) = WeightFrom(B, Q, start, n)
      /\ \A n : WeightStateOf(p, n) = WeightFrom(B0, Q0, start, n)
  BY <1>2, WeightStateFromSums
<1>8. w = UpdateLogWeight(p.weight, AlphaAtStep(N), t)
  BY <1>1
<1> HIDE DEF q, e, h, w, s, B, Q, B0, Q0, N
<1>9. ASSUME NEW n \in 0 .. N
      PROVE  WeightFrom(B0, Q0, start, n) = WeightFrom(B, Q, start, n)
  <2>1. B0[n] = B[n] /\ Q0[n] = Q[n] /\ B0[start] = B[start] /\ Q0[start] = Q[start]
    BY <1>1, <1>5 DEF SameSums
  <2> QED
    BY <2>1 DEF WeightFrom
<1>10. \A n \in 0 .. N : WeightStateOf(q, n) = WeightStateOf(p, n)
  BY <1>7, <1>9
<1>11. w = WeightStateOf(q, N + 1)
  <2>1. p.weight = WeightFrom(B, Q, start, N)
    <3>1. N \in 0 .. N /\ p.weight = WeightStateOf(p, N)
      BY <1>1 DEF Telescopes
    <3> QED
      BY <1>7, <1>10, <3>1
  <2>2. /\ start \in Nat /\ B[N] \in Int /\ Q[N] \in Int /\ B[start] \in Int /\ Q[start] \in Int
    BY <1>1, <1>6
  <2>3. UpdateLogWeight(WeightFrom(B, Q, start, N), AlphaAtStep(N), t)
            = WeightFrom(B, Q, start, N + 1)
    BY <1>1, <1>5, <2>2, UpdateTelescopes
  <2> QED
    BY <1>7, <1>8, <2>1, <2>3
<1>12. q.weight = WeightStateOf(q, Length(q))
  BY <1>2, <1>3, <1>11
<1>13. q.history_start_state = WeightStateOf(q, q.history_start_length)
  BY <1>1, <1>2, <1>10 DEF Telescopes
<1>14. ASSUME NEW k \in DOMAIN h
       PROVE  /\ h[k].length \in start .. N + 1
              /\ h[k].state = WeightStateOf(q, h[k].length)
  <2>1. h[k].length \in start .. N /\ h[k].state = WeightStateOf(p, h[k].length)
    BY <1>1 DEF Telescopes, h
  <2>2. h[k].length \in 0 .. N /\ h[k].length \in start .. N + 1
    BY <1>1, <2>1
  <2> QED
    BY <1>10, <2>1, <2>2
<1>15. /\ DOMAIN Append(h, e) = 1 .. Len(h) + 1
       /\ DOMAIN h = 1 .. Len(h)
       /\ Len(h) \in Nat
       /\ \A k \in 1 .. Len(h) : Append(h, e)[k] = h[k]
       /\ Append(h, e)[Len(h) + 1] = e
  BY <1>1
<1>16. ASSUME NEW k \in DOMAIN q.boundary_state_history
       PROVE  /\ q.boundary_state_history[k].length \in q.history_start_length .. Length(q)
              /\ q.boundary_state_history[k].state
                     = WeightStateOf(q, q.boundary_state_history[k].length)
  <2>1. CASE k \in DOMAIN h
    <3>1. q.boundary_state_history[k] = h[k]
      BY <1>2, <1>15, <2>1
    <3> QED
      BY <1>2, <1>3, <1>14, <2>1, <3>1
  <2>2. CASE k \notin DOMAIN h
    <3>1. q.boundary_state_history[k] = e
      BY <1>2, <1>15, <2>2
    <3>2. N + 1 \in start .. N + 1
      BY <1>1
    <3> QED
      BY <1>2, <1>3, <1>4, <1>11, <3>1, <3>2
  <2> QED
    BY <2>1, <2>2
<1> QED
  BY <1>12, <1>13, <1>16 DEF Telescopes, q

\* state_at answers with the weight state of the prefix it is asked for.
LEMMA StateAtTelescopes ==
    ASSUME NEW p \in ParticleStates, NEW n \in Nat \ {0}, HasStateAt(p, n), Telescopes(p)
    PROVE  StateAt(p, n) = WeightStateOf(p, n)
<1>1. ASSUME n # Length(p), n # p.history_start_length
      PROVE  p.boundary_state_history[CHOOSE k \in RecordedAt(p, n) : TRUE].state
                 = WeightStateOf(p, n)
  <2> DEFINE k == CHOOSE k \in RecordedAt(p, n) : TRUE
  <2>1. RecordedAt(p, n) # {}
    BY <1>1 DEF HasStateAt
  <2>2. k \in RecordedAt(p, n)
    BY <2>1
  <2> HIDE DEF k
  <2>3. k \in DOMAIN p.boundary_state_history /\ p.boundary_state_history[k].length = n
    BY <2>2 DEF RecordedAt
  <2>4. p.boundary_state_history[k].state = WeightStateOf(p, n)
    BY <2>3 DEF Telescopes
  <2> QED
    BY <2>4 DEF k
<1>2. ~(n <= 0)
  OBVIOUS
<1> QED
  BY <1>1, <1>2, Zenon DEF StateAt, Telescopes

\* A slot maybe_resample fills starts over with weight zero and carries the sums
\* of its ancestor's prefix.
LEMMA ResampledTelescopes ==
    ASSUME NEW p \in ParticleStates, NEW n \in Nat \ {0}, HasStateAt(p, n), n <= Length(p),
           Telescopes(p)
    PROVE  Telescopes(ResampledParticle(p, n))
<1> DEFINE q == ResampledParticle(p, n)
           s == p.token_ids
           u == SubSeq(s, 1, n)
           B == PrefixSums(BaseLogp, u)
           Q == PrefixSums(ProposalLogq, u)
           w == [StateAt(p, n) EXCEPT !.log_weight = 0]
<1>1. s \in Seq(Tokens) /\ n <= Len(s) /\ n \in Nat
  BY DEF ParticleStates, Length
<1>2. u \in Seq(Tokens) /\ Len(u) = n /\ \A k \in 1 .. n : u[k] = s[k]
  BY <1>1
<1>3. /\ q.token_ids = u /\ q.weight = w /\ q.history_start_length = n
      /\ q.history_start_state = w /\ q.boundary_state_history = <<>>
  BY DEF ResampledParticle
<1>4. StateAt(p, n) = WeightStateOf(p, n)
  BY StateAtTelescopes
<1>5. WeightStateOf(p, n) =
          [log_weight |-> WeightStateOf(p, n).log_weight,
           cum_logp |-> PrefixSums(BaseLogp, s)[n], prev_alpha |-> AlphaAtLength(n)]
  BY DEF WeightStateOf
<1>6. w = [log_weight |-> 0, cum_logp |-> PrefixSums(BaseLogp, s)[n],
           prev_alpha |-> AlphaAtLength(n)]
  BY <1>4, <1>5
<1>7. WeightStateOf(q, n) = WeightFrom(B, Q, n, n)
  BY <1>3, WeightStateFromSums
<1> HIDE DEF q, u, w, s
<1>8. PrefixSums(BaseLogp, s)[n] = B[n]
  <2>1. SameTokens(u, s, n)
    BY <1>2 DEF SameTokens
  <2>2. BaseLogp \in [Tokens -> Int] /\ n <= Len(u)
    BY <1>1, <1>2, PowerSMCAssumption
  <2>3. SameSums(PrefixSums(BaseLogp, u), PrefixSums(BaseLogp, s), n)
    BY <1>1, <1>2, <2>1, <2>2, SamePrefixSums
  <2> QED
    BY <1>1, <2>3 DEF SameSums
<1>9. B[n] \in Int /\ Q[n] \in Int
  <2>1. BaseLogp \in [Tokens -> Int] /\ ProposalLogq \in [Tokens -> Int] /\ n \in 0 .. Len(u)
    BY <1>1, <1>2, PowerSMCAssumption
  <2> QED
    BY <1>2, <2>1, SumsType
<1> HIDE DEF B, Q
<1>10. WeightFrom(B, Q, n, n) = [log_weight |-> 0, cum_logp |-> B[n], prev_alpha |-> AlphaAtLength(n)]
  <2>1. AlphaAtLength(n) \in Int /\ AlphaScale \in Int
    BY <1>1, AlphaType DEF AlphaAtLength
  <2>2. AlphaAtLength(n) * B[n] \in Int /\ Q[n] - Q[n] = 0 /\ AlphaScale * 0 = 0
    BY <1>9, <2>1
  <2> HIDE DEF B, Q
  <2>3. AlphaAtLength(n) * B[n] - AlphaAtLength(n) * B[n] - AlphaScale * (Q[n] - Q[n]) = 0
    BY <2>2
  <2> QED
    BY <2>3 DEF WeightFrom
<1>11. w = WeightStateOf(q, n)
  BY <1>6, <1>7, <1>8, <1>10
<1>12. Length(q) = n
  BY <1>2, <1>3 DEF Length
<1>13. q.weight = WeightStateOf(q, Length(q)) /\ q.history_start_state = WeightStateOf(q, q.history_start_length)
  BY <1>3, <1>11, <1>12
<1>14. DOMAIN q.boundary_state_history = {}
  BY <1>3
<1> QED
  BY <1>13, <1>14, Zenon DEF Telescopes, q

\* A new particle has the weight of no tokens.
LEMMA NewTelescopes == Telescopes(NewParticle)
<1> DEFINE p == NewParticle
           B == PrefixSums(BaseLogp, <<>>)
           Q == PrefixSums(ProposalLogq, <<>>)
<1>1. /\ p.token_ids = <<>> /\ p.history_start_length = 0 /\ p.boundary_state_history = <<>>
      /\ p.weight = InitialWeightState /\ p.history_start_state = InitialWeightState
  BY DEF NewParticle
<1>2. <<>> \in Seq(Tokens) /\ Len(<<>>) = 0
  OBVIOUS
<1>3. B[0] = 0 /\ Q[0] = 0
  BY <1>2, PrefixSumsUpTo, PowerSMCAssumption DEF SumsUpTo, Recurrence
<1>4. WeightStateOf(p, 0) = WeightFrom(B, Q, 0, 0)
  BY <1>1, WeightStateFromSums
<1> HIDE DEF B, Q, p
<1>5. WeightFrom(B, Q, 0, 0) = InitialWeightState
  <2>1. AlphaScale \in Int /\ AlphaAtLength(0) = AlphaScale
    BY PowerSMCAssumption DEF AlphaScale, AlphaAtLength
  <2>2. AlphaScale * 0 - AlphaScale * 0 - AlphaScale * (0 - 0) = 0
    BY <2>1
  <2> QED
    BY <1>3, <2>1, <2>2 DEF WeightFrom, InitialWeightState
<1>6. Length(p) = 0 /\ DOMAIN p.boundary_state_history = {}
  BY <1>1, <1>2 DEF Length
<1> QED
  BY <1>1, <1>4, <1>5, <1>6 DEF Telescopes, p

\* Every step of the group manager keeps the weights at their closed form.
LEMMA NextTelescopes ==
    ASSUME GroupInv, [Next]_vars, \A i \in Particles : Telescopes(group.particles[i])
    PROVE  \A i \in Particles : Telescopes(group'.particles[i])
<1>1. group \in Groups /\ group.particles \in [Particles -> ParticleStates]
  BY DEF GroupInv, TypeOK, Groups
<1>2. CASE group'.particles = group.particles
  BY <1>2
<1>3. ASSUME NEW i \in Particles, NEW t \in Tokens, NEW d \in BOOLEAN, Token(i, t, d)
      PROVE  \A j \in Particles : Telescopes(group'.particles[j])
  <2> DEFINE q == ParticleAfterToken(group.particles[i], t, d)
  <2>1. group'.particles = [group.particles EXCEPT ![i] = q]
    BY <1>1, <1>3 DEF Token, UpdateAfterToken, Groups
  <2>2. /\ group.last_boundary_check_length \in Nat
        /\ group.particles[i].history_start_length \in Nat
        /\ Length(group.particles[i]) \in Nat
    BY <1>1 DEF Groups, ParticleStates, Length
  <2>3. group.particles[i].history_start_length <= Length(group.particles[i])
    BY <2>2 DEF GroupInv, NoParticleBehindLastCheck
  <2>4. Telescopes(q)
    BY <1>1, <2>3, TokenTelescopes
  <2> HIDE DEF q
  <2> QED
    BY <1>1, <2>1, <2>4
<1>4. ASSUME NEW b \in 1 .. MaxOutputTokens, NEW a \in AncestorVectors,
             ChecksEss(group, b), group' = ResampleGroup(group, b, a)
      PROVE  \A j \in Particles : Telescopes(group'.particles[j])
  <2>1. b \in Nat \ {0} /\ a \in [Particles -> Particles]
    BY MaxOutputTokensAssumption DEF AncestorVectors
  <2>2. \A i \in Particles : HasStateAt(group.particles[i], b) /\ b <= Length(group.particles[i])
    BY <1>4, <2>1, CoverageAtBoundary
  <2>3. group'.particles = [i \in Particles |-> ResampledParticle(group.particles[a[i]], b)]
    BY <1>1, <1>4 DEF ResampleGroup, Groups
  <2>4. ASSUME NEW j \in Particles PROVE Telescopes(group'.particles[j])
    <3>1. a[j] \in Particles /\ group.particles[a[j]] \in ParticleStates
      BY <1>1, <2>1
    <3>2. Telescopes(ResampledParticle(group.particles[a[j]], b))
      BY <2>1, <2>2, <3>1, ResampledTelescopes
    <3> QED
      BY <2>3, <3>2
  <2> QED
    BY <2>4
<1>5. CASE MaybeResampleSkip
  BY <1>1, <1>2, <1>5 DEF MaybeResampleSkip, SkipResample, Groups
<1>6. CASE MaybeResampleKeep
  BY <1>1, <1>2, <1>6 DEF MaybeResampleKeep, KeepAfterEssCheck, Groups
<1>7. CASE MaybeResampleDraw
  BY <1>4, <1>7 DEF MaybeResampleDraw
<1>8. ASSUME NEW i \in Particles, Select(i) PROVE group'.particles = group.particles
  BY <1>1, <1>8 DEF Select, FinalSelect, Groups
<1>9. CASE UNCHANGED vars
  BY <1>2, <1>9 DEF vars
<1> QED
  BY <1>2, <1>3, <1>5, <1>6, <1>7, <1>8, <1>9 DEF Next

\* update_after_token's incremental weights are the annealed importance weights
\* of the particles, for any ramp, block size, log probabilities and history of
\* resamples.
THEOREM WeightsTelescope == Spec => []WeightTelescopes
<1>1. WeightTelescopes <=> \A i \in Particles : Telescopes(group.particles[i])
  BY Zenon DEF WeightTelescopes, Telescopes
<1>2. WeightTelescopes' <=> \A i \in Particles : Telescopes(group'.particles[i])
  BY Zenon DEF WeightTelescopes, Telescopes
<1>3. Init => WeightTelescopes
  <2> SUFFICES ASSUME Init PROVE WeightTelescopes
    OBVIOUS
  <2>1. \A i \in Particles : group.particles[i] = NewParticle
    BY DEF Init, NewGroup
  <2> QED
    BY <1>1, <2>1, NewTelescopes
<1>4. GroupInv /\ WeightTelescopes /\ [Next]_vars => WeightTelescopes'
  BY <1>1, <1>2, NextTelescopes
<1> QED
  BY <1>3, <1>4, GroupInvariance, PTL DEF Spec

\* A sequence is what precedes the token appended to it.
LEMMA AppendFront ==
    ASSUME NEW s \in Seq(Tokens), NEW t \in Tokens
    PROVE  Append(s, t) # <<>> /\ SubSeq(Append(s, t), 1, Len(Append(s, t)) - 1) = s
<1> DEFINE u == Append(s, t)
<1>1. u \in Seq(Tokens) /\ Len(u) = Len(s) + 1 /\ Len(s) \in Nat /\ \A n \in 1 .. Len(s) : u[n] = s[n]
  OBVIOUS
<1>2. Len(u) - 1 = Len(s) /\ u # <<>>
  BY <1>1
<1> HIDE DEF u
<1> DEFINE v == SubSeq(u, 1, Len(s))
<1>3. v \in Seq(Tokens) /\ Len(v) = Len(s) /\ \A n \in 1 .. Len(s) : v[n] = u[n]
  BY <1>1
<1> HIDE DEF v
<1>4. v = s
  BY <1>1, <1>3
<1> QED
  BY <1>2, <1>4 DEF u, v

\* A resample only copies prefixes the group has generated: a step either
\* appends one token to a particle or gives each slot a prefix of some particle.
THEOREM ResamplingCopies == Spec => ResampleOnlyCopiesPrefixes
<1> DEFINE Copies ==
        \A i \in Particles :
          LET new == group'.particles[i].token_ids
          IN  \/ \E j \in Particles :
                    /\ Len(new) <= Length(group.particles[j])
                    /\ new = SubSeq(group.particles[j].token_ids, 1, Len(new))
              \/ /\ new # <<>>
                 /\ SubSeq(new, 1, Len(new) - 1) = group.particles[i].token_ids
<1>1. GroupInv /\ [Next]_vars => [Copies]_vars
  <2> SUFFICES ASSUME GroupInv, Next PROVE Copies
    BY DEF vars
  <2>1. group \in Groups /\ group.particles \in [Particles -> ParticleStates]
    BY DEF GroupInv, TypeOK, Groups
  <2>2. \A i \in Particles : /\ group.particles[i].token_ids \in Seq(Tokens)
                             /\ Length(group.particles[i]) = Len(group.particles[i].token_ids)
    BY <2>1 DEF ParticleStates, Length
  <2>3. ASSUME NEW s \in Seq(Tokens) PROVE Len(s) <= Len(s) /\ s = SubSeq(s, 1, Len(s))
    OBVIOUS
  <2>4. ASSUME NEW i \in Particles, group'.particles[i] = group.particles[i]
        PROVE  \E j \in Particles :
                 /\ Len(group'.particles[i].token_ids) <= Length(group.particles[j])
                 /\ group'.particles[i].token_ids
                      = SubSeq(group.particles[j].token_ids, 1, Len(group'.particles[i].token_ids))
    BY <2>2, <2>3, <2>4
  <2>5. CASE group'.particles = group.particles
    BY <2>4, <2>5
  <2>6. ASSUME NEW i \in Particles, NEW t \in Tokens, NEW d \in BOOLEAN, Token(i, t, d)
        PROVE  Copies
    <3> DEFINE q == ParticleAfterToken(group.particles[i], t, d)
               s == group.particles[i].token_ids
    <3>1. group'.particles = [group.particles EXCEPT ![i] = q]
      BY <2>1, <2>6 DEF Token, UpdateAfterToken, Groups
    <3>2. q.token_ids = Append(s, t) /\ s \in Seq(Tokens)
      BY <2>1, <2>2 DEF ParticleAfterToken, ParticleStates
    <3>3. Append(s, t) # <<>> /\ SubSeq(Append(s, t), 1, Len(Append(s, t)) - 1) = s
      BY <3>2, AppendFront
    <3> HIDE DEF q, s
    <3>4. \A j \in Particles \ {i} : group'.particles[j] = group.particles[j]
      BY <2>1, <3>1
    <3>5. group'.particles[i].token_ids = Append(s, t)
      BY <2>1, <3>1, <3>2
    <3> QED
      BY <2>4, <3>3, <3>4, <3>5 DEF s
  <2>7. ASSUME NEW b \in 1 .. MaxOutputTokens, NEW a \in AncestorVectors,
               ChecksEss(group, b), group' = ResampleGroup(group, b, a)
        PROVE  Copies
    <3>1. b \in Nat /\ a \in [Particles -> Particles]
      BY MaxOutputTokensAssumption DEF AncestorVectors
    <3>2. \A i \in Particles : b <= Length(group.particles[i])
      BY <2>7, <3>1, CoverageAtBoundary
    <3>3. group'.particles = [i \in Particles |-> ResampledParticle(group.particles[a[i]], b)]
      BY <2>1, <2>7 DEF ResampleGroup, Groups
    <3>4. ASSUME NEW i \in Particles
          PROVE  \E j \in Particles :
                   /\ Len(group'.particles[i].token_ids) <= Length(group.particles[j])
                   /\ group'.particles[i].token_ids
                        = SubSeq(group.particles[j].token_ids, 1, Len(group'.particles[i].token_ids))
      <4>1. a[i] \in Particles
        BY <3>1
      <4>2. group'.particles[i].token_ids = SubSeq(group.particles[a[i]].token_ids, 1, b)
        <5>1. group'.particles[i] = ResampledParticle(group.particles[a[i]], b)
          BY <3>3
        <5>2. ResampledParticle(group.particles[a[i]], b).token_ids
                  = SubSeq(group.particles[a[i]].token_ids, 1, b)
          BY DEF ResampledParticle
        <5> QED
          BY <5>1, <5>2
      <4>3. Len(SubSeq(group.particles[a[i]].token_ids, 1, b)) = b
        BY <2>2, <3>1, <3>2, <4>1
      <4> QED
        BY <3>2, <4>1, <4>2, <4>3
    <3> QED
      BY <3>4
  <2>8. CASE MaybeResampleSkip
    BY <2>1, <2>5, <2>8 DEF MaybeResampleSkip, SkipResample, Groups
  <2>9. CASE MaybeResampleKeep
    BY <2>1, <2>5, <2>9 DEF MaybeResampleKeep, KeepAfterEssCheck, Groups
  <2>10. CASE MaybeResampleDraw
    BY <2>7, <2>10 DEF MaybeResampleDraw
  <2>11. ASSUME NEW i \in Particles, Select(i) PROVE group'.particles = group.particles
    BY <2>1, <2>11 DEF Select, FinalSelect, Groups
  <2> QED
    BY <2>5, <2>6, <2>8, <2>9, <2>10, <2>11 DEF Next
<1> QED
  BY <1>1, GroupInvariance, PTL DEF Spec, ResampleOnlyCopiesPrefixes
=============================================================================
