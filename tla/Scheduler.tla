--------------------------------- MODULE Scheduler ---------------------------------
(***************************************************************************)
(* The V1 scheduler (vllm/v1/core/sched/scheduler.py, async_scheduler.py)  *)
(* as operators on a record of its fields:                                 *)
(*   reqs      the requests: status, output tokens, num_computed_tokens,   *)
(*             num_output_placeholders, async_tokens_to_discard and        *)
(*             is_prefill_chunk;                                           *)
(*   running, waiting   the queues, policy FCFS;                           *)
(*   kv        the KV cache manager;                                       *)
(*   finished_req_ids, prev_step   finished_req_ids and                    *)
(*             prev_step_scheduled_req_ids;                                *)
(*   group, children   the Power-SMC group manager of the one parent, and  *)
(*             the child requests registered with it.                      *)
(* EngineCore drives these operators.                                      *)
(*                                                                         *)
(* Left out: speculative tokens, encoder inputs, LoRA, the KV connector,   *)
(* structured output, streaming sessions, priorities, pausing, and the     *)
(* pipeline cadence of the V2 model runner.                                *)
(***************************************************************************)
EXTENDS KVMemory, PowerSMC

CONSTANTS Prompt,                \* [Requests -> Seq(Tokens)], prompt_token_ids
          AsyncSchedulings,      \* values of async_scheduling: AsyncScheduler or not
          EnableChunkedPrefill,
          ReserveFullISL,        \* scheduler_reserve_full_isl
          MaxNumRunningReqs,
          MaxNumScheduledTokens, \* token budget of a step
          MaxModelLen,
          MaxTokens,             \* max_tokens of each request
          StopTokens,            \* eos and stop_token_ids
          UsePowerSMC,           \* the requests are the particles of one parent
          KVCow,                 \* config.kv_cow
          ParticleIdx            \* [Requests -> Particles], particle_idx

ASSUME SchedulerAssumption ==
    /\ Prompt \in [Requests -> Seq(Tokens) \ {<<>>}]
    /\ AsyncSchedulings \subseteq BOOLEAN
    /\ {EnableChunkedPrefill, ReserveFullISL, UsePowerSMC, KVCow} \subseteq BOOLEAN
    /\ {MaxNumRunningReqs, MaxNumScheduledTokens, MaxModelLen} \subseteq Nat \ {0}
    /\ MaxTokens \in [Requests -> Nat \ {0}]
    /\ StopTokens \subseteq Tokens
    /\ ParticleIdx \in [Requests -> Particles]
    /\ UsePowerSMC => SMCBlockSize % BlockSize = 0

\* NEW is a request the engine has not received yet.
Statuses == {"NEW", "WAITING", "RUNNING", "PREEMPTED", "FINISHED"}

NewRequest ==
    [status |-> "NEW", output |-> <<>>, computed |-> 0,
     placeholders |-> 0, discard |-> 0, is_prefill_chunk |-> FALSE]

NewScheduler(async) ==
    [async            |-> async,
     reqs             |-> [r \in Requests |-> NewRequest],
     running          |-> <<>>,
     waiting          |-> <<>>,
     kv               |-> NewKV,
     finished_req_ids |-> {},
     prev_step        |-> {},
     group            |-> NewGroup,
     children         |-> {}]

AllTokens(s, r) == Prompt[r] \o s.reqs[r].output

NumTokens(s, r) == Len(AllTokens(s, r))

IsFinished(s, r) == s.reqs[r].status = "FINISHED"

Without(queue, S) == SelectSeq(queue, LAMBDA r : r \notin S)

\* get_num_unfinished_requests() > 0, or finished requests not yet reported.
HasRequests(s) ==
    s.waiting # <<>> \/ s.running # <<>> \/ s.finished_req_ids # {}

-----------------------------------------------------------------------------
(* Leaving the scheduler.                                                   *)

AddRequest(s, r) ==
    [s EXCEPT !.reqs[r].status = "WAITING", !.waiting = Append(@, r)]

\* Mutant: any child that leaves takes the group manager with it.
MutForgetGroup(s, r) == [s EXCEPT !.children = @ \ {r}, !.group = NewGroup]

\* _free_blocks on the Power-SMC side: the last child to leave takes the
\* group manager with it.
ForgetParticle(s, r) ==
    IF s.children = {r}
    THEN [s EXCEPT !.children = {}, !.group = NewGroup]
    ELSE [s EXCEPT !.children = @ \ {r}]

\* _free_request.  The fields of a request that is gone are reset, so that
\* states differ only in what the program can still see.
FreeFinished(s, r) ==
    ForgetParticle(
        [s EXCEPT !.kv = FreeRequest(@, r),
                  !.reqs[r] = [NewRequest EXCEPT !.status = "FINISHED"],
                  !.finished_req_ids = @ \cup {r}], r)

\* Mutant: a request that was preempted when it finished stays queued.
MutFinishStaysQueued(s, r) == FreeFinished([s EXCEPT !.running = Without(@, {r})], r)

\* The request leaves its queue and is freed: finish_requests when a client
\* aborts it, the end of update_from_output when it stopped.
FinishRequest(s, r) ==
    FreeFinished([s EXCEPT !.running = Without(@, {r}),
                           !.waiting = Without(@, {r})], r)

\* Mutant: a preempted request keeps its blocks.
MutPreemptKeepsBlocks(s, r) ==
    [s EXCEPT !.running = Without(@, {r}),
              !.reqs[r].status = "PREEMPTED",
              !.reqs[r].computed = 0,
              !.waiting = <<r>> \o @]

\* Mutant: the preempted request is not queued again.
MutPreemptLosesRequest(s, r) ==
    [s EXCEPT !.running = Without(@, {r}),
              !.kv = FreeRequest(@, r),
              !.reqs[r].status = "PREEMPTED",
              !.reqs[r].computed = 0]

\* _preempt_request.
Preempt(s, r) ==
    [s EXCEPT !.running = Without(@, {r}),
              !.kv = FreeRequest(@, r),
              !.reqs[r].status = "PREEMPTED",
              !.reqs[r].computed = 0,
              !.waiting = <<r>> \o @]

-----------------------------------------------------------------------------
(* schedule().  A plan is the scheduler with the token budget left, whether *)
(* something was preempted, and the requests scheduled so far.              *)

\* _power_smc_should_pause_at_group_boundary.
ShouldPauseAtGroupBoundary(s, r) ==
    LET n == Len(s.reqs[r].output)
    IN  /\ UsePowerSMC
        /\ s.children # {}
        /\ s.reqs[r].computed >= NumTokens(s, r)
        /\ n # 0 /\ AtBlockBoundary(n)
        /\ \E i \in Particles : Length(s.group.particles[i]) < n

\* Async scheduling: the steps in flight reach max_tokens for sure.
ReachesMaxTokens(s, r) ==
    LET q == s.reqs[r]
    IN  /\ q.placeholders > 0
        /\ q.computed + 2 - q.placeholders >= Len(Prompt[r]) + MaxTokens[r]

NumNewTokens(s, r, budget) ==
    Min({NumTokens(s, r) + s.reqs[r].placeholders - s.reqs[r].computed,
         budget,
         MaxModelLen - 1 - s.reqs[r].computed})

\* One entry of num_scheduled_tokens, with what the worker is told.
Entry(r, n, start, kind) == [req |-> r, n |-> n, start |-> start, kind |-> kind]

RECURSIVE AllocateOrPreempt(_, _, _)
\* allocate_slots for a running request, preempting the tail of the queue until
\* it succeeds or the request itself was preempted.
AllocateOrPreempt(plan, r, n) ==
    LET s    == plan.s
        tail == s.running[Len(s.running)]
    IN  IF ~CannotAllocate(s.kv, r, NumTokens(s, r), s.reqs[r].computed, n, <<>>, FALSE)
        THEN [plan EXCEPT
                 !.s.kv = AllocateSlots(@, r, AllTokens(s, r), s.reqs[r].computed, n, <<>>),
                 !.budget = @ - n,
                 !.entries = Append(@, Entry(r, n, s.reqs[r].computed, "running"))]
        ELSE LET preempted == [plan EXCEPT !.s = Preempt(s, tail), !.preempted = TRUE]
             IN  IF tail = r THEN [preempted EXCEPT !.stuck = TRUE]
                 ELSE AllocateOrPreempt(preempted, r, n)

RECURSIVE ScheduleRunning(_, _)
\* The loop over the RUNNING requests, from the i-th.
ScheduleRunning(plan, i) ==
    LET s == plan.s
        r == s.running[i]
        n == NumNewTokens(s, r, plan.budget)
    IN  IF plan.stuck \/ i > Len(s.running) \/ plan.budget = 0 THEN plan
        ELSE IF ReachesMaxTokens(s, r) \/ ShouldPauseAtGroupBoundary(s, r) \/ n = 0
        THEN ScheduleRunning(plan, i + 1)
        ELSE ScheduleRunning(AllocateOrPreempt(plan, r, n), i + 1)

\* Cached tokens count for a request that has computed none; one that was
\* resampled keeps the count it was queued with.
LocalHit(s, r) ==
    IF s.reqs[r].computed = 0 THEN GetComputedBlocks(s.kv, AllTokens(s, r)) ELSE <<>>

NumComputedAt(s, r) == s.reqs[r].computed + Len(LocalHit(s, r)) * BlockSize

NumAdmittedTokens(plan, r) ==
    Min({NumTokens(plan.s, r) - NumComputedAt(plan.s, r), plan.budget})

CannotAdmit(plan, r) ==
    LET s == plan.s
    IN  \/ ~EnableChunkedPrefill /\ NumTokens(s, r) - NumComputedAt(s, r) > plan.budget
        \/ CannotAllocate(s.kv, r, NumTokens(s, r), s.reqs[r].computed,
                          NumAdmittedTokens(plan, r), LocalHit(s, r), ReserveFullISL)

\* The head of the waiting queue gets its blocks and runs.
Admitted(plan, r) ==
    LET s == plan.s
        n == NumAdmittedTokens(plan, r)
    IN  [plan EXCEPT
            !.s.waiting = Tail(@),
            !.s.running = Append(@, r),
            !.s.kv = AllocateSlots(@, r, AllTokens(s, r), s.reqs[r].computed, n, LocalHit(s, r)),
            !.s.reqs[r].status = "RUNNING",
            !.s.reqs[r].computed = NumComputedAt(s, r),
            !.budget = @ - n,
            !.entries = Append(@, Entry(r, n, NumComputedAt(s, r),
                            IF s.reqs[r].status = "WAITING" THEN "new" ELSE "resumed"))]

RECURSIVE ScheduleWaiting(_)
\* The loop over the WAITING requests.
ScheduleWaiting(plan) ==
    IF \/ plan.s.waiting = <<>>
       \/ plan.budget = 0
       \/ Len(plan.s.running) = MaxNumRunningReqs
       \/ CannotAdmit(plan, Head(plan.s.waiting))
    THEN plan
    ELSE ScheduleWaiting(Admitted(plan, Head(plan.s.waiting)))

\* Mutant: a prefill chunk expects an output too.
MutPlaceholderForChunk(s, r) == [s EXCEPT !.reqs[r].placeholders = @ + 1]

\* AsyncScheduler._update_after_schedule: a step that ends at the last token
\* will return one.
AddPlaceholder(s, r) ==
    IF s.reqs[r].is_prefill_chunk THEN s ELSE [s EXCEPT !.reqs[r].placeholders = @ + 1]

\* _update_after_schedule, for one entry.
UpdateAfterSchedule(s, e) ==
    LET q == s.reqs[e.req]
        t == [s EXCEPT !.reqs[e.req].computed = @ + e.n,
                       !.reqs[e.req].is_prefill_chunk =
                           q.computed + e.n < NumTokens(s, e.req) + q.placeholders]
    IN  IF s.async THEN AddPlaceholder(t, e.req) ELSE t

SchedulePlan(s) ==
    LET plan == ScheduleRunning([s |-> s, budget |-> MaxNumScheduledTokens, preempted |-> FALSE,
                                 stuck |-> FALSE, entries |-> <<>>], 1)
    IN  IF plan.preempted THEN plan ELSE ScheduleWaiting(plan)

AfterSchedule(plan) ==
    [FoldLeft(UpdateAfterSchedule, plan.s, plan.entries)
        EXCEPT !.finished_req_ids = {},
               !.prev_step = {plan.entries[k].req : k \in DOMAIN plan.entries}]

-----------------------------------------------------------------------------
(* update_from_output().                                                    *)

\* Mutant: the limit on the output is off by one.
MutStopsLate(s, r) ==
    LET output == s.reqs[r].output
    IN  \/ output[Len(output)] \in StopTokens
        \/ NumTokens(s, r) >= MaxModelLen
        \/ Len(output) > MaxTokens[r]

\* check_stop, after a token was appended.
CheckStop(s, r) ==
    LET output == s.reqs[r].output
    IN  \/ output[Len(output)] \in StopTokens
        \/ NumTokens(s, r) >= MaxModelLen
        \/ Len(output) >= MaxTokens[r]

\* AsyncScheduler: one placeholder less, and the blocks whose tokens are known
\* now are cached.  A negative count fails the assertion before that.
SettlePlaceholder(s, r) ==
    LET q    == s.reqs[r]
        left == q.placeholders - 1
    IN  [s EXCEPT !.reqs[r].placeholders = left,
                  !.kv = IF q.status = "RUNNING" /\ left >= 0
                         THEN CacheBlocks(@, r, AllTokens(s, r), q.computed - left)
                         ELSE @]

\* _observe_power_smc_request_output registers the child on its first token.
Observe(s, r, token) ==
    [s EXCEPT !.group = UpdateAfterToken(@, ParticleIdx[r], token, FALSE),
              !.children = @ \cup {r}]

AppendOutputToken(s, r, token) == [s EXCEPT !.reqs[r].output = Append(@, token)]

AcceptToken(s, r, token) ==
    LET appended == AppendOutputToken(s, r, token)
        settled  == IF s.async THEN SettlePlaceholder(appended, r) ELSE appended
    IN  IF CheckStop(appended, r) THEN FinishRequest(settled, r)
        ELSE IF UsePowerSMC THEN Observe(settled, r, token)
        ELSE settled

\* Mutant: a frame in flight when the request was reset is accepted.
MutAcceptStale(s, o) ==
    IF IsFinished(s, o.req) \/ o.tokens = <<>> THEN s
    ELSE AcceptToken(s, o.req, o.tokens[1])

\* One request of the frame: skipped when it finished meanwhile or the step was
\* a prefill chunk; dropped when a reset of the prefix cache made it stale.
UpdateRequest(s, o) ==
    IF IsFinished(s, o.req) \/ o.tokens = <<>> THEN s
    ELSE IF s.async /\ s.reqs[o.req].discard > 0
    THEN [s EXCEPT !.reqs[o.req].discard = @ - 1]
    ELSE AcceptToken(s, o.req, o.tokens[1])

\* Between s and t a token was observed that took its particle to a block
\* boundary.
ReachedBoundary(s, t) ==
    \E r \in t.children :
        /\ Len(t.reqs[r].output) > Len(s.reqs[r].output)
        /\ AtBlockBoundary(Length(t.group.particles[ParticleIdx[r]]))

-----------------------------------------------------------------------------
(* _apply_power_smc_resample_plan().                                        *)

ResampledTokens(s, r) == s.group.particles[ParticleIdx[r]].token_ids

AncestorIdx(s, r) == s.group.last_resample_plan.ancestors[ParticleIdx[r]]

\* _power_smc_child_resample_is_scheduler_noop.
ResampleIsNoop(s, r) ==
    /\ AncestorIdx(s, r) = ParticleIdx[r]
    /\ s.reqs[r].output = ResampledTokens(s, r)
    /\ s.reqs[r].computed >= NumTokens(s, r)
    /\ s.reqs[r].placeholders = 0
    /\ s.reqs[r].discard = 0
    /\ ~s.reqs[r].is_prefill_chunk

\* Mutant: the last, partly filled block is shared too.
MutAliasTail(s, r) == CDiv(Len(Prompt[r]) + Len(ResampledTokens(s, r)), BlockSize)

\* Full blocks before the last token, which is replayed.
NumAliasBlocks(s, r) ==
    (Len(Prompt[r]) + Len(ResampledTokens(s, r)) - 1) \div BlockSize

\* The child takes its new tokens; snapshot is the scheduler before any child
\* changed.
ResampleChild(s, r, snapshot) ==
    LET n       == NumAliasBlocks(s, r)
        sources == {a \in s.children : ParticleIdx[a] = AncestorIdx(s, r)}
        aliased == {a \in sources : KVCow /\ n > 0 /\ Len(snapshot.kv.req_to_blocks[a]) >= n}
    IN  [s EXCEPT
           !.kv = IF aliased = {} THEN FreeRequest(@, r)
                  ELSE LET a == CHOOSE a \in aliased : TRUE
                       IN  AliasFromSnapshot(@, r, snapshot.kv.req_to_blocks[a],
                                             NumCachedBlocks(snapshot.kv, a), n),
           !.reqs[r] = [NewRequest EXCEPT
                           !.status = "PREEMPTED",
                           !.output = ResampledTokens(s, r),
                           !.computed = IF aliased = {} THEN 0 ELSE n * BlockSize]]

\* Every child that changes goes to the front of the waiting queue.
ApplyResamplePlan(s) ==
    LET moved == {r \in s.children : ~ResampleIsNoop(s, r)}
        order == SetToSortSeq(moved, LAMBDA a, b : ParticleIdx[a] < ParticleIdx[b])
        done  == FoldLeft(LAMBDA t, r : ResampleChild(t, r, s), s, order)
    IN  [done EXCEPT !.running = Without(@, moved),
                     !.waiting = order \o Without(@, moved),
                     !.prev_step = @ \ moved]

\* Every scheduler update_from_output may leave behind.
UpdateOutcomes(s, frame) ==
    LET t == FoldLeft(UpdateRequest, s, frame)
    IN  IF ~UsePowerSMC \/ ~ReachedBoundary(s, t) THEN {t}
        ELSE {IF Resampled(g) THEN ApplyResamplePlan([t EXCEPT !.group = g])
              ELSE [t EXCEPT !.group = g] : g \in MaybeResampleOutcomes(t.group)}

-----------------------------------------------------------------------------
(* reset_prefix_cache().                                                    *)

\* Mutant: frames in flight are not marked stale.
MutResetKeepsPlaceholders(s, r) == Preempt(s, r)

\* A running request is preempted and its frames in flight become stale.
PreemptForReset(s, r) ==
    LET t == Preempt(s, r)
    IN  [t EXCEPT !.reqs[r].discard = t.reqs[r].placeholders,
                  !.reqs[r].placeholders = 0]

ResetRunning(s) ==
    [FoldLeft(PreemptForReset, s, Reverse(s.running)) EXCEPT !.prev_step = {}]

\* A reset that fails leaves the prefix cache alone.
ResetPool(s) ==
    IF CanResetPrefixCache(s.kv.pool) THEN [s EXCEPT !.kv.pool = ResetCachedHashes(@)] ELSE s
=============================================================================
