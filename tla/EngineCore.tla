--------------------------------- MODULE EngineCore ---------------------------------
(***************************************************************************)
(* EngineCore's busy loop (vllm/v1/engine/core.py) over the scheduler and  *)
(* one worker (vllm/v1/worker/gpu_model_runner.py).  frames is the batch   *)
(* queue: the steps handed to the worker whose output the scheduler has    *)
(* not seen, oldest first.  The worker executes steps in the order it gets *)
(* them, so what a step computes is settled when it is queued; the         *)
(* scheduler learns of it later.                                           *)
(*   token_ids  the tokens the worker holds for each request;              *)
(*   mem        the KV cache on the device;                                *)
(*   pc         "loop": the input queue is read and a step may start;      *)
(*              "output": the oldest frame is awaited;                     *)
(*   num_resets how many resets of the prefix cache were requested.        *)
(***************************************************************************)
EXTENDS Scheduler

CONSTANTS AbortableRequests,  \* requests whose client may go away
          MaxResets           \* bound: calls of reset_prefix_cache

ASSUME EngineCoreAssumption ==
    /\ AbortableRequests \subseteq Requests
    /\ MaxResets \in Nat

VARIABLES sched, frames, token_ids, mem, pc, num_resets

vars == <<sched, frames, token_ids, mem, pc, num_resets>>

Init ==
    /\ sched \in {NewScheduler(async) : async \in AsyncSchedulings}
    /\ frames = <<>>
    /\ token_ids = [r \in Requests |-> <<>>]
    /\ mem = NewMemory
    /\ pc = "loop"
    /\ num_resets = 0

\* max_concurrent_batches, without pipeline parallelism.
BatchQueueSize == IF sched.async THEN 2 ELSE 1

-----------------------------------------------------------------------------
(* The worker: _update_states, the forward pass and the sampler.            *)

\* A new request brings its prompt.  With async scheduling a request that was
\* not in the last batch brings all its tokens again; otherwise the worker
\* keeps what it sampled itself, cut to the length the scheduler reports.
WorkerTokens(s, e) ==
    LET r    == e.req
        told == NumTokens(s, r) + s.reqs[r].placeholders
    IN  IF e.kind = "new" THEN Prompt[r]
        ELSE IF s.async /\ (e.kind = "resumed" \/ r \notin s.prev_step)
        THEN AllTokens(s, r)
        ELSE SubSeq(token_ids[r], 1, Min({told, Len(token_ids[r])}))

\* Position up to which a step computes, as far as the worker has tokens.
EndOf(s, e) == Min({e.start + e.n, Len(WorkerTokens(s, e))})

\* discard_request_mask: a step that stops short of the tokens samples nothing.
Samples(s, e) == e.start + e.n >= Len(WorkerTokens(s, e))

ForwardPass(s, m, e) ==
    LET table == s.kv.req_to_blocks[e.req]
        new   == {table[i] : i \in {j \in DOMAIN table : (j - 1) * BlockSize >= e.start}}
    IN  Written(m, table, new, WorkerTokens(s, e), e.start, EndOf(s, e) - 1)

\* What the worker returns for an entry: the sampled token, if any.  prefix
\* records the tokens it was sampled after.
OutputOf(s, e, token) ==
    [req    |-> e.req,
     tokens |-> IF Samples(s, e) THEN <<token>> ELSE <<>>,
     prefix |-> SubSeq(WorkerTokens(s, e), 1, EndOf(s, e))]

-----------------------------------------------------------------------------
(* The busy loop.                                                           *)

\* The worker forgets requests that are gone.
Forgotten(tokens, s) == [r \in Requests |-> IF IsFinished(s, r) THEN <<>> ELSE tokens[r]]

Receive(r) ==
    /\ pc = "loop"
    /\ sched.reqs[r].status = "NEW"
    /\ sched' = AddRequest(sched, r)
    /\ UNCHANGED <<frames, token_ids, mem, pc, num_resets>>

\* From the input queue, or from the aborts queue while a step is awaited.
Abort(r) ==
    /\ sched.reqs[r].status \notin {"NEW", "FINISHED"}
    /\ sched' = FinishRequest(sched, r)
    /\ token_ids' = Forgotten(token_ids, sched')
    /\ UNCHANGED <<frames, mem, pc, num_resets>>

ResetPrefixCache(reset_running_requests) ==
    /\ pc = "loop"
    /\ num_resets < MaxResets
    /\ sched' = ResetPool(IF reset_running_requests THEN ResetRunning(sched) ELSE sched)
    /\ num_resets' = num_resets + 1
    /\ UNCHANGED <<frames, token_ids, mem, pc>>

\* schedule() and execute_model(); the engine waits for output once the batch
\* queue is full or there is nothing more to schedule.
Schedule ==
    /\ pc = "loop"
    /\ HasRequests(sched)
    /\ \E plan \in {SchedulePlan(sched)} :
       LET s       == plan.s
           entries == plan.entries
       IN  /\ sched' = AfterSchedule(plan)
           /\ mem' = FoldLeft(LAMBDA m, e : ForwardPass(s, m, e), mem, entries)
           /\ \E sampled \in [{k \in DOMAIN entries : Samples(s, entries[k])} -> Tokens] :
                 LET frame == [k \in DOMAIN entries |->
                                 OutputOf(s, entries[k],
                                          IF k \in DOMAIN sampled THEN sampled[k] ELSE 0)]
                 IN  /\ frames' = Append(frames, frame)
                     /\ token_ids' = [r \in Requests |->
                           LET ks == {k \in DOMAIN frame : frame[k].req = r}
                           IN  IF ks = {} THEN token_ids[r]
                               ELSE LET k == CHOOSE k \in ks : TRUE
                                    IN  WorkerTokens(s, entries[k]) \o frame[k].tokens]
           /\ pc' = IF Len(frames') < BatchQueueSize
                       /\ (entries # <<>> \/ HasRequests(sched'))
                    THEN "loop" ELSE "output"
    /\ UNCHANGED num_resets

\* update_from_output() with the oldest frame.
Update ==
    /\ pc = "output" \/ ~HasRequests(sched)
    /\ frames # <<>>
    /\ sched' \in UpdateOutcomes(sched, frames[1])
    /\ token_ids' = Forgotten(token_ids, sched')
    /\ frames' = Tail(frames)
    /\ pc' = "loop"
    /\ UNCHANGED <<mem, num_resets>>

Next ==
    \/ \E r \in Requests : Receive(r)
    \/ \E r \in AbortableRequests : Abort(r)
    \/ \E b \in BOOLEAN : ResetPrefixCache(b)
    \/ Schedule
    \/ Update

\* A step of the busy loop is possible exactly when Schedule or Update is
\* enabled.
HasWork == HasRequests(sched) \/ frames # <<>>

\* The engine process keeps running its loop: weak fairness of its steps, with
\* their enabling condition written out.
Fairness == []<>~HasWork \/ []<><<Schedule \/ Update>>_vars

Spec == Init /\ [][Next]_vars /\ Fairness

-----------------------------------------------------------------------------
(* Properties.                                                              *)

Unfinished == {r \in Requests : sched.reqs[r].status \notin {"NEW", "FINISHED"}}

\* The fields of the engine keep their types; an unfinished request (the output
\* of a finished one is gone) is below its max_tokens.
TypeOK ==
    /\ \A r \in Requests :
          /\ sched.reqs[r].status \in Statuses
          /\ sched.reqs[r].output \in Seq(Tokens)
          /\ Len(sched.reqs[r].output) < MaxTokens[r]
          /\ sched.reqs[r].computed \in 0 .. MaxModelLen
          /\ sched.reqs[r].discard \in 0 .. BatchQueueSize
          /\ token_ids[r] \in Seq(Tokens)
    /\ PoolTypeOK(sched.kv.pool)
    /\ Len(frames) <= BatchQueueSize
    /\ pc \in {"loop", "output"}

\* Every unfinished request is in exactly one queue, once, and in the one its
\* status says; a request that finished or was never received holds no blocks.
QueuesMatchStatus ==
    /\ IsInjective(sched.running \o sched.waiting)
    /\ Range(sched.running) = {r \in Requests : sched.reqs[r].status = "RUNNING"}
    /\ Range(sched.waiting) = {r \in Requests : sched.reqs[r].status \in {"WAITING", "PREEMPTED"}}
    /\ Len(sched.running) <= MaxNumRunningReqs
    /\ \A r \in Requests \ Unfinished : sched.kv.req_to_blocks[r] = <<>>

\* Reference counts, free queue and hash map of the pool agree with the block
\* tables, and cache_full_blocks' assertion never fails.
PoolConsistent ==
    /\ FreeQueueConsistent(sched.kv.pool)
    /\ HashMapConsistent(sched.kv.pool)
    /\ sched.kv.pool.ok
    /\ \A b \in Blocks :
          sched.kv.pool.ref_cnt[b]
              = Cardinality({r \in Requests : b \in Range(sched.kv.req_to_blocks[r])})

\* Frames in flight that will return a token for a request.
InFlight(r) ==
    Cardinality({k \in DOMAIN frames :
                    \E i \in DOMAIN frames[k] :
                        frames[k][i].req = r /\ frames[k][i].tokens # <<>>})

\* num_output_placeholders and async_tokens_to_discard together count the
\* frames in flight: no output is expected that never comes, none comes that
\* is not expected, through preemptions, aborts and resets.
PlaceholdersMatchFrames ==
    sched.async =>
        \A r \in Unfinished :
            sched.reqs[r].placeholders + sched.reqs[r].discard = InFlight(r)

\* A token the scheduler is about to append was sampled right after the tokens
\* the request has now: no token is lost, accepted twice or accepted into
\* another sequence.
AcceptedTokensContinueTheRequest ==
    frames # <<>> =>
        \A i \in DOMAIN frames[1] :
            LET o == frames[1][i]
            IN  o.req \in Unfinished /\ o.tokens # <<>> /\ sched.reqs[o.req].discard = 0
                    => o.prefix = AllTokens(sched, o.req)

\* Every position a request counts as computed, as far as its tokens are known,
\* is backed by a block of its table that holds the KV of those tokens.
ComputedKVIsOwn ==
    \A r \in Unfinished :
        HoldsPrefix(mem, sched.kv.req_to_blocks[r], AllTokens(sched, r),
                    Min({sched.reqs[r].computed, NumTokens(sched, r)}))

\* The tokens of a registered child are those of its particle in the
\* scheduler's group manager: sampling, stopping, resampling, preemption and
\* aborts of siblings keep the two in step.
OutputIsParticle ==
    \A r \in sched.children : sched.reqs[r].output = ResampledTokens(sched, r)

\* A block the prefix cache offers under a hash holds the KV of that prefix.
CachedBlocksHoldTheirPrefix ==
    \A b \in Blocks :
        sched.kv.pool.hash[b] # NoHash => HoldsBlock(mem, b, sched.kv.pool.hash[b])

\* Resetting with reset_running_requests frees every block, so the reset
\* succeeds.
ForcedResetSucceeds ==
    pc = "loop" => CanResetPrefixCache(ResetRunning(sched).kv.pool)

\* An engine with unfinished requests, none of them running and no step in
\* flight, admits one.  Nothing else would free blocks: such a step leaves the
\* scheduler as it was, so an engine that admits nobody then never does.
IdleEngineAdmits ==
    pc = "loop" /\ frames = <<>> /\ sched.running = <<>> /\ Unfinished # {}
        => SchedulePlan(sched).entries # <<>>

\* A request the engine has received finishes, whatever preempts or resets it
\* on the way.
EveryRequestFinishes ==
    \A r \in Requests :
        sched.reqs[r].status = "WAITING" ~> sched.reqs[r].status = "FINISHED"
=============================================================================
