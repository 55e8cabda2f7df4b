----------------------------------- MODULE DPWaves -----------------------------------
(***************************************************************************)
(* Request waves of a data-parallel MoE deployment: the front ends         *)
(* (DPAsyncMPClient in vllm/v1/engine/core_client.py), the coordinator     *)
(* (DPCoordinatorProc in coordinator.py) and one engine per rank           *)
(* (DPEngineCoreProc in core.py).  Every forward pass is a collective of   *)
(* all ranks, so the engines start and stop together: an engine without    *)
(* work runs dummy batches, every SyncInterval passes an all-reduce finds  *)
(* out whether anyone has work, and a wave ends when nobody has.           *)
(*   front      current_wave and engines_running of each front end;        *)
(*   first_req  the FIRST_REQ messages to its stats task;                  *)
(*   coord      current_wave and engines_running of the coordinator;       *)
(*   eng        the engines: the wave and pause state of DPEngineCoreProc, *)
(*              the waiting and running requests of its scheduler, and     *)
(*              where its busy loop is: "input" when it handles messages   *)
(*              or starts a step, otherwise the collective it waits in;    *)
(*   reqs, aborted  the requests sent so far, numbered in that order: the  *)
(*              forward passes each still needs and the front end and      *)
(*              engine it went to; and those whose client left;            *)
(*   to_eng, start_wave, to_coord, from_eng  messages on their way, in     *)
(*              order for each sender and receiver;                        *)
(*   published  what the coordinator published last, until the front end   *)
(*              takes it: the stats task drains its socket and uses the    *)
(*              latest message only;                                       *)
(*   admin      pause_generation and resume_generation of a client.        *)
(*                                                                         *)
(* Left out: load statistics, elastic scaling, the batch queue, shutdown,  *)
(* and the second queue that brings an abort into a running step.          *)
(***************************************************************************)
EXTENDS Integers, Sequences, FiniteSets

CONSTANTS DPSize,        \* data_parallel_size
          FrontEnds,     \* API servers
          MaxRequests,   \* bound: requests sent
          Abortable,     \* requests whose client may leave
          MaxPasses,     \* bound: forward passes of a request
          SyncInterval,  \* forward passes between two all-reduces, 32 in the code
          PauseModes,    \* modes of pause_generation in use
          MaxPauses,     \* bound: calls of pause_generation
          MaxCalls       \* bound: requests and pauses together

Engines == 0 .. DPSize - 1

ASSUME DPWavesAssumption ==
    /\ DPSize \in Nat \ {0, 1}
    /\ MaxRequests \in Nat
    /\ Abortable \subseteq 1 .. MaxRequests
    /\ MaxPasses \in Nat \ {0}
    /\ SyncInterval \in Nat \ {0}
    /\ PauseModes \subseteq {"abort", "wait", "keep"}
    /\ MaxPauses \in Nat
    /\ MaxCalls \in Nat

NoEngine == -1

Nothing == [current_wave |-> -1, engines_running |-> FALSE]

VARIABLES front, first_req, coord, eng, reqs, aborted,
          to_eng, start_wave, to_coord, from_eng, published, admin

vars == <<front, first_req, coord, eng, reqs, aborted,
          to_eng, start_wave, to_coord, from_eng, published, admin>>

Requests == DOMAIN reqs

Init ==
    /\ front = [f \in FrontEnds |-> [current_wave |-> 0, engines_running |-> FALSE]]
    /\ first_req = [f \in FrontEnds |-> <<>>]
    /\ coord = [current_wave |-> 0, engines_running |-> FALSE]
    /\ eng = [e \in Engines |-> [current_wave |-> 0, engines_running |-> FALSE,
                                 step_counter |-> 0,
                                 pending_pause |-> FALSE, ignore_start_dp_wave |-> FALSE,
                                 pause_state |-> "UNPAUSED",
                                 waiting |-> {}, running |-> {}, at |-> "input"]]
    /\ reqs = <<>>
    /\ aborted = {}
    /\ to_eng = [f \in FrontEnds |-> [e \in Engines |-> <<>>]]
    /\ start_wave = [e \in Engines |-> <<>>]
    /\ to_coord = [f \in FrontEnds |-> <<>>]
    /\ from_eng = [e \in Engines |-> <<>>]
    /\ published = [f \in FrontEnds |-> Nothing]
    /\ admin = [state |-> "running", acks |-> {}, pauses |-> 0]

-----------------------------------------------------------------------------
(* A front end: add_request_async, abort_requests_async and the stats task. *)

\* Mutant: the identity of an engine is its index.
MutIdentity(e) == e

\* EngineIdentity: the rank as bytes, which no engine finds equal to its
\* engine_index.
Identity(e) == NoEngine

AddRequest(f, e, passes) ==
    /\ Len(reqs) < MaxRequests
    /\ Len(reqs) + admin.pauses < MaxCalls
    /\ reqs' = Append(reqs, [left |-> passes, front |-> f, engine |-> e])
    /\ to_eng' = [to_eng EXCEPT ![f][e] =
                     Append(@, [type |-> "ADD", req |-> Len(reqs'), wave |-> front[f].current_wave])]
    /\ first_req' = IF front[f].engines_running THEN first_req
                    ELSE [first_req EXCEPT ![f] = Append(@, Identity(e))]
    /\ UNCHANGED <<front, coord, eng, aborted, start_wave, to_coord, from_eng,
                   published, admin>>

\* The client of an unfinished request leaves; the abort takes the same way.
AbortRequest(r) ==
    /\ reqs[r].left > 0
    /\ r \in Abortable \ aborted
    /\ aborted' = aborted \cup {r}
    /\ to_eng' = [to_eng EXCEPT ![reqs[r].front][reqs[r].engine] =
                     Append(@, [type |-> "ABORT", req |-> r])]
    /\ UNCHANGED <<front, first_req, coord, eng, reqs, start_wave, to_coord, from_eng,
                   published, admin>>

\* The stats task passes a FIRST_REQ on with the wave it knows of by then.
SendFirstReq(f) ==
    /\ first_req[f] # <<>>
    /\ first_req' = [first_req EXCEPT ![f] = Tail(@)]
    /\ front' = [front EXCEPT ![f].engines_running = TRUE]
    /\ to_coord' = [to_coord EXCEPT ![f] =
                       Append(@, [exclude |-> Head(first_req[f]), wave |-> front[f].current_wave])]
    /\ UNCHANGED <<coord, eng, reqs, aborted, to_eng, start_wave, from_eng, published, admin>>

\* The stats task takes the state the coordinator published.
UpdateFromCoordinator(f) ==
    /\ published[f] # Nothing
    /\ front' = [front EXCEPT ![f] = published[f]]
    /\ published' = [published EXCEPT ![f] = Nothing]
    /\ UNCHANGED <<first_req, coord, eng, reqs, aborted, to_eng, start_wave, to_coord,
                   from_eng, admin>>

\* pause_generation: call_utility_async sends the call to every engine.
PauseGeneration(f, mode) ==
    /\ admin.state = "running"
    /\ admin.pauses < MaxPauses
    /\ Len(reqs) + admin.pauses < MaxCalls
    /\ admin' = [state |-> "pausing", acks |-> {}, pauses |-> admin.pauses + 1]
    /\ to_eng' = [to_eng EXCEPT ![f] =
                     [e \in Engines |-> Append(@[e], [type |-> "PAUSE", mode |-> mode])]]
    /\ UNCHANGED <<front, first_req, coord, eng, reqs, aborted, start_wave, to_coord,
                   from_eng, published>>

\* resume_generation, once every engine has answered.
ResumeGeneration(f) ==
    /\ admin.state = "pausing"
    /\ admin.acks = Engines
    /\ admin' = [admin EXCEPT !.state = "resuming"]
    /\ to_eng' = [to_eng EXCEPT ![f] = [e \in Engines |-> Append(@[e], [type |-> "RESUME"])]]
    /\ UNCHANGED <<front, first_req, coord, eng, reqs, aborted, start_wave, to_coord,
                   from_eng, published>>

-----------------------------------------------------------------------------
(* The coordinator: process_input_socket.                                   *)

Publish(state) == published' = [f \in FrontEnds |-> state]

\* _send_start_wave
SendStartWave(wave, exclude) ==
    start_wave' = [e \in Engines |-> Append(start_wave[e], [wave |-> wave, exclude |-> exclude])]

\* A front end sent a request while it took the engines to be paused.
HandleFirstReq(f) ==
    /\ to_coord[f] # <<>>
    /\ to_coord' = [to_coord EXCEPT ![f] = Tail(@)]
    /\ LET msg == Head(to_coord[f]) IN
       IF coord.engines_running
       THEN UNCHANGED <<coord, start_wave, published>>
       ELSE /\ coord' = [coord EXCEPT !.engines_running = TRUE]
            /\ SendStartWave(coord.current_wave,
                             IF msg.wave < coord.current_wave THEN NoEngine ELSE msg.exclude)
            /\ Publish(coord')
    /\ UNCHANGED <<front, first_req, eng, reqs, aborted, to_eng, from_eng, admin>>

\* Mutant: the end of the current wave is taken for an old one.
MutEndsWave(wave) == coord.current_wave < wave

EndsWave(wave) == coord.current_wave <= wave

\* Rank 0 reports the end of a wave.
HandleWaveComplete(e) ==
    /\ from_eng[e] # <<>>
    /\ Head(from_eng[e]).type = "wave_complete"
    /\ from_eng' = [from_eng EXCEPT ![e] = Tail(@)]
    /\ LET wave == Head(from_eng[e]).wave IN
       IF EndsWave(wave)
       THEN /\ coord' = [current_wave |-> wave + 1, engines_running |-> FALSE]
            /\ Publish(coord')
       ELSE UNCHANGED <<coord, published>>
    /\ UNCHANGED <<front, first_req, eng, reqs, aborted, to_eng, start_wave, to_coord, admin>>

IsNewWave(wave) ==
    \/ wave > coord.current_wave
    \/ wave = coord.current_wave /\ ~coord.engines_running

\* An engine got a request of a wave that is over.
HandleStartWave(e) ==
    /\ from_eng[e] # <<>>
    /\ Head(from_eng[e]).type = "start_wave"
    /\ from_eng' = [from_eng EXCEPT ![e] = Tail(@)]
    /\ LET wave == Head(from_eng[e]).wave IN
       IF IsNewWave(wave)
       THEN /\ coord' = [current_wave |-> wave, engines_running |-> TRUE]
            /\ SendStartWave(wave, e)
            /\ Publish(coord')
       ELSE UNCHANGED <<coord, start_wave, published>>
    /\ UNCHANGED <<front, first_req, eng, reqs, aborted, to_eng, to_coord, admin>>

\* The poll timed out: the state is published again, which only matters to a
\* front end that has come to believe something else.
PublishStats ==
    /\ \E f \in FrontEnds : front[f] # coord
    /\ Publish(coord)
    /\ UNCHANGED <<front, first_req, coord, eng, reqs, aborted, to_eng, start_wave,
                   to_coord, from_eng, admin>>

-----------------------------------------------------------------------------
(* An engine: _handle_client_request.                                       *)

\* The next message of front end f to engine e is of this type.
Receives(f, e, type) ==
    /\ eng[e].at = "input"
    /\ to_eng[f][e] # <<>>
    /\ Head(to_eng[f][e]).type = type
    /\ to_eng' = [to_eng EXCEPT ![f][e] = Tail(@)]

\* A request of a wave that is over, received by an idle engine.
IsStale(s, wave) ==
    /\ wave < s.current_wave
    /\ ~s.engines_running
    /\ s.pause_state = "UNPAUSED"

\* add_request
HandleAdd(f, e) ==
    /\ Receives(f, e, "ADD")
    /\ LET s     == eng[e]
           wave  == Head(to_eng[f][e]).wave
           stale == IsStale(s, wave)
       IN  /\ eng' = [eng EXCEPT ![e].waiting = @ \cup {Head(to_eng[f][e]).req},
                                 ![e].current_wave = IF wave > @ THEN wave ELSE @,
                                 ![e].engines_running = @ \/ stale]
           /\ from_eng' = IF stale
                          THEN [from_eng EXCEPT ![e] =
                                   Append(@, [type |-> "start_wave", wave |-> s.current_wave])]
                          ELSE from_eng
    /\ UNCHANGED <<front, first_req, coord, reqs, aborted, start_wave, to_coord,
                   published, admin>>

\* abort_requests
HandleAbort(f, e) ==
    /\ Receives(f, e, "ABORT")
    /\ LET r == Head(to_eng[f][e]).req IN
       /\ eng' = [eng EXCEPT ![e].waiting = @ \ {r}, ![e].running = @ \ {r}]
       /\ reqs' = [reqs EXCEPT ![r].left = 0]
    /\ UNCHANGED <<front, first_req, coord, aborted, start_wave, to_coord, from_eng,
                   published, admin>>

\* pause_scheduler; in _pause_complete the engine is set going, and it keeps
\* stepping until all ranks have been told.
HandlePause(f, e) ==
    /\ Receives(f, e, "PAUSE")
    /\ LET s     == eng[e]
           mode  == Head(to_eng[f][e]).mode
           ended == IF mode = "abort" THEN s.waiting \cup s.running ELSE {}
       IN  /\ eng' = [eng EXCEPT ![e] =
                         [s EXCEPT !.waiting = @ \ ended, !.running = @ \ ended,
                                   !.pause_state = IF mode = "keep" THEN "PAUSED_ALL" ELSE "PAUSED_NEW",
                                   !.pending_pause = TRUE,
                                   !.engines_running = TRUE]]
           /\ reqs' = [r \in Requests |-> IF r \in ended THEN [reqs[r] EXCEPT !.left = 0]
                                          ELSE reqs[r]]
    /\ UNCHANGED <<front, first_req, coord, aborted, start_wave, to_coord, from_eng,
                   published, admin>>

\* resume_scheduler: refused while a pause is under way, ignored by an engine
\* that runs; otherwise the engine waits for its peers.
HandleResume(f, e) ==
    /\ Receives(f, e, "RESUME")
    /\ eng' = IF eng[e].pending_pause \/ eng[e].engines_running THEN eng
              ELSE [eng EXCEPT ![e].pause_state = "UNPAUSED",
                               ![e].ignore_start_dp_wave = FALSE,
                               ![e].at = "resume"]
    /\ UNCHANGED <<front, first_req, coord, reqs, aborted, start_wave, to_coord, from_eng,
                   published, admin>>

\* Mutant: the wave of the message is not compared.
MutWakesLate(s, e, msg) == ~s.ignore_start_dp_wave /\ msg.exclude # e

\* Mutant: START_DP_WAVE wakes a paused engine.
MutWakes(s, e, msg) == msg.exclude # e /\ msg.wave >= s.current_wave

Wakes(s, e, msg) ==
    /\ ~s.ignore_start_dp_wave
    /\ msg.exclude # e
    /\ msg.wave >= s.current_wave

\* START_DP_WAVE
HandleStartDPWave(e) ==
    /\ eng[e].at = "input"
    /\ start_wave[e] # <<>>
    /\ start_wave' = [start_wave EXCEPT ![e] = Tail(@)]
    /\ LET msg == Head(start_wave[e]) IN
       eng' = IF Wakes(eng[e], e, msg)
              THEN [eng EXCEPT ![e].current_wave = msg.wave, ![e].engines_running = TRUE]
              ELSE eng
    /\ UNCHANGED <<front, first_req, coord, reqs, aborted, to_eng, to_coord, from_eng,
                   published, admin>>

-----------------------------------------------------------------------------
(* An engine: run_busy_loop.                                                *)

\* has_unfinished_requests: what is frozen by a pause does not count.
HasUnfinished(s) ==
    CASE s.pause_state = "PAUSED_ALL" -> FALSE
      [] s.pause_state = "PAUSED_NEW" -> s.running # {}
      [] s.pause_state = "UNPAUSED"   -> s.waiting \cup s.running # {}

\* has_work
HasWork(s) == s.engines_running \/ HasUnfinished(s)

\* _notify_idle_state_callbacks: the pause is answered.
NotifyIdle(e) ==
    /\ eng[e].at = "input"
    /\ ~HasWork(eng[e])
    /\ admin.state = "pausing"
    /\ eng[e].pause_state # "UNPAUSED"
    /\ e \notin admin.acks
    /\ admin' = [admin EXCEPT !.acks = @ \cup {e}]
    /\ UNCHANGED <<front, first_req, coord, eng, reqs, aborted, to_eng, start_wave,
                   to_coord, from_eng, published>>

\* What the scheduler admits.
Admitted(s) == IF s.pause_state = "UNPAUSED" THEN s.waiting ELSE {}

\* A step, of scheduled requests or a dummy one: the engine enters the forward
\* pass.
Step(e) ==
    /\ eng[e].at = "input"
    /\ HasWork(eng[e])
    /\ eng' = [eng EXCEPT ![e].running = @ \cup Admitted(eng[e]),
                          ![e].waiting = @ \ Admitted(eng[e]),
                          ![e].at = "forward"]
    /\ UNCHANGED <<front, first_req, coord, reqs, aborted, to_eng, start_wave, to_coord,
                   from_eng, published, admin>>

\* Mutant: the counter is not advanced by a dummy pass.
MutStepped(s) == IF s.running = {} THEN s.step_counter ELSE (s.step_counter + 1) % SyncInterval

\* step_counter after a pass, modulo SyncInterval.
Stepped(s) == (s.step_counter + 1) % SyncInterval

\* The forward pass, a collective of all ranks.
Forward ==
    /\ \A e \in Engines : eng[e].at = "forward"
    /\ LET scheduled == UNION {eng[e].running : e \in {x \in Engines : eng[x].pause_state # "PAUSED_ALL"}}
           finished  == {r \in scheduled : reqs[r].left = 1}
       IN  /\ reqs' = [r \in Requests |-> IF r \in scheduled THEN [reqs[r] EXCEPT !.left = @ - 1]
                                          ELSE reqs[r]]
           /\ eng' = [e \in Engines |->
                         [eng[e] EXCEPT !.running = @ \ finished,
                                        !.step_counter = Stepped(eng[e]),
                                        !.engines_running = TRUE,
                                        !.at = IF Stepped(eng[e]) = 0 THEN "sync" ELSE "input"]]
    /\ UNCHANGED <<front, first_req, coord, aborted, to_eng, start_wave, to_coord,
                   from_eng, published, admin>>

Pending == {e \in Engines : eng[e].pending_pause}

\* has_unfinished_dp: the ranks reduce whether they have work.
HasUnfinishedDP == \E e \in Engines : HasUnfinished(eng[e])

\* sync_dp_state: someone has work, or some but not all are to pause.
HasUnfinishedGlobal ==
    \/ HasUnfinishedDP
    \/ Cardinality(Pending) % DPSize # 0

\* _has_global_unfinished_reqs at the all-reduce, and the end of the wave.
Sync ==
    /\ \A e \in Engines : eng[e].at = "sync"
    /\ LET go_on     == HasUnfinishedGlobal
           consensus == Pending = Engines
       IN  /\ eng' = [e \in Engines |->
                         [eng[e] EXCEPT !.engines_running = go_on,
                                        !.current_wave = IF go_on THEN @ ELSE @ + 1,
                                        !.pending_pause = @ /\ ~consensus,
                                        !.ignore_start_dp_wave = @ \/ consensus,
                                        !.at = "input"]]
           /\ from_eng' = IF go_on THEN from_eng
                          ELSE [from_eng EXCEPT ![0] =
                                   Append(@, [type |-> "wave_complete", wave |-> eng[0].current_wave])]
    /\ UNCHANGED <<front, first_req, coord, reqs, aborted, to_eng, start_wave, to_coord,
                   published, admin>>

\* has_unfinished_dp in resume_scheduler, the barrier of the resuming ranks.
ResumeBarrier ==
    /\ \A e \in Engines : eng[e].at = "resume"
    /\ eng' = [e \in Engines |->
                  [eng[e] EXCEPT !.engines_running = HasUnfinishedDP,
                                 !.at = "input"]]
    /\ admin' = [admin EXCEPT !.state = "running", !.acks = {}]
    /\ UNCHANGED <<front, first_req, coord, reqs, aborted, to_eng, start_wave, to_coord,
                   from_eng, published>>

-----------------------------------------------------------------------------
HandleClient(f, e) ==
    \/ HandleAdd(f, e)
    \/ HandleAbort(f, e)
    \/ HandlePause(f, e)
    \/ HandleResume(f, e)

CoordinatorStep ==
    \/ \E f \in FrontEnds : HandleFirstReq(f)
    \/ \E e \in Engines : HandleWaveComplete(e) \/ HandleStartWave(e)

Collective == Forward \/ Sync \/ ResumeBarrier

Next ==
    \/ \E f \in FrontEnds, e \in Engines, passes \in 1 .. MaxPasses : AddRequest(f, e, passes)
    \/ \E r \in Requests : AbortRequest(r)
    \/ \E f \in FrontEnds : SendFirstReq(f) \/ UpdateFromCoordinator(f)
    \/ \E f \in FrontEnds, mode \in PauseModes : PauseGeneration(f, mode)
    \/ \E f \in FrontEnds : ResumeGeneration(f)
    \/ CoordinatorStep
    \/ PublishStats
    \/ \E f \in FrontEnds, e \in Engines : HandleClient(f, e)
    \/ \E e \in Engines : HandleStartDPWave(e) \/ NotifyIdle(e) \/ Step(e)
    \/ Collective

\* Processes run, messages arrive, and a client that paused resumes.  The busy
\* loop empties its input queue before every step, so what waits there is
\* handled although the engine keeps stepping.
Fairness ==
    /\ WF_vars(CoordinatorStep)
    /\ WF_vars(Collective)
    /\ \A f \in FrontEnds : WF_vars(SendFirstReq(f)) /\ WF_vars(UpdateFromCoordinator(f))
    /\ \A e \in Engines : WF_vars(Step(e)) /\ WF_vars(NotifyIdle(e))
    /\ \A e \in Engines : SF_vars(HandleStartDPWave(e))
    /\ \A f \in FrontEnds, e \in Engines : SF_vars(HandleClient(f, e))
    /\ WF_vars(\E f \in FrontEnds : ResumeGeneration(f))

Spec == Init /\ [][Next]_vars /\ Fairness

-----------------------------------------------------------------------------
(* Properties.                                                              *)

\* No rank waits in one collective while another waits in a different one: the
\* forward pass, the all-reduce that ends a wave and the barrier of a resume
\* all use the same group and would be matched with each other.
CollectivesMatch ==
    \A e, x \in Engines :
        eng[e].at # "input" /\ eng[x].at # "input" => eng[e].at = eng[x].at

\* When the all-reduce ends a wave, all ranks are in the same wave: rank 0
\* reports its own number and everybody counts on from it.
SameWaveAtSync ==
    (\A e \in Engines : eng[e].at = "sync")
        => \A e, x \in Engines : eng[e].current_wave = eng[x].current_wave

\* Once a pause is answered by one rank, no rank runs the model until it has
\* been resumed on all of them, whatever START_DP_WAVE and requests arrive.
PauseHolds ==
    admin.acks # {} => \A e \in Engines : eng[e].at \notin {"forward", "sync"}

InFlight ==
    \/ \E f \in FrontEnds : first_req[f] # <<>> \/ to_coord[f] # <<>> \/ published[f] # Nothing
    \/ \E e \in Engines : start_wave[e] # <<>> \/ from_eng[e] # <<>>
    \/ \E f \in FrontEnds, e \in Engines : to_eng[f][e] # <<>>

\* With nothing on its way and no rank at work, the coordinator and the front
\* ends know that the engines are stopped, and the wave they stopped at; the
\* next request would not wake the ranks otherwise.  (Without a pause.)
IdleIsKnown ==
    ~InFlight /\ admin.pauses = 0 /\ (\A e \in Engines : ~HasWork(eng[e]) /\ eng[e].at = "input")
        => /\ ~coord.engines_running
           /\ \A f \in FrontEnds : front[f] = coord
           /\ \A e \in Engines : eng[e].current_wave = coord.current_wave

\* A rank that runs a request gets the other ranks to run, with or without a
\* pause: when nothing is on its way any more, it does not wait in the forward
\* pass for a rank that is stopped.
RequestWakesAllRanks ==
    ~InFlight =>
        \A e, x \in Engines :
            eng[e].at = "forward" /\ eng[e].running # {}
                => eng[x].at = "forward" \/ HasWork(eng[x])

\* Without a pause, once no more requests come all of them are finished and the
\* ranks stop: nobody waits for ever in a collective, or runs dummy batches for
\* ever.  And every pause and resume returns, whatever the ranks are at.
EngineSettles ==
    []<>(IF admin.pauses = 0
         THEN /\ \A r \in Requests : reqs[r].left = 0
              /\ \A e \in Engines : eng[e].at = "input" /\ ~HasWork(eng[e])
         ELSE admin.state = "running")
=============================================================================
