------------------------------- MODULE DPWavesBase -------------------------------
(***************************************************************************)
(* The types of the data-parallel waves, and what the engines, the         *)
(* coordinator and the front ends know of the waves: every step keeps      *)
(* both, for any number of engines, front ends, requests and pauses.       *)
(***************************************************************************)
EXTENDS DPWaves, TLAPS

WaveState == [current_wave : Nat, engines_running : BOOLEAN]

EngineState == [current_wave : Nat, engines_running : BOOLEAN, step_counter : Nat,
                pending_pause : BOOLEAN, ignore_start_dp_wave : BOOLEAN,
                pause_state : {"UNPAUSED", "PAUSED_NEW", "PAUSED_ALL"},
                waiting : SUBSET Nat, running : SUBSET Nat,
                at : {"input", "forward", "sync", "resume"}]

FirstReqMessage == [exclude : Int, wave : Nat]

StartWaveMessage == [wave : Nat, exclude : Int]

EngineMessage == [type : {"wave_complete", "start_wave"}, wave : Nat]

Request == [left : Int, front : FrontEnds, engine : Engines]

ClientMessage == [type : {"ADD"}, req : Nat, wave : Nat]
                 \cup [type : {"ABORT"}, req : Nat]
                 \cup [type : {"PAUSE"}, mode : PauseModes]
                 \cup [type : {"RESUME"}]

\* The state of the front ends and of the coordinator, and what is on its way
\* between them.
WavesOK ==
    /\ front \in [FrontEnds -> WaveState]
    /\ coord \in WaveState
    /\ published \in [FrontEnds -> WaveState \cup {Nothing}]
    /\ from_eng \in [Engines -> Seq(EngineMessage)]
    /\ start_wave \in [Engines -> Seq(StartWaveMessage)]
    /\ first_req \in [FrontEnds -> Seq(Int)]
    /\ to_coord \in [FrontEnds -> Seq(FirstReqMessage)]

\* The engines, and the messages of their clients.
EnginesOK ==
    /\ eng \in [Engines -> EngineState]
    /\ to_eng \in [FrontEnds -> [Engines -> Seq(ClientMessage)]]
    /\ reqs \in Seq(Request)
    /\ admin \in [state : {"running", "pausing", "resuming"}, acks : SUBSET Engines, pauses : Nat]

TypeOK == WavesOK /\ EnginesOK

-----------------------------------------------------------------------------
(* Types.                                                                   *)

\* Queues: a message sent, a message received, and a message to all.
LEMMA Send ==
    ASSUME NEW D, NEW S, NEW q \in [D -> Seq(S)], NEW d \in D, NEW m \in S
    PROVE  [q EXCEPT ![d] = Append(@, m)] \in [D -> Seq(S)]
OBVIOUS

LEMMA Receive ==
    ASSUME NEW D, NEW S, NEW q \in [D -> Seq(S)], NEW d \in D, q[d] # <<>>
    PROVE  Head(q[d]) \in S /\ [q EXCEPT ![d] = Tail(@)] \in [D -> Seq(S)]
OBVIOUS

LEMMA SendToAll ==
    ASSUME NEW D, NEW S, NEW q \in [D -> Seq(S)], NEW m \in S
    PROVE  [d \in D |-> Append(q[d], m)] \in [D -> Seq(S)]
OBVIOUS

\* A map over the requests is a sequence again.
LEMMA RequestsMap ==
    ASSUME NEW S, reqs \in Seq(S), NEW g \in [Requests -> S]
    PROVE  g \in Seq(S)
<1>1. Len(reqs) \in Nat /\ Requests = 1 .. Len(reqs)
  BY DEF Requests
<1>2. g \in [1 .. Len(reqs) -> S]
  BY <1>1
<1> QED
  BY <1>1, <1>2

\* What the front ends and the coordinator know keeps its types.
LEMMA WavesStep ==
    ASSUME TypeOK, Next
    PROVE  WavesOK'
<1> USE DEF TypeOK, WavesOK
<1>a. \A s \in WaveState : s.current_wave \in Nat /\ [s EXCEPT !.engines_running = TRUE] \in WaveState
  BY DEF WaveState
<1>b. \A m \in EngineMessage : m.wave \in Nat
  BY DEF EngineMessage
<1>c. \A n \in Nat : /\ [type |-> "wave_complete", wave |-> n] \in EngineMessage
                     /\ [type |-> "start_wave", wave |-> n] \in EngineMessage
  BY DEF EngineMessage
<1>d. \A n \in Nat, i \in Int : /\ [wave |-> n, exclude |-> i] \in StartWaveMessage
                                /\ [exclude |-> i, wave |-> n] \in FirstReqMessage
  BY DEF StartWaveMessage, FirstReqMessage
<1>e. \A m \in FirstReqMessage : m.exclude \in Int
  BY DEF FirstReqMessage
<1>f. \A n \in Nat, b \in BOOLEAN : [current_wave |-> n, engines_running |-> b] \in WaveState
  BY DEF WaveState
<1>g. \A s \in WaveState : [f \in FrontEnds |-> s] \in [FrontEnds -> WaveState \cup {Nothing}]
  OBVIOUS
<1>h. Engines \subseteq Int /\ 0 \in Engines /\ NoEngine \in Int
  BY DPWavesAssumption DEF Engines, NoEngine
<1>i. \A e \in Engines, m \in EngineMessage :
         [from_eng EXCEPT ![e] = Append(@, m)] \in [Engines -> Seq(EngineMessage)]
  BY Send
<1>j. \A m \in StartWaveMessage :
         [e \in Engines |-> Append(start_wave[e], m)] \in [Engines -> Seq(StartWaveMessage)]
  BY SendToAll
<1>k. \A f \in FrontEnds, m \in FirstReqMessage :
         [to_coord EXCEPT ![f] = Append(@, m)] \in [FrontEnds -> Seq(FirstReqMessage)]
  BY Send
<1>1. CASE \E f \in FrontEnds, e \in Engines, passes \in 1 .. MaxPasses : AddRequest(f, e, passes)
  <2>1. PICK f \in FrontEnds, e \in Engines : \E passes \in 1 .. MaxPasses : AddRequest(f, e, passes)
    BY <1>1
  <2>2. first_req' \in [FrontEnds -> Seq(Int)]
    BY <1>h, <2>1, Send DEF AddRequest, Identity
  <2> QED
    BY <2>1, <2>2 DEF AddRequest
<1>2. CASE \E r \in Requests : AbortRequest(r)
  BY <1>2 DEF AbortRequest
<1>3. ASSUME NEW f \in FrontEnds, SendFirstReq(f)
      PROVE  WavesOK'
  <2>1. Head(first_req[f]) \in Int /\ first_req' \in [FrontEnds -> Seq(Int)]
    BY <1>3, Receive DEF SendFirstReq
  <2>2. to_coord' \in [FrontEnds -> Seq(FirstReqMessage)]
    <3> DEFINE m == [exclude |-> Head(first_req[f]), wave |-> front[f].current_wave]
    <3>1. m \in FirstReqMessage
      BY <1>a, <1>d, <2>1
    <3>2. to_coord' = [to_coord EXCEPT ![f] = Append(@, m)]
      BY <1>3 DEF SendFirstReq
    <3> HIDE DEF m
    <3> QED
      BY <1>k, <3>1, <3>2
  <2>3. front' \in [FrontEnds -> WaveState]
    BY <1>3, <1>a DEF SendFirstReq
  <2> QED
    BY <1>3, <2>1, <2>2, <2>3 DEF SendFirstReq
<1>4. ASSUME NEW f \in FrontEnds, UpdateFromCoordinator(f)
      PROVE  WavesOK'
  <2>1. published[f] \in WaveState
    BY <1>4 DEF UpdateFromCoordinator
  <2> QED
    BY <1>4, <2>1 DEF UpdateFromCoordinator
<1>5. CASE \E f \in FrontEnds, mode \in PauseModes : PauseGeneration(f, mode)
  BY <1>5 DEF PauseGeneration
<1>6. CASE \E f \in FrontEnds : ResumeGeneration(f)
  BY <1>6 DEF ResumeGeneration
<1>7. ASSUME NEW f \in FrontEnds, HandleFirstReq(f)
      PROVE  WavesOK'
  <2>1. /\ Head(to_coord[f]) \in FirstReqMessage
        /\ to_coord' \in [FrontEnds -> Seq(FirstReqMessage)]
    BY <1>7, Receive DEF HandleFirstReq
  <2>2. CASE coord.engines_running
    BY <1>7, <2>1, <2>2 DEF HandleFirstReq
  <2>3. CASE ~coord.engines_running
    <3>1. coord' \in WaveState
      BY <1>7, <1>a, <2>3 DEF HandleFirstReq
    <3>2. published' \in [FrontEnds -> WaveState \cup {Nothing}]
      BY <1>7, <1>g, <2>3, <3>1 DEF HandleFirstReq, Publish
    <3>3. PICK i \in Int : SendStartWave(coord.current_wave, i)
      BY <1>7, <1>e, <1>h, <2>1, <2>3 DEF HandleFirstReq
    <3>4. start_wave' \in [Engines -> Seq(StartWaveMessage)]
      <4> DEFINE m == [wave |-> coord.current_wave, exclude |-> i]
      <4>1. m \in StartWaveMessage
        BY <1>a, <1>d
      <4>2. start_wave' = [x \in Engines |-> Append(start_wave[x], m)]
        BY <3>3 DEF SendStartWave
      <4> HIDE DEF m
      <4> QED
        BY <1>j, <4>1, <4>2
    <3> QED
      BY <1>7, <2>1, <3>1, <3>2, <3>4 DEF HandleFirstReq
  <2> QED
    BY <2>2, <2>3
<1>8. ASSUME NEW e \in Engines, HandleWaveComplete(e)
      PROVE  WavesOK'
  <2>1. Head(from_eng[e]).wave \in Nat /\ from_eng' \in [Engines -> Seq(EngineMessage)]
    BY <1>8, <1>b, Receive DEF HandleWaveComplete
  <2>2. CASE EndsWave(Head(from_eng[e]).wave)
    <3>1. coord' \in WaveState
      <4>1. coord' = [current_wave |-> Head(from_eng[e]).wave + 1, engines_running |-> FALSE]
        BY <1>8, <2>2 DEF HandleWaveComplete
      <4>2. Head(from_eng[e]).wave + 1 \in Nat
        BY <2>1
      <4> QED
        BY <1>f, <4>1, <4>2
    <3>2. published' \in [FrontEnds -> WaveState \cup {Nothing}]
      BY <1>8, <1>g, <2>2, <3>1 DEF HandleWaveComplete, Publish
    <3> QED
      BY <1>8, <2>1, <3>1, <3>2 DEF HandleWaveComplete
  <2>3. CASE ~EndsWave(Head(from_eng[e]).wave)
    BY <1>8, <2>1, <2>3 DEF HandleWaveComplete
  <2> QED
    BY <2>2, <2>3
<1>9. ASSUME NEW e \in Engines, HandleStartWave(e)
      PROVE  WavesOK'
  <2>1. Head(from_eng[e]).wave \in Nat /\ from_eng' \in [Engines -> Seq(EngineMessage)]
    BY <1>9, <1>b, Receive DEF HandleStartWave
  <2>2. CASE IsNewWave(Head(from_eng[e]).wave)
    <3>1. coord' \in WaveState
      BY <1>9, <1>f, <2>1, <2>2 DEF HandleStartWave
    <3>2. published' \in [FrontEnds -> WaveState \cup {Nothing}]
      BY <1>9, <1>g, <2>2, <3>1 DEF HandleStartWave, Publish
    <3>3. start_wave' \in [Engines -> Seq(StartWaveMessage)]
      <4> DEFINE m == [wave |-> Head(from_eng[e]).wave, exclude |-> e]
      <4>1. m \in StartWaveMessage
        BY <1>d, <1>h, <2>1
      <4>2. start_wave' = [x \in Engines |-> Append(start_wave[x], m)]
        BY <1>9, <2>2 DEF HandleStartWave, SendStartWave
      <4> HIDE DEF m
      <4> QED
        BY <1>j, <4>1, <4>2
    <3> QED
      BY <1>9, <2>1, <3>1, <3>2, <3>3 DEF HandleStartWave
  <2>3. CASE ~IsNewWave(Head(from_eng[e]).wave)
    BY <1>9, <2>1, <2>3 DEF HandleStartWave
  <2> QED
    BY <2>2, <2>3
<1>10. CASE PublishStats
  BY <1>10, <1>g DEF PublishStats, Publish
<1>11. ASSUME NEW f \in FrontEnds, NEW e \in Engines, HandleClient(f, e)
       PROVE  WavesOK'
  <2>1. eng[e].current_wave \in Nat
    BY DEF EnginesOK, EngineState
  <2>2. from_eng' \in [Engines -> Seq(EngineMessage)]
    <3> DEFINE m == [type |-> "start_wave", wave |-> eng[e].current_wave]
    <3>1. from_eng' = from_eng \/ from_eng' = [from_eng EXCEPT ![e] = Append(@, m)]
      <4>1. CASE HandleAdd(f, e)
        <5>1. from_eng' = IF IsStale(eng[e], Head(to_eng[f][e]).wave)
                          THEN [from_eng EXCEPT ![e] = Append(@, m)] ELSE from_eng
          BY <4>1 DEF HandleAdd
        <5> QED
          BY <5>1
      <4>2. CASE HandleAbort(f, e) \/ HandlePause(f, e) \/ HandleResume(f, e)
        BY <4>2, Zenon DEF HandleAbort, HandlePause, HandleResume
      <4> QED
        BY <1>11, <4>1, <4>2 DEF HandleClient
    <3>2. m \in EngineMessage
      BY <1>c, <2>1
    <3> HIDE DEF m
    <3>3. CASE from_eng' = from_eng
      BY <3>3
    <3>4. CASE from_eng' = [from_eng EXCEPT ![e] = Append(@, m)]
      BY <1>i, <3>2, <3>4
    <3> QED
      BY <3>1, <3>3, <3>4
  <2> QED
    BY <1>11, <2>2, Zenon DEF HandleClient, HandleAdd, HandleAbort, HandlePause, HandleResume
<1>12. ASSUME NEW e \in Engines, HandleStartDPWave(e)
       PROVE  WavesOK'
  <2>1. start_wave' \in [Engines -> Seq(StartWaveMessage)]
    BY <1>12, Receive DEF HandleStartDPWave
  <2> QED
    BY <1>12, <2>1 DEF HandleStartDPWave
<1>13. ASSUME NEW e \in Engines, NotifyIdle(e) \/ Step(e)
       PROVE  WavesOK'
  BY <1>13 DEF NotifyIdle, Step
<1>14. CASE Collective
  <2>1. eng[0].current_wave \in Nat
    BY <1>h DEF EnginesOK, EngineState
  <2>2. from_eng' \in [Engines -> Seq(EngineMessage)]
    <3> DEFINE m == [type |-> "wave_complete", wave |-> eng[0].current_wave]
    <3>1. from_eng' = from_eng \/ from_eng' = [from_eng EXCEPT ![0] = Append(@, m)]
      <4>1. CASE Sync
        <5>1. from_eng' = IF HasUnfinishedGlobal THEN from_eng
                          ELSE [from_eng EXCEPT ![0] = Append(@, m)]
          BY <4>1, Zenon DEF Sync
        <5> QED
          BY <5>1
      <4>2. CASE Forward \/ ResumeBarrier
        BY <4>2, Zenon DEF Forward, ResumeBarrier
      <4> QED
        BY <1>14, <4>1, <4>2 DEF Collective
    <3>2. m \in EngineMessage
      BY <1>c, <2>1
    <3> HIDE DEF m
    <3>3. CASE from_eng' = from_eng
      BY <3>3
    <3>4. CASE from_eng' = [from_eng EXCEPT ![0] = Append(@, m)]
      BY <1>h, <1>i, <3>2, <3>4
    <3> QED
      BY <3>1, <3>3, <3>4
  <2> QED
    BY <1>14, <2>2, Zenon DEF Collective, Forward, Sync, ResumeBarrier
<1> QED
  BY <1>1, <1>2, <1>3, <1>4, <1>5, <1>6, <1>7, <1>8, <1>9, <1>10, <1>11, <1>12, <1>13, <1>14
     DEF Next, CoordinatorStep

\* What the steps of an engine write keeps the types of its fields.
LEMMA EngineFields ==
    ASSUME NEW s \in EngineState
    PROVE  /\ s.current_wave \in Nat /\ s.engines_running \in BOOLEAN /\ s.step_counter \in Nat
           /\ s.pending_pause \in BOOLEAN /\ s.ignore_start_dp_wave \in BOOLEAN
           /\ s.pause_state \in {"UNPAUSED", "PAUSED_NEW", "PAUSED_ALL"}
           /\ s.waiting \in SUBSET Nat /\ s.running \in SUBSET Nat
           /\ s.at \in {"input", "forward", "sync", "resume"}
BY DEF EngineState

\* A request keeps its type.
LEMMA RequestUpdate ==
    ASSUME reqs \in Seq(Request), NEW i \in Requests
    PROVE  /\ reqs[i] \in Request /\ i \in Nat
           /\ [reqs[i] EXCEPT !.left = 0] \in Request
           /\ [reqs[i] EXCEPT !.left = @ - 1] \in Request
<1>1. reqs[i] \in Request /\ i \in Nat
  BY DEF Requests
<1>2. reqs[i].left - 1 \in Int
  BY <1>1 DEF Request
<1>3. \A q \in Request, n \in Int : [q EXCEPT !.left = n] \in Request
  BY DEF Request
<1> QED
  BY <1>1, <1>2, <1>3

\* The engines and their messages keep their types.
LEMMA EnginesStep ==
    ASSUME TypeOK, Next
    PROVE  EnginesOK'
<1>t. /\ eng \in [Engines -> EngineState]
      /\ reqs \in Seq(Request)
  BY DEF TypeOK, EnginesOK
<1>u. to_eng \in [FrontEnds -> [Engines -> Seq(ClientMessage)]]
  BY DEF TypeOK, EnginesOK
<1>v. admin \in [state : {"running", "pausing", "resuming"}, acks : SUBSET Engines, pauses : Nat]
  BY DEF TypeOK, EnginesOK
<1>a. \A f \in FrontEnds, e \in Engines, m \in ClientMessage :
         [to_eng EXCEPT ![f][e] = Append(@, m)] \in [FrontEnds -> [Engines -> Seq(ClientMessage)]]
  BY <1>u
<1>b. \A f \in FrontEnds, m \in ClientMessage :
         [to_eng EXCEPT ![f] = [e \in Engines |-> Append(@[e], m)]]
            \in [FrontEnds -> [Engines -> Seq(ClientMessage)]]
  <2> SUFFICES ASSUME NEW f \in FrontEnds, NEW m \in ClientMessage
               PROVE  [to_eng EXCEPT ![f] = [e \in Engines |-> Append(@[e], m)]]
                         \in [FrontEnds -> [Engines -> Seq(ClientMessage)]]
    OBVIOUS
  <2>1. [e \in Engines |-> Append(to_eng[f][e], m)] \in [Engines -> Seq(ClientMessage)]
    BY <1>u, SendToAll
  <2> QED
    BY <1>u, <2>1
<1>c. \A e \in Engines, s \in EngineState : [eng EXCEPT ![e] = s] \in [Engines -> EngineState]
  BY <1>t
<1>1. ASSUME NEW f \in FrontEnds, NEW e \in Engines, NEW passes \in 1 .. MaxPasses,
             AddRequest(f, e, passes)
      PROVE  EnginesOK'
  <2> DEFINE m == [type |-> "ADD", req |-> Len(reqs'), wave |-> front[f].current_wave]
  <2>1. [left |-> passes, front |-> f, engine |-> e] \in Request
    BY DEF Request
  <2>2. reqs' \in Seq(Request) /\ Len(reqs') \in Nat
    BY <1>1, <1>t, <2>1 DEF AddRequest
  <2>3. front[f].current_wave \in Nat
    BY DEF TypeOK, WavesOK, WaveState
  <2>4. m \in ClientMessage
    BY <2>2, <2>3 DEF ClientMessage
  <2>5. to_eng' = [to_eng EXCEPT ![f][e] = Append(@, m)]
    BY <1>1 DEF AddRequest
  <2> HIDE DEF m
  <2>6. to_eng' \in [FrontEnds -> [Engines -> Seq(ClientMessage)]]
    BY <1>a, <2>4, <2>5
  <2> QED
    BY <1>1, <1>t, <1>v, <2>2, <2>6 DEF AddRequest, EnginesOK
<1>2. ASSUME NEW r \in Requests, AbortRequest(r)
      PROVE  EnginesOK'
  <2> DEFINE m == [type |-> "ABORT", req |-> r]
  <2>1. r \in Nat /\ reqs[r] \in Request
    BY <1>t, RequestUpdate
  <2>2. m \in ClientMessage
    BY <2>1 DEF ClientMessage
  <2>3. to_eng' = [to_eng EXCEPT ![reqs[r].front][reqs[r].engine] = Append(@, m)]
    BY <1>2 DEF AbortRequest
  <2>4. reqs[r].front \in FrontEnds /\ reqs[r].engine \in Engines
    BY <2>1 DEF Request
  <2> HIDE DEF m
  <2>5. to_eng' \in [FrontEnds -> [Engines -> Seq(ClientMessage)]]
    BY <1>a, <2>2, <2>3, <2>4
  <2> QED
    BY <1>2, <1>t, <1>v, <2>5 DEF AbortRequest, EnginesOK
<1>3. ASSUME NEW f \in FrontEnds, SendFirstReq(f) \/ UpdateFromCoordinator(f)
      PROVE  EnginesOK'
  BY <1>3, <1>t, <1>u, <1>v DEF SendFirstReq, UpdateFromCoordinator, EnginesOK
<1>4. ASSUME NEW f \in FrontEnds, NEW mode \in PauseModes, PauseGeneration(f, mode)
      PROVE  EnginesOK'
  <2> DEFINE m == [type |-> "PAUSE", mode |-> mode]
  <2>1. m \in ClientMessage
    BY DEF ClientMessage
  <2>2. to_eng' = [to_eng EXCEPT ![f] = [e \in Engines |-> Append(@[e], m)]]
    BY <1>4 DEF PauseGeneration
  <2> HIDE DEF m
  <2>3. to_eng' \in [FrontEnds -> [Engines -> Seq(ClientMessage)]]
    BY <1>b, <2>1, <2>2
  <2> QED
    <3>1. admin' \in [state : {"running", "pausing", "resuming"}, acks : SUBSET Engines, pauses : Nat]
      BY <1>4, <1>v DEF PauseGeneration
    <3> QED
      BY <1>4, <1>t, <2>3, <3>1 DEF PauseGeneration, EnginesOK
<1>5. ASSUME NEW f \in FrontEnds, ResumeGeneration(f)
      PROVE  EnginesOK'
  <2> DEFINE m == [type |-> "RESUME"]
  <2>1. m \in ClientMessage
    BY DEF ClientMessage
  <2>2. to_eng' = [to_eng EXCEPT ![f] = [e \in Engines |-> Append(@[e], m)]]
    BY <1>5 DEF ResumeGeneration
  <2> HIDE DEF m
  <2>3. to_eng' \in [FrontEnds -> [Engines -> Seq(ClientMessage)]]
    BY <1>b, <2>1, <2>2
  <2> QED
    <3>1. admin' \in [state : {"running", "pausing", "resuming"}, acks : SUBSET Engines, pauses : Nat]
      BY <1>5, <1>v DEF ResumeGeneration
    <3> QED
      BY <1>5, <1>t, <2>3, <3>1 DEF ResumeGeneration, EnginesOK
<1>6. CASE CoordinatorStep \/ PublishStats
  BY <1>6, <1>t, <1>u, <1>v
     DEF EnginesOK, CoordinatorStep, HandleFirstReq, HandleWaveComplete, HandleStartWave, PublishStats
<1>7. ASSUME NEW f \in FrontEnds, NEW e \in Engines, HandleClient(f, e)
      PROVE  EnginesOK'
  <2>0. \E type \in {"ADD", "ABORT", "PAUSE", "RESUME"} : Receives(f, e, type)
    BY <1>7, Zenon DEF HandleClient, HandleAdd, HandleAbort, HandlePause, HandleResume
  <2>1. to_eng[f] \in [Engines -> Seq(ClientMessage)] /\ to_eng[f][e] # <<>>
    BY <1>u, <2>0 DEF Receives
  <2>2. to_eng' \in [FrontEnds -> [Engines -> Seq(ClientMessage)]]
    <3>1. [to_eng[f] EXCEPT ![e] = Tail(@)] \in [Engines -> Seq(ClientMessage)]
      BY <2>1, Receive
    <3> QED
      BY <1>u, <2>0, <3>1 DEF Receives
  <2>3. eng[e] \in EngineState /\ Head(to_eng[f][e]) \in ClientMessage
    BY <1>t, <2>1, Receive
  <2>4. CASE HandleAdd(f, e)
    <3>1. Head(to_eng[f][e]).req \in Nat /\ Head(to_eng[f][e]).wave \in Nat
      BY <2>3, <2>4 DEF HandleAdd, Receives, ClientMessage
    <3>2. eng' \in [Engines -> EngineState]
      <4> DEFINE w == Head(to_eng[f][e]).wave
                 s == [eng[e] EXCEPT !.waiting = @ \cup {Head(to_eng[f][e]).req},
                                     !.current_wave = IF w > @ THEN w ELSE @,
                                     !.engines_running = @ \/ IsStale(eng[e], w)]
      <4>1. s \in EngineState
        BY <2>3, <3>1, EngineFields DEF EngineState
      <4>2. eng' = [eng EXCEPT ![e] = s]
        BY <2>4, Zenon DEF HandleAdd
      <4> HIDE DEF s
      <4> QED
        BY <1>c, <4>1, <4>2
    <3> QED
      BY <1>t, <1>v, <2>2, <2>4, <3>2 DEF HandleAdd, EnginesOK
  <2>5. CASE HandleAbort(f, e)
    <3> DEFINE r == Head(to_eng[f][e]).req
               s == [eng[e] EXCEPT !.waiting = @ \ {r}, !.running = @ \ {r}]
    <3>1. s \in EngineState
      BY <2>3, EngineFields DEF EngineState
    <3>2. eng' = [eng EXCEPT ![e] = s]
      BY <2>5 DEF HandleAbort
    <3>3. reqs' \in Seq(Request)
      <4>1. reqs' = [reqs EXCEPT ![r].left = 0]
        BY <2>5 DEF HandleAbort
      <4>2. \A i \in Requests : reqs[i] \in Request /\ [reqs[i] EXCEPT !.left = 0] \in Request
        BY <1>t, RequestUpdate
      <4>3. reqs' \in [Requests -> Request]
        BY <1>t, <4>1, <4>2 DEF Requests
      <4> QED
        BY <1>t, <4>3, RequestsMap
    <3> HIDE DEF s
    <3>4. eng' \in [Engines -> EngineState]
      BY <1>c, <3>1, <3>2
    <3> QED
      BY <1>v, <2>2, <2>5, <3>3, <3>4, Zenon DEF HandleAbort, EnginesOK
  <2>6. CASE HandlePause(f, e)
    <3> DEFINE mode == Head(to_eng[f][e]).mode
               ended == IF mode = "abort" THEN eng[e].waiting \cup eng[e].running ELSE {}
               s == [eng[e] EXCEPT !.waiting = @ \ ended, !.running = @ \ ended,
                                   !.pause_state = IF mode = "keep" THEN "PAUSED_ALL" ELSE "PAUSED_NEW",
                                   !.pending_pause = TRUE,
                                   !.engines_running = TRUE]
    <3>1. s \in EngineState
      BY <2>3, EngineFields DEF EngineState
    <3>2. eng' = [eng EXCEPT ![e] = s]
      BY <2>6 DEF HandlePause
    <3>3. reqs' \in Seq(Request)
      <4>1. reqs' = [r \in Requests |-> IF r \in ended THEN [reqs[r] EXCEPT !.left = 0] ELSE reqs[r]]
        BY <2>6 DEF HandlePause
      <4>2. \A i \in Requests : reqs[i] \in Request /\ [reqs[i] EXCEPT !.left = 0] \in Request
        BY <1>t, RequestUpdate
      <4> HIDE DEF ended
      <4>3. reqs' \in [Requests -> Request]
        BY <4>1, <4>2
      <4> QED
        BY <1>t, <4>3, RequestsMap
    <3> HIDE DEF s
    <3>4. eng' \in [Engines -> EngineState]
      BY <1>c, <3>1, <3>2
    <3> QED
      BY <1>v, <2>2, <2>6, <3>3, <3>4 DEF HandlePause, EnginesOK
  <2>7. CASE HandleResume(f, e)
    <3> DEFINE s == [eng[e] EXCEPT !.pause_state = "UNPAUSED", !.ignore_start_dp_wave = FALSE,
                                   !.at = "resume"]
    <3>1. s \in EngineState
      BY <2>3, EngineFields DEF EngineState
    <3>2. eng' = eng \/ eng' = [eng EXCEPT ![e] = s]
      BY <2>7 DEF HandleResume
    <3> HIDE DEF s
    <3>3. CASE eng' = eng
      BY <1>t, <1>v, <2>2, <2>7, <3>3 DEF HandleResume, EnginesOK
    <3>4. CASE eng' = [eng EXCEPT ![e] = s]
      <4>1. eng' \in [Engines -> EngineState]
        BY <1>c, <3>1, <3>4
      <4> QED
        BY <1>t, <1>v, <2>2, <2>7, <4>1 DEF HandleResume, EnginesOK
    <3> QED
      BY <3>2, <3>3, <3>4
  <2> QED
    BY <1>7, <2>4, <2>5, <2>6, <2>7 DEF HandleClient
<1>8. ASSUME NEW e \in Engines, HandleStartDPWave(e)
      PROVE  EnginesOK'
  <2>1. Head(start_wave[e]) \in StartWaveMessage
    BY <1>8, Receive DEF HandleStartDPWave, TypeOK, WavesOK
  <2>2. Head(start_wave[e]).wave \in Nat
    BY <2>1 DEF StartWaveMessage
  <2> DEFINE s == [eng[e] EXCEPT !.current_wave = Head(start_wave[e]).wave, !.engines_running = TRUE]
  <2>3. s \in EngineState
    BY <1>t, <2>2, EngineFields DEF EngineState
  <2>4. eng' = eng \/ eng' = [eng EXCEPT ![e] = s]
    BY <1>8 DEF HandleStartDPWave
  <2> HIDE DEF s
  <2>5. CASE eng' = eng
    BY <1>8, <1>t, <1>u, <1>v, <2>5 DEF HandleStartDPWave, EnginesOK
  <2>6. CASE eng' = [eng EXCEPT ![e] = s]
    <3>1. eng' \in [Engines -> EngineState]
      BY <1>c, <2>3, <2>6
    <3> QED
      BY <1>8, <1>t, <1>u, <1>v, <3>1 DEF HandleStartDPWave, EnginesOK
  <2> QED
    BY <2>4, <2>5, <2>6
<1>9. ASSUME NEW e \in Engines, NotifyIdle(e)
      PROVE  EnginesOK'
  <2>1. admin' \in [state : {"running", "pausing", "resuming"}, acks : SUBSET Engines, pauses : Nat]
    BY <1>9, <1>v DEF NotifyIdle
  <2> QED
    BY <1>9, <1>t, <1>u, <2>1 DEF NotifyIdle, EnginesOK
<1>10. ASSUME NEW e \in Engines, Step(e)
       PROVE  EnginesOK'
  <2> DEFINE s == [eng[e] EXCEPT !.running = @ \cup Admitted(eng[e]),
                                 !.waiting = @ \ Admitted(eng[e]),
                                 !.at = "forward"]
  <2>1. Admitted(eng[e]) \subseteq eng[e].waiting
    BY DEF Admitted
  <2>2. s \in EngineState
    <3>1. eng[e] \in EngineState
      BY <1>t
    <3> QED
      BY <2>1, <3>1 DEF EngineState
  <2>3. eng' = [eng EXCEPT ![e] = s]
    BY <1>10 DEF Step
  <2> HIDE DEF s
  <2>4. eng' \in [Engines -> EngineState]
    BY <1>c, <2>2, <2>3
  <2> QED
    BY <1>10, <1>t, <1>u, <1>v, <2>4 DEF Step, EnginesOK
<1>11. CASE Forward
  <2> DEFINE scheduled == UNION {eng[e].running : e \in {x \in Engines : eng[x].pause_state # "PAUSED_ALL"}}
             finished  == {r \in scheduled : reqs[r].left = 1}
             s(e)      == [eng[e] EXCEPT !.running = @ \ finished,
                                         !.step_counter = Stepped(eng[e]),
                                         !.engines_running = TRUE,
                                         !.at = IF Stepped(eng[e]) = 0 THEN "sync" ELSE "input"]
  <2>1. eng' = [e \in Engines |-> s(e)]
    BY <1>11, Zenon DEF Forward
  <2>2. reqs' = [r \in Requests |-> IF r \in scheduled THEN [reqs[r] EXCEPT !.left = @ - 1] ELSE reqs[r]]
    BY <1>11, Zenon DEF Forward
  <2> HIDE DEF finished, scheduled
  <2>3. \A e \in Engines : Stepped(eng[e]) \in Nat
    BY <1>t, DPWavesAssumption, EngineFields DEF Stepped
  <2>4. \A e \in Engines : s(e) \in EngineState
    <3> SUFFICES ASSUME NEW e \in Engines PROVE s(e) \in EngineState
      BY Zenon
    <3>1. eng[e] \in EngineState
      BY <1>t
    <3> QED
      BY <2>3, <3>1 DEF EngineState
  <2>5. \A i \in Requests : reqs[i] \in Request /\ [reqs[i] EXCEPT !.left = @ - 1] \in Request
    BY <1>t, RequestUpdate
  <2>6. reqs' \in [Requests -> Request]
    BY <2>2, <2>5
  <2>7. reqs' \in Seq(Request)
    BY <1>t, <2>6, RequestsMap
  <2> HIDE DEF s
  <2>8. eng' \in [Engines -> EngineState]
    BY <2>1, <2>4
  <2> QED
    BY <1>11, <1>u, <1>v, <2>7, <2>8, Zenon DEF Forward, EnginesOK
<1>12. CASE Sync
  <2> DEFINE s(e) == [eng[e] EXCEPT !.engines_running = HasUnfinishedGlobal,
                                    !.current_wave = IF HasUnfinishedGlobal THEN @ ELSE @ + 1,
                                    !.pending_pause = @ /\ ~(Pending = Engines),
                                    !.ignore_start_dp_wave = @ \/ Pending = Engines,
                                    !.at = "input"]
  <2>1. eng' = [e \in Engines |-> s(e)]
    BY <1>12, Zenon DEF Sync
  <2>2. HasUnfinishedGlobal \in BOOLEAN
    BY DEF HasUnfinishedGlobal
  <2>3. \A e \in Engines : s(e) \in EngineState
    <3> SUFFICES ASSUME NEW e \in Engines PROVE s(e) \in EngineState
      BY Zenon
    <3>1. eng[e] \in EngineState
      BY <1>t
    <3> DEFINE w == IF HasUnfinishedGlobal THEN eng[e].current_wave ELSE eng[e].current_wave + 1
               p == eng[e].pending_pause /\ ~(Pending = Engines)
               i == eng[e].ignore_start_dp_wave \/ Pending = Engines
    <3>2. w \in Nat /\ p \in BOOLEAN /\ i \in BOOLEAN
      BY <3>1, EngineFields
    <3>3. s(e) = [eng[e] EXCEPT !.engines_running = HasUnfinishedGlobal, !.current_wave = w,
                                !.pending_pause = p, !.ignore_start_dp_wave = i, !.at = "input"]
      OBVIOUS
    <3> HIDE DEF w, p, i, s
    <3> QED
      BY <2>2, <3>1, <3>2, <3>3 DEF EngineState
  <2> HIDE DEF s
  <2>4. eng' \in [Engines -> EngineState]
    BY <2>1, <2>3
  <2> QED
    BY <1>12, <1>t, <1>u, <1>v, <2>4, Zenon DEF Sync, EnginesOK
<1>13. CASE ResumeBarrier
  <2>0. HasUnfinishedDP \in BOOLEAN
    BY DEF HasUnfinishedDP
  <2> DEFINE s(e) == [eng[e] EXCEPT !.engines_running = HasUnfinishedDP, !.at = "input"]
  <2>1. eng' = [e \in Engines |-> s(e)]
    BY <1>13, Zenon DEF ResumeBarrier
  <2>2. \A e \in Engines : s(e) \in EngineState
    <3> SUFFICES ASSUME NEW e \in Engines PROVE s(e) \in EngineState
      BY Zenon
    <3>1. eng[e] \in EngineState
      BY <1>t
    <3> QED
      BY <2>0, <3>1 DEF EngineState
  <2> HIDE DEF s
  <2>3. eng' \in [Engines -> EngineState]
    BY <2>1, <2>2
  <2>4. admin' \in [state : {"running", "pausing", "resuming"}, acks : SUBSET Engines, pauses : Nat]
    <3>1. admin' = [admin EXCEPT !.state = "running", !.acks = {}]
      BY <1>13, Zenon DEF ResumeBarrier
    <3> QED
      BY <1>v, <3>1
  <2> QED
    BY <1>13, <1>t, <1>u, <2>3, <2>4, Zenon DEF ResumeBarrier, EnginesOK
<1> QED
  BY <1>1, <1>2, <1>3, <1>4, <1>5, <1>6, <1>7, <1>8, <1>9, <1>10, <1>11, <1>12, <1>13
     DEF Next, Collective

-----------------------------------------------------------------------------
(* What is known of the waves.                                              *)

\* The messages in a queue.
Queued(q) == {q[i] : i \in DOMAIN q}

\* The wave of the engines.
Wave == eng[0].current_wave

\* An engine that runs, or takes part in a collective.
Busy(s) == s.engines_running \/ s.at # "input"

\* All engines are in the same wave, and nobody knows of a later one.
EngineWaves == \A e \in Engines : eng[e].current_wave = Wave

KnownWaves ==
    /\ coord.current_wave <= Wave
    /\ \A f \in FrontEnds : front[f].current_wave <= Wave /\ published[f].current_wave <= Wave

SentWaves ==
    /\ \A e \in Engines : \A m \in Queued(start_wave[e]) : m.wave <= Wave
    /\ \A e \in Engines : \A m \in Queued(from_eng[e]) :
          m.wave <= Wave /\ (m.type = "wave_complete" => m.wave < Wave)

AddWaves ==
    \A f \in FrontEnds, e \in Engines : \A m \in Queued(to_eng[f][e]) :
        m.type = "ADD" => m.wave <= Wave

WaveInv == EngineWaves /\ KnownWaves /\ SentWaves /\ AddWaves

\* A front end believes what the coordinator does, or will be told, or has
\* asked for the engines to be started.
FrontInv ==
    \A f \in FrontEnds :
        IF published[f] # Nothing THEN published[f] = coord
        ELSE \/ front[f] = coord
             \/ front[f] = [coord EXCEPT !.engines_running = TRUE] /\ to_coord[f] # <<>>

\* A coordinator that is behind will be told of the end of the last wave.
BehindInv ==
    coord.current_wave < Wave =>
        [type |-> "wave_complete", wave |-> Wave - 1] \in Queued(from_eng[0])

\* What ends the coordinator's belief that the engines run: they do, or are
\* about to, or the end of the wave is on its way.
RunsInv ==
    admin.pauses = 0 /\ coord.engines_running =>
        \/ \E e \in Engines : Busy(eng[e])
        \/ \E e \in Engines : \E m \in Queued(start_wave[e]) :
              m.wave = coord.current_wave /\ m.exclude # e
        \/ \E m \in Queued(from_eng[0]) :
              m.type = "wave_complete" /\ m.wave >= coord.current_wave

KnownInv == WaveInv /\ FrontInv /\ BehindInv /\ RunsInv

\* Without a pause no engine ignores START_DP_WAVE or waits to resume.
NoPause ==
    admin.pauses = 0 =>
        \A e \in Engines : ~eng[e].ignore_start_dp_wave /\ eng[e].at # "resume"

\* A message sent, and a message received.
LEMMA QueuedSend ==
    ASSUME NEW S, NEW q \in Seq(S), NEW m
    PROVE  Queued(Append(q, m)) = Queued(q) \cup {m}
<1>1. /\ DOMAIN q = 1 .. Len(q) /\ Len(q) \in Nat
      /\ DOMAIN Append(q, m) = 1 .. Len(q) + 1
      /\ \A i \in 1 .. Len(q) : Append(q, m)[i] = q[i]
      /\ Append(q, m)[Len(q) + 1] = m
  OBVIOUS
<1> DEFINE n == Len(q)
<1> HIDE DEF n
<1>2. 1 .. n + 1 = 1 .. n \cup {n + 1} /\ n \in Nat
  BY <1>1 DEF n
<1> QED
  BY <1>1, <1>2 DEF Queued, n

LEMMA QueuedReceive ==
    ASSUME NEW S, NEW q \in Seq(S), q # <<>>
    PROVE  Queued(q) = {Head(q)} \cup Queued(Tail(q))
<1>1. /\ DOMAIN q = 1 .. Len(q) /\ Len(q) \in Nat \ {0}
      /\ DOMAIN Tail(q) = 1 .. Len(q) - 1
      /\ \A i \in 1 .. Len(q) - 1 : Tail(q)[i] = q[i + 1]
      /\ Head(q) = q[1]
  OBVIOUS
<1> DEFINE n == Len(q)
<1> HIDE DEF n
<1>2. /\ n \in Nat \ {0} /\ 1 \in 1 .. n
      /\ \A i \in 1 .. n - 1 : i + 1 \in 1 .. n
      /\ \A i \in 1 .. n : i = 1 \/ (i - 1 \in 1 .. n - 1 /\ i - 1 + 1 = i)
  BY <1>1 DEF n
<1>3. Queued(q) \subseteq {Head(q)} \cup Queued(Tail(q))
  <2> SUFFICES ASSUME NEW i \in 1 .. n PROVE q[i] \in {Head(q)} \cup Queued(Tail(q))
    BY <1>1 DEF Queued, n
  <2>1. CASE i = 1
    BY <1>1, <2>1
  <2>2. CASE i # 1
    <3>1. i - 1 \in DOMAIN Tail(q) /\ Tail(q)[i - 1] = q[i]
      BY <1>1, <1>2, <2>2 DEF n
    <3> QED
      BY <3>1 DEF Queued
  <2> QED
    BY <2>1, <2>2
<1>4. {Head(q)} \cup Queued(Tail(q)) \subseteq Queued(q)
  BY <1>1, <1>2 DEF Queued, n
<1> QED
  BY <1>3, <1>4

LEMMA KnownTypes ==
    ASSUME TypeOK
    PROVE  /\ Wave \in Nat /\ coord.current_wave \in Nat /\ 0 \in Engines
           /\ \A e \in Engines : eng[e].current_wave \in Nat /\ eng[e].engines_running \in BOOLEAN
           /\ \A f \in FrontEnds : front[f].current_wave \in Nat
           /\ \A f \in FrontEnds : published[f].current_wave \in Int
           /\ \A e \in Engines : \A m \in Queued(start_wave[e]) : m.wave \in Nat /\ m.exclude \in Int
           /\ \A e \in Engines : \A m \in Queued(from_eng[e]) : m.wave \in Nat
           /\ coord \in WaveState /\ coord # Nothing
<1>1. 0 \in Engines
  BY DPWavesAssumption DEF Engines
<1>2. \A e \in Engines : eng[e].current_wave \in Nat /\ eng[e].engines_running \in BOOLEAN
  BY EngineFields DEF TypeOK, EnginesOK
<1>3. \A s \in WaveState : s.current_wave \in Nat /\ s # Nothing
  BY DEF WaveState, Nothing
<1>4. Nothing.current_wave \in Int
  BY DEF Nothing
<1>5. \A f \in FrontEnds : front[f].current_wave \in Nat /\ published[f].current_wave \in Int
  BY <1>3, <1>4 DEF TypeOK, WavesOK
<1>6. ASSUME NEW e \in Engines
      PROVE  /\ \A m \in Queued(start_wave[e]) : m.wave \in Nat /\ m.exclude \in Int
             /\ \A m \in Queued(from_eng[e]) : m.wave \in Nat
  <2>1. start_wave[e] \in Seq(StartWaveMessage) /\ from_eng[e] \in Seq(EngineMessage)
    BY DEF TypeOK, WavesOK
  <2>2. Queued(start_wave[e]) \subseteq StartWaveMessage /\ Queued(from_eng[e]) \subseteq EngineMessage
    BY <2>1 DEF Queued
  <2> QED
    BY <2>2 DEF StartWaveMessage, EngineMessage
<1> QED
  BY <1>1, <1>2, <1>3, <1>5, <1>6 DEF Wave, TypeOK, WavesOK

\* A step of the engines in which no message is sent to or by the coordinator.
LEMMA EngineKeeps ==
    ASSUME TypeOK, KnownInv,
           UNCHANGED <<front, coord, published, to_coord, start_wave, from_eng>>,
           \A e \in Engines : eng'[e].current_wave = eng[e].current_wave,
           AddWaves',
           admin'.pauses = 0 => /\ admin.pauses = 0
                                /\ \A e \in Engines : Busy(eng[e]) => Busy(eng'[e])
    PROVE  KnownInv'
<1>1. Wave' = Wave
  BY KnownTypes DEF Wave
<1>2. EngineWaves' /\ KnownWaves' /\ SentWaves'
  BY <1>1 DEF KnownInv, WaveInv, EngineWaves, KnownWaves, SentWaves
<1>3. FrontInv' /\ BehindInv'
  BY <1>1 DEF KnownInv, FrontInv, BehindInv
<1>4. RunsInv'
  BY DEF KnownInv, RunsInv
<1> QED
  BY <1>2, <1>3, <1>4 DEF KnownInv, WaveInv

\* A step of the front ends and the coordinator.
LEMMA CoordKeeps ==
    ASSUME TypeOK, KnownInv, UNCHANGED <<eng, to_eng, admin>>, KnownWaves', SentWaves', FrontInv',
           BehindInv', RunsInv'
    PROVE  KnownInv'
<1>1. EngineWaves' /\ AddWaves'
  BY DEF KnownInv, WaveInv, EngineWaves, AddWaves, Wave
<1> QED
  BY <1>1 DEF KnownInv, WaveInv

\* The messages of the clients.
LEMMA AddWavesSend ==
    ASSUME TypeOK, AddWaves, Wave' = Wave, NEW f \in FrontEnds, NEW e \in Engines, NEW m,
           to_eng' = [to_eng EXCEPT ![f][e] = Append(@, m)],
           m.type = "ADD" => m.wave <= Wave
    PROVE  AddWaves'
<1>1. to_eng \in [FrontEnds -> [Engines -> Seq(ClientMessage)]]
  BY DEF TypeOK, EnginesOK
<1>2. \A g \in FrontEnds, x \in Engines :
         to_eng'[g][x] = IF g = f /\ x = e THEN Append(to_eng[f][e], m) ELSE to_eng[g][x]
  BY <1>1
<1>3. Queued(Append(to_eng[f][e], m)) = Queued(to_eng[f][e]) \cup {m}
  BY <1>1, QueuedSend
<1> QED
  BY <1>2, <1>3 DEF AddWaves

LEMMA AddWavesSendAll ==
    ASSUME TypeOK, AddWaves, Wave' = Wave, NEW f \in FrontEnds, NEW m,
           to_eng' = [to_eng EXCEPT ![f] = [e \in Engines |-> Append(@[e], m)]],
           m.type # "ADD"
    PROVE  AddWaves'
<1> DEFINE q(g, x) == to_eng[g][x]
<1> SUFFICES ASSUME NEW g \in FrontEnds, NEW x \in Engines, NEW y \in Queued(to_eng'[g][x]),
                    y.type = "ADD"
             PROVE  y.wave <= Wave
  BY DEF AddWaves
<1>1. q(g, x) \in Seq(ClientMessage) /\ q(f, x) \in Seq(ClientMessage)
  BY DEF TypeOK, EnginesOK
<1>2. to_eng'[g][x] = IF g = f THEN Append(q(f, x), m) ELSE q(g, x)
  BY DEF TypeOK, EnginesOK
<1>3. Queued(Append(q(f, x), m)) = Queued(q(f, x)) \cup {m}
  BY <1>1, QueuedSend
<1> HIDE DEF q
<1>4. y \in Queued(q(g, x))
  <2>1. CASE g = f
    <3>1. y \in Queued(q(f, x)) \cup {m}
      BY <1>2, <1>3, <2>1, Zenon
    <3> QED
      BY <2>1, <3>1, Zenon
  <2>2. CASE g # f
    BY <1>2, <2>2, Zenon
  <2> QED
    BY <2>1, <2>2
<1> QED
  BY <1>4, Zenon DEF AddWaves, q

LEMMA AddWavesReceive ==
    ASSUME TypeOK, AddWaves, Wave' = Wave, NEW f \in FrontEnds, NEW e \in Engines, NEW t,
           Receives(f, e, t)
    PROVE  AddWaves' /\ (t = "ADD" => Head(to_eng[f][e]).wave <= Wave)
<1>1. to_eng \in [FrontEnds -> [Engines -> Seq(ClientMessage)]]
  BY DEF TypeOK, EnginesOK
<1>2. /\ to_eng[f][e] # <<>> /\ Head(to_eng[f][e]).type = t
      /\ to_eng' = [to_eng EXCEPT ![f][e] = Tail(@)]
  BY DEF Receives
<1>3. \A g \in FrontEnds, x \in Engines :
         to_eng'[g][x] = IF g = f /\ x = e THEN Tail(to_eng[f][e]) ELSE to_eng[g][x]
  BY <1>1, <1>2
<1>4. Queued(to_eng[f][e]) = {Head(to_eng[f][e])} \cup Queued(Tail(to_eng[f][e]))
  BY <1>1, <1>2, QueuedReceive
<1>5. AddWaves'
  BY <1>3, <1>4 DEF AddWaves
<1> QED
  BY <1>2, <1>4, <1>5 DEF AddWaves

\* add_request_async, abort_requests_async, pause_generation and
\* resume_generation.
LEMMA ClientKnown ==
    ASSUME TypeOK, KnownInv,
           \/ \E f \in FrontEnds, e \in Engines, passes \in 1 .. MaxPasses : AddRequest(f, e, passes)
           \/ \E r \in Requests : AbortRequest(r)
           \/ \E f \in FrontEnds, mode \in PauseModes : PauseGeneration(f, mode)
           \/ \E f \in FrontEnds : ResumeGeneration(f)
    PROVE  KnownInv'
<1>1. UNCHANGED <<front, coord, published, to_coord, start_wave, from_eng, eng>>
  BY Zenon DEF AddRequest, AbortRequest, PauseGeneration, ResumeGeneration
<1>2. admin'.pauses = 0 => admin.pauses = 0
  <2>1. admin \in [state : {"running", "pausing", "resuming"}, acks : SUBSET Engines, pauses : Nat]
    BY DEF TypeOK, EnginesOK
  <2>2. CASE \/ \E f \in FrontEnds, e \in Engines, passes \in 1 .. MaxPasses : AddRequest(f, e, passes)
             \/ \E r \in Requests : AbortRequest(r)
    BY <2>2, Zenon DEF AddRequest, AbortRequest
  <2>3. CASE \E f \in FrontEnds, mode \in PauseModes : PauseGeneration(f, mode)
    <3>1. admin' = [state |-> "pausing", acks |-> {}, pauses |-> admin.pauses + 1]
      BY <2>3, Zenon DEF PauseGeneration
    <3> QED
      BY <2>1, <3>1
  <2>4. CASE \E f \in FrontEnds : ResumeGeneration(f)
    <3>1. admin' = [admin EXCEPT !.state = "resuming"]
      BY <2>4, Zenon DEF ResumeGeneration
    <3> QED
      BY <2>1, <3>1
  <2> QED
    BY <2>2, <2>3, <2>4
<1>3. Wave' = Wave /\ AddWaves
  BY <1>1 DEF Wave, KnownInv, WaveInv
<1>4. ASSUME NEW f \in FrontEnds, NEW e \in Engines, NEW passes \in 1 .. MaxPasses,
             AddRequest(f, e, passes)
      PROVE  AddWaves'
  <2> DEFINE m == [type |-> "ADD", req |-> Len(reqs'), wave |-> front[f].current_wave]
  <2>1. to_eng' = [to_eng EXCEPT ![f][e] = Append(@, m)]
    BY <1>4, Zenon DEF AddRequest
  <2>2. m.wave <= Wave
    BY DEF KnownInv, WaveInv, KnownWaves
  <2> HIDE DEF m
  <2> QED
    BY <1>3, <2>1, <2>2, AddWavesSend
<1>5. ASSUME NEW r \in Requests, AbortRequest(r)
      PROVE  AddWaves'
  <2> DEFINE m == [type |-> "ABORT", req |-> r]
  <2>1. to_eng' = [to_eng EXCEPT ![reqs[r].front][reqs[r].engine] = Append(@, m)] /\ m.type # "ADD"
    BY <1>5 DEF AbortRequest
  <2>2. reqs[r].front \in FrontEnds /\ reqs[r].engine \in Engines
    BY RequestUpdate DEF TypeOK, EnginesOK, Request
  <2> HIDE DEF m
  <2> QED
    BY <1>3, <2>1, <2>2, AddWavesSend
<1>6. ASSUME NEW f \in FrontEnds, NEW mode \in PauseModes, PauseGeneration(f, mode)
      PROVE  AddWaves'
  <2> DEFINE m == [type |-> "PAUSE", mode |-> mode]
  <2>1. to_eng' = [to_eng EXCEPT ![f] = [e \in Engines |-> Append(@[e], m)]] /\ m.type # "ADD"
    BY <1>6 DEF PauseGeneration
  <2> HIDE DEF m
  <2> QED
    BY <1>3, <2>1, AddWavesSendAll
<1>7. ASSUME NEW f \in FrontEnds, ResumeGeneration(f)
      PROVE  AddWaves'
  <2> DEFINE m == [type |-> "RESUME"]
  <2>1. to_eng' = [to_eng EXCEPT ![f] = [e \in Engines |-> Append(@[e], m)]] /\ m.type # "ADD"
    BY <1>7 DEF ResumeGeneration
  <2> HIDE DEF m
  <2> QED
    BY <1>3, <2>1, AddWavesSendAll
<1>8. AddWaves'
  BY <1>4, <1>5, <1>6, <1>7
<1> QED
  BY <1>1, <1>2, <1>8, EngineKeeps

\* The stats task of a front end.
LEMMA FrontKnown ==
    ASSUME TypeOK, KnownInv, NEW f \in FrontEnds, SendFirstReq(f) \/ UpdateFromCoordinator(f)
    PROVE  KnownInv'
<1>t. /\ front \in [FrontEnds -> WaveState] /\ published \in [FrontEnds -> WaveState \cup {Nothing}]
      /\ to_coord \in [FrontEnds -> Seq(FirstReqMessage)]
  BY DEF TypeOK, WavesOK
<1>1. UNCHANGED <<eng, to_eng, admin, coord, start_wave, from_eng>>
  BY Zenon DEF SendFirstReq, UpdateFromCoordinator
<1>2. Wave' = Wave
  BY <1>1 DEF Wave
<1>3. SentWaves' /\ BehindInv' /\ RunsInv'
  BY <1>1, <1>2 DEF KnownInv, WaveInv, SentWaves, BehindInv, RunsInv
<1>4. KnownWaves' /\ FrontInv'
  <2>1. CASE SendFirstReq(f)
    <3>1. /\ \A g \in FrontEnds : g # f => front'[g] = front[g]
          /\ front'[f] = [front[f] EXCEPT !.engines_running = TRUE]
          /\ published' = published
      BY <1>t, <2>1 DEF SendFirstReq
    <3>2. \A g \in FrontEnds : to_coord'[g] = to_coord[g] \/ g = f
      BY <1>t, <2>1 DEF SendFirstReq
    <3>3. to_coord'[f] # <<>>
      <4> DEFINE m == [exclude |-> Head(first_req[f]), wave |-> front[f].current_wave]
      <4>1. to_coord'[f] = Append(to_coord[f], m)
        BY <1>t, <2>1 DEF SendFirstReq
      <4> HIDE DEF m
      <4>2. to_coord[f] \in Seq(FirstReqMessage)
        BY <1>t
      <4>3. Len(to_coord'[f]) = Len(to_coord[f]) + 1 /\ Len(to_coord[f]) \in Nat
        BY <4>1, <4>2
      <4> QED
        BY <4>3
    <3>4. front'[f].current_wave = front[f].current_wave
      BY <1>t, <3>1 DEF WaveState
    <3>5. KnownWaves'
      BY <1>1, <1>2, <3>1, <3>4 DEF KnownInv, WaveInv, KnownWaves
    <3>6. \A s \in WaveState : [[s EXCEPT !.engines_running = TRUE] EXCEPT !.engines_running = TRUE]
                                  = [s EXCEPT !.engines_running = TRUE]
      BY DEF WaveState
    <3>7. FrontInv'
      BY <1>1, <3>1, <3>2, <3>3, <3>6, KnownTypes DEF KnownInv, FrontInv
    <3> QED
      BY <3>5, <3>7
  <2>2. CASE UpdateFromCoordinator(f)
    <3>1. /\ \A g \in FrontEnds : front'[g] = IF g = f THEN published[f] ELSE front[g]
          /\ \A g \in FrontEnds : published'[g] = IF g = f THEN Nothing ELSE published[g]
          /\ published[f] # Nothing /\ to_coord' = to_coord
      BY <1>t, <2>2 DEF UpdateFromCoordinator
    <3>2. FrontInv'
      BY <1>1, <3>1 DEF KnownInv, FrontInv
    <3>3. Nothing.current_wave = -1 /\ Wave \in Nat
      BY KnownTypes DEF Nothing
    <3>4. KnownWaves'
      <4>1. KnownWaves /\ Wave' = Wave /\ coord' = coord
        BY <1>1, <1>2 DEF KnownInv, WaveInv
      <4>2. -1 <= Wave
        BY <3>3
      <4> QED
        BY <3>1, <3>3, <4>1, <4>2 DEF KnownWaves
    <3> QED
      BY <3>2, <3>4
  <2> QED
    BY <2>1, <2>2
<1> QED
  BY <1>1, <1>3, <1>4, CoordKeeps

\* What the coordinator publishes.
LEMMA PublishKnown ==
    ASSUME TypeOK, KnownInv, UNCHANGED <<front, eng>>, coord' \in WaveState,
           coord'.current_wave <= Wave, Publish(coord')
    PROVE  KnownWaves' /\ FrontInv'
<1>1. \A f \in FrontEnds : published'[f] = coord'
  BY DEF Publish
<1>2. coord' # Nothing
  BY DEF WaveState, Nothing
<1>3. Wave' = Wave
  BY DEF Wave
<1> QED
  BY <1>1, <1>2, <1>3 DEF KnownInv, WaveInv, KnownWaves, FrontInv

LEMMA StatsKnown ==
    ASSUME TypeOK, KnownInv, PublishStats
    PROVE  KnownInv'
<1>1. UNCHANGED <<front, coord, eng, to_eng, admin, start_wave, from_eng, to_coord>> /\ Publish(coord)
  BY Zenon DEF PublishStats
<1>2. KnownWaves' /\ FrontInv'
  BY <1>1, PublishKnown, KnownTypes DEF KnownInv, WaveInv, KnownWaves, Publish
<1>3. SentWaves' /\ BehindInv' /\ RunsInv'
  BY <1>1 DEF KnownInv, WaveInv, SentWaves, BehindInv, RunsInv, Wave
<1> QED
  BY <1>1, <1>2, <1>3, CoordKeeps

\* START_DP_WAVE to all engines reaches one that is not excluded.
LEMMA StartKnown ==
    ASSUME TypeOK, KnownInv, NEW w \in Nat, w <= Wave, NEW k \in Int, SendStartWave(w, k)
    PROVE  /\ \A e \in Engines : \A m \in Queued(start_wave'[e]) : m.wave <= Wave
           /\ \E e \in Engines : \E m \in Queued(start_wave'[e]) : m.wave = w /\ m.exclude # e
<1> DEFINE m == [wave |-> w, exclude |-> k]
<1>1. m.wave = w /\ m.exclude = k
  OBVIOUS
<1>2. \A e \in Engines : start_wave'[e] = Append(start_wave[e], m) /\ start_wave[e] \in Seq(StartWaveMessage)
  BY DEF SendStartWave, TypeOK, WavesOK
<1> HIDE DEF m
<1>3. \A e \in Engines : Queued(start_wave'[e]) = Queued(start_wave[e]) \cup {m}
  BY <1>2, QueuedSend
<1>4. 0 \in Engines /\ 1 \in Engines
  BY DPWavesAssumption DEF Engines
<1>5. PICK x \in Engines : x # k
  BY <1>4
<1>6. m \in Queued(start_wave'[x])
  BY <1>3
<1>7. \A e \in Engines : \A y \in Queued(start_wave'[e]) : y.wave <= Wave
  BY <1>1, <1>3 DEF KnownInv, WaveInv, SentWaves
<1> QED
  BY <1>1, <1>5, <1>6, <1>7

LEMMA FirstReqKnown ==
    ASSUME TypeOK, KnownInv, NEW f \in FrontEnds, HandleFirstReq(f)
    PROVE  KnownInv'
<1>t. /\ to_coord \in [FrontEnds -> Seq(FirstReqMessage)] /\ coord \in WaveState
      /\ Wave \in Nat
  BY KnownTypes DEF TypeOK, WavesOK
<1>1. /\ UNCHANGED <<front, eng, to_eng, from_eng, admin>>
      /\ to_coord[f] # <<>> /\ to_coord' = [to_coord EXCEPT ![f] = Tail(@)]
  BY Zenon DEF HandleFirstReq
<1>2. Wave' = Wave
  BY <1>1 DEF Wave
<1>3. CASE coord.engines_running
  <2>1. UNCHANGED <<coord, start_wave, published>>
    BY <1>3, Zenon DEF HandleFirstReq
  <2>2. KnownWaves' /\ SentWaves' /\ BehindInv' /\ RunsInv'
    BY <1>1, <1>2, <2>1 DEF KnownInv, WaveInv, KnownWaves, SentWaves, BehindInv, RunsInv
  <2>3. [coord EXCEPT !.engines_running = TRUE] = coord
    BY <1>t, <1>3 DEF WaveState
  <2>4. FrontInv'
    BY <1>1, <2>1, <2>3 DEF KnownInv, FrontInv
  <2> QED
    BY <1>1, <2>2, <2>4, CoordKeeps
<1>4. CASE ~coord.engines_running
  <2> DEFINE k == IF Head(to_coord[f]).wave < coord.current_wave THEN NoEngine
                  ELSE Head(to_coord[f]).exclude
  <2>1. /\ coord' = [coord EXCEPT !.engines_running = TRUE]
        /\ SendStartWave(coord.current_wave, k) /\ Publish(coord')
    BY <1>4, Zenon DEF HandleFirstReq
  <2>2. k \in Int
    <3>1. Head(to_coord[f]) \in FirstReqMessage
      BY <1>t, <1>1
    <3> QED
      BY <3>1 DEF FirstReqMessage, NoEngine
  <2> HIDE DEF k
  <2>3. coord'.current_wave = coord.current_wave /\ coord.current_wave \in Nat /\ coord' \in WaveState
    BY <1>t, <2>1 DEF WaveState
  <2>4. coord.current_wave <= Wave
    BY DEF KnownInv, WaveInv, KnownWaves
  <2>5. KnownWaves' /\ FrontInv'
    BY <1>1, <2>1, <2>3, <2>4, PublishKnown
  <2>6. /\ \A e \in Engines : \A m \in Queued(start_wave'[e]) : m.wave <= Wave
        /\ \E e \in Engines : \E m \in Queued(start_wave'[e]) :
              m.wave = coord.current_wave /\ m.exclude # e
    BY <2>1, <2>2, <2>3, <2>4, StartKnown
  <2>7. SentWaves'
    BY <1>1, <1>2, <2>6 DEF KnownInv, WaveInv, SentWaves
  <2>8. BehindInv'
    BY <1>1, <1>2, <2>3 DEF KnownInv, BehindInv
  <2>9. RunsInv'
    BY <2>3, <2>6 DEF RunsInv
  <2> QED
    BY <1>1, <2>5, <2>7, <2>8, <2>9, CoordKeeps
<1> QED
  BY <1>3, <1>4

\* A message of an engine is taken from its queue.
LEMMA TakeKnown ==
    ASSUME TypeOK, KnownInv, NEW e \in Engines, from_eng[e] # <<>>,
           from_eng' = [from_eng EXCEPT ![e] = Tail(@)]
    PROVE  /\ Head(from_eng[e]) \in Queued(from_eng[e])
           /\ \A x \in Engines : Queued(from_eng'[x]) \subseteq Queued(from_eng[x])
           /\ \A m \in Queued(from_eng[0]) : m # Head(from_eng[e]) => m \in Queued(from_eng'[0])
<1>1. from_eng \in [Engines -> Seq(EngineMessage)] /\ 0 \in Engines
  BY KnownTypes DEF TypeOK, WavesOK
<1>2. \A x \in Engines : from_eng'[x] = IF x = e THEN Tail(from_eng[e]) ELSE from_eng[x]
  BY <1>1
<1>3. Queued(from_eng[e]) = {Head(from_eng[e])} \cup Queued(Tail(from_eng[e]))
  BY <1>1, QueuedReceive
<1> QED
  BY <1>1, <1>2, <1>3, Zenon

LEMMA WaveCompleteKnown ==
    ASSUME TypeOK, KnownInv, NEW e \in Engines, HandleWaveComplete(e)
    PROVE  KnownInv'
<1> DEFINE h == Head(from_eng[e])
<1>t. Wave \in Nat /\ coord.current_wave \in Nat /\ coord \in WaveState
  BY KnownTypes
<1>1. /\ UNCHANGED <<front, eng, to_eng, start_wave, to_coord, admin>>
      /\ from_eng[e] # <<>> /\ h.type = "wave_complete"
      /\ from_eng' = [from_eng EXCEPT ![e] = Tail(@)]
      /\ IF EndsWave(h.wave)
         THEN coord' = [current_wave |-> h.wave + 1, engines_running |-> FALSE] /\ Publish(coord')
         ELSE UNCHANGED <<coord, published>>
  BY Zenon DEF HandleWaveComplete
<1>2. Wave' = Wave
  BY <1>1 DEF Wave
<1>3. /\ h \in Queued(from_eng[e])
      /\ \A x \in Engines : Queued(from_eng'[x]) \subseteq Queued(from_eng[x])
      /\ \A m \in Queued(from_eng[0]) : m # h => m \in Queued(from_eng'[0])
  BY <1>1, TakeKnown
<1>4. h.wave \in Nat /\ h.wave < Wave
  BY <1>1, <1>3, KnownTypes DEF KnownInv, WaveInv, SentWaves
<1> HIDE DEF h
<1>5. SentWaves'
  BY <1>1, <1>2, <1>3 DEF KnownInv, WaveInv, SentWaves
<1>6. CASE EndsWave(h.wave)
  <2>1. coord' \in WaveState /\ coord'.current_wave = h.wave + 1 /\ ~coord'.engines_running
        /\ Publish(coord')
    <3>1. coord' = [current_wave |-> h.wave + 1, engines_running |-> FALSE] /\ Publish(coord')
      BY <1>1, <1>6, Zenon
    <3>2. h.wave + 1 \in Nat
      BY <1>4
    <3> QED
      BY <3>1, <3>2 DEF WaveState
  <2>2. KnownWaves' /\ FrontInv'
    BY <1>1, <1>4, <1>t, <2>1, PublishKnown
  <2>3. BehindInv'
    <3> DEFINE m == [type |-> "wave_complete", wave |-> Wave - 1]
    <3> SUFFICES ASSUME coord'.current_wave < Wave PROVE m \in Queued(from_eng'[0])
      BY <1>2 DEF BehindInv
    <3>1. coord.current_wave < Wave
      BY <1>4, <1>6, <1>t DEF EndsWave
    <3>2. h # m
      BY <1>4, <1>t, <2>1
    <3>3. m \in Queued(from_eng[0])
      BY <3>1 DEF KnownInv, BehindInv
    <3> QED
      BY <1>3, <3>2, <3>3
  <2>4. RunsInv'
    BY <2>1 DEF RunsInv
  <2> QED
    BY <1>1, <1>5, <2>2, <2>3, <2>4, CoordKeeps
<1>7. CASE ~EndsWave(h.wave)
  <2>1. UNCHANGED <<coord, published>> /\ h.wave < coord.current_wave
    BY <1>1, <1>4, <1>7, <1>t DEF EndsWave
  <2>2. KnownWaves' /\ FrontInv'
    BY <1>1, <1>2, <2>1 DEF KnownInv, WaveInv, KnownWaves, FrontInv
  <2>3. BehindInv'
    <3> DEFINE m == [type |-> "wave_complete", wave |-> Wave - 1]
    <3> SUFFICES ASSUME coord.current_wave < Wave PROVE m \in Queued(from_eng'[0])
      BY <1>2, <2>1 DEF BehindInv
    <3>1. h # m
      BY <1>4, <1>t, <2>1
    <3>2. m \in Queued(from_eng[0])
      BY DEF KnownInv, BehindInv
    <3> QED
      BY <1>3, <3>1, <3>2
  <2>4. RunsInv'
    <3>1. \A m \in Queued(from_eng[0]) : m.wave >= coord.current_wave => m \in Queued(from_eng'[0])
      BY <1>3, <1>4, <1>t, <2>1
    <3> QED
      BY <1>1, <2>1, <3>1 DEF KnownInv, RunsInv
  <2> QED
    BY <1>1, <1>5, <2>2, <2>3, <2>4, CoordKeeps
<1> QED
  BY <1>6, <1>7

LEMMA StartWaveKnown ==
    ASSUME TypeOK, KnownInv, NEW e \in Engines, HandleStartWave(e)
    PROVE  KnownInv'
<1> DEFINE h == Head(from_eng[e])
<1>t. Wave \in Nat /\ coord.current_wave \in Nat /\ coord \in WaveState /\ e \in Int
  BY KnownTypes, DPWavesAssumption DEF Engines
<1>1. /\ UNCHANGED <<front, eng, to_eng, to_coord, admin>>
      /\ from_eng[e] # <<>> /\ h.type = "start_wave"
      /\ from_eng' = [from_eng EXCEPT ![e] = Tail(@)]
      /\ IF IsNewWave(h.wave)
         THEN /\ coord' = [current_wave |-> h.wave, engines_running |-> TRUE]
              /\ SendStartWave(h.wave, e) /\ Publish(coord')
         ELSE UNCHANGED <<coord, start_wave, published>>
  BY Zenon DEF HandleStartWave
<1>2. Wave' = Wave
  BY <1>1 DEF Wave
<1>3. /\ h \in Queued(from_eng[e])
      /\ \A x \in Engines : Queued(from_eng'[x]) \subseteq Queued(from_eng[x])
      /\ \A m \in Queued(from_eng[0]) : m # h => m \in Queued(from_eng'[0])
  BY <1>1, TakeKnown
<1>4. h.wave \in Nat /\ h.wave <= Wave
  BY <1>1, <1>3, KnownTypes DEF KnownInv, WaveInv, SentWaves
<1>5. \A m \in Queued(from_eng[0]) : m.type = "wave_complete" => m \in Queued(from_eng'[0])
  BY <1>1, <1>3
<1> HIDE DEF h
<1>6. BehindInv'
  <2> DEFINE m == [type |-> "wave_complete", wave |-> Wave - 1]
  <2> SUFFICES ASSUME coord'.current_wave < Wave PROVE m \in Queued(from_eng'[0])
    BY <1>2 DEF BehindInv
  <2>1. coord.current_wave < Wave
    <3>1. CASE IsNewWave(h.wave)
      BY <1>1, <1>4, <1>t, <3>1 DEF IsNewWave
    <3>2. CASE ~IsNewWave(h.wave)
      BY <1>1, <3>2
    <3> QED
      BY <3>1, <3>2
  <2>2. m \in Queued(from_eng[0]) /\ m.type = "wave_complete"
    BY <2>1 DEF KnownInv, BehindInv
  <2> QED
    BY <1>5, <2>2
<1>7. CASE IsNewWave(h.wave)
  <2>1. /\ coord' \in WaveState /\ coord'.current_wave = h.wave
        /\ SendStartWave(h.wave, e) /\ Publish(coord')
    <3>1. /\ coord' = [current_wave |-> h.wave, engines_running |-> TRUE]
          /\ SendStartWave(h.wave, e) /\ Publish(coord')
      BY <1>1, <1>7, Zenon
    <3> QED
      BY <1>4, <3>1 DEF WaveState
  <2>2. KnownWaves' /\ FrontInv'
    BY <1>1, <1>4, <2>1, PublishKnown
  <2>3. /\ \A x \in Engines : \A m \in Queued(start_wave'[x]) : m.wave <= Wave
        /\ \E x \in Engines : \E m \in Queued(start_wave'[x]) : m.wave = h.wave /\ m.exclude # x
    BY <1>4, <1>t, <2>1, StartKnown
  <2>4. SentWaves'
    BY <1>2, <1>3, <2>3 DEF KnownInv, WaveInv, SentWaves
  <2>5. RunsInv'
    BY <2>1, <2>3 DEF RunsInv
  <2> QED
    BY <1>1, <1>6, <2>2, <2>4, <2>5, CoordKeeps
<1>8. CASE ~IsNewWave(h.wave)
  <2>1. UNCHANGED <<coord, start_wave, published>>
    BY <1>1, <1>8
  <2>2. KnownWaves' /\ FrontInv'
    BY <1>1, <1>2, <2>1 DEF KnownInv, WaveInv, KnownWaves, FrontInv
  <2>3. SentWaves'
    BY <1>2, <1>3, <2>1 DEF KnownInv, WaveInv, SentWaves
  <2>4. RunsInv'
    BY <1>1, <1>5, <2>1 DEF KnownInv, RunsInv
  <2> QED
    BY <1>1, <1>6, <2>2, <2>3, <2>4, CoordKeeps
<1> QED
  BY <1>7, <1>8

\* An engine handles a message of a client.
LEMMA HandleKnown ==
    ASSUME TypeOK, KnownInv, NEW f \in FrontEnds, NEW e \in Engines, HandleClient(f, e)
    PROVE  KnownInv'
<1>t. eng \in [Engines -> EngineState] /\ Wave \in Nat /\ AddWaves /\ e \in Engines /\ 0 \in Engines
  BY KnownTypes DEF TypeOK, EnginesOK, KnownInv, WaveInv
<1>a. /\ UNCHANGED <<front, coord, published, to_coord, start_wave, admin>>
      /\ \E t : Receives(f, e, t)
  BY Zenon DEF HandleClient, HandleAdd, HandleAbort, HandlePause, HandleResume
<1>1. CASE HandleAdd(f, e)
  <2> DEFINE w == Head(to_eng[f][e]).wave
             k == Head(to_eng[f][e]).req
             stale == IsStale(eng[e], w)
             m == [type |-> "start_wave", wave |-> eng[e].current_wave]
  <2>1. /\ Receives(f, e, "ADD")
        /\ eng' = [eng EXCEPT ![e].waiting = @ \cup {k},
                              ![e].current_wave = IF w > @ THEN w ELSE @,
                              ![e].engines_running = @ \/ stale]
        /\ from_eng' = IF stale THEN [from_eng EXCEPT ![e] = Append(@, m)] ELSE from_eng
    BY <1>1, Zenon DEF HandleAdd
  <2>2. w \in Nat
    <3>1. to_eng[f][e] \in Seq(ClientMessage) /\ to_eng[f][e] # <<>> /\ Head(to_eng[f][e]).type = "ADD"
      BY <2>1 DEF Receives, TypeOK, EnginesOK
    <3>2. Head(to_eng[f][e]) \in ClientMessage
      BY <3>1
    <3> QED
      BY <3>1, <3>2 DEF ClientMessage
  <2> HIDE DEF w, k, stale
  <2>3. /\ \A x \in Engines : x # e => eng'[x] = eng[x]
        /\ eng'[e].current_wave = IF w > eng[e].current_wave THEN w ELSE eng[e].current_wave
        /\ eng'[e].engines_running = (eng[e].engines_running \/ stale)
        /\ eng'[e].at = eng[e].at
    BY <1>t, <2>1 DEF EngineState
  <2>4. to_eng[f][e] # <<>> /\ Head(to_eng[f][e]).type = "ADD" /\ to_eng[f][e] \in Seq(ClientMessage)
    BY <2>1 DEF Receives, TypeOK, EnginesOK
  <2>5. w <= Wave
    <3>1. Head(to_eng[f][e]) \in Queued(to_eng[f][e])
      BY <2>4, QueuedReceive
    <3> QED
      BY <1>t, <2>4, <3>1, Zenon DEF AddWaves, w
  <2>6. \A x \in Engines : eng[x].current_wave = Wave
    BY DEF KnownInv, WaveInv, EngineWaves
  <2>7. \A x \in Engines : eng'[x].current_wave = eng[x].current_wave
    BY <1>t, <2>2, <2>3, <2>5, <2>6
  <2>8. Wave' = Wave
    BY <1>t, <2>7 DEF Wave
  <2>9. AddWaves'
    BY <1>t, <2>1, <2>8, AddWavesReceive
  <2>10. \A x \in Engines : Busy(eng[x]) => Busy(eng'[x])
    BY <2>3 DEF Busy
  <2>11. CASE ~stale
    BY <1>a, <2>1, <2>7, <2>9, <2>10, <2>11, EngineKeeps
  <2>12. CASE stale
    <3>1. /\ m.wave = Wave /\ m.type = "start_wave"
          /\ from_eng' = [from_eng EXCEPT ![e] = Append(@, m)]
      BY <2>1, <2>6, <2>12
    <3> HIDE DEF m
    <3>2. from_eng \in [Engines -> Seq(EngineMessage)]
      BY DEF TypeOK, WavesOK
    <3>3. \A x \in Engines : from_eng'[x] = IF x = e THEN Append(from_eng[e], m) ELSE from_eng[x]
      BY <3>1, <3>2
    <3>4. Queued(Append(from_eng[e], m)) = Queued(from_eng[e]) \cup {m}
      BY <3>2, QueuedSend
    <3>5. \A x \in Engines : /\ Queued(from_eng[x]) \subseteq Queued(from_eng'[x])
                             /\ Queued(from_eng'[x]) \subseteq Queued(from_eng[x]) \cup {m}
      BY <3>3, <3>4
    <3>6. EngineWaves' /\ KnownWaves'
      BY <1>a, <2>6, <2>7, <2>8 DEF KnownInv, WaveInv, EngineWaves, KnownWaves
    <3>7. SentWaves'
      <4>1. \A x \in Engines : \A y \in Queued(from_eng'[x]) :
               y.wave <= Wave /\ (y.type = "wave_complete" => y.wave < Wave)
        BY <1>t, <3>1, <3>5 DEF KnownInv, WaveInv, SentWaves
      <4> QED
        BY <1>a, <2>8, <4>1 DEF KnownInv, WaveInv, SentWaves
    <3>8. FrontInv' /\ BehindInv'
      BY <1>a, <1>t, <2>8, <3>5 DEF KnownInv, FrontInv, BehindInv
    <3>9. RunsInv'
      BY <1>a, <1>t, <2>10, <3>5 DEF KnownInv, RunsInv
    <3> QED
      BY <2>9, <3>6, <3>7, <3>8, <3>9 DEF KnownInv, WaveInv
  <2> QED
    BY <2>11, <2>12
<1>2. CASE HandleAbort(f, e) \/ HandlePause(f, e) \/ HandleResume(f, e)
  <2>1. from_eng' = from_eng
    BY <1>2, Zenon DEF HandleAbort, HandlePause, HandleResume
  <2>2. \A x \in Engines : /\ eng'[x].current_wave = eng[x].current_wave
                           /\ Busy(eng[x]) => Busy(eng'[x])
    <3>0. \A x \in Engines : eng[x] \in EngineState
      BY <1>t
    <3>1. CASE HandleAbort(f, e)
      BY <1>t, <3>0, <3>1 DEF HandleAbort, EngineState, Busy
    <3>2. CASE HandleResume(f, e)
      BY <1>t, <3>0, <3>2 DEF HandleResume, EngineState, Busy
    <3>3. CASE HandlePause(f, e)
      <4> DEFINE mode == Head(to_eng[f][e]).mode
                 ended == IF mode = "abort" THEN eng[e].waiting \cup eng[e].running ELSE {}
                 p == IF mode = "keep" THEN "PAUSED_ALL" ELSE "PAUSED_NEW"
      <4>1. eng' = [eng EXCEPT ![e] = [eng[e] EXCEPT !.waiting = @ \ ended, !.running = @ \ ended,
                                     !.pause_state = p, !.pending_pause = TRUE,
                                     !.engines_running = TRUE]]
        BY <3>3, Zenon DEF HandlePause
      <4> HIDE DEF ended, p
      <4> QED
        BY <1>t, <3>0, <4>1 DEF EngineState, Busy
    <3> QED
      BY <1>2, <3>1, <3>2, <3>3
  <2>3. Wave' = Wave
    BY <1>t, <2>2 DEF Wave
  <2>4. AddWaves'
    BY <1>a, <1>t, <2>3, AddWavesReceive
  <2> QED
    BY <1>a, <2>1, <2>2, <2>4, EngineKeeps
<1> QED
  BY <1>1, <1>2 DEF HandleClient

\* START_DP_WAVE wakes the engine, or is of a wave whose end is on its way to
\* the coordinator.
LEMMA StartDPWaveKnown ==
    ASSUME TypeOK, KnownInv, NoPause, NEW e \in Engines, HandleStartDPWave(e)
    PROVE  KnownInv'
<1> DEFINE h == Head(start_wave[e])
<1>t. /\ eng \in [Engines -> EngineState] /\ Wave \in Nat /\ coord.current_wave \in Nat /\ 0 \in Engines
      /\ start_wave \in [Engines -> Seq(StartWaveMessage)]
  BY KnownTypes DEF TypeOK, EnginesOK, WavesOK
<1>1. /\ UNCHANGED <<front, coord, published, to_coord, to_eng, from_eng, admin>>
      /\ start_wave[e] # <<>> /\ start_wave' = [start_wave EXCEPT ![e] = Tail(@)]
      /\ eng' = IF Wakes(eng[e], e, h)
                THEN [eng EXCEPT ![e].current_wave = h.wave, ![e].engines_running = TRUE]
                ELSE eng
  BY Zenon DEF HandleStartDPWave
<1>2. \A x \in Engines : start_wave'[x] = IF x = e THEN Tail(start_wave[e]) ELSE start_wave[x]
  BY <1>1, <1>t
<1>3. Queued(start_wave[e]) = {h} \cup Queued(Tail(start_wave[e]))
  BY <1>1, <1>t, QueuedReceive
<1>4. h.wave \in Nat /\ h.wave <= Wave
  BY <1>3, KnownTypes DEF KnownInv, WaveInv, SentWaves
<1> HIDE DEF h
<1>5. \A x \in Engines : /\ Queued(start_wave'[x]) \subseteq Queued(start_wave[x])
                         /\ \A m \in Queued(start_wave[x]) :
                               m \in Queued(start_wave'[x]) \/ (x = e /\ m = h)
  BY <1>2, <1>3, Zenon
<1>6. \A x \in Engines : eng[x].current_wave = Wave
  BY DEF KnownInv, WaveInv, EngineWaves
<1>7. \A x \in Engines : /\ eng'[x].current_wave = eng[x].current_wave
                         /\ Busy(eng[x]) => Busy(eng'[x])
                         /\ x = e /\ Wakes(eng[e], e, h) => Busy(eng'[x])
  <2>1. CASE Wakes(eng[e], e, h)
    <3>1. h.wave = Wave
      BY <1>4, <1>6, <1>t, <2>1 DEF Wakes
    <3>2. eng' = [eng EXCEPT ![e].current_wave = h.wave, ![e].engines_running = TRUE]
      BY <1>1, <2>1
    <3>3. \A x \in Engines : IF x = e THEN eng'[x].current_wave = h.wave /\ eng'[x].engines_running
                             ELSE eng'[x] = eng[x]
      BY <1>t, <3>2 DEF EngineState
    <3> QED
      BY <1>6, <3>1, <3>3 DEF Busy
  <2>2. CASE ~Wakes(eng[e], e, h)
    BY <1>1, <2>2
  <2> QED
    BY <2>1, <2>2
<1>8. Wave' = Wave
  BY <1>7, <1>t DEF Wave
<1>9. EngineWaves' /\ KnownWaves' /\ AddWaves'
  BY <1>1, <1>7, <1>8 DEF KnownInv, WaveInv, EngineWaves, KnownWaves, AddWaves
<1>10. SentWaves'
  BY <1>1, <1>5, <1>8 DEF KnownInv, WaveInv, SentWaves
<1>11. FrontInv' /\ BehindInv'
  BY <1>1, <1>8 DEF KnownInv, FrontInv, BehindInv
<1>12. RunsInv'
  <2> SUFFICES ASSUME admin.pauses = 0, coord.engines_running
               PROVE  \/ \E x \in Engines : Busy(eng'[x])
                      \/ \E x \in Engines : \E m \in Queued(start_wave'[x]) :
                            m.wave = coord.current_wave /\ m.exclude # x
                      \/ \E m \in Queued(from_eng[0]) :
                            m.type = "wave_complete" /\ m.wave >= coord.current_wave
    BY <1>1 DEF RunsInv
  <2>1. CASE h.wave = coord.current_wave /\ h.exclude # e
    <3>1. CASE h.wave >= eng[e].current_wave
      BY <1>7, <2>1, <3>1 DEF Wakes, NoPause
    <3>2. CASE ~(h.wave >= eng[e].current_wave)
      <4> DEFINE m == [type |-> "wave_complete", wave |-> Wave - 1]
      <4>1. coord.current_wave < Wave
        BY <1>4, <1>6, <1>t, <2>1, <3>2
      <4>2. m \in Queued(from_eng[0])
        BY <4>1 DEF KnownInv, BehindInv
      <4>3. m.type = "wave_complete" /\ m.wave >= coord.current_wave
        BY <1>t, <4>1
      <4> QED
        BY <4>2, <4>3
    <3> QED
      BY <3>1, <3>2
  <2>2. CASE ~(h.wave = coord.current_wave /\ h.exclude # e)
    BY <1>5, <1>7, <2>2 DEF KnownInv, RunsInv
  <2> QED
    BY <2>1, <2>2
<1> QED
  BY <1>9, <1>10, <1>11, <1>12 DEF KnownInv, WaveInv

\* An engine answers a pause or enters the forward pass; the forward pass; the
\* barrier of a resume.
LEMMA StepKnown ==
    ASSUME TypeOK, KnownInv, NoPause,
           Forward \/ ResumeBarrier \/ \E e \in Engines : NotifyIdle(e) \/ Step(e)
    PROVE  KnownInv'
<1>t. /\ eng \in [Engines -> EngineState] /\ 0 \in Engines
      /\ admin \in [state : {"running", "pausing", "resuming"}, acks : SUBSET Engines, pauses : Nat]
  BY KnownTypes DEF TypeOK, EnginesOK
<1>1. UNCHANGED <<front, coord, published, to_coord, start_wave, from_eng, to_eng>>
  BY Zenon DEF Forward, ResumeBarrier, NotifyIdle, Step
<1>2. CASE Forward
  <2> DEFINE scheduled == UNION {eng[e].running : e \in {x \in Engines : eng[x].pause_state # "PAUSED_ALL"}}
             finished == {r \in scheduled : reqs[r].left = 1}
  <2>1. /\ eng' = [e \in Engines |->
                         [eng[e] EXCEPT !.running = @ \ finished,
                                        !.step_counter = Stepped(eng[e]),
                                        !.engines_running = TRUE,
                                        !.at = IF Stepped(eng[e]) = 0 THEN "sync" ELSE "input"]]
        /\ admin' = admin
    BY <1>2, Zenon DEF Forward
  <2> HIDE DEF finished
  <2>2. \A e \in Engines : eng'[e].current_wave = eng[e].current_wave /\ eng'[e].engines_running
    BY <1>t, <2>1 DEF EngineState
  <2>3. Wave' = Wave /\ AddWaves'
    BY <1>1, <1>t, <2>2 DEF Wave, KnownInv, WaveInv, AddWaves
  <2> QED
    BY <1>1, <2>1, <2>2, <2>3, EngineKeeps DEF Busy
<1>3. CASE ResumeBarrier
  <2>1. /\ \A e \in Engines : eng[e].at = "resume"
        /\ eng' = [e \in Engines |-> [eng[e] EXCEPT !.engines_running = HasUnfinishedDP, !.at = "input"]]
        /\ admin' = [admin EXCEPT !.state = "running", !.acks = {}]
    BY <1>3, Zenon DEF ResumeBarrier
  <2>2. admin.pauses # 0 /\ admin'.pauses = admin.pauses
    BY <1>t, <2>1 DEF NoPause
  <2>3. \A e \in Engines : eng'[e].current_wave = eng[e].current_wave
    BY <1>t, <2>1 DEF EngineState
  <2>4. Wave' = Wave /\ AddWaves'
    BY <1>1, <1>t, <2>3 DEF Wave, KnownInv, WaveInv, AddWaves
  <2> QED
    BY <1>1, <2>2, <2>3, <2>4, EngineKeeps
<1>4. ASSUME NEW e \in Engines, NotifyIdle(e)
      PROVE  KnownInv'
  <2>1. eng' = eng /\ admin'.pauses = admin.pauses
    BY <1>4, <1>t DEF NotifyIdle
  <2>2. Wave' = Wave /\ AddWaves'
    BY <1>1, <2>1 DEF Wave, KnownInv, WaveInv, AddWaves
  <2> QED
    BY <1>1, <2>1, <2>2, EngineKeeps
<1>5. ASSUME NEW e \in Engines, Step(e)
      PROVE  KnownInv'
  <2> DEFINE b == Admitted(eng[e])
  <2>0. eng' = [eng EXCEPT ![e].running = @ \cup b, ![e].waiting = @ \ b, ![e].at = "forward"]
        /\ admin' = admin
    BY <1>5, Zenon DEF Step
  <2> HIDE DEF b
  <2>1. /\ \A x \in Engines : eng'[x].current_wave = eng[x].current_wave
        /\ \A x \in Engines : x # e => eng'[x] = eng[x]
        /\ eng'[e].at = "forward" /\ admin' = admin
    BY <2>0, <1>t DEF EngineState
  <2>2. \A x \in Engines : Busy(eng[x]) => Busy(eng'[x])
    BY <2>1 DEF Busy
  <2>3. Wave' = Wave /\ AddWaves'
    BY <1>1, <1>t, <2>1 DEF Wave, KnownInv, WaveInv, AddWaves
  <2> QED
    BY <1>1, <2>1, <2>2, <2>3, EngineKeeps
<1> QED
  BY <1>2, <1>3, <1>4, <1>5

\* The all-reduce: all engines go on, or end the wave together.
LEMMA SyncKnown ==
    ASSUME TypeOK, KnownInv, Sync
    PROVE  KnownInv'
<1> DEFINE consensus == Pending = Engines
           m == [type |-> "wave_complete", wave |-> eng[0].current_wave]
<1>t. /\ eng \in [Engines -> EngineState] /\ Wave \in Nat /\ coord.current_wave \in Nat /\ 0 \in Engines
      /\ from_eng \in [Engines -> Seq(EngineMessage)]
  BY KnownTypes DEF TypeOK, EnginesOK, WavesOK
<1>1. /\ UNCHANGED <<front, coord, published, to_coord, start_wave, to_eng, admin>>
      /\ from_eng' = IF HasUnfinishedGlobal THEN from_eng ELSE [from_eng EXCEPT ![0] = Append(@, m)]
  BY Zenon DEF Sync
<1>e. eng' = [e \in Engines |->
                         [eng[e] EXCEPT !.engines_running = HasUnfinishedGlobal,
                                        !.current_wave = IF HasUnfinishedGlobal THEN @ ELSE @ + 1,
                                        !.pending_pause = @ /\ ~consensus,
                                        !.ignore_start_dp_wave = @ \/ consensus,
                                        !.at = "input"]]
  BY Zenon DEF Sync
<1> HIDE DEF consensus
<1>2. \A e \in Engines :
         /\ eng'[e].current_wave = IF HasUnfinishedGlobal THEN eng[e].current_wave
                                   ELSE eng[e].current_wave + 1
         /\ HasUnfinishedGlobal => eng'[e].engines_running
  BY <1>e, <1>t DEF EngineState
<1>3. CASE HasUnfinishedGlobal
  <2>1. \A e \in Engines : eng'[e].current_wave = eng[e].current_wave /\ Busy(eng'[e])
    BY <1>2, <1>3 DEF Busy
  <2>2. Wave' = Wave /\ AddWaves' /\ from_eng' = from_eng
    BY <1>1, <1>t, <1>3, <2>1 DEF Wave, KnownInv, WaveInv, AddWaves
  <2> QED
    BY <1>1, <2>1, <2>2, EngineKeeps
<1>4. CASE ~HasUnfinishedGlobal
  <2>1. /\ \A e \in Engines : eng'[e].current_wave = Wave + 1
        /\ Wave' = Wave + 1
    BY <1>2, <1>4, <1>t DEF Wave, KnownInv, WaveInv, EngineWaves
  <2>2. m.wave = Wave /\ m.type = "wave_complete" /\ m = [type |-> "wave_complete", wave |-> Wave]
        /\ from_eng' = [from_eng EXCEPT ![0] = Append(@, m)]
    BY <1>1, <1>4 DEF Wave
  <2> HIDE DEF m
  <2>3. \A x \in Engines : from_eng'[x] = IF x = 0 THEN Append(from_eng[0], m) ELSE from_eng[x]
    BY <1>t, <2>2
  <2>4. Queued(Append(from_eng[0], m)) = Queued(from_eng[0]) \cup {m}
    BY <1>t, QueuedSend
  <2>5. /\ m \in Queued(from_eng'[0])
        /\ \A x \in Engines : Queued(from_eng'[x]) \subseteq Queued(from_eng[x]) \cup {m}
    BY <1>t, <2>3, <2>4
  <2>6. EngineWaves'
    BY <2>1 DEF EngineWaves
  <2>7. KnownWaves'
    <3>1. coord.current_wave <= Wave + 1
      BY <1>t DEF KnownInv, WaveInv, KnownWaves
    <3>2. ASSUME NEW f \in FrontEnds
          PROVE  front[f].current_wave <= Wave + 1 /\ published[f].current_wave <= Wave + 1
      <4>1. front[f].current_wave \in Nat /\ published[f].current_wave \in Int
        BY KnownTypes
      <4>2. front[f].current_wave <= Wave /\ published[f].current_wave <= Wave
        BY DEF KnownInv, WaveInv, KnownWaves
      <4> QED
        BY <1>t, <4>1, <4>2
    <3> QED
      BY <1>1, <2>1, <3>1, <3>2 DEF KnownWaves
  <2>8. SentWaves'
    <3>1. ASSUME NEW x \in Engines, NEW y \in Queued(start_wave[x])
          PROVE  y.wave <= Wave + 1
      <4>1. y.wave \in Nat /\ y.wave <= Wave
        BY KnownTypes DEF KnownInv, WaveInv, SentWaves
      <4> QED
        BY <1>t, <4>1
    <3>2. ASSUME NEW x \in Engines, NEW y \in Queued(from_eng'[x])
          PROVE  y.wave < Wave + 1 /\ y.wave <= Wave + 1
      <4>1. y.wave \in Nat /\ y.wave <= Wave
        <5>1. CASE y = m
          BY <1>t, <2>2, <5>1
        <5>2. CASE y \in Queued(from_eng[x])
          BY <5>2, KnownTypes DEF KnownInv, WaveInv, SentWaves
        <5> QED
          BY <2>5, <5>1, <5>2
      <4> QED
        BY <1>t, <4>1
    <3> QED
      BY <1>1, <2>1, <3>1, <3>2 DEF SentWaves
  <2>9. AddWaves'
    <3>1. \A f \in FrontEnds, x \in Engines : \A y \in Queued(to_eng[f][x]) :
             y.type = "ADD" => y.wave \in Nat
      <4> SUFFICES ASSUME NEW f \in FrontEnds, NEW x \in Engines, NEW y \in Queued(to_eng[f][x]),
                          y.type = "ADD"
                   PROVE  y.wave \in Nat
        OBVIOUS
      <4>1. to_eng[f][x] \in Seq(ClientMessage)
        BY DEF TypeOK, EnginesOK
      <4>2. y \in ClientMessage
        BY <4>1 DEF Queued
      <4> QED
        BY <4>2 DEF ClientMessage
    <3>2. \A f \in FrontEnds, x \in Engines : \A y \in Queued(to_eng[f][x]) :
             y.type = "ADD" => y.wave <= Wave
      BY DEF KnownInv, WaveInv, AddWaves
    <3>3. \A n \in Nat : n <= Wave => n <= Wave + 1
      BY <1>t
    <3>4. \A f \in FrontEnds, x \in Engines : \A y \in Queued(to_eng[f][x]) :
             y.type = "ADD" => y.wave <= Wave + 1
      BY <3>1, <3>2, <3>3
    <3> QED
      BY <1>1, <2>1, <3>4 DEF AddWaves
  <2>10. FrontInv'
    BY <1>1 DEF KnownInv, FrontInv
  <2>11. BehindInv'
    <3>1. Wave' - 1 = Wave
      BY <1>t, <2>1
    <3> QED
      BY <2>2, <2>5, <3>1 DEF BehindInv
  <2>12. RunsInv'
    BY <1>1, <2>2, <2>5 DEF KnownInv, WaveInv, KnownWaves, RunsInv
  <2> QED
    BY <2>6, <2>7, <2>8, <2>9, <2>10, <2>11, <2>12 DEF KnownInv, WaveInv
<1> QED
  BY <1>3, <1>4

LEMMA InitKnown == Init => KnownInv
<1> SUFFICES ASSUME Init PROVE KnownInv
  OBVIOUS
<1>1. 0 \in Engines
  BY DPWavesAssumption DEF Engines
<1>2. Wave = 0 /\ EngineWaves
  BY <1>1 DEF Init, Wave, EngineWaves
<1>3. KnownWaves /\ FrontInv
  BY <1>2 DEF Init, KnownWaves, FrontInv, Nothing
<1>4. Queued(<<>>) = {}
  BY DEF Queued
<1>5. SentWaves /\ AddWaves
  BY <1>2, <1>4 DEF Init, SentWaves, AddWaves
<1>6. BehindInv /\ RunsInv
  <2>1. coord.current_wave = 0 /\ ~coord.engines_running
    BY DEF Init
  <2> QED
    BY <1>2, <2>1 DEF BehindInv, RunsInv
<1> QED
  BY <1>2, <1>3, <1>5, <1>6 DEF KnownInv, WaveInv

\* Every step keeps what is known of the waves.
LEMMA NextKnown ==
    ASSUME TypeOK, KnownInv, NoPause, [Next]_vars
    PROVE  KnownInv'
<1>1. CASE UNCHANGED vars
  <2>1. UNCHANGED <<front, coord, published, to_coord, start_wave, from_eng, eng, to_eng, admin>>
    BY <1>1, Zenon DEF vars
  <2>2. AddWaves'
    BY <2>1 DEF KnownInv, WaveInv, AddWaves, Wave
  <2> QED
    BY <2>1, <2>2, EngineKeeps
<1>2. CASE \/ \E f \in FrontEnds, e \in Engines, passes \in 1 .. MaxPasses : AddRequest(f, e, passes)
           \/ \E r \in Requests : AbortRequest(r)
           \/ \E f \in FrontEnds, mode \in PauseModes : PauseGeneration(f, mode)
           \/ \E f \in FrontEnds : ResumeGeneration(f)
  BY <1>2, ClientKnown
<1>3. CASE \E f \in FrontEnds : SendFirstReq(f) \/ UpdateFromCoordinator(f)
  BY <1>3, FrontKnown
<1>4. CASE CoordinatorStep \/ PublishStats
  BY <1>4, FirstReqKnown, WaveCompleteKnown, StartWaveKnown, StatsKnown DEF CoordinatorStep
<1>5. CASE \E f \in FrontEnds, e \in Engines : HandleClient(f, e)
  BY <1>5, HandleKnown
<1>6. CASE \E e \in Engines : HandleStartDPWave(e) \/ NotifyIdle(e) \/ Step(e)
  BY <1>6, StartDPWaveKnown, StepKnown
<1>7. CASE Collective
  BY <1>7, StepKnown, SyncKnown DEF Collective
<1> QED
  BY <1>1, <1>2, <1>3, <1>4, <1>5, <1>6, <1>7, Zenon DEF Next
=============================================================================
