------------------------------- MODULE DPWavesProofs -------------------------------
(***************************************************************************)
(* The collectives of the data-parallel engines match, a pause holds, the  *)
(* waves agree and an idle state is known to all, for any number of        *)
(* engines, front ends, requests and pauses.                               *)
(***************************************************************************)
EXTENDS DPWavesBase, FiniteSetTheorems, TLAPS

-----------------------------------------------------------------------------
(* The inductive invariant.                                                 *)

\* No message of this type is queued for engine e.
None(e, type) ==
    \A f \in FrontEnds : \A i \in DOMAIN to_eng[f][e] : to_eng[f][e][i].type # type

\* At most one message of this type is queued for engine e, by all front ends.
AtMostOne(e, type) ==
    \A f, g \in FrontEnds : \A i \in DOMAIN to_eng[f][e], j \in DOMAIN to_eng[g][e] :
        to_eng[f][e][i].type = type /\ to_eng[g][e][j].type = type => f = g /\ i = j

\* An engine no pause has reached.
Unaware(s) ==
    s.pause_state = "UNPAUSED" /\ ~s.pending_pause /\ ~s.ignore_start_dp_wave /\ s.at # "resume"

\* An engine that has been told to pause and waits for its peers to be.
Told(s) ==
    /\ s.pause_state # "UNPAUSED" /\ s.pending_pause /\ ~s.ignore_start_dp_wave
    /\ s.engines_running /\ s.at # "resume"

\* An engine that knows that all have been told.
Agreed(s) ==
    s.pause_state # "UNPAUSED" /\ ~s.pending_pause /\ s.ignore_start_dp_wave /\ s.at # "resume"

\* An engine that has stopped.
Halted(s) == s.at = "input" /\ ~s.engines_running /\ ~HasUnfinished(s)

\* An engine that waits for its peers to be resumed.
Resumed(s) ==
    /\ s.pause_state = "UNPAUSED" /\ ~s.pending_pause /\ ~s.ignore_start_dp_wave
    /\ ~s.engines_running /\ s.at = "resume"

\* All engines pass through a pause together: they agree on it before any of
\* them stops for it, they stop together, and they resume together.
PauseInv ==
    /\ admin.state = "running" =>
          /\ admin.acks = {}
          /\ \A e \in Engines : Unaware(eng[e]) /\ None(e, "PAUSE") /\ None(e, "RESUME")
    /\ admin.state = "pausing" =>
          /\ \A e \in Engines : None(e, "RESUME")
          /\ \/ /\ admin.acks = {}
                /\ \A e \in Engines : \/ Unaware(eng[e]) /\ AtMostOne(e, "PAUSE")
                                      \/ Told(eng[e]) /\ None(e, "PAUSE")
             \/ /\ \A e \in Engines : Agreed(eng[e]) /\ None(e, "PAUSE")
                /\ \/ admin.acks = {} /\ \A e \in Engines : eng[e].engines_running
                   \/ \A e \in Engines : Halted(eng[e])
    /\ admin.state = "resuming" =>
          \A e \in Engines :
             /\ None(e, "PAUSE")
             /\ \/ Agreed(eng[e]) /\ Halted(eng[e]) /\ AtMostOne(e, "RESUME")
                \/ Resumed(eng[e]) /\ None(e, "RESUME")

\* The engines count their passes alike, and reach the all-reduce together.
StepInv ==
    \A e, x \in Engines :
        /\ eng[e].step_counter = eng[x].step_counter
        /\ eng[e].at = "sync" => eng[x].at = "sync"

IInv == TypeOK /\ PauseInv /\ StepInv

-----------------------------------------------------------------------------
(* The messages of a pause.                                                 *)

Control == {"PAUSE", "RESUME"}

\* No message of a pause or a resume is added.
MessagesKept ==
    \A e \in Engines, type \in Control :
        (None(e, type) => None(e, type)') /\ (AtMostOne(e, type) => AtMostOne(e, type)')

\* A message is received.
LEMMA ReceivesControl ==
    ASSUME EnginesOK, NEW f \in FrontEnds, NEW e \in Engines, NEW t, Receives(f, e, t)
    PROVE  /\ MessagesKept
           /\ ~None(e, t)
           /\ AtMostOne(e, t) => None(e, t)'
<1> DEFINE q(g, x) == to_eng[g][x]
<1>1. \A g \in FrontEnds, x \in Engines : q(g, x) \in Seq(ClientMessage)
  BY DEF EnginesOK
<1>2. q(f, e) # <<>> /\ q(f, e)[1].type = t /\ 1 \in DOMAIN q(f, e)
  BY <1>1 DEF Receives
<1>3. \A g \in FrontEnds, x \in Engines :
         to_eng'[g][x] = IF g = f /\ x = e THEN Tail(q(f, e)) ELSE q(g, x)
  BY DEF Receives, EnginesOK
<1>4. \A i \in DOMAIN Tail(q(f, e)) :
         i + 1 \in DOMAIN q(f, e) /\ Tail(q(f, e))[i] = q(f, e)[i + 1] /\ i \in Nat /\ i # 0
  BY <1>1, <1>2
<1>5. ~None(e, t)
  BY <1>2 DEF None
<1> DEFINE k(g, x, i) == IF g = f /\ x = e THEN i + 1 ELSE i
<1>a. ASSUME NEW g \in FrontEnds, NEW x \in Engines, NEW i \in DOMAIN to_eng'[g][x]
      PROVE  /\ k(g, x, i) \in DOMAIN q(g, x) /\ q(g, x)[k(g, x, i)] = to_eng'[g][x][i]
             /\ i \in Nat /\ i # 0
  <2>1. CASE g = f /\ x = e
    BY <1>3, <1>4, <1>a, <2>1
  <2>2. CASE ~(g = f /\ x = e)
    BY <1>1, <1>3, <1>a, <2>2
  <2> QED
    BY <2>1, <2>2
<1>6. ASSUME NEW x \in Engines, NEW y, None(x, y)
      PROVE  None(x, y)'
  <2> HIDE DEF k
  <2> QED
    BY <1>a, <1>6 DEF None
<1>7. ASSUME NEW x \in Engines, NEW y, AtMostOne(x, y)
      PROVE  AtMostOne(x, y)'
  <2> SUFFICES ASSUME NEW g \in FrontEnds, NEW h \in FrontEnds,
                      NEW i \in DOMAIN to_eng'[g][x], NEW j \in DOMAIN to_eng'[h][x],
                      to_eng'[g][x][i].type = y, to_eng'[h][x][j].type = y
               PROVE  g = h /\ i = j
    BY DEF AtMostOne
  <2>1. i \in Nat /\ j \in Nat
    BY <1>a
  <2>2. /\ k(g, x, i) \in DOMAIN q(g, x) /\ q(g, x)[k(g, x, i)].type = y
        /\ k(h, x, j) \in DOMAIN q(h, x) /\ q(h, x)[k(h, x, j)].type = y
    <3> HIDE DEF k, q
    <3> QED BY <1>a
  <2>3. g = h /\ k(g, x, i) = k(h, x, j)
    <3> HIDE DEF k
    <3> QED BY <1>7, <2>2 DEF AtMostOne
  <2> QED
    BY <2>1, <2>3
<1>8. ASSUME AtMostOne(e, t)
      PROVE  None(e, t)'
  <2> SUFFICES ASSUME NEW g \in FrontEnds, NEW i \in DOMAIN to_eng'[g][e],
                      to_eng'[g][e][i].type = t
               PROVE  FALSE
    BY DEF None
  <2>1. i \in Nat /\ i # 0
    BY <1>a
  <2>2. k(g, e, i) \in DOMAIN q(g, e) /\ q(g, e)[k(g, e, i)].type = t
    <3> HIDE DEF k, q
    <3> QED BY <1>a
  <2>3. g = f /\ k(g, e, i) = 1
    <3> HIDE DEF k
    <3> QED BY <1>2, <1>8, <2>2 DEF AtMostOne
  <2> QED
    BY <2>1, <2>3
<1> QED
  BY <1>5, <1>6, <1>7, <1>8 DEF MessagesKept

\* A message of a client that is neither a pause nor a resume is sent.
LEMMA SendsRequest ==
    ASSUME EnginesOK, NEW f \in FrontEnds, NEW e \in Engines, NEW m, m.type \notin Control,
           to_eng' = [to_eng EXCEPT ![f][e] = Append(@, m)]
    PROVE  MessagesKept
<1> DEFINE q(g, x) == to_eng[g][x]
<1>1. \A g \in FrontEnds, x \in Engines : q(g, x) \in Seq(ClientMessage)
  BY DEF EnginesOK
<1>3. \A g \in FrontEnds, x \in Engines :
         to_eng'[g][x] = IF g = f /\ x = e THEN Append(q(f, e), m) ELSE q(g, x)
  BY DEF EnginesOK
<1>4. \A i \in DOMAIN Append(q(f, e), m) :
         \/ i \in DOMAIN q(f, e) /\ Append(q(f, e), m)[i] = q(f, e)[i]
         \/ Append(q(f, e), m)[i] = m
  BY <1>1
<1>6. ASSUME NEW x \in Engines, NEW y \in Control, NEW g \in FrontEnds,
             NEW i \in DOMAIN to_eng'[g][x], to_eng'[g][x][i].type = y
      PROVE  i \in DOMAIN q(g, x) /\ q(g, x)[i].type = y
  BY <1>3, <1>4, <1>6
<1> HIDE DEF q
<1> QED
  BY <1>6 DEF MessagesKept, None, AtMostOne, q

\* A pause or a resume is sent to all engines.
LEMMA SendsControl ==
    ASSUME EnginesOK, NEW f \in FrontEnds, NEW m,
           to_eng' = [to_eng EXCEPT ![f] = [e \in Engines |-> Append(@[e], m)]]
    PROVE  \A e \in Engines : /\ None(e, m.type) => AtMostOne(e, m.type)'
                              /\ \A y : y # m.type /\ None(e, y) => None(e, y)'
<1> DEFINE q(g, x) == to_eng[g][x]
<1> SUFFICES ASSUME NEW e \in Engines
             PROVE  /\ None(e, m.type) => AtMostOne(e, m.type)'
                    /\ \A y : y # m.type /\ None(e, y) => None(e, y)'
  OBVIOUS
<1>1. \A g \in FrontEnds : q(g, e) \in Seq(ClientMessage)
  BY DEF EnginesOK
<1>3. \A g \in FrontEnds : to_eng'[g][e] = IF g = f THEN Append(q(f, e), m) ELSE q(g, e)
  BY DEF EnginesOK
<1>4. \A i \in DOMAIN Append(q(f, e), m) :
         \/ i \in DOMAIN q(f, e) /\ Append(q(f, e), m)[i] = q(f, e)[i]
         \/ Append(q(f, e), m)[i] = m /\ i = Len(q(f, e)) + 1
  BY <1>1
<1>6. ASSUME NEW g \in FrontEnds, NEW i \in DOMAIN to_eng'[g][e]
      PROVE  \/ i \in DOMAIN q(g, e) /\ to_eng'[g][e][i] = q(g, e)[i]
             \/ g = f /\ i = Len(q(f, e)) + 1 /\ to_eng'[g][e][i] = m
  BY <1>3, <1>4, <1>6
<1>7. ASSUME None(e, m.type)
      PROVE  AtMostOne(e, m.type)'
  <2>1. \A g \in FrontEnds : \A i \in DOMAIN to_eng'[g][e] :
           to_eng'[g][e][i].type = m.type => g = f /\ i = Len(q(f, e)) + 1
    BY <1>6, <1>7 DEF None
  <2> QED
    BY <2>1 DEF AtMostOne
<1>8. ASSUME NEW y, y # m.type, None(e, y)
      PROVE  None(e, y)'
  BY <1>6, <1>8 DEF None
<1> QED
  BY <1>7, <1>8

-----------------------------------------------------------------------------
(* Every step preserves the pause invariant.                                *)

\* What a step may do to an engine without taking part in a pause.
Keeps(s, t) ==
    /\ Unaware(s) => Unaware(t)
    /\ Told(s) => Told(t)
    /\ Agreed(s) => Agreed(t)
    /\ Agreed(s) /\ s.engines_running => t.engines_running
    /\ Agreed(s) /\ Halted(s) => Halted(t)
    /\ Resumed(s) => Resumed(t)

\* Such a step preserves the invariant.
LEMMA KeepsPauseInv ==
    ASSUME PauseInv, admin' = admin, MessagesKept, \A e \in Engines : Keeps(eng[e], eng'[e])
    PROVE  PauseInv'
<1>1. \A e \in Engines :
         /\ None(e, "PAUSE") => None(e, "PAUSE")'
         /\ None(e, "RESUME") => None(e, "RESUME")'
         /\ AtMostOne(e, "PAUSE") => AtMostOne(e, "PAUSE")'
         /\ AtMostOne(e, "RESUME") => AtMostOne(e, "RESUME")'
  BY DEF MessagesKept, Control
<1>2. CASE admin.state = "running"
  BY <1>1, <1>2 DEF PauseInv, Keeps
<1>3. CASE admin.state = "pausing"
  <2>1. \A e \in Engines : None(e, "RESUME")'
    BY <1>1, <1>3 DEF PauseInv
  <2>2. CASE /\ admin.acks = {}
             /\ \A e \in Engines : \/ Unaware(eng[e]) /\ AtMostOne(e, "PAUSE")
                                   \/ Told(eng[e]) /\ None(e, "PAUSE")
    BY <1>1, <1>3, <2>1, <2>2 DEF PauseInv, Keeps
  <2>3. CASE /\ \A e \in Engines : Agreed(eng[e]) /\ None(e, "PAUSE")
             /\ \/ admin.acks = {} /\ \A e \in Engines : eng[e].engines_running
                \/ \A e \in Engines : Halted(eng[e])
    BY <1>1, <1>3, <2>1, <2>3 DEF PauseInv, Keeps
  <2> QED
    BY <1>3, <2>2, <2>3 DEF PauseInv
<1>4. CASE admin.state = "resuming"
  BY <1>1, <1>4 DEF PauseInv, Keeps
<1>5. CASE admin.state \notin {"running", "pausing", "resuming"}
  BY <1>5 DEF PauseInv
<1> QED
  BY <1>2, <1>3, <1>4, <1>5

\* The fields an engine is judged by.
LEMMA KeepsFields ==
    ASSUME NEW s \in EngineState, NEW t \in EngineState,
           t.pause_state = s.pause_state, t.pending_pause = s.pending_pause,
           t.ignore_start_dp_wave = s.ignore_start_dp_wave,
           s.engines_running => t.engines_running,
           s.at # "resume" => t.at # "resume",
           Agreed(s) /\ Halted(s) =>
              t.at = "input" /\ ~t.engines_running /\ t.running \subseteq s.running,
           s.at # "resume" \/ Resumed(t)
    PROVE  Keeps(s, t)
<1>1. Agreed(s) /\ Halted(s) => Halted(t)
  <2> SUFFICES ASSUME Agreed(s), Halted(s)
               PROVE  ~HasUnfinished(t)
    BY DEF Halted
  <2>1. s.pause_state \in {"PAUSED_NEW", "PAUSED_ALL"} /\ ~HasUnfinished(s)
    BY DEF Agreed, Halted, EngineState
  <2>2. CASE s.pause_state = "PAUSED_ALL"
    BY <2>2 DEF HasUnfinished
  <2>3. CASE s.pause_state = "PAUSED_NEW"
    BY <2>1, <2>3 DEF HasUnfinished
  <2> QED
    BY <2>1, <2>2, <2>3
<1> QED
  BY <1>1 DEF Keeps, Unaware, Told, Agreed, Resumed

\* The messages of requests, and START_DP_WAVE.
LEMMA RequestsPause ==
    ASSUME TypeOK, TypeOK', PauseInv, NEW f \in FrontEnds, NEW e \in Engines,
           HandleAdd(f, e) \/ HandleAbort(f, e)
    PROVE  PauseInv'
<1>a. eng \in [Engines -> EngineState] /\ eng' \in [Engines -> EngineState] /\ EnginesOK
  BY DEF TypeOK, EnginesOK
<1>1. MessagesKept
  BY <1>a, ReceivesControl, Zenon DEF HandleAdd, HandleAbort
<1>2. admin' = admin /\ eng[e].at = "input"
  BY Zenon DEF HandleAdd, HandleAbort, Receives
<1>3. \A x \in Engines \ {e} : eng'[x] = eng[x]
  BY <1>a, Zenon DEF HandleAdd, HandleAbort
<1>b. ASSUME HandleAdd(f, e)
      PROVE  /\ eng'[e].pause_state = eng[e].pause_state
             /\ eng'[e].pending_pause = eng[e].pending_pause
             /\ eng'[e].ignore_start_dp_wave = eng[e].ignore_start_dp_wave
             /\ eng'[e].at = eng[e].at
             /\ eng'[e].running = eng[e].running
             /\ eng'[e].engines_running = (eng[e].engines_running
                                             \/ IsStale(eng[e], Head(to_eng[f][e]).wave))
  <2> DEFINE h == Head(to_eng[f][e])
             w == IF h.wave > eng[e].current_wave THEN h.wave ELSE eng[e].current_wave
             b == eng[e].engines_running \/ IsStale(eng[e], h.wave)
  <2>1. eng' = [eng EXCEPT ![e] = [eng[e] EXCEPT !.waiting = @ \cup {h.req}, !.current_wave = w,
                                                 !.engines_running = b]]
    BY <1>b, Zenon DEF HandleAdd
  <2>2. eng[e] \in EngineState
    BY <1>a
  <2> HIDE DEF w, b
  <2>3. /\ eng'[e].pause_state = eng[e].pause_state
        /\ eng'[e].pending_pause = eng[e].pending_pause
        /\ eng'[e].ignore_start_dp_wave = eng[e].ignore_start_dp_wave
        /\ eng'[e].at = eng[e].at
        /\ eng'[e].running = eng[e].running
        /\ eng'[e].engines_running = b
    <3> HIDE DEF h
    <3> QED
      BY <1>a, <2>1, <2>2 DEF EngineState
  <2> QED
    BY <2>3, Zenon DEF b
<1>4. /\ eng'[e].pause_state = eng[e].pause_state
      /\ eng'[e].pending_pause = eng[e].pending_pause
      /\ eng'[e].ignore_start_dp_wave = eng[e].ignore_start_dp_wave
      /\ eng'[e].at = eng[e].at
      /\ eng'[e].running \subseteq eng[e].running
  <2>1. CASE HandleAdd(f, e)
    BY <1>b, <2>1
  <2>2. CASE HandleAbort(f, e)
    <3> DEFINE r == Head(to_eng[f][e]).req
    <3>1. eng' = [eng EXCEPT ![e] = [eng[e] EXCEPT !.waiting = @ \ {r}, !.running = @ \ {r}]]
      BY <2>2, Zenon DEF HandleAbort
    <3> HIDE DEF r
    <3> QED
      BY <1>a, <3>1 DEF EngineState
  <2> QED
    BY <2>1, <2>2
<1>5. /\ eng[e].engines_running => eng'[e].engines_running
      /\ eng[e].pause_state # "UNPAUSED" => eng'[e].engines_running = eng[e].engines_running
  <2>1. CASE HandleAdd(f, e)
    <3> DEFINE stale == IsStale(eng[e], Head(to_eng[f][e]).wave)
    <3>1. eng'[e].engines_running = (eng[e].engines_running \/ stale)
      BY <1>b, <2>1
    <3>2. eng[e].pause_state # "UNPAUSED" => ~stale
      BY DEF IsStale
    <3>3. eng[e].engines_running \in BOOLEAN
      BY <1>a, EngineFields
    <3> HIDE DEF stale
    <3> QED
      BY <3>1, <3>2, <3>3
  <2>2. CASE HandleAbort(f, e)
    <3> DEFINE r == Head(to_eng[f][e]).req
    <3>1. eng' = [eng EXCEPT ![e] = [eng[e] EXCEPT !.waiting = @ \ {r}, !.running = @ \ {r}]]
      BY <2>2, Zenon DEF HandleAbort
    <3> HIDE DEF r
    <3> QED
      BY <1>a, <3>1 DEF EngineState
  <2> QED
    BY <2>1, <2>2
<1>6. Keeps(eng[e], eng'[e])
  BY <1>a, <1>2, <1>4, <1>5, KeepsFields DEF Agreed, Halted
<1>7. \A x \in Engines \ {e} : Keeps(eng[x], eng'[x])
  BY <1>3 DEF Keeps
<1> QED
  BY <1>1, <1>2, <1>6, <1>7, KeepsPauseInv

\* START_DP_WAVE sets an engine going, unless the ranks have agreed to pause.
LEMMA StartPause ==
    ASSUME TypeOK, TypeOK', PauseInv, NEW e \in Engines, HandleStartDPWave(e)
    PROVE  PauseInv'
<1>a. eng \in [Engines -> EngineState] /\ eng' \in [Engines -> EngineState]
  BY DEF TypeOK, EnginesOK
<1>1. MessagesKept
  BY DEF HandleStartDPWave, MessagesKept, None, AtMostOne
<1>2. admin' = admin /\ eng[e].at = "input"
  BY DEF HandleStartDPWave
<1>3. \A x \in Engines \ {e} : eng'[x] = eng[x]
  BY <1>a DEF HandleStartDPWave
<1>4. CASE Wakes(eng[e], e, Head(start_wave[e]))
  <2>1. /\ eng'[e].pause_state = eng[e].pause_state
        /\ eng'[e].pending_pause = eng[e].pending_pause
        /\ eng'[e].ignore_start_dp_wave = eng[e].ignore_start_dp_wave
        /\ eng'[e].at = eng[e].at
        /\ eng'[e].engines_running
    BY <1>a, <1>4 DEF HandleStartDPWave, EngineState
  <2>2. ~Agreed(eng[e])
    BY <1>4 DEF Wakes, Agreed
  <2>3. Keeps(eng[e], eng'[e])
    BY <1>a, <1>2, <2>1, <2>2, KeepsFields
  <2>4. \A x \in Engines \ {e} : Keeps(eng[x], eng'[x])
    BY <1>3 DEF Keeps
  <2> QED
    BY <1>1, <1>2, <2>3, <2>4, KeepsPauseInv
<1>5. CASE ~Wakes(eng[e], e, Head(start_wave[e]))
  <2>1. eng' = eng
    BY <1>5 DEF HandleStartDPWave
  <2>2. \A x \in Engines : Keeps(eng[x], eng'[x])
    BY <2>1 DEF Keeps
  <2> QED
    BY <1>1, <1>2, <2>2, KeepsPauseInv
<1> QED
  BY <1>4, <1>5

\* A step of the busy loop, and the forward pass.
LEMMA StepPause ==
    ASSUME TypeOK, TypeOK', PauseInv, NEW e \in Engines, Step(e)
    PROVE  PauseInv'
<1>a. eng \in [Engines -> EngineState] /\ eng' \in [Engines -> EngineState]
  BY DEF TypeOK, EnginesOK
<1>1. MessagesKept
  BY DEF Step, MessagesKept, None, AtMostOne
<1>2. admin' = admin /\ eng[e].at = "input" /\ HasWork(eng[e])
  BY DEF Step
<1>3. \A x \in Engines \ {e} : eng'[x] = eng[x]
  BY <1>a DEF Step
<1>4. /\ eng'[e].pause_state = eng[e].pause_state
      /\ eng'[e].pending_pause = eng[e].pending_pause
      /\ eng'[e].ignore_start_dp_wave = eng[e].ignore_start_dp_wave
      /\ eng'[e].engines_running = eng[e].engines_running
      /\ eng'[e].at = "forward"
  <2> DEFINE A == Admitted(eng[e])
  <2>1. eng' = [eng EXCEPT ![e] = [eng[e] EXCEPT !.running = @ \cup A, !.waiting = @ \ A, !.at = "forward"]]
    BY DEF Step
  <2> HIDE DEF A
  <2> QED
    BY <1>a, <2>1 DEF EngineState
<1>5. ~Halted(eng[e])
  BY <1>2 DEF HasWork, Halted
<1>6. Keeps(eng[e], eng'[e])
  BY <1>a, <1>2, <1>4, <1>5, KeepsFields
<1>7. \A x \in Engines \ {e} : Keeps(eng[x], eng'[x])
  BY <1>3 DEF Keeps
<1> QED
  BY <1>1, <1>2, <1>6, <1>7, KeepsPauseInv

\* What a forward pass leaves of an engine.
LEMMA AfterForward ==
    ASSUME TypeOK, Forward, NEW e \in Engines
    PROVE  /\ eng[e].at = "forward"
           /\ eng'[e].pause_state = eng[e].pause_state
           /\ eng'[e].pending_pause = eng[e].pending_pause
           /\ eng'[e].ignore_start_dp_wave = eng[e].ignore_start_dp_wave
           /\ eng'[e].engines_running
           /\ eng'[e].step_counter = Stepped(eng[e])
           /\ eng'[e].at = IF Stepped(eng[e]) = 0 THEN "sync" ELSE "input"
<1> DEFINE scheduled == UNION {eng[x].running : x \in {y \in Engines : eng[y].pause_state # "PAUSED_ALL"}}
           finished  == {r \in scheduled : reqs[r].left = 1}
<1>1. eng[e] \in EngineState /\ eng[e].at = "forward"
  BY Zenon DEF TypeOK, EnginesOK, Forward
<1>2. eng'[e] = [eng[e] EXCEPT !.running = @ \ finished,
                               !.step_counter = Stepped(eng[e]),
                               !.engines_running = TRUE,
                               !.at = IF Stepped(eng[e]) = 0 THEN "sync" ELSE "input"]
  BY Zenon DEF Forward
<1> HIDE DEF finished
<1> QED
  BY <1>1, <1>2 DEF EngineState

LEMMA ForwardPause ==
    ASSUME TypeOK, TypeOK', PauseInv, Forward
    PROVE  PauseInv'
<1>a. eng \in [Engines -> EngineState] /\ eng' \in [Engines -> EngineState]
  BY DEF TypeOK, EnginesOK
<1>2. admin' = admin /\ to_eng' = to_eng
  BY Zenon DEF Forward
<1>1. MessagesKept
  BY <1>2 DEF MessagesKept, None, AtMostOne
<1>3. \A e \in Engines : Keeps(eng[e], eng'[e])
  <2> TAKE e \in Engines
  <2>1. eng[e].at = "forward" /\ eng'[e].at # "resume"
    BY AfterForward
  <2>2. ~Halted(eng[e])
    BY <2>1 DEF Halted
  <2> QED
    BY <1>a, <2>1, <2>2, AfterForward, KeepsFields
<1> QED
  BY <1>1, <1>2, <1>3, KeepsPauseInv

\* pause_generation and resume_generation.
LEMMA AdminPause ==
    ASSUME TypeOK, PauseInv, NEW f \in FrontEnds,
           (\E mode \in PauseModes : PauseGeneration(f, mode)) \/ ResumeGeneration(f)
    PROVE  PauseInv'
<1>a. EnginesOK /\ admin.acks \subseteq Engines
  BY DEF TypeOK, EnginesOK
<1>1. ASSUME NEW mode \in PauseModes, PauseGeneration(f, mode)
      PROVE  PauseInv'
  <2> DEFINE m == [type |-> "PAUSE", mode |-> mode]
  <2>1. m.type = "PAUSE" /\ to_eng' = [to_eng EXCEPT ![f] = [e \in Engines |-> Append(@[e], m)]]
    BY <1>1 DEF PauseGeneration
  <2> HIDE DEF m
  <2>2. \A e \in Engines : /\ None(e, "PAUSE") => AtMostOne(e, "PAUSE")'
                           /\ None(e, "RESUME") => None(e, "RESUME")'
    BY <1>a, <2>1, SendsControl
  <2>3. admin.state = "running" /\ admin'.state = "pausing" /\ admin'.acks = {} /\ eng' = eng
    BY <1>1 DEF PauseGeneration
  <2> QED
    BY <2>2, <2>3 DEF PauseInv
<1>2. CASE ResumeGeneration(f)
  <2> DEFINE m == [type |-> "RESUME"]
  <2>1. m.type = "RESUME" /\ to_eng' = [to_eng EXCEPT ![f] = [e \in Engines |-> Append(@[e], m)]]
    BY <1>2 DEF ResumeGeneration
  <2> HIDE DEF m
  <2>2. \A e \in Engines : /\ None(e, "RESUME") => AtMostOne(e, "RESUME")'
                           /\ None(e, "PAUSE") => None(e, "PAUSE")'
    BY <1>a, <2>1, SendsControl
  <2>3. admin.state = "pausing" /\ admin.acks = Engines /\ eng' = eng
    BY <1>2 DEF ResumeGeneration
  <2>4. admin'.state = "resuming"
    BY <1>2 DEF ResumeGeneration, TypeOK, EnginesOK
  <2>5. admin.acks # {}
    <3>1. 0 \in Engines
      BY DPWavesAssumption DEF Engines
    <3> QED
      BY <2>3, <3>1
  <2> QED
    BY <2>2, <2>3, <2>4, <2>5 DEF PauseInv
<1> QED
  BY <1>1, <1>2

\* An engine is told to pause, and an engine is resumed.
LEMMA ControlPause ==
    ASSUME TypeOK, PauseInv, NEW f \in FrontEnds, NEW e \in Engines,
           HandlePause(f, e) \/ HandleResume(f, e)
    PROVE  PauseInv'
<1>a. eng \in [Engines -> EngineState] /\ EnginesOK
      /\ admin.state \in {"running", "pausing", "resuming"}
  BY DEF TypeOK, EnginesOK
<1>1. CASE HandlePause(f, e)
  <2>1. Receives(f, e, "PAUSE") /\ admin' = admin
    BY <1>1 DEF HandlePause
  <2>2. MessagesKept /\ ~None(e, "PAUSE") /\ (AtMostOne(e, "PAUSE") => None(e, "PAUSE")')
    BY <1>a, <2>1, ReceivesControl
  <2>3. /\ admin.state = "pausing" /\ admin.acks = {}
        /\ Unaware(eng[e]) /\ AtMostOne(e, "PAUSE")
        /\ \A x \in Engines : /\ None(x, "RESUME")
                              /\ \/ Unaware(eng[x]) /\ AtMostOne(x, "PAUSE")
                                 \/ Told(eng[x]) /\ None(x, "PAUSE")
    BY <1>a, <2>2 DEF PauseInv
  <2>4. \A x \in Engines \ {e} : eng'[x] = eng[x]
    BY <1>a, <1>1 DEF HandlePause
  <2>5. Told(eng'[e])
    <3> DEFINE mode == Head(to_eng[f][e]).mode
               ended == IF mode = "abort" THEN eng[e].waiting \cup eng[e].running ELSE {}
               p == IF mode = "keep" THEN "PAUSED_ALL" ELSE "PAUSED_NEW"
    <3>1. eng'[e] = [eng[e] EXCEPT !.waiting = @ \ ended, !.running = @ \ ended,
                                   !.pause_state = p, !.pending_pause = TRUE,
                                   !.engines_running = TRUE]
      BY <1>a, <1>1 DEF HandlePause
    <3>2. p # "UNPAUSED"
      OBVIOUS
    <3>3. eng[e] \in EngineState /\ ~eng[e].ignore_start_dp_wave /\ eng[e].at # "resume"
      BY <1>a, <2>3 DEF Unaware
    <3> HIDE DEF ended, p
    <3> QED
      BY <3>1, <3>2, <3>3 DEF Told, EngineState
  <2>6. \A x \in Engines : (None(x, "RESUME") => None(x, "RESUME")')
                           /\ (None(x, "PAUSE") => None(x, "PAUSE")')
                           /\ (AtMostOne(x, "PAUSE") => AtMostOne(x, "PAUSE")')
    BY <2>2 DEF MessagesKept, Control
  <2>7. \A x \in Engines : /\ None(x, "RESUME")'
                           /\ \/ Unaware(eng'[x]) /\ AtMostOne(x, "PAUSE")'
                              \/ Told(eng'[x]) /\ None(x, "PAUSE")'
    BY <2>2, <2>3, <2>4, <2>5, <2>6
  <2> QED
    BY <2>1, <2>3, <2>7 DEF PauseInv
<1>2. CASE HandleResume(f, e)
  <2>1. Receives(f, e, "RESUME") /\ admin' = admin
    BY <1>2 DEF HandleResume
  <2>2. MessagesKept /\ ~None(e, "RESUME") /\ (AtMostOne(e, "RESUME") => None(e, "RESUME")')
    BY <1>a, <2>1, ReceivesControl
  <2>3. admin.state = "resuming" /\ Agreed(eng[e]) /\ Halted(eng[e]) /\ AtMostOne(e, "RESUME")
    BY <1>a, <2>2 DEF PauseInv
  <2>4. \A x \in Engines \ {e} : eng'[x] = eng[x]
    BY <1>a, <1>2 DEF HandleResume
  <2>5. Resumed(eng'[e])
    <3>1. ~eng[e].pending_pause /\ ~eng[e].engines_running
      BY <2>3 DEF Agreed, Halted
    <3>2. eng'[e] = [eng[e] EXCEPT !.pause_state = "UNPAUSED", !.ignore_start_dp_wave = FALSE,
                                   !.at = "resume"]
      BY <1>a, <1>2, <3>1 DEF HandleResume
    <3>3. eng[e] \in EngineState
      BY <1>a
    <3> QED
      BY <3>1, <3>2, <3>3 DEF Resumed, EngineState
  <2>6. \A x \in Engines : (None(x, "RESUME") => None(x, "RESUME")')
                           /\ (None(x, "PAUSE") => None(x, "PAUSE")')
                           /\ (AtMostOne(x, "RESUME") => AtMostOne(x, "RESUME")')
    BY <2>2 DEF MessagesKept, Control
  <2>7. \A x \in Engines : /\ None(x, "PAUSE")'
                           /\ \/ Agreed(eng'[x]) /\ Halted(eng'[x]) /\ AtMostOne(x, "RESUME")'
                              \/ Resumed(eng'[x]) /\ None(x, "RESUME")'
    BY <2>2, <2>3, <2>4, <2>5, <2>6 DEF PauseInv
  <2> QED
    BY <2>1, <2>3, <2>7 DEF PauseInv
<1> QED
  BY <1>1, <1>2

\* An engine that has stopped answers the pause; the resumed engines go on.
LEMMA AnswerPause ==
    ASSUME TypeOK, PauseInv, ResumeBarrier \/ \E e \in Engines : NotifyIdle(e)
    PROVE  PauseInv'
<1>a. /\ eng \in [Engines -> EngineState]
      /\ admin \in [state : {"running", "pausing", "resuming"}, acks : SUBSET Engines, pauses : Nat]
  BY DEF TypeOK, EnginesOK
<1>b. \A x \in Engines, y \in Control : /\ None(x, y)' <=> None(x, y)
                                        /\ AtMostOne(x, y)' <=> AtMostOne(x, y)
  <2>1. to_eng' = to_eng
    <3>1. CASE ResumeBarrier
      BY <3>1, Zenon DEF ResumeBarrier
    <3>2. CASE \E e \in Engines : NotifyIdle(e)
      BY <3>2 DEF NotifyIdle
    <3> QED
      BY <3>1, <3>2
  <2> QED
    BY <2>1 DEF None, AtMostOne
<1>c. \A x \in Engines : /\ None(x, "PAUSE")' <=> None(x, "PAUSE")
                         /\ None(x, "RESUME")' <=> None(x, "RESUME")
                         /\ AtMostOne(x, "PAUSE")' <=> AtMostOne(x, "PAUSE")
  BY <1>b DEF Control
<1>1. ASSUME NEW e \in Engines, NotifyIdle(e)
      PROVE  PauseInv'
  <2>1. /\ admin.state = "pausing" /\ admin'.state = "pausing"
        /\ eng' = eng
        /\ eng[e].pause_state # "UNPAUSED" /\ ~eng[e].engines_running
    BY <1>a, <1>1 DEF NotifyIdle, HasWork
  <2>2. ~Unaware(eng[e]) /\ ~Told(eng[e])
    BY <2>1 DEF Unaware, Told
  <2>3. \A x \in Engines : /\ Agreed(eng[x]) /\ None(x, "PAUSE") /\ None(x, "RESUME")
                           /\ Halted(eng[x])
    BY <2>1, <2>2 DEF PauseInv
  <2> QED
    BY <1>c, <2>1, <2>3 DEF PauseInv
<1>2. CASE ResumeBarrier
  <2>1. /\ \A x \in Engines : eng[x].at = "resume"
        /\ admin'.state = "running" /\ admin'.acks = {}
    <3>1. /\ \A x \in Engines : eng[x].at = "resume"
          /\ admin' = [admin EXCEPT !.state = "running", !.acks = {}]
      BY <1>2, Zenon DEF ResumeBarrier
    <3> QED
      BY <1>a, <3>1
  <2>2. \A x \in Engines : ~Unaware(eng[x]) /\ ~Told(eng[x]) /\ ~Agreed(eng[x])
    BY <2>1 DEF Unaware, Told, Agreed
  <2>3. 0 \in Engines
    BY DPWavesAssumption DEF Engines
  <2>4. \A x \in Engines : Resumed(eng[x]) /\ None(x, "PAUSE") /\ None(x, "RESUME")
    BY <1>a, <2>2, <2>3 DEF PauseInv
  <2>5. \A x \in Engines : Unaware(eng'[x])
    <3> TAKE x \in Engines
    <3>1. eng'[x] = [eng[x] EXCEPT !.engines_running = HasUnfinishedDP, !.at = "input"]
      BY <1>2, Zenon DEF ResumeBarrier
    <3> QED
      BY <1>a, <2>4, <3>1 DEF Resumed, Unaware, EngineState
  <2> QED
    BY <1>c, <2>1, <2>4, <2>5 DEF PauseInv
<1> QED
  BY <1>1, <1>2

\* While some but not all engines are to pause, the sum that sync_dp_state
\* reduces is no multiple of the group's size.
LEMMA PendingCount ==
    ASSUME NEW e \in Engines, e \in Pending, Pending # Engines
    PROVE  Cardinality(Pending) % DPSize # 0
<1>1. IsFiniteSet(Engines) /\ Cardinality(Engines) = DPSize
  <2>1. DPSize \in Nat /\ DPSize > 0
    BY DPWavesAssumption
  <2> QED
    BY <2>1, FS_Interval DEF Engines
<1>2. Pending \subseteq Engines
  BY DEF Pending
<1>3. /\ IsFiniteSet(Pending) /\ Cardinality(Pending) \in Nat
      /\ Cardinality(Pending) < DPSize
  <2>1. IsFiniteSet(Pending) /\ Cardinality(Pending) <= Cardinality(Engines)
        /\ (Cardinality(Pending) = Cardinality(Engines) => Pending = Engines)
    BY <1>1, <1>2, FS_Subset
  <2>2. Cardinality(Pending) \in Nat /\ DPSize \in Nat
    BY <2>1, FS_CardinalityType, DPWavesAssumption
  <2> QED
    BY <1>1, <2>1, <2>2
<1>4. Cardinality(Pending) # 0
  BY <1>3, FS_EmptySet
<1>5. \A c, d \in Nat : 0 < c /\ c < d => c % d # 0
  OBVIOUS
<1> QED
  BY <1>3, <1>4, <1>5, DPWavesAssumption

\* What the all-reduce leaves of an engine.
LEMMA AfterSync ==
    ASSUME TypeOK, Sync, NEW e \in Engines
    PROVE  /\ eng[e].at = "sync" /\ eng'[e].at = "input"
           /\ eng'[e].step_counter = eng[e].step_counter
           /\ eng'[e].pause_state = eng[e].pause_state
           /\ HasUnfinished(eng'[e]) = HasUnfinished(eng[e])
           /\ eng'[e].engines_running <=> HasUnfinishedGlobal
           /\ Pending = Engines => ~eng'[e].pending_pause /\ eng'[e].ignore_start_dp_wave
           /\ Pending # Engines =>
                 /\ eng'[e].pending_pause = eng[e].pending_pause
                 /\ eng'[e].ignore_start_dp_wave = eng[e].ignore_start_dp_wave
<1> DEFINE g == HasUnfinishedGlobal
           c == Pending = Engines
           w == IF g THEN eng[e].current_wave ELSE eng[e].current_wave + 1
           p == eng[e].pending_pause /\ ~c
           i == eng[e].ignore_start_dp_wave \/ c
<1>1. eng[e] \in EngineState /\ eng[e].at = "sync"
  BY Zenon DEF TypeOK, EnginesOK, Sync
<1>2. eng'[e] = [eng[e] EXCEPT !.engines_running = g, !.current_wave = w,
                               !.pending_pause = p, !.ignore_start_dp_wave = i, !.at = "input"]
  BY Zenon DEF Sync
<1>3. eng[e].pending_pause \in BOOLEAN /\ eng[e].ignore_start_dp_wave \in BOOLEAN
  BY <1>1, EngineFields
<1>4. (c => ~p /\ i) /\ (~c => p = eng[e].pending_pause /\ i = eng[e].ignore_start_dp_wave)
  BY <1>3
<1>5. g = HasUnfinishedGlobal
  OBVIOUS
<1> HIDE DEF g, w, p, i
<1>6. /\ eng'[e].engines_running = g /\ eng'[e].pending_pause = p
      /\ eng'[e].ignore_start_dp_wave = i /\ eng'[e].at = "input"
      /\ eng'[e].step_counter = eng[e].step_counter
      /\ eng'[e].pause_state = eng[e].pause_state
      /\ eng'[e].waiting = eng[e].waiting /\ eng'[e].running = eng[e].running
  BY <1>1, <1>2 DEF EngineState
<1>7. HasUnfinished(eng'[e]) = HasUnfinished(eng[e])
  BY <1>6 DEF HasUnfinished
<1> QED
  BY <1>1, <1>4, <1>5, <1>6, <1>7

\* At the all-reduce the engines agree on a pause, and stop together.
LEMMA SyncPause ==
    ASSUME TypeOK, PauseInv, Sync
    PROVE  PauseInv'
<1>a. admin' = admin /\ to_eng' = to_eng /\ admin.state \in {"running", "pausing", "resuming"}
  BY Zenon DEF Sync, TypeOK, EnginesOK
<1>b. \A x \in Engines : /\ None(x, "PAUSE")' <=> None(x, "PAUSE")
                         /\ None(x, "RESUME")' <=> None(x, "RESUME")
                         /\ AtMostOne(x, "PAUSE")' <=> AtMostOne(x, "PAUSE")
  BY <1>a DEF None, AtMostOne
<1>c. 0 \in Engines
  BY DPWavesAssumption DEF Engines
<1>d. \A e \in Engines : eng[e].at = "sync" /\ eng'[e].at = "input"
  BY AfterSync
<1>e. ~(\A e \in Engines : Halted(eng[e])) /\ \A e \in Engines : ~Halted(eng[e]) /\ ~Resumed(eng[e])
  BY <1>c, <1>d DEF Halted, Resumed
<1>1. CASE Pending # Engines /\ (\A e \in Engines : Unaware(eng[e]))
  <2>1. \A e \in Engines : Unaware(eng'[e])
    BY <1>1, <1>d, AfterSync DEF Unaware
  <2>2. admin.acks = {} /\ admin.state \in {"running", "pausing"}
    BY <1>1, <1>a, <1>c, <1>e DEF PauseInv, Unaware, Agreed
  <2> QED
    BY <1>a, <1>b, <1>1, <1>c, <2>1, <2>2 DEF PauseInv, Unaware, Told, Agreed
<1>2. CASE Pending # Engines /\ (\E e \in Engines : Told(eng[e]))
  <2>1. PICK e \in Engines : Told(eng[e])
    BY <1>2
  <2>2. /\ admin.state = "pausing" /\ admin.acks = {}
        /\ \A x \in Engines : /\ None(x, "RESUME")
                              /\ \/ Unaware(eng[x]) /\ AtMostOne(x, "PAUSE")
                                 \/ Told(eng[x]) /\ None(x, "PAUSE")
    BY <2>1, <1>a, <1>e DEF PauseInv, Unaware, Told, Agreed
  <2>3. HasUnfinishedGlobal
    BY <1>2, <2>1, PendingCount DEF HasUnfinishedGlobal, Pending, Told
  <2>4. \A x \in Engines : /\ Unaware(eng[x]) => Unaware(eng'[x])
                           /\ Told(eng[x]) => Told(eng'[x])
    BY <1>2, <1>d, <2>3, AfterSync DEF Unaware, Told
  <2> QED
    BY <1>a, <1>b, <2>2, <2>4 DEF PauseInv
<1>3. CASE Pending = Engines
  <2>1. \A e \in Engines : ~Unaware(eng[e]) /\ ~Agreed(eng[e])
    BY <1>3 DEF Pending, Unaware, Agreed
  <2>2. /\ admin.state = "pausing" /\ admin.acks = {}
        /\ \A x \in Engines : None(x, "RESUME") /\ Told(eng[x]) /\ None(x, "PAUSE")
    BY <1>a, <1>c, <1>e, <2>1 DEF PauseInv
  <2>3. \A x \in Engines : Agreed(eng'[x])
    BY <1>3, <1>d, <2>2, AfterSync DEF Agreed, Told
  <2>4. CASE HasUnfinishedGlobal
    <3>1. \A x \in Engines : eng'[x].engines_running
      BY <2>4, AfterSync
    <3> QED
      BY <1>a, <1>b, <2>2, <2>3, <3>1 DEF PauseInv
  <2>5. CASE ~HasUnfinishedGlobal
    <3>1. \A x \in Engines : Halted(eng'[x])
      BY <2>5, <1>d, AfterSync DEF Halted, HasUnfinishedGlobal, HasUnfinishedDP
    <3> QED
      BY <1>a, <1>b, <2>2, <2>3, <3>1 DEF PauseInv
  <2> QED
    BY <2>4, <2>5
<1>4. CASE Pending # Engines /\ \A e \in Engines : Agreed(eng[e])
  <2>1. admin.state = "pausing" /\ admin.acks = {}
        /\ \A x \in Engines : None(x, "RESUME") /\ None(x, "PAUSE")
    BY <1>a, <1>c, <1>e, <1>4 DEF PauseInv, Unaware, Told, Agreed
  <2>2. \A x \in Engines : Agreed(eng'[x])
    BY <1>4, <1>d, AfterSync DEF Agreed
  <2>3. CASE HasUnfinishedGlobal
    <3>1. \A x \in Engines : eng'[x].engines_running
      BY <2>3, AfterSync
    <3> QED
      BY <1>a, <1>b, <2>1, <2>2, <3>1 DEF PauseInv
  <2>4. CASE ~HasUnfinishedGlobal
    <3>1. \A x \in Engines : Halted(eng'[x])
      BY <2>4, <1>d, AfterSync DEF Halted, HasUnfinishedGlobal, HasUnfinishedDP
    <3> QED
      BY <1>a, <1>b, <2>1, <2>2, <3>1 DEF PauseInv
  <2> QED
    BY <2>3, <2>4
<1>5. \/ \A e \in Engines : Unaware(eng[e])
      \/ \E e \in Engines : Told(eng[e])
      \/ \A e \in Engines : Agreed(eng[e])
  BY <1>a, <1>c, <1>e DEF PauseInv
<1> QED
  BY <1>1, <1>2, <1>3, <1>4, <1>5

-----------------------------------------------------------------------------
(* The counters of the engines, and the theorems.                           *)

\* An engine that acts by itself is not in the all-reduce, and does not count.
LEMMA ActsAlone ==
    ASSUME StepInv, NEW e \in Engines, eng[e].at = "input", eng'[e].at # "sync",
           eng'[e].step_counter = eng[e].step_counter,
           \A x \in Engines \ {e} : eng'[x] = eng[x]
    PROVE  StepInv'
<1>1. \A x \in Engines : eng[x].at # "sync"
  BY DEF StepInv
<1>2. \A x \in Engines : eng'[x].at # "sync" /\ eng'[x].step_counter = eng[x].step_counter
  BY <1>1
<1> QED
  BY <1>2 DEF StepInv

LEMMA StepStep ==
    ASSUME TypeOK, StepInv, Next
    PROVE  StepInv'
<1>a. eng \in [Engines -> EngineState]
  BY DEF TypeOK, EnginesOK
<1>1. ASSUME eng' = eng
      PROVE  StepInv'
  BY <1>1 DEF StepInv
<1>2. ASSUME NEW f \in FrontEnds, NEW e \in Engines, HandleClient(f, e)
      PROVE  StepInv'
  <2>1. eng[e].at = "input"
    BY <1>2, Zenon DEF HandleClient, HandleAdd, HandleAbort, HandlePause, HandleResume, Receives
  <2>2. \A x \in Engines \ {e} : eng'[x] = eng[x]
    BY <1>2, <1>a, Zenon DEF HandleClient, HandleAdd, HandleAbort, HandlePause, HandleResume
  <2>3. eng'[e].step_counter = eng[e].step_counter /\ eng'[e].at # "sync"
    <3> DEFINE h == Head(to_eng[f][e])
    <3>1. CASE HandleAdd(f, e)
      BY <1>a, <2>1, <3>1 DEF HandleAdd, EngineState
    <3>2. CASE HandleAbort(f, e)
      <4>1. eng' = [eng EXCEPT ![e] = [eng[e] EXCEPT !.waiting = @ \ {h.req}, !.running = @ \ {h.req}]]
        BY <3>2, Zenon DEF HandleAbort
      <4> HIDE DEF h
      <4> QED
        BY <1>a, <2>1, <4>1 DEF EngineState
    <3>3. CASE HandlePause(f, e)
      <4> DEFINE ended == IF h.mode = "abort" THEN eng[e].waiting \cup eng[e].running ELSE {}
                 p == IF h.mode = "keep" THEN "PAUSED_ALL" ELSE "PAUSED_NEW"
      <4>1. eng'[e] = [eng[e] EXCEPT !.waiting = @ \ ended, !.running = @ \ ended,
                                     !.pause_state = p, !.pending_pause = TRUE,
                                     !.engines_running = TRUE]
        BY <1>a, <3>3 DEF HandlePause
      <4> HIDE DEF ended, p
      <4> QED
        BY <1>a, <2>1, <4>1 DEF EngineState
    <3>4. CASE HandleResume(f, e)
      BY <1>a, <2>1, <3>4 DEF HandleResume, EngineState
    <3> QED
      BY <1>2, <3>1, <3>2, <3>3, <3>4 DEF HandleClient
  <2> QED
    BY <2>1, <2>2, <2>3, ActsAlone
<1>3. ASSUME NEW e \in Engines, HandleStartDPWave(e)
      PROVE  StepInv'
  <2>1. eng[e].at = "input" /\ \A x \in Engines \ {e} : eng'[x] = eng[x]
    BY <1>3, <1>a DEF HandleStartDPWave
  <2>2. eng'[e].step_counter = eng[e].step_counter /\ eng'[e].at # "sync"
    BY <1>a, <1>3, <2>1 DEF HandleStartDPWave, EngineState
  <2> QED
    BY <2>1, <2>2, ActsAlone
<1>4. ASSUME NEW e \in Engines, Step(e)
      PROVE  StepInv'
  <2>1. eng[e].at = "input" /\ \A x \in Engines \ {e} : eng'[x] = eng[x]
    BY <1>4, <1>a DEF Step
  <2>2. eng'[e].step_counter = eng[e].step_counter /\ eng'[e].at # "sync"
    <3> DEFINE A == Admitted(eng[e])
    <3>1. eng' = [eng EXCEPT ![e] = [eng[e] EXCEPT !.running = @ \cup A, !.waiting = @ \ A, !.at = "forward"]]
      BY <1>4 DEF Step
    <3> HIDE DEF A
    <3> QED
      BY <1>a, <3>1 DEF EngineState
  <2> QED
    BY <2>1, <2>2, ActsAlone
<1>5. CASE Forward
  <2>1. \A e, x \in Engines : Stepped(eng[e]) = Stepped(eng[x])
    BY DEF StepInv, Stepped
  <2> QED
    BY <1>5, <2>1, AfterForward DEF StepInv
<1>6. CASE Sync
  BY <1>6, AfterSync DEF StepInv
<1>7. CASE ResumeBarrier
  <2>1. \A e \in Engines : eng'[e].at # "sync" /\ eng'[e].step_counter = eng[e].step_counter
    <3> TAKE e \in Engines
    <3>1. eng'[e] = [eng[e] EXCEPT !.engines_running = HasUnfinishedDP, !.at = "input"]
      BY <1>7, Zenon DEF ResumeBarrier
    <3> QED
      BY <1>a, <3>1 DEF EngineState
  <2> QED
    BY <2>1 DEF StepInv
<1>8. CASE \/ \E f \in FrontEnds, e \in Engines, passes \in 1 .. MaxPasses : AddRequest(f, e, passes)
           \/ \E r \in Requests : AbortRequest(r)
           \/ \E f \in FrontEnds : SendFirstReq(f) \/ UpdateFromCoordinator(f)
           \/ \E f \in FrontEnds, mode \in PauseModes : PauseGeneration(f, mode)
           \/ \E f \in FrontEnds : ResumeGeneration(f)
           \/ CoordinatorStep
           \/ PublishStats
           \/ \E e \in Engines : NotifyIdle(e)
  <2>1. eng' = eng
    BY <1>8, Zenon DEF AddRequest, AbortRequest, SendFirstReq, UpdateFromCoordinator, PauseGeneration,
                ResumeGeneration, CoordinatorStep, HandleFirstReq, HandleWaveComplete,
                HandleStartWave, PublishStats, NotifyIdle
  <2> QED
    BY <1>1, <2>1
<1> QED
  BY <1>2, <1>3, <1>4, <1>5, <1>6, <1>7, <1>8 DEF Next, Collective

\* The steps that touch no engine and send no pause.
LEMMA OthersPause ==
    ASSUME TypeOK, PauseInv,
           \/ \E f \in FrontEnds, e \in Engines, passes \in 1 .. MaxPasses : AddRequest(f, e, passes)
           \/ \E r \in Requests : AbortRequest(r)
           \/ \E f \in FrontEnds : SendFirstReq(f) \/ UpdateFromCoordinator(f)
           \/ CoordinatorStep
           \/ PublishStats
    PROVE  PauseInv'
<1>1. eng' = eng /\ admin' = admin
  BY Zenon DEF AddRequest, AbortRequest, SendFirstReq, UpdateFromCoordinator, CoordinatorStep,
         HandleFirstReq, HandleWaveComplete, HandleStartWave, PublishStats
<1>2. MessagesKept
  <2>0. EnginesOK
    BY DEF TypeOK
  <2>1. ASSUME NEW f \in FrontEnds, NEW e \in Engines, NEW p \in 1 .. MaxPasses, AddRequest(f, e, p)
        PROVE  MessagesKept
    <3> DEFINE m == [type |-> "ADD", req |-> Len(reqs'), wave |-> front[f].current_wave]
    <3>1. m.type \notin Control /\ to_eng' = [to_eng EXCEPT ![f][e] = Append(@, m)]
      BY <2>1 DEF AddRequest, Control
    <3> HIDE DEF m
    <3> QED
      BY <2>0, <3>1, SendsRequest
  <2>2. ASSUME NEW r \in Requests, AbortRequest(r)
        PROVE  MessagesKept
    <3> DEFINE m == [type |-> "ABORT", req |-> r]
    <3>1. reqs[r].front \in FrontEnds /\ reqs[r].engine \in Engines
      BY <2>0, RequestUpdate DEF EnginesOK, Request
    <3>2. m.type \notin Control
          /\ to_eng' = [to_eng EXCEPT ![reqs[r].front][reqs[r].engine] = Append(@, m)]
      BY <2>2, Zenon DEF AbortRequest, Control
    <3> HIDE DEF m
    <3> QED
      BY <2>0, <3>1, <3>2, SendsRequest
  <2>3. ASSUME to_eng' = to_eng
        PROVE  MessagesKept
    BY <2>3 DEF MessagesKept, None, AtMostOne
  <2>4. CASE \/ \E f \in FrontEnds : SendFirstReq(f) \/ UpdateFromCoordinator(f)
             \/ CoordinatorStep
             \/ PublishStats
    <3>1. to_eng' = to_eng
      BY <2>4, Zenon DEF SendFirstReq, UpdateFromCoordinator, CoordinatorStep, HandleFirstReq,
                  HandleWaveComplete, HandleStartWave, PublishStats
    <3> QED
      BY <2>3, <3>1
  <2> QED
    BY <2>1, <2>2, <2>4
<1>3. \A e \in Engines : Keeps(eng[e], eng'[e])
  BY <1>1 DEF Keeps
<1> QED
  BY <1>1, <1>2, <1>3, KeepsPauseInv

\* Initially no pause is under way, and all engines are at "input".
LEMMA InitIInv ==
    Init => IInv
<1> SUFFICES ASSUME Init
             PROVE  IInv
  OBVIOUS
<1>1. WavesOK
  <2>1. [current_wave |-> 0, engines_running |-> FALSE] \in WaveState
    BY DEF WaveState
  <2> QED
    BY <2>1 DEF Init, WavesOK
<1>2. EnginesOK
  <2> DEFINE s == [current_wave |-> 0, engines_running |-> FALSE, step_counter |-> 0,
                   pending_pause |-> FALSE, ignore_start_dp_wave |-> FALSE,
                   pause_state |-> "UNPAUSED", waiting |-> {}, running |-> {}, at |-> "input"]
  <2>1. s \in EngineState
    BY DEF EngineState
  <2>2. eng = [e \in Engines |-> s]
    BY DEF Init
  <2> HIDE DEF s
  <2>3. eng \in [Engines -> EngineState]
    BY <2>1, <2>2
  <2>4. to_eng \in [FrontEnds -> [Engines -> Seq(ClientMessage)]] /\ reqs \in Seq(Request)
    BY DEF Init
  <2>5. admin \in [state : {"running", "pausing", "resuming"}, acks : SUBSET Engines, pauses : Nat]
    BY DEF Init
  <2> QED
    BY <2>3, <2>4, <2>5 DEF EnginesOK
<1>3. PauseInv
  <2>1. admin.state = "running" /\ admin.acks = {}
    BY DEF Init
  <2>2. \A e \in Engines : Unaware(eng[e])
    BY DEF Init, Unaware
  <2>3. \A e \in Engines : None(e, "PAUSE") /\ None(e, "RESUME")
    <3>1. \A f \in FrontEnds, e \in Engines : to_eng[f][e] = <<>>
      BY DEF Init
    <3> QED
      BY <3>1 DEF None
  <2> QED
    BY <2>1, <2>2, <2>3 DEF PauseInv
<1>4. StepInv
  BY DEF Init, StepInv
<1> QED
  BY <1>1, <1>2, <1>3, <1>4 DEF IInv, TypeOK

\* Every step keeps the invariant.
LEMMA NextIInv ==
    IInv /\ [Next]_vars => IInv'
<1> SUFFICES ASSUME IInv, [Next]_vars
             PROVE  IInv'
  OBVIOUS
<1>a. TypeOK /\ PauseInv /\ StepInv
  BY DEF IInv
<1>1. CASE Next
  <2>1. TypeOK'
    BY <1>a, <1>1, WavesStep, EnginesStep DEF TypeOK
  <2>2. StepInv'
    BY <1>a, <1>1, StepStep
  <2>3. PauseInv'
    <3>1. ASSUME NEW f \in FrontEnds, NEW e \in Engines, HandleClient(f, e)
          PROVE  PauseInv'
      BY <1>a, <2>1, <3>1, RequestsPause, ControlPause DEF HandleClient
    <3>2. ASSUME NEW e \in Engines, HandleStartDPWave(e) \/ NotifyIdle(e) \/ Step(e)
          PROVE  PauseInv'
      BY <1>a, <2>1, <3>2, StartPause, AnswerPause, StepPause
    <3>3. CASE Collective
      BY <1>a, <2>1, <3>3, ForwardPause, SyncPause, AnswerPause DEF Collective
    <3>4. ASSUME NEW f \in FrontEnds,
                 (\E mode \in PauseModes : PauseGeneration(f, mode)) \/ ResumeGeneration(f)
          PROVE  PauseInv'
      BY <1>a, <3>4, AdminPause
    <3>5. CASE \/ \E f \in FrontEnds, e \in Engines, passes \in 1 .. MaxPasses :
                     AddRequest(f, e, passes)
               \/ \E r \in Requests : AbortRequest(r)
               \/ \E f \in FrontEnds : SendFirstReq(f) \/ UpdateFromCoordinator(f)
               \/ CoordinatorStep
               \/ PublishStats
      BY <1>a, <3>5, OthersPause
    <3> QED
      BY <1>1, <3>1, <3>2, <3>3, <3>4, <3>5 DEF Next
  <2> QED
    BY <2>1, <2>2, <2>3 DEF IInv
<1>2. CASE UNCHANGED vars
  <2>1. WavesOK' /\ EnginesOK'
    BY <1>a, <1>2 DEF vars, TypeOK, WavesOK, EnginesOK
  <2>2. eng' = eng /\ admin' = admin /\ to_eng' = to_eng
    BY <1>2 DEF vars
  <2>3. StepInv'
    BY <1>a, <2>2 DEF StepInv
  <2>4. PauseInv'
    <3>1. MessagesKept
      BY <2>2 DEF MessagesKept, None, AtMostOne
    <3>2. \A e \in Engines : Keeps(eng[e], eng'[e])
      BY <2>2 DEF Keeps
    <3> QED
      BY <1>a, <2>2, <3>1, <3>2, KeepsPauseInv
  <2> QED
    BY <2>1, <2>3, <2>4 DEF IInv, TypeOK
<1> QED
  BY <1>1, <1>2

\* All engines pass through every pause together: none stops for it before all
\* have been told (DPEngineCoreProc.pause_scheduler and
\* _has_global_unfinished_reqs), and all count their passes alike.
THEOREM InductiveInvariant ==
    Spec => []IInv
<1> QED
  BY InitIInv, NextIInv, PTL DEF Spec

\* No rank waits in one collective (the forward pass, the all-reduce of
\* sync_dp_state, the barrier of resume_scheduler) while another waits in a
\* different one.
THEOREM CollectivesAgree ==
    Spec => []CollectivesMatch
<1>1. IInv => CollectivesMatch
  <2> SUFFICES ASSUME IInv, NEW e \in Engines, NEW x \in Engines,
                      eng[e].at # "input", eng[x].at # "input"
               PROVE  eng[e].at = eng[x].at
    BY DEF CollectivesMatch
  <2>1. /\ eng[e].at \in {"input", "forward", "sync", "resume"}
        /\ eng[x].at \in {"input", "forward", "sync", "resume"}
        /\ admin.state \in {"running", "pausing", "resuming"}
    BY EngineFields DEF IInv, TypeOK, EnginesOK
  <2>2. CASE eng[e].at = "sync" \/ eng[x].at = "sync"
    BY <2>2 DEF IInv, StepInv
  <2>3. CASE admin.state = "resuming"
    BY <2>3 DEF IInv, PauseInv, Halted, Resumed
  <2>4. CASE admin.state \in {"running", "pausing"}
    <3>1. eng[e].at # "resume" /\ eng[x].at # "resume"
      BY <2>4 DEF IInv, PauseInv, Unaware, Told, Agreed
    <3> QED
      BY <2>1, <2>2, <3>1
  <2> QED
    BY <2>1, <2>3, <2>4
<1> QED
  BY <1>1, InductiveInvariant, PTL

\* Once one rank has answered a pause (_notify_idle_state_callbacks), no rank
\* runs the model before all have resumed, whatever START_DP_WAVE arrives.
THEOREM PauseIsHeld ==
    Spec => []PauseHolds
<1>1. IInv => PauseHolds
  <2> SUFFICES ASSUME IInv, admin.acks # {}, NEW e \in Engines
               PROVE  eng[e].at \notin {"forward", "sync"}
    BY DEF PauseHolds
  <2>1. admin.state \in {"running", "pausing", "resuming"}
    BY DEF IInv, TypeOK, EnginesOK
  <2>2. Halted(eng[e]) \/ Resumed(eng[e])
    BY <2>1 DEF IInv, PauseInv
  <2> QED
    BY <2>2 DEF Halted, Resumed
<1> QED
  BY <1>1, InductiveInvariant, PTL

\* Nothing but pause_generation leaves the state in which the engines run.
PausesInv == admin.pauses = 0 => admin.state = "running"

LEMMA PausesStep ==
    ASSUME TypeOK, PausesInv, [Next]_vars
    PROVE  PausesInv'
<1>a. admin \in [state : {"running", "pausing", "resuming"}, acks : SUBSET Engines, pauses : Nat]
  BY DEF TypeOK, EnginesOK
<1>1. CASE \E f \in FrontEnds, mode \in PauseModes : PauseGeneration(f, mode)
  BY <1>a, <1>1 DEF PauseGeneration, PausesInv
<1>2. CASE \E f \in FrontEnds : ResumeGeneration(f)
  BY <1>a, <1>2 DEF ResumeGeneration, PausesInv
<1>3. CASE \E e \in Engines : NotifyIdle(e)
  BY <1>a, <1>3 DEF NotifyIdle, PausesInv
<1>4. CASE ResumeBarrier
  <2>1. admin' = [admin EXCEPT !.state = "running", !.acks = {}]
    BY <1>4, Zenon DEF ResumeBarrier
  <2> QED
    BY <1>a, <2>1 DEF PausesInv
<1>5. CASE \/ \E f \in FrontEnds, e \in Engines, passes \in 1 .. MaxPasses : AddRequest(f, e, passes)
           \/ \E r \in Requests : AbortRequest(r)
           \/ \E f \in FrontEnds : SendFirstReq(f) \/ UpdateFromCoordinator(f)
           \/ CoordinatorStep \/ PublishStats
  <2>1. admin' = admin
    BY <1>5, Zenon DEF AddRequest, AbortRequest, SendFirstReq, UpdateFromCoordinator,
         CoordinatorStep, HandleFirstReq, HandleWaveComplete, HandleStartWave, PublishStats
  <2> QED
    BY <2>1 DEF PausesInv
<1>6. CASE \/ \E f \in FrontEnds, e \in Engines : HandleClient(f, e)
           \/ \E e \in Engines : HandleStartDPWave(e) \/ Step(e)
           \/ Forward \/ Sync \/ UNCHANGED vars
  <2>1. \A f \in FrontEnds, e \in Engines : HandleClient(f, e) => admin' = admin
    <3> SUFFICES ASSUME NEW f \in FrontEnds, NEW e \in Engines, HandleClient(f, e)
                 PROVE  admin' = admin
      OBVIOUS
    <3>1. HandleAdd(f, e) => admin' = admin
      BY Zenon DEF HandleAdd
    <3>2. HandleAbort(f, e) => admin' = admin
      BY Zenon DEF HandleAbort
    <3>3. HandlePause(f, e) => admin' = admin
      BY Zenon DEF HandlePause
    <3>4. HandleResume(f, e) => admin' = admin
      BY Zenon DEF HandleResume
    <3> QED
      BY <3>1, <3>2, <3>3, <3>4, Zenon DEF HandleClient
  <2>2. \A e \in Engines : HandleStartDPWave(e) \/ Step(e) => admin' = admin
    BY Zenon DEF HandleStartDPWave, Step
  <2>3. Forward \/ Sync \/ UNCHANGED vars => admin' = admin
    BY Zenon DEF Forward, Sync, vars
  <2>4. admin' = admin
    BY <1>6, <2>1, <2>2, <2>3, Zenon
  <2> QED
    BY <2>4 DEF PausesInv
<1> QED
  BY <1>1, <1>2, <1>3, <1>4, <1>5, <1>6, Zenon DEF Next, Collective

\* The inductive invariant of the waves: all engines are in one wave, nobody
\* knows of a later one, and whoever believes something else of the engines
\* than they are at will be told (DPCoordinatorProc.process_input_socket and
\* the stats task of DPAsyncMPClient).
THEOREM WavesKnown ==
    Spec => [](KnownInv /\ PausesInv)
<1>1. Init => KnownInv /\ PausesInv
  <2>1. Init => PausesInv
    BY DEF Init, PausesInv
  <2> QED
    BY <2>1, InitKnown
<1>2. IInv /\ PausesInv => NoPause
  <2> SUFFICES ASSUME IInv, PausesInv, admin.pauses = 0, NEW e \in Engines
               PROVE  ~eng[e].ignore_start_dp_wave /\ eng[e].at # "resume"
    BY DEF NoPause
  <2> QED
    BY DEF IInv, PausesInv, PauseInv, Unaware
<1>3. IInv /\ (KnownInv /\ PausesInv) /\ [Next]_vars => (KnownInv /\ PausesInv)'
  BY <1>2, NextKnown, PausesStep DEF IInv
<1> QED
  BY <1>1, <1>3, InductiveInvariant, PTL DEF Spec

\* The all-reduce of sync_dp_state never ends a wave of ranks that count
\* different waves, whatever requests of old waves and late START_DP_WAVE
\* messages the engines take.
THEOREM WavesAgree ==
    Spec => []SameWaveAtSync
<1>1. KnownInv => SameWaveAtSync
  <2> SUFFICES ASSUME KnownInv, NEW e \in Engines, NEW x \in Engines
               PROVE  eng[e].current_wave = eng[x].current_wave
    BY DEF SameWaveAtSync
  <2> QED
    BY DEF KnownInv, WaveInv, EngineWaves
<1> QED
  BY <1>1, WavesKnown, PTL

\* When the messages of a deployment that was never paused have arrived and
\* its ranks are idle, the coordinator and every front end know that the
\* engines are stopped and at which wave, so the next add_request_async sends
\* FIRST_REQ and wakes them.
THEOREM IdleStateIsKnown ==
    Spec => []IdleIsKnown
<1>1. IInv /\ KnownInv => IdleIsKnown
  <2> SUFFICES ASSUME IInv, KnownInv, ~InFlight, admin.pauses = 0,
                      \A e \in Engines : ~HasWork(eng[e]) /\ eng[e].at = "input"
               PROVE  /\ ~coord.engines_running
                      /\ \A f \in FrontEnds : front[f] = coord
                      /\ \A e \in Engines : eng[e].current_wave = coord.current_wave
    BY DEF IdleIsKnown
  <2>1. TypeOK
    BY DEF IInv
  <2>2. /\ \A f \in FrontEnds : to_coord[f] = <<>> /\ published[f] = Nothing
        /\ \A e \in Engines : start_wave[e] = <<>> /\ from_eng[e] = <<>>
    BY DEF InFlight
  <2>3. Queued(<<>>) = {}
    BY DEF Queued
  <2>4. \A e \in Engines : ~Busy(eng[e])
    BY DEF Busy, HasWork
  <2>5. 0 \in Engines /\ Wave \in Nat /\ coord.current_wave \in Nat
    BY <2>1, KnownTypes
  <2>6. ~coord.engines_running
    BY <2>2, <2>3, <2>4, <2>5 DEF KnownInv, RunsInv
  <2>7. \A f \in FrontEnds : front[f] = coord
    BY <2>2 DEF KnownInv, FrontInv
  <2>8. ~(coord.current_wave < Wave)
    BY <2>2, <2>3, <2>5 DEF KnownInv, BehindInv
  <2>9. coord.current_wave = Wave
    BY <2>5, <2>8 DEF KnownInv, WaveInv, KnownWaves
  <2> QED
    BY <2>6, <2>7, <2>9 DEF KnownInv, WaveInv, EngineWaves
<1> QED
  BY <1>1, WavesKnown, InductiveInvariant, PTL
=============================================================================
