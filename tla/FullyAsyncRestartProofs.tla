---------------------- MODULE FullyAsyncRestartProofs ----------------------
(***************************************************************************)
(* What a restart from a checkpoint costs a run of FullyAsync: the         *)
(* dataloader comes back ahead of the samples trained on, but by no more   *)
(* than what was in flight, and what is fed is still trained on.           *)
(***************************************************************************)
EXTENDS FullyAsyncEndProofs

-----------------------------------------------------------------------------
(* What is in flight.                                                       *)

\* Before the trainer has taken the end signal, what it has taken for the next
\* version and what is on its way to it is bounded.
FlightInv ==
    ~EndTaken => in_hand + generating + QueueSamples + TakenSinceReset <= MaxRequiredSamples + 1

InFlightInv == failures = 0 => FlightInv

\* The bound of StaleInv outlives the end signal: from then on the trainer
\* only moves samples from the queue into its training steps.
LEMMA FlightStep ==
    ASSUME CountsOK, ControlInv, TrainerInv, StaleInv, StopInv, FeedInv, SentInv, FlightInv, Next,
           CountsOK', StaleInv', FeedInv', SentInv', ControlInv'
    PROVE  FlightInv'
<1> USE DEF feedVars, procVars, taskVars, pauseVars, monVars, mqVars, trainVars, countVars, ckptVars, boundVars
<1>a. /\ RequiredSamples \in Nat /\ ParamSyncSamples \in Nat /\ MaxRequiredSamples \in Nat
      /\ StepSamplesTaken \in Nat /\ collected \in Nat /\ TriggerStep \in Nat
      /\ in_hand \in Nat /\ generating \in Nat
  BY SumTypes, FullyAsyncAssumption
<1>d. Len(queue) \in Nat
  BY SumTypes
<1>b. TakenSinceReset \in Nat
  BY <1>a DEF TakenSinceReset, StepSamplesTaken
<1>c. ~EndSent => ~EndTaken
  BY DEF ControlInv, EndSent, EndTaken
<1>1. CASE ~EndSent'
  <2> DEFINE l == Len(queue')
  <2>1. Open' /\ QueueSamples' = l
    BY <1>1 DEF FeedInv, Open, EndSent, QueueSamples
  <2>2. in_hand' + generating' + l + TakenSinceReset' <= MaxRequiredSamples + overlooked'
    BY <2>1 DEF StaleInv, Outstanding
  <2>3. overlooked' \in {0, 1}
    BY DEF CountsOK
  <2>4. /\ in_hand' \in Int /\ generating' \in Int /\ l \in Int
        /\ TakenSinceReset' \in Int
    <3>1. /\ in_hand' \in {0, 1} /\ generating' \in Nat /\ queue' \in Seq({"sample", "end"})
          /\ collected' \in 0 .. RequiredSamples /\ local_trigger_step' \in 1 .. TriggerStep
      BY DEF CountsOK
    <3>2. \A k \in 1 .. TriggerStep, c \in 0 .. RequiredSamples : (k - 1) * RequiredSamples + c \in Int
      BY <1>a, StepSamples
    <3>2a. (local_trigger_step' - 1) * RequiredSamples + collected' \in Int
      BY <3>1, <3>2, Zenon
    <3>3. TakenSinceReset' \in {ParamSyncSamples,
                                (local_trigger_step' - 1) * RequiredSamples + collected'}
      BY DEF TakenSinceReset
    <3> QED
      BY <1>a, <3>1, <3>2a, <3>3
  <2> HIDE DEF l
  <2>5. \A a, b, q, t \in Int, o \in {0, 1} :
           a + b + q + t <= MaxRequiredSamples + o => a + b + q + t <= MaxRequiredSamples + 1
    BY <1>a
  <2>6. in_hand' + generating' + QueueSamples' + TakenSinceReset' <= MaxRequiredSamples + 1
    BY <2>1, <2>2, <2>3, <2>4, <2>5, Zenon
  <2> QED
    BY <2>6 DEF FlightInv
<1>2. CASE EndSent' /\ ~EndSent
  <2>1. SendEndSignal
    <3>1. CASE Trainer \/ Monitor
      BY <1>2, <3>1, TrainerKeeps DEF EndSent
    <3>2. CASE Feed \/ FeedEnd \/ GenerateAndPut \/ GenerationFails \/ TaskDone
      <4>1. pc' = pc
        BY <3>2, Zenon DEF Feed, FeedEnd, GenerateAndPut, GenerationFails, TaskDone
      <4> QED
        BY <1>2, <4>1 DEF EndSent
    <3>3. CASE Crash
      BY <1>2, <3>3 DEF Crash, EndSent
    <3>4. CASE Processor
      BY ZenonT(30), <1>2, <3>4 DEF Processor, CheckPaused, DecidePause, Pause, Drain, Resume, GetPending,
           WaitForTask, TakeFinished, SlotFree, Submit, AllFinished, StopRollouter, EndSent
    <3> QED
      BY <3>1, <3>2, <3>3, <3>4 DEF Next
  <2>2. /\ PutSample("end")
        /\ UNCHANGED <<in_hand, generating, collected, local_trigger_step, t_pc, stopping>>
    BY <2>1, Zenon DEF SendEndSignal
  <2>3. Len(queue') \in Nat /\ Len(queue') <= Len(queue) + 1
    BY <1>d, <2>2, PutSampleFacts
  <2>4. QueueSamples' <= QueueSamples /\ QueueSamples' \in Int /\ QueueSamples \in Int
    BY <1>2, <1>d, <2>3 DEF QueueSamples
  <2>5. TakenSinceReset' = TakenSinceReset
    BY <2>2 DEF TakenSinceReset
  <2>6. in_hand + generating + QueueSamples + TakenSinceReset <= MaxRequiredSamples + 1
    BY <1>2, <1>c DEF FlightInv
  <2>7. in_hand' = in_hand /\ generating' = generating
    BY <2>2
  <2> DEFINE q == QueueSamples'
  <2>8. in_hand + generating + q + TakenSinceReset <= MaxRequiredSamples + 1
    <3>1. q <= QueueSamples /\ q \in Int /\ QueueSamples \in Int
      BY <2>4
    <3> HIDE DEF q
    <3> QED
      BY <1>a, <1>b, <2>6, <3>1
  <2> QED
    BY <2>5, <2>7, <2>8, Zenon DEF FlightInv
<1>3. CASE EndSent' /\ EndSent
  <2>1. in_hand = 0 /\ generating = 0 /\ in_hand' = 0 /\ generating' = 0
    BY <1>3 DEF ControlInv, SentInv, EndSent
  <2>2. QueueSamples = Len(queue) - 1 /\ QueueSamples' = Len(queue') - 1
    BY <1>3 DEF QueueSamples
  <2>3. CASE GetSample
    <3>1. /\ t_pc = "collect" /\ queue # <<>> /\ queue' = Tail(queue) /\ ~stopping
          /\ IF Head(queue) = "end" THEN t_pc' = "final"
             ELSE collected' = collected + 1 /\ t_pc' \in {"collect", "train"}
          /\ UNCHANGED <<stopping, local_trigger_step>>
      BY <2>3 DEF GetSample, StopInv
    <3>2. Len(queue') = Len(queue) - 1
      BY <3>1, SumTypes
    <3>3. CASE Head(queue) = "end"
      BY <3>1, <3>3 DEF FlightInv, EndTaken
    <3>4. CASE Head(queue) # "end"
      <4>1. TakenSinceReset' = TakenSinceReset + 1 /\ ~EndTaken
        BY <1>a, <3>1, <3>4 DEF TakenSinceReset, StepSamplesTaken, EndTaken
      <4> QED
        BY <1>a, <1>b, <1>d, <2>1, <2>2, <3>2, <4>1 DEF FlightInv
    <3> QED
      BY <3>3, <3>4
  <2>4. CASE Trainer /\ ~GetSample
    <3>1. queue' = queue
      BY <2>4, TrainerKeeps
    <3>2. ASSUME ~EndTaken' PROVE TakenSinceReset' <= TakenSinceReset /\ TakenSinceReset' \in Int /\ ~EndTaken
      <4>1. CASE TrainStep
        <5>1. /\ t_pc = "train" /\ collected' = 0 /\ collected = RequiredSamples /\ ~stopping
              /\ stopping' = stopping
              /\ IF local_trigger_step < TriggerStep
                 THEN local_trigger_step' = local_trigger_step + 1 /\ t_pc' = "save"
                 ELSE t_pc' = "abort"
          BY <4>1 DEF TrainStep, TrainerInv, StopInv
        <5>2. TakenSinceReset = StepSamplesTaken + RequiredSamples
          BY <5>1 DEF TakenSinceReset, StepSamplesTaken
        <5>3. CASE local_trigger_step < TriggerStep
          <6>1. TakenSinceReset' = (local_trigger_step' - 1) * RequiredSamples + 0
            BY <5>1, <5>3 DEF TakenSinceReset
          <6>2. local_trigger_step' = local_trigger_step + 1 /\ local_trigger_step \in 1 .. TriggerStep
            BY <5>1, <5>3 DEF CountsOK
          <6>3. TakenSinceReset' = StepSamplesTaken + RequiredSamples
            BY <1>a, <6>1, <6>2, StepSamples DEF StepSamplesTaken
          <6> QED
            BY <1>a, <3>2, <5>1, <5>2, <6>3 DEF EndTaken
        <5>4. CASE ~(local_trigger_step < TriggerStep)
          <6>1. TakenSinceReset' = ParamSyncSamples /\ local_trigger_step = TriggerStep
            BY <5>1, <5>4, FullyAsyncAssumption DEF TakenSinceReset, CountsOK
          <6> QED
            BY <1>a, <3>2, <5>1, <5>2, <6>1, StepSamples DEF CountsOK, StepSamplesTaken, EndTaken
        <5> QED
          BY <5>3, <5>4
      <4>2. CASE StopTraining
        BY <3>2, <4>2 DEF StopTraining, EndTaken
      <4>3. CASE AssignStaleness
        <5>1. /\ t_pc' = "save" /\ stopping' = stopping /\ ~stopping /\ t_pc = "assign"
              /\ UNCHANGED <<collected, local_trigger_step>> /\ collected = 0
              /\ local_trigger_step = 1
          BY <3>2, <4>3 DEF AssignStaleness, TrainerInv, EndTaken
        <5>2. TakenSinceReset' = (1 - 1) * RequiredSamples + 0
          BY <5>1 DEF TakenSinceReset
        <5> QED
          BY <1>a, <1>b, <5>1, <5>2 DEF EndTaken
      <4>4. CASE AbortReplicas \/ ResumeReplicas \/ ResetStaleness \/ GetQueueSize
        <5>1. /\ t_pc \in {"abort", "sync", "reset", "count"}
              /\ t_pc' \in {"sync", "reset", "count", "assign"} /\ stopping' = stopping
          BY <4>4 DEF AbortReplicas, ResumeReplicas, ResetStaleness, GetQueueSize
        <5>2. ~stopping
          BY <3>2, <5>1 DEF EndTaken
        <5>3. TakenSinceReset' = ParamSyncSamples /\ TakenSinceReset = ParamSyncSamples
          BY <5>1, <5>2 DEF TakenSinceReset
        <5> QED
          BY <1>a, <5>1, <5>2, <5>3 DEF EndTaken
      <4>5. CASE SaveCheckpoint
        <5>1. /\ t_pc = "save" /\ stopping' = stopping /\ ~stopping /\ t_pc' = "collect"
              /\ UNCHANGED <<collected, local_trigger_step>>
          BY <3>2, <4>5 DEF SaveCheckpoint, EndTaken
        <5>2. TakenSinceReset' = TakenSinceReset
          BY <5>1 DEF TakenSinceReset
        <5> QED
          BY <1>b, <5>1, <5>2 DEF EndTaken
      <4> QED
        BY <2>4, <4>1, <4>2, <4>3, <4>4, <4>5 DEF Trainer
    <3> QED
      BY <1>a, <1>b, <1>d, <2>1, <2>2, <3>1, <3>2 DEF FlightInv
  <2>5. CASE ~Trainer
    <3>1. UNCHANGED <<queue, collected, local_trigger_step, t_pc, stopping>>
      <4>1. ~GenerateAndPut /\ ~GenerationFails
        BY <2>1 DEF GenerateAndPut, GenerationFails
      <4>1a. ~Crash /\ ~SendEndSignal
        BY <1>3 DEF Crash, SendEndSignal, EndSent
      <4>2. CASE \/ Feed \/ FeedEnd \/ CheckPaused \/ DecidePause \/ Pause \/ Drain \/ Resume
                 \/ GetPending \/ WaitForTask \/ TakeFinished \/ SlotFree \/ Submit
                 \/ AllFinished \/ StopRollouter \/ TaskDone \/ Monitor
        BY <4>2, Zenon DEF Feed, FeedEnd, CheckPaused, DecidePause, Pause, Drain, Resume, GetPending,
             WaitForTask, TakeFinished, SlotFree, Submit, AllFinished, StopRollouter, TaskDone,
             Monitor, MonitorWakes, MonitorDecides, MonitorResumes, MonitorStops
      <4> QED
        BY <2>5, <4>1, <4>1a, <4>2 DEF Next, Processor
    <3>2. TakenSinceReset' = TakenSinceReset /\ (EndTaken' <=> EndTaken)
      BY <3>1 DEF TakenSinceReset, EndTaken
    <3> QED
      BY <2>1, <2>2, <3>1, <3>2 DEF FlightInv
  <2> QED
    BY <2>3, <2>4, <2>5
<1> QED
  BY <1>1, <1>2, <1>3

\* What is in flight is bounded in a run without a failed generation.
THEOREM InFlightInvariant == Spec => []InFlightInv
<1>1. Init => InFlightInv
  BY StepSamples, FullyAsyncAssumption
     DEF Init, InFlightInv, FlightInv, TakenSinceReset, QueueSamples, EndSent
<1>2. IInv /\ EndInv /\ InFlightInv /\ [Next]_vars /\ IInv' /\ EndInv' => InFlightInv'
  <2> SUFFICES ASSUME IInv, EndInv, InFlightInv, [Next]_vars, IInv', EndInv', failures' = 0
               PROVE  FlightInv'
    BY DEF InFlightInv
  <2>1. failures = 0
    BY FailuresStay DEF IInv
  <2>2. CASE Next
    BY <2>1, <2>2, FlightStep DEF IInv, EndInv, InFlightInv
  <2>3. CASE UNCHANGED vars
    <3>1. UNCHANGED <<in_hand, generating, queue, collected, local_trigger_step, pc, t_pc, stopping>>
      BY <2>3, Zenon DEF vars, procVars, taskVars, mqVars, trainVars
    <3> QED
      BY <2>1, <3>1 DEF InFlightInv, FlightInv, QueueSamples, TakenSinceReset, EndSent, EndTaken
  <2> QED
    BY <2>2, <2>3
<1> QED
  BY <1>1, <1>2, InductiveInvariant, EndInvariant, PTL DEF Spec

-----------------------------------------------------------------------------
(* What a restart costs.                                                    *)

\* The batches handed to the feeder in the count of global_steps, and how far
\* the dataloader is ahead of that count.
Handed == IF epoch = TotalEpochs THEN global_steps - 1 ELSE global_steps
Skipped == epoch * EpochLength + position - Handed

\* The dataloader is ahead only by what restarts have skipped, and the next
\* restart will skip no more than what was in flight when the checkpoint was
\* saved.
DataInv ==
    /\ epoch = TotalEpochs => position = 0
    /\ Skipped + dropped_samples <= crashes * MaxInFlight + drops
    /\ ckpt_position - last_ckpt_version * ParamSyncSamples
          <= (crashes + 1) * MaxInFlight + ckpt_drops

SkipInv == failures = 0 => DataInv

\* The terms of DataInv are numbers.
LEMMA DataTypes ==
    ASSUME DataOK, CountsOK
    PROVE  /\ EpochLength \in Nat \ {0} /\ TotalEpochs \in Nat \ {0} /\ epoch \in Nat /\ position \in Nat
           /\ epoch * EpochLength \in Nat /\ global_steps \in Nat
           /\ Handed \in Int /\ Skipped \in Int
           /\ crashes \in Nat /\ MaxInFlight \in Nat /\ crashes * MaxInFlight \in Nat
           /\ (crashes + 1) * MaxInFlight = crashes * MaxInFlight + MaxInFlight
           /\ drops \in Nat /\ ckpt_drops \in Nat /\ dropped_samples \in Nat
           /\ ckpt_position \in Nat /\ last_ckpt_version * ParamSyncSamples \in Nat
           /\ ckpt_position <= EpochLength /\ position <= EpochLength
<1>1. /\ EpochLength \in Nat \ {0} /\ TotalEpochs \in Nat \ {0} /\ epoch \in Nat /\ position \in Nat
      /\ global_steps \in Nat /\ crashes \in Nat
      /\ drops \in Nat /\ ckpt_drops \in Nat /\ dropped_samples \in Nat
      /\ ckpt_position \in Nat /\ ckpt_position <= EpochLength /\ position <= EpochLength
      /\ last_ckpt_version \in Nat
  BY FullyAsyncAssumption DEF DataOK, CountsOK
<1>2. ParamSyncSamples \in Nat
  BY SumTypes
<1>3. MaxInFlight \in Nat
  BY FullyAsyncAssumption DEF MaxInFlight
<1>4. /\ epoch * EpochLength \in Nat /\ crashes * MaxInFlight \in Nat
      /\ last_ckpt_version * ParamSyncSamples \in Nat
  BY <1>1, <1>2, <1>3
<1>5. (crashes + 1) * MaxInFlight = crashes * MaxInFlight + MaxInFlight
  BY <1>1, <1>3
<1>6. Handed \in Int
  BY <1>1 DEF Handed
<1> QED
  BY <1>1, <1>3, <1>4, <1>5, <1>6 DEF Skipped

\* A step that leaves the data and the checkpoint alone.
LEMMA DataSame ==
    ASSUME DataInv, UNCHANGED <<global_steps, epoch, position, ckptVars, drops, dropped_samples, crashes>>
    PROVE  DataInv'
<1>1. Skipped' = Skipped
  BY DEF Skipped, Handed
<1>2. UNCHANGED <<last_ckpt_version, ckpt_position, ckpt_drops>>
  BY Zenon DEF ckptVars
<1> QED
  BY <1>1, <1>2 DEF DataInv

LEMMA SkipStep ==
    ASSUME DataOK, EpochInv, CountsOK, TrainerInv, StopInv, FeedInv, SentInv, ConserveInv, FedInv, FlightInv,
           DataInv, Next, failures' = 0
    PROVE  DataInv'
<1> USE DEF feedVars, procVars, taskVars, pauseVars, monVars, mqVars, trainVars, countVars, boundVars
<1>a. /\ EpochLength \in Nat \ {0} /\ TotalEpochs \in Nat \ {0} /\ epoch \in Nat /\ position \in Nat
      /\ epoch * EpochLength \in Nat /\ global_steps \in Nat
      /\ Handed \in Int /\ Skipped \in Int
      /\ crashes \in Nat /\ MaxInFlight \in Nat /\ crashes * MaxInFlight \in Nat
      /\ (crashes + 1) * MaxInFlight = crashes * MaxInFlight + MaxInFlight
      /\ drops \in Nat /\ ckpt_drops \in Nat /\ dropped_samples \in Nat
      /\ ckpt_position \in Nat /\ last_ckpt_version * ParamSyncSamples \in Nat
      /\ ckpt_position <= EpochLength /\ position <= EpochLength
  BY DataTypes
<1>1. CASE Feed
  <2>1. feed_pc = "feed" /\ epoch < TotalEpochs /\ Handed = global_steps
    BY <1>1, <1>a DEF Feed, EpochInv, Handed
  <2>2. UNCHANGED <<ckptVars, drops, dropped_samples, crashes>>
    BY <1>1, Zenon DEF Feed
  <2>3. CASE global_steps >= TotalRolloutSteps
    <3>1. UNCHANGED <<global_steps, epoch, position>>
      BY <1>1, <2>3 DEF Feed
    <3> QED
      BY <2>2, <3>1, DataSame
  <2>4. CASE ~(global_steps >= TotalRolloutSteps)
    <3>1. global_steps' = global_steps + 1 /\ NextBatch(epoch, position)
      BY <1>1, <2>4 DEF Feed
    <3>2. /\ epoch' = TotalEpochs => position' = 0
          /\ \/ epoch' = epoch /\ position' = position + 1
             \/ epoch' = epoch + 1 /\ position = EpochLength /\ epoch' < TotalEpochs /\ position' = 1
             \/ epoch' = epoch + 1 /\ position = EpochLength /\ epoch' = TotalEpochs /\ position' = 0
      BY <1>a, <2>1, <3>1 DEF NextBatch
    <3>3. (epoch + 1) * EpochLength = epoch * EpochLength + EpochLength
      BY <1>a
    <3>4. Handed' = IF epoch' = TotalEpochs THEN global_steps ELSE global_steps + 1
      BY <1>a, <3>1 DEF Handed
    <3>5. Skipped' = Skipped
      <4> DEFINE q == epoch * EpochLength
      <4>1. q \in Nat /\ Skipped = q + position - global_steps
        BY <1>a, <2>1 DEF Skipped
      <4>2. CASE epoch' = epoch /\ position' = position + 1
        <5>1. Skipped' = q + (position + 1) - (global_steps + 1)
          BY <1>a, <2>1, <3>4, <4>2 DEF Skipped
        <5> QED
          BY <1>a, <4>1, <5>1
      <4>3. CASE epoch' = epoch + 1 /\ position = EpochLength
        <5>1. epoch' * EpochLength = q + EpochLength
          BY <3>3, <4>3
        <5>2. Skipped' = q + EpochLength + position' - Handed'
          BY <5>1 DEF Skipped
        <5> HIDE DEF q
        <5>3. CASE epoch' < TotalEpochs /\ position' = 1
          BY <1>a, <3>4, <4>1, <4>3, <5>2, <5>3
        <5>4. CASE epoch' = TotalEpochs /\ position' = 0
          BY <1>a, <3>4, <4>1, <4>3, <5>2, <5>4
        <5> QED
          BY <1>a, <3>2, <4>3, <5>3, <5>4
      <4> QED
        BY <3>2, <4>2, <4>3
    <3>6. UNCHANGED <<last_ckpt_version, ckpt_position, ckpt_drops>>
      BY <2>2, Zenon DEF ckptVars
    <3> QED
      BY <2>2, <3>2, <3>5, <3>6 DEF DataInv
  <2> QED
    BY <2>3, <2>4
<1>2. CASE GenerateAndPut \/ SendEndSignal
  <2>1. UNCHANGED <<global_steps, epoch, position, ckptVars, crashes>>
    BY <1>2, Zenon DEF GenerateAndPut, SendEndSignal
  <2>2. \/ dropped_samples' = dropped_samples /\ drops' = drops
        \/ dropped_samples' = dropped_samples + 1 /\ drops' = drops + 1
    BY <1>2 DEF GenerateAndPut, SendEndSignal, PutSample
  <2>3. Skipped' = Skipped
    BY <2>1 DEF Skipped, Handed
  <2>4. UNCHANGED <<last_ckpt_version, ckpt_position, ckpt_drops>>
    BY <2>1, Zenon DEF ckptVars
  <2>5. (Skipped + dropped_samples)' <= (crashes * MaxInFlight + drops)'
    BY <1>a, <2>1, <2>2, <2>3 DEF DataInv
  <2> QED
    BY <2>1, <2>4, <2>5 DEF DataInv
<1>3. CASE SaveCheckpoint
  <2>1. UNCHANGED <<global_steps, epoch, position, drops, dropped_samples, crashes>>
    BY <1>3, Zenon DEF SaveCheckpoint
  <2>2. CASE UNCHANGED ckptVars
    BY <2>1, <2>2, DataSame
  <2>3. CASE ~UNCHANGED ckptVars
    <3>1. /\ last_ckpt_version' = current_param_version /\ ckpt_position' = position
          /\ ckpt_drops' = drops /\ t_pc = "save"
      BY <1>3, <2>3 DEF SaveCheckpoint
    <3>2. /\ VersionSamples \in Nat /\ StepSamplesTaken \in Nat /\ RequiredSamples \in Nat
          /\ ParamSyncSamples \in Nat /\ collected \in Nat /\ in_hand \in Nat /\ generating \in Nat
          /\ Len(pending) \in Nat /\ Len(queue) \in Nat
      BY SumTypes
    <3>3. Fed \in Int /\ Handed <= Fed + 1
      BY <1>a DEF Fed, Handed
    <3>4. position <= Skipped + Handed
      BY <1>a DEF Skipped
    <3>5. /\ PendingSize \in Nat /\ MaxRequiredSamples \in Nat /\ ParamSyncSamples <= MaxRequiredSamples
      BY FullyAsyncAssumption
    <3>6. Fed <= VersionSamples + dropped_samples + MaxRequiredSamples + 1 + PendingSize
      <4>1. CASE EndTaken
        <5>1. StepSamplesTaken + RequiredSamples <= ParamSyncSamples
          BY StepSamples DEF CountsOK, StepSamplesTaken
        <5> QED
          BY <1>a, <3>2, <3>3, <3>5, <4>1, <5>1 DEF ConserveInv
      <4>2. CASE ~EndTaken
        <5>1. TakenSinceReset = StepSamplesTaken + collected
          BY <3>1 DEF TakenSinceReset, StepSamplesTaken
        <5>2. QueueSamples \in Int /\ PendingSamples \in Int /\ PendingSamples <= PendingSize
          BY <3>2, <3>5 DEF QueueSamples, PendingSamples, CountsOK
        <5>3. in_hand + generating + QueueSamples + StepSamplesTaken + collected <= MaxRequiredSamples + 1
          BY <3>2, <4>2, <5>1, <5>2 DEF FlightInv
        <5> QED
          BY <1>a, <3>2, <3>3, <3>5, <4>2, <5>2, <5>3 DEF ConserveInv
      <4> QED
        BY <4>1, <4>2
    <3>7. position <= VersionSamples + crashes * MaxInFlight + MaxInFlight + drops
      BY <1>a, <3>2, <3>3, <3>4, <3>5, <3>6 DEF DataInv, MaxInFlight
    <3>8. (ckpt_position - last_ckpt_version * ParamSyncSamples)' = position - VersionSamples
      BY <3>1 DEF VersionSamples
    <3>9. ((crashes + 1) * MaxInFlight + ckpt_drops)' = crashes * MaxInFlight + MaxInFlight + drops
      BY <1>a, <2>1, <3>1
    <3>10. Skipped' = Skipped
      BY <2>1 DEF Skipped, Handed
    <3>11. position - VersionSamples <= crashes * MaxInFlight + MaxInFlight + drops
      BY <1>a, <3>2, <3>7
    <3> QED
      BY <2>1, <3>8, <3>9, <3>10, <3>11 DEF DataInv
  <2> QED
    BY <2>2, <2>3
<1>4. CASE Crash
  <2>1. /\ NextBatch(0, ckpt_position) /\ global_steps' = last_ckpt_version * ParamSyncSamples + 1
        /\ crashes' = crashes + 1 /\ drops' = ckpt_drops /\ dropped_samples' = 0
        /\ UNCHANGED <<last_ckpt_version, ckpt_position, ckpt_drops>>
    BY <1>4, Zenon DEF Crash, ckptVars
  <2> DEFINE v == last_ckpt_version * ParamSyncSamples
  <2>2. v \in Nat /\ global_steps' = v + 1
    BY <1>a, <2>1
  <2> HIDE DEF v
  <2>3. /\ epoch' = TotalEpochs => position' = 0
        /\ \/ epoch' = 0 /\ position' = ckpt_position + 1
           \/ epoch' = 1 /\ ckpt_position = EpochLength /\ epoch' # TotalEpochs /\ position' = 1
           \/ epoch' = 1 /\ ckpt_position = EpochLength /\ epoch' = TotalEpochs /\ position' = 0
    BY <1>a, <2>1 DEF NextBatch
  <2>4. Handed' = IF epoch' = TotalEpochs THEN v ELSE v + 1
    BY <2>2 DEF Handed
  <2>5. 0 * EpochLength = 0 /\ 1 * EpochLength = EpochLength
    BY <1>a
  <2>6. Skipped' = ckpt_position - v
    <3>1. CASE epoch' = 0 /\ position' = ckpt_position + 1
      <4>1. Skipped' = 0 + (ckpt_position + 1) - (v + 1)
        BY <1>a, <2>4, <2>5, <3>1 DEF Skipped
      <4> QED
        BY <1>a, <2>2, <4>1
    <3>2. CASE epoch' = 1 /\ ckpt_position = EpochLength
      <4>1. Skipped' = EpochLength + position' - Handed'
        BY <2>5, <3>2 DEF Skipped
      <4> QED
        BY <1>a, <2>2, <2>3, <2>4, <3>2, <4>1
    <3> QED
      BY <2>3, <3>1, <3>2
  <2>7. ckpt_position - v <= (crashes + 1) * MaxInFlight + ckpt_drops
    BY DEF DataInv, v
  <2>8. (crashes + 1 + 1) * MaxInFlight = (crashes + 1) * MaxInFlight + MaxInFlight
        /\ (crashes + 1) * MaxInFlight \in Nat
    BY <1>a
  <2>9. (Skipped + dropped_samples)' <= (crashes * MaxInFlight + drops)'
    BY <1>a, <2>1, <2>2, <2>6, <2>7, <2>8
  <2>10. ckpt_position - v <= (crashes + 1 + 1) * MaxInFlight + ckpt_drops
    BY <1>a, <2>2, <2>7, <2>8
  <2> QED
    BY <2>1, <2>3, <2>9, <2>10 DEF DataInv, v
<1>5. CASE ~(Feed \/ GenerateAndPut \/ SendEndSignal \/ SaveCheckpoint \/ Crash)
  <2>1. UNCHANGED <<global_steps, epoch, position, ckptVars, drops, dropped_samples, crashes>>
    BY <1>5, DataStays, Zenon DEF Next, Processor
  <2> QED
    BY <2>1, DataSame
<1> QED
  BY <1>1, <1>2, <1>3, <1>4, <1>5

\* A restart skips no more samples than were in flight at the checkpoint.
THEOREM SkipInvariant == Spec => []SkipInv
<1>1. Init => SkipInv
  <2> SUFFICES ASSUME Init PROVE DataInv
    BY DEF SkipInv
  <2>1. /\ EpochLength \in Nat \ {0} /\ TotalEpochs \in Nat \ {0} /\ ParamSyncSamples \in Nat
        /\ MaxInFlight \in Nat
    BY FullyAsyncAssumption, StepSamples DEF MaxInFlight
  <2>2. Handed = 1 /\ Skipped = 0 * EpochLength + 1 - 1
    BY <2>1 DEF Init, Handed, Skipped
  <2>3. Skipped = 0 /\ 0 * ParamSyncSamples = 0 /\ 0 * MaxInFlight = 0 /\ (0 + 1) * MaxInFlight = MaxInFlight
    BY <2>1, <2>2
  <2> QED
    BY <2>1, <2>3 DEF Init, DataInv
<1>2. IInv /\ EndInv /\ SamplesInv /\ InFlightInv /\ SkipInv /\ [Next]_vars => SkipInv'
  <2> SUFFICES ASSUME IInv, EndInv, SamplesInv, InFlightInv, SkipInv, [Next]_vars, failures' = 0
               PROVE  DataInv'
    BY DEF SkipInv
  <2>1. CASE Next
    BY <2>1, FailuresStay, SkipStep DEF IInv, EndInv, SamplesInv, InFlightInv, SkipInv
  <2>2. CASE UNCHANGED vars
    <3>1. UNCHANGED <<global_steps, epoch, position, ckptVars, drops, dropped_samples, crashes, failures>>
      BY <2>2, Zenon DEF vars, feedVars, mqVars, trainVars, boundVars
    <3> QED
      BY <3>1, DataSame DEF SkipInv
  <2> QED
    BY <2>1, <2>2
<1> QED
  BY <1>1, <1>2, InductiveInvariant, EndInvariant, SamplesInvariant, InFlightInvariant, PTL DEF Spec

\* The quotient of the samples of whole versions.
LEMMA WholeVersions ==
    ASSUME NEW v \in Nat, NEW p \in Nat, p > 0, NEW n \in Int, v * p <= n, n < v * p + p
    PROVE  v = n \div p
<1> DEFINE k == n \div p
<1>1. k \in Int /\ p * k <= n /\ n < p * k + p
  OBVIOUS
<1> QED
  OBVIOUS

\* For every batch size and trigger step, every length of the dataset and
\* every size of the queues: a run that ends without a failed generation has
\* trained as many versions as the samples fed are worth, and load_checkpoint,
\* however often it restarts the run, makes the samples fed no fewer than
\* total_rollout_steps by more than what was in flight at each checkpoint, and
\* no more by more than one sample.
THEOREM EveryFedSampleTrained == Spec => []FedSamplesTrained
<1>1. IInv /\ EndInv /\ SamplesInv /\ SkipInv => FedSamplesTrained
  <2> SUFFICES ASSUME IInv, EndInv, SamplesInv, SkipInv, t_pc = "stopped", failures = 0
               PROVE  /\ current_param_version = (Fed - dropped_samples) \div ParamSyncSamples
                      /\ TotalRolloutSteps - (crashes * MaxInFlight + drops) <= Fed
                      /\ Fed <= TotalRolloutSteps + crashes
    BY DEF FedSamplesTrained
  <2>1. EndSent /\ EndTaken
    BY DEF IInv, ControlInv, EndInv, StopInv, EndSent, EndTaken
  <2>2. feed_pc = "done"
    BY <2>1 DEF EndInv, FeedInv, Streaming, EndSent
  <2>3. /\ VersionSamples \in Nat /\ StepSamplesTaken \in Nat /\ RequiredSamples \in Nat
        /\ ParamSyncSamples \in Nat
        /\ global_steps \in Nat /\ dropped_samples \in Nat /\ TotalRolloutSteps \in Nat
    BY SumTypes DEF IInv
  <2>4. /\ EpochLength \in Nat \ {0} /\ TotalEpochs \in Nat \ {0} /\ Skipped \in Int
        /\ crashes \in Nat /\ crashes * MaxInFlight \in Nat /\ drops \in Nat
    BY DataTypes DEF IInv
  <2>5. StepSamplesTaken + RequiredSamples <= ParamSyncSamples /\ ParamSyncSamples > 0
    BY <2>3, StepSamples, FullyAsyncAssumption DEF IInv, CountsOK, StepSamplesTaken
  <2>6. Fed \in Int /\ Fed <= global_steps
    BY <2>3 DEF Fed
  <2>7. Fed <= TotalRolloutSteps + crashes
    BY <2>3, <2>4, <2>6 DEF SamplesInv, FedInv
  <2>8. /\ VersionSamples <= Fed - dropped_samples
        /\ Fed - dropped_samples < VersionSamples + ParamSyncSamples
    BY <2>1, <2>3, <2>5, <2>6 DEF SamplesInv, ConserveInv
  <2>9. current_param_version = (Fed - dropped_samples) \div ParamSyncSamples
    BY <2>3, <2>5, <2>6, <2>8, WholeVersions DEF VersionSamples, IInv, CountsOK
  <2>10. CASE epoch = TotalEpochs
    <3>1. Fed = global_steps - 1 /\ Handed = global_steps - 1 /\ position = 0
      BY <2>10 DEF Fed, Handed, SkipInv, DataInv
    <3>2. Skipped = TotalEpochs * EpochLength + 0 - Fed
      BY <2>10, <3>1 DEF Skipped
    <3>3. TotalRolloutSteps <= TotalEpochs * EpochLength /\ TotalEpochs * EpochLength \in Nat
      BY <2>4, FullyAsyncAssumption
    <3>4. TotalRolloutSteps - Skipped <= Fed
      BY <2>3, <2>4, <2>6, <3>2, <3>3
    <3>5. Skipped <= crashes * MaxInFlight + drops
      BY <2>3, <2>4 DEF SkipInv, DataInv
    <3> QED
      BY <2>3, <2>4, <2>6, <2>7, <2>9, <3>4, <3>5
  <2>11. CASE epoch # TotalEpochs
    <3>1. Fed = global_steps /\ global_steps >= TotalRolloutSteps
      BY <2>2, <2>11 DEF Fed, SamplesInv, FedInv
    <3> QED
      BY <2>3, <2>4, <2>7, <2>9, <3>1
  <2> QED
    BY <2>10, <2>11
<1> QED
  BY <1>1, InductiveInvariant, EndInvariant, SamplesInvariant, SkipInvariant, PTL
=============================================================================
