------------------------ MODULE FullyAsyncEndProofs ------------------------
(***************************************************************************)
(* How a run of FullyAsync ends, for every size of batch, of queue and of  *)
(* task set and any number of restarts: nothing is behind the end signal,  *)
(* and every sample that was fed is trained on or was dropped.             *)
(***************************************************************************)
EXTENDS FullyAsyncProofs

-----------------------------------------------------------------------------
(* The end of a run without a failed generation.                            *)

\* A queue of samples, and one that the end signal closes.
AllSamples(q) == \A i \in 1 .. Len(q) : q[i] = "sample"

EndsWith(q) ==
    /\ Len(q) > 0 /\ q[Len(q)] = "end"
    /\ \A i \in 1 .. Len(q) - 1 : q[i] = "sample"

\* The trainer has taken the end signal.
EndTaken == t_pc = "final" \/ stopping

\* The processor has sent the end signal.
EndSent == pc \in {"sent", "stopped"}

\* The tail of fit runs after the last training step.
StopInv ==
    /\ stopping => t_pc \in {"abort", "sync", "reset", "count", "assign", "save", "stopped"}
    /\ t_pc = "stopped" => stopping

\* The pending queue is closed by its end, which is the last entry taken.
FeedInv ==
    /\ failed = 0 /\ pc # "raised"
    /\ feed_pc # "done" => Streaming /\ AllSamples(pending)
    /\ feed_pc = "done" => IF Streaming THEN EndsWith(pending) ELSE pending = <<>>

\* The processor waits for its tasks before the end is sent, so the message
\* queue too is closed by its end.
SentInv ==
    /\ pc = "exited" \/ EndSent => generating = 0 /\ putting = 0 /\ done = 0
    /\ EndSent => IF EndTaken THEN queue = <<>> ELSE EndsWith(queue)

EndInv == StopInv /\ (failures = 0 => FeedInv /\ SentInv)

\* What happens to the two queues.
LEMMA QueueEnds ==
    ASSUME NEW q \in Seq({"sample", "end"})
    PROVE  /\ AllSamples(q) => AllSamples(Append(q, "sample")) /\ EndsWith(Append(q, "end"))
           /\ q # <<>> /\ AllSamples(q) => Head(q) # "end" /\ AllSamples(Tail(q))
           /\ EndsWith(q) => q # <<>>
           /\ EndsWith(q) /\ Head(q) = "end" => Tail(q) = <<>> /\ Len(q) = 1
           /\ EndsWith(q) /\ Head(q) # "end" => EndsWith(Tail(q))
<1>1. Len(q) \in Nat
  OBVIOUS
<1>2. ASSUME AllSamples(q)
      PROVE  AllSamples(Append(q, "sample")) /\ EndsWith(Append(q, "end"))
  BY <1>2 DEF AllSamples, EndsWith
<1>3. ASSUME q # <<>>
      PROVE  /\ Len(q) > 0 /\ Head(q) = q[1] /\ Tail(q) \in Seq({"sample", "end"})
             /\ Len(Tail(q)) = Len(q) - 1 /\ \A i \in 1 .. Len(q) - 1 : Tail(q)[i] = q[i + 1]
  BY <1>3
<1>4. ASSUME q # <<>>, AllSamples(q)
      PROVE  Head(q) # "end" /\ AllSamples(Tail(q))
  BY <1>1, <1>3, <1>4 DEF AllSamples
<1>5. EndsWith(q) => q # <<>>
  BY DEF EndsWith
<1>6. ASSUME EndsWith(q), Head(q) = "end"
      PROVE  Tail(q) = <<>> /\ Len(q) = 1
  <2>1. q # <<>> /\ (Len(q) > 1 => q[1] = "sample")
    BY <1>1, <1>5, <1>6 DEF EndsWith
  <2>2. Len(q) = 1
    <3>1. q[1] = "end" /\ Len(q) > 0
      BY <1>3, <1>6, <2>1
    <3>2. q[1] # "sample"
      BY <3>1
    <3> DEFINE n == Len(q)
    <3>3. n \in Nat /\ n > 0 /\ ~(n > 1)
      BY <1>1, <2>1, <3>1, <3>2, Zenon
    <3> HIDE DEF n
    <3>4. n = 1
      BY <3>3
    <3> QED
      BY <3>4 DEF n
  <2>3. \A t \in Seq({"sample", "end"}) : Len(t) = 0 => t = <<>>
    OBVIOUS
  <2> QED
    BY <1>3, <2>1, <2>2, <2>3
<1>7. ASSUME EndsWith(q), Head(q) # "end"
      PROVE  EndsWith(Tail(q))
  <2>1. Len(q) > 1
    BY <1>1, <1>3, <1>5, <1>7 DEF EndsWith
  <2> QED
    BY <1>1, <1>3, <1>5, <1>7, <2>1 DEF EndsWith
<1> QED
  BY <1>2, <1>4, <1>5, <1>6, <1>7

\* put_sample into a queue of samples.
LEMMA PutEnds ==
    ASSUME CountsOK, NEW s \in {"sample", "end"}, PutSample(s), AllSamples(queue)
    PROVE  IF s = "sample" THEN AllSamples(queue') ELSE EndsWith(queue')
<1>1. queue \in Seq({"sample", "end"}) /\ MaxQueueSize \in Nat \ {0}
  BY FullyAsyncAssumption DEF CountsOK, MaxQueueSize
<1>2. CASE Len(queue) >= MaxQueueSize
  <2>1. queue # <<>>
    BY <1>1, <1>2
  <2>2. Tail(queue) \in Seq({"sample", "end"}) /\ AllSamples(Tail(queue))
    BY <1>1, <2>1, QueueEnds
  <2>3. queue' = Append(Tail(queue), s)
    BY <1>2 DEF PutSample
  <2> QED
    BY <2>2, <2>3, QueueEnds
<1>3. CASE ~(Len(queue) >= MaxQueueSize)
  <2>1. queue' = Append(queue, s)
    BY <1>3 DEF PutSample
  <2> QED
    BY <1>1, <2>1, QueueEnds
<1> QED
  BY <1>2, <1>3

LEMMA StopStep ==
    ASSUME CountsOK, StopInv, Next
    PROVE  StopInv'
<1> USE DEF StopInv, feedVars, procVars, taskVars, pauseVars, monVars, mqVars, trainVars, countVars, ckptVars, boundVars
<1>1. CASE Trainer
  <2>1. CASE GetSample \/ TrainStep
    BY <1>1, <2>1 DEF GetSample, TrainStep
  <2>2. CASE SaveCheckpoint \/ StopTraining
    <3>1. \/ t_pc' = (IF stopping THEN "stopped" ELSE "collect") /\ stopping' = stopping
          \/ t_pc' \in {"abort", "save"} /\ stopping' = TRUE
      BY <2>2 DEF SaveCheckpoint, StopTraining
    <3> QED
      BY <3>1
  <2>3. CASE AbortReplicas \/ ResumeReplicas \/ ResetStaleness \/ GetQueueSize \/ AssignStaleness
    <3>1. t_pc' \in {"sync", "reset", "count", "assign", "save"}
      BY <2>3, Zenon DEF AbortReplicas, ResumeReplicas, ResetStaleness, GetQueueSize, AssignStaleness
    <3> QED
      BY <3>1
  <2> QED
    BY <1>1, <2>1, <2>2, <2>3 DEF Trainer
<1>2. CASE Crash
  BY <1>2 DEF Crash
<1>3. CASE Feed \/ FeedEnd \/ Processor \/ Monitor \/ GenerateAndPut \/ GenerationFails \/ TaskDone
  <2>1. t_pc' = t_pc /\ stopping' = stopping
    BY <1>3, Zenon DEF Feed, FeedEnd, Processor, CheckPaused, DecidePause, Pause, Drain, Resume, GetPending,
         WaitForTask, TakeFinished, SlotFree, Submit, AllFinished, SendEndSignal, StopRollouter,
         Monitor, MonitorWakes, MonitorDecides, MonitorResumes, MonitorStops,
         GenerateAndPut, GenerationFails, TaskDone
  <2> QED
    BY <2>1
<1> QED
  BY <1>1, <1>2, <1>3 DEF Next

\* The steps that leave the processor's and the feeder's control alone.
LEMMA TrainerKeeps ==
    ASSUME Trainer \/ Monitor
    PROVE  /\ UNCHANGED <<feed_pc, global_steps, pending, epoch, pc, in_hand, generating, putting,
                          done, failed, failures, crashes>>
           /\ ~GetSample => UNCHANGED <<queue, dropped_samples>>
           /\ dropped_samples' = dropped_samples
<1> USE DEF feedVars, procVars, taskVars, pauseVars, monVars, mqVars, trainVars, countVars, ckptVars, boundVars
<1>1. CASE Monitor
  BY <1>1, Zenon DEF Monitor, MonitorWakes, MonitorDecides, MonitorResumes, MonitorStops
<1>2. CASE Trainer
  BY <1>2, Zenon DEF Trainer, GetSample, TrainStep, AbortReplicas, ResumeReplicas, ResetStaleness,
              GetQueueSize, AssignStaleness, SaveCheckpoint, StopTraining
<1> QED
  BY <1>1, <1>2

LEMMA FeedStep ==
    ASSUME CountsOK, FeedInv, Next, failures' = 0
    PROVE  FeedInv'
<1> USE DEF feedVars, procVars, taskVars, pauseVars, monVars, mqVars, trainVars, countVars, ckptVars, boundVars
<1>a. pending \in Seq({"sample", "end"}) /\ failures \in Nat /\ done \in Nat
  BY DEF CountsOK
<1>1. CASE Feed
  <2>1. /\ feed_pc = "feed" /\ feed_pc' \in {"feed", "end"} /\ pending' = Append(pending, "sample")
        /\ UNCHANGED <<pc, failed>>
    BY <1>1 DEF Feed, NextBatch
  <2> QED
    BY <1>a, <2>1, QueueEnds DEF FeedInv, Streaming
<1>2. CASE FeedEnd
  <2>1. /\ feed_pc = "end" /\ feed_pc' = "done" /\ pending' = Append(pending, "end")
        /\ UNCHANGED <<pc, failed>>
    BY <1>2 DEF FeedEnd
  <2> QED
    BY <1>a, <2>1, QueueEnds DEF FeedInv, Streaming
<1>3. CASE GetPending
  <2>1. /\ pc = "get" /\ pending # <<>> /\ pending' = Tail(pending)
        /\ pc' = IF Head(pending) = "end" THEN "ending" ELSE "limit"
        /\ UNCHANGED <<feed_pc, failed>>
    BY <1>3 DEF GetPending
  <2> QED
    BY <1>a, <2>1, QueueEnds DEF FeedInv, Streaming
<1>4. CASE Drain \/ TakeFinished
  <2>0. failed = 0
    BY DEF FeedInv
  <2>1. /\ UNCHANGED <<feed_pc, pending>> /\ failed' = 0
        /\ \/ pc' = pc
           \/ pc = "drain" /\ pc' \in {"top", "drain"}
    BY <1>4, <2>0 DEF Drain, TakeFinished
  <2> QED
    BY <2>1 DEF FeedInv, Streaming
<1>5. CASE CheckPaused \/ DecidePause \/ Pause \/ Resume \/ SlotFree \/ Submit
  <2>1. UNCHANGED <<feed_pc, pending, failed>> /\ Streaming /\ Streaming'
    BY <1>5 DEF CheckPaused, DecidePause, Pause, Resume, SlotFree, Submit, Streaming
  <2> QED
    BY <2>1 DEF FeedInv, Streaming
<1>6. CASE AllFinished \/ SendEndSignal \/ StopRollouter
  <2>1. /\ UNCHANGED <<pending, failed>> /\ ~Streaming /\ ~Streaming' /\ pc' # "raised"
        /\ feed_pc' \in {feed_pc, "done"}
    BY <1>6 DEF AllFinished, SendEndSignal, StopRollouter, Streaming
  <2> QED
    BY <2>1 DEF FeedInv
<1>7. CASE WaitForTask \/ GenerateAndPut \/ TaskDone \/ Trainer \/ Monitor
  <2>1. UNCHANGED <<feed_pc, pending, failed, pc>>
    <3>1. CASE WaitForTask \/ GenerateAndPut \/ TaskDone
      BY <3>1, Zenon DEF WaitForTask, GenerateAndPut, TaskDone
    <3>2. CASE Trainer \/ Monitor
      BY <3>2, TrainerKeeps
    <3> QED
      BY <1>7, <3>1, <3>2
  <2> QED
    BY <2>1 DEF FeedInv, Streaming
<1>8. CASE GenerationFails
  BY <1>a, <1>8 DEF GenerationFails
<1>9. CASE Crash
  <2>1. feed_pc' \in {"feed", "end"} /\ pending' = <<>> /\ pc' = "top" /\ failed' = 0
    BY <1>9 DEF Crash, NextBatch
  <2> QED
    BY <2>1 DEF FeedInv, Streaming, AllSamples
<1> QED
  BY <1>1, <1>2, <1>3, <1>4, <1>5, <1>6, <1>7, <1>8, <1>9 DEF Next, Processor

\* Only get_sample takes the end signal.
LEMMA EndTakenStays ==
    ASSUME StopInv, Trainer, ~GetSample
    PROVE  EndTaken' <=> EndTaken
<1> USE DEF trainVars
<1>1. CASE StopTraining
  BY <1>1 DEF StopTraining, EndTaken
<1>2. CASE SaveCheckpoint
  BY <1>2 DEF SaveCheckpoint, EndTaken
<1>3. CASE TrainStep
  BY <1>3 DEF TrainStep, StopInv, EndTaken
<1>4. CASE AbortReplicas \/ ResumeReplicas \/ ResetStaleness \/ GetQueueSize \/ AssignStaleness
  <2>1. t_pc # "final" /\ t_pc' # "final"
    BY <1>4 DEF AbortReplicas, ResumeReplicas, ResetStaleness, GetQueueSize, AssignStaleness
  <2>2. stopping' = stopping
    BY <1>4, Zenon DEF AbortReplicas, ResumeReplicas, ResetStaleness, GetQueueSize,
                       AssignStaleness
  <2> QED
    BY <2>1, <2>2 DEF EndTaken
<1> QED
  BY <1>1, <1>2, <1>3, <1>4 DEF Trainer

LEMMA SentStep ==
    ASSUME CountsOK, ControlInv, StopInv, FeedInv, SentInv, Next, failures' = 0
    PROVE  SentInv'
<1> USE DEF feedVars, procVars, taskVars, pauseVars, monVars, mqVars, trainVars, countVars, ckptVars, boundVars
<1>a. /\ queue \in Seq({"sample", "end"}) /\ failures \in Nat
      /\ generating \in Nat /\ putting \in Nat /\ done \in Nat /\ failed \in Nat
  BY DEF CountsOK
<1>b. ~EndSent => ~EndTaken /\ AllSamples(queue)
  BY DEF ControlInv, EndSent, EndTaken, AllSamples
<1>1. CASE SendEndSignal
  <2>1. /\ pc = "exited" /\ EndSent' /\ PutSample("end")
        /\ UNCHANGED <<generating, putting, done, t_pc, stopping>>
    BY <1>1 DEF SendEndSignal, FeedInv, EndSent
  <2>2. EndsWith(queue')
    BY <1>b, <2>1, PutEnds DEF EndSent
  <2> QED
    BY <1>b, <2>1, <2>2 DEF SentInv, EndSent, EndTaken
<1>2. CASE GenerateAndPut \/ TaskDone
  <2>1. pc # "exited" /\ ~EndSent /\ pc' = pc
    BY <1>a, <1>2 DEF SentInv, GenerateAndPut, TaskDone
  <2> QED
    BY <2>1 DEF SentInv, EndSent
<1>3. CASE AllFinished
  <2>1. generating' = 0 /\ putting' = 0 /\ done' = 0 /\ pc' = "exited"
    BY <1>a, <1>3 DEF AllFinished, ActiveTasks
  <2> QED
    BY <2>1 DEF SentInv, EndSent
<1>4. CASE StopRollouter
  <2>1. pc = "sent" /\ UNCHANGED <<generating, putting, done, queue, t_pc, stopping>>
    BY <1>4 DEF StopRollouter
  <2> QED
    BY <2>1 DEF SentInv, EndSent, EndTaken
<1>5. CASE \/ CheckPaused \/ DecidePause \/ Pause \/ Drain \/ Resume \/ GetPending
           \/ SlotFree \/ Submit
  <2>1. pc' # "exited" /\ ~EndSent'
    BY <1>5 DEF CheckPaused, DecidePause, Pause, Drain, Resume, GetPending, SlotFree, Submit,
                EndSent
  <2> QED
    BY <2>1 DEF SentInv
<1>6. CASE WaitForTask \/ TakeFinished \/ Feed \/ FeedEnd \/ Monitor
  <2>1. /\ UNCHANGED <<pc, generating, putting, queue, t_pc, stopping>>
        /\ done' = done \/ done' = 0
    <3>1. CASE WaitForTask \/ Feed \/ FeedEnd
      BY <3>1, Zenon DEF WaitForTask, Feed, FeedEnd
    <3>2. CASE TakeFinished
      BY <3>2 DEF TakeFinished, FeedInv
    <3>3. CASE Monitor
      BY <3>3, Zenon DEF Monitor, MonitorWakes, MonitorDecides, MonitorResumes, MonitorStops
    <3> QED
      BY <1>6, <3>1, <3>2, <3>3
  <2> QED
    BY <2>1 DEF SentInv, EndSent, EndTaken
<1>7. CASE GetSample
  <2>1. /\ t_pc = "collect" /\ queue # <<>> /\ queue' = Tail(queue) /\ ~stopping /\ ~stopping'
        /\ t_pc' = IF Head(queue) = "end" THEN "final"
                   ELSE IF collected + 1 = RequiredSamples THEN "train" ELSE "collect"
        /\ UNCHANGED <<pc, generating, putting, done>>
    BY <1>7 DEF GetSample, StopInv
  <2>2. EndSent => EndsWith(queue)
    BY <2>1 DEF SentInv, EndTaken
  <2>3. EndSent => IF EndTaken' THEN queue' = <<>> ELSE EndsWith(queue')
    BY <1>a, <2>1, <2>2, QueueEnds DEF EndTaken
  <2> QED
    BY <2>1, <2>3 DEF SentInv, EndSent
<1>8. CASE Trainer /\ ~GetSample
  <2>1. UNCHANGED <<pc, generating, putting, done, queue>>
    BY <1>8, TrainerKeeps
  <2>2. EndTaken' <=> EndTaken
    BY <1>8, EndTakenStays
  <2> QED
    BY <2>1, <2>2 DEF SentInv, EndSent
<1>9. CASE GenerationFails
  BY <1>a, <1>9 DEF GenerationFails
<1>10. CASE Crash
  BY <1>10 DEF Crash, SentInv, EndSent
<1> QED
  BY <1>1, <1>2, <1>3, <1>4, <1>5, <1>6, <1>7, <1>8, <1>9, <1>10 DEF Next, Processor

-----------------------------------------------------------------------------
(* No sample is lost in a run without a failed generation.                  *)

\* The samples in the two queues, their ends not counted.
PendingSamples == IF feed_pc = "done" /\ Streaming THEN Len(pending) - 1 ELSE Len(pending)
QueueSamples == IF EndSent THEN Len(queue) - 1 ELSE Len(queue)

VersionSamples == current_param_version * ParamSyncSamples
StepSamplesTaken == (local_trigger_step - 1) * RequiredSamples

\* Every sample fed is trained on, on its way, or dropped; the end signal
\* makes the trainer give up less than a training step's samples.
ConserveInv ==
    IF EndTaken
    THEN /\ VersionSamples + StepSamplesTaken + dropped_samples <= Fed
         /\ Fed < VersionSamples + StepSamplesTaken + RequiredSamples + dropped_samples
    ELSE VersionSamples + StepSamplesTaken + collected + in_hand + generating
            + QueueSamples + PendingSamples + dropped_samples = Fed

\* The feeder stops at TotalRolloutSteps or when the dataloader is exhausted;
\* a run restarted from the checkpoint of its last version is fed one sample
\* more.
FedInv ==
    /\ feed_pc # "feed" => epoch = TotalEpochs \/ global_steps >= TotalRolloutSteps
    /\ last_ckpt_version <= current_param_version
    /\ global_steps <= TotalRolloutSteps + crashes

SamplesInv == failures = 0 => ConserveInv /\ FedInv

\* The terms of the sum are numbers.
LEMMA SumTypes ==
    ASSUME CountsOK
    PROVE  /\ VersionSamples \in Nat /\ StepSamplesTaken \in Nat /\ RequiredSamples \in Nat
           /\ ParamSyncSamples \in Nat
           /\ global_steps \in Nat /\ dropped_samples \in Nat /\ collected \in Nat
           /\ in_hand \in Nat /\ generating \in Nat /\ TotalRolloutSteps \in Nat
           /\ pending \in Seq({"sample", "end"}) /\ queue \in Seq({"sample", "end"})
           /\ Len(pending) \in Nat /\ Len(queue) \in Nat
<1>1. current_param_version \in Nat /\ ParamSyncSamples \in Nat
  BY StepSamples DEF CountsOK
<1>2. VersionSamples \in Nat
  BY <1>1 DEF VersionSamples
<1>3. StepSamplesTaken \in Nat /\ RequiredSamples \in Nat
  BY StepSamples DEF CountsOK, StepSamplesTaken
<1> QED
  BY <1>1, <1>2, <1>3, FullyAsyncAssumption DEF CountsOK

\* A step that moves no sample.
LEMMA NothingMoves ==
    ASSUME ConserveInv, FedInv,
           UNCHANGED <<feed_pc, global_steps, pending, epoch, in_hand, generating, queue,
                       dropped_samples, collected, local_trigger_step, current_param_version,
                       crashes>>,
           Streaming' <=> Streaming, EndSent' <=> EndSent, EndTaken' <=> EndTaken,
           last_ckpt_version' \in {last_ckpt_version, current_param_version},
           current_param_version \in Nat
    PROVE  ConserveInv' /\ FedInv'
<1>1. /\ Fed' = Fed /\ PendingSamples' = PendingSamples
      /\ VersionSamples' = VersionSamples /\ StepSamplesTaken' = StepSamplesTaken
  BY DEF Fed, PendingSamples, VersionSamples, StepSamplesTaken
<1>2. QueueSamples' = QueueSamples
  BY DEF QueueSamples
<1>3. ConserveInv'
  BY <1>1, <1>2, Zenon DEF ConserveInv
<1>4. FedInv'
  BY <1>1 DEF FedInv
<1> QED
  BY <1>3, <1>4

LEMMA SamplesStep ==
    ASSUME DataOK, EpochInv, CountsOK, ControlInv, TrainerInv, StopInv, FeedInv, SentInv, ConserveInv,
           FedInv, Next, failures' = 0
    PROVE  ConserveInv' /\ FedInv'
<1> USE DEF feedVars, procVars, taskVars, pauseVars, monVars, mqVars, trainVars, countVars, ckptVars, boundVars
<1>a. /\ VersionSamples \in Nat /\ StepSamplesTaken \in Nat /\ RequiredSamples \in Nat
      /\ ParamSyncSamples \in Nat
      /\ global_steps \in Nat /\ dropped_samples \in Nat /\ collected \in Nat
      /\ in_hand \in Nat /\ generating \in Nat /\ TotalRolloutSteps \in Nat /\ crashes \in Nat
  BY SumTypes DEF CountsOK
<1>b. /\ pending \in Seq({"sample", "end"}) /\ queue \in Seq({"sample", "end"})
      /\ Len(pending) \in Nat /\ Len(queue) \in Nat
  BY SumTypes
<1>c. /\ TotalEpochs \in Nat \ {0} /\ epoch \in Nat
  BY FullyAsyncAssumption DEF DataOK
<1>e. failures \in Nat /\ current_param_version \in Nat
  BY DEF CountsOK
<1>d. ~EndSent => ~EndTaken
  BY DEF ControlInv, EndSent, EndTaken
<1>1. CASE Feed
  <2>1. /\ feed_pc = "feed" /\ feed_pc' \in {"feed", "end"} /\ epoch < TotalEpochs
        /\ Len(pending') = Len(pending) + 1
        /\ IF global_steps >= TotalRolloutSteps
           THEN feed_pc' = "end" /\ global_steps' = global_steps /\ epoch' = epoch
           ELSE /\ global_steps' = global_steps + 1
                /\ feed_pc' = IF epoch' = TotalEpochs THEN "end" ELSE "feed"
    BY <1>1, <1>b, <1>c DEF Feed, NextBatch, DataOK, EpochInv
  <2>2. /\ UNCHANGED <<in_hand, generating, queue, dropped_samples, collected, local_trigger_step,
                       current_param_version, last_ckpt_version, pc, t_pc, stopping, crashes>>
    BY <1>1, Zenon DEF Feed
  <2>3. Fed' = Fed + 1
    BY <1>a, <1>c, <2>1 DEF Fed
  <2>4. PendingSamples' = PendingSamples + 1 /\ PendingSamples \in Nat
    BY <1>b, <2>1 DEF PendingSamples
  <2>5. VersionSamples' = VersionSamples /\ StepSamplesTaken' = StepSamplesTaken
        /\ QueueSamples' = QueueSamples
    BY <2>2 DEF VersionSamples, StepSamplesTaken, QueueSamples, EndSent
  <2>6. ~EndTaken /\ ~EndTaken'
    BY <1>d, <2>1, <2>2 DEF FeedInv, Streaming, EndSent, EndTaken
  <2>7. QueueSamples \in Int /\ Fed \in Int
    BY <1>a, <1>b DEF QueueSamples, Fed
  <2>8. ConserveInv'
    BY <1>a, <2>2, <2>3, <2>4, <2>5, <2>6, <2>7 DEF ConserveInv
  <2>9. FedInv'
    BY <1>a, <2>1, <2>2, <2>5 DEF FedInv
  <2> QED
    BY <2>8, <2>9
<1>2. CASE FeedEnd
  <2>1. /\ feed_pc = "end" /\ feed_pc' = "done" /\ Len(pending') = Len(pending) + 1
        /\ global_steps' = global_steps /\ epoch' = epoch /\ crashes' = crashes
    BY <1>2, <1>b DEF FeedEnd
  <2>2. /\ UNCHANGED <<in_hand, generating, queue, dropped_samples, collected, local_trigger_step,
                       current_param_version, last_ckpt_version, pc, t_pc, stopping>>
    BY <1>2, Zenon DEF FeedEnd
  <2>3. Streaming /\ Streaming' /\ ~EndTaken /\ ~EndTaken'
    BY <1>d, <2>1, <2>2 DEF FeedInv, Streaming, EndSent, EndTaken
  <2>4. Fed' = Fed /\ PendingSamples' = PendingSamples
    BY <1>b, <2>1, <2>3 DEF Fed, PendingSamples
  <2>5. VersionSamples' = VersionSamples /\ StepSamplesTaken' = StepSamplesTaken
        /\ QueueSamples' = QueueSamples
    BY <2>2 DEF VersionSamples, StepSamplesTaken, QueueSamples, EndSent
  <2>6. ConserveInv'
    BY <2>2, <2>3, <2>4, <2>5 DEF ConserveInv
  <2>7. FedInv'
    BY <2>1, <2>2, <2>5 DEF FedInv
  <2> QED
    BY <2>6, <2>7
<1>3. CASE GetPending
  <2>1. /\ pc = "get" /\ pending # <<>> /\ pending' = Tail(pending)
        /\ IF Head(pending) = "end" THEN pc' = "ending" /\ in_hand' = in_hand
           ELSE pc' = "limit" /\ in_hand' = 1
    BY <1>3 DEF GetPending
  <2>2. /\ UNCHANGED <<feed_pc, global_steps, epoch, crashes, generating, queue, dropped_samples, collected,
                       local_trigger_step, current_param_version, last_ckpt_version, t_pc, stopping>>
    BY <1>3, Zenon DEF GetPending
  <2>3. ~EndSent /\ ~EndSent' /\ ~EndTaken /\ ~EndTaken' /\ Streaming /\ in_hand = 0
    BY <1>d, <2>1, <2>2 DEF EndSent, EndTaken, Streaming, ControlInv
  <2>4. PendingSamples = PendingSamples' + in_hand' /\ in_hand' \in Nat /\ PendingSamples' \in Int
    <3>1. Len(pending') = Len(pending) - 1
      BY <1>b, <2>1
    <3>2. CASE Head(pending) = "end"
      <4>1. feed_pc = "done" /\ Len(pending) = 1
        BY <1>b, <2>1, <2>3, <3>2, QueueEnds DEF FeedInv
      <4>2. in_hand' = 0 /\ ~Streaming'
        BY <2>1, <2>3, <3>2 DEF Streaming
      <4> QED
        BY <2>2, <2>3, <3>1, <4>1, <4>2 DEF PendingSamples
    <3>3. CASE Head(pending) # "end"
      <4>1. in_hand' = 1 /\ Streaming'
        BY <2>1, <3>3 DEF Streaming
      <4> QED
        BY <1>b, <2>2, <2>3, <3>1, <4>1 DEF PendingSamples
    <3> QED
      BY <3>2, <3>3
  <2>5. /\ VersionSamples' = VersionSamples /\ StepSamplesTaken' = StepSamplesTaken
        /\ QueueSamples' = QueueSamples /\ Fed' = Fed /\ QueueSamples \in Int
    BY <1>b, <2>2, <2>3 DEF VersionSamples, StepSamplesTaken, QueueSamples, Fed
  <2>6. ConserveInv'
    BY <1>a, <2>2, <2>3, <2>4, <2>5 DEF ConserveInv
  <2>7. FedInv'
    BY <2>2, <2>5 DEF FedInv
  <2> QED
    BY <2>6, <2>7
<1>4. CASE Submit
  <2>1. /\ pc = "submit" /\ pc' = "top" /\ generating' = generating + 1 /\ in_hand' = 0
    BY <1>4 DEF Submit
  <2>2. /\ UNCHANGED <<feed_pc, global_steps, pending, epoch, crashes, queue, dropped_samples, collected,
                       local_trigger_step, current_param_version, last_ckpt_version, t_pc, stopping>>
    BY <1>4, Zenon DEF Submit
  <2>3. ~EndSent /\ ~EndSent' /\ ~EndTaken /\ ~EndTaken' /\ Streaming /\ Streaming' /\ in_hand = 1
    BY <1>d, <2>1, <2>2 DEF EndSent, EndTaken, Streaming, ControlInv
  <2>4. /\ VersionSamples' = VersionSamples /\ StepSamplesTaken' = StepSamplesTaken
        /\ QueueSamples' = QueueSamples /\ Fed' = Fed /\ PendingSamples' = PendingSamples
        /\ QueueSamples \in Int /\ PendingSamples \in Int
    BY <1>b, <2>2, <2>3 DEF VersionSamples, StepSamplesTaken, QueueSamples, Fed, PendingSamples
  <2>5. ConserveInv'
    BY <1>a, <2>1, <2>2, <2>3, <2>4 DEF ConserveInv
  <2>6. FedInv'
    BY <2>2, <2>4 DEF FedInv
  <2> QED
    BY <2>5, <2>6
<1>5. CASE GenerateAndPut \/ SendEndSignal
  <2>1. /\ ~EndSent
        /\ \/ EndSent' /\ generating' = generating /\ PutSample("end")
           \/ ~EndSent' /\ generating' = generating - 1 /\ PutSample("sample")
        /\ generating' \in Nat
    BY <1>5, <1>a DEF GenerateAndPut, SendEndSignal, EndSent, SentInv
  <2>2. UNCHANGED <<global_steps, pending, epoch, crashes, in_hand, collected, local_trigger_step,
                    current_param_version, last_ckpt_version, t_pc, stopping>>
    BY <1>5, Zenon DEF GenerateAndPut, SendEndSignal
  <2>3. ~EndTaken /\ ~EndTaken'
    BY <1>d, <2>1, <2>2 DEF EndTaken
  <2>4. /\ Len(queue') \in Nat /\ dropped_samples' \in Nat
        /\ \/ Len(queue') = Len(queue) + 1 /\ dropped_samples' = dropped_samples
           \/ /\ Len(queue') = Len(queue) /\ dropped_samples' = dropped_samples + 1
              /\ Len(queue) >= MaxQueueSize
    <3>1. PICK s \in {"sample", "end"} : PutSample(s)
      BY <2>1
    <3>2. /\ queue' \in Seq({"sample", "end"}) /\ dropped_samples' \in Nat
          /\ \/ Len(queue') = Len(queue) + 1 /\ dropped_samples' = dropped_samples
             \/ Len(queue') = Len(queue) /\ dropped_samples' = dropped_samples + 1
      BY <3>1, PutSampleFacts
    <3>3. dropped_samples' = dropped_samples \/ Len(queue) >= MaxQueueSize
      BY <3>1 DEF PutSample
    <3>4. Len(queue') \in Nat
      BY <3>2
    <3> QED
      BY <1>a, <1>b, <3>2, <3>3, <3>4
  <2>5. /\ Fed' = Fed /\ PendingSamples' = PendingSamples /\ PendingSamples \in Nat
        /\ feed_pc' = "feed" <=> feed_pc = "feed"
    <3>1. CASE GenerateAndPut
      <4>1. feed_pc' = feed_pc /\ pc' = pc
        BY <3>1, Zenon DEF GenerateAndPut
      <4>2. feed_pc = "done" /\ Streaming => Len(pending) > 0
        BY DEF FeedInv, EndsWith
      <4> QED
        BY <1>b, <2>2, <4>1, <4>2 DEF Fed, PendingSamples, Streaming
    <3>2. CASE SendEndSignal
      <4>1. feed_pc' = "done" /\ pc' = "sent" /\ pc \in {"exited", "raised"}
        BY <3>2 DEF SendEndSignal
      <4>2. ~Streaming /\ ~Streaming' /\ feed_pc = "done"
        BY <4>1 DEF Streaming, FeedInv
      <4> QED
        BY <1>b, <2>2, <4>1, <4>2 DEF Fed, PendingSamples
    <3> QED
      BY <1>5, <3>1, <3>2
  <2>6. /\ VersionSamples' = VersionSamples /\ StepSamplesTaken' = StepSamplesTaken
    BY <2>2 DEF VersionSamples, StepSamplesTaken
  <2>7. /\ QueueSamples = Len(queue)
        /\ QueueSamples' = IF EndSent' THEN Len(queue') - 1 ELSE Len(queue')
    BY <2>1 DEF QueueSamples
  <2>8. ConserveInv'
    <3> DEFINE l == Len(queue)
               m == Len(queue')
    <3>1. /\ l \in Nat /\ QueueSamples = l
          /\ \/ m = l + 1 /\ dropped_samples' = dropped_samples
             \/ m = l /\ dropped_samples' = dropped_samples + 1
      BY <1>b, <2>4, <2>7
    <3>2. \/ QueueSamples' = m - 1 /\ generating' = generating
          \/ QueueSamples' = m /\ generating' = generating - 1
      BY <2>1, <2>7
    <3>3. VersionSamples + StepSamplesTaken + collected + in_hand + generating
             + l + PendingSamples + dropped_samples = Fed
      BY <2>3, <3>1 DEF ConserveInv
    <3>4. /\ collected' = collected /\ in_hand' = in_hand
      BY <2>2
    <3> HIDE DEF l, m
    <3>5. VersionSamples' + StepSamplesTaken' + collected' + in_hand' + generating'
             + QueueSamples' + PendingSamples' + dropped_samples' = Fed'
      <4>1. CASE QueueSamples' = l /\ generating' = generating /\ dropped_samples' = dropped_samples
        BY <1>a, <2>5, <2>6, <3>1, <3>3, <3>4, <4>1
      <4>2. CASE QueueSamples' = l - 1 /\ generating' = generating
                 /\ dropped_samples' = dropped_samples + 1
        BY <1>a, <2>5, <2>6, <3>1, <3>3, <3>4, <4>2
      <4>3. CASE QueueSamples' = l + 1 /\ generating' = generating - 1
                 /\ dropped_samples' = dropped_samples
        BY <1>a, <2>5, <2>6, <3>1, <3>3, <3>4, <4>3
      <4>4. CASE QueueSamples' = l /\ generating' = generating - 1
                 /\ dropped_samples' = dropped_samples + 1
        BY <1>a, <2>5, <2>6, <3>1, <3>3, <3>4, <4>4
      <4> QED
        BY <3>1, <3>2, <4>1, <4>2, <4>3, <4>4
    <3> QED
      BY <2>3, <3>5 DEF ConserveInv
  <2>11. FedInv'
    BY <2>2, <2>5 DEF FedInv
  <2> QED
    BY <2>8, <2>11
<1>6. CASE GetSample
  <2>1. /\ t_pc = "collect" /\ queue # <<>> /\ queue' = Tail(queue) /\ ~stopping
        /\ IF Head(queue) = "end" THEN t_pc' = "final" /\ collected' = 0
           ELSE collected' = collected + 1 /\ t_pc' # "final"
    BY <1>6 DEF GetSample, StopInv
  <2>2. UNCHANGED <<feed_pc, global_steps, pending, epoch, crashes, pc, in_hand, generating,
                    dropped_samples, stopping,
                    local_trigger_step, current_param_version, last_ckpt_version>>
    BY <1>6, Zenon DEF GetSample
  <2>3. /\ VersionSamples' = VersionSamples /\ StepSamplesTaken' = StepSamplesTaken
        /\ Fed' = Fed /\ PendingSamples' = PendingSamples
    BY <2>2 DEF VersionSamples, StepSamplesTaken, Fed, PendingSamples, Streaming
  <2>4. Len(queue') = Len(queue) - 1 /\ ~EndTaken
    BY <1>b, <2>1 DEF EndTaken
  <2>5. FedInv'
    BY <2>2, <2>3 DEF FedInv
  <2>6. CASE Head(queue) = "end"
    <3>1. EndSent
      BY <1>b, <2>1, <2>6 DEF ControlInv, EndSent
    <3>2. Len(queue) = 1
      BY <1>b, <2>4, <2>6, <3>1, QueueEnds DEF SentInv
    <3>3. /\ in_hand = 0 /\ generating = 0 /\ pending = <<>> /\ ~Streaming
      BY <3>1 DEF ControlInv, SentInv, FeedInv, EndSent, Streaming
    <3>4. QueueSamples = 0 /\ PendingSamples = 0
      BY <3>1, <3>2, <3>3 DEF QueueSamples, PendingSamples
    <3>5. collected < RequiredSamples
      BY <2>1 DEF TrainerInv
    <3>6. EndTaken'
      BY <2>1, <2>6 DEF EndTaken
    <3> QED
      BY <1>a, <2>2, <2>3, <2>4, <2>5, <3>3, <3>4, <3>5, <3>6 DEF ConserveInv
  <2>7. CASE Head(queue) # "end"
    <3>1. ~EndTaken' /\ collected' = collected + 1
      BY <2>1, <2>2, <2>7 DEF EndTaken
    <3>2. QueueSamples = QueueSamples' + 1 /\ QueueSamples' \in Int
      BY <1>b, <2>2, <2>4 DEF QueueSamples, EndSent
    <3>3. PendingSamples \in Int
      BY <1>b DEF PendingSamples
    <3> QED
      BY <1>a, <2>2, <2>3, <2>4, <2>5, <3>1, <3>2, <3>3 DEF ConserveInv
  <2> QED
    BY <2>6, <2>7
<1>7. CASE TrainStep
  <2>1. /\ t_pc = "train" /\ collected' = 0 /\ ~stopping /\ t_pc' # "final"
        /\ IF local_trigger_step < TriggerStep
           THEN local_trigger_step' = local_trigger_step + 1
                /\ current_param_version' = current_param_version
           ELSE local_trigger_step' = 1 /\ current_param_version' = current_param_version + 1
    BY <1>7 DEF TrainStep, StopInv
  <2>2. UNCHANGED <<feed_pc, global_steps, pending, epoch, crashes, pc, in_hand, generating, queue,
                    dropped_samples, stopping, last_ckpt_version>>
    BY <1>7, Zenon DEF TrainStep
  <2>3. /\ Fed' = Fed /\ PendingSamples' = PendingSamples /\ QueueSamples' = QueueSamples
        /\ ~EndTaken /\ ~EndTaken'
    BY <2>1, <2>2 DEF Fed, PendingSamples, QueueSamples, Streaming, EndSent, EndTaken
  <2>4. /\ PendingSamples \in Nat /\ QueueSamples \in Nat
    <3>1. /\ feed_pc = "done" /\ Streaming => Len(pending) > 0
          /\ EndSent => Len(queue) > 0
      BY <2>3 DEF FeedInv, SentInv, EndsWith
    <3> QED
      BY <1>b, <3>1 DEF PendingSamples, QueueSamples
  <2>5. collected = RequiredSamples
    BY <2>1 DEF TrainerInv
  <2>6. Fed \in Int /\ Fed <= global_steps
    BY <1>a DEF Fed
  <2>7. CASE local_trigger_step < TriggerStep
    <3>1. VersionSamples' = VersionSamples /\ current_param_version' = current_param_version
      BY <2>1, <2>7 DEF VersionSamples
    <3>2. StepSamplesTaken' = StepSamplesTaken + RequiredSamples
      BY <2>1, <2>7, StepSamples DEF StepSamplesTaken, CountsOK
    <3>3. ConserveInv'
      BY <1>a, <2>1, <2>2, <2>3, <2>4, <2>5, <3>1, <3>2 DEF ConserveInv
    <3>4. FedInv'
      BY <2>2, <3>1 DEF FedInv
    <3> QED
      BY <3>3, <3>4
  <2>8. CASE ~(local_trigger_step < TriggerStep)
    <3>1. VersionSamples' = VersionSamples + ParamSyncSamples
          /\ current_param_version' = current_param_version + 1
      BY <1>a, <1>e, <2>1, <2>8 DEF VersionSamples
    <3>2. local_trigger_step = TriggerStep
      BY <2>8, FullyAsyncAssumption DEF CountsOK
    <3>3. StepSamplesTaken' = 0 /\ StepSamplesTaken + RequiredSamples = ParamSyncSamples
      BY ZenonT(30), <2>1, <2>8, <3>2, StepSamples DEF StepSamplesTaken, CountsOK
    <3>4. ConserveInv'
      BY <1>a, <2>1, <2>2, <2>3, <2>4, <2>5, <3>1, <3>3 DEF ConserveInv
    <3>6. last_ckpt_version \in Nat
      BY DEF CountsOK
    <3>7. FedInv'
      BY <1>e, <2>2, <3>1, <3>6 DEF FedInv
    <3> QED
      BY <3>4, <3>7
  <2> QED
    BY <2>7, <2>8
<1>8. CASE Trainer /\ ~GetSample /\ ~TrainStep
  <2>1. UNCHANGED <<feed_pc, global_steps, pending, epoch, crashes, pc, in_hand, generating, queue,
                    dropped_samples>>
    BY <1>8, TrainerKeeps
  <2>2. UNCHANGED <<collected, local_trigger_step, current_param_version>>
    BY <1>8, Zenon DEF Trainer, AbortReplicas, ResumeReplicas, ResetStaleness,
                GetQueueSize, AssignStaleness, SaveCheckpoint, StopTraining
  <2>3. EndTaken' <=> EndTaken
    BY <1>8, EndTakenStays
  <2>4. last_ckpt_version' \in {last_ckpt_version, current_param_version}
    <3>1. CASE SaveCheckpoint
      BY ZenonT(30), <3>1 DEF SaveCheckpoint
    <3>2. CASE ~SaveCheckpoint
      <4>1. last_ckpt_version' = last_ckpt_version
        BY <1>8, <3>2, Zenon DEF Trainer, AbortReplicas, ResumeReplicas, ResetStaleness,
                GetQueueSize, AssignStaleness, StopTraining
      <4> QED
        BY <4>1
    <3> QED
      BY ZenonT(30), <3>1, <3>2
  <2> QED
    BY <1>e, <2>1, <2>2, <2>3, <2>4, NothingMoves DEF Streaming, EndSent
<1>9. CASE \/ CheckPaused \/ DecidePause \/ Pause \/ Drain \/ Resume \/ WaitForTask \/ TakeFinished
           \/ SlotFree \/ AllFinished \/ StopRollouter \/ TaskDone
  <2>1. UNCHANGED <<feed_pc, global_steps, pending, epoch, crashes, generating, queue, dropped_samples,
                    collected, local_trigger_step, current_param_version, last_ckpt_version,
                    t_pc, stopping>>
    BY <1>9, Zenon DEF CheckPaused, DecidePause, Pause, Drain, Resume, WaitForTask, TakeFinished,
         SlotFree, AllFinished, StopRollouter, TaskDone
  <2>2. /\ in_hand' = in_hand
        /\ Streaming' <=> Streaming
        /\ EndSent' <=> EndSent
    <3>1. CASE CheckPaused \/ DecidePause \/ Pause \/ Resume \/ SlotFree
      BY ZenonT(30), <3>1 DEF CheckPaused, DecidePause, Pause, Resume, SlotFree, Streaming, EndSent
    <3>2. CASE AllFinished \/ StopRollouter
      BY ZenonT(30), <3>2 DEF AllFinished, StopRollouter, Streaming, EndSent
    <3>3. CASE Drain \/ TakeFinished
      <4>1. failed = 0
        BY DEF FeedInv
      <4> QED
        BY <3>3, <4>1 DEF Drain, TakeFinished, Streaming, EndSent
    <3>4. CASE WaitForTask \/ TaskDone
      <4>1. in_hand' = in_hand /\ pc' = pc
        BY <3>4, Zenon DEF WaitForTask, TaskDone
      <4> QED
        BY <4>1 DEF Streaming, EndSent
    <3> QED
      BY <1>9, <3>1, <3>2, <3>3, <3>4
  <2> QED
    BY <1>e, <2>1, <2>2, NothingMoves DEF EndTaken
<1>10. CASE Monitor
  <2>1. UNCHANGED <<feed_pc, global_steps, pending, epoch, crashes, pc, in_hand, generating,
                    dropped_samples>>
    BY <1>10, TrainerKeeps
  <2>2. UNCHANGED <<queue, collected, local_trigger_step, current_param_version, last_ckpt_version,
                    t_pc, stopping>>
    BY <1>10, Zenon DEF Monitor, MonitorWakes, MonitorDecides, MonitorResumes, MonitorStops
  <2> QED
    BY <1>e, <2>1, <2>2, NothingMoves DEF EndTaken, Streaming, EndSent
<1>11. CASE GenerationFails
  BY <1>e, <1>11 DEF GenerationFails
<1>12. CASE Crash
  <2>1. /\ feed_pc' = (IF epoch' = TotalEpochs THEN "end" ELSE "feed") /\ crashes' = crashes + 1
        /\ epoch' \in 0 .. TotalEpochs
    BY <1>12, <1>c DEF Crash, NextBatch
  <2>1a. /\ pending' = <<>> /\ pc' = "top" /\ in_hand' = 0 /\ generating' = 0
        /\ queue' = <<>> /\ dropped_samples' = 0 /\ t_pc' = "collect" /\ stopping' = FALSE
        /\ collected' = 0 /\ local_trigger_step' = 1
    BY <1>12, Zenon DEF Crash
  <2>2. /\ current_param_version' = last_ckpt_version /\ last_ckpt_version' = last_ckpt_version
        /\ global_steps' = last_ckpt_version * ParamSyncSamples + 1
    BY <1>12, Zenon DEF Crash
  <2> DEFINE v == last_ckpt_version * ParamSyncSamples
  <2>3. last_ckpt_version \in Nat /\ v \in Nat
    BY <1>a DEF CountsOK
  <2>4. v <= VersionSamples
    <3>1. /\ current_param_version - last_ckpt_version \in Nat
      BY <1>e, <2>3 DEF FedInv
    <3>2. (current_param_version - last_ckpt_version) * ParamSyncSamples \in Nat
      BY <1>a, <3>1
    <3>3. VersionSamples = v + (current_param_version - last_ckpt_version) * ParamSyncSamples
      BY <1>a, <1>e, <2>3, <3>1 DEF VersionSamples
    <3> QED
      BY <1>a, <2>3, <3>2, <3>3
  <2>5. VersionSamples <= Fed
    <3>1. /\ PendingSamples \in Nat
          /\ ~EndTaken => QueueSamples \in Nat
      <4>1. /\ feed_pc = "done" /\ Streaming => Len(pending) > 0
            /\ EndSent /\ ~EndTaken => Len(queue) > 0
        BY DEF FeedInv, SentInv, EndsWith
      <4> QED
        BY <1>b, <4>1 DEF PendingSamples, QueueSamples
    <3>2. Fed \in Int
      BY <1>a DEF Fed
    <3> QED
      BY <1>a, <3>1, <3>2 DEF ConserveInv
  <2>6. v <= TotalRolloutSteps + crashes
    BY <1>a, <2>3, <2>4, <2>5 DEF FedInv, Fed
  <2>7. VersionSamples' = v /\ StepSamplesTaken' = 0 /\ global_steps' = v + 1
    <3>1. StepSamplesTaken' = (1 - 1) * RequiredSamples
      BY <2>1a, Zenon DEF StepSamplesTaken
    <3>2. StepSamplesTaken' = 0
      BY <1>a, <3>1
    <3> QED
      BY <2>2, <3>2 DEF VersionSamples
  <2> HIDE DEF v
  <2>8. Fed' = v /\ PendingSamples' = 0 /\ QueueSamples' = 0 /\ ~EndTaken'
    BY <2>1, <2>1a, <2>3, <2>7 DEF Fed, PendingSamples, QueueSamples, EndSent, EndTaken
  <2>9. ConserveInv'
    BY <2>1a, <2>3, <2>7, <2>8 DEF ConserveInv
  <2>10. FedInv'
    BY <1>a, <1>c, <2>1, <2>2, <2>3, <2>6, <2>7 DEF FedInv
  <2> QED
    BY <2>9, <2>10
<1> QED
  BY <1>1, <1>2, <1>3, <1>4, <1>5, <1>6, <1>7, <1>8, <1>9, <1>10, <1>11, <1>12 DEF Next, Processor

-----------------------------------------------------------------------------

\* Nothing takes a failed generation back.
LEMMA FailuresStay ==
    ASSUME CountsOK, [Next]_vars, failures' = 0
    PROVE  failures = 0
<1> USE DEF feedVars, procVars, taskVars, pauseVars, monVars, mqVars, trainVars, countVars, ckptVars, boundVars
<1>1. CASE GenerationFails
  BY <1>1 DEF GenerationFails, CountsOK
<1>2. CASE Crash \/ UNCHANGED vars
  BY <1>2, Zenon DEF Crash, vars
<1>3. CASE Trainer \/ Monitor
  BY <1>3, TrainerKeeps
<1>4. CASE Feed \/ FeedEnd \/ Processor \/ GenerateAndPut \/ TaskDone
  <2>1. failures' = failures
    BY <1>4, Zenon DEF Feed, FeedEnd, Processor, CheckPaused, DecidePause, Pause, Drain, Resume, GetPending,
         WaitForTask, TakeFinished, SlotFree, Submit, AllFinished, SendEndSignal, StopRollouter,
         GenerateAndPut, TaskDone
  <2> QED
    BY <2>1
<1> QED
  BY <1>1, <1>2, <1>3, <1>4 DEF Next

LEMMA InitEnd == Init => EndInv /\ SamplesInv
<1> SUFFICES ASSUME Init PROVE EndInv /\ SamplesInv
  OBVIOUS
<1>1. EndInv
  BY DEF Init, EndInv, StopInv, FeedInv, SentInv, Streaming, AllSamples, EndSent
<1>2. Fed = 0 /\ PendingSamples = 0 /\ QueueSamples = 0 /\ ~EndTaken
  BY DEF Init, Fed, PendingSamples, QueueSamples, EndSent, EndTaken
<1>3. StepSamplesTaken = 0 /\ VersionSamples = 0
  <2>1. RequiredSamples \in Nat /\ ParamSyncSamples \in Nat
    BY FullyAsyncAssumption, StepSamples
  <2>2. StepSamplesTaken = (1 - 1) * RequiredSamples /\ VersionSamples = 0 * ParamSyncSamples
    BY Zenon DEF Init, StepSamplesTaken, VersionSamples
  <2> QED
    BY <2>1, <2>2
<1>4. ConserveInv
  BY <1>2, <1>3 DEF Init, ConserveInv
<1>5. FedInv
  BY <1>3, FullyAsyncAssumption DEF Init, FedInv
<1> QED
  BY <1>1, <1>4, <1>5 DEF SamplesInv

LEMMA NextEnd ==
    ASSUME IInv, EndInv, [Next]_vars
    PROVE  EndInv'
<1>1. CASE Next
  <2>1. StopInv'
    BY <1>1, StopStep DEF IInv, EndInv
  <2>2. ASSUME failures' = 0 PROVE FeedInv' /\ SentInv'
    BY <1>1, <2>2, FailuresStay, FeedStep, SentStep DEF IInv, EndInv
  <2> QED
    BY <2>1, <2>2 DEF EndInv
<1>2. CASE UNCHANGED vars
  BY ZenonT(30), <1>2 DEF EndInv, StopInv, FeedInv, SentInv, Streaming, EndSent, EndTaken, vars, feedVars,
              procVars, taskVars, mqVars, trainVars, countVars, ckptVars, boundVars
<1> QED
  BY <1>1, <1>2

LEMMA NextSamples ==
    ASSUME IInv, EndInv, SamplesInv, [Next]_vars
    PROVE  SamplesInv'
<1>1. CASE Next
  <2> SUFFICES ASSUME failures' = 0 PROVE ConserveInv' /\ FedInv'
    BY DEF SamplesInv
  <2> QED
    BY <1>1, FailuresStay, SamplesStep DEF IInv, EndInv, SamplesInv
<1>2. CASE UNCHANGED vars
  <2> SUFFICES ASSUME failures' = 0 PROVE ConserveInv' /\ FedInv'
    BY DEF SamplesInv
  <2>1. /\ UNCHANGED <<feed_pc, global_steps, pending, epoch, crashes, in_hand, generating, queue, dropped_samples,
                       collected, local_trigger_step, current_param_version, pc, t_pc, stopping,
                       failures, last_ckpt_version>>
    BY <1>2, Zenon DEF vars, feedVars, procVars, taskVars, mqVars, trainVars, countVars, ckptVars, boundVars
  <2>2. current_param_version \in Nat /\ ConserveInv /\ FedInv
    BY <2>1 DEF IInv, CountsOK, SamplesInv
  <2> QED
    BY <2>1, <2>2, NothingMoves DEF Streaming, EndSent, EndTaken
<1> QED
  BY <1>1, <1>2

\* The end of a run is an inductive invariant over the bookkeeping's: each
\* of the two queues is closed by its end, and _processor_worker sends the
\* trainer's end only when its tasks are gone.
THEOREM EndInvariant == Spec => []EndInv
<1>1. Init => EndInv
  BY InitEnd
<1>2. IInv /\ EndInv /\ [Next]_vars => EndInv'
  BY NextEnd
<1> QED
  BY <1>1, <1>2, InductiveInvariant, PTL DEF Spec

\* For every size of the queues and of the task set, with any number of
\* restarts: when _get_samples_from_queue meets the end signal of a run in
\* which no generation failed, no sample is left behind it.
THEOREM NothingBehindTheEnd == Spec => []EndSignalIsLast
<1>1. IInv /\ EndInv => EndSignalIsLast
  <2> SUFFICES ASSUME IInv, EndInv, t_pc = "final", failures = 0
               PROVE  pending = <<>> /\ Outstanding = 0 /\ ActiveTasks = 0
    BY DEF EndSignalIsLast
  <2>1. EndSent /\ EndTaken
    BY DEF IInv, ControlInv, EndSent, EndTaken
  <2>2. /\ generating = 0 /\ putting = 0 /\ done = 0 /\ failed = 0 /\ in_hand = 0
        /\ queue = <<>> /\ pending = <<>>
    BY <2>1 DEF EndInv, FeedInv, SentInv, Streaming, EndSent, IInv, ControlInv
  <2> QED
    BY <2>2 DEF Outstanding, ActiveTasks
<1> QED
  BY <1>1, InductiveInvariant, EndInvariant, PTL

\* The samples of a run are accounted for, over the bookkeeping's invariant.
THEOREM SamplesInvariant == Spec => []SamplesInv
<1>1. Init => SamplesInv
  BY InitEnd
<1>2. IInv /\ EndInv /\ SamplesInv /\ [Next]_vars => SamplesInv'
  BY NextSamples
<1> QED
  BY <1>1, <1>2, InductiveInvariant, EndInvariant, PTL DEF Spec

=============================================================================
