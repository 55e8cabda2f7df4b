-------------------------- MODULE FullyAsyncProofs --------------------------
(***************************************************************************)
(* The bounds of FullyAsync for every size of batch, of queue and of task  *)
(* set: how many samples can be outstanding, and when the rollouter and    *)
(* the trainer cannot end up waiting for each other.                       *)
(***************************************************************************)
EXTENDS FullyAsync, TLAPS

\* The types of the flags, of the data's and the checkpoint's positions, and of
\* the rest: the provers share TypeOK.
FlagsOK ==
    /\ queue_full \in BOOLEAN /\ mon_full \in BOOLEAN
    /\ paused \in BOOLEAN /\ resume_event \in BOOLEAN /\ running \in BOOLEAN
    /\ stopping \in BOOLEAN /\ replicas_paused \in BOOLEAN

DataOK ==
    /\ epoch \in 0 .. TotalEpochs /\ position \in 0 .. EpochLength
    /\ ckpt_position \in 0 .. EpochLength
    /\ drops \in Nat /\ ckpt_drops \in Nat

CountsOK ==
    /\ feed_pc \in {"feed", "end", "done"}
    /\ global_steps \in Nat \ {0}
    /\ pending \in Seq({"sample", "end"}) /\ Len(pending) <= PendingSize
    /\ pc \in {"top", "decide", "pausing", "drain", "get", "limit", "submit", "ending",
               "exited", "raised", "sent", "stopped"}
    /\ in_hand \in {0, 1}
    /\ generating \in Nat /\ putting \in Nat /\ done \in Nat /\ failed \in Nat
    /\ ActiveTasks <= MaxConcurrentSamples
    /\ staleness_samples \in Nat
    /\ lock \in {"free", "processor", "reset"}
    /\ mon_pc \in {"sleep", "decide", "resume", "stopped"}
    /\ queue \in Seq({"sample", "end"}) /\ Len(queue) <= MaxQueueSize
    /\ dropped_samples \in Nat
    /\ t_pc \in {"collect", "train", "abort", "sync", "reset", "count", "assign", "save",
                 "final", "stopped"}
    /\ collected \in 0..RequiredSamples
    /\ local_trigger_step \in 1..TriggerStep
    /\ current_param_version \in Nat /\ last_ckpt_version \in Nat
    /\ counted_tasks \in Nat /\ counted_queue \in Nat /\ overlooked \in {0, 1}
    /\ failures \in Nat /\ crashes \in Nat

\* The processor is in its loop: no task it awaited has failed.
Streaming == pc \in {"top", "decide", "pausing", "drain", "get", "limit", "submit"}

\* The end signal has not been sent.
Open == pc \notin {"raised", "sent", "stopped"}

\* Where a sample is in hand, and what holding the lock means.
ControlInv ==
    /\ in_hand = (IF pc \in {"limit", "submit"} THEN 1 ELSE 0)
    /\ pc = "submit" => ActiveTasks < MaxConcurrentSamples
    /\ lock = "reset" <=> t_pc \in {"count", "assign"}
    /\ lock = "processor" => pc \in {"limit", "ending"}
    /\ pc \notin {"sent", "stopped"} =>
          /\ \A i \in 1..Len(queue) : queue[i] = "sample"
          /\ t_pc \notin {"final", "stopped"}
          /\ ~stopping

\* How far the trainer is with a step and with a version.
TrainerInv ==
    /\ t_pc = "collect" => collected < RequiredSamples
    /\ t_pc = "train" => collected = RequiredSamples
    /\ t_pc \notin {"collect", "train"} => collected = 0
    /\ t_pc \in {"abort", "sync", "reset", "count", "assign"} => local_trigger_step = 1

\* What reset_staleness has counted is still what there is.
CountInv ==
    /\ t_pc \in {"count", "assign"} => counted_tasks = ActiveTasks
    /\ t_pc = "assign" /\ pc \notin {"sent", "stopped"} =>
          /\ counted_queue <= Len(queue)
          /\ generating + Len(queue) <= counted_tasks + counted_queue

\* The count of stale samples against the samples there are: only the one
\* that the last recount overlooked is not counted, and those counted in vain
\* are tasks that have put their sample or samples the queue dropped.
StaleInv ==
    /\ Open => /\ Outstanding + TakenSinceReset <= staleness_samples + overlooked
               /\ Outstanding + TakenSinceReset <= MaxRequiredSamples + overlooked
    /\ pc = "get" => Outstanding + TakenSinceReset < MaxRequiredSamples + overlooked
    /\ Streaming => staleness_samples <= Outstanding + TakenSinceReset + failed
                                         + MaxConcurrentSamples + dropped_samples

\* A feeder with a batch in hand has not exhausted the dataloader.
EpochInv == feed_pc = "feed" => epoch < TotalEpochs

\* The inductive invariant.
IInv == FlagsOK /\ DataOK /\ EpochInv /\ CountsOK /\ ControlInv /\ TrainerInv /\ CountInv /\ StaleInv

-----------------------------------------------------------------------------

\* The samples of a version are those of its training steps.
LEMMA StepSamples ==
    ASSUME NEW k \in 1..TriggerStep
    PROVE  /\ RequiredSamples \in Nat /\ TriggerStep \in Nat
           /\ ParamSyncSamples \in Nat
           /\ (k - 1) * RequiredSamples \in Nat
           /\ (k + 1 - 1) * RequiredSamples = (k - 1) * RequiredSamples + RequiredSamples
           /\ (k - 1) * RequiredSamples + RequiredSamples <= ParamSyncSamples
           /\ k = TriggerStep => (k - 1) * RequiredSamples + RequiredSamples = ParamSyncSamples
           /\ (1 - 1) * RequiredSamples = 0
<1> DEFINE R == RequiredSamples
<1>1. R \in Nat /\ TriggerStep \in Nat
  BY FullyAsyncAssumption
<1>2. k - 1 \in Nat /\ TriggerStep - k \in Nat
  BY <1>1
<1>3. (k - 1) * R \in Nat /\ (TriggerStep - k) * R \in Nat
  BY <1>1, <1>2
<1>4. (k + 1 - 1) * R = (k - 1) * R + R
  BY <1>1, <1>2
<1>5. R * TriggerStep = (k - 1) * R + R + (TriggerStep - k) * R
  BY <1>1, <1>2
<1> QED
  BY <1>1, <1>3, <1>4, <1>5 DEF ParamSyncSamples

\* TypeOK is the types of the flags, of the positions and of the counts.
LEMMA TypeParts == TypeOK <=> FlagsOK /\ DataOK /\ CountsOK
BY Zenon DEF TypeOK, FlagsOK, DataOK, CountsOK

\* put_sample: the queue stays within its size, and either it grows or its
\* oldest entry is dropped.
LEMMA PutSampleFacts ==
    ASSUME CountsOK, NEW s \in {"sample", "end"}, PutSample(s)
    PROVE  /\ queue' \in Seq({"sample", "end"}) /\ Len(queue') <= MaxQueueSize
           /\ dropped_samples' \in Nat
           /\ \/ Len(queue') = Len(queue) + 1 /\ dropped_samples' = dropped_samples
              \/ Len(queue') = Len(queue) /\ dropped_samples' = dropped_samples + 1
           /\ (\A i \in 1..Len(queue) : queue[i] = s) =>
                 \A i \in 1..Len(queue') : queue'[i] = s
<1> MaxQueueSize \in Nat \ {0}
  BY FullyAsyncAssumption DEF MaxQueueSize
<1>1. queue \in Seq({"sample", "end"}) /\ Len(queue) \in Nat /\ Len(queue) <= MaxQueueSize
      /\ dropped_samples \in Nat
  BY DEF CountsOK
<1>2. CASE Len(queue) >= MaxQueueSize
  <2> DEFINE q == Tail(queue)
  <2>1. queue' = Append(q, s) /\ dropped_samples' = dropped_samples + 1
    BY <1>2 DEF PutSample
  <2>2. q \in Seq({"sample", "end"}) /\ Len(q) = Len(queue) - 1
        /\ \A i \in 1..Len(q) : q[i] = queue[i + 1]
    BY <1>1, <1>2
  <2> HIDE DEF q
  <2>3. Len(queue') = Len(q) + 1 /\ queue' \in Seq({"sample", "end"})
        /\ \A i \in 1..Len(queue') : queue'[i] = IF i = Len(q) + 1 THEN s ELSE q[i]
    BY <2>1, <2>2
  <2> QED
    BY <1>1, <2>1, <2>2, <2>3
<1>3. CASE ~(Len(queue) >= MaxQueueSize)
  <2>1. queue' = Append(queue, s) /\ dropped_samples' = dropped_samples
    BY <1>3 DEF PutSample
  <2>2. Len(queue') = Len(queue) + 1 /\ queue' \in Seq({"sample", "end"})
        /\ \A i \in 1..Len(queue') : queue'[i] = IF i = Len(queue) + 1 THEN s ELSE queue[i]
    BY <1>1, <2>1
  <2> QED
    BY <1>1, <1>3, <2>1, <2>2
<1> QED
  BY <1>2, <1>3

\* A fresh rollouter and trainer satisfy the inductive invariant.
LEMMA InitIInv == Init => IInv
<1> SUFFICES ASSUME Init PROVE IInv
  OBVIOUS
<1> USE FullyAsyncAssumption DEF Init
<1>1. FlagsOK
  BY Zenon DEF FlagsOK
<1>1a. DataOK /\ EpochInv
  BY DEF DataOK, EpochInv
<1>2. CountsOK
  BY DEF CountsOK, ActiveTasks, MaxQueueSize
<1>3. ControlInv /\ TrainerInv /\ CountInv
  BY DEF ControlInv, TrainerInv, CountInv, ActiveTasks
<1>4. StaleInv
  BY StepSamples DEF StaleInv, Outstanding, TakenSinceReset, Open, Streaming
<1> QED
  BY <1>1, <1>1a, <1>2, <1>3, <1>4 DEF IInv

\* Every step keeps the flags Boolean.
LEMMA FlagsStep ==
    ASSUME FlagsOK, Next
    PROVE  FlagsOK'
<1> USE DEF FlagsOK, feedVars, procVars, taskVars, pauseVars, monVars, mqVars,
       trainVars, countVars, ckptVars, boundVars
<1>1. CASE CheckPaused
  <2>1. (Len(queue) >= MaxQueueSize) \in BOOLEAN
    OBVIOUS
  <2> QED
    BY Zenon, <1>1, <2>1 DEF CheckPaused
<1>2. CASE Pause
  BY Zenon, <1>2 DEF Pause
<1>3. CASE StopRollouter
  BY Zenon, <1>3 DEF StopRollouter
<1>4. CASE MonitorWakes
  <2>1. (Len(queue) >= MaxQueueSize) \in BOOLEAN
    OBVIOUS
  <2> QED
    BY Zenon, <1>4, <2>1 DEF MonitorWakes
<1>5. CASE MonitorResumes
  BY Zenon, <1>5 DEF MonitorResumes
<1>6. CASE AbortReplicas
  BY Zenon, <1>6 DEF AbortReplicas
<1>7. CASE ResumeReplicas
  BY Zenon, <1>7 DEF ResumeReplicas
<1>8. CASE ResetStaleness
  BY Zenon, <1>8 DEF ResetStaleness
<1>9. CASE StopTraining
  BY Zenon, <1>9 DEF StopTraining
<1>10. CASE Crash
  BY Zenon, <1>10 DEF Crash
<1>10a. CASE DecidePause
  BY Zenon, <1>10a DEF DecidePause
<1>10b. CASE MonitorDecides
  BY Zenon, <1>10b DEF MonitorDecides
<1>11. CASE Feed \/ FeedEnd \/ Drain \/ Resume \/ GetPending \/ WaitForTask
         \/ TakeFinished \/ SlotFree \/ Submit \/ AllFinished
  BY <1>11 DEF Feed, FeedEnd, Drain, Resume, GetPending, WaitForTask,
         TakeFinished, SlotFree, Submit, AllFinished, MustWait
<1>11a. CASE SendEndSignal \/ MonitorStops \/ GetSample \/ TrainStep \/
         GetQueueSize \/ AssignStaleness \/ SaveCheckpoint \/ GenerateAndPut \/
         GenerationFails \/ TaskDone
  BY <1>11a DEF SendEndSignal, MonitorStops, GetSample, TrainStep, GetQueueSize,
         AssignStaleness, SaveCheckpoint, GenerateAndPut, GenerationFails, TaskDone
<1> QED
  BY <1>1, <1>2, <1>3, <1>4, <1>5, <1>6, <1>7, <1>8, <1>9, <1>10, <1>10a, <1>10b,
     <1>11, <1>11a DEF Next, Processor, Monitor, Trainer

\* The steps that touch neither the data's position nor the checkpoint.
LEMMA DataStays ==
    ASSUME \/ FeedEnd \/ CheckPaused \/ DecidePause \/ Pause \/ Drain \/ Resume \/ GetPending
           \/ WaitForTask \/ TakeFinished \/ SlotFree \/ Submit \/ AllFinished \/ StopRollouter
           \/ GenerationFails \/ TaskDone \/ Monitor \/ (Trainer /\ ~SaveCheckpoint)
    PROVE  /\ UNCHANGED <<global_steps, epoch, position, ckptVars, drops, dropped_samples, crashes>>
           /\ feed_pc' = feed_pc \/ feed_pc' = "done"
<1> USE DEF feedVars, mqVars, trainVars, ckptVars, boundVars
<1>1. CASE \/ FeedEnd \/ CheckPaused \/ DecidePause \/ Pause \/ Drain \/ Resume \/ GetPending
           \/ WaitForTask \/ TakeFinished \/ SlotFree \/ Submit \/ AllFinished \/ StopRollouter
           \/ GenerationFails \/ TaskDone
  BY <1>1, Zenon DEF FeedEnd, CheckPaused, DecidePause, Pause, Drain, Resume, GetPending,
         WaitForTask, TakeFinished, SlotFree, Submit, AllFinished, StopRollouter,
         GenerationFails, TaskDone
<1>2. CASE Monitor \/ (Trainer /\ ~SaveCheckpoint)
  BY <1>2, Zenon DEF Monitor, MonitorWakes, MonitorDecides, MonitorResumes, MonitorStops,
         Trainer, GetSample, TrainStep, AbortReplicas, ResumeReplicas, ResetStaleness,
         GetQueueSize, AssignStaleness, StopTraining
<1> QED
  BY <1>1, <1>2

\* Every step keeps the dataloader's position within its epochs.
LEMMA DataStep ==
    ASSUME DataOK, EpochInv, Next
    PROVE  DataOK' /\ EpochInv'
<1> USE FullyAsyncAssumption DEF DataOK, EpochInv
<1>1. CASE Feed
  BY <1>1 DEF Feed, NextBatch, mqVars, trainVars, ckptVars
<1>2. CASE Crash
  BY <1>2 DEF Crash, NextBatch, ckptVars
<1>3. CASE SendEndSignal \/ GenerateAndPut
  <2>1. UNCHANGED <<epoch, position, ckptVars>>
    BY <1>3, Zenon DEF SendEndSignal, GenerateAndPut, feedVars, trainVars
  <2>1a. feed_pc' = feed_pc \/ feed_pc' = "done"
    BY <1>3, Zenon DEF SendEndSignal, GenerateAndPut, feedVars
  <2>2. drops' \in {drops, drops + 1}
    BY <1>3 DEF SendEndSignal, GenerateAndPut, PutSample
  <2> QED
    BY <2>1, <2>1a, <2>2 DEF ckptVars
<1>4. CASE SaveCheckpoint
  BY <1>4 DEF SaveCheckpoint, feedVars, mqVars, ckptVars
<1>5. CASE ~(Feed \/ Crash \/ SendEndSignal \/ GenerateAndPut \/ SaveCheckpoint)
  <2>1. UNCHANGED <<epoch, position, ckptVars, drops>> /\ (feed_pc' = feed_pc \/ feed_pc' = "done")
    BY <1>5, DataStays, Zenon DEF Next, Processor
  <2> QED
    BY <2>1 DEF ckptVars
<1> QED
  BY <1>1, <1>2, <1>3, <1>4, <1>5

\* Every step keeps the counts in their ranges: a task is only created when
\* there is room for it (the limit in _processor_worker).
LEMMA CountsStep ==
    ASSUME CountsOK, ControlInv, TrainerInv, Next
    PROVE  CountsOK'
<1> USE FullyAsyncAssumption DEF CountsOK, ActiveTasks, MaxQueueSize, feedVars,
       procVars, taskVars, pauseVars, monVars, mqVars, trainVars, countVars, ckptVars, boundVars
<1>1. CASE Feed
  BY <1>1 DEF Feed, NextBatch
<1>2. CASE FeedEnd
  BY <1>2 DEF FeedEnd
<1>3. CASE CheckPaused
  BY <1>3 DEF CheckPaused
<1>4. CASE DecidePause
  BY <1>4 DEF DecidePause, ShouldPauseGeneration
<1>5. CASE Pause
  BY <1>5 DEF Pause
<1>6. CASE Drain
  BY <1>6 DEF Drain
<1>7. CASE GetPending
  BY <1>7 DEF GetPending
<1>8. CASE WaitForTask
  BY <1>8 DEF WaitForTask, MustWait
<1>9. CASE TakeFinished
  BY <1>9 DEF TakeFinished
<1>10. CASE Submit
  BY <1>10 DEF Submit, ControlInv
<1>11. CASE SendEndSignal
  BY <1>11, PutSampleFacts DEF SendEndSignal
<1>12. CASE Resume
  BY <1>12 DEF Resume
<1>13. CASE SlotFree
  BY <1>13 DEF SlotFree
<1>14. CASE AllFinished
  BY <1>14 DEF AllFinished
<1>15. CASE StopRollouter
  BY <1>15 DEF StopRollouter
<1>16. CASE MonitorWakes
  BY <1>16 DEF MonitorWakes
<1>17. CASE MonitorDecides
  BY <1>17 DEF MonitorDecides, ShouldPauseGeneration
<1>18. CASE MonitorResumes
  BY <1>18 DEF MonitorResumes
<1>19. CASE MonitorStops
  BY <1>19 DEF MonitorStops
<1>20. CASE AbortReplicas
  BY <1>20 DEF AbortReplicas
<1>21. CASE ResumeReplicas
  BY <1>21 DEF ResumeReplicas
<1>22. CASE StopTraining
  BY <1>22 DEF StopTraining
<1>23. CASE GetSample
  BY <1>23 DEF GetSample, TrainerInv
<1>24. CASE TrainStep
  BY <1>24 DEF TrainStep
<1>25. CASE ResetStaleness
  BY <1>25 DEF ResetStaleness
<1>26. CASE GetQueueSize
  BY <1>26 DEF GetQueueSize
<1>27. CASE AssignStaleness
  BY <1>27 DEF AssignStaleness
<1>28. CASE SaveCheckpoint
  BY <1>28 DEF SaveCheckpoint
<1>29. CASE GenerateAndPut
  BY <1>29, PutSampleFacts DEF GenerateAndPut
<1>30. CASE GenerationFails
  BY <1>30 DEF GenerationFails
<1>31. CASE TaskDone
  BY <1>31 DEF TaskDone
<1>32. CASE Crash
  <2>1. last_ckpt_version * ParamSyncSamples \in Nat
    BY StepSamples
  <2>2. feed_pc' \in {"feed", "end"}
    BY <1>32, Zenon DEF Crash, NextBatch
  <2>3. global_steps' \in Nat \ {0} /\ crashes' \in Nat
    BY <1>32, <2>1 DEF Crash
  <2>4. /\ pending' = <<>> /\ queue' = <<>> /\ pc' = "top" /\ in_hand' = 0 /\ t_pc' = "collect"
        /\ generating' = 0 /\ putting' = 0 /\ done' = 0 /\ failed' = 0
        /\ staleness_samples' = 0 /\ lock' = "free" /\ mon_pc' = "sleep" /\ dropped_samples' = 0
        /\ collected' = 0 /\ local_trigger_step' = 1
        /\ current_param_version' = last_ckpt_version /\ last_ckpt_version' = last_ckpt_version
        /\ counted_tasks' = 0 /\ counted_queue' = 0 /\ overlooked' = 0 /\ failures' = failures
    BY <1>32, Zenon DEF Crash
  <2> QED
    BY <2>2, <2>3, <2>4, SMTT(30)
<1> QED
  BY ZenonT(30), <1>1, <1>2, <1>3, <1>4, <1>5, <1>6, <1>7, <1>8, <1>9, <1>10, <1>11, <1>12, <1>13,
     <1>14, <1>15, <1>16, <1>17, <1>18, <1>19, <1>20, <1>21, <1>22, <1>23, <1>24,
     <1>25, <1>26, <1>27, <1>28, <1>29, <1>30, <1>31, <1>32 DEF Next, Processor, Monitor, Trainer

\* Every step keeps the sample in hand, the lock and the end signal in their
\* places.
LEMMA ControlStep ==
    ASSUME CountsOK, ControlInv, Next
    PROVE  ControlInv'
<1> USE FullyAsyncAssumption DEF CountsOK, ControlInv, ActiveTasks, feedVars, procVars,
       taskVars, pauseVars, monVars, mqVars, trainVars, countVars, ckptVars, boundVars
<1>1. CASE Feed
  <2>1. UNCHANGED <<pc, in_hand, generating, putting, done, failed, lock, queue, stopping, t_pc,
                    collected, local_trigger_step, staleness_samples, dropped_samples>>
    BY <1>1 DEF Feed
  <2> QED
    BY <2>1 DEF ControlInv
<1>2. CASE FeedEnd
  <2>1. UNCHANGED <<pc, in_hand, generating, putting, done, failed, lock, queue, stopping, t_pc,
                    collected, local_trigger_step, staleness_samples, dropped_samples>>
    BY <1>2 DEF FeedEnd
  <2> QED
    BY <2>1 DEF ControlInv
<1>3. CASE CheckPaused
  BY <1>3 DEF CheckPaused
<1>4. CASE DecidePause
  BY <1>4 DEF DecidePause, ShouldPauseGeneration
<1>5. CASE Pause
  BY <1>5 DEF Pause
<1>6. CASE Drain
  BY <1>6 DEF Drain
<1>7. CASE Resume
  BY <1>7 DEF Resume
<1>8. CASE GetPending
  BY <1>8 DEF GetPending
<1>9. CASE WaitForTask
  BY <1>9 DEF WaitForTask, MustWait
<1>10. CASE TakeFinished
  BY <1>10 DEF TakeFinished
<1>11. CASE SlotFree
  BY <1>11 DEF SlotFree
<1>12. CASE Submit
  BY <1>12 DEF Submit
<1>13. CASE SendEndSignal
  BY <1>13 DEF SendEndSignal
<1>14. CASE GetSample
  BY <1>14 DEF GetSample
<1>15. CASE TrainStep
  BY <1>15 DEF TrainStep
<1>16. CASE AllFinished
  BY <1>16 DEF AllFinished
<1>17. CASE StopRollouter
  BY <1>17 DEF StopRollouter
<1>18. CASE MonitorWakes
  BY <1>18 DEF MonitorWakes
<1>19. CASE MonitorDecides
  BY <1>19 DEF MonitorDecides, ShouldPauseGeneration
<1>20. CASE MonitorResumes
  BY <1>20 DEF MonitorResumes
<1>21. CASE MonitorStops
  BY <1>21 DEF MonitorStops
<1>22. CASE AbortReplicas
  BY <1>22 DEF AbortReplicas
<1>23. CASE ResumeReplicas
  BY <1>23 DEF ResumeReplicas
<1>24. CASE GetQueueSize
  BY <1>24 DEF GetQueueSize
<1>25. CASE SaveCheckpoint
  BY <1>25 DEF SaveCheckpoint
<1>26. CASE ResetStaleness
  BY <1>26 DEF ResetStaleness
<1>27. CASE AssignStaleness
  BY <1>27 DEF AssignStaleness
<1>28. CASE StopTraining
  BY <1>28 DEF StopTraining
<1>29. CASE GenerateAndPut
  BY <1>29, PutSampleFacts DEF GenerateAndPut
<1>30. CASE GenerationFails
  BY <1>30 DEF GenerationFails
<1>31. CASE TaskDone
  BY <1>31 DEF TaskDone
<1>32. CASE Crash
  BY <1>32 DEF Crash
<1> QED
  BY ZenonT(30), <1>1, <1>2, <1>3, <1>4, <1>5, <1>6, <1>7, <1>8, <1>9, <1>10, <1>11, <1>12, <1>13,
     <1>14, <1>15, <1>16, <1>17, <1>18, <1>19, <1>20, <1>21, <1>22, <1>23, <1>24,
     <1>25, <1>26, <1>27, <1>28, <1>29, <1>30, <1>31, <1>32 DEF Next, Processor, Monitor, Trainer

\* Every step keeps the trainer's two counters in step with its phase.
LEMMA TrainerStep ==
    ASSUME CountsOK, TrainerInv, Next
    PROVE  TrainerInv'
<1> USE FullyAsyncAssumption DEF CountsOK, TrainerInv, feedVars, procVars, taskVars,
       pauseVars, monVars, mqVars, trainVars, countVars, ckptVars, boundVars
<1>1. CASE GetSample
  BY <1>1 DEF GetSample
<1>2. CASE TrainStep
  BY <1>2 DEF TrainStep
<1>3. CASE StopTraining
  BY <1>3 DEF StopTraining
<1>4. CASE SaveCheckpoint
  BY <1>4 DEF SaveCheckpoint
<1>5. CASE Crash
  BY <1>5 DEF Crash
<1>6. CASE Feed \/ FeedEnd \/ CheckPaused \/ DecidePause \/ Pause \/ Drain \/ Resume \/
         GetPending \/ WaitForTask \/ TakeFinished \/ SlotFree \/ Submit \/ AllFinished
         \/ SendEndSignal
  <2>1. UNCHANGED <<t_pc, collected, local_trigger_step>>
    BY ZenonT(30), <1>6 DEF Feed, FeedEnd, CheckPaused, DecidePause, Pause, Drain, Resume, GetPending,
         WaitForTask, TakeFinished, SlotFree, Submit, AllFinished, SendEndSignal
  <2> QED
    BY <2>1, Zenon
<1>6a. CASE StopRollouter \/ MonitorWakes \/ MonitorDecides \/ MonitorResumes \/
         MonitorStops \/ AbortReplicas \/ ResumeReplicas \/ ResetStaleness \/
         GetQueueSize \/ AssignStaleness \/ GenerateAndPut \/ GenerationFails \/ TaskDone
  BY ZenonT(30), <1>6a DEF StopRollouter, MonitorWakes, MonitorDecides, MonitorResumes, MonitorStops,
         AbortReplicas, ResumeReplicas, ResetStaleness, GetQueueSize, AssignStaleness,
         GenerateAndPut, GenerationFails, TaskDone, ShouldPauseGeneration, MustWait
<1> QED
  BY <1>1, <1>2, <1>3, <1>4, <1>5, <1>6, <1>6a DEF Next, Processor, Monitor, Trainer

\* While reset_staleness awaits the queue's size, the lock keeps the set of
\* tasks as it was counted; samples only move from a task into the queue.
LEMMA CountStep ==
    ASSUME CountsOK, ControlInv, CountInv, Next
    PROVE  CountInv'
<1> USE FullyAsyncAssumption DEF CountsOK, ControlInv, CountInv, ActiveTasks, feedVars,
       procVars, taskVars, pauseVars, monVars, mqVars, trainVars, countVars, ckptVars, boundVars
<1>1. CASE Drain
  BY <1>1 DEF Drain
<1>2. CASE TakeFinished
  BY <1>2 DEF TakeFinished
<1>3. CASE Submit
  BY <1>3 DEF Submit
<1>4. CASE SendEndSignal
  BY <1>4 DEF SendEndSignal
<1>5. CASE GetSample
  BY <1>5 DEF GetSample
<1>6. CASE ResetStaleness
  BY <1>6 DEF ResetStaleness
<1>7. CASE GetQueueSize
  BY <1>7 DEF GetQueueSize
<1>8. CASE AssignStaleness
  BY <1>8 DEF AssignStaleness
<1>9. CASE GenerateAndPut
  BY <1>9, PutSampleFacts DEF GenerateAndPut
<1>10. CASE GenerationFails
  BY <1>10 DEF GenerationFails
<1>11. CASE TaskDone
  BY <1>11 DEF TaskDone
<1>12. CASE Crash
  BY <1>12 DEF Crash
<1>13. CASE Feed \/ FeedEnd \/ CheckPaused \/ DecidePause \/ Pause \/ Resume \/ GetPending
         \/ WaitForTask \/ SlotFree \/ AllFinished
  BY ZenonT(30), <1>13 DEF Feed, FeedEnd, CheckPaused, DecidePause, Pause, Resume, GetPending, WaitForTask,
         SlotFree, AllFinished, ShouldPauseGeneration, MustWait
<1>13a. CASE StopRollouter \/ MonitorWakes \/ MonitorDecides \/ MonitorResumes \/
         MonitorStops \/ TrainStep \/ AbortReplicas \/ ResumeReplicas \/ SaveCheckpoint
         \/ StopTraining
  BY ZenonT(30), <1>13a DEF StopRollouter, MonitorWakes, MonitorDecides, MonitorResumes, MonitorStops,
         TrainStep, AbortReplicas, ResumeReplicas, SaveCheckpoint, StopTraining,
         ShouldPauseGeneration, MustWait
<1> QED
  BY <1>1, <1>2, <1>3, <1>4, <1>5, <1>6, <1>7, <1>8, <1>9, <1>10, <1>11, <1>12, <1>13, <1>13a DEF Next, Processor, Monitor, Trainer

\* A step that touches none of the samples, and does not enter the loop or the
\* point where a sample is taken.
LEMMA StaleSame ==
    ASSUME StaleInv,
           UNCHANGED <<in_hand, generating, failed, queue, dropped_samples, staleness_samples,
                       overlooked, t_pc, stopping, local_trigger_step, collected>>,
           pc' = pc \/ (Streaming /\ pc' \in {"drain", "top", "submit"}) \/ pc' = "stopped"
    PROVE  StaleInv'
<1>1. Outstanding' = Outstanding /\ TakenSinceReset' = TakenSinceReset
  BY DEF Outstanding, TakenSinceReset
<1>2. (Open' => Open) /\ (Streaming' => Streaming) /\ (pc' = "get" => pc = "get")
  BY DEF Open, Streaming
<1> QED
  BY <1>1, <1>2, Zenon DEF StaleInv

\* Every step keeps staleness_samples within its distance of the samples
\* outstanding and taken.
LEMMA StaleStep ==
    ASSUME CountsOK, ControlInv, TrainerInv, CountInv, StaleInv, Next
    PROVE  StaleInv'
<1> USE FullyAsyncAssumption DEF CountsOK, feedVars, procVars, taskVars, pauseVars,
       monVars, mqVars, trainVars, countVars, ckptVars, boundVars
<1>a. /\ ParamSyncSamples \in Nat /\ (local_trigger_step - 1) * RequiredSamples \in Nat
      /\ collected \in Nat /\ Len(queue) \in Nat /\ in_hand \in Nat
  BY StepSamples
<1>b. TakenSinceReset \in Nat
  BY <1>a DEF TakenSinceReset
<1>c. Outstanding \in Nat
  BY <1>a DEF Outstanding
<1>d. /\ staleness_samples \in Nat /\ failed \in Nat /\ dropped_samples \in Nat
      /\ overlooked \in Nat
      /\ MaxRequiredSamples \in Nat /\ MaxConcurrentSamples \in Nat
  OBVIOUS
<1>0. TakenSinceReset \in Nat /\ Outstanding \in Nat
  BY <1>b, <1>c
<1>1. CASE Feed
  <2>1. UNCHANGED <<pc, in_hand, generating, putting, done, failed, lock, queue, stopping, t_pc,
                    collected, local_trigger_step, staleness_samples, dropped_samples, overlooked>>
    BY <1>1 DEF Feed
  <2> QED
    BY <2>1 DEF ControlInv, StaleInv, Outstanding, TakenSinceReset, Open, Streaming
<1>2. CASE FeedEnd
  <2>1. UNCHANGED <<pc, in_hand, generating, putting, done, failed, lock, queue, stopping, t_pc,
                    collected, local_trigger_step, staleness_samples, dropped_samples, overlooked>>
    BY <1>2 DEF FeedEnd
  <2> QED
    BY <2>1 DEF ControlInv, StaleInv, Outstanding, TakenSinceReset, Open, Streaming
<1>3. CASE CheckPaused
  BY <1>3 DEF CheckPaused,
     StaleInv, ControlInv, TrainerInv, Outstanding, TakenSinceReset, Open, Streaming
<1>4. CASE DecidePause
  <2>1. /\ UNCHANGED <<in_hand, generating, failed, queue, staleness_samples, dropped_samples, overlooked>>
        /\ TakenSinceReset' = TakenSinceReset
        /\ Streaming /\ Open
    BY <1>4 DEF DecidePause, TakenSinceReset, Streaming, Open
  <2>2. Outstanding' = Outstanding
    BY <2>1 DEF Outstanding
  <2>3. pc' = "get" => ~(staleness_samples >= MaxRequiredSamples)
    BY <1>4 DEF DecidePause, ShouldPauseGeneration
  <2> QED
    BY <1>0, <2>1, <2>2, <2>3 DEF StaleInv
<1>5. CASE Pause
  <2>1. UNCHANGED <<in_hand, generating, failed, queue, dropped_samples, staleness_samples,
                    overlooked, t_pc, stopping, local_trigger_step, collected>>
    BY <1>5, Zenon DEF Pause
  <2>2. Streaming /\ pc' \in {"drain", "top", "submit"}
    BY <1>5, Zenon DEF Pause, Streaming
  <2> QED
    BY <2>1, <2>2, StaleSame, Zenon
<1>6. CASE Drain
  <2>1. UNCHANGED <<in_hand, generating, queue, dropped_samples, staleness_samples,
                    overlooked, t_pc, stopping, local_trigger_step, collected>>
    BY <1>6, Zenon DEF Drain
  <2>2. failed' = 0 /\ pc' = IF failed > 0 THEN "raised" ELSE IF resume_event THEN "top" ELSE "drain"
    BY <1>6, Zenon DEF Drain
  <2>3. Streaming
    BY <1>6, Zenon DEF Drain, Streaming
  <2>4. CASE failed > 0
    BY <2>2, <2>4 DEF StaleInv, Open, Streaming
  <2>5. CASE ~(failed > 0)
    <3>1. failed = 0
      BY <1>d, <2>5
    <3>2. failed' = failed /\ pc' \in {"drain", "top", "submit"}
      BY <2>2, <2>5, <3>1, Zenon
    <3> QED
      BY <2>1, <2>3, <3>2, StaleSame, Zenon
  <2> QED
    BY <2>4, <2>5
<1>7. CASE Resume
  <2>1. UNCHANGED <<in_hand, generating, failed, queue, dropped_samples, staleness_samples,
                    overlooked, t_pc, stopping, local_trigger_step, collected>>
    BY <1>7, Zenon DEF Resume
  <2>2. Streaming /\ pc' \in {"drain", "top", "submit"}
    BY <1>7, Zenon DEF Resume, Streaming
  <2> QED
    BY <2>1, <2>2, StaleSame, Zenon
<1>8. CASE GetPending
  <2>1. /\ TakenSinceReset' = TakenSinceReset
        /\ UNCHANGED <<generating, failed, queue, dropped_samples, overlooked>>
        /\ staleness_samples' = staleness_samples + 1
        /\ pc = "get" /\ in_hand = 0
    BY <1>8 DEF GetPending, TakenSinceReset, ControlInv
  <2>2. \/ pc' = "ending" /\ in_hand' = 0
        \/ pc' = "limit" /\ in_hand' = 1
    BY <1>8, <2>1 DEF GetPending
  <2>3. Outstanding' = Outstanding + in_hand'
    BY <1>a, <2>1, <2>2 DEF Outstanding
  <2>4. pc' # "get" /\ Open /\ Streaming
    BY <2>1, <2>2 DEF Open, Streaming
  <2> HIDE FullyAsyncAssumption DEF CountsOK, vars, feedVars, procVars, taskVars, pauseVars,
         monVars, mqVars, trainVars, countVars, ckptVars, boundVars
  <2> QED
    BY <1>0, <1>d, <2>1, <2>2, <2>3, <2>4 DEF StaleInv, Open, Streaming
<1>9. CASE WaitForTask
  <2>1. UNCHANGED <<in_hand, generating, failed, queue, dropped_samples, staleness_samples,
                    overlooked, t_pc, stopping, local_trigger_step, collected>>
    BY <1>9, Zenon DEF WaitForTask
  <2>2. pc' = pc
    BY <1>9, Zenon DEF WaitForTask, Streaming
  <2> QED
    BY <2>1, <2>2, StaleSame, Zenon
<1>10. CASE TakeFinished
  <2>1. TakenSinceReset' = TakenSinceReset
    BY <1>10 DEF TakeFinished, TakenSinceReset
  <2>2. UNCHANGED <<generating, queue, dropped_samples, staleness_samples, overlooked>>
    BY <1>10 DEF TakeFinished
  <2>3. CASE failed > 0
    BY <1>10, <2>3 DEF TakeFinished, StaleInv, Open, Streaming
  <2>4. CASE failed = 0
    <3>1. UNCHANGED <<pc, in_hand, failed, overlooked>>
      BY <1>10, <2>4 DEF TakeFinished
    <3> QED
      BY <2>1, <2>2, <3>1 DEF StaleInv, Outstanding, Open, Streaming
  <2> QED
    BY <2>3, <2>4
<1>11. CASE SlotFree
  <2>1. UNCHANGED <<in_hand, generating, failed, queue, dropped_samples, staleness_samples,
                    overlooked, t_pc, stopping, local_trigger_step, collected>>
    BY <1>11, Zenon DEF SlotFree
  <2>2. Streaming /\ pc' \in {"drain", "top", "submit"}
    BY <1>11, Zenon DEF SlotFree, Streaming
  <2> QED
    BY <2>1, <2>2, StaleSame, Zenon
<1>12. CASE Submit
  <2>1. /\ pc = "submit" /\ pc' = "top" /\ in_hand = 1
        /\ UNCHANGED <<queue, failed, dropped_samples, staleness_samples, overlooked>>
    BY <1>12 DEF Submit, ControlInv
  <2>2. TakenSinceReset' = TakenSinceReset
    BY <1>12 DEF Submit, TakenSinceReset
  <2>3. Outstanding' = Outstanding
    BY <1>12, <2>1 DEF Submit, Outstanding
  <2> QED
    BY <2>1, <2>2, <2>3 DEF StaleInv, Open, Streaming
<1>13. CASE AllFinished
  BY ZenonT(30), <1>13 DEF AllFinished,
     StaleInv, ControlInv, TrainerInv, Outstanding, TakenSinceReset, Open, Streaming
<1>14. CASE SendEndSignal
  BY ZenonT(30), <1>14 DEF SendEndSignal,
     StaleInv, ControlInv, TrainerInv, Outstanding, TakenSinceReset, Open, Streaming
<1>15. CASE StopRollouter
  <2>1. UNCHANGED <<in_hand, generating, failed, queue, dropped_samples, staleness_samples,
                    overlooked, t_pc, stopping, local_trigger_step, collected>>
    BY <1>15, Zenon DEF StopRollouter
  <2>2. pc' = "stopped"
    BY <1>15, Zenon DEF StopRollouter, Streaming
  <2> QED
    BY <2>1, <2>2, StaleSame, Zenon
<1>16. CASE GetSample
  <2>1. /\ UNCHANGED <<pc, in_hand, generating, failed, staleness_samples, dropped_samples, overlooked>>
        /\ Len(queue') = Len(queue) - 1 /\ Len(queue) >= 1
    BY <1>16 DEF GetSample
  <2>2. CASE Head(queue) = "end"
    <3>1. TakenSinceReset' <= TakenSinceReset /\ TakenSinceReset' \in Nat
      BY <1>16, <2>2, StepSamples DEF GetSample, TakenSinceReset
    <3>2. ~Streaming
      BY <1>16, <2>1, <2>2 DEF GetSample, ControlInv, Streaming
    <3> QED
      BY <1>0, <2>1, <3>1, <3>2 DEF StaleInv, Outstanding, Open, Streaming
  <2>3. CASE Head(queue) # "end"
    <3>1. TakenSinceReset' = TakenSinceReset + 1
      BY <1>16, <2>3, StepSamples DEF GetSample, TakenSinceReset
    <3> QED
      BY <1>0, <2>1, <3>1 DEF StaleInv, Outstanding, Open, Streaming
  <2> QED
    BY <2>2, <2>3
<1>17. CASE TrainStep
  <2>1. UNCHANGED <<pc, in_hand, generating, failed, staleness_samples, queue, dropped_samples, overlooked>>
    BY <1>17 DEF TrainStep
  <2>2. CASE pc \in {"sent", "stopped"}
    BY <2>1, <2>2 DEF StaleInv, Open, Streaming
  <2>3. CASE pc \notin {"sent", "stopped"}
    <3>1. ~stopping /\ ~stopping' /\ collected = RequiredSamples
      BY <1>17, <2>3 DEF TrainStep, ControlInv, TrainerInv
    <3>2. TakenSinceReset = (local_trigger_step - 1) * RequiredSamples + RequiredSamples
      BY <1>17, <3>1 DEF TrainStep, TakenSinceReset
    <3>3. TakenSinceReset' = TakenSinceReset
      <4>1. CASE local_trigger_step < TriggerStep
        <5>1. t_pc' = "save" /\ collected' = 0 /\ local_trigger_step' = local_trigger_step + 1
          BY <1>17, <4>1 DEF TrainStep
        <5>2. TakenSinceReset' = (local_trigger_step + 1 - 1) * RequiredSamples + 0
          BY <5>1 DEF TakenSinceReset
        <5> QED
          BY <3>2, <5>2, StepSamples
      <4>2. CASE ~(local_trigger_step < TriggerStep)
        <5>1. TakenSinceReset' = ParamSyncSamples
          BY <1>17, <3>1, <4>2 DEF TrainStep, TakenSinceReset
        <5>2. local_trigger_step = TriggerStep
          BY <4>2
        <5> QED
          BY <3>2, <5>1, <5>2, StepSamples
      <4> QED
        BY <4>1, <4>2
    <3> QED
      BY <1>0, <2>1, <3>3 DEF StaleInv, Outstanding, Open, Streaming
  <2> QED
    BY <2>2, <2>3
<1>18. CASE AbortReplicas
  BY ZenonT(30), <1>18 DEF AbortReplicas,
     StaleInv, ControlInv, TrainerInv, Outstanding, TakenSinceReset, Open, Streaming
<1>19. CASE ResumeReplicas
  BY ZenonT(30), <1>19 DEF ResumeReplicas,
     StaleInv, ControlInv, TrainerInv, Outstanding, TakenSinceReset, Open, Streaming
<1>20. CASE ResetStaleness
  BY ZenonT(30), <1>20 DEF ResetStaleness,
     StaleInv, ControlInv, TrainerInv, Outstanding, TakenSinceReset, Open, Streaming
<1>21. CASE GetQueueSize
  BY ZenonT(30), <1>21 DEF GetQueueSize,
     StaleInv, ControlInv, TrainerInv, Outstanding, TakenSinceReset, Open, Streaming
<1>22. CASE AssignStaleness
  <2>1. /\ UNCHANGED <<pc, in_hand, generating, failed, queue, dropped_samples>>
        /\ staleness_samples' = counted_tasks + counted_queue
        /\ overlooked' = in_hand
    BY <1>22, Zenon DEF AssignStaleness
  <2>1a. /\ t_pc = "assign" /\ t_pc' = "save" /\ collected' = 0 /\ local_trigger_step' = 1
         /\ stopping' = stopping
    BY <1>22 DEF AssignStaleness, TrainerInv
  <2>1b. TakenSinceReset' = (1 - 1) * RequiredSamples + 0
    BY <2>1a DEF TakenSinceReset
  <2>1c. TakenSinceReset' = 0
    BY <2>1b, FullyAsyncAssumption
  <2>2. CASE pc \in {"sent", "stopped"}
    BY <2>1, <2>1c, <2>2 DEF StaleInv, Open, Streaming
  <2>3. CASE pc \notin {"sent", "stopped"}
    <3>1. /\ counted_tasks = generating + putting + done + failed
          /\ counted_queue <= Len(queue)
          /\ generating + Len(queue) <= counted_tasks + counted_queue
      BY <1>22, <2>3 DEF AssignStaleness, CountInv, ActiveTasks
    <3>2. putting + done <= MaxConcurrentSamples
      BY DEF ActiveTasks
    <3>3. TakenSinceReset = ParamSyncSamples
      BY <2>1a, <2>3 DEF TakenSinceReset, ControlInv
    <3>3a. ParamSyncSamples >= 1
      BY StepSamples, FullyAsyncAssumption
    <3>4. Outstanding' = Outstanding
      BY <2>1, <2>1c DEF Outstanding
    <3>5. pc = "get" => in_hand = 0
      BY DEF ControlInv
    <3>6. Open => /\ Outstanding <= staleness_samples' + in_hand
                  /\ Outstanding <= MaxRequiredSamples
                  /\ pc = "get" => Outstanding < MaxRequiredSamples
      BY <1>0, <2>1, <2>1c, <3>1, <3>3, <3>3a DEF StaleInv, Outstanding, Open
    <3>7. Streaming => staleness_samples' <= Outstanding + failed + MaxConcurrentSamples
                                             + dropped_samples
      BY <2>1, <2>1c, <3>1, <3>2 DEF Outstanding
    <3> QED
      BY SMTT(30), <1>0, <1>a, <2>1, <2>1c, <3>4, <3>5, <3>6, <3>7 DEF StaleInv, Open, Streaming
  <2> QED
    BY <2>2, <2>3
<1>23. CASE SaveCheckpoint
  BY ZenonT(30), <1>23 DEF SaveCheckpoint,
     StaleInv, ControlInv, TrainerInv, Outstanding, TakenSinceReset, Open, Streaming
<1>24. CASE StopTraining
  BY ZenonT(30), <1>24 DEF StopTraining,
     StaleInv, ControlInv, TrainerInv, Outstanding, TakenSinceReset, Open, Streaming
<1>25. CASE GenerateAndPut
  <2>1. /\ UNCHANGED <<pc, in_hand, failed, staleness_samples, overlooked>>
        /\ generating' = generating - 1
        /\ TakenSinceReset' = TakenSinceReset
    BY <1>25 DEF GenerateAndPut, TakenSinceReset
  <2>2. \/ Len(queue') = Len(queue) + 1 /\ dropped_samples' = dropped_samples
        \/ Len(queue') = Len(queue) /\ dropped_samples' = dropped_samples + 1
    BY <1>25, PutSampleFacts DEF GenerateAndPut
  <2>3. \/ Outstanding' = Outstanding /\ dropped_samples' = dropped_samples
        \/ Outstanding' = Outstanding - 1 /\ dropped_samples' = dropped_samples + 1
    BY <1>a, <2>1, <2>2 DEF Outstanding
  <2> HIDE FullyAsyncAssumption DEF CountsOK, vars, feedVars, procVars, taskVars, pauseVars,
         monVars, mqVars, trainVars, countVars, ckptVars, boundVars
  <2> QED
    BY <1>0, <1>d, <2>1, <2>3 DEF StaleInv, Open, Streaming
<1>26. CASE GenerationFails
  <2>1. /\ UNCHANGED <<pc, in_hand, staleness_samples, queue, dropped_samples, overlooked>>
        /\ generating' = generating - 1 /\ failed' = failed + 1
        /\ TakenSinceReset' = TakenSinceReset
    BY ZenonT(30), <1>26 DEF GenerationFails, TakenSinceReset
  <2> QED
    BY <1>0, <2>1 DEF StaleInv, Outstanding, Open, Streaming
<1>27. CASE TaskDone
  <2>1. UNCHANGED <<in_hand, generating, failed, queue, dropped_samples, staleness_samples,
                    overlooked, t_pc, stopping, local_trigger_step, collected>>
    BY <1>27, Zenon DEF TaskDone
  <2>2. pc' = pc
    BY <1>27, Zenon DEF TaskDone, Streaming
  <2> QED
    BY <2>1, <2>2, StaleSame, Zenon
<1>28. CASE Crash
  <2>1. 1 \in 1..TriggerStep /\ MaxRequiredSamples \in Nat /\ MaxConcurrentSamples \in Nat
    OBVIOUS
  <2>2. RequiredSamples \in Nat
    BY <2>1, StepSamples
  <2>3. TakenSinceReset' = 0
    BY <1>28, <2>2 DEF Crash, TakenSinceReset
  <2>4. /\ Outstanding' = 0 /\ staleness_samples' = 0 /\ failed' = 0
        /\ dropped_samples' = 0 /\ pc' = "top" /\ overlooked' = 0
    BY SMTT(30), <1>28 DEF Crash, Outstanding
  <2> QED
    BY <2>1, <2>3, <2>4 DEF StaleInv
<1>29. CASE MonitorWakes
  <2>1. UNCHANGED <<in_hand, generating, failed, queue, dropped_samples, staleness_samples,
                    overlooked, t_pc, stopping, local_trigger_step, collected>>
    BY <1>29, Zenon DEF MonitorWakes
  <2>2. pc' = pc
    BY <1>29, Zenon DEF MonitorWakes, Streaming
  <2> QED
    BY <2>1, <2>2, StaleSame, Zenon
<1>30. CASE MonitorDecides
  <2>1. UNCHANGED <<in_hand, generating, failed, queue, dropped_samples, staleness_samples,
                    overlooked, t_pc, stopping, local_trigger_step, collected>>
    BY <1>30, Zenon DEF MonitorDecides
  <2>2. pc' = pc
    BY <1>30, Zenon DEF MonitorDecides, Streaming
  <2> QED
    BY <2>1, <2>2, StaleSame, Zenon
<1>31. CASE MonitorResumes
  <2>1. UNCHANGED <<in_hand, generating, failed, queue, dropped_samples, staleness_samples,
                    overlooked, t_pc, stopping, local_trigger_step, collected>>
    BY <1>31, Zenon DEF MonitorResumes
  <2>2. pc' = pc
    BY <1>31, Zenon DEF MonitorResumes, Streaming
  <2> QED
    BY <2>1, <2>2, StaleSame, Zenon
<1>32. CASE MonitorStops
  <2>1. UNCHANGED <<in_hand, generating, failed, queue, dropped_samples, staleness_samples,
                    overlooked, t_pc, stopping, local_trigger_step, collected>>
    BY <1>32, Zenon DEF MonitorStops
  <2>2. pc' = pc
    BY <1>32, Zenon DEF MonitorStops, Streaming
  <2> QED
    BY <2>1, <2>2, StaleSame, Zenon
<1> QED
  BY <1>1, <1>2, <1>3, <1>4, <1>5, <1>6, <1>7, <1>8, <1>9, <1>10, <1>11, <1>12, <1>13,
     <1>14, <1>15, <1>16, <1>17, <1>18, <1>19, <1>20, <1>21, <1>22, <1>23, <1>24,
     <1>25, <1>26, <1>27, <1>28, <1>29, <1>30, <1>31, <1>32 DEF Next, Processor, Monitor, Trainer

\* Every step preserves the inductive invariant.
LEMMA NextIInv ==
    ASSUME IInv, [Next]_vars
    PROVE  IInv'
<1>1. CASE Next
  <2>1. FlagsOK' BY <1>1, FlagsStep DEF IInv
  <2>1a. DataOK' /\ EpochInv' BY <1>1, DataStep DEF IInv
  <2>2. CountsOK' BY <1>1, CountsStep DEF IInv
  <2>3. ControlInv' BY <1>1, ControlStep DEF IInv
  <2>4. TrainerInv' BY <1>1, TrainerStep DEF IInv
  <2>5. CountInv' BY <1>1, CountStep DEF IInv
  <2>6. StaleInv' BY <1>1, StaleStep DEF IInv
  <2> QED BY <2>1, <2>1a, <2>2, <2>3, <2>4, <2>5, <2>6 DEF IInv
<1>2. CASE UNCHANGED vars
  <2>0. UNCHANGED <<feed_pc, global_steps, pending, pc, in_hand, generating, putting, done, failed,
                    staleness_samples, lock, mon_pc, queue, dropped_samples, t_pc, collected,
                    local_trigger_step, current_param_version, last_ckpt_version, counted_tasks,
                    counted_queue, overlooked, failures, crashes>>
    BY <1>2, Zenon DEF vars, feedVars, procVars, taskVars, monVars, mqVars, trainVars, countVars,
                       ckptVars, boundVars
  <2>2. CountsOK' BY <2>0, SMTT(30) DEF IInv, CountsOK, ActiveTasks
  <2> USE <1>2 DEF vars, feedVars, procVars, taskVars, pauseVars, monVars, mqVars,
          trainVars, countVars, ckptVars, boundVars, IInv
  <2>1. FlagsOK' BY ZenonT(30) DEF FlagsOK
  <2>1a. DataOK' /\ EpochInv' BY DEF DataOK, EpochInv
  <2>3. ControlInv' BY DEF ControlInv, ActiveTasks
  <2>4. TrainerInv' BY ZenonT(30) DEF TrainerInv
  <2>5. CountInv' BY DEF CountInv, ActiveTasks
  <2>6. StaleInv'
    BY ZenonT(30) DEF StaleInv, Outstanding, TakenSinceReset, Open, Streaming
  <2> QED BY <2>1, <2>1a, <2>2, <2>3, <2>4, <2>5, <2>6 DEF IInv
<1> QED BY <1>1, <1>2

\* The inductive invariant holds throughout: the processor's bookkeeping of
\* stale samples agrees with the samples there are, up to the one in hand
\* and the tasks reset_staleness counts although their sample is queued.
THEOREM InductiveInvariant == Spec => []IInv
<1>1. Init => IInv BY InitIInv
<1>2. IInv /\ [Next]_vars => IInv' BY NextIInv
<1> QED BY <1>1, <1>2, PTL DEF Spec

\* Every variable keeps its type; in particular the processor never holds
\* more than max_concurrent_samples tasks and MessageQueue never grows over
\* its maximum.
THEOREM TypeCorrect == Spec => []TypeOK
<1>1. IInv => TypeOK BY TypeParts DEF IInv
<1> QED BY <1>1, InductiveInvariant, PTL

\* For every batch size, trigger step, threshold and number of tasks,
\* _processor_worker and reset_staleness keep the samples asked for between
\* two weight updates within max_required_samples, and one more only when the
\* processor had a sample in hand as the last recount ended.
THEOREM OutstandingStaysBounded == Spec => []OutstandingBounded
<1>1. IInv => OutstandingBounded BY DEF IInv, StaleInv, Open, OutstandingBounded
<1> QED BY <1>1, InductiveInvariant, PTL

\* A configuration whose tasks fit into the part of max_required_samples
\* that staleness_threshold adds never stalls: what reset_staleness counts
\* twice cannot fill the quota, so a paused rollouter has left the trainer
\* enough for its next version.
THEOREM NoMutualWait ==
    ASSUME MaxConcurrentSamples + ParamSyncSamples <= MaxRequiredSamples
    PROVE  Spec => []NeverBothWait
<1>1. IInv => NeverBothWait
  <2> SUFFICES ASSUME IInv, dropped_samples = 0, t_pc = "collect", queue = <<>>, pc = "drain",
                      ActiveTasks = 0
               PROVE  ~(staleness_samples >= MaxRequiredSamples)
    BY DEF NeverBothWait
  <2>1. /\ generating = 0 /\ failed = 0 /\ in_hand = 0 /\ Len(queue) = 0
        /\ collected \in Nat /\ collected < RequiredSamples
        /\ local_trigger_step \in 1..TriggerStep
        /\ staleness_samples \in Nat
    BY FullyAsyncAssumption DEF IInv, CountsOK, ActiveTasks, ControlInv, TrainerInv
  <2>2. TakenSinceReset = (local_trigger_step - 1) * RequiredSamples + collected
    BY DEF TakenSinceReset
  <2>3. TakenSinceReset < ParamSyncSamples /\ TakenSinceReset \in Nat /\ ParamSyncSamples \in Nat
    BY <2>1, <2>2, StepSamples
  <2>4. Outstanding = 0
    BY <2>1 DEF Outstanding
  <2>5. staleness_samples <= TakenSinceReset + MaxConcurrentSamples
    BY <2>1, <2>3, <2>4, FullyAsyncAssumption DEF IInv, StaleInv, Streaming
  <2> QED
    BY <2>1, <2>3, <2>5, FullyAsyncAssumption
<1> QED BY <1>1, InductiveInvariant, PTL
=============================================================================
