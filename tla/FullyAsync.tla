----------------------------- MODULE FullyAsync -----------------------------
(***************************************************************************)
(* verl's fully asynchronous training: a FullyAsyncRollouter streams       *)
(* samples into a MessageQueue, a FullyAsyncTrainer takes them out, trains *)
(* and every TriggerStep steps sends new weights and tells the rollouter   *)
(* to recount its stale samples.  Three actors run concurrently; inside    *)
(* the rollouter the feeder, the processor, the monitor, the sample tasks  *)
(* and reset_staleness are coroutines of one event loop, so a step below   *)
(* is what runs between two awaits.                                        *)
(*                                                                         *)
(* No control depends on which sample is which: the tasks are counted by   *)
(* the state they are in, the queue keeps the order of samples and of the  *)
(* end signal None.  A local variable goes back to its first value where   *)
(* its last use is.                                                        *)
(***************************************************************************)
EXTENDS Integers, Sequences

CONSTANTS
    EpochLength,          \* len(self.train_dataloader), a sample a batch
    TotalEpochs,          \* trainer.total_epochs
    TotalRolloutSteps,    \* samples the run is to generate
    RequiredSamples,      \* samples of one training step
    TriggerStep,          \* training steps between two weight updates
    MaxRequiredSamples,   \* int(required_samples * (staleness_threshold + 1) * trigger step)
    MaxConcurrentSamples, \* min(16 per replica, max_required_samples)
    PendingSize,          \* maxsize of the pending queue (128 in the code)
    TestFreq,             \* trainer.test_freq
    SaveFreq,             \* trainer.save_freq
    MaxFaults             \* bound: generations that raise, and restarts of the job

\* Samples the trainer takes between two weight updates.
ParamSyncSamples == RequiredSamples * TriggerStep

ASSUME FullyAsyncAssumption ==
    /\ EpochLength \in Nat \ {0} /\ TotalEpochs \in Nat \ {0}
    /\ TotalRolloutSteps \in Nat \ {0} /\ RequiredSamples \in Nat \ {0}
    /\ TriggerStep \in Nat \ {0} /\ MaxRequiredSamples \in Nat \ {0}
    /\ MaxConcurrentSamples \in Nat \ {0} /\ PendingSize \in Nat \ {0}
    /\ TestFreq \in Nat \ {0}
    /\ SaveFreq \in Nat /\ MaxFaults \in Nat
    /\ TotalRolloutSteps <= TotalEpochs * EpochLength
    /\ ParamSyncSamples <= MaxRequiredSamples
    /\ MaxConcurrentSamples <= MaxRequiredSamples

VARIABLES
    feed_pc, global_steps, pending,                 \* _feed_samples, pending_queue
    epoch, position,                                \* where train_dataloader stands
    pc, in_hand, queue_full,                        \* _processor_worker
    generating, putting, done, failed,              \* the members of active_tasks
    paused, resume_event, staleness_samples, running, lock,
    mon_pc, mon_full,                               \* _async_monitor_loop
    queue, dropped_samples,                         \* MessageQueue
    t_pc, stopping, collected, local_trigger_step, current_param_version,
    counted_tasks, counted_queue,                   \* trainer, reset_staleness
    replicas_paused,
    last_ckpt_version, ckpt_position,               \* the checkpoint on disk
    failures, crashes,                              \* what the bounds count
    overlooked, drops, ckpt_drops                   \* history: the sample that the last
                                                    \* recount missed; samples dropped up
                                                    \* to now and up to the checkpoint

feedVars == <<feed_pc, global_steps, pending, epoch, position>>
procVars == <<pc, in_hand, queue_full>>
taskVars == <<generating, putting, done, failed>>
pauseVars == <<paused, resume_event>>
monVars == <<mon_pc, mon_full>>
mqVars == <<queue, dropped_samples, drops>>
countVars == <<counted_tasks, counted_queue, overlooked>>
ckptVars == <<last_ckpt_version, ckpt_position, ckpt_drops>>
trainVars == <<t_pc, stopping, collected, local_trigger_step, current_param_version,
               countVars, ckptVars, replicas_paused>>
boundVars == <<failures, crashes>>
vars == <<feedVars, procVars, taskVars, pauseVars, staleness_samples, running, lock,
          monVars, mqVars, trainVars, boundVars>>

MaxQueueSize == MaxRequiredSamples

\* len(self.active_tasks): a task stays in the set after it is done, until
\* the processor takes it out.
ActiveTasks == generating + putting + done + failed

Init ==
    /\ feed_pc = "feed" /\ global_steps = 1 /\ pending = <<>>
    /\ epoch = 0 /\ position = 1
    /\ pc = "top" /\ in_hand = 0 /\ queue_full = FALSE
    /\ generating = 0 /\ putting = 0 /\ done = 0 /\ failed = 0
    /\ paused = FALSE /\ resume_event = TRUE
    /\ staleness_samples = 0
    /\ running = TRUE
    /\ lock = "free"
    /\ mon_pc = "sleep" /\ mon_full = FALSE
    /\ queue = <<>> /\ dropped_samples = 0
    /\ t_pc = "collect" /\ stopping = FALSE /\ collected = 0
    /\ local_trigger_step = 1
    /\ current_param_version = 0
    /\ counted_tasks = 0 /\ counted_queue = 0
    /\ replicas_paused = FALSE
    /\ last_ckpt_version = 0 /\ ckpt_position = 0
    /\ failures = 0 /\ crashes = 0
    /\ overlooked = 0 /\ drops = 0 /\ ckpt_drops = 0

-----------------------------------------------------------------------------
(* MessageQueue.put_sample: a full queue loses its oldest entry.            *)

PutSample(s) ==
    IF Len(queue) >= MaxQueueSize
    THEN /\ queue' = Append(Tail(queue), s)
         /\ dropped_samples' = dropped_samples + 1
         /\ drops' = drops + 1
    ELSE /\ queue' = Append(queue, s)
         /\ UNCHANGED <<dropped_samples, drops>>

-----------------------------------------------------------------------------
(* _feed_samples                                                            *)

\* The header of the feeder's loop: the next batch of
\* _create_continuous_iterator, when the dataloader has handed out p of the
\* epoch e.  A dataloader that was run to its end starts afresh.
NextBatch(e, p) ==
    IF p < EpochLength
    THEN feed_pc' = "feed" /\ epoch' = e /\ position' = p + 1
    ELSE /\ epoch' = e + 1
         /\ IF e + 1 < TotalEpochs
            THEN feed_pc' = "feed" /\ position' = 1
            ELSE feed_pc' = "end" /\ position' = 0

\* Puts the batch it holds into the pending queue, waiting while that is full,
\* and takes the next one unless this was the last step.
Feed ==
    /\ feed_pc = "feed"
    /\ Len(pending) < PendingSize
    /\ pending' = Append(pending, "sample")
    /\ IF global_steps >= TotalRolloutSteps
       THEN feed_pc' = "end" /\ UNCHANGED <<global_steps, epoch, position>>
       ELSE global_steps' = global_steps + 1 /\ NextBatch(epoch, position)
    /\ UNCHANGED <<procVars, taskVars, pauseVars, staleness_samples, running, lock,
                   monVars, mqVars, trainVars, boundVars>>

FeedEnd ==
    /\ feed_pc = "end"
    /\ Len(pending) < PendingSize
    /\ pending' = Append(pending, "end")
    /\ feed_pc' = "done"
    /\ UNCHANGED <<global_steps, epoch, position, procVars, taskVars, pauseVars, staleness_samples, running,
                   lock, monVars, mqVars, trainVars, boundVars>>

-----------------------------------------------------------------------------
(* _processor_worker                                                        *)

\* The top of the loop: a paused processor goes to wait, another asks the
\* queue for its size.
CheckPaused ==
    /\ pc = "top"
    /\ IF paused
       THEN pc' = "pausing" /\ UNCHANGED queue_full
       ELSE pc' = "decide" /\ queue_full' = (Len(queue) >= MaxQueueSize)
    /\ UNCHANGED <<feedVars, in_hand, taskVars, pauseVars, staleness_samples, running, lock,
                   monVars, mqVars, trainVars, boundVars>>

\* Mutant: only the queue's size is looked at.
MutShouldPauseGeneration(full) == full

\* _should_pause_generation, once the queue has answered: the size is the
\* answer's, the count of stale samples is today's.
ShouldPauseGeneration(full) == full \/ staleness_samples >= MaxRequiredSamples

DecidePause ==
    /\ pc = "decide"
    /\ pc' = IF ShouldPauseGeneration(queue_full) THEN "pausing" ELSE "get"
    /\ queue_full' = FALSE
    /\ UNCHANGED <<feedVars, in_hand, taskVars, pauseVars, staleness_samples,
                   running, lock, monVars, mqVars, trainVars, boundVars>>

Pause ==
    /\ pc = "pausing"
    /\ lock = "free"
    /\ paused' = TRUE
    /\ resume_event' = FALSE
    /\ pc' = "drain"
    /\ UNCHANGED <<feedVars, in_hand, queue_full, taskVars, staleness_samples, running, lock,
                   monVars, mqVars, trainVars, boundVars>>

\* The drain loop takes out the tasks that are done; awaiting one that
\* failed raises, and the processor is gone.
Drain ==
    /\ pc = "drain"
    /\ lock = "free"
    /\ done + failed > 0
    /\ done' = 0 /\ failed' = 0
    /\ pc' = IF failed > 0 THEN "raised" ELSE IF resume_event THEN "top" ELSE "drain"
    /\ UNCHANGED <<feedVars, in_hand, queue_full, generating, putting, pauseVars,
                   staleness_samples, running, lock, monVars, mqVars, trainVars, boundVars>>

\* The resume signal ends the drain, whatever is still running.
Resume ==
    /\ pc = "drain"
    /\ resume_event
    /\ pc' = "top"
    /\ UNCHANGED <<feedVars, in_hand, queue_full, taskVars, pauseVars, staleness_samples,
                   running, lock, monVars, mqVars, trainVars, boundVars>>

\* The sample taken is counted at once, before it is anywhere else.
GetPending ==
    /\ pc = "get"
    /\ pending # <<>>
    /\ pending' = Tail(pending)
    /\ staleness_samples' = staleness_samples + 1
    /\ IF Head(pending) = "end"
       THEN pc' = "ending" /\ UNCHANGED in_hand
       ELSE pc' = "limit" /\ in_hand' = 1
    /\ UNCHANGED <<feed_pc, global_steps, epoch, position, queue_full, taskVars, pauseVars, running, lock,
                   monVars, mqVars, trainVars, boundVars>>

\* Too many tasks, or at the end any task at all.
MustWait ==
    \/ pc = "limit" /\ ActiveTasks >= MaxConcurrentSamples
    \/ pc = "ending" /\ ActiveTasks > 0

\* The lock is held while waiting for a task to be done.
WaitForTask ==
    /\ MustWait
    /\ lock = "free"
    /\ lock' = "processor"
    /\ UNCHANGED <<feedVars, procVars, taskVars, pauseVars, staleness_samples, running,
                   monVars, mqVars, trainVars, boundVars>>

TakeFinished ==
    /\ lock = "processor"
    /\ done + failed > 0
    /\ done' = 0 /\ failed' = 0
    /\ lock' = "free"
    /\ IF failed > 0 THEN pc' = "raised" /\ in_hand' = 0 ELSE UNCHANGED <<pc, in_hand>>
    /\ UNCHANGED <<feedVars, queue_full, generating, putting, pauseVars, staleness_samples,
                   running, monVars, mqVars, trainVars, boundVars>>

\* Mutant: the limit lets one task too many through.
MutSlotFree ==
    /\ pc = "limit"
    /\ lock # "processor"
    /\ ActiveTasks <= MaxConcurrentSamples
    /\ pc' = "submit"
    /\ UNCHANGED <<feedVars, in_hand, queue_full, taskVars, pauseVars, staleness_samples,
                   running, lock, monVars, mqVars, trainVars, boundVars>>

SlotFree ==
    /\ pc = "limit"
    /\ lock # "processor"
    /\ ActiveTasks < MaxConcurrentSamples
    /\ pc' = "submit"
    /\ UNCHANGED <<feedVars, in_hand, queue_full, taskVars, pauseVars, staleness_samples,
                   running, lock, monVars, mqVars, trainVars, boundVars>>

Submit ==
    /\ pc = "submit"
    /\ paused => resume_event
    /\ lock = "free"
    /\ generating' = generating + 1
    /\ in_hand' = 0
    /\ pc' = "top"
    /\ UNCHANGED <<feedVars, queue_full, putting, done, failed, pauseVars, staleness_samples,
                   running, lock, monVars, mqVars, trainVars, boundVars>>

\* Mutant: the processor leaves without waiting for its tasks.
MutAllFinished ==
    /\ pc = "ending"
    /\ lock # "processor"
    /\ pc' = "exited"
    /\ UNCHANGED <<feedVars, in_hand, queue_full, taskVars, pauseVars, staleness_samples,
                   running, lock, monVars, mqVars, trainVars, boundVars>>

AllFinished ==
    /\ pc = "ending"
    /\ lock # "processor"
    /\ ActiveTasks = 0
    /\ pc' = "exited"
    /\ UNCHANGED <<feedVars, in_hand, queue_full, taskVars, pauseVars, staleness_samples,
                   running, lock, monVars, mqVars, trainVars, boundVars>>

\* _streaming_generation_main once the processor is gone, however it went:
\* the feeder is cancelled and the trainer is told that no sample follows.
SendEndSignal ==
    /\ pc \in {"exited", "raised"}
    /\ PutSample("end")
    /\ pc' = "sent"
    /\ feed_pc' = "done"
    /\ UNCHANGED <<global_steps, pending, epoch, position, in_hand, queue_full, taskVars,
                   pauseVars, staleness_samples, running, lock, monVars, trainVars, boundVars>>

StopRollouter ==
    /\ pc = "sent"
    /\ lock = "free"
    /\ running' = FALSE
    /\ pc' = "stopped"
    /\ UNCHANGED <<feedVars, in_hand, queue_full, taskVars, pauseVars, staleness_samples,
                   lock, monVars, mqVars, trainVars, boundVars>>

-----------------------------------------------------------------------------
(* _process_single_sample_streaming                                         *)

\* Generation ends and the sample is put; the replicas generate nothing
\* while they are paused for new weights.
GenerateAndPut ==
    /\ generating > 0
    /\ ~replicas_paused
    /\ generating' = generating - 1
    /\ putting' = putting + 1
    /\ PutSample("sample")
    /\ UNCHANGED <<feedVars, procVars, done, failed, pauseVars, staleness_samples, running,
                   lock, monVars, trainVars, boundVars>>

GenerationFails ==
    /\ generating > 0
    /\ failures + crashes < MaxFaults
    /\ failures' = failures + 1
    /\ generating' = generating - 1
    /\ failed' = failed + 1
    /\ UNCHANGED <<feedVars, procVars, putting, done, pauseVars, staleness_samples, running,
                   lock, monVars, mqVars, trainVars, crashes>>

\* The answer of put_sample comes back and the task is done.
TaskDone ==
    /\ putting > 0
    /\ putting' = putting - 1
    /\ done' = done + 1
    /\ UNCHANGED <<feedVars, procVars, generating, failed, pauseVars, staleness_samples,
                   running, lock, monVars, mqVars, trainVars, boundVars>>

-----------------------------------------------------------------------------
(* _async_monitor_loop                                                      *)

MonitorWakes ==
    /\ mon_pc = "sleep"
    /\ running
    /\ paused
    /\ mon_full' = (Len(queue) >= MaxQueueSize)
    /\ mon_pc' = "decide"
    /\ UNCHANGED <<feedVars, procVars, taskVars, pauseVars, staleness_samples, running, lock,
                   mqVars, trainVars, boundVars>>

MonitorDecides ==
    /\ mon_pc = "decide"
    /\ mon_pc' = IF ShouldPauseGeneration(mon_full) THEN "sleep" ELSE "resume"
    /\ mon_full' = FALSE
    /\ UNCHANGED <<feedVars, procVars, taskVars, pauseVars, staleness_samples, running, lock,
                   mqVars, trainVars, boundVars>>

\* Mutant: the monitor unsets the flag but wakes nobody.
MutMonitorResumes ==
    /\ mon_pc = "resume"
    /\ lock = "free"
    /\ paused' = FALSE
    /\ mon_pc' = "sleep"
    /\ UNCHANGED <<feedVars, procVars, taskVars, resume_event, staleness_samples, running,
                   lock, mon_full, mqVars, trainVars, boundVars>>

MonitorResumes ==
    /\ mon_pc = "resume"
    /\ lock = "free"
    /\ paused' = FALSE
    /\ resume_event' = TRUE
    /\ mon_pc' = "sleep"
    /\ UNCHANGED <<feedVars, procVars, taskVars, staleness_samples, running, lock, mon_full,
                   mqVars, trainVars, boundVars>>

MonitorStops ==
    /\ mon_pc = "sleep"
    /\ ~running
    /\ mon_pc' = "stopped"
    /\ UNCHANGED <<feedVars, procVars, taskVars, pauseVars, staleness_samples, running, lock,
                   mon_full, mqVars, trainVars, boundVars>>

-----------------------------------------------------------------------------
(* FullyAsyncTrainer                                                        *)

\* _get_samples_from_queue, one get_sample: the end signal stops the
\* training, and what was collected for the step is not used.
GetSample ==
    /\ t_pc = "collect"
    /\ queue # <<>>
    /\ queue' = Tail(queue)
    /\ IF Head(queue) = "end"
       THEN t_pc' = "final" /\ collected' = 0
       ELSE /\ collected' = collected + 1
            /\ t_pc' = IF collected + 1 = RequiredSamples THEN "train" ELSE "collect"
    /\ UNCHANGED <<feedVars, procVars, taskVars, pauseVars, staleness_samples, running, lock,
                   monVars, dropped_samples, drops, stopping, local_trigger_step,
                   current_param_version, countVars, ckptVars, replicas_paused, boundVars>>

\* A training step and _fit_update_local_step; only the last step of a
\* version goes on to update the rollout weights.
TrainStep ==
    /\ t_pc = "train"
    /\ collected' = 0
    /\ IF local_trigger_step < TriggerStep
       THEN /\ local_trigger_step' = local_trigger_step + 1
            /\ t_pc' = "save"
            /\ UNCHANGED current_param_version
       ELSE /\ local_trigger_step' = 1
            /\ current_param_version' = current_param_version + 1
            /\ t_pc' = "abort"
    /\ UNCHANGED <<feedVars, procVars, taskVars, pauseVars, staleness_samples, running, lock,
                   monVars, mqVars, stopping, countVars, ckptVars, replicas_paused, boundVars>>

\* CheckpointEngineManager.update_weights: the replicas stop, and the
\* interrupted generations wait to go on with the new weights.
AbortReplicas ==
    /\ t_pc = "abort"
    /\ replicas_paused' = TRUE
    /\ t_pc' = "sync"
    /\ UNCHANGED <<feedVars, procVars, taskVars, pauseVars, staleness_samples, running, lock,
                   monVars, mqVars, stopping, collected, local_trigger_step,
                   current_param_version, countVars, ckptVars, boundVars>>

ResumeReplicas ==
    /\ t_pc = "sync"
    /\ replicas_paused' = FALSE
    /\ t_pc' = "reset"
    /\ UNCHANGED <<feedVars, procVars, taskVars, pauseVars, staleness_samples, running, lock,
                   monVars, mqVars, stopping, collected, local_trigger_step,
                   current_param_version, countVars, ckptVars, boundVars>>

\* reset_staleness up to its await: the tasks are counted before the queue.
ResetStaleness ==
    /\ t_pc = "reset"
    /\ lock = "free"
    /\ lock' = "reset"
    /\ paused' = FALSE
    /\ resume_event' = TRUE
    /\ counted_tasks' = ActiveTasks
    /\ t_pc' = "count"
    /\ UNCHANGED <<feedVars, procVars, taskVars, staleness_samples, running, monVars, mqVars,
                   stopping, collected, local_trigger_step, current_param_version,
                   counted_queue, overlooked, ckptVars, replicas_paused, boundVars>>

GetQueueSize ==
    /\ t_pc = "count"
    /\ counted_queue' = Len(queue)
    /\ t_pc' = "assign"
    /\ UNCHANGED <<feedVars, procVars, taskVars, pauseVars, staleness_samples, running, lock,
                   monVars, mqVars, stopping, collected, local_trigger_step,
                   current_param_version, counted_tasks, overlooked, ckptVars, replicas_paused,
                   boundVars>>

\* Mutant: the count goes on where it was.
MutKeepStaleness ==
    /\ t_pc = "assign"
    /\ lock' = "free"
    /\ t_pc' = "save"
    /\ UNCHANGED <<feedVars, procVars, taskVars, pauseVars, staleness_samples, running,
                   monVars, mqVars, stopping, collected, local_trigger_step,
                   current_param_version, countVars, ckptVars, replicas_paused, boundVars>>

\* The rest of reset_staleness.  What the processor counted meanwhile is
\* overwritten.
AssignStaleness ==
    /\ t_pc = "assign"
    /\ staleness_samples' = counted_tasks + counted_queue
    /\ overlooked' = in_hand
    /\ counted_tasks' = 0 /\ counted_queue' = 0
    /\ lock' = "free"
    /\ t_pc' = "save"
    /\ UNCHANGED <<feedVars, procVars, taskVars, pauseVars, running, monVars, mqVars,
                   stopping, collected, local_trigger_step, current_param_version, ckptVars, replicas_paused, boundVars>>

\* _fit_save_checkpoint: a version is saved once, with the position of the
\* dataloader at that moment, which is ahead of the samples trained by all
\* that is in flight.
SaveCheckpoint ==
    /\ t_pc = "save"
    /\ IF /\ current_param_version # last_ckpt_version
          /\ SaveFreq > 0
          /\ stopping \/ current_param_version % SaveFreq = 0
       THEN /\ last_ckpt_version' = current_param_version
            /\ ckpt_position' = position
            /\ ckpt_drops' = drops
       ELSE UNCHANGED ckptVars
    /\ t_pc' = IF stopping THEN "stopped" ELSE "collect"
    /\ UNCHANGED <<feedVars, procVars, taskVars, pauseVars, staleness_samples, running, lock,
                   monVars, mqVars, stopping, collected, local_trigger_step,
                   current_param_version, countVars, replicas_paused, boundVars>>

\* The tail of fit: the weights are sent once more when the last version
\* was not validated, unless a version is only half trained.
StopTraining ==
    /\ t_pc = "final"
    /\ stopping' = TRUE
    /\ t_pc' = IF current_param_version % TestFreq # 0 /\ local_trigger_step = 1
               THEN "abort" ELSE "save"
    /\ UNCHANGED <<feedVars, procVars, taskVars, pauseVars, staleness_samples, running, lock,
                   monVars, mqVars, collected, local_trigger_step, current_param_version,
                   countVars, ckptVars, replicas_paused, boundVars>>

-----------------------------------------------------------------------------
\* Mutant: load_checkpoint counts from the last sample trained, not from the next.
MutCrash ==
    /\ failures + crashes < MaxFaults
    /\ t_pc # "stopped"
    /\ crashes' = crashes + 1
    /\ global_steps' = last_ckpt_version * ParamSyncSamples /\ pending' = <<>>
    /\ NextBatch(0, ckpt_position)
    /\ pc' = "top" /\ in_hand' = 0 /\ queue_full' = FALSE
    /\ generating' = 0 /\ putting' = 0 /\ done' = 0 /\ failed' = 0
    /\ paused' = FALSE /\ resume_event' = TRUE
    /\ staleness_samples' = 0
    /\ running' = TRUE
    /\ lock' = "free"
    /\ mon_pc' = "sleep" /\ mon_full' = FALSE
    /\ queue' = <<>> /\ dropped_samples' = 0 /\ drops' = ckpt_drops
    /\ t_pc' = "collect" /\ stopping' = FALSE /\ collected' = 0
    /\ local_trigger_step' = 1
    /\ current_param_version' = last_ckpt_version
    /\ counted_tasks' = 0 /\ counted_queue' = 0 /\ overlooked' = 0
    /\ replicas_paused' = FALSE
    /\ UNCHANGED <<ckptVars, failures>>

\* The job dies and is started again from the last checkpoint it completed
\* (load_checkpoint of both actors).  What was in flight is gone: the count of
\* samples goes back to those the saved version was trained on, the dataloader
\* to where it stood when that version was saved.
Crash ==
    /\ failures + crashes < MaxFaults
    /\ t_pc # "stopped"
    /\ crashes' = crashes + 1
    /\ global_steps' = last_ckpt_version * ParamSyncSamples + 1 /\ pending' = <<>>
    /\ NextBatch(0, ckpt_position)
    /\ pc' = "top" /\ in_hand' = 0 /\ queue_full' = FALSE
    /\ generating' = 0 /\ putting' = 0 /\ done' = 0 /\ failed' = 0
    /\ paused' = FALSE /\ resume_event' = TRUE
    /\ staleness_samples' = 0
    /\ running' = TRUE
    /\ lock' = "free"
    /\ mon_pc' = "sleep" /\ mon_full' = FALSE
    /\ queue' = <<>> /\ dropped_samples' = 0 /\ drops' = ckpt_drops
    /\ t_pc' = "collect" /\ stopping' = FALSE /\ collected' = 0
    /\ local_trigger_step' = 1
    /\ current_param_version' = last_ckpt_version
    /\ counted_tasks' = 0 /\ counted_queue' = 0 /\ overlooked' = 0
    /\ replicas_paused' = FALSE
    /\ UNCHANGED <<ckptVars, failures>>

Processor ==
    \/ CheckPaused \/ DecidePause \/ Pause \/ Drain \/ Resume \/ GetPending
    \/ WaitForTask \/ TakeFinished \/ SlotFree \/ Submit \/ AllFinished
    \/ SendEndSignal \/ StopRollouter

Monitor == MonitorWakes \/ MonitorDecides \/ MonitorResumes \/ MonitorStops

Trainer ==
    \/ GetSample \/ TrainStep \/ AbortReplicas \/ ResumeReplicas \/ ResetStaleness
    \/ GetQueueSize \/ AssignStaleness \/ SaveCheckpoint \/ StopTraining

Next ==
    \/ Feed \/ FeedEnd \/ Processor \/ Monitor \/ Trainer
    \/ GenerateAndPut \/ GenerationFails \/ TaskDone
    \/ Crash

\* Coroutines are scheduled and calls are answered; nothing makes a
\* generation fail or a job crash.
Fairness ==
    /\ WF_vars(Feed \/ FeedEnd)
    /\ WF_vars(Processor)
    /\ WF_vars(Monitor)
    /\ WF_vars(Trainer)
    /\ WF_vars(GenerateAndPut)
    /\ WF_vars(TaskDone)

Spec == Init /\ [][Next]_vars /\ Fairness

-----------------------------------------------------------------------------
(* What the rollouter promises the trainer.                                 *)

\* Samples the trainer has taken since the last recount.
TakenSinceReset ==
    IF t_pc \in {"abort", "sync", "reset", "count", "assign"} /\ ~stopping
    THEN ParamSyncSamples
    ELSE (local_trigger_step - 1) * RequiredSamples + collected

\* Samples that were asked for and that the trainer has not taken.
Outstanding == in_hand + generating + Len(queue)

TypeOK ==
    /\ feed_pc \in {"feed", "end", "done"}
    /\ global_steps \in Nat \ {0}
    /\ epoch \in 0 .. TotalEpochs /\ position \in 0 .. EpochLength
    /\ pending \in Seq({"sample", "end"}) /\ Len(pending) <= PendingSize
    /\ pc \in {"top", "decide", "pausing", "drain", "get", "limit", "submit", "ending",
               "exited", "raised", "sent", "stopped"}
    /\ in_hand \in {0, 1}
    /\ queue_full \in BOOLEAN
    /\ generating \in Nat /\ putting \in Nat /\ done \in Nat /\ failed \in Nat
    /\ ActiveTasks <= MaxConcurrentSamples
    /\ paused \in BOOLEAN /\ resume_event \in BOOLEAN /\ running \in BOOLEAN
    /\ mon_full \in BOOLEAN /\ stopping \in BOOLEAN /\ replicas_paused \in BOOLEAN
    /\ staleness_samples \in Nat
    /\ lock \in {"free", "processor", "reset"}
    /\ mon_pc \in {"sleep", "decide", "resume", "stopped"}
    /\ queue \in Seq({"sample", "end"}) /\ Len(queue) <= MaxQueueSize
    /\ dropped_samples \in Nat /\ drops \in Nat
    /\ t_pc \in {"collect", "train", "abort", "sync", "reset", "count", "assign", "save",
                 "final", "stopped"}
    /\ collected \in 0..RequiredSamples
    /\ local_trigger_step \in 1..TriggerStep
    /\ current_param_version \in Nat
    /\ last_ckpt_version \in Nat /\ ckpt_position \in 0 .. EpochLength /\ ckpt_drops \in Nat
    /\ counted_tasks \in Nat /\ counted_queue \in Nat /\ overlooked \in {0, 1}
    /\ failures \in Nat /\ crashes \in Nat

\* Between two weight updates the rollouter asks for at most
\* max_required_samples samples, less the stale ones it starts with.  It asks
\* for one more exactly when the processor had a sample in hand as
\* reset_staleness finished: that sample is in neither of the places that are
\* counted.
OutstandingBounded ==
    pc \notin {"raised", "sent", "stopped"} =>
        Outstanding + TakenSinceReset <= MaxRequiredSamples + overlooked

\* The trainer never waits for a sample of a rollouter that waits for the
\* trainer: paused for its stale samples with nothing left to generate, in a
\* state from which the monitor will not resume it either.
NeverBothWait ==
    dropped_samples = 0 =>
        ~ /\ t_pc = "collect" /\ queue = <<>>
          /\ pc = "drain" /\ ~resume_event
          /\ ActiveTasks = 0
          /\ staleness_samples >= MaxRequiredSamples

\* When the trainer has taken the end signal of a run in which no generation
\* failed, no sample is left anywhere behind it.
EndSignalIsLast ==
    (t_pc = "final" /\ failures = 0) =>
        pending = <<>> /\ Outstanding = 0 /\ ActiveTasks = 0

\* The samples fed, those of the version the run was started from included.
\* When the dataloader is exhausted, global_steps is one ahead.
Fed == IF feed_pc = "feed" \/ epoch = TotalEpochs THEN global_steps - 1 ELSE global_steps

\* What the dataloader can have handed out beyond the samples trained on: the
\* feeder's sample, the pending queue, and what is outstanding.
MaxInFlight == 1 + PendingSize + MaxRequiredSamples + 1

\* A run that ends without a failed generation has trained every version that
\* the samples fed are worth, less those the full queue dropped.  A run that
\* was never restarted is fed TotalRolloutSteps samples.  A restart makes it
\* fewer, because the dataloader comes back at the position of
\* save_checkpoint and the epochs end early, but never by more than what was
\* in flight at that checkpoint; a restart from the checkpoint of the last
\* version makes it one more.
FedSamplesTrained ==
    (t_pc = "stopped" /\ failures = 0) =>
        /\ current_param_version = (Fed - dropped_samples) \div ParamSyncSamples
        /\ TotalRolloutSteps - (crashes * MaxInFlight + drops) <= Fed
        /\ Fed <= TotalRolloutSteps + crashes

\* Training ends: the pauses for stale samples are all lifted, also when the
\* processor pauses after the reset it should have seen, and a generation
\* that fails stops both sides.
TrainingFinishes == <>(t_pc = "stopped" /\ mon_pc = "stopped")
=============================================================================
