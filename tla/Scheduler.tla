------------------------------ MODULE Scheduler ------------------------------
(***************************************************************************)
(* scheduler.rs with the loops of the workers it runs: one worker group,   *)
(* that is one producer thread, one bounded channel and the worker threads *)
(* that compete for its tasks.  Groups share nothing but the shutdown      *)
(* flag, so one group stands for all.                                      *)
(*                                                                         *)
(* A run sends the names of the lists once, or over and over if loop_groups*)
(* is set; with an email_range it sends every index of every list once.    *)
(* What a worker does with a task is NntpGroup and PublicInbox; here it is *)
(* done, fails, or panics.                                                 *)
(***************************************************************************)
EXTENDS Integers, Sequences, FiniteSets, SequencesExt

CONSTANTS
  Workers,    \* worker threads of the group, nthreads.max(1) of them
  Lists,      \* the selected lists, in the order of the task vector
  Indexes,    \* range mode: the indexes parse_sequence yields
  Modes,      \* the modes a run may be configured in
  Capacity    \* CHANNEL_CAPACITY

ASSUME WorkersAssumption == Workers # {} /\ IsFiniteSet(Workers)
ASSUME TasksAssumption == Lists \in Seq(Range(Lists)) /\ Indexes \in Seq(Nat)
ASSUME ModesAssumption == Modes \subseteq {"once", "loop", "range"}
ASSUME CapacityAssumption == Capacity \in Nat \ {0}

VARIABLES
  mode,       \* email_range is "range"; else loop_groups or not
  producer,   \* where the producer thread is: see ProducerPCs
  batch,      \* the batch it sends
  pos,        \* the next task of the batch
  channel,    \* the tasks in the channel
  worker,     \* where each worker thread is: see WorkerPCs
  task,       \* the task each worker holds; NoTask if none
  reconnect,  \* NNTPWorker.needs_reconnection of each worker
  shutdown,   \* the flag
  \* history
  tried,      \* tasks some worker was done with, well or not
  late,       \* workers that took a task after the flag was set
  broken      \* workers that ended by an error or a panic

vars == <<mode, producer, batch, pos, channel, worker, task, reconnect,
          shutdown, tried, late, broken>>

InRange == mode = "range"
Looping == mode = "loop"  \* an email_range overrides loop_groups

(* The producer reads the shutdown flag once before each batch: all lists  *)
(* in normal mode, the indexes of one list in range mode.  (A range that   *)
(* does not parse sends nothing, like a run without lists.)                *)
Batches ==
  IF InRange
  THEN [b \in DOMAIN Lists |->
          [i \in DOMAIN Indexes |-> [list |-> Lists[b], index |-> Indexes[i]]]]
  ELSE << [i \in DOMAIN Lists |-> [list |-> Lists[i], index |-> 0]] >>

Tasks == UNION {Range(Batches[b]) : b \in DOMAIN Batches}

NoTask == [list |-> "none", index |-> 0]

ProducerPCs == {"unborn", "check", "send", "sleep", "done"}
WorkerPCs == {"unborn", "top", "wait", "recv", "work", "done"}

TypeOK ==
  /\ mode \in Modes
  /\ producer \in ProducerPCs
  /\ batch \in Nat \ {0} /\ pos \in Nat \ {0}
  /\ channel \in Seq(Tasks) /\ Len(channel) <= Capacity
  /\ worker \in [Workers -> WorkerPCs]
  /\ task \in [Workers -> Tasks \cup {NoTask}]
  /\ reconnect \in [Workers -> BOOLEAN]
  /\ shutdown \in BOOLEAN
  /\ tried \subseteq Tasks
  /\ late \subseteq Workers /\ broken \subseteq Workers

Init ==
  /\ mode \in Modes
  /\ producer = "unborn" /\ batch = 1 /\ pos = 1
  /\ channel = <<>>
  /\ worker = [w \in Workers |-> "unborn"]
  /\ task = [w \in Workers |-> NoTask]
  /\ reconnect = [w \in Workers |-> FALSE]
  /\ shutdown = FALSE
  /\ tried = {} /\ late = {} /\ broken = {}

producerVars == <<producer, batch, pos>>
history == <<tried, late, broken>>

(* A worker thread that returned has dropped its receiver; the scheduler   *)
(* dropped its own before the producer was spawned.                        *)
Receivers == {w \in Workers : worker[w] # "done"}

(* The producer thread that returned has dropped the only sender. *)
SenderDropped == producer = "done"

(* run joins all threads and returns. *)
Ended == producer = "done" /\ Receivers = {}
-----------------------------------------------------------------------------
(* Ctrl+C. *)
RequestShutdown ==
  /\ ~shutdown
  /\ shutdown' = TRUE
  /\ UNCHANGED <<mode, producerVars, channel, worker, task, reconnect, history>>

(* Worker w goes on at pc. *)
WorkerAt(w, pc) == worker' = [worker EXCEPT ![w] = pc]

(* run spawns the workers, then the producer.  In range mode the thread is *)
(* a loop around recv; in normal mode it is the worker's consumme_list.    *)
SpawnWorker(w) ==
  /\ worker[w] = "unborn"
  /\ WorkerAt(w, IF InRange THEN "recv" ELSE "top")
  /\ UNCHANGED <<producerVars, channel, task, reconnect, mode, shutdown, history>>

SpawnProducer ==
  /\ producer = "unborn"
  /\ \A w \in Workers : worker[w] # "unborn"
  /\ producer' = "check"
  /\ UNCHANGED <<batch, pos, channel, worker, task, reconnect, mode, shutdown,
                 history>>
-----------------------------------------------------------------------------
(* spawn_producer_for_consume_list and                                     *)
(* spawn_producer_for_read_email_by_index.                                 *)
ProducerMoves ==
  UNCHANGED <<channel, worker, task, reconnect, mode, shutdown, history>>

StartBatch ==
  /\ producer = "check" /\ ~shutdown /\ batch <= Len(Batches)
  /\ producer' = "send"
  /\ UNCHANGED <<batch, pos>>
  /\ ProducerMoves

ProducerStops ==
  /\ producer = "check" /\ (shutdown \/ batch > Len(Batches))
  /\ producer' = "done"
  /\ UNCHANGED <<batch, pos>>
  /\ ProducerMoves

(* Mutant: send never blocks. *)
SendAtOnce ==
  /\ producer = "send" /\ pos <= Len(Batches[batch])
  /\ Receivers # {}
  /\ channel' = Append(channel, Batches[batch][pos])
  /\ pos' = pos + 1
  /\ UNCHANGED <<producer, batch, worker, task, reconnect, mode, shutdown, history>>

(* send blocks while the channel is full and a receiver is left. *)
Send ==
  /\ producer = "send" /\ pos <= Len(Batches[batch])
  /\ Receivers # {} /\ Len(channel) < Capacity
  /\ channel' = Append(channel, Batches[batch][pos])
  /\ pos' = pos + 1
  /\ UNCHANGED <<producer, batch, worker, task, reconnect, mode, shutdown, history>>

(* Mutant: a failed send is tried again. *)
SendRetries ==
  /\ producer = "send" /\ pos <= Len(Batches[batch])
  /\ Receivers = {}
  /\ UNCHANGED vars

SendFails ==
  /\ producer = "send" /\ pos <= Len(Batches[batch])
  /\ Receivers = {}
  /\ producer' = "done"
  /\ UNCHANGED <<batch, pos>>
  /\ ProducerMoves

(* All of the batch is sent. *)
EndBatchTo(where, nextBatch, nextPos) ==
  /\ producer = "send" /\ pos > Len(Batches[batch])
  /\ producer' = where /\ batch' = nextBatch /\ pos' = nextPos
  /\ ProducerMoves

(* Mutants: every run loops; a looping producer does not start over.       *)
EndBatchLooping == EndBatchTo(IF InRange THEN "check" ELSE "sleep", batch, 1)
EndBatchStaying == EndBatchTo(IF Looping THEN "sleep" ELSE "done", batch, pos)

(* Range mode goes on with the next list, a looping producer sleeps and    *)
(* sends the same batch again.                                             *)
EndBatch ==
  EndBatchTo(IF InRange THEN "check" ELSE IF Looping THEN "sleep" ELSE "done",
             IF Looping THEN batch ELSE batch + 1, 1)

(* The rescan interval is over, or interruptible_sleep saw the flag. *)
EndSleep ==
  /\ producer = "sleep"
  /\ producer' = "check"
  /\ UNCHANGED <<batch, pos>>
  /\ ProducerMoves
-----------------------------------------------------------------------------
(* consumme_list between two tasks. *)
WorkerMoves ==
  UNCHANGED <<producerVars, channel, task, mode, shutdown, tried, late>>

SeeShutdown(w) ==
  /\ worker[w] \in {"top", "wait"} /\ shutdown
  /\ WorkerAt(w, "done")
  /\ UNCHANGED <<reconnect, broken>>
  /\ WorkerMoves

(* Mutant: the flag is not looked at. *)
GoOnBlindly(w) ==
  /\ worker[w] = "top"
  /\ WorkerAt(w, IF reconnect[w] THEN "wait" ELSE "recv")
  /\ UNCHANGED <<reconnect, broken>>
  /\ WorkerMoves

GoOn(w) ==
  /\ worker[w] = "top" /\ ~shutdown
  /\ WorkerAt(w, IF reconnect[w] THEN "wait" ELSE "recv")
  /\ UNCHANGED <<reconnect, broken>>
  /\ WorkerMoves

(* After the wait, in which the flag may also have been missed. *)
Reconnect(w) ==
  /\ worker[w] = "wait"
  /\ WorkerAt(w, "recv")
  /\ reconnect' = [reconnect EXCEPT ![w] = FALSE]
  /\ UNCHANGED broken
  /\ WorkerMoves

ReconnectFails(w) ==
  /\ worker[w] = "wait"
  /\ WorkerAt(w, "done")
  /\ broken' = broken \cup {w}
  /\ UNCHANGED reconnect
  /\ WorkerMoves

(* recv. *)
Take(w) ==
  /\ worker[w] = "recv" /\ channel # <<>>
  /\ channel' = Tail(channel)
  /\ task' = [task EXCEPT ![w] = Head(channel)]
  /\ WorkerAt(w, "work")
  /\ late' = IF shutdown THEN late \cup {w} ELSE late
  /\ UNCHANGED <<producerVars, reconnect, mode, shutdown, tried, broken>>

(* Mutants: tasks may be left in the channel; a closed channel does not    *)
(* end the loop.                                                           *)
LeaveEarly(w) ==
  /\ worker[w] = "recv" /\ SenderDropped
  /\ WorkerAt(w, "done")
  /\ UNCHANGED <<reconnect, broken>>
  /\ WorkerMoves

ChannelClosed(w) ==
  /\ worker[w] = "recv" /\ channel = <<>> /\ SenderDropped
  /\ WorkerAt(w, "done")
  /\ UNCHANGED <<reconnect, broken>>
  /\ WorkerMoves

(* The task is over: the worker comes back to the flag in normal mode and  *)
(* to recv in range mode.                                                  *)
TaskOver(w, pc) ==
  /\ worker[w] = "work"
  /\ tried' = tried \cup {task[w]}
  /\ task' = [task EXCEPT ![w] = NoTask]
  /\ WorkerAt(w, pc)
  /\ UNCHANGED <<producerVars, channel, mode, shutdown, late>>

Done(w) ==
  /\ TaskOver(w, IF InRange THEN "recv" ELSE "top")
  /\ UNCHANGED <<reconnect, broken>>

(* handle_group returned an error: NNTPWorker connects again first.  An    *)
(* error of process_inbox, or in range mode, is only logged, like Done.    *)
Fails(w) ==
  /\ ~InRange
  /\ TaskOver(w, "top")
  /\ reconnect' = [reconnect EXCEPT ![w] = TRUE]
  /\ UNCHANGED broken

(* An expect or unwrap of the source fails: the thread ends. *)
Panics(w) ==
  /\ TaskOver(w, "done")
  /\ broken' = broken \cup {w}
  /\ UNCHANGED reconnect
-----------------------------------------------------------------------------
Producer ==
  StartBatch \/ ProducerStops \/ Send \/ SendFails \/ EndBatch \/ EndSleep

Worker(w) ==
  \/ SeeShutdown(w) \/ GoOn(w) \/ Reconnect(w) \/ ReconnectFails(w)
  \/ Take(w) \/ ChannelClosed(w) \/ Done(w) \/ Fails(w) \/ Panics(w)

Spawn == SpawnProducer \/ \E w \in Workers : SpawnWorker(w)

(* The process is over. *)
Exit == Ended /\ UNCHANGED vars

Next ==
  \/ Spawn \/ Producer \/ RequestShutdown \/ Exit
  \/ \E w \in Workers : Worker(w)

Spec == Init /\ [][Next]_vars

(* Every thread that can run runs; in particular a task ends (the retries  *)
(* of a source are bounded) and the sleeps are finite.  Nothing says who   *)
(* receives a task, that one ever fails, or that Ctrl+C is pressed.        *)
FairSpec ==
  /\ Spec /\ WF_vars(Spawn) /\ WF_vars(Producer)
  /\ \A w \in Workers : WF_vars(Worker(w))
-----------------------------------------------------------------------------
(* A run that was not interrupted, and in which one worker was left, tried *)
(* every task: the channel is closed only when it is empty, and a worker   *)
(* that ends leaves its share to the others.                               *)
AllTried ==
  Ended /\ ~shutdown /\ broken # Workers => tried = Tasks

(* After the shutdown flag is set a worker takes one more list at most: it *)
(* may have been waiting in recv.  The loop of range mode does not read    *)
(* the flag: a worker empties the channel first.                           *)
OneTaskAfterShutdown ==
  [][\A w \in Workers : Take(w) => w \notin late \/ InRange]_vars

(* No two workers are at the same list at once: each needs the directory   *)
(* of its list to itself (archive_writer/mod.rs: workers write to distinct *)
(* output paths, no concurrency control is needed).                        *)
OneWorkerPerList ==
  \A v, w \in Workers :
     v # w /\ worker[v] = "work" /\ worker[w] = "work"
        => task[v].list # task[w].list

(* In a run that sends every list once, it is so.                          *)
OneWorkerPerListOnce == mode = "once" => OneWorkerPerList

(* run returns once Ctrl+C was pressed, or no worker is left: a producer   *)
(* that sleeps or is blocked by a full channel, and workers that wait for  *)
(* a task, do not hang on to one another.  Without loop_groups it returns  *)
(* by itself.                                                              *)
RunReturns ==
  /\ shutdown \/ Receivers = {} ~> Ended
  /\ Looping \/ <>Ended

(* With loop_groups every list is served again and again, until Ctrl+C or  *)
(* until no worker is left, however the workers share the tasks.           *)
KeepsServing ==
  Looping =>
    \A l \in Range(Lists) :
       []<>(\E w \in Workers : worker[w] = "work" /\ task[w].list = l)
       \/ <>(shutdown \/ Receivers = {})
=============================================================================
