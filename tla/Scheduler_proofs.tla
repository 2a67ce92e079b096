--------------------------- MODULE Scheduler_proofs ---------------------------
(***************************************************************************)
(* Proofs about Scheduler, for any number of workers, lists and indexes,   *)
(* any capacity of the channel and every mode.                             *)
(***************************************************************************)
EXTENDS Scheduler, SequenceTheorems, TLAPS

(* The tasks the producer has sent in this pass. *)
Sent == {t \in Tasks : \E b \in DOMAIN Batches : \E i \in DOMAIN Batches[b] :
           t = Batches[b][i] /\ (b < batch \/ (b = batch /\ i < pos))}

Held == {task[w] : w \in {v \in Workers : worker[v] = "work"}}

(* Where the producer is in the batches. *)
InBatch ==
  /\ producer = "send" => batch \in DOMAIN Batches /\ pos <= Len(Batches[batch]) + 1
  /\ producer \in {"unborn", "check", "sleep"} => pos = 1

Holding == \A w \in Workers : worker[w] = "work" => task[w] \in Tasks

(* No task that was sent is lost. *)
Conserved == Sent \subseteq tried \cup Range(channel) \cup Held

(* Why a worker ended, and why the producer did. *)
WorkerReason ==
  \A w \in Workers : worker[w] = "done" =>
     \/ shutdown \/ w \in broken
     \/ producer = "done" /\ channel = <<>>
ProducerReason ==
  producer = "done" => shutdown \/ broken = Workers \/ Tasks \subseteq Sent

IInv == TypeOK /\ InBatch /\ Holding /\ Conserved /\ WorkerReason /\ ProducerReason

(* A worker that took a task after the flag was set is on its way out. *)
LateLeaves ==
  \A w \in late : shutdown /\ worker[w] \in {"work", "top", "done"}
-----------------------------------------------------------------------------
LEMMA BatchesType == Batches \in Seq(Seq(Tasks))
  <1> DEFINE T(l, i) == [list |-> l, index |-> i]
  <1>1. Lists \in Seq(Range(Lists)) /\ Indexes \in Seq(Nat)
    BY TasksAssumption
  <1>2. CASE InRange
    <2>1. Batches = [b \in 1..Len(Lists) |-> [i \in 1..Len(Indexes) |-> T(Lists[b], Indexes[i])]]
      BY <1>1, <1>2 DEF Batches
    <2>2. \A b \in DOMAIN Batches : \A i \in 1..Len(Indexes) : Batches[b][i] \in Tasks
      BY <2>1 DEF Tasks, Range
    <2>3. \A b \in 1..Len(Lists) : Batches[b] \in [1..Len(Indexes) -> Tasks]
      BY <2>1, <2>2
    <2>4. \A b \in 1..Len(Lists) : Batches[b] \in Seq(Tasks)
      <3>1. Len(Indexes) \in Nat
        BY <1>1
      <3> QED
        BY <2>3, <3>1, SeqDef
    <2> QED
      BY <1>1, <2>1, <2>4
  <1>3. CASE ~InRange
    <2> DEFINE B == [i \in 1..Len(Lists) |-> T(Lists[i], 0)]
    <2>1. Batches = << B >>
      BY <1>1, <1>3 DEF Batches
    <2>2. DOMAIN Batches = {1} /\ Batches[1] = B
      BY <2>1
    <2>3. \A i \in 1..Len(Lists) : B[i] \in Tasks
      BY <2>2 DEF Tasks, Range
    <2>4. B \in Seq(Tasks)
      BY <1>1, <2>3
    <2> QED
      BY <2>1, <2>4
  <1> QED
    BY <1>2, <1>3
-----------------------------------------------------------------------------
(* The mode of a run is fixed, and so are the tasks. *)
LEMMA TasksFixed ==
  ASSUME mode' = mode
  PROVE  Batches' = Batches /\ Tasks' = Tasks
  BY DEF Batches, InRange, Tasks

LEMMA ModeFixed ==
  ASSUME [Next]_vars
  PROVE  mode' = mode /\ Batches' = Batches /\ Tasks' = Tasks
  <1>1. mode' = mode
    BY DEF Next, Worker, Producer, Spawn, Exit, vars, StartBatch,
           ProducerStops, Send, SendFails, EndBatch, EndBatchTo, EndSleep,
           ProducerMoves, SeeShutdown, GoOn, Reconnect, ReconnectFails,
           ChannelClosed, WorkerMoves, Take, Done, Fails, Panics, TaskOver,
           SpawnProducer, SpawnWorker, RequestShutdown
  <1> QED
    BY <1>1, TasksFixed

LEMMA BatchFacts ==
  ASSUME NEW b \in DOMAIN Batches
  PROVE  /\ Batches[b] \in Seq(Tasks) /\ Len(Batches[b]) \in Nat
         /\ DOMAIN Batches[b] = 1..Len(Batches[b])
         /\ \A i \in 1..Len(Batches[b]) : Batches[b][i] \in Tasks
         /\ b \in Nat /\ b <= Len(Batches) /\ Len(Batches) \in Nat
  BY BatchesType

LEMMA InitInv ==
  ASSUME Init
  PROVE  IInv /\ LateLeaves
  <1>1. TypeOK
    <2>1. <<>> \in Seq(Tasks) /\ Len(<<>>) <= Capacity
      BY CapacityAssumption
    <2>2. worker \in [Workers -> WorkerPCs] /\ producer \in ProducerPCs
      BY DEF Init, WorkerPCs, ProducerPCs
    <2>3. task \in [Workers -> Tasks \cup {NoTask}]
      BY DEF Init
    <2>4. reconnect \in [Workers -> BOOLEAN] /\ shutdown \in BOOLEAN
      BY DEF Init
    <2> QED
      BY <2>1, <2>2, <2>3, <2>4 DEF Init, TypeOK
  <1>2. Sent = {}
    BY BatchFacts DEF Init, Sent
  <1>3. \A w \in Workers : worker[w] = "unborn"
    BY DEF Init
  <1> QED
    BY <1>1, <1>2, <1>3
       DEF Init, IInv, InBatch, Holding, Conserved, WorkerReason,
           ProducerReason, LateLeaves

(* The steps of the producer. *)
LEMMA ProducerKeeps ==
  ASSUME IInv, Producer
  PROVE  IInv'
  <1>0. mode' = mode /\ Batches' = Batches /\ Tasks' = Tasks
    BY ModeFixed DEF Next
  <1> USE <1>0
  <1>1. /\ UNCHANGED <<worker, task, reconnect, shutdown, tried, late, broken>>
        /\ Held' = Held
    BY DEF Producer, StartBatch, ProducerStops, Send, SendFails, EndBatch, EndBatchTo,
           EndSleep, ProducerMoves, history, Held
  <1>2. Holding'
    BY <1>1 DEF IInv, Holding
  <1>3. CASE StartBatch \/ ProducerStops \/ SendFails \/ EndSleep
    <2>1. UNCHANGED <<batch, pos, channel>> /\ Sent' = Sent
          /\ producer' \in ProducerPCs
      BY <1>3 DEF StartBatch, ProducerStops, SendFails, EndSleep, ProducerMoves,
                  Sent, ProducerPCs
    <2>2. TypeOK'
      BY <1>1, <2>1 DEF IInv, TypeOK
    <2>3. InBatch'
      <3>1. CASE StartBatch
        <4>1. batch \in DOMAIN Batches /\ pos = 1
          BY <3>1, BatchesType DEF StartBatch, IInv, TypeOK, InBatch
        <4> QED
          BY <2>1, <3>1, <4>1, BatchFacts DEF StartBatch, InBatch
      <3> QED
        BY <1>3, <2>1, <3>1
           DEF ProducerStops, SendFails, EndSleep, IInv, InBatch
    <2>4. Conserved'
      BY <1>1, <2>1 DEF IInv, Conserved
    <2>5. WorkerReason'
      BY <1>1, <1>3, <2>1 DEF StartBatch, ProducerStops, SendFails, EndSleep,
                               IInv, WorkerReason
    <2>6. ProducerReason'
      <3>1. CASE ProducerStops
        <4>1. CASE batch > Len(Batches)
          <5>1. Tasks \subseteq Sent
            BY <4>1, BatchFacts DEF Sent, Tasks, Range, IInv, TypeOK
          <5> QED
            BY <2>1, <5>1 DEF ProducerReason
        <4> QED
          BY <1>1, <3>1, <4>1 DEF ProducerStops, ProducerReason
      <3>2. CASE SendFails
        <4>1. shutdown \/ \A w \in Workers : w \in broken
          BY <3>2 DEF SendFails, Receivers, IInv, WorkerReason
        <4>2. broken \subseteq Workers
          BY DEF IInv, TypeOK
        <4> QED
          BY <1>1, <4>1, <4>2 DEF ProducerReason
      <3> QED
        BY <1>3, <3>1, <3>2 DEF StartBatch, EndSleep, ProducerReason
    <2> QED
      BY <1>2, <2>2, <2>3, <2>4, <2>5, <2>6 DEF IInv
  <1>4. CASE Send
    <2> DEFINE t == Batches[batch][pos]
    <2>1. /\ batch \in DOMAIN Batches /\ batch \in Nat /\ pos \in Nat
          /\ pos >= 1 /\ pos <= Len(Batches[batch]) /\ t \in Tasks
          /\ Len(Batches[batch]) \in Nat
      BY <1>4, BatchFacts DEF Send, IInv, InBatch, TypeOK
    <2>2. /\ channel' = Append(channel, t) /\ pos' = pos + 1
          /\ UNCHANGED <<producer, batch>> /\ producer = "send"
          /\ channel \in Seq(Tasks) /\ Len(channel) < Capacity
      BY <1>4 DEF Send, IInv, TypeOK
    <2>3. TypeOK'
      <3>1. channel' \in Seq(Tasks) /\ Len(channel') <= Capacity
        BY <2>1, <2>2, CapacityAssumption
      <3> QED
        BY <1>1, <2>1, <2>2, <3>1 DEF IInv, TypeOK
    <2>4. InBatch'
      BY <2>1, <2>2 DEF InBatch
    <2>5. Range(channel') = Range(channel) \cup {t}
      <3>1. /\ DOMAIN channel = 1..Len(channel) /\ Len(channel) \in Nat
            /\ DOMAIN channel' = 1..(Len(channel) + 1)
            /\ channel'[Len(channel) + 1] = t
            /\ \A i \in 1..Len(channel) : channel'[i] = channel[i]
        BY <2>1, <2>2
      <3> QED
        BY <3>1 DEF Range
    <2>6. Sent' \subseteq Sent \cup {t}
      BY <2>1, <2>2, BatchFacts DEF Sent
    <2>7. Conserved'
      BY <1>1, <2>5, <2>6 DEF IInv, Conserved
    <2>8. WorkerReason' /\ ProducerReason'
      BY <1>1, <2>2 DEF IInv, WorkerReason, ProducerReason
    <2> QED
      BY <1>2, <2>3, <2>4, <2>7, <2>8 DEF IInv
  <1>5. CASE EndBatch
    <2>1. /\ batch \in DOMAIN Batches /\ batch \in Nat /\ batch >= 1
          /\ pos \in Nat /\ pos > Len(Batches[batch])
      BY <1>5, BatchFacts DEF EndBatch, EndBatchTo, IInv, InBatch, TypeOK
    <2>2. /\ channel' = channel /\ pos' = 1 /\ producer = "send"
          /\ batch' \in {batch, batch + 1}
          /\ producer' \in {"check", "sleep", "done"}
      BY <1>5 DEF EndBatch, EndBatchTo, ProducerMoves
    <2>3. TypeOK'
      BY <1>1, <2>1, <2>2 DEF IInv, TypeOK, ProducerPCs
    <2>4. InBatch'
      BY <2>2 DEF InBatch
    <2>5. Sent' \subseteq Sent
      BY <2>1, <2>2, BatchFacts DEF Sent
    <2>6. Conserved'
      BY <1>1, <2>2, <2>5 DEF IInv, Conserved
    <2>7. WorkerReason'
      BY <1>1, <2>2 DEF IInv, WorkerReason
    <2>8. ProducerReason'
      <3>1. CASE producer' = "done"
        <4>1. ~InRange /\ batch' = batch + 1
          BY <1>5, <3>1 DEF EndBatch, EndBatchTo
        <4>2. DOMAIN Batches = {1}
          BY <4>1 DEF Batches
        <4>3. Tasks \subseteq Sent'
          BY <2>1, <4>1, <4>2 DEF Sent, Tasks, Range
        <4> QED
          BY <4>3 DEF ProducerReason
      <3> QED
        BY <3>1 DEF ProducerReason
    <2> QED
      BY <1>2, <2>3, <2>4, <2>6, <2>7, <2>8 DEF IInv
  <1> QED
    BY <1>3, <1>4, <1>5 DEF Producer

(* The steps of a worker that has no task. *)
LEMMA WorkerMovesKeeps ==
  ASSUME IInv, NEW w \in Workers,
         \/ SeeShutdown(w) \/ GoOn(w) \/ Reconnect(w) \/ ReconnectFails(w)
         \/ ChannelClosed(w)
  PROVE  IInv'
  <1>0. mode' = mode /\ Batches' = Batches /\ Tasks' = Tasks
    BY ModeFixed DEF Next, Worker
  <1> USE <1>0
  <1>1. PICK pc \in {"done", "wait", "recv"} : WorkerAt(w, pc)
    BY DEF SeeShutdown, GoOn, Reconnect, ReconnectFails, ChannelClosed
  <1>2. UNCHANGED <<producer, batch, pos, channel, task, shutdown, tried, late>>
    BY DEF SeeShutdown, GoOn, Reconnect, ReconnectFails, ChannelClosed,
           WorkerMoves, producerVars
  <1>3. worker[w] # "work" /\ worker[w] \in {"top", "wait", "recv"}
    BY DEF SeeShutdown, GoOn, Reconnect, ReconnectFails, ChannelClosed
  <1>4. /\ worker' \in [Workers -> WorkerPCs] /\ worker'[w] = pc
        /\ \A v \in Workers \ {w} : worker'[v] = worker[v]
    BY <1>1 DEF WorkerAt, IInv, TypeOK, WorkerPCs
  <1>5. broken \subseteq broken' /\ broken' \subseteq Workers
        /\ (broken = Workers => broken' = Workers)
        /\ reconnect' \in [Workers -> BOOLEAN]
    BY DEF SeeShutdown, GoOn, Reconnect, ReconnectFails, ChannelClosed, IInv,
           TypeOK
  <1>6. TypeOK'
    BY <1>2, <1>4, <1>5 DEF IInv, TypeOK
  <1>7. Held' = Held /\ Sent' = Sent
    BY <1>1, <1>2, <1>3, <1>4 DEF Held, Sent
  <1>8. InBatch' /\ Holding' /\ Conserved' /\ ProducerReason'
    BY <1>1, <1>2, <1>3, <1>4, <1>5, <1>7
       DEF IInv, InBatch, Holding, Conserved, ProducerReason
  <1>9. worker'[w] = "done" =>
          shutdown \/ w \in broken' \/ (producer = "done" /\ channel = <<>>)
    BY <1>3, <1>4 DEF SeeShutdown, GoOn, Reconnect, ReconnectFails,
                      ChannelClosed, SenderDropped, WorkerAt, IInv, TypeOK
  <1>10. WorkerReason'
    BY <1>2, <1>4, <1>5, <1>9 DEF IInv, WorkerReason
  <1> QED
    BY <1>6, <1>8, <1>10 DEF IInv

LEMMA TakeKeeps ==
  ASSUME IInv, NEW w \in Workers, Take(w)
  PROVE  IInv'
  <1>0. mode' = mode /\ Batches' = Batches /\ Tasks' = Tasks
    BY ModeFixed DEF Next, Worker
  <1> USE <1>0
  <1>1. /\ UNCHANGED <<producer, batch, pos, shutdown, tried, broken, reconnect>>
        /\ worker[w] = "recv" /\ channel # <<>>
        /\ channel' = Tail(channel) /\ channel \in Seq(Tasks)
        /\ Len(channel) <= Capacity
    BY DEF Take, producerVars, IInv, TypeOK
  <1>2. /\ channel' \in Seq(Tasks) /\ Len(channel') <= Capacity
        /\ Head(channel) \in Tasks
    BY <1>1, CapacityAssumption
  <1>3. Range(channel) \subseteq Range(channel') \cup {Head(channel)}
    <2>1. /\ DOMAIN channel = 1..Len(channel) /\ Len(channel) \in Nat
          /\ Len(channel) >= 1 /\ Head(channel) = channel[1]
          /\ DOMAIN channel' = 1..(Len(channel) - 1)
          /\ \A i \in 1..(Len(channel) - 1) : channel'[i] = channel[i + 1]
      BY <1>1
    <2>2. \A i \in 2..Len(channel) : i - 1 \in DOMAIN channel'
                                     /\ channel[i] = channel'[i - 1]
      BY <2>1
    <2> QED
      BY <2>1, <2>2 DEF Range
  <1>4. /\ worker' \in [Workers -> WorkerPCs] /\ worker'[w] = "work"
        /\ \A v \in Workers \ {w} : worker'[v] = worker[v]
    BY DEF Take, WorkerAt, IInv, TypeOK, WorkerPCs
  <1>5. /\ task' \in [Workers -> Tasks \cup {NoTask}]
        /\ task'[w] = Head(channel)
        /\ \A v \in Workers \ {w} : task'[v] = task[v]
    BY <1>2 DEF Take, IInv, TypeOK
  <1>6. late' \subseteq Workers
    BY DEF Take, IInv, TypeOK
  <1>7. TypeOK'
    BY <1>1, <1>2, <1>4, <1>5, <1>6 DEF IInv, TypeOK
  <1>8. Held \cup {Head(channel)} \subseteq Held'
    BY <1>1, <1>4, <1>5 DEF Held
  <1>9. Sent' = Sent
    BY <1>1 DEF Sent
  <1>10. Conserved'
    BY <1>1, <1>3, <1>8, <1>9 DEF IInv, Conserved
  <1>11. InBatch' /\ Holding' /\ ProducerReason'
    BY <1>1, <1>2, <1>4, <1>5, <1>9 DEF IInv, InBatch, Holding, ProducerReason
  <1>12. WorkerReason'
    BY <1>1, <1>4 DEF IInv, WorkerReason
  <1> QED
    BY <1>7, <1>10, <1>11, <1>12 DEF IInv

LEMMA TaskOverKeeps ==
  ASSUME IInv, NEW w \in Workers, Done(w) \/ Fails(w) \/ Panics(w)
  PROVE  IInv'
  <1>0. mode' = mode /\ Batches' = Batches /\ Tasks' = Tasks
    BY ModeFixed DEF Next, Worker
  <1> USE <1>0
  <1>1. PICK pc \in {"recv", "top", "done"} :
           TaskOver(w, pc) /\ (pc = "done" => w \in broken')
    BY DEF Done, Fails, Panics, TaskOver
  <1>2. /\ UNCHANGED <<producer, batch, pos, channel, shutdown, late>>
        /\ worker[w] = "work" /\ tried' = tried \cup {task[w]}
        /\ task[w] \in Tasks
    BY <1>1 DEF TaskOver, producerVars, IInv, Holding
  <1>3. /\ worker' \in [Workers -> WorkerPCs] /\ worker'[w] = pc
        /\ \A v \in Workers \ {w} : worker'[v] = worker[v]
    BY <1>1 DEF TaskOver, WorkerAt, IInv, TypeOK, WorkerPCs
  <1>4. /\ task' \in [Workers -> Tasks \cup {NoTask}]
        /\ \A v \in Workers \ {w} : task'[v] = task[v]
    BY <1>1 DEF TaskOver, IInv, TypeOK
  <1>5. broken \subseteq broken' /\ broken' \subseteq Workers
        /\ reconnect' \in [Workers -> BOOLEAN]
    BY DEF Done, Fails, Panics, IInv, TypeOK
  <1>6. TypeOK'
    BY <1>2, <1>3, <1>4, <1>5 DEF IInv, TypeOK
  <1>7. Held \subseteq Held' \cup {task[w]} /\ Sent' = Sent
    BY <1>2, <1>3, <1>4 DEF Held, Sent
  <1>8. Conserved'
    BY <1>2, <1>7 DEF IInv, Conserved
  <1>9. InBatch' /\ Holding' /\ ProducerReason'
    BY <1>1, <1>2, <1>3, <1>4, <1>5, <1>7
       DEF IInv, InBatch, Holding, ProducerReason, TypeOK
  <1>10. WorkerReason'
    BY <1>1, <1>2, <1>3, <1>5 DEF IInv, WorkerReason
  <1> QED
    BY <1>6, <1>8, <1>9, <1>10 DEF IInv

LEMMA OthersKeep ==
  ASSUME IInv, Spawn \/ RequestShutdown \/ UNCHANGED vars
  PROVE  IInv'
  <1>0. mode' = mode /\ Batches' = Batches /\ Tasks' = Tasks
    BY ModeFixed DEF Next
  <1> USE <1>0
  <1>1. CASE Spawn
    <2>1. /\ UNCHANGED <<batch, pos, channel, task, reconnect, shutdown, tried,
                          late, broken>>
          /\ producer' = producer \/ (producer = "unborn" /\ producer' = "check")
      BY <1>1 DEF Spawn, SpawnProducer, SpawnWorker, producerVars, history
    <2>2. worker' \in [Workers -> WorkerPCs]
          /\ \A w \in Workers :
               \/ worker'[w] = worker[w]
               \/ worker[w] = "unborn" /\ worker'[w] \in {"recv", "top"}
      BY <1>1 DEF Spawn, SpawnProducer, SpawnWorker, WorkerAt, IInv, TypeOK,
                  WorkerPCs
    <2>3. TypeOK'
      BY <2>1, <2>2 DEF IInv, TypeOK, ProducerPCs
    <2>4. Held' = Held /\ Sent' = Sent
      BY <2>1, <2>2 DEF Held, Sent
    <2>5. InBatch' /\ Holding' /\ Conserved' /\ ProducerReason'
      BY <2>1, <2>2, <2>4
         DEF IInv, InBatch, Holding, Conserved, ProducerReason
    <2>6. WorkerReason'
      BY <2>1, <2>2 DEF IInv, WorkerReason
    <2> QED
      BY <2>3, <2>5, <2>6 DEF IInv
  <1>2. CASE RequestShutdown \/ UNCHANGED vars
    <2>1. /\ UNCHANGED <<producer, batch, pos, channel, worker, task, reconnect,
                          tried, late, broken>>
          /\ shutdown' \in BOOLEAN /\ (shutdown => shutdown')
      BY <1>2 DEF RequestShutdown, producerVars, history, vars, IInv, TypeOK
    <2>2. Held' = Held /\ Sent' = Sent
      BY <2>1 DEF Held, Sent
    <2> QED
      BY <2>1, <2>2 DEF IInv, TypeOK, InBatch, Holding, Conserved,
                         WorkerReason, ProducerReason
  <1> QED
    BY <1>1, <1>2

LEMMA NextKeeps ==
  ASSUME IInv, [Next]_vars
  PROVE  IInv'
  BY ProducerKeeps, WorkerMovesKeeps, TakeKeeps, TaskOverKeeps, OthersKeep
     DEF Next, Worker, Exit

(* Every variable keeps its type; in particular the channel never holds    *)
(* more than its capacity.                                                 *)
THEOREM SchedulerTypeCorrect == Spec => []TypeOK
  <1>1. Init => IInv
    BY InitInv
  <1>2. IInv /\ [Next]_vars => IInv'
    BY NextKeeps
  <1>3. IInv => TypeOK
    BY DEF IInv
  <1> QED
    BY <1>1, <1>2, <1>3, PTL DEF Spec

(* A run that was not interrupted and that kept one worker tried every     *)
(* task, in both modes and with any number of workers.                     *)
THEOREM NoTaskLost == Spec => []AllTried
  <1>1. Init => IInv
    BY InitInv
  <1>2. IInv /\ [Next]_vars => IInv'
    BY NextKeeps
  <1>3. IInv => AllTried
    <2> SUFFICES ASSUME IInv, Ended, ~shutdown, broken # Workers
                 PROVE  tried = Tasks
      BY DEF AllTried
    <2>1. PICK w \in Workers : w \notin broken
      BY DEF IInv, TypeOK
    <2>2. channel = <<>> /\ Held = {}
      BY <2>1 DEF Ended, Receivers, IInv, WorkerReason, Held
    <2>3. Range(channel) = {}
      BY <2>2 DEF Range
    <2>4. Tasks \subseteq Sent
      BY DEF Ended, IInv, ProducerReason
    <2> QED
      BY <2>2, <2>3, <2>4 DEF IInv, Conserved, TypeOK
  <1> QED
    BY <1>1, <1>2, <1>3, PTL DEF Spec
-----------------------------------------------------------------------------
LEMMA LateKept ==
  ASSUME ~InRange, IInv, LateLeaves, [Next]_vars
  PROVE  LateLeaves' /\ \A w \in Workers : Take(w) => w \notin late
  <1>1. late \subseteq Workers /\ worker \in [Workers -> WorkerPCs]
    BY DEF IInv, TypeOK
  <1>2. \A w \in Workers : Take(w) => w \notin late
    BY DEF LateLeaves, Take
  <1>3. LateLeaves'
    <2>1. CASE Producer \/ RequestShutdown \/ UNCHANGED vars
      <3>1. UNCHANGED <<worker, late>> /\ (shutdown => shutdown')
        BY <2>1 DEF Producer, StartBatch, ProducerStops, Send, SendFails,
                    EndBatch, EndBatchTo, EndSleep, ProducerMoves, history, vars,
                    RequestShutdown
      <3> QED
        BY <3>1 DEF LateLeaves
    <2>2. CASE Spawn
      <3>1. UNCHANGED <<late, shutdown>>
        BY <2>2 DEF Spawn, SpawnProducer, SpawnWorker, history
      <3>2. \A w \in Workers : worker[w] # "unborn" => worker'[w] = worker[w]
        BY <1>1, <2>2 DEF Spawn, SpawnProducer, SpawnWorker, WorkerAt
      <3> QED
        BY <1>1, <3>1, <3>2 DEF LateLeaves
    <2>3. ASSUME NEW w \in Workers, Take(w) PROVE LateLeaves'
      BY <1>1, <2>3 DEF Take, WorkerAt, LateLeaves
    <2>4. ASSUME NEW w \in Workers,
                 \/ SeeShutdown(w) \/ GoOn(w) \/ Reconnect(w)
                 \/ ReconnectFails(w) \/ ChannelClosed(w)
          PROVE  LateLeaves'
      BY <1>1, <2>4 DEF SeeShutdown, GoOn, Reconnect, ReconnectFails,
                        ChannelClosed, WorkerMoves, WorkerAt, LateLeaves
    <2>5. ASSUME NEW w \in Workers, Done(w) \/ Fails(w) \/ Panics(w)
          PROVE  LateLeaves'
      BY <1>1, <2>5 DEF Done, Fails, Panics, TaskOver, WorkerAt, LateLeaves
    <2> QED
      BY <2>1, <2>2, <2>3, <2>4, <2>5 DEF Next, Worker, Exit
  <1> QED
    BY <1>2, <1>3

(* A worker that is given lists takes at most one once Ctrl+C was pressed. *)
THEOREM ShutdownIsSeen == Spec => OneTaskAfterShutdown
  <1> DEFINE Inv == IInv /\ (~InRange => LateLeaves)
  <1>1. Init => Inv
    BY InitInv
  <1>2. Inv /\ [Next]_vars
          => Inv' /\ [\A w \in Workers : Take(w) => w \notin late \/ InRange]_vars
    <2> SUFFICES ASSUME Inv, [Next]_vars
                 PROVE  /\ Inv'
                        /\ \A w \in Workers : Take(w) => w \notin late \/ InRange
      OBVIOUS
    <2>1. IInv' /\ InRange' = InRange
      BY NextKeeps, ModeFixed DEF InRange
    <2> QED
      BY <2>1, LateKept
  <1> HIDE DEF Inv
  <1> QED
    BY <1>1, <1>2, PTL DEF Spec, OneTaskAfterShutdown
-----------------------------------------------------------------------------
(* No list is selected twice: Startup!SelectionExact. *)
NoListTwice == \A i, j \in DOMAIN Lists : Lists[i] = Lists[j] => i = j

(* Where every list is sent once, a list is in one place: at one worker or *)
(* in one place of the channel, and only once it was sent.                 *)
Apart ==
  /\ \A i, j \in DOMAIN channel : channel[i] = channel[j] => i = j
  /\ \A v, w \in Workers :
       worker[v] = "work" /\ worker[w] = "work" /\ task[v] = task[w] => v = w
  /\ \A w \in Workers, i \in DOMAIN channel :
       worker[w] = "work" => task[w] # channel[i]
  /\ Held \cup Range(channel) \subseteq Sent

(* In a run that sends every list once the tasks are the lists. *)
LEMMA OnceTasks ==
  ASSUME NoListTwice, mode = "once"
  PROVE  /\ DOMAIN Batches = {1} /\ DOMAIN Batches[1] = 1..Len(Lists)
         /\ \A i, j \in 1..Len(Lists) : Batches[1][i] = Batches[1][j] => i = j
         /\ \A s, t \in Tasks : s.list = t.list => s = t
  <1>1. Batches = << [i \in DOMAIN Lists |-> [list |-> Lists[i], index |-> 0]] >>
    BY DEF Batches, InRange
  <1>2. DOMAIN Lists = 1..Len(Lists)
    BY TasksAssumption
  <1>3. /\ DOMAIN Batches = {1} /\ DOMAIN Batches[1] = 1..Len(Lists)
        /\ \A i \in 1..Len(Lists) :
             Batches[1][i] = [list |-> Lists[i], index |-> 0]
    BY <1>1, <1>2
  <1>4. \A t \in Tasks : \E i \in 1..Len(Lists) : t = Batches[1][i]
    BY <1>3 DEF Tasks, Range
  <1>5. ASSUME NEW i \in 1..Len(Lists)
        PROVE  Batches[1][i].list = Lists[i]
    <2>1. Batches[1][i] = [list |-> Lists[i], index |-> 0]
      BY <1>3
    <2> QED
      BY <2>1
  <1>6. \A i, j \in 1..Len(Lists) : Lists[i] = Lists[j] => i = j
    BY <1>2 DEF NoListTwice
  <1>7. \A s, t \in Tasks : s.list = t.list => s = t
    BY <1>4, <1>5, <1>6
  <1>8. \A i, j \in 1..Len(Lists) : Batches[1][i] = Batches[1][j] => i = j
    BY <1>5, <1>6
  <1> QED
    BY <1>3, <1>7, <1>8

(* What was sent does not grow without a Send. *)
LEMMA ApartFrame ==
  ASSUME Apart, Sent \subseteq Sent', UNCHANGED <<channel, task>>,
         \A w \in Workers : worker'[w] = "work" => worker[w] = "work"
  PROVE  Apart'
  <1>1. Held' \subseteq Held
    BY DEF Held
  <1> QED
    BY <1>1 DEF Apart

LEMMA ApartSend ==
  ASSUME NoListTwice, mode = "once", IInv, Apart, Send
  PROVE  Apart'
  <1> DEFINE t == Batches[batch][pos]
             n == Len(channel)
  <1>0. mode' = mode /\ Batches' = Batches /\ Tasks' = Tasks
    BY ModeFixed DEF Next, Producer
  <1>1. /\ batch = 1 /\ pos \in 1..Len(Lists) /\ pos' = pos + 1 /\ batch' = batch
        /\ channel' = Append(channel, t) /\ UNCHANGED <<worker, task>>
    BY OnceTasks, BatchFacts DEF Send, IInv, InBatch, TypeOK
  <1>2. /\ DOMAIN channel = 1..n /\ n \in Nat /\ DOMAIN channel' = 1..(n + 1)
        /\ channel'[n + 1] = t
        /\ \A i \in 1..n : channel'[i] = channel[i]
    BY <1>1 DEF IInv, TypeOK
  <1>3. t \notin Sent
    BY <1>1, OnceTasks DEF Sent
  <1>4. Sent \subseteq Sent' /\ t \in Sent'
    <2>1. t \in Tasks
      BY <1>1, OnceTasks DEF Tasks, Range
    <2> QED
      BY <1>0, <1>1, <2>1, OnceTasks, BatchFacts DEF Sent
  <1>5. Held' = Held /\ Range(channel') = Range(channel) \cup {t}
    BY <1>1, <1>2 DEF Held, Range
  <1>6. /\ \A i \in 1..n : channel[i] \in Sent
        /\ \A w \in Workers : worker[w] = "work" => task[w] \in Sent
    BY <1>2 DEF Apart, Held, Range
  <1>7. \A i, j \in DOMAIN channel' : channel'[i] = channel'[j] => i = j
    BY <1>2, <1>3, <1>6 DEF Apart
  <1>8. \A w \in Workers, i \in DOMAIN channel' :
           worker'[w] = "work" => task'[w] # channel'[i]
    BY <1>1, <1>2, <1>3, <1>6 DEF Apart
  <1> HIDE DEF t
  <1> QED
    BY <1>1, <1>4, <1>5, <1>7, <1>8 DEF Apart

LEMMA ApartTake ==
  ASSUME IInv, Apart, NEW w \in Workers, Take(w)
  PROVE  Apart'
  <1> DEFINE n == Len(channel)
  <1>0. mode' = mode /\ Batches' = Batches /\ Tasks' = Tasks
    BY ModeFixed DEF Next, Worker
  <1>1. /\ channel' = Tail(channel) /\ channel # <<>> /\ channel \in Seq(Tasks)
        /\ UNCHANGED <<batch, pos>>
        /\ worker'[w] = "work" /\ task'[w] = Head(channel)
        /\ \A v \in Workers \ {w} : worker'[v] = worker[v] /\ task'[v] = task[v]
    BY DEF Take, WorkerAt, producerVars, IInv, TypeOK
  <1>2. /\ DOMAIN channel = 1..n /\ n \in Nat /\ n >= 1
        /\ Head(channel) = channel[1] /\ DOMAIN channel' = 1..(n - 1)
        /\ \A i \in 1..(n - 1) : channel'[i] = channel[i + 1]
    BY <1>1
  <1>3. Sent' = Sent
    BY <1>0, <1>1 DEF Sent
  <1>4. Held' \cup Range(channel') \subseteq Held \cup Range(channel)
    BY <1>1, <1>2 DEF Held, Range
  <1>5. \A i \in 1..(n - 1) : i + 1 \in 1..n /\ i + 1 # 1 /\ 1 \in 1..n
    BY <1>2
  <1>6. \A i, j \in DOMAIN channel' : channel'[i] = channel'[j] => i = j
    BY <1>2, <1>5 DEF Apart
  <1>7. \A u, v \in Workers :
          worker'[u] = "work" /\ worker'[v] = "work" /\ task'[u] = task'[v] => u = v
    BY <1>1, <1>2 DEF Apart
  <1>8. \A v \in Workers, i \in DOMAIN channel' :
          worker'[v] = "work" => task'[v] # channel'[i]
    BY <1>1, <1>2, <1>5 DEF Apart
  <1> QED
    BY <1>3, <1>4, <1>6, <1>7, <1>8 DEF Apart

LEMMA ApartKept ==
  ASSUME NoListTwice, mode = "once", IInv, Apart, [Next]_vars
  PROVE  Apart'
  <1>0. mode' = mode /\ Batches' = Batches /\ Tasks' = Tasks
    BY ModeFixed
  <1>1. CASE Send
    BY <1>1, ApartSend
  <1>2. CASE \E w \in Workers : Take(w)
    BY <1>2, ApartTake
  <1>3. CASE EndBatch
    <2>1. /\ batch = 1 /\ pos \in Nat /\ pos > Len(Batches[1])
          /\ batch' = 2 /\ UNCHANGED <<channel, worker, task>>
      BY <1>3, OnceTasks
         DEF EndBatch, EndBatchTo, ProducerMoves, Looping, IInv, InBatch, TypeOK
    <2>2. Sent \subseteq Sent'
      BY <1>0, <2>1, OnceTasks DEF Sent
    <2> QED
      BY <2>1, <2>2, ApartFrame
  <1>4. CASE \/ Spawn \/ StartBatch \/ ProducerStops \/ SendFails \/ EndSleep
             \/ RequestShutdown \/ UNCHANGED vars
    <2>1. UNCHANGED <<batch, pos, channel, task>>
      BY <1>4 DEF Spawn, SpawnProducer, SpawnWorker, producerVars, StartBatch,
                  ProducerStops, SendFails, EndSleep, ProducerMoves,
                  RequestShutdown, vars
    <2>2. \A w \in Workers : worker'[w] = "work" => worker[w] = "work"
      BY <1>4 DEF Spawn, SpawnProducer, SpawnWorker, WorkerAt, StartBatch,
                  ProducerStops, SendFails, EndSleep, ProducerMoves,
                  RequestShutdown, vars, IInv, TypeOK
    <2> QED
      BY <1>0, <2>1, <2>2, ApartFrame DEF Sent
  <1>5. ASSUME NEW w \in Workers,
               \/ SeeShutdown(w) \/ GoOn(w) \/ Reconnect(w)
               \/ ReconnectFails(w) \/ ChannelClosed(w)
        PROVE  Apart'
    <2>1. UNCHANGED <<batch, pos, channel, task>>
      BY <1>5 DEF SeeShutdown, GoOn, Reconnect, ReconnectFails, ChannelClosed,
                  WorkerMoves, producerVars
    <2>2. \A v \in Workers : worker'[v] = "work" => worker[v] = "work"
      BY <1>5 DEF SeeShutdown, GoOn, Reconnect, ReconnectFails, ChannelClosed,
                  WorkerAt, IInv, TypeOK
    <2> QED
      BY <1>0, <2>1, <2>2, ApartFrame DEF Sent
  <1>6. ASSUME NEW w \in Workers, Done(w) \/ Fails(w) \/ Panics(w)
        PROVE  Apart'
    <2>1. PICK pc \in {"recv", "top", "done"} : TaskOver(w, pc)
      BY <1>6 DEF Done, Fails, Panics
    <2>2. /\ UNCHANGED <<batch, pos, channel>> /\ worker'[w] # "work"
          /\ \A v \in Workers \ {w} : worker'[v] = worker[v] /\ task'[v] = task[v]
      BY <2>1 DEF TaskOver, WorkerAt, producerVars, IInv, TypeOK
    <2>3. Held' \subseteq Held /\ Sent' = Sent
      BY <1>0, <2>2 DEF Held, Sent
    <2> QED
      BY <2>2, <2>3 DEF Apart
  <1> QED
    BY <1>1, <1>2, <1>3, <1>4, <1>5, <1>6 DEF Next, Producer, Worker, Exit

(* In a run that sends every list once each worker has the directory of    *)
(* its list to itself, with any number of workers and lists, provided that *)
(* no list was selected twice.                                             *)
THEOREM ListsAreUnshared ==
  ASSUME NoListTwice
  PROVE  Spec => []OneWorkerPerListOnce
  <1> DEFINE Inv == IInv /\ (mode = "once" => Apart)
  <1>1. Init => Inv
    <2> SUFFICES ASSUME Init PROVE Apart
      BY InitInv
    <2>1. channel = <<>> /\ \A w \in Workers : worker[w] # "work"
      BY DEF Init
    <2> QED
      BY <2>1 DEF Apart, Held, Range
  <1>2. Inv /\ [Next]_vars => Inv'
    BY NextKeeps, ModeFixed, ApartKept
  <1>3. Inv => OneWorkerPerListOnce
    BY OnceTasks DEF IInv, Holding, Apart, OneWorkerPerListOnce, OneWorkerPerList
  <1> HIDE DEF Inv
  <1> QED
    BY <1>1, <1>2, <1>3, PTL DEF Spec
=============================================================================
