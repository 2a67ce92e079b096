-------------------------- MODULE RangeFetch_proofs --------------------------
(***************************************************************************)
(* What a run of email_range promises, for any number of workers, lists    *)
(* and parts of the range, and any channel.                                *)
(***************************************************************************)
EXTENDS RangeFetch, FiniteSetTheorems, TLAPS

(* A worker that has a task. *)
Busy(w) == pc[w] \notin {"recv", "ended"}

(* The types, and that a list is at hand when its tasks are sent. *)
Chosen == mode \in Modes /\ text \in Texts /\ old \in Olds /\ crew \in Crews
Sending ==
  /\ list \in Nat \ {0} /\ part \in 0..Len(text) /\ index \in Nat
  /\ part > 0 => list \in Lists
  /\ queue \in Seq(Lists \X Nat) /\ Len(queue) <= Capacity
Working ==
  /\ pc \in [Workers -> Points] /\ task \in [Workers -> Nat \X Nat]
  /\ slot \in [Workers -> Nat] /\ down \subseteq Workers
  /\ \A w \in Workers : Busy(w) => task[w] \in Lists \X Nat
Stored ==
  /\ eml = [l \in Lists |-> eml[l]]
  /\ files \in [Lists -> Seq(SUBSET Nat)] /\ shared \in [Lists -> SUBSET Nat]
Noted ==
  /\ progress \in [Lists -> [id : Nat, digits : Nat]]
  /\ errors \in [Lists -> SUBSET Nat]
  /\ lineage \in [Lists -> Seq(Seq(Nat))]
World == shutdown \in BOOLEAN /\ mishaps \subseteq Kinds

Shape == Chosen /\ Sending /\ Working /\ Stored /\ Noted /\ World

LEMMA Assumed ==
  /\ IsFiniteSet(Workers) /\ Crews \subseteq SUBSET Workers /\ {} \notin Crews
  /\ NLists \in Nat /\ Capacity \in Nat \ {0}
  /\ Served \subseteq Nat \ {0} /\ Olds \subseteq Nat
  /\ Tens \subseteq Nat /\ IsFiniteSet(Tens)
  BY RangeAssumption

LEMMA TextParts ==
  ASSUME Chosen
  PROVE  /\ Len(text) \in Nat \ {0} /\ DOMAIN text = 1..Len(text)
         /\ \A k \in 1..Len(text) : text[k].lo \in Nat /\ text[k].hi \in Nat
  <1>1. text \in Seq(Part) /\ text # <<>>
    BY RangeAssumption DEF Chosen
  <1>2. \A k \in 1..Len(text) : text[k] \in Part
    BY <1>1
  <1> QED
    BY <1>1, <1>2 DEF Part

LEMMA DigitsType ==
  ASSUME NEW n \in Nat
  PROVE  Digits(n) \in Nat \ {0}
  <1>1. {p \in Tens : p <= n} \in SUBSET Tens
    OBVIOUS
  <1>2. IsFiniteSet({p \in Tens : p <= n})
    BY <1>1, Assumed, FS_Subset
  <1>3. Cardinality({p \in Tens : p <= n}) \in Nat
    BY <1>2, FS_CardinalityType
  <1> QED
    BY <1>3 DEF Digits

(* A larger number has no fewer digits. *)
LEMMA DigitsGrow ==
  ASSUME NEW m \in Nat, NEW n \in Nat, m <= n
  PROVE  Digits(m) <= Digits(n)
  <1> DEFINE P(x) == {p \in Tens : p <= x}
  <1>1. P(m) \in SUBSET P(n)
    <2>1. \A p \in Tens : p \in Nat
      BY Assumed
    <2>2. \A p \in Tens : p <= m => p <= n
      BY <2>1
    <2> QED
      BY <2>2
  <1>2. IsFiniteSet(P(n))
    <2>1. P(n) \in SUBSET Tens
      OBVIOUS
    <2> QED
      BY <2>1, Assumed, FS_Subset
  <1>3. IsFiniteSet(P(m)) /\ Cardinality(P(m)) <= Cardinality(P(n))
    BY <1>1, <1>2, FS_Subset
  <1>4. Cardinality(P(m)) \in Nat /\ Cardinality(P(n)) \in Nat
    BY <1>2, <1>3, FS_CardinalityType
  <1>5. Digits(m) = 1 + Cardinality(P(m)) /\ Digits(n) = 1 + Cardinality(P(n))
    BY DEF Digits
  <1> HIDE DEF P
  <1> QED
    BY <1>3, <1>4, <1>5

(* The articles that normal runs left. *)
OldSet == {x \in Served : Old(x)}

LEMMA OldFinite ==
  ASSUME Chosen
  PROVE  IsFiniteSet(OldSet) /\ OldSet \in SUBSET Nat
  <1>1. OldSet \in SUBSET Nat /\ old \in Nat /\ \A s \in OldSet : s <= old
    BY Assumed DEF OldSet, Old, Chosen
  <1> QED
    BY <1>1, FS_BoundedSetOfNaturals

LEMMA OneEachIs ==
  ASSUME NEW S \in SUBSET Nat, IsFiniteSet(S)
  PROVE  /\ OneEach(S) \in Seq(Seq(Nat))
         /\ \A k \in DOMAIN OneEach(S) : \E i \in S : OneEach(S)[k] = <<i>>
         /\ \A i \in S : \E k \in DOMAIN OneEach(S) : OneEach(S)[k] = <<i>>
  <1>1. PICK n \in Nat : ExistsBijection(1..n, S)
    BY FS_NatBijection
  <1>2. Cardinality(S) = n
    BY <1>1, FS_CountingElements
  <1>3. PICK f \in Surjection(1..n, S) : TRUE
    BY <1>1 DEF ExistsBijection, Bijection
  <1>4. f \in [1..n -> S] /\ \A i \in S : \E k \in 1..n : f[k] = i
    BY <1>3 DEF Surjection
  <1> DEFINE D == [1..Cardinality(S) -> {<<i>> : i \in S}]
             All(docs) == \A i \in S : \E k \in DOMAIN docs : docs[k] = <<i>>
             g == [k \in 1..n |-> <<f[k]>>]
  <1>5. g \in D /\ All(g)
    BY <1>2, <1>4
  <1>6. \E docs \in D : All(docs)
    BY <1>5
  <1>7. OneEach(S) \in D /\ All(OneEach(S))
    BY <1>6, Zenon DEF OneEach
  <1>8. \A i \in S : <<i>> \in Seq(Nat)
    OBVIOUS
  <1>9. OneEach(S) \in [1..n -> {<<i>> : i \in S}]
    BY <1>2, <1>7
  <1> HIDE DEF D, g
  <1>10. \A k \in 1..n : OneEach(S)[k] \in {<<i>> : i \in S}
    BY <1>9
  <1>11. OneEach(S) \in [1..n -> Seq(Nat)]
    BY <1>8, <1>9
  <1> QED
    BY <1>7, <1>9, <1>10, <1>11

LEMMA ShapeInit ==
  Init => Shape
  <1> SUFFICES ASSUME Init
               PROVE  Shape
    OBVIOUS
  <1>1. Chosen /\ old \in Nat
    BY Assumed DEF Init, Chosen
  <1>2. Sending
    BY <1>1, TextParts, Assumed DEF Init, Sending
  <1>3. Working
    BY DEF Init, Working, Busy, Points, NoTask
  <1>4. IsFiniteSet(OldSet) /\ OldSet \in SUBSET Nat
    BY <1>1, OldFinite
  <1>5. Stored
    <2>1. <<OldSet>> \in Seq(SUBSET Nat)
      BY <1>4
    <2>2. /\ files = [l \in Lists |-> IF Raw \/ old = 0 THEN <<>> ELSE <<OldSet>>]
          /\ shared = [l \in Lists |-> {}]
      BY DEF Init, OldSet
    <2>3. eml = [l \in Lists |-> eml[l]]
      BY DEF Init
    <2>4. <<>> \in Seq(SUBSET Nat)
      OBVIOUS
    <2>5. (IF Raw \/ old = 0 THEN <<>> ELSE <<OldSet>>) \in Seq(SUBSET Nat)
      BY <2>1, <2>4, Zenon
    <2>6. files \in [Lists -> Seq(SUBSET Nat)] /\ shared \in [Lists -> SUBSET Nat]
      BY <2>2, <2>5
    <2> QED
      BY <2>3, <2>6 DEF Stored
  <1>6. Noted
    <2>1. OneEach(OldSet) \in Seq(Seq(Nat))
      BY <1>4, OneEachIs
    <2>2. lineage = [l \in Lists |-> OneEach(OldSet)]
      BY DEF Init, OldSet
    <2>3. (IF old = 0 THEN 0 ELSE Digits(old)) \in Nat
      BY <1>1, DigitsType
    <2>4. progress = [l \in Lists |-> [id |-> old,
                                       digits |-> IF old = 0 THEN 0 ELSE Digits(old)]]
          /\ errors = [l \in Lists |-> {}]
      BY DEF Init
    <2> QED
      BY <1>1, <2>1, <2>2, <2>3, <2>4 DEF Noted
  <1> QED
    BY <1>1, <1>2, <1>3, <1>5, <1>6 DEF Init, Shape, World
-----------------------------------------------------------------------------
(* The producer sends the indexes of the parts in order. *)
LEMMA ProducerShape ==
  ASSUME Shape, Produce
  PROVE  Shape'
  <1>1. /\ UNCHANGED <<input, pc, task, down, slot, store, records, world>>
        /\ ~Closed /\ list \in Lists
    BY Assumed DEF Produce, StartList, SendIndex, OutsideProducer, Closed, Shape,
                   Sending, Lists
  <1>2. /\ Len(text) \in Nat \ {0}
        /\ \A k \in 1..Len(text) : text[k].lo \in Nat /\ text[k].hi \in Nat
    BY TextParts DEF Shape
  <1>3. /\ list \in Nat \ {0} /\ index \in Nat /\ part \in 0..Len(text)
        /\ queue \in Seq(Lists \X Nat) /\ Len(queue) <= Capacity
        /\ list + 1 \in Nat \ {0} /\ NLists + 1 \in Nat \ {0}
    BY Assumed DEF Shape, Sending
  <1>4. Sending'
    <2>1. CASE StartList
      BY <1>1, <1>2, <1>3, <2>1
      DEF StartList, Goto, OutsideProducer, input, Sending
    <2>2. CASE SendIndex
      <3>1. queue' \in Seq(Lists \X Nat) /\ Len(queue') <= Capacity
        BY <1>1, <1>3, <2>2, Assumed DEF SendIndex
      <3>2. /\ list' \in Nat \ {0} /\ part' \in 0..Len(text) /\ index' \in Nat
            /\ part' > 0 => list' \in Lists
        <4>1. CASE MoreInPart
          BY <1>1, <1>2, <1>3, <2>2, <4>1 DEF SendIndex, Goto
        <4>2. CASE ~MoreInPart /\ part < Len(text)
          BY <1>1, <1>2, <1>3, <2>2, <4>2 DEF SendIndex, Goto
        <4>3. CASE ~MoreInPart /\ ~(part < Len(text))
          BY <1>1, <1>2, <1>3, <2>2, <4>3 DEF SendIndex, Goto
        <4> QED
          BY <4>1, <4>2, <4>3
      <3> QED
        BY <1>1, <3>1, <3>2 DEF Sending, input
    <2> QED
      BY <2>1, <2>2 DEF Produce
  <1>5. Chosen' /\ Working' /\ Stored' /\ Noted' /\ World'
    BY <1>1 DEF Shape, Chosen, Working, Busy, Stored, Noted, World, input, store,
                records, world
  <1> QED
    BY <1>4, <1>5 DEF Shape

(* A step of a worker that has a task takes it on, or ends it. *)
Onward(w, p) ==
  /\ Busy(w) /\ p \in Points \ {"ended"}
  /\ pc' = [pc EXCEPT ![w] = p]
  /\ task' = IF p = "recv" THEN [task EXCEPT ![w] = NoTask] ELSE task
  /\ \/ slot' = slot \/ slot' = [slot EXCEPT ![w] = 0]
     \/ p = "create" /\ slot' = [slot EXCEPT ![w] = NewPath(w)]

LEMMA WorkerMoves ==
  ASSUME NEW w \in Workers, Work(w) \/ NetworkError(w) \/ IoError(w)
  PROVE  \/ Take(w) \/ Leave(w)
         \/ /\ \E p \in Points \ {"ended"} : Onward(w, p)
            /\ UNCHANGED <<input, producer, queue>>
  <1> USE DEF At, Step, Move, Goes, Busy, Points, Onward, Within
  <1>1. CASE Group(w) \/ CommandFails(w) \/ SkipOnShutdown(w) \/ LogUnavailable(w)
    BY <1>1 DEF Group, CommandFails, Online, SkipOnShutdown, LogUnavailable
  <1>2. CASE FetchRaw(w) \/ FetchParquet(w) \/ WriteRaw(w)
    BY <1>2 DEF FetchRaw, FetchParquet, Fetched, WriteRaw
  <1>3. CASE UpdateProgress(w) \/ Separate(w) \/ UpdateLineage(w)
    BY <1>3 DEF UpdateProgress, Separate, UpdateLineage
  <1>4. CASE ResolvePath(w) \/ CreateFile(w) \/ CloseFile(w)
    BY <1>4 DEF ResolvePath, CreateFile, CloseFile
  <1>5. CASE NetworkError(w) \/ IoError(w)
    BY <1>5 DEF NetworkError, Online, IoError
  <1> QED
    BY <1>1, <1>2, <1>3, <1>4, <1>5 DEF Work

LEMMA WorkingStays ==
  ASSUME Shape, NEW w \in Workers, Work(w) \/ NetworkError(w) \/ IoError(w)
  PROVE  Chosen' /\ Sending' /\ Working'
  <1>1. down' \subseteq Workers
    BY DEF Work, Take, Leave, Group, CommandFails, SkipOnShutdown, LogUnavailable,
           FetchRaw, FetchParquet, WriteRaw, UpdateProgress, Separate, UpdateLineage,
           ResolvePath, CreateFile, CloseFile, NetworkError, IoError, Step, Within,
           Shape, Working
  <1>2. CASE Take(w)
    <2>1. /\ queue \in Seq(Lists \X Nat) /\ queue # <<>> /\ Len(queue) <= Capacity
          /\ Capacity \in Nat
      BY <1>2, Assumed DEF Take, Shape, Sending
    <2>2. /\ Head(queue) \in Lists \X Nat /\ Tail(queue) \in Seq(Lists \X Nat)
          /\ Len(Tail(queue)) <= Capacity
      BY <2>1
    <2>3. Head(queue) \in Nat \X Nat
      BY <2>2 DEF Lists
    <2> QED
      BY <1>1, <1>2, <2>2, <2>3
      DEF Take, Goes, Busy, Points, Shape, Chosen, Sending, Working, input, producer
  <1>3. CASE Leave(w)
    BY <1>1, <1>3
    DEF Leave, Goes, Busy, Points, Shape, Chosen, Sending, Working, input, producer
  <1>4. ASSUME NEW p \in Points \ {"ended"}, Onward(w, p),
               UNCHANGED <<input, producer, queue>>
        PROVE  Chosen' /\ Sending' /\ Working'
    <2>1. NewPath(w) \in Nat
      BY <1>4 DEF NewPath, L, Onward, Shape, Working, Stored
    <2>2. slot' \in [Workers -> Nat] /\ pc' \in [Workers -> Points]
      BY <1>4, <2>1 DEF Onward, Shape, Working
    <2>3. task' \in [Workers -> Nat \X Nat]
      BY <1>4 DEF Onward, NoTask, Shape, Working
    <2>4. \A v \in Workers : Busy(v)' => Busy(v) /\ task'[v] = task[v]
      BY <1>4 DEF Onward, Busy, Shape, Working
    <2>5. Working'
      BY <1>1, <2>2, <2>3, <2>4 DEF Shape, Working
    <2> QED
      BY <1>4, <2>5 DEF Shape, Chosen, Sending, input, producer
  <1> QED
    BY <1>2, <1>3, <1>4, WorkerMoves

(* What a task writes, it writes in the directory of its list. *)
LEMMA TaskIs ==
  ASSUME Shape, NEW w \in Workers, Busy(w)
  PROVE  /\ L(w) \in Lists /\ I(w) \in Nat /\ task[w] = <<L(w), I(w)>>
  BY DEF Shape, Working, L, I

(* Replacing a member of a sequence. *)
LEMMA PutTyped ==
  ASSUME NEW S, NEW q \in Seq(S), NEW k, NEW x \in S
  PROVE  /\ [q EXCEPT ![k] = x] \in Seq(S)
         /\ Len([q EXCEPT ![k] = x]) = Len(q)
  <1> DEFINE r == [q EXCEPT ![k] = x]
             n == Len(q)
  <1>1. n \in Nat /\ q \in [1..n -> S]
    OBVIOUS
  <1> HIDE DEF n
  <1>2. r \in [1..n -> S]
    BY <1>1
  <1> HIDE DEF r
  <1>3. r \in Seq(S) /\ Len(r) = n
    BY <1>1, <1>2
  <1> QED
    BY <1>3 DEF r, n

LEMMA StoredStays ==
  ASSUME Shape, NEW w \in Workers, Work(w) \/ NetworkError(w) \/ IoError(w)
  PROVE  Stored'
  <1>1. CASE FetchRaw(w) \/ WriteRaw(w)
    <2>1. UNCHANGED <<files, shared>> /\ Busy(w)
      BY <1>1 DEF FetchRaw, Fetched, WriteRaw, At, Busy
    <2>2. \E v \in {"torn", "whole"} :
             eml' = [eml EXCEPT ![L(w)] = Put(eml[L(w)], I(w), v)]
      BY <1>1 DEF FetchRaw, WriteRaw
    <2>3. eml' = [l \in Lists |-> eml'[l]]
      BY <2>2 DEF Shape, Stored
    <2> QED
      BY <2>1, <2>3 DEF Shape, Stored
  <1>2. CASE CreateFile(w)
    <2>1. Busy(w) /\ UNCHANGED eml
      BY <1>2 DEF CreateFile, At, Busy
    <2>2. /\ L(w) \in Lists /\ files[L(w)] \in Seq(SUBSET Nat) /\ slot[w] \in Nat
          /\ shared[L(w)] \in SUBSET Nat
      BY <2>1, TaskIs DEF Shape, Working, Stored
    <2>3. [files[L(w)] EXCEPT ![slot[w]] = {}] \in Seq(SUBSET Nat)
      BY <2>2, PutTyped
    <2>4. Append(files[L(w)], {}) \in Seq(SUBSET Nat)
      BY <2>2
    <2>5. files' \in [Lists -> Seq(SUBSET Nat)]
      BY <1>2, <2>2, <2>3, <2>4 DEF CreateFile, Shape, Stored
    <2>6. shared' \in [Lists -> SUBSET Nat]
      BY <1>2, <2>2 DEF CreateFile, Shape, Stored
    <2> QED
      BY <2>1, <2>5, <2>6 DEF Shape, Stored
  <1>3. CASE CloseFile(w)
    <2>1. Busy(w) /\ UNCHANGED <<eml, shared>>
      BY <1>3 DEF CloseFile, At, Busy
    <2>2. /\ L(w) \in Lists /\ files[L(w)] \in Seq(SUBSET Nat) /\ slot[w] \in Nat
          /\ I(w) \in Nat
      BY <2>1, TaskIs DEF Shape, Working, Stored
    <2>3. PICK content \in {{I(w)}, {}} :
             files' = [files EXCEPT ![L(w)] = [files[L(w)] EXCEPT ![slot[w]] = content]]
      BY <1>3 DEF CloseFile
    <2>4. [files[L(w)] EXCEPT ![slot[w]] = content] \in Seq(SUBSET Nat)
      <3>1. content \in SUBSET Nat
        BY <2>2
      <3> QED
        BY <2>2, <3>1, PutTyped
    <2>5. files' \in [Lists -> Seq(SUBSET Nat)]
      BY <2>2, <2>3, <2>4 DEF Shape, Stored
    <2> QED
      BY <2>1, <2>5 DEF Shape, Stored
  <1>4. CASE UNCHANGED store
    BY <1>4 DEF Shape, Stored, store
  <1> QED
    BY <1>1, <1>2, <1>3, <1>4
    DEF Work, Take, Leave, Group, CommandFails, SkipOnShutdown, LogUnavailable,
        FetchParquet, UpdateProgress, Separate, UpdateLineage, ResolvePath,
        NetworkError, IoError, Step

LEMMA WithTextTyped ==
  ASSUME NEW docs \in Seq(Seq(Nat)), NEW i \in Nat
  PROVE  WithText(docs, i) \in Seq(Seq(Nat))
  <1>1. <<<<i>>>> \in Seq(Seq(Nat))
    OBVIOUS
  <1>2. CASE docs # <<>>
    <2>1. Len(docs) \in 1..Len(docs) /\ docs[Len(docs)] \in Seq(Nat)
      BY <1>2
    <2>2. Append(docs[Len(docs)], i) \in Seq(Nat)
      BY <2>1
    <2> QED
      BY <1>2, <2>2, PutTyped DEF WithText
  <1> QED
    BY <1>1, <1>2 DEF WithText

LEMMA NotedStays ==
  ASSUME Shape, NEW w \in Workers, Work(w) \/ NetworkError(w) \/ IoError(w)
  PROVE  Noted'
  <1>1. CASE LogUnavailable(w)
    <2>1. Busy(w)
      BY <1>1 DEF LogUnavailable, At, Busy
    <2> QED
      BY <1>1, <2>1, TaskIs DEF LogUnavailable, Shape, Noted
  <1>2. CASE UpdateProgress(w)
    <2>1. Busy(w)
      BY <1>2 DEF UpdateProgress, At, Busy
    <2>2. L(w) \in Lists /\ I(w) \in Nat /\ Digits(I(w)) \in Nat
      BY <2>1, TaskIs, DigitsType
    <2>3. WriteYaml(L(w), I(w)) \in [id : Nat, digits : Nat]
      BY <2>2 DEF WriteYaml, Longer, Shape, Noted
    <2> QED
      BY <1>2, <2>2, <2>3 DEF UpdateProgress, Shape, Noted
  <1>3. CASE Separate(w)
    <2>1. Busy(w)
      BY <1>3 DEF Separate, At, Busy
    <2>2. L(w) \in Lists /\ lineage[L(w)] \in Seq(Seq(Nat))
      BY <2>1, TaskIs DEF Shape, Noted
    <2>3. <<>> \in Seq(Nat)
      OBVIOUS
    <2>4. Append(lineage[L(w)], <<>>) \in Seq(Seq(Nat))
      BY <2>2, <2>3
    <2> QED
      BY <1>3, <2>2, <2>4 DEF Separate, Shape, Noted
  <1>4. CASE UpdateLineage(w)
    <2>1. Busy(w)
      BY <1>4 DEF UpdateLineage, At, Busy
    <2>2. L(w) \in Lists /\ I(w) \in Nat /\ lineage[L(w)] \in Seq(Seq(Nat))
      BY <2>1, TaskIs DEF Shape, Noted
    <2>3. WithText(lineage[L(w)], I(w)) \in Seq(Seq(Nat))
      BY <2>2, WithTextTyped
    <2> QED
      BY <1>4, <2>2, <2>3 DEF UpdateLineage, Shape, Noted
  <1>5. CASE UNCHANGED records
    BY <1>5 DEF Shape, Noted, records
  <1> QED
    BY <1>1, <1>2, <1>3, <1>4, <1>5
    DEF Work, Take, Leave, Group, CommandFails, SkipOnShutdown, FetchRaw,
        FetchParquet, WriteRaw, ResolvePath, CreateFile, CloseFile, NetworkError,
        IoError, Step

LEMMA ShapeStep ==
  ASSUME Shape, [Next]_vars
  PROVE  Shape'
  <1>1. CASE Produce
    BY <1>1, ProducerShape
  <1>2. ASSUME NEW w \in Workers, Work(w) \/ NetworkError(w) \/ IoError(w)
        PROVE  Shape'
    <2>1. World'
      BY <1>2
      DEF Work, Take, Leave, Group, CommandFails, SkipOnShutdown, LogUnavailable,
          FetchRaw, FetchParquet, WriteRaw, UpdateProgress, Separate, UpdateLineage,
          ResolvePath, CreateFile, CloseFile, NetworkError, IoError, Step, Within,
          Happens, Kinds, Shape, World, world
    <2> QED
      BY <1>2, <2>1, WorkingStays, StoredStays, NotedStays DEF Shape
  <1>3. CASE RequestShutdown
    BY <1>3
    DEF RequestShutdown, Happens, Kinds, Shape, Chosen, Sending, Working, Busy,
        Stored, Noted, World, input, producer, store, records
  <1>4. CASE Crash
    <2>1. Sending'
      BY <1>4, Assumed DEF Crash, Goto, Shape, Sending, input
    <2> QED
      BY <1>4, <2>1
      DEF Crash, Happens, Kinds, Points, NoTask, Shape, Chosen, Working, Busy,
          Stored, Noted, World, input, store, records
  <1>5. CASE UNCHANGED vars
    BY <1>5
    DEF vars, Shape, Chosen, Sending, Working, Busy,
        Stored, Noted, World, input, producer, store, records, world
  <1> QED
    BY <1>1, <1>2, <1>3, <1>4, <1>5 DEF Next, Trouble

(* The state of a run has its types, for any number of workers and lists:  *)
(* no index is sent for a list that is not there, and the channel is never *)
(* over its bound.                                                         *)
THEOREM RangeTypeCorrect == Spec => []TypeOK
  <1>1. Shape => TypeOK
    BY DEF Shape, Chosen, Sending, Working, Busy, Stored, Noted, World, TypeOK
  <1> QED
    BY <1>1, ShapeInit, ShapeStep, PTL DEF Spec
-----------------------------------------------------------------------------
(* Only what the range names is sent and taken, and nothing of a range     *)
(* that does not parse.                                                    *)
Asked ==
  /\ \A k \in 1..Len(queue) : Wanted(queue[k][2])
  /\ \A w \in Workers : Busy(w) => Wanted(I(w))
  /\ part > 0 => text[part].lo <= index /\ index <= text[part].hi

(* A part of a range that parses. *)
LEMMA PartAscends ==
  ASSUME Chosen, ~Malformed(text), NEW k \in 1..Len(text)
  PROVE  text[k].lo <= text[k].hi
  BY TextParts DEF Malformed

(* The next index of the producer. *)
LEMMA SendIs ==
  ASSUME Shape, Asked, SendIndex
  PROVE  /\ list \in Lists /\ part \in 1..Len(text) /\ DOMAIN text = 1..Len(text)
         /\ index \in Nat /\ text[part].lo \in Nat /\ text[part].hi \in Nat
         /\ text[part].lo <= index /\ index <= text[part].hi
         /\ queue' = Append(queue, <<list, index>>) /\ queue \in Seq(Lists \X Nat)
         /\ UNCHANGED <<input, pc, task, down, slot, store, records, world>>
  <1>1. /\ part > 0 /\ part \in 0..Len(text) /\ index \in Nat /\ queue \in Seq(Lists \X Nat)
        /\ list \in Lists /\ Len(text) \in Nat
    BY TextParts DEF SendIndex, Shape, Sending
  <1>2. part \in 1..Len(text)
    BY <1>1
  <1>3. text[part].lo \in Nat /\ text[part].hi \in Nat /\ DOMAIN text = 1..Len(text)
    BY <1>2, TextParts DEF Shape
  <1> QED
    BY <1>1, <1>2, <1>3 DEF SendIndex, OutsideProducer, Asked

(* The three ways the producer goes on. *)
LEMMA SendGoes ==
  ASSUME Shape, Asked, SendIndex
  PROVE  \/ index < text[part].hi /\ list' = list /\ part' = part /\ index' = index + 1
         \/ /\ index = text[part].hi /\ part < Len(text)
            /\ list' = list /\ part' = part + 1 /\ index' = text[part + 1].lo
         \/ /\ index = text[part].hi /\ part = Len(text)
            /\ list' = list + 1 /\ part' = 0 /\ index' = 0
  <1>1. /\ part \in 1..Len(text) /\ index \in Nat /\ text[part].hi \in Nat
        /\ index <= text[part].hi /\ Len(text) \in Nat
    BY SendIs, TextParts DEF Shape
  <1>2. CASE MoreInPart
    BY <1>2 DEF SendIndex, Goto, MoreInPart
  <1>3. CASE ~MoreInPart
    <2>1. index = text[part].hi
      BY <1>1, <1>3 DEF MoreInPart
    <2> QED
      BY <1>1, <1>3, <2>1 DEF SendIndex, Goto
  <1> QED
    BY <1>2, <1>3

(* A range that does not parse is not sent from. *)
Parsed == part > 0 => ~Malformed(text)

LEMMA AskedInit ==
  Init => Asked /\ Parsed
  BY Assumed DEF Init, Asked, Parsed, Busy

LEMMA SendAsks ==
  ASSUME Shape, Asked, Parsed, Produce
  PROVE  Asked' /\ Parsed'
  <1>1. UNCHANGED <<input, pc, task>>
    BY DEF Produce, StartList, SendIndex, OutsideProducer
  <1>2. \A i : Wanted(i)' <=> Wanted(i)
    BY <1>1 DEF Wanted, input
  <1>3. \A w \in Workers : Busy(w)' => Wanted(I(w))'
    BY <1>1, <1>2 DEF Asked, Busy, I
  <1>4. CASE StartList
    <2>1. queue' = queue /\ text' = text
      BY <1>1, <1>4 DEF StartList, input
    <2>2. part' > 0 => part' = 1 /\ index' = text[1].lo /\ ~Malformed(text)
      BY <1>4 DEF StartList, Goto
    <2>3. 1 \in 1..Len(text) /\ text[1].lo \in Nat
      BY TextParts DEF Shape
    <2>4. part' > 0 => text[part'].lo <= index' /\ index' <= text[part'].hi
      BY <2>2, <2>3, PartAscends DEF Shape
    <2> QED
      BY <1>2, <1>3, <2>1, <2>2, <2>4 DEF Asked, Parsed
  <1>5. CASE SendIndex
    <2>1. /\ part \in 1..Len(text) /\ index \in Nat /\ DOMAIN text = 1..Len(text)
          /\ text[part].lo \in Nat /\ text[part].hi \in Nat /\ part \in Nat
          /\ text[part].lo <= index /\ index <= text[part].hi
          /\ queue' = Append(queue, <<list, index>>) /\ queue \in Seq(Lists \X Nat)
      BY <1>5, SendIs
    <2>2. Wanted(index)
      BY <2>1 DEF Wanted
    <2>3. \A k \in 1..Len(queue') : Wanted(queue'[k][2])
      BY <2>1, <2>2 DEF Asked
    <2>4. text' = text /\ (part' > 0 => ~Malformed(text))
      BY <1>1, <2>1 DEF Parsed, input
    <2>5. part' > 0 => text[part'].lo <= index' /\ index' <= text[part'].hi
      <3>1. CASE index < text[part].hi /\ part' = part /\ index' = index + 1
        BY <2>1, <3>1
      <3>2. CASE part < Len(text) /\ part' = part + 1 /\ index' = text[part + 1].lo
        <4>1. part' \in 1..Len(text) /\ text[part'].lo \in Nat /\ part' > 0
          BY <2>1, <3>2, TextParts DEF Shape
        <4> QED
          BY <2>4, <3>2, <4>1, PartAscends DEF Shape
      <3> QED
        BY <1>5, <3>1, <3>2, SendGoes
    <2> QED
      BY <1>2, <1>3, <2>3, <2>4, <2>5 DEF Asked, Parsed
  <1> QED
    BY <1>4, <1>5 DEF Produce

LEMMA AskedStep ==
  ASSUME Shape, Asked, Parsed, [Next]_vars
  PROVE  Asked' /\ Parsed'
  <1>1. CASE Produce
    BY <1>1, SendAsks
  <1>2. ASSUME NEW w \in Workers, Take(w)
        PROVE  Asked' /\ Parsed'
    <2>1. /\ queue \in Seq(Lists \X Nat) /\ queue # <<>> /\ queue' = Tail(queue)
          /\ UNCHANGED <<input, producer>>
          /\ task' = [task EXCEPT ![w] = Head(queue)]
          /\ pc' = [pc EXCEPT ![w] = "group"]
      BY <1>2 DEF Take, Goes, Shape, Sending
    <2>2. \A i : Wanted(i)' <=> Wanted(i)
      BY <2>1 DEF Wanted, input
    <2>3. Head(queue) = queue[1] /\ 1 \in 1..Len(queue)
      BY <2>1
    <2>4. \A k \in 1..Len(Tail(queue)) :
             k + 1 \in 1..Len(queue) /\ Tail(queue)[k] = queue[k + 1]
      BY <2>1
    <2>5. \A v \in Workers : Busy(v)' => Wanted(I(v)')
      <3> SUFFICES ASSUME NEW v \in Workers, Busy(v)'
                   PROVE  Wanted(I(v)')
        OBVIOUS
      <3>1. CASE v = w
        BY <2>1, <2>3, <3>1 DEF I, Asked, Shape, Working
      <3>2. CASE v # w
        BY <2>1, <3>2 DEF I, Busy, Asked, Shape, Working
      <3> QED
        BY <3>1, <3>2
    <2>6. \A k \in 1..Len(queue') : Wanted(queue'[k][2])
      BY <2>1, <2>4 DEF Asked
    <2> QED
      BY <2>1, <2>2, <2>5, <2>6 DEF Asked, Parsed, input, producer
  <1>3. ASSUME UNCHANGED <<input, producer>>, queue' = queue \/ queue' = <<>>,
               \A w \in Workers : Busy(w)' => Busy(w) /\ task'[w] = task[w]
        PROVE  Asked' /\ Parsed'
    <2>1. \A i : Wanted(i)' <=> Wanted(i)
      BY <1>3 DEF Wanted, input
    <2> QED
      BY <1>3, <2>1 DEF Asked, Parsed, I, input, producer
  <1>4. ASSUME NEW w \in Workers, Work(w) \/ NetworkError(w) \/ IoError(w), ~Take(w)
        PROVE  Asked' /\ Parsed'
    <2>1. UNCHANGED <<input, producer, queue>>
      BY <1>4, WorkerMoves DEF Leave
    <2>2. \A v \in Workers : Busy(v)' => Busy(v) /\ task'[v] = task[v]
      <3>1. CASE Leave(w)
        BY <3>1 DEF Leave, Goes, Busy, Shape, Working
      <3>2. CASE ~Leave(w)
        <4>1. PICK p \in Points \ {"ended"} : Onward(w, p)
          BY <1>4, <3>2, WorkerMoves
        <4> QED
          BY <4>1 DEF Onward, Busy, Shape, Working
      <3> QED
        BY <3>1, <3>2
    <2> QED
      BY <1>3, <2>1, <2>2
  <1>5. CASE RequestShutdown \/ UNCHANGED vars
    BY <1>3, <1>5 DEF RequestShutdown, vars, Busy
  <1>6. CASE Crash
    BY <1>6 DEF Crash, Goto, Busy, Asked, Parsed
  <1> QED
    BY <1>1, <1>2, <1>4, <1>5, <1>6 DEF Next, Trouble
-----------------------------------------------------------------------------
(* __progress.yaml: its id is an old or a named one, and what is left of   *)
(* longer texts has the digits of such a one.                              *)
Numbers == {old} \cup {text[x].hi : x \in DOMAIN text}
Written == \A l \in Lists :
  /\ \/ /\ progress[l].id = old
        /\ progress[l].digits = IF old = 0 THEN 0 ELSE Digits(old)
     \/ /\ Wanted(progress[l].id)
        /\ Digits(progress[l].id) <= progress[l].digits
  /\ progress[l].digits > 0 => \E i \in Numbers : progress[l].digits <= Digits(i)

LEMMA WrittenInit ==
  Init => Written
  <1> SUFFICES ASSUME Init, NEW l \in Lists
               PROVE  /\ progress[l].id = old
                      /\ progress[l].digits = IF old = 0 THEN 0 ELSE Digits(old)
                      /\ progress[l].digits > 0 =>
                            \E i \in Numbers : progress[l].digits <= Digits(i)
    BY DEF Written
  <1>1. /\ progress[l].id = old
        /\ progress[l].digits = IF old = 0 THEN 0 ELSE Digits(old)
    BY DEF Init
  <1>2. Digits(old) \in Nat
    BY DigitsType, Assumed DEF Init
  <1>3. old \in Numbers
    BY DEF Numbers
  <1> QED
    BY <1>1, <1>2, <1>3

(* A named index has no more digits than the end of its part. *)
LEMMA WantedDigits ==
  ASSUME Chosen, NEW i \in Nat, Wanted(i)
  PROVE  /\ \E k \in DOMAIN text : /\ text[k].lo \in Nat /\ text[k].hi \in Nat
                                   /\ Digits(text[k].lo) <= Digits(i)
                                   /\ text[k].lo <= i /\ i <= text[k].hi
         /\ \E n \in Numbers : Digits(i) <= Digits(n)
  <1>1. PICK k \in DOMAIN text : text[k].lo <= i /\ i <= text[k].hi
    BY DEF Wanted
  <1>2. text[k].lo \in Nat /\ text[k].hi \in Nat
    BY <1>1, TextParts
  <1>3. Digits(text[k].lo) <= Digits(i) /\ Digits(i) <= Digits(text[k].hi)
    BY <1>1, <1>2, DigitsGrow
  <1>4. text[k].hi \in Numbers
    BY DEF Numbers
  <1> QED
    BY <1>1, <1>2, <1>3, <1>4

LEMMA WrittenStep ==
  ASSUME Shape, Asked, Written, [Next]_vars
  PROVE  Written'
  <1>0. UNCHANGED input
    BY WorkerMoves DEF Next, Trouble, vars, Produce, StartList, SendIndex, OutsideProducer, Take,
                  Leave, RequestShutdown, Crash
  <1>1. /\ \A i : Wanted(i)' <=> Wanted(i)
        /\ Numbers' = Numbers /\ old' = old
    BY <1>0 DEF Wanted, Numbers, input
  <1>2. CASE UNCHANGED progress
    BY <1>1, <1>2 DEF Written
  <1>3. ASSUME NEW w \in Workers, UpdateProgress(w)
        PROVE  Written'
    <2>1. /\ Busy(w) /\ L(w) \in Lists /\ I(w) \in Nat /\ Wanted(I(w))
          /\ progress' = [progress EXCEPT ![L(w)] = WriteYaml(L(w), I(w))]
      BY <1>3, TaskIs DEF UpdateProgress, At, Busy, Asked
    <2> DEFINE l == L(w)
               d == Digits(I(w))
    <2>2. /\ d \in Nat \ {0} /\ progress[l].digits \in Nat
          /\ progress'[l].id = I(w)
          /\ progress'[l].digits = IF progress[l].digits > d THEN progress[l].digits ELSE d
      BY <2>1, DigitsType DEF WriteYaml, Longer, Shape, Noted
    <2>3. PICK n \in Numbers : d <= Digits(n)
      BY <2>1, WantedDigits DEF Shape
    <2>4. \E i \in Numbers : progress'[l].digits <= Digits(i)
      <3>1. CASE progress[l].digits > d
        BY <2>1, <2>2, <3>1 DEF Written
      <3>2. CASE ~(progress[l].digits > d)
        BY <2>2, <2>3, <3>2
      <3> QED
        BY <3>1, <3>2
    <2>5. d <= progress'[l].digits
      BY <2>2
    <2>6. \A m \in Lists : m # l => progress'[m] = progress[m]
      BY <2>1 DEF Shape, Noted
    <2>7. Digits(progress'[l].id) <= progress'[l].digits
      BY <2>2, <2>5
    <2>8. Wanted(progress'[l].id)
      BY <2>1, <2>2
    <2> HIDE DEF d, l
    <2>9. ASSUME NEW m \in Lists
          PROVE  /\ \/ /\ progress'[m].id = old
                       /\ progress'[m].digits = IF old = 0 THEN 0 ELSE Digits(old)
                    \/ /\ Wanted(progress'[m].id)
                       /\ Digits(progress'[m].id) <= progress'[m].digits
                 /\ progress'[m].digits > 0 =>
                       \E i \in Numbers : progress'[m].digits <= Digits(i)
      <3>1. CASE m = l
        BY <2>4, <2>7, <2>8, <3>1
      <3>2. CASE m # l
        BY <2>6, <3>2 DEF Written
      <3> QED
        BY <3>1, <3>2
    <2> QED
      BY <1>1, <2>9 DEF Written
  <1>4. UNCHANGED progress \/ \E w \in Workers : UpdateProgress(w)
    BY DEF Next, Produce, StartList, SendIndex, OutsideProducer, Trouble, vars, records,
        Work, Take, Leave, Group, CommandFails, SkipOnShutdown, LogUnavailable,
        FetchRaw, FetchParquet, WriteRaw, Separate, UpdateLineage,
        ResolvePath, CreateFile, CloseFile, NetworkError, IoError, Step,
        RequestShutdown, Crash
  <1> QED
    BY <1>2, <1>3, <1>4

Ranged == Shape /\ Asked /\ Parsed /\ Written

LEMMA RangedInit ==
  Init => Ranged
  BY ShapeInit, AskedInit, WrittenInit DEF Ranged

LEMMA RangedStep ==
  Ranged /\ [Next]_vars => Ranged'
  BY ShapeStep, AskedStep, WrittenStep DEF Ranged

(* __progress.yaml stays readable whatever the workers, the order of their *)
(* writes and the mishaps, unless an index is two digits shorter than      *)
(* another.                                                                *)
THEOREM ProgressIsReadable == Spec => []ProgressStaysReadable
  <1>1. Ranged => ProgressStaysReadable
    <2> SUFFICES ASSUME Ranged,
                        \A k \in DOMAIN text, i \in Numbers :
                           Digits(i) <= Digits(text[k].lo) + 1,
                        NEW l \in Lists, progress[l].digits > 0
                 PROVE  Readable(l)
      BY DEF ProgressStaysReadable, Numbers
    <2>1. progress[l].id \in Nat /\ progress[l].digits \in Nat
      BY DEF Ranged, Shape, Noted
    <2>2. Digits(progress[l].id) \in Nat
      BY <2>1, DigitsType
    <2>3. PICK n \in Numbers : progress[l].digits <= Digits(n)
      BY DEF Ranged, Written
    <2>4. CASE progress[l].digits = Digits(progress[l].id)
      BY <2>1, <2>2, <2>4 DEF Readable
    <2>5. CASE Wanted(progress[l].id)
      <3>1. PICK k \in DOMAIN text : /\ text[k].lo \in Nat
                                     /\ Digits(text[k].lo) <= Digits(progress[l].id)
        BY <2>1, <2>5, WantedDigits DEF Ranged, Shape
      <3>2. n \in Nat
        BY TextParts, Assumed DEF Numbers, Ranged, Shape, Chosen
      <3>3. Digits(text[k].lo) \in Nat /\ Digits(n) \in Nat
        BY <3>1, <3>2, DigitsType
      <3>4. Digits(n) <= Digits(text[k].lo) + 1
        OBVIOUS
      <3>5. progress[l].digits <= Digits(progress[l].id) + 1
        BY <2>1, <2>2, <2>3, <3>1, <3>3, <3>4
      <3> QED
        BY <2>1, <2>2, <3>5 DEF Readable
    <2> QED
      BY <2>1, <2>4, <2>5 DEF Ranged, Written
  <1> QED
    BY <1>1, RangedInit, RangedStep, PTL DEF Spec
-----------------------------------------------------------------------------
(* What was archived before.  In parquet mode the index of a task's file   *)
(* is behind those there were; in raw mode a file is torn only while the   *)
(* worker that truncated it is about to write it.                          *)
Phase == \A w \in Workers :
  IF Raw THEN pc[w] \notin {"resolve", "create", "close"} ELSE pc[w] # "write"

Slots == \A w \in Workers :
  /\ pc[w] = "create" => slot[w] \in 1..Len(files[L(w)]) + 1
  /\ pc[w] = "close" => slot[w] \in 1..Len(files[L(w)])
  /\ pc[w] \in {"create", "close"} /\ old # 0 => slot[w] > 1

OldFiles ==
  ~Raw /\ old # 0 => \A l \in Lists : files[l] # <<>> /\ files[l][1] = OldSet

Writes(w, l, i) == pc[w] = "write" /\ task[w] = <<l, i>>

Torn == Undisturbed({"io", "crash"}) =>
  \A l \in Lists : \A i \in DOMAIN eml[l] :
    eml[l][i] = "whole" \/ \E w \in Workers : Writes(w, l, i)

OldEml == Raw => \A l \in Lists : OldSet \subseteq DOMAIN eml[l]

LEMMA InputStays ==
  ASSUME [Next]_vars
  PROVE  UNCHANGED input /\ (Raw' <=> Raw) /\ OldSet' = OldSet /\ old' = old
  <1>1. UNCHANGED input
    BY WorkerMoves
    DEF Next, Trouble, vars, Produce, StartList, SendIndex, OutsideProducer, Take,
        Leave, RequestShutdown, Crash
  <1> QED
    BY <1>1 DEF input, Raw, OldSet, Old

(* What a step may do to a worker. *)
LEMMA StepOf ==
  ASSUME Shape, [Next]_vars, NEW v \in Workers
  PROVE  \/ pc'[v] = pc[v] /\ task'[v] = task[v] /\ slot'[v] = slot[v]
         \/ Work(v) \/ NetworkError(v) \/ IoError(v)
         \/ Crash /\ pc'[v] = "ended"
  <1>1. CASE UNCHANGED <<pc, task, slot>>
    BY <1>1
  <1>2. ASSUME NEW w \in Workers, Work(w) \/ NetworkError(w) \/ IoError(w), w # v
        PROVE  pc'[v] = pc[v] /\ task'[v] = task[v] /\ slot'[v] = slot[v]
    <2>1. CASE Take(w) \/ Leave(w)
      BY <1>2, <2>1 DEF Take, Leave, Goes, Shape, Working
    <2>2. CASE \E p \in Points \ {"ended"} : Onward(w, p)
      BY <1>2, <2>2 DEF Onward, Shape, Working
    <2> QED
      BY <1>2, <2>1, <2>2, WorkerMoves
  <1>3. CASE Crash
    BY <1>3 DEF Crash
  <1>4. CASE Produce \/ RequestShutdown \/ UNCHANGED vars
    BY <1>1, <1>4
    DEF Produce, StartList, SendIndex, OutsideProducer, RequestShutdown, vars
  <1> QED
    BY <1>2, <1>3, <1>4 DEF Next, Trouble

LEMMA PhaseStep ==
  ASSUME Shape, Phase, [Next]_vars
  PROVE  Phase'
  <1> SUFFICES ASSUME NEW v \in Workers
               PROVE  IF Raw THEN pc'[v] \notin {"resolve", "create", "close"}
                      ELSE pc'[v] # "write"
    BY InputStays DEF Phase
  <1>1. CASE Work(v) \/ NetworkError(v) \/ IoError(v)
    BY <1>1
    DEF Work, Take, Leave, Group, CommandFails, SkipOnShutdown, LogUnavailable,
        FetchRaw, FetchParquet, Fetched, WriteRaw, UpdateProgress, Separate,
        UpdateLineage, ResolvePath, CreateFile, CloseFile, NetworkError, IoError,
        Step, Move, Goes, At, Phase, Shape, Working
  <1> QED
    BY <1>1, StepOf DEF Phase

LEMMA FilesMoves ==
  ASSUME [Next]_vars
  PROVE  \/ files' = files /\ shared' = shared
         \/ \E w \in Workers : CreateFile(w) \/ CloseFile(w)
  BY DEF Next, Produce, StartList, SendIndex, OutsideProducer, Trouble, vars, store,
      Work, Take, Leave, Group, CommandFails, SkipOnShutdown, LogUnavailable,
      FetchRaw, FetchParquet, WriteRaw, UpdateProgress, Separate, UpdateLineage,
      ResolvePath, NetworkError, IoError, Step, RequestShutdown, Crash

(* Parquet files are added behind the others, and only the writer of one   *)
(* changes it.                                                             *)
LEMMA FilesGrow ==
  ASSUME Shape, Slots, [Next]_vars, NEW l \in Lists
  PROVE  /\ Len(files[l]) \in Nat /\ Len(files'[l]) \in Nat
         /\ Len(files[l]) <= Len(files'[l])
         /\ \A k \in 1..Len(files[l]) :
              \/ files'[l][k] = files[l][k]
              \/ \E w \in Workers : /\ L(w) = l /\ slot[w] = k
                                    /\ pc[w] \in {"create", "close"}
  <1>1. CASE files' = files
    BY <1>1 DEF Shape, Stored
  <1>2. ASSUME NEW w \in Workers, CreateFile(w) \/ CloseFile(w)
        PROVE  /\ Len(files[l]) \in Nat /\ Len(files'[l]) \in Nat
               /\ Len(files[l]) <= Len(files'[l])
               /\ \A k \in 1..Len(files[l]) :
                    \/ files'[l][k] = files[l][k]
                    \/ L(w) = l /\ slot[w] = k /\ pc[w] \in {"create", "close"}
    <2>1. Busy(w) /\ pc[w] \in {"create", "close"}
      BY <1>2 DEF CreateFile, CloseFile, At, Busy
    <2>2. /\ L(w) \in Lists /\ files[L(w)] \in Seq(SUBSET Nat)
          /\ files[l] \in Seq(SUBSET Nat) /\ I(w) \in Nat
      BY <2>1, TaskIs DEF Shape, Stored
    <2>3. PICK q : /\ files' = [files EXCEPT ![L(w)] = q]
                   /\ \/ \E c \in SUBSET Nat : q = [files[L(w)] EXCEPT ![slot[w]] = c]
                      \/ q = Append(files[L(w)], {})
      <3>1. CASE CreateFile(w)
        BY <3>1 DEF CreateFile
      <3>2. CASE CloseFile(w)
        <4>1. PICK content \in {{I(w)}, {}} :
                 files' = [files EXCEPT ![L(w)] = [files[L(w)] EXCEPT ![slot[w]] = content]]
          BY <3>2 DEF CloseFile
        <4>2. content \in SUBSET Nat
          BY <2>2
        <4> QED
          BY <4>1, <4>2
      <3> QED
        BY <1>2, <3>1, <3>2
    <2>4. /\ Len(q) \in Nat /\ Len(files[L(w)]) <= Len(q)
          /\ \A k \in 1..Len(files[L(w)]) : q[k] = files[L(w)][k] \/ slot[w] = k
      <3>1. CASE q = Append(files[L(w)], {})
        BY <2>2, <3>1
      <3>2. ASSUME NEW c \in SUBSET Nat, q = [files[L(w)] EXCEPT ![slot[w]] = c]
            PROVE  /\ Len(q) = Len(files[L(w)])
                   /\ \A k \in 1..Len(files[L(w)]) : q[k] = files[L(w)][k] \/ slot[w] = k
        <4>1. Len(q) = Len(files[L(w)])
          BY <2>2, <3>2, PutTyped
        <4> QED
          BY <2>2, <3>2, <4>1
      <3> QED
        BY <2>2, <2>3, <3>1, <3>2
    <2> QED
      BY <2>1, <2>2, <2>3, <2>4 DEF Shape, Stored
  <1> QED
    BY <1>1, <1>2, FilesMoves

(* A worker comes to "create" and "close" in order. *)
LEMMA SlotMoves ==
  ASSUME Shape, [Next]_vars, NEW v \in Workers, pc'[v] \in {"create", "close"}
  PROVE  \/ pc'[v] = pc[v] /\ task'[v] = task[v] /\ slot'[v] = slot[v]
         \/ /\ ResolvePath(v) /\ pc'[v] = "create" /\ task' = task
            /\ slot'[v] = Len(files[L(v)]) + 1 /\ files' = files
            /\ Busy(v) /\ pc[v] = "resolve"
         \/ /\ CreateFile(v) /\ pc'[v] = "close" /\ task' = task
            /\ slot'[v] = slot[v] /\ Busy(v) /\ pc[v] = "create"
  <1>1. CASE Work(v) \/ NetworkError(v) \/ IoError(v)
    BY <1>1
    DEF Work, Take, Leave, Group, CommandFails, SkipOnShutdown, LogUnavailable,
        FetchRaw, FetchParquet, Fetched, WriteRaw, UpdateProgress, Separate,
        UpdateLineage, ResolvePath, CreateFile, CloseFile, NetworkError, IoError,
        Step, Move, Goes, At, Busy, NewPath, store, Shape, Working
  <1> QED
    BY <1>1, StepOf

LEMMA SlotsStep ==
  ASSUME Shape, Slots, OldFiles, Phase, [Next]_vars
  PROVE  Slots' /\ OldFiles'
  <1>1. (Raw' <=> Raw) /\ OldSet' = OldSet /\ old' = old
    BY InputStays
  <1>2. Slots'
    <2> SUFFICES ASSUME NEW v \in Workers, pc'[v] \in {"create", "close"}
                 PROVE  /\ pc'[v] = "create" =>
                              slot'[v] \in 1..Len(files'[L(v)']) + 1
                        /\ pc'[v] = "close" => slot'[v] \in 1..Len(files'[L(v)'])
                        /\ old # 0 => slot'[v] > 1
      BY <1>1 DEF Slots
    <2>1. /\ Len(files[L(v)]) \in Nat /\ Len(files'[L(v)]) \in Nat
          /\ Len(files[L(v)]) <= Len(files'[L(v)]) /\ L(v) \in Lists /\ Busy(v)
      <3>1. Busy(v)
        BY SlotMoves DEF Busy
      <3> QED
        BY <3>1, TaskIs, FilesGrow
    <2>2. CASE pc'[v] = pc[v] /\ task'[v] = task[v] /\ slot'[v] = slot[v]
      <3>1. L(v)' = L(v)
        BY <2>2 DEF L
      <3> QED
        BY <2>1, <2>2, <3>1 DEF Slots
    <2>3. CASE /\ pc'[v] = "create" /\ task' = task /\ pc[v] = "resolve"
               /\ slot'[v] = Len(files[L(v)]) + 1 /\ files' = files
      <3>1. L(v)' = L(v)
        BY <2>3 DEF L
      <3>2. old # 0 => Len(files[L(v)]) > 0
        <4>1. ~Raw
          BY <2>3 DEF Phase
        <4> QED
          BY <2>1, <4>1 DEF OldFiles, Shape, Stored
      <3> QED
        BY <2>1, <2>3, <3>1, <3>2
    <2>4. CASE /\ CreateFile(v) /\ pc'[v] = "close" /\ task' = task
               /\ slot'[v] = slot[v] /\ pc[v] = "create"
      <3>1. L(v)' = L(v)
        BY <2>4 DEF L
      <3>2. /\ slot[v] \in 1..Len(files[L(v)]) + 1
            /\ old # 0 => slot[v] > 1
        BY <2>4 DEF Slots
      <3>3. slot[v] <= Len(files'[L(v)])
        <4>1. CASE slot[v] <= Len(files[L(v)])
          BY <2>1, <3>2, <4>1
        <4>2. CASE ~(slot[v] <= Len(files[L(v)]))
          <5>1. files'[L(v)] = Append(files[L(v)], {}) /\ files[L(v)] \in Seq(SUBSET Nat)
            BY <2>1, <2>4, <4>2 DEF CreateFile, Shape, Stored
          <5>2. Len(files'[L(v)]) = Len(files[L(v)]) + 1
            BY <5>1
          <5> QED
            BY <2>1, <3>2, <5>2
        <4> QED
          BY <4>1, <4>2
      <3> QED
        BY <2>1, <2>4, <3>1, <3>2, <3>3
    <2> QED
      BY <2>2, <2>3, <2>4, SlotMoves
  <1>3. OldFiles'
    <2> SUFFICES ASSUME ~Raw, old # 0, NEW l \in Lists
                 PROVE  files'[l] # <<>> /\ files'[l][1] = OldSet
      BY <1>1 DEF OldFiles
    <2>1. files[l] # <<>> /\ files[l][1] = OldSet /\ files[l] \in Seq(SUBSET Nat)
      BY DEF OldFiles, Shape, Stored
    <2>2. 1 \in 1..Len(files[l])
      BY <2>1
    <2>3. /\ Len(files[l]) <= Len(files'[l])
          /\ \/ files'[l][1] = files[l][1]
             \/ \E w \in Workers : slot[w] = 1 /\ pc[w] \in {"create", "close"}
      BY <2>2, FilesGrow
    <2>4. files'[l][1] = files[l][1]
      BY <2>3 DEF Slots
    <2>5. files'[l] # <<>>
      BY <2>1, <2>2, <2>3
    <2> QED
      BY <2>1, <2>4, <2>5
  <1> QED
    BY <1>2, <1>3
(* Only a worker at "fetch" or "write" changes an .eml file, its own. *)
LEMMA EmlMoves ==
  ASSUME Shape, [Next]_vars
  PROVE  \/ eml' = eml
         \/ \E w \in Workers :
              /\ Busy(w) /\ eml' = [eml EXCEPT ![L(w)] = Put(eml[L(w)], I(w), "torn")]
              /\ pc[w] = "fetch" /\ pc'[w] = "write" /\ task' = task
         \/ \E w \in Workers :
              /\ Busy(w) /\ eml' = [eml EXCEPT ![L(w)] = Put(eml[L(w)], I(w), "whole")]
              /\ pc[w] = "write" /\ WriteRaw(w)
  <1>1. ASSUME NEW w \in Workers, FetchRaw(w)
        PROVE  /\ Busy(w) /\ eml' = [eml EXCEPT ![L(w)] = Put(eml[L(w)], I(w), "torn")]
               /\ pc[w] = "fetch" /\ pc'[w] = "write" /\ task' = task
    BY <1>1 DEF FetchRaw, Fetched, Move, Goes, At, Busy, Shape, Working
  <1>2. ASSUME NEW w \in Workers, WriteRaw(w)
        PROVE  /\ Busy(w) /\ eml' = [eml EXCEPT ![L(w)] = Put(eml[L(w)], I(w), "whole")]
               /\ pc[w] = "write"
    BY <1>2 DEF WriteRaw, At, Busy
  <1>3. eml' = eml \/ \E w \in Workers : FetchRaw(w) \/ WriteRaw(w)
    BY DEF Next, Produce, StartList, SendIndex, OutsideProducer, Trouble, vars, store,
        Work, Take, Leave, Group, CommandFails, SkipOnShutdown, LogUnavailable,
        FetchParquet, UpdateProgress, Separate, UpdateLineage, ResolvePath,
        CreateFile, CloseFile, NetworkError, IoError, Step, RequestShutdown, Crash
  <1> QED
    BY <1>1, <1>2, <1>3

(* Without an I/O error or a crash, a worker that is about to write does.  *)
LEMMA WritesOn ==
  ASSUME Shape, [Next]_vars, NEW v \in Workers, NEW l, NEW i, Writes(v, l, i),
         Undisturbed({"io", "crash"})'
  PROVE  Writes(v, l, i)' \/ WriteRaw(v)
  <1>1. CASE IoError(v) \/ Crash
    BY <1>1 DEF IoError, Crash, Happens, Undisturbed
  <1>2. CASE pc'[v] = pc[v] /\ task'[v] = task[v]
    BY <1>2 DEF Writes
  <1>3. CASE Work(v) \/ NetworkError(v)
    BY <1>3
    DEF Work, Take, Leave, Group, CommandFails, SkipOnShutdown, LogUnavailable,
        FetchRaw, FetchParquet, Fetched, UpdateProgress, Separate, UpdateLineage,
        ResolvePath, CreateFile, CloseFile, NetworkError, Online, At, Writes
  <1> QED
    BY <1>1, <1>2, <1>3, StepOf

(* Mishaps are not undone. *)
LEMMA MishapsStay ==
  ASSUME [Next]_vars
  PROVE  mishaps \subseteq mishaps'
  BY DEF Next, Produce, StartList, SendIndex, OutsideProducer, Trouble, vars, world,
        Work, Take, Leave, Group, CommandFails, SkipOnShutdown, LogUnavailable,
        FetchRaw, FetchParquet, WriteRaw, UpdateProgress, Separate, UpdateLineage,
        ResolvePath, CreateFile, CloseFile, NetworkError, IoError, Step, Within,
        RequestShutdown, Crash, Happens

LEMMA TornStep ==
  ASSUME Shape, Torn, [Next]_vars
  PROVE  Torn'
  <1> SUFFICES ASSUME Undisturbed({"io", "crash"})', NEW l \in Lists,
                      NEW i \in DOMAIN eml'[l]
               PROVE  \/ eml'[l][i] = "whole"
                      \/ \E w \in Workers : Writes(w, l, i)'
    BY DEF Torn
  <1>1. \A j \in DOMAIN eml[l] :
           eml[l][j] = "whole" \/ \E w \in Workers : Writes(w, l, j)
    BY MishapsStay DEF Torn, Undisturbed
  <1>2. CASE eml' = eml
    <2>1. \A w \in Workers : WriteRaw(w) => eml[l][i] = "whole" \/ ~Writes(w, l, i)
      <3> SUFFICES ASSUME NEW w \in Workers, WriteRaw(w), Writes(w, l, i)
                   PROVE  eml[l][i] = "whole"
        OBVIOUS
      <3>1. Busy(w) /\ L(w) = l /\ I(w) = i /\ eml[l] = eml'[l]
        BY <1>2 DEF Writes, Busy, L, I
      <3>2. eml'[l] = Put(eml[l], i, "whole")
        BY <3>1 DEF WriteRaw, Shape, Stored
      <3> QED
        BY <3>1, <3>2 DEF Put
    <2> QED
      BY <1>1, <1>2, <2>1, WritesOn
  <1>3. ASSUME NEW w \in Workers, Busy(w), pc[w] = "fetch", pc'[w] = "write",
               task' = task, eml' = [eml EXCEPT ![L(w)] = Put(eml[L(w)], I(w), "torn")]
        PROVE  eml'[l][i] = "whole" \/ \E v \in Workers : Writes(v, l, i)'
    <2>1. task[w] = <<L(w), I(w)>> /\ L(w) \in Lists
      BY <1>3, TaskIs
    <2>2. CASE l = L(w) /\ i = I(w)
      <3>1. Writes(w, l, i)'
        BY <1>3, <2>1, <2>2 DEF Writes
      <3> QED
        BY <3>1
    <2>3. CASE ~(l = L(w) /\ i = I(w))
      <3>1. i \in DOMAIN eml[l] /\ eml'[l][i] = eml[l][i]
        BY <1>3, <2>1, <2>3 DEF Put, Shape, Stored
      <3>2. \A v \in Workers : ~WriteRaw(v) \/ ~Writes(v, l, i)
        <4> SUFFICES ASSUME NEW v \in Workers, WriteRaw(v), Writes(v, l, i)
                     PROVE  FALSE
          OBVIOUS
        <4>1. v # w /\ pc'[v] = "progress"
          BY <1>3 DEF Writes, WriteRaw, Move, Goes, Shape, Working
        <4>2. pc'[w] = pc[w]
          BY <4>1 DEF WriteRaw, Move, Goes, Shape, Working
        <4> QED
          BY <1>3, <4>2
      <3> QED
        BY <1>1, <3>1, <3>2, WritesOn
    <2> QED
      BY <2>2, <2>3
  <1>4. ASSUME NEW w \in Workers, Busy(w), WriteRaw(w), pc[w] = "write",
               eml' = [eml EXCEPT ![L(w)] = Put(eml[L(w)], I(w), "whole")]
        PROVE  eml'[l][i] = "whole" \/ \E v \in Workers : Writes(v, l, i)'
    <2>1. task[w] = <<L(w), I(w)>> /\ L(w) \in Lists
      BY <1>4, TaskIs
    <2>2. CASE l = L(w) /\ i = I(w)
      BY <1>4, <2>1, <2>2 DEF Put, Shape, Stored
    <2>3. CASE ~(l = L(w) /\ i = I(w))
      <3>1. i \in DOMAIN eml[l] /\ eml'[l][i] = eml[l][i]
        BY <1>4, <2>1, <2>3 DEF Put, Shape, Stored
      <3>2. \A v \in Workers : WriteRaw(v) => v = w
        BY <1>4 DEF WriteRaw, At, Move, Goes, Shape, Working
      <3>3. ~Writes(w, l, i)
        BY <2>1, <2>3 DEF Writes
      <3> QED
        BY <1>1, <3>1, <3>2, <3>3, WritesOn
    <2> QED
      BY <2>2, <2>3
  <1> QED
    BY <1>2, <1>3, <1>4, EmlMoves

LEMMA OldEmlStep ==
  ASSUME Shape, OldEml, [Next]_vars
  PROVE  OldEml'
  <1> SUFFICES ASSUME Raw, NEW l \in Lists, NEW i \in OldSet
               PROVE  i \in DOMAIN eml'[l]
    BY InputStays DEF OldEml
  <1>1. i \in DOMAIN eml[l]
    BY DEF OldEml
  <1>2. ASSUME NEW w \in Workers, Busy(w), NEW v,
               eml' = [eml EXCEPT ![L(w)] = Put(eml[L(w)], I(w), v)]
        PROVE  i \in DOMAIN eml'[l]
    <2>1. L(w) \in Lists
      BY <1>2, TaskIs
    <2> QED
      BY <1>1, <1>2, <2>1 DEF Put, Shape, Stored
  <1> QED
    BY <1>1, <1>2, EmlMoves

Safe == Phase /\ Slots /\ OldFiles /\ Torn /\ OldEml

LEMMA SafeInit ==
  Init => Safe
  <1> SUFFICES ASSUME Init
               PROVE  Safe
    OBVIOUS
  <1>1. /\ eml = [l \in Lists |-> [i \in IF Raw THEN OldSet ELSE {} |-> "whole"]]
        /\ files = [l \in Lists |-> IF Raw \/ old = 0 THEN <<>> ELSE <<OldSet>>]
        /\ \A w \in Workers : pc[w] \in {"recv", "ended"}
    BY DEF Init, OldSet
  <1>2. Phase /\ Slots
    BY <1>1 DEF Phase, Slots
  <1>3. OldFiles /\ Torn /\ OldEml
    BY <1>1 DEF OldFiles, Torn, OldEml
  <1> QED
    BY <1>2, <1>3 DEF Safe

(* No run costs an email that was archived before, whatever it fetches     *)
(* with how many workers; and what it fetches behind the progress does not *)
(* move the progress forward.                                              *)
THEOREM BackfillKeepsOld == Spec => []BackfillLeavesNoGap
  <1>1. Init => Ranged /\ Safe
    BY RangedInit, SafeInit
  <1>2. Ranged /\ Safe /\ [Next]_vars => Ranged' /\ Safe'
    BY RangedStep, PhaseStep, SlotsStep, TornStep, OldEmlStep DEF Ranged, Safe
  <1>3. Ranged /\ Safe => BackfillLeavesNoGap
    <2> SUFFICES ASSUME Ranged, Safe, NEW l \in Lists
                 PROVE  /\ ~Raw \/ (Over /\ Undisturbed({"io", "crash"})) =>
                             \A i \in Served : Old(i) => i \in Durable(l)
                        /\ (\A k \in DOMAIN text : text[k].hi <= old) =>
                             LastArticle(l) <= old
      BY DEF BackfillLeavesNoGap
    <2>1. ASSUME ~Raw, NEW i \in Served, Old(i)
          PROVE  i \in Durable(l)
      <3>1. old # 0 /\ i \in OldSet
        BY <2>1, Assumed DEF Old, OldSet, Ranged, Shape, Chosen
      <3>2. /\ files[l] \in Seq(SUBSET Nat) /\ files[l] # <<>>
            /\ files[l][1] = OldSet
        BY <2>1, <3>1 DEF Safe, OldFiles, Ranged, Shape, Stored
      <3>3. 1 \in DOMAIN files[l]
        BY <3>2
      <3> QED
        BY <3>1, <3>2, <3>3 DEF Durable
    <2>2. ASSUME Raw, Over, Undisturbed({"io", "crash"}), NEW i \in Served, Old(i)
          PROVE  i \in Durable(l)
      <3>1. i \in DOMAIN eml[l]
        BY <2>2 DEF OldSet, Safe, OldEml
      <3>2. eml[l][i] = "whole"
        BY <2>2, <3>1 DEF Safe, Torn, Over, Writes
      <3> QED
        BY <3>1, <3>2 DEF Durable
    <2>3. ASSUME \A k \in DOMAIN text : text[k].hi <= old
          PROVE  LastArticle(l) <= old
      <3>1. old \in Nat /\ progress[l].id \in Nat
        BY Assumed DEF Ranged, Shape, Chosen, Noted
      <3>2. progress[l].id = old \/ Wanted(progress[l].id)
        BY DEF Ranged, Written
      <3>3. CASE Wanted(progress[l].id)
        <4>1. PICK k \in DOMAIN text : /\ text[k].hi \in Nat
                                       /\ progress[l].id <= text[k].hi
          BY <3>1, <3>3, WantedDigits DEF Ranged, Shape
        <4>2. text[k].hi <= old
          BY <2>3
        <4> QED
          BY <3>1, <4>1, <4>2 DEF LastArticle
      <3> QED
        BY <3>1, <3>2, <3>3 DEF LastArticle
    <2> QED
      BY <2>1, <2>2, <2>3
  <1> QED
    BY <1>1, <1>2, <1>3, PTL DEF Spec
-----------------------------------------------------------------------------
(* A range is fetched whole.  A run without mishaps ends with an empty     *)
(* channel, after the producer.                                            *)
Idle == \A w \in Workers \ crew : pc[w] = "ended"

Quiet == mishaps = {} =>
  /\ ~shutdown /\ down = {}
  /\ \A w \in crew : pc[w] = "ended" => Closed /\ queue = <<>>

(* What the producer has sent, of the list and the part it is at. *)
In(k, i) == text[k].lo <= i /\ i <= text[k].hi
Sent(l, i) ==
  \/ l < list /\ Wanted(i)
  \/ /\ l = list /\ part > 0
     /\ \E k \in DOMAIN text : In(k, i) /\ (k < part \/ (k = part /\ i < index))

InQueue(l, i) == \E k \in 1..Len(queue) : queue[k] = <<l, i>>
Holds(w, l, i) == Busy(w) /\ task[w] = <<l, i>>

(* Where it is when its task is done. *)
InFiles(l, i) == \E k \in 1..Len(files[l]) : i \in files[l][k]
Noticed(l, i) == \E k \in 1..Len(lineage[l]) : lineage[l][k] = <<i>>
Kept(l, i) ==
  IF i \in Served THEN /\ Raw => i \in DOMAIN eml[l]
                       /\ Alone => (Raw \/ InFiles(l, i)) /\ Noticed(l, i)
  ELSE i \in errors[l]

Delivered == mishaps = {} /\ ~Malformed(text) =>
  \A l \in Lists, i \in Nat :
    Sent(l, i) => InQueue(l, i) \/ (\E w \in Workers : Holds(w, l, i)) \/ Kept(l, i)

(* What has been done of a task, by the point its worker is at. *)
Underway == \A w \in Workers : Busy(w) /\ pc[w] \notin {"group", "fetch"} =>
  I(w) \in Served /\ (Raw => I(w) \in DOMAIN eml[L(w)])

(* And by a worker that is alone. *)
SoloFiles == Alone =>
  /\ \A l \in Lists : shared[l] = {}
  /\ \A w \in Workers :
       /\ pc[w] = "create" => slot[w] = Len(files[L(w)]) + 1
       /\ pc[w] = "close" => slot[w] = Len(files[L(w)]) /\ files[L(w)][slot[w]] = {}
       /\ pc[w] = "progress" /\ ~Raw => InFiles(L(w), I(w))

(* After an error at the lineage the file is written without it. *)
SoloText == Alone => \A w \in Workers :
  /\ pc[w] = "document" =>
       lineage[L(w)] = <<>> \/ lineage[L(w)][Len(lineage[L(w)])] = <<>>
  /\ mishaps = {} /\ pc[w] \in {"resolve", "create", "close", "progress"} /\ ~Raw =>
       Noticed(L(w), I(w))

LEMMA IdleStep ==
  ASSUME Shape, Idle, [Next]_vars
  PROVE  Idle'
  <1>1. crew' = crew
    BY InputStays DEF input
  <1> SUFFICES ASSUME NEW v \in Workers \ crew
               PROVE  pc'[v] = "ended"
    BY <1>1 DEF Idle
  <1>2. pc[v] = "ended"
    BY DEF Idle
  <1>3. ~(Work(v) \/ NetworkError(v) \/ IoError(v))
    BY <1>2, WorkerMoves DEF Take, Leave, At, Onward, Busy
  <1> QED
    BY <1>2, <1>3, StepOf

(* A worker that is alone has no other one at work. *)
LEMMA OneAtWork ==
  ASSUME Shape, Idle, Alone, NEW v \in Workers, NEW w \in Workers,
         pc[v] # "ended", pc[w] # "ended"
  PROVE  v = w
  <1>1. crew \in SUBSET Workers
    BY Assumed DEF Shape, Chosen
  <1>2. IsFiniteSet(crew)
    BY <1>1, Assumed, FS_Subset
  <1>3. \E x : crew = {x}
    BY <1>2, FS_Singleton DEF Alone
  <1>4. v \in crew /\ w \in crew
    BY DEF Idle
  <1> QED
    BY <1>3, <1>4

LEMMA QuietStep ==
  ASSUME Shape, Idle, Quiet, [Next]_vars
  PROVE  Quiet'
  <1> SUFFICES ASSUME mishaps' = {}
               PROVE  /\ ~shutdown' /\ down' = {}
                      /\ \A w \in crew : pc'[w] = "ended" => Closed' /\ queue' = <<>>
    BY InputStays DEF Quiet, input
  <1>1. mishaps = {}
    BY MishapsStay
  <1>2. ~shutdown /\ down = {} /\ crew \subseteq Workers
    BY <1>1, Assumed DEF Quiet, Shape, Chosen
  <1>3. ~RequestShutdown /\ ~Crash /\ \A w \in Workers : ~NetworkError(w) /\ ~IoError(w)
    BY DEF RequestShutdown, Crash, NetworkError, IoError, Happens
  <1>4. shutdown' = shutdown /\ down' = down
    BY <1>3
    DEF Next, Produce, StartList, SendIndex, OutsideProducer, Trouble, vars, world,
        Work, Take, Leave, Group, CommandFails, SkipOnShutdown, LogUnavailable,
        FetchRaw, FetchParquet, WriteRaw, UpdateProgress, Separate, UpdateLineage,
        ResolvePath, CreateFile, CloseFile, Step, Within
  <1>5. ASSUME NEW w \in crew, pc'[w] = "ended"
        PROVE  Closed' /\ queue' = <<>>
    <2>1. Closed /\ queue = <<>>
      <3>1. CASE pc[w] = "ended"
        BY <1>1, <3>1 DEF Quiet
      <3>2. CASE pc[w] # "ended"
        <4>1. Work(w) \/ NetworkError(w) \/ IoError(w)
          BY <1>2, <1>3, <1>5, <3>2, StepOf
        <4>2. Leave(w)
          BY <1>2, <1>5, <4>1, WorkerMoves
          DEF Take, Goes, Onward, Shape, Working
        <4> QED
          BY <4>2 DEF Leave
      <3> QED
        BY <3>1, <3>2
    <2>2. ~Produce
      BY <2>1 DEF Produce, StartList, SendIndex
    <2>3. \A v \in Workers : ~Take(v)
      BY <2>1 DEF Take
    <2>4. list' = list /\ queue' = queue
      BY <1>3, <2>2, <2>3, WorkerMoves DEF Next, Trouble, vars, producer, Leave
    <2> QED
      BY <2>1, <2>4 DEF Closed
  <1> QED
    BY <1>2, <1>4, <1>5

LEMMA UnderwayStep ==
  ASSUME Shape, Underway, [Next]_vars
  PROVE  Underway'
  <1> SUFFICES ASSUME NEW v \in Workers, Busy(v)', pc'[v] \notin {"group", "fetch"}
               PROVE  /\ I(v)' \in Served
                      /\ Raw => I(v)' \in DOMAIN eml'[L(v)']
    BY InputStays DEF Underway
  <1>1. \A l \in Lists : DOMAIN eml[l] \subseteq DOMAIN eml'[l]
    <2> SUFFICES ASSUME NEW l \in Lists, NEW w \in Workers, Busy(w), NEW x,
                        eml' = [eml EXCEPT ![L(w)] = Put(eml[L(w)], I(w), x)]
                 PROVE  DOMAIN eml[l] \subseteq DOMAIN eml'[l]
      BY EmlMoves
    <2>1. L(w) \in Lists
      BY TaskIs
    <2> QED
      BY <2>1 DEF Put, Shape, Stored
  <1>2. CASE Busy(v) /\ pc[v] \notin {"group", "fetch"} /\ task'[v] = task[v]
    BY <1>1, <1>2, TaskIs DEF Underway, L, I
  <1>3. CASE FetchRaw(v)
    <2>1. /\ Busy(v) /\ I(v) \in Served /\ task' = task
          /\ eml' = [eml EXCEPT ![L(v)] = Put(eml[L(v)], I(v), "torn")]
      BY <1>3 DEF FetchRaw, Fetched, Move, At, Busy
    <2>2. L(v) \in Lists
      BY <2>1, TaskIs
    <2> QED
      BY <2>1, <2>2 DEF L, I, Put, Shape, Stored
  <1>4. CASE FetchParquet(v)
    BY <1>4 DEF FetchParquet, Fetched, Step, Move, At, L, I
  <1>5. CASE pc'[v] = pc[v] /\ task'[v] = task[v]
    BY <1>2, <1>5 DEF Busy
  <1>6. CASE Work(v) \/ NetworkError(v) \/ IoError(v)
    BY <1>2, <1>3, <1>4, <1>6
    DEF Work, Take, Leave, Group, CommandFails, SkipOnShutdown, LogUnavailable,
        WriteRaw, UpdateProgress, Separate, UpdateLineage, ResolvePath, CreateFile,
        CloseFile, NetworkError, IoError, Step, Move, Goes, At, Busy, Shape, Working
  <1> QED
    BY <1>5, <1>6, StepOf DEF Busy
LEMMA ProgressFrom ==
  ASSUME Shape, [Next]_vars, NEW v \in Workers, pc'[v] = "progress"
  PROVE  \/ pc[v] = "progress" /\ task'[v] = task[v]
         \/ WriteRaw(v)
         \/ CloseFile(v) /\ task' = task /\ Busy(v)
  <1>1. CASE Work(v) \/ NetworkError(v) \/ IoError(v)
    BY <1>1
    DEF Work, Take, Leave, Group, CommandFails, SkipOnShutdown, LogUnavailable,
        FetchRaw, FetchParquet, Fetched, UpdateProgress, Separate, UpdateLineage,
        ResolvePath, CreateFile, CloseFile, NetworkError, IoError, Step, Move, Goes,
        At, Busy, Shape, Working
  <1> QED
    BY <1>1, StepOf

LEMMA SoloFilesStep ==
  ASSUME Shape, Idle, Phase, Slots, SoloFiles, [Next]_vars
  PROVE  SoloFiles'
  <1> SUFFICES ASSUME Alone
               PROVE  /\ \A l \in Lists : shared'[l] = {}
                      /\ \A v \in Workers :
                           /\ pc'[v] = "create" =>
                                slot'[v] = Len(files'[L(v)']) + 1
                           /\ pc'[v] = "close" =>
                                /\ slot'[v] = Len(files'[L(v)'])
                                /\ files'[L(v)'][slot'[v]] = {}
                           /\ pc'[v] = "progress" /\ ~Raw => InFiles(L(v), I(v))'
    BY InputStays DEF SoloFiles, Alone, input
  <1>1. \A l \in Lists : shared'[l] = {}
    <2>1. ASSUME NEW w \in Workers, CreateFile(w)
          PROVE  shared' = shared
      <3>1. ASSUME NEW v \in Workers \ {w}, OpenBy(v, L(w), slot[w])
            PROVE  FALSE
        <4>1. pc[v] # "ended" /\ pc[w] # "ended"
          BY <2>1, <3>1 DEF CreateFile, OpenBy, At
        <4> QED
          BY <4>1, OneAtWork
      <3> QED
        BY <2>1, <3>1 DEF CreateFile
    <2>2. shared' = shared
      BY <2>1, FilesMoves DEF CloseFile
    <2> QED
      BY <2>2 DEF SoloFiles
  <1>2. ASSUME NEW v \in Workers, pc[v] # "ended", ~CreateFile(v), ~CloseFile(v)
        PROVE  files' = files
    BY <1>2, FilesMoves, OneAtWork DEF CreateFile, CloseFile, At
  <1>3. ASSUME NEW v \in Workers, pc'[v] \in {"create", "close"}
        PROVE  /\ pc'[v] = "create" => slot'[v] = Len(files'[L(v)']) + 1
               /\ pc'[v] = "close" => /\ slot'[v] = Len(files'[L(v)'])
                                      /\ files'[L(v)'][slot'[v]] = {}
    <2>1. CASE pc'[v] = pc[v] /\ task'[v] = task[v] /\ slot'[v] = slot[v]
      <3>1. files' = files
        BY <1>2, <1>3, <2>1
        DEF CreateFile, CloseFile, At, Move, Goes, Shape, Working
      <3> QED
        BY <1>3, <2>1, <3>1 DEF SoloFiles, L
    <2>2. CASE /\ pc'[v] = "create" /\ task' = task /\ files' = files
               /\ slot'[v] = Len(files[L(v)]) + 1
      BY <2>2 DEF L
    <2>3. CASE /\ CreateFile(v) /\ pc'[v] = "close" /\ task' = task
               /\ slot'[v] = slot[v] /\ pc[v] = "create" /\ Busy(v)
      <3>1. /\ slot[v] = Len(files[L(v)]) + 1 /\ files[L(v)] \in Seq(SUBSET Nat)
            /\ L(v) \in Lists
        BY <2>3, TaskIs DEF SoloFiles, Shape, Stored
      <3>2. files'[L(v)] = Append(files[L(v)], {})
        BY <2>3, <3>1 DEF CreateFile, Shape, Stored
      <3>3. Len(files'[L(v)]) = slot[v] /\ files'[L(v)][slot[v]] = {}
        BY <3>1, <3>2
      <3> QED
        BY <2>3, <3>3 DEF L
    <2> QED
      BY <1>3, <2>1, <2>2, <2>3, SlotMoves
  <1>4. ASSUME NEW v \in Workers, pc'[v] = "progress", ~Raw
        PROVE  InFiles(L(v), I(v))'
    <2>1. CASE pc[v] = "progress" /\ task'[v] = task[v]
      <3>1. files' = files
        BY <1>2, <2>1 DEF CreateFile, CloseFile, At
      <3> QED
        BY <1>4, <2>1, <3>1 DEF SoloFiles, InFiles, L, I
    <2>2. CASE WriteRaw(v)
      BY <1>4, <2>2 DEF Phase, WriteRaw, At
    <2>3. CASE CloseFile(v) /\ task' = task /\ Busy(v)
      <3>1. /\ L(v) \in Lists /\ I(v) \in Nat
            /\ slot[v] = Len(files[L(v)]) /\ shared[L(v)] = {}
            /\ files[L(v)] \in Seq(SUBSET Nat) /\ slot[v] \in Nat
        BY <2>3, TaskIs DEF SoloFiles, CloseFile, At, Shape, Working, Stored
      <3>2. files' = [files EXCEPT ![L(v)] = [files[L(v)] EXCEPT ![slot[v]] = {I(v)}]]
        BY <2>3, <3>1 DEF CloseFile
      <3>3. slot[v] \in 1..Len(files[L(v)])
        BY <2>3 DEF CloseFile, At, Slots
      <3>4. files'[L(v)] = [files[L(v)] EXCEPT ![slot[v]] = {I(v)}]
        BY <3>1, <3>2 DEF Shape, Stored
      <3>5. Len(files'[L(v)]) = Len(files[L(v)]) /\ {I(v)} \in SUBSET Nat
        BY <3>1, <3>4, PutTyped
      <3>6. files'[L(v)][slot[v]] = {I(v)}
        BY <3>1, <3>3, <3>4
      <3> QED
        BY <2>3, <3>1, <3>3, <3>5, <3>6 DEF InFiles, L, I
    <2> QED
      BY <1>4, <2>1, <2>2, <2>3, ProgressFrom
  <1> QED
    BY <1>1, <1>3, <1>4
LEMMA LineageMoves ==
  ASSUME [Next]_vars
  PROVE  \/ lineage' = lineage
         \/ \E w \in Workers : Separate(w) \/ UpdateLineage(w)
  BY DEF Next, Produce, StartList, SendIndex, OutsideProducer, Trouble, vars, records,
      Work, Take, Leave, Group, CommandFails, SkipOnShutdown, LogUnavailable,
      FetchRaw, FetchParquet, WriteRaw, UpdateProgress, ResolvePath, CreateFile,
      CloseFile, NetworkError, IoError, Step, RequestShutdown, Crash

(* The text of a document, behind its separator. *)
LEMMA TextAfterSeparator ==
  ASSUME NEW docs \in Seq(Seq(Nat)), NEW i \in Nat,
         docs = <<>> \/ docs[Len(docs)] = <<>>
  PROVE  /\ \E k \in 1..Len(WithText(docs, i)) : WithText(docs, i)[k] = <<i>>
         /\ \A k \in 1..Len(docs) : docs[k] # <<>> =>
              k \in 1..Len(WithText(docs, i)) /\ WithText(docs, i)[k] = docs[k]
  <1>1. CASE docs = <<>>
    <2>1. WithText(docs, i) = <<<<i>>>>
      BY <1>1 DEF WithText
    <2> QED
      BY <1>1, <2>1
  <1>2. CASE docs # <<>>
    <2>1. Len(docs) \in 1..Len(docs) /\ docs[Len(docs)] = <<>>
      BY <1>2
    <2>2. Append(<<>>, i) = <<i>> /\ <<i>> \in Seq(Nat)
      OBVIOUS
    <2>3. WithText(docs, i) = [docs EXCEPT ![Len(docs)] = <<i>>]
      BY <1>2, <2>1, <2>2 DEF WithText
    <2>4. Len(WithText(docs, i)) = Len(docs)
      BY <2>2, <2>3, PutTyped
    <2>5. WithText(docs, i)[Len(docs)] = <<i>>
      BY <2>1, <2>3
    <2>6. \A k \in 1..Len(docs) :
             k # Len(docs) => WithText(docs, i)[k] = docs[k]
      BY <2>3
    <2> QED
      BY <2>1, <2>4, <2>5, <2>6
  <1> QED
    BY <1>1, <1>2

(* Alone, a worker loses nothing of the lineage. *)
LEMMA NoticedStays ==
  ASSUME Shape, SoloText, Alone, [Next]_vars, NEW l \in Lists, NEW i \in Nat,
         Noticed(l, i)
  PROVE  Noticed(l, i)'
  <1>1. PICK k \in 1..Len(lineage[l]) : lineage[l][k] = <<i>>
    BY DEF Noticed
  <1>2. lineage[l] \in Seq(Seq(Nat)) /\ <<>> \in Seq(Nat) /\ <<i>> # <<>>
    BY DEF Shape, Noted
  <1>3. ASSUME NEW w \in Workers, Separate(w)
        PROVE  Noticed(l, i)'
    <2>1. L(w) \in Lists
      BY <1>3, TaskIs DEF Separate, At, Busy
    <2>2. lineage'[l] = lineage[l] \/ lineage'[l] = Append(lineage[l], <<>>)
      BY <1>3, <2>1 DEF Separate, Shape, Noted
    <2>3. k \in 1..Len(lineage'[l]) /\ lineage'[l][k] = lineage[l][k]
      <3>1. CASE lineage'[l] = Append(lineage[l], <<>>)
        BY <1>2, <3>1
      <3> QED
        BY <2>2, <3>1
    <2> QED
      BY <1>1, <2>3 DEF Noticed
  <1>4. ASSUME NEW w \in Workers, UpdateLineage(w)
        PROVE  Noticed(l, i)'
    <2>1. L(w) \in Lists /\ I(w) \in Nat
      BY <1>4, TaskIs DEF UpdateLineage, At, Busy
    <2>2. CASE l # L(w)
      BY <1>1, <1>4, <2>1, <2>2 DEF UpdateLineage, Noticed, Shape, Noted
    <2>3. CASE l = L(w)
      <3>1. lineage'[l] = WithText(lineage[l], I(w))
        BY <1>4, <2>1, <2>3 DEF UpdateLineage, Shape, Noted
      <3>2. lineage[l] = <<>> \/ lineage[l][Len(lineage[l])] = <<>>
        BY <1>4, <2>3 DEF UpdateLineage, At, SoloText
      <3>3. /\ k \in 1..Len(WithText(lineage[l], I(w)))
            /\ WithText(lineage[l], I(w))[k] = <<i>>
        BY <1>1, <1>2, <2>1, <3>2, TextAfterSeparator
      <3> QED
        BY <3>1, <3>3 DEF Noticed
    <2> QED
      BY <2>2, <2>3
  <1>5. CASE lineage' = lineage
    BY <1>1, <1>5 DEF Noticed
  <1> QED
    BY <1>3, <1>4, <1>5, LineageMoves

(* The text that a worker writes alone has a document of its own. *)
LEMMA NoticesAlone ==
  ASSUME Shape, SoloText, Alone, NEW w \in Workers, UpdateLineage(w)
  PROVE  \E k \in 1..Len(lineage'[L(w)]) : lineage'[L(w)][k] = <<I(w)>>
  <1>1. /\ L(w) \in Lists /\ I(w) \in Nat /\ task[w] = <<L(w), I(w)>>
        /\ lineage[L(w)] \in Seq(Seq(Nat))
    BY TaskIs DEF UpdateLineage, At, Busy, Shape, Noted
  <1>2. lineage[L(w)] = <<>> \/ lineage[L(w)][Len(lineage[L(w)])] = <<>>
    BY DEF UpdateLineage, At, SoloText
  <1>3. \E k \in 1..Len(WithText(lineage[L(w)], I(w))) :
           WithText(lineage[L(w)], I(w))[k] = <<I(w)>>
    BY <1>1, <1>2, TextAfterSeparator
  <1>4. lineage'[L(w)] = WithText(lineage[L(w)], I(w))
    BY <1>1 DEF UpdateLineage, Shape, Noted
  <1> QED
    BY <1>3, <1>4

(* The points of a worker behind "lineage". *)
LEMMA LineageFrom ==
  ASSUME Shape, Phase, [Next]_vars, NEW v \in Workers,
         \/ pc'[v] = "document"
         \/ /\ pc'[v] \in {"resolve", "create", "close", "progress"}
            /\ ~Raw /\ mishaps' = {}
  PROVE  \/ Separate(v) /\ pc'[v] = "document" /\ task' = task
         \/ UpdateLineage(v) /\ pc'[v] = "resolve" /\ task' = task
         \/ pc'[v] = pc[v] /\ task'[v] = task[v] /\ pc[v] = "document"
         \/ /\ pc[v] \in {"resolve", "create", "close", "progress"}
            /\ task'[v] = task[v] /\ pc'[v] # "document"
  <1>1. CASE Work(v) \/ NetworkError(v) \/ IoError(v)
    BY <1>1
    DEF Work, Take, Leave, Group, CommandFails, SkipOnShutdown, LogUnavailable,
        FetchRaw, FetchParquet, Fetched, WriteRaw, UpdateProgress, Separate,
        UpdateLineage, ResolvePath, CreateFile, CloseFile, NetworkError, IoError,
        Happens, Step, Move, Goes, At, Phase, Shape, Working
  <1> QED
    BY <1>1, StepOf

LEMMA SoloTextStep ==
  ASSUME Shape, Idle, Phase, SoloText, [Next]_vars
  PROVE  SoloText'
  <1> SUFFICES ASSUME Alone, NEW v \in Workers,
                      \/ pc'[v] = "document"
                      \/ /\ pc'[v] \in {"resolve", "create", "close", "progress"}
                         /\ ~Raw /\ mishaps' = {}
               PROVE  IF pc'[v] = "document"
                      THEN \/ lineage'[L(v)'] = <<>>
                           \/ lineage'[L(v)'][Len(lineage'[L(v)'])] = <<>>
                      ELSE Noticed(L(v), I(v))'
    BY InputStays DEF SoloText, Alone, input
  <1>1. CASE Separate(v) /\ pc'[v] = "document" /\ task' = task
    <2>1. L(v)' = L(v) /\ L(v) \in Lists
      BY <1>1, TaskIs DEF Separate, At, Busy, L
    <2>2. lineage[L(v)] \in Seq(Seq(Nat)) /\ <<>> \in Seq(Nat)
      BY <2>1 DEF Shape, Noted
    <2>3. \/ lineage'[L(v)] = <<>>
          \/ lineage'[L(v)] = Append(lineage[L(v)], <<>>)
      BY <1>1, <2>1 DEF Separate, Shape, Noted
    <2> QED
      BY <1>1, <2>1, <2>2, <2>3
  <1>2. CASE UpdateLineage(v) /\ pc'[v] = "resolve" /\ task' = task
    BY <1>2, NoticesAlone DEF Noticed, L, I
  <1>3. CASE pc'[v] = pc[v] /\ task'[v] = task[v] /\ pc[v] = "document"
    <2>1. lineage' = lineage
      <3>1. ASSUME NEW w \in Workers, Separate(w) \/ UpdateLineage(w)
            PROVE  FALSE
        <4>1. pc[w] # "ended" /\ pc'[w] # pc[w]
          BY <3>1 DEF Separate, UpdateLineage, At, Move, Goes, Shape, Working
        <4> QED
          BY <1>3, <4>1, OneAtWork
      <3> QED
        BY <3>1, LineageMoves
    <2> QED
      BY <1>3, <2>1 DEF SoloText, L
  <1>4. CASE /\ pc[v] \in {"resolve", "create", "close", "progress"}
             /\ task'[v] = task[v] /\ pc'[v] # "document"
    <2>1. Noticed(L(v), I(v)) /\ L(v) \in Lists /\ I(v) \in Nat
      BY <1>4, TaskIs, MishapsStay DEF SoloText, Busy
    <2>2. lineage'[L(v)] = lineage'[L(v)'] /\ I(v)' = I(v)
      BY <1>4 DEF L, I
    <2> QED
      BY <1>4, <2>1, <2>2, NoticedStays DEF Noticed
  <1> QED
    BY <1>1, <1>2, <1>3, <1>4, LineageFrom
(* Without mishaps and for a range that parses, what has newly been sent   *)
(* is in the channel.                                                      *)
LEMMA SentGrows ==
  ASSUME Shape, Asked, Produce, ~shutdown, ~Malformed(text),
         NEW l \in Lists, NEW i \in Nat, Sent(l, i)'
  PROVE  Sent(l, i) \/ (SendIndex /\ l = list /\ i = index)
  <1>1. UNCHANGED input /\ text' = text
    BY DEF Produce, StartList, SendIndex, OutsideProducer, input
  <1>2. /\ list \in Nat /\ l \in Nat /\ part \in Nat /\ index \in Nat
        /\ Len(text) \in Nat /\ DOMAIN text = 1..Len(text)
        /\ \A k \in 1..Len(text) : text[k].lo \in Nat /\ text[k].hi \in Nat
    BY TextParts DEF Shape, Sending, Lists
  <1>3. \/ l < list' /\ Wanted(i)
        \/ /\ l = list' /\ part' > 0
           /\ \E k \in 1..Len(text) : In(k, i) /\ (k < part' \/ (k = part' /\ i < index'))
    BY <1>1, <1>2 DEF Sent, Wanted, In
  <1>4. CASE StartList
    <2>1. list' = list /\ part' = 1 /\ index' = text[1].lo
      BY <1>4 DEF StartList, Goto
    <2>2. 1 \in 1..Len(text)
      BY TextParts DEF Shape
    <2>3. \A k \in 1..Len(text) : ~(k < 1)
      BY <1>2
    <2>4. In(1, i) => ~(i < text[1].lo)
      BY <1>2, <2>2 DEF In
    <2> QED
      BY <1>3, <2>1, <2>3, <2>4 DEF Sent
  <1>5. CASE SendIndex
    <2>1. part \in 1..Len(text) /\ part > 0
      BY <1>5, SendIs
    <2>2. CASE index < text[part].hi /\ list' = list /\ part' = part /\ index' = index + 1
      <3>1. i < index + 1 => i < index \/ i = index
        BY <1>2
      <3> QED
        BY <1>2, <1>3, <1>5, <2>1, <2>2, <3>1 DEF Sent
    <2>3. CASE /\ index = text[part].hi /\ part < Len(text)
               /\ list' = list /\ part' = part + 1 /\ index' = text[part + 1].lo
      <3>1. CASE l < list'
        <4>1. l < list' /\ list' = list /\ l # list
          BY <1>2, <2>3, <3>1
        <4> QED
          BY <1>3, <4>1 DEF Sent
      <3>2. CASE l = list
        <4>1. PICK k \in 1..Len(text) :
                 In(k, i) /\ (k < part + 1 \/ (k = part + 1 /\ i < text[part + 1].lo))
          BY <1>2, <1>3, <2>3, <3>2
        <4>2. k # part + 1 \/ ~(i < text[part + 1].lo)
          BY <1>2, <4>1 DEF In
        <4>3. k < part \/ k = part
          BY <1>2, <4>1, <4>2
        <4>4. k = part => i < index \/ i = index
          BY <1>2, <2>1, <2>3, <4>1 DEF In
        <4> QED
          BY <1>2, <1>5, <2>1, <3>2, <4>1, <4>3, <4>4 DEF Sent
      <3> QED
        BY <1>2, <1>3, <2>3, <3>1, <3>2
    <2>4. CASE /\ index = text[part].hi /\ part = Len(text)
               /\ list' = list + 1 /\ part' = 0 /\ index' = 0
      <3>1. l < list \/ l = list
        BY <1>2, <1>3, <2>4
      <3>2. CASE l < list
        BY <1>3, <2>4, <3>2 DEF Sent
      <3>3. CASE l = list
        <4>1. PICK k \in 1..Len(text) : In(k, i)
          BY <1>2, <1>3, <2>4 DEF Wanted, In
        <4>2. k < part \/ k = part
          <5>1. Len(text) \in Nat
            BY <1>2
          <5> QED
            BY <2>4, <5>1
        <4>3. k = part => i < index \/ i = index
          BY <1>2, <2>1, <2>4, <4>1 DEF In
        <4> QED
          BY <1>2, <1>5, <2>1, <3>3, <4>1, <4>2, <4>3 DEF Sent
      <3> QED
        BY <3>1, <3>2, <3>3
    <2> QED
      BY <1>5, <2>2, <2>3, <2>4, SendGoes
  <1> QED
    BY <1>4, <1>5 DEF Produce

(* What is kept is not lost. *)
LEMMA KeptStays ==
  ASSUME Shape, Idle, Phase, Slots, SoloFiles, SoloText, [Next]_vars,
         NEW l \in Lists, NEW i \in Nat, Kept(l, i)
  PROVE  Kept(l, i)'
  <1>1. (Raw' <=> Raw) /\ (Alone' <=> Alone)
    BY InputStays DEF Alone, input
  <1>2. CASE i \notin Served
    <2>1. i \in errors[l]
      BY <1>2 DEF Kept
    <2>2. ASSUME NEW w \in Workers, LogUnavailable(w)
          PROVE  i \in errors'[l]
      <3>1. L(w) \in Lists
        BY <2>2, TaskIs DEF LogUnavailable, At, Busy
      <3> QED
        BY <2>1, <2>2, <3>1 DEF LogUnavailable, Shape, Noted
    <2>3. errors' = errors \/ \E w \in Workers : LogUnavailable(w)
      BY DEF Next, Produce, StartList, SendIndex, OutsideProducer, Trouble, vars, records,
          Work, Take, Leave, Group, CommandFails, SkipOnShutdown, FetchRaw, FetchParquet,
          WriteRaw, UpdateProgress, Separate, UpdateLineage, ResolvePath, CreateFile,
          CloseFile, NetworkError, IoError, Step, RequestShutdown, Crash
    <2>4. i \in errors'[l]
      BY <2>1, <2>2, <2>3
    <2> QED
      BY <1>2, <2>4 DEF Kept
  <1>3. CASE i \in Served
    <2>1. ASSUME Raw
          PROVE  i \in DOMAIN eml'[l]
      <3>1. i \in DOMAIN eml[l]
        BY <1>3, <2>1 DEF Kept
      <3>2. ASSUME NEW w \in Workers, Busy(w), NEW x,
                   eml' = [eml EXCEPT ![L(w)] = Put(eml[L(w)], I(w), x)]
            PROVE  i \in DOMAIN eml'[l]
        <4>1. L(w) \in Lists
          BY <3>2, TaskIs
        <4> QED
          BY <3>1, <3>2, <4>1 DEF Put, Shape, Stored
      <3> QED
        BY <3>1, <3>2, EmlMoves
    <2>2. ASSUME Alone, ~Raw
          PROVE  InFiles(l, i)'
      <3>1. PICK k \in 1..Len(files[l]) : i \in files[l][k]
        BY <1>3, <2>2 DEF Kept, InFiles
      <3>2. /\ Len(files[l]) \in Nat /\ Len(files'[l]) \in Nat
            /\ Len(files[l]) <= Len(files'[l])
            /\ \/ files'[l][k] = files[l][k]
               \/ \E w \in Workers : /\ L(w) = l /\ slot[w] = k
                                     /\ pc[w] \in {"create", "close"}
        BY FilesGrow
      <3>3. ASSUME NEW w \in Workers, L(w) = l, slot[w] = k, pc[w] \in {"create", "close"}
            PROVE  FALSE
        <4>1. CASE pc[w] = "create"
          <5>1. slot[w] = Len(files[l]) + 1
            BY <2>2, <3>3, <4>1 DEF SoloFiles
          <5> QED
            BY <3>2, <3>3, <5>1
        <4>2. CASE pc[w] = "close"
          BY <2>2, <3>1, <3>3, <4>2 DEF SoloFiles
        <4> QED
          BY <3>3, <4>1, <4>2
      <3>4. k \in 1..Len(files'[l]) /\ files'[l][k] = files[l][k]
        BY <3>2, <3>3
      <3> QED
        BY <3>1, <3>4 DEF InFiles
    <2>3. ASSUME Alone
          PROVE  Noticed(l, i)'
      BY <1>3, <2>3, NoticedStays DEF Kept
    <2> QED
      BY <1>1, <1>3, <2>1, <2>2, <2>3 DEF Kept
  <1> QED
    BY <1>2, <1>3
(* A task that its worker lets go of, without mishaps, is done. *)
LEMMA LetsGo ==
  ASSUME Shape, Idle, Phase, Underway, SoloFiles, SoloText, ~shutdown, down = {},
         mishaps = {}, NEW w \in Workers, Work(w), Busy(w), pc'[w] = "recv", [Next]_vars
  PROVE  Kept(L(w), I(w)) \/ (LogUnavailable(w) /\ I(w) \notin Served)
         \/ (UpdateLineage(w) /\ Raw)
  <1>1. \/ LogUnavailable(w)
        \/ UpdateLineage(w) /\ Raw
        \/ At(w, "progress") /\ ~Raw
    BY DEF Work, Take, Leave, Group, CommandFails, Online, SkipOnShutdown, FetchRaw,
           FetchParquet, Fetched, WriteRaw, UpdateProgress, Separate, UpdateLineage,
           ResolvePath, CreateFile, CloseFile, Step, Move, Goes, At, Busy, Shape, Working
  <1>2. CASE At(w, "progress") /\ ~Raw
    <2>1. I(w) \in Served
      BY <1>2 DEF Underway, At, Busy
    <2>2. Alone => InFiles(L(w), I(w)) /\ Noticed(L(w), I(w))
      BY <1>2 DEF SoloFiles, SoloText, At
    <2> QED
      BY <1>2, <2>1, <2>2 DEF Kept
  <1> QED
    BY <1>1, <1>2 DEF LogUnavailable

LEMMA DoneIsKept ==
  ASSUME Shape, Idle, Phase, Slots, Underway, SoloFiles, SoloText, [Next]_vars,
         ~shutdown, down = {}, mishaps = {},
         NEW w \in Workers, Work(w), Busy(w), pc'[w] = "recv",
         NEW l \in Lists, NEW i \in Nat, l = L(w), i = I(w)
  PROVE  Kept(l, i)'
  <1>1. CASE Kept(l, i)
    BY <1>1, KeptStays
  <1>2. CASE LogUnavailable(w) /\ i \notin Served
    <2>1. i \in errors'[l]
      BY <1>2 DEF LogUnavailable, Shape, Noted
    <2> QED
      BY <1>2, <2>1 DEF Kept
  <1>3. CASE UpdateLineage(w) /\ Raw
    <2>1. i \in Served /\ i \in DOMAIN eml[l] /\ eml' = eml
      BY <1>3 DEF Underway, UpdateLineage, At, Busy, store
    <2>2. (Raw' <=> Raw) /\ (Alone' <=> Alone)
      BY InputStays DEF Alone, input
    <2>3. Alone => Noticed(l, i)'
      <3> SUFFICES ASSUME Alone
                   PROVE  Noticed(l, i)'
        OBVIOUS
      <3>1. \E k \in 1..Len(lineage'[l]) : lineage'[l][k] = <<i>>
        BY <1>3, NoticesAlone
      <3> QED
        BY <3>1 DEF Noticed
    <2> QED
      BY <1>3, <2>1, <2>2, <2>3 DEF Kept
  <1> QED
    BY <1>1, <1>2, <1>3, LetsGo

Due(l, i) == InQueue(l, i) \/ (\E w \in Workers : Holds(w, l, i)) \/ Kept(l, i)

LEMMA DueStays ==
  ASSUME Shape, Idle, Phase, Slots, Underway, SoloFiles, SoloText, [Next]_vars,
         ~shutdown, down = {}, mishaps' = {}, NEW l \in Lists, NEW i \in Nat, Due(l, i)
  PROVE  Due(l, i)'
  <1>1. CASE Kept(l, i)
    BY <1>1, KeptStays DEF Due
  <1>2. ~RequestShutdown /\ ~Crash /\ \A w \in Workers : ~NetworkError(w) /\ ~IoError(w)
    BY DEF RequestShutdown, Crash, NetworkError, IoError, Happens
  <1>3. ASSUME NEW v \in Workers, Holds(v, l, i)
        PROVE  Due(l, i)'
    <2>1. CASE pc'[v] = pc[v] /\ task'[v] = task[v]
      BY <1>3, <2>1 DEF Holds, Busy, Due
    <2>2. CASE Work(v)
      <3>1. ~Take(v) /\ ~Leave(v)
        BY <1>3 DEF Take, Leave, At, Holds, Busy
      <3>2. PICK p \in Points \ {"ended"} : Onward(v, p)
        BY <2>2, <3>1, WorkerMoves
      <3>3. CASE p # "recv"
        <4>1. Holds(v, l, i)'
          BY <1>3, <3>2, <3>3 DEF Onward, Holds, Busy, Shape, Working
        <4> QED
          BY <4>1 DEF Due
      <3>4. CASE p = "recv"
        <4>1. pc'[v] = "recv" /\ Busy(v) /\ L(v) = l /\ I(v) = i
          BY <1>3, <3>2, <3>4 DEF Onward, Holds, L, I, Shape, Working
        <4>2. Kept(l, i)'
          BY <2>2, <4>1, DoneIsKept, MishapsStay
        <4> QED
          BY <4>2 DEF Due
      <3> QED
        BY <3>3, <3>4
    <2> QED
      BY <1>2, <2>1, <2>2, StepOf
  <1>4. CASE InQueue(l, i)
    <2>1. PICK k \in 1..Len(queue) : queue[k] = <<l, i>>
      BY <1>4 DEF InQueue
    <2>2. queue \in Seq(Lists \X Nat) /\ Len(queue) \in Nat
      BY DEF Shape, Sending
    <2>3. CASE queue' = queue
      BY <2>1, <2>3 DEF Due, InQueue
    <2>4. CASE Produce
      <3>1. queue' = queue \/ queue' = Append(queue, <<list, index>>)
        BY <2>4 DEF Produce, StartList, SendIndex
      <3>2. CASE queue' = Append(queue, <<list, index>>)
        <4>1. k \in 1..Len(queue') /\ queue'[k] = queue[k]
          BY <2>2, <3>2
        <4> QED
          BY <2>1, <4>1 DEF Due, InQueue
      <3> QED
        BY <2>3, <3>1, <3>2
    <2>5. ASSUME NEW w \in Workers, Take(w)
          PROVE  Due(l, i)'
      <3>1. /\ queue # <<>> /\ queue' = Tail(queue)
            /\ task'[w] = Head(queue) /\ pc'[w] = "group"
        BY <2>5 DEF Take, Goes, Shape, Working
      <3>2. CASE k = 1
        <4>1. Head(queue) = <<l, i>>
          BY <2>1, <2>2, <3>1, <3>2
        <4>2. Holds(w, l, i)'
          BY <3>1, <4>1 DEF Holds, Busy
        <4> QED
          BY <4>2 DEF Due
      <3>3. CASE k # 1
        <4>1. k - 1 \in 1..Len(Tail(queue)) /\ Tail(queue)[k - 1] = queue[k]
          BY <2>2, <3>1, <3>3
        <4> QED
          BY <2>1, <3>1, <4>1 DEF Due, InQueue
      <3> QED
        BY <3>2, <3>3
    <2>6. queue' = queue \/ Produce \/ \E w \in Workers : Take(w)
      BY <1>2, WorkerMoves DEF Next, Trouble, vars, Leave
    <2> QED
      BY <2>3, <2>4, <2>5, <2>6
  <1> QED
    BY <1>1, <1>3, <1>4 DEF Due

LEMMA DeliveredStep ==
  ASSUME Shape, Asked, Idle, Quiet, Phase, Slots, Underway, SoloFiles, SoloText,
         Delivered, [Next]_vars
  PROVE  Delivered'
  <1>1. UNCHANGED input /\ text' = text
    BY InputStays DEF input
  <1> SUFFICES ASSUME mishaps' = {}, ~Malformed(text), NEW l \in Lists, NEW i \in Nat,
                      Sent(l, i)'
               PROVE  Due(l, i)'
    BY <1>1 DEF Delivered, Due, Malformed
  <1>2. mishaps = {}
    BY MishapsStay
  <1>3. ~shutdown /\ down = {}
    BY <1>2 DEF Quiet
  <1>4. Sent(l, i) => Due(l, i)
    BY <1>2 DEF Delivered, Due
  <1>5. Sent(l, i) => Due(l, i)'
    BY <1>3, <1>4, DueStays
  <1>6. CASE Produce
    <2>1. CASE SendIndex /\ l = list /\ i = index
      <3>1. queue' = Append(queue, <<l, i>>) /\ queue \in Seq(Lists \X Nat)
        BY <2>1 DEF SendIndex, Shape, Sending
      <3>2. Len(queue) + 1 \in 1..Len(queue') /\ queue'[Len(queue) + 1] = <<l, i>>
        BY <3>1
      <3> QED
        BY <3>2 DEF Due, InQueue
    <2> QED
      BY <1>3, <1>5, <1>6, <2>1, SentGrows
  <1>7. CASE ~Produce
    <2>1. UNCHANGED producer
      <3>1. ~Crash
        BY DEF Crash, Happens
      <3> QED
        BY <1>7, <3>1, WorkerMoves
        DEF Next, Trouble, RequestShutdown, Take, Leave, vars
    <2>2. Sent(l, i)
      BY <1>1, <2>1 DEF Sent, Wanted, In, producer
    <2> QED
      BY <1>5, <2>2
  <1> QED
    BY <1>6, <1>7

Whole == Idle /\ Quiet /\ Underway /\ SoloFiles /\ SoloText /\ Delivered

LEMMA WholeInit ==
  ASSUME Init
  PROVE  Whole
  <1>1. /\ \A w \in Workers : pc[w] = IF w \in crew THEN "recv" ELSE "ended"
        /\ ~shutdown /\ down = {} /\ \A l \in Lists : shared[l] = {}
        /\ crew \subseteq Workers /\ list = 1 /\ part = 0
    BY Assumed DEF Init
  <1>2. Idle /\ Quiet /\ Underway /\ SoloFiles /\ SoloText
    BY <1>1 DEF Idle, Quiet, Underway, Busy, SoloFiles, SoloText
  <1>3. Delivered
    BY <1>1 DEF Delivered, Sent, Lists
  <1> QED
    BY <1>2, <1>3 DEF Whole

(* A range that parses is fetched whole from each list, whatever worker    *)
(* took which index and however the parts overlap.                         *)
THEOREM RangeIsFetched == Spec => []RangeFetched
  <1>1. Init => Ranged /\ Safe /\ Whole
    BY RangedInit, SafeInit, WholeInit
  <1>2. Ranged /\ Safe /\ Whole /\ [Next]_vars => Ranged' /\ Safe' /\ Whole'
    <2> SUFFICES ASSUME Ranged, Safe, Whole, [Next]_vars
                 PROVE  Ranged' /\ Safe' /\ Whole'
      OBVIOUS
    <2>1. Ranged' /\ Safe'
      BY RangedStep, PhaseStep, SlotsStep, TornStep, OldEmlStep DEF Ranged, Safe
    <2>2. Whole'
      BY IdleStep, QuietStep, UnderwayStep, SoloFilesStep, SoloTextStep, DeliveredStep
      DEF Ranged, Safe, Whole
    <2> QED
      BY <2>1, <2>2
  <1>3. Ranged /\ Safe /\ Whole => RangeFetched
    <2> SUFFICES ASSUME Ranged, Safe, Whole, Over, Undisturbed(Kinds),
                        ~Malformed(text), NEW l \in Lists
                 PROVE  /\ Alone \/ Raw => \A i \in Served : Wanted(i) => i \in Durable(l)
                        /\ Alone => \A i \in Served : Wanted(i) => i \in Recorded(l)
                        /\ \A k \in DOMAIN text :
                             (text[k].lo .. text[k].hi) \ Served \subseteq errors[l]
      BY DEF RangeFetched
    <2>1. mishaps = {}
      BY DEF Undisturbed, Ranged, Shape, World
    <2>2. Closed /\ queue = <<>>
      <3>1. crew # {} /\ crew \subseteq Workers
        BY Assumed DEF Ranged, Shape, Chosen
      <3> QED
        BY <2>1, <3>1 DEF Whole, Quiet, Over
    <2>3. l < list
      BY <2>2, Assumed DEF Closed, Lists, Ranged, Shape, Sending
    <2>4. ASSUME NEW i \in Nat, Wanted(i)
          PROVE  Kept(l, i)
      <3>1. Sent(l, i)
        BY <2>3, <2>4 DEF Sent
      <3>2. ~InQueue(l, i) /\ \A w \in Workers : ~Holds(w, l, i)
        BY <2>2 DEF InQueue, Holds, Busy, Over
      <3> QED
        BY <2>1, <3>1, <3>2 DEF Whole, Delivered
    <2>5. ASSUME NEW i \in Served, Wanted(i)
          PROVE  (Alone \/ Raw => i \in Durable(l)) /\ (Alone => i \in Recorded(l))
      <3>1. i \in Nat /\ Kept(l, i)
        BY <2>4, <2>5, Assumed
      <3>2. ASSUME Raw
            PROVE  i \in Durable(l)
        <4>1. i \in DOMAIN eml[l]
          BY <3>1, <3>2 DEF Kept
        <4>2. eml[l][i] = "whole"
          BY <2>1, <4>1 DEF Safe, Torn, Undisturbed, Over, Writes
        <4> QED
          BY <4>1, <4>2 DEF Durable
      <3>3. ASSUME Alone, ~Raw
            PROVE  i \in Durable(l)
        <4>1. PICK k \in 1..Len(files[l]) : i \in files[l][k]
          BY <3>1, <3>3 DEF Kept, InFiles
        <4>2. k \in DOMAIN files[l]
          BY DEF Ranged, Shape, Stored
        <4> QED
          BY <4>1, <4>2 DEF Durable
      <3>4. ASSUME Alone
            PROVE  i \in Recorded(l)
        <4>1. PICK k \in 1..Len(lineage[l]) : lineage[l][k] = <<i>>
          BY <3>1, <3>4 DEF Kept, Noticed
        <4>2. k \in DOMAIN lineage[l] /\ Len(<<i>>) = 1 /\ <<i>>[1] = i
          BY DEF Ranged, Shape, Noted
        <4> QED
          BY <4>1, <4>2 DEF Recorded
      <3> QED
        BY <3>2, <3>3, <3>4
    <2>6. ASSUME NEW k \in DOMAIN text, NEW i \in text[k].lo .. text[k].hi, i \notin Served
          PROVE  i \in errors[l]
      <3>1. text[k].lo \in Nat /\ text[k].hi \in Nat
        BY TextParts DEF Ranged, Shape
      <3>2. i \in Nat /\ Wanted(i)
        BY <3>1 DEF Wanted
      <3> QED
        BY <2>4, <2>6, <3>2 DEF Kept
    <2> QED
      BY <2>5, <2>6
  <1> QED
    BY <1>1, <1>2, <1>3, PTL DEF Spec
=============================================================================
