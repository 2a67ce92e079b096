------------------------------ MODULE RangeFetch ------------------------------
(***************************************************************************)
(* email_range with the NNTP source: the producer of scheduler.rs parses   *)
(* the range for each list (range_inputs.rs) and sends one task per list   *)
(* and index; the workers take them from one channel, and                  *)
(* read_email_by_index makes an ArchiveWriter for each.  Unlike in a       *)
(* normal run, several workers may be in the directory of one list.        *)
(*                                                                         *)
(* Parquet files hold more than one email (max_emails_per_file > 1), so    *)
(* the email of a task reaches its file when the writer is dropped.  A     *)
(* YAML file is written by one write call, from the start of the file and  *)
(* without truncation (file_utils.rs: write_yaml).                         *)
(***************************************************************************)
EXTENDS Naturals, Sequences, FiniteSets

CONSTANTS
  Workers,   \* the worker threads there may be
  Crews,     \* bound: the sets of worker threads of a run (nthreads)
  NLists,    \* number of lists, which are 1..NLists in the order of tasks
  Texts,     \* bound: the values of email_range
  Served,    \* the articles the server has, in every list
  Olds,      \* bound: the progress that normal runs may have left
  Capacity,  \* the bound of the channel
  Tens,      \* bound: 10, 100 and so on, up to the numbers that occur
  Modes,     \* the write modes
  Budget     \* bound: how many mishaps happen, at most one of each kind

Lists == 1..NLists
Kinds == {"net", "stop", "io", "crash"}

(* A part of the range text is lo-hi, or lo alone (hi = lo).  A part that  *)
(* does not parse - empty, no number, descending - is one with lo > hi.    *)
(* There is always a worker (nthreads.max(1)), and no article 0.           *)
Part == [lo : Nat, hi : Nat]
Malformed(text) == \E k \in DOMAIN text : text[k].lo > text[k].hi

ASSUME RangeAssumption ==
  /\ IsFiniteSet(Workers) /\ Crews \subseteq SUBSET Workers /\ {} \notin Crews
  /\ NLists \in Nat /\ Capacity \in Nat \ {0}
  /\ \A text \in Texts : text \in Seq(Part) /\ text # <<>>
  /\ Served \subseteq Nat \ {0} /\ Olds \subseteq Nat
  /\ Tens \subseteq Nat /\ IsFiniteSet(Tens)
  /\ Modes \subseteq {"raw", "parquet"}
  /\ Budget \in Nat

VARIABLES
  mode, text, old, crew,  \* chosen at the start
  list, part, index, \* the producer: its loops, part = 0 before a list
  queue,             \* the channel
  pc, task,          \* each worker: see Points; what it is at
  down,              \* workers whose connection is lost
  slot,              \* each worker: index of the parquet file it resolved
  \* the directory of each list
  eml,               \* the .eml files: [id |-> "torn" or "whole"], in raw mode
  files,             \* data_NNN.parquet: the ids that can be read from it, none
                     \* without a footer
  shared,            \* the files that two writers had open at once
  progress,          \* __progress.yaml: the id, and the digits the file has room
                     \* for; none, if there is no file
  errors,            \* ids in __errors.csv
  lineage,           \* the documents of __lineage.yaml, each with its ids
  \* the world
  shutdown, mishaps

input    == <<mode, text, old, crew>>
producer == <<list, part, index>>
store    == <<eml, files, shared>>
records  == <<progress, errors, lineage>>
world    == <<shutdown, mishaps>>
vars == <<input, producer, queue, pc, task, down, slot, store, records, world>>

Points == {"recv", "group", "fetch", "write", "progress", "lineage",
           "document", "resolve", "create", "close", "ended"}
NoTask == <<0, 0>>
Raw == mode = "raw"

(* Number of digits of a number in the file. *)
Digits(n) == 1 + Cardinality({p \in Tens : p <= n})

Old(i) == i \in Served /\ i <= old

(* A document for each article, as a single writer leaves them. *)
OneEach(S) == CHOOSE docs \in [1..Cardinality(S) -> {<<i>> : i \in S}] :
                \A i \in S : \E k \in DOMAIN docs : docs[k] = <<i>>

Init ==
  /\ mode \in Modes /\ text \in Texts /\ old \in Olds /\ crew \in Crews
  /\ list = 1 /\ part = 0 /\ index = 0 /\ queue = <<>>
  /\ pc = [w \in Workers |-> IF w \in crew THEN "recv" ELSE "ended"]
  /\ task = [w \in Workers |-> NoTask]
  /\ down = {} /\ slot = [w \in Workers |-> 0]
  /\ eml = [l \in Lists |-> [i \in IF Raw THEN {x \in Served : Old(x)} ELSE {}
                               |-> "whole"]]
  /\ files = [l \in Lists |-> IF Raw \/ old = 0 THEN <<>>
                              ELSE <<{x \in Served : Old(x)}>>]
  /\ shared = [l \in Lists |-> {}]
  /\ progress = [l \in Lists |-> [id |-> old,
                                  digits |-> IF old = 0 THEN 0 ELSE Digits(old)]]
  /\ errors = [l \in Lists |-> {}]
  /\ lineage = [l \in Lists |-> OneEach({x \in Served : Old(x)})]
  /\ shutdown = FALSE /\ mishaps = {}

Happens(kind) ==
  /\ kind \notin mishaps /\ Cardinality(mishaps) < Budget
  /\ mishaps' = mishaps \cup {kind}
-----------------------------------------------------------------------------
(* The producer.  The flag is read and the text is parsed before each      *)
(* list; a text that does not parse, or the flag, ends the producer.       *)
Closed == list > NLists

Goto(l, p, n) == list' = l /\ part' = p /\ index' = n
OutsideProducer == UNCHANGED <<input, pc, task, down, slot, store, records, world>>

StartList ==
  /\ ~Closed /\ part = 0
  /\ IF shutdown \/ Malformed(text) THEN Goto(NLists + 1, 0, 0)
     ELSE Goto(list, 1, text[1].lo)
  /\ UNCHANGED queue /\ OutsideProducer

HalfOpen == index + 1 < text[part].hi  \* mutant: start..end
MoreInPart == index < text[part].hi

(* Mutant: send does not wait for a place in the channel. *)
SendAtOnce ==
  /\ ~Closed /\ part > 0
  /\ queue' = Append(queue, <<list, index>>)
  /\ IF MoreInPart THEN Goto(list, part, index + 1)
     ELSE IF part < Len(text) THEN Goto(list, part + 1, text[part + 1].lo)
     ELSE Goto(list + 1, 0, 0)
  /\ OutsideProducer

(* send blocks while the channel is full. *)
SendIndex ==
  /\ ~Closed /\ part > 0 /\ Len(queue) < Capacity
  /\ queue' = Append(queue, <<list, index>>)
  /\ IF MoreInPart THEN Goto(list, part, index + 1)
     ELSE IF part < Len(text) THEN Goto(list, part + 1, text[part + 1].lo)
     ELSE Goto(list + 1, 0, 0)
  /\ OutsideProducer
-----------------------------------------------------------------------------
(* A worker.  Its loop does not look at the shutdown flag.                 *)
At(w, point) == pc[w] = point
L(w) == task[w][1]
I(w) == task[w][2]
Goes(w, point) == pc' = [pc EXCEPT ![w] = point]

(* At "recv" what belongs to the task is out of scope. *)
Move(w, point) ==
  /\ Goes(w, point)
  /\ IF point = "recv" THEN /\ task' = [task EXCEPT ![w] = NoTask]
                            /\ slot' = [slot EXCEPT ![w] = 0]
     ELSE UNCHANGED <<task, slot>>

Take(w) ==
  /\ At(w, "recv") /\ queue # <<>>
  /\ task' = [task EXCEPT ![w] = Head(queue)]
  /\ queue' = Tail(queue)
  /\ Goes(w, "group")
  /\ UNCHANGED <<input, producer, down, slot, store, records, world>>

Leave(w) ==
  /\ At(w, "recv") /\ queue = <<>> /\ Closed
  /\ Goes(w, "ended")
  /\ UNCHANGED <<input, producer, queue, task, down, slot, store, records,
                 world>>

(* Steps of a task that leave the directory alone. *)
Step(w, point) ==
  /\ Move(w, point)
  /\ UNCHANGED <<input, producer, queue, store, records, shutdown>>

Put(f, i, v) == [x \in DOMAIN f \cup {i} |-> IF x = i THEN v ELSE f[x]]

(* Mutant: the file is opened before the article is asked for. *)
GroupOpensFile(w) ==
  /\ At(w, "group") /\ w \notin down
  /\ Move(w, "fetch")
  /\ eml' = IF Raw THEN [eml EXCEPT ![L(w)] = Put(@, I(w), "torn")] ELSE eml
  /\ UNCHANGED <<input, producer, queue, down, files, shared, records, world>>

(* The GROUP command. *)
Group(w) ==
  /\ At(w, "group") /\ w \notin down
  /\ Step(w, "fetch")
  /\ UNCHANGED <<down, mishaps>>

(* Every command over a connection that was lost fails, and nothing makes  *)
(* it anew: the task is given up.                                          *)
Online(w) == At(w, "group") \/ (At(w, "fetch") /\ ~shutdown)
CommandRetried(w) ==  \* mutant: the task is tried until it succeeds
  Online(w) /\ w \in down /\ Step(w, "group") /\ UNCHANGED <<down, mishaps>>
CommandFails(w) ==
  Online(w) /\ w \in down /\ Step(w, "recv") /\ UNCHANGED <<down, mishaps>>

(* The connection is lost, or stays and the command fails four times.      *)
NetworkError(w) ==
  /\ Online(w) /\ w \notin down
  /\ Happens("net")
  /\ Step(w, "recv")
  /\ down' \in {down, down \cup {w}}

(* read_new_mails returns Ok without a look at the article.                *)
SkipOnShutdown(w) ==
  At(w, "fetch") /\ shutdown /\ Step(w, "recv") /\ UNCHANGED <<down, mishaps>>

(* ARTICLE answers "unavailable". *)
LogUnavailable(w) ==
  /\ At(w, "fetch") /\ ~shutdown /\ w \notin down /\ I(w) \notin Served
  /\ Move(w, "recv")
  /\ errors' = [errors EXCEPT ![L(w)] = @ \cup {I(w)}]
  /\ UNCHANGED <<input, producer, queue, down, store, progress, lineage, world>>

(* ARTICLE answers with the article.  In raw mode its file is truncated;   *)
(* in parquet mode it goes to the buffer.                                  *)
Fetched(w) == At(w, "fetch") /\ ~shutdown /\ w \notin down /\ I(w) \in Served

Within(w) == UNCHANGED <<input, producer, queue, down, world>>

FetchRaw(w) ==
  /\ Fetched(w) /\ Raw
  /\ eml' = [eml EXCEPT ![L(w)] = Put(@, I(w), "torn")]
  /\ Move(w, "write")
  /\ UNCHANGED <<files, shared, records>> /\ Within(w)

FetchParquet(w) ==
  /\ Fetched(w) /\ ~Raw
  /\ Step(w, "lineage")
  /\ UNCHANGED <<down, mishaps>>

WriteRaw(w) ==
  /\ At(w, "write")
  /\ eml' = [eml EXCEPT ![L(w)] = Put(@, I(w), "whole")]
  /\ Move(w, "progress")
  /\ UNCHANGED <<files, shared, records>> /\ Within(w)

(* write_yaml over what the file holds: the tail of a longer text stays.   *)
Longer(l, n) == IF progress[l].digits > n THEN progress[l].digits ELSE n
Appended(l, i) == [id |-> i, digits |-> Longer(l, 0) + Digits(i)]  \* mutant
WriteYaml(l, i) == [id |-> i, digits |-> Longer(l, Digits(i))]

(* In raw mode the lineage is still to come; in parquet mode the writer is *)
(* dropped, and this is its last effect.                                   *)
UpdateProgress(w) ==
  /\ At(w, "progress")
  /\ progress' = [progress EXCEPT ![L(w)] = WriteYaml(L(w), I(w))]
  /\ Move(w, IF Raw THEN "lineage" ELSE "recv")
  /\ UNCHANGED <<store, errors, lineage>> /\ Within(w)

(* append_yaml_to_file: a separator, unless the file is empty; then the    *)
(* document.  Others may append in between.                                *)
Separate(w) ==
  /\ At(w, "lineage")
  /\ lineage' = [lineage EXCEPT ![L(w)] = IF @ = <<>> THEN @ ELSE Append(@, <<>>)]
  /\ Move(w, "document")
  /\ UNCHANGED <<store, progress, errors>> /\ Within(w)

(* The text goes to whatever document is the last one. *)
WithText(docs, i) ==
  IF docs = <<>> THEN <<<<i>>>> ELSE [docs EXCEPT ![Len(docs)] = Append(@, i)]

UpdateLineage(w) ==
  /\ At(w, "document")
  /\ lineage' = [lineage EXCEPT ![L(w)] = WithText(@, I(w))]
  /\ Move(w, IF Raw THEN "recv" ELSE "resolve")
  /\ UNCHANGED <<store, progress, errors>> /\ Within(w)

(* Drop: flush and init_writer.  resolve_path takes the index behind the   *)
(* highest there is; File::create truncates what came there meanwhile.     *)
NewPath(w) == Len(files[L(w)]) + 1

ResolvePath(w) ==
  /\ At(w, "resolve")
  /\ slot' = [slot EXCEPT ![w] = NewPath(w)]
  /\ Goes(w, "create")
  /\ UNCHANGED <<task, store, records>> /\ Within(w)

OpenBy(v, l, k) == At(v, "close") /\ L(v) = l /\ slot[v] = k

CreateFile(w) ==
  /\ At(w, "create")
  /\ files' = [files EXCEPT ![L(w)] = IF slot[w] <= Len(@)
                                      THEN [@ EXCEPT ![slot[w]] = {}]
                                      ELSE Append(@, {})]
  /\ shared' = IF \E v \in Workers \ {w} : OpenBy(v, L(w), slot[w])
               THEN [shared EXCEPT ![L(w)] = @ \cup {slot[w]}] ELSE shared
  /\ Move(w, "close")
  /\ UNCHANGED <<eml, records>> /\ Within(w)

(* The row group and the footer.  Two writers of one file write over one   *)
(* another, from its start: the last one is there, or neither.             *)
CloseFile(w) ==
  /\ At(w, "close")
  /\ \E content \in IF slot[w] \in shared[L(w)] THEN {{I(w)}, {}}
                    ELSE {{I(w)}} :
       files' = [files EXCEPT ![L(w)][slot[w]] = content]
  /\ Move(w, "progress")
  /\ UNCHANGED <<eml, shared, records>> /\ Within(w)

(* An I/O error, which archive_email returns or drop swallows.  If it was  *)
(* at the lineage, drop still writes what the parquet buffer holds.        *)
IoError(w) ==
  /\ \E point \in {"write", "progress", "lineage", "document", "resolve",
                   "create", "close"} : At(w, point)
  /\ Happens("io")
  /\ Step(w, IF ~Raw /\ pc[w] \in {"lineage", "document"} THEN "resolve" ELSE "recv")
  /\ UNCHANGED down
-----------------------------------------------------------------------------
(* Ctrl+C. *)
RequestShutdown ==
  /\ ~shutdown
  /\ Happens("stop")
  /\ shutdown' = TRUE
  /\ UNCHANGED <<input, producer, queue, pc, task, down, slot, store, records>>

(* The process is killed. *)
Crash ==
  /\ \E w \in Workers : pc[w] # "ended"
  /\ Happens("crash")
  /\ pc' = [w \in Workers |-> "ended"]
  /\ Goto(NLists + 1, 0, 0) /\ queue' = <<>>
  /\ task' = [w \in Workers |-> NoTask] /\ slot' = [w \in Workers |-> 0]
  /\ UNCHANGED <<input, down, store, records, shutdown>>

Produce == StartList \/ SendIndex

Work(w) ==
  \/ Take(w) \/ Leave(w) \/ Group(w) \/ CommandFails(w) \/ SkipOnShutdown(w)
  \/ LogUnavailable(w) \/ FetchRaw(w) \/ FetchParquet(w) \/ WriteRaw(w)
  \/ UpdateProgress(w) \/ Separate(w) \/ UpdateLineage(w) \/ ResolvePath(w)
  \/ CreateFile(w) \/ CloseFile(w)

Trouble ==
  \/ \E w \in Workers : NetworkError(w) \/ IoError(w)
  \/ RequestShutdown \/ Crash

Next == Produce \/ (\E w \in Workers : Work(w)) \/ Trouble

Spec == Init /\ [][Next]_vars

(* The producer and each worker are threads of their own. *)
FairSpec == Spec /\ WF_vars(Produce) /\ \A w \in Workers : WF_vars(Work(w))
-----------------------------------------------------------------------------
TypeOK ==
  /\ mode \in Modes /\ text \in Texts /\ old \in Olds /\ crew \in Crews
  /\ list \in Nat /\ part \in 0..Len(text) /\ index \in Nat
  /\ queue \in Seq(Lists \X Nat) /\ Len(queue) <= Capacity
  /\ pc \in [Workers -> Points]
  /\ down \subseteq Workers /\ slot \in [Workers -> Nat]
  /\ \A w \in Workers : pc[w] \notin {"recv", "ended"} => task[w] \in Lists \X Nat
  /\ files \in [Lists -> Seq(SUBSET Nat)]
  /\ errors \in [Lists -> SUBSET Nat] /\ lineage \in [Lists -> Seq(Seq(Nat))]
  /\ progress \in [Lists -> [id : Nat, digits : Nat]]
  /\ mishaps \subseteq Kinds

Over == \A w \in Workers : pc[w] = "ended"

Durable(l) ==
  {i \in DOMAIN eml[l] : eml[l][i] = "whole"} \cup
  UNION {files[l][k] : k \in DOMAIN files[l]}

(* last_processed_id of the next normal run: the text parses if no more    *)
(* than a line break is left of a longer one.  A text that does not parse  *)
(* is no progress.                                                         *)
Readable(l) == progress[l].digits \in 1..(Digits(progress[l].id) + 1)
LastArticle(l) == IF Readable(l) THEN progress[l].id ELSE 0

Wanted(i) == \E k \in DOMAIN text : text[k].lo <= i /\ i <= text[k].hi
Undisturbed(kinds) == kinds \cap mishaps = {}
Alone == Cardinality(crew) = 1

(* What the parser reads: a document that two workers wrote into has each  *)
(* of its keys twice, and is no record.                                    *)
Recorded(l) == {d[1] : d \in {lineage[l][k] : k \in {x \in DOMAIN lineage[l] :
                                                 Len(lineage[l][x]) = 1}}}

(* A range that parses is fetched whole from each list: what it names is   *)
(* stored, or logged, whatever worker took it and however the parts        *)
(* overlap.  (Two workers that write parquet files may take the same       *)
(* index.)  A single worker's emails have their lineage, too.              *)
RangeFetched ==
  Over /\ Undisturbed(Kinds) /\ ~Malformed(text) =>
    \A l \in Lists :
      /\ Alone \/ Raw => \A i \in Served : Wanted(i) => i \in Durable(l)
      /\ Alone => \A i \in Served : Wanted(i) => i \in Recorded(l)
      /\ \A k \in DOMAIN text :
           (text[k].lo .. text[k].hi) \ Served \subseteq errors[l]

(* No run costs an email that was archived before: a task never takes the  *)
(* index of a parquet file that was complete.  (In raw mode a crash or an  *)
(* I/O error may come between truncation and rewriting.)  And fetching     *)
(* again what is behind the progress never moves it forward, so that the   *)
(* next normal run, wherever it starts, finds all before that archived.    *)
BackfillLeavesNoGap ==
  \A l \in Lists :
    /\ ~Raw \/ (Over /\ Undisturbed({"io", "crash"})) =>
         \A i \in Served : Old(i) => i \in Durable(l)
    /\ (\A k \in DOMAIN text : text[k].hi <= old) => LastArticle(l) <= old

(* __progress.yaml stays readable, unless an index has fewer digits than   *)
(* another one by two: a list does not start over.                         *)
ProgressStaysReadable ==
  (\A k \in DOMAIN text, i \in {old} \cup {text[x].hi : x \in DOMAIN text} :
     Digits(i) <= Digits(text[k].lo) + 1) =>
  \A l \in Lists : progress[l].digits > 0 => Readable(l)

(* The run comes to an end, after Ctrl+C and with workers whose connection *)
(* is lost, too.                                                           *)
RangeEnds == <>Over
=============================================================================
