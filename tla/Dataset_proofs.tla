---------------------------- MODULE Dataset_proofs ----------------------------
(***************************************************************************)
(* Proofs about Dataset, for any lists, archives, sizes of batches and     *)
(* bounds, and any number of threads.                                      *)
(***************************************************************************)
EXTENDS Dataset, SequenceTheorems, FiniteSetTheorems, TLAPS

(* The emails a job has taken so far. *)
Taken(l) == job[l].taken

(* Whether an error about the emails or the errors.csv of a list was       *)
(* swallowed.                                                              *)
Trouble(l) == {what \in {"files", "errors"} : <<l, what>> \in swallowed}

(* What a job has written is what it has taken. *)
Written(l) ==
  /\ ~AnyTorn(l, Taken(l))
  /\ job[l].open <=> Decoded(l, Taken(l)) # {}
  /\ job[l].open =>
       dataset[l] = [rows |-> Rows(l, Decoded(l, Taken(l))), footer |-> FALSE]
  /\ job[l].logging <=> Undecoded(l, Taken(l)) # {}
  /\ job[l].logging => errors[l] = Undecoded(l, Taken(l))

Fresh(l) ==
  job[l].pc \in {"none", "spawned"} =>
    job[l].taken = {} /\ ~job[l].open /\ ~job[l].logging

Readable(l) ==
  dataset[l] # None /\ dataset[l].footer =>
    \E files \in Listings(l) : dataset[l] = Whole(l, files) /\ ~AnyTorn(l, files)

Complete(l, files) ==
  /\ ~AnyTorn(l, files)
  /\ Decoded(l, files) # {} => dataset[l] = Whole(l, files)
  /\ Undecoded(l, files) # {} =>
       IF <<l, "errors">> \in swallowed
       THEN errors[l] \in Prefixes(Undecoded(l, files))
       ELSE errors[l] = Undecoded(l, files)

Caused(l, files) ==
  \/ AnyTorn(l, files)
  \/ fail_on_parsing_error /\ Undecoded(l, files) # {}
  \/ "io" \in mishaps

(* What holds of each list. *)
Fine(l) ==
  /\ Fresh(l)
  /\ pc # "down" /\ job[l].pc = "running" => Written(l)
  /\ Readable(l)
  /\ job[l].pc \in {"running", "ok"} => job[l].files \in Listings(l)
  /\ <<l, "errors">> \in swallowed => job[l].pc = "ok"
  /\ job[l].pc = "ok" => Complete(l, job[l].files)
  /\ job[l].pc = "failed" => Caused(l, job[l].files)

Returned == pc = "down" /\ ended \in {"returned", "error"}

(* How far the run is, and which datasets it may have left open. *)
Ordered ==
  /\ pc = "lineage" \/ Returned =>
       \A l \in Lists : job[l].pc \in {"none", "ok", "failed"}
  /\ pc \in {"join", "lineage"} \/ Returned =>
       \A l \in lists : job[l].pc = "none" => shutdown
  /\ pc # "down" \/ Returned =>
       \A l \in Lists : TornDataset(l) =>
         l \in found \/ job[l].pc = "failed" \/ (job[l].pc = "running" /\ job[l].open)

(* Each entry that was read is in lineage.parquet or in the batch. *)
ReadEntries == UNION {Entries(l, 1..seen[l]) : l \in Lists}
LineageKept ==
  /\ \A l \in Lists : seen[l] <= Len(archive[l])
  /\ pc \in {"spawn", "join"} => ~writing /\ batch = {} /\ \A l \in Lists : seen[l] = 0
  /\ pc = "lineage" =>
       /\ \A l \in unread : seen[l] = 0
       /\ ~writing => batch = {} /\ ReadEntries = {}
       /\ writing => lineage.entries \cup batch = ReadEntries
       /\ \A l \in Lists \ unread :
            job[l].files \subseteq 1..seen[l] \/ <<l, "lineage">> \in swallowed

Shape ==
  /\ DOMAIN dataset = Lists
  /\ lineage # None => lineage \in [entries : SUBSET (Lists \X Nat), footer : BOOLEAN]

IInv ==
  /\ TypeOK /\ Shape
  /\ \A l \in Lists : Fine(l)
  /\ Ordered /\ LineageKept /\ LineageWhole

(* The type invariant in parts. *)
TypeArchive == archive \in [Lists -> Seq(Email \cup {Torn})]
TypeData ==
  /\ DOMAIN dataset = Lists
  /\ \A l \in Lists :
       dataset[l] # None =>
         /\ DOMAIN dataset[l].rows \subseteq 1..Len(archive[l])
         /\ dataset[l].footer \in BOOLEAN
  /\ errors \in [Lists -> SUBSET Nat]
TypeJobs ==
  /\ job \in [Lists -> Job]
  /\ \A l \in Lists :
       job[l].taken \subseteq job[l].files /\ job[l].files \subseteq 1..Len(archive[l])
TypeLineage ==
  /\ lineage # None => lineage.footer \in BOOLEAN
  /\ lineage # None => lineage \in [entries : SUBSET (Lists \X Nat), footer : BOOLEAN]
  /\ batch \subseteq Lists \X Nat /\ unread \subseteq Lists
  /\ seen \in [Lists -> Nat] /\ writing \in BOOLEAN
  /\ writing => lineage # None
TypeRest ==
  /\ threads \in ThreadCounts /\ fail_on_parsing_error \in BOOLEAN
  /\ lists \subseteq Lists
  /\ pc \in {"down", "spawn", "join", "lineage"}
  /\ shutdown \in BOOLEAN
  /\ mishaps \subseteq Kinds /\ swallowed \subseteq Lists \X Swallowable
  /\ runs \in 0..Runs
  /\ found \subseteq Lists
  /\ ended \in {"never", "returned", "killed", "error"}
Typed == TypeArchive /\ TypeData /\ TypeJobs /\ TypeLineage /\ TypeRest
-----------------------------------------------------------------------------
LEMMA TypeParts == TypeOK /\ Shape <=> Typed
  BY DEF Typed, TypeOK, Shape, TypeArchive, TypeData, TypeJobs, TypeLineage, TypeRest

LEMMA JobFields ==
  ASSUME TypeJobs, TypeArchive, NEW l \in Lists
  PROVE  /\ job[l] \in Job /\ Len(archive[l]) \in Nat
         /\ job[l].taken \subseteq job[l].files
         /\ job[l].files \subseteq 1..Len(archive[l])
         /\ job[l].taken \subseteq Nat /\ job[l].files \subseteq Nat
         /\ job[l].pc \in {"none", "spawned", "running", "ok", "failed"}
  <1>1. job[l].taken \subseteq job[l].files /\ job[l].files \subseteq 1..Len(archive[l])
    BY DEF TypeJobs
  <1>2. job[l] \in Job /\ Len(archive[l]) \in Nat
    BY DEF TypeJobs, TypeArchive
  <1>3. job[l].pc \in {"none", "spawned", "running", "ok", "failed"}
    BY <1>2 DEF Job
  <1> QED
    BY <1>1, <1>2, <1>3

(* A batch is some of the emails that remain. *)
LEMMA BatchBounds ==
  ASSUME TypeJobs, TypeArchive, NEW l \in Lists
  PROVE  /\ BatchOf(l) \subseteq job[l].files
         /\ TakenAfter(l) = Taken(l) \cup BatchOf(l)
         /\ TakenAfter(l) \subseteq job[l].files
         /\ Remain(l) = {} => job[l].taken = job[l].files
  <1>1. job[l].taken \subseteq job[l].files
    BY JobFields
  <1>2. BatchOf(l) \subseteq Remain(l)
    BY DEF BatchOf, FirstOf
  <1> QED
    BY <1>1, <1>2 DEF Remain, TakenAfter, Taken

LEMMA Unions ==
  ASSUME NEW l \in Lists, NEW S, NEW T
  PROVE  /\ Decoded(l, S \cup T) = Decoded(l, S) \cup Decoded(l, T)
         /\ Undecoded(l, S \cup T) = Undecoded(l, S) \cup Undecoded(l, T)
         /\ AnyTorn(l, S \cup T) <=> AnyTorn(l, S) \/ AnyTorn(l, T)
         /\ Decoded(l, S) \subseteq S /\ Undecoded(l, S) \subseteq S
         /\ T \subseteq S => (AnyTorn(l, T) => AnyTorn(l, S))
         /\ T \subseteq S => Undecoded(l, T) \subseteq Undecoded(l, S)
  BY DEF Decoded, Undecoded, AnyTorn

LEMMA RowsOf ==
  ASSUME NEW l, NEW S
  PROVE  DOMAIN Rows(l, S) = S
  BY DEF Rows

(* No email that was decoded makes RecordBatch::try_new refuse its row. *)
LEMMA BatchIsTaken ==
  ASSUME NEW l, NEW S PROVE build_record_batch(l, S)
  BY DEF build_record_batch, NullsOf, Nullable

(* What holds of each list, taken apart into the properties of Dataset. *)
LEMMA FineParts ==
  ASSUME \A l \in Lists : Fine(l)
  PROVE  ReadableIsWhole /\ DoneIsComplete /\ FailureHasCause
  BY DEF Fine, Readable, Complete, Caused, ReadableIsWhole, DoneIsComplete, FailureHasCause

(* Emails are only added to an archive. *)
Grows ==
  \A l \in Lists :
    /\ Len(archive[l]) \in Nat /\ Len(archive[l])' \in Nat
    /\ Len(archive[l]) <= Len(archive[l])'
    /\ \A i \in 1..Len(archive[l]) : archive[l][i]' = archive[l][i]

LEMMA GrownSame ==
  ASSUME Grows, NEW l \in Lists, NEW S \in SUBSET (1..Len(archive[l]))
  PROVE  /\ AnyTorn(l, S)' <=> AnyTorn(l, S)
         /\ Decoded(l, S)' = Decoded(l, S)
         /\ Undecoded(l, S)' = Undecoded(l, S)
         /\ Rows(l, Decoded(l, S))' = Rows(l, Decoded(l, S))
         /\ Whole(l, S)' = Whole(l, S)
  <1>1. \A i \in S : archive[l][i]' = archive[l][i]
    BY DEF Grows
  <1>2. AnyTorn(l, S)' <=> AnyTorn(l, S)
    BY <1>1 DEF AnyTorn
  <1>3. Decoded(l, S)' = Decoded(l, S) /\ Undecoded(l, S)' = Undecoded(l, S)
    BY <1>1 DEF Decoded, Undecoded
  <1>4. Rows(l, Decoded(l, S))' = Rows(l, Decoded(l, S))
    <2>1. \A i \in Decoded(l, S) : archive[l][i]' = archive[l][i]
      BY <1>1 DEF Decoded
    <2> QED
      BY <1>3, <2>1 DEF Rows, process_date
  <1> QED
    BY <1>2, <1>3, <1>4 DEF Whole

(* What was once a listing of a directory remains one. *)
LEMMA ListingsGrow ==
  ASSUME Grows, NEW l \in Lists,
         <<l, "files">> \in swallowed => <<l, "files">> \in swallowed'
  PROVE  /\ Listings(l) \subseteq SUBSET (1..Len(archive[l]))
         /\ Listings(l) \subseteq Listings(l)'
  <1>1. /\ Len(archive[l]) \in Nat /\ Len(archive[l])' \in Nat
        /\ Len(archive[l]) <= Len(archive[l])'
    BY DEF Grows
  <1> DEFINE n == Len(archive[l])
             m == Len(archive[l])'
  <1>2. /\ Listings(l) = IF <<l, "files">> \in swallowed THEN SUBSET (1..n)
                         ELSE {1..i : i \in 0..n}
        /\ Listings(l)' = IF <<l, "files">> \in swallowed' THEN SUBSET (1..m)
                          ELSE {1..i : i \in 0..m}
    BY DEF Listings
  <1>3. n \in Nat /\ m \in Nat /\ n <= m
    BY <1>1
  <1> HIDE DEF n, m
  <1>4. /\ 1..n \subseteq 1..m /\ {1..i : i \in 0..n} \subseteq {1..i : i \in 0..m}
        /\ \A i \in 0..n : 1..i \subseteq 1..n
    BY <1>3
  <1>5. Listings(l) \subseteq SUBSET (1..n)
    BY <1>2, <1>4
  <1>6. Listings(l) \subseteq Listings(l)'
    <2>1. CASE <<l, "files">> \in swallowed
      BY <1>2, <1>4, <2>1
    <2>2. CASE <<l, "files">> \notin swallowed /\ <<l, "files">> \in swallowed'
      BY <1>2, <1>4, <1>5, <2>2
    <2>3. CASE <<l, "files">> \notin swallowed /\ <<l, "files">> \notin swallowed'
      BY <1>2, <1>4, <2>3
    <2> QED
      BY <2>1, <2>2, <2>3
  <1> QED
    BY <1>5, <1>6 DEF n

LEMMA ReadableStays ==
  ASSUME Grows, NEW l \in Lists, Readable(l), dataset[l]' = dataset[l],
         <<l, "files">> \in swallowed => <<l, "files">> \in swallowed'
  PROVE  Readable(l)'
  <1> SUFFICES ASSUME dataset[l] # None, dataset[l].footer
               PROVE  \E files \in Listings(l)' :
                        dataset[l] = Whole(l, files)' /\ ~AnyTorn(l, files)'
    BY DEF Readable
  <1>1. PICK files \in Listings(l) : dataset[l] = Whole(l, files) /\ ~AnyTorn(l, files)
    BY DEF Readable
  <1>2. files \in SUBSET (1..Len(archive[l])) /\ files \in Listings(l)'
    BY ListingsGrow
  <1>3. Whole(l, files)' = Whole(l, files) /\ (AnyTorn(l, files)' <=> AnyTorn(l, files))
    BY <1>2, GrownSame
  <1> QED
    BY <1>1, <1>2, <1>3

(* A step that leaves a list alone, but for emails that arrive. *)
LEMMA Frame ==
  ASSUME TypeArchive, TypeJobs, Grows, NEW l \in Lists, Fine(l),
         job[l]' = job[l], dataset[l]' = dataset[l], Trouble(l)' = Trouble(l),
         errors[l]' = errors[l] \/ (pc' = "down" /\ job[l].pc # "ok"),
         fail_on_parsing_error' = fail_on_parsing_error,
         mishaps \subseteq mishaps', pc' # "down" => pc # "down"
  PROVE  Fine(l)'
  <1> DEFINE t == job[l].taken
             f == job[l].files
  <1>1. /\ t \in SUBSET (1..Len(archive[l])) /\ f \in SUBSET (1..Len(archive[l]))
        /\ <<l, "files">> \in swallowed' <=> <<l, "files">> \in swallowed
        /\ <<l, "errors">> \in swallowed' <=> <<l, "errors">> \in swallowed
    <2>1. \A what \in {"files", "errors"} :
            <<l, what>> \in swallowed' <=> <<l, what>> \in swallowed
      BY DEF Trouble
    <2> QED
      BY <2>1, JobFields
  <1>2. Fresh(l)'
    BY DEF Fine, Fresh
  <1>3. pc' # "down" /\ job[l]'.pc = "running" => Written(l)'
    <2> SUFFICES ASSUME pc' # "down", job[l].pc = "running" PROVE Written(l)'
      OBVIOUS
    <2>1. Written(l)
      BY DEF Fine
    <2> QED
      BY <1>1, <2>1, GrownSame DEF Written, Taken
  <1>4. Readable(l)'
    BY <1>1, ReadableStays DEF Fine
  <1>5. job[l]'.pc = "ok" => Complete(l, f)'
    <2> SUFFICES ASSUME job[l].pc = "ok" PROVE Complete(l, f)'
      OBVIOUS
    <2>1. errors[l]' = errors[l] /\ Complete(l, f)
      BY DEF Fine
    <2>2. /\ AnyTorn(l, f)' <=> AnyTorn(l, f)
          /\ Decoded(l, f)' = Decoded(l, f) /\ Undecoded(l, f)' = Undecoded(l, f)
          /\ Whole(l, f)' = Whole(l, f)
      BY <1>1, GrownSame
    <2> QED
      BY <1>1, <2>1, <2>2 DEF Complete, Prefixes
  <1>6. job[l]'.pc = "failed" => Caused(l, f)'
    BY <1>1, GrownSame DEF Fine, Caused
  <1>7. job[l]'.pc \in {"running", "ok"} => f \in Listings(l)'
    BY <1>1, ListingsGrow DEF Fine
  <1>8. <<l, "errors">> \in swallowed' => job[l]'.pc = "ok"
    BY <1>1 DEF Fine
  <1> QED
    BY <1>2, <1>3, <1>4, <1>5, <1>6, <1>7, <1>8 DEF Fine

LEMMA ArchiveStep ==
  ASSUME TypeArchive, [Next]_vars PROVE TypeArchive' /\ Grows
  <1>1. CASE archive' = archive
    <2>1. \A l \in Lists : Len(archive[l]) \in Nat
      BY DEF TypeArchive
    <2> QED
      BY <1>1, <2>1 DEF TypeArchive, Grows
  <1>2. ASSUME NEW l \in Lists, NEW email \in News, Arrive(l, email)
        PROVE  TypeArchive' /\ Grows
    <2> DEFINE E == Email \cup {Torn}
    <2>1. email \in E
      BY ArchiveAssumption
    <2>2. archive' = [archive EXCEPT ![l] = Append(@, email)]
      BY <1>2 DEF Arrive
    <2>3. \A k \in Lists : archive[k] \in Seq(E) /\ Len(archive[k]) \in Nat
      BY DEF TypeArchive
    <2>4. archive' \in [Lists -> Seq(E)]
      <3> HIDE DEF E
      <3> QED
        BY <2>1, <2>2, <2>3, AppendProperties DEF TypeArchive, E
    <2>5. Grows
      <3> SUFFICES ASSUME NEW k \in Lists
                   PROVE  /\ Len(archive[k]) \in Nat /\ Len(archive'[k]) \in Nat
                          /\ Len(archive[k]) <= Len(archive'[k])
                          /\ \A i \in 1..Len(archive[k]) : archive'[k][i] = archive[k][i]
        BY DEF Grows
      <3> HIDE DEF E
      <3>1. CASE k = l
        <4>1. archive'[k] = Append(archive[k], email)
          BY <2>2, <3>1 DEF TypeArchive
        <4>2. archive[k] \in Seq(E)
          BY <2>3
        <4> QED
          BY <4>1, <4>2, <2>1, AppendProperties
      <3>2. CASE k # l
        BY <2>2, <2>3, <3>2 DEF TypeArchive
      <3> QED
        BY <3>1, <3>2
    <2> QED
      BY <2>4, <2>5 DEF TypeArchive
  <1>3. CASE Start \/ RequestShutdown \/ Crash \/ LineageIoError \/ EndSpawning
             \/ EndScope \/ EndLineage
    BY <1>1, <1>3 DEF Start, RequestShutdown, Crash, LineageIoError, EndSpawning,
                      EndScope, EndLineage, EndRun
  <1>4. ASSUME NEW l \in Lists,
               \/ Spawn(l) \/ ListStep(l) \/ ReadLineage(l) \/ StartListPartly(l)
               \/ EndListUnlogged(l) \/ ListIoError(l) \/ SkipLineage(l)
        PROVE  archive' = archive
    BY <1>4 DEF Spawn, ListStep, StartList, StartListPartly, BeginList, FailBatch,
                TakeBatch, EndList, EndListUnlogged, ReadLineage, SkipLineage,
                ListIoError, Running
  <1>5. CASE UNCHANGED vars
    BY <1>1, <1>5 DEF vars
  <1> QED
    BY <1>1, <1>2, <1>3, <1>4, <1>5 DEF Next, Program, Environment

-----------------------------------------------------------------------------
(* The steps of the job of a list. *)
LEMMA NothingArrives ==
  ASSUME TypeArchive, archive' = archive PROVE Grows
  BY DEF TypeArchive, Grows

(* What is told of one list is told of no other. *)
LEMMA TroubleOf ==
  ASSUME NEW l \in Lists, NEW what, Swallows(l, what)
  PROVE  /\ swallowed' = swallowed \cup {<<l, what>>} /\ mishaps \subseteq mishaps'
         /\ "io" \in Kinds /\ mishaps' = mishaps \cup {"io"}
         /\ \A k \in Lists \ {l} : Trouble(k)' = Trouble(k)
         /\ what = "files" =>
              (<<l, "errors">> \in swallowed' <=> <<l, "errors">> \in swallowed)
         /\ what = "errors" =>
              (<<l, "files">> \in swallowed' <=> <<l, "files">> \in swallowed)
         /\ what = "lineage" => Trouble(l)' = Trouble(l)
  <1>1. /\ swallowed' = swallowed \cup {<<l, what>>} /\ mishaps \subseteq mishaps'
        /\ "io" \in Kinds /\ mishaps' = mishaps \cup {"io"}
    BY DEF Swallows, Happens
  <1>2. ASSUME NEW k, NEW w, k # l \/ w # what
        PROVE  <<k, w>> \in swallowed' <=> <<k, w>> \in swallowed
    BY <1>1, <1>2
  <1>3. \A k \in Lists \ {l} : Trouble(k)' = Trouble(k)
    BY <1>2 DEF Trouble
  <1>4. what = "lineage" => Trouble(l)' = Trouble(l)
    BY <1>2 DEF Trouble
  <1> QED
    BY <1>1, <1>2, <1>3, <1>4

(* The other lists are as they were. *)
LEMMA Others ==
  ASSUME Typed, \A k \in Lists : Fine(k), NEW l \in Lists, Fine(l)',
         archive' = archive, pc' = pc, fail_on_parsing_error' = fail_on_parsing_error,
         mishaps \subseteq mishaps',
         \A k \in Lists \ {l} : Trouble(k)' = Trouble(k),
         \A k \in Lists \ {l} :
           job[k]' = job[k] /\ dataset[k]' = dataset[k] /\ errors[k]' = errors[k]
  PROVE  \A k \in Lists : Fine(k)'
  BY Frame, NothingArrives DEF Typed

LEMMA SameTrouble ==
  ASSUME UNCHANGED troubleVars
  PROVE  /\ mishaps' = mishaps /\ swallowed' = swallowed
         /\ \A k \in Lists : Trouble(k)' = Trouble(k)
  BY DEF troubleVars, Trouble

LEMMA SpawnKeeps ==
  ASSUME Typed, \A k \in Lists : Fine(k), NEW l \in Lists, Spawn(l)
  PROVE  \A k \in Lists : Fine(k)'
  <1>0. /\ mishaps' = mishaps /\ swallowed' = swallowed
        /\ \A k \in Lists : Trouble(k)' = Trouble(k)
    BY SameTrouble DEF Spawn
  <1>1. /\ job' = [job EXCEPT ![l].pc = "spawned"] /\ job[l].pc = "none"
        /\ archive' = archive /\ dataset' = dataset /\ errors' = errors /\ pc' = pc
        /\ fail_on_parsing_error' = fail_on_parsing_error
    BY DEF Spawn, outputVars, configVars
  <1>2. job[l]' = [job[l] EXCEPT !.pc = "spawned"] /\ job[l] \in Job
    BY <1>1 DEF Typed, TypeJobs
  <1>3. /\ job[l]'.pc = "spawned" /\ job[l]'.taken = job[l].taken
        /\ job[l]'.open = job[l].open /\ job[l]'.logging = job[l].logging
    BY <1>2 DEF Job
  <1>4. Readable(l)'
    BY <1>0, <1>1, ReadableStays, NothingArrives DEF Fine, Typed
  <1>5. Fine(l)'
    BY <1>0, <1>1, <1>3, <1>4 DEF Fine, Fresh
  <1> QED
    BY <1>0, <1>1, <1>5, Others DEF Typed, TypeJobs

(* A list begins with some listing of its directory. *)
LEMMA BeginListKeeps ==
  ASSUME Typed, \A k \in Lists : Fine(k), NEW l \in Lists, NEW files,
         BeginList(l, files), files \in Listings(l)',
         mishaps \subseteq mishaps', swallowed \subseteq swallowed',
         <<l, "errors">> \in swallowed' => <<l, "errors">> \in swallowed,
         \A k \in Lists \ {l} : Trouble(k)' = Trouble(k)
  PROVE  \A k \in Lists : Fine(k)'
  <1>1. /\ job' = [job EXCEPT ![l].pc = "running", ![l].files = files]
        /\ job[l].pc = "spawned"
        /\ archive' = archive /\ dataset' = dataset /\ errors' = errors /\ pc' = pc
        /\ fail_on_parsing_error' = fail_on_parsing_error
    BY DEF BeginList, outputVars, configVars
  <1>2. /\ job[l]' = [job[l] EXCEPT !.pc = "running", !.files = files]
        /\ job[l] \in Job
    BY <1>1 DEF Typed, TypeJobs
  <1>3. /\ job[l]'.pc = "running" /\ job[l]'.taken = job[l].taken
        /\ job[l]'.open = job[l].open /\ job[l]'.logging = job[l].logging
        /\ job[l]'.files = files
    BY <1>2 DEF Job
  <1>4. Readable(l)'
    BY <1>1, ReadableStays, NothingArrives DEF Fine, Typed
  <1>5. /\ job[l].taken = {} /\ ~job[l].open /\ ~job[l].logging
        /\ <<l, "errors">> \notin swallowed'
    BY <1>1 DEF Fine, Fresh
  <1>6. Taken(l)' = {}
    BY <1>3, <1>5 DEF Taken
  <1>7. Written(l)'
    BY <1>3, <1>5, <1>6 DEF Written, AnyTorn, Decoded, Undecoded
  <1>8. Fine(l)'
    BY <1>1, <1>3, <1>4, <1>5, <1>7 DEF Fine, Fresh
  <1> QED
    BY <1>1, <1>8, Others DEF Typed, TypeJobs

LEMMA StartListKeeps ==
  ASSUME Typed, \A k \in Lists : Fine(k), NEW l \in Lists,
         StartList(l) \/ StartListPartly(l)
  PROVE  \A k \in Lists : Fine(k)'
  <1>1. CASE StartList(l)
    <2> DEFINE files == 1..Len(archive[l])
    <2>1. BeginList(l, files) /\ UNCHANGED troubleVars
      BY <1>1 DEF StartList
    <2>2. archive' = archive /\ Len(archive[l]) \in Nat
      BY <2>1, JobFields DEF BeginList, Typed
    <2>3. files \in Listings(l)'
      <3>1. Len(archive[l])' \in Nat /\ files = 1..Len(archive[l])'
        BY <2>2
      <3> DEFINE n == Len(archive[l])'
      <3>2. Listings(l)' = IF <<l, "files">> \in swallowed' THEN SUBSET (1..n)
                           ELSE {1..i : i \in 0..n}
        BY DEF Listings
      <3>3. n \in Nat /\ files = 1..n
        BY <3>1
      <3> HIDE DEF n, files
      <3> QED
        BY <3>2, <3>3
    <2> HIDE DEF files
    <2> QED
      BY <2>1, <2>3, SameTrouble, BeginListKeeps
  <1>2. CASE StartListPartly(l)
    <2>1. PICK files \in SUBSET (1..Len(archive[l])) : BeginList(l, files)
      BY <1>2 DEF StartListPartly
    <2>2. Swallows(l, "files")
      BY <1>2 DEF StartListPartly
    <2>3. archive' = archive
      BY <2>1 DEF BeginList
    <2>4. files \in Listings(l)'
      BY <2>2, <2>3, TroubleOf DEF Listings
    <2> QED
      BY <2>1, <2>2, <2>4, TroubleOf, BeginListKeeps
  <1> QED
    BY <1>1, <1>2

(* The job of a list that fails has the cause it needs. *)
LEMMA FailKeeps ==
  ASSUME Typed, \A k \in Lists : Fine(k), NEW l \in Lists, Fail(l), Readable(l)',
         job[l].pc = "running", swallowed' = swallowed,
         Caused(l, job[l].files)', archive' = archive, pc' = pc,
         fail_on_parsing_error' = fail_on_parsing_error, mishaps \subseteq mishaps',
         \A k \in Lists \ {l} : dataset[k]' = dataset[k] /\ errors[k]' = errors[k]
  PROVE  \A k \in Lists : Fine(k)'
  <1>1. job' = [job EXCEPT ![l].pc = "failed"]
    BY DEF Fail
  <1>2. job[l]' = [job[l] EXCEPT !.pc = "failed"] /\ job[l] \in Job
    BY <1>1 DEF Typed, TypeJobs
  <1>3. job[l]'.pc = "failed" /\ job[l]'.files = job[l].files
    BY <1>2 DEF Job
  <1>4. <<l, "errors">> \notin swallowed' /\ \A k \in Lists : Trouble(k)' = Trouble(k)
    BY DEF Fine, Trouble
  <1>5. Fine(l)'
    BY <1>3, <1>4 DEF Fine, Fresh
  <1> QED
    BY <1>1, <1>4, <1>5, Others DEF Typed, TypeJobs

LEMMA RefusedIsCause ==
  ASSUME Typed, NEW l \in Lists, Refused(l)
  PROVE  Caused(l, job[l].files)
  <1>1. BatchOf(l) \subseteq job[l].files
    BY BatchBounds DEF Typed
  <1>2. AnyTorn(l, BatchOf(l)) => AnyTorn(l, job[l].files)
    BY <1>1 DEF AnyTorn
  <1>3. Undecoded(l, BatchOf(l)) \subseteq Undecoded(l, job[l].files)
    BY <1>1 DEF Undecoded
  <1> QED
    BY <1>2, <1>3 DEF Refused, Caused

LEMMA FailBatchKeeps ==
  ASSUME Typed, \A k \in Lists : Fine(k), NEW l \in Lists, FailBatch(l)
  PROVE  \A k \in Lists : Fine(k)'
  <1>0. mishaps' = mishaps /\ swallowed' = swallowed
    BY SameTrouble DEF FailBatch
  <1>1. /\ archive' = archive /\ dataset' = dataset /\ errors' = errors /\ pc' = pc
        /\ fail_on_parsing_error' = fail_on_parsing_error /\ job[l].pc = "running"
    BY DEF FailBatch, Running, configVars
  <1>2. Caused(l, job[l].files)
    BY RefusedIsCause DEF FailBatch
  <1>3. job[l]'.files = job[l].files
    <2>1. job[l]' = [job[l] EXCEPT !.pc = "failed"] /\ job[l] \in Job
      BY DEF FailBatch, Fail, Typed, TypeJobs
    <2> QED
      BY <2>1 DEF Job
  <1>4. Caused(l, job[l].files)'
    BY <1>0, <1>1, <1>2, <1>3 DEF Caused, AnyTorn, Undecoded
  <1>5. Readable(l)'
    BY <1>0, <1>1, ReadableStays, NothingArrives DEF Fine, Typed
  <1> QED
    BY <1>0, <1>1, <1>4, <1>5, FailKeeps DEF FailBatch

(* What a batch adds to what was taken. *)
LEMMA BatchUnions ==
  ASSUME Typed, NEW l \in Lists
  PROVE  /\ Decoded(l, TakenAfter(l)) = Decoded(l, Taken(l)) \cup Decoded(l, BatchOf(l))
         /\ Undecoded(l, TakenAfter(l)) =
              Undecoded(l, Taken(l)) \cup Undecoded(l, BatchOf(l))
         /\ AnyTorn(l, TakenAfter(l)) <=> AnyTorn(l, Taken(l)) \/ AnyTorn(l, BatchOf(l))
         /\ Undecoded(l, BatchOf(l)) \subseteq Nat
  <1>1. TakenAfter(l) = Taken(l) \cup BatchOf(l)
    BY BatchBounds DEF Typed
  <1>2. BatchOf(l) \subseteq Nat
    BY BatchBounds, JobFields DEF Typed
  <1>3. Undecoded(l, BatchOf(l)) \subseteq Nat
    BY <1>2 DEF Undecoded
  <1>4. \A S, T : /\ Decoded(l, S \cup T) = Decoded(l, S) \cup Decoded(l, T)
                  /\ Undecoded(l, S \cup T) = Undecoded(l, S) \cup Undecoded(l, T)
                  /\ AnyTorn(l, S \cup T) <=> AnyTorn(l, S) \/ AnyTorn(l, T)
    BY Unions
  <1> QED
    BY <1>1, <1>3, <1>4

(* What a batch writes. *)
LEMMA Flushed ==
  ASSUME Typed, NEW l \in Lists, Written(l), Flush(l)
  PROVE  /\ \A k \in Lists \ {l} : dataset[k]' = dataset[k]
         /\ DOMAIN dataset' = Lists
         /\ Decoded(l, BatchOf(l)) = {} => dataset[l]' = dataset[l]
         /\ Decoded(l, BatchOf(l)) # {} =>
              dataset[l]' = [rows |-> Rows(l, Decoded(l, TakenAfter(l))),
                             footer |-> FALSE]
  <1>1. DOMAIN dataset = Lists
    BY DEF Typed, TypeData
  <1>2. /\ \A k \in Lists \ {l} : dataset[k]' = dataset[k]
        /\ DOMAIN dataset' = Lists
        /\ Decoded(l, BatchOf(l)) = {} => dataset[l]' = dataset[l]
        /\ Decoded(l, BatchOf(l)) # {} =>
             dataset[l]' = [rows |-> Rows(l, Decoded(l, BatchOf(l)) \cup
                                       (IF job[l].open THEN DOMAIN dataset[l].rows ELSE {})),
                            footer |-> FALSE]
    BY <1>1 DEF Flush
  <1>3. Decoded(l, TakenAfter(l)) = Decoded(l, Taken(l)) \cup Decoded(l, BatchOf(l))
    BY BatchUnions
  <1>4. (IF job[l].open THEN DOMAIN dataset[l].rows ELSE {}) = Decoded(l, Taken(l))
    <2>1. CASE job[l].open
      <3>1. dataset[l].rows = Rows(l, Decoded(l, Taken(l)))
        BY <2>1 DEF Written
      <3> QED
        BY <2>1, <3>1, RowsOf
    <2>2. CASE ~job[l].open
      BY <2>2 DEF Written
    <2> QED
      BY <2>1, <2>2
  <1>5. Decoded(l, BatchOf(l)) \cup (IF job[l].open THEN DOMAIN dataset[l].rows ELSE {})
          = Decoded(l, TakenAfter(l))
    BY <1>3, <1>4
  <1> QED
    BY <1>2, <1>5

(* The lines of errors.csv after a batch. *)
LEMMA LinesOf ==
  ASSUME Typed, NEW l \in Lists, Written(l)
  PROVE  /\ Lines(l) \subseteq Nat
         /\ LoggingAfter(l) <=> Undecoded(l, TakenAfter(l)) # {}
         /\ LoggingAfter(l) => Lines(l) = Undecoded(l, TakenAfter(l))
  <1>1. errors[l] \subseteq Nat
    BY DEF Typed, TypeData
  <1>2. Undecoded(l, TakenAfter(l)) = Undecoded(l, Taken(l)) \cup Undecoded(l, BatchOf(l))
    BY BatchUnions
  <1>3. Undecoded(l, BatchOf(l)) \subseteq Nat
    BY BatchUnions
  <1>4. /\ job[l].logging <=> Undecoded(l, Taken(l)) # {}
        /\ job[l].logging => errors[l] = Undecoded(l, Taken(l))
    BY DEF Written
  <1>5. Lines(l) \subseteq Nat
    BY <1>1, <1>3 DEF Lines
  <1>6. LoggingAfter(l) <=> Undecoded(l, TakenAfter(l)) # {}
    BY <1>2, <1>4, Zenon DEF LoggingAfter
  <1>7. ASSUME Undecoded(l, BatchOf(l)) = {}, job[l].logging
        PROVE  Lines(l) = Undecoded(l, TakenAfter(l))
    BY <1>2, <1>4, <1>7 DEF Lines
  <1>8. ASSUME Undecoded(l, BatchOf(l)) # {}
        PROVE  Lines(l) = Undecoded(l, TakenAfter(l))
    <2>1. CASE job[l].logging
      BY <1>2, <1>4, <1>8, <2>1 DEF Lines
    <2>2. CASE ~job[l].logging
      BY <1>2, <1>4, <1>8, <2>2 DEF Lines
    <2> QED
      BY <2>1, <2>2
  <1> QED
    BY <1>5, <1>6, <1>7, <1>8, Zenon DEF LoggingAfter

(* A lossy write of lines leaves some of them. *)
LEMMA KeptLines ==
  ASSUME NEW lines, NEW logging, NEW kept \in Kept(lines, logging)
  PROVE  kept \subseteq lines
  BY DEF Kept, Prefixes

LEMMA ErrorsOf ==
  ASSUME Typed, NEW l \in Lists, NEW lines \in SUBSET Nat,
         errors' = [errors EXCEPT ![l] = lines]
  PROVE  /\ errors' \in [Lists -> SUBSET Nat] /\ errors[l]' = lines
         /\ \A k \in Lists \ {l} : errors[k]' = errors[k]
  BY DEF Typed, TypeData

LEMMA TakeBatchKeeps ==
  ASSUME Typed, \A k \in Lists : Fine(k), NEW l \in Lists, TakeBatch(l)
  PROVE  \A k \in Lists : Fine(k)'
  <1>0. /\ mishaps' = mishaps /\ swallowed' = swallowed
        /\ \A k \in Lists : Trouble(k)' = Trouble(k)
    BY SameTrouble DEF TakeBatch
  <1>1. /\ archive' = archive /\ pc' = pc /\ pc # "down" /\ job[l].pc = "running"
        /\ fail_on_parsing_error' = fail_on_parsing_error
        /\ ~Refused(l) /\ Log(l) /\ Flush(l)
        /\ job' = [job EXCEPT
               ![l].taken = TakenAfter(l),
               ![l].open = @ \/ Decoded(l, BatchOf(l)) # {},
               ![l].logging = LoggingAfter(l)]
    BY BatchIsTaken DEF TakeBatch, Running, configVars
  <1>2. Written(l)
    BY <1>1 DEF Fine
  <1>3. /\ job[l] \in Job
        /\ job[l]' = [job[l] EXCEPT
               !.taken = TakenAfter(l),
               !.open = @ \/ Decoded(l, BatchOf(l)) # {},
               !.logging = LoggingAfter(l)]
    BY <1>1 DEF Typed, TypeJobs
  <1>4. /\ job[l]'.pc = "running" /\ job[l]'.taken = TakenAfter(l)
        /\ job[l]'.files = job[l].files
        /\ job[l]'.open = (job[l].open \/ Decoded(l, BatchOf(l)) # {})
        /\ job[l]'.logging = LoggingAfter(l)
    <2> DEFINE o == job[l].open \/ Decoded(l, BatchOf(l)) # {}
               g == LoggingAfter(l)
    <2>1. job[l]' = [job[l] EXCEPT !.taken = TakenAfter(l), !.open = o, !.logging = g]
      BY <1>3
    <2>2. o \in BOOLEAN /\ g \in BOOLEAN
      BY Zenon DEF LoggingAfter
    <2>3. job[l] \in Job /\ job[l].pc = "running"
      BY <1>1, <1>3
    <2> HIDE DEF o, g
    <2>4. /\ job[l]'.pc = "running" /\ job[l]'.taken = TakenAfter(l)
          /\ job[l]'.files = job[l].files /\ job[l]'.open = o /\ job[l]'.logging = g
      BY <2>1, <2>2, <2>3 DEF Job
    <2>5. job[l]'.open = (job[l].open \/ Decoded(l, BatchOf(l)) # {})
      BY <2>4, Zenon DEF o
    <2>6. job[l]'.logging = LoggingAfter(l)
      BY <2>4, Zenon DEF g
    <2> QED
      BY <2>4, <2>5, <2>6, Zenon
  <1> DEFINE T == TakenAfter(l)
  <1>5. /\ Decoded(l, T) = Decoded(l, Taken(l)) \cup Decoded(l, BatchOf(l))
        /\ AnyTorn(l, T) <=> AnyTorn(l, Taken(l)) \/ AnyTorn(l, BatchOf(l))
    BY BatchUnions
  <1>6. /\ Taken(l)' = T /\ AnyTorn(l, Taken(l))' = AnyTorn(l, T)
        /\ Decoded(l, Taken(l))' = Decoded(l, T)
        /\ Undecoded(l, Taken(l))' = Undecoded(l, T)
        /\ Rows(l, Decoded(l, Taken(l)))' = Rows(l, Decoded(l, T))
    BY <1>1, <1>4 DEF Taken, AnyTorn, Decoded, Undecoded, Rows, process_date
  <1>7. ~AnyTorn(l, T)
    BY <1>1, <1>2, <1>5 DEF Written, Refused
  <1>8. job[l]'.open <=> Decoded(l, T) # {}
    BY <1>2, <1>4, <1>5 DEF Written
  <1>9. /\ job[l]'.logging <=> Undecoded(l, T) # {}
        /\ job[l]'.logging => errors[l]' = Undecoded(l, T)
    <2>1. errors[l]' = Lines(l)
      BY <1>1, <1>2, LinesOf, ErrorsOf DEF Log
    <2> QED
      BY <1>2, <1>4, <2>1, LinesOf
  <1>10. job[l]'.open =>
           dataset[l]' = [rows |-> Rows(l, Decoded(l, T)), footer |-> FALSE]
    <2>1. CASE Decoded(l, BatchOf(l)) = {}
      <3>1. dataset[l]' = dataset[l] /\ Decoded(l, T) = Decoded(l, Taken(l))
        BY <1>1, <1>2, <1>5, <2>1, Flushed
      <3> QED
        BY <1>2, <1>4, <2>1, <3>1 DEF Written
    <2>2. CASE Decoded(l, BatchOf(l)) # {}
      BY <1>1, <1>2, <2>2, Flushed
    <2> QED
      BY <2>1, <2>2
  <1>11. Written(l)'
    BY <1>6, <1>7, <1>8, <1>9, <1>10 DEF Written
  <1>12. Readable(l)'
    <2>1. CASE dataset[l]' = dataset[l]
      BY <1>0, <1>1, <2>1, ReadableStays, NothingArrives DEF Fine, Typed
    <2>2. CASE dataset[l]' = [rows |-> Rows(l, Decoded(l, T)), footer |-> FALSE]
      <3>1. dataset[l]'.footer = FALSE
        BY <2>2
      <3> QED
        BY <3>1 DEF Readable
    <2> QED
      BY <1>1, <1>2, <2>1, <2>2, Flushed
  <1>13. job[l]'.files \in Listings(l)' /\ <<l, "errors">> \notin swallowed'
    BY <1>0, <1>1, <1>4, ListingsGrow, NothingArrives DEF Fine, Typed
  <1>14. Fine(l)'
    BY <1>4, <1>11, <1>12, <1>13 DEF Fine, Fresh
  <1>15. \A k \in Lists \ {l} :
           job[k]' = job[k] /\ dataset[k]' = dataset[k] /\ errors[k]' = errors[k]
    BY <1>1, <1>2, Flushed, LinesOf, ErrorsOf DEF Log, Typed, TypeJobs
  <1> QED
    BY <1>0, <1>1, <1>14, <1>15, Others

LEMMA Footed ==
  ASSUME NEW R, NEW a, NEW b
  PROVE  [[rows |-> R, footer |-> a] EXCEPT !.footer = b] = [rows |-> R, footer |-> b]
  OBVIOUS

(* What closing the writer does. *)
LEMMA Closed ==
  ASSUME NEW l \in Lists, Written(l), job[l].taken = job[l].files, DOMAIN dataset = Lists,
         Close(l)
  PROVE  /\ job[l].open => dataset[l]' = Whole(l, job[l].files)
         /\ ~job[l].open => dataset[l]' = dataset[l]
         /\ DOMAIN dataset' = Lists
         /\ \A k \in Lists \ {l} : dataset[k]' = dataset[k]
  <1>1. ASSUME job[l].open PROVE dataset[l]' = Whole(l, job[l].files)
    <2>1. dataset[l]' = [dataset[l] EXCEPT !.footer = TRUE]
      BY <1>1 DEF Close
    <2> DEFINE R == Rows(l, Decoded(l, job[l].files))
    <2>2. dataset[l] = [rows |-> R, footer |-> FALSE]
      BY <1>1 DEF Written, Taken
    <2> HIDE DEF R
    <2>3. [[rows |-> R, footer |-> FALSE] EXCEPT !.footer = TRUE]
            = [rows |-> R, footer |-> TRUE]
      BY Footed, Zenon
    <2>4. dataset[l]' = [[rows |-> R, footer |-> FALSE] EXCEPT !.footer = TRUE]
      BY <2>1, <2>2, Zenon
    <2>5. dataset[l]' = [rows |-> R, footer |-> TRUE]
      BY <2>3, <2>4, Zenon
    <2> QED
      BY <2>5 DEF Whole, R
  <1> QED
    BY <1>1 DEF Close

(* A list that ends well, whether or not its errors.csv is whole. *)
LEMMA DoneKeeps ==
  ASSUME Typed, \A k \in Lists : Fine(k), NEW l \in Lists,
         Running(l), Remain(l) = {}, Close(l), job' = [job EXCEPT ![l].pc = "ok"],
         mishaps \subseteq mishaps',
         <<l, "files">> \in swallowed' <=> <<l, "files">> \in swallowed,
         \A k \in Lists \ {l} : Trouble(k)' = Trouble(k) /\ errors[k]' = errors[k],
         Undecoded(l, job[l].files) # {} =>
           IF <<l, "errors">> \in swallowed'
           THEN errors[l]' \in Prefixes(Undecoded(l, job[l].files))
           ELSE errors[l]' = Undecoded(l, job[l].files)
  PROVE  \A k \in Lists : Fine(k)'
  <1>1. /\ archive' = archive /\ pc' = pc /\ pc # "down" /\ job[l].pc = "running"
        /\ fail_on_parsing_error' = fail_on_parsing_error
        /\ job[l].taken = job[l].files
    BY BatchBounds DEF Running, configVars, Typed
  <1>2. Written(l) /\ DOMAIN dataset = Lists /\ job[l].files \in Listings(l)
    BY <1>1 DEF Fine, Typed, TypeData
  <1>3. job[l]' = [job[l] EXCEPT !.pc = "ok"] /\ job[l] \in Job
    BY DEF Typed, TypeJobs
  <1>4. job[l]'.pc = "ok" /\ job[l]'.files = job[l].files
    BY <1>3 DEF Job
  <1> DEFINE n == job[l].files
  <1>5. /\ job[l].open => dataset[l]' = Whole(l, n)
        /\ ~job[l].open => dataset[l]' = dataset[l]
        /\ \A k \in Lists \ {l} : dataset[k]' = dataset[k]
    BY <1>1, <1>2, Closed
  <1>6. /\ ~AnyTorn(l, n)
        /\ job[l].open <=> Decoded(l, n) # {}
    BY <1>1, <1>2 DEF Written, Taken
  <1>7. n \in Listings(l)'
    BY <1>1, <1>2, <1>4, ListingsGrow, NothingArrives DEF Typed
  <1>8. /\ AnyTorn(l, n)' = AnyTorn(l, n)
        /\ Decoded(l, n)' = Decoded(l, n)
        /\ Undecoded(l, n)' = Undecoded(l, n)
        /\ Whole(l, n)' = Whole(l, n)
    BY <1>1, <1>4 DEF AnyTorn, Decoded, Undecoded, Whole, Rows, process_date
  <1>9. Complete(l, n)'
    BY <1>4, <1>5, <1>6, <1>8 DEF Complete, Prefixes
  <1>10. Readable(l)'
    <2>1. CASE job[l].open
      BY <1>4, <1>5, <1>6, <1>7, <1>8, <2>1 DEF Readable
    <2>2. CASE ~job[l].open
      BY <1>1, <1>5, <2>2, ReadableStays, NothingArrives DEF Fine, Typed
    <2> QED
      BY <2>1, <2>2
  <1>11. Fine(l)'
    BY <1>4, <1>7, <1>9, <1>10 DEF Fine, Fresh
  <1>12. \A k \in Lists \ {l} : job[k]' = job[k]
    BY DEF Typed, TypeJobs
  <1> QED
    BY <1>1, <1>5, <1>11, <1>12, Others

LEMMA EndListKeeps ==
  ASSUME Typed, \A k \in Lists : Fine(k), NEW l \in Lists, EndList(l) \/ EndListUnlogged(l)
  PROVE  \A k \in Lists : Fine(k)'
  <1>1. Running(l) /\ Remain(l) = {} /\ Close(l) /\ job' = [job EXCEPT ![l].pc = "ok"]
    BY DEF EndList, EndListUnlogged
  <1>2. Written(l) /\ <<l, "errors">> \notin swallowed /\ job[l].taken = job[l].files
    BY <1>1, BatchBounds DEF Running, Fine, Typed
  <1>3. Undecoded(l, job[l].files) # {} => errors[l] = Undecoded(l, job[l].files)
    BY <1>2 DEF Written, Taken
  <1>4. CASE EndList(l)
    <2>1. UNCHANGED troubleVars /\ errors' = errors
      BY <1>4 DEF EndList
    <2>2. /\ mishaps' = mishaps /\ swallowed' = swallowed
          /\ \A k \in Lists : Trouble(k)' = Trouble(k)
      BY <2>1, SameTrouble
    <2> QED
      BY <1>1, <1>2, <1>3, <2>1, <2>2, DoneKeeps
  <1>5. CASE EndListUnlogged(l)
    <2>1. PICK lines \in Prefixes(errors[l]) : errors' = [errors EXCEPT ![l] = lines]
      BY <1>5 DEF EndListUnlogged
    <2>2. Swallows(l, "errors")
      BY <1>5 DEF EndListUnlogged
    <2>3. errors \in [Lists -> SUBSET Nat]
      BY DEF Typed, TypeData
    <2>4. errors[l]' = lines /\ \A k \in Lists \ {l} : errors[k]' = errors[k]
      BY <2>1, <2>3
    <2> QED
      BY <1>1, <1>2, <1>3, <2>1, <2>2, <2>4, TroubleOf, DoneKeeps
  <1> QED
    BY <1>4, <1>5

(* What an I/O error leaves of the files of a list. *)
LEMMA ListIoErrorLeaves ==
  ASSUME Typed, NEW l \in Lists, Written(l), ListIoError(l)
  PROVE  /\ errors' \in [Lists -> SUBSET Nat]
         /\ \A k \in Lists \ {l} : errors[k]' = errors[k]
         /\ Flush(l) \/ UNCHANGED dataset
  <1>1. \/ \E lines \in Kept(errors[l], job[l].logging) :
             errors' = [errors EXCEPT ![l] = lines]
        \/ \E lines \in Kept(Lines(l), LoggingAfter(l)) :
             errors' = [errors EXCEPT ![l] = lines]
    BY DEF ListIoError
  <1>2. errors[l] \subseteq Nat /\ Lines(l) \subseteq Nat
    BY LinesOf DEF Typed, TypeData
  <1>3. \E lines \in SUBSET Nat : errors' = [errors EXCEPT ![l] = lines]
    BY <1>1, <1>2, KeptLines
  <1>4. Flush(l) \/ UNCHANGED dataset
    BY DEF ListIoError
  <1> QED
    BY <1>3, <1>4, ErrorsOf

LEMMA ListIoErrorKeeps ==
  ASSUME Typed, \A k \in Lists : Fine(k), NEW l \in Lists, ListIoError(l)
  PROVE  \A k \in Lists : Fine(k)'
  <1>1. /\ archive' = archive /\ pc' = pc /\ job[l].pc = "running"
        /\ pc # "down" /\ fail_on_parsing_error' = fail_on_parsing_error
        /\ mishaps \subseteq mishaps' /\ "io" \in mishaps' /\ Fail(l)
        /\ swallowed' = swallowed
    BY DEF ListIoError, Running, Happens, configVars
  <1>2. Caused(l, job[l].files)'
    BY <1>1 DEF Caused
  <1>3. Written(l) /\ Readable(l)
    BY <1>1 DEF Fine
  <1>4. /\ \A k \in Lists \ {l} : errors[k]' = errors[k]
        /\ Flush(l) \/ UNCHANGED dataset
    BY <1>3, ListIoErrorLeaves
  <1>5. \A k \in Lists \ {l} : dataset[k]' = dataset[k]
    BY <1>3, <1>4, Flushed
  <1>6. Readable(l)'
    <2>1. CASE dataset[l]' = dataset[l]
      BY <1>1, <1>3, <2>1, ReadableStays, NothingArrives DEF Typed
    <2>2. CASE dataset[l]' = [rows |-> Rows(l, Decoded(l, TakenAfter(l))),
                              footer |-> FALSE]
      <3>1. dataset[l]'.footer = FALSE
        BY <2>2
      <3> QED
        BY <3>1 DEF Readable
    <2> QED
      BY <1>3, <1>4, <2>1, <2>2, Flushed
  <1> QED
    BY <1>1, <1>2, <1>4, <1>5, <1>6, FailKeeps
-----------------------------------------------------------------------------
(* What holds of each list goes on to hold. *)
LEMMA StartKeeps ==
  ASSUME Typed, \A k \in Lists : Fine(k), Start PROVE \A k \in Lists : Fine(k)'
  <1>1. /\ archive' = archive /\ dataset' = dataset /\ job' = [l \in Lists |-> NoJob]
        /\ swallowed' = {e \in swallowed : e[2] = "files"}
    BY DEF Start, outputVars
  <1> SUFFICES ASSUME NEW l \in Lists PROVE Fine(l)'
    OBVIOUS
  <1>2. /\ <<l, "files">> \in swallowed => <<l, "files">> \in swallowed'
        /\ <<l, "errors">> \notin swallowed'
    BY <1>1
  <1>3. Readable(l)'
    BY <1>1, <1>2, ReadableStays, NothingArrives DEF Fine, Typed
  <1>4. job[l]' = NoJob
    BY <1>1
  <1>5. /\ job[l]'.pc = "none" /\ job[l]'.taken = {}
        /\ ~job[l]'.open /\ ~job[l]'.logging
    BY <1>4 DEF NoJob
  <1> QED
    BY <1>2, <1>3, <1>5 DEF Fine, Fresh

LEMMA CrashKeeps ==
  ASSUME Typed, \A k \in Lists : Fine(k), Crash PROVE \A k \in Lists : Fine(k)'
  <1>1. /\ archive' = archive /\ dataset' = dataset /\ job' = job /\ pc' = "down"
        /\ fail_on_parsing_error' = fail_on_parsing_error /\ mishaps \subseteq mishaps'
        /\ swallowed' = swallowed
    BY DEF Crash, EndRun, Happens, configVars
  <1>2. PICK kept \in [Lists -> 0..MaxItems] :
          errors' = [l \in Lists |->
                      IF job[l].pc = "running" /\ job[l].logging
                      THEN {i \in errors[l] : i <= kept[l]} ELSE errors[l]]
    BY DEF Crash
  <1>3. \A l \in Lists : errors[l]' = errors[l] \/ job[l].pc # "ok"
    BY <1>2
  <1>4. \A l \in Lists : Trouble(l)' = Trouble(l)
    BY <1>1 DEF Trouble
  <1> QED
    BY <1>1, <1>3, <1>4, Frame, NothingArrives DEF Typed

LEMMA FineStep ==
  ASSUME Typed, \A k \in Lists : Fine(k), [Next]_vars PROVE \A k \in Lists : Fine(k)'
  <1>0. Grows
    BY ArchiveStep DEF Typed
  <1>1. ASSUME job' = job, dataset' = dataset, errors' = errors,
               fail_on_parsing_error' = fail_on_parsing_error,
               \A k \in Lists : Trouble(k)' = Trouble(k),
               mishaps \subseteq mishaps', pc' # "down" => pc # "down"
        PROVE  \A k \in Lists : Fine(k)'
    BY <1>0, <1>1, Frame DEF Typed
  <1>2. CASE RequestShutdown \/ EndSpawning \/ EndScope
    BY <1>1, <1>2 DEF RequestShutdown, EndSpawning, EndScope, Happens, outputVars,
                      configVars, troubleVars, Trouble
  <1>3. CASE EndLineage \/ LineageIoError
    BY <1>1, <1>3 DEF EndLineage, LineageIoError, EndRun, Happens, configVars, troubleVars,
                      Trouble
  <1>4. ASSUME NEW l \in Lists, ReadLineage(l) PROVE \A k \in Lists : Fine(k)'
    BY <1>1, <1>4, SameTrouble DEF ReadLineage, configVars
  <1>5. ASSUME NEW l \in Lists, SkipLineage(l) PROVE \A k \in Lists : Fine(k)'
    <2>1. \A k \in Lists : Trouble(k)' = Trouble(k)
      BY <1>5, TroubleOf DEF SkipLineage
    <2> QED
      BY <1>1, <1>5, <2>1, TroubleOf DEF SkipLineage, configVars, outputVars
  <1>6. ASSUME NEW l \in Lists, NEW email \in News, Arrive(l, email)
        PROVE  \A k \in Lists : Fine(k)'
    BY <1>1, <1>6, SameTrouble DEF Arrive, outputVars, configVars
  <1>7. CASE UNCHANGED vars
    BY <1>1, <1>7, SameTrouble DEF vars, outputVars, configVars
  <1>8. ASSUME NEW l \in Lists,
               \/ Spawn(l) \/ ListStep(l) \/ StartListPartly(l)
               \/ EndListUnlogged(l) \/ ListIoError(l)
        PROVE  \A k \in Lists : Fine(k)'
    BY <1>8, SpawnKeeps, StartListKeeps, FailBatchKeeps, TakeBatchKeeps, EndListKeeps,
       ListIoErrorKeeps DEF ListStep
  <1> QED
    BY <1>2, <1>3, <1>4, <1>5, <1>6, <1>7, <1>8, StartKeeps, CrashKeeps
       DEF Next, Program, Environment
-----------------------------------------------------------------------------
(* The types. *)
LEMMA RestStep ==
  ASSUME Typed, [Next]_vars PROVE TypeRest'
  <1>0. ASSUME NEW l \in Lists, NEW what \in Swallowable, Swallows(l, what)
        PROVE  mishaps' \subseteq Kinds /\ swallowed' \subseteq Lists \X Swallowable
    <2>1. mishaps' = mishaps \cup {"io"} /\ swallowed' = swallowed \cup {<<l, what>>}
          /\ "io" \in Kinds
      BY <1>0, TroubleOf
    <2> QED
      BY <2>1 DEF Typed, TypeRest
  <1>1. CASE Start
    <2>1. UNCHANGED <<configVars, mishaps>> /\ pc' = "spawn" /\ shutdown' = FALSE
          /\ found' \subseteq Lists /\ ended' = "never" /\ runs' = runs + 1 /\ runs < Runs
          /\ swallowed' \subseteq swallowed
      BY <1>1 DEF Start
    <2>2. runs' \in 0..Runs
      BY <2>1, SizeAssumption DEF Typed, TypeRest
    <2> QED
      BY <2>1, <2>2 DEF Typed, TypeRest, configVars
  <1>2. CASE RequestShutdown
    BY <1>2 DEF RequestShutdown, Happens, Typed, TypeRest, configVars, historyVars
  <1>3. CASE Crash \/ LineageIoError \/ EndLineage
    BY <1>3 DEF Crash, LineageIoError, EndLineage, EndRun, Happens, Typed, TypeRest,
                configVars, troubleVars
  <1>4. CASE EndSpawning \/ EndScope
    BY <1>4 DEF EndSpawning, EndScope, Typed, TypeRest, configVars, historyVars, troubleVars
  <1>5. ASSUME NEW l \in Lists, Spawn(l) \/ StartList(l) \/ ReadLineage(l)
        PROVE  TypeRest'
    BY <1>5 DEF Spawn, StartList, BeginList, ReadLineage, Typed, TypeRest, configVars,
                historyVars, troubleVars
  <1>6. ASSUME NEW l \in Lists, StartListPartly(l) \/ SkipLineage(l)
        PROVE  TypeRest'
    <2>1. mishaps' \subseteq Kinds /\ swallowed' \subseteq Lists \X Swallowable
      BY <1>0, <1>6 DEF StartListPartly, SkipLineage, Swallowable
    <2> QED
      BY <1>6, <2>1 DEF StartListPartly, BeginList, SkipLineage, Typed, TypeRest, configVars,
                        historyVars
  <1>7. ASSUME NEW l \in Lists,
               \/ FailBatch(l) \/ TakeBatch(l) \/ EndList(l)
               \/ EndListUnlogged(l) \/ ListIoError(l)
        PROVE  TypeRest'
    <2>1. UNCHANGED <<configVars, pc, historyVars>>
      BY <1>7 DEF FailBatch, TakeBatch, EndList, EndListUnlogged, ListIoError, Running
    <2>2. mishaps' \subseteq Kinds /\ swallowed' \subseteq Lists \X Swallowable
      <3>1. CASE EndListUnlogged(l)
        BY <1>0, <3>1 DEF EndListUnlogged, Swallowable
      <3>2. CASE FailBatch(l) \/ TakeBatch(l) \/ EndList(l)
        BY <3>2 DEF FailBatch, TakeBatch, EndList, troubleVars, Typed, TypeRest
      <3>3. CASE ListIoError(l)
        BY <3>3 DEF ListIoError, Happens, Typed, TypeRest
      <3> QED
        BY <1>7, <3>1, <3>2, <3>3
    <2>3. shutdown' \in {shutdown, (shutdown \/ fail_on_parsing_error)}
      BY <1>7 DEF FailBatch, TakeBatch, EndList, EndListUnlogged, ListIoError, Fail
    <2>4. shutdown' \in BOOLEAN
      BY <2>3, Zenon DEF Typed, TypeRest
    <2> QED
      BY <2>1, <2>2, <2>4 DEF Typed, TypeRest, configVars, historyVars
  <1>8. ASSUME NEW l \in Lists, NEW email \in News, Arrive(l, email) PROVE TypeRest'
    BY <1>8 DEF Arrive, Typed, TypeRest, configVars, historyVars, troubleVars
  <1>9. CASE UNCHANGED vars
    BY <1>9 DEF vars, Typed, TypeRest, configVars, historyVars, troubleVars
  <1> QED
    BY <1>1, <1>2, <1>3, <1>4, <1>5, <1>6, <1>7, <1>8, <1>9
       DEF Next, Program, Environment, ListStep

LEMMA JobsStep ==
  ASSUME Typed, \A k \in Lists : Fine(k), [Next]_vars PROVE TypeJobs'
  <1>0. \A l \in Lists : 1..Len(archive[l]) \subseteq 1..Len(archive[l])'
    <2>1. Grows
      BY ArchiveStep DEF Typed
    <2> QED
      BY <2>1 DEF Grows
  <1>1. CASE job' = job
    BY <1>0, <1>1 DEF Typed, TypeJobs
  <1>2. CASE Start
    <2>1. job' = [l \in Lists |-> NoJob] /\ NoJob \in Job
      BY <1>2 DEF Start, NoJob, Job
    <2>2. \A l \in Lists : job'[l].taken = {} /\ job'[l].files = {}
      BY <2>1 DEF NoJob
    <2> QED
      BY <2>1, <2>2 DEF TypeJobs
  <1>3. ASSUME NEW l \in Lists, NEW next \in Job, job' = [job EXCEPT ![l] = next],
               next.taken \subseteq next.files, next.files \subseteq 1..Len(archive[l]),
               archive' = archive
        PROVE  TypeJobs'
    BY <1>3 DEF Typed, TypeJobs
  <1>4. ASSUME NEW l \in Lists, NEW how \in {"spawned", "ok", "failed"},
               job' = [job EXCEPT ![l].pc = how], archive' = archive
        PROVE  TypeJobs'
    <2> DEFINE next == [job[l] EXCEPT !.pc = how]
    <2>1. job[l] \in Job
      BY DEF Typed, TypeJobs
    <2>2. next \in Job /\ next.taken = job[l].taken /\ next.files = job[l].files
      BY <2>1 DEF Job
    <2>3. job' = [job EXCEPT ![l] = next]
      BY <1>4
    <2> HIDE DEF next
    <2> QED
      BY <1>3, <1>4, <2>2, <2>3, JobFields DEF Typed
  <1>5. ASSUME NEW l \in Lists,
               \/ Spawn(l) \/ FailBatch(l) \/ EndList(l)
               \/ EndListUnlogged(l) \/ ListIoError(l)
        PROVE  TypeJobs'
    BY <1>4, <1>5 DEF Spawn, FailBatch, EndList, EndListUnlogged, ListIoError, Running, Fail
  <1>6. ASSUME NEW l \in Lists, StartList(l) \/ StartListPartly(l) PROVE TypeJobs'
    <2>1. PICK files \in SUBSET (1..Len(archive[l])) : BeginList(l, files)
      BY <1>6 DEF StartList, StartListPartly
    <2> DEFINE next == [job[l] EXCEPT !.pc = "running", !.files = files]
    <2>2. job[l] \in Job /\ job[l].pc = "spawned" /\ Len(archive[l]) \in Nat
      BY <2>1, JobFields DEF BeginList, Typed
    <2>3. files \subseteq Nat
      BY <2>2
    <2>4. next \in Job /\ next.taken = job[l].taken /\ next.files = files
      BY <2>2, <2>3 DEF Job
    <2>5. job' = [job EXCEPT ![l] = next] /\ archive' = archive
      BY <2>1 DEF BeginList
    <2> HIDE DEF next
    <2>6. job[l].taken = {}
      BY <2>2 DEF Fine, Fresh
    <2> QED
      BY <1>3, <2>4, <2>5, <2>6
  <1>7. ASSUME NEW l \in Lists, TakeBatch(l) PROVE TypeJobs'
    <2> DEFINE o == job[l].open \/ Decoded(l, BatchOf(l)) # {}
               g == LoggingAfter(l)
               next == [job[l] EXCEPT !.taken = TakenAfter(l), !.open = o, !.logging = g]
    <2>1. job' = [job EXCEPT ![l] = next] /\ archive' = archive
      BY <1>7, BatchIsTaken DEF TakeBatch, Running
    <2>2. job[l] \in Job /\ TakenAfter(l) \subseteq job[l].files
          /\ job[l].files \subseteq 1..Len(archive[l]) /\ job[l].files \subseteq Nat
      BY JobFields, BatchBounds DEF Typed
    <2>3. o \in BOOLEAN /\ g \in BOOLEAN
      BY Zenon DEF LoggingAfter
    <2> HIDE DEF o, g
    <2>4. next \in Job /\ next.taken = TakenAfter(l) /\ next.files = job[l].files
      BY <2>2, <2>3 DEF Job
    <2> HIDE DEF next
    <2> QED
      BY <1>3, <2>1, <2>2, <2>4
  <1>8. ASSUME NEW l \in Lists, ReadLineage(l) \/ SkipLineage(l) PROVE job' = job
    BY <1>8 DEF ReadLineage, SkipLineage
  <1>9. ASSUME NEW l \in Lists, NEW email \in News, Arrive(l, email) PROVE job' = job
    BY <1>9 DEF Arrive
  <1>10. CASE RequestShutdown \/ EndSpawning \/ EndScope \/ EndLineage
              \/ LineageIoError \/ Crash \/ UNCHANGED vars
    BY <1>1, <1>10 DEF RequestShutdown, EndSpawning, EndScope, EndLineage, LineageIoError,
                       Crash, EndRun, vars
  <1> QED
    BY <1>1, <1>2, <1>5, <1>6, <1>7, <1>8, <1>9, <1>10
       DEF Next, Program, Environment, ListStep

(* The rows of a dataset are emails of its list. *)
LEMMA DataOf ==
  ASSUME Typed, Grows, NEW l \in Lists, DOMAIN dataset' = Lists,
         errors' \in [Lists -> SUBSET Nat],
         \A k \in Lists \ {l} : dataset[k]' = dataset[k],
         \/ dataset[l]' = dataset[l]
         \/ \E S \in SUBSET (1..Len(archive[l])), b \in BOOLEAN :
              dataset[l]' = [rows |-> Rows(l, S), footer |-> b]
  PROVE  TypeData'
  <1> SUFFICES ASSUME NEW k \in Lists, dataset[k]' # None
               PROVE  /\ DOMAIN dataset[k]'.rows \subseteq 1..Len(archive[k])'
                      /\ dataset[k]'.footer \in BOOLEAN
    BY DEF TypeData
  <1>1. 1..Len(archive[k]) \subseteq 1..Len(archive[k])'
    BY DEF Grows
  <1>2. CASE dataset[k]' = dataset[k]
    BY <1>1, <1>2 DEF Typed, TypeData
  <1>3. ASSUME k = l, NEW S \in SUBSET (1..Len(archive[l])), NEW b \in BOOLEAN,
               dataset[l]' = [rows |-> Rows(l, S), footer |-> b]
        PROVE  /\ DOMAIN dataset[k]'.rows \subseteq 1..Len(archive[k])'
               /\ dataset[k]'.footer \in BOOLEAN
    <2>1. dataset[k]'.rows = Rows(l, S) /\ dataset[k]'.footer = b
      BY <1>3
    <2> QED
      BY <1>1, <1>3, <2>1, RowsOf
  <1> QED
    BY <1>2, <1>3

LEMMA FlushedRows ==
  ASSUME Typed, NEW l \in Lists
  PROVE  Decoded(l, TakenAfter(l)) \in SUBSET (1..Len(archive[l]))
  <1>1. TakenAfter(l) \subseteq 1..Len(archive[l])
    BY JobFields, BatchBounds DEF Typed
  <1> QED
    BY <1>1 DEF Decoded

LEMMA DataStep ==
  ASSUME Typed, \A k \in Lists : Fine(k), [Next]_vars PROVE TypeData'
  <1>0. Grows
    BY ArchiveStep DEF Typed
  <1>1. ASSUME dataset' = dataset, errors' \in [Lists -> SUBSET Nat] PROVE TypeData'
    <2>1. \A l \in Lists : 1..Len(archive[l]) \subseteq 1..Len(archive[l])'
      BY <1>0 DEF Grows
    <2> QED
      BY <1>1, <2>1 DEF Typed, TypeData
  <1>2. ASSUME dataset' = dataset, errors' = errors PROVE TypeData'
    BY <1>1, <1>2 DEF Typed, TypeData
  <1>3. CASE Crash
    <2>1. PICK kept \in [Lists -> 0..MaxItems] :
            errors' = [l \in Lists |->
                      IF job[l].pc = "running" /\ job[l].logging
                      THEN {i \in errors[l] : i <= kept[l]} ELSE errors[l]]
      BY <1>3 DEF Crash
    <2>2. errors' \in [Lists -> SUBSET Nat]
      BY <2>1 DEF Typed, TypeData
    <2> QED
      BY <1>1, <1>3, <2>2 DEF Crash, EndRun
  <1>4. ASSUME NEW l \in Lists, TakeBatch(l) \/ ListIoError(l) PROVE TypeData'
    <2>1. Written(l)
      BY <1>4 DEF TakeBatch, ListIoError, Running, Fine
    <2>2. errors' \in [Lists -> SUBSET Nat] /\ (Flush(l) \/ UNCHANGED dataset)
      <3>1. CASE TakeBatch(l)
        BY <2>1, <3>1, BatchIsTaken, LinesOf, ErrorsOf DEF TakeBatch, Log
      <3>2. CASE ListIoError(l)
        BY <2>1, <3>2, ListIoErrorLeaves
      <3> QED
        BY <1>4, <3>1, <3>2
    <2>3. CASE UNCHANGED dataset
      BY <1>1, <2>2, <2>3
    <2>4. CASE Flush(l)
      <3>1. \/ dataset[l]' = dataset[l]
            \/ dataset[l]' = [rows |-> Rows(l, Decoded(l, TakenAfter(l))),
                              footer |-> FALSE]
        BY <2>1, <2>4, Flushed
      <3>2. \/ dataset[l]' = dataset[l]
            \/ \E S \in SUBSET (1..Len(archive[l])), b \in BOOLEAN :
                 dataset[l]' = [rows |-> Rows(l, S), footer |-> b]
        BY <3>1, FlushedRows
      <3>3. (\A k \in Lists \ {l} : dataset[k]' = dataset[k]) /\ DOMAIN dataset' = Lists
        BY <2>1, <2>4, Flushed
      <3> QED
        BY <1>0, <2>2, <3>2, <3>3, DataOf
    <2> QED
      BY <2>2, <2>3, <2>4
  <1>5. ASSUME NEW l \in Lists, EndList(l) \/ EndListUnlogged(l) PROVE TypeData'
    <2>1. /\ Written(l) /\ job[l].taken = job[l].files /\ DOMAIN dataset = Lists
          /\ Close(l)
      BY <1>5, BatchBounds DEF EndList, EndListUnlogged, Running, Fine, Typed, TypeData
    <2>2. errors' \in [Lists -> SUBSET Nat]
      <3>1. errors \in [Lists -> SUBSET Nat]
        BY DEF Typed, TypeData
      <3>2. \A lines \in Prefixes(errors[l]) : lines \subseteq errors[l]
        BY DEF Prefixes
      <3> QED
        BY <1>5, <3>1, <3>2 DEF EndList, EndListUnlogged
    <2>3. (\A k \in Lists \ {l} : dataset[k]' = dataset[k]) /\ DOMAIN dataset' = Lists
      BY <2>1, Closed
    <2>4. CASE ~job[l].open
      <3>1. dataset[l]' = dataset[l]
        BY <2>1, <2>4, Closed
      <3> QED
        BY <1>0, <2>2, <2>3, <3>1, DataOf
    <2>5. CASE job[l].open
      <3>1. dataset[l]' = [rows |-> Rows(l, Decoded(l, job[l].files)), footer |-> TRUE]
        BY <2>1, <2>5, Closed DEF Whole
      <3>2. Decoded(l, job[l].files) \in SUBSET (1..Len(archive[l]))
        BY JobFields DEF Typed, Decoded
      <3>3. \E S \in SUBSET (1..Len(archive[l])), b \in BOOLEAN :
              dataset[l]' = [rows |-> Rows(l, S), footer |-> b]
        BY <3>1, <3>2
      <3> QED
        BY <1>0, <2>2, <2>3, <3>3, DataOf
    <2> QED
      BY <2>4, <2>5
  <1>6. CASE Start \/ RequestShutdown \/ EndSpawning \/ EndScope \/ EndLineage
             \/ LineageIoError \/ UNCHANGED vars
    BY <1>2, <1>6 DEF Start, RequestShutdown, EndSpawning, EndScope, EndLineage,
                      LineageIoError, EndRun, vars, outputVars
  <1>7. ASSUME NEW l \in Lists,
               \/ Spawn(l) \/ StartList(l) \/ StartListPartly(l) \/ FailBatch(l)
               \/ ReadLineage(l) \/ SkipLineage(l)
        PROVE  TypeData'
    BY <1>2, <1>7 DEF Spawn, StartList, StartListPartly, BeginList, FailBatch, ReadLineage,
                      SkipLineage, outputVars
  <1>8. ASSUME NEW l \in Lists, NEW email \in News, Arrive(l, email) PROVE TypeData'
    BY <1>2, <1>8 DEF Arrive, outputVars
  <1> QED
    BY <1>3, <1>4, <1>5, <1>6, <1>7, <1>8 DEF Next, Program, Environment, ListStep

(* Some of the entries of the batch and the directory remain. *)
LEMMA RemainingBound ==
  ASSUME NEW entries PROVE Remaining(entries) \subseteq batch \cup entries
  BY DEF Remaining

LEMMA EntriesOf ==
  ASSUME NEW l \in Lists, NEW n \in Nat
  PROVE  /\ Entries(l, 1..n) \subseteq Lists \X Nat
         /\ n = 0 => Entries(l, 1..n) = {}
  BY DEF Entries

LineageType == [entries : SUBSET (Lists \X Nat), footer : BOOLEAN]

(* What one directory adds to the lineage. *)
LEMMA LineageRead ==
  ASSUME Typed, NEW l \in Lists, ReadLineage(l)
  PROVE  /\ TypeLineage'
         /\ writing => lineage'.entries \cup batch' =
                         lineage.entries \cup batch \cup Entries(l, 1..Len(archive[l]))
         /\ ~writing /\ writing' /\ batch = {} =>
              lineage'.entries \cup batch' = Entries(l, 1..Len(archive[l]))
         /\ ~writing' => Entries(l, 1..Len(archive[l])) = {} /\ (batch = {} => batch' = {})
  <1> DEFINE entries == Entries(l, 1..Len(archive[l]))
             R == Remaining(entries)
             W == (batch \cup entries) \ R
  <1>1. /\ unread' = unread \ {l} /\ seen' = [seen EXCEPT ![l] = Len(archive[l])]
        /\ writing' = (writing \/ entries # {}) /\ batch' = R
        /\ lineage' = IF writing' THEN [Created EXCEPT !.entries = @ \cup W] ELSE lineage
    BY DEF ReadLineage
  <1>2. Len(archive[l]) \in Nat
    BY JobFields DEF Typed
  <1>3. entries \subseteq Lists \X Nat
    BY <1>2, EntriesOf
  <1>4. R \subseteq batch \cup entries
    BY RemainingBound
  <1> HIDE DEF entries, R
  <1>5. /\ batch \subseteq Lists \X Nat /\ unread \subseteq Lists /\ seen \in [Lists -> Nat]
        /\ writing => lineage # None
        /\ lineage # None => lineage \in LineageType
    BY DEF Typed, TypeLineage, LineageType
  <1>6. Created \in LineageType
    <2>1. CASE writing
      BY <1>5, <2>1 DEF Created
    <2>2. CASE ~writing
      <3>1. [entries |-> {}, footer |-> FALSE] \in LineageType
        BY DEF LineageType
      <3> QED
        BY <2>2, <3>1 DEF Created
    <2> QED
      BY <2>1, <2>2
  <1>7. W \subseteq Lists \X Nat
    BY <1>3, <1>5
  <1> HIDE DEF W
  <1>8. [Created EXCEPT !.entries = @ \cup W] \in LineageType
        /\ [Created EXCEPT !.entries = @ \cup W].entries = Created.entries \cup W
    BY <1>6, <1>7 DEF LineageType
  <1>9. writing' \in BOOLEAN
    BY <1>1, Zenon
  <1>10. lineage' # None => lineage' \in LineageType
    BY <1>1, <1>5, <1>8
  <1>11. writing' => lineage' # None
    BY <1>1, <1>8, NoneAssumption DEF LineageType
  <1>12. batch' \subseteq Lists \X Nat /\ unread' \subseteq Lists /\ seen' \in [Lists -> Nat]
    BY <1>1, <1>2, <1>3, <1>4, <1>5
  <1>13. TypeLineage'
    <2>1. lineage' # None => lineage'.footer \in BOOLEAN
      BY <1>10 DEF LineageType
    <2> QED
      BY <2>1, <1>9, <1>10, <1>11, <1>12 DEF TypeLineage, LineageType
  <1>14. W \cup R = batch \cup entries
    BY <1>4 DEF W
  <1>15. writing' => lineage'.entries = Created.entries \cup W
    BY <1>1, <1>8
  <1>16. Created.entries = IF writing THEN lineage.entries ELSE {}
    BY DEF Created
  <1>17. writing => writing'
    BY <1>1
  <1>18. ~writing' => entries = {} /\ (batch = {} => batch' = {})
    BY <1>1, <1>4
  <1>19. writing => lineage'.entries \cup batch' = lineage.entries \cup batch \cup entries
    BY <1>1, <1>14, <1>15, <1>16, <1>17
  <1>20. ~writing /\ writing' /\ batch = {} => lineage'.entries \cup batch' = entries
    BY <1>1, <1>14, <1>15, <1>16
  <1> QED
    BY <1>13, <1>18, <1>19, <1>20 DEF entries

(* What was read stays as it is in the archives. *)
LEMMA ReadStays ==
  ASSUME Typed, Grows, \A l \in Lists : seen[l] <= Len(archive[l]), seen' = seen
  PROVE  /\ ReadEntries' = ReadEntries
         /\ \A l \in Lists : seen'[l] <= Len(archive[l])'
  <1>1. \A l \in Lists : seen[l] \in Nat /\ seen[l] <= Len(archive[l])
    BY DEF Typed, TypeLineage
  <1>2. ASSUME NEW l \in Lists PROVE Entries(l, 1..seen[l])' = Entries(l, 1..seen[l])
    <2>1. \A i \in 1..seen[l] : archive[l][i]' = archive[l][i]
      BY <1>1 DEF Grows
    <2> QED
      BY <2>1 DEF Entries
  <1>3. ReadEntries' = ReadEntries
    BY <1>2 DEF ReadEntries
  <1> QED
    BY <1>1, <1>3 DEF Grows

(* Nothing is read of a directory that has not been. *)
LEMMA NothingRead ==
  ASSUME \A l \in Lists : seen[l] = 0 PROVE ReadEntries = {}
  BY EntriesOf DEF ReadEntries

(* The steps that leave the lineage to itself. *)
LEMMA LineageFrame ==
  ASSUME Typed, Grows, LineageKept, LineageWhole,
         UNCHANGED <<lineage, batch, writing, seen>>,
         pc \in {"spawn", "join"} \/ job' = job, swallowed \subseteq swallowed',
         \/ pc' = pc /\ UNCHANGED <<unread, ended>>
         \/ pc = "spawn" /\ pc' = "join" /\ UNCHANGED <<unread, ended>>
         \/ pc = "join" /\ pc' = "lineage" /\ unread' = Lists
         \/ pc' = "down" /\ UNCHANGED unread /\ ended' = "killed"
  PROVE  TypeLineage' /\ LineageKept' /\ LineageWhole'
  <1>1. TypeLineage'
    <2>1. unread' \subseteq Lists
      BY DEF Typed, TypeLineage
    <2> QED
      BY <2>1 DEF Typed, TypeLineage
  <1>2. /\ ReadEntries' = ReadEntries
        /\ \A l \in Lists : seen'[l] <= Len(archive[l])'
    BY ReadStays DEF LineageKept
  <1>3. pc \in {"spawn", "join"} => ReadEntries = {}
    BY NothingRead DEF LineageKept
  <1>4. LineageKept'
    <2>1. CASE pc' = "lineage" /\ pc = "lineage"
      BY <1>2, <2>1 DEF LineageKept
    <2>2. CASE pc' = "lineage" /\ pc # "lineage"
      BY <1>2, <1>3, <2>2 DEF LineageKept
    <2>3. CASE pc' # "lineage"
      BY <1>2, <2>3 DEF LineageKept
    <2> QED
      BY <2>1, <2>2, <2>3
  <1>5. LineageWhole'
    BY <1>2 DEF LineageWhole, ReadEntries
  <1> QED
    BY <1>1, <1>4, <1>5

LEMMA ReadLineageKeeps ==
  ASSUME Typed, LineageKept, NEW l \in Lists, ReadLineage(l)
  PROVE  TypeLineage' /\ LineageKept' /\ LineageWhole'
  <1> DEFINE entries == Entries(l, 1..Len(archive[l]))
  <1>1. /\ pc = "lineage" /\ pc' = "lineage" /\ l \in unread /\ unread' = unread \ {l}
        /\ archive' = archive /\ seen' = [seen EXCEPT ![l] = Len(archive[l])]
        /\ writing' = (writing \/ entries # {})
    BY DEF ReadLineage
  <1>2. /\ seen \in [Lists -> Nat] /\ Len(archive[l]) \in Nat /\ unread \subseteq Lists
    BY JobFields DEF Typed, TypeLineage
  <1>3. \A k \in Lists : seen'[k] = IF k = l THEN Len(archive[l]) ELSE seen[k]
    BY <1>1, <1>2
  <1>4. \A k \in Lists : seen'[k] <= Len(archive[k])'
    BY <1>1, <1>2, <1>3 DEF LineageKept
  <1>5. \A k \in unread' : seen'[k] = 0
    BY <1>1, <1>2, <1>3 DEF LineageKept
  <1>6. ReadEntries' = ReadEntries \cup entries
    <2>1. seen[l] = 0 /\ Entries(l, 1..seen[l]) = {}
      BY <1>1, EntriesOf DEF LineageKept
    <2>2. \A k \in Lists : Entries(k, 1..seen[k])' =
                             IF k = l THEN entries ELSE Entries(k, 1..seen[k])
      BY <1>1, <1>3 DEF Entries
    <2> HIDE DEF entries
    <2> QED
      BY <2>1, <2>2 DEF ReadEntries
  <1> HIDE DEF entries
  <1>7. /\ writing => lineage.entries \cup batch = ReadEntries
        /\ ~writing => batch = {} /\ ReadEntries = {}
    BY <1>1 DEF LineageKept
  <1>8. /\ TypeLineage'
        /\ writing => lineage'.entries \cup batch' = lineage.entries \cup batch \cup entries
        /\ ~writing /\ writing' /\ batch = {} => lineage'.entries \cup batch' = entries
        /\ ~writing' => entries = {} /\ (batch = {} => batch' = {})
    BY LineageRead DEF entries
  <1>9. ~writing' => batch' = {} /\ ReadEntries' = {}
    BY <1>1, <1>6, <1>7, <1>8
  <1>10. writing' => lineage'.entries \cup batch' = ReadEntries'
    BY <1>1, <1>6, <1>7, <1>8
  <1>11. \A k \in Lists \ unread' :
           job'[k].files \subseteq 1..seen'[k] \/ <<k, "lineage">> \in swallowed'
    <2>1. job' = job /\ swallowed' = swallowed
      BY DEF ReadLineage, troubleVars
    <2>2. job[l].files \subseteq 1..seen'[l]
      BY <1>3, JobFields DEF Typed
    <2>3. \A k \in Lists \ unread : job[k].files \subseteq 1..seen[k]
                                      \/ <<k, "lineage">> \in swallowed
      BY <1>1 DEF LineageKept
    <2> QED
      BY <1>1, <1>3, <2>1, <2>2, <2>3
  <1>12. LineageKept'
    BY <1>1, <1>4, <1>5, <1>9, <1>10, <1>11 DEF LineageKept
  <1>13. LineageWhole'
    BY <1>1 DEF LineageWhole
  <1> QED
    BY <1>8, <1>12, <1>13

(* A directory whose lineage cannot be read is noted as such. *)
LEMMA SkipLineageKeeps ==
  ASSUME Typed, LineageKept, NEW l \in Lists, SkipLineage(l)
  PROVE  TypeLineage' /\ LineageKept' /\ LineageWhole'
  <1>1. /\ pc = "lineage" /\ pc' = "lineage" /\ l \in unread /\ unread' = unread \ {l}
        /\ UNCHANGED <<archive, lineage, seen, job, batch, writing>>
        /\ Swallows(l, "lineage")
    BY DEF SkipLineage, outputVars, historyVars
  <1>2. swallowed' = swallowed \cup {<<l, "lineage">>}
    BY <1>1, TroubleOf
  <1>3. /\ ReadEntries' = ReadEntries
        /\ \A k \in Lists : seen'[k] <= Len(archive[k])'
    BY <1>1, NothingArrives, ReadStays DEF LineageKept, Typed
  <1>4. TypeLineage'
    <2>1. unread' \subseteq Lists
      BY <1>1 DEF Typed, TypeLineage
    <2> QED
      BY <1>1, <2>1 DEF Typed, TypeLineage
  <1>5. LineageKept'
    BY <1>1, <1>2, <1>3 DEF LineageKept
  <1> QED
    BY <1>1, <1>4, <1>5 DEF LineageWhole

LEMMA EndLineageKeeps ==
  ASSUME Typed, LineageKept, EndLineage
  PROVE  TypeLineage' /\ LineageKept' /\ LineageWhole'
  <1>1. /\ pc = "lineage" /\ pc' = "down" /\ UNCHANGED <<archive, batch, unread, seen, writing>>
        /\ lineage' = IF writing
                      THEN [entries |-> lineage.entries \cup batch, footer |-> TRUE]
                      ELSE lineage
    BY DEF EndLineage, EndRun
  <1>2. /\ batch \subseteq Lists \X Nat /\ unread \subseteq Lists /\ seen \in [Lists -> Nat]
        /\ writing \in BOOLEAN
        /\ writing => lineage # None
        /\ lineage # None => lineage \in LineageType
    BY DEF Typed, TypeLineage, LineageType
  <1>3. Grows
    BY <1>1, NothingArrives DEF Typed
  <1>4. /\ ReadEntries' = ReadEntries
        /\ \A l \in Lists : seen'[l] <= Len(archive[l])'
    BY <1>1, <1>3, ReadStays DEF LineageKept
  <1>5. writing => lineage' = [entries |-> ReadEntries, footer |-> TRUE]
    BY <1>1 DEF LineageKept
  <1>6. ~writing => ReadEntries = {} /\ lineage' = lineage
    BY <1>1 DEF LineageKept
  <1>7. writing => lineage' \in LineageType
    <2>1. writing => lineage.entries \cup batch \subseteq Lists \X Nat
      BY <1>2 DEF LineageType
    <2> QED
      BY <1>1, <2>1 DEF LineageType
  <1>8. lineage' # None => lineage' \in LineageType
    BY <1>2, <1>6, <1>7
  <1>9. writing => lineage' # None
    BY <1>7, NoneAssumption DEF LineageType
  <1>10. TypeLineage'
    <2>1. lineage' # None => lineage'.footer \in BOOLEAN
      BY <1>8 DEF LineageType
    <2>2. /\ batch' \subseteq Lists \X Nat /\ unread' \subseteq Lists
          /\ seen' \in [Lists -> Nat] /\ writing' \in BOOLEAN
          /\ writing' => lineage' # None
      <3>1. UNCHANGED <<batch, unread, seen, writing>>
        BY <1>1
      <3>2. writing' \in BOOLEAN
        BY <1>2, <3>1, Zenon
      <3> QED
        BY <1>2, <1>9, <3>1, <3>2
    <2> QED
      BY <2>1, <2>2, <1>8 DEF TypeLineage, LineageType
  <1>11. LineageKept'
    BY <1>1, <1>4 DEF LineageKept
  <1>12. ReadEntries' # {} => lineage' = [entries |-> ReadEntries', footer |-> TRUE]
    BY <1>4, <1>5, <1>6
  <1>13. \A l \in Lists :
           job'[l].files \subseteq 1..seen'[l] \/ <<l, "lineage">> \in swallowed'
    BY DEF EndLineage, EndRun, troubleVars, LineageKept
  <1>14. LineageWhole'
    BY <1>12, <1>13 DEF LineageWhole, ReadEntries
  <1> QED
    BY <1>10, <1>11, <1>14

LEMMA LineageIoErrorKeeps ==
  ASSUME Typed, LineageKept, LineageIoError
  PROVE  TypeLineage' /\ LineageKept' /\ LineageWhole'
  <1>1. /\ pc' = "down" /\ ended' = "error" /\ lineage' \in {lineage, Created}
        /\ UNCHANGED <<archive, batch, unread, seen, writing>>
    BY DEF LineageIoError, EndRun
  <1>2. Created = lineage \/ (~writing /\ Created \in LineageType)
    BY DEF Created, LineageType
  <1>3. Grows
    BY <1>1, NothingArrives DEF Typed
  <1>4. \A l \in Lists : seen'[l] <= Len(archive[l])'
    BY <1>1, <1>3, ReadStays DEF LineageKept
  <1>5. TypeLineage'
    <2>1. lineage' # None => lineage' \in LineageType
      BY <1>1, <1>2 DEF Typed, TypeLineage, LineageType
    <2>2. lineage' # None => lineage'.footer \in BOOLEAN
      BY <2>1 DEF LineageType
    <2>3. writing' => lineage' # None
      BY <1>1, <1>2 DEF Typed, TypeLineage
    <2> QED
      BY <1>1, <2>1, <2>2, <2>3 DEF Typed, TypeLineage, LineageType
  <1> QED
    BY <1>1, <1>4, <1>5 DEF LineageKept, LineageWhole

LEMMA StartReads ==
  ASSUME Typed, Start PROVE TypeLineage' /\ LineageKept' /\ LineageWhole'
  <1>1. /\ pc' = "spawn" /\ batch' = {} /\ unread' = {} /\ writing' = FALSE
        /\ seen' = [l \in Lists |-> 0] /\ archive' = archive /\ lineage' = lineage
    BY DEF Start, outputVars
  <1>2. \A l \in Lists : Len(archive[l]) \in Nat
    BY JobFields DEF Typed
  <1>3. seen' \in [Lists -> Nat] /\ \A l \in Lists : seen'[l] = 0
    BY <1>1
  <1>4. TypeLineage'
    BY <1>1, <1>3 DEF Typed, TypeLineage
  <1>5. LineageKept'
    BY <1>1, <1>2, <1>3 DEF LineageKept
  <1> QED
    BY <1>1, <1>4, <1>5 DEF LineageWhole

LEMMA LineageStep ==
  ASSUME Typed, LineageKept, LineageWhole, [Next]_vars
  PROVE  TypeLineage' /\ LineageKept' /\ LineageWhole'
  <1>0. Grows
    BY ArchiveStep DEF Typed
  <1>1. CASE RequestShutdown \/ EndSpawning \/ UNCHANGED vars
    BY <1>0, <1>1, LineageFrame
       DEF RequestShutdown, EndSpawning, vars, outputVars, lineageVars, historyVars,
           troubleVars
  <1>2. CASE EndScope
    BY <1>0, <1>2, LineageFrame DEF EndScope, outputVars, historyVars, troubleVars
  <1>3. CASE Crash
    BY <1>0, <1>3, LineageFrame DEF Crash, EndRun
  <1>4. ASSUME NEW l \in Lists, Spawn(l) \/ ListStep(l) \/ ListIoError(l)
        PROVE  TypeLineage' /\ LineageKept' /\ LineageWhole'
    BY <1>0, <1>4, LineageFrame
       DEF Spawn, ListStep, StartList, BeginList, FailBatch, TakeBatch, EndList, ListIoError,
           Running, outputVars, lineageVars, historyVars, troubleVars
  <1>5. ASSUME NEW l \in Lists, StartListPartly(l) \/ EndListUnlogged(l)
        PROVE  TypeLineage' /\ LineageKept' /\ LineageWhole'
    <2>1. swallowed \subseteq swallowed'
      BY <1>5 DEF StartListPartly, EndListUnlogged, Swallows
    <2> QED
      BY <1>0, <1>5, <2>1, LineageFrame
         DEF StartListPartly, EndListUnlogged, BeginList, Running, outputVars, lineageVars,
             historyVars
  <1>6. ASSUME NEW l \in Lists, NEW email \in News, Arrive(l, email)
        PROVE  TypeLineage' /\ LineageKept' /\ LineageWhole'
    BY <1>0, <1>6, LineageFrame
       DEF Arrive, outputVars, lineageVars, historyVars, troubleVars
  <1> QED
    BY <1>1, <1>2, <1>3, <1>4, <1>5, <1>6, StartReads, ReadLineageKeeps, SkipLineageKeeps,
       EndLineageKeeps, LineageIoErrorKeeps DEF Next, Program, Environment
-----------------------------------------------------------------------------
(* How far the run is. *)
LEMMA OrderedStays ==
  ASSUME Ordered, UNCHANGED <<dataset, job, lists, found>>, shutdown => shutdown',
         \/ pc' = pc /\ ended' = ended
         \/ pc = "join" /\ pc' = "lineage" /\
              \A l \in Lists : job[l].pc \in {"none", "ok", "failed"}
         \/ pc = "lineage" /\ pc' = "down"
         \/ pc' = "down" /\ ended' = "killed"
  PROVE  Ordered'
  BY DEF Ordered, Returned, TornDataset

(* The step of a list which leaves the others as they were. *)
LEMMA OrderedList ==
  ASSUME Typed, Ordered, NEW l \in Lists, pc \in {"spawn", "join"}, pc' = pc,
         lists' = lists, found' = found, shutdown => shutdown',
         \A k \in Lists \ {l} : dataset[k]' = dataset[k] /\ job[k]' = job[k],
         job'[l].pc = "none" => job[l].pc = "none",
         TornDataset(l)' =>
           l \in found \/ job'[l].pc = "failed" \/ (job'[l].pc = "running" /\ job'[l].open)
  PROVE  Ordered'
  <1>1. pc' \in {"spawn", "join"} /\ pc' # "lineage" /\ pc' # "down" /\ ~Returned'
    BY DEF Returned
  <1>2. pc' \in {"join", "lineage"} \/ Returned' =>
          \A k \in lists' : job'[k].pc = "none" => shutdown'
    <2> SUFFICES ASSUME pc' = "join", NEW k \in lists, job'[k].pc = "none" PROVE shutdown'
      BY <1>1
    <2>1. job[k].pc = "none"
      <3>1. CASE k = l
        BY <3>1
      <3>2. CASE k # l
        BY <3>2 DEF Typed, TypeRest
      <3> QED
        BY <3>1, <3>2
    <2>2. shutdown
      BY <2>1 DEF Ordered
    <2> QED
      BY <2>2
  <1>3. \A k \in Lists : TornDataset(k)' =>
          k \in found \/ job'[k].pc = "failed" \/ (job'[k].pc = "running" /\ job'[k].open)
    <2> SUFFICES ASSUME NEW k \in Lists, k # l, TornDataset(k)'
                 PROVE  k \in found \/ job'[k].pc = "failed"
                          \/ (job'[k].pc = "running" /\ job'[k].open)
      OBVIOUS
    <2>1. TornDataset(k) /\ job'[k] = job[k]
      BY DEF TornDataset
    <2> QED
      BY <2>1 DEF Ordered
  <1> QED
    BY <1>1, <1>2, <1>3 DEF Ordered

(* A job that fails may leave its dataset as it is. *)
LEMMA FailOrdered ==
  ASSUME Typed, Ordered, NEW l \in Lists, Running(l), Fail(l),
         \A k \in Lists \ {l} : dataset[k]' = dataset[k]
  PROVE  Ordered'
  <1>1. /\ pc \in {"spawn", "join"} /\ pc' = pc /\ lists' = lists /\ found' = found
        /\ job' = [job EXCEPT ![l].pc = "failed"]
    BY DEF Running, Fail, configVars, historyVars
  <1>2. shutdown => shutdown'
    BY Zenon DEF Fail
  <1>3. job[l]' = [job[l] EXCEPT !.pc = "failed"] /\ job[l] \in Job
    BY <1>1 DEF Typed, TypeJobs
  <1>4. job'[l].pc = "failed"
    BY <1>3 DEF Job
  <1>5. \A k \in Lists \ {l} : job[k]' = job[k]
    BY <1>1 DEF Typed, TypeJobs
  <1> QED
    BY <1>1, <1>2, <1>4, <1>5, OrderedList

LEMMA SpawnOrdered ==
  ASSUME Typed, Ordered, NEW l \in Lists, Spawn(l) \/ StartList(l) \/ StartListPartly(l)
  PROVE  Ordered'
  <1>1. /\ pc \in {"spawn", "join"} /\ pc' = pc /\ lists' = lists /\ found' = found
        /\ shutdown' = shutdown /\ dataset' = dataset
        /\ job[l].pc \in {"none", "spawned"}
        /\ \/ job' = [job EXCEPT ![l].pc = "spawned"]
           \/ \E files : job' = [job EXCEPT ![l].pc = "running", ![l].files = files]
    BY DEF Spawn, StartList, StartListPartly, BeginList, configVars, historyVars, outputVars
  <1>2. job[l] \in Job /\ job \in [Lists -> Job]
    BY DEF Typed, TypeJobs
  <1>3. /\ \A k \in Lists \ {l} : job[k]' = job[k]
        /\ job'[l].pc \in {"spawned", "running"}
    BY <1>1, <1>2 DEF Job
  <1>4. TornDataset(l)' => l \in found
    BY <1>1 DEF Ordered, TornDataset
  <1> QED
    BY <1>1, <1>3, <1>4, OrderedList

LEMMA TakeBatchOrdered ==
  ASSUME Typed, Ordered, NEW l \in Lists, Fine(l), TakeBatch(l)
  PROVE  Ordered'
  <1> DEFINE o == job[l].open \/ Decoded(l, BatchOf(l)) # {}
             g == LoggingAfter(l)
             next == [job[l] EXCEPT !.taken = TakenAfter(l), !.open = o, !.logging = g]
  <1>1. /\ pc \in {"spawn", "join"} /\ pc' = pc /\ lists' = lists /\ found' = found
        /\ shutdown' = shutdown /\ job[l].pc = "running" /\ Flush(l)
        /\ job' = [job EXCEPT ![l] = next]
    BY BatchIsTaken DEF TakeBatch, Running, configVars, historyVars
  <1>2. job[l] \in Job /\ job \in [Lists -> Job]
    BY DEF Typed, TypeJobs
  <1>3. Written(l)
    BY <1>1 DEF Fine
  <1> HIDE DEF o, g
  <1>4. next.pc = "running" /\ next.open = o
    BY <1>1, <1>2 DEF Job
  <1> HIDE DEF next
  <1>5. /\ \A k \in Lists \ {l} : job[k]' = job[k]
        /\ job'[l].pc = "running" /\ job'[l].open = o
    BY <1>1, <1>2, <1>4
  <1>6. TornDataset(l)' =>
          l \in found \/ (job'[l].pc = "running" /\ job'[l].open)
    <2>1. CASE Decoded(l, BatchOf(l)) = {}
      <3>1. dataset[l]' = dataset[l]
        BY <1>1, <1>3, <2>1, Flushed
      <3>2. TornDataset(l) => l \in found \/ job[l].open
        BY <1>1 DEF Ordered
      <3>3. TornDataset(l)' => l \in found \/ job[l].open
        BY <3>1, <3>2 DEF TornDataset
      <3> QED
        BY <1>5, <3>3, Zenon DEF o
    <2>2. CASE Decoded(l, BatchOf(l)) # {}
      BY <1>5, <2>2, Zenon DEF o
    <2> QED
      BY <2>1, <2>2
  <1>7. \A k \in Lists \ {l} : dataset[k]' = dataset[k]
    BY <1>1, <1>3, Flushed
  <1> QED
    BY <1>1, <1>5, <1>6, <1>7, OrderedList

LEMMA EndListOrdered ==
  ASSUME Typed, Ordered, NEW l \in Lists, Fine(l), EndList(l) \/ EndListUnlogged(l)
  PROVE  Ordered'
  <1>1. /\ pc \in {"spawn", "join"} /\ pc' = pc /\ lists' = lists /\ found' = found
        /\ shutdown' = shutdown /\ job[l].pc = "running" /\ job[l].taken = job[l].files
        /\ job' = [job EXCEPT ![l].pc = "ok"]
        /\ Close(l)
    BY BatchBounds DEF EndList, EndListUnlogged, Running, configVars, historyVars, Typed
  <1>2. job[l] \in Job /\ job \in [Lists -> Job] /\ DOMAIN dataset = Lists /\ Written(l)
    BY <1>1 DEF Typed, TypeJobs, TypeData, Fine
  <1>3. /\ \A k \in Lists \ {l} : job[k]' = job[k] /\ dataset[k]' = dataset[k]
        /\ job'[l].pc = "ok"
    BY <1>1, <1>2, Closed DEF Job
  <1>4. CASE job[l].open
    <2>1. dataset[l]' = Whole(l, job[l].files)
      BY <1>1, <1>2, <1>4, Closed
    <2>2. dataset[l]'.footer
      BY <2>1 DEF Whole
    <2>3. ~TornDataset(l)'
      BY <2>2 DEF TornDataset
    <2> QED
      BY <1>1, <1>3, <2>3, OrderedList
  <1>5. CASE ~job[l].open
    <2>1. dataset[l]' = dataset[l]
      BY <1>1, <1>2, <1>5, Closed
    <2>2. TornDataset(l)' => l \in found
      BY <1>1, <1>5, <2>1 DEF Ordered, TornDataset
    <2> QED
      BY <1>1, <1>3, <2>2, OrderedList
  <1> QED
    BY <1>4, <1>5

LEMMA OrderedStep ==
  ASSUME Typed, \A k \in Lists : Fine(k), Ordered, [Next]_vars PROVE Ordered'
  <1>1. CASE Start
    <2>1. /\ pc' = "spawn" /\ dataset' = dataset /\ found' = {l \in Lists : TornDataset(l)}
      BY <1>1 DEF Start, outputVars
    <2> QED
      BY <2>1 DEF Ordered, Returned, TornDataset
  <1>2. CASE RequestShutdown \/ UNCHANGED vars
    BY <1>2, OrderedStays
       DEF RequestShutdown, vars, outputVars, configVars, historyVars
  <1>3. CASE EndSpawning
    BY <1>3 DEF EndSpawning, Ordered, Returned, TornDataset, outputVars, configVars,
                historyVars
  <1>4. CASE EndScope
    <2>1. \A l \in Lists : job[l].pc \in {"none", "ok", "failed"}
      BY <1>4, JobFields DEF EndScope, Typed
    <2> QED
      BY <1>4, <2>1, OrderedStays DEF EndScope, outputVars, configVars, historyVars
  <1>5. CASE EndLineage \/ LineageIoError \/ Crash
    BY <1>5, OrderedStays DEF EndLineage, LineageIoError, Crash, EndRun, configVars
  <1>6. ASSUME NEW l \in Lists, NEW email \in News, Arrive(l, email) PROVE Ordered'
    BY <1>6, OrderedStays DEF Arrive, outputVars, configVars, historyVars
  <1>7. ASSUME NEW l \in Lists, ReadLineage(l) \/ SkipLineage(l) PROVE Ordered'
    BY <1>7, OrderedStays DEF ReadLineage, SkipLineage, outputVars, configVars, historyVars
  <1>8. ASSUME NEW l \in Lists, FailBatch(l) PROVE Ordered'
    BY <1>8, FailOrdered DEF FailBatch
  <1>9. ASSUME NEW l \in Lists, ListIoError(l) PROVE Ordered'
    <2>1. Written(l) /\ Running(l) /\ Fail(l)
      BY <1>9 DEF ListIoError, Running, Fine
    <2>2. \A k \in Lists \ {l} : dataset[k]' = dataset[k]
      BY <1>9, <2>1, ListIoErrorLeaves, Flushed
    <2> QED
      BY <2>1, <2>2, FailOrdered
  <1> QED
    BY <1>1, <1>2, <1>3, <1>4, <1>5, <1>6, <1>7, <1>8, <1>9, SpawnOrdered,
       TakeBatchOrdered, EndListOrdered DEF Next, Program, Environment, ListStep
-----------------------------------------------------------------------------
(* At first nothing has been parsed. *)
LEMMA InitHolds ==
  ASSUME Init PROVE IInv
  <1>1. TypeArchive
    BY ArchiveAssumption DEF Init, TypeArchive
  <1>2. job = [l \in Lists |-> NoJob] /\ NoJob \in Job
    BY DEF Init, NoJob, Job
  <1>3. \A l \in Lists : /\ job[l].pc = "none" /\ job[l].taken = {} /\ job[l].files = {}
                         /\ ~job[l].open /\ ~job[l].logging
    BY <1>2 DEF NoJob
  <1>4. \A l \in Lists : Len(archive[l]) \in Nat
    BY <1>1 DEF TypeArchive
  <1>5. TypeJobs
    BY <1>2, <1>3, <1>4 DEF TypeJobs
  <1>6. \A l \in Lists : dataset[l] = None
    BY DEF Init
  <1>7. TypeData
    BY <1>6 DEF Init, TypeData
  <1>8. TypeLineage
    BY DEF Init, TypeLineage
  <1>9. TypeRest
    <2>1. runs = 0 /\ shutdown = FALSE
      BY DEF Init
    <2>2. runs \in 0..Runs
      BY <2>1, SizeAssumption
    <2>3. shutdown \in BOOLEAN
      BY <2>1
    <2> QED
      BY <2>2, <2>3 DEF Init, TypeRest
  <1>10. \A l \in Lists : Fine(l)
    BY <1>3, <1>6 DEF Init, Fine, Fresh, Readable
  <1>11. Ordered
    BY DEF Init, Ordered, Returned
  <1>12. LineageKept /\ LineageWhole
    BY <1>4 DEF Init, LineageKept, LineageWhole
  <1> QED
    BY <1>1, <1>5, <1>7, <1>8, <1>9, <1>10, <1>11, <1>12, TypeParts DEF IInv, Typed

(* No step breaks any part of it. *)
LEMMA StepKeeps ==
  ASSUME IInv, [Next]_vars PROVE IInv'
  <1>1. Typed
    BY TypeParts DEF IInv
  <1>2. TypeArchive'
    BY <1>1, ArchiveStep DEF Typed
  <1>3. TypeData' /\ TypeJobs' /\ TypeRest'
    BY <1>1, DataStep, JobsStep, RestStep DEF IInv
  <1>4. TypeLineage' /\ LineageKept' /\ LineageWhole'
    BY <1>1, LineageStep DEF IInv
  <1>5. Typed'
    BY <1>2, <1>3, <1>4 DEF Typed
  <1>6. TypeOK' /\ Shape'
    BY <1>5, TypeParts, PTL
  <1>7. \A l \in Lists : Fine(l)'
    BY <1>1, FineStep DEF IInv
  <1>8. Ordered'
    BY <1>1, OrderedStep DEF IInv
  <1> QED
    BY <1>4, <1>6, <1>7, <1>8 DEF IInv

(* The invariant the properties follow from: what each job has written is  *)
(* what it has taken, and what parse_lineage has read it has written or    *)
(* still holds.                                                            *)
THEOREM Invariance == Spec => []IInv
  BY InitHolds, StepKeeps, PTL DEF Spec

(* The variables of the parser have their types.                           *)
THEOREM ParserTypeCorrect == Spec => []TypeOK
  <1>1. IInv => TypeOK
    BY DEF IInv
  <1> QED
    BY <1>1, Invariance, PTL

(* flush_batch and close: list_data.parquet, once it has its footer, is    *)
(* the whole of what some run found, after crashes, I/O errors, failures   *)
(* of emails, and reruns as the archive grows.                             *)
THEOREM ReadableDatasetsAreWhole == Spec => []ReadableIsWhole
  <1>1. IInv => ReadableIsWhole
    BY FineParts DEF IInv
  <1> QED
    BY <1>1, Invariance, PTL

(* process_mailing_list: a list that is done has each email it found in    *)
(* its dataset or in errors.csv.                                           *)
THEOREM DoneListsAreComplete == Spec => []DoneIsComplete
  <1>1. IInv => DoneIsComplete
    BY FineParts DEF IInv
  <1> QED
    BY <1>1, Invariance, PTL

(* build_record_batch: no email that was decoded makes its list fail.      *)
THEOREM FailuresHaveCauses == Spec => []FailureHasCause
  <1>1. IInv => FailureHasCause
    BY FineParts DEF IInv
  <1> QED
    BY <1>1, Invariance, PTL

(* start: a run that ends by itself has taken each list, but for those a   *)
(* shutdown kept from beginning, and leaves no dataset without its footer  *)
(* but that of a list that failed.                                         *)
THEOREM RunsEndWhole == Spec => []EndsWhole
  <1>1. IInv => EndsWhole
    BY DEF IInv, Ordered, Returned, EndsWhole
  <1> QED
    BY <1>1, Invariance, PTL

(* parse_lineage: no entry of any directory is lost, whatever the sizes of *)
(* the directories and of the row groups.                                  *)
THEOREM LineageIsWhole == Spec => []LineageWhole
  <1>1. IInv => LineageWhole
    BY DEF IInv
  <1> QED
    BY <1>1, Invariance, PTL
=============================================================================
