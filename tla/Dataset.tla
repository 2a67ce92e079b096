------------------------------- MODULE Dataset -------------------------------
(***************************************************************************)
(* mlh_parser: the program that turns the archive of each list into        *)
(*   output/dataset/list=<list>/list_data.parquet   a row per email,       *)
(*   output/errors/list=<list>/errors.csv           emails not parsed, and *)
(*   output/lineage/lineage.parquet                 the lineage of all.    *)
(*                                                                         *)
(* The lists are jobs of a thread pool.  It is run again when the archive  *)
(* has grown; what an earlier run left is overwritten.                     *)
(*                                                                         *)
(* The archive of a list is the sequence of emails its files hold, in the  *)
(* order the files are read; Torn is a file that cannot be read.  An email *)
(* is told by its position.                                                *)
(***************************************************************************)
EXTENDS EmailDates, Sequences

CONSTANTS
  Lists,
  Archives,      \* archives of the lists there may be at first
  News,          \* emails that may arrive
  Torn,
  ThreadCounts,  \* nthreads of the configurations
  MaxBatch,      \* BATCH_MAX_RECORDS
  RowGroupSize,  \* of the lineage
  MaxItems,      \* bound: emails of a list
  Runs,          \* bound: how often the program is started
  Kinds,         \* mishaps: "stop", "io", "crash"
  Budget         \* bound: mishaps, at most one of each kind

(* Columns that are lists, null in the row of an email that has nothing to *)
(* put there; all but trailers may be null.                                *)
ListColumns == {"to", "cc", "client-date", "references", "trailers", "code"}
Nullable == ListColumns \ {"trailers"}

(* An email that decode_mail can decode or not, the list columns it has    *)
(* something for, the dates in its headers, and whether the document about *)
(* it in __lineage.yaml can be read.                                       *)
Email == [decodes : BOOLEAN, has : SUBSET ListColumns,
          date : Date, received : Date, x_received : Date, lineage : BOOLEAN]

ASSUME ArchiveAssumption ==
  /\ Archives \subseteq [Lists -> Seq(Email \cup {Torn})]
  /\ News \subseteq Email /\ Torn \notin Email
ASSUME SizeAssumption ==
  /\ ThreadCounts \subseteq Nat \ {0}
  /\ MaxBatch \in Nat \ {0} /\ RowGroupSize \in Nat \ {0}
  /\ MaxItems \in Nat /\ Runs \in Nat /\ Budget \in Nat
ASSUME NoneAssumption ==
  None \notin [entries : SUBSET (Lists \X Nat), footer : BOOLEAN]

VARIABLES
  archive,
  \* output
  dataset,   \* of each list: rows and footer of list_data.parquet, or None
  errors,    \* of each list: the emails in errors.csv
  lineage,   \* the entries and the footer of lineage.parquet, or None
  \* configuration
  threads,   \* nthreads
  fail_on_parsing_error,
  lists,     \* lists_to_parse, or the directories that could be listed
  \* program
  pc,        \* "down", "spawn", "join" or "lineage"
  shutdown,
  job,       \* of each list
  batch,     \* entries parse_lineage has not yet written
  unread,    \* directories parse_lineage has yet to read
  writing,   \* parse_lineage has created lineage.parquet
  \* environment and history
  mishaps,   \* kinds of the mishaps there were
  swallowed, \* I/O errors the program went on after: <<list, what they were about>>
  runs,
  found,     \* lists whose dataset had no footer when this run began
  seen,      \* entries of each directory that parse_lineage read
  ended      \* how the last run ended

outputVars == <<dataset, errors, lineage>>
configVars == <<threads, fail_on_parsing_error, lists>>
lineageVars == <<batch, unread, writing>>
troubleVars == <<mishaps, swallowed>>
historyVars == <<runs, found, seen, ended>>
vars == <<archive, outputVars, configVars, pc, shutdown, job, lineageVars, troubleVars,
          historyVars>>
-----------------------------------------------------------------------------
Decoded(l, positions) == {i \in positions : archive[l][i] # Torn /\ archive[l][i].decodes}
Undecoded(l, positions) == {i \in positions : archive[l][i] # Torn /\ ~archive[l][i].decodes}
AnyTorn(l, positions) == \E i \in positions : archive[l][i] = Torn

(* Mutant: a row without trailers has a null there, as the other columns.  *)
NullsOfAll(email) == ListColumns \ email.has

NullsOf(email) == (ListColumns \ {"trailers"}) \ email.has

(* RecordBatch::try_new takes the rows. *)
build_record_batch(l, positions) ==
  \A i \in positions : NullsOf(archive[l][i]) \subseteq Nullable

(* The rows of these emails, of which all that matters here is the date.   *)
Rows(l, positions) == [i \in positions |-> process_date(archive[l][i])]

Whole(l, files) == [rows |-> Rows(l, Decoded(l, files)), footer |-> TRUE]

TornDataset(l) == dataset[l] # None /\ ~dataset[l].footer

(* A job: the emails it found when it began, those it has taken, whether   *)
(* it has created list_data.parquet and errors.csv.                        *)
NoJob == [pc |-> "none", files |-> {}, taken |-> {}, open |-> FALSE, logging |-> FALSE]
Job == [pc : {"none", "spawned", "running", "ok", "failed"}, files : SUBSET Nat,
        taken : SUBSET Nat, open : BOOLEAN, logging : BOOLEAN]

(* What an I/O error may be about that the program goes on after: a        *)
(* directory or an entry of it, errors.csv, __lineage.yaml.                *)
Swallowable == {"files", "errors", "lineage"}

TypeOK ==
  /\ archive \in [Lists -> Seq(Email \cup {Torn})]
  /\ \A l \in Lists :
       dataset[l] # None =>
         /\ DOMAIN dataset[l].rows \subseteq 1..Len(archive[l])
         /\ dataset[l].footer \in BOOLEAN
  /\ errors \in [Lists -> SUBSET Nat]
  /\ lineage # None => lineage.footer \in BOOLEAN
  /\ threads \in ThreadCounts /\ fail_on_parsing_error \in BOOLEAN
  /\ lists \subseteq Lists
  /\ pc \in {"down", "spawn", "join", "lineage"}
  /\ shutdown \in BOOLEAN
  /\ job \in [Lists -> Job]
  /\ \A l \in Lists :
       job[l].taken \subseteq job[l].files /\ job[l].files \subseteq 1..Len(archive[l])
  /\ batch \subseteq Lists \X Nat /\ unread \subseteq Lists
  /\ mishaps \subseteq Kinds /\ swallowed \subseteq Lists \X Swallowable
  /\ runs \in 0..Runs
  /\ found \subseteq Lists /\ seen \in [Lists -> Nat] /\ writing \in BOOLEAN
  /\ writing => lineage # None
  /\ ended \in {"never", "returned", "killed", "error"}

Init ==
  /\ archive \in Archives
  /\ dataset = [l \in Lists |-> None] /\ errors = [l \in Lists |-> {}]
  /\ lineage = None
  /\ threads \in ThreadCounts /\ fail_on_parsing_error \in BOOLEAN
  /\ lists \in SUBSET Lists \ {{}}
  /\ pc = "down" /\ shutdown = FALSE /\ job = [l \in Lists |-> NoJob]
  /\ batch = {} /\ unread = {} /\ writing = FALSE /\ seen = [l \in Lists |-> 0]
  /\ mishaps = {} /\ swallowed = {} /\ runs = 0 /\ found = {} /\ ended = "never"

Happens(kind) ==
  /\ kind \in Kinds \ mishaps /\ Cardinality(mishaps) < Budget
  /\ mishaps' = mishaps \cup {kind}

Swallows(l, what) ==
  /\ Happens("io")
  /\ swallowed' = swallowed \cup {<<l, what>>}
-----------------------------------------------------------------------------
(* The archiver archives an email. *)
Arrive(l, email) ==
  /\ Len(archive[l]) < MaxItems
  /\ archive' = [archive EXCEPT ![l] = Append(@, email)]
  /\ UNCHANGED <<outputVars, configVars, pc, shutdown, job, lineageVars,
                 troubleVars, historyVars>>

(* Ctrl+C, whose handler sets the flag. *)
RequestShutdown ==
  /\ pc # "down" /\ ~shutdown /\ Happens("stop")
  /\ shutdown' = TRUE
  /\ UNCHANGED <<archive, outputVars, configVars, pc, job, lineageVars, swallowed,
                 historyVars>>

(* start: the thread that runs the scope spawns a job per list.            *)
Start ==
  /\ pc = "down" /\ runs < Runs
  /\ pc' = "spawn" /\ shutdown' = FALSE
  /\ job' = [l \in Lists |-> NoJob]
  /\ batch' = {} /\ unread' = {} /\ writing' = FALSE
  /\ seen' = [l \in Lists |-> 0]
  /\ runs' = runs + 1 /\ found' = {l \in Lists : TornDataset(l)}
  /\ ended' = "never"
  /\ swallowed' = {e \in swallowed : e[2] = "files"}
  /\ UNCHANGED <<archive, outputVars, configVars, mishaps>>

Spawn(l) ==
  /\ pc = "spawn" /\ ~shutdown
  /\ l \in lists /\ job[l].pc = "none"
  /\ job' = [job EXCEPT ![l].pc = "spawned"]
  /\ UNCHANGED <<archive, outputVars, configVars, pc, shutdown, lineageVars,
                 troubleVars, historyVars>>

EndSpawning ==
  /\ pc = "spawn"
  /\ shutdown \/ \A l \in lists : job[l].pc # "none"
  /\ pc' = "join"
  /\ UNCHANGED <<archive, outputVars, configVars, shutdown, job, lineageVars,
                 troubleVars, historyVars>>

(* The end of the scope waits for the jobs. *)
EndScope ==
  /\ pc = "join"
  /\ \A l \in Lists : job[l].pc \notin {"spawned", "running"}
  /\ pc' = "lineage" /\ unread' = Lists
  /\ UNCHANGED <<archive, outputVars, configVars, shutdown, job, batch, writing,
                 troubleVars, historyVars>>
-----------------------------------------------------------------------------
(* process_mailing_list: collect_email_files and the loop over batches.    *)
(* The scope itself holds a thread while it spawns.  A thread that waits   *)
(* for the emails of its batch may take another list, so with two or more  *)
(* threads any number of lists can be under way.                           *)
BeginList(l, files) ==
  /\ pc \in {"spawn", "join"} /\ job[l].pc = "spawned"
  /\ threads = 1 => pc = "join" /\ \A m \in Lists : job[m].pc # "running"
  /\ job' = [job EXCEPT ![l].pc = "running", ![l].files = files]
  /\ UNCHANGED <<archive, outputVars, configVars, pc, shutdown, lineageVars,
                 historyVars>>

StartList(l) == BeginList(l, 1..Len(archive[l])) /\ UNCHANGED troubleVars

(* collect_email_files passes over a directory and entries it cannot read. *)
StartListPartly(l) ==
  /\ \E files \in SUBSET (1..Len(archive[l])) : BeginList(l, files)
  /\ Swallows(l, "files")

Running(l) ==
  /\ pc \in {"spawn", "join"} /\ job[l].pc = "running"
  /\ UNCHANGED <<archive, lineage, configVars, pc, lineageVars, historyVars>>

(* The next MaxBatch emails, or what there is. *)
FirstOf(emails) == {i \in emails : Cardinality({j \in emails : j <= i}) <= MaxBatch}
Remain(l) == job[l].files \ job[l].taken

(* Mutant: the directory is listed again for each batch. *)
BatchListedAnew(l) == FirstOf((1..Len(archive[l])) \ job[l].taken)

BatchOf(l) == FirstOf(Remain(l))

(* A batch with a file that cannot be read, or, if it is so configured,    *)
(* with an email that cannot be decoded.                                   *)
Refused(l) ==
  \/ AnyTorn(l, BatchOf(l))
  \/ fail_on_parsing_error /\ Undecoded(l, BatchOf(l)) # {}

(* The closure that start spawned notes the error and, if it is so         *)
(* configured, stops the spawning.                                         *)
Fail(l) ==
  /\ job' = [job EXCEPT ![l].pc = "failed"]
  /\ shutdown' = (shutdown \/ fail_on_parsing_error)

(* Mutant: an unreadable file is tried again. *)
FailBatchRetrying(l) ==
  /\ Running(l) /\ Remain(l) # {}
  /\ Refused(l)
  /\ UNCHANGED <<job, shutdown, dataset, errors, troubleVars>>

FailBatch(l) ==
  /\ Running(l) /\ Remain(l) # {}
  /\ Refused(l)
  /\ Fail(l)
  /\ UNCHANGED <<dataset, errors, troubleVars>>

(* The lines of errors.csv, which is created by the first one of this run. *)
LoggingAfter(l) == job[l].logging \/ Undecoded(l, BatchOf(l)) # {}
Lines(l) ==
  IF Undecoded(l, BatchOf(l)) = {} THEN errors[l]
  ELSE Undecoded(l, BatchOf(l)) \cup (IF job[l].logging THEN errors[l] ELSE {})

Log(l) == errors' = [errors EXCEPT ![l] = Lines(l)]

(* The lines go through a BufWriter: an error costs the last of them.      *)
Prefixes(lines) == {{i \in lines : i <= k} : k \in lines \cup {0}}
Kept(lines, logging) == IF logging THEN Prefixes(lines) ELSE {lines}

(* Mutant: the file is created anew for each batch. *)
FlushAnew(l) ==
  dataset' = [dataset EXCEPT ![l] =
                IF Decoded(l, BatchOf(l)) = {} THEN @
                ELSE [rows |-> Rows(l, Decoded(l, BatchOf(l))), footer |-> FALSE]]

(* flush_batch; list_data.parquet is created by the first row of this run. *)
Flush(l) ==
  dataset' = [dataset EXCEPT ![l] =
                IF Decoded(l, BatchOf(l)) = {} THEN @
                ELSE [rows |-> Rows(l, Decoded(l, BatchOf(l)) \cup
                                       (IF job[l].open THEN DOMAIN @.rows ELSE {})),
                      footer |-> FALSE]]

TakenAfter(l) == job[l].taken \cup BatchOf(l)

TakeBatch(l) ==
  /\ Running(l) /\ Remain(l) # {}
  /\ ~Refused(l)
  /\ Log(l)
  /\ IF build_record_batch(l, Decoded(l, BatchOf(l)))
     THEN /\ Flush(l)
          /\ job' = [job EXCEPT
               ![l].taken = TakenAfter(l),
               ![l].open = @ \/ Decoded(l, BatchOf(l)) # {},
               ![l].logging = LoggingAfter(l)]
          /\ UNCHANGED shutdown
     ELSE Fail(l) /\ UNCHANGED dataset
  /\ UNCHANGED troubleVars

(* The writer is closed, if there is one. *)
Close(l) ==
  dataset' = [dataset EXCEPT
                ![l] = IF job[l].open THEN [@ EXCEPT !.footer = TRUE] ELSE @]

(* Mutants: the flag ends the job at once; the writer is not closed.       *)
EndListOnShutdown(l) ==
  /\ Running(l) /\ (Remain(l) = {} \/ shutdown)
  /\ job' = [job EXCEPT ![l].pc = "ok"]
  /\ IF shutdown THEN UNCHANGED dataset ELSE Close(l)
  /\ UNCHANGED <<errors, shutdown, troubleVars>>

EndListUnclosed(l) ==
  /\ Running(l) /\ Remain(l) = {}
  /\ job' = [job EXCEPT ![l].pc = "ok"]
  /\ UNCHANGED <<dataset, errors, shutdown, troubleVars>>

EndList(l) ==
  /\ Running(l) /\ Remain(l) = {}
  /\ job' = [job EXCEPT ![l].pc = "ok"]
  /\ Close(l)
  /\ UNCHANGED <<errors, shutdown, troubleVars>>

(* Nobody flushes the BufWriter: what it still has is written as it is     *)
(* dropped, behind the close, and an error of that goes unnoticed.         *)
EndListUnlogged(l) ==
  /\ Running(l) /\ Remain(l) = {} /\ job[l].logging
  /\ job' = [job EXCEPT ![l].pc = "ok"]
  /\ Close(l)
  /\ \E lines \in Prefixes(errors[l]) : errors' = [errors EXCEPT ![l] = lines]
  /\ Swallows(l, "errors")
  /\ UNCHANGED shutdown

(* An I/O error that ends the list: at a line of errors.csv, at a file     *)
(* that is read or created, at a write to list_data.parquet or as it is    *)
(* closed.  What errors.csv has in its buffer may be lost as well.         *)
ListIoError(l) ==
  /\ Running(l) /\ Happens("io")
  /\ Fail(l)
  /\ \/ /\ UNCHANGED dataset
        /\ \E lines \in Kept(errors[l], job[l].logging) :
             errors' = [errors EXCEPT ![l] = lines]
     \/ /\ Remain(l) # {} /\ ~Refused(l)
        /\ \E lines \in Kept(Lines(l), LoggingAfter(l)) :
             errors' = [errors EXCEPT ![l] = lines]
        /\ Flush(l) \/ UNCHANGED dataset
  /\ UNCHANGED swallowed
-----------------------------------------------------------------------------
(* parse_lineage reads the directories of all lists in any order.          *)
Entries(l, positions) ==
  {<<l, i>> : i \in {j \in positions : archive[l][j] = Torn \/ archive[l][j].lineage}}

(* The entries of a directory come into the batch one by one, and each     *)
(* time it is full it is written: what remains are the last ones.          *)
Remaining(entries) ==
  LET count == Cardinality(batch \cup entries)
  IN  IF count < RowGroupSize THEN batch \cup entries
      ELSE {e \in entries :
              Cardinality({f \in entries : f[2] >= e[2]}) <= count % RowGroupSize}

(* lineage.parquet is created by the first entry of this run. *)
Created == IF writing THEN lineage ELSE [entries |-> {}, footer |-> FALSE]

ReadLineage(l) ==
  LET entries == Entries(l, 1..Len(archive[l])) IN
  /\ pc = "lineage" /\ l \in unread
  /\ unread' = unread \ {l}
  /\ seen' = [seen EXCEPT ![l] = Len(archive[l])]
  /\ writing' = (writing \/ entries # {})
  /\ batch' = Remaining(entries)
  /\ lineage' = IF writing'
                THEN [Created EXCEPT !.entries =
                        @ \cup ((batch \cup entries) \ Remaining(entries))]
                ELSE lineage
  /\ UNCHANGED <<archive, dataset, errors, configVars, pc, shutdown, job,
                 troubleVars, runs, found, ended>>

(* A __lineage.yaml that cannot be read, or of which the program cannot    *)
(* tell that it exists, is passed over.                                    *)
SkipLineage(l) ==
  /\ pc = "lineage" /\ l \in unread
  /\ unread' = unread \ {l}
  /\ Swallows(l, "lineage")
  /\ UNCHANGED <<archive, outputVars, configVars, pc, shutdown, job, batch, writing,
                 historyVars>>

EndRun(how) ==
  /\ pc' = "down" /\ ended' = how
  /\ UNCHANGED <<archive, dataset, configVars, shutdown, job, batch, unread, seen,
                 writing, runs, found>>

(* Mutant: what remains in the batch is not written. *)
EndLineageUnflushed ==
  /\ pc = "lineage" /\ unread = {}
  /\ lineage' = IF writing THEN [lineage EXCEPT !.footer = TRUE] ELSE lineage
  /\ EndRun("returned")
  /\ UNCHANGED <<errors, troubleVars>>

EndLineage ==
  /\ pc = "lineage" /\ unread = {}
  /\ lineage' = IF writing
                THEN [entries |-> lineage.entries \cup batch, footer |-> TRUE]
                ELSE lineage
  /\ EndRun("returned")
  /\ UNCHANGED <<errors, troubleVars>>

(* Any other I/O error of parse_lineage ends the run.                      *)
LineageIoError ==
  /\ pc = "lineage" /\ Happens("io")
  /\ lineage' \in {lineage, Created}
  /\ EndRun("error")
  /\ UNCHANGED <<errors, swallowed>>

(* The process is killed; the last lines of a BufWriter are lost.          *)
Crash ==
  /\ pc # "down" /\ Happens("crash")
  /\ \E kept \in [Lists -> 0..MaxItems] :
       errors' = [l \in Lists |->
                    IF job[l].pc = "running" /\ job[l].logging
                    THEN {i \in errors[l] : i <= kept[l]} ELSE errors[l]]
  /\ EndRun("killed")
  /\ UNCHANGED <<lineage, swallowed>>
-----------------------------------------------------------------------------
ListStep(l) ==
  StartList(l) \/ FailBatch(l) \/ TakeBatch(l) \/ EndList(l)

Program ==
  \/ EndSpawning \/ EndScope \/ EndLineage
  \/ \E l \in Lists : Spawn(l) \/ ListStep(l) \/ ReadLineage(l)

Environment ==
  \/ Start \/ RequestShutdown \/ Crash \/ LineageIoError
  \/ \E l \in Lists : StartListPartly(l) \/ EndListUnlogged(l) \/ ListIoError(l)
                         \/ SkipLineage(l)
  \/ \E l \in Lists, email \in News : Arrive(l, email)

Next == Program \/ Environment

Spec == Init /\ [][Next]_vars

(* The threads of the program go on; none of their steps waits for long.   *)
FairSpec == Spec /\ WF_vars(Program)
-----------------------------------------------------------------------------
(* The emails some run may have found in a directory: all there were, or   *)
(* some of them if an error of its listing was swallowed.                  *)
Listings(l) ==
  IF <<l, "files">> \in swallowed THEN SUBSET (1..Len(archive[l]))
  ELSE {1..n : n \in 0..Len(archive[l])}

(* A dataset that can be read (it has its footer) is never partial: it has *)
(* exactly the emails that decoded among those some run found.             *)
ReadableIsWhole ==
  \A l \in Lists :
    dataset[l] # None /\ dataset[l].footer =>
      \E files \in Listings(l) : dataset[l] = Whole(l, files) /\ ~AnyTorn(l, files)

(* A list that is done loses no email it found: each one is a row of its   *)
(* dataset or a line of errors.csv.  Only the last lines of errors.csv may *)
(* be missing, when the error of writing them was swallowed.               *)
DoneIsComplete ==
  \A l \in Lists :
    job[l].pc = "ok" =>
      LET files == job[l].files IN
      /\ files \in Listings(l) /\ ~AnyTorn(l, files)
      /\ Decoded(l, files) # {} => dataset[l] = Whole(l, files)
      /\ Undecoded(l, files) # {} =>
           IF <<l, "errors">> \in swallowed
           THEN errors[l] \in Prefixes(Undecoded(l, files))
           ELSE errors[l] = Undecoded(l, files)

(* An email that was decoded never makes its list fail, whatever headers   *)
(* it lacks: a list fails by a file that cannot be read, by an I/O error,  *)
(* or by an email that cannot be decoded if it is so configured.           *)
FailureHasCause ==
  \A l \in Lists :
    job[l].pc = "failed" =>
      \/ AnyTorn(l, job[l].files)
      \/ fail_on_parsing_error /\ Undecoded(l, job[l].files) # {}
      \/ "io" \in mishaps

(* A run that was not killed takes every list, but for those not begun at  *)
(* a shutdown; and neither Ctrl+C nor the failure of another list leaves a *)
(* dataset without its footer.                                             *)
EndsWhole ==
  pc = "down" /\ ended \in {"returned", "error"} =>
    \A l \in Lists :
      /\ job[l].pc \in {"none", "ok", "failed"}
      /\ job[l].pc = "none" /\ l \in lists => shutdown
      /\ TornDataset(l) => l \in found \/ job[l].pc = "failed"

(* The lineage of a run that returned is that of all directories as they   *)
(* were read, with no entry left in a batch.  Each directory was read, and *)
(* behind its job, so that no email this run found is without its entry,   *)
(* unless the error of reading its lineage was swallowed.                  *)
LineageWhole ==
  pc = "down" /\ ended = "returned" =>
    /\ LET entries == UNION {Entries(l, 1..seen[l]) : l \in Lists} IN
       entries # {} => lineage = [entries |-> entries, footer |-> TRUE]
    /\ \A l \in Lists :
         job[l].files \subseteq 1..seen[l] \/ <<l, "lineage">> \in swallowed

(* Every run ends, after whatever shutdown or failure of a list.           *)
RunEnds == pc # "down" ~> pc = "down"

(* A plausible date of the sender is the date of the row (process_date:    *)
(* "Selects the best date from the available options").                    *)
SenderDateKept ==
  \A l \in Lists :
    dataset[l] # None =>
      \A i \in DOMAIN dataset[l].rows :
        LET date == archive[l][i].date IN
        date # None /\ ~check_date_issues(date) => dataset[l].rows[i] = date
=============================================================================
