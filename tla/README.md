# TLA+ models of MLH-archiver

MLH-archiver downloads mailing lists (from NNTP servers and from public-inbox
git repositories), stores each list in a directory of its own, and later parses
the stored emails into a data set. These modules model the archiver and the
parser: what they write and in which order, how they resume, how their threads
share the work, how a start of the archiver finds and selects its lists, and
what happens when a program is stopped, killed, or refused by a disk or a
network.

All paths below are relative to `src/`; `archiver/` is short for
`mlh_archiver/src/`, `parser/` for `mlh_parser/src/`.

## 1. The system

| Component | State | Operations | Interacts with |
|---|---|---|---|
| **ArchiveWriter** `archiver/archive_writer/` | on disk `.eml` or `data_NNN.parquet`, `__progress.yaml`, `__lineage.yaml`, `__errors.csv`; in memory the parquet buffer, the open `ArrowWriter`, the count of the current file | `new`, `archive_email`, `log_error`, `last_processed_id`, drop | made by a worker for each visit of a list; its directory is what the next visit and the parser read |
| **NNTP worker** `archiver/nntp_source/nntp_worker.rs` | connection, `needs_reconnection`, the article it is at | `consumme_list` (loop), `handle_group`, `read_new_mails`, retries, `read_email_by_index` | takes tasks from the channel, asks the server, drives an ArchiveWriter |
| **Public inbox worker** `archiver/public_inbox_source/pi_worker.rs`, `pi_utils.rs` | position in the epochs and their commits, carried counters, resume commit | `process_inbox`, `process_epoch`, `read_email_by_index` | takes tasks, walks git histories, drives an ArchiveWriter |
| **Scheduler** `archiver/scheduler.rs`, `worker.rs`, `lib.rs` | worker groups, one bounded channel per group, the shutdown flag | `run`, the two producers, the two worker loops, `interruptible_sleep` | threads; Ctrl+C through `main.rs` |
| **Discovery** `archiver/public_inbox_source/pi_lister.rs`, `pi_utils.rs` | none; reads what mirroring has made of the import directory so far | `detect_inbox`, `find_epochs`, `retrieve_lists` | offers lists to `start`; `process_inbox` walks what it found |
| **Configuration and start** `archiver/config.rs`, `lib.rs` | `AppConfig`, the file of selected lists | `read_config`, `get_read_lists`, `expand_glob_patterns`, `set_list_selection`, `start` | asks the sources and the user; makes the worker groups the scheduler runs |
| **Range parsing** `archiver/range_inputs.rs` | the position in the range | `parse_sequence`, its iterator | driven by the producer of the scheduler |
| **Files** `archiver/file_utils.rs` | none | `write_yaml`, `write_yaml_truncate`, `append_yaml_to_file`, `read_yaml` | under ArchiveWriter and the configuration |
| NNTP connection and listing `archiver/nntp_source/nntp_utils.rs`, `nntp_lister.rs` | none | I/O around the `nntp` crate | input of `start` and of the workers |
| **Parser pipeline** `parser/lib.rs`, `dataset_writer.rs`, `lineage_parser.rs` | the batch and the open files of each list, the batch of lineage entries; on disk a dataset and an error log per list, one lineage | `start`, `process_mailing_list`, `flush_batch`, `parse_lineage` | thread pool; reads what ArchiveWriter left; Ctrl+C |
| **Email parsing** `parser/email_reader.rs`, `date_parser.rs`, `email_parser.rs`, `extractors.rs` | none | functions of one email | called for each email of a batch |
| Errors and telemetry, checkers and peeking scripts, anonymizer, analysis | none | messages, diagnostics, transformations of data frames | |

What is hard here: a worker may be killed between any two effects on the disk;
an I/O error returns from the middle of `archive_email`, is swallowed by drop, or
is one of those the parser goes on after;
`__progress.yaml` alone decides what a resumed run asks for; the server expires
articles while they are read; an inbox is walked from its newest commit, so a
position in it is no prefix of it, and the counters are carried across epochs
and runs; several threads share a bounded channel and one flag, and each of them
may die; a range puts several writers into one directory; a start asks two
sources whose lists change between any two questions; the parser may be killed
with many files open and is run again over what it left. `PROJECT.json` lists
these hazards at the lines where they bite.

What makes each component correct:

* **ArchiveWriter**: the progress never names an email that cannot be read back;
  what was accepted is stored once the writer is gone; the lineage names what is
  stored; no unreadable file is left behind.
* **NNTP worker**: resuming skips no article that could have been archived;
  whatever was skipped is logged; nothing is archived twice beyond the article a
  call starts at; every article is archived in the end; Ctrl+C ends the worker.
* **Public inbox worker**: numbers are unique; a run archives what is new, all of
  it, and nothing else; an index names the same email in all operations.
* **Scheduler**: no task is lost; no two workers are in one directory; `run`
  returns; a looping run serves every list again and again.
* **Range fetches**: what the range names is stored or logged, from each list;
  what was archived before stays, and is still covered by the progress.
* **Discovery**: an inbox is offered exactly when it can be archived.
* **Configuration and start**: the tasks are what the patterns select, each once;
  a start is all or nothing; a selection once made is not lost.
* **Parser pipeline**: a dataset that can be read is never partial; a list that
  is done has each email it found in its dataset or its error log; a list fails
  only for a reason and alone; the lineage is that of all directories. Where an
  I/O error is swallowed, only what it was about may be missing. Every run ends.
* **Email parsing**: the date of a row is the sender's, if it is plausible.

## 2. The modules

| Module | Models | Built on |
|---|---|---|
| `ArchiveWriter` | the facade, both stores, progress, lineage, error log, drop | |
| `NntpGroup` | `consumme_list`, `handle_group`, `read_new_mails` and the retries, seen from one list; the server; restarts | EXTENDS `ArchiveWriter` |
| `ResumableArchive` | the abstract promise: a mark that moves forward only, over settled articles only | implemented by `NntpGroup` |
| `Scheduler` | producer, channel, worker loops, shutdown, in all three modes | |
| `PublicInbox` | `process_inbox`, `process_epoch`, `read_email_by_index` of one inbox; commits that arrive | |
| `RangeFetch` | the range mode: producer with its parsing, several workers, the NNTP `read_email_by_index`, the writer's effects on a directory that others are in, the text of the YAML files | |
| `Discovery` | `detect_inbox`, `find_epochs` and what `process_inbox` opens, as operators over the layout of a directory | |
| `Startup` | `read_config`, list selection with the user's answers, both sources, construction of the groups, over several starts | EXTENDS `Discovery` |
| `EmailDates` | the date of a row from the headers of an email | |
| `Dataset` | the parser's `start`, its jobs, batches, output files and lineage, over several runs | EXTENDS `EmailDates` |
| `MC*` | constants of the runs | |
| `NntpCalls_proofs` | theorems about one call of `handle_group` after another | EXTENDS `NntpGroup_proofs` |
| `*_proofs` | theorems | the module they are named after |

Operators named "mutant" in a comment are variants of a definition with a
plausible bug. No specification uses them; they document what the properties
can tell apart.

### ArchiveWriter

One action is one effect on the disk. `pc` is the point inside `archive_email`
or drop, and `closing` tells which of the two. In parquet mode `archive_email`
is `ArchiveEmail` (buffer), `CreateFile` (`init_writer`), `WriteRowGroup`
(`flush`), `CloseFile` (`rotate_file`), `SyncProgress` (one per committed id),
`WriteLineage`; in raw mode `ArchiveEmail` (which truncates the file),
`WriteRaw`, `SyncProgress`, `WriteLineage`. Which of the two modes a list has is
the variable `mode`, chosen at the start among `Modes`. Drop is `BeginDrop`, the same file
actions, and `EndDrop`. `ArchiveFails` and `DropFails` are an I/O error at any of
these points, with what it leaves behind in memory and on disk; `LogErrorFails`
is the failure the error logger hides. `CrashWriter` forgets the memory.

A parquet file is readable (`Durable`) once its footer is written: the parser
gives up on a file without one. The contents of an email, and the bytes of the
YAML files, are abstracted: a progress update is one atomic step.

### NntpGroup

`phase` follows the worker (`idle`: top of the loop; `recv`: blocked on the
channel; `group`: `handle_group` before the GROUP answer; `read`:
`read_new_mails`; `ended`). The two machines meet in `Reading`: the caller
proceeds only when the writer waits for it. `Post` and `Expire` move the server's
water marks while a call is under way; `Cancelled` articles have a number and are
never served. `Restart` starts the program again after a stop; `Crash` kills and
restarts it. The turn in which other lists are served is one `recv`, and a run
without `loop_groups` that is started again is one more turn of the loop. The
wait before a reconnection has no effect and is not an action.

### Scheduler

`mode` is fixed at the start: `once` and `loop` send list names, `range` sends
every index of every list. `Batches` are what the producer sends between two
looks at the flag. `worker[w]` is the loop of one thread: `top` (the flag),
`wait` (reconnection), `recv`, `work`. A task is done, fails, or panics. `Exit`
is the stuttering of a process that ended, so that TLC's deadlock check is on.
Groups share only the flag, so one group is modelled. A range that does not
parse sends nothing, which is a run without lists.

### PublicInbox

Commits of an epoch are numbered from the oldest, a walk goes down from the
newest. `BeginFresh`/`BeginResume`/`BeginPanics` are the preamble of
`process_inbox` up to its loop; `SkipEpoch`, `StartEpoch`, `EndEpoch`,
`StopInbox`, `EndInbox` are the loop; `ReachResume`, `SkipOld`, `ArchiveCommit`,
`LogBadCommit`, `StopWalk` the walk of `process_epoch`. The variables have the
source's names, shortened (`global` is `global_position`, `total` is
`cumulative_emails_total`, `before` is `total_before_resume`, `new` is
`new_commits`). The writer is ArchiveWriter without mishaps. New commits arrive
at any time; a walk sees the commits it listed when it began.

### RangeFetch

The parser of the range, its lazy iterator and the loop of the producer are
`StartList` and `SendIndex`: for each list the text is parsed anew, a part that
does not parse ends the producer. A worker makes a writer of its own for each
index, and here, unlike in `NntpGroup`, one step is one effect on a directory
that another worker may be in: the file of a parquet writer is `ResolvePath`
(the index behind the highest), `CreateFile` (which truncates what came there
meanwhile), `CloseFile`; a record of the lineage is `Separate` (`---`) and
`UpdateLineage` (the document). `progress` has, besides the id, the number of
digits the file has room for: `write_yaml` starts at the beginning of the file
and does not truncate. An id that is shorter than the text before by one digit
leaves a line break, which is harmless; by two it leaves a digit on a line of
its own, and `read_yaml` rejects the text. `ArchiveWriter` is not reused: it has
one writer, and the points between its effects are what matters here. The
shutdown flag is read by the producer and before each article only; a connection
that is lost stays lost (`down`).

### Discovery and Startup

A repository is what the code asks of a directory (is there a HEAD, `objects/`,
something in it, a master, does git2 open it); the five values it takes are the
stages of `git clone` and one damage. An inbox is a `Layout` of repositories.

`pc` is where `start` is. `ReadConfig` overlays the file of selected lists on the
configuration, key by key; `RetrieveLists` asks one source and takes its lists in
any order; `Asking` is `get_read_lists` with nothing selected, which `Answer`s
end; `TakeAll`, `BeginExpand` and the loop `SkipRepeated`, `MatchName`,
`MatchList`, `EndGlob` are `expand_glob_patterns`, one list at a time;
`CreateWorkers` adds the group. Every `return Err`, `exit` and panic on the way
is a disjunct that gives up the whole start (`Over`). Between the looks of the
program the user edits the configuration, the server gains and loses groups, and
mirrors change. `AnswerTorn` is a `write_yaml_truncate` that fails or is killed:
what remains of the text is a shorter selection, a key without a value, or
nothing.

### EmailDates and Dataset

`EmailDates` follows a header from the form mail_parser gives it
(`HeaderForm`) through its rendering (`header_value_to_string`) to the forms the
date parser looks for (`find_date_in_string`); a date is its year.

`Dataset` has one `job` per list. An email of a list is its position in the
archive; a job has the set of those it found (`files`) and of those it has taken
(`taken`). `StartList` is `collect_email_files`;
`TakeBatch` one turn of the loop over batches with its flush; `FailBatch`,
`ListIoError` the error that ends a list; `EndList` closes the file. Three I/O
errors do not end anything, and `swallowed` remembers what they were about:
`StartListPartly`, the listing of a directory passes over what it cannot read
(`lib.rs:277-287`; that `start` does so too is the choice of `lists`);
`EndListUnlogged`, the `BufWriter` of `errors.csv` fails as it is dropped, behind
the close, and the list is done all the same (`lib.rs:168`, `220`, `237-251`);
`SkipLineage`, a `__lineage.yaml` that cannot be read is passed over
(`lineage_parser.rs:119-132`). The thread
pool is a guard: with one thread the spawning scope holds it, so no list begins
before `EndSpawning` and lists go one by one. `ReadLineage` is one directory of
`parse_lineage`, whose batch is carried from directory to directory
(`Remaining`). What a run finds of an earlier one stays until the first row,
error or entry of this run creates the file anew. `Crash` and `ListIoError` cut
an error log that is still in its `BufWriter`. A directory is listed in
one step: an email arrives before that or after it.

## 3. The runs

Each run takes between one second and three minutes on two processors.

| Run | Question | Result |
|---|---|---|
| `NntpMishaps` | One list of a looping run, parquet files of one row group, arrivals, expiry, a cancelled article, and one crash, I/O error, network error and stop anywhere: can the progress name an email that cannot be read back, does resuming miss an article, is what was skipped logged, is `ResumableArchive` implemented; is every article archived or lost by the server in the end, does Ctrl+C end the worker? | holds (814 783 states) |
| `NntpLargeFile` | Both modes, files larger than a row group, no crash: does a call that returns Ok archive its range, do lineage and archive agree and are all files readable, what is archived twice, does the progress go backwards? | holds (176 729) |
| `SchedulerRuns` | All three modes, workers that fail and die: tasks lost, lists shared, shutdown ignored, `run` hanging, lists starved? | holds (12 574) |
| `InboxRuns` | A V1 inbox, or a V2 inbox that grows into its second epoch, a commit that cannot be read, a stop, an index fetch, up to three runs: unique numbers, coverage of a first run, walks without news, what a run behind a full one archives, index fetches | holds (652 689) |
| `RangeRuns` | Ranges with repeated, descending and malformed parts over two lists, one or two workers, both modes, two mishaps: is what the range names stored or logged, does what was archived stay, is the progress readable, does the run end? | holds (1 551 387) |
| `StartupRuns` | Two starts over both sources, patterns that overlap and repeat, answers, edits, mirrors, failures, a torn file: exact tasks, whole starts, selections that stick, inboxes offered rightly | holds (1 510 344) |
| `DatasetRuns` | Two parser runs, one or two threads, two lists that grow, files that cannot be read, emails that cannot be decoded, two mishaps, swallowed I/O errors among them: partial datasets, lost emails, failures without a cause, open files, incomplete lineage, runs that hang? | holds (1 095 695) |
| `ArchiveWriterLoss` | Files larger than a row group and a crash: does the progress survive its emails? | it does: violation |
| `SchedulerRescan` | A looping run: are two workers ever at one list? | they are: violation |
| `InboxFresh` | Does an uninterrupted first run leave a commit out? | it does: violation |
| `InboxInterrupted` | Does a resumed run complete what a stopped run began? | it does not: violation |
| `DatasetDates` | Is a plausible date of the sender the date of the row? | it is not: violation |

### What the violations show

* `ArchiveWriterLoss`: with `max_emails_per_file` above 2048 (the default is
  10000) `add_email` reports a full row group as committed while its file has no
  footer. The progress passes emails that die with the process. With at most 2048
  the progress is safe (`NntpMishaps`, theorem `ProgressDurable`).
* `SchedulerRescan`: the producer sends each list again after the rescan
  interval, whether or not a worker is still at it. Two ArchiveWriters then
  share a directory. Range mode shares directories in the same way (`RangeRuns`).
* `InboxFresh`: `old_non_resume` compares the commits of one epoch with the
  position over all epochs, and skips commits of an epoch that is larger than all
  epochs before it together. `FirstRunCovers` (in `InboxRuns`) shows that nothing
  else is left out.
* `InboxInterrupted`: a walk starts at the newest commit, so what a stopped run
  left is older than the resume commit, where the next run stops.
* `DatasetDates`: a `Date` header is rendered as RFC 3339 (`email_reader.rs:41`),
  a form that the date parser does not look for, so the sender's date is never
  used; nor is a `Received` header, which is rendered by its Debug format. The
  date of a row is that of an `X-Received` header, or null.

### Other behaviour seen while modelling

The properties of the passing runs are stated around these; no run of their own
repeats them.

* A crash between storing an email and appending its lineage leaves an email
  without a record (`mod.rs:177-182`), and a crash after a buffered email's
  lineage leaves a record without an email. `LineageMatchesArchive` is therefore
  for executions without crashes and I/O errors (`Unharmed`), and so are
  `OkMeansArchived` and `RefetchOnlyAtStart`.
* A resumed NNTP group archives its last article again (`nntp_worker.rs:332`
  starts at the last number, `mod.rs:142-144` says at the next).
  `RefetchOnlyAtStart` shows that it is the only one.
* A crash between `ArchiveEmail` and `WriteRaw` truncates the raw email that is
  stored again, whose line in the error log there never was: `SkippedIsLogged`
  sets that one article aside, as `ProgressCovered` does.
* Drop swallows its I/O errors: `handle_group` may have returned Ok for emails
  that are not stored. The progress does not pass them, so the next visit does
  fetch them.
* After a run that got to the oldest commit, exactly one new commit makes the
  next run archive the old ones again under new numbers (`pi_worker.rs:494`);
  `NewOnlyAfterFullRun` is for more than one.
* If the oldest commits have no `m` blob, the number of the last email stays
  below the number of commits, and every restart walks the inbox again.
* `read_email_by_index` names the only epoch of a V1 inbox `1`, `process_inbox`
  names it `all`; a progress written by the former makes the latter panic
  (`BeginPanics`, `pi_worker.rs:306`).
* The loop of a range-mode worker never reads the shutdown flag
  (`scheduler.rs:259`): after Ctrl+C the channel is emptied first. This is why
  `OneTaskAfterShutdown` excludes range mode.
* The refetch of the last article happens at every rescan while the articles
  behind it are unavailable, and in parquet mode each time makes a file.
* Range mode, two workers of one list in parquet mode: both may take one file
  index, and one email is lost although the progress was written. `RangeFetched`
  is therefore for one worker or raw mode. Their lineage records may land behind
  one separator, which the parser then cannot read.
* A range ahead of the progress moves it forward over articles that were never
  archived, and a normal run goes on from there; `BackfillLeavesNoGap` is about
  ranges behind it. A fetched id that is two digits shorter than the text before
  makes `__progress.yaml` unreadable, and the list starts over;
  `ProgressStaysReadable` is for the other cases.
* `get_read_lists` panics at `answer[0]` when the user confirms an empty answer
  (`config.rs:507`); its comment promises `ListSelectionEmpty` (`config.rs:481`).
  "*" answered to the question is stored as the list names of that day, and
  lists that come later are not archived; "*" in the configuration does take
  them.
* The file of selected lists overrides `archiver_config.yaml`, whatever the user
  changes there later, and is not read at all when a configuration file is named
  on the command line. A torn one may select less than was chosen.
* A pattern whose lists were all taken by patterns before it is reported as
  unavailable.
* A V1 repository that git2 does not open, and an `all.git` whose alternates lead
  out of `git/`, are offered and cannot be archived (`Ordinary` sets them
  aside). A directory in `git/` whose name is no number makes the lister panic,
  and so does an inbox that has vanished when its worker opens it.
* The parser goes on with the lists under way after the first error, although
  `fail_on_parsing_error` is described as "abort on first parse error"
  (`parser/config.rs:28`).
* The lines of `errors.csv` go through a `BufWriter` that nobody flushes
  (`lib.rs:168`, `220`). What is left of them is written as it is dropped, behind
  the close of the dataset (`237-251`), and an error of that is ignored: the list
  is done with its last error lines lost. `DoneIsComplete` allows for these lines,
  after such an error, and for nothing else.
* A `__lineage.yaml` that cannot be read is passed over with a warning
  (`lineage_parser.rs:126-132`), and so is, without one, a file whose existence
  cannot be told; the run returns Ok without the lineage of that directory, which
  `LineageWhole` sets aside. A directory of a list, or an entry in it, that cannot
  be read is passed over as well (`lib.rs:277-287`): the list is done with the
  emails that were found, of which `ReadableIsWhole` and `DoneIsComplete` speak.
* A parser run without a row, error or entry leaves the file of an earlier run in
  its place; `ReadableIsWhole` therefore speaks of the emails some run found.
  The lineage covers all directories, also of lists that were not selected.

### Bounds, and why they are enough

* `Ids`, `MaxId`: three articles allow one that is stored, one that is buffered
  and one still to come, and a file of two with a rest; `NntpLargeFile` has four,
  for a full row group in a file of three and a rest.
* `MaxPerFile` and `RowGroupCap` are scaled from 10000 and 2048. What matters is
  their order: both sides of it are checked (2 ≤ 2 and 2 ≤ 3; 3 > 2).
* `Budget`: how many mishaps of each kind happen; one of each in every order and
  at every point, and two network errors where the retries have to run out
  (`MaxRetries` = 1, scaled from 3). In `RangeFetch` and `Dataset` it is the number
  of mishaps, each of another kind: any two of the kinds the module knows (four
  and three), in either order. A second crash finds only what a first one can
  leave: files, progress, lineage and errors, which the first one already leaves
  in every combination.
* `MaxFiles`: no writer is created once so many files exist. In `NntpMishaps` it is
  above what three articles and the budget can create, so it never stops the
  worker: if it did, `EventuallySettled` would fail.
* `Workers`, `Lists`, `Capacity`: two workers, three lists and a channel of one
  place: the producer blocks, a worker starves, one dies while the other works,
  and both die with a full channel.
* `NumEpochs`, `MaxCommits`, `MaxBad`, `Stops`, `Fetches`, `Runs` of PublicInbox:
  five commits in one or two epochs give each order of their sizes; three runs
  give a full run, a growth by one and by more, a stop, and a run behind it.
* `Crews`, `Texts`, `Served`, `Olds` of RangeFetch: one worker, or two; a list that
  is new, or has a progress of two digits; articles of one and three digits and
  one that is not there; parts that ascend, descend, repeat and do not parse. One
  place in the channel makes the producer block. `Tens` are the numbers at which an
  index gets a digit more; 10 and 100 are those below the largest index named.
  `FewSpec` takes the descending text only behind the progress of 10: with
  a new list it shows nothing that the ascending one does not, but for a progress
  that becomes unreadable, which the hypothesis of `ProgressStaysReadable` sets
  aside.
* `Configs`, `Servers`, `Layouts`, `Mirrors` of Startup: two names; patterns that
  match nothing, overlap, repeat next to each other and apart, "*" alone and
  among others; a source that offers none, one or both; ten layouts, which are
  the branches of `detect_inbox`; two starts and one event of each other kind.
* `MaxItems`, `MaxBatch`, `RowGroupSize`, `Archives` of Dataset: three emails in
  batches of two, so the last batch is full, short or missing; a row group of
  two, which directories of three fill and straddle; archives in which emails
  that are rows, errors and unreadable files come in the first and in the last
  batch, and an errors.csv of two lines, of which each part may be lost. One I/O
  error, swallowed or not, at any point and with one mishap of another kind. Two
  runs: the second one finds whatever a first one can leave, with an archive that
  has grown.

`CHECK_DEADLOCK FALSE` is set where the bounds end the execution (no file, run,
article or event is left, or a single run is over); it is on in both runs of `Scheduler`, where a deadlock would
be one of the program. No symmetry is used: articles and commits are ordered, and
the properties of `Scheduler` that need fairness forbid it.

### Fairness

* `NntpGroup!FairSpec`: weak fairness of `Work`, the worker's own steps. The
  thread runs as long as it can, and in a looping run its list is sent again at
  every rescan. Nothing is assumed of the server, of Ctrl+C, of a restart, or of
  any mishap. That an article is asked for again and again at most `MaxRetries`
  times is in the model, not in the fairness.
* `Scheduler!FairSpec`: weak fairness of spawning, of the producer, and of each
  worker. A task ends because retries are bounded and walks are finite; sleeps
  are finite. Which worker receives a task is left open, and no failure and no
  Ctrl+C is promised.
* `RangeFetch!FairSpec`: weak fairness of the producer and of each worker, threads
  of their own; a command over the network answers or fails.
* `Dataset!FairSpec`: weak fairness of `Program`, all steps of the parser. The
  thread pool always runs something that can run, and reads of files end. Nothing
  says which list is next.

Liveness in raw mode is not checked: the control that a call goes through is the
same, with fewer steps.

## 4. The proofs

`tlapm` checks these for every value of the constants that the named assumptions
of the modules allow.

| Theorem | Says | Assumes |
|---|---|---|
| `ArchiveWriter_proofs!AWTypeCorrect` | `AWSpec => []AWTypeOK` |  |
| `ArchiveWriter_proofs!ProgressDurable` | `AWSpec => []ProgressIsDurable` | `WholeFiles` |
| `ArchiveWriter_proofs!LineageMatches` | `AWSpec => []LineageMatchesArchive` |  |
| `NntpGroup_proofs!TypeCorrect` | `Spec => []TypeOK` |  |
| `NntpGroup_proofs!ProgressIsCovered` | `Spec => []ProgressCovered` | `WholeFiles` |
| `NntpGroup_proofs!ProgressMonotone` | `Spec => ProgressNeverRegresses` |  |
| `NntpGroup_proofs!KeepsPromise` | `Spec => PromiseSpec` (refinement of `ResumableArchive`) | `WholeFiles`, `"raw" \notin Modes` |
| `NntpCalls_proofs!OkIsArchived` | `Spec => []OkMeansArchived` |  |
| `NntpCalls_proofs!GroupLineageMatches` | `Spec => []LineageMatchesArchive` |  |
| `NntpCalls_proofs!RefetchIsAtStart` | `Spec => RefetchOnlyAtStart` |  |
| `NntpCalls_proofs!SkippedAreLogged` | `Spec => []SkippedIsLogged` | `WholeFiles` |
| `Scheduler_proofs!SchedulerTypeCorrect` | `Spec => []TypeOK` |  |
| `Scheduler_proofs!NoTaskLost` | `Spec => []AllTried` |  |
| `Scheduler_proofs!ShutdownIsSeen` | `Spec => OneTaskAfterShutdown` |  |
| `Scheduler_proofs!ListsAreUnshared` | `Spec => []OneWorkerPerListOnce` | `NoListTwice` |
| `PublicInbox_proofs!InboxTypeCorrect` | `Spec => []TypeOK` |  |
| `PublicInbox_proofs!EmailNumbersAreUnique` | `Spec => []NumbersUnique` |  |
| `PublicInbox_proofs!NewsAreWalked` | `Spec => WalksOnlyForNews` |  |
| `PublicInbox_proofs!FirstCallCovers` | `Spec => []FirstRunCovers` |  |
| `PublicInbox_proofs!IndexIsNumber` | `Spec => IndexNamesSameEmail` |  |
| `PublicInbox_proofs!OnlyNewIsArchived` | `Spec => NewOnlyAfterFullRun` |  |
| `RangeFetch_proofs!RangeTypeCorrect` | `Spec => []TypeOK` |  |
| `RangeFetch_proofs!ProgressIsReadable` | `Spec => []ProgressStaysReadable` |  |
| `RangeFetch_proofs!BackfillKeepsOld` | `Spec => []BackfillLeavesNoGap` |  |
| `RangeFetch_proofs!RangeIsFetched` | `Spec => []RangeFetched` |  |
| `Startup_proofs!StartTypeCorrect` | `Spec => []TypeOK` |  |
| `Startup_proofs!SelectionIsExact` | `Spec => []SelectionExact` |  |
| `Startup_proofs!StartsWhole` | `Spec => []WholeStart` |  |
| `Startup_proofs!SelectionStays` | `Spec => SelectionSticks` |  |
| `Startup_proofs!OfferedInboxesAreArchivable` | `Spec => []OfferedIsArchivable` |  |
| `Dataset_proofs!ParserTypeCorrect` | `Spec => []TypeOK` |  |
| `Dataset_proofs!ReadableDatasetsAreWhole` | `Spec => []ReadableIsWhole` |  |
| `Dataset_proofs!DoneListsAreComplete` | `Spec => []DoneIsComplete` |  |
| `Dataset_proofs!FailuresHaveCauses` | `Spec => []FailureHasCause` |  |
| `Dataset_proofs!RunsEndWhole` | `Spec => []EndsWhole` |  |
| `Dataset_proofs!LineageIsWhole` | `Spec => []LineageWhole` |  |

Besides these they use the assumptions on the constants that the modules state:
sizes are numbers, the values that stand for nothing differ from all others,
what the environment may choose is of the right kind.

`WholeFiles` is `"parquet" \in Modes => MaxPerFile \in 1..RowGroupCap`: every row
group ends its file. It is not a convenience. `ArchiveWriterLoss` shows that coverage is
false without it, and the default configuration (10000 against 2048, or
`parquet:0`, which never rotates) does not satisfy it. These theorems
therefore speak of raw mode and of `parquet:N` with N at most 2048. What a crash
cannot spoil needs no such restriction: the types, `ProgressMonotone`, and the
properties of executions without crashes and I/O errors hold for files of any
size, the default included.
`ProgressIsDurable` is about parquet lists: a crash may damage the one raw email
that is stored again, which is also why `KeepsPromise` is without raw mode, and
why `ProgressCovered` allows for that email.

**Writer.** `WInv` says in which state each point of the control leaves buffer,
file and committed ids. Its core is `WSynced`: in `rotate` the committed ids are
rows of the last file, whose footer is about to be written, and in `sync` they
are durable. `WFull` is what makes it inductive: with whole files a flush outside
of drop happens only to a full file, so `WriteRowGroup` always leads to
`rotate`. `WInv` is stated over `AWStep`, the steps of the writer under any
caller, so that `NntpGroup` obtains it from `WInvStep`.

`WBase` is the part of it that holds for files of any size. For
`LineageMatchesArchive`, `Kept` is what the writer was given and did not lose: raw
emails, the rows of files with or without a footer, the buffer, and the email
being written. `WQuiet` says that without a mishap only the file under way lacks
its footer and that the lineage is `Kept`, but for the email whose record comes
next. When the writer is gone, nothing is under way and `Kept` is `Durable`.

**NNTP group.** `ProgressCovered` is not inductive: it says nothing of the emails
a later update will name. `GInv` adds that the buffer and the committed ids are
closed downwards (`CovBuffer`, `CovSynced`), that `read_new_mails` leaves no gap
behind it (`CovRead`), and that all of these are in ascending order above the
progress (`GOrder`). With the order each step maps to `Settle`, `Advance` or a stutter of
`ResumableArchive`. `GOrder` alone is inductive over `GBase`, for files of any size,
and gives `ProgressMonotone`.

**Calls of handle_group.** `GQuiet` carries `Kept` over one call after another: all
that is kept is behind `Tip`, where the call archived last; below it everything
was archived or is gone from the server (`QKept`); only the first article of a
call may be kept already (`QRead`); and a call that ended well has passed its
range (`QDone`). `Logged` says of every place that holds a number the call was at
(the progress, the buffer, the committed ids, `next`) that the cancelled articles
behind it are in the error log or expired; with `ProgressCovered` this is
`SkippedIsLogged`, which is why that one needs `WholeFiles`.

**Scheduler.** `Conserved` says that what was sent is tried, held by a worker, or
in the channel. `WorkerReason` and `ProducerReason` say why a thread may have
ended. At the end of an uninterrupted run with a live worker the channel is
empty, nobody holds a task, and all was sent. `LateLeaves` says that a worker
that took a task after the flag was set will look at the flag before it takes
another one. `Apart` says that a list that is sent once is in one place: at one
worker or at one place of the channel, and only if it is behind the producer.
`NoListTwice` is what a start guarantees (`Startup!SelectionExact`: each task once).

**Public inbox.** `Shape` strengthens the types by what bounds a position: every
archived commit is one the epoch has, and a walk stays in the commits it listed.
The order of epochs makes `NumBefore`, the commits of the epochs before one, a
cardinality, and the lemmas about it (that it grows by the size of an epoch, and
with the sizes) are what all totals rest on. They need a least element, which
`LeastExists` gets from the well-foundedness of inclusion on finite sets: the
library's induction over numbers is out of reach here. For `NumbersUnique`,
`Highest` (the progress has the highest number of the archive) and `Ahead` (the
next number is higher than the progress) are carried over `ReachResume`,
`EndEpoch` and a new run; `Counted` bounds the emails of an epoch by its commits,
which is what `EndEpoch` adds. `Totals` bounds what was counted by what there is,
so an inbox without news is skipped. `Walk` ties the counters of a walk to its
position; with it `FirstRun` says that a first call leaves behind it only epochs
that are covered or `Large`, and `Numbered` that each email got the number its
place tells. `Single` is about a V1 inbox: a walk that resumes at the oldest commit has
archived nothing between the last number and its own position.

**Range fetches.** `Asked` and `Parsed`: only what the range names is sent, so a
progress is the old id or a named one, and what remains of longer texts has the
digits of one of them (`Written`); the hypothesis of `ProgressStaysReadable` then
says that less than two digits remain.
For `BackfillLeavesNoGap`, `Slots` keeps the index a worker resolved behind the
files there were, so `OldFiles` stays, whoever creates a file in between; in raw
mode `Torn` says that a torn email has a worker that is about to write it.
`RangeFetched` follows a task: `Delivered` says that what was sent is in the
channel, with a worker, or stored and logged; `Underway`, `SoloFiles` and
`SoloText` say what has been done of it at each point of its worker (of parquet
progress and log lines `SoloText` says so while there are no mishaps), the latter
two for one that is alone and therefore finds the directory as it left it.
`Quiet` says why a worker ends without a mishap: the producer is gone and the
channel is empty.

**Start.** `Expanded` is the loop invariant of `expand_glob_patterns`: what is
matched so far is what the patterns before `i`, and the current glob up to list
`j`, select of the lists that are offered, without repetition, since `FreshMatch`
asks for what is not matched yet. `Progressing` says that the groups are those of
the run modes that `todo` no longer has. `Remembered` ties the selection the
program works with to the file: what a start has not torn it has read. Whether
an inbox is offered rightly needs no history: `LayoutOffered` is a case analysis
over every layout, with any number of epochs.

**Parser.** `Written` is the invariant of a job: rows and errors on disk are
those of the emails `taken`, and whether a file was created tells whether there
are any; `BatchUnions` carries it over a batch. `files`, what the job found, is one
of the `Listings`: all the emails there were, or any set of them once an error of
that directory's listing was swallowed. When the job is done it has taken them
all, which gives `Whole`, and `Frame` keeps it while other lists work and emails
arrive; the errors are then all there, or a prefix of them if `swallowed` says so.
`BatchIsTaken` is why no row is refused. `Ordered` follows the phases of the run:
behind the scope no job is under way, and a dataset without a footer is an old
one, of a failed list or of a running job. `LineageKept` says that entries that
were read are written or in the batch, and that a directory that is no longer
`unread` was read behind its job or skipped; which entries stay in the batch does
not matter, so the proof needs no arithmetic about row groups.

Left to TLC are the six liveness properties (`EventuallySettled`,
`ShutdownEndsWorker`, `RunReturns`, `KeepsServing`, `RunEnds`, `RangeEnds`): their
proofs need `ENABLED`, which the provers do not handle. All other properties of
the passing runs are stated by a theorem. TLC checks them on small instances
under the same conditions: `NntpMishaps` has whole files, `SchedulerRuns` lists
without repetition. What `EmailDates` computes of one email is a
function, whose run `DatasetDates` shows where it goes wrong; nothing is proved about it.

## 5. Not modelled

* The contents of emails: text, trailers and code extraction are string
  processing without state. Of an email the models know whether it decodes, its
  dates, and which columns of its row are empty.
* The bytes of YAML, parquet and csv files, but for the length of the progress
  and where a text is cut. That `append_yaml_to_file` is torn in the middle of a
  document is not modelled.
* Two NNTP workers on one directory in *normal* mode, which `SchedulerRescan`
  shows to happen: their effects are those of `RangeFetch`.
* The `email_range` branch of `process_inbox` (`pi_worker.rs:275-292`,
  `555-560`): with an `email_range` the scheduler calls `read_email_by_index`
  only.
* A git fetch during a walk, ambiguous abbreviated commit ids, rewritten
  histories, I/O errors and crashes in the public inbox worker.
* Two sources that offer the same list name: their groups share a directory, and
  nothing else.
* The NNTP protocol and TLS. Of the walk of the file system `Dataset` has which
  emails a directory yields, errors included; which extensions and names it looks
  for, and the order in which directories are listed, are left out.
* The panic of Arrow when a batch of rows holds more text than an `i32` offset
  can address.
* Options of the command line, besides the one that names a configuration file.
* Errors and telemetry; the stand-alone checkers and peeking scripts; the Python
  anonymizer and analysis. They keep no state of their own that outlives a call.

## 6. Plan

1. An abstract dataset (a map from emails to rows that only ever changes as a
   whole) that `Dataset` implements, as `NntpGroup` does `ResumableArchive`; an
   abstract bag of tasks that `Scheduler` implements.
2. `ProgressCovered` with files larger than a row group, for executions without
   crashes and failed writes.
3. I/O errors and crashes in the public inbox worker, by `EXTENDS ArchiveWriter`
   as `NntpGroup` does.
