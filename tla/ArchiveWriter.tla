---------------------------- MODULE ArchiveWriter ----------------------------
(***************************************************************************)
(* archive_writer/: the facade a worker uses to store one mailing list.    *)
(* Four files live in the list's directory and survive the process: the    *)
(* emails (raw .eml files or parquet files), __progress.yaml,              *)
(* __lineage.yaml and __errors.csv.  The rest is memory: the parquet       *)
(* buffer, the open ArrowWriter, and the control point inside              *)
(* archive_email or drop.                                                  *)
(*                                                                         *)
(* Each action is one effect on the disk, so that a crash or an I/O error  *)
(* can fall between any two of them.  A parquet file can be read only once *)
(* its footer is written, when the ArrowWriter is closed; the row groups   *)
(* of an open file are lost with the process.                              *)
(***************************************************************************)
EXTENDS Integers, Sequences, FiniteSets, SequencesExt

CONSTANTS
  Ids,          \* the email ids a caller may archive
  None,         \* no __progress.yaml, or one that cannot be read
  Modes,        \* the modes a list may be configured with
  MaxPerFile,   \* max_emails_per_file, the N of "parquet:N"
  RowGroupCap,  \* the 2048 of ParquetEmailStore::new
  MaxFiles,     \* bound: no writer is created once this many files exist
  Budget        \* bound: how many mishaps of each kind may happen

Mishaps == {"crash", "io", "net", "stop"}

ASSUME IdsAssumption == None \notin Ids
ASSUME ModesAssumption == Modes \subseteq {"raw", "parquet"}
ASSUME SizeAssumption == MaxPerFile \in Nat /\ RowGroupCap \in Nat \ {0}
ASSUME BoundAssumption == MaxFiles \in Nat /\ Budget \in [Mishaps -> Nat]

VARIABLES
  \* on disk
  eml,       \* ids with a complete {id}.eml file
  files,     \* data_000.parquet, data_001.parquet, ... in index order
  progress,  \* last_email of __progress.yaml
  lineage,   \* ids with an entry in __lineage.yaml
  errors,    \* ids with a line in __errors.csv
  \* in memory
  pc,        \* where the writer is: see PCs
  closing,   \* the step is part of drop, not of archive_email
  buffer,    \* ParquetEmailStore.buffer
  count,     \* ParquetEmailStore.emails_in_current_file
  open,      \* ParquetEmailStore.writer is Some
  synced,    \* committed ids whose progress update is still to come
  cur,       \* the id archive_email was called with
  err,       \* archive_email returned Err: the caller may only drop
  \* environment
  mode,      \* the WriteMode of the list
  budget     \* mishaps still allowed

diskVars == <<eml, files, progress, lineage, errors>>
memVars  == <<pc, closing, buffer, count, open, synced, cur, err>>
awVars   == <<diskVars, memVars, mode, budget>>

(* "none": there is no writer; "ready": the writer waits for its caller;   *)
(* the others are points inside archive_email and drop.                    *)
PCs == {"none", "ready", "raw", "flush", "rotate", "sync", "lineage"}

FileRec == [rows : SUBSET Ids, footer : BOOLEAN]

AWTypeOK ==
  /\ eml \subseteq Ids
  /\ files \in Seq(FileRec)
  /\ progress \in Ids \cup {None}
  /\ lineage \subseteq Ids
  /\ errors \subseteq Ids
  /\ pc \in PCs
  /\ closing \in BOOLEAN
  /\ buffer \in Seq(Ids)
  /\ count \in Nat
  /\ open \in BOOLEAN
  /\ synced \in Seq(Ids)
  /\ cur \in Ids \cup {None}
  /\ err \in BOOLEAN
  /\ mode \in Modes
  /\ budget \in [Mishaps -> Nat]

AWInit ==
  /\ eml = {} /\ files = <<>> /\ progress = None
  /\ lineage = {} /\ errors = {}
  /\ pc = "none" /\ closing = FALSE
  /\ buffer = <<>> /\ count = 0 /\ open = FALSE
  /\ synced = <<>> /\ cur = None /\ err = FALSE
  /\ mode \in Modes /\ budget = Budget

(* RawEmails; otherwise Parquet(max_emails_per_file). *)
RawMode == mode = "raw"

(* row_group_size = max_emails_per_file.clamp(1, 2048) *)
RowGroup == IF MaxPerFile < 1 THEN 1
            ELSE IF MaxPerFile > RowGroupCap THEN RowGroupCap ELSE MaxPerFile

(* The emails a reader of the archive finds: raw files, and the rows of    *)
(* the parquet files that have their footer.                               *)
Durable ==
  eml \cup {id \in Ids : \E f \in DOMAIN files :
                            files[f].footer /\ id \in files[f].rows}

Spend(kind) ==
  /\ budget[kind] > 0
  /\ budget' = [budget EXCEPT ![kind] = @ - 1]
  /\ UNCHANGED mode
-----------------------------------------------------------------------------
(* ArchiveWriter::new: nothing is created on disk yet. *)
NewWriter ==
  /\ pc = "none"
  /\ Len(files) < MaxFiles
  /\ pc' = "ready"
  /\ UNCHANGED <<diskVars, closing, buffer, count, open, synced, cur, err,
                 mode, budget>>

(* RawEmailStore::add_email: fs::write empties {id}.eml and then fills it. *)
AddRaw(id) ==
  /\ RawMode
  /\ eml' = eml \ {id}
  /\ pc' = "raw"
  /\ UNCHANGED <<buffer, count>>

(* The second half of fs::write; the id is committed at once. *)
WriteRaw ==
  /\ pc = "raw"
  /\ eml' = eml \cup {cur}
  /\ synced' = <<cur>>
  /\ pc' = "sync"
  /\ UNCHANGED <<files, progress, lineage, errors, closing, buffer, count, open,
                 cur, err, mode, budget>>

(* The tests of ParquetEmailStore::add_email, for the buffer b and the     *)
(* number n of emails of the current file: a full row group is flushed, a  *)
(* full file is flushed and rotated.                                       *)
FullTooLate(n) == MaxPerFile > 0 /\ n > MaxPerFile  \* mutant: off by one
FileFull(n) == MaxPerFile > 0 /\ n >= MaxPerFile
MustFlush(b, n) == Len(b) >= RowGroup \/ FileFull(n)

(* ParquetEmailStore::add_email, up to the first flush. *)
AddParquet(id) ==
  /\ ~RawMode
  /\ buffer' = Append(buffer, id)
  /\ count' = count + 1
  /\ pc' = IF MustFlush(buffer', count') THEN "flush" ELSE "lineage"
  /\ UNCHANGED eml

(* ArchiveWriter::archive_email is called with an id. *)
ArchiveEmail(id) ==
  /\ pc = "ready" /\ ~err
  /\ cur' = id
  /\ AddRaw(id) \/ AddParquet(id)
  /\ UNCHANGED <<files, progress, lineage, errors, closing, open, synced, err,
                 mode, budget>>

(* Mutant: resolve_path takes the highest index, and File::create empties  *)
(* the file that has it.                                                   *)
CreateFileOver ==
  /\ pc = "flush" /\ ~open
  /\ files' = Append(IF files = <<>> THEN <<>> ELSE Front(files),
                     [rows |-> {}, footer |-> FALSE])
  /\ open' = TRUE
  /\ UNCHANGED <<eml, progress, lineage, errors, pc, closing, buffer, count,
                 synced, cur, err, mode, budget>>

(* init_writer, on the first flush of a file: resolve_path takes the index *)
(* after the highest one in the directory and File::create makes the file. *)
CreateFile ==
  /\ pc = "flush" /\ ~open
  /\ files' = Append(files, [rows |-> {}, footer |-> FALSE])
  /\ open' = TRUE
  /\ UNCHANGED <<eml, progress, lineage, errors, pc, closing, buffer, count,
                 synced, cur, err, mode, budget>>

(* The rest of flush: the buffer is drained into a row group of the open   *)
(* file.  add_email then rotates a full file; close always goes on to      *)
(* close the writer.                                                       *)
WriteRowGroup ==
  /\ pc = "flush" /\ open
  /\ files' = [files EXCEPT ![Len(files)].rows = @ \cup Range(buffer)]
  /\ synced' = buffer
  /\ buffer' = <<>>
  /\ pc' = IF closing \/ FileFull(count) THEN "rotate" ELSE "sync"
  /\ UNCHANGED <<eml, progress, lineage, errors, closing, count, open, cur,
                 err, mode, budget>>

(* Mutant: the count of the next file carries on from the last one. *)
CloseFileCounting ==
  /\ pc = "rotate"
  /\ files' = IF open THEN [files EXCEPT ![Len(files)].footer = TRUE] ELSE files
  /\ open' = FALSE
  /\ count' = count - MaxPerFile
  /\ pc' = "sync"
  /\ UNCHANGED <<eml, progress, lineage, errors, closing, buffer, synced, cur,
                 err, mode, budget>>

(* rotate_file and the end of close: ArrowWriter::close writes the footer. *)
CloseFile ==
  /\ pc = "rotate"
  /\ files' = IF open THEN [files EXCEPT ![Len(files)].footer = TRUE] ELSE files
  /\ open' = FALSE
  /\ count' = 0
  /\ pc' = "sync"
  /\ UNCHANGED <<eml, progress, lineage, errors, closing, buffer, synced, cur,
                 err, mode, budget>>

(* archive_email's loop over the committed ids: one progress.update each;  *)
(* after the last one comes the lineage.                                   *)
SyncProgress ==
  /\ pc = "sync" /\ ~closing /\ synced # <<>>
  /\ progress' = Head(synced)
  /\ synced' = Tail(synced)
  /\ pc' = IF Tail(synced) = <<>> THEN "lineage" ELSE "sync"
  /\ UNCHANGED <<eml, files, lineage, errors, closing, buffer, count, open,
                 cur, err, mode, budget>>

(* data_lineage.update: the entry is appended even when the email is only  *)
(* buffered.                                                               *)
WriteLineage ==
  /\ pc = "lineage"
  /\ lineage' = lineage \cup {cur}
  /\ pc' = "ready"
  /\ UNCHANGED <<eml, files, progress, errors, closing, buffer, count, open,
                 synced, cur, err, mode, budget>>

(* ArchiveWriter::log_error, for an email the source does not have. *)
LogError(id) ==
  /\ pc = "ready" /\ ~err
  /\ errors' = errors \cup {id}
  /\ UNCHANGED <<eml, files, progress, lineage, memVars, mode, budget>>

(* ErrorLogger::log swallows its own failure: the line is missing and the  *)
(* caller goes on.                                                         *)
LogErrorFails(id) ==
  /\ pc = "ready" /\ ~err
  /\ Spend("io")
  /\ UNCHANGED <<diskVars, memVars>>
-----------------------------------------------------------------------------
(* Drop for ArchiveWriter: EmailStore::close flushes what is buffered and  *)
(* closes the open file.                                                   *)
BeginDropTo(where) ==
  /\ pc = "ready"
  /\ closing' = TRUE
  /\ pc' = where
  /\ UNCHANGED <<diskVars, buffer, count, open, synced, cur, err>>

(* Mutant: drop flushes nothing. *)
DropWithoutFlush == BeginDropTo("rotate")

BeginDrop == BeginDropTo(IF buffer # <<>> THEN "flush" ELSE "rotate")

(* The writer and all it held in memory are gone. *)
Forget ==
  /\ pc' = "none"
  /\ closing' = FALSE /\ err' = FALSE
  /\ buffer' = <<>> /\ count' = 0 /\ open' = FALSE
  /\ synced' = <<>> /\ cur' = None

(* The end of drop: progress goes to the last id that close committed, if  *)
(* any.                                                                    *)
EndDrop ==
  /\ pc = "sync" /\ closing
  /\ progress' = IF synced # <<>> THEN Last(synced) ELSE progress
  /\ Forget
  /\ UNCHANGED <<eml, files, lineage, errors, mode, budget>>
-----------------------------------------------------------------------------
(* What an I/O error leaves on disk, by the point it strikes.  init_writer *)
(* may fail before or after the file exists; no other call leaves anything *)
(* of its own.                                                             *)
ErrorPoint ==
  \/ pc \in {"raw", "flush", "lineage"}
  \/ pc = "rotate" /\ open
  \/ pc = "sync" /\ synced # <<>>

ErrorOnDisk ==
  /\ \/ files' = files
     \/ /\ pc = "flush" /\ ~open
        /\ files' = Append(files, [rows |-> {}, footer |-> FALSE])
  /\ UNCHANGED <<eml, progress, lineage, errors>>

(* An I/O error inside archive_email returns to the caller through ?.  A   *)
(* failed ArrowWriter::write has already drained the buffer, a failed      *)
(* ArrowWriter::close has already taken the writer out of the store.       *)
ArchiveFails ==
  /\ ErrorPoint /\ ~closing
  /\ Spend("io")
  /\ ErrorOnDisk
  /\ pc' = "ready"
  /\ err' = TRUE
  /\ buffer' = IF pc = "flush" /\ open THEN <<>> ELSE buffer
  /\ open' = (open /\ pc # "rotate")
  /\ synced' = <<>>
  /\ UNCHANGED <<closing, count, cur>>

(* In drop the error is ignored; an ArrowWriter that is still open is      *)
(* discarded without a footer.                                             *)
DropFails ==
  /\ ErrorPoint /\ closing
  /\ Spend("io")
  /\ ErrorOnDisk
  /\ Forget

(* The process is killed: memory is gone, the disk stays. *)
CrashWriter ==
  /\ Spend("crash")
  /\ Forget
  /\ UNCHANGED diskVars

(* What the writer does on its own once it was called. *)
WriterStep ==
  \/ WriteRaw \/ CreateFile \/ WriteRowGroup \/ CloseFile \/ SyncProgress
  \/ WriteLineage \/ EndDrop

IoError == ArchiveFails \/ DropFails
-----------------------------------------------------------------------------
(* A caller that archives and logs any id in any order: range mode takes   *)
(* the ids from the user, so no order can be relied upon here.             *)
AnyCaller ==
  /\ Len(files) < MaxFiles
  /\ \E id \in Ids : ArchiveEmail(id) \/ LogError(id) \/ LogErrorFails(id)

AWNext ==
  \/ NewWriter \/ AnyCaller
  \/ BeginDrop /\ UNCHANGED <<mode, budget>>
  \/ WriterStep
  \/ IoError \/ CrashWriter

AWSpec == AWInit /\ [][AWNext]_awVars
-----------------------------------------------------------------------------
(* __progress.yaml never names an email that a reader of the archive would *)
(* not find, whatever crash or I/O error came before: add_email reports an *)
(* id as committed only after its file was rotated.  (In raw mode an email *)
(* that is stored again may be damaged by a crash.)                        *)
ProgressIsDurable == progress # None /\ ~RawMode => progress \in Durable

(* No email is lost to a process that died: see ProgressIsDurable, when no *)
(* writer is at work (archive_email: it performs three operations          *)
(* atomically, so that a resumed run misses nothing).                      *)
CrashLosesNothing == pc = "none" => ProgressIsDurable

(* No crash and no I/O error so far. *)
Unharmed == \A k \in {"crash", "io"} : budget[k] = Budget[k]

(* Whenever no writer is at work the lineage and the archive name the same *)
(* emails: drop leaves nothing in the buffer, and archive_email ends with  *)
(* the lineage.  (A crash or a failed write may leave either one behind.)  *)
(* Nor does drop leave a parquet file without a footer: the parser gives   *)
(* up a list at the first such file.                                       *)
LineageMatchesArchive ==
  pc = "none" /\ Unharmed =>
    lineage = Durable /\ \A f \in DOMAIN files : files[f].footer
=============================================================================
