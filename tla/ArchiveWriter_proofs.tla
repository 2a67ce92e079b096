------------------------ MODULE ArchiveWriter_proofs ------------------------
(***************************************************************************)
(* Proofs about ArchiveWriter, for any set of ids and any caller.          *)
(*                                                                         *)
(* WBase says where each point of the control leaves the memory, for files *)
(* of any size; WInv what holds of the disk when files are whole; WQuiet   *)
(* what holds as long as nothing crashed or failed.  All are stated over   *)
(* the steps of the writer (AWStep, CleanStep), so that a specification    *)
(* that drives the writer with a caller of its own gets them from here.    *)
(***************************************************************************)
EXTENDS ArchiveWriter, SequenceTheorems, TLAPS

(* Every row group that is flushed ends its file: what add_email does when *)
(* "parquet:N" has N at most 2048.  Raw mode has no row groups.            *)
WholeFiles == "parquet" \in Modes => MaxPerFile \in 1..RowGroupCap

WIdle ==
  pc = "none" => /\ ~closing /\ ~err /\ ~open
                 /\ buffer = <<>> /\ count = 0 /\ synced = <<>>

WMode ==
  /\ RawMode => buffer = <<>> /\ ~open
  /\ pc = "flush" => ~RawMode
  /\ pc = "raw" => RawMode
  /\ pc \in {"ready", "raw", "lineage"} => ~closing
  /\ pc \notin {"none", "ready"} /\ ~closing => cur \in Ids

(* Outside flush and rotate a file is open only after a failed write. *)
WOpen ==
  open => files # <<>> /\ (pc \in {"flush", "rotate"} \/ err)

WFull ==
  /\ Len(buffer) <= count
  /\ pc = "flush" /\ ~closing => FileFull(count)

WSynced ==
  /\ pc \in {"rotate", "sync"} => buffer = <<>>
  /\ pc \notin {"rotate", "sync"} => synced = <<>>
  /\ pc = "rotate" /\ open => Range(synced) \subseteq files[Len(files)].rows
  /\ pc = "rotate" /\ ~open => synced = <<>>
  /\ pc = "sync" => Range(synced) \subseteq Durable

WInv == AWTypeOK /\ WIdle /\ WMode /\ WOpen /\ WFull /\ WSynced

(* Where the emails in memory are, with files of any size. *)
WPlace ==
  /\ open => files # <<>>
  /\ pc \in {"rotate", "sync"} => buffer = <<>>
  /\ pc \notin {"rotate", "sync"} => synced = <<>>

WBase == AWTypeOK /\ WIdle /\ WMode /\ WPlace

(* A step of the writer, whoever calls it. *)
AWStep ==
  /\ UNCHANGED mode
  /\ \/ NewWriter
     \/ \E id \in Ids : ArchiveEmail(id) \/ LogError(id) \/ LogErrorFails(id)
     \/ BeginDrop /\ budget' \in [Mishaps -> Nat]
     \/ WriterStep
     \/ IoError
     \/ CrashWriter
     \/ UNCHANGED <<diskVars, memVars>> /\ budget' \in [Mishaps -> Nat]
-----------------------------------------------------------------------------
LEMMA SpendType ==
  ASSUME NEW k \in Mishaps, budget \in [Mishaps -> Nat], Spend(k)
  PROVE  budget' \in [Mishaps -> Nat]
  BY DEF Spend, Mishaps

(* Where every file keeps its rows and its footer, nothing stored is lost. *)
LEMMA DurableGrows ==
  ASSUME eml \subseteq eml',
         \A f \in DOMAIN files :
            /\ f \in DOMAIN files'
            /\ files[f].footer => files'[f].footer
            /\ files[f].rows \subseteq files'[f].rows
  PROVE  Durable \subseteq Durable'
  BY DEF Durable

(* The steps of a writer on the parquet files only add to them. *)
LEMMA AppendKeeps ==
  ASSUME files \in Seq(FileRec),
         files' = Append(files, [rows |-> {}, footer |-> FALSE])
  PROVE  /\ files' \in Seq(FileRec)
         /\ files' # <<>>
         /\ \A f \in DOMAIN files : f \in DOMAIN files' /\ files'[f] = files[f]
  <1>1. [rows |-> {}, footer |-> FALSE] \in FileRec
    BY DEF FileRec
  <1> QED
    BY <1>1

(* The last file of the directory is replaced by r. *)
LEMMA ReplaceLast ==
  ASSUME files \in Seq(FileRec), files # <<>>, NEW r \in FileRec,
         files' = [files EXCEPT ![Len(files)] = r]
  PROVE  /\ files' \in Seq(FileRec)
         /\ files' # <<>> /\ Len(files') = Len(files)
         /\ DOMAIN files' = DOMAIN files
         /\ files'[Len(files)] = r
         /\ \A f \in DOMAIN files : f # Len(files) => files'[f] = files[f]
  <1>1. Len(files) \in 1..Len(files)
    OBVIOUS
  <1>2. files' \in Seq(FileRec) /\ Len(files') = Len(files)
    BY <1>1, ExceptSeq
  <1> QED
    BY <1>1, <1>2

LEMMA RowsKeep ==
  ASSUME files \in Seq(FileRec), files # <<>>, NEW S \in SUBSET Ids,
         files' = [files EXCEPT ![Len(files)].rows = @ \cup S]
  PROVE  /\ files' \in Seq(FileRec)
         /\ files' # <<>> /\ Len(files') = Len(files)
         /\ S \subseteq files'[Len(files)].rows
         /\ \A f \in DOMAIN files : /\ f \in DOMAIN files'
                                    /\ files[f].footer => files'[f].footer
                                    /\ files[f].rows \subseteq files'[f].rows
  <1> DEFINE n == Len(files)
             r == [files[n] EXCEPT !.rows = @ \cup S]
  <1>1. files[n] \in FileRec
    OBVIOUS
  <1>2. /\ r \in FileRec /\ r.rows = files[n].rows \cup S
        /\ r.footer = files[n].footer
    BY <1>1 DEF FileRec
  <1>3. files' = [files EXCEPT ![n] = r]
    OBVIOUS
  <1> HIDE DEF r
  <1> QED
    BY <1>1, <1>2, <1>3, ReplaceLast

LEMMA FooterKeeps ==
  ASSUME files \in Seq(FileRec), files # <<>>,
         files' = [files EXCEPT ![Len(files)].footer = TRUE]
  PROVE  /\ files' \in Seq(FileRec)
         /\ files' # <<>> /\ Len(files') = Len(files)
         /\ files'[Len(files)].footer
         /\ \A f \in DOMAIN files : /\ f \in DOMAIN files'
                                    /\ files[f].footer => files'[f].footer
                                    /\ files[f].rows \subseteq files'[f].rows
  <1> DEFINE n == Len(files)
             r == [files[n] EXCEPT !.footer = TRUE]
  <1>1. files[n] \in FileRec
    OBVIOUS
  <1>2. r \in FileRec /\ r.rows = files[n].rows /\ r.footer
    BY <1>1 DEF FileRec
  <1>3. files' = [files EXCEPT ![n] = r]
    OBVIOUS
  <1> HIDE DEF r
  <1> QED
    BY <1>1, <1>2, <1>3, ReplaceLast

LEMMA RangeType ==
  ASSUME NEW S, NEW s \in Seq(S)
  PROVE  Range(s) \subseteq S
  BY DEF Range

LEMMA RangeOfAppend ==
  ASSUME NEW S, NEW s \in Seq(S), NEW e \in S
  PROVE  Range(Append(s, e)) = Range(s) \cup {e}
  <1> DEFINE t == Append(s, e)
  <1>1. /\ Len(t) = Len(s) + 1 /\ DOMAIN t = 1..(Len(s) + 1)
        /\ DOMAIN s = 1..Len(s) /\ Len(s) \in Nat
        /\ t[Len(s) + 1] = e /\ \A i \in 1..Len(s) : t[i] = s[i]
    OBVIOUS
  <1> HIDE DEF t
  <1>2. \A i \in DOMAIN t : t[i] \in Range(s) \cup {e}
    BY <1>1 DEF Range
  <1>3. e \in Range(t) /\ \A i \in DOMAIN s : s[i] \in Range(t)
    BY <1>1 DEF Range
  <1> QED
    BY <1>2, <1>3 DEF Range

LEMMA ParquetRowGroup ==
  ASSUME WholeFiles, AWTypeOK, ~RawMode
  PROVE  RowGroup = MaxPerFile /\ MaxPerFile > 0
  BY SizeAssumption, ModesAssumption DEF WholeFiles, RawMode, AWTypeOK, RowGroup

(* The rows of a file with a footer are durable. *)
LEMMA RowsDurable ==
  ASSUME NEW f \in DOMAIN files, files[f].footer, NEW S \in SUBSET Ids,
         S \subseteq files[f].rows
  PROVE  S \subseteq Durable
  BY DEF Durable

LEMMA WholeIsBase ==
  ASSUME WInv
  PROVE  WBase
  BY DEF WInv, WBase, WPlace, WOpen, WSynced

LEMMA DurableType ==
  ASSUME AWTypeOK
  PROVE  Durable \subseteq Ids
  BY DEF AWTypeOK, Durable
-----------------------------------------------------------------------------
LEMMA WInvInit ==
  ASSUME AWInit
  PROVE  WInv
  <1>1. AWTypeOK
    <2>1. /\ eml \subseteq Ids /\ lineage \subseteq Ids /\ errors \subseteq Ids
          /\ progress \in Ids \cup {None} /\ cur \in Ids \cup {None}
      BY DEF AWInit
    <2>2. /\ files \in Seq(FileRec) /\ buffer \in Seq(Ids)
          /\ synced \in Seq(Ids) /\ count \in Nat
      BY DEF AWInit
    <2>3. closing \in BOOLEAN /\ open \in BOOLEAN /\ err \in BOOLEAN /\ pc \in PCs
      BY DEF AWInit, PCs
    <2>4. mode \in Modes /\ budget \in [Mishaps -> Nat]
      BY BoundAssumption DEF AWInit
    <2> QED
      BY <2>1, <2>2, <2>3, <2>4 DEF AWTypeOK
  <1>2. WIdle /\ WMode /\ WOpen /\ WSynced
    BY DEF AWInit, WIdle, WMode, RawMode, WOpen, WSynced
  <1>3. WFull
    BY DEF AWInit, WFull
  <1> QED
    BY <1>1, <1>2, <1>3 DEF WInv

LEMMA NewWriterInv ==
  ASSUME WInv, NewWriter
  PROVE  WInv'
  BY DEF NewWriter, WInv, AWTypeOK, WIdle, WMode, RawMode, WOpen, WFull,
         WSynced, PCs,
         diskVars

LEMMA ArchiveEmailInv ==
  ASSUME WholeFiles, WInv, NEW id \in Ids, ArchiveEmail(id)
  PROVE  WInv'
  <1> USE DEF ArchiveEmail, WInv
  <1>1. CASE AddRaw(id)
    <2>1. eml' \subseteq Ids
      BY <1>1 DEF AddRaw, AWTypeOK
    <2>5. cur' \in Ids \cup {None}
      BY <1>1
    <2>6. pc' \in PCs
      BY <1>1 DEF AddRaw, PCs
    <2>2. WIdle' /\ WSynced'
      BY <1>1 DEF AddRaw, WIdle, WSynced
    <2>7. WMode'
      BY <1>1 DEF AddRaw, WMode, RawMode
    <2>8. WOpen'
      BY <1>1 DEF AddRaw, WOpen, WMode, RawMode
    <2>3. WFull'
      BY <1>1 DEF AddRaw, WFull
    <2>4. AWTypeOK'
      BY <1>1, <2>1, <2>5, <2>6 DEF AddRaw, AWTypeOK
    <2> QED
      BY <2>2, <2>3, <2>4, <2>7, <2>8
  <1>2. CASE AddParquet(id)
    <2>1. Len(buffer') = Len(buffer) + 1 /\ buffer' \in Seq(Ids)
      BY <1>2 DEF AddParquet, AWTypeOK
    <2>2. RowGroup = MaxPerFile /\ MaxPerFile > 0 /\ ~RawMode
      BY <1>2, ParquetRowGroup DEF AddParquet
    <2>3. Len(buffer') <= count'
      BY <1>2, <2>1 DEF AddParquet, WFull, AWTypeOK
    <2>4. pc' = "flush" => FileFull(count')
      BY <1>2, <2>1, <2>2, <2>3, SizeAssumption
         DEF AddParquet, MustFlush, FileFull, AWTypeOK
    <2> QED
      BY <1>2, <2>1, <2>3, <2>4
         DEF AddParquet, AWTypeOK, WIdle, WMode, RawMode, WOpen, WFull,
         WSynced, PCs
  <1> QED
    BY <1>1, <1>2

LEMMA LogInv ==
  ASSUME WInv, NEW id \in Ids, LogError(id) \/ LogErrorFails(id)
  PROVE  WInv'
  <1>1. UNCHANGED mode /\ budget' \in [Mishaps -> Nat]
    BY SpendType DEF Spend, LogError, LogErrorFails, WInv, AWTypeOK, Mishaps
  <1> QED
    BY <1>1 DEF LogError, LogErrorFails, diskVars, memVars, WInv, AWTypeOK,
                WIdle, WMode, RawMode, WOpen, WFull, WSynced, Durable

LEMMA BeginDropInv ==
  ASSUME WInv, BeginDrop, UNCHANGED mode, budget' \in [Mishaps -> Nat]
  PROVE  WInv'
  BY RangeType
     DEF BeginDrop, BeginDropTo, diskVars, WInv, AWTypeOK, WIdle, WMode, RawMode,
         WOpen, WFull,
         WSynced, PCs, Range

LEMMA WriteRawInv ==
  ASSUME WInv, WriteRaw
  PROVE  WInv'
  BY DEF WriteRaw, WInv, AWTypeOK, WIdle, WMode, RawMode, WOpen, WFull,
         WSynced, PCs,
         Durable, Range

LEMMA CreateFileInv ==
  ASSUME WInv, CreateFile
  PROVE  WInv'
  <1>1. files' \in Seq(FileRec) /\ files' # <<>>
    BY AppendKeeps DEF CreateFile, WInv, AWTypeOK
  <1> QED
    BY <1>1 DEF CreateFile, WInv, AWTypeOK, WIdle, WMode, RawMode, WOpen, WFull, WSynced,
                PCs

LEMMA WriteRowGroupInv ==
  ASSUME WholeFiles, WInv, WriteRowGroup
  PROVE  WInv'
  <1>1. Range(buffer) \in SUBSET Ids /\ files # <<>> /\ files \in Seq(FileRec)
    BY RangeType DEF WriteRowGroup, WInv, AWTypeOK, WOpen
  <1>2. /\ files' \in Seq(FileRec)
        /\ files' # <<>> /\ Len(files') = Len(files)
        /\ Range(buffer) \subseteq files'[Len(files)].rows
    BY <1>1, RowsKeep DEF WriteRowGroup
  <1>3. pc' = "rotate"
    BY DEF WriteRowGroup, WInv, WFull
  <1> QED
    BY <1>1, <1>2, <1>3
       DEF WriteRowGroup, WInv, AWTypeOK, WIdle, WMode, RawMode, WOpen, WFull,
         WSynced, PCs

LEMMA CloseFileInv ==
  ASSUME WInv, CloseFile
  PROVE  WInv'
  <1>1. files \in Seq(FileRec) /\ Range(synced) \in SUBSET Ids /\ buffer = <<>>
    BY RangeType DEF CloseFile, WInv, AWTypeOK, WSynced
  <1>2. files' \in Seq(FileRec) /\ Range(synced) \subseteq Durable'
    <2>1. CASE open
      <3>1. files # <<>> /\ Range(synced) \subseteq files[Len(files)].rows
        BY <2>1 DEF CloseFile, WInv, WOpen, WSynced
      <3>2. /\ files' \in Seq(FileRec)
            /\ Len(files) \in DOMAIN files'
            /\ files'[Len(files)].footer
            /\ Range(synced) \subseteq files'[Len(files)].rows
        BY <1>1, <2>1, <3>1, FooterKeeps DEF CloseFile
      <3> QED
        BY <1>1, <3>2 DEF Durable
    <2>2. CASE ~open
      <3>1. files' = files /\ synced = <<>>
        BY <2>2 DEF CloseFile, WInv, WSynced
      <3> QED
        BY <1>1, <3>1 DEF Range
    <2> QED
      BY <2>1, <2>2
  <1>3. AWTypeOK'
    BY <1>2 DEF CloseFile, WInv, AWTypeOK, PCs
  <1>4. WIdle' /\ WMode' /\ WOpen' /\ WSynced'
    BY <1>1, <1>2 DEF CloseFile, WInv, WIdle, WMode, RawMode, WOpen, WSynced
  <1>5. WFull'
    BY <1>1 DEF CloseFile, WFull
  <1> QED
    BY <1>3, <1>4, <1>5 DEF WInv

LEMMA SyncProgressInv ==
  ASSUME WInv, SyncProgress
  PROVE  WInv'
  <1>1. /\ Head(synced) \in Ids /\ Tail(synced) \in Seq(Ids)
        /\ Range(Tail(synced)) \subseteq Range(synced)
    BY DEF SyncProgress, WInv, AWTypeOK, Range
  <1>2. Durable' = Durable
    BY DEF SyncProgress, Durable
  <1> QED
    BY <1>1, <1>2
       DEF SyncProgress, WInv, AWTypeOK, WIdle, WMode, RawMode, WOpen, WFull,
         WSynced, PCs

LEMMA WriteLineageInv ==
  ASSUME WInv, WriteLineage
  PROVE  WInv'
  BY DEF WriteLineage, WInv, AWTypeOK, WIdle, WMode, RawMode, WOpen, WFull,
         WSynced, PCs

(* Once the writer is gone only the disk matters. *)
LEMMA ForgetInv ==
  ASSUME WInv, Forget, UNCHANGED mode, budget' \in [Mishaps -> Nat],
         eml' \subseteq Ids, files' \in Seq(FileRec),
         progress' \in Ids \cup {None}, lineage' \subseteq Ids,
         errors' \subseteq Ids
  PROVE  WInv'
  <1>1. AWTypeOK'
    <2>1. /\ closing' \in BOOLEAN /\ open' \in BOOLEAN /\ err' \in BOOLEAN
          /\ pc' \in PCs /\ cur' \in Ids \cup {None}
      BY DEF Forget, PCs
    <2>2. buffer' \in Seq(Ids) /\ synced' \in Seq(Ids) /\ count' \in Nat
      BY DEF Forget
    <2> QED
      BY <2>1, <2>2 DEF WInv, AWTypeOK
  <1>2. WIdle' /\ WMode' /\ WOpen' /\ WSynced'
    BY DEF Forget, WInv, WIdle, WMode, RawMode, WOpen, WSynced
  <1>3. WFull'
    BY DEF Forget, WFull
  <1> QED
    BY <1>1, <1>2, <1>3 DEF WInv

LEMMA EndDropInv ==
  ASSUME WInv, EndDrop
  PROVE  WInv'
  <1>1. progress' \in Ids \cup {None}
    BY DEF EndDrop, WInv, AWTypeOK, Last
  <1> QED
    BY <1>1, ForgetInv DEF EndDrop, WInv, AWTypeOK

LEMMA ErrorOnDiskKeeps ==
  ASSUME WInv, ErrorOnDisk
  PROVE  /\ files' \in Seq(FileRec)
         /\ files # <<>> => files' # <<>>
         /\ \A f \in DOMAIN files : f \in DOMAIN files' /\ files'[f] = files[f]
  BY AppendKeeps DEF ErrorOnDisk, WInv, AWTypeOK

LEMMA IoErrorInv ==
  ASSUME WInv, IoError
  PROVE  WInv'
  <1>1. UNCHANGED mode /\ budget' \in [Mishaps -> Nat]
    BY SpendType DEF Spend, IoError, ArchiveFails, DropFails, WInv, AWTypeOK, Mishaps
  <1>2. /\ files' \in Seq(FileRec)
        /\ files # <<>> => files' # <<>>
        /\ eml' = eml /\ progress' = progress /\ lineage' = lineage
        /\ errors' = errors
    BY ErrorOnDiskKeeps DEF IoError, ArchiveFails, DropFails, ErrorOnDisk
  <1>3. CASE ArchiveFails
    BY <1>1, <1>2, <1>3
       DEF ArchiveFails, ErrorPoint, WInv, AWTypeOK, WIdle, WMode, RawMode,
           WOpen, WFull,
           WSynced, PCs
  <1>4. CASE DropFails
    BY <1>1, <1>2, <1>4, ForgetInv DEF DropFails, WInv, AWTypeOK
  <1> QED
    BY <1>3, <1>4 DEF IoError

LEMMA CrashWriterInv ==
  ASSUME WInv, CrashWriter
  PROVE  WInv'
  <1>1. UNCHANGED mode /\ budget' \in [Mishaps -> Nat]
    BY SpendType DEF Spend, CrashWriter, WInv, AWTypeOK, Mishaps
  <1> QED
    BY <1>1, ForgetInv DEF CrashWriter, diskVars, WInv, AWTypeOK

(* WInv is inductive over the steps of the writer, whoever calls it. *)
THEOREM WInvStep ==
  ASSUME WholeFiles, WInv, AWStep
  PROVE  WInv'
  <1>0. UNCHANGED mode
    BY DEF AWStep
  <1>1. CASE NewWriter
    BY <1>1, NewWriterInv
  <1>2. CASE \E id \in Ids : ArchiveEmail(id) \/ LogError(id) \/ LogErrorFails(id)
    BY <1>2, ArchiveEmailInv, LogInv
  <1>3. CASE BeginDrop /\ budget' \in [Mishaps -> Nat]
    BY <1>0, <1>3, BeginDropInv
  <1>4. CASE WriterStep
    BY <1>4, WriteRawInv, CreateFileInv, WriteRowGroupInv, CloseFileInv,
       SyncProgressInv, WriteLineageInv, EndDropInv DEF WriterStep
  <1>5. CASE IoError
    BY <1>5, IoErrorInv
  <1>6. CASE CrashWriter
    BY <1>6, CrashWriterInv
  <1>7. CASE UNCHANGED <<diskVars, memVars>> /\ budget' \in [Mishaps -> Nat]
    BY <1>0, <1>7 DEF diskVars, memVars, WInv, AWTypeOK, WIdle, WMode, RawMode,
         WOpen, WFull,
                WSynced, Durable
  <1> QED
    BY <1>1, <1>2, <1>3, <1>4, <1>5, <1>6, <1>7 DEF AWStep

(* WBase is inductive, whatever the sizes of files and row groups. *)
LEMMA ForgetBase ==
  ASSUME WBase, Forget, UNCHANGED mode, budget' \in [Mishaps -> Nat],
         eml' \subseteq Ids, files' \in Seq(FileRec),
         progress' \in Ids \cup {None}, lineage' \subseteq Ids,
         errors' \subseteq Ids
  PROVE  WBase'
  <1>1. AWTypeOK'
    <2>1. /\ closing' \in BOOLEAN /\ open' \in BOOLEAN /\ err' \in BOOLEAN
          /\ pc' \in PCs /\ cur' \in Ids \cup {None}
      BY DEF Forget, PCs
    <2>2. buffer' \in Seq(Ids) /\ synced' \in Seq(Ids) /\ count' \in Nat
      BY DEF Forget
    <2> QED
      BY <2>1, <2>2 DEF WBase, AWTypeOK
  <1>2. WIdle' /\ WMode' /\ WPlace'
    BY DEF Forget, WIdle, WMode, RawMode, WPlace
  <1> QED
    BY <1>1, <1>2 DEF WBase

LEMMA CallerBase ==
  ASSUME WBase, NEW id \in Ids,
         ArchiveEmail(id) \/ LogError(id) \/ LogErrorFails(id)
  PROVE  WBase'
  <1>1. CASE ArchiveEmail(id)
    <2> USE <1>1 DEF ArchiveEmail
    <2>1. CASE AddRaw(id)
      <3>1. AWTypeOK'
        BY <2>1 DEF AddRaw, WBase, AWTypeOK, PCs
      <3>2. WIdle' /\ WMode' /\ WPlace'
        BY <2>1 DEF AddRaw, WBase, WIdle, WMode, RawMode, WPlace
      <3> QED
        BY <3>1, <3>2 DEF WBase
    <2>2. CASE AddParquet(id)
      <3>1. buffer' \in Seq(Ids) /\ count' \in Nat /\ pc' \in {"flush", "lineage"}
        BY <2>2 DEF AddParquet, WBase, AWTypeOK
      <3>2. AWTypeOK'
        BY <2>2, <3>1 DEF AddParquet, WBase, AWTypeOK, PCs
      <3>3. WIdle' /\ WMode' /\ WPlace'
        BY <2>2, <3>1 DEF AddParquet, WBase, WIdle, WMode, RawMode, WPlace
      <3> QED
        BY <3>2, <3>3 DEF WBase
    <2> QED
      BY <2>1, <2>2
  <1>2. CASE LogError(id) \/ LogErrorFails(id)
    <2>1. UNCHANGED mode /\ budget' \in [Mishaps -> Nat]
      BY <1>2, SpendType
         DEF Spend, LogError, LogErrorFails, WBase, AWTypeOK, Mishaps
    <2> QED
      BY <1>2, <2>1 DEF LogError, LogErrorFails, diskVars, memVars, WBase,
                        AWTypeOK, WIdle, WMode, RawMode, WPlace
  <1> QED
    BY <1>1, <1>2

LEMMA WriterStepBase ==
  ASSUME WBase, WriterStep
  PROVE  WBase'
  <1> USE DEF WBase
  <1>1. CASE WriteRaw
    BY <1>1 DEF WriteRaw, AWTypeOK, WIdle, WMode, RawMode, WPlace, PCs
  <1>2. CASE CreateFile
    <2>1. files' \in Seq(FileRec) /\ files' # <<>>
      BY <1>2, AppendKeeps DEF CreateFile, AWTypeOK
    <2> QED
      BY <1>2, <2>1 DEF CreateFile, AWTypeOK, WIdle, WMode, RawMode, WPlace, PCs
  <1>3. CASE WriteRowGroup
    <2>1. Range(buffer) \in SUBSET Ids /\ files # <<>> /\ files \in Seq(FileRec)
      BY <1>3, RangeType DEF WriteRowGroup, AWTypeOK, WPlace
    <2>2. files' \in Seq(FileRec) /\ files' # <<>>
      BY <1>3, <2>1, RowsKeep DEF WriteRowGroup
    <2> QED
      BY <1>3, <2>2 DEF WriteRowGroup, AWTypeOK, WIdle, WMode, RawMode, WPlace,
                        PCs
  <1>4. CASE CloseFile
    <2>1. files' \in Seq(FileRec)
      BY <1>4, FooterKeeps DEF CloseFile, AWTypeOK, WPlace
    <2> QED
      BY <1>4, <2>1 DEF CloseFile, AWTypeOK, WIdle, WMode, RawMode, WPlace, PCs
  <1>5. CASE SyncProgress
    <2>1. Head(synced) \in Ids /\ Tail(synced) \in Seq(Ids)
      BY <1>5 DEF SyncProgress, AWTypeOK
    <2> QED
      BY <1>5, <2>1 DEF SyncProgress, AWTypeOK, WIdle, WMode, RawMode, WPlace,
                        PCs
  <1>6. CASE WriteLineage
    BY <1>6 DEF WriteLineage, AWTypeOK, WIdle, WMode, RawMode, WPlace, PCs
  <1>7. CASE EndDrop
    <2>1. progress' \in Ids \cup {None}
      BY <1>7 DEF EndDrop, AWTypeOK, Last
    <2> QED
      BY <1>7, <2>1, ForgetBase DEF EndDrop, AWTypeOK
  <1> QED
    BY <1>1, <1>2, <1>3, <1>4, <1>5, <1>6, <1>7 DEF WriterStep

LEMMA MishapBase ==
  ASSUME WBase, IoError \/ CrashWriter
  PROVE  WBase'
  <1>1. UNCHANGED mode /\ budget' \in [Mishaps -> Nat]
    BY SpendType DEF Spend, IoError, ArchiveFails, DropFails, CrashWriter, WBase,
                     AWTypeOK, Mishaps
  <1>2. /\ files' \in Seq(FileRec)
        /\ files # <<>> => files' # <<>>
        /\ eml' = eml /\ progress' = progress /\ lineage' = lineage
        /\ errors' = errors
    BY AppendKeeps DEF IoError, ArchiveFails, DropFails, ErrorOnDisk, CrashWriter,
                       diskVars, WBase, AWTypeOK
  <1>3. CASE ArchiveFails
    BY <1>1, <1>2, <1>3
       DEF ArchiveFails, ErrorPoint, WBase, AWTypeOK, WIdle, WMode, RawMode,
           WPlace, PCs
  <1>4. CASE DropFails \/ CrashWriter
    BY <1>1, <1>2, <1>4, ForgetBase DEF DropFails, CrashWriter, WBase, AWTypeOK
  <1> QED
    BY <1>3, <1>4 DEF IoError

(* WBase is inductive over the steps of the writer, whoever calls it. *)
LEMMA WBaseStep ==
  ASSUME WBase, AWStep
  PROVE  WBase'
  <1>0. UNCHANGED mode
    BY DEF AWStep
  <1>1. CASE NewWriter
    BY <1>1 DEF NewWriter, WBase, AWTypeOK, WIdle, WMode, RawMode, WPlace, PCs,
                diskVars
  <1>2. CASE BeginDrop /\ budget' \in [Mishaps -> Nat]
    BY <1>0, <1>2 DEF BeginDrop, BeginDropTo, diskVars, WBase, AWTypeOK, WIdle,
                      WMode, RawMode, WPlace, PCs
  <1>3. CASE UNCHANGED <<diskVars, memVars>> /\ budget' \in [Mishaps -> Nat]
    BY <1>0, <1>3 DEF diskVars, memVars, WBase, AWTypeOK, WIdle, WMode, RawMode,
                      WPlace
  <1> QED
    BY <1>1, <1>2, <1>3, CallerBase, WriterStepBase, MishapBase DEF AWStep

LEMMA NextIsAWStep ==
  ASSUME AWTypeOK, [AWNext]_awVars
  PROVE  AWStep
  <1>1. UNCHANGED mode
    BY DEF AWNext, awVars, AnyCaller, WriterStep, IoError, NewWriter,
           ArchiveEmail, LogError, LogErrorFails, WriteRaw, CreateFile,
           WriteRowGroup, CloseFile, SyncProgress, WriteLineage, EndDrop,
           ArchiveFails, DropFails, CrashWriter, Spend
  <1> QED
    BY <1>1 DEF AWNext, awVars, AWStep, AnyCaller, AWTypeOK

(* Every variable of the writer keeps its type, whatever is archived. *)
THEOREM AWTypeCorrect == AWSpec => []AWTypeOK
  <1>1. AWInit => WBase
    BY WInvInit, WholeIsBase
  <1>2. WBase /\ [AWNext]_awVars => WBase'
    BY NextIsAWStep, WBaseStep DEF WBase
  <1>3. WBase => AWTypeOK
    BY DEF WBase
  <1> QED
    BY <1>1, <1>2, <1>3, PTL DEF AWSpec
-----------------------------------------------------------------------------
(* No step of the writer takes rows or footers away. *)
LEMMA FilesStay ==
  ASSUME WBase, AWStep, NEW f \in DOMAIN files
  PROVE  /\ f \in DOMAIN files'
         /\ files[f].footer => files'[f].footer
         /\ files[f].rows \subseteq files'[f].rows
  <1>1. CASE NewWriter \/ BeginDrop \/ UNCHANGED <<diskVars, memVars>>
    BY <1>1 DEF NewWriter, BeginDrop, BeginDropTo, diskVars
  <1>2. CASE \E id \in Ids : ArchiveEmail(id) \/ LogError(id) \/ LogErrorFails(id)
    BY <1>2 DEF ArchiveEmail, LogError, LogErrorFails, diskVars
  <1>3. CASE WriteRaw \/ SyncProgress \/ WriteLineage \/ EndDrop \/ CrashWriter
    BY <1>3 DEF WriteRaw, SyncProgress, WriteLineage, EndDrop, CrashWriter, diskVars
  <1>4. CASE CreateFile
    BY <1>4, AppendKeeps DEF CreateFile, WBase, AWTypeOK
  <1>5. CASE WriteRowGroup
    <2>1. Range(buffer) \in SUBSET Ids /\ files # <<>> /\ files \in Seq(FileRec)
      BY <1>5, RangeType DEF WriteRowGroup, WBase, AWTypeOK, WPlace
    <2> QED
      BY <1>5, <2>1, RowsKeep DEF WriteRowGroup
  <1>6. CASE CloseFile
    <2>1. CASE open
      BY <1>6, <2>1, FooterKeeps DEF CloseFile, WBase, AWTypeOK, WPlace
    <2>2. CASE ~open
      BY <1>6, <2>2 DEF CloseFile
    <2> QED
      BY <2>1, <2>2
  <1>7. CASE IoError
    BY <1>7, AppendKeeps DEF IoError, ArchiveFails, DropFails, ErrorOnDisk, WBase,
                                AWTypeOK
  <1> QED
    BY <1>1, <1>2, <1>3, <1>4, <1>5, <1>6, <1>7 DEF AWStep, WriterStep

(* Only raw mode's rewriting of an email takes a stored email away. *)
LEMMA EmlStays ==
  ASSUME WBase, AWStep, ~(\E id \in Ids : ArchiveEmail(id) /\ AddRaw(id))
  PROVE  eml \subseteq eml'
  <1>1. CASE NewWriter \/ BeginDrop \/ UNCHANGED <<diskVars, memVars>>
    BY <1>1 DEF NewWriter, BeginDrop, BeginDropTo, diskVars
  <1>2. CASE \E id \in Ids : ArchiveEmail(id) \/ LogError(id) \/ LogErrorFails(id)
    BY <1>2 DEF ArchiveEmail, AddParquet, LogError, LogErrorFails, diskVars
  <1>3. CASE WriterStep \/ CrashWriter
    BY <1>3 DEF WriterStep, WriteRaw, CreateFile, WriteRowGroup, CloseFile,
                SyncProgress, WriteLineage, EndDrop, CrashWriter, diskVars
  <1>4. CASE IoError
    BY <1>4 DEF IoError, ArchiveFails, DropFails, ErrorOnDisk
  <1> QED
    BY <1>1, <1>2, <1>3, <1>4 DEF AWStep

LEMMA DurableStays ==
  ASSUME WBase, AWStep, ~(\E id \in Ids : ArchiveEmail(id) /\ AddRaw(id))
  PROVE  Durable \subseteq Durable'
  BY FilesStay, EmlStays, DurableGrows

(* Only the two progress updates write __progress.yaml. *)
LEMMA ProgressStep ==
  ASSUME AWTypeOK, AWStep
  PROVE  \/ progress' = progress
         \/ /\ pc = "sync" /\ synced # <<>>
            /\ progress' \in Range(synced)
            /\ \/ progress' = Head(synced) /\ SyncProgress
               \/ progress' = Last(synced) /\ EndDrop
  <1>1. CASE SyncProgress
    BY <1>1 DEF SyncProgress, Range, AWTypeOK
  <1>2. CASE EndDrop
    BY <1>2 DEF EndDrop, Range, Last, AWTypeOK
  <1>3. CASE NewWriter \/ BeginDrop \/ UNCHANGED <<diskVars, memVars>>
    BY <1>3 DEF NewWriter, BeginDrop, BeginDropTo, diskVars
  <1>4. CASE \E id \in Ids : ArchiveEmail(id) \/ LogError(id) \/ LogErrorFails(id)
    BY <1>4 DEF ArchiveEmail, LogError, LogErrorFails, diskVars
  <1>5. CASE WriteRaw \/ CreateFile \/ WriteRowGroup \/ CloseFile \/ WriteLineage
    BY <1>5 DEF WriteRaw, CreateFile, WriteRowGroup, CloseFile, WriteLineage
  <1>6. CASE IoError \/ CrashWriter
    BY <1>6 DEF IoError, ArchiveFails, DropFails, ErrorOnDisk, CrashWriter, diskVars
  <1> QED
    BY <1>1, <1>2, <1>3, <1>4, <1>5, <1>6 DEF AWStep, WriterStep

LEMMA ProgressDurableStep ==
  ASSUME WInv, ProgressIsDurable, AWStep
  PROVE  ProgressIsDurable'
  <1>0. SUFFICES ASSUME ~RawMode
                 PROVE  progress' # None => progress' \in Durable'
    BY DEF AWStep, RawMode, ProgressIsDurable
  <1>1. Durable \subseteq Durable'
    BY <1>0, DurableStays, WholeIsBase DEF AddRaw
  <1>2. \/ progress' = progress
        \/ progress' \in Range(synced) /\ pc = "sync"
    BY ProgressStep DEF WInv
  <1> QED
    BY <1>0, <1>1, <1>2 DEF ProgressIsDurable, WInv, WSynced

(* With at most 2048 emails per parquet file, __progress.yaml never names  *)
(* an email that a reader of the archive would not find, after any calls,  *)
(* I/O errors and crashes.                                                 *)
THEOREM ProgressDurable ==
  ASSUME WholeFiles
  PROVE  AWSpec => []ProgressIsDurable
  <1> DEFINE I == WInv /\ ProgressIsDurable
  <1>1. AWInit => I
    BY WInvInit DEF AWInit, ProgressIsDurable
  <1>2. I /\ [AWNext]_awVars => I'
    BY NextIsAWStep, WInvStep, ProgressDurableStep DEF WInv
  <1>3. I => ProgressIsDurable
    OBVIOUS
  <1> QED
    BY <1>1, <1>2, <1>3, PTL DEF AWSpec
-----------------------------------------------------------------------------
(* What happens as long as nothing crashed and no write failed.            *)

(* The emails of the parquet files, those without a footer included. *)
Rows == {id \in Ids : \E f \in DOMAIN files : id \in files[f].rows}

(* The emails that the writer was given and did not lose. *)
Kept ==
  eml \cup Rows \cup Range(buffer) \cup (IF pc = "raw" THEN {cur} ELSE {})

WQuiet ==
  /\ ~err
  /\ \A f \in DOMAIN files : files[f].footer \/ (open /\ f = Len(files))
  /\ closing /\ pc = "sync" => ~open
  /\ pc \in {"none", "ready"} \/ closing => lineage = Kept
  /\ pc \notin {"none", "ready"} /\ ~closing => lineage \cup {cur} = Kept

BudgetLeft == \A k \in {"crash", "io"} : budget[k] <= Budget[k]

(* A step of the writer that is neither a crash nor an I/O error. *)
CleanStep ==
  \/ NewWriter
  \/ \E id \in Ids : ArchiveEmail(id) \/ LogError(id)
  \/ BeginDrop
  \/ WriterStep
  \/ UNCHANGED <<diskVars, memVars>>

LEMMA KeptIsDurable ==
  ASSUME WBase, WQuiet, pc = "none"
  PROVE  /\ Kept = Durable /\ lineage = Durable
         /\ \A f \in DOMAIN files : files[f].footer
  <1>1. ~open /\ buffer = <<>> /\ ~closing
    BY DEF WBase, WIdle
  <1>2. \A f \in DOMAIN files : files[f].footer
    BY <1>1 DEF WQuiet
  <1>3. Kept = eml \cup Rows
    BY <1>1 DEF Kept, Range
  <1>4. Durable = eml \cup Rows
    BY <1>2 DEF Durable, Rows
  <1> QED
    BY <1>2, <1>3, <1>4 DEF WQuiet

(* What is kept is in the archive or on its way there: what is durable is  *)
(* always kept.                                                            *)
LEMMA DurableIsKept == Durable \subseteq Kept
  BY DEF Durable, Kept, Rows

LEMMA CreateFileFiles ==
  ASSUME WBase, CreateFile
  PROVE  /\ Rows' = Rows
         /\ Len(files') = Len(files) + 1
         /\ DOMAIN files' = (DOMAIN files) \cup {Len(files')}
         /\ \A f \in DOMAIN files : files'[f] = files[f]
  <1>1. files \in Seq(FileRec)
    BY DEF WBase, AWTypeOK
  <1>2. files' = Append(files, [rows |-> {}, footer |-> FALSE])
    BY DEF CreateFile
  <1>3. /\ Len(files') = Len(files) + 1
        /\ DOMAIN files' = (DOMAIN files) \cup {Len(files')}
        /\ \A f \in DOMAIN files : files'[f] = files[f]
        /\ files'[Len(files')] = [rows |-> {}, footer |-> FALSE]
    BY <1>1, <1>2
  <1>4. files'[Len(files')].rows = {}
    BY <1>3
  <1> QED
    BY <1>3, <1>4 DEF Rows

LEMMA WriteRowGroupFiles ==
  ASSUME WBase, WriteRowGroup
  PROVE  /\ Rows' = Rows \cup Range(buffer)
         /\ Len(files') = Len(files) /\ DOMAIN files' = DOMAIN files
         /\ \A f \in DOMAIN files : files'[f].footer = files[f].footer
  <1> DEFINE n == Len(files)
             r == [files[n] EXCEPT !.rows = @ \cup Range(buffer)]
  <1>1. files \in Seq(FileRec) /\ files # <<>> /\ Range(buffer) \in SUBSET Ids
    BY RangeType DEF WriteRowGroup, WBase, AWTypeOK, WPlace
  <1>2. files[n] \in FileRec /\ n \in DOMAIN files
    BY <1>1
  <1>3. /\ r \in FileRec /\ r.rows = files[n].rows \cup Range(buffer)
        /\ r.footer = files[n].footer
    BY <1>1, <1>2 DEF FileRec
  <1>4. files' = [files EXCEPT ![n] = r]
    BY DEF WriteRowGroup
  <1> HIDE DEF r
  <1>5. /\ Len(files') = Len(files) /\ DOMAIN files' = DOMAIN files
        /\ files'[n] = r
        /\ \A f \in DOMAIN files : f # n => files'[f] = files[f]
    BY <1>1, <1>3, <1>4, ReplaceLast
  <1>6. \A f \in DOMAIN files : files'[f].footer = files[f].footer
    BY <1>3, <1>5
  <1>7. Rows' = Rows \cup Range(buffer)
    <2>1. ASSUME NEW id \in Ids
          PROVE  id \in Rows' <=> id \in Rows \cup Range(buffer)
      BY <1>2, <1>3, <1>5 DEF Rows
    <2> QED
      BY <1>1, <2>1 DEF Rows
  <1> QED
    BY <1>5, <1>6, <1>7

LEMMA CloseFileFiles ==
  ASSUME WBase, CloseFile
  PROVE  /\ Rows' = Rows
         /\ DOMAIN files' = DOMAIN files
         /\ \A f \in DOMAIN files :
               files'[f].footer <=> files[f].footer \/ (open /\ f = Len(files))
  <1> DEFINE n == Len(files)
             r == [files[n] EXCEPT !.footer = TRUE]
  <1>1. CASE open
    <2>1. files \in Seq(FileRec) /\ files # <<>>
      BY <1>1 DEF WBase, AWTypeOK, WPlace
    <2>2. files[n] \in FileRec /\ n \in DOMAIN files
      BY <2>1
    <2>3. r \in FileRec /\ r.rows = files[n].rows /\ r.footer
      BY <2>2 DEF FileRec
    <2>4. files' = [files EXCEPT ![n] = r]
      BY <1>1 DEF CloseFile
    <2> HIDE DEF r
    <2>6. /\ DOMAIN files' = DOMAIN files
          /\ files'[n] = r
          /\ \A f \in DOMAIN files : f # n => files'[f] = files[f]
      BY <2>1, <2>3, <2>4, ReplaceLast
    <2>7. Rows' = Rows
      BY <2>2, <2>3, <2>6 DEF Rows
    <2>8. ASSUME NEW f \in DOMAIN files
          PROVE  files'[f].footer <=> files[f].footer \/ (open /\ f = Len(files))
      BY <1>1, <2>3, <2>6
    <2> QED
      BY <2>6, <2>7, <2>8
  <1>2. CASE ~open
    <2>1. files' = files
      BY <1>2 DEF CloseFile
    <2> QED
      BY <1>2, <2>1 DEF Rows
  <1> QED
    BY <1>1, <1>2 DEF WBase, AWTypeOK

LEMMA ArchiveKeeps ==
  ASSUME WBase, NEW id \in Ids, ArchiveEmail(id)
  PROVE  /\ Kept' = Kept \cup {id}
         /\ WQuiet => WQuiet'
  <1>1. pc = "ready" /\ ~closing /\ cur' = id /\ files' = files /\ open' = open
    BY DEF ArchiveEmail, WBase, WMode
  <1>2. Rows' = Rows
    BY <1>1 DEF Rows
  <1>3. Kept' = Kept \cup {id} /\ pc' \notin {"none", "ready"} /\ closing' = FALSE
    <2>1. CASE AddRaw(id)
      BY <1>1, <1>2, <2>1 DEF AddRaw, ArchiveEmail, Kept
    <2>2. CASE AddParquet(id)
      <3>1. Range(buffer') = Range(buffer) \cup {id}
        BY <2>2, RangeOfAppend DEF AddParquet, WBase, AWTypeOK
      <3> QED
        BY <1>1, <1>2, <2>2, <3>1 DEF AddParquet, ArchiveEmail, Kept
    <2> QED
      BY <2>1, <2>2 DEF ArchiveEmail
  <1> QED
    BY <1>1, <1>3 DEF WQuiet, ArchiveEmail

LEMMA WriterStepKeeps ==
  ASSUME WBase, WriterStep
  PROVE  /\ Kept' = Kept
         /\ WQuiet => WQuiet'
  <1>1. CASE WriteRaw
    <2>1. Kept' = Kept
      BY <1>1 DEF WriteRaw, Kept, Rows
    <2> QED
      BY <1>1, <2>1 DEF WriteRaw, WQuiet, WBase, WMode
  <1>2. CASE CreateFile
    <2>1. Kept' = Kept
      BY <1>2, CreateFileFiles DEF CreateFile, Kept
    <2> QED
      BY <1>2, <2>1, CreateFileFiles DEF CreateFile, WQuiet
  <1>3. CASE WriteRowGroup
    <2>1. Range(buffer') = {}
      BY <1>3 DEF WriteRowGroup, Range
    <2>2. Kept' = Kept
      BY <1>3, <2>1, WriteRowGroupFiles DEF WriteRowGroup, Kept
    <2> QED
      BY <1>3, <2>2, WriteRowGroupFiles DEF WriteRowGroup, WQuiet
  <1>4. CASE CloseFile
    <2>1. Kept' = Kept
      BY <1>4, CloseFileFiles DEF CloseFile, Kept
    <2> QED
      BY <1>4, <2>1, CloseFileFiles DEF CloseFile, WQuiet
  <1>5. CASE SyncProgress
    <2>1. Kept' = Kept
      BY <1>5 DEF SyncProgress, Kept, Rows
    <2> QED
      BY <1>5, <2>1 DEF SyncProgress, WQuiet
  <1>6. CASE WriteLineage
    <2>1. Kept' = Kept
      BY <1>6 DEF WriteLineage, Kept, Rows
    <2> QED
      BY <1>6, <2>1 DEF WriteLineage, WQuiet, WBase, WMode
  <1>7. CASE EndDrop
    <2>1. buffer = <<>> /\ buffer' = <<>>
      BY <1>7 DEF EndDrop, Forget, WBase, WPlace
    <2>2. Kept' = Kept
      BY <1>7, <2>1 DEF EndDrop, Forget, Kept, Rows
    <2> QED
      BY <1>7, <2>2 DEF EndDrop, Forget, WQuiet
  <1> QED
    BY <1>1, <1>2, <1>3, <1>4, <1>5, <1>6, <1>7 DEF WriterStep

(* A step without a mishap keeps what the writer has, and the lineage in   *)
(* line with it.                                                           *)
LEMMA CleanKeeps ==
  ASSUME WBase, CleanStep, UNCHANGED mode
  PROVE  /\ WQuiet => WQuiet'
         /\ \/ Kept' = Kept
            \/ \E id \in Ids : ArchiveEmail(id) /\ Kept' = Kept \cup {id}
  <1>1. CASE NewWriter
    <2>1. Kept' = Kept
      BY <1>1 DEF NewWriter, diskVars, Kept, Rows
    <2> QED
      BY <1>1, <2>1 DEF NewWriter, diskVars, WQuiet, WBase, WIdle
  <1>2. CASE BeginDrop
    <2>1. Kept' = Kept
      BY <1>2 DEF BeginDrop, BeginDropTo, diskVars, Kept, Rows
    <2> QED
      BY <1>2, <2>1 DEF BeginDrop, BeginDropTo, diskVars, WQuiet
  <1>3. CASE \E id \in Ids : LogError(id)
    <2>1. Kept' = Kept
      BY <1>3 DEF LogError, memVars, Kept, Rows
    <2> QED
      BY <1>3, <2>1 DEF LogError, memVars, WQuiet
  <1>4. CASE UNCHANGED <<diskVars, memVars>>
    <2>1. Kept' = Kept
      BY <1>4 DEF diskVars, memVars, Kept, Rows
    <2> QED
      BY <1>4, <2>1 DEF diskVars, memVars, WQuiet
  <1> QED
    BY <1>1, <1>2, <1>3, <1>4, ArchiveKeeps, WriterStepKeeps DEF CleanStep

(* A mishap of a kind leaves less of its budget than there was at first. *)
LEMMA BudgetStep ==
  ASSUME AWTypeOK, BudgetLeft,
         (\E k \in Mishaps : Spend(k)) \/ UNCHANGED budget
  PROVE  /\ BudgetLeft'
         /\ \A k \in {"crash", "io"} : budget'[k] = Budget[k] =>
               budget[k] = Budget[k] /\ ~Spend(k)
  <1>1. /\ budget \in [Mishaps -> Nat] /\ Budget \in [Mishaps -> Nat]
        /\ {"crash", "io"} \subseteq Mishaps
    BY BoundAssumption DEF AWTypeOK, Mishaps
  <1>2. \A k \in {"crash", "io"} : budget'[k] <= budget[k]
    BY <1>1 DEF Spend, Mishaps
  <1>3. \A k \in {"crash", "io"} : Spend(k) => budget'[k] < budget[k]
    BY <1>1 DEF Spend
  <1>4. \A k \in {"crash", "io"} : budget'[k] \in Int
    BY <1>1 DEF Spend, Mishaps
  <1> QED
    BY <1>1, <1>2, <1>3, <1>4 DEF BudgetLeft

(* While the whole budget is there every step is a clean one. *)
LEMMA UnharmedStep ==
  ASSUME WBase, BudgetLeft, AWStep,
         (\E k \in Mishaps : Spend(k)) \/ UNCHANGED budget
  PROVE  /\ BudgetLeft'
         /\ Unharmed' => /\ Unharmed /\ CleanStep
                         /\ ~Spend("crash") /\ ~Spend("io")
  <1>1. /\ BudgetLeft'
        /\ Unharmed' => Unharmed /\ ~Spend("crash") /\ ~Spend("io")
    BY BudgetStep DEF WBase, Unharmed
  <1>2. ~Spend("crash") /\ ~Spend("io") => CleanStep
    BY DEF AWStep, CleanStep, LogErrorFails, IoError, ArchiveFails, DropFails,
           CrashWriter
  <1> QED
    BY <1>1, <1>2

(* The writer at peace: the inductive invariant of the theorem below. *)
WCalm == WBase /\ BudgetLeft /\ (Unharmed => WQuiet)

LEMMA WCalmInit ==
  ASSUME AWInit
  PROVE  WCalm
  <1>1. WBase
    BY WInvInit, WholeIsBase
  <1>2. BudgetLeft
    BY BoundAssumption DEF AWInit, BudgetLeft, Mishaps
  <1>3. WQuiet
    BY DEF AWInit, WQuiet, Kept, Rows, Range
  <1> QED
    BY <1>1, <1>2, <1>3 DEF WCalm

LEMMA WCalmStep ==
  ASSUME WCalm, AWStep, (\E k \in Mishaps : Spend(k)) \/ UNCHANGED budget
  PROVE  WCalm'
  BY WBaseStep, UnharmedStep, CleanKeeps DEF WCalm, AWStep

(* Without crashes and I/O errors the lineage and the archive name the     *)
(* same emails whenever no writer is at work, and no file is left without  *)
(* its footer: for every caller, files of any size and either mode.        *)
THEOREM LineageMatches == AWSpec => []LineageMatchesArchive
  <1>1. WCalm /\ [AWNext]_awVars => WCalm'
    <2> SUFFICES ASSUME WCalm, [AWNext]_awVars
                 PROVE  WCalm'
      OBVIOUS
    <2>1. AWStep
      BY NextIsAWStep DEF WCalm, WBase
    <2>2. (\E k \in Mishaps : Spend(k)) \/ UNCHANGED budget
      BY DEF AWNext, awVars, AnyCaller, WriterStep, IoError, NewWriter,
             ArchiveEmail, LogError, LogErrorFails, WriteRaw, CreateFile,
             WriteRowGroup, CloseFile, SyncProgress, WriteLineage, EndDrop,
             ArchiveFails, DropFails, CrashWriter, Mishaps
    <2> QED
      BY <2>1, <2>2, WCalmStep
  <1>2. WCalm => LineageMatchesArchive
    BY KeptIsDurable DEF WCalm, LineageMatchesArchive
  <1> QED
    BY <1>1, <1>2, WCalmInit, PTL DEF AWSpec
=============================================================================
