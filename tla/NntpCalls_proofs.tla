--------------------------- MODULE NntpCalls_proofs ---------------------------
(***************************************************************************)
(* Proofs about one call of handle_group after another, as long as nothing *)
(* crashes and no write fails: what the call reports is what the archive   *)
(* has.  They hold for files of any size, where a row group may be         *)
(* committed long before the footer of its file is written.                *)
(*                                                                         *)
(* The writer is seen through Kept, the emails it was given and did not    *)
(* lose: no step of handle_group or of its writer takes anything out of    *)
(* Kept, and when no writer is at work Kept is the archive (WQuiet).       *)
(***************************************************************************)
EXTENDS NntpGroup_proofs

(* The number handle_group was at when it archived the last time. *)
Tip == IF pc = "raw" THEN cur
       ELSE IF buffer # <<>> THEN Last(buffer)
       ELSE IF synced # <<>> THEN Last(synced)
       ELSE LastArticle

Passed(i) == i \in Kept \/ Gone(i)

QKept ==
  /\ progress # None => progress \in Kept
  /\ Range(synced) \subseteq Kept
  /\ \A m \in Kept : m <= Tip
  /\ \A m \in Kept : \A i \in 1..m : Passed(i)

(* Only the first article of a call may have been archived before. *)
QRead ==
  phase = "read" =>
    /\ first <= next /\ LastArticle <= next
    /\ \A m \in Kept : m < next \/ m <= first
    /\ \A i \in 1..(next - 1) : Passed(i)

QDone ==
  outcome = "complete" => /\ phase \notin {"group", "read"}
                          /\ \A i \in 1..limit : Passed(i)

GQuiet == QKept /\ QRead /\ QDone

GCalm == GBase /\ BudgetLeft /\ (Unharmed => WQuiet /\ GQuiet)
-----------------------------------------------------------------------------
LEMMA KeptType ==
  ASSUME GBase
  PROVE  Kept \subseteq Nat /\ LastArticle \in Nat
  <1>1. /\ AWTypeOK /\ Ids \subseteq Nat /\ (pc = "raw" => cur \in Ids)
    BY ArticleAssumption DEF GBase, TypeOK, WBase, WMode
  <1>2. eml \subseteq Ids /\ Rows \subseteq Ids /\ Range(buffer) \subseteq Ids
    BY <1>1, RangeType DEF AWTypeOK, Rows
  <1>3. Kept \subseteq Ids
    BY <1>1, <1>2 DEF Kept
  <1> QED
    BY <1>1, <1>3, LastArticleType

LEMMA BudgetMove ==
  ASSUME [Next]_vars
  PROVE  (\E k \in Mishaps : Spend(k)) \/ UNCHANGED budget
  <1>1. CASE Wait \/ Restart \/ Post \/ Expire \/ RequestShutdown \/ UNCHANGED vars
    BY <1>1 DEF Wait, Poll, SeeShutdown, ReconnectFails, ChannelClosed, Restart,
                Post, Expire, RequestShutdown, vars, awVars, Mishaps
  <1>2. CASE \/ StartGroup \/ GroupHasNews \/ GroupHasNoNews \/ GroupFails
             \/ FinishGroup \/ AbandonGroup
    BY <1>2 DEF StartGroup, NewWriter, GroupHasNews, GroupHasNoNews, GroupFails,
                FinishGroup, AbandonGroup, awVars, Mishaps
  <1>3. CASE FetchArticle \/ FetchUnavailable \/ FetchRetry \/ FetchFails
    BY <1>3 DEF FetchArticle, ArchiveEmail, FetchUnavailable, LogError,
                LogErrorFails, FetchRetry, FetchFails, Mishaps
  <1>4. CASE Writer \/ WriterFails \/ Crash
    BY <1>4 DEF Writer, WriterStep, WriteRaw, CreateFile, WriteRowGroup,
                CloseFile, SyncProgress, WriteLineage, EndDrop, WriterFails,
                IoError, ArchiveFails, DropFails, Crash, CrashWriter, Mishaps
  <1> QED
    BY <1>1, <1>2, <1>3, <1>4 DEF Next, Work, Trouble, Wait

(* What a step without mishap starts from and ends in. *)
CleanNext ==
  /\ GBase /\ GBase' /\ WQuiet /\ GQuiet
  /\ [Next]_vars
  /\ low' \in Nat /\ low' >= low
  /\ ~Spend("crash") /\ ~Spend("io")

LEMMA PassedStays ==
  ASSUME CleanNext, Kept \subseteq Kept', NEW i \in Nat, Passed(i)
  PROVE  Passed(i)'
  BY ArticleAssumption DEF CleanNext, GBase, TypeOK, Passed, Gone

(* QDone outlives every step that neither begins a call nor ends one well. *)
LEMMA DoneStays ==
  ASSUME CleanNext, Kept \subseteq Kept',
         outcome' = "complete" => outcome = "complete",
         UNCHANGED limit,
         phase' \in {"group", "read"} => phase \in {"group", "read"}
  PROVE  QDone'
  <1>1. limit \in Nat
    BY ArticleAssumption DEF CleanNext, GBase, TypeOK
  <1>2. \A i \in Nat : Passed(i) => Passed(i)'
    BY PassedStays
  <1> QED
    BY <1>1, <1>2 DEF CleanNext, GQuiet, QDone

(* QRead outlives every step of the writer inside a call. *)
LEMMA ReadStays ==
  ASSUME CleanNext, Kept' = Kept, UNCHANGED <<first, next>>,
         phase' = "read" => phase = "read",
         progress' = progress \/ progress' \in Kept
  PROVE  QRead'
  <1>1. /\ next \in Nat /\ first \in Nat
        /\ Kept \subseteq Nat /\ LastArticle \in Nat /\ None \notin Ids
    BY ArticleAssumption, IdsAssumption, KeptType DEF CleanNext, GBase, TypeOK
  <1>2. \A i \in Nat : Passed(i) => Passed(i)'
    BY PassedStays
  <1>3. progress' = progress => LastArticle' = LastArticle
    BY DEF LastArticle
  <1>4. progress' \in Kept => LastArticle' \in {progress', 0}
    BY DEF LastArticle
  <1>5. ASSUME phase = "read"
        PROVE  LastArticle' <= next
    <2>1. LastArticle <= next /\ first <= next /\ \A m \in Kept : m < next \/ m <= first
      BY <1>5 DEF CleanNext, GQuiet, QRead
    <2>2. CASE progress' = progress
      BY <1>3, <2>1, <2>2
    <2>3. CASE progress' \in Kept
      <3>1. progress' \in Nat /\ progress' <= next
        BY <1>1, <2>1, <2>3
      <3> QED
        BY <1>1, <1>4, <2>3, <3>1
    <2> QED
      BY <2>2, <2>3
  <1> QED
    BY <1>1, <1>2, <1>5 DEF CleanNext, GQuiet, QRead

(* QKept outlives a step that archives nothing and keeps the Tip. *)
LEMMA KeptStays ==
  ASSUME CleanNext, Kept' = Kept, Tip' = Tip,
         progress' = progress \/ progress' \in Kept,
         Range(synced)' \subseteq Kept
  PROVE  QKept'
  <1>1. Kept \subseteq Nat
    BY KeptType DEF CleanNext
  <1>2. \A i \in Nat : Passed(i) => Passed(i)'
    BY PassedStays
  <1> QED
    BY <1>1, <1>2 DEF CleanNext, GQuiet, QKept
-----------------------------------------------------------------------------
(* Nothing of the writer moves. *)
LEMMA RestKeeps ==
  ASSUME CleanNext, UNCHANGED <<eml, files, progress, pc, buffer, synced, cur>>,
         \/ FetchRetry \/ RequestShutdown \/ Restart \/ Post \/ Expire \/ Wait
         \/ UNCHANGED vars
  PROVE  GQuiet'
  <1>1. Kept' = Kept
    BY DEF Kept, Rows
  <1>2. Tip' = Tip
    BY DEF Tip, LastArticle
  <1>3. QKept'
    BY <1>1, <1>2, KeptStays DEF CleanNext, GQuiet, QKept
  <1>4. /\ UNCHANGED <<first, next, limit>>
        /\ phase' = "read" => phase = "read"
        /\ outcome' = "complete" => outcome = "complete"
        /\ phase' \in {"group", "read"} => phase \in {"group", "read"}
    BY DEF FetchRetry, RequestShutdown, Restart, Post, Expire, Wait, Poll,
           SeeShutdown, ReconnectFails, ChannelClosed, Goto, vars, groupVars
  <1> QED
    BY <1>1, <1>3, <1>4, ReadStays, DoneStays DEF GQuiet

LEMMA RestIsRest ==
  ASSUME \/ FetchRetry \/ RequestShutdown \/ Restart \/ Post \/ Expire \/ Wait
         \/ UNCHANGED vars
  PROVE  UNCHANGED <<eml, files, progress, pc, buffer, synced, cur>>
  BY DEF FetchRetry, RequestShutdown, Restart, Post, Expire, Wait, Poll,
         SeeShutdown, ReconnectFails, ChannelClosed, Goto, vars, awVars,
         diskVars, memVars

LEMMA StartGroupKeeps ==
  ASSUME CleanNext, StartGroup
  PROVE  GQuiet'
  <1>1. /\ UNCHANGED <<eml, files, progress, buffer, synced, cur>>
        /\ pc = "none" /\ pc' = "ready" /\ phase' = "group"
        /\ outcome' = "none"
    BY DEF StartGroup, NewWriter, diskVars
  <1>2. Kept' = Kept
    BY <1>1 DEF Kept, Rows
  <1>3. Tip' = Tip
    BY <1>1 DEF Tip, LastArticle
  <1>4. QKept'
    BY <1>1, <1>2, <1>3, KeptStays DEF CleanNext, GQuiet, QKept
  <1>5. QRead' /\ QDone'
    BY <1>1 DEF QRead, QDone
  <1> QED
    BY <1>4, <1>5 DEF GQuiet

LEMMA GroupHasNewsCalm ==
  ASSUME CleanNext, GroupHasNews
  PROVE  GQuiet'
  <1>1. /\ UNCHANGED <<eml, files, progress, buffer, synced, cur, pc, outcome, low>>
        /\ pc = "ready" /\ buffer = <<>> /\ synced = <<>> /\ phase = "group"
        /\ next' = Larger(LastArticle, low) /\ first' = next'
    BY DEF GroupHasNews, awVars, diskVars, memVars, serverVars, CleanNext, GBase,
           GPhase
  <1>2. Kept' = Kept
    BY <1>1 DEF Kept, Rows
  <1>3. Tip' = Tip /\ Tip = LastArticle /\ LastArticle' = LastArticle
    BY <1>1 DEF Tip, LastArticle
  <1>4. QKept'
    BY <1>1, <1>2, <1>3, KeptStays DEF CleanNext, GQuiet, QKept
  <1>5. Kept \subseteq Nat /\ LastArticle \in Nat /\ low \in Nat
    BY KeptType, ArticleAssumption DEF CleanNext, GBase, TypeOK
  <1>6. \A i \in 1..LastArticle : Passed(i)
    BY <1>5 DEF LastArticle, CleanNext, GQuiet, QKept
  <1>7. \A i \in 1..(next' - 1) : Passed(i)
    BY <1>1, <1>5, <1>6 DEF Larger, Passed, Gone
  <1>8. \A i \in Nat : Passed(i) => Passed(i)'
    BY <1>2, PassedStays
  <1>9. next' \in Nat /\ LastArticle <= next'
    BY <1>1, <1>5 DEF Larger
  <1>10. QRead'
    BY <1>1, <1>2, <1>3, <1>5, <1>7, <1>8, <1>9
       DEF QRead, CleanNext, GQuiet, QKept
  <1>11. outcome # "complete"
    BY <1>1 DEF CleanNext, GQuiet, QDone
  <1>12. QDone'
    BY <1>1, <1>11 DEF QDone
  <1> QED
    BY <1>4, <1>10, <1>12 DEF GQuiet

(* handle_group returns: it may say "complete" only past its limit. *)
LEMMA ReturnCalm ==
  ASSUME CleanNext, NEW r \in Outcomes, Return(r),
         r = "complete" => phase = "read" /\ next > limit
  PROVE  GQuiet'
  <1>1. /\ UNCHANGED <<eml, files, progress, buffer, synced, cur, limit>>
        /\ pc = "ready" /\ pc' # "raw" /\ phase' = "idle" /\ outcome' = r
    BY DEF Return, BeginDrop, BeginDropTo, diskVars
  <1>2. Kept' = Kept
    BY <1>1 DEF Kept, Rows
  <1>3. Tip' = Tip
    BY <1>1 DEF Tip, LastArticle
  <1>4. QKept'
    BY <1>1, <1>2, <1>3, KeptStays DEF CleanNext, GQuiet, QKept
  <1>5. limit \in Nat /\ next \in Nat
    BY ArticleAssumption DEF CleanNext, GBase, TypeOK
  <1>6. \A i \in Nat : Passed(i) => Passed(i)'
    BY <1>2, PassedStays
  <1>7. QDone'
    BY <1>1, <1>5, <1>6 DEF QDone, CleanNext, GQuiet, QRead
  <1>8. QRead'
    BY <1>1 DEF QRead
  <1> QED
    BY <1>4, <1>7, <1>8 DEF GQuiet

LEMMA ReadingFacts ==
  ASSUME CleanNext, Fetching
  PROVE  /\ phase = "read" /\ pc = "ready" /\ outcome # "complete"
         /\ next \in Ids /\ next \in Nat /\ first \in Nat /\ first <= next
         /\ LastArticle \in Nat /\ LastArticle <= next /\ Kept \subseteq Nat
         /\ \A m \in Kept : m <= next
         /\ \A i \in 1..(next - 1) : Passed(i)
  <1>1. phase = "read" /\ pc = "ready" /\ next \in Ids
    BY NextType DEF Fetching, Reading, CleanNext, GBase
  <1>2. next \in Nat /\ first \in Nat /\ Kept \subseteq Nat /\ LastArticle \in Nat
    BY KeptType, ArticleAssumption DEF CleanNext, GBase, TypeOK
  <1> QED
    BY <1>1, <1>2 DEF CleanNext, GQuiet, QRead, QDone

LEMMA FetchUnavailableCalm ==
  ASSUME CleanNext, FetchUnavailable
  PROVE  GQuiet'
  <1>1. /\ UNCHANGED <<eml, files, progress, pc, buffer, synced, cur, first, limit,
                      phase, outcome>>
        /\ next' = next + 1 /\ Gone(next) /\ Fetching
    BY DEF FetchUnavailable, LogError, LogErrorFails, NextMail, diskVars, memVars
  <1>2. Kept' = Kept
    BY <1>1 DEF Kept, Rows
  <1>3. Tip' = Tip /\ LastArticle' = LastArticle
    BY <1>1 DEF Tip, LastArticle
  <1>4. QKept'
    BY <1>1, <1>2, <1>3, KeptStays DEF CleanNext, GQuiet, QKept
  <1>5. \A i \in Nat : Passed(i) => Passed(i)'
    BY <1>2, PassedStays
  <1>6. \A i \in 1..next : Passed(i)
    BY <1>1, ReadingFacts DEF Passed
  <1>7. QRead'
    BY <1>1, <1>2, <1>3, <1>5, <1>6, ReadingFacts DEF QRead, CleanNext, GQuiet
  <1>8. QDone'
    BY <1>1, ReadingFacts DEF QDone
  <1> QED
    BY <1>4, <1>7, <1>8 DEF GQuiet

(* An article is archived: it is the Tip now. *)
LEMMA FetchArticleCalm ==
  ASSUME CleanNext, FetchArticle
  PROVE  GQuiet'
  <1>1. /\ UNCHANGED <<progress, synced, first, limit, phase, outcome>>
        /\ next' = next + 1 /\ Fetching /\ ArchiveEmail(next) /\ cur' = next
    BY DEF FetchArticle, ArchiveEmail, NextMail
  <1>2. Kept' = Kept \cup {next}
    BY <1>1, ArchiveKeeps, ReadingFacts DEF CleanNext, GBase
  <1>3. \A i \in Nat : Passed(i) => Passed(i)'
    BY <1>2, PassedStays
  <1>4. LastArticle' = LastArticle
    BY <1>1 DEF LastArticle
  <1>5. Tip' = next
    <2>1. CASE AddRaw(next)
      BY <1>1, <2>1 DEF AddRaw, Tip
    <2>2. CASE AddParquet(next)
      <3>1. buffer \in Seq(Ids) /\ next \in Ids
        BY <1>1, ReadingFacts DEF CleanNext, GBase, WBase, AWTypeOK
      <3>2. buffer' = Append(buffer, next) /\ pc' # "raw"
        BY <2>2 DEF AddParquet
      <3>3. buffer' # <<>> /\ Last(buffer') = next
        BY <3>1, <3>2 DEF Last
      <3> QED
        BY <3>2, <3>3 DEF Tip
    <2> QED
      BY <1>1, <2>1, <2>2 DEF ArchiveEmail
  <1>6. \A i \in 1..next : Passed(i)'
    BY <1>1, <1>2, <1>3, ReadingFacts DEF Passed
  <1>7. QKept'
    <2>1. \A m \in Kept : \A i \in 1..m : Passed(i)'
      BY <1>1, <1>3, ReadingFacts DEF CleanNext, GQuiet, QKept
    <2> QED
      BY <1>1, <1>2, <1>5, <1>6, <2>1, ReadingFacts DEF CleanNext, GQuiet, QKept
  <1>8. QRead'
    BY <1>1, <1>2, <1>4, <1>6, ReadingFacts DEF QRead, CleanNext, GQuiet
  <1>9. QDone'
    BY <1>1, ReadingFacts DEF QDone
  <1> QED
    BY <1>7, <1>8, <1>9 DEF GQuiet

LEMMA LastOfTail ==
  ASSUME NEW S, NEW s \in Seq(S), s # <<>>
  PROVE  /\ Tail(s) = <<>> => Last(s) = Head(s)
         /\ Tail(s) # <<>> => Last(Tail(s)) = Last(s)
  <1> DEFINE t == Tail(s)
             n == Len(s)
  <1>1. /\ t \in Seq(S) /\ n \in Nat /\ n >= 1
        /\ Len(t) = n - 1 /\ Head(s) = s[1]
        /\ \A j \in 1..(n - 1) : t[j] = s[j + 1]
    OBVIOUS
  <1>2. Last(s) = s[n] /\ Last(t) = t[Len(t)]
    BY DEF Last
  <1>3. t = <<>> <=> Len(t) = 0
    BY <1>1, EmptySeq
  <1> HIDE DEF t, n
  <1>4. t = <<>> => Last(s) = Head(s)
    BY <1>1, <1>2, <1>3
  <1>5. t # <<>> => Last(t) = Last(s)
    <2>1. ASSUME n # 1 PROVE t[n - 1] = s[n]
      <3>1. n - 1 \in 1..(n - 1) /\ (n - 1) + 1 = n
        BY <1>1, <2>1
      <3> QED
        BY <1>1, <3>1
    <2> QED
      BY <1>1, <1>2, <1>3, <2>1
  <1> QED
    BY <1>4, <1>5 DEF t

LEMMA WriterTip ==
  ASSUME CleanNext, WriterStep
  PROVE  /\ Tip' = Tip
         /\ progress' = progress \/ progress' \in Kept
         /\ Range(synced)' \subseteq Kept
  <1>0. /\ buffer \in Seq(Ids) /\ synced \in Seq(Ids) /\ Range(<<>>) = {}
        /\ Range(synced) \subseteq Kept /\ None \notin Ids
    BY IdsAssumption DEF CleanNext, GBase, WBase, AWTypeOK, GQuiet, QKept, Range
  <1>1. CASE WriteRaw
    <2>1. pc = "raw" /\ RawMode /\ buffer = <<>> /\ synced' = <<cur>>
          /\ pc' = "sync" /\ buffer' = buffer /\ progress' = progress
      BY <1>1 DEF WriteRaw, CleanNext, GBase, WBase, WMode
    <2>2. Last(synced') = cur /\ synced' # <<>> /\ Range(synced') = {cur}
      BY <2>1 DEF Last, Range
    <2>3. cur \in Kept
      BY <2>1 DEF Kept
    <2> QED
      BY <2>1, <2>2, <2>3 DEF Tip
  <1>2. CASE CreateFile \/ WriteLineage
    BY <1>0, <1>2 DEF CreateFile, WriteLineage, Tip, LastArticle
  <1>3. CASE WriteRowGroup
    <2>1. /\ synced = <<>> /\ synced' = buffer /\ buffer' = <<>>
          /\ progress' = progress /\ pc = "flush" /\ pc' # "raw"
      BY <1>3 DEF WriteRowGroup, CleanNext, GBase, WBase, WPlace
    <2>2. Range(buffer) \subseteq Kept
      BY DEF Kept
    <2> QED
      BY <2>1, <2>2 DEF Tip, LastArticle
  <1>4. CASE CloseFile
    BY <1>0, <1>4 DEF CloseFile, Tip, LastArticle
  <1>5. CASE SyncProgress
    <2>1. /\ pc = "sync" /\ pc' # "raw" /\ synced # <<>> /\ buffer = <<>>
          /\ buffer' = buffer
          /\ progress' = Head(synced) /\ synced' = Tail(synced)
      BY <1>5 DEF SyncProgress, CleanNext, GBase, WBase, WPlace
    <2>2. Head(synced) \in Range(synced) /\ Range(Tail(synced)) \subseteq Range(synced)
      BY <1>0, <2>1, TailFacts DEF Range
    <2>3. progress' # None /\ LastArticle' = Head(synced)
      BY <1>0, <2>1, <2>2, RangeType DEF LastArticle
    <2>4. /\ Tail(synced) = <<>> => Last(synced) = Head(synced)
          /\ Tail(synced) # <<>> => Last(Tail(synced)) = Last(synced)
      BY <1>0, <2>1, LastOfTail
    <2> QED
      BY <1>0, <2>1, <2>2, <2>3, <2>4 DEF Tip
  <1>6. CASE EndDrop
    <2>1. /\ pc = "sync" /\ pc' = "none" /\ buffer = <<>>
          /\ buffer' = <<>> /\ synced' = <<>>
          /\ progress' = IF synced # <<>> THEN Last(synced) ELSE progress
      BY <1>6 DEF EndDrop, Forget, CleanNext, GBase, WBase, WPlace
    <2>2. synced # <<>> => Last(synced) \in Range(synced)
      BY <1>0 DEF Last, Range
    <2>3. synced # <<>> => LastArticle' = Last(synced)
      BY <1>0, <2>1, <2>2, RangeType DEF LastArticle
    <2>4. synced = <<>> => LastArticle' = LastArticle
      BY <2>1 DEF LastArticle
    <2> QED
      BY <1>0, <2>1, <2>2, <2>3, <2>4 DEF Tip
  <1> QED
    BY <1>1, <1>2, <1>3, <1>4, <1>5, <1>6 DEF WriterStep

LEMMA WriterCalm ==
  ASSUME CleanNext, Writer
  PROVE  GQuiet'
  <1>1. WriterStep /\ UNCHANGED <<first, next, limit, phase, outcome>>
    BY DEF Writer, groupVars
  <1>2. Kept' = Kept
    BY <1>1, WriterStepKeeps DEF CleanNext, GBase
  <1> QED
    BY <1>1, <1>2, WriterTip, KeptStays, ReadStays, DoneStays DEF GQuiet

LEMMA CleanNextKeeps ==
  ASSUME CleanNext
  PROVE  GQuiet'
  <1>1. CASE \/ FetchRetry \/ RequestShutdown \/ Restart \/ Post \/ Expire
             \/ Wait \/ UNCHANGED vars
    BY <1>1, RestIsRest, RestKeeps
  <1>2. CASE GroupHasNoNews \/ GroupFails \/ FetchFails \/ FinishGroup \/ AbandonGroup
    <2>1. PICK r \in Outcomes :
             Return(r) /\ (r = "complete" => phase = "read" /\ next > limit)
      BY <1>2 DEF GroupHasNoNews, GroupFails, FetchFails, FinishGroup,
                  AbandonGroup, Reading, Outcomes
    <2> QED
      BY <2>1, ReturnCalm
  <1>3. ~WriterFails /\ ~Crash
    BY DEF CleanNext, WriterFails, IoError, ArchiveFails, DropFails, Crash,
           CrashWriter
  <1> QED
    BY <1>1, <1>2, <1>3, StartGroupKeeps, GroupHasNewsCalm, FetchArticleCalm,
       FetchUnavailableCalm, WriterCalm
       DEF CleanNext, Next, Work, Trouble, Wait
-----------------------------------------------------------------------------
LEMMA GCalmInit ==
  ASSUME Init
  PROVE  GCalm
  <1>1. WCalm /\ GBase
    BY WCalmInit, GBaseInit DEF Init
  <1>2. /\ pc = "none" /\ buffer = <<>> /\ synced = <<>> /\ phase = "idle"
        /\ progress = None /\ outcome = "none" /\ eml = {} /\ files = <<>>
    BY DEF Init, AWInit
  <1>3. Range(synced) = {} /\ Kept = {}
    BY <1>2 DEF Range, Kept, Rows
  <1>4. GQuiet
    BY <1>2, <1>3 DEF GQuiet, QKept, QRead, QDone
  <1> QED
    BY <1>1, <1>4 DEF WCalm, GCalm

LEMMA GCalmStep ==
  ASSUME GCalm, [Next]_vars
  PROVE  /\ GCalm'
         /\ Unharmed' => Unharmed /\ CleanNext
  <1>1. AWStep /\ GBase' /\ low' \in Nat /\ low' >= low
    BY NextIsWriterStep, GBaseStep, LowGrows DEF GCalm, GBase
  <1>2. (\E k \in Mishaps : Spend(k)) \/ UNCHANGED budget
    BY BudgetMove
  <1>3. /\ BudgetLeft'
        /\ Unharmed' => /\ Unharmed /\ CleanStep
                        /\ ~Spend("crash") /\ ~Spend("io")
    BY <1>1, <1>2, UnharmedStep DEF GCalm, GBase
  <1>4. Unharmed' => CleanNext
    BY <1>1, <1>3 DEF CleanNext, GCalm
  <1>5. Unharmed' => WQuiet' /\ GQuiet'
    BY <1>1, <1>3, <1>4, CleanKeeps, CleanNextKeeps DEF GCalm, GBase, AWStep
  <1> QED
    BY <1>1, <1>3, <1>4, <1>5 DEF GCalm

(* A call of handle_group that says "complete" has archived every article  *)
(* up to its limit that the server still had, buffered ones included, once *)
(* its writer is dropped: with files of any size, in either mode.          *)
THEOREM OkIsArchived == Spec => []OkMeansArchived
  <1>1. GCalm => OkMeansArchived
    BY KeptIsDurable
       DEF GCalm, GBase, GQuiet, QDone, OkMeansArchived, Passed, Settled
  <1>2. GCalm /\ [Next]_vars => GCalm'
    BY GCalmStep
  <1> QED
    BY <1>1, <1>2, GCalmInit, PTL DEF Spec

(* Between two calls the lineage of the list names what its archive has.   *)
THEOREM GroupLineageMatches == Spec => []LineageMatchesArchive
  <1>1. GCalm => LineageMatchesArchive
    BY KeptIsDurable DEF GCalm, GBase, LineageMatchesArchive
  <1>2. GCalm /\ [Next]_vars => GCalm'
    BY GCalmStep
  <1> QED
    BY <1>1, <1>2, GCalmInit, PTL DEF Spec

(* Only the article a call starts at is ever archived again. *)
THEOREM RefetchIsAtStart == Spec => RefetchOnlyAtStart
  <1>1. GCalm /\ [Next]_vars =>
          GCalm' /\ [Unharmed /\ FetchArticle /\ next \in Durable
                       => next = first]_vars
    <2> SUFFICES ASSUME GCalm, [Next]_vars, Unharmed, FetchArticle,
                        next \in Durable
                 PROVE  next = first
      BY GCalmStep
    <2>1. next \in Kept /\ phase = "read"
      BY DurableIsKept DEF FetchArticle, Fetching, Reading
    <2>2. first <= next /\ (next < next \/ next <= first)
      BY <2>1 DEF GCalm, GQuiet, QRead
    <2>3. next \in Nat /\ first \in Nat
      BY ArticleAssumption DEF GCalm, GBase, TypeOK
    <2> QED
      BY <2>2, <2>3
  <1> QED
    BY <1>1, GCalmInit, PTL DEF Spec, RefetchOnlyAtStart
-----------------------------------------------------------------------------
(* i lies behind one of the places that hold a number handle_group was at. *)
Visited(i) ==
  \/ i <= LastArticle
  \/ \E m \in Range(buffer) \cup Range(synced) : i <= m
  \/ pc = "raw" /\ i <= cur
  \/ phase = "read" /\ i < next

(* As long as no write failed, a line or the expiry of the article tells   *)
(* of every cancelled article that was visited.                            *)
Logged ==
  \A i \in Cancelled : Visited(i) => i \in errors \/ i < low

GLog == GBase /\ BudgetLeft /\ (budget["io"] = Budget["io"] => Logged)

(* What a step without failed write starts from and ends in. *)
LogNext ==
  /\ GBase /\ GBase' /\ Logged
  /\ [Next]_vars
  /\ low' \in Nat /\ low' >= low
  /\ ~Spend("io")

(* Most steps visit nothing and take no line away. *)
LEMMA LogFrame ==
  ASSUME LogNext, errors \subseteq errors',
         \A i \in Cancelled : Visited(i)' => Visited(i)
  PROVE  Logged'
  <1>1. \A i \in Cancelled : i \in Nat /\ low \in Nat
    BY ArticleAssumption DEF LogNext, GBase, TypeOK
  <1> QED
    BY <1>1 DEF LogNext, Logged

LEMMA RestLogs ==
  ASSUME LogNext,
         \/ FetchRetry \/ RequestShutdown \/ Restart \/ Post \/ Expire \/ Wait
         \/ StartGroup \/ (\E r \in Outcomes : Return(r)) \/ UNCHANGED vars
  PROVE  Logged'
  <1>1. /\ UNCHANGED <<progress, buffer, synced, cur, errors>>
        /\ pc' = "raw" => pc = "raw"
        /\ phase' = "read" => phase = "read" /\ next' = next
    BY DEF FetchRetry, RequestShutdown, Restart, Post, Expire, Wait, Poll,
           SeeShutdown, ReconnectFails, ChannelClosed, Goto, StartGroup,
           NewWriter, Return, BeginDrop, BeginDropTo, vars, awVars, diskVars,
           memVars, groupVars
  <1> QED
    BY <1>1, LogFrame DEF Visited, LastArticle

LEMMA GroupHasNewsLogs ==
  ASSUME LogNext, GroupHasNews
  PROVE  Logged'
  <1>1. /\ UNCHANGED <<progress, buffer, synced, cur, errors, pc, low>>
        /\ phase' = "read" /\ next' = Larger(LastArticle, low)
    BY DEF GroupHasNews, awVars, diskVars, memVars, serverVars
  <1>2. LastArticle \in Nat /\ low \in Nat /\ Cancelled \subseteq Nat
    BY KeptType, ArticleAssumption DEF LogNext, GBase, TypeOK
  <1>3. ASSUME NEW i \in Cancelled, Visited(i)'
        PROVE  Visited(i) \/ i < low
    <2>1. i < next' => i < low \/ i <= LastArticle
      BY <1>1, <1>2 DEF Larger
    <2> QED
      BY <1>1, <1>3, <2>1 DEF Visited, LastArticle
  <1> QED
    BY <1>1, <1>3 DEF LogNext, Logged

(* An article that is archived is not a cancelled one. *)
LEMMA FetchArticleLogs ==
  ASSUME LogNext, FetchArticle
  PROVE  Logged'
  <1>1. /\ UNCHANGED <<progress, synced, errors, low, phase>>
        /\ next' = next + 1 /\ Fetching /\ ArchiveEmail(next) /\ cur' = next
        /\ next \notin Cancelled
    BY DEF FetchArticle, ArchiveEmail, NextMail, serverVars, Gone
  <1>2. next \in Ids /\ next \in Nat /\ Cancelled \subseteq Nat
    BY <1>1, NextType, ArticleAssumption DEF LogNext, GBase, TypeOK
  <1>3. Range(buffer') \subseteq Range(buffer) \cup {next}
    <2>1. CASE AddRaw(next)
      BY <2>1 DEF AddRaw
    <2>2. CASE AddParquet(next)
      BY <1>2, <2>2, RangeOfAppend
         DEF AddParquet, LogNext, GBase, WBase, AWTypeOK
    <2> QED
      BY <1>1, <2>1, <2>2 DEF ArchiveEmail
  <1>4. phase = "read"
    BY <1>1 DEF Fetching, Reading
  <1>5. ASSUME NEW i \in Cancelled, Visited(i)'
        PROVE  Visited(i)
    <2>1. i <= next => i < next
      BY <1>1, <1>2
    <2>2. i < next + 1 => i < next
      BY <1>1, <1>2
    <2> QED
      BY <1>1, <1>3, <1>4, <1>5, <2>1, <2>2 DEF Visited, LastArticle
  <1> QED
    BY <1>1, <1>5, LogFrame

LEMMA FetchUnavailableLogs ==
  ASSUME LogNext, FetchUnavailable
  PROVE  Logged'
  <1>1. /\ UNCHANGED <<progress, pc, buffer, synced, cur, low, phase>>
        /\ next' = next + 1 /\ errors' = errors \cup {next}
    BY DEF FetchUnavailable, LogError, LogErrorFails, NextMail, diskVars, memVars,
           serverVars, LogNext
  <1>2. next \in Nat /\ Cancelled \subseteq Nat
    BY ArticleAssumption DEF LogNext, GBase, TypeOK
  <1>3. ASSUME NEW i \in Cancelled, Visited(i)'
        PROVE  Visited(i) \/ i = next
    <2>1. i < next + 1 => i < next \/ i = next
      BY <1>2
    <2> QED
      BY <1>1, <1>3, <2>1 DEF Visited, LastArticle
  <1> QED
    BY <1>1, <1>3 DEF LogNext, Logged

LEMMA WriterLogs ==
  ASSUME LogNext, Writer
  PROVE  Logged'
  <1>0. /\ AWStep /\ AWTypeOK /\ UNCHANGED <<phase, next>> /\ WriterStep
        /\ synced \in Seq(Ids) /\ Range(<<>>) = {} /\ None \notin Ids
    BY NextIsWriterStep, IdsAssumption
       DEF LogNext, GBase, WBase, Writer, groupVars, AWTypeOK, Range
  <1>1. UNCHANGED errors
    BY <1>0 DEF WriterStep, WriteRaw, CreateFile, WriteRowGroup, CloseFile,
                SyncProgress, WriteLineage, EndDrop
  <1>2. \/ LastArticle' = LastArticle
        \/ LastArticle' \in Range(synced)
    <2>1. CASE progress' = progress
      BY <2>1 DEF LastArticle
    <2>2. CASE progress' \in Range(synced)
      BY <1>0, <2>2, RangeType DEF LastArticle
    <2> QED
      BY <1>0, <2>1, <2>2, ProgressStep
  <1>3. pc' # "raw"
    BY <1>0 DEF WriterStep, WriteRaw, CreateFile, WriteRowGroup, CloseFile,
                SyncProgress, WriteLineage, EndDrop, Forget
  <1>4. /\ Range(buffer') \subseteq Range(buffer)
        /\ \/ Range(synced') \subseteq Range(synced) \cup Range(buffer)
           \/ pc = "raw" /\ Range(synced') = {cur}
    <2>1. CASE WriteRaw
      BY <2>1 DEF WriteRaw, Range
    <2>2. CASE CreateFile \/ CloseFile \/ WriteLineage
      BY <2>2 DEF CreateFile, CloseFile, WriteLineage
    <2>3. CASE WriteRowGroup
      BY <1>0, <2>3 DEF WriteRowGroup
    <2>4. CASE SyncProgress
      <3>1. Range(Tail(synced)) \subseteq Range(synced)
        BY <1>0, <2>4 DEF SyncProgress, Range
      <3> QED
        BY <2>4, <3>1 DEF SyncProgress
    <2>5. CASE EndDrop
      BY <1>0, <2>5 DEF EndDrop, Forget
    <2> QED
      BY <1>0, <2>1, <2>2, <2>3, <2>4, <2>5 DEF WriterStep
  <1>5. ASSUME NEW i \in Cancelled, Visited(i)'
        PROVE  Visited(i)
    BY <1>0, <1>2, <1>3, <1>4, <1>5 DEF Visited
  <1> QED
    BY <1>1, <1>5, LogFrame

LEMMA CrashLogs ==
  ASSUME LogNext, Crash
  PROVE  Logged'
  <1>1. /\ UNCHANGED <<progress, errors>> /\ pc' = "none" /\ phase' = "idle"
        /\ Range(buffer') = {} /\ Range(synced') = {}
    BY DEF Crash, CrashWriter, Forget, diskVars, Range
  <1> QED
    BY <1>1, LogFrame DEF Visited, LastArticle

LEMMA GLogStep ==
  ASSUME GLog, [Next]_vars
  PROVE  GLog'
  <1>1. AWStep /\ GBase' /\ low' \in Nat /\ low' >= low
    BY NextIsWriterStep, GBaseStep, LowGrows DEF GLog, GBase
  <1>2. /\ BudgetLeft'
        /\ budget'["io"] = Budget["io"] =>
              budget["io"] = Budget["io"] /\ ~Spend("io")
    BY BudgetMove, BudgetStep DEF GLog, GBase, WBase
  <1> SUFFICES ASSUME LogNext
               PROVE  Logged'
    BY <1>1, <1>2 DEF GLog, LogNext
  <1>3. CASE GroupHasNoNews \/ GroupFails \/ FetchFails \/ FinishGroup \/ AbandonGroup
    <2>1. \E r \in Outcomes : Return(r)
      BY <1>3 DEF GroupHasNoNews, GroupFails, FetchFails, FinishGroup,
                  AbandonGroup, Outcomes
    <2> QED
      BY <2>1, RestLogs
  <1>4. ~WriterFails
    BY DEF LogNext, WriterFails, IoError, ArchiveFails, DropFails
  <1> QED
    BY <1>3, <1>4, RestLogs, GroupHasNewsLogs, FetchArticleLogs,
       FetchUnavailableLogs, WriterLogs, CrashLogs
       DEF LogNext, Next, Work, Trouble, Wait

(* As long as no write failed, every article up to last_email that the     *)
(* archive does not have is in __errors.csv or expired before it was asked *)
(* for: after any crashes, failed fetches and stops, when a parquet file   *)
(* has at most 2048 emails, and in raw mode.                               *)
THEOREM SkippedAreLogged ==
  ASSUME WholeFiles
  PROVE  Spec => []SkippedIsLogged
  <1> DEFINE I == IInv /\ GLog
  <1>1. Init => I
    <2>1. Init => WCalm /\ Cancelled \subseteq Nat
      BY WCalmInit, ArticleAssumption DEF Init
    <2>2. Init => Logged
      <3> SUFFICES ASSUME Init, NEW i \in Cancelled, Visited(i)
                   PROVE  FALSE
        BY DEF Logged
      <3>1. /\ LastArticle = 0 /\ Range(buffer) = {} /\ Range(synced) = {}
            /\ pc = "none" /\ phase = "idle"
        BY DEF Init, AWInit, LastArticle, Range
      <3> QED
        BY <3>1, ArticleAssumption DEF Visited
    <2> QED
      BY <2>1, <2>2, InitInv, GBaseInit DEF GLog, WCalm
  <1>2. I /\ [Next]_vars => I'
    BY NextKeeps, GLogStep
  <1>3. I => SkippedIsLogged
    <2> SUFFICES ASSUME I, budget["io"] = Budget["io"], NEW i \in 1..LastArticle
                 PROVE  \/ i \in Durable \cup errors \/ i < low
                        \/ RawMode /\ i = LastArticle
      BY DEF SkippedIsLogged
    <2>1. Settled(i) \/ (RawMode /\ i = LastArticle)
      BY DEF IInv, GInv, ProgressCovered
    <2>2. i <= LastArticle
      BY LastArticleType DEF IInv, TypeOK
    <2>3. i \in Cancelled => i \in errors \/ i < low
      BY <2>2 DEF GLog, Logged, Visited
    <2> QED
      BY <2>1, <2>3 DEF Settled, Gone
  <1> QED
    BY <1>1, <1>2, <1>3, PTL DEF Spec
=============================================================================
