-------------------------- MODULE NntpGroup_proofs --------------------------
(***************************************************************************)
(* Proofs about NntpGroup, for any number of articles, any mishaps and any *)
(* order of them.                                                          *)
(*                                                                         *)
(* IInv is the inductive invariant.  Its core says that the buffer and the *)
(* committed ids are closed downwards: whatever has a smaller number than  *)
(* one of them is settled or waits with it.  So when a progress update     *)
(* takes the number of an email of a finished file, all below it is        *)
(* settled.  The types, and the order in which emails are committed, hold  *)
(* for files of any size; the rest needs WholeFiles.                       *)
(***************************************************************************)
EXTENDS NntpGroup, ArchiveWriter_proofs

(* Where handle_group and its writer are with respect to one another. *)
GPhase ==
  /\ phase = "group" => /\ pc = "ready" /\ ~err
                        /\ buffer = <<>> /\ synced = <<>>
  /\ phase \in {"group", "read"} => pc # "none" /\ ~closing
  /\ phase \notin {"group", "read"} => pc = "none" \/ closing
  /\ phase = "read" => next >= 1
  /\ pc = "raw" => ~err /\ cur = next - 1

(* i waits in the memory of the writer. *)
Pending(i) == \/ i \in Range(buffer)
              \/ pc = "rotate" /\ i \in Range(synced)
              \/ pc = "raw" /\ i = cur

CovBuffer ==
  \A x \in Range(buffer) : \A i \in 1..x : Settled(i) \/ i \in Range(buffer)
CovSynced ==
  \A x \in Range(synced) : \A i \in 1..x :
     Settled(i) \/ (pc = "rotate" /\ i \in Range(synced))
CovRead ==
  phase = "read" /\ ~err => \A i \in 1..(next - 1) : Settled(i) \/ Pending(i)

Ascending(s) == \A j, k \in DOMAIN s : j < k => s[j] < s[k]

(* Emails are buffered and committed in the order of their numbers. *)
GOrder ==
  /\ Ascending(buffer) /\ Ascending(synced)
  /\ \A x \in Range(buffer) \cup Range(synced) : LastArticle <= x
  /\ phase = "read" => /\ LastArticle <= next
                       /\ \A x \in Range(buffer) \cup Range(synced) : x < next
  /\ pc = "raw" => LastArticle <= cur

GInv == GPhase /\ CovBuffer /\ CovSynced /\ CovRead /\ GOrder /\ ProgressCovered

IInv == TypeOK /\ WInv /\ GInv
-----------------------------------------------------------------------------
LEMMA LastArticleType ==
  ASSUME AWTypeOK
  PROVE  LastArticle \in 0..MaxId
  BY ArticleAssumption, IdsAssumption DEF LastArticle, AWTypeOK

LEMMA InitInv ==
  ASSUME Init
  PROVE  IInv
  <1>1. WInv
    BY WInvInit DEF Init
  <1>2. TypeOK
    <2>1. /\ low \in 1..(MaxId + 1) /\ high \in 0..MaxId
          /\ first \in 0..(MaxId + 1) /\ next \in 0..(MaxId + 1)
          /\ limit \in 0..MaxId /\ attempts \in 0..MaxRetries
      BY ArticleAssumption, RetryAssumption DEF Init
    <2>2. phase \in Phases /\ outcome \in Outcomes /\ shutdown \in BOOLEAN
      BY DEF Init, Phases, Outcomes
    <2> QED
      BY <1>1, <2>1, <2>2 DEF TypeOK, WInv
  <1>3. /\ pc = "none" /\ buffer = <<>> /\ synced = <<>> /\ phase = "idle"
        /\ LastArticle = 0
    BY DEF Init, AWInit, LastArticle
  <1>4. Range(buffer) = {} /\ Range(synced) = {}
    BY <1>3 DEF Range
  <1>5. GInv
    BY <1>3, <1>4 DEF GInv, GPhase, CovBuffer, CovSynced, CovRead, GOrder,
                      ProgressCovered, Ascending
  <1> QED
    BY <1>1, <1>2, <1>5 DEF IInv

(* A list keeps its mode. *)
LEMMA ModeKept ==
  ASSUME [Next]_vars
  PROVE  mode' = mode /\ RawMode' = RawMode
  <1>1. mode' = mode
    <2>1. CASE Wait \/ Restart \/ Post \/ Expire \/ RequestShutdown \/ UNCHANGED vars
      BY <2>1 DEF Wait, Poll, SeeShutdown, ReconnectFails, ChannelClosed, Spend,
                  Restart, Post, Expire, RequestShutdown, vars, awVars
    <2>2. CASE \/ StartGroup \/ GroupHasNews \/ GroupHasNoNews \/ GroupFails
               \/ FinishGroup \/ AbandonGroup
      BY <2>2 DEF StartGroup, NewWriter, GroupHasNews, GroupHasNoNews,
                  GroupFails, FinishGroup, AbandonGroup, Spend, awVars
    <2>3. CASE FetchArticle \/ FetchUnavailable \/ FetchRetry \/ FetchFails
      BY <2>3 DEF FetchArticle, ArchiveEmail, FetchUnavailable, LogError,
                  LogErrorFails, FetchRetry, FetchFails, Spend
    <2>4. CASE Writer \/ WriterFails \/ Crash
      BY <2>4 DEF Writer, WriterStep, WriteRaw, CreateFile, WriteRowGroup,
                  CloseFile, SyncProgress, WriteLineage, EndDrop, WriterFails,
                  IoError, ArchiveFails, DropFails, Crash, CrashWriter, Spend
    <2> QED
      BY <2>1, <2>2, <2>3, <2>4 DEF Next, Work, Trouble, Wait
  <1> QED
    BY <1>1 DEF RawMode

(* Every step is a step of the writer or leaves it alone. *)
LEMMA BudgetType ==
  ASSUME AWTypeOK, NEW k \in Mishaps, Spend(k) \/ UNCHANGED budget
  PROVE  budget' \in [Mishaps -> Nat]
  BY SpendType DEF AWTypeOK

LEMMA NextType ==
  ASSUME TypeOK, GPhase, Fetching
  PROVE  next \in Ids
  BY ArticleAssumption DEF TypeOK, GPhase, Fetching, Reading

LEMMA NextIsWriterStep ==
  ASSUME TypeOK, GPhase, [Next]_vars
  PROVE  AWStep
  <1>0. UNCHANGED mode
    BY ModeKept
  <1>1. CASE FetchArticle \/ FetchUnavailable
    BY <1>0, <1>1, NextType DEF FetchArticle, FetchUnavailable, AWStep
  <1>2. CASE GroupHasNoNews \/ GroupFails \/ FetchFails \/ FinishGroup \/ AbandonGroup
    <2>1. BeginDrop /\ (Spend("net") \/ UNCHANGED budget)
      BY <1>2 DEF GroupHasNoNews, GroupFails, FetchFails, FinishGroup,
                  AbandonGroup, Return
    <2> QED
      BY <1>0, <2>1, BudgetType DEF AWStep, Mishaps, TypeOK
  <1>3. CASE StartGroup \/ Writer \/ WriterFails \/ Crash
    BY <1>0, <1>3 DEF StartGroup, Writer, WriterFails, Crash, AWStep
  <1>4. CASE \/ GroupHasNews \/ FetchRetry \/ RequestShutdown \/ Restart \/ Post
             \/ Expire \/ Wait \/ UNCHANGED vars
    <2>1. UNCHANGED <<diskVars, memVars>>
      BY <1>4 DEF GroupHasNews, FetchRetry, RequestShutdown, Restart, Post,
                  Expire, vars, awVars, Wait, Poll, SeeShutdown, ReconnectFails,
                  ChannelClosed, Goto
    <2>2. Spend("net") \/ Spend("stop") \/ UNCHANGED budget
      BY <1>4 DEF GroupHasNews, FetchRetry, RequestShutdown, Restart, Post,
                  Expire, vars, awVars, Wait, Poll, SeeShutdown, ReconnectFails,
                  ChannelClosed
    <2> QED
      BY <1>0, <2>1, <2>2, BudgetType DEF AWStep, Mishaps, TypeOK
  <1> QED
    BY <1>1, <1>2, <1>3, <1>4 DEF Next, Work, Trouble, Wait

LEMMA WInvKept ==
  ASSUME WholeFiles, TypeOK, WInv, GPhase, [Next]_vars
  PROVE  WInv'
  BY NextIsWriterStep, WInvStep
-----------------------------------------------------------------------------
(* Type correctness of the part that is not the writer's. *)
LEMMA TypeKept ==
  ASSUME TypeOK, GPhase, [Next]_vars, AWTypeOK'
  PROVE  TypeOK'
  <1>1. CASE StartGroup
    <2>1. limit' \in 0..MaxId
      BY <1>1, ArticleAssumption DEF StartGroup
    <2>2. /\ phase' \in Phases /\ outcome' \in Outcomes
          /\ UNCHANGED <<low, high, first, next, attempts, shutdown>>
      BY <1>1 DEF StartGroup, serverVars, Phases, Outcomes
    <2> QED
      BY <2>1, <2>2 DEF TypeOK
  <1>2. CASE GroupHasNews
    <2>1. LastArticle \in 0..MaxId
      BY LastArticleType DEF TypeOK
    <2>2. first' \in 0..(MaxId + 1) /\ next' = first'
      BY <1>2, <2>1, ArticleAssumption DEF GroupHasNews, Larger, TypeOK
    <2> QED
      BY <1>2, <2>2 DEF GroupHasNews, serverVars, TypeOK, Phases
  <1>3. CASE GroupHasNoNews \/ GroupFails \/ FetchFails \/ FinishGroup \/ AbandonGroup
    <2>1. PICK r \in Outcomes : Return(r)
      BY <1>3 DEF GroupHasNoNews, GroupFails, FetchFails, FinishGroup,
                  AbandonGroup, Outcomes
    <2>2. /\ phase' \in Phases /\ outcome' \in Outcomes
          /\ UNCHANGED <<limit, low, high, shutdown>>
      BY <2>1 DEF Return, serverVars, Phases
    <2>3. /\ first' \in 0..(MaxId + 1) /\ next' \in 0..(MaxId + 1)
          /\ attempts' \in 0..MaxRetries
      BY <2>1, ArticleAssumption, RetryAssumption DEF Return
    <2> QED
      BY <2>2, <2>3 DEF TypeOK
  <1>4. CASE FetchArticle \/ FetchUnavailable
    <2>1. next' \in 0..(MaxId + 1) /\ attempts' \in 0..MaxRetries
      BY <1>4, ArticleAssumption, RetryAssumption
         DEF FetchArticle, FetchUnavailable, Fetching, NextMail, TypeOK
    <2>2. UNCHANGED <<low, high, phase, first, limit, outcome, shutdown>>
      BY <1>4 DEF FetchArticle, FetchUnavailable, NextMail, serverVars
    <2> QED
      BY <2>1, <2>2 DEF TypeOK
  <1>5. CASE FetchRetry
    <2>1. attempts' \in 0..MaxRetries
      BY <1>5, RetryAssumption DEF FetchRetry, TypeOK
    <2> QED
      BY <1>5, <2>1 DEF FetchRetry, serverVars, TypeOK
  <1>6. CASE Writer \/ WriterFails \/ UNCHANGED vars
    BY <1>6 DEF Writer, WriterFails, vars, serverVars, groupVars, TypeOK
  <1>7. CASE Crash
    <2>1. /\ first' \in 0..(MaxId + 1) /\ next' \in 0..(MaxId + 1)
          /\ limit' \in 0..MaxId /\ attempts' \in 0..MaxRetries
      BY <1>7, ArticleAssumption, RetryAssumption DEF Crash
    <2>2. /\ phase' \in Phases /\ outcome' \in Outcomes /\ shutdown' \in BOOLEAN
          /\ UNCHANGED <<low, high>>
      BY <1>7 DEF Crash, Phases, Outcomes, serverVars
    <2> QED
      BY <2>1, <2>2 DEF TypeOK
  <1>8. CASE RequestShutdown \/ Restart
    <2>1. shutdown' \in BOOLEAN /\ outcome' \in Outcomes /\ phase' \in Phases
      BY <1>8 DEF RequestShutdown, Restart, groupVars, Outcomes, Phases, TypeOK
    <2>2. UNCHANGED <<low, high, first, limit, next, attempts>>
      BY <1>8 DEF RequestShutdown, Restart, groupVars, serverVars
    <2> QED
      BY <2>1, <2>2 DEF TypeOK
  <1>9. CASE Post \/ Expire
    <2>1. low' \in 1..(MaxId + 1) /\ high' \in 0..MaxId
      BY <1>9, ArticleAssumption DEF Post, Expire, TypeOK
    <2>2. UNCHANGED <<phase, first, limit, next, attempts, outcome, shutdown>>
      BY <1>9 DEF Post, Expire, groupVars
    <2> QED
      BY <2>1, <2>2 DEF TypeOK
  <1>10. CASE Wait
    <2>1. PICK where \in Phases : Goto(where)
      BY <1>10 DEF Wait, Poll, SeeShutdown, ReconnectFails, ChannelClosed, Phases
    <2> QED
      BY <2>1 DEF Goto, serverVars, TypeOK
  <1> QED
    BY <1>1, <1>2, <1>3, <1>4, <1>5, <1>6, <1>7, <1>8, <1>9, <1>10
       DEF Next, Work, Trouble, Wait

LEMMA PhaseKept ==
  ASSUME TypeOK, WBase, GPhase, [Next]_vars
  PROVE  GPhase'
  <1>1. CASE StartGroup
    BY <1>1 DEF StartGroup, NewWriter, GPhase, WBase, WIdle, WMode
  <1>2. CASE GroupHasNews
    <2>1. next' >= 1
      BY <1>2, LastArticleType, ArticleAssumption
         DEF GroupHasNews, Larger, TypeOK
    <2> QED
      BY <1>2, <2>1 DEF GroupHasNews, awVars, memVars, GPhase
  <1>3. CASE GroupHasNoNews \/ GroupFails \/ FetchFails \/ FinishGroup \/ AbandonGroup
    <2>1. PICK r \in Outcomes : Return(r)
      BY <1>3 DEF GroupHasNoNews, GroupFails, FetchFails, FinishGroup,
                  AbandonGroup, Outcomes
    <2> QED
      BY <2>1 DEF Return, BeginDrop, BeginDropTo, GPhase
  <1>4. CASE FetchArticle
    BY <1>4 DEF FetchArticle, Fetching, Reading, ArchiveEmail, AddRaw, AddParquet,
                NextMail, GPhase, TypeOK
  <1>5. CASE FetchUnavailable
    BY <1>5 DEF FetchUnavailable, Fetching, Reading, LogError, LogErrorFails,
                memVars, NextMail, GPhase, TypeOK
  <1>6. CASE FetchRetry \/ RequestShutdown \/ Post \/ Expire \/ UNCHANGED vars
    BY <1>6 DEF FetchRetry, RequestShutdown, Post, Expire, vars,
                awVars, memVars, groupVars, GPhase
  <1>7. CASE Writer
    <2>1. UNCHANGED <<phase, next>> /\ pc # "ready"
      BY <1>7 DEF Writer, WriterStep, WriteRaw, CreateFile, WriteRowGroup,
                  CloseFile, SyncProgress, WriteLineage, EndDrop, groupVars
    <2>2. CASE EndDrop
      BY <2>1, <2>2 DEF EndDrop, Forget, GPhase
    <2>3. CASE ~EndDrop
      BY <1>7, <2>1, <2>3
         DEF Writer, WriterStep, WriteRaw, CreateFile, WriteRowGroup, CloseFile,
             SyncProgress, WriteLineage, GPhase
    <2> QED
      BY <2>2, <2>3
  <1>8. CASE WriterFails
    <2>1. UNCHANGED <<phase, next>> /\ pc \notin {"ready", "none"}
      BY <1>8 DEF WriterFails, IoError, ArchiveFails, DropFails, ErrorPoint,
                  groupVars
    <2> QED
      BY <1>8, <2>1 DEF WriterFails, IoError, ArchiveFails, DropFails, Forget,
                        GPhase
  <1>9. CASE Crash
    BY <1>9 DEF Crash, CrashWriter, Forget, GPhase
  <1>10. CASE Wait \/ Restart
    <2>1. /\ UNCHANGED <<pc, closing, err, cur, next>>
          /\ phase \notin {"group", "read"} /\ phase' \notin {"group", "read"}
      BY <1>10 DEF Wait, Poll, SeeShutdown, ReconnectFails, ChannelClosed, AtTop,
                   Goto, Restart, awVars, memVars
    <2> QED
      BY <2>1 DEF GPhase
  <1> QED
    BY <1>1, <1>2, <1>3, <1>4, <1>5, <1>6, <1>7, <1>8, <1>9, <1>10
       DEF Next, Work, Trouble, Wait
-----------------------------------------------------------------------------
(* What is settled stays settled, except that raw mode empties the file of *)
(* the email it writes.                                                    *)
LEMMA LowGrows ==
  ASSUME TypeOK, [Next]_vars
  PROVE  low' \in Nat /\ low' >= low
  <1>1. low' = low \/ low' = low + 1
    BY DEF Next, Work, Trouble, StartGroup, GroupHasNews, GroupHasNoNews,
           GroupFails, FetchArticle, FetchUnavailable, FetchRetry, FetchFails,
           FinishGroup, AbandonGroup, Writer, WriterFails, Crash,
           RequestShutdown, Restart, Post, Expire, Return, NextMail, serverVars,
           vars, Poll, SeeShutdown, ReconnectFails, ChannelClosed, Goto
  <1> QED
    BY <1>1, ArticleAssumption DEF TypeOK

LEMMA SettledStays ==
  ASSUME TypeOK, WInv, AWStep, low' \in Nat, low' >= low,
         ~(\E id \in Ids : ArchiveEmail(id) /\ AddRaw(id)),
         NEW i \in Nat, Settled(i)
  PROVE  Settled(i)'
  <1>1. Durable \subseteq Durable'
    BY DurableStays, WholeIsBase
  <1>2. Gone(i) => Gone(i)'
    BY ArticleAssumption DEF Gone, TypeOK
  <1> QED
    BY <1>1, <1>2 DEF Settled

LEMMA SettledOthersStay ==
  ASSUME TypeOK, NEW id \in Ids, ArchiveEmail(id), AddRaw(id),
         low' \in Nat, low' >= low,
         NEW i \in Nat, i # id, Settled(i)
  PROVE  Settled(i)'
  <1>1. i \in Durable => i \in Durable'
    BY DEF ArchiveEmail, AddRaw, Durable
  <1>2. Gone(i) => Gone(i)'
    BY ArticleAssumption DEF Gone, TypeOK
  <1> QED
    BY <1>1, <1>2 DEF Settled

LEMMA SameMode ==
  ASSUME AWStep
  PROVE  RawMode' = RawMode
  BY DEF AWStep, RawMode

(* A step that leaves memory, progress and the loop alone keeps GInv. *)
LEMMA QuietStep ==
  ASSUME TypeOK, WInv, GInv, GPhase', low' \in Nat, low' >= low, AWStep,
         ~(\E id \in Ids : ArchiveEmail(id) /\ AddRaw(id)),
         UNCHANGED <<buffer, synced, progress, cur>>,
         (pc = "rotate" /\ synced # <<>>) => pc' = "rotate",
         pc' = "raw" => pc = "raw", pc = "raw" => pc' = "raw" \/ phase' # "read",
         phase' = "read" => phase = "read" /\ next' = next /\ (~err' => ~err)
  PROVE  GInv'
  <1>1. \A i \in Nat : Settled(i) => Settled(i)'
    BY SettledStays
  <1>2. LastArticle' = LastArticle /\ LastArticle \in Nat
    BY LastArticleType DEF LastArticle, TypeOK
  <1>3. Range(buffer)' = Range(buffer) /\ Range(synced)' = Range(synced)
    OBVIOUS
  <1>4. Range(buffer) \subseteq Nat /\ Range(synced) \subseteq Nat
    BY RangeType, ArticleAssumption DEF TypeOK, AWTypeOK
  <1>5. synced = <<>> => Range(synced) = {}
    BY DEF Range
  <1>6. CovBuffer'
    BY <1>1, <1>3, <1>4 DEF GInv, CovBuffer
  <1>7. CovSynced'
    BY <1>1, <1>3, <1>4, <1>5 DEF GInv, CovSynced
  <1>8. CovRead'
    BY <1>1, <1>3, <1>5 DEF GInv, CovRead, Pending, TypeOK
  <1>9. GOrder'
    BY <1>2, <1>3 DEF GInv, GOrder, Ascending
  <1>10. ProgressCovered'
    BY <1>1, <1>2, SameMode DEF GInv, ProgressCovered
  <1> QED
    BY <1>6, <1>7, <1>8, <1>9, <1>10 DEF GInv

(* __progress.yaml stays, and no email is being rewritten. *)
LEMMA ProgressKept ==
  ASSUME TypeOK, WInv, GInv, AWStep, low' \in Nat, low' >= low,
         ~(\E id \in Ids : ArchiveEmail(id) /\ AddRaw(id)),
         progress' = progress
  PROVE  ProgressCovered' /\ LastArticle' = LastArticle
  <1>1. \A i \in Nat : Settled(i) => Settled(i)'
    BY SettledStays
  <1>2. LastArticle' = LastArticle /\ LastArticle \in Nat
    BY LastArticleType DEF LastArticle, TypeOK
  <1> QED
    BY <1>1, <1>2, SameMode DEF GInv, ProgressCovered

(* A step after which nothing is buffered or committed. *)
LEMMA EmptiedStep ==
  ASSUME GPhase', ProgressCovered', buffer' = <<>>, synced' = <<>>,
         pc' # "raw", phase' = "read" => err' /\ LastArticle' <= next'
  PROVE  GInv'
  <1>1. Range(buffer)' = {} /\ Range(synced)' = {}
    BY DEF Range
  <1>2. CovBuffer' /\ CovSynced' /\ CovRead'
    BY <1>1 DEF CovBuffer, CovSynced, CovRead
  <1>3. GOrder'
    BY <1>1 DEF GOrder, Ascending
  <1> QED
    BY <1>2, <1>3 DEF GInv

LEMMA CommonStep ==
  ASSUME WholeFiles, IInv, [Next]_vars
  PROVE  AWStep /\ GPhase' /\ low' \in Nat /\ low' >= low
  BY NextIsWriterStep, PhaseKept, LowGrows, WholeIsBase DEF IInv, GInv

LEMMA ReturnKeeps ==
  ASSUME IInv, AWStep, GPhase', low' \in Nat, low' >= low,
         NEW r \in Outcomes, Return(r)
  PROVE  GInv'
  <1>1. ~(\E id \in Ids : ArchiveEmail(id) /\ AddRaw(id))
    BY DEF Return, BeginDrop, BeginDropTo, AddRaw
  <1> QED
    BY <1>1, QuietStep DEF IInv, Return, BeginDrop, BeginDropTo, diskVars

LEMMA GroupHasNewsKeeps ==
  ASSUME IInv, AWStep, GPhase', low' \in Nat, low' >= low, GroupHasNews
  PROVE  GInv'
  <1>1. /\ UNCHANGED <<mode, buffer, synced, pc, err, progress, low, Durable>>
        /\ phase' = "read" /\ next' = Larger(LastArticle, low)
        /\ pc = "ready" /\ buffer = <<>> /\ synced = <<>>
    BY DEF GroupHasNews, awVars, diskVars, memVars, serverVars, IInv, GInv,
           GPhase, Durable
  <1>2. LastArticle \in Nat /\ low \in Nat /\ LastArticle' = LastArticle
    BY <1>1, LastArticleType, ArticleAssumption DEF IInv, TypeOK, LastArticle
  <1>3. Range(buffer)' = {} /\ Range(synced)' = {}
    BY <1>1 DEF Range
  <1>4. \A i \in Nat : Settled(i)' = Settled(i)
    BY <1>1 DEF Settled, Gone
  <1>5. CovBuffer' /\ CovSynced'
    BY <1>3 DEF CovBuffer, CovSynced
  <1>6. CovRead'
    BY <1>1, <1>2, <1>4
       DEF CovRead, Larger, IInv, GInv, ProgressCovered, Settled, Gone
  <1>7. GOrder'
    BY <1>1, <1>2, <1>3 DEF GOrder, Ascending, Larger
  <1>8. ProgressCovered'
    BY <1>1, <1>2, <1>4 DEF IInv, GInv, ProgressCovered, RawMode
  <1> QED
    BY <1>5, <1>6, <1>7, <1>8 DEF GInv

LEMMA FetchUnavailableKeeps ==
  ASSUME IInv, AWStep, GPhase', low' \in Nat, low' >= low, FetchUnavailable
  PROVE  GInv'
  <1>1. /\ UNCHANGED <<buffer, synced, pc, err, progress, cur, low, Durable>>
        /\ phase = "read" /\ phase' = "read" /\ next' = next + 1
        /\ pc = "ready" /\ ~err /\ Gone(next)
    BY DEF FetchUnavailable, LogError, LogErrorFails, Fetching, Reading,
           NextMail, diskVars, memVars, serverVars, Durable
  <1>2. LastArticle' = LastArticle /\ LastArticle \in Nat /\ next \in Nat
    BY <1>1, LastArticleType, ArticleAssumption DEF IInv, TypeOK, LastArticle
  <1>3. Range(buffer)' = Range(buffer) /\ Range(synced)' = Range(synced)
        /\ Range(buffer) \subseteq Nat /\ Range(synced) \subseteq Nat
    BY <1>1, RangeType, ArticleAssumption DEF IInv, TypeOK, AWTypeOK
  <1>4. \A i \in Nat : Settled(i)' = Settled(i)
    BY <1>1 DEF Settled, Gone
  <1>5. CovBuffer' /\ CovSynced' /\ ProgressCovered'
    BY <1>1, <1>2, <1>3, <1>4, SameMode
       DEF IInv, GInv, CovBuffer, CovSynced, ProgressCovered
  <1>6. CovRead'
    BY <1>1, <1>2, <1>3, <1>4 DEF IInv, GInv, CovRead, Pending, Settled
  <1>7. GOrder'
    BY <1>1, <1>2, <1>3 DEF IInv, GInv, GOrder, Ascending
  <1> QED
    BY <1>5, <1>6, <1>7 DEF GInv

(* Facts about the loop of read_new_mails that every fetch starts from. *)
LEMMA FetchFacts ==
  ASSUME IInv, Fetching
  PROVE  /\ phase = "read" /\ pc = "ready" /\ ~err
         /\ next \in Ids /\ next \in Nat /\ next >= 1
         /\ synced = <<>> /\ Range(synced) = {}
         /\ LastArticle \in Nat /\ LastArticle <= next
         /\ \A i \in 1..(next - 1) : Settled(i) \/ i \in Range(buffer)
  <1>1. phase = "read" /\ pc = "ready" /\ ~err /\ next \in Ids
    BY NextType DEF Fetching, Reading, IInv, GInv
  <1>2. synced = <<>>
    BY <1>1 DEF IInv, WInv, WSynced
  <1>3. LastArticle \in Nat /\ LastArticle <= next
    BY <1>1, LastArticleType DEF IInv, TypeOK, GInv, GOrder
  <1>4. \A i \in 1..(next - 1) : Settled(i) \/ i \in Range(buffer)
    BY <1>1 DEF IInv, GInv, CovRead, Pending
  <1> QED
    BY <1>1, <1>2, <1>3, <1>4, ArticleAssumption DEF Range

LEMMA FetchRawKeeps ==
  ASSUME IInv, GPhase', low' \in Nat, low' >= low, FetchArticle,
         AddRaw(next)
  PROVE  GInv'
  <1>1. Fetching /\ ArchiveEmail(next)
    BY DEF FetchArticle
  <1>2. /\ UNCHANGED <<buffer, synced, progress, err>>
        /\ pc' = "raw" /\ cur' = next /\ RawMode /\ RawMode'
        /\ phase' = "read" /\ next' = next + 1
    BY <1>1, FetchFacts DEF FetchArticle, ArchiveEmail, AddRaw, NextMail, RawMode
  <1>3. buffer = <<>> /\ Range(buffer) = {}
    BY <1>2 DEF IInv, WInv, WMode, Range
  <1>4. \A i \in Nat : i # next /\ Settled(i) => Settled(i)'
    BY <1>1, FetchFacts, SettledOthersStay DEF IInv
  <1>5. LastArticle' = LastArticle
    BY <1>2 DEF LastArticle
  <1>6. Range(buffer)' = {} /\ Range(synced)' = {}
    BY <1>1, <1>2, <1>3, FetchFacts
  <1>7. CovBuffer' /\ CovSynced'
    BY <1>6 DEF CovBuffer, CovSynced
  <1>8. \A i \in 1..next : i = next \/ Settled(i)'
    BY <1>1, <1>3, <1>4, FetchFacts
  <1>9. CovRead'
    BY <1>1, <1>2, <1>8, FetchFacts DEF CovRead, Pending
  <1>10. GOrder'
    BY <1>1, <1>2, <1>3, <1>5, <1>6, FetchFacts DEF GOrder, Ascending
  <1>11. ProgressCovered'
    BY <1>1, <1>2, <1>4, <1>5, FetchFacts DEF IInv, GInv, ProgressCovered
  <1> QED
    BY <1>7, <1>9, <1>10, <1>11 DEF GInv

LEMMA AppendFacts ==
  ASSUME NEW s \in Seq(Nat), NEW n \in Nat, Ascending(s),
         \A x \in Range(s) : x < n
  PROVE  /\ Range(Append(s, n)) = Range(s) \cup {n}
         /\ Ascending(Append(s, n))
  <1>1. /\ Len(Append(s, n)) = Len(s) + 1
        /\ \A j \in 1..Len(s) : Append(s, n)[j] = s[j] /\ s[j] \in Range(s)
        /\ Append(s, n)[Len(s) + 1] = n
        /\ DOMAIN s = 1..Len(s) /\ DOMAIN Append(s, n) = 1..(Len(s) + 1)
    BY DEF Range
  <1>2. Range(Append(s, n)) = Range(s) \cup {n}
    BY <1>1 DEF Range
  <1>3. Ascending(Append(s, n))
    BY <1>1 DEF Ascending
  <1> QED
    BY <1>2, <1>3

LEMMA FetchParquetKeeps ==
  ASSUME IInv, AWStep, GPhase', low' \in Nat, low' >= low, FetchArticle,
         AddParquet(next)
  PROVE  GInv'
  <1>1. Fetching /\ ArchiveEmail(next)
    BY DEF FetchArticle
  <1>2. /\ buffer' = Append(buffer, next)
        /\ UNCHANGED <<synced, progress, err>>
        /\ pc' \in {"flush", "lineage"} /\ cur' = next
        /\ phase' = "read" /\ next' = next + 1
    BY <1>1, FetchFacts DEF FetchArticle, ArchiveEmail, AddParquet, NextMail
  <1>3. buffer \in Seq(Nat) /\ Range(buffer) \subseteq Nat
    BY RangeType, ArticleAssumption DEF IInv, TypeOK, AWTypeOK
  <1>4. /\ Ascending(buffer)
        /\ \A x \in Range(buffer) : LastArticle <= x /\ x < next
    BY <1>1, FetchFacts DEF IInv, GInv, GOrder
  <1>5. Range(buffer') = Range(buffer) \cup {next} /\ Ascending(buffer')
    BY <1>1, <1>2, <1>3, <1>4, FetchFacts, AppendFacts
  <1>6. ~(\E id \in Ids : ArchiveEmail(id) /\ AddRaw(id))
    BY DEF AddRaw, AddParquet
  <1>7. \A i \in Nat : Settled(i) => Settled(i)'
    BY <1>6, SettledStays DEF IInv
  <1>8. ProgressCovered' /\ LastArticle' = LastArticle
    BY <1>2, <1>6, ProgressKept DEF IInv
  <1>9. Range(synced)' = {}
    BY <1>1, <1>2, FetchFacts
  <1>10. CovSynced'
    BY <1>9 DEF CovSynced
  <1>11. \A i \in 1..next : Settled(i)' \/ i \in Range(buffer)'
    BY <1>1, <1>5, <1>7, FetchFacts
  <1>12. CovBuffer'
    BY <1>1, <1>3, <1>4, <1>5, <1>11, FetchFacts DEF CovBuffer
  <1>13. CovRead'
    BY <1>1, <1>2, <1>11, FetchFacts DEF CovRead, Pending
  <1>14. GOrder'
    <2>1. Ascending(buffer)' /\ Ascending(synced)'
      BY <1>1, <1>2, <1>5, FetchFacts DEF Ascending
    <2>2. \A x \in (Range(buffer) \cup Range(synced))' :
             LastArticle' <= x /\ x < next'
      BY <1>1, <1>2, <1>3, <1>4, <1>5, <1>8, <1>9, FetchFacts
    <2> QED
      BY <1>1, <1>2, <1>8, <2>1, <2>2, FetchFacts DEF GOrder
  <1> QED
    BY <1>8, <1>10, <1>12, <1>13, <1>14 DEF GInv
-----------------------------------------------------------------------------
(* The steps of the writer on its own. *)
LEMMA WriterFrame ==
  ASSUME IInv, Writer
  PROVE  /\ UNCHANGED <<phase, next, low>> /\ WriterStep
         /\ ~(\E id \in Ids : ArchiveEmail(id) /\ AddRaw(id))
         /\ low \in Nat /\ low' \in Nat /\ low' >= low
         /\ LastArticle \in Nat
         /\ buffer \in Seq(Nat) /\ Range(buffer) \subseteq Nat
         /\ synced \in Seq(Nat) /\ Range(synced) \subseteq Nat
  <1>1. pc # "ready"
    BY DEF Writer, WriterStep, WriteRaw, CreateFile, WriteRowGroup, CloseFile,
           SyncProgress, WriteLineage, EndDrop
  <1>2. UNCHANGED <<phase, next, low>> /\ WriterStep
    BY DEF Writer, groupVars, serverVars
  <1>3. ~(\E id \in Ids : ArchiveEmail(id) /\ AddRaw(id))
    BY <1>1 DEF ArchiveEmail
  <1>4. buffer \in Seq(Nat) /\ synced \in Seq(Nat)
    BY ArticleAssumption DEF IInv, TypeOK, AWTypeOK
  <1>5. low \in Nat
    BY ArticleAssumption DEF IInv, TypeOK
  <1>6. LastArticle \in Nat
    BY LastArticleType DEF IInv, TypeOK
  <1> QED
    BY <1>2, <1>3, <1>4, <1>5, <1>6, RangeType

LEMMA WriteRawKeeps ==
  ASSUME IInv, AWStep, GPhase', Writer, WriteRaw
  PROVE  GInv'
  <1>1. /\ synced' = <<cur>> /\ pc' = "sync" /\ eml' = eml \cup {cur}
        /\ UNCHANGED <<buffer, progress, cur, err, closing>>
        /\ pc = "raw"
    BY DEF WriteRaw
  <1>2. /\ buffer = <<>> /\ Range(buffer) = {} /\ cur \in Ids /\ ~err
        /\ cur = next - 1 /\ LastArticle <= cur
    BY <1>1 DEF IInv, WInv, WMode, GInv, GPhase, GOrder, Range
  <1>3. phase = "read" /\ next \in Nat
    BY <1>1, ArticleAssumption
       DEF IInv, GInv, GPhase, TypeOK, WInv, WMode, Phases
  <1>4. \A i \in Nat : Settled(i) => Settled(i)'
    BY WriterFrame, SettledStays DEF IInv
  <1>5. \A i \in Ids : i = cur => Settled(i)'
    BY <1>1 DEF Settled, Durable
  <1>6. Range(synced)' = {cur} /\ Range(buffer)' = {}
    BY <1>1, <1>2 DEF Range
  <1>7. \A i \in 1..cur : Settled(i)'
    <2>1. \A i \in 1..(next - 1) : Settled(i) \/ i = cur
      BY <1>1, <1>2, <1>3 DEF IInv, GInv, CovRead, Pending
    <2> QED
      BY <1>2, <1>3, <1>4, <1>5, <2>1
  <1>8. CovBuffer' /\ CovSynced'
    BY <1>6, <1>7 DEF CovBuffer, CovSynced
  <1>9. CovRead'
    BY <1>2, <1>3, <1>7, WriterFrame DEF CovRead
  <1>10. ProgressCovered' /\ LastArticle' = LastArticle
    BY <1>1, WriterFrame, ProgressKept DEF IInv
  <1>11. GOrder'
    <2>1. Ascending(buffer)' /\ Ascending(synced)'
      BY <1>1, <1>2 DEF Ascending
    <2> QED
      BY <1>1, <1>2, <1>3, <1>6, <1>10, <2>1, WriterFrame DEF GOrder
  <1> QED
    BY <1>8, <1>9, <1>10, <1>11 DEF GInv

LEMMA WriteRowGroupKeeps ==
  ASSUME WholeFiles, IInv, AWStep, GPhase', Writer, WriteRowGroup
  PROVE  GInv'
  <1>1. /\ synced' = buffer /\ buffer' = <<>> /\ pc = "flush"
        /\ UNCHANGED <<progress, cur, err>>
    BY DEF WriteRowGroup
  <1>2. pc' = "rotate" /\ synced = <<>>
    BY <1>1 DEF WriteRowGroup, IInv, WInv, WFull, WSynced
  <1>3. \A i \in Nat : Settled(i) => Settled(i)'
    BY WriterFrame, SettledStays DEF IInv
  <1>4. Range(synced)' = Range(buffer) /\ Range(buffer)' = {}
    BY <1>1 DEF Range
  <1>5. CovBuffer' /\ CovSynced'
    BY <1>2, <1>3, <1>4, WriterFrame
       DEF IInv, GInv, CovBuffer, CovSynced
  <1>6. CovRead'
    BY <1>1, <1>2, <1>3, <1>4, WriterFrame
       DEF IInv, GInv, CovRead, Pending
  <1>7. ProgressCovered' /\ LastArticle' = LastArticle
    BY <1>1, WriterFrame, ProgressKept DEF IInv
  <1>8. GOrder'
    <2>1. Ascending(buffer)' /\ Ascending(synced)'
      BY <1>1 DEF IInv, GInv, GOrder, Ascending
    <2> QED
      BY <1>2, <1>4, <1>7, <2>1, WriterFrame DEF IInv, GInv, GOrder
  <1> QED
    BY <1>5, <1>6, <1>7, <1>8 DEF GInv

LEMMA CloseFileKeeps ==
  ASSUME IInv, AWStep, GPhase', WInv', Writer, CloseFile
  PROVE  GInv'
  <1>1. /\ UNCHANGED <<progress, cur, err, buffer, synced>>
        /\ pc = "rotate" /\ pc' = "sync"
    BY DEF CloseFile
  <1>2. \A i \in Nat : Settled(i) => Settled(i)'
    BY WriterFrame, SettledStays DEF IInv
  <1>3. Range(synced)' = Range(synced) /\ Range(buffer)' = Range(buffer)
    BY <1>1
  <1>4. \A i \in Range(synced) : Settled(i)'
    BY <1>1, <1>3 DEF WInv, WSynced, Settled
  <1>5. CovBuffer' /\ CovSynced'
    BY <1>2, <1>3, <1>4, WriterFrame DEF IInv, GInv, CovBuffer, CovSynced
  <1>6. CovRead'
    BY <1>1, <1>2, <1>3, <1>4, WriterFrame
       DEF IInv, GInv, CovRead, Pending, TypeOK
  <1>7. ProgressCovered' /\ LastArticle' = LastArticle
    BY <1>1, WriterFrame, ProgressKept DEF IInv
  <1>8. GOrder'
    BY <1>1, <1>3, <1>7, WriterFrame DEF IInv, GInv, GOrder, Ascending
  <1> QED
    BY <1>5, <1>6, <1>7, <1>8 DEF GInv

(* Taking the first number off an ascending sequence. *)
LEMMA TailFacts ==
  ASSUME NEW s \in Seq(Nat), s # <<>>, Ascending(s)
  PROVE  /\ Head(s) \in Range(s) /\ Head(s) \in Nat
         /\ Range(Tail(s)) \subseteq Range(s)
         /\ Ascending(Tail(s))
         /\ \A x \in Range(Tail(s)) : Head(s) <= x
  <1>1. /\ Tail(s) \in Seq(Nat) /\ Len(Tail(s)) = Len(s) - 1
        /\ \A j \in 1..(Len(s) - 1) : Tail(s)[j] = s[j + 1]
        /\ Head(s) = s[1] /\ Len(s) >= 1
    OBVIOUS
  <1>2. Ascending(Tail(s))
    BY <1>1 DEF Ascending
  <1>3. \A x \in Range(Tail(s)) : Head(s) <= x
    BY <1>1 DEF Ascending, Range
  <1> QED
    BY <1>1, <1>2, <1>3 DEF Range

LEMMA SyncProgressKeeps ==
  ASSUME IInv, AWStep, GPhase', Writer, SyncProgress
  PROVE  GInv' /\ LastArticle' >= LastArticle
  <1>1. /\ progress' = Head(synced) /\ synced' = Tail(synced) /\ synced # <<>>
        /\ UNCHANGED <<cur, err, buffer>>
        /\ pc = "sync" /\ pc' \in {"sync", "lineage"}
    BY DEF SyncProgress
  <1>2. \A i \in Nat : Settled(i) => Settled(i)'
    BY WriterFrame, SettledStays DEF IInv
  <1>3. /\ Head(synced) \in Range(synced) /\ Head(synced) \in Nat
        /\ Range(synced)' \subseteq Range(synced)
        /\ Ascending(synced)'
        /\ \A x \in Range(synced)' : Head(synced) <= x
    BY <1>1, WriterFrame, TailFacts DEF IInv, GInv, GOrder
  <1>4. LastArticle' = Head(synced)
    BY <1>1, <1>3, WriterFrame, RangeType, IdsAssumption
       DEF LastArticle, IInv, TypeOK, AWTypeOK
  <1>5. LastArticle <= LastArticle'
    BY <1>3, <1>4 DEF IInv, GInv, GOrder
  <1>6. buffer = <<>> /\ Range(buffer) = {} /\ Range(buffer)' = {}
    BY <1>1 DEF IInv, WInv, WSynced, Range
  <1>7. \A x \in Range(synced) : \A i \in 1..x : Settled(i)
    BY <1>1 DEF IInv, GInv, CovSynced
  <1>8. CovBuffer' /\ CovSynced'
    BY <1>2, <1>3, <1>6, <1>7, WriterFrame DEF CovBuffer, CovSynced
  <1>9. CovRead'
    BY <1>1, <1>2, <1>6, WriterFrame, ArticleAssumption
       DEF IInv, GInv, CovRead, Pending, TypeOK
  <1>10. ProgressCovered'
    BY <1>2, <1>3, <1>4, <1>7 DEF ProgressCovered
  <1>11. GOrder'
    <2>1. Ascending(buffer)'
      BY <1>1, <1>6 DEF Ascending
    <2>2. phase' = "read" => LastArticle' <= next'
      BY <1>3, <1>4, WriterFrame, ArticleAssumption DEF IInv, GInv, GOrder, TypeOK
    <2> QED
      BY <1>1, <1>3, <1>4, <1>6, <2>1, <2>2, WriterFrame DEF IInv, GInv, GOrder
  <1> QED
    BY <1>5, <1>8, <1>9, <1>10, <1>11, <1>4, WriterFrame DEF GInv

LEMMA EndDropKeeps ==
  ASSUME IInv, AWStep, GPhase', Writer, EndDrop
  PROVE  GInv' /\ LastArticle' >= LastArticle
  <1>1. /\ buffer' = <<>> /\ synced' = <<>> /\ pc' = "none" /\ pc = "sync"
        /\ progress' = IF synced # <<>> THEN Last(synced) ELSE progress
    BY DEF EndDrop, Forget
  <1>2. phase' # "read"
    BY <1>1 DEF GPhase
  <1>3. ProgressCovered' /\ LastArticle' >= LastArticle
    <2>1. CASE synced = <<>>
      <3>1. progress' = progress
        BY <1>1, <2>1
      <3>2. ProgressCovered' /\ LastArticle' = LastArticle
        BY <3>1, WriterFrame, ProgressKept DEF IInv
      <3> QED
        BY <3>2, WriterFrame
    <2>2. CASE synced # <<>>
      <3>1. progress' = Last(synced) /\ Last(synced) \in Range(synced)
        BY <1>1, <2>2, WriterFrame DEF Last, Range
      <3>2. LastArticle' = Last(synced) /\ Last(synced) \in Nat
        BY <3>1, WriterFrame, RangeType, IdsAssumption
           DEF LastArticle, IInv, TypeOK, AWTypeOK
      <3>3. \A i \in 1..Last(synced) : Settled(i)'
        BY <1>1, <3>1, <3>2, WriterFrame, SettledStays DEF IInv, GInv, CovSynced
      <3>4. ProgressCovered'
        BY <3>2, <3>3 DEF ProgressCovered
      <3> QED
        BY <3>1, <3>2, <3>4 DEF IInv, GInv, GOrder
    <2> QED
      BY <2>1, <2>2
  <1> QED
    BY <1>1, <1>2, <1>3, EmptiedStep

LEMMA WriterFailsKeeps ==
  ASSUME IInv, AWStep, GPhase', low' \in Nat, low' >= low, WriterFails
  PROVE  GInv' /\ LastArticle' >= LastArticle
  <1>1. UNCHANGED <<phase, next, progress>> /\ pc # "ready"
    BY DEF WriterFails, IoError, ArchiveFails, DropFails, ErrorOnDisk,
           ErrorPoint, groupVars
  <1>2. ~(\E id \in Ids : ArchiveEmail(id) /\ AddRaw(id))
    BY <1>1 DEF ArchiveEmail
  <1>3. ProgressCovered' /\ LastArticle' = LastArticle
    BY <1>1, <1>2, ProgressKept DEF IInv
  <1>4. LastArticle \in Nat
    BY LastArticleType DEF IInv, TypeOK
  <1>5. GInv'
    <2>1. CASE DropFails
      BY <1>3, <2>1, EmptiedStep DEF DropFails, Forget, GPhase
    <2>2. CASE ArchiveFails /\ buffer' = buffer
      <3>1. /\ pc' = "ready" /\ err' /\ synced' = <<>> /\ cur' = cur
        BY <2>2 DEF ArchiveFails
      <3>2. Range(synced)' = {} /\ Range(buffer)' = Range(buffer)
        BY <2>2, <3>1 DEF Range
      <3>3. Range(buffer) \subseteq Nat
        BY RangeType, ArticleAssumption DEF IInv, TypeOK, AWTypeOK
      <3>4. \A j \in Nat : Settled(j) => Settled(j)'
        BY <1>2, SettledStays DEF IInv
      <3>5. CovBuffer' /\ CovSynced' /\ CovRead'
        BY <3>1, <3>2, <3>3, <3>4
           DEF IInv, GInv, CovBuffer, CovSynced, CovRead
      <3>6. GOrder'
        BY <1>1, <1>3, <2>2, <3>1, <3>2 DEF IInv, GInv, GOrder, Ascending
      <3> QED
        BY <1>3, <3>5, <3>6 DEF GInv
    <2>3. CASE ArchiveFails /\ buffer' = <<>>
      BY <1>1, <1>3, <2>3, EmptiedStep DEF ArchiveFails, IInv, GInv, GOrder
    <2> QED
      BY <2>1, <2>2, <2>3 DEF WriterFails, IoError, ArchiveFails
  <1> QED
    BY <1>3, <1>4, <1>5

LEMMA CrashKeeps ==
  ASSUME IInv, AWStep, GPhase', low' \in Nat, low' >= low, Crash
  PROVE  GInv' /\ LastArticle' >= LastArticle
  <1>1. /\ progress' = progress /\ buffer' = <<>> /\ synced' = <<>>
        /\ pc' = "none" /\ phase' = "idle" /\ eml' = eml /\ files' = files
    BY DEF Crash, CrashWriter, Forget, diskVars
  <1>2. LastArticle' = LastArticle /\ LastArticle \in Nat
    BY <1>1, LastArticleType DEF LastArticle, IInv, TypeOK
  <1>3. \A i \in Nat : Settled(i) => Settled(i)'
    BY <1>1, ArticleAssumption DEF Settled, Gone, Durable, IInv, TypeOK
  <1>4. ProgressCovered'
    BY <1>2, <1>3, SameMode DEF IInv, GInv, ProgressCovered
  <1> QED
    BY <1>1, <1>2, <1>4, EmptiedStep

(* The other steps of the writer, and all steps of the environment. *)
LEMMA QuietKeeps ==
  ASSUME IInv, AWStep, GPhase', low' \in Nat, low' >= low,
         \/ StartGroup \/ FetchRetry \/ RequestShutdown \/ Restart \/ Post
         \/ Expire \/ Wait \/ UNCHANGED vars
         \/ Writer /\ (CreateFile \/ WriteLineage)
  PROVE  GInv' /\ LastArticle' >= LastArticle
  <1>1. LastArticle \in Nat
    BY LastArticleType DEF IInv, TypeOK
  <1>2. CASE StartGroup
    <2>1. /\ UNCHANGED <<buffer, synced, progress, cur>> /\ pc = "none"
          /\ pc' = "ready" /\ phase' = "group"
      BY <1>2 DEF StartGroup, NewWriter, diskVars
    <2>2. ~(\E id \in Ids : ArchiveEmail(id) /\ AddRaw(id))
      BY <2>1 DEF ArchiveEmail
    <2> QED
      BY <1>1, <2>1, <2>2, QuietStep DEF IInv, LastArticle
  <1>3. CASE FetchRetry \/ RequestShutdown \/ Post \/ Expire \/ UNCHANGED vars
    <2>1. UNCHANGED <<pc, buffer, synced, progress, cur, err, phase, next>>
      BY <1>3 DEF FetchRetry, RequestShutdown, Post, Expire, vars,
                  awVars, diskVars, memVars, groupVars
    <2>2. ~(\E id \in Ids : ArchiveEmail(id) /\ AddRaw(id))
      BY <2>1 DEF ArchiveEmail, AddRaw
    <2> QED
      BY <1>1, <2>1, <2>2, QuietStep DEF IInv, LastArticle
  <1>4. CASE Wait \/ Restart
    <2>1. /\ UNCHANGED <<pc, buffer, synced, progress, cur, err, next>>
          /\ phase' # "read" /\ phase # "read"
      BY <1>4 DEF Wait, Poll, SeeShutdown, ReconnectFails, ChannelClosed, AtTop,
                  Goto, Restart, awVars, diskVars, memVars
    <2>2. ~(\E id \in Ids : ArchiveEmail(id) /\ AddRaw(id))
      BY <2>1 DEF ArchiveEmail, AddRaw
    <2> QED
      BY <1>1, <2>1, <2>2, QuietStep DEF IInv, LastArticle
  <1>5. CASE Writer /\ (CreateFile \/ WriteLineage)
    <2>1. /\ UNCHANGED <<buffer, synced, progress, cur, err, phase, next>>
          /\ pc \in {"flush", "lineage"} /\ pc' # "raw"
      BY <1>5 DEF Writer, CreateFile, WriteLineage, groupVars
    <2>2. ~(\E id \in Ids : ArchiveEmail(id) /\ AddRaw(id))
      BY <2>1 DEF ArchiveEmail
    <2> QED
      BY <1>1, <2>1, <2>2, QuietStep DEF IInv, LastArticle
  <1> QED
    BY <1>2, <1>3, <1>4, <1>5
-----------------------------------------------------------------------------
(* One step keeps the invariant, and does not move the progress backwards. *)
LEMMA NextKeeps ==
  ASSUME WholeFiles, IInv, [Next]_vars
  PROVE  IInv' /\ LastArticle' >= LastArticle
  <1> DEFINE Goal == GInv' /\ LastArticle' >= LastArticle
  <1>1. AWStep /\ GPhase' /\ low' \in Nat /\ low' >= low
    BY CommonStep
  <1>2. WInv' /\ TypeOK'
    BY WInvKept, TypeKept DEF IInv, GInv, WInv
  <1>3. LastArticle \in Nat
    BY LastArticleType DEF IInv, TypeOK
  <1>4. CASE \/ StartGroup \/ FetchRetry \/ RequestShutdown \/ Restart \/ Post
             \/ Expire \/ Wait \/ UNCHANGED vars
             \/ Writer /\ (CreateFile \/ WriteLineage)
    <2>1. Goal
      BY <1>1, <1>4, QuietKeeps
    <2> QED
      BY <1>2, <2>1 DEF IInv
  <1>5. CASE GroupHasNews \/ FetchArticle \/ FetchUnavailable
    <2>1. GInv'
      <3>1. CASE FetchArticle
        BY <1>1, <3>1, FetchRawKeeps, FetchParquetKeeps
           DEF FetchArticle, ArchiveEmail
      <3> QED
        BY <1>1, <1>5, <3>1, GroupHasNewsKeeps, FetchUnavailableKeeps
    <2>2. progress' = progress
      BY <1>5 DEF GroupHasNews, FetchArticle, FetchUnavailable, ArchiveEmail,
                  LogError, LogErrorFails, awVars, diskVars
    <2> QED
      BY <1>2, <1>3, <2>1, <2>2 DEF IInv, LastArticle
  <1>6. CASE GroupHasNoNews \/ GroupFails \/ FetchFails \/ FinishGroup \/ AbandonGroup
    <2>1. PICK r \in Outcomes : Return(r)
      BY <1>6 DEF GroupHasNoNews, GroupFails, FetchFails, FinishGroup,
                  AbandonGroup, Outcomes
    <2>2. GInv'
      BY <1>1, <2>1, ReturnKeeps
    <2>3. progress' = progress
      BY <2>1 DEF Return, BeginDrop, BeginDropTo, diskVars
    <2> QED
      BY <1>2, <1>3, <2>2, <2>3 DEF IInv, LastArticle
  <1>7. CASE Writer /\ (WriteRaw \/ WriteRowGroup \/ CloseFile)
    <2>1. GInv'
      BY <1>1, <1>2, <1>7, WriteRawKeeps, WriteRowGroupKeeps, CloseFileKeeps
    <2>2. progress' = progress
      BY <1>7 DEF WriteRaw, WriteRowGroup, CloseFile
    <2> QED
      BY <1>2, <1>3, <2>1, <2>2 DEF IInv, LastArticle
  <1>8. CASE Writer /\ (SyncProgress \/ EndDrop)
    <2>1. Goal
      BY <1>1, <1>8, SyncProgressKeeps, EndDropKeeps
    <2> QED
      BY <1>2, <2>1 DEF IInv
  <1>9. CASE WriterFails \/ Crash
    <2>1. Goal
      BY <1>1, <1>9, WriterFailsKeeps, CrashKeeps
    <2> QED
      BY <1>2, <2>1 DEF IInv
  <1>10. Writer => WriterStep
    BY DEF Writer
  <1> QED
    BY <1>4, <1>5, <1>6, <1>7, <1>8, <1>9, <1>10
       DEF Next, Work, Trouble, WriterStep, Wait

(* What holds of the loop and its writer with files of any size. *)
GBase == TypeOK /\ WBase /\ GPhase

LEMMA GBaseInit ==
  ASSUME Init
  PROVE  GBase
  BY InitInv, WholeIsBase DEF IInv, GInv, GBase

LEMMA GBaseStep ==
  ASSUME GBase, [Next]_vars
  PROVE  GBase'
  <1>1. AWStep
    BY NextIsWriterStep DEF GBase
  <1>2. WBase' /\ GPhase'
    BY <1>1, WBaseStep, PhaseKept DEF GBase
  <1>3. TypeOK'
    BY <1>2, TypeKept DEF GBase, WBase
  <1> QED
    BY <1>2, <1>3 DEF GBase

(* Every variable keeps its type, with files of any size. *)
THEOREM TypeCorrect == Spec => []TypeOK
  <1>1. GBase => TypeOK
    BY DEF GBase
  <1> QED
    BY <1>1, GBaseInit, GBaseStep, PTL DEF Spec

(* The order of the numbers needs nothing of the files. *)
LEMMA OrderFacts ==
  ASSUME GBase
  PROVE  /\ LastArticle \in Nat /\ next \in Nat /\ low \in Nat
         /\ buffer \in Seq(Nat) /\ Range(buffer) \subseteq Nat
         /\ synced \in Seq(Nat) /\ Range(synced) \subseteq Nat
  <1>1. buffer \in Seq(Nat) /\ synced \in Seq(Nat)
    BY ArticleAssumption DEF GBase, TypeOK, AWTypeOK
  <1>2. LastArticle \in Nat /\ next \in Nat /\ low \in Nat
    BY LastArticleType, ArticleAssumption DEF GBase, TypeOK
  <1> QED
    BY <1>1, <1>2, RangeType

(* A step that leaves all numbers alone, but for skipping articles. *)
LEMMA OrderStays ==
  ASSUME GBase, GOrder, UNCHANGED <<buffer, synced, progress, cur>>,
         phase' = "read" => phase = "read" /\ (next' = next \/ next' = next + 1),
         pc' = "raw" => pc = "raw"
  PROVE  GOrder' /\ LastArticle' >= LastArticle
  <1>1. Range(buffer)' = Range(buffer) /\ Range(synced)' = Range(synced)
    OBVIOUS
  <1>2. LastArticle' = LastArticle
    BY DEF LastArticle
  <1>3. Ascending(buffer)' /\ Ascending(synced)'
    BY DEF GOrder, Ascending
  <1>4. phase' = "read" => /\ LastArticle' <= next'
                           /\ \A x \in Range(buffer) \cup Range(synced) : x < next'
    BY <1>2, OrderFacts DEF GOrder
  <1> QED
    BY <1>1, <1>2, <1>3, <1>4, OrderFacts DEF GOrder

(* Most steps are of this kind. *)
LEMMA OrderOfOthers ==
  ASSUME GBase, GOrder, [Next]_vars,
         ~GroupHasNews, ~FetchArticle, ~WriterFails, ~Crash,
         ~(Writer /\ (WriteRaw \/ WriteRowGroup \/ SyncProgress \/ EndDrop))
  PROVE  GOrder' /\ LastArticle' >= LastArticle
  <1>1. CASE StartGroup \/ FetchRetry \/ RequestShutdown \/ Post \/ Expire
             \/ UNCHANGED vars
    BY <1>1, OrderStays
    DEF StartGroup, NewWriter, FetchRetry, RequestShutdown, Post, Expire, vars,
        awVars, diskVars, memVars, groupVars
  <1>2. CASE Wait \/ Restart
    BY <1>2, OrderStays
    DEF Wait, Poll, SeeShutdown, ReconnectFails, ChannelClosed, Goto, Restart,
        awVars, diskVars, memVars
  <1>3. CASE GroupHasNoNews \/ GroupFails \/ FetchFails \/ FinishGroup \/ AbandonGroup
    <2>1. PICK r \in Outcomes : Return(r)
      BY <1>3 DEF GroupHasNoNews, GroupFails, FetchFails, FinishGroup,
                  AbandonGroup, Outcomes
    <2> QED
      BY <2>1, OrderStays DEF Return, BeginDrop, BeginDropTo, diskVars
  <1>4. CASE FetchUnavailable
    BY <1>4, OrderStays
    DEF FetchUnavailable, LogError, LogErrorFails, Fetching, Reading, NextMail,
        diskVars, memVars
  <1>5. CASE Writer /\ (CreateFile \/ CloseFile \/ WriteLineage)
    BY <1>5, OrderStays DEF Writer, CreateFile, CloseFile, WriteLineage, groupVars
  <1> QED
    BY <1>1, <1>2, <1>3, <1>4, <1>5
    DEF Next, Work, Trouble, Writer, WriterStep, Wait

LEMMA OrderOfFetch ==
  ASSUME GBase, GOrder, FetchArticle
  PROVE  GOrder' /\ LastArticle' = LastArticle
  <1>1. /\ phase = "read" /\ pc = "ready" /\ ArchiveEmail(next)
        /\ phase' = "read" /\ next' = next + 1
        /\ cur' = next /\ progress' = progress /\ synced' = synced
    BY DEF FetchArticle, Fetching, Reading, ArchiveEmail, NextMail
  <1>2. LastArticle' = LastArticle
    BY <1>1 DEF LastArticle
  <1>3. Range(synced)' = {} /\ Ascending(synced)'
    BY <1>1 DEF GBase, WBase, WPlace, Range, Ascending
  <1>4. /\ LastArticle <= next /\ Ascending(buffer)
        /\ \A x \in Range(buffer) : LastArticle <= x /\ x < next
    BY <1>1 DEF GOrder
  <1>5. CASE AddRaw(next)
    <2>1. buffer' = <<>>
      BY <1>5 DEF AddRaw, GBase, WBase, WMode
    <2>2. Range(buffer)' = {} /\ Ascending(buffer)'
      BY <2>1 DEF Range, Ascending
    <2> QED
      BY <1>1, <1>2, <1>3, <1>4, <2>2, OrderFacts DEF GOrder
  <1>6. CASE AddParquet(next)
    <2>1. buffer' = Append(buffer, next) /\ pc' # "raw"
      BY <1>6 DEF AddParquet
    <2>2. Range(buffer') = Range(buffer) \cup {next} /\ Ascending(buffer')
      BY <1>4, <2>1, OrderFacts, AppendFacts
    <2>3. Ascending(buffer)'
      BY <2>2 DEF Ascending
    <2>4. \A x \in Range(buffer)' : LastArticle <= x /\ x < next + 1
      BY <1>4, <2>2, OrderFacts
    <2> QED
      BY <1>1, <1>2, <1>3, <1>4, <2>1, <2>3, <2>4, OrderFacts DEF GOrder
  <1> QED
    BY <1>1, <1>2, <1>5, <1>6 DEF ArchiveEmail

LEMMA OrderOfWrites ==
  ASSUME GBase, GOrder, Writer, WriteRaw \/ WriteRowGroup
  PROVE  GOrder' /\ LastArticle' = LastArticle
  <1>1. /\ UNCHANGED <<phase, next, progress>>
        /\ pc' # "raw" /\ pc \in {"raw", "flush"}
    BY DEF Writer, groupVars, WriteRaw, WriteRowGroup
  <1>2. LastArticle' = LastArticle
    BY <1>1 DEF LastArticle
  <1>3. CASE WriteRaw
    <2>1. buffer' = <<>> /\ synced' = <<cur>> /\ cur = next - 1 /\ LastArticle <= cur
      BY <1>3 DEF WriteRaw, GBase, WBase, WMode, GPhase, GOrder
    <2>2. Range(buffer)' = {} /\ Range(synced)' = {cur}
      BY <2>1 DEF Range
    <2>3. Ascending(buffer)' /\ Ascending(synced)'
      BY <2>1 DEF Ascending
    <2>4. phase = "read" => LastArticle <= next /\ cur < next
      BY <2>1, OrderFacts DEF GOrder
    <2> QED
      BY <1>1, <1>2, <2>1, <2>2, <2>3, <2>4 DEF GOrder
  <1>4. CASE WriteRowGroup
    <2>1. synced' = buffer /\ buffer' = <<>>
      BY <1>4 DEF WriteRowGroup
    <2>2. Range(synced)' = Range(buffer) /\ Range(buffer)' = {}
      BY <2>1 DEF Range
    <2>3. Ascending(buffer)' /\ Ascending(synced)'
      BY <2>1 DEF GOrder, Ascending
    <2> QED
      BY <1>1, <1>2, <2>2, <2>3 DEF GOrder
  <1> QED
    BY <1>3, <1>4

LEMMA OrderOfSync ==
  ASSUME GBase, GBase', GOrder, Writer, SyncProgress
  PROVE  GOrder' /\ LastArticle' >= LastArticle
  <1>1. /\ progress' = Head(synced) /\ synced' = Tail(synced) /\ synced # <<>>
        /\ UNCHANGED <<buffer, phase, next>> /\ pc' # "raw" /\ buffer = <<>>
    BY DEF SyncProgress, Writer, groupVars, GBase, WBase, WPlace
  <1>2. /\ Head(synced) \in Range(synced) /\ Head(synced) \in Nat
        /\ Range(Tail(synced)) \subseteq Range(synced)
        /\ Ascending(Tail(synced))
        /\ \A x \in Range(Tail(synced)) : Head(synced) <= x
    BY <1>1, OrderFacts, TailFacts DEF GOrder
  <1>3. LastArticle' = Head(synced)
    <2>1. Head(synced) \in Ids
      BY <1>1 DEF GBase, TypeOK, AWTypeOK
    <2> QED
      BY <1>1, <2>1, IdsAssumption DEF LastArticle
  <1>4. LastArticle <= Head(synced)
    BY <1>2 DEF GOrder
  <1>5. Range(buffer)' = {} /\ Ascending(buffer)' /\ Ascending(synced)'
        /\ Range(synced)' = Range(Tail(synced))
    BY <1>1, <1>2 DEF Range, Ascending
  <1>6. phase' = "read" => Head(synced) <= next /\ \A x \in Range(synced) : x < next
    BY <1>1, <1>2, OrderFacts DEF GOrder
  <1> QED
    BY <1>1, <1>2, <1>3, <1>4, <1>5, <1>6 DEF GOrder

(* A step after which nothing is buffered or committed. *)
LEMMA OrderEmptied ==
  ASSUME GBase, GOrder, buffer' = <<>>, synced' = <<>>, pc' # "raw",
         phase' = "read" => phase = "read" /\ next' = next /\ progress' = progress
  PROVE  GOrder'
  <1>1. Range(buffer)' = {} /\ Range(synced)' = {}
    BY DEF Range
  <1>2. Ascending(buffer)' /\ Ascending(synced)'
    BY DEF Ascending
  <1>3. phase' = "read" => LastArticle' <= next'
    BY DEF GOrder, LastArticle
  <1> QED
    BY <1>1, <1>2, <1>3 DEF GOrder

LEMMA OrderStep ==
  ASSUME GBase, GBase', GOrder, [Next]_vars
  PROVE  GOrder' /\ LastArticle' >= LastArticle
  <1>1. CASE GroupHasNews
    <2>1. /\ UNCHANGED <<buffer, synced, progress, pc>>
          /\ phase = "group" /\ next' = Larger(LastArticle, low)
      BY <1>1 DEF GroupHasNews, awVars, diskVars, memVars
    <2>2. Range(buffer)' = {} /\ Range(synced)' = {} /\ pc' # "raw"
      BY <2>1 DEF GBase, GPhase, Range
    <2>3. Ascending(buffer)' /\ Ascending(synced)' /\ LastArticle' = LastArticle
      BY <2>1 DEF GOrder, Ascending, LastArticle
    <2>4. LastArticle <= next'
      BY <2>1, OrderFacts DEF Larger
    <2> QED
      BY <2>2, <2>3, <2>4, OrderFacts DEF GOrder
  <1>2. CASE FetchArticle
    BY <1>2, OrderOfFetch, OrderFacts
  <1>3. CASE Writer /\ (WriteRaw \/ WriteRowGroup)
    BY <1>3, OrderOfWrites, OrderFacts
  <1>4. CASE Writer /\ SyncProgress
    BY <1>4, OrderOfSync
  <1>5. CASE Writer /\ EndDrop
    <2>1. /\ pc = "sync" /\ closing /\ buffer' = <<>> /\ synced' = <<>> /\ pc' = "none"
          /\ progress' = IF synced # <<>> THEN Last(synced) ELSE progress
          /\ phase' = phase
      BY <1>5 DEF EndDrop, Forget, Writer, groupVars
    <2>2. phase' # "read"
      BY <2>1 DEF GBase, GPhase
    <2>3. GOrder'
      BY <2>1, <2>2, OrderEmptied
    <2>4. CASE synced # <<>>
      <3>1. Last(synced) \in Range(synced) /\ Last(synced) \in Ids
        <4>1. synced \in Seq(Ids)
          BY DEF GBase, TypeOK, AWTypeOK
        <4>2. Len(synced) \in DOMAIN synced
          BY <2>4, <4>1
        <4>3. Last(synced) \in Ids
          BY <4>1, <4>2 DEF Last
        <4>4. Last(synced) \in Range(synced)
          BY <4>2 DEF Last, Range
        <4> QED
          BY <4>3, <4>4
      <3>2. LastArticle' = Last(synced)
        BY <2>1, <2>4, <3>1, IdsAssumption DEF LastArticle
      <3> QED
        BY <2>3, <3>1, <3>2 DEF GOrder
    <2>5. CASE synced = <<>>
      BY <2>1, <2>3, <2>5, OrderFacts DEF LastArticle
    <2> QED
      BY <2>4, <2>5
  <1>6. CASE WriterFails
    <2>1. /\ UNCHANGED <<phase, next, progress, cur>> \/ (Forget /\ UNCHANGED progress)
          /\ pc' # "raw" /\ synced' = <<>> /\ (buffer' = buffer \/ buffer' = <<>>)
          /\ UNCHANGED <<phase, next, progress>>
      BY <1>6
      DEF WriterFails, IoError, ArchiveFails, DropFails, ErrorOnDisk, Forget, groupVars
    <2>2. LastArticle' = LastArticle
      BY <2>1 DEF LastArticle
    <2>3. CASE buffer' = <<>>
      BY <2>1, <2>2, <2>3, OrderEmptied, OrderFacts
    <2>4. CASE buffer' = buffer
      <3>1. Range(synced)' = {} /\ Range(buffer)' = Range(buffer)
        BY <2>1, <2>4 DEF Range
      <3>2. Ascending(buffer)' /\ Ascending(synced)'
        BY <2>1, <2>4 DEF GOrder, Ascending
      <3> QED
        BY <2>1, <2>2, <3>1, <3>2, OrderFacts DEF GOrder
    <2> QED
      BY <2>1, <2>3, <2>4
  <1>7. CASE Crash
    <2>1. /\ progress' = progress /\ buffer' = <<>> /\ synced' = <<>>
          /\ pc' = "none" /\ phase' = "idle"
      BY <1>7 DEF Crash, CrashWriter, Forget, diskVars
    <2> QED
      BY <2>1, OrderEmptied, OrderFacts DEF LastArticle
  <1> QED
    BY <1>1, <1>2, <1>3, <1>4, <1>5, <1>6, <1>7, OrderOfOthers

(* __progress.yaml never moves backwards while a list is archived in       *)
(* normal mode, with files of any size: an article is committed behind     *)
(* those before it, and a call starts no earlier than the last one.        *)
THEOREM ProgressMonotone == Spec => ProgressNeverRegresses
  <1>1. Init => GBase /\ GOrder
    BY GBaseInit, InitInv DEF IInv, GInv
  <1>2. GBase /\ GOrder /\ [Next]_vars =>
          GBase' /\ GOrder' /\ [LastArticle' >= LastArticle]_vars
    BY GBaseStep, OrderStep
  <1> QED
    BY <1>1, <1>2, PTL DEF Spec, ProgressNeverRegresses

(* Resuming from __progress.yaml skips no article that the server could    *)
(* have served, whatever crashes, I/O errors, failed fetches, stops and    *)
(* expiries came before, when a parquet file has at most 2048 emails, and  *)
(* in raw mode.                                                            *)
THEOREM ProgressIsCovered ==
  ASSUME WholeFiles
  PROVE  Spec => []ProgressCovered
  <1>1. Init => IInv
    BY InitInv
  <1>2. IInv /\ [Next]_vars => IInv'
    BY NextKeeps
  <1>3. IInv => ProgressCovered
    BY DEF IInv, GInv
  <1> QED
    BY <1>1, <1>2, <1>3, PTL DEF Spec
-----------------------------------------------------------------------------
(* The articles ResumableArchive calls settled. *)
AllSettled == {i \in Ids : Settled(i)}

LEMMA PromiseStep ==
  ASSUME WholeFiles, "raw" \notin Modes, IInv, [Next]_vars
  PROVE  \/ /\ AllSettled \subseteq AllSettled' /\ AllSettled' \subseteq Nat
            /\ LastArticle' = LastArticle
         \/ /\ LastArticle' \in Nat /\ LastArticle' >= LastArticle
            /\ 1..LastArticle' \subseteq AllSettled
            /\ AllSettled' = AllSettled
  <1>1. AWStep /\ low' \in Nat /\ low' >= low /\ IInv'
        /\ LastArticle' >= LastArticle
    BY CommonStep, NextKeeps
  <1>0. ~RawMode /\ ~RawMode'
    BY ModeKept DEF IInv, TypeOK, AWTypeOK, RawMode
  <1>2. ~(\E id \in Ids : ArchiveEmail(id) /\ AddRaw(id))
    BY <1>0 DEF AddRaw
  <1>3. AllSettled \subseteq AllSettled' /\ AllSettled' \subseteq Nat
    BY <1>1, <1>2, SettledStays, ArticleAssumption DEF AllSettled, IInv
  <1>4. CASE progress' = progress
    BY <1>3, <1>4 DEF LastArticle
  <1>5. CASE progress' # progress
    <2>1. SyncProgress \/ EndDrop
      BY <1>1, <1>5, ProgressStep DEF IInv, WInv
    <2>2. Writer
      <3>1. pc = "sync"
        BY <2>1 DEF SyncProgress, EndDrop
      <3>2. ~FetchArticle /\ ~FetchUnavailable /\ ~GroupHasNews /\ ~StartGroup
        BY <3>1 DEF FetchArticle, FetchUnavailable, Fetching, Reading,
                    GroupHasNews, StartGroup, NewWriter, IInv, GInv, GPhase
      <3>3. ~GroupHasNoNews /\ ~GroupFails /\ ~FetchFails /\ ~FinishGroup
            /\ ~AbandonGroup
        BY <3>1 DEF GroupHasNoNews, GroupFails, FetchFails, FinishGroup,
                    AbandonGroup, Return, BeginDrop, BeginDropTo
      <3>4. ~FetchRetry /\ ~RequestShutdown /\ ~Restart /\ ~Post /\ ~Expire
            /\ ~(UNCHANGED vars) /\ ~Crash
        BY <1>5 DEF FetchRetry, RequestShutdown, Restart, Post, Expire, vars,
                    awVars, diskVars, Crash, CrashWriter
      <3>5. ~WriterFails
        BY <1>5 DEF WriterFails, IoError, ArchiveFails, DropFails, ErrorOnDisk
      <3>6. ~Wait
        BY <1>5 DEF Wait, Poll, SeeShutdown, ReconnectFails, ChannelClosed, Goto,
                    diskVars
      <3> QED
        BY <3>2, <3>3, <3>4, <3>5, <3>6 DEF Next, Work, Trouble, Wait
    <2>3. UNCHANGED <<eml, files, low>>
      BY <2>1, <2>2 DEF SyncProgress, EndDrop, Writer, serverVars
    <2>4. AllSettled' = AllSettled
      BY <2>3 DEF AllSettled, Settled, Gone, Durable
    <2>5. LastArticle' \in Nat /\ 1..LastArticle' \subseteq Ids
      <3>1. (LastArticle \in 0..MaxId)'
        BY <1>1, IdsAssumption, ArticleAssumption
        DEF LastArticle, IInv, TypeOK, AWTypeOK
      <3> QED
        BY <3>1, ArticleAssumption
    <2>6. 1..LastArticle' \subseteq AllSettled'
      BY <1>0, <1>1, <2>5 DEF IInv, GInv, ProgressCovered, AllSettled
    <2> QED
      BY <1>1, <2>4, <2>5, <2>6
  <1> QED
    BY <1>4, <1>5

(* In parquet mode, with at most 2048 emails per file, handle_group and    *)
(* its writer keep the promise of ResumableArchive: what is settled stays  *)
(* settled and the mark moves forward over settled articles only.          *)
THEOREM KeepsPromise ==
  ASSUME WholeFiles, "raw" \notin Modes
  PROVE  Spec => PromiseSpec
  <1>1. Init => IInv /\ Promise!Init
    <2> SUFFICES ASSUME Init PROVE IInv /\ Promise!Init
      OBVIOUS
    <2>1. LastArticle = 0
      BY DEF Init, AWInit, LastArticle
    <2> QED
      BY <2>1, InitInv, ArticleAssumption DEF Promise!Init
  <1>2. IInv /\ [Next]_vars => IInv' /\ [Promise!Next]_<<AllSettled, LastArticle>>
    <2> SUFFICES ASSUME IInv, [Next]_vars
                 PROVE  IInv' /\ [Promise!Next]_<<AllSettled, LastArticle>>
      OBVIOUS
    <2>1. IInv'
      BY NextKeeps
    <2>2. Promise!Next
      BY PromiseStep DEF AllSettled, Promise!Next, Promise!Settle, Promise!Advance
    <2> QED
      BY <2>1, <2>2
  <1> QED
    BY <1>1, <1>2, PTL DEF Spec, PromiseSpec, Promise!Spec, AllSettled
=============================================================================
