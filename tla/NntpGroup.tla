------------------------------ MODULE NntpGroup ------------------------------
(***************************************************************************)
(* nntp_source/nntp_worker.rs: consumme_list, seen from one mailing list   *)
(* that is fetched by repeated calls of handle_group, each with an         *)
(* ArchiveWriter of its own, from a news server that keeps receiving and   *)
(* expiring articles.                                                      *)
(*                                                                         *)
(* The server is the nntp crate's view of it: GROUP answers with the low   *)
(* and high water marks, ARTICLE with the article, with "unavailable", or  *)
(* with a network error.  Article numbers never start over.                *)
(***************************************************************************)
EXTENDS ArchiveWriter

CONSTANTS
  MaxId,       \* bound: the highest article number the server reaches
  Cancelled,   \* articles that have a number and that the server never has
  MaxRetries   \* the 3 of get_raw_article_by_number_retryable's caller

ASSUME ArticleAssumption ==
  /\ MaxId \in Nat
  /\ Ids = 1..MaxId
  /\ Cancelled \subseteq Ids
ASSUME RetryAssumption == MaxRetries \in Nat

VARIABLES
  \* the server
  low, high,  \* water marks of the group
  \* handle_group
  phase,      \* see Phases
  first,      \* where read_new_mails started
  limit,      \* the high water mark of the GROUP answer
  next,       \* current_mail
  attempts,   \* failed attempts at current_mail
  outcome,    \* how the last call of handle_group ended
  shutdown    \* the flag Ctrl+C sets

serverVars == <<low, high>>
groupVars  == <<phase, first, limit, next, attempts, outcome>>
vars == <<awVars, serverVars, groupVars, shutdown>>

(* "idle": the top of the loop of consumme_list; "recv": waiting for a     *)
(* task; "group": handle_group before the GROUP answer; "read":            *)
(* read_new_mails; "ended": consumme_list returned.                        *)
Phases == {"idle", "recv", "group", "read", "ended"}
Outcomes == {"none", "complete", "stopped", "error", "nonews"}

TypeOK ==
  /\ AWTypeOK
  /\ low \in 1..(MaxId + 1) /\ high \in 0..MaxId
  /\ phase \in Phases
  /\ first \in 0..(MaxId + 1) /\ next \in 0..(MaxId + 1)
  /\ limit \in 0..MaxId
  /\ attempts \in 0..MaxRetries
  /\ outcome \in Outcomes
  /\ shutdown \in BOOLEAN

Init ==
  /\ AWInit
  /\ low = 1 /\ high \in 0..MaxId
  /\ phase = "idle" /\ outcome = "none"
  /\ first = 0 /\ limit = 0 /\ next = 0 /\ attempts = 0
  /\ shutdown = FALSE

(* last_processed_id().unwrap_or("0") *)
LastArticle == IF progress = None THEN 0 ELSE progress

(* The articles the server cannot serve, and will not serve again. *)
Gone(i) == i < low \/ i \in Cancelled

AlwaysLow(a, b) == b  \* mutant: resuming starts at the low water mark
Larger(a, b) == IF a < b THEN b ELSE a
-----------------------------------------------------------------------------
(* An article arrives.  *)
Post ==
  /\ high < MaxId
  /\ high' = high + 1
  /\ UNCHANGED <<awVars, low, groupVars, shutdown>>

(* The server expires its oldest article. *)
Expire ==
  /\ low <= high
  /\ low' = low + 1
  /\ UNCHANGED <<awVars, high, groupVars, shutdown>>

(* Ctrl+C: the handler of main.rs sets the flag. *)
RequestShutdown ==
  /\ ~shutdown
  /\ Spend("stop")
  /\ shutdown' = TRUE
  /\ UNCHANGED <<diskVars, memVars, serverVars, groupVars>>

(* The user starts the program again once the worker ended. *)
Restart ==
  /\ phase = "ended"
  /\ phase' = "idle" /\ outcome' = "none"
  /\ shutdown' = FALSE
  /\ UNCHANGED <<awVars, serverVars, first, limit, next, attempts>>

(* The process is killed and started again. *)
Crash ==
  /\ CrashWriter
  /\ phase' = "idle" /\ outcome' = "none"
  /\ first' = 0 /\ limit' = 0 /\ next' = 0 /\ attempts' = 0
  /\ shutdown' = FALSE
  /\ UNCHANGED serverVars
-----------------------------------------------------------------------------
(* The top of the loop.  The flag is read once; then a connection that     *)
(* failed is made anew, or the worker ends; then recv blocks.              *)
AtTop == phase = "idle" /\ pc = "none"

Goto(where) ==
  /\ phase' = where
  /\ UNCHANGED <<diskVars, memVars, serverVars, first, limit, next, attempts,
                 outcome, shutdown>>

PollBlindly == AtTop /\ Goto("recv") /\ UNCHANGED <<mode, budget>>  \* mutant: no flag
Poll == AtTop /\ ~shutdown /\ Goto("recv") /\ UNCHANGED <<mode, budget>>

SeeShutdown == AtTop /\ shutdown /\ Goto("ended") /\ UNCHANGED <<mode, budget>>

ReconnectFails ==
  AtTop /\ outcome = "error" /\ Spend("net") /\ Goto("ended")

(* The producer of a looping run drops the sender only after it saw the    *)
(* flag.  (A run that does not loop ends by itself, and is started again:  *)
(* for this list that is one more turn of the loop.)                       *)
ChannelClosed ==
  phase = "recv" /\ shutdown /\ Goto("ended") /\ UNCHANGED <<mode, budget>>

Wait == Poll \/ SeeShutdown \/ ReconnectFails \/ ChannelClosed
-----------------------------------------------------------------------------
(* handle_group ends with the given outcome: its locals and its            *)
(* ArchiveWriter go out of scope.  limit is kept to state what was promised.*)
Return(result) ==
  /\ BeginDrop
  /\ phase' = "idle"
  /\ outcome' = result
  /\ first' = 0 /\ next' = 0 /\ attempts' = 0
  /\ UNCHANGED <<limit, serverVars, shutdown>>

(* recv returns this list: handle_group is called, even when the flag was  *)
(* set meanwhile.                                                          *)
StartGroup ==
  /\ phase = "recv"
  /\ NewWriter
  /\ phase' = "group"
  /\ outcome' = "none"
  /\ limit' = 0
  /\ UNCHANGED <<serverVars, first, next, attempts, shutdown>>

(* The GROUP answer: read_new_mails starts at the last processed article,  *)
(* that article included, or at the low water mark.                        *)
NewsButOne == LastArticle + 1 < high  \* mutant: off by one
HasNews == LastArticle < high

GroupHasNews ==
  /\ phase = "group"
  /\ HasNews
  /\ phase' = "read"
  /\ first' = Larger(LastArticle, low)
  /\ next' = Larger(LastArticle, low)
  /\ limit' = high
  /\ UNCHANGED <<awVars, serverVars, attempts, outcome, shutdown>>

GroupHasNoNews ==
  /\ phase = "group"
  /\ ~HasNews
  /\ Return("nonews")
  /\ UNCHANGED <<mode, budget>>

(* The GROUP command fails: handle_group returns at once. *)
GroupFails ==
  /\ phase = "group"
  /\ Spend("net")
  /\ Return("error")
-----------------------------------------------------------------------------
(* read_new_mails between two effects on the archive.  The shutdown flag   *)
(* is read before the first attempt at an article, not between retries.    *)
Reading  == phase = "read" /\ pc = "ready" /\ ~err
FetchingPastEnd == Reading /\ next <= limit + 1  \* mutant: off by one
Fetching == Reading /\ next <= limit /\ (attempts > 0 \/ ~shutdown)

(* current_mail was handled. *)
NextMail ==
  /\ next' = next + 1
  /\ attempts' = 0
  /\ UNCHANGED <<serverVars, phase, first, limit, outcome, shutdown>>

(* ARTICLE answers with the article, and it is archived. *)
FetchArticle ==
  /\ Fetching /\ ~Gone(next)
  /\ ArchiveEmail(next)
  /\ NextMail

(* Mutant: the number is skipped only. *)
SkipUnavailable ==
  /\ Fetching /\ Gone(next)
  /\ UNCHANGED <<diskVars, memVars, mode, budget>>
  /\ NextMail

(* ARTICLE answers "unavailable": the number is logged and skipped. *)
FetchUnavailable ==
  /\ Fetching /\ Gone(next)
  /\ LogError(next) \/ LogErrorFails(next)
  /\ NextMail

(* Mutant: an article that cannot be fetched is passed over. *)
SkipFailed ==
  /\ Fetching
  /\ Spend("net")
  /\ UNCHANGED <<diskVars, memVars>>
  /\ NextMail

(* Any other answer is a failure: the article is asked for again. *)
FetchRetry ==
  /\ Fetching /\ attempts < MaxRetries
  /\ Spend("net")
  /\ attempts' = attempts + 1
  /\ UNCHANGED <<diskVars, memVars, serverVars, phase, first, limit, next,
                 outcome, shutdown>>

(* The last attempt fails: read_new_mails returns the error. *)
FetchFails ==
  /\ Fetching /\ attempts = MaxRetries
  /\ Spend("net")
  /\ Return("error")

(* All articles up to the limit were handled, or the flag was seen: both   *)
(* return Ok.                                                              *)
FinishGroup ==
  /\ Reading
  /\ \/ next > limit /\ Return("complete")
     \/ next <= limit /\ shutdown /\ attempts = 0 /\ Return("stopped")
  /\ UNCHANGED <<mode, budget>>

(* archive_email failed: ? returns from read_new_mails. *)
AbandonGroup ==
  /\ phase = "read" /\ err
  /\ Return("error")
  /\ UNCHANGED <<mode, budget>>

(* The writer inside archive_email and drop; it touches nothing else. *)
Writer ==
  /\ WriterStep
  /\ UNCHANGED <<serverVars, groupVars, shutdown>>

WriterFails ==
  /\ IoError
  /\ UNCHANGED <<serverVars, groupVars, shutdown>>
-----------------------------------------------------------------------------
Work ==
  \/ Poll \/ SeeShutdown \/ ChannelClosed
  \/ StartGroup \/ GroupHasNews \/ GroupHasNoNews
  \/ FetchArticle \/ FetchUnavailable \/ FinishGroup \/ AbandonGroup
  \/ Writer

Trouble ==
  \/ GroupFails \/ FetchRetry \/ FetchFails \/ WriterFails \/ Crash
  \/ ReconnectFails \/ RequestShutdown

Next == Work \/ Trouble \/ Restart \/ Post \/ Expire

Spec == Init /\ [][Next]_vars

(* loop_groups: the list is put on the channel again at every rescan, and  *)
(* a thread that can run does run.  Nothing else is promised: no restart,  *)
(* no article, no mishap.                                                  *)
FairSpec == Spec /\ WF_vars(Work)
-----------------------------------------------------------------------------
(* An article is settled when the archive has it or the server does not.   *)
Settled(i) == i \in Durable \/ Gone(i)

(* Resuming from __progress.yaml skips no article the server could have    *)
(* served: all up to last_email are archived, across crashes, failed       *)
(* writes, failed fetches and stops.  In raw mode the last one may have    *)
(* been damaged by the crash of its own rewriting, and is fetched again.   *)
ProgressCovered ==
  \A i \in 1..LastArticle : Settled(i) \/ (RawMode /\ i = LastArticle)

(* A call of handle_group that ends well has archived all it was asked to, *)
(* the emails that were still buffered included.  Drop swallows its        *)
(* errors, and a crash may cost a file that has no footer yet, so this is  *)
(* for executions without them.                                            *)
OkMeansArchived ==
  pc = "none" /\ outcome = "complete" /\ Unharmed =>
    \A i \in 1..limit : Settled(i)

(* What the archive skipped on the way to last_email is in __errors.csv,   *)
(* unless it had expired before it was asked for, or the line could not be *)
(* written: a failure the logger hides.  (In raw mode see ProgressCovered.)*)
SkippedIsLogged ==
  budget["io"] = Budget["io"] =>
    \A i \in 1..LastArticle :
       i \in Durable \cup errors \/ i < low \/ (RawMode /\ i = LastArticle)

(* No step moves __progress.yaml backwards. *)
ProgressNeverRegresses == [][LastArticle' >= LastArticle]_vars

(* Without crashes and I/O errors an article is archived twice only as the *)
(* first one of a call of handle_group.                                    *)
RefetchOnlyAtStart ==
  [][Unharmed /\ FetchArticle /\ next \in Durable => next = first]_vars

(* Every article that arrives is archived, or the server loses it, if the  *)
(* worker is not left stopped.                                             *)
EventuallySettled ==
  <>[](~shutdown /\ phase # "ended") => \A i \in Ids : high >= i ~> Settled(i)

(* A shutdown request ends the worker: a call that is under way returns,   *)
(* its drop completes, and no list is begun forever after.  (A process that *)
(* is killed meanwhile starts again with the flag cleared.)                *)
ShutdownEndsWorker == shutdown ~> phase = "ended" \/ ~shutdown

(* In parquet mode the whole of it is the promise of ResumableArchive.     *)
Promise == INSTANCE ResumableArchive
             WITH settled <- {i \in Ids : Settled(i)}, mark <- LastArticle
PromiseSpec == Promise!Spec
=============================================================================
