----------------------------- MODULE PublicInbox -----------------------------
(***************************************************************************)
(* public_inbox_source/pi_worker.rs: one public inbox archived by repeated *)
(* calls of process_inbox, and by calls of read_email_by_index.            *)
(*                                                                         *)
(* A V2 inbox is a row of git repositories, its epochs, of which only the  *)
(* last one grows; a V1 inbox is a single one.  Each has a linear history  *)
(* with one email per commit.  Commit n of an epoch is its n-th oldest     *)
(* one; a walk goes from the newest commit, size[e], down to 1.            *)
(*                                                                         *)
(* The writer is ArchiveWriter without mishaps: archive_email is one step  *)
(* that stores the email and its progress.                                 *)
(***************************************************************************)
EXTENDS Integers, FiniteSets

CONSTANTS
  Formats,    \* formats the inbox may have, of "v1" and "v2"
  NumEpochs,  \* bound: epochs 1..NumEpochs
  MaxCommits, \* bound: commits of the inbox
  MaxBad,     \* bound: commits without an "m" blob
  None,       \* no progress
  Stops,      \* bound: how often Ctrl+C is pressed
  Fetches,    \* bound: how often read_email_by_index is called
  Runs        \* bound: how often process_inbox is called

ASSUME SizeAssumption == NumEpochs \in Nat \ {0} /\ MaxCommits \in Nat
ASSUME FormatAssumption == Formats \subseteq {"v1", "v2"}
ASSUME BoundAssumption ==
  MaxBad \in Nat /\ Stops \in Nat /\ Fetches \in Nat /\ Runs \in Nat

Epochs == 1..NumEpochs

(* A parsed email id.  None is no record. *)
EmailId == [num : Nat \ {0}, epoch : 0..NumEpochs, commit : Nat \ {0}]
ASSUME NoneAssumption == None \notin EmailId

(* The commits of epochs that have the given sizes. *)
CommitsOf(sizes) == {c \in Epochs \X (1..MaxCommits) : c[2] <= sizes[c[1]]}

(* How many of them are in the epochs before e. *)
NumBefore(sizes, e) == Cardinality({c \in CommitsOf(sizes) : c[1] < e})

VARIABLES
  format,    \* of the inbox
  size,      \* commits of each epoch; an epoch exists when it has one
  bad,       \* commits <<epoch, n>> without an "m" blob
  \* on disk
  progress,  \* last_email of __progress.yaml
  archived,  \* the ids of the emails in the archive
  errors,    \* commits with a line in __errors.csv
  \* process_inbox
  pc,        \* "idle", "epoch", "walk", or "dead" once the thread panicked
  epoch,     \* the epoch of the loop over epochs_to_use
  last,      \* the last epoch find_epochs saw
  global,    \* global_position
  total,     \* cumulative_emails_total
  skip,      \* skip_until_sha; 0 for None
  \* process_epoch
  resume,    \* resume_sha_full; 0 for None
  before,    \* total_before_resume
  new,       \* new_commits
  pos,       \* the next commit of the walk; 0 when it is over
  counted,   \* commit_count
  handled,   \* processed_new; next_email_num = global + handled + 1
  \* environment and history
  shutdown,
  stops,     \* times Ctrl+C was pressed
  fetches,   \* calls of read_email_by_index
  runs,      \* calls of process_inbox
  fresh,     \* this call of process_inbox found no progress
  seen,      \* commits of each epoch when this call came to it
  outcome    \* how the last call of process_inbox ended

inboxData == <<format, size, bad>>
diskVars  == <<progress, archived, errors>>
inboxVars == <<epoch, last, global, total, skip>>
walkVars  == <<resume, before, new, pos, counted, handled>>
envVars   == <<shutdown, stops, fetches, runs>>
callVars  == <<fresh, seen, outcome>>
vars == <<inboxData, diskVars, pc, inboxVars, walkVars, envVars, callVars>>

IsV1 == format = "v1"

(* The name process_inbox gives an epoch; 0 stands for "all".              *)
EpochName(e) == IF IsV1 THEN 0 ELSE e

CommitsBefore(e) == NumBefore(size, e)

TypeOK ==
  /\ format \in Formats
  /\ size \in [Epochs -> 0..MaxCommits]
  /\ bad \subseteq CommitsOf(size)
  /\ progress \in EmailId \cup {None}
  /\ archived \subseteq EmailId
  /\ errors \subseteq Epochs \X Nat
  /\ pc \in {"idle", "epoch", "walk", "dead"}
  /\ epoch \in 1..(NumEpochs + 1) /\ last \in 0..NumEpochs
  /\ global \in Nat /\ total \in Nat
  /\ skip \in Nat /\ resume \in Nat
  /\ before \in Nat /\ new \in Nat /\ pos \in Nat
  /\ counted \in Nat /\ handled \in Nat
  /\ shutdown \in BOOLEAN /\ stops \in 0..Stops /\ fetches \in 0..Fetches
  /\ runs \in 0..Runs
  /\ fresh \in BOOLEAN /\ seen \in [Epochs -> 0..MaxCommits]
  /\ outcome \in {"none", "complete", "stopped"}

Init ==
  /\ format \in Formats
  /\ size \in {s \in [Epochs -> 0..MaxCommits] :
                 /\ s[1] > 0 /\ NumBefore(s, NumEpochs + 1) <= MaxCommits
                 /\ \A e \in 2..NumEpochs : s[e] > 0 => s[e - 1] > 0 /\ ~IsV1}
  /\ bad \in {b \in SUBSET CommitsOf(size) : Cardinality(b) <= MaxBad}
  /\ progress = None /\ archived = {} /\ errors = {}
  /\ pc = "idle" /\ epoch = 1 /\ last = 0 /\ global = 0 /\ total = 0 /\ skip = 0
  /\ resume = 0 /\ before = 0 /\ new = 0 /\ pos = 0 /\ counted = 0 /\ handled = 0
  /\ shutdown = FALSE /\ stops = 0 /\ fetches = 0 /\ runs = 0
  /\ fresh = FALSE /\ seen = [e \in Epochs |-> 0] /\ outcome = "none"

(* e is the last epoch find_epochs returns. *)
IsNewest(e) == size[e] > 0 /\ \A f \in Epochs : f > e => size[f] = 0

Minus(a, b) == IF a < b THEN 0 ELSE a - b  \* saturating_sub
-----------------------------------------------------------------------------
(* An email arrives and is committed to the last epoch, or begins the next.*)
Commit(e) ==
  /\ CommitsBefore(NumEpochs + 1) < MaxCommits
  /\ IsNewest(e) \/ (e > 1 /\ IsNewest(e - 1) /\ ~IsV1)
  /\ size' = [size EXCEPT ![e] = @ + 1]
  /\ \/ bad' = bad
     \/ Cardinality(bad) < MaxBad /\ bad' = bad \cup {<<e, size[e] + 1>>}
  /\ UNCHANGED <<format, diskVars, pc, inboxVars, walkVars, envVars, callVars>>

RequestShutdown ==
  /\ ~shutdown /\ stops < Stops
  /\ shutdown' = TRUE /\ stops' = stops + 1
  /\ UNCHANGED <<inboxData, diskVars, pc, inboxVars, walkVars, fetches, runs, callVars>>

(* The program ended, or its worker thread did; it is started again. *)
Restart ==
  /\ \/ pc = "idle" /\ shutdown
     \/ pc = "dead"
  /\ pc' = "idle" /\ shutdown' = FALSE
  /\ UNCHANGED <<inboxData, diskVars, inboxVars, walkVars, stops, fetches, runs,
                 callVars>>
-----------------------------------------------------------------------------
(* process_inbox up to its loop: the progress tells the epoch to resume in *)
(* and the number of emails that were processed.                           *)
Begin ==
  /\ pc = "idle" /\ ~shutdown /\ runs < Runs
  /\ runs' = runs + 1
  /\ fresh' = (progress = None)
  /\ seen' = [e \in Epochs |-> 0]
  /\ outcome' = "none"
  /\ last' \in {e \in Epochs : IsNewest(e)}
  /\ UNCHANGED <<inboxData, diskVars, walkVars, shutdown, stops, fetches>>

BeginFresh ==
  /\ Begin
  /\ progress = None
  /\ epoch' = 1 /\ global' = 0 /\ total' = 0 /\ skip' = 0
  /\ pc' = "epoch"

BeginResume ==
  /\ Begin
  /\ progress # None
  /\ IsV1 => progress.epoch = EpochName(1)
  /\ epoch' = IF IsV1 THEN 1 ELSE progress.epoch
  /\ global' = progress.num
  /\ total' = CommitsBefore(epoch')
  /\ skip' = progress.commit
  /\ pc' = "epoch"

(* A V1 inbox whose progress was written by read_email_by_index: the       *)
(* epoch-filter calls unwrap on "all".parse().                             *)
BeginPanics ==
  /\ Begin
  /\ progress # None
  /\ IsV1 /\ progress.epoch # EpochName(1)
  /\ pc' = "dead"
  /\ UNCHANGED <<epoch, global, total, skip>>

(* The loop over the epochs. *)
Return(result) ==
  /\ pc' = "idle"
  /\ outcome' = result
  /\ UNCHANGED <<inboxData, diskVars, inboxVars, walkVars, envVars, fresh, seen>>

EndInbox ==
  pc = "epoch" /\ epoch > last /\ Return(IF shutdown THEN "stopped" ELSE "complete")

StopInbox ==
  pc = "epoch" /\ epoch <= last /\ shutdown /\ Return("stopped")

AtEpoch ==
  /\ pc = "epoch" /\ epoch <= last /\ ~shutdown
  /\ total' = total + size[epoch]
  /\ seen' = [seen EXCEPT ![epoch] = size[epoch]]

(* All of the epoch falls at or before the resume point. *)
SkipEpoch ==
  /\ AtEpoch
  /\ global >= total'
  /\ skip' = 0
  /\ epoch' = epoch + 1
  /\ UNCHANGED <<inboxData, diskVars, pc, last, global, walkVars, envVars, fresh,
                 outcome>>

(* process_epoch up to its second pass. *)
(* Mutants: off by one; the position is never subtracted. *)
OldFromEqual(newer) == IF newer >= global THEN Minus(global, 1) ELSE 0
OldNever(newer) == 0

OldNonResume(newer) == IF newer > global THEN Minus(global, 1) ELSE 0

StartEpoch ==
  /\ AtEpoch
  /\ global < total'
  /\ pc' = "walk"
  /\ pos' = size[epoch]
  /\ resume' = skip
  /\ before' = size[epoch] - skip
  /\ new' = IF before' = 0 /\ skip # 0 THEN size[epoch]
            ELSE Minus(before', OldNonResume(before'))
  /\ counted' = 0 /\ handled' = 0
  /\ UNCHANGED <<inboxData, diskVars, epoch, last, global, skip, envVars, fresh,
                 outcome>>
-----------------------------------------------------------------------------
(* The second pass at commit pos. *)
Walking ==
  /\ pc = "walk" /\ pos > 0
  /\ UNCHANGED <<inboxData, pc, inboxVars, resume, before, new, envVars, callVars>>

StopWalk ==
  /\ Walking /\ shutdown
  /\ pos' = 0
  /\ UNCHANGED <<diskVars, counted, handled>>

(* The commit that was archived last: go on behind it if it is the newest  *)
(* commit, stop otherwise.                                                 *)
ReachResume ==
  /\ Walking /\ ~shutdown
  /\ pos = resume
  /\ pos' = IF before = 0 THEN pos - 1 ELSE 0
  /\ UNCHANGED <<diskVars, counted, handled>>

SkipOld ==
  /\ Walking /\ ~shutdown
  /\ pos # resume
  /\ handled >= new /\ before > 0
  /\ pos' = pos - 1 /\ counted' = counted + 1
  /\ UNCHANGED <<diskVars, handled>>

HandleCommit ==
  /\ Walking /\ ~shutdown
  /\ pos # resume
  /\ ~(handled >= new /\ before > 0)
  /\ pos' = pos - 1 /\ counted' = counted + 1 /\ handled' = handled + 1

(* Mutant: the numbers start at 0. *)
ArchiveCommitFromZero ==
  /\ HandleCommit
  /\ <<epoch, pos>> \notin bad
  /\ progress' = [num |-> global + handled, epoch |-> EpochName(epoch),
                  commit |-> pos]
  /\ archived' = archived \cup {progress'}
  /\ UNCHANGED errors

ArchiveCommit ==
  /\ HandleCommit
  /\ <<epoch, pos>> \notin bad
  /\ progress' = [num |-> global + handled + 1, epoch |-> EpochName(epoch),
                  commit |-> pos]
  /\ archived' = archived \cup {progress'}
  /\ UNCHANGED errors

LogBadCommit ==
  /\ HandleCommit
  /\ <<epoch, pos>> \in bad
  /\ errors' = errors \cup {<<epoch, pos>>}
  /\ UNCHANGED <<progress, archived>>

EndEpochAfter(commits) ==
  /\ pc = "walk" /\ pos = 0
  /\ pc' = "epoch"
  /\ epoch' = epoch + 1
  /\ global' = global + commits
  /\ skip' = 0
  /\ UNCHANGED <<inboxData, diskVars, last, total, walkVars, envVars, callVars>>

EndEpochUncounted == EndEpochAfter(0)  \* mutant: commit_count is not added
EndEpoch == EndEpochAfter(counted)
-----------------------------------------------------------------------------
(* The epoch and commit that read_email_by_index finds at index k, from 1. *)
LocatedFromOldest(k) ==  \* mutant: the index counts from the oldest
  CHOOSE at \in CommitsOf(size) : k = CommitsBefore(at[1]) + at[2]

Located(k) ==
  CHOOSE at \in CommitsOf(size) :
    k = CommitsBefore(at[1]) + size[at[1]] - at[2] + 1

(* read_email_by_index; it calls the one epoch of a V1 inbox "1".  A wrong *)
(* index, or a bad commit, is an error that leaves nothing.                *)
FetchByIndex(k) ==
  /\ pc = "idle" /\ fetches < Fetches
  /\ k <= CommitsBefore(NumEpochs + 1)
  /\ Located(k) \notin bad
  /\ progress' = [num |-> k, epoch |-> Located(k)[1], commit |-> Located(k)[2]]
  /\ archived' = archived \cup {progress'}
  /\ fetches' = fetches + 1
  /\ UNCHANGED <<inboxData, errors, pc, inboxVars, walkVars, shutdown, stops, runs,
                 callVars>>
-----------------------------------------------------------------------------
Next ==
  \/ \E e \in Epochs : Commit(e)
  \/ RequestShutdown \/ Restart
  \/ BeginFresh \/ BeginResume \/ BeginPanics
  \/ EndInbox \/ StopInbox \/ SkipEpoch \/ StartEpoch
  \/ StopWalk \/ ReachResume \/ SkipOld \/ ArchiveCommit \/ LogBadCommit \/ EndEpoch
  \/ \E k \in 1..MaxCommits : FetchByIndex(k)

Spec == Init /\ [][Next]_vars
-----------------------------------------------------------------------------
(* The commits that are in the archive or in __errors.csv. *)
Covered ==
  errors \cup {c \in CommitsOf(size) :
     \E a \in archived : a.epoch = EpochName(c[1]) /\ a.commit = c[2]}

Missed == CommitsOf(seen) \ Covered

(* The number of an email names one commit only, across stops and resumed  *)
(* runs, so that no run overwrites the file of another email.  A fetch by  *)
(* index puts the progress anywhere, and ends this.                        *)
NumbersUnique ==
  fetches = 0 => \A a, b \in archived : a.num = b.num => a = b

(* A first, uninterrupted call of process_inbox archives every commit of   *)
(* the epochs that are no larger than all epochs before them together.     *)
FirstRunCovers ==
  pc = "idle" /\ outcome = "complete" /\ fresh =>
     \A m \in Missed :
        m[1] > 1 /\ seen[m[1]] > NumBefore(seen, m[1])

(* An inbox with nothing new is not walked again, however many runs and    *)
(* stops came before, if all of its commits can be read and none was       *)
(* fetched by index.                                                       *)
WalksOnlyForNews ==
  [][StartEpoch /\ bad = {} /\ fetches = 0 => CommitsOf(size) \ Covered # {}]_vars

(* When the last run got to the oldest commit of a V1 inbox, and more than *)
(* one email arrived since, the next run archives the new emails only.     *)
NewOnlyAfterFullRun ==
  [][ArchiveCommit /\ IsV1 /\ resume = 1 /\ before > global /\ fetches = 0
       => <<epoch, pos>> \notin Covered]_vars

(* read_email_by_index and process_inbox number the emails alike: what a   *)
(* user fetches by its number after a first run is the email that has the  *)
(* number, if no email arrived since.                                      *)
IndexNamesSameEmail ==
  [][/\ \E k \in 1..MaxCommits : FetchByIndex(k)
     /\ fresh /\ outcome = "complete" /\ seen = size
     => \A a \in archived : a.num = progress'.num =>
           a.commit = progress'.commit /\ (IsV1 \/ a.epoch = progress'.epoch)]_vars

(* An uninterrupted call of process_inbox leaves no commit out (process_   *)
(* inbox: iterates through all commits in the inbox, across all epochs).   *)
CompleteRunCovers ==
  pc = "idle" /\ outcome = "complete" => Missed = {}

(* A run that resumes from __progress.yaml leaves no commit out either: it *)
(* completes what a stopped run began.                                     *)
ResumeCovers == ~fresh => CompleteRunCovers
=============================================================================
