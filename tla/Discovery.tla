------------------------------ MODULE Discovery ------------------------------
(***************************************************************************)
(* public_inbox_source/pi_utils.rs and pi_lister.rs: which directories are *)
(* offered as public inboxes, and which repositories process_inbox walks.  *)
(*                                                                         *)
(* A repository is what the code asks of a directory.  A mirror makes it   *)
(* step by step: it is absent, then fresh (git init: objects/ holds info/  *)
(* and pack/), then cloned (master is there); it may be damaged (git2 does *)
(* not open it).  An inbox is a directory that may hold git/ with numbered *)
(* epochs, all.git with or without alternates, or be a repository itself.  *)
(***************************************************************************)
EXTENDS Naturals, Sequences

Repository(head, objects, filled, master, opens) ==
  [head |-> head, objects |-> objects, filled |-> filled, master |-> master,
   opens |-> opens]

Absent  == Repository(FALSE, FALSE, FALSE, FALSE, FALSE)
Hollow  == Repository(FALSE, TRUE, FALSE, FALSE, FALSE)
Fresh   == Repository(TRUE, TRUE, TRUE, FALSE, TRUE)
Cloned  == Repository(TRUE, TRUE, TRUE, TRUE, TRUE)
Damaged == Repository(TRUE, TRUE, TRUE, TRUE, FALSE)

IsGitRepo(r)  == r.head /\ r.objects
HasObjects(r) == r.objects /\ r.filled

(* git: there is a git/ directory, and epochs are the N.git in it.         *)
(* alternates: the repositories that the absolute paths of                 *)
(* all.git/objects/info/alternates lead to; hasAlternates: the file exists.*)
Layout(git, epochs, all, hasAlternates, alternates, self) ==
  [git |-> git, epochs |-> epochs, all |-> all,
   hasAlternates |-> hasAlternates, alternates |-> alternates, self |-> self]

Repositories == {Absent, Hollow, Fresh, Cloned, Damaged}
InboxLayouts ==
  [git : BOOLEAN, epochs : Seq(Repositories), all : Repositories,
   hasAlternates : BOOLEAN, alternates : SUBSET Repositories, self : Repositories]

(* What detect_inbox returns: a version and the git_dir that is walked.    *)
Inbox(version, dir) == [version |-> version, dir |-> dir]
NotAnInbox == Inbox("none", "none")
-----------------------------------------------------------------------------
(* find_epoch_repo_with_master, and has_objects of what it found: a        *)
(* repository with a master that git2 opens has objects.                   *)
Usable(r) == IsGitRepo(r) /\ r.master /\ r.opens
HasEpochDir(l) == \E e \in DOMAIN l.epochs : HasObjects(l.epochs[e])  \* mutant
HasEpoch(l) ==
  \E e \in DOMAIN l.epochs : Usable(l.epochs[e]) /\ HasObjects(l.epochs[e])

(* all.git beside a git/ directory without a usable epoch. *)
BesideGit(l) ==
  CASE l.hasAlternates /\ (\E r \in l.alternates : Usable(r) /\ HasObjects(r))
         -> Inbox("V2", "git")
    [] l.hasAlternates /\ ~(\E r \in l.alternates : Usable(r) /\ HasObjects(r))
         -> Inbox(IF HasObjects(l.all) /\ l.all.master THEN "V2 (combined)"
                  ELSE "V2 (incomplete)", "all")
    [] ~l.hasAlternates /\ HasObjects(l.all)
         -> Inbox(IF l.all.master THEN "V1" ELSE "V1 (empty)", "all")
    [] OTHER -> NotAnInbox

(* A git/ directory from which nothing can be archived yet. *)
EmptyInbox(l) ==
  CASE \E e \in DOMAIN l.epochs : l.epochs[e].objects
         -> Inbox("V2 (empty)", "git")
    [] l.all.objects /\ ~(\E e \in DOMAIN l.epochs : l.epochs[e].objects)
         -> Inbox("V1 (empty)", "all")
    [] OTHER -> NotAnInbox

WithGit(l) ==
  IF HasEpoch(l) THEN Inbox("V2", "git")
  ELSE IF IsGitRepo(l.all) /\ BesideGit(l) # NotAnInbox THEN BesideGit(l)
  ELSE EmptyInbox(l)

(* A V1 inbox: git2 is not asked whether it opens the repository. *)
WithoutGit(l) ==
  IF IsGitRepo(l.all) /\ l.all.master THEN Inbox("V1", "all")
  ELSE IF IsGitRepo(l.self) /\ l.self.master THEN Inbox("V1 (bare)", "self")
  ELSE IF l.all.objects THEN Inbox("V1 (empty)", "all")
  ELSE NotAnInbox

DetectInbox(l) == IF l.git THEN WithGit(l) ELSE WithoutGit(l)

(* retrieve_lists offers what is neither incomplete nor empty. *)
IsOffered(l) ==
  DetectInbox(l).version \in {"V2", "V2 (combined)", "V1", "V1 (bare)"}
-----------------------------------------------------------------------------
(* find_epochs of the git_dir.  Only git/ holds directories named N.git.   *)
FindEpochs(l) ==
  {e \in DOMAIN l.epochs :
     /\ DetectInbox(l).dir = "git"
     /\ l.epochs[e].objects /\ l.epochs[e].master /\ l.epochs[e].opens}

(* The repositories process_inbox opens: the epochs, or else the git_dir   *)
(* itself (git/ is no repository).                                         *)
Walked(l) ==
  IF FindEpochs(l) # {} THEN {l.epochs[e] : e \in FindEpochs(l)}
  ELSE CASE DetectInbox(l).dir = "all"  -> {l.all}
         [] DetectInbox(l).dir = "self" -> {l.self}
         [] OTHER -> {Absent}

CanBeArchived(l) == \A r \in Walked(l) : r.opens /\ r.master
-----------------------------------------------------------------------------
(* Two cases that the code gets wrong are set aside: a V1 repository that  *)
(* git2 does not open, and alternates that lead out of git/.               *)
Ordinary(l) == Damaged \notin {l.all, l.self} /\ l.alternates = {}

(* An inbox is offered exactly when something can be archived from it: a   *)
(* mirror that is still being made is not, whatever it has so far.  (With  *)
(* alternates all.git borrows the objects, and its own master counts.)     *)
OfferedRightly(l) ==
  Ordinary(l) =>
    (IsOffered(l) <=>
       IF l.git THEN \/ \E e \in DOMAIN l.epochs : l.epochs[e] = Cloned
                     \/ l.all = Cloned
       ELSE Cloned \in {l.all, l.self})
    /\ (IsOffered(l) => CanBeArchived(l))
=============================================================================
