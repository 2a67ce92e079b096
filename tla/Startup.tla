------------------------------- MODULE Startup -------------------------------
(***************************************************************************)
(* config.rs (read_config, get_read_lists, expand_glob_patterns), lib.rs   *)
(* (start) and worker.rs (create_workers): how one start of the archiver   *)
(* turns what the sources offer and what the user selected into groups of  *)
(* tasks, over several starts between which the user edits the             *)
(* configuration, lists come and go, and mirrors are made.                 *)
(*                                                                         *)
(* The order in which a source offers its lists is any order.              *)
(***************************************************************************)
EXTENDS Discovery, FiniteSets, Functions

CONSTANTS
  ListNames,  \* all names of mailing lists
  None, Null, \* no value; a key of a YAML file that has no value
  Configs,    \* bound: the configurations the user may write
  Servers,    \* bound: the sets of groups the news server may have
  Layouts,    \* bound: the directories there may be in import_directory
  Mirrors,    \* bound: what import_directory may hold at first
  Budget      \* bound: how often each kind of event happens

Modes == {"nntp", "public_inbox"}
Events == {"start", "edit", "server", "mirror", "fail", "tear"}

(* An exact name, or a glob with the names it matches (none, if it does    *)
(* not compile).                                                           *)
Pattern == [glob : {TRUE}, names : SUBSET ListNames]
           \cup [glob : {FALSE}, names : {{n} : n \in ListNames}]
Star    == [glob |-> TRUE, names |-> ListNames]
Exact(n) == [glob |-> FALSE, names |-> {n}]
Selections == [Modes -> Seq(Pattern) \cup {None}]

ASSUME NamesAssumption ==
  /\ IsFiniteSet(ListNames)
  /\ None \notin Seq(Pattern) /\ Null \notin Seq(Pattern) /\ None # Null
  /\ None \notin Seq(ListNames)
ASSUME EnvironmentAssumption ==
  /\ Layouts \subseteq InboxLayouts /\ Mirrors \subseteq [ListNames -> Layouts]
  /\ Servers \subseteq SUBSET ListNames
  /\ \A c \in Configs : /\ c.sections \subseteq Modes
                        /\ c.read_lists \in Selections
ASSUME EventAssumption == Budget \in [Events -> Nat]

VARIABLES
  \* outside of the program
  config,      \* archiver_config.yaml: source sections and read_lists
  saved,       \* archiver_config_selected_lists.yaml
  server,      \* the groups the news server has
  disk,        \* the directories in import_directory
  budget,      \* events left
  \* one start
  pc,          \* see Points
  sections,    \* get_run_modes of the AppConfig
  read_lists,  \* AppConfig::read_lists
  todo,        \* run modes that start has not handled yet
  available,   \* list_options
  i, j, hit,   \* expand_glob_patterns: pattern, list, pattern_matched_any
  matched,     \* the answer
  unmatched,   \* unmatched_patterns
  groups       \* WorkerManager::groups: the tasks of each run mode

outside == <<config, saved, server, disk>>
loop == <<i, j, hit, unmatched>>
vars == <<outside, budget, pc, sections, read_lists, todo, available, loop,
          matched, groups>>

(* "off": not running; "modes": the loop of start; "select":               *)
(* get_read_lists; "expand": expand_glob_patterns; "create":               *)
(* create_workers; "running": Scheduler::run.                              *)
Points == {"off", "modes", "select", "expand", "create", "running"}

TypeOK ==
  /\ config \in Configs
  /\ saved \in [Modes -> Seq(Pattern) \cup {None, Null}]
  /\ server \in SUBSET ListNames
  /\ disk \in [ListNames -> Layouts]
  /\ budget \in [Events -> Nat]
  /\ pc \in Points
  /\ sections \subseteq Modes /\ todo \subseteq sections
  /\ read_lists \in Selections
  /\ available \in Seq(ListNames) /\ matched \in Seq(ListNames)
  /\ i \in Nat \ {0} /\ j \in Nat \ {0} /\ hit \in BOOLEAN
  /\ unmatched \subseteq Pattern
  /\ groups \in [Modes -> Seq(ListNames) \cup {None}]

Nothing == [m \in Modes |-> None]

Init ==
  /\ config \in Configs /\ saved = Nothing
  /\ server \in Servers /\ disk \in Mirrors
  /\ budget = Budget
  /\ pc = "off"
  /\ sections = {} /\ todo = {} /\ read_lists = Nothing /\ groups = Nothing
  /\ available = <<>> /\ matched = <<>> /\ unmatched = {}
  /\ i = 1 /\ j = 1 /\ hit = FALSE

(* What get_read_lists and expand_glob_patterns work with goes out of scope. *)
EndScope ==
  /\ available' = <<>> /\ matched' = <<>> /\ unmatched' = {}
  /\ i' = 1 /\ j' = 1 /\ hit' = FALSE

(* start returns an error, a panic, or exit: the program is over, and the  *)
(* user may start it again.                                                *)
Over ==
  /\ pc' = "off"
  /\ sections' = {} /\ todo' = {}
  /\ read_lists' = Nothing /\ groups' = Nothing
  /\ EndScope

(* Each sequence that has every element of S once. *)
Orderings(S) ==
  {s \in [1..Cardinality(S) -> S] : \A a, b \in DOMAIN s : s[a] = s[b] => a = b}

Spend(event) ==
  /\ budget[event] > 0
  /\ budget' = [budget EXCEPT ![event] = @ - 1]

(* get_run_modes: NNTP before PublicInbox. *)
mode == IF "nntp" \in todo THEN "nntp" ELSE "public_inbox"

Selection == read_lists[mode]
Offered == IF mode = "nntp" THEN server
           ELSE {n \in ListNames : IsOffered(disk[n])}
-----------------------------------------------------------------------------
(* What happens outside.  The program looks only when it is started and    *)
(* when it asks a source: a change in between shows at the next look.      *)
Outside == pc \in {"off", "modes"}
Inside == <<pc, sections, read_lists, todo, available, loop, matched, groups>>

EditConfig ==
  /\ Outside
  /\ Spend("edit")
  /\ config' \in Configs
  /\ UNCHANGED <<saved, server, disk, Inside>>

ServerChanges ==
  /\ Outside
  /\ Spend("server")
  /\ server' \in Servers
  /\ UNCHANGED <<config, saved, disk, Inside>>

MirrorChanges ==
  /\ Outside
  /\ Spend("mirror")
  /\ \E n \in ListNames, l \in Layouts : disk' = [disk EXCEPT ![n] = l]
  /\ UNCHANGED <<config, saved, server, Inside>>
-----------------------------------------------------------------------------
(* Mutant: a key without a value is taken as it is. *)
ReadConfigUnchecked ==
  /\ pc = "off"
  /\ Spend("start")
  /\ read_lists' = [m \in Modes |-> IF saved[m] # None THEN saved[m]
                                    ELSE config.read_lists[m]]
  /\ sections' = config.sections /\ todo' = config.sections
  /\ groups' = Nothing
  /\ pc' = "modes"
  /\ UNCHANGED <<outside, available, loop, matched>>

(* main: read_config.  The file of selected lists comes later in the       *)
(* alphabet than archiver_config.yaml and overrides it, key by key.        *)
ReadConfig ==
  /\ pc = "off"
  /\ Spend("start")
  /\ \A m \in Modes : saved[m] # Null
  /\ read_lists' = [m \in Modes |-> IF saved[m] # None THEN saved[m]
                                    ELSE config.read_lists[m]]
  /\ sections' = config.sections /\ todo' = config.sections
  /\ groups' = Nothing
  /\ pc' = "modes"
  /\ UNCHANGED <<outside, available, loop, matched>>

(* A key without a value is no list of strings: main exits. *)
ReadConfigFails ==
  /\ pc = "off"
  /\ Spend("start")
  /\ \E m \in Modes : saved[m] = Null
  /\ Over
  /\ UNCHANGED outside

(* Scheduler::run returned. *)
RunEnds ==
  /\ pc = "running"
  /\ Over
  /\ UNCHANGED <<outside, budget>>

(* start: retrieve_lists of the next run mode. *)
RetrieveLists ==
  /\ pc = "modes" /\ todo # {}
  /\ available' \in Orderings(Offered)
  /\ pc' = "select"
  /\ UNCHANGED <<outside, budget, sections, read_lists, todo, loop, matched,
                 groups>>

(* Mutant: a source that does not answer is left out. *)
RetrieveSkips ==
  /\ pc = "modes" /\ todo # {}
  /\ Spend("fail")
  /\ todo' = todo \ {mode}
  /\ UNCHANGED <<outside, pc, sections, read_lists, available, loop, matched,
                 groups>>

(* validate, the connection or the directory fails: start returns.  So it  *)
(* does when the output folder cannot be made.                             *)
RetrieveFails ==
  /\ pc = "modes"
  /\ Spend("fail")
  /\ Over
  /\ UNCHANGED outside

-----------------------------------------------------------------------------
(* get_read_lists when nothing is selected: the user is asked. *)
Asking == pc = "select" /\ Selection = None

(* Escape exits; no answer at all panics at answer[0]; "*" from a source   *)
(* without lists is an empty selection.                                    *)
NoAnswer ==
  /\ Asking
  /\ Over
  /\ UNCHANGED <<outside, budget>>

Chosen(answer) == [k \in DOMAIN answer |-> Exact(answer[k])]
Selected(answer) == [read_lists EXCEPT ![mode] = Chosen(answer)]

(* The answers: some of what is available, or all of it ("*"), in the      *)
(* order in which it was shown.                                            *)
Before(x, y) == \E p, q \in DOMAIN available :
                  p < q /\ available[p] = x /\ available[q] = y
Answers ==
  {s \in UNION {Orderings(S) : S \in SUBSET Range(available)} :
     s # <<>> /\ \A p, q \in DOMAIN s : p < q => Before(s[p], s[q])}

(* Mutant: only the selection of this mode is written. *)
AnswerAlone ==
  /\ Asking
  /\ \E answer \in Answers :
       /\ matched' = answer
       /\ read_lists' = Selected(answer)
       /\ saved' = [Nothing EXCEPT ![mode] = Chosen(answer)]
  /\ pc' = "create"
  /\ UNCHANGED <<config, server, disk, budget, sections, todo, available, loop,
                 groups>>

(* set_list_selection writes the selections of all modes. *)
Answer ==
  /\ Asking
  /\ \E answer \in Answers :
       /\ matched' = answer
       /\ read_lists' = Selected(answer)
       /\ saved' = Selected(answer)
  /\ pc' = "create"
  /\ UNCHANGED <<config, server, disk, budget, sections, todo, available, loop,
                 groups>>

(* What a torn file holds of a list: it is cut short, a key without a      *)
(* value, or missing.                                                      *)
Remainder(list) ==
  IF list = None THEN {None}
  ELSE {None, Null} \cup {SubSeq(list, 1, k) : k \in 1..Len(list)}
Remains(answer) == UNION {Remainder(Selected(answer)[m]) : m \in Modes}

(* write_yaml_truncate fails, or the program is killed in it.              *)
AnswerTorn ==
  /\ Asking
  /\ Spend("tear")
  /\ \E answer \in Answers :
       \E torn \in [Modes -> Remains(answer)] :
         /\ \A m \in Modes : torn[m] \in Remainder(Selected(answer)[m])
         /\ saved' = torn
  /\ Over
  /\ UNCHANGED <<config, server, disk>>

-----------------------------------------------------------------------------
(* "*" alone: whatever is offered, be it nothing. *)
TakeAll ==
  /\ pc = "select" /\ Selection = <<Star>>
  /\ matched' = available
  /\ pc' = "create"
  /\ UNCHANGED <<outside, budget, sections, read_lists, todo, available, loop,
                 groups>>

BeginExpand ==
  /\ pc = "select" /\ Selection \notin {None, <<Star>>}
  /\ i' = 1 /\ j' = 1 /\ hit' = FALSE
  /\ matched' = <<>> /\ unmatched' = {}
  /\ pc' = "expand"
  /\ UNCHANGED <<outside, budget, sections, read_lists, todo, available,
                 groups>>

(* expand_glob_patterns at pattern i.  dedup drops a pattern that repeats  *)
(* the one before it.                                                      *)
Expanding == pc = "expand" /\ i <= Len(Selection)
Repeated  == i > 1 /\ Selection[i] = Selection[i - 1]
AtGlob    == Expanding /\ ~Repeated /\ Selection[i].glob
AtName    == Expanding /\ ~Repeated /\ ~Selection[i].glob

InExpand == UNCHANGED <<outside, budget, pc, sections, read_lists, todo,
                        available, groups>>

NextPattern == i' = i + 1 /\ j' = 1 /\ hit' = FALSE
NextPatternAlone == i' = i + 1 /\ hit' = FALSE /\ UNCHANGED j  \* mutant

SkipRepeated ==
  /\ Expanding /\ Repeated
  /\ NextPattern
  /\ UNCHANGED <<matched, unmatched>> /\ InExpand

(* The names of the pattern that are available and not in seen. *)
FreshAnew(n) == n \in Selection[i].names  \* mutant: no set of seen names
FreshMatch(n) == n \in Selection[i].names /\ n \notin Range(matched)

MatchName ==
  /\ AtName
  /\ LET found == {n \in Range(available) : FreshMatch(n)}
     IN IF found # {} THEN /\ \E n \in found : matched' = Append(matched, n)
                           /\ UNCHANGED unmatched
        ELSE /\ unmatched' = unmatched \cup {Selection[i]}
             /\ UNCHANGED matched
  /\ NextPattern
  /\ InExpand

MatchList ==
  /\ AtGlob /\ j <= Len(available)
  /\ j' = j + 1
  /\ IF FreshMatch(available[j])
     THEN matched' = Append(matched, available[j]) /\ hit' = TRUE
     ELSE UNCHANGED <<matched, hit>>
  /\ UNCHANGED <<i, unmatched>> /\ InExpand

EndGlob ==
  /\ AtGlob /\ j > Len(available)
  /\ unmatched' = IF hit THEN unmatched ELSE unmatched \cup {Selection[i]}
  /\ NextPattern
  /\ UNCHANGED matched /\ InExpand

EndExpand ==
  /\ pc = "expand" /\ i > Len(Selection) /\ matched # <<>>
  /\ pc' = "create"
  /\ UNCHANGED <<outside, budget, sections, read_lists, todo, available, loop,
                 matched, groups>>

(* AllListsUnavailable. *)
NothingMatches ==
  /\ pc = "expand" /\ i > Len(Selection) /\ matched = <<>>
  /\ Over
  /\ UNCHANGED <<outside, budget>>
-----------------------------------------------------------------------------
CreateWorkers ==
  /\ pc = "create"
  /\ groups' = [groups EXCEPT ![mode] = matched]
  /\ todo' = todo \ {mode}
  /\ EndScope
  /\ pc' = "modes"
  /\ UNCHANGED <<outside, budget, sections, read_lists>>

(* NNTPWorker::new panics when it cannot connect. *)
ConnectPanics ==
  /\ pc = "create" /\ mode = "nntp"
  /\ Spend("fail")
  /\ Over
  /\ UNCHANGED outside

Run ==
  /\ pc = "modes" /\ todo = {}
  /\ pc' = "running"
  /\ UNCHANGED <<outside, budget, sections, read_lists, todo, available, loop,
                 matched, groups>>
-----------------------------------------------------------------------------
Expand == SkipRepeated \/ MatchName \/ MatchList \/ EndGlob \/ EndExpand
          \/ NothingMatches

Program ==
  \/ ReadConfig \/ ReadConfigFails \/ RetrieveLists \/ RetrieveFails
  \/ NoAnswer \/ Answer \/ AnswerTorn \/ TakeAll \/ BeginExpand \/ Expand
  \/ CreateWorkers \/ ConnectPanics \/ Run \/ RunEnds

Next == Program \/ EditConfig \/ ServerChanges \/ MirrorChanges

Spec == Init /\ [][Next]_vars
-----------------------------------------------------------------------------
(* The tasks of a source are the lists it offered that some selected       *)
(* pattern matches, each once however the patterns overlap: a list that    *)
(* came twice would be archived by two workers at the same time.           *)
SelectionExact ==
  pc = "create" =>
    /\ Range(matched) =
         {n \in Range(available) :
            \E k \in DOMAIN Selection : n \in Selection[k].names}
    /\ \A a, b \in DOMAIN matched : matched[a] = matched[b] => a = b

(* No list is archived unless every configured source has answered and has *)
(* its workers: a start is all or nothing.                                 *)
WholeStart ==
  pc = "running" => \A m \in Modes : groups[m] # None <=> m \in sections

(* What the user selected once for a source stays selected, whatever is    *)
(* asked for the other source later, unless the file was torn.             *)
SelectionSticks ==
  [][budget'["tear"] = Budget["tear"] =>
       \A m \in Modes : saved[m] # None => saved'[m] = saved[m]]_vars

(* A directory is offered exactly when something can be archived from it.  *)
OfferedIsArchivable == \A n \in ListNames : OfferedRightly(disk[n])
=============================================================================
