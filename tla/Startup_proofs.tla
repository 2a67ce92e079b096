---------------------------- MODULE Startup_proofs ----------------------------
(***************************************************************************)
(* Proofs about Startup, for any set of names, configurations, servers,    *)
(* directories and events.                                                 *)
(***************************************************************************)
EXTENDS Startup, SequenceTheorems, FiniteSetTheorems, TLAPS

NoRepeats(s) == \A x, y \in DOMAIN s : s[x] = s[y] => x = y

(* Some pattern up to n has the name; pattern i has it, and the loop over   *)
(* the lists has come to it.                                               *)
Earlier(x, n) == \E k \in 1..n : x \in Selection[k].names
Here(x) == /\ i <= Len(Selection) /\ x \in Selection[i].names
           /\ \E p \in 1..(j - 1) : x = available[p]

(* The modes that have their groups are those that are no longer to do. *)
Progressing ==
  /\ pc # "off" => \A m \in Modes : groups[m] # None <=> m \in sections \ todo
  /\ pc \in {"select", "expand", "create"} => todo # {}
  /\ pc = "running" => todo = {}

(* In a start the file of selected lists is part of the selections. *)
Remembered ==
  pc # "off" => \A m \in Modes : saved[m] # None => read_lists[m] = saved[m]

(* The loop of expand_glob_patterns. *)
Expanded ==
  /\ pc \in {"select", "expand", "create"} => NoRepeats(available)
  /\ pc \in {"expand", "create"} => Selection # None /\ NoRepeats(matched)
  /\ pc = "expand" =>
       /\ i <= Len(Selection) + 1
       /\ j <= Len(available) + 1
       /\ AtGlob \/ j = 1
       /\ \A x \in ListNames : x \in Range(matched) <=>
                  x \in Range(available) /\ (Earlier(x, i - 1) \/ Here(x))

Spent == budget["tear"] <= Budget["tear"]

IInv == TypeOK /\ Progressing /\ Remembered /\ Expanded /\ SelectionExact /\ Spent

(* The type invariant in three parts. *)
TypeWorld ==
  /\ config \in Configs
  /\ saved \in [Modes -> Seq(Pattern) \cup {None, Null}]
  /\ server \in SUBSET ListNames
  /\ disk \in [ListNames -> Layouts]
  /\ budget \in [Events -> Nat]
TypeStart ==
  /\ pc \in Points
  /\ sections \subseteq Modes /\ todo \subseteq sections
  /\ read_lists \in Selections
  /\ groups \in [Modes -> Seq(ListNames) \cup {None}]
TypeLoop ==
  /\ available \in Seq(ListNames) /\ matched \in Seq(ListNames)
  /\ i \in Nat \ {0} /\ j \in Nat \ {0} /\ hit \in BOOLEAN
  /\ unmatched \subseteq Pattern
-----------------------------------------------------------------------------
LEMMA TypeParts == TypeOK <=> TypeWorld /\ TypeStart /\ TypeLoop
  BY DEF TypeOK, TypeWorld, TypeStart, TypeLoop

LEMMA ModeToDo == ASSUME TypeStart, todo # {} PROVE mode \in todo /\ mode \in Modes
  BY DEF TypeStart, mode, Modes

LEMMA SelectionType ==
  ASSUME TypeStart, todo # {} PROVE Selection \in Seq(Pattern) \cup {None}
  BY ModeToDo DEF TypeStart, Selection, Selections

LEMMA PatternAt ==
  ASSUME TypeStart, TypeLoop, todo # {}, Selection # None, i <= Len(Selection)
  PROVE  Selection[i] \in Pattern /\ i \in DOMAIN Selection
  <1>1. Selection \in Seq(Pattern)
    BY SelectionType
  <1>2. i \in 1..Len(Selection)
    BY <1>1 DEF TypeLoop
  <1> QED
    BY <1>1, <1>2

LEMMA OrderingsType ==
  ASSUME NEW S, IsFiniteSet(S), NEW s \in Orderings(S)
  PROVE  s \in Seq(S) /\ NoRepeats(s)
  <1>1. Cardinality(S) \in Nat
    BY FS_CardinalityType
  <1>2. s \in [1..Cardinality(S) -> S]
    BY DEF Orderings
  <1>3. s \in Seq(S)
    BY <1>1, <1>2
  <1> QED
    BY <1>3 DEF Orderings, NoRepeats

LEMMA RangeOf ==
  ASSUME NEW s \in Seq(ListNames)
  PROVE  Range(s) \subseteq ListNames /\ IsFiniteSet(Range(s))
  <1>1. Range(s) \subseteq ListNames
    BY DEF Range
  <1> QED
    BY <1>1, FS_Subset, NamesAssumption

LEMMA ChosenType ==
  ASSUME NEW s \in Seq(ListNames)
  PROVE  /\ Chosen(s) \in Seq(Pattern) /\ DOMAIN Chosen(s) = DOMAIN s
         /\ Len(Chosen(s)) = Len(s)
         /\ \A k \in DOMAIN s : Chosen(s)[k].names = {s[k]}
  <1>1. DOMAIN s = 1..Len(s) /\ Len(s) \in Nat
    OBVIOUS
  <1>2. \A k \in 1..Len(s) : Exact(s[k]) \in Pattern
    BY DEF Exact, Pattern
  <1>3. Chosen(s) = [k \in 1..Len(s) |-> Exact(s[k])]
    BY <1>1 DEF Chosen
  <1>4. Chosen(s) \in [1..Len(s) -> Pattern]
    BY <1>2, <1>3
  <1>5. Chosen(s) \in Seq(Pattern) /\ Len(Chosen(s)) = Len(s)
    BY <1>1, <1>4
  <1> QED
    BY <1>1, <1>3, <1>5 DEF Exact

LEMMA AnswersType ==
  ASSUME TypeLoop, NEW answer \in Answers
  PROVE  /\ answer \in Seq(ListNames) /\ NoRepeats(answer)
         /\ Range(answer) \subseteq Range(available)
  <1>1. PICK S \in SUBSET Range(available) : answer \in Orderings(S)
    BY DEF Answers
  <1>2. IsFiniteSet(S) /\ S \subseteq ListNames
    BY <1>1, RangeOf, FS_Subset DEF TypeLoop
  <1>3. answer \in Seq(S) /\ NoRepeats(answer)
    BY <1>1, <1>2, OrderingsType
  <1>4. answer \in Seq(ListNames) /\ Range(answer) \subseteq S
    BY <1>2, <1>3 DEF Range
  <1> QED
    BY <1>1, <1>3, <1>4

(* What remains of a torn file has the type of a selection file. *)
LEMMA RemainderType ==
  ASSUME NEW list \in Seq(Pattern) \cup {None}
  PROVE  Remainder(list) \subseteq Seq(Pattern) \cup {None, Null}
  <1>1. CASE list = None
    BY <1>1 DEF Remainder
  <1>2. CASE list # None
    <2>1. list \in Seq(Pattern)
      BY <1>2
    <2>2. \A k \in 1..Len(list) : SubSeq(list, 1, k) \in Seq(Pattern)
      BY <2>1
    <2> QED
      BY <1>2, <2>2 DEF Remainder
  <1> QED
    BY <1>1, <1>2

LEMMA SelectedType ==
  ASSUME TypeStart, todo # {}, NEW s \in Seq(ListNames)
  PROVE  Selected(s) \in Selections /\ Selected(s)[mode] = Chosen(s)
  BY ModeToDo, ChosenType DEF TypeStart, Selected, Selections
-----------------------------------------------------------------------------
LEMMA WorldStep ==
  ASSUME TypeWorld, TypeStart, TypeLoop, Progressing, Next
  PROVE  TypeWorld'
  <1>1. \A e \in Events : Spend(e) => budget' \in [Events -> Nat]
    <2> SUFFICES ASSUME NEW e \in Events, Spend(e) PROVE budget' \in [Events -> Nat]
      OBVIOUS
    <2>1. budget[e] - 1 \in Nat
      BY DEF Spend, TypeWorld
    <2> QED
      BY <2>1 DEF Spend, TypeWorld
  <1>2. ASSUME NEW s \in Seq(ListNames), Asking
        PROVE  Selected(s) \in [Modes -> Seq(Pattern) \cup {None, Null}]
    BY <1>2, SelectedType DEF Asking, Progressing, Selections
  <1>3. CASE EditConfig
    BY <1>1, <1>3 DEF EditConfig, Events, TypeWorld
  <1>4. CASE ServerChanges
    BY <1>1, <1>4, EnvironmentAssumption DEF ServerChanges, Events, TypeWorld
  <1>5. CASE MirrorChanges
    <2>1. PICK n \in ListNames, l \in Layouts : disk' = [disk EXCEPT ![n] = l]
      BY <1>5 DEF MirrorChanges
    <2>2. disk' \in [ListNames -> Layouts]
      BY <2>1 DEF TypeWorld
    <2> QED
      BY <1>1, <1>5, <2>2 DEF MirrorChanges, Events, TypeWorld
  <1>6. CASE Answer
    <2>1. PICK answer \in Answers : saved' = Selected(answer)
      BY <1>6 DEF Answer
    <2>2. answer \in Seq(ListNames)
      BY AnswersType
    <2>3. saved' \in [Modes -> Seq(Pattern) \cup {None, Null}]
      BY <1>2, <1>6, <2>1, <2>2 DEF Answer
    <2> QED
      BY <1>6, <2>3 DEF Answer, TypeWorld
  <1>7. CASE AnswerTorn
    <2>1. PICK answer \in Answers : \E torn \in [Modes -> Remains(answer)] :
             /\ \A m \in Modes : torn[m] \in Remainder(Selected(answer)[m])
             /\ saved' = torn
      BY <1>7 DEF AnswerTorn
    <2>2. answer \in Seq(ListNames)
      BY AnswersType
    <2>3. \A m \in Modes : Selected(answer)[m] \in Seq(Pattern) \cup {None}
      BY <1>7, <2>2, SelectedType DEF AnswerTorn, Asking, Progressing, Selections
    <2>4. \A m \in Modes : Remainder(Selected(answer)[m]) \subseteq Seq(Pattern) \cup {None, Null}
      BY <2>3, RemainderType
    <2>5. saved' \in [Modes -> Seq(Pattern) \cup {None, Null}]
      BY <2>1, <2>4
    <2> QED
      BY <1>1, <1>7, <2>5 DEF AnswerTorn, Events, TypeWorld
  <1>8. CASE Program /\ ~Answer /\ ~AnswerTorn
    BY <1>1, <1>8 DEF Program, ReadConfig, ReadConfigFails, RetrieveLists, RetrieveFails,
         NoAnswer, TakeAll, BeginExpand, Expand, SkipRepeated, MatchName, MatchList,
         EndGlob, EndExpand, NothingMatches, InExpand, CreateWorkers, ConnectPanics,
         Run, RunEnds, outside, Events, TypeWorld
  <1> QED
    BY <1>3, <1>4, <1>5, <1>6, <1>7, <1>8 DEF Next

LEMMA StartStep ==
  ASSUME TypeWorld, TypeStart, TypeLoop, Progressing, Next
  PROVE  TypeStart'
  <1>1. CASE Over
    BY <1>1 DEF Over, TypeStart, Points, Nothing, Selections
  <1>2. CASE ReadConfig
    <2>1. read_lists' \in Selections
      <3>1. \A m \in Modes : saved[m] # Null /\ saved[m] # None => saved[m] \in Seq(Pattern)
        BY DEF TypeWorld
      <3>2. config.read_lists \in Selections
        BY EnvironmentAssumption DEF TypeWorld
      <3> QED
        BY <1>2, <3>1, <3>2 DEF ReadConfig, Selections
    <2>2. config.sections \subseteq Modes
      BY EnvironmentAssumption DEF TypeWorld
    <2> QED
      BY <1>2, <2>1, <2>2 DEF ReadConfig, TypeStart, Points, Nothing
  <1>3. CASE Answer
    <2>1. PICK answer \in Answers : read_lists' = Selected(answer)
      BY <1>3 DEF Answer
    <2>2. read_lists' \in Selections
      BY <1>3, <2>1, AnswersType, SelectedType DEF Answer, Asking, Progressing
    <2> QED
      BY <1>3, <2>2 DEF Answer, TypeStart, Points
  <1>4. CASE CreateWorkers
    <2>1. groups' \in [Modes -> Seq(ListNames) \cup {None}]
      BY <1>4 DEF CreateWorkers, TypeStart, TypeLoop
    <2> QED
      BY <1>4, <2>1 DEF CreateWorkers, TypeStart, Points
  <1>5. CASE EditConfig \/ ServerChanges \/ MirrorChanges
    BY <1>5 DEF EditConfig, ServerChanges, MirrorChanges, Inside, TypeStart
  <1>6. CASE Program /\ ~Over /\ ~ReadConfig /\ ~Answer /\ ~CreateWorkers
    BY <1>6 DEF Program, ReadConfigFails, RetrieveLists, RetrieveFails, NoAnswer, AnswerTorn,
         TakeAll, BeginExpand, Expand, SkipRepeated, MatchName, MatchList, EndGlob,
         EndExpand, NothingMatches, InExpand, ConnectPanics, Run, RunEnds, TypeStart,
         Points
  <1> QED
    BY <1>1, <1>2, <1>3, <1>4, <1>5, <1>6 DEF Next

LEMMA LoopStep ==
  ASSUME TypeWorld, TypeStart, TypeLoop, Progressing, Expanded, Next
  PROVE  TypeLoop'
  <1> DEFINE Flag  == hit' \in BOOLEAN
             Loop2 == /\ available' \in Seq(ListNames) /\ matched' \in Seq(ListNames)
                      /\ i' \in Nat \ {0} /\ j' \in Nat \ {0}
                      /\ unmatched' \subseteq Pattern
  <1> SUFFICES Flag /\ Loop2
    BY DEF TypeLoop
  <1>0. Flag
    <2>1. hit' \in {hit, TRUE, FALSE}
      BY DEF Next, Program, Expand, Over, EndScope, RetrieveLists, RetrieveFails, ReadConfig,
         ReadConfigFails, NoAnswer, Answer, AnswerTorn, TakeAll, BeginExpand, SkipRepeated,
         MatchName, MatchList, EndGlob, EndExpand, NothingMatches, CreateWorkers,
         ConnectPanics, Run, RunEnds, EditConfig, ServerChanges, MirrorChanges, Inside, loop,
         NextPattern
    <2> QED
      BY <2>1, Zenon DEF TypeLoop
  <1> HIDE DEF Flag
  <1>1. CASE Over \/ CreateWorkers
    <2>1. EndScope
      BY <1>1 DEF Over, CreateWorkers
    <2>2. <<>> \in Seq(ListNames)
      OBVIOUS
    <2>3. Loop2
      BY <2>1, <2>2 DEF EndScope
    <2> QED
      BY <1>0, <2>3
  <1>2. CASE RetrieveLists
    <2>1. Offered \subseteq ListNames
      BY DEF Offered, TypeWorld
    <2>2. available' \in Seq(Offered)
      BY <1>2, <2>1, FS_Subset, NamesAssumption, OrderingsType DEF RetrieveLists
    <2> QED
      BY <1>0, <1>2, <2>1, <2>2 DEF RetrieveLists, loop, TypeLoop
  <1>3. CASE Answer
    BY <1>0, <1>3, AnswersType DEF Answer, loop, TypeLoop
  <1>4. CASE MatchName
    <2>1. Selection[i] \in Pattern
      BY <1>4, PatternAt DEF MatchName, AtName, Expanding, Progressing, Expanded
    <2>2. matched' \in Seq(ListNames)
      <3>1. \A n \in Range(available) : Append(matched, n) \in Seq(ListNames)
        BY RangeOf DEF TypeLoop
      <3> QED
        BY <1>4, <3>1 DEF MatchName, TypeLoop
    <2>3. unmatched' \subseteq Pattern
      BY <1>4, <2>1 DEF MatchName, TypeLoop
    <2> QED
      BY <1>0, <1>4, <2>2, <2>3 DEF MatchName, NextPattern, InExpand, TypeLoop
  <1>5. CASE MatchList
    <2>1. available[j] \in ListNames
      BY <1>5 DEF MatchList, TypeLoop
    <2> QED
      BY <1>0, <1>5, <2>1 DEF MatchList, InExpand, TypeLoop
  <1>6. CASE EndGlob
    <2>1. Selection[i] \in Pattern
      BY <1>6, PatternAt DEF EndGlob, AtGlob, Expanding, Progressing, Expanded
    <2> QED
      BY <1>0, <1>6, <2>1 DEF EndGlob, NextPattern, InExpand, TypeLoop
  <1>7. CASE TakeAll \/ BeginExpand \/ SkipRepeated
    <2>1. <<>> \in Seq(ListNames)
      OBVIOUS
    <2>2. CASE TakeAll
      BY <1>0, <2>2 DEF TakeAll, loop, TypeLoop
    <2>3. CASE BeginExpand
      <3>1. Loop2
        BY <2>1, <2>3 DEF BeginExpand, TypeLoop
      <3> QED
        BY <1>0, <3>1
    <2>4. CASE SkipRepeated
      BY <1>0, <2>4 DEF SkipRepeated, NextPattern, InExpand, TypeLoop
    <2> QED
      BY <1>7, <2>2, <2>3, <2>4
  <1>8. CASE EditConfig \/ ServerChanges \/ MirrorChanges
    BY <1>0, <1>8 DEF EditConfig, ServerChanges, MirrorChanges, Inside, loop, TypeLoop
  <1>9. CASE ReadConfig \/ EndExpand \/ Run
    BY <1>0, <1>9 DEF ReadConfig, EndExpand, Run, loop, TypeLoop
  <1>10. CASE ReadConfigFails \/ RetrieveFails \/ NoAnswer \/ AnswerTorn \/ NothingMatches
              \/ ConnectPanics \/ RunEnds
    BY <1>1, <1>10 DEF ReadConfigFails, RetrieveFails, NoAnswer, AnswerTorn, NothingMatches,
         ConnectPanics, RunEnds
  <1> QED
    BY <1>1, <1>2, <1>3, <1>4, <1>5, <1>6, <1>7, <1>8, <1>9, <1>10 DEF Next, Program, Expand
-----------------------------------------------------------------------------
LEMMA ProgressStep ==
  ASSUME TypeWorld, TypeStart, TypeLoop, Progressing, Next
  PROVE  Progressing'
  <1>1. CASE Over
    BY <1>1 DEF Over, Progressing
  <1>2. CASE ReadConfig
    BY <1>2 DEF ReadConfig, Progressing, Nothing
  <1>3. CASE CreateWorkers
    <2>1. mode \in todo /\ mode \in Modes
      BY <1>3, ModeToDo DEF CreateWorkers, Progressing
    <2>2. matched # None
      BY NamesAssumption DEF TypeLoop
    <2>3. \A m \in Modes : groups'[m] = IF m = mode THEN matched ELSE groups[m]
      BY <1>3 DEF CreateWorkers, TypeStart
    <2>4. todo' = todo \ {mode} /\ sections' = sections /\ pc' = "modes"
      BY <1>3 DEF CreateWorkers
    <2>5. \A m \in Modes : groups[m] # None <=> m \in sections \ todo
      BY <1>3 DEF CreateWorkers, Progressing
    <2>6. todo \subseteq sections
      BY DEF TypeStart
    <2>7. \A m \in Modes : groups'[m] # None <=> m \in sections' \ todo'
      BY <2>1, <2>2, <2>3, <2>4, <2>5, <2>6
    <2> QED
      BY <2>4, <2>7 DEF Progressing
  <1>4. CASE EditConfig \/ ServerChanges \/ MirrorChanges
    BY <1>4 DEF EditConfig, ServerChanges, MirrorChanges, Inside, Progressing
  <1>5. CASE Program /\ ~Over /\ ~ReadConfig /\ ~CreateWorkers
    BY <1>5 DEF Program, ReadConfigFails, RetrieveLists, RetrieveFails, NoAnswer, Answer,
         AnswerTorn, Asking, TakeAll, BeginExpand, Expand, SkipRepeated, MatchName,
         MatchList, EndGlob, AtName, AtGlob, Expanding, EndExpand, NothingMatches,
         InExpand, ConnectPanics, Run, RunEnds, Progressing
  <1> QED
    BY <1>1, <1>2, <1>3, <1>4, <1>5 DEF Next

(* The answer is added to what was selected before. *)
LEMMA AnswerKeeps ==
  ASSUME TypeWorld, TypeStart, Remembered, Answer
  PROVE  \A m \in Modes : saved[m] # None => saved'[m] = saved[m]
  <1>1. PICK answer \in Answers : saved' = Selected(answer)
    BY DEF Answer
  <1>2. TAKE m \in Modes
  <1>3. HAVE saved[m] # None
  <1>4. read_lists[m] = saved[m]
    BY <1>3 DEF Remembered, Answer, Asking
  <1>5. m # mode
    BY <1>3, <1>4 DEF Answer, Asking, Selection
  <1>6. Selected(answer)[m] = read_lists[m]
    BY <1>5 DEF Selected, TypeStart, Selections
  <1> QED
    BY <1>1, <1>4, <1>6

LEMMA RememberStep ==
  ASSUME TypeWorld, TypeStart, Remembered, Next
  PROVE  Remembered'
  <1>1. CASE Over
    BY <1>1 DEF Over, Remembered
  <1>2. CASE ReadConfig
    BY <1>2 DEF ReadConfig, outside, Remembered
  <1>3. CASE Answer
    BY <1>3 DEF Answer, Remembered
  <1>4. CASE EditConfig \/ ServerChanges \/ MirrorChanges
    BY <1>4 DEF EditConfig, ServerChanges, MirrorChanges, Inside, Remembered
  <1>5. CASE Program /\ ~Over /\ ~ReadConfig /\ ~Answer
    BY <1>5 DEF Program, ReadConfigFails, RetrieveLists, RetrieveFails, NoAnswer,
         AnswerTorn, TakeAll, BeginExpand, Expand, SkipRepeated, MatchName,
         MatchList, EndGlob, EndExpand, NothingMatches, AtName, AtGlob, Expanding,
         InExpand, CreateWorkers, ConnectPanics, Run, RunEnds, outside, Remembered
  <1> QED
    BY <1>1, <1>2, <1>3, <1>4, <1>5 DEF Next

LEMMA SpentStep ==
  ASSUME TypeWorld, Spent, Next
  PROVE  Spent' /\ (AnswerTorn => budget'["tear"] < Budget["tear"])
  <1>1. ASSUME NEW e \in Events, Spend(e)
        PROVE  /\ budget'["tear"] <= budget["tear"]
               /\ e = "tear" => budget'["tear"] < budget["tear"]
               /\ budget'["tear"] \in Nat
    BY <1>1 DEF Spend, TypeWorld, Events
  <1>2. budget["tear"] \in Nat /\ Budget["tear"] \in Nat
    BY EventAssumption DEF TypeWorld, Events
  <1>3. UNCHANGED budget \/ \E e \in Events : Spend(e)
    BY DEF Next, Program, ReadConfig, ReadConfigFails, RetrieveLists, RetrieveFails,
         NoAnswer, Answer, AnswerTorn, TakeAll, BeginExpand, Expand, SkipRepeated,
         MatchName, MatchList, EndGlob, EndExpand, NothingMatches, InExpand,
         CreateWorkers, ConnectPanics, Run, RunEnds, EditConfig, ServerChanges,
         MirrorChanges, Events
  <1>4. AnswerTorn => Spend("tear")
    BY DEF AnswerTorn
  <1> QED
    BY <1>1, <1>2, <1>3, <1>4 DEF Spent, Events

LEMMA SavedOnlyByAnswer ==
  ASSUME Next PROVE UNCHANGED saved \/ Answer \/ AnswerTorn
  BY DEF Next, Program, ReadConfig, ReadConfigFails, RetrieveLists, RetrieveFails,
       NoAnswer, TakeAll, BeginExpand, Expand, SkipRepeated, MatchName, MatchList,
       EndGlob, EndExpand, NothingMatches, InExpand, CreateWorkers, ConnectPanics, Run,
       RunEnds, EditConfig, ServerChanges, MirrorChanges, outside
-----------------------------------------------------------------------------
LEMMA RangeAppend ==
  ASSUME NEW S, NEW s \in Seq(S), NEW e \in S
  PROVE  /\ \A x : x \in Range(Append(s, e)) <=> x \in Range(s) \/ x = e
         /\ NoRepeats(s) /\ e \notin Range(s) => NoRepeats(Append(s, e))
  <1>1. /\ DOMAIN s = 1..Len(s) /\ Len(s) \in Nat
        /\ DOMAIN Append(s, e) = 1..(Len(s) + 1)
        /\ \A k \in 1..Len(s) : Append(s, e)[k] = s[k]
        /\ Append(s, e)[Len(s) + 1] = e
    OBVIOUS
  <1>2. 1..(Len(s) + 1) = (1..Len(s)) \cup {Len(s) + 1}
    BY <1>1
  <1>3. \A x : x \in Range(Append(s, e)) <=> x \in Range(s) \/ x = e
    BY <1>1, <1>2 DEF Range
  <1>4. NoRepeats(s) /\ e \notin Range(s) => NoRepeats(Append(s, e))
    BY <1>1, <1>2 DEF Range, NoRepeats
  <1> QED
    BY <1>3, <1>4

(* One more pattern. *)
LEMMA OneMorePattern ==
  ASSUME NEW n \in Nat
  PROVE  \A x : Earlier(x, n + 1) <=> Earlier(x, n) \/ x \in Selection[n + 1].names
  <1>1. 1..(n + 1) = (1..n) \cup {n + 1}
    OBVIOUS
  <1> QED
    BY <1>1 DEF Earlier

(* Between two patterns what was matched is what the patterns before select. *)
LEMMA NothingHere ==
  ASSUME Expanded, pc = "expand", j = 1
  PROVE  \A x \in ListNames :
            x \in Range(matched) <=> x \in Range(available) /\ Earlier(x, i - 1)
  <1>1. 1..(j - 1) = {}
    OBVIOUS
  <1> QED
    BY <1>1 DEF Expanded, Here

LEMMA LoopFrame ==
  ASSUME InExpand
  PROVE  mode' = mode /\ Selection' = Selection /\ available' = available /\ pc' = pc
  BY DEF InExpand, mode, Selection

(* The loop goes to the next pattern with what this one selects added. *)
LEMMA PatternDone ==
  ASSUME TypeLoop, Expanded, Expanding, Selection \in Seq(Pattern),
         InExpand, NextPattern, NoRepeats(matched'),
         \A x \in ListNames : x \in Range(matched') <=>
            x \in Range(available) /\ (Earlier(x, i - 1) \/ x \in Selection[i].names)
  PROVE  Expanded'
  <1>1. /\ mode' = mode /\ Selection' = Selection /\ available' = available
        /\ pc' = "expand" /\ i' = i + 1 /\ j' = 1 /\ i \in Nat \ {0}
        /\ Len(available) \in Nat /\ Len(Selection) \in Nat /\ i <= Len(Selection)
    BY LoopFrame DEF NextPattern, Expanding, TypeLoop
  <1>2. \A x : Earlier(x, i) <=> Earlier(x, i - 1) \/ x \in Selection[i].names
    <2>1. i - 1 \in Nat /\ (i - 1) + 1 = i
      BY <1>1
    <2>2. \A x : Earlier(x, (i - 1) + 1)
                   <=> Earlier(x, i - 1) \/ x \in Selection[(i - 1) + 1].names
      BY <2>1, OneMorePattern
    <2> QED
      BY <2>1, <2>2
  <1>3. i' - 1 = i /\ 1..(j' - 1) = {}
    BY <1>1
  <1>4. \A x : (\E k \in 1..(i' - 1) : x \in Selection'[k].names) <=> Earlier(x, i)
    BY <1>1, <1>3 DEF Earlier
  <1>5. \A x : ~(\E p \in 1..(j' - 1) : x = available'[p])
    BY <1>3
  <1>6. \A x \in ListNames :
          x \in Range(matched') <=>
            x \in Range(available') /\ (\E k \in 1..(i' - 1) : x \in Selection'[k].names)
    BY <1>1, <1>2, <1>4
  <1>7. NoRepeats(available) /\ Selection # None /\ i' <= Len(Selection') + 1
        /\ j' <= Len(available') + 1
    BY <1>1 DEF Expanded, Expanding
  <1> QED
    BY <1>1, <1>5, <1>6, <1>7 DEF Expanded, Earlier, Here

LEMMA MatchNameStep ==
  ASSUME TypeStart, TypeLoop, Progressing, Expanded, MatchName
  PROVE  Expanded'
  <1>1. /\ pc = "expand" /\ j = 1 /\ i \in 1..Len(Selection) /\ InExpand
        /\ ~Selection[i].glob /\ todo # {} /\ Selection # None
    BY DEF MatchName, AtName, Expanding, AtGlob, Expanded, Progressing, TypeLoop
  <1>2. Selection \in Seq(Pattern) /\ Selection[i] \in Pattern
    BY <1>1, SelectionType, PatternAt
  <1>3. PICK m \in ListNames : Selection[i].names = {m}
    BY <1>1, <1>2 DEF Pattern
  <1>4. \A x \in ListNames :
          x \in Range(matched) <=> x \in Range(available) /\ Earlier(x, i - 1)
    BY <1>1, NothingHere
  <1>5. \A n : FreshMatch(n) <=> n = m /\ n \notin Range(matched)
    BY <1>3 DEF FreshMatch
  <1>6. NoRepeats(matched) /\ matched \in Seq(ListNames)
    BY <1>1 DEF Expanded, TypeLoop
  <1>7. CASE m \in Range(available) /\ m \notin Range(matched)
    <2>1. {n \in Range(available) : FreshMatch(n)} = {m}
      BY <1>5, <1>7
    <2>2. matched' = Append(matched, m)
      BY <2>1 DEF MatchName
    <2>3. NoRepeats(matched') /\ \A x : x \in Range(matched') <=> x \in Range(matched) \/ x = m
      BY <1>6, <1>7, <2>2, RangeAppend
    <2>4. \A x \in ListNames : x \in Range(matched') <=>
            x \in Range(available) /\ (Earlier(x, i - 1) \/ x \in Selection[i].names)
      BY <1>3, <1>4, <1>7, <2>3
    <2> QED
      BY <1>1, <1>2, <2>3, <2>4, PatternDone DEF MatchName, AtName
  <1>8. CASE ~(m \in Range(available) /\ m \notin Range(matched))
    <2>1. {n \in Range(available) : FreshMatch(n)} = {}
      BY <1>5, <1>8
    <2>2. matched' = matched
      BY <2>1 DEF MatchName
    <2>3. \A x \in ListNames : x \in Range(matched') <=>
            x \in Range(available) /\ (Earlier(x, i - 1) \/ x \in Selection[i].names)
      BY <1>3, <1>4, <1>8, <2>2
    <2> QED
      BY <1>1, <1>2, <1>6, <2>2, <2>3, PatternDone DEF MatchName, AtName
  <1> QED
    BY <1>7, <1>8

LEMMA MatchListStep ==
  ASSUME TypeStart, TypeLoop, Progressing, Expanded, MatchList
  PROVE  Expanded'
  <1>1. /\ pc = "expand" /\ i \in 1..Len(Selection) /\ i' = i /\ j' = j + 1
        /\ j \in 1..Len(available) /\ InExpand /\ AtGlob
    BY DEF MatchList, AtGlob, Expanding, TypeLoop
  <1>2. /\ mode' = mode /\ Selection' = Selection /\ available' = available /\ pc' = pc
    BY <1>1, LoopFrame
  <1>3. available[j] \in ListNames /\ available[j] \in Range(available)
    BY <1>1 DEF TypeLoop, Range
  <1>4. NoRepeats(matched) /\ matched \in Seq(ListNames)
    BY <1>1 DEF Expanded, TypeLoop
  <1>5. NoRepeats(matched') /\
        \A x : x \in Range(matched') <=>
          x \in Range(matched) \/ (x = available[j] /\ x \in Selection[i].names)
    <2>1. CASE FreshMatch(available[j])
      <3>1. matched' = Append(matched, available[j])
        BY <2>1 DEF MatchList
      <3>2. available[j] \notin Range(matched) /\ available[j] \in Selection[i].names
        BY <2>1 DEF FreshMatch
      <3> QED
        BY <1>3, <1>4, <3>1, <3>2, RangeAppend
    <2>2. CASE ~FreshMatch(available[j])
      BY <1>4, <2>2 DEF MatchList, FreshMatch
    <2> QED
      BY <2>1, <2>2
  <1>6. 1..(j' - 1) = (1..(j - 1)) \cup {j}
    BY <1>1
  <1>7. AtGlob'
    BY <1>1, <1>2 DEF AtGlob, Expanding, Repeated
  <1>8. \A x : Here(x)' <=> Here(x) \/ (x = available[j] /\ x \in Selection[i].names)
    <2>1. \A x : Here(x)' <=> /\ i <= Len(Selection) /\ x \in Selection[i].names
                              /\ \E p \in 1..(j' - 1) : x = available[p]
      BY <1>1, <1>2 DEF Here
    <2> QED
      BY <1>1, <1>6, <2>1 DEF Here
  <1>9. \A x : Earlier(x, i - 1)' <=> Earlier(x, i - 1)
    BY <1>1, <1>2 DEF Earlier
  <1>10. \A x \in ListNames :
          x \in Range(matched') <=> x \in Range(available') /\ (Earlier(x, i - 1)' \/ Here(x)')
    BY <1>1, <1>2, <1>3, <1>5, <1>8, <1>9 DEF Expanded
  <1>11. NoRepeats(available) /\ Selection # None /\ i' <= Len(Selection') + 1
         /\ j' <= Len(available') + 1
    BY <1>1, <1>2 DEF Expanded, TypeLoop
  <1> QED
    BY <1>2, <1>5, <1>7, <1>10, <1>11 DEF Expanded

LEMMA EndGlobStep ==
  ASSUME TypeStart, TypeLoop, Progressing, Expanded, EndGlob
  PROVE  Expanded'
  <1>1. /\ pc = "expand" /\ i \in 1..Len(Selection) /\ matched' = matched
        /\ j > Len(available) /\ j <= Len(available) + 1 /\ InExpand /\ NextPattern
        /\ Selection # None /\ todo # {} /\ Expanding
    BY DEF EndGlob, AtGlob, Expanding, TypeLoop, Expanded, Progressing
  <1>2. Selection \in Seq(Pattern)
    BY <1>1, SelectionType
  <1>3. j - 1 = Len(available) /\ DOMAIN available = 1..Len(available)
    BY <1>1 DEF TypeLoop
  <1>4. \A x \in Range(available) : \E p \in 1..(j - 1) : x = available[p]
    BY <1>3 DEF Range
  <1>5. \A x \in ListNames : x \in Range(matched') <=>
          x \in Range(available) /\ (Earlier(x, i - 1) \/ x \in Selection[i].names)
    BY <1>1, <1>4 DEF Expanded, Here
  <1> QED
    BY <1>1, <1>2, <1>5, PatternDone DEF Expanded

LEMMA SkipRepeatedStep ==
  ASSUME TypeStart, TypeLoop, Progressing, Expanded, SkipRepeated
  PROVE  Expanded'
  <1>1. /\ pc = "expand" /\ i \in 1..Len(Selection) /\ matched' = matched
        /\ i > 1 /\ Selection[i] = Selection[i - 1] /\ j = 1 /\ InExpand /\ NextPattern
        /\ Selection # None /\ todo # {} /\ Expanding
    BY DEF SkipRepeated, Repeated, AtGlob, Expanding, TypeLoop, Expanded, Progressing
  <1>2. Selection \in Seq(Pattern)
    BY <1>1, SelectionType
  <1>3. \A x : x \in Selection[i].names => Earlier(x, i - 1)
    <2>1. i - 1 \in 1..(i - 1)
      BY <1>1
    <2> QED
      BY <1>1, <2>1 DEF Earlier
  <1>4. \A x \in ListNames : x \in Range(matched') <=>
          x \in Range(available) /\ (Earlier(x, i - 1) \/ x \in Selection[i].names)
    BY <1>1, <1>3, NothingHere
  <1> QED
    BY <1>1, <1>2, <1>4, PatternDone DEF Expanded

(* The steps that begin or end the loop, or do without it. *)
LEMMA SelectStep ==
  ASSUME TypeWorld, TypeStart, TypeLoop, Progressing, Expanded,
         RetrieveLists \/ TakeAll \/ BeginExpand \/ Answer \/ EndExpand
  PROVE  Expanded' /\ SelectionExact'
  <1>1. CASE RetrieveLists
    <2>1. Offered \subseteq ListNames
      BY DEF Offered, TypeWorld
    <2>2. NoRepeats(available')
      BY <1>1, <2>1, FS_Subset, NamesAssumption, OrderingsType DEF RetrieveLists
    <2> QED
      BY <1>1, <2>2 DEF RetrieveLists, Expanded, SelectionExact
  <1>2. CASE TakeAll
    <2>1. /\ mode' = mode /\ Selection' = Selection /\ available' = available
          /\ matched' = available /\ pc' = "create" /\ NoRepeats(available)
      BY <1>2 DEF TakeAll, mode, Selection, loop, Expanded
    <2>2. Selection = <<Star>> /\ Star \in Pattern
      BY <1>2 DEF TakeAll, Star, Pattern
    <2>3. Selection # None
      <3>1. <<Star>> \in Seq(Pattern)
        BY <2>2
      <3> QED
        BY <2>2, <3>1, NamesAssumption
    <2>4. Range(available) \subseteq ListNames
      BY RangeOf DEF TypeLoop
    <2>5. \A x \in Range(available) : \E k \in DOMAIN Selection : x \in Selection[k].names
      <3>1. 1 \in DOMAIN Selection /\ Selection[1].names = ListNames
        BY <2>2 DEF Star
      <3> QED
        BY <2>4, <3>1
    <2> QED
      BY <2>1, <2>3, <2>5 DEF Expanded, SelectionExact, NoRepeats
  <1>3. CASE BeginExpand
    <2>1. /\ mode' = mode /\ Selection' = Selection /\ available' = available
          /\ pc' = "expand" /\ NoRepeats(available) /\ Selection # None
          /\ i' = 1 /\ j' = 1 /\ matched' = <<>>
      BY <1>3 DEF BeginExpand, mode, Selection, Expanded
    <2>2. Selection \in Seq(Pattern)
      BY <1>3, <2>1, SelectionType DEF BeginExpand, Progressing
    <2>3. i' <= Len(Selection') + 1 /\ j' <= Len(available') + 1
      BY <2>1, <2>2 DEF TypeLoop
    <2>4. NoRepeats(matched') /\ \A x : x \notin Range(matched')
      BY <2>1 DEF NoRepeats, Range
    <2>5. 1..(i' - 1) = {} /\ 1..(j' - 1) = {}
      BY <2>1
    <2>6. \A x : ~(\E k \in 1..(i' - 1) : x \in Selection'[k].names) /\ ~Here(x)'
      BY <2>5 DEF Here
    <2> QED
      BY <2>1, <2>3, <2>4, <2>6 DEF Expanded, SelectionExact, Earlier
  <1>4. CASE Answer
    <2>1. PICK answer \in Answers : matched' = answer /\ read_lists' = Selected(answer)
      BY <1>4 DEF Answer
    <2>2. /\ answer \in Seq(ListNames) /\ NoRepeats(answer)
          /\ Range(answer) \subseteq Range(available)
      BY AnswersType
    <2>3. todo # {} /\ todo' = todo /\ available' = available /\ pc' = "create"
          /\ NoRepeats(available)
      BY <1>4 DEF Answer, Asking, Progressing, loop, Expanded
    <2>4. mode' = mode
      BY <2>3 DEF mode
    <2>5. Selection' = Chosen(answer)
      BY <2>1, <2>2, <2>3, <2>4, SelectedType DEF Selection
    <2>6. /\ Chosen(answer) \in Seq(Pattern) /\ DOMAIN Chosen(answer) = DOMAIN answer
          /\ \A k \in DOMAIN answer : Chosen(answer)[k].names = {answer[k]}
      BY <2>2, ChosenType
    <2>7. Selection' # None
      BY <2>5, <2>6, NamesAssumption
    <2>8. Range(answer) = {n \in Range(available) :
                              \E k \in DOMAIN Chosen(answer) : n \in Chosen(answer)[k].names}
      <3>1. \A n : n \in Range(answer) <=> \E k \in DOMAIN answer : n = answer[k]
        BY DEF Range
      <3>2. \A n : n \in Range(answer) <=>
              \E k \in DOMAIN Chosen(answer) : n \in Chosen(answer)[k].names
        BY <2>6, <3>1
      <3> QED
        BY <2>2, <3>2
    <2>9. SelectionExact'
      BY <2>1, <2>2, <2>3, <2>5, <2>8 DEF SelectionExact, NoRepeats
    <2> QED
      BY <2>1, <2>2, <2>3, <2>7, <2>9 DEF Expanded
  <1>5. CASE EndExpand
    <2>1. /\ mode' = mode /\ Selection' = Selection /\ available' = available
          /\ matched' = matched /\ pc = "expand" /\ pc' = "create" /\ i > Len(Selection)
          /\ NoRepeats(available) /\ NoRepeats(matched) /\ Selection # None
          /\ todo # {}
      BY <1>5 DEF EndExpand, mode, Selection, loop, Expanded, Progressing
    <2>2. Selection \in Seq(Pattern)
      BY <2>1, SelectionType
    <2>3. i - 1 = Len(Selection) /\ j = 1 /\ DOMAIN Selection = 1..Len(Selection)
      BY <2>1, <2>2 DEF Expanded, AtGlob, Expanding, TypeLoop
    <2>4. \A x \in ListNames : x \in Range(matched) <=>
            x \in Range(available) /\ \E k \in DOMAIN Selection : x \in Selection[k].names
      BY <2>1, <2>3, NothingHere DEF Earlier
    <2>5. Range(matched) \subseteq ListNames /\ Range(available) \subseteq ListNames
      BY RangeOf DEF TypeLoop
    <2>6. Range(matched) = {n \in Range(available) :
                              \E k \in DOMAIN Selection : n \in Selection[k].names}
      BY <2>4, <2>5
    <2> QED
      BY <2>1, <2>6 DEF Expanded, SelectionExact, NoRepeats
  <1> QED
    BY <1>1, <1>2, <1>3, <1>4, <1>5

LEMMA ExpandStep ==
  ASSUME TypeWorld, TypeStart, TypeLoop, Progressing, Expanded, Next
  PROVE  Expanded' /\ SelectionExact'
  <1>1. CASE pc' \in {"off", "modes", "running"}
    BY <1>1 DEF Expanded, SelectionExact
  <1>2. CASE RetrieveLists \/ TakeAll \/ BeginExpand \/ Answer \/ EndExpand
    BY <1>2, SelectStep
  <1>3. CASE SkipRepeated \/ MatchName \/ MatchList \/ EndGlob
    <2>1. pc = "expand" /\ pc' = pc
      BY <1>3 DEF SkipRepeated, MatchName, AtName, MatchList, AtGlob, EndGlob, Expanding, InExpand
    <2> QED
      BY <1>3, <2>1, SkipRepeatedStep, MatchNameStep, MatchListStep, EndGlobStep
         DEF SelectionExact
  <1>4. CASE EditConfig \/ ServerChanges \/ MirrorChanges
    BY <1>1, <1>4 DEF EditConfig, ServerChanges, MirrorChanges, Inside, Outside
  <1>5. CASE ReadConfig \/ ReadConfigFails \/ RetrieveFails \/ NoAnswer \/ AnswerTorn
             \/ NothingMatches \/ CreateWorkers \/ ConnectPanics \/ Run \/ RunEnds
    BY <1>1, <1>5 DEF ReadConfig, ReadConfigFails, RetrieveFails, NoAnswer, AnswerTorn,
         NothingMatches, CreateWorkers, ConnectPanics, Run, RunEnds, Over
  <1> QED
    BY <1>2, <1>3, <1>4, <1>5 DEF Next, Program, Expand
-----------------------------------------------------------------------------
LEMMA InitInv == ASSUME Init PROVE IInv
  <1>1. TypeWorld
    BY EventAssumption, EnvironmentAssumption DEF Init, TypeWorld, Nothing
  <1>2. TypeStart
    BY DEF Init, TypeStart, Nothing, Points, Selections
  <1>3. <<>> \in Seq(ListNames)
    OBVIOUS
  <1>4. TypeLoop
    <2>1. hit \in BOOLEAN
      BY Zenon DEF Init
    <2>2. /\ available \in Seq(ListNames) /\ matched \in Seq(ListNames)
          /\ i \in Nat \ {0} /\ j \in Nat \ {0} /\ unmatched \subseteq Pattern
      BY <1>3 DEF Init
    <2> QED
      BY <2>1, <2>2 DEF TypeLoop
  <1>5. Progressing /\ Remembered /\ Expanded /\ SelectionExact
    BY DEF Init, Progressing, Remembered, Expanded, SelectionExact
  <1>6. Spent
    BY EventAssumption DEF Init, Spent, Events
  <1> QED
    BY <1>1, <1>2, <1>4, <1>5, <1>6, TypeParts DEF IInv

LEMMA NextInv == ASSUME IInv, [Next]_vars PROVE IInv'
  <1>1. TypeWorld /\ TypeStart /\ TypeLoop
    BY TypeParts DEF IInv
  <1>2. CASE Next
    <2>1. TypeWorld' /\ TypeStart' /\ TypeLoop'
      BY <1>1, <1>2, WorldStep, StartStep, LoopStep DEF IInv
    <2>2. TypeOK'
      BY <2>1 DEF TypeOK, TypeWorld, TypeStart, TypeLoop
    <2> QED
      BY <1>1, <1>2, <2>2, ProgressStep, RememberStep, SpentStep, ExpandStep DEF IInv
  <1>3. CASE UNCHANGED vars
    <2>1. mode' = mode /\ Selection' = Selection
      BY <1>3 DEF vars, mode, Selection
    <2>2. TypeOK' /\ Progressing' /\ Remembered' /\ Spent'
      BY <1>3 DEF IInv, vars, outside, loop, TypeOK, Progressing, Remembered, Spent
    <2>3. Expanded' /\ SelectionExact'
      BY <1>3, <2>1 DEF IInv, vars, outside, loop, Expanded, SelectionExact, Earlier, Here,
           AtGlob, Expanding, Repeated
    <2> QED
      BY <2>2, <2>3 DEF IInv
  <1> QED
    BY <1>2, <1>3

(* The invariant the properties follow from: where a start has come to,    *)
(* its groups, matches and saved selections are those of what it was asked *)
(* and answered so far.                                                    *)
THEOREM Invariance == Spec => []IInv
  BY InitInv, NextInv, PTL DEF Spec

(* For any names, configurations, servers, directories and events, the     *)
(* variables of a start (config.rs, lib.rs) keep their types: whatever a   *)
(* torn file leaves of the selections, what start works with is a list.    *)
THEOREM StartTypeCorrect == Spec => []TypeOK
  <1>1. IInv => TypeOK
    BY DEF IInv
  <1> QED
    BY <1>1, Invariance, PTL

(* expand_glob_patterns gives the lists that some pattern selects, each    *)
(* once, for any patterns in any order.                                    *)
THEOREM SelectionIsExact == Spec => []SelectionExact
  <1>1. IInv => SelectionExact
    BY DEF IInv
  <1> QED
    BY <1>1, Invariance, PTL

(* start runs the scheduler with the workers of every configured source,   *)
(* or not at all.                                                          *)
THEOREM StartsWhole == Spec => []WholeStart
  <1>1. IInv => WholeStart
    BY DEF IInv, Progressing, WholeStart
  <1> QED
    BY <1>1, Invariance, PTL

(* set_list_selection writes the selections of all modes: what was         *)
(* selected for one source is still there after the other one was asked    *)
(* for.                                                                    *)
THEOREM SelectionStays == Spec => SelectionSticks
  <1> DEFINE Keeps == budget'["tear"] = Budget["tear"] =>
                        \A m \in Modes : saved[m] # None => saved'[m] = saved[m]
  <1>1. IInv /\ [Next]_vars => [Keeps]_vars
    <2> SUFFICES ASSUME IInv, [Next]_vars PROVE [Keeps]_vars
      OBVIOUS
    <2>1. CASE UNCHANGED vars
      BY <2>1
    <2>2. CASE Next
      <3>1. TypeWorld /\ TypeStart
        BY TypeParts DEF IInv
      <3>2. CASE UNCHANGED saved
        BY <3>2
      <3>3. CASE Answer
        BY <3>1, <3>3, AnswerKeeps DEF IInv
      <3>4. CASE AnswerTorn
        <4>1. budget'["tear"] < Budget["tear"] /\ Budget["tear"] \in Nat
          BY <2>2, <3>1, <3>4, SpentStep, EventAssumption DEF IInv, Events
        <4>2. budget'["tear"] \in Nat
          BY <2>2, <3>1, TypeParts, WorldStep DEF IInv, TypeWorld, Events
        <4>3. budget'["tear"] # Budget["tear"]
          BY <4>1, <4>2
        <4> QED
          BY <4>3
      <3> QED
        BY <2>2, <3>2, <3>3, <3>4, SavedOnlyByAnswer
    <2> QED
      BY <2>1, <2>2
  <1> QED
    BY <1>1, Invariance, PTL DEF Spec, SelectionSticks

-----------------------------------------------------------------------------
(* The stages of a mirror, told apart by what the code asks. *)
LEMMA Stages ==
  ASSUME NEW r \in Repositories
  PROVE  /\ Usable(r) /\ HasObjects(r) <=> r = Cloned
         /\ r.objects /\ r.master /\ r.opens <=> r = Cloned
         /\ r # Damaged => (IsGitRepo(r) /\ r.master <=> r = Cloned)
         /\ r # Damaged => (IsGitRepo(r) /\ HasObjects(r) /\ r.master <=> r = Cloned)
         /\ r = Cloned => IsGitRepo(r) /\ HasObjects(r) /\ r.master /\ r.opens
  <1>1. CASE r = Absent
    BY <1>1 DEF Absent, Cloned, Damaged, Repository, Usable, HasObjects, IsGitRepo
  <1>2. CASE r = Hollow
    BY <1>2 DEF Hollow, Cloned, Damaged, Repository, Usable, HasObjects, IsGitRepo
  <1>3. CASE r = Fresh
    BY <1>3 DEF Fresh, Cloned, Damaged, Repository, Usable, HasObjects, IsGitRepo
  <1>4. CASE r = Cloned
    BY <1>4 DEF Cloned, Damaged, Repository, Usable, HasObjects, IsGitRepo
  <1>5. CASE r = Damaged
    BY <1>5 DEF Cloned, Damaged, Repository, Usable, HasObjects, IsGitRepo
  <1> QED
    BY <1>1, <1>2, <1>3, <1>4, <1>5 DEF Repositories

LEMMA InboxFields ==
  /\ \A v \in {"V2 (combined)", "V1", "V2 (incomplete)", "V1 (empty)"} :
        Inbox(v, "all").version = v /\ Inbox(v, "all").dir = "all"
  /\ Inbox("V1 (bare)", "self").version = "V1 (bare)"
  /\ Inbox("V1 (bare)", "self").dir = "self"
  /\ Inbox("none", "none").version = "none" /\ Inbox("none", "none").dir = "none"
  BY DEF Inbox

LEMMA LayoutOffered ==
  ASSUME NEW l \in InboxLayouts PROVE OfferedRightly(l)
  <1> SUFFICES ASSUME Ordinary(l)
        PROVE  /\ IsOffered(l) <=> IF l.git THEN \/ \E e \in DOMAIN l.epochs : l.epochs[e] = Cloned
                                                \/ l.all = Cloned
                                   ELSE Cloned \in {l.all, l.self}
               /\ IsOffered(l) => CanBeArchived(l)
    BY DEF OfferedRightly
  <1>1. /\ l.all \in Repositories /\ l.self \in Repositories
        /\ l.all # Damaged /\ l.self # Damaged /\ l.alternates = {}
        /\ \A e \in DOMAIN l.epochs : l.epochs[e] \in Repositories
    BY DEF InboxLayouts, Ordinary
  <1>2. HasEpoch(l) <=> \E e \in DOMAIN l.epochs : l.epochs[e] = Cloned
    BY <1>1, Stages DEF HasEpoch
  <1>3. CASE l.git /\ HasEpoch(l)
    <2>1. DetectInbox(l) = Inbox("V2", "git")
      BY <1>3 DEF DetectInbox, WithGit
    <2>2. DetectInbox(l).dir = "git" /\ DetectInbox(l).version = "V2"
      BY <2>1 DEF Inbox
    <2>3. FindEpochs(l) = {e \in DOMAIN l.epochs : l.epochs[e] = Cloned}
      BY <1>1, <2>2, Stages DEF FindEpochs
    <2>4. FindEpochs(l) # {}
      BY <1>2, <1>3, <2>3
    <2>5. \A r \in Walked(l) : r = Cloned
      BY <2>3, <2>4 DEF Walked
    <2>6. CanBeArchived(l)
      BY <2>5 DEF CanBeArchived, Cloned, Repository
    <2> QED
      BY <1>2, <1>3, <2>2, <2>6 DEF IsOffered
  <1>4. ASSUME DetectInbox(l).dir \in {"all", "self"} PROVE FindEpochs(l) = {}
    BY <1>4 DEF FindEpochs
  <1>5. CASE l.git /\ ~HasEpoch(l)
    <2>1. DetectInbox(l) = IF IsGitRepo(l.all) /\ BesideGit(l) # NotAnInbox
                           THEN BesideGit(l) ELSE EmptyInbox(l)
      BY <1>5 DEF DetectInbox, WithGit
    <2>2. EmptyInbox(l).version \in {"V2 (empty)", "V1 (empty)", "none"}
      BY DEF EmptyInbox, Inbox, NotAnInbox
    <2>3. BesideGit(l) \in
             IF HasObjects(l.all) /\ l.all.master
             THEN {Inbox("V2 (combined)", "all"), Inbox("V1", "all")}
             ELSE {Inbox("V2 (incomplete)", "all"), Inbox("V1 (empty)", "all"), NotAnInbox}
      BY <1>1 DEF BesideGit
    <2>4. CASE l.all = Cloned
      <3>1. IsGitRepo(l.all) /\ HasObjects(l.all) /\ l.all.master /\ l.all.opens
        BY <1>1, <2>4, Stages
      <3>5. BesideGit(l) \in {Inbox("V2 (combined)", "all"), Inbox("V1", "all")}
        BY <2>3, <3>1
      <3>6. BesideGit(l) # NotAnInbox
        <4>1. BesideGit(l).dir = "all" /\ NotAnInbox.dir = "none"
          BY <3>5, InboxFields DEF NotAnInbox
        <4> QED
          BY <4>1
      <3>2. DetectInbox(l) \in {Inbox("V2 (combined)", "all"), Inbox("V1", "all")}
        BY <2>1, <3>1, <3>5, <3>6
      <3>3. /\ DetectInbox(l).dir = "all"
            /\ DetectInbox(l).version \in {"V2 (combined)", "V1"}
        BY <3>2, InboxFields
      <3>4. Walked(l) = {l.all}
        BY <1>4, <3>3 DEF Walked
      <3> QED
        BY <1>5, <2>4, <3>1, <3>3, <3>4 DEF IsOffered, CanBeArchived
    <2>5. CASE l.all # Cloned
      <3>1. ~(IsGitRepo(l.all) /\ HasObjects(l.all) /\ l.all.master)
        BY <1>1, <2>5, Stages
      <3>2. IsGitRepo(l.all) => BesideGit(l).version \in {"V2 (incomplete)", "V1 (empty)", "none"}
        <4>1. ASSUME IsGitRepo(l.all)
              PROVE  BesideGit(l) \in {Inbox("V2 (incomplete)", "all"),
                                       Inbox("V1 (empty)", "all"), NotAnInbox}
          BY <2>3, <3>1, <4>1
        <4> QED
          BY <4>1, InboxFields DEF NotAnInbox
      <3>3. ~IsOffered(l)
        BY <2>1, <2>2, <3>2 DEF IsOffered
      <3> QED
        BY <1>2, <1>5, <2>5, <3>3
    <2> QED
      BY <2>4, <2>5
  <1>6. CASE ~l.git
    <2>1. DetectInbox(l) = WithoutGit(l)
      BY <1>6 DEF DetectInbox
    <2>2. /\ IsGitRepo(l.all) /\ l.all.master <=> l.all = Cloned
          /\ IsGitRepo(l.self) /\ l.self.master <=> l.self = Cloned
      BY <1>1, Stages
    <2>3. Cloned.opens /\ Cloned.master
      BY DEF Cloned, Repository
    <2>4. CASE l.all = Cloned
      <3>1. DetectInbox(l).dir = "all" /\ DetectInbox(l).version = "V1"
        <4>1. WithoutGit(l) = Inbox("V1", "all")
          BY <2>2, <2>4 DEF WithoutGit
        <4> QED
          BY <2>1, <4>1, InboxFields
      <3>2. Walked(l) = {l.all}
        BY <1>4, <3>1 DEF Walked
      <3> QED
        BY <1>6, <2>3, <2>4, <3>1, <3>2 DEF IsOffered, CanBeArchived
    <2>5. CASE l.all # Cloned /\ l.self = Cloned
      <3>1. DetectInbox(l).dir = "self" /\ DetectInbox(l).version = "V1 (bare)"
        <4>1. WithoutGit(l) = Inbox("V1 (bare)", "self")
          BY <2>2, <2>5 DEF WithoutGit
        <4> QED
          BY <2>1, <4>1, InboxFields
      <3>2. Walked(l) = {l.self}
        BY <1>4, <3>1 DEF Walked
      <3> QED
        BY <1>6, <2>3, <2>5, <3>1, <3>2 DEF IsOffered, CanBeArchived
    <2>6. CASE l.all # Cloned /\ l.self # Cloned
      <3>1. DetectInbox(l).version \in {"V1 (empty)", "none"}
        <4>1. WithoutGit(l) \in {Inbox("V1 (empty)", "all"), Inbox("none", "none")}
          BY <2>2, <2>6 DEF WithoutGit, NotAnInbox
        <4> QED
          BY <2>1, <4>1, InboxFields
      <3> QED
        BY <1>6, <2>6, <3>1 DEF IsOffered
    <2> QED
      BY <2>4, <2>5, <2>6
  <1> QED
    BY <1>3, <1>5, <1>6

(* Whatever stages the repositories of a mirror are in, retrieve_lists     *)
(* offers it exactly when process_inbox can walk it (alternates that lead  *)
(* elsewhere and damaged V1 repositories aside).                           *)
THEOREM OfferedInboxesAreArchivable == Spec => []OfferedIsArchivable
  <1>1. IInv => OfferedIsArchivable
    <2> SUFFICES ASSUME IInv, NEW n \in ListNames PROVE OfferedRightly(disk[n])
      BY DEF OfferedIsArchivable
    <2>1. disk[n] \in InboxLayouts
      BY EnvironmentAssumption DEF IInv, TypeOK
    <2> QED
      BY <2>1, LayoutOffered
  <1> QED
    BY <1>1, Invariance, PTL
=============================================================================
