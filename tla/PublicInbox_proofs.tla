-------------------------- MODULE PublicInbox_proofs --------------------------
(***************************************************************************)
(* Proofs about PublicInbox, for any number and size of epochs, any commits*)
(* that cannot be read, and whatever arrives, is stopped and is resumed.   *)
(*                                                                         *)
(* Shape bounds positions by the sizes of epochs.  Core says that the next *)
(* number is higher than all numbers given out; Totals, Walk and FirstRun  *)
(* tie the counters of a call to the commits it listed; Numbered and       *)
(* Single say what the numbers in the archive tell about the commits.      *)
(***************************************************************************)
EXTENDS PublicInbox, FiniteSetTheorems, TLAPS

(* The least-number principle: every set of numbers has a least one. *)
LEMMA LeastExists ==
  ASSUME NEW T \in SUBSET Nat, T # {}
  PROVE  \E x \in T : \A y \in T : x <= y
  <1> DEFINE U == {0..x : x \in T}
             R == StrictSubsetOrdering(Nat)
  <1>1. IsWellFoundedOn(R, FiniteSubsetsOf(Nat))
    BY FS_StrictSubsetOrderingWellFounded
  <1>2. U \subseteq FiniteSubsetsOf(Nat) /\ U # {}
    <2>1. ASSUME NEW x \in T
          PROVE  0..x \in FiniteSubsetsOf(Nat)
      <3>1. IsFiniteSet(0..x) /\ 0..x \in SUBSET Nat
        BY FS_Interval
      <3> QED
        BY <3>1 DEF FiniteSubsetsOf
    <2> QED
      BY <2>1
  <1> HIDE DEF U, R
  <1>3. PICK u \in U : \A w \in U : <<w, u>> \notin R
    BY <1>1, <1>2, WFMin
  <1>4. PICK x \in T : u = 0..x
    BY <1>3 DEF U
  <1>5. ASSUME NEW y \in T, y < x
        PROVE  FALSE
    <2>1. 0..y \in U /\ 0..y \subseteq 0..x /\ x \in 0..x /\ x \notin 0..y
      BY <1>5 DEF U
    <2>2. <<0..y, 0..x>> \in R
      BY <1>5, <2>1 DEF R, StrictSubsetOrdering
    <2> QED
      BY <1>3, <1>4, <2>1, <2>2
  <1> QED
    BY <1>5

(* Counting the commits of epochs of given sizes. *)
Sizes == [Epochs -> 0..MaxCommits]

LEMMA Ranges ==
  /\ NumEpochs \in Nat \ {0} /\ MaxCommits \in Nat
  /\ \A e \in Epochs : e \in Nat \ {0} /\ e <= NumEpochs /\ e + 1 \in Nat
  /\ \A s \in Sizes : \A e \in Epochs : s[e] \in Nat /\ s[e] <= MaxCommits
  BY SizeAssumption DEF Sizes, Epochs

LEMMA CommitsFinite ==
  ASSUME NEW s
  PROVE  IsFiniteSet(CommitsOf(s))
  <1>1. IsFiniteSet(Epochs) /\ IsFiniteSet(1..MaxCommits)
    BY FS_Interval, SizeAssumption DEF Epochs
  <1>2. IsFiniteSet(Epochs \X (1..MaxCommits))
    BY <1>1, FS_Product
  <1>3. CommitsOf(s) \in SUBSET (Epochs \X (1..MaxCommits))
    BY DEF CommitsOf
  <1> QED
    BY <1>2, <1>3, FS_Subset

LEMMA CountSubset ==
  ASSUME NEW s, NEW e, NEW S, IsFiniteSet(S),
         {c \in CommitsOf(s) : c[1] < e} \subseteq S
  PROVE  NumBefore(s, e) \in Nat /\ NumBefore(s, e) <= Cardinality(S)
  <1>1. {c \in CommitsOf(s) : c[1] < e} \in SUBSET S
    OBVIOUS
  <1>2. /\ IsFiniteSet({c \in CommitsOf(s) : c[1] < e})
        /\ Cardinality({c \in CommitsOf(s) : c[1] < e}) <= Cardinality(S)
    BY <1>1, FS_Subset
  <1> QED
    BY <1>2, FS_CardinalityType DEF NumBefore

LEMMA CountType ==
  ASSUME NEW s, NEW e
  PROVE  /\ IsFiniteSet({c \in CommitsOf(s) : c[1] < e})
         /\ NumBefore(s, e) \in Nat
         /\ NumBefore(s, e) <= Cardinality(CommitsOf(s))
  <1>1. {c \in CommitsOf(s) : c[1] < e} \in SUBSET CommitsOf(s)
    OBVIOUS
  <1>2. IsFiniteSet({c \in CommitsOf(s) : c[1] < e})
    BY <1>1, CommitsFinite, FS_Subset
  <1> QED
    BY <1>1, <1>2, CommitsFinite, CountSubset

LEMMA CountNat ==
  ASSUME NEW s, NEW e
  PROVE  NumBefore(s, e) \in Nat
  BY CountType

LEMMA CountFirst ==
  ASSUME NEW s
  PROVE  NumBefore(s, 1) = 0
  <1>1. {c \in CommitsOf(s) : c[1] < 1} = {}
    BY SizeAssumption DEF CommitsOf, Epochs
  <1> QED
    BY <1>1, FS_EmptySet DEF NumBefore

LEMMA CountAll ==
  ASSUME NEW s
  PROVE  NumBefore(s, NumEpochs + 1) = Cardinality(CommitsOf(s))
  <1>1. {c \in CommitsOf(s) : c[1] < NumEpochs + 1} = CommitsOf(s)
    BY SizeAssumption DEF CommitsOf, Epochs
  <1> QED
    BY <1>1 DEF NumBefore

(* More commits, or more epochs, count more. *)
LEMMA CountGrows ==
  ASSUME NEW s \in Sizes, NEW t \in Sizes, NEW e \in Nat, NEW f \in Nat, e <= f,
         \A g \in Epochs : g < e => s[g] <= t[g]
  PROVE  NumBefore(s, e) <= NumBefore(t, f)
  <1>1. {c \in CommitsOf(s) : c[1] < e} \subseteq {c \in CommitsOf(t) : c[1] < f}
    <2> SUFFICES ASSUME NEW c \in CommitsOf(s), c[1] < e
                 PROVE  c \in CommitsOf(t) /\ c[1] < f
      OBVIOUS
    <2>1. /\ c \in Epochs \X (1..MaxCommits) /\ c[2] <= s[c[1]]
          /\ c[1] \in Epochs /\ c[1] \in Nat /\ c[2] \in Nat
      BY SizeAssumption DEF CommitsOf, Epochs
    <2>2. s[c[1]] \in Nat /\ t[c[1]] \in Nat /\ s[c[1]] <= t[c[1]]
      BY <2>1, SizeAssumption DEF Sizes
    <2>3. c[2] <= t[c[1]] /\ c[1] < f
      BY <2>1, <2>2
    <2> QED
      BY <2>1, <2>3 DEF CommitsOf
  <1>2. /\ IsFiniteSet({c \in CommitsOf(t) : c[1] < f})
        /\ NumBefore(t, f) = Cardinality({c \in CommitsOf(t) : c[1] < f})
    BY CountType DEF NumBefore
  <1> QED
    BY <1>1, <1>2, CountSubset

LEMMA CountSame ==
  ASSUME NEW s \in Sizes, NEW t \in Sizes, NEW e \in Nat,
         \A g \in Epochs : g < e => s[g] = t[g]
  PROVE  NumBefore(s, e) = NumBefore(t, e)
  <1>1. \A g \in Epochs : g < e => s[g] <= t[g] /\ t[g] <= s[g]
    BY Ranges
  <1>2. NumBefore(s, e) <= NumBefore(t, e)
    BY <1>1, CountGrows
  <1>3. NumBefore(t, e) <= NumBefore(s, e)
    BY <1>1, CountGrows
  <1>4. NumBefore(s, e) \in Nat /\ NumBefore(t, e) \in Nat
    BY CountNat
  <1> QED
    BY <1>2, <1>3, <1>4

(* The commits of one epoch. *)
LEMMA CountStep ==
  ASSUME NEW s \in Sizes, NEW e \in Epochs
  PROVE  NumBefore(s, e + 1) = NumBefore(s, e) + s[e]
  <1> DEFINE A == {c \in CommitsOf(s) : c[1] < e}
             B == {e} \X (1..s[e])
  <1>0. e \in Nat /\ s[e] \in 0..MaxCommits /\ s[e] \in Nat /\ MaxCommits \in Nat
    BY SizeAssumption DEF Sizes, Epochs
  <1>1. {c \in CommitsOf(s) : c[1] < e + 1} = A \cup B
    <2>1. ASSUME NEW c \in CommitsOf(s), c[1] < e + 1
          PROVE  c \in A \cup B
      <3>1. c \in Epochs \X (1..MaxCommits) /\ c[2] <= s[c[1]]
        BY DEF CommitsOf
      <3>2. c[1] \in Epochs /\ c[2] \in 1..MaxCommits /\ c = <<c[1], c[2]>>
        BY <3>1
      <3>3. c[1] \in Nat
        BY <3>2, Ranges
      <3>4. c[1] < e \/ c[1] = e
        BY <1>0, <2>1, <3>3
      <3>5. c[1] = e => c[2] \in 1..s[e]
        BY <1>0, <3>1, <3>2
      <3> QED
        BY <3>2, <3>4, <3>5
    <2>2. ASSUME NEW c \in B
          PROVE  c \in CommitsOf(s) /\ c[1] < e + 1
      <3>1. PICK n \in 1..s[e] : c = <<e, n>>
        OBVIOUS
      <3> QED
        BY <1>0, <3>1 DEF CommitsOf
    <2>3. \A c \in A : c \in CommitsOf(s) /\ c[1] < e + 1
      BY <1>0, SizeAssumption DEF CommitsOf, Epochs
    <2> QED
      BY <2>1, <2>2, <2>3
  <1>2. IsFiniteSet(B) /\ Cardinality(B) = s[e]
    <2>1. /\ IsFiniteSet({e}) /\ Cardinality({e}) = 1
      BY FS_Singleton
    <2>2. IsFiniteSet(1..s[e]) /\ Cardinality(1..s[e]) = s[e]
      <3>1. 1 \in Int /\ s[e] \in Int
        BY <1>0
      <3>2. /\ IsFiniteSet(1..s[e])
            /\ Cardinality(1..s[e]) = IF 1 > s[e] THEN 0 ELSE s[e] - 1 + 1
        BY <3>1, FS_Interval, Zenon
      <3> QED
        BY <1>0, <3>2
    <2>3. IsFiniteSet(B) /\ Cardinality(B) = Cardinality({e}) * Cardinality(1..s[e])
      BY <2>1, <2>2, FS_Product
    <2> QED
      BY <1>0, <2>1, <2>2, <2>3
  <1>3. IsFiniteSet(A) /\ Cardinality(A) = NumBefore(s, e)
    BY CountType DEF NumBefore
  <1>4. A \cap B = {}
    BY <1>0
  <1>5. Cardinality(A \cup B) = Cardinality(A) + Cardinality(B) - Cardinality(A \cap B)
    BY <1>2, <1>3, FS_Union
  <1>6. Cardinality(A \cap B) = 0
    BY <1>4, FS_EmptySet
  <1>7. NumBefore(s, e + 1) = Cardinality(A \cup B)
    BY <1>1 DEF NumBefore
  <1> HIDE DEF A, B
  <1> QED
    BY <1>0, <1>2, <1>3, <1>5, <1>6, <1>7, CountType

(* The number of a commit, counted as process_inbox does. *)
NumberOf(s, e, n) == NumBefore(s, e) + s[e] - n + 1

LEMMA NumberBounds ==
  ASSUME NEW s \in Sizes, NEW e \in Epochs, NEW n \in 1..s[e]
  PROVE  /\ NumberOf(s, e, n) \in Nat
         /\ NumBefore(s, e) < NumberOf(s, e, n)
         /\ NumberOf(s, e, n) <= NumBefore(s, e + 1)
  <1>1. NumBefore(s, e) \in Nat
    BY CountType
  <1>2. s[e] \in Nat /\ n \in Nat /\ 1 <= n /\ n <= s[e]
    BY Ranges
  <1>3. NumBefore(s, e + 1) = NumBefore(s, e) + s[e]
    BY CountStep
  <1> QED
    BY <1>1, <1>2, <1>3 DEF NumberOf

LEMMA NumberNamesOne ==
  ASSUME NEW s \in Sizes,
         NEW e \in Epochs, NEW n \in 1..s[e],
         NEW f \in Epochs, NEW m \in 1..s[f],
         NumberOf(s, e, n) = NumberOf(s, f, m)
  PROVE  e = f /\ n = m
  <1>1. /\ e \in Nat /\ f \in Nat /\ e + 1 \in Nat /\ f + 1 \in Nat
        /\ s[e] \in Nat /\ s[f] \in Nat /\ n \in Nat /\ m \in Nat
        /\ \A g \in Epochs : s[g] <= s[g]
    BY Ranges
  <1>5. /\ NumBefore(s, e) \in Nat /\ NumBefore(s, e + 1) \in Nat
        /\ NumBefore(s, f) \in Nat /\ NumBefore(s, f + 1) \in Nat
    BY CountNat
  <1>6. /\ NumberOf(s, e, n) \in Nat /\ NumberOf(s, f, m) \in Nat
        /\ NumBefore(s, e) < NumberOf(s, e, n)
        /\ NumberOf(s, e, n) <= NumBefore(s, e + 1)
        /\ NumBefore(s, f) < NumberOf(s, f, m)
        /\ NumberOf(s, f, m) <= NumBefore(s, f + 1)
    BY NumberBounds
  <1>2. ~(e < f)
    <2> SUFFICES ASSUME e < f
                 PROVE  FALSE
      OBVIOUS
    <2>1. NumBefore(s, e + 1) <= NumBefore(s, f)
      BY <1>1, CountGrows
    <2> QED
      BY <1>5, <1>6, <2>1
  <1>3. ~(f < e)
    <2> SUFFICES ASSUME f < e
                 PROVE  FALSE
      OBVIOUS
    <2>1. NumBefore(s, f + 1) <= NumBefore(s, e)
      BY <1>1, CountGrows
    <2> QED
      BY <1>5, <1>6, <2>1
  <1>4. e = f
    BY <1>1, <1>2, <1>3
  <1>7. NumBefore(s, e) + s[e] - n + 1 = NumBefore(s, e) + s[e] - m + 1
    BY <1>4 DEF NumberOf
  <1> QED
    BY <1>1, <1>4, <1>5, <1>7

(* read_email_by_index finds a commit at every index up to the number of   *)
(* commits, and only the one that process_inbox gives the number.          *)
LEMMA LocatedIs ==
  ASSUME size \in Sizes, NEW k \in Nat \ {0}, k <= CommitsBefore(NumEpochs + 1)
  PROVE  /\ Located(k) \in CommitsOf(size)
         /\ k = NumberOf(size, Located(k)[1], Located(k)[2])
  <1> DEFINE T == {e \in Epochs : k <= NumBefore(size, e + 1)}
  <1>0. NumEpochs \in Nat \ {0} /\ Epochs \subseteq Nat /\ NumEpochs \in Epochs
        /\ MaxCommits \in Nat
    BY SizeAssumption DEF Epochs
  <1>1. NumEpochs \in T /\ T \in SUBSET Nat
    BY <1>0 DEF CommitsBefore
  <1>2. PICK e \in T : \A f \in T : e <= f
    BY <1>1, LeastExists
  <1>3. e \in Epochs /\ e \in Nat /\ k <= NumBefore(size, e + 1)
    BY <1>0, <1>2
  <1>4. NumBefore(size, e) < k
    <2>1. CASE e = 1
      BY <2>1, CountFirst
    <2>2. CASE e # 1
      <3>1. e - 1 \in Epochs /\ (e - 1) + 1 = e
        BY <1>0, <1>3, <2>2 DEF Epochs
      <3>2. e - 1 \notin T
        BY <1>2, <1>3
      <3>3. NumBefore(size, (e - 1) + 1) \in Nat
        BY CountNat
      <3> QED
        BY <3>1, <3>2, <3>3
    <2> QED
      BY <2>1, <2>2
  <1>5. NumBefore(size, e + 1) = NumBefore(size, e) + size[e]
    BY <1>3, CountStep
  <1>6. size[e] \in 0..MaxCommits /\ NumBefore(size, e) \in Nat
    BY <1>3, CountType DEF Sizes
  <1> DEFINE n == NumBefore(size, e) + size[e] - k + 1
             at == <<e, n>>
  <1>7. n \in 1..size[e] /\ n \in 1..MaxCommits
    BY <1>0, <1>3, <1>4, <1>5, <1>6
  <1>8. at \in CommitsOf(size) /\ k = CommitsBefore(at[1]) + size[at[1]] - at[2] + 1
    BY <1>3, <1>6, <1>7 DEF CommitsOf, CommitsBefore
  <1> HIDE DEF at, n
  <1>9. \E c \in CommitsOf(size) : k = CommitsBefore(c[1]) + size[c[1]] - c[2] + 1
    BY <1>8
  <1>10. /\ Located(k) \in CommitsOf(size)
         /\ k = CommitsBefore(Located(k)[1]) + size[Located(k)[1]]
                   - Located(k)[2] + 1
    BY <1>9 DEF Located
  <1> QED
    BY <1>10 DEF NumberOf, CommitsBefore
-----------------------------------------------------------------------------
(* The shape of the state: its types, and what bounds a position in the    *)
(* history of an epoch.                                                    *)
EpochOf(a) == IF IsV1 THEN 1 ELSE a.epoch
Stored(a) == (a.epoch = 0 => IsV1) /\ a.commit <= size[EpochOf(a)]
Working == pc \in {"epoch", "walk"}

Ground ==
  /\ format \in Formats /\ size \in Sizes
  /\ bad \subseteq CommitsOf(size)
  /\ IsV1 => \A e \in Epochs : e > 1 => size[e] = 0
Disk ==
  /\ progress \in EmailId \cup {None} /\ archived \subseteq EmailId
  /\ errors \subseteq bad
  /\ progress # None => Stored(progress)
  /\ progress = None => archived = {}
  /\ \A a \in archived : Stored(a)
Placed ==
  /\ seen \in Sizes /\ \A e \in Epochs : seen[e] <= size[e]
  /\ pc = "epoch" => skip = 0 \/ (epoch \in Epochs /\ skip <= size[epoch])
  /\ pc = "walk" => epoch \in Epochs /\ pos <= seen[epoch]
  /\ last > 0 => size[last] > 0
Counters ==
  /\ pc \in {"idle", "epoch", "walk", "dead"}
  /\ epoch \in 1..(NumEpochs + 1) /\ last \in 0..NumEpochs
  /\ global \in Nat /\ total \in Nat /\ skip \in Nat /\ resume \in Nat
  /\ before \in Nat /\ new \in Nat /\ pos \in Nat
  /\ counted \in Nat /\ handled \in Nat
  /\ shutdown \in BOOLEAN /\ stops \in 0..Stops /\ fetches \in 0..Fetches
  /\ runs \in 0..Runs /\ fresh \in BOOLEAN
  /\ outcome \in {"none", "complete", "stopped"}
  /\ Working => outcome = "none"

Shape == Ground /\ Disk /\ Placed /\ Counters

LEMMA ShapeTypes ==
  Shape => TypeOK
  <1> SUFFICES ASSUME Shape
               PROVE  TypeOK
    OBVIOUS
  <1>1. errors \subseteq Epochs \X Nat
    BY DEF Shape, Ground, Disk, CommitsOf
  <1> QED
    BY <1>1 DEF Shape, Ground, Disk, Placed, Counters, TypeOK, Sizes

LEMMA ShapeInit ==
  Init => Shape
  <1> SUFFICES ASSUME Init
               PROVE  Shape
    OBVIOUS
  <1>1. Ground
    <2>1. size \in Sizes
      BY DEF Init, Sizes
    <2>2. ASSUME IsV1, NEW e \in Epochs, e > 1
          PROVE  size[e] = 0
      <3>1. e \in 2..NumEpochs /\ size[e] \in Nat
        BY <2>1, <2>2, Ranges
      <3> QED
        BY <2>2, <3>1 DEF Init
    <2> QED
      BY <2>1, <2>2 DEF Init, Ground
  <1>2. Disk
    BY DEF Init, Disk
  <1>3. Placed
    <2>1. seen \in Sizes /\ \A e \in Epochs : seen[e] = 0
      BY SizeAssumption DEF Init, Sizes
    <2> QED
      BY <1>1, <2>1, Ranges DEF Init, Placed, Ground
  <1>4. Counters
    <2>1. /\ pc = "idle" /\ epoch = 1 /\ last = 0 /\ global = 0 /\ total = 0
          /\ skip = 0 /\ resume = 0 /\ before = 0 /\ new = 0 /\ pos = 0
          /\ counted = 0 /\ handled = 0 /\ shutdown = FALSE /\ stops = 0
          /\ fetches = 0 /\ runs = 0 /\ fresh = FALSE /\ outcome = "none"
      BY DEF Init
    <2>2. 0 \in 0..Stops /\ 0 \in 0..Fetches /\ 0 \in 0..Runs
      BY BoundAssumption
    <2>3. 1 \in 1..(NumEpochs + 1) /\ 0 \in 0..NumEpochs /\ 0 \in Nat
      BY SizeAssumption
    <2> QED
      BY <2>1, <2>2, <2>3, Zenon DEF Counters, Working
  <1> QED
    BY <1>1, <1>2, <1>3, <1>4 DEF Shape

(* An email arrives only while the inbox has fewer than MaxCommits. *)
LEMMA CommitGrows ==
  ASSUME Ground, NEW e \in Epochs, Commit(e)
  PROVE  /\ Ground'
         /\ \A g \in Epochs : size[g] <= size'[g]
         /\ bad \subseteq bad' /\ format' = format
  <1>1. size \in Sizes /\ NumEpochs + 1 \in Nat /\ MaxCommits \in Nat
    BY Ranges DEF Ground
  <1>2. e \in Nat /\ e + 1 \in Nat /\ e + 1 <= NumEpochs + 1 /\ size[e] \in Nat
    BY <1>1, Ranges
  <1>3. size[e] < MaxCommits
    <2>1. NumBefore(size, e + 1) = NumBefore(size, e) + size[e]
      BY <1>1, CountStep
    <2>2. \A g \in Epochs : g < e + 1 => size[g] <= size[g]
      BY <1>1, Ranges
    <2>3. NumBefore(size, e + 1) <= NumBefore(size, NumEpochs + 1)
      BY <1>1, <1>2, <2>2, CountGrows
    <2>4. NumBefore(size, NumEpochs + 1) < MaxCommits
      BY DEF Commit, CommitsBefore
    <2>5. /\ NumBefore(size, e) \in Nat /\ NumBefore(size, e + 1) \in Nat
          /\ NumBefore(size, NumEpochs + 1) \in Nat
      BY CountNat
    <2> QED
      BY <1>1, <1>2, <2>1, <2>3, <2>4, <2>5
  <1>4. /\ size' = [size EXCEPT ![e] = size[e] + 1] /\ format' = format
        /\ bad' \subseteq bad \cup {<<e, size[e] + 1>>} /\ bad \subseteq bad'
    BY DEF Commit
  <1>5. size' \in Sizes
    BY <1>1, <1>2, <1>3, <1>4 DEF Sizes
  <1>6. \A g \in Epochs : size'[g] = IF g = e THEN size[e] + 1 ELSE size[g]
    BY <1>1, <1>4 DEF Sizes
  <1>7. \A g \in Epochs : size[g] <= size'[g]
    BY <1>1, <1>2, <1>6, Ranges
  <1>8. bad' \subseteq CommitsOf(size')
    <2>1. <<e, size[e] + 1>> \in CommitsOf(size')
      BY <1>1, <1>2, <1>3, <1>6 DEF CommitsOf
    <2>2. ASSUME NEW c \in CommitsOf(size)
          PROVE  c \in CommitsOf(size')
      <3>1. c \in Epochs \X (1..MaxCommits) /\ c[2] <= size[c[1]]
        BY DEF CommitsOf
      <3>2. c[1] \in Epochs /\ c[2] \in Nat
        BY <3>1
      <3>3. c[2] <= size'[c[1]]
        BY <1>1, <1>5, <1>7, <3>1, <3>2, Ranges
      <3> QED
        BY <3>1, <3>3 DEF CommitsOf
    <2> QED
      BY <1>4, <2>1, <2>2 DEF Ground
  <1>9. IsV1 => \A g \in Epochs : g > 1 => size'[g] = 0
    <2> SUFFICES ASSUME IsV1, NEW g \in Epochs, g > 1
                 PROVE  size'[g] = 0
      OBVIOUS
    <2>1. IsNewest(e)
      BY DEF Commit
    <2>2. e # g
      BY <1>2, <2>1 DEF IsNewest, Ground
    <2> QED
      BY <1>6, <2>2 DEF Ground
  <1> QED
    BY <1>4, <1>5, <1>7, <1>8, <1>9 DEF Ground, IsV1

LEMMA GroundStep ==
  ASSUME Shape, [Next]_vars
  PROVE  /\ Ground'
         /\ \A g \in Epochs : size[g] <= size'[g]
         /\ bad \subseteq bad' /\ format' = format
  <1>1. (\E e \in Epochs : Commit(e)) \/ UNCHANGED inboxData
    BY DEF Next, vars, RequestShutdown, Restart, BeginFresh,
           BeginResume, BeginPanics, Begin, EndInbox, StopInbox, Return,
           SkipEpoch, StartEpoch, StopWalk, ReachResume, SkipOld, ArchiveCommit,
           LogBadCommit, HandleCommit, Walking, EndEpoch, EndEpochAfter,
           FetchByIndex
  <1>2. CASE \E e \in Epochs : Commit(e)
    BY <1>2, CommitGrows DEF Shape
  <1>3. CASE UNCHANGED inboxData
    <2>1. \A g \in Epochs : size[g] \in Nat
      BY Ranges DEF Shape, Ground
    <2> QED
      BY <1>3, <2>1 DEF Shape, Ground, inboxData, IsV1
  <1> QED
    BY <1>1, <1>2, <1>3

(* What is stored stays a commit of the inbox. *)
LEMMA StoredStays ==
  ASSUME Shape, [Next]_vars
  PROVE  /\ \A a \in EmailId : Stored(a) =>
              /\ a.epoch = 0 => IsV1'
              /\ a.commit <= size'[IF IsV1' THEN 1 ELSE a.epoch]
         /\ \A a \in EmailId : Stored(a) => EpochOf(a) \in Epochs
  <1>1. \A g \in Epochs : size[g] <= size'[g] /\ size[g] \in Nat /\ size'[g] \in Nat
    BY GroundStep, Ranges DEF Ground, Shape
  <1>2. IsV1' <=> IsV1
    BY GroundStep DEF IsV1
  <1>3. ASSUME NEW a \in EmailId, Stored(a)
        PROVE  /\ EpochOf(a) \in Epochs
               /\ EpochOf(a) = IF IsV1' THEN 1 ELSE a.epoch
               /\ a.commit \in Nat
    BY <1>2, <1>3, SizeAssumption DEF EpochOf, Stored, EmailId, Epochs
  <1>4. ASSUME NEW a \in EmailId, Stored(a)
        PROVE  /\ a.epoch = 0 => IsV1'
               /\ a.commit <= size'[IF IsV1' THEN 1 ELSE a.epoch]
    <2>1. a.commit <= size[EpochOf(a)] /\ (a.epoch = 0 => IsV1')
      BY <1>2, <1>4 DEF Stored
    <2> QED
      BY <1>1, <1>3, <1>4, <2>1
  <1> QED
    BY <1>3, <1>4

(* The email that is archived at position pos of a walk. *)
LEMMA ArchivedIs ==
  ASSUME Shape, ArchiveCommit
  PROVE  /\ progress' \in EmailId /\ progress' # None
         /\ progress'.num = global + handled + 1
         /\ progress'.epoch = EpochName(epoch) /\ progress'.commit = pos
         /\ archived' = archived \cup {progress'}
         /\ pos \in 1..seen[epoch] /\ epoch \in Epochs
         /\ IsV1 => epoch = 1
  <1>1. pc = "walk" /\ pos > 0 /\ pos \in Nat /\ epoch \in Epochs /\ pos <= seen[epoch]
    BY DEF ArchiveCommit, HandleCommit, Walking, Shape, Placed, Counters
  <1>2. seen[epoch] \in Nat /\ size[epoch] \in Nat /\ seen[epoch] <= size[epoch]
        /\ epoch \in Nat \ {0} /\ epoch <= NumEpochs
    BY <1>1, Ranges DEF Shape, Placed, Ground
  <1>3. IsV1 => epoch = 1
    BY <1>1, <1>2 DEF Shape, Ground
  <1>4. EpochName(epoch) \in 0..NumEpochs
    BY <1>2, Ranges DEF EpochName
  <1>5. global + handled + 1 \in Nat \ {0}
    BY DEF Shape, Counters
  <1>6. progress' = [num |-> global + handled + 1, epoch |-> EpochName(epoch),
                     commit |-> pos]
    BY DEF ArchiveCommit
  <1>7. progress' \in EmailId
    BY <1>1, <1>4, <1>5, <1>6 DEF EmailId
  <1> QED
    BY <1>1, <1>2, <1>3, <1>6, <1>7, NoneAssumption DEF ArchiveCommit

(* The email that is fetched by index k. *)
LEMMA FetchedIs ==
  ASSUME Ground, NEW k \in 1..MaxCommits, FetchByIndex(k)
  PROVE  /\ progress' \in EmailId /\ progress' # None
         /\ progress'.num = k
         /\ <<progress'.epoch, progress'.commit>> \in CommitsOf(size)
         /\ k = NumberOf(size, progress'.epoch, progress'.commit)
         /\ archived' = archived \cup {progress'}
         /\ progress'.epoch \in Epochs /\ progress'.commit \in 1..size[progress'.epoch]
         /\ IsV1 => progress'.epoch = 1
  <1>1. k \in Nat \ {0} /\ size \in Sizes
    BY DEF Ground
  <1>2. /\ Located(k) \in CommitsOf(size)
        /\ k = NumberOf(size, Located(k)[1], Located(k)[2])
    BY <1>1, LocatedIs DEF FetchByIndex
  <1>3. /\ Located(k)[1] \in Epochs /\ Located(k)[2] \in 1..MaxCommits
        /\ Located(k)[2] <= size[Located(k)[1]]
        /\ Located(k) = <<Located(k)[1], Located(k)[2]>>
    BY <1>2 DEF CommitsOf
  <1>4. /\ progress' = [num |-> k, epoch |-> Located(k)[1], commit |-> Located(k)[2]]
        /\ archived' = archived \cup {progress'}
    BY DEF FetchByIndex
  <1>5. progress' \in EmailId
    BY <1>1, <1>3, <1>4, Ranges DEF EmailId
  <1>6. IsV1 => Located(k)[1] = 1
    BY <1>1, <1>3, Ranges DEF Ground
  <1>7. Located(k)[2] \in 1..size[Located(k)[1]]
    BY <1>1, <1>3, Ranges
  <1> QED
    BY <1>2, <1>3, <1>4, <1>5, <1>6, <1>7, NoneAssumption

LEMMA DiskStep ==
  ASSUME Shape, [Next]_vars
  PROVE  Disk'
  <1> DEFINE Fits(a) == /\ a.epoch = 0 => IsV1'
                        /\ a.commit <= size'[IF IsV1' THEN 1 ELSE a.epoch]
  <1>1. /\ progress # None => Fits(progress)
        /\ \A a \in archived : Fits(a)
        /\ errors \subseteq bad'
    BY StoredStays, GroundStep DEF Shape, Disk
  <1>2. IsV1' <=> IsV1
    BY GroundStep DEF IsV1
  <1>3. ASSUME UNCHANGED errors, progress' \in EmailId, progress' # None,
               archived' = archived \cup {progress'}, Fits(progress')
        PROVE  Disk'
    BY <1>1, <1>3 DEF Shape, Disk, Stored, EpochOf
  <1>4. CASE UNCHANGED diskVars
    BY <1>1, <1>4 DEF Shape, Disk, Stored, EpochOf, diskVars
  <1>5. CASE ArchiveCommit
    <2>1. seen[epoch] \in Nat /\ size[epoch] \in Nat /\ size'[epoch] \in Nat
          /\ seen[epoch] <= size[epoch] /\ size[epoch] <= size'[epoch]
      BY <1>5, ArchivedIs, GroundStep, Ranges DEF Shape, Ground, Placed
    <2>2. /\ progress'.epoch = IF IsV1 THEN 0 ELSE epoch
          /\ progress'.commit = pos /\ pos \in 1..seen[epoch]
          /\ epoch # 0 /\ (IsV1 => epoch = 1)
      BY <1>5, ArchivedIs, Ranges DEF EpochName
    <2>3. Fits(progress')
      BY <1>2, <2>1, <2>2
    <2> QED
      BY <1>3, <1>5, <2>3, ArchivedIs DEF ArchiveCommit
  <1>6. CASE LogBadCommit
    <2>1. errors' \subseteq bad'
      BY <1>1, <1>6, GroundStep DEF LogBadCommit
    <2> QED
      BY <1>1, <1>6, <2>1 DEF LogBadCommit, Shape, Disk, Stored, EpochOf
  <1>7. ASSUME NEW k \in 1..MaxCommits, FetchByIndex(k)
        PROVE  Disk'
    <2>1. Ground
      BY DEF Shape
    <2>2. size' = size
      BY <1>7 DEF FetchByIndex, inboxData
    <2>3. size[progress'.epoch] \in Nat /\ progress'.epoch # 0
      BY <1>7, <2>1, FetchedIs, Ranges DEF Ground
    <2>4. Fits(progress')
      BY <1>2, <1>7, <2>1, <2>2, <2>3, FetchedIs
    <2> QED
      BY <1>3, <1>7, <2>1, <2>4, FetchedIs DEF FetchByIndex
  <1>8. \/ UNCHANGED diskVars \/ ArchiveCommit \/ LogBadCommit
        \/ \E k \in 1..MaxCommits : FetchByIndex(k)
    BY DEF Next, vars, Commit, RequestShutdown, Restart, BeginFresh,
           BeginResume, BeginPanics, Begin, EndInbox, StopInbox, Return,
           SkipEpoch, StartEpoch, StopWalk, ReachResume, SkipOld, Walking,
           EndEpoch, EndEpochAfter, diskVars
  <1> QED
    BY <1>4, <1>5, <1>6, <1>7, <1>8

(* The steps that move no epoch and count nothing. *)
LEMMA PlacedStays ==
  ASSUME Shape, [Next]_vars, UNCHANGED <<seen, last>>,
         pc' = "epoch" => \/ skip' = 0
                          \/ pc = "epoch" /\ UNCHANGED <<epoch, skip>>,
         pc' = "walk" => pc = "walk" /\ epoch' = epoch /\ pos' \in Nat /\ pos' <= pos
  PROVE  Placed'
  <1>1. \A e \in Epochs : /\ seen[e] \in Nat /\ size[e] \in Nat /\ size'[e] \in Nat
                          /\ seen[e] <= size[e] /\ size[e] <= size'[e]
    BY GroundStep, Ranges DEF Shape, Ground, Placed
  <1>2. skip \in Nat /\ pos \in Nat /\ (last > 0 => last \in Epochs)
    BY SizeAssumption DEF Shape, Counters, Epochs
  <1>3. seen' \in Sizes /\ \A e \in Epochs : seen'[e] <= size'[e]
    BY <1>1 DEF Shape, Placed
  <1>4. pc' = "epoch" => skip' = 0 \/ (epoch' \in Epochs /\ skip' <= size'[epoch'])
    BY <1>1, <1>2 DEF Shape, Placed
  <1>5. pc' = "walk" => epoch' \in Epochs /\ pos' <= seen'[epoch']
    BY <1>1, <1>2 DEF Shape, Placed
  <1>6. last' > 0 => size'[last'] > 0
    BY <1>1, <1>2 DEF Shape, Placed
  <1> QED
    BY <1>3, <1>4, <1>5, <1>6 DEF Placed

(* A call begins: its epoch and its position in it are those of a commit.  *)
LEMMA BeginPlaces ==
  ASSUME Shape, [Next]_vars, Begin,
         pc' = "epoch" => \/ skip' = 0
                          \/ epoch' \in Epochs /\ skip' <= size[epoch'],
         pc' # "walk"
  PROVE  Placed' /\ last' \in Epochs /\ last' \in 0..NumEpochs
  <1>1. \A e \in Epochs : size[e] \in Nat
    BY Ranges DEF Shape, Ground
  <1>2. size' = size /\ seen' = [e \in Epochs |-> 0]
    BY DEF Begin, inboxData
  <1>3. last' \in Epochs /\ size[last'] > 0
    BY DEF Begin, IsNewest
  <1>4. seen' \in Sizes /\ \A e \in Epochs : seen'[e] <= size'[e]
    BY <1>1, <1>2, SizeAssumption DEF Sizes
  <1> QED
    BY <1>2, <1>3, <1>4, Ranges DEF Placed, Epochs

(* The email a run resumes behind. *)
LEMMA ResumeIs ==
  ASSUME Shape, BeginResume
  PROVE  /\ epoch' \in Epochs /\ epoch' = EpochOf(progress)
         /\ skip' = progress.commit /\ skip' \in Nat \ {0} /\ skip' <= size[epoch']
         /\ global' = progress.num /\ global' \in Nat \ {0}
         /\ total' = NumBefore(size, epoch') /\ total' \in Nat
  <1>1. progress \in EmailId /\ Stored(progress)
    BY DEF BeginResume, Shape, Disk
  <1>2. epoch' = EpochOf(progress)
    BY DEF BeginResume, EpochOf
  <1>3. epoch' \in Epochs
    BY <1>1, <1>2, SizeAssumption DEF Stored, EpochOf, EmailId, Epochs
  <1>4. total' = NumBefore(size, epoch') /\ total' \in Nat
    BY CountNat DEF BeginResume, CommitsBefore
  <1> QED
    BY <1>1, <1>2, <1>3, <1>4 DEF BeginResume, Stored, EmailId

LEMMA BeginStep ==
  ASSUME Shape, [Next]_vars, BeginFresh \/ BeginResume \/ BeginPanics
  PROVE  Placed' /\ Counters'
  <1>1. Begin
    BY DEF BeginFresh, BeginResume, BeginPanics
  <1>2. /\ pc' = "epoch" => \/ skip' = 0
                            \/ epoch' \in Epochs /\ skip' <= size[epoch']
        /\ pc' # "walk"
    BY ResumeIs DEF BeginFresh, BeginResume, BeginPanics
  <1>3. Placed' /\ last' \in 0..NumEpochs
    BY <1>1, <1>2, BeginPlaces
  <1>4. /\ epoch' \in 1..(NumEpochs + 1) /\ global' \in Nat /\ total' \in Nat
        /\ skip' \in Nat /\ pc' \in {"epoch", "dead"}
    <2>1. CASE BeginFresh
      BY <2>1, SizeAssumption DEF BeginFresh
    <2>2. CASE BeginResume
      BY <2>2, ResumeIs, SizeAssumption DEF BeginResume, Epochs
    <2>3. CASE BeginPanics
      BY <2>3 DEF BeginPanics, Shape, Counters
    <2> QED
      BY <2>1, <2>2, <2>3
  <1>5. runs' \in 0..Runs
    BY <1>1, BoundAssumption DEF Begin, Shape, Counters
  <1>6. fresh' \in BOOLEAN /\ outcome' = "none"
    BY <1>1 DEF Begin
  <1>7. UNCHANGED <<resume, before, new, pos, counted, handled, shutdown, stops, fetches>>
    BY <1>1 DEF Begin, walkVars
  <1> QED
    BY <1>3, <1>4, <1>5, <1>6, <1>7 DEF Shape, Counters, Working

(* process_inbox comes to an epoch. *)
LEMMA EpochIs ==
  ASSUME Shape, AtEpoch
  PROVE  /\ epoch \in Epochs /\ size[epoch] \in Nat /\ size[epoch] <= MaxCommits
         /\ skip \in Nat /\ skip <= size[epoch]
         /\ seen' = [seen EXCEPT ![epoch] = size[epoch]]
         /\ total' \in Nat
  <1>1. epoch \in Epochs
    BY SizeAssumption DEF AtEpoch, Shape, Counters, Epochs
  <1>2. size[epoch] \in Nat /\ size[epoch] <= MaxCommits
    BY <1>1, Ranges DEF Shape, Ground
  <1>3. skip \in Nat /\ skip <= size[epoch]
    BY <1>2 DEF AtEpoch, Shape, Counters, Placed
  <1> QED
    BY <1>1, <1>2, <1>3 DEF AtEpoch, Shape, Counters

LEMMA EpochPlaces ==
  ASSUME Shape, AtEpoch, UNCHANGED <<size, last>>,
         \/ pc' = "epoch" /\ skip' = 0
         \/ pc' = "walk" /\ epoch' = epoch /\ pos' = size[epoch]
  PROVE  Placed'
  <1>1. \A e \in Epochs : seen'[e] = IF e = epoch THEN size[epoch] ELSE seen[e]
    BY EpochIs DEF Shape, Placed, Sizes
  <1>2. seen' \in Sizes
    <2>1. size[epoch] \in 0..MaxCommits
      BY EpochIs, Ranges
    <2> QED
      BY <2>1, EpochIs DEF Shape, Placed, Sizes
  <1>3. \A e \in Epochs : seen'[e] <= size[e]
    BY <1>1, EpochIs DEF Shape, Placed
  <1>4. pc' = "walk" => epoch' \in Epochs /\ pos' <= seen'[epoch']
    BY <1>1, EpochIs
  <1> QED
    BY <1>2, <1>3, <1>4 DEF Placed, Shape

LEMMA EpochStep ==
  ASSUME Shape, SkipEpoch \/ StartEpoch
  PROVE  Placed' /\ Counters'
  <1>1. AtEpoch /\ UNCHANGED <<size, last>> /\ outcome = "none"
    BY DEF SkipEpoch, StartEpoch, AtEpoch, inboxData, Shape, Counters, Working
  <1>2. Placed'
    <2>1. \/ pc' = "epoch" /\ skip' = 0
          \/ pc' = "walk" /\ epoch' = epoch /\ pos' = size[epoch]
      BY DEF SkipEpoch, StartEpoch, AtEpoch
    <2> QED
      BY <1>1, <2>1, EpochPlaces
  <1>3. epoch \in Epochs /\ total' \in Nat /\ size[epoch] \in Nat
        /\ skip \in Nat /\ skip <= size[epoch] /\ global \in Nat
    BY <1>1, EpochIs DEF Shape, Counters
  <1>4. CASE SkipEpoch
    <2>1. epoch' \in 1..(NumEpochs + 1)
      BY <1>3, <1>4, Ranges DEF SkipEpoch
    <2> QED
      BY <1>1, <1>2, <1>3, <1>4, <2>1
      DEF SkipEpoch, walkVars, envVars, Shape, Counters, Working
  <1>5. CASE StartEpoch
    <2>1. before' \in Nat
      BY <1>3, <1>5 DEF StartEpoch
    <2>2. OldNonResume(before') \in Nat
      BY <1>3, <2>1 DEF OldNonResume, Minus
    <2>3. new' \in Nat
      BY <1>3, <1>5, <2>1, <2>2 DEF StartEpoch, Minus
    <2>4. pos' \in Nat /\ resume' \in Nat /\ counted' = 0 /\ handled' = 0
      BY <1>3, <1>5 DEF StartEpoch
    <2> QED
      BY <1>1, <1>2, <1>3, <1>5, <2>1, <2>3, <2>4
      DEF StartEpoch, envVars, Shape, Counters, Working
  <1> QED
    BY <1>4, <1>5

LEMMA WalkStep ==
  ASSUME Shape, [Next]_vars,
         StopWalk \/ ReachResume \/ SkipOld \/ ArchiveCommit \/ LogBadCommit
  PROVE  Placed' /\ Counters'
  <1>1. Walking /\ pos \in Nat /\ counted \in Nat /\ handled \in Nat
    BY DEF StopWalk, ReachResume, SkipOld, ArchiveCommit, LogBadCommit,
           HandleCommit, Shape, Counters
  <1>2. /\ pos' \in Nat /\ pos' <= pos /\ counted' \in Nat /\ handled' \in Nat
    BY <1>1 DEF StopWalk, ReachResume, SkipOld, ArchiveCommit, LogBadCommit,
           HandleCommit, Walking
  <1>3. pc' = pc /\ pc = "walk" /\ UNCHANGED <<inboxVars, resume, before, new, envVars, callVars>>
    BY <1>1 DEF Walking
  <1>4. Placed'
    BY <1>2, <1>3, PlacedStays DEF inboxVars, callVars
  <1> QED
    BY <1>2, <1>3, <1>4 DEF inboxVars, envVars, callVars, Shape, Counters, Working

LEMMA OtherStep ==
  ASSUME Shape, [Next]_vars,
         \/ (\E e \in Epochs : Commit(e)) \/ UNCHANGED vars
         \/ RequestShutdown \/ Restart \/ EndInbox \/ StopInbox \/ EndEpoch
         \/ \E k \in 1..MaxCommits : FetchByIndex(k)
  PROVE  Placed' /\ Counters'
  <1> USE DEF inboxVars, walkVars, envVars, callVars
  <1>1. CASE (\E e \in Epochs : Commit(e)) \/ UNCHANGED vars
    <2>1. UNCHANGED <<pc, inboxVars, walkVars, envVars, callVars>>
      BY <1>1 DEF Commit, vars
    <2>2. pos \in Nat
      BY DEF Shape, Counters
    <2> QED
      BY <2>1, <2>2, PlacedStays DEF Shape, Counters, Working
  <1>2. CASE RequestShutdown
    <2>1. stops' \in 0..Stops
      BY <1>2, BoundAssumption DEF RequestShutdown, Shape, Counters
    <2>2. pos \in Nat
      BY DEF Shape, Counters
    <2> QED
      BY <1>2, <2>1, <2>2, PlacedStays DEF RequestShutdown, Shape, Counters, Working
  <1>3. CASE Restart
    BY <1>3, PlacedStays DEF Restart, Shape, Counters, Working
  <1>4. CASE EndInbox \/ StopInbox
    BY <1>4, PlacedStays DEF EndInbox, StopInbox, Return, Shape, Counters, Working
  <1>5. CASE EndEpoch
    <2>1. epoch' \in 1..(NumEpochs + 1)
      BY <1>5, Ranges DEF EndEpoch, EndEpochAfter, Shape, Placed
    <2>2. global' \in Nat
      BY <1>5 DEF EndEpoch, EndEpochAfter, Shape, Counters
    <2> QED
      BY <1>5, <2>1, <2>2, PlacedStays
      DEF EndEpoch, EndEpochAfter, Shape, Counters, Working
  <1>6. CASE \E k \in 1..MaxCommits : FetchByIndex(k)
    <2>1. fetches' \in 0..Fetches
      BY <1>6, BoundAssumption DEF FetchByIndex, Shape, Counters
    <2> QED
      BY <1>6, <2>1, PlacedStays DEF FetchByIndex, Shape, Counters, Working
  <1> QED
    BY <1>1, <1>2, <1>3, <1>4, <1>5, <1>6

LEMMA ShapeStep ==
  ASSUME Shape, [Next]_vars
  PROVE  Shape'
  <1>1. Ground' /\ Disk'
    BY GroundStep, DiskStep
  <1>2. Placed' /\ Counters'
    BY BeginStep, EpochStep, WalkStep, OtherStep DEF Next
  <1> QED
    BY <1>1, <1>2 DEF Shape

(* The state of the inbox, of its archive and of a call has its types, for *)
(* any number of epochs and commits: no counter of process_inbox and no    *)
(* saturating subtraction of it leaves the natural numbers.                *)
THEOREM InboxTypeCorrect == Spec => []TypeOK
  <1>1. Init => Shape
    BY ShapeInit
  <1>2. Shape /\ [Next]_vars => Shape'
    BY ShapeStep
  <1>3. Shape => TypeOK
    BY ShapeTypes
  <1> QED
    BY <1>1, <1>2, <1>3, PTL DEF Spec

-----------------------------------------------------------------------------
(* The types the numbers depend on, as long as nothing is fetched by index.*)
Typed ==
  /\ size \in [Epochs -> Nat]
  /\ progress \in EmailId \cup {None}
  /\ progress # None /\ ~IsV1 => progress.epoch # 0
  /\ archived \subseteq EmailId
  /\ epoch \in Nat \ {0} /\ last \in 0..NumEpochs
  /\ pc = "walk" => epoch \in Epochs
  /\ global \in Nat /\ counted \in Nat /\ handled \in Nat
  /\ pos \in Nat /\ fetches = 0

(* __progress.yaml has the highest number of the archive, and the numbers  *)
(* process_inbox is going to use are higher.                               *)
Highest == \A a \in archived : progress # None /\ a.num <= progress.num
Ahead ==
  progress # None =>
    /\ pc = "epoch" => progress.num <= global
    /\ pc = "walk" => progress.num <= global + handled
Counted == pc = "walk" => handled <= counted

Core == Typed /\ Highest /\ Ahead /\ Counted /\ NumbersUnique

LEMMA InitCore ==
  Init => Core
  BY SizeAssumption
  DEF Init, Core, Typed, Highest, Ahead, Counted, NumbersUnique, Epochs

(* The steps that leave what is on disk, and the numbers, alone. *)
LEMMA QuietKeeps ==
  ASSUME Core,
         UNCHANGED <<format, progress, archived, global, handled>>,
         size' \in [Epochs -> Nat],
         epoch' \in Nat \ {0}, last' \in 0..NumEpochs,
         counted' \in Nat, counted' >= counted, pos' \in Nat,
         UNCHANGED fetches,
         pc' = "walk" => pc = "walk" /\ epoch' = epoch,
         pc' = "epoch" => pc = "epoch"
  PROVE  Core'
  <1>1. Typed'
    BY DEF IsV1, Core, Typed
  <1>2. Highest' /\ NumbersUnique'
    BY DEF Core, Highest, NumbersUnique
  <1>3. Ahead' /\ Counted'
    BY DEF Core, Typed, Ahead, Counted
  <1> QED
    BY <1>1, <1>2, <1>3 DEF Core

(* Epochs that exist are in range. *)
LEMMA EpochInRange ==
  ASSUME Core, epoch <= last
  PROVE  epoch \in Epochs
  BY SizeAssumption DEF Core, Typed, Epochs

LEMMA ResumeKeeps ==
  ASSUME Core, BeginResume
  PROVE  Core'
  <1>1. progress \in EmailId /\ progress.num \in Nat
    BY DEF BeginResume, Core, Typed, EmailId
  <1>2. epoch' \in Nat \ {0}
    BY <1>1 DEF BeginResume, Core, Typed, EmailId
  <1>3. last' \in 0..NumEpochs
    BY SizeAssumption DEF BeginResume, Begin, Epochs
  <1>4. Typed'
    BY <1>1, <1>2, <1>3 DEF IsV1, BeginResume, Begin, inboxData, diskVars, walkVars, Core, Typed
  <1>5. Highest' /\ NumbersUnique'
    BY DEF BeginResume, Begin, inboxData, diskVars, Core, Highest, NumbersUnique
  <1>6. Ahead' /\ Counted'
    BY <1>1 DEF BeginResume, Begin, inboxData, diskVars, Ahead, Counted
  <1> QED
    BY <1>4, <1>5, <1>6 DEF Core

LEMMA ArchiveKeeps ==
  ASSUME Core, ArchiveCommit
  PROVE  Core'
  <1> USE DEF ArchiveCommit, HandleCommit, Walking, inboxData, inboxVars, envVars
  <1> DEFINE n == global + handled + 1
  <1>1. n \in Nat \ {0} /\ progress'.num = n
    BY DEF Core, Typed
  <1>2. EpochName(epoch) \in 0..NumEpochs /\ (~IsV1 => EpochName(epoch) # 0)
    BY SizeAssumption DEF Core, Typed, EpochName, Epochs
  <1>3. progress' \in EmailId /\ progress' # None
    BY <1>1, <1>2, NoneAssumption DEF Core, Typed, EmailId
  <1>4. progress'.epoch = EpochName(epoch)
    OBVIOUS
  <1>5. Typed'
    BY <1>2, <1>3, <1>4 DEF IsV1, Core, Typed
  <1>6. \A a \in archived : a.num \in Nat /\ a.num < n
    BY DEF Core, Typed, Highest, Ahead, EmailId
  <1>7. Highest'
    BY <1>1, <1>3, <1>6 DEF Highest
  <1>8. Ahead' /\ Counted'
    BY <1>1 DEF Core, Typed, Ahead, Counted
  <1>9. NumbersUnique'
    BY <1>1, <1>6 DEF Core, NumbersUnique
  <1> QED
    BY <1>5, <1>7, <1>8, <1>9 DEF Core

(* An email that cannot be read uses up its number. *)
LEMMA LogKeeps ==
  ASSUME Core, LogBadCommit
  PROVE  Core'
  <1> USE DEF LogBadCommit, HandleCommit, Walking, inboxData, inboxVars, envVars
  <1>1. Typed'
    BY DEF IsV1, Core, Typed
  <1>2. Highest' /\ NumbersUnique'
    BY DEF Core, Highest, NumbersUnique
  <1>3. progress # None => progress.num \in Nat
    BY DEF Core, Typed, EmailId
  <1>4. Ahead' /\ Counted'
    BY <1>3 DEF Core, Typed, Ahead, Counted
  <1> QED
    BY <1>1, <1>2, <1>4 DEF Core

LEMMA StartEpochKeeps ==
  ASSUME Core, StartEpoch
  PROVE  Core'
  <1>1. epoch \in Epochs
    BY EpochInRange DEF StartEpoch, AtEpoch
  <1>2. size[epoch] \in Nat
    BY <1>1, SizeAssumption DEF Core, Typed
  <1>3. Typed'
    BY <1>1, <1>2 DEF IsV1, StartEpoch, inboxData, diskVars, envVars, Core, Typed
  <1>4. Highest' /\ NumbersUnique'
    BY DEF StartEpoch, inboxData, diskVars, envVars, Core, Highest, NumbersUnique
  <1>5. progress # None => progress.num \in Nat
    BY DEF Core, Typed, EmailId
  <1>6. Ahead' /\ Counted'
    BY <1>5 DEF StartEpoch, AtEpoch, diskVars, Core, Typed, Ahead, Counted
  <1> QED
    BY <1>3, <1>4, <1>6 DEF Core

(* commit_count is at least the number of emails that used up a number. *)
LEMMA EndEpochKeeps ==
  ASSUME Core, EndEpoch
  PROVE  Core'
  <1> USE DEF EndEpoch, EndEpochAfter, inboxData, diskVars, walkVars, envVars
  <1>1. Typed'
    BY DEF IsV1, Core, Typed
  <1>2. Highest' /\ NumbersUnique'
    BY DEF Core, Highest, NumbersUnique
  <1>3. progress # None => progress.num \in Nat
    BY DEF Core, Typed, EmailId
  <1>4. Ahead' /\ Counted'
    BY <1>3 DEF Core, Typed, Ahead, Counted
  <1> QED
    BY <1>1, <1>2, <1>4 DEF Core

LEMMA StepKeeps ==
  ASSUME Core, [Next]_vars, fetches' = fetches
  PROVE  Core'
  <1> USE DEF inboxData, diskVars, inboxVars, walkVars, envVars, callVars
  <1>1. ASSUME NEW e \in Epochs, Commit(e)
        PROVE  Core'
    <2>1. size' \in [Epochs -> Nat]
      BY <1>1, SizeAssumption DEF Commit, Core, Typed
    <2> QED
      BY <1>1, <2>1, QuietKeeps DEF Commit, Core, Typed
  <1>2. CASE RequestShutdown \/ Restart \/ UNCHANGED vars
    BY <1>2, QuietKeeps DEF RequestShutdown, Restart, vars, Core, Typed
  <1>3. CASE BeginFresh
    <2>1. last' \in 0..NumEpochs
      BY <1>3, SizeAssumption DEF BeginFresh, Begin, Epochs
    <2>2. Typed'
      BY <1>3, <2>1 DEF BeginFresh, Begin, Core, Typed
    <2>3. Highest' /\ NumbersUnique'
      BY <1>3 DEF BeginFresh, Begin, Core, Highest, NumbersUnique
    <2>4. Ahead' /\ Counted'
      BY <1>3 DEF BeginFresh, Begin, Ahead, Counted
    <2> QED
      BY <2>2, <2>3, <2>4 DEF Core
  <1>4. CASE BeginResume
    BY <1>4, ResumeKeeps
  <1>5. CASE BeginPanics
    <2>1. last' \in 0..NumEpochs
      BY <1>5, SizeAssumption DEF BeginPanics, Begin, Epochs
    <2> QED
      BY <1>5, <2>1, QuietKeeps DEF BeginPanics, Begin, Core, Typed
  <1>6. CASE EndInbox \/ StopInbox
    BY <1>6, QuietKeeps DEF EndInbox, StopInbox, Return, Core, Typed
  <1>7. CASE SkipEpoch
    BY <1>7, QuietKeeps DEF SkipEpoch, AtEpoch, Core, Typed
  <1>8. CASE StartEpoch
    BY <1>8, StartEpochKeeps
  <1>9. CASE StopWalk \/ ReachResume \/ SkipOld
    BY <1>9, QuietKeeps DEF StopWalk, ReachResume, SkipOld, Walking, Core, Typed
  <1>10. CASE ArchiveCommit
    BY <1>10, ArchiveKeeps
  <1>11. CASE LogBadCommit
    BY <1>11, LogKeeps
  <1>12. CASE EndEpoch
    BY <1>12, EndEpochKeeps
  <1>13. ~(\E k \in 1..MaxCommits : FetchByIndex(k))
    BY DEF FetchByIndex, Core, Typed
  <1> QED
    BY <1>1, <1>2, <1>3, <1>4, <1>5, <1>6, <1>7, <1>8, <1>9, <1>10, <1>11,
       <1>12, <1>13 DEF Next

(* fetches only grows. *)
LEMMA FetchesStep ==
  ASSUME [Next]_vars
  PROVE  fetches' = fetches \/ fetches' = fetches + 1
  BY DEF Next, vars, envVars, Commit, RequestShutdown, Restart, BeginFresh,
         BeginResume, BeginPanics, Begin, EndInbox, StopInbox, Return,
         SkipEpoch, StartEpoch, StopWalk, ReachResume, SkipOld, ArchiveCommit,
         LogBadCommit, HandleCommit, Walking, EndEpoch, EndEpochAfter,
         FetchByIndex

IInv == fetches \in Nat /\ (fetches = 0 => Core)

(* No two emails of an inbox get one number, whatever arrives, is stopped  *)
(* and is resumed, until an email is fetched by its index.                 *)
THEOREM EmailNumbersAreUnique == Spec => []NumbersUnique
  <1>1. Init => IInv
    BY InitCore DEF Init, IInv
  <1>2. IInv /\ [Next]_vars => IInv'
    <2> SUFFICES ASSUME IInv, [Next]_vars
                 PROVE  IInv'
      OBVIOUS
    <2>1. fetches' \in Nat /\ (fetches' = 0 => fetches' = fetches)
      BY FetchesStep DEF IInv
    <2> QED
      BY <2>1, StepKeeps DEF IInv
  <1>3. IInv => NumbersUnique
    BY DEF IInv, Core, NumbersUnique
  <1> QED
    BY <1>1, <1>2, <1>3, PTL DEF Spec
-----------------------------------------------------------------------------
(* What a call of process_inbox has counted of the inbox. *)
Totals ==
  /\ pc = "epoch" => total <= NumBefore(size, epoch)
  /\ pc = "walk" => total <= NumBefore(size, epoch + 1)

LEMMA TotalsStep ==
  ASSUME Shape, Totals, [Next]_vars
  PROVE  Totals'
  <1> USE DEF inboxData, diskVars, inboxVars, walkVars, envVars, callVars
  <1>1. /\ epoch \in Nat /\ epoch + 1 \in Nat /\ total \in Nat
        /\ size \in Sizes /\ size' \in Sizes
        /\ \A g \in Epochs : size[g] <= size'[g]
    BY GroundStep DEF Shape, Counters, Ground
  <1>2. NumBefore(size, epoch) <= NumBefore(size', epoch)
    BY <1>1, CountGrows
  <1>3. NumBefore(size, epoch + 1) <= NumBefore(size', epoch + 1)
    BY <1>1, CountGrows
  <1>4. /\ NumBefore(size, epoch) \in Nat /\ NumBefore(size', epoch) \in Nat
        /\ NumBefore(size, epoch + 1) \in Nat /\ NumBefore(size', epoch + 1) \in Nat
    BY CountNat
  <1>5. CASE BeginFresh
    <2>1. NumBefore(size', epoch') \in Nat
      BY CountNat
    <2> QED
      BY <1>5, <2>1 DEF BeginFresh, Totals
  <1>6. CASE BeginResume
    <2>1. NumBefore(size, epoch') \in Nat
      BY CountNat
    <2> QED
      BY <1>6, <2>1, ResumeIs DEF BeginResume, Begin, Totals
  <1>7. CASE SkipEpoch \/ StartEpoch
    <2>1. AtEpoch /\ size' = size
      BY <1>7 DEF SkipEpoch, StartEpoch
    <2>2. epoch \in Epochs /\ size[epoch] \in Nat
      BY <2>1, EpochIs
    <2>3. NumBefore(size, epoch + 1) = NumBefore(size, epoch) + size[epoch]
      BY <1>1, <2>2, CountStep
    <2>4. total' <= NumBefore(size, epoch + 1)
      BY <1>1, <1>4, <2>1, <2>2, <2>3 DEF AtEpoch, Totals
    <2> QED
      BY <1>7, <2>1, <2>4 DEF SkipEpoch, StartEpoch, AtEpoch, Totals
  <1>8. CASE EndEpoch
    BY <1>8 DEF EndEpoch, EndEpochAfter, Totals
  <1>9. CASE \/ (\E e \in Epochs : Commit(e)) \/ UNCHANGED vars
             \/ RequestShutdown
             \/ StopWalk \/ ReachResume \/ SkipOld \/ ArchiveCommit \/ LogBadCommit
    <2>1. UNCHANGED <<pc, epoch, total>>
      BY <1>9 DEF Commit, vars, RequestShutdown, StopWalk, ReachResume, SkipOld,
                  ArchiveCommit, LogBadCommit, HandleCommit, Walking
    <2> QED
      BY <1>1, <1>2, <1>3, <1>4, <2>1 DEF Totals
  <1>10. CASE \/ Restart \/ BeginPanics \/ EndInbox \/ StopInbox
              \/ \E k \in 1..MaxCommits : FetchByIndex(k)
    BY <1>10 DEF Restart, BeginPanics, EndInbox, StopInbox, Return, FetchByIndex,
                 Totals
  <1> QED
    BY <1>5, <1>6, <1>7, <1>8, <1>9, <1>10 DEF Next

(* If every commit is in the archive, there are at most as many commits as *)
(* numbers were given away.                                                *)
LEMMA AsManyNumbers ==
  ASSUME Shape, Core, bad = {}, CommitsOf(size) \subseteq Covered, progress # None
  PROVE  Cardinality(CommitsOf(size)) <= progress.num
  <1> DEFINE C == CommitsOf(size)
             N == 1..progress.num
             Has(c, n) == \E a \in archived :
                            a.num = n /\ a.epoch = EpochName(c[1]) /\ a.commit = c[2]
  <1>1. progress.num \in Nat /\ \A a \in archived : a.num \in N
    BY DEF Shape, Disk, Core, Highest, EmailId
  <1>2. \A c \in C : \E n \in N : Has(c, n)
    BY <1>1 DEF Shape, Disk, Covered
  <1>3. ASSUME NEW c \in C, NEW d \in C, NEW n \in N, Has(c, n), Has(d, n)
        PROVE  c = d
    <2>1. EpochName(c[1]) = EpochName(d[1]) /\ c[2] = d[2]
      <3>1. PICK a \in archived : a.num = n /\ a.epoch = EpochName(c[1]) /\ a.commit = c[2]
        BY <1>3
      <3>2. PICK b \in archived : b.num = n /\ b.epoch = EpochName(d[1]) /\ b.commit = d[2]
        BY <1>3
      <3>3. a = b
        BY <3>1, <3>2 DEF Core, Typed, NumbersUnique
      <3> QED
        BY <3>1, <3>2, <3>3
    <2>2. /\ c = <<c[1], c[2]>> /\ c[1] \in Epochs /\ c[2] <= size[c[1]]
          /\ d = <<d[1], d[2]>> /\ d[1] \in Epochs /\ d[2] <= size[d[1]]
          /\ c[2] \in Nat \ {0} /\ d[2] \in Nat \ {0}
      BY Ranges DEF CommitsOf
    <2>3. CASE IsV1
      <3>1. c[1] = 1 /\ d[1] = 1
        BY <2>2, <2>3, Ranges DEF Shape, Ground
      <3> QED
        BY <2>1, <2>2, <3>1
    <2>4. CASE ~IsV1
      BY <2>1, <2>2, <2>4 DEF EpochName
    <2> QED
      BY <2>3, <2>4
  <1>4. IsFiniteSet(N) /\ Cardinality(N) = progress.num
    <2>1. 1 \in Int /\ progress.num \in Int
      BY <1>1
    <2>2. /\ IsFiniteSet(N)
          /\ Cardinality(N) = IF 1 > progress.num THEN 0 ELSE progress.num - 1 + 1
      BY <2>1, FS_Interval, Zenon
    <2> QED
      BY <1>1, <2>2
  <1>5. IsFiniteSet(C) /\ Cardinality(C) \in Nat
    BY CommitsFinite, FS_CardinalityType
  <1> HIDE DEF C, N, Has
  <1> DEFINE f == [c \in C |-> CHOOSE n \in N : Has(c, n)]
  <1>6. f \in [C -> N] /\ \A c \in C : Has(c, f[c])
    BY <1>2
  <1> HIDE DEF f
  <1>7. \A c, d \in C : f[c] = f[d] => c = d
    BY <1>3, <1>6
  <1>8. ~(Cardinality(N) < Cardinality(C))
    <2> SUFFICES ASSUME Cardinality(N) < Cardinality(C)
                 PROVE  FALSE
      OBVIOUS
    <2>1. \E c, d \in C : c # d /\ f[c] = f[d]
      BY <1>4, <1>5, <1>6, FS_PigeonHole
    <2> QED
      BY <1>7, <2>1
  <1>9. Cardinality(C) <= progress.num
    BY <1>1, <1>4, <1>5, <1>8
  <1> QED
    BY <1>9 DEF C

LEMMA NewsOnly ==
  ASSUME Shape, Core, Totals, StartEpoch, bad = {}
  PROVE  CommitsOf(size) \ Covered # {}
  <1> SUFFICES ASSUME CommitsOf(size) \subseteq Covered
               PROVE  FALSE
    OBVIOUS
  <1> DEFINE all == Cardinality(CommitsOf(size))
  <1>1. AtEpoch /\ pc = "epoch" /\ global < total' /\ total' = total + size[epoch]
    BY DEF StartEpoch, AtEpoch
  <1>2. epoch \in Epochs /\ size[epoch] \in Nat /\ size \in Sizes
        /\ total \in Nat /\ global \in Nat
    BY <1>1, EpochIs DEF Shape, Ground, Counters
  <1>3. all \in Nat
    BY CommitsFinite, FS_CardinalityType
  <1>4. total' <= all
    <2>1. NumBefore(size, epoch + 1) = NumBefore(size, epoch) + size[epoch]
      BY <1>2, CountStep
    <2>2. NumBefore(size, epoch + 1) <= all
      BY CountType
    <2>3. NumBefore(size, epoch + 1) \in Nat /\ NumBefore(size, epoch) \in Nat
      BY CountNat
    <2>4. total <= NumBefore(size, epoch)
      BY <1>1 DEF Totals
    <2> HIDE DEF all
    <2> QED
      BY <1>1, <1>2, <1>3, <2>1, <2>2, <2>3, <2>4
  <1>5. CASE progress = None
    <2>1. CommitsOf(size) = {}
      BY <1>5 DEF Shape, Disk, Covered
    <2>2. all = 0
      BY <2>1, FS_EmptySet
    <2> HIDE DEF all
    <2> QED
      BY <1>1, <1>2, <1>4, <2>2
  <1>6. CASE progress # None
    <2>1. all <= progress.num
      BY <1>6, AsManyNumbers
    <2>2. progress.num \in Nat /\ progress.num <= global
      BY <1>1, <1>6 DEF Core, Typed, Ahead, EmailId
    <2> HIDE DEF all
    <2> QED
      BY <1>1, <1>2, <1>3, <1>4, <2>1, <2>2
  <1> QED
    BY <1>5, <1>6

(* An inbox of readable commits with nothing new is never walked again,    *)
(* however many epochs it has and whatever was stopped and resumed.        *)
THEOREM NewsAreWalked == Spec => WalksOnlyForNews
  <1> DEFINE Inv == Shape /\ IInv /\ Totals
  <1>1. Init => Inv
    BY ShapeInit, InitCore DEF Init, IInv, Totals
  <1>2. Inv /\ [Next]_vars => Inv'
    <2> SUFFICES ASSUME Inv, [Next]_vars
                 PROVE  Inv'
      OBVIOUS
    <2>1. Shape' /\ Totals'
      BY ShapeStep, TotalsStep
    <2>2. fetches' \in Nat /\ (fetches' = 0 => fetches' = fetches)
      BY FetchesStep DEF IInv
    <2> QED
      BY <2>1, <2>2, StepKeeps DEF IInv
  <1>3. Inv /\ [Next]_vars =>
          [StartEpoch /\ bad = {} /\ fetches = 0 => CommitsOf(size) \ Covered # {}]_vars
    BY NewsOnly DEF IInv
  <1> HIDE DEF Inv
  <1> QED
    BY <1>1, <1>2, <1>3, PTL DEF Spec, WalksOnlyForNews
-----------------------------------------------------------------------------
(* The counters of a walk tell its position in the epoch. *)
Walk == pc = "walk" =>
  /\ before = seen[epoch] - resume
  /\ new = IF before = 0 /\ resume # 0 THEN seen[epoch]
            ELSE Minus(before, OldNonResume(before))
  /\ handled = counted \/ (handled >= new /\ before > 0)
  /\ handled <= counted
  /\ \/ pos = 0
     \/ pos >= resume /\ counted = seen[epoch] - pos
     \/ before = 0 /\ resume > pos /\ counted = seen[epoch] - 1 - pos

LEMMA WalkBegins ==
  ASSUME Shape, StartEpoch
  PROVE  Walk'
  <1>1. AtEpoch
    BY DEF StartEpoch
  <1>2. /\ epoch \in Epochs /\ size[epoch] \in Nat /\ skip \in Nat
        /\ skip <= size[epoch] /\ seen' = [seen EXCEPT ![epoch] = size[epoch]]
    BY <1>1, EpochIs
  <1>3. seen'[epoch] = size[epoch]
    BY <1>2 DEF Shape, Placed, Sizes
  <1>4. /\ epoch' = epoch /\ global' = global /\ pos' = size[epoch] /\ resume' = skip
        /\ before' = size[epoch] - skip /\ counted' = 0 /\ handled' = 0
    BY DEF StartEpoch
  <1>5. new' = IF before' = 0 /\ resume' # 0 THEN seen'[epoch']
                ELSE Minus(before', OldNonResume(before'))
    BY <1>3, <1>4 DEF StartEpoch
  <1>6. OldNonResume(before') = IF before' > global' THEN Minus(global', 1) ELSE 0
    BY <1>4 DEF OldNonResume
  <1>7. new' = IF before' = 0 /\ resume' # 0 THEN seen'[epoch']
                ELSE Minus(before', OldNonResume(before)')
    BY <1>5, <1>6 DEF OldNonResume
  <1> QED
    BY <1>2, <1>3, <1>4, <1>7 DEF Walk, Minus

LEMMA WalkGoesOn ==
  ASSUME Shape, Walk,
         StopWalk \/ ReachResume \/ SkipOld \/ ArchiveCommit \/ LogBadCommit
  PROVE  Walk'
  <1>1. /\ pc = "walk" /\ pos > 0 /\ pos \in Nat /\ resume \in Nat /\ before \in Nat
        /\ new \in Nat /\ counted \in Nat /\ handled \in Nat /\ epoch \in Epochs
        /\ seen[epoch] \in Nat
    BY Ranges DEF StopWalk, ReachResume, SkipOld, ArchiveCommit, LogBadCommit,
                  HandleCommit, Walking, Shape, Counters, Placed
  <1>2. UNCHANGED <<seen, epoch, resume, before, new, global>>
    BY DEF StopWalk, ReachResume, SkipOld, ArchiveCommit, LogBadCommit,
           HandleCommit, Walking, inboxVars, callVars
  <1>3. /\ before = seen[epoch] - resume
        /\ new = IF before = 0 /\ resume # 0 THEN seen[epoch]
                  ELSE Minus(before, OldNonResume(before))
        /\ handled = counted \/ (handled >= new /\ before > 0)
        /\ handled <= counted
        /\ \/ pos >= resume /\ counted = seen[epoch] - pos
           \/ before = 0 /\ resume > pos /\ counted = seen[epoch] - 1 - pos
    BY <1>1 DEF Walk
  <1>4. /\ before' = seen'[epoch'] - resume'
        /\ new' = IF before' = 0 /\ resume' # 0 THEN seen'[epoch']
                   ELSE Minus(before', OldNonResume(before)')
    BY <1>2, <1>3 DEF OldNonResume
  <1>5. /\ handled' = counted' \/ (handled' >= new /\ before > 0)
        /\ handled' <= counted'
    <2>1. CASE StopWalk \/ ReachResume
      BY <1>3, <2>1 DEF StopWalk, ReachResume
    <2>2. CASE SkipOld
      BY <1>1, <1>3, <2>2 DEF SkipOld
    <2>3. CASE ArchiveCommit \/ LogBadCommit
      BY <1>1, <1>3, <2>3 DEF ArchiveCommit, LogBadCommit, HandleCommit
    <2> QED
      BY <2>1, <2>2, <2>3
  <1>6. \/ pos' = 0
        \/ pos' >= resume /\ counted' = seen[epoch] - pos'
        \/ before = 0 /\ resume > pos' /\ counted' = seen[epoch] - 1 - pos'
    <2>1. CASE StopWalk
      BY <2>1 DEF StopWalk
    <2>2. CASE ReachResume
      BY <1>1, <1>3, <2>2 DEF ReachResume
    <2>3. CASE SkipOld
      BY <1>1, <1>3, <2>3 DEF SkipOld
    <2>4. CASE ArchiveCommit \/ LogBadCommit
      BY <1>1, <1>3, <2>4 DEF ArchiveCommit, LogBadCommit, HandleCommit
    <2> QED
      BY <2>1, <2>2, <2>3, <2>4
  <1> QED
    BY <1>2, <1>4, <1>5, <1>6 DEF Walk

LEMMA WalkKeeps ==
  ASSUME Shape, Walk, [Next]_vars
  PROVE  Walk'
  <1>1. CASE StartEpoch
    BY <1>1, WalkBegins
  <1>2. CASE StopWalk \/ ReachResume \/ SkipOld \/ ArchiveCommit \/ LogBadCommit
    BY <1>2, WalkGoesOn
  <1>3. CASE (\E e \in Epochs : Commit(e)) \/ UNCHANGED vars \/ RequestShutdown
    BY <1>3 DEF Commit, vars, RequestShutdown, inboxVars, walkVars, callVars,
                Walk, OldNonResume
  <1>4. CASE \/ Restart \/ BeginFresh \/ BeginResume \/ BeginPanics
             \/ EndInbox \/ StopInbox \/ SkipEpoch \/ EndEpoch
             \/ \E k \in 1..MaxCommits : FetchByIndex(k)
    <2>1. pc' # "walk"
      BY <1>4 DEF Restart, BeginFresh, BeginResume, BeginPanics, EndInbox, StopInbox,
                  Return, SkipEpoch, AtEpoch, EndEpoch, EndEpochAfter, FetchByIndex
    <2> QED
      BY <2>1 DEF Walk
  <1> QED
    BY <1>1, <1>2, <1>3, <1>4 DEF Next

(* What is covered stays covered. *)
LEMMA CommitsStay ==
  ASSUME Shape, [Next]_vars
  PROVE  CommitsOf(size) \subseteq CommitsOf(size')
  <1> SUFFICES ASSUME NEW c \in CommitsOf(size)
               PROVE  c \in CommitsOf(size')
    OBVIOUS
  <1>1. /\ c \in Epochs \X (1..MaxCommits) /\ c[2] <= size[c[1]]
        /\ c[1] \in Epochs /\ c[2] \in Nat
    BY DEF CommitsOf
  <1>2. size[c[1]] \in Nat /\ size'[c[1]] \in Nat /\ size[c[1]] <= size'[c[1]]
    BY <1>1, GroundStep, Ranges DEF Shape, Ground
  <1>3. c[2] <= size'[c[1]]
    BY <1>1, <1>2
  <1> QED
    BY <1>1, <1>3 DEF CommitsOf

LEMMA CoveredGrows ==
  ASSUME Shape, [Next]_vars
  PROVE  Covered \subseteq Covered'
  <1>1. errors \subseteq errors' /\ archived \subseteq archived'
    BY DEF Next, vars, diskVars, Commit, RequestShutdown, Restart, BeginFresh,
           BeginResume, BeginPanics, Begin, EndInbox, StopInbox, Return,
           SkipEpoch, StartEpoch, StopWalk, ReachResume, SkipOld, ArchiveCommit,
           LogBadCommit, HandleCommit, Walking, EndEpoch, EndEpochAfter,
           FetchByIndex
  <1>2. format' = format
    BY GroundStep
  <1> QED
    BY <1>1, <1>2, CommitsStay DEF Covered, EpochName, IsV1

(* A commit that a walk handles is in the archive or in __errors.csv. *)
LEMMA HandledIsCovered ==
  ASSUME Shape, ArchiveCommit \/ LogBadCommit
  PROVE  <<epoch, pos>> \in Covered'
  <1>1. CASE LogBadCommit
    BY <1>1 DEF LogBadCommit, Covered
  <1>2. CASE ArchiveCommit
    <2>1. /\ pos \in 1..seen[epoch] /\ epoch \in Epochs
          /\ progress' \in archived' /\ progress'.commit = pos
          /\ progress'.epoch = EpochName(epoch)
      BY <1>2, ArchivedIs
    <2>2. size' = size /\ format' = format
      BY <1>2 DEF ArchiveCommit, HandleCommit, Walking, inboxData
    <2>3. pos \in 1..MaxCommits /\ pos <= size[epoch]
      BY <2>1, Ranges DEF Shape, Placed, Ground
    <2>4. <<epoch, pos>> \in CommitsOf(size')
      BY <2>1, <2>2, <2>3 DEF CommitsOf
    <2> QED
      BY <2>1, <2>2, <2>4 DEF Covered, EpochName, IsV1
  <1> QED
    BY <1>1, <1>2
-----------------------------------------------------------------------------
(* A first call that nobody stops leaves only epochs behind it that are    *)
(* covered, or larger than all epochs before them.                         *)
Large(e) == e > 1 /\ seen[e] > NumBefore(seen, e)
Behind(e) == \A n \in 1..seen[e] : <<e, n>> \in Covered \/ Large(e)

FirstAtEpoch ==
  pc = "epoch" /\ fresh /\ ~shutdown =>
    /\ skip = 0 /\ global = NumBefore(seen, epoch) /\ total = global
    /\ \A e \in Epochs : IF e < epoch THEN Behind(e) ELSE seen[e] = 0
FirstInWalk ==
  pc = "walk" /\ fresh /\ ~shutdown =>
    /\ resume = 0 /\ global = NumBefore(seen, epoch)
    /\ total = NumBefore(seen, epoch + 1) /\ counted = seen[epoch] - pos
    /\ \A e \in Epochs : (e < epoch => Behind(e)) /\ (e > epoch => seen[e] = 0)
    /\ \A n \in (pos + 1)..seen[epoch] : <<epoch, n>> \in Covered \/ new < seen[epoch]
FirstEnded == fresh /\ outcome = "complete" => \A e \in Epochs : Behind(e)

FirstRun == FirstAtEpoch /\ FirstInWalk /\ FirstEnded

LEMMA BehindStays ==
  ASSUME Shape, [Next]_vars, NEW e \in Epochs, Behind(e), seen' \in Sizes,
         \A g \in Epochs : g <= e => seen'[g] = seen[g]
  PROVE  Behind(e)'
  <1>1. e \in Nat /\ seen \in Sizes
    BY Ranges DEF Shape, Placed
  <1>2. \A g \in Epochs : g < e => seen[g] = seen'[g]
    BY <1>1, Ranges
  <1>3. NumBefore(seen, e) = NumBefore(seen', e)
    BY <1>1, <1>2, CountSame
  <1>4. seen'[e] = seen[e]
    BY <1>1
  <1> QED
    BY <1>3, <1>4, CoveredGrows DEF Behind, Large

LEMMA FirstBegins ==
  ASSUME Shape, BeginFresh
  PROVE  FirstRun'
  <1>1. /\ pc' = "epoch" /\ outcome' = "none" /\ epoch' = 1 /\ global' = 0
        /\ total' = 0 /\ skip' = 0 /\ seen' = [e \in Epochs |-> 0]
    BY DEF BeginFresh, Begin
  <1>2. NumBefore(seen', 1) = 0
    BY CountFirst
  <1>3. \A e \in Epochs : ~(e < 1) /\ seen'[e] = 0
    BY <1>1, Ranges
  <1> QED
    BY <1>1, <1>2, <1>3 DEF FirstRun, FirstAtEpoch, FirstInWalk, FirstEnded

(* An epoch is skipped by a first call only when it is empty. *)
LEMMA FirstAtSize ==
  ASSUME Shape, FirstRun, AtEpoch, fresh
  PROVE  /\ skip = 0 /\ global = NumBefore(seen, epoch)
         /\ total' = global + size[epoch] /\ total' = NumBefore(seen', epoch + 1)
         /\ NumBefore(seen', epoch) = NumBefore(seen, epoch)
         /\ seen' \in Sizes /\ seen'[epoch] = size[epoch] /\ seen[epoch] = 0
         /\ \A e \in Epochs : e # epoch => seen'[e] = seen[e]
         /\ \A e \in Epochs : IF e < epoch THEN Behind(e) ELSE seen[e] = 0
  <1>1. /\ epoch \in Epochs /\ size[epoch] \in Nat /\ size[epoch] <= MaxCommits
        /\ seen' = [seen EXCEPT ![epoch] = size[epoch]]
    BY EpochIs
  <1>2. /\ skip = 0 /\ global = NumBefore(seen, epoch) /\ total = global
        /\ \A e \in Epochs : IF e < epoch THEN Behind(e) ELSE seen[e] = 0
    BY DEF FirstRun, FirstAtEpoch, AtEpoch
  <1>3. /\ seen \in Sizes /\ seen' \in Sizes /\ epoch \in Nat
        /\ seen'[epoch] = size[epoch]
        /\ \A e \in Epochs : e # epoch => seen'[e] = seen[e]
    BY <1>1, Ranges DEF Shape, Placed, Sizes
  <1>4. NumBefore(seen', epoch) = NumBefore(seen, epoch)
    <2>1. \A g \in Epochs : g < epoch => seen'[g] = seen[g]
      BY <1>3, Ranges
    <2> QED
      BY <1>3, <2>1, CountSame
  <1>5. NumBefore(seen', epoch + 1) = NumBefore(seen', epoch) + seen'[epoch]
    BY <1>1, <1>3, CountStep
  <1>6. total' = global + size[epoch]
    BY <1>2 DEF AtEpoch
  <1>7. ~(epoch < epoch)
    BY <1>3
  <1> QED
    BY <1>1, <1>2, <1>3, <1>4, <1>5, <1>6, <1>7

LEMMA FirstSkips ==
  ASSUME Shape, FirstRun, [Next]_vars, SkipEpoch
  PROVE  FirstRun'
  <1>1. /\ AtEpoch /\ epoch' = epoch + 1 /\ global' = global /\ skip' = 0
        /\ pc' = "epoch" /\ fresh' = fresh /\ outcome' = "none" /\ global >= total'
    BY DEF SkipEpoch, AtEpoch, Shape, Counters, Working
  <1> SUFFICES ASSUME fresh
               PROVE  FirstAtEpoch'
    BY <1>1 DEF FirstRun, FirstAtEpoch, FirstInWalk, FirstEnded
  <1>2. /\ total' = global + size[epoch] /\ total' = NumBefore(seen', epoch + 1)
        /\ seen' \in Sizes /\ seen'[epoch] = size[epoch] /\ seen[epoch] = 0
        /\ \A e \in Epochs : e # epoch => seen'[e] = seen[e]
        /\ \A e \in Epochs : IF e < epoch THEN Behind(e) ELSE seen[e] = 0
    BY <1>1, FirstAtSize
  <1>3. epoch \in Epochs /\ epoch \in Nat /\ size[epoch] \in Nat /\ global \in Nat
    BY <1>1, EpochIs, Ranges DEF Shape, Counters
  <1>4. size[epoch] = 0 /\ total' = global
    BY <1>1, <1>2, <1>3
  <1>5. \A e \in Epochs : seen'[e] = seen[e]
    BY <1>2, <1>4
  <1>6. ASSUME NEW e \in Epochs
        PROVE  IF e < epoch + 1 THEN Behind(e)' ELSE seen'[e] = 0
    <2>1. CASE e < epoch
      <3>1. Behind(e)'
        BY <1>2, <1>5, <2>1, BehindStays
      <3> QED
        BY <1>3, <2>1, <3>1, Ranges
    <2>2. CASE e = epoch
      <3>1. seen'[e] = 0
        BY <1>2, <1>4, <2>2
      <3>2. Behind(e)'
        BY <3>1 DEF Behind
      <3> QED
        BY <1>3, <2>2, <3>2
    <2>3. CASE ~(e < epoch) /\ e # epoch
      <3>1. ~(e < epoch + 1) /\ seen'[e] = 0
        BY <1>2, <1>3, <1>5, <2>3, Ranges
      <3> QED
        BY <3>1
    <2> QED
      BY <2>1, <2>2, <2>3
  <1> QED
    BY <1>1, <1>2, <1>4, <1>6 DEF FirstAtEpoch

LEMMA FirstStarts ==
  ASSUME Shape, FirstRun, [Next]_vars, StartEpoch
  PROVE  FirstRun'
  <1>1. /\ AtEpoch /\ epoch' = epoch /\ global' = global /\ resume' = skip
        /\ counted' = 0 /\ pos' = size[epoch]
        /\ pc' = "walk" /\ fresh' = fresh /\ outcome' = "none"
    BY DEF StartEpoch, AtEpoch, Shape, Counters, Working
  <1> SUFFICES ASSUME fresh
               PROVE  FirstInWalk'
    BY <1>1 DEF FirstRun, FirstAtEpoch, FirstInWalk, FirstEnded
  <1>2. /\ skip = 0 /\ global = NumBefore(seen, epoch)
        /\ total' = NumBefore(seen', epoch + 1)
        /\ NumBefore(seen', epoch) = NumBefore(seen, epoch)
        /\ seen' \in Sizes /\ seen'[epoch] = size[epoch]
        /\ \A e \in Epochs : e # epoch => seen'[e] = seen[e]
        /\ \A e \in Epochs : IF e < epoch THEN Behind(e) ELSE seen[e] = 0
    BY <1>1, FirstAtSize
  <1>3. epoch \in Epochs /\ epoch \in Nat /\ size[epoch] \in Nat
    BY <1>1, EpochIs, Ranges
  <1>4. ASSUME NEW e \in Epochs
        PROVE  (e < epoch => Behind(e)') /\ (e > epoch => seen'[e] = 0)
    <2>1. ASSUME e < epoch
          PROVE  Behind(e)'
      <3>1. \A g \in Epochs : g <= e => seen'[g] = seen[g]
        BY <1>2, <1>3, <2>1, Ranges
      <3> QED
        BY <1>2, <2>1, <3>1, BehindStays
    <2>2. ASSUME e > epoch
          PROVE  seen'[e] = 0
      BY <1>2, <1>3, <2>2, Ranges
    <2> QED
      BY <2>1, <2>2
  <1>5. counted' = seen'[epoch'] - pos'
    BY <1>1, <1>2, <1>3
  <1>6. (pos' + 1)..seen'[epoch'] = {}
    BY <1>1, <1>2, <1>3
  <1> QED
    BY <1>1, <1>2, <1>4, <1>5, <1>6 DEF FirstInWalk

LEMMA FirstWalks ==
  ASSUME Shape, Walk, FirstRun, [Next]_vars,
         StopWalk \/ ReachResume \/ SkipOld \/ ArchiveCommit \/ LogBadCommit
  PROVE  FirstRun'
  <1>1. /\ pc = "walk" /\ pos > 0 /\ pos \in Nat /\ counted \in Nat /\ handled \in Nat
        /\ new \in Nat /\ epoch \in Epochs /\ seen[epoch] \in Nat /\ pos <= seen[epoch]
        /\ outcome = "none"
    BY Ranges DEF StopWalk, ReachResume, SkipOld, ArchiveCommit, LogBadCommit,
                  HandleCommit, Walking, Shape, Counters, Placed, Working
  <1>2. UNCHANGED <<pc, seen, epoch, resume, before, new, global, total, fresh,
                    outcome, shutdown>>
    BY DEF StopWalk, ReachResume, SkipOld, ArchiveCommit, LogBadCommit,
           HandleCommit, Walking, inboxVars, callVars, envVars
  <1> SUFFICES ASSUME fresh, ~shutdown
               PROVE  FirstInWalk'
    BY <1>1, <1>2 DEF FirstRun, FirstAtEpoch, FirstInWalk, FirstEnded
  <1>3. /\ resume = 0 /\ global = NumBefore(seen, epoch)
        /\ total = NumBefore(seen, epoch + 1) /\ counted = seen[epoch] - pos
        /\ \A e \in Epochs : (e < epoch => Behind(e)) /\ (e > epoch => seen[e] = 0)
        /\ \A n \in (pos + 1)..seen[epoch] : <<epoch, n>> \in Covered \/ new < seen[epoch]
    BY <1>1 DEF FirstRun, FirstInWalk
  <1>4. SkipOld \/ ArchiveCommit \/ LogBadCommit
    BY <1>1, <1>3 DEF StopWalk, ReachResume
  <1>5. pos' = pos - 1 /\ counted' = counted + 1
    BY <1>4 DEF SkipOld, ArchiveCommit, LogBadCommit, HandleCommit
  <1>6. <<epoch, pos>> \in Covered' \/ new < seen[epoch]
    <2>1. CASE SkipOld
      <3>1. handled >= new /\ handled <= counted
        BY <1>1, <2>1 DEF SkipOld, Walk
      <3> QED
        BY <1>1, <1>3, <3>1
    <2>2. CASE ArchiveCommit \/ LogBadCommit
      BY <2>2, HandledIsCovered
    <2> QED
      BY <1>4, <2>1, <2>2
  <1>7. \A n \in (pos' + 1)..seen[epoch] : <<epoch, n>> \in Covered' \/ new < seen[epoch]
    <2> SUFFICES ASSUME NEW n \in (pos' + 1)..seen[epoch]
                 PROVE  <<epoch, n>> \in Covered' \/ new < seen[epoch]
      OBVIOUS
    <2>1. n = pos \/ n \in (pos + 1)..seen[epoch]
      BY <1>1, <1>5
    <2> QED
      BY <1>3, <1>6, <2>1, CoveredGrows
  <1>8. ASSUME NEW e \in Epochs
        PROVE  (e < epoch => Behind(e)') /\ (e > epoch => seen[e] = 0)
    <2>1. seen' \in Sizes /\ \A g \in Epochs : seen'[g] = seen[g]
      BY <1>2 DEF Shape, Placed
    <2> QED
      BY <1>3, <2>1, BehindStays
  <1>9. counted' = seen[epoch] - pos'
    BY <1>1, <1>3, <1>5
  <1> QED
    BY <1>2, <1>3, <1>7, <1>8, <1>9 DEF FirstInWalk

(* A walk passes over commits only in an epoch that is larger than all the *)
(* epochs before it.                                                       *)
LEMMA FirstGoesOn ==
  ASSUME Shape, Walk, FirstRun, [Next]_vars, EndEpoch
  PROVE  FirstRun'
  <1>1. /\ pc = "walk" /\ pos = 0 /\ pc' = "epoch" /\ epoch' = epoch + 1
        /\ global' = global + counted /\ skip' = 0
        /\ UNCHANGED <<seen, fresh, outcome, shutdown, total>>
    BY DEF EndEpoch, EndEpochAfter, callVars, envVars
  <1>2. /\ epoch \in Epochs /\ epoch \in Nat /\ seen[epoch] \in Nat /\ outcome = "none"
        /\ before \in Nat /\ new \in Nat /\ global \in Nat /\ seen \in Sizes
    BY <1>1, Ranges DEF Shape, Counters, Placed, Working
  <1> SUFFICES ASSUME fresh, ~shutdown
               PROVE  FirstAtEpoch'
    BY <1>1, <1>2 DEF FirstRun, FirstAtEpoch, FirstInWalk, FirstEnded
  <1>3. /\ resume = 0 /\ global = NumBefore(seen, epoch)
        /\ total = NumBefore(seen, epoch + 1) /\ counted = seen[epoch] - pos
        /\ \A e \in Epochs : (e < epoch => Behind(e)) /\ (e > epoch => seen[e] = 0)
        /\ \A n \in (pos + 1)..seen[epoch] : <<epoch, n>> \in Covered \/ new < seen[epoch]
    BY <1>1 DEF FirstRun, FirstInWalk
  <1>4. global' = NumBefore(seen, epoch + 1) /\ total = global'
    BY <1>1, <1>2, <1>3, CountStep
  <1>5. ASSUME new < seen[epoch]
        PROVE  Large(epoch)
    <2>1. before = seen[epoch] /\ new = Minus(before, OldNonResume(before))
      BY <1>1, <1>2, <1>3 DEF Walk
    <2>2. before > global /\ Minus(global, 1) # 0
      BY <1>2, <1>5, <2>1 DEF OldNonResume, Minus
    <2>3. global # 0 /\ seen[epoch] > NumBefore(seen, epoch)
      BY <1>3, <2>1, <2>2 DEF Minus
    <2>4. epoch # 1
      BY <1>3, <2>3, CountFirst
    <2> QED
      BY <1>2, <2>3, <2>4, Ranges DEF Large
  <1>6. Behind(epoch)
    BY <1>1, <1>2, <1>3, <1>5 DEF Behind
  <1>7. ASSUME NEW e \in Epochs
        PROVE  IF e < epoch + 1 THEN Behind(e)' ELSE seen'[e] = 0
    <2>1. e \in Nat /\ (e < epoch + 1 <=> e < epoch \/ e = epoch)
      BY <1>2, Ranges
    <2>2. seen' \in Sizes /\ \A g \in Epochs : seen'[g] = seen[g]
      BY <1>1, <1>2
    <2>3. CASE e < epoch + 1
      <3>1. Behind(e)
        BY <1>3, <1>6, <2>1, <2>3
      <3>2. Behind(e)'
        BY <2>2, <3>1, BehindStays
      <3> QED
        BY <2>3, <3>2
    <2>4. CASE ~(e < epoch + 1)
      <3>1. e > epoch
        BY <1>2, <2>1, <2>4
      <3> QED
        BY <1>3, <2>2, <2>4, <3>1
    <2> QED
      BY <2>3, <2>4
  <1> QED
    BY <1>1, <1>4, <1>7 DEF FirstAtEpoch
LEMMA FirstEnds ==
  ASSUME Shape, FirstRun, [Next]_vars, EndInbox \/ StopInbox
  PROVE  FirstRun'
  <1>1. pc' = "idle" /\ UNCHANGED <<seen, fresh>>
    BY DEF EndInbox, StopInbox, Return
  <1> SUFFICES ASSUME fresh, outcome' = "complete", NEW e \in Epochs
               PROVE  Behind(e)'
    BY <1>1 DEF FirstRun, FirstAtEpoch, FirstInWalk, FirstEnded
  <1>2. pc = "epoch" /\ ~shutdown
    BY DEF EndInbox, StopInbox, Return
  <1>3. IF e < epoch THEN Behind(e) ELSE seen[e] = 0
    BY <1>2 DEF FirstRun, FirstAtEpoch
  <1>4. Behind(e)
    BY <1>3 DEF Behind
  <1>5. seen' \in Sizes /\ \A g \in Epochs : seen'[g] = seen[g]
    BY <1>1 DEF Shape, Placed
  <1> QED
    BY <1>4, <1>5, BehindStays

LEMMA FirstElse ==
  ASSUME Shape, FirstRun, [Next]_vars,
         \/ (\E e \in Epochs : Commit(e)) \/ UNCHANGED vars
         \/ RequestShutdown \/ Restart
         \/ \E k \in 1..MaxCommits : FetchByIndex(k)
  PROVE  FirstRun'
  <1>1. /\ UNCHANGED <<seen, fresh, outcome, epoch, global, total, skip, resume, new,
                       pos, counted>>
        /\ pc' \in {"epoch", "walk"} => pc' = pc /\ (~shutdown' => ~shutdown)
    BY DEF Commit, vars, RequestShutdown, Restart, FetchByIndex, inboxVars, walkVars,
           envVars, callVars
  <1>2. ASSUME NEW e \in Epochs, Behind(e)
        PROVE  Behind(e)'
    <2>1. seen' \in Sizes /\ \A g \in Epochs : seen'[g] = seen[g]
      BY <1>1 DEF Shape, Placed
    <2> QED
      BY <1>2, <2>1, BehindStays
  <1>3. FirstAtEpoch'
    BY <1>1, <1>2 DEF FirstRun, FirstAtEpoch
  <1>4. FirstInWalk'
    BY <1>1, <1>2, CoveredGrows DEF FirstRun, FirstInWalk
  <1>5. FirstEnded'
    BY <1>1, <1>2 DEF FirstRun, FirstEnded
  <1> QED
    BY <1>3, <1>4, <1>5 DEF FirstRun

LEMMA FirstKeeps ==
  ASSUME Shape, Walk, FirstRun, [Next]_vars
  PROVE  FirstRun'
  <1>1. CASE BeginFresh
    BY <1>1, FirstBegins
  <1>2. CASE BeginResume \/ BeginPanics
    <2>1. ~fresh'
      BY <1>2 DEF BeginResume, BeginPanics, Begin
    <2> QED
      BY <2>1 DEF FirstRun, FirstAtEpoch, FirstInWalk, FirstEnded
  <1>3. CASE SkipEpoch \/ StartEpoch
    BY <1>3, FirstSkips, FirstStarts
  <1>4. CASE StopWalk \/ ReachResume \/ SkipOld \/ ArchiveCommit \/ LogBadCommit
    BY <1>4, FirstWalks
  <1>5. CASE EndEpoch
    BY <1>5, FirstGoesOn
  <1>6. CASE EndInbox \/ StopInbox
    BY <1>6, FirstEnds
  <1>7. CASE \/ (\E e \in Epochs : Commit(e)) \/ UNCHANGED vars
             \/ RequestShutdown \/ Restart
             \/ \E k \in 1..MaxCommits : FetchByIndex(k)
    BY <1>7, FirstElse
  <1> QED
    BY <1>1, <1>2, <1>3, <1>4, <1>5, <1>6, <1>7 DEF Next

FirstCall == Shape /\ Walk /\ FirstRun

LEMMA FirstCallInit ==
  Init => FirstCall
  BY ShapeInit DEF Init, FirstCall, Walk, FirstRun, FirstAtEpoch, FirstInWalk,
                   FirstEnded

LEMMA FirstCallStep ==
  FirstCall /\ [Next]_vars => FirstCall'
  BY ShapeStep, WalkKeeps, FirstKeeps DEF FirstCall

(* A first, uninterrupted call of process_inbox archives or logs every     *)
(* commit it saw of each epoch that is no larger than the epochs before it *)
(* together, for any number of epochs and commits.                         *)
THEOREM FirstCallCovers == Spec => []FirstRunCovers
  <1>1. FirstCall => FirstRunCovers
    <2> SUFFICES ASSUME FirstCall, outcome = "complete", fresh, NEW m \in Missed
                 PROVE  m[1] > 1 /\ seen[m[1]] > NumBefore(seen, m[1])
      BY DEF FirstRunCovers
    <2>1. /\ m \in Epochs \X (1..MaxCommits) /\ m[2] <= seen[m[1]] /\ m \notin Covered
          /\ m[1] \in Epochs /\ m = <<m[1], m[2]>> /\ m[2] \in Nat \ {0}
      BY SizeAssumption DEF Missed, CommitsOf
    <2>2. m[2] \in 1..seen[m[1]]
      BY <2>1, Ranges DEF FirstCall, Shape, Placed
    <2>3. Behind(m[1])
      BY <2>1 DEF FirstCall, FirstRun, FirstEnded
    <2> QED
      BY <2>1, <2>2, <2>3 DEF Behind, Large
  <1> QED
    BY <1>1, FirstCallInit, FirstCallStep, PTL DEF Spec
-----------------------------------------------------------------------------
(* In a first call every email has the number that its place in the inbox  *)
(* tells, as read_email_by_index counts it.                                *)
Rightly(a) ==
  /\ EpochOf(a) \in Epochs /\ a.commit \in 1..seen[EpochOf(a)]
  /\ a.num = NumberOf(seen, EpochOf(a), a.commit)
Counting == Working \/ (outcome = "complete" /\ seen = size)
Numbered == fresh /\ Counting => \A a \in archived : Rightly(a)

LEMMA NumberStays ==
  ASSUME NEW s \in Sizes, NEW t \in Sizes, NEW e \in Epochs, NEW n,
         \A g \in Epochs : g <= e => s[g] = t[g]
  PROVE  NumberOf(s, e, n) = NumberOf(t, e, n)
  <1>1. e \in Nat /\ \A g \in Epochs : g < e => s[g] = t[g]
    BY Ranges
  <1>2. NumBefore(s, e) = NumBefore(t, e)
    BY <1>1, CountSame
  <1> QED
    BY <1>1, <1>2 DEF NumberOf

(* The epochs of the archive are behind the one that is next. *)
LEMMA NumberedAtEpoch ==
  ASSUME Shape, FirstRun, Numbered, AtEpoch, UNCHANGED <<format, archived>>
  PROVE  fresh => \A a \in archived : Rightly(a)'
  <1> SUFFICES ASSUME fresh, NEW a \in archived
               PROVE  Rightly(a)'
    OBVIOUS
  <1>1. /\ seen' \in Sizes /\ seen[epoch] = 0
        /\ \A e \in Epochs : e # epoch => seen'[e] = seen[e]
        /\ \A e \in Epochs : IF e < epoch THEN Behind(e) ELSE seen[e] = 0
    BY FirstAtSize
  <1>2. Rightly(a)
    BY DEF Numbered, Counting, Working, AtEpoch
  <1> DEFINE e == EpochOf(a)
  <1>3. e \in Epochs /\ e \in Nat /\ seen[e] # 0 /\ seen \in Sizes /\ epoch \in Nat
    BY <1>2, Ranges DEF Rightly, Shape, Placed, Counters
  <1>4. EpochOf(a)' = e
    BY DEF EpochOf, IsV1
  <1> HIDE DEF e
  <1>5. e < epoch
    BY <1>1, <1>3
  <1>6. \A g \in Epochs : g <= e => seen[g] = seen'[g]
    BY <1>1, <1>3, <1>5, Ranges
  <1>7. NumberOf(seen, e, a.commit) = NumberOf(seen', e, a.commit) /\ seen'[e] = seen[e]
    BY <1>1, <1>3, <1>6, NumberStays
  <1> QED
    BY <1>2, <1>3, <1>4, <1>7 DEF Rightly, e

LEMMA NumberedArchive ==
  ASSUME Shape, Walk, FirstRun, Numbered, ArchiveCommit
  PROVE  Numbered'
  <1>1. /\ UNCHANGED <<format, seen, fresh, pc, shutdown>> /\ ~shutdown /\ pc = "walk"
        /\ pos # resume /\ ~(handled >= new /\ before > 0)
    BY DEF ArchiveCommit, HandleCommit, Walking, inboxData, callVars, envVars
  <1> SUFFICES ASSUME fresh
               PROVE  \A a \in archived' : Rightly(a)'
    BY <1>1 DEF Numbered
  <1>2. /\ progress'.num = global + handled + 1
        /\ progress'.epoch = EpochName(epoch) /\ progress'.commit = pos
        /\ archived' = archived \cup {progress'}
        /\ pos \in 1..seen[epoch] /\ epoch \in Epochs
        /\ IsV1 => epoch = 1
    BY ArchivedIs
  <1>3. \A a : Rightly(a)' <=> Rightly(a)
    BY <1>1 DEF Rightly, EpochOf, IsV1
  <1>4. handled = counted /\ global = NumBefore(seen, epoch) /\ counted = seen[epoch] - pos
    BY <1>1 DEF Walk, FirstRun, FirstInWalk
  <1>5. (IF IsV1 THEN 1 ELSE progress'.epoch) = epoch
    BY <1>2 DEF EpochName
  <1>6. progress'.num = NumberOf(seen, epoch, pos)
    <2>1. NumBefore(seen, epoch) \in Nat /\ seen[epoch] \in Nat /\ pos \in Nat
      BY <1>2, CountNat, Ranges DEF Shape, Placed
    <2> QED
      BY <1>2, <1>4, <2>1 DEF NumberOf
  <1>7. \A a \in archived : Rightly(a)
    BY <1>1 DEF Numbered, Counting, Working
  <1>8. \A a \in {progress'} : Rightly(a)
    BY <1>2, <1>5, <1>6 DEF Rightly, EpochOf
  <1> QED
    BY <1>2, <1>3, <1>7, <1>8

LEMMA NumberedFetch ==
  ASSUME Shape, Numbered, NEW k \in 1..MaxCommits, FetchByIndex(k)
  PROVE  Numbered'
  <1>1. UNCHANGED <<format, size, seen, fresh, pc, outcome>> /\ pc = "idle"
    BY DEF FetchByIndex, inboxData, callVars
  <1> SUFFICES ASSUME fresh, outcome = "complete", seen = size
               PROVE  \A a \in archived' : Rightly(a)'
    BY <1>1 DEF Numbered, Counting, Working
  <1>2. /\ progress'.num = k
        /\ k = NumberOf(size, progress'.epoch, progress'.commit)
        /\ archived' = archived \cup {progress'}
        /\ progress'.epoch \in Epochs /\ progress'.commit \in 1..size[progress'.epoch]
        /\ IsV1 => progress'.epoch = 1
    BY FetchedIs DEF Shape
  <1>3. \A a : Rightly(a)' <=> Rightly(a)
    BY <1>1 DEF Rightly, EpochOf, IsV1
  <1>4. \A a \in archived : Rightly(a)
    BY <1>1 DEF Numbered, Counting
  <1>5. \A a \in {progress'} : Rightly(a)
    BY <1>2 DEF Rightly, EpochOf
  <1> QED
    BY <1>2, <1>3, <1>4, <1>5

LEMMA NumberedKeeps ==
  ASSUME FirstCall, Numbered, [Next]_vars
  PROVE  Numbered'
  <1> USE DEF inboxData, diskVars, callVars
  <1>0. Shape /\ Walk /\ FirstRun
    BY DEF FirstCall
  <1>1. CASE BeginFresh
    BY <1>0, <1>1 DEF BeginFresh, Begin, Numbered, Shape, Disk
  <1>2. CASE BeginResume \/ BeginPanics
    BY <1>2 DEF BeginResume, BeginPanics, Begin, Numbered
  <1>3. CASE SkipEpoch \/ StartEpoch
    <2>1. AtEpoch /\ UNCHANGED <<format, archived, fresh>>
      BY <1>3 DEF SkipEpoch, StartEpoch
    <2> QED
      BY <1>0, <2>1, NumberedAtEpoch DEF Numbered
  <1>4. CASE ArchiveCommit
    BY <1>0, <1>4, NumberedArchive
  <1>5. CASE \E k \in 1..MaxCommits : FetchByIndex(k)
    BY <1>0, <1>5, NumberedFetch
  <1>6. ASSUME UNCHANGED <<format, seen, fresh, archived>>, Counting' => Counting
        PROVE  Numbered'
    <2>1. \A a : Rightly(a)' <=> Rightly(a)
      BY <1>6 DEF Rightly, EpochOf, IsV1
    <2> QED
      BY <1>6, <2>1 DEF Numbered
  <1>7. CASE \/ RequestShutdown \/ Restart \/ UNCHANGED vars
             \/ EndInbox \/ StopInbox \/ EndEpoch
             \/ StopWalk \/ ReachResume \/ SkipOld \/ LogBadCommit
    <2>1. /\ UNCHANGED <<format, size, seen, fresh, archived>>
          /\ \/ UNCHANGED <<pc, outcome>>
             \/ Working
             \/ ~Working' /\ outcome' = outcome
      BY <1>7 DEF RequestShutdown, Restart, vars, EndInbox, StopInbox, Return, EndEpoch,
                  EndEpochAfter, StopWalk, ReachResume, SkipOld, LogBadCommit,
                  HandleCommit, Walking, Working
    <2>2. Counting' => Counting
      BY <2>1 DEF Counting, Working
    <2> QED
      BY <1>6, <2>1, <2>2
  <1>8. ASSUME NEW e \in Epochs, Commit(e)
        PROVE  Numbered'
    <2>1. /\ UNCHANGED <<format, seen, fresh, archived, pc, outcome>>
          /\ size' = [size EXCEPT ![e] = size[e] + 1]
      BY <1>8 DEF Commit
    <2>2. size'[e] = size[e] + 1 /\ seen[e] <= size[e] /\ seen[e] \in Nat /\ size[e] \in Nat
      BY <1>0, <2>1, Ranges DEF Shape, Ground, Placed, Sizes
    <2>3. seen' # size'
      BY <2>1, <2>2
    <2> QED
      BY <1>6, <2>1, <2>3 DEF Counting, Working
  <1> QED
    BY <1>1, <1>2, <1>3, <1>4, <1>5, <1>7, <1>8 DEF Next

(* An email that is fetched by the number it has after a first run is the  *)
(* one that got the number, for any number of epochs and commits.          *)
THEOREM IndexIsNumber == Spec => IndexNamesSameEmail
  <1> DEFINE Inv == FirstCall /\ Numbered
  <1>1. Init => Inv
    BY FirstCallInit DEF Init, Numbered
  <1>2. Inv /\ [Next]_vars => Inv'
    BY FirstCallStep, NumberedKeeps
  <1>3. Inv /\ [Next]_vars =>
          [/\ \E k \in 1..MaxCommits : FetchByIndex(k)
           /\ fresh /\ outcome = "complete" /\ seen = size
           => \A a \in archived : a.num = progress'.num =>
                 a.commit = progress'.commit /\ (IsV1 \/ a.epoch = progress'.epoch)]_vars
    <2> SUFFICES ASSUME Inv, NEW k \in 1..MaxCommits, FetchByIndex(k),
                        fresh, outcome = "complete", seen = size,
                        NEW a \in archived, a.num = progress'.num
                 PROVE  a.commit = progress'.commit /\ (IsV1 \/ a.epoch = progress'.epoch)
      OBVIOUS
    <2>1. /\ progress'.num = k
          /\ k = NumberOf(size, progress'.epoch, progress'.commit)
          /\ progress'.epoch \in Epochs /\ progress'.commit \in 1..size[progress'.epoch]
      BY FetchedIs DEF FirstCall, Shape
    <2>2. Rightly(a)
      BY DEF Numbered, Counting, FetchByIndex
    <2>3. EpochOf(a) = progress'.epoch /\ a.commit = progress'.commit
      BY <2>1, <2>2, NumberNamesOne DEF Rightly, FirstCall, Shape, Ground
    <2> QED
      BY <2>3 DEF EpochOf
  <1> HIDE DEF Inv
  <1> QED
    BY <1>1, <1>2, <1>3, PTL DEF Spec, IndexNamesSameEmail
-----------------------------------------------------------------------------
(* A V1 inbox, which has one epoch: when its oldest commit was archived    *)
(* last, no archived commit has a higher position than the last number;    *)
(* and a walk that resumes there has archived nothing between that number  *)
(* and its own position.                                                   *)
FullRun == progress # None /\ progress.commit = 1 =>
             \A a \in archived : a.commit <= progress.num
SingleEpoch == pc = "epoch" /\ epoch = 1 =>
  IF progress = None THEN skip = 0 /\ global = 0
   ELSE skip = progress.commit /\ global = progress.num
SingleWalk == pc = "walk" =>
  /\ epoch = 1
  /\ resume = 0 <=> global = 0
  /\ \A a \in archived : a.commit <= seen[1]
  /\ resume = 1 => \A a \in archived : a.commit <= global \/ a.commit > pos
Single == IsV1 /\ fetches = 0 => FullRun /\ SingleEpoch /\ SingleWalk

LEMMA SingleBegins ==
  ASSUME Shape, Single, BeginFresh \/ BeginResume \/ BeginPanics
  PROVE  Single'
  <1>1. UNCHANGED <<format, progress, archived, fetches>> /\ pc' # "walk"
    BY DEF BeginFresh, BeginResume, BeginPanics, Begin, inboxData, diskVars
  <1> SUFFICES ASSUME IsV1, fetches = 0
               PROVE  FullRun' /\ SingleEpoch' /\ SingleWalk'
    BY <1>1 DEF Single, IsV1
  <1>2. FullRun' /\ SingleWalk'
    BY <1>1 DEF Single, FullRun, SingleWalk
  <1>3. SingleEpoch'
    BY <1>1 DEF SingleEpoch, BeginFresh, BeginResume, BeginPanics
  <1> QED
    BY <1>2, <1>3

LEMMA SingleStarts ==
  ASSUME Shape, Single, SkipEpoch \/ StartEpoch
  PROVE  Single'
  <1>1. UNCHANGED <<format, size, progress, archived, global, fetches>> /\ AtEpoch
    BY DEF SkipEpoch, StartEpoch, inboxData, diskVars, envVars
  <1> SUFFICES ASSUME IsV1, fetches = 0
               PROVE  FullRun' /\ SingleEpoch' /\ SingleWalk'
    BY <1>1 DEF Single, IsV1
  <1>2. FullRun'
    BY <1>1 DEF Single, FullRun
  <1>3. /\ epoch \in Epochs /\ size[epoch] \in Nat
        /\ seen' = [seen EXCEPT ![epoch] = size[epoch]]
    BY <1>1, EpochIs
  <1>4. epoch = 1
    <2>1. last \in Epochs /\ size[last] > 0 /\ epoch <= last
      BY <1>1, <1>3, SizeAssumption DEF AtEpoch, Shape, Placed, Counters, Epochs
    <2>2. ~(last > 1)
      BY <2>1 DEF Shape, Ground
    <2> QED
      BY <1>3, <2>1, <2>2, Ranges
  <1>5. CASE SkipEpoch
    BY <1>2, <1>4, <1>5 DEF SkipEpoch, AtEpoch, SingleEpoch, SingleWalk
  <1>6. CASE StartEpoch
    <2>1. /\ epoch' = 1 /\ resume' = skip /\ pc' = "walk"
          /\ IF progress = None THEN skip = 0 /\ global = 0
              ELSE skip = progress.commit /\ global = progress.num
      BY <1>4, <1>6 DEF StartEpoch, AtEpoch, Single, SingleEpoch
    <2>2. progress # None => progress.commit \in Nat \ {0} /\ progress.num \in Nat \ {0}
      BY DEF Shape, Disk, EmailId
    <2>3. resume' = 0 <=> global' = 0
      BY <1>1, <2>1, <2>2
    <2>4. seen'[1] = size[1]
      BY <1>3, <1>4 DEF Shape, Placed, Sizes
    <2>5. \A a \in archived' : a.commit <= seen'[1]
      BY <1>1, <2>4 DEF Shape, Disk, Stored, EpochOf
    <2>6. resume' = 1 => \A a \in archived' : a.commit <= global'
      BY <1>1, <2>1, <2>2 DEF Single, FullRun
    <2> QED
      BY <1>2, <2>1, <2>3, <2>5, <2>6 DEF SingleEpoch, SingleWalk
  <1> QED
    BY <1>5, <1>6

(* Only a walk that goes through the whole repository archives its oldest  *)
(* commit, and then its number is no lower than the number of commits.     *)
LEMMA OldestIsLast ==
  ASSUME Shape, Walk, SingleWalk, ArchiveCommit, pos = 1
  PROVE  progress'.num \in Nat /\ seen[1] \in Nat /\ seen[1] <= progress'.num
  <1>1. /\ pc = "walk" /\ pos # resume /\ ~(handled >= new /\ before > 0)
        /\ progress'.num = global + handled + 1
    BY ArchivedIs DEF ArchiveCommit, HandleCommit, Walking
  <1>2. /\ epoch = 1 /\ epoch \in Epochs /\ seen[1] \in Nat /\ resume \in Nat
        /\ before \in Nat /\ new \in Nat /\ handled \in Nat /\ counted \in Nat
        /\ global \in Nat /\ (resume = 0 <=> global = 0)
    BY <1>1, Ranges DEF Shape, Placed, Counters, SingleWalk
  <1>3. handled = counted
    BY <1>1 DEF Walk
  <1>4. CASE pos >= resume /\ counted = seen[1] - pos
    BY <1>1, <1>2, <1>3, <1>4
  <1>5. CASE before = 0 /\ resume > pos /\ counted = seen[1] - 1 - pos
    BY <1>1, <1>2, <1>3, <1>5
  <1>6. \/ pos >= resume /\ counted = seen[1] - pos
        \/ before = 0 /\ resume > pos /\ counted = seen[1] - 1 - pos
    BY <1>1, <1>2 DEF Walk
  <1> QED
    BY <1>4, <1>5, <1>6

LEMMA SingleArchives ==
  ASSUME Shape, Walk, Single, ArchiveCommit
  PROVE  Single'
  <1>1. UNCHANGED <<format, seen, epoch, resume, global, fetches, pc>> /\ pc = "walk"
        /\ pos' = pos - 1
    BY DEF ArchiveCommit, HandleCommit, Walking, inboxData, inboxVars, callVars, envVars
  <1> SUFFICES ASSUME IsV1, fetches = 0
               PROVE  FullRun' /\ SingleEpoch' /\ SingleWalk'
    BY <1>1 DEF Single, IsV1
  <1>2. /\ progress'.commit = pos /\ archived' = archived \cup {progress'}
        /\ pos \in 1..seen[epoch] /\ epoch = 1 /\ seen[1] \in Nat /\ pos \in Nat
        /\ archived \subseteq EmailId
    BY ArchivedIs, Ranges DEF Shape, Placed, Disk
  <1>3. /\ SingleWalk /\ \A a \in archived : a.commit <= seen[1]
        /\ (resume = 0 <=> global = 0)
        /\ resume = 1 => \A a \in archived : a.commit <= global \/ a.commit > pos
    BY <1>1 DEF Single, SingleWalk
  <1>4. \A a \in archived : a.commit \in Nat
    BY <1>2 DEF EmailId
  <1>5. \A a \in archived' : a.commit <= seen[1] /\ a.commit \in Nat
    BY <1>2, <1>3, <1>4
  <1>6. FullRun'
    <2> SUFFICES ASSUME pos = 1, NEW a \in archived'
                 PROVE  a.commit <= progress'.num
      BY <1>2 DEF FullRun
    <2>1. progress'.num \in Nat /\ seen[1] \in Nat /\ seen[1] <= progress'.num
      BY <1>3, OldestIsLast
    <2> QED
      BY <1>5, <2>1
  <1>7. resume = 1 => \A a \in archived' : a.commit <= global \/ a.commit > pos - 1
    BY <1>2, <1>3, <1>4
  <1> QED
    BY <1>1, <1>2, <1>3, <1>5, <1>6, <1>7 DEF SingleEpoch, SingleWalk

LEMMA SingleKeeps ==
  ASSUME Shape, Walk, Single, [Next]_vars
  PROVE  Single'
  <1> USE DEF inboxData, diskVars, inboxVars, walkVars, envVars, callVars
  <1>1. CASE BeginFresh \/ BeginResume \/ BeginPanics
    BY <1>1, SingleBegins
  <1>2. CASE SkipEpoch \/ StartEpoch
    BY <1>2, SingleStarts
  <1>3. CASE ArchiveCommit
    BY <1>3, SingleArchives
  <1>4. CASE StopWalk \/ ReachResume \/ SkipOld \/ LogBadCommit
    <2>1. /\ UNCHANGED <<format, progress, archived, fetches, pc, epoch, global, skip,
                         resume, seen>>
          /\ pc = "walk" /\ pos' <= pos /\ pos' \in Nat /\ pos \in Nat
      BY <1>4 DEF StopWalk, ReachResume, SkipOld, LogBadCommit, HandleCommit, Walking,
                  Shape, Counters
    <2>2. \A a \in archived : a.commit \in Nat
      BY DEF Shape, Disk, EmailId
    <2>3. \A a \in archived : a.commit > pos => a.commit > pos'
      BY <2>1, <2>2
    <2> QED
      BY <2>1, <2>3 DEF Single, FullRun, SingleEpoch, SingleWalk, IsV1
  <1>5. CASE EndEpoch
    <2>1. /\ UNCHANGED <<format, progress, archived, fetches>> /\ pc' = "epoch"
          /\ pc = "walk" /\ epoch' = epoch + 1
      BY <1>5 DEF EndEpoch, EndEpochAfter
    <2>2. Single => (IsV1 /\ fetches = 0 => epoch' # 1)
      BY <2>1 DEF Single, SingleWalk
    <2> QED
      BY <2>1, <2>2 DEF Single, FullRun, SingleEpoch, SingleWalk, IsV1
  <1>6. CASE \/ (\E e \in Epochs : Commit(e)) \/ UNCHANGED vars
             \/ RequestShutdown \/ Restart \/ EndInbox \/ StopInbox
    <2>1. /\ UNCHANGED <<format, progress, archived, fetches, epoch, global, skip, resume,
                         seen, pos>>
          /\ pc' = pc \/ pc' = "idle"
      BY <1>6 DEF Commit, vars, RequestShutdown, Restart, EndInbox, StopInbox, Return
    <2> QED
      BY <2>1 DEF Single, FullRun, SingleEpoch, SingleWalk, IsV1
  <1>7. CASE \E k \in 1..MaxCommits : FetchByIndex(k)
    <2>1. fetches' # 0
      BY <1>7 DEF FetchByIndex, Shape, Counters
    <2> QED
      BY <2>1 DEF Single
  <1> QED
    BY <1>1, <1>2, <1>3, <1>4, <1>5, <1>6, <1>7 DEF Next

(* When the oldest commit of a V1 inbox was archived last and more than    *)
(* one email arrived since, the next run archives new emails only, however *)
(* many commits the inbox has.                                             *)
THEOREM OnlyNewIsArchived == Spec => NewOnlyAfterFullRun
  <1> DEFINE Inv == Shape /\ Walk /\ Single
  <1>1. Init => Inv
    BY ShapeInit DEF Init, Walk, Single, FullRun, SingleEpoch, SingleWalk
  <1>2. Inv /\ [Next]_vars => Inv'
    BY ShapeStep, WalkKeeps, SingleKeeps
  <1>3. Inv /\ [Next]_vars =>
          [ArchiveCommit /\ IsV1 /\ resume = 1 /\ before > global /\ fetches = 0
             => <<epoch, pos>> \notin Covered]_vars
    <2> SUFFICES ASSUME Inv, ArchiveCommit, IsV1, resume = 1, before > global,
                        fetches = 0, <<epoch, pos>> \in Covered
                 PROVE  FALSE
      OBVIOUS
    <2>1. /\ pc = "walk" /\ pos # resume /\ ~(handled >= new /\ before > 0)
          /\ <<epoch, pos>> \notin errors
      BY DEF ArchiveCommit, HandleCommit, Walking, Shape, Disk
    <2>2. /\ pos \in 1..seen[epoch] /\ pos \in Nat /\ seen[epoch] \in Nat
          /\ before \in Nat /\ new \in Nat /\ handled \in Nat /\ counted \in Nat
          /\ global \in Nat /\ epoch \in Epochs
      BY ArchivedIs, Ranges DEF Shape, Placed, Counters
    <2>3. PICK a \in archived : a.commit = pos
      BY <2>1 DEF Covered
    <2>4. global # 0 /\ (a.commit <= global \/ a.commit > pos)
      BY <2>1 DEF Single, SingleWalk
    <2>5. pos <= global
      BY <2>2, <2>3, <2>4
    <2>6. /\ before = seen[epoch] - 1 /\ new = Minus(before, OldNonResume(before))
          /\ handled = counted /\ counted = seen[epoch] - pos /\ handled < new
      BY <2>1, <2>2 DEF Walk
    <2>7. OldNonResume(before) = global - 1
      BY <2>2, <2>4 DEF OldNonResume, Minus
    <2>8. new = seen[epoch] - global
      BY <2>2, <2>6, <2>7 DEF Minus
    <2> QED
      BY <2>2, <2>5, <2>6, <2>8
  <1> HIDE DEF Inv
  <1> QED
    BY <1>1, <1>2, <1>3, PTL DEF Spec, NewOnlyAfterFullRun
=============================================================================
