------------------------- MODULE CotTransformsProofs -------------------------
(* Theorems about CotTransforms, for any hexes, values and bounds. *)
EXTENDS CotTransforms, FiniteSetTheorems, WellFoundedInduction, TLAPS

-----------------------------------------------------------------------------
(* Sets of ids *)

LEMMA LeastIn ==
  ASSUME NEW less, NEW S \in SUBSET Nat, NEW i \in S,
         \A j, k \in Nat : j < k => <<j, k>> \in less,
         \A j \in S : ~ (<<j, i>> \in less)
  PROVE  \A j \in S : i <= j
<1>1. ASSUME NEW j \in S, j < i
      PROVE  FALSE
  <2>1. j \in Nat /\ i \in Nat
    OBVIOUS
  <2>2. <<j, i>> \in less
    BY <1>1, <2>1
  <2> QED
    BY <2>2
<1>2. \A j \in S : j \in Int /\ i \in Int /\ ~ (j < i)
  BY <1>1
<1> QED
  BY <1>2

Less == OpToRel(<, Nat)

\* A set of ids that is not empty has a smallest one.
LEMMA SmallestExists ==
  ASSUME NEW S \in SUBSET Nat, S # {}
  PROVE  /\ Smallest(S) \in S
         /\ \A j \in S : Smallest(S) <= j
<1>1. PICK i \in S : \A j \in S : ~ (<<j, i>> \in Less)
  BY NatLessThanWellFounded, WFMin DEF Less
<1>2. \A j, k \in Nat : j < k => <<j, k>> \in Less
  BY DEF Less, OpToRel
<1>3. \A j \in S : i <= j
  BY <1>1, <1>2, LeastIn, Zenon
<1> QED
  BY <1>3 DEF Smallest

\* The ids an import gives are those after the last, as many as it adds lines.
LEMMA GivenIds ==
  ASSUME NEW n \in Nat, NEW new \in SUBSET (1..n), NEW k \in new
  PROVE  /\ Cardinality({j \in new : j < k}) \in Nat
         /\ Cardinality(new) \in Nat
         /\ Cardinality({j \in new : j < k}) < Cardinality(new)
         /\ Cardinality(new) <= n
<1> DEFINE below == {j \in new : j < k}
<1>1. IsFiniteSet(1..n) /\ Cardinality(1..n) = n
  BY FS_Interval
<1>2. IsFiniteSet(new) /\ Cardinality(new) <= n
  BY <1>1, FS_Subset
<1>3. below \in SUBSET new /\ below # new
  OBVIOUS
<1> HIDE DEF below
<1>4. IsFiniteSet(below) /\ Cardinality(below) <= Cardinality(new)
      /\ Cardinality(below) # Cardinality(new)
  BY <1>2, <1>3, FS_Subset
<1>5. Cardinality(new) \in Nat /\ Cardinality(below) \in Nat
  BY <1>2, <1>4, FS_CardinalityType
<1>6. Cardinality(below) < Cardinality(new)
  BY <1>4, <1>5
<1> QED
  BY <1>2, <1>5, <1>6 DEF below

-----------------------------------------------------------------------------
(* What an operation leaves of the lines *)

LEMMA NoTfNotLine == NoTf \notin TfLine
  BY TfAssumption DEF TfLine

LEMMA LineOfFields ==
  ASSUME NEW x \in TfHexes, NEW v \in TfVals
  PROVE  /\ [hex |-> x, val |-> v] \in TfLine
         /\ [hex |-> x, val |-> v].hex = x
  BY DEF TfLine

LEMMA LineOfValue ==
  ASSUME NEW ln \in TfLine, NEW v \in TfVals
  PROVE  /\ [ln EXCEPT !.val = v] \in TfLine
         /\ [ln EXCEPT !.val = v].hex = ln.hex
  BY DEF TfLine

\* Only what is no line is set to none, and a value is all that changes.
Thinned(rows, rows2) ==
    /\ rows2 \in [TfIds -> TfLine \cup {NoTf}]
    /\ \A i \in TfIds : rows2[i] # NoTf => rows[i] # NoTf /\ rows2[i].hex = rows[i].hex

LEMMA ThinnedIds ==
  ASSUME NEW rows, NEW rows2, Thinned(rows, rows2), NEW x
  PROVE  IdsOf(rows2, x) \subseteq IdsOf(rows, x)
  BY DEF Thinned, IdsOf

\* An operation that gives lines their hex leaves each hex with lines it had, or with one.
Single(rows, rows2) ==
    \A x \in TfHexes : Several(IdsOf(rows2, x)) => IdsOf(rows2, x) \subseteq IdsOf(rows, x)

LEMMA WriteIsSingle ==
  ASSUME TfTypeOK, NEW i \in TfIds, NEW x \in TfHexes, NEW v \in TfVals,
         IdsOf(tf, x) \subseteq {i},
         tf' = [tf EXCEPT ![i] = [hex |-> x, val |-> v]]
  PROVE  Single(tf, tf') /\ tf' \in [TfIds -> TfLine \cup {NoTf}]
<1> DEFINE line == [hex |-> x, val |-> v]
<1>1. line \in TfLine /\ line.hex = x
  BY LineOfFields
<1> HIDE DEF line
<1>2. tf' = [tf EXCEPT ![i] = line]
  BY DEF line
<1>3. tf' \in [TfIds -> TfLine \cup {NoTf}]
  BY <1>1, <1>2 DEF TfTypeOK
<1>4. IdsOf(tf', x) = {i}
  BY <1>1, <1>2, NoTfNotLine DEF TfTypeOK, IdsOf
<1>5. \A y \in TfHexes : y # x => IdsOf(tf', y) \subseteq IdsOf(tf, y)
  BY <1>1, <1>2 DEF TfTypeOK, IdsOf
<1>6. \A S : S = {i} => ~Several(S)
  BY DEF Several
<1> QED
  BY <1>3, <1>4, <1>5, <1>6 DEF Single

LEMMA ThinnedIsSingle ==
  ASSUME NEW rows, NEW rows2, Thinned(rows, rows2)
  PROVE  Single(rows, rows2)
  BY ThinnedIds DEF Single

LEMMA DeleteIsThinned ==
  ASSUME TfTypeOK, NEW S, tf' = [i \in TfIds |-> IF i \in S THEN NoTf ELSE tf[i]]
  PROVE  Thinned(tf, tf')
  BY DEF TfTypeOK, Thinned

LEMMA AutomergeIsThinned ==
  ASSUME TfTypeOK
  PROVE  Thinned(tf, Automerged(tf))
  BY DEF TfTypeOK, Thinned, Automerged

LEMMA MergedLineType ==
  ASSUME TfTypeOK, NEW i \in TfIds, NEW G \in SUBSET shown,
         NEW keep \in [G -> TfIds], NEW val \in [G -> TfVals],
         MergedLine(i, G, keep, val) # tf[i], MergedLine(i, G, keep, val) # NoTf
  PROVE  /\ MergedLine(i, G, keep, val) \in TfLine
         /\ tf[i] # NoTf
         /\ MergedLine(i, G, keep, val).hex = tf[i].hex
<1> DEFINE g == CHOOSE g \in G : g.hex = tf[i].hex
<1>1. PICK h \in G : i \in IdsOf(tf, h.hex)
  BY DEF MergedLine
<1>2. tf[i] \in TfLine /\ tf[i] # NoTf /\ h.hex = tf[i].hex
  BY <1>1 DEF IdsOf, TfTypeOK
<1>3. g \in G
  BY <1>2
<1>4. MergedLine(i, G, keep, val) = [tf[i] EXCEPT !.val = val[g]]
  BY DEF MergedLine
<1> HIDE DEF g
<1>5. val[g] \in TfVals
  BY <1>3
<1> QED
  BY <1>2, <1>4, <1>5, LineOfValue

LEMMA MergeIsThinned ==
  ASSUME TfTypeOK, NEW G \in SUBSET shown, NEW keep \in [G -> TfIds], NEW val \in [G -> TfVals],
         tf' = [i \in TfIds |-> MergedLine(i, G, keep, val)]
  PROVE  Thinned(tf, tf')
<1>1. \A i \in TfIds : tf'[i] = MergedLine(i, G, keep, val)
  OBVIOUS
<1>2. \A i \in TfIds : tf[i] \in TfLine \cup {NoTf}
  BY DEF TfTypeOK
<1>3. \A i \in TfIds : \/ tf'[i] = tf[i]
                       \/ tf'[i] = NoTf
                       \/ tf'[i] \in TfLine /\ tf[i] # NoTf /\ tf'[i].hex = tf[i].hex
  BY <1>1, MergedLineType
<1>4. tf' \in [TfIds -> TfLine \cup {NoTf}]
  <2>1. \A i \in TfIds : tf'[i] \in TfLine \cup {NoTf}
    BY <1>2, <1>3
  <2>2. tf' = [i \in TfIds |-> tf'[i]]
    BY <1>1
  <2> QED
    BY <2>1, <2>2
<1> QED
  BY <1>3, <1>4 DEF Thinned

-----------------------------------------------------------------------------
(* What an import adds *)

\* The id that an import gives to row k.
IdOf(new, k) == tfNext + Cardinality({j \in new : j < k})

LEMMA ImportLines ==
  ASSUME NEW file, TfImport(file), NEW i \in TfIds
  PROVE  \/ \E k \in NewRows(file) : /\ IdOf(NewRows(file), k) = i
                                      /\ tf'[i] = [hex |-> file[k].hex, val |-> file[k].val]
         \/ tf'[i] = tf[i]
<1> DEFINE k0 == CHOOSE k \in NewRows(file) : IdOf(NewRows(file), k) = i
<1>1. tf'[i] = IF \E k \in NewRows(file) : IdOf(NewRows(file), k) = i
               THEN [hex |-> file[k0].hex, val |-> file[k0].val]
               ELSE tf[i]
  BY DEF TfImport, IdOf
<1>2. CASE \E k \in NewRows(file) : IdOf(NewRows(file), k) = i
  <2>1. k0 \in NewRows(file) /\ IdOf(NewRows(file), k0) = i
    BY <1>2
  <2> QED
    BY <1>1, <1>2, <2>1
<1>3. CASE ~ \E k \in NewRows(file) : IdOf(NewRows(file), k) = i
  BY <1>1, <1>3
<1> QED
  BY <1>2, <1>3

LEMMA ImportType ==
  ASSUME TfTypeOK, NEW file \in Seq(TfLine), TfImport(file)
  PROVE  /\ tf' \in [TfIds -> TfLine \cup {NoTf}]
         /\ tfNext' \in 1..(MaxTf + 1)
         /\ \A i \in TfIds : tf'[i] # NoTf => i < tfNext'
<1> DEFINE new == NewRows(file)
           n == Len(file)
<1>1. n \in Nat /\ new \in SUBSET (1..n) /\ \A k \in new : file[k] \in TfLine
  BY DEF NewRows
<1>2. /\ tfNext + n <= MaxTf + 1
      /\ tfNext' = tfNext + Cardinality(new)
      /\ tfNext \in 1..(MaxTf + 1)
      /\ MaxTf \in Nat
  BY TfAssumption DEF TfImport, TfTypeOK
<1>3. /\ tf' = [i \in TfIds |-> tf'[i]]
      /\ \A i \in TfIds : \/ \E k \in new : /\ IdOf(new, k) = i
                                            /\ tf'[i] = [hex |-> file[k].hex, val |-> file[k].val]
                          \/ tf'[i] = tf[i]
  <2>1. tf' = [i \in TfIds |-> tf'[i]]
    BY DEF TfImport
  <2> QED
    BY <2>1, ImportLines, Zenon
<1> HIDE DEF new, n
<1>4. IsFiniteSet(new) /\ Cardinality(new) \in Nat /\ Cardinality(new) <= n
  <2>1. IsFiniteSet(1..n) /\ Cardinality(1..n) = n
    BY <1>1, FS_Interval
  <2>2. IsFiniteSet(new) /\ Cardinality(new) <= n
    BY <1>1, <2>1, FS_Subset
  <2> QED
    BY <2>2, FS_CardinalityType
<1>5. \A k \in new : IdOf(new, k) < tfNext'
  <2> SUFFICES ASSUME NEW k \in new
               PROVE  IdOf(new, k) < tfNext'
    OBVIOUS
  <2> DEFINE below == Cardinality({j \in new : j < k})
  <2>1. below \in Nat /\ below < Cardinality(new)
    BY <1>1, GivenIds
  <2>2. IdOf(new, k) = tfNext + below
    BY DEF IdOf
  <2> HIDE DEF below
  <2> QED
    BY <1>2, <1>4, <2>1, <2>2
<1>6. \A k \in new : [hex |-> file[k].hex, val |-> file[k].val] \in TfLine
  BY <1>1 DEF TfLine
<1>7. tf' \in [TfIds -> TfLine \cup {NoTf}]
  <2>1. \A i \in TfIds : tf'[i] \in TfLine \cup {NoTf}
    BY <1>3, <1>6 DEF TfTypeOK
  <2> QED
    BY <1>3, <2>1
<1>8. tfNext' \in 1..(MaxTf + 1)
  BY <1>1, <1>2, <1>4
<1>9. \A i \in TfIds : tf'[i] # NoTf => i < tfNext'
  <2> SUFFICES ASSUME NEW i \in TfIds, tf'[i] # NoTf
               PROVE  i < tfNext'
    OBVIOUS
  <2>1. CASE \E k \in new : IdOf(new, k) = i
    BY <2>1, <1>5
  <2>2. CASE tf'[i] = tf[i]
    BY <2>2, <1>2, <1>4 DEF TfTypeOK, TfRows, TfIds
  <2> QED
    BY <2>1, <2>2, <1>3
<1> QED
  BY <1>7, <1>8, <1>9

LEMMA ImportIsSingle ==
  ASSUME TfTypeOK, NEW file \in Seq(TfLine), TfImport(file)
  PROVE  Single(tf, tf')
<1> DEFINE new == NewRows(file)
<1>1. /\ \A k \in new : k \in Int /\ file[k] \in TfLine /\ IdsOf(tf, file[k].hex) = {}
      /\ \A j, k \in new : j < k => file[j].hex # file[k].hex
  BY DEF NewRows
<1>2. \A j, k \in new : file[j].hex = file[k].hex => j = k
  BY <1>1
<1>3. \A i \in TfIds :
         \/ \E k \in new : IdOf(new, k) = i /\ tf'[i].hex = file[k].hex
         \/ tf'[i] = tf[i]
  <2> SUFFICES ASSUME NEW i \in TfIds
               PROVE  \/ \E k \in new : IdOf(new, k) = i /\ tf'[i].hex = file[k].hex
                      \/ tf'[i] = tf[i]
    OBVIOUS
  <2>1. CASE tf'[i] # tf[i]
    <3>1. PICK k \in new : IdOf(new, k) = i /\ tf'[i] = [hex |-> file[k].hex, val |-> file[k].val]
      BY <2>1, ImportLines, Zenon
    <3> QED
      BY <3>1
  <2> QED
    BY <2>1
<1> HIDE DEF new
<1> SUFFICES ASSUME NEW x \in TfHexes, Several(IdsOf(tf', x))
             PROVE  IdsOf(tf', x) \subseteq IdsOf(tf, x)
  BY DEF Single
<1>4. \A i \in IdsOf(tf', x) : \/ \E k \in new : IdOf(new, k) = i /\ file[k].hex = x
                               \/ i \in IdsOf(tf, x)
  BY <1>3 DEF IdsOf
<1>5. CASE IdsOf(tf, x) # {}
  BY <1>1, <1>4, <1>5
<1>6. CASE IdsOf(tf, x) = {}
  <2>1. \A i, j \in IdsOf(tf', x) : i = j
    BY <1>2, <1>4, <1>6
  <2> QED
    BY <2>1 DEF Several
<1> QED
  BY <1>5, <1>6

-----------------------------------------------------------------------------
(* Types *)

LEMMA GroupsType ==
  ASSUME NEW rows
  PROVE  Groups(rows) \subseteq [hex : TfHexes, ids : SUBSET TfIds]
<1>1. \A x \in TfHexes : [hex |-> x, ids |-> IdsOf(rows, x)] \in [hex : TfHexes, ids : SUBSET TfIds]
  BY DEF IdsOf
<1> QED
  BY <1>1 DEF Groups, Duplicated

LEMMA FileType ==
  ASSUME NEW l1 \in TfLine, NEW l2 \in TfLine
  PROVE  <<l1, l2>> \in Seq(TfLine)
  OBVIOUS

LEMMA ThinnedKeepsTypes ==
  ASSUME TfTypeOK, Thinned(tf, tf'), tfNext' = tfNext,
         shown' \subseteq [hex : TfHexes, ids : SUBSET TfIds]
  PROVE  TfTypeOK'
  BY DEF TfTypeOK, Thinned, TfRows

\* What each operation is, apart from how it changes the table.
LEMMA StepType ==
  ASSUME TfTypeOK, TfNext
  PROVE  TfTypeOK' /\ (Thinned(tf, tf') \/ Single(tf, tf'))
<1>1. ASSUME NEW x \in TfHexes, NEW v \in TfVals, TfCreate(x, v)
      PROVE  TfTypeOK' /\ Single(tf, tf')
  <2>1. Single(tf, tf') /\ tf' \in [TfIds -> TfLine \cup {NoTf}]
    BY <1>1, WriteIsSingle DEF TfCreate
  <2>2. tfNext \in Int /\ tfNext' = tfNext + 1 /\ tfNext \in 1..MaxTf /\ MaxTf \in Nat
    BY <1>1, TfAssumption DEF TfCreate, TfIds
  <2>3. \A i \in TfIds : tf'[i] # NoTf => i < tfNext'
    BY <1>1, <2>2 DEF TfCreate, TfTypeOK, TfRows, TfIds
  <2>4. tfNext' \in 1..(MaxTf + 1)
    BY <2>2
  <2> QED
    BY <1>1, <2>1, <2>3, <2>4 DEF TfCreate, TfTypeOK, TfRows
<1>2. ASSUME NEW x \in TfHexes, NEW v \in TfVals, NEW i \in TfIds, TfUpdate(i, x, v)
      PROVE  TfTypeOK' /\ Single(tf, tf')
  <2>1. Single(tf, tf') /\ tf' \in [TfIds -> TfLine \cup {NoTf}]
    BY <1>2, WriteIsSingle DEF TfUpdate
  <2>2. \A j \in TfIds : tf'[j] # NoTf => tf[j] # NoTf
    BY <1>2 DEF TfUpdate, TfTypeOK, TfRows
  <2> QED
    BY <1>2, <2>1, <2>2 DEF TfUpdate, TfTypeOK, TfRows
<1>3. ASSUME NEW S \in SUBSET TfIds, TfDelete(S)
      PROVE  TfTypeOK' /\ Thinned(tf, tf')
  <2>1. Thinned(tf, tf')
    BY <1>3, DeleteIsThinned DEF TfDelete
  <2>2. tfNext' = tfNext /\ shown' = shown
    BY <1>3 DEF TfDelete
  <2> QED
    BY <2>1, <2>2, ThinnedKeepsTypes DEF TfTypeOK
<1>4. ASSUME NEW l1 \in TfLine, NEW l2 \in TfLine, TfImport(<<l1, l2>>)
      PROVE  TfTypeOK' /\ Single(tf, tf')
  <2> DEFINE file == <<l1, l2>>
  <2>1. file \in Seq(TfLine) /\ TfImport(file)
    BY <1>4, FileType
  <2> HIDE DEF file
  <2>2. shown' = shown
    BY <2>1 DEF TfImport
  <2> QED
    BY <2>1, <2>2, ImportType, ImportIsSingle DEF TfTypeOK, TfRows
<1>5. ASSUME FindDuplicates
      PROVE  TfTypeOK' /\ Thinned(tf, tf')
  BY <1>5, GroupsType DEF FindDuplicates, TfTypeOK, TfRows, Thinned
<1>6. ASSUME Automerge
      PROVE  TfTypeOK' /\ Thinned(tf, tf')
  <2>1. Thinned(tf, tf')
    BY <1>6, AutomergeIsThinned DEF Automerge
  <2>2. tfNext' = tfNext /\ shown' \subseteq [hex : TfHexes, ids : SUBSET TfIds]
    BY <1>6, GroupsType DEF Automerge
  <2> QED
    BY <2>1, <2>2, ThinnedKeepsTypes
<1>7. ASSUME NEW G \in SUBSET shown, NEW keep \in [G -> TfIds], NEW val \in [G -> TfVals],
             TfMerge(G, keep, val)
      PROVE  TfTypeOK' /\ Thinned(tf, tf')
  <2>1. Thinned(tf, tf')
    BY <1>7, MergeIsThinned DEF TfMerge
  <2>2. tfNext' = tfNext /\ shown' = shown
    BY <1>7 DEF TfMerge
  <2> QED
    BY <2>1, <2>2, ThinnedKeepsTypes DEF TfTypeOK
<1> QED
  BY <1>1, <1>2, <1>3, <1>4, <1>5, <1>6, <1>7 DEF TfNext, TfLine

LEMMA InitType == TfInit => TfTypeOK
<1> SUFFICES ASSUME TfInit PROVE TfTypeOK
  OBVIOUS
<1>1. PICK n \in 0..MaxTf : /\ tf \in [TfIds -> TfLine \cup {NoTf}]
                            /\ \A i \in TfIds : tf[i] = NoTf <=> i > n
                            /\ tfNext = n + 1
  BY DEF TfInit
<1>2. MaxTf \in Nat /\ shown = {}
  BY TfAssumption DEF TfInit
<1> QED
  BY <1>1, <1>2 DEF TfTypeOK, TfRows, TfIds

\* The table, the next id and the page keep their types.
THEOREM TypeCorrect == TfSpec => []TfTypeOK
<1>1. TfTypeOK /\ UNCHANGED tfVars => TfTypeOK'
  BY DEF TfTypeOK, TfRows, tfVars
<1>2. TfTypeOK /\ [TfNext]_tfVars => TfTypeOK'
  BY <1>1, StepType
<1> QED
  BY InitType, <1>2, PTL DEF TfSpec

-----------------------------------------------------------------------------
(* Duplicates *)

LEMMA StepIsSingle ==
  ASSUME TfTypeOK, TfNext
  PROVE  Single(tf, tf')
  BY StepType, ThinnedIsSingle

\* A hex never gets a second line: by no way of adding or changing lines, nor by
\* two rows of one imported file.
THEOREM NoDuplicatesMade == TfSpec => NoNewDuplicates
<1>1. TfTypeOK /\ [TfNext]_tfVars =>
        [\A x \in TfHexes :
           Several(IdsOf(tf', x)) => IdsOf(tf', x) \subseteq IdsOf(tf, x)]_tfVars
  BY StepIsSingle DEF Single
<1> QED
  BY <1>1, TypeCorrect, PTL DEF TfSpec, NoNewDuplicates

\* A step shows the page nothing new, or all there is now.
LEMMA ShownStep ==
  ASSUME TfNext
  PROVE  shown' = shown \/ shown' = Groups(tf')
  BY DEF TfNext, TfCreate, TfUpdate, TfDelete, TfImport, FindDuplicates, Automerge, TfMerge

LEMMA SingleShowsAll ==
  ASSUME TfTypeOK, ShownIsAll, Single(tf, tf'), shown' = shown
  PROVE  ShownIsAll'
<1> SUFFICES ASSUME NEW g \in shown
             PROVE  IdsOf(tf', g.hex) \subseteq g.ids \/ IdsOf(tf', g.hex) \cap g.ids = {}
  BY DEF ShownIsAll
<1>1. g.hex \in TfHexes
  BY DEF TfTypeOK
<1>2. IdsOf(tf, g.hex) \subseteq g.ids \/ IdsOf(tf, g.hex) \cap g.ids = {}
  BY DEF ShownIsAll
<1>3. CASE Several(IdsOf(tf', g.hex))
  BY <1>1, <1>2, <1>3 DEF Single
<1>4. CASE ~ Several(IdsOf(tf', g.hex))
  BY <1>4 DEF Several
<1> QED
  BY <1>3, <1>4

\* A merge never deletes a line its page did not show.
THEOREM MergesSeeAll == TfSpec => []ShownIsAll
<1>1. TfInit => ShownIsAll
  BY DEF TfInit, ShownIsAll
<1>2. TfTypeOK /\ ShownIsAll /\ TfNext => ShownIsAll'
  <2> SUFFICES ASSUME TfTypeOK, ShownIsAll, TfNext
               PROVE  ShownIsAll'
    OBVIOUS
  <2>1. CASE shown' = shown
    BY <2>1, StepIsSingle, SingleShowsAll
  <2>2. CASE shown' = Groups(tf')
    BY <2>2 DEF ShownIsAll, Groups
  <2> QED
    BY <2>1, <2>2, ShownStep
<1>3. ShownIsAll /\ UNCHANGED tfVars => ShownIsAll'
  BY DEF ShownIsAll, IdsOf, tfVars
<1>4. TfTypeOK /\ ShownIsAll /\ [TfNext]_tfVars => ShownIsAll'
  BY <1>2, <1>3
<1> QED
  BY <1>1, <1>4, TypeCorrect, PTL DEF TfSpec

-----------------------------------------------------------------------------
(* Merging *)

\* Of lines that are exactly the same one is left.
LEMMA AutomergeKeepsLines ==
  ASSUME TfTypeOK
  PROVE  Lines(Automerged(tf)) = Lines(tf)
<1> DEFINE rows == Automerged(tf)
<1>1. \A i \in TfIds : rows[i] = NoTf \/ rows[i] = tf[i]
  BY DEF Automerged
<1>2. ASSUME NEW i \in TfIds, tf[i] # NoTf
      PROVE  \E j \in TfIds : rows[j] = tf[i]
  <2> DEFINE S == IdsOf(tf, tf[i].hex)
             least == Smallest(S)
  <2>1. tf[i] \in TfLine /\ tf[i].hex \in TfHexes
    BY <1>2 DEF TfTypeOK, TfLine
  <2>2. CASE rows[i] # NoTf
    BY <1>1, <2>2
  <2>3. CASE rows[i] = NoTf
    <3>1. Exact(tf, tf[i].hex)
      BY <1>2, <2>3 DEF Automerged
    <3>2. S \in SUBSET Nat /\ i \in S /\ S \subseteq TfIds
      BY <1>2 DEF IdsOf, TfIds
    <3>3. least \in S
      BY <3>2, SmallestExists
    <3>4. least \in TfIds /\ tf[least] # NoTf /\ tf[least].hex = tf[i].hex
      BY <3>3 DEF IdsOf
    <3>5. tf[least].val = tf[i].val
      BY <3>1, <3>2, <3>3 DEF Exact
    <3>6. tf[least] = tf[i]
      BY <2>1, <3>4, <3>5 DEF TfTypeOK, TfLine
    <3>7. rows[least] = tf[least]
      BY <3>4 DEF Automerged
    <3> QED
      BY <3>4, <3>6, <3>7
  <2> QED
    BY <2>2, <2>3
<1> HIDE DEF rows
<1>3. Lines(rows) = Lines(tf)
  BY <1>1, <1>2 DEF Lines
<1> QED
  BY <1>3 DEF rows

\* A merge by hand leaves each hex the line that was chosen.
LEMMA MergeKeepsHexes ==
  ASSUME TfTypeOK, NEW G \in SUBSET shown, NEW keep \in [G -> TfIds], NEW val \in [G -> TfVals],
         TfMerge(G, keep, val), NEW i \in TfIds, tf[i] # NoTf
  PROVE  \E j \in TfIds : tf'[j] # NoTf /\ tf'[j].hex = tf[i].hex
<1> DEFINE g == CHOOSE g \in G : g.hex = tf[i].hex
           k == keep[g]
<1>1. \A j \in TfIds : tf'[j] = MergedLine(j, G, keep, val)
  BY DEF TfMerge
<1>2. CASE ~\E h \in G : i \in IdsOf(tf, h.hex) /\ Several(IdsOf(tf, h.hex))
  BY <1>1, <1>2 DEF MergedLine
<1>3. CASE \E h \in G : i \in IdsOf(tf, h.hex) /\ Several(IdsOf(tf, h.hex))
  <2>1. PICK h \in G : i \in IdsOf(tf, h.hex) /\ Several(IdsOf(tf, h.hex))
    BY <1>3
  <2>2. h.hex = tf[i].hex
    BY <2>1 DEF IdsOf
  <2>3. g \in G /\ g.hex = tf[i].hex
    BY <2>2
  <2>4. k \in IdsOf(tf, tf[i].hex)
    BY <2>3 DEF TfMerge
  <2>5. k \in TfIds /\ tf[k] \in TfLine /\ tf[k] # NoTf /\ tf[k].hex = tf[i].hex
    BY <2>4 DEF IdsOf, TfTypeOK
  <2>6. k \in IdsOf(tf, h.hex) /\ g = CHOOSE g1 \in G : g1.hex = tf[k].hex
    BY <2>2, <2>4, <2>5
  <2>7. MergedLine(k, G, keep, val) = [tf[k] EXCEPT !.val = val[g]]
    BY <2>1, <2>6 DEF MergedLine
  <2>8. val[g] \in TfVals
    BY <2>3
  <2> HIDE DEF g, k
  <2>9. tf'[k] \in TfLine /\ tf'[k].hex = tf[i].hex
    BY <1>1, <2>5, <2>7, <2>8, LineOfValue
  <2> QED
    BY <2>5, <2>9, NoTfNotLine
<1> QED
  BY <1>2, <1>3

LEMMA HexesFromRows ==
  ASSUME NEW rows, NEW rows2,
         \A i \in TfIds : rows[i] # NoTf =>
            \E j \in TfIds : rows2[j] # NoTf /\ rows2[j].hex = rows[i].hex
  PROVE  HexesOf(rows) \subseteq HexesOf(rows2)
  BY DEF HexesOf, Lines

LEMMA ImportKeepsRows ==
  ASSUME TfTypeOK, NEW file \in Seq(TfLine), TfImport(file), NEW i \in TfIds, tf[i] # NoTf
  PROVE  tf'[i] = tf[i]
<1>1. CASE \E k \in NewRows(file) : IdOf(NewRows(file), k) = i
  <2>1. PICK k \in NewRows(file) : IdOf(NewRows(file), k) = i
    BY <1>1
  <2> DEFINE below == Cardinality({j \in NewRows(file) : j < k})
  <2>2. NewRows(file) \in SUBSET (1..Len(file)) /\ Len(file) \in Nat
    BY DEF NewRows
  <2>3. below \in Nat
    BY <2>2, GivenIds
  <2>4. i = tfNext + below
    BY <2>1 DEF IdOf
  <2>5. i < tfNext /\ tfNext \in Int
    BY DEF TfTypeOK, TfRows
  <2> HIDE DEF below
  <2> QED
    BY <2>3, <2>4, <2>5
<1>2. CASE ~\E k \in NewRows(file) : IdOf(NewRows(file), k) = i
  BY <1>2, ImportLines
<1> QED
  BY <1>1, <1>2

\* The operations that may take a hex away.
Taken == \/ \E S \in SUBSET TfIds : TfDelete(S)
         \/ \E i \in TfIds, x \in TfHexes, v \in TfVals : TfUpdate(i, x, v)

\* Merging what is exactly the same loses nothing, and merging by hand loses no
\* aircraft: only a deletion, or a new hex in a line, takes a hex away.
THEOREM LinesKept == TfSpec => MergesKeepLines
<1>1. ASSUME TfTypeOK, TfNext
      PROVE  (Automerge => Lines(tf') = Lines(tf)) /\ (HexesOf(tf) \subseteq HexesOf(tf') \/ Taken)
  <2>1. Automerge => Lines(tf') = Lines(tf)
    BY <1>1, AutomergeKeepsLines DEF Automerge
  <2>2. ASSUME NEW x \in TfHexes, NEW v \in TfVals, TfCreate(x, v)
        PROVE  HexesOf(tf) \subseteq HexesOf(tf')
    <3>1. \A i \in TfIds : tf[i] # NoTf => i # tfNext
      BY <1>1 DEF TfTypeOK, TfRows
    <3>2. \A i \in TfIds : tf[i] # NoTf => tf'[i] = tf[i]
      BY <1>1, <2>2, <3>1 DEF TfCreate, TfTypeOK
    <3> QED
      BY <3>2, HexesFromRows
  <2>3. ASSUME NEW l1 \in TfLine, NEW l2 \in TfLine, TfImport(<<l1, l2>>)
        PROVE  HexesOf(tf) \subseteq HexesOf(tf')
    <3> DEFINE file == <<l1, l2>>
    <3>1. file \in Seq(TfLine) /\ TfImport(file)
      BY <2>3, FileType
    <3> HIDE DEF file
    <3>2. \A i \in TfIds : tf[i] # NoTf => tf'[i] = tf[i]
      BY <1>1, <3>1, ImportKeepsRows
    <3> QED
      BY <3>2, HexesFromRows
  <2>4. ASSUME NEW G \in SUBSET shown, NEW keep \in [G -> TfIds], NEW val \in [G -> TfVals],
               TfMerge(G, keep, val)
        PROVE  HexesOf(tf) \subseteq HexesOf(tf')
    BY <1>1, <2>4, MergeKeepsHexes, HexesFromRows
  <2>5. CASE Automerge
    BY <2>1, <2>5 DEF HexesOf
  <2>6. CASE FindDuplicates
    BY <2>6 DEF FindDuplicates
  <2>7. HexesOf(tf) \subseteq HexesOf(tf') \/ Taken
    BY <1>1, <2>2, <2>3, <2>4, <2>5, <2>6 DEF TfNext, TfLine, Taken
  <2> QED
    BY <2>1, <2>7
<1>2. TfTypeOK /\ [TfNext]_tfVars =>
        [/\ Automerge => Lines(tf') = Lines(tf)
         /\ \/ HexesOf(tf) \subseteq HexesOf(tf')
            \/ \E S \in SUBSET TfIds : TfDelete(S)
            \/ \E i \in TfIds, x \in TfHexes, v \in TfVals : TfUpdate(i, x, v)]_tfVars
  BY <1>1 DEF Taken
<1> QED
  BY <1>2, TypeCorrect, PTL DEF TfSpec, MergesKeepLines
=============================================================================
