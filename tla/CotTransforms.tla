----------------------------- MODULE CotTransforms -----------------------------
(***************************************************************************)
(* The COTProxy transforms of one output (web/models.py CotTransformModel, *)
(* web/routes/api.py): lines that say how an aircraft is to be shown, keyed*)
(* by its hex.  No constraint of the database keeps a hex from having two  *)
(* lines; every operation checks for itself, and duplicates from before    *)
(* are found, shown on a page and merged by hand.                          *)
(*                                                                         *)
(* The worker serves one request at a time, so a request is one step; but  *)
(* what a page shows may be outdated when it is posted.                    *)
(*                                                                         *)
(* A definition whose name begins with Bug is a mistake the code does not  *)
(* make: put in place of the definition below it, it breaks a property.    *)
(***************************************************************************)
EXTENDS Integers, FiniteSets, Sequences

CONSTANTS
    TfHexes,   \* hexes, stripped and in upper case
    TfVals,    \* all other fields of a line, blanks stripped
    NoTf,      \* no such row
    MaxTf      \* bound: ids ever given

ASSUME TfAssumption == NoTf \notin [hex : TfHexes, val : TfVals] /\ MaxTf \in Nat

TfIds == 1..MaxTf

TfLine == [hex : TfHexes, val : TfVals]

VARIABLES
    tf,      \* cot_transforms of the output
    tfNext,  \* the next id (AUTOINCREMENT)
    shown    \* the groups of duplicates a page shows

tfVars == <<tf, tfNext, shown>>

TfRows == {i \in TfIds : tf[i] # NoTf}
IdsOf(rows, x) == {i \in TfIds : rows[i] # NoTf /\ rows[i].hex = x}
Lines(rows) == {rows[i] : i \in TfIds} \ {NoTf}
HexesOf(rows) == {ln.hex : ln \in Lines(rows)}

\* Lines written before hexes were stripped and duplicates refused.
TfInit ==
    /\ \E n \in 0..MaxTf :
         /\ tf \in [TfIds -> TfLine \cup {NoTf}]
         /\ \A i \in TfIds : tf[i] = NoTf <=> i > n
         /\ tfNext = n + 1
    /\ shown = {}

-----------------------------------------------------------------------------
TfCreate(x, v) ==
    /\ tfNext \in TfIds
    /\ IdsOf(tf, x) = {}
    /\ tf' = [tf EXCEPT ![tfNext] = [hex |-> x, val |-> v]]
    /\ tfNext' = tfNext + 1
    /\ UNCHANGED shown

BugTfUpdate(i, x, v) ==
    /\ i \in TfRows
    /\ tf' = [tf EXCEPT ![i] = [hex |-> x, val |-> v]]
    /\ UNCHANGED <<tfNext, shown>>

\* All fields are written.  A request that leaves the hex out breaks NOT NULL.
TfUpdate(i, x, v) ==
    /\ i \in TfRows
    /\ IdsOf(tf, x) \subseteq {i}
    /\ tf' = [tf EXCEPT ![i] = [hex |-> x, val |-> v]]
    /\ UNCHANGED <<tfNext, shown>>

\* One, several or all.
TfDelete(S) ==
    /\ S # {}
    /\ tf' = [i \in TfIds |-> IF i \in S THEN NoTf ELSE tf[i]]
    /\ UNCHANGED <<tfNext, shown>>

BugNewRows(file) == {k \in DOMAIN file : IdsOf(tf, file[k].hex) = {}}

\* A row of the file whose hex is known, or appeared above it, is skipped.
NewRows(file) ==
    {k \in DOMAIN file : /\ IdsOf(tf, file[k].hex) = {}
                         /\ \A j \in 1..(k - 1) : file[j].hex # file[k].hex}

\* One transaction; a file that cannot be read to its end adds nothing, and rows
\* without a hex are not counted here.
TfImport(file) ==
    LET new == NewRows(file)
        idOf(k) == tfNext + Cardinality({j \in new : j < k})
    IN  /\ tfNext + Len(file) <= MaxTf + 1
        /\ tf' = [i \in TfIds |->
                     IF \E k \in new : idOf(k) = i
                     THEN LET k == CHOOSE k \in new : idOf(k) = i
                          IN  [hex |-> file[k].hex, val |-> file[k].val]
                     ELSE tf[i]]
        /\ tfNext' = tfNext + Cardinality(new)
        /\ UNCHANGED shown

-----------------------------------------------------------------------------
(* Duplicates *)

Several(S) == \E i, j \in S : i # j
Duplicated(rows) == {x \in TfHexes : Several(IdsOf(rows, x))}
Exact(rows, x) == \A i, j \in IdsOf(rows, x) : rows[i].val = rows[j].val
Smallest(S) == CHOOSE i \in S : \A j \in S : i <= j

Groups(rows) == {[hex |-> x, ids |-> IdsOf(rows, x)] : x \in Duplicated(rows)}

FindDuplicates ==
    /\ shown' = Groups(tf)
    /\ UNCHANGED <<tf, tfNext>>

BugAutomerged(rows) ==
    [i \in TfIds |->
        IF /\ rows[i] # NoTf /\ rows[i].hex \in Duplicated(rows)
           /\ i # Smallest(IdsOf(rows, rows[i].hex))
        THEN NoTf ELSE rows[i]]

Automerged(rows) ==
    [i \in TfIds |->
        IF /\ rows[i] # NoTf /\ rows[i].hex \in Duplicated(rows) /\ Exact(rows, rows[i].hex)
           /\ i # Smallest(IdsOf(rows, rows[i].hex))
        THEN NoTf ELSE rows[i]]

\* What is left is shown.
Automerge ==
    /\ tf' = Automerged(tf)
    /\ shown' = Groups(tf')
    /\ UNCHANGED tfNext

\* G: groups as the page showed them; keep: the id chosen in each; val: what the
\* kept line is to say.  A group that was merged meanwhile is left alone.
MergedLine(i, G, keep, val) ==
    IF ~\E g \in G : i \in IdsOf(tf, g.hex) /\ Several(IdsOf(tf, g.hex)) THEN tf[i]
    ELSE LET g == CHOOSE g \in G : g.hex = tf[i].hex
         IN  IF i = keep[g] THEN [tf[i] EXCEPT !.val = val[g]] ELSE NoTf

\* The whole request is refused when a chosen line no longer has the hex.
TfMerge(G, keep, val) ==
    /\ G # {}
    /\ \A g \in G : keep[g] \in IdsOf(tf, g.hex)
    /\ tf' = [i \in TfIds |-> MergedLine(i, G, keep, val)]
    /\ UNCHANGED <<tfNext, shown>>

-----------------------------------------------------------------------------
TfNext ==
    \/ \E x \in TfHexes, v \in TfVals :
         \/ TfCreate(x, v)
         \/ \E i \in TfIds : TfUpdate(i, x, v)
    \/ \E S \in SUBSET TfIds : TfDelete(S)
    \/ \E l1, l2 \in [hex : TfHexes, val : TfVals] : TfImport(<<l1, l2>>)
    \/ FindDuplicates
    \/ Automerge
    \/ \E G \in SUBSET shown : \E keep \in [G -> TfIds], val \in [G -> TfVals] :
         (\A g \in G : keep[g] \in g.ids) /\ TfMerge(G, keep, val)

TfSpec == TfInit /\ [][TfNext]_tfVars

-----------------------------------------------------------------------------
(* Properties *)

\* The table, its next id and the page's groups keep their types.
TfTypeOK ==
    /\ tf \in [TfIds -> TfLine \cup {NoTf}]
    /\ tfNext \in 1..(MaxTf + 1)
    /\ \A i \in TfRows : i < tfNext
    /\ shown \subseteq [hex : TfHexes, ids : SUBSET TfIds]

\* Whatever others have done since a page showed a group of duplicates, either
\* all lines its hex has now were shown, or none is: a merge keeps a line that was
\* shown and deletes every other line of the hex, and so deletes none unseen
\* (merge_duplicate_groups selects by hex, not by the ids of the page).
ShownIsAll ==
    \A g \in shown : IdsOf(tf, g.hex) \subseteq g.ids \/ IdsOf(tf, g.hex) \cap g.ids = {}

\* A hex never gets a second line: by no way of adding or changing lines, nor by
\* two rows of one imported file.
NoNewDuplicates ==
    [][\A x \in TfHexes :
         Several(IdsOf(tf', x)) => IdsOf(tf', x) \subseteq IdsOf(tf, x)]_tfVars

\* Merging what is exactly the same loses nothing, and merging by hand loses no
\* aircraft: only a deletion, or a new hex in a line, takes a hex away.
MergesKeepLines ==
    [][/\ Automerge => Lines(tf') = Lines(tf)
       /\ \/ HexesOf(tf) \subseteq HexesOf(tf')
          \/ \E S \in SUBSET TfIds : TfDelete(S)
          \/ \E i \in TfIds, x \in TfHexes, v \in TfVals : TfUpdate(i, x, v)]_tfVars
=============================================================================
