------------------------------- MODULE CotDelta -------------------------------
(***************************************************************************)
(* Which aircraft one cycle of the CoT sender sends to one output, and     *)
(* what it remembers of it (cot_pipeline.py, _run_cot_sender_cycle_impl).  *)
(* Only aircraft whose state changed are sent, and transforms are looked   *)
(* up for only the aircraft whose treatment they can decide.               *)
(*                                                                         *)
(* An aircraft's state is the rounded tuple of _state_key.  A picture maps *)
(* each hex to its state, or to None: not received, or filtered out.       *)
(*                                                                         *)
(* A definition whose name begins with Bug is a mistake the code does not  *)
(* make: put in place of the definition below it, it breaks a property.    *)
(***************************************************************************)
EXTENDS Integers, FiniteSets

CONSTANTS
    Hexes,       \* aircraft
    States,      \* what _state_key returns
    None,
    MaxLastSent  \* _MAX_LAST_SENT_HEXES

ASSUME DeltaAssumption ==
    /\ None \notin States
    /\ MaxLastSent \in Nat

Picture == [Hexes -> States \cup {None}]

\* The transforms of an output: hexes stored in upper case, and hexes of rows
\* written before they were.
Rules == [norm : SUBSET Hexes, legacy : SUBSET Hexes]

Present(air) == {h \in Hexes : air[h] # None}

\* All is sent again, changed or not.
BugChanged(last, air) == Present(air)

Changed(last, air) == {h \in Present(air) : last[h] # air[h]}

BugQueried(all, tisb, last, air) == Changed(last, air)

\* The hexes whose transforms are read.  tisb: the aircraft that need none.
Queried(all, tisb, last, air) ==
    Changed(last, air)
      \cup {h \in Present(air) \ tisb : ~all /\ last[h] # None}

\* Rows as stored answer; older ones are asked only when none did.
GetForHexes(rules, query) ==
    LET hits == rules.norm \cap query
    IN  IF hits # {} THEN hits ELSE rules.legacy \cap query

\* all: pass_all; found: the hexes with a transform read; broken: the aircraft
\* for which no XML could be built.
Seen(all, tisb, air, found) ==
    {h \in Present(air) : all \/ h \in found \cup tisb}

ToSend(all, tisb, last, air, found, broken) ==
    (Seen(all, tisb, air, found) \cap Changed(last, air)) \ broken

BugRemembered(all, tisb, last, air, found, broken) ==
    [h \in Hexes |-> IF h \in Seen(all, tisb, air, found) THEN air[h] ELSE None]

Remembered(all, tisb, last, air, found, broken) ==
    [h \in Hexes |->
        IF h \in ToSend(all, tisb, last, air, found, broken) THEN air[h]
        ELSE IF h \in Seen(all, tisb, air, found) THEN last[h]
        ELSE None]

\* What is sent, which of it with its transform applied, what is remembered.
Plan(all, tisb, last, air, found, broken) ==
    [send   |-> ToSend(all, tisb, last, air, found, broken),
     styled |-> ToSend(all, tisb, last, air, found, broken) \cap found,
     last   |-> Remembered(all, tisb, last, air, found, broken)]

\* The cap on what is remembered keeps the first MaxLastSent of the hexes.
Capped(last) ==
    LET known == {h \in Hexes : last[h] # None}
    IN  IF Cardinality(known) <= MaxLastSent THEN {last}
        ELSE {[h \in Hexes |-> IF h \in S THEN last[h] ELSE None] :
                S \in {K \in SUBSET known : Cardinality(K) = MaxLastSent}}
=============================================================================
