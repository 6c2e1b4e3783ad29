------------------------------- MODULE CotPlans -------------------------------
(***************************************************************************)
(* What CotDelta promises of any one cycle: the sender reads transforms for*)
(* fewer aircraft than are present, and does the same as if it read them   *)
(* for all.                                                                *)
(***************************************************************************)
EXTENDS CotDelta

VARIABLE cycles  \* what a cycle starts from: one, or none

Cycles == [all : BOOLEAN, tisb : SUBSET Hexes, last : Picture, air : Picture,
           rules : Rules, broken : SUBSET Hexes]

CyclesInit == cycles \in {{c} : c \in Cycles}

\* The plan when transforms are read for the hexes in query.
PlanReading(c, query) ==
    Plan(c.all, c.tisb, c.last, c.air, GetForHexes(c.rules, query), c.broken)

\* Whatever was last sent and is seen now, the transforms read for the aircraft
\* that changed, and for those a missing transform would hide, decide what is sent,
\* what of it is styled and what is remembered as all transforms would; provided
\* the output has no rows from before hexes were stored in upper case.
LookupSuffices ==
    \A c \in cycles :
        c.rules.legacy = {} =>
          PlanReading(c, Queried(c.all, c.tisb, c.last, c.air)) = PlanReading(c, Present(c.air))
=============================================================================
