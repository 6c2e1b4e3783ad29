------------------------------- MODULE MCParts -------------------------------
(***************************************************************************)
(* The Beast outputs, and the small parts of the dashboard and its         *)
(* companions, which share no state with one another, checked in one run: a*)
(* behaviour is of one part, and the others stay as they were at first. The*)
(* last four are decisions without a state: each initial state is one input*)
(* of theirs.                                                              *)
(***************************************************************************)
EXTENDS BeastOutput, CotTransforms, Accounts, AircraftMerger, UpdateRunner, EnvFile,
        CotEvent, CotPlans, TLC

VARIABLE part

Parts == {"output", "transforms", "accounts", "merger", "update", "env", "events",
          "texts", "plans"}

inputs == <<part, posted, crafts, texts, cycles>>

partsVars == <<inputs, vars, tfVars, accountVars, mergerVars, updateVars>>

PartsInit ==
    /\ part \in Parts
    /\ Init
    /\ TfInit /\ (part = "transforms" \/ tfNext = 1)
    /\ AccountsInit /\ (part = "accounts" \/ nextUser = 1)
    /\ MergerInit /\ (part = "merger" \/ (enabled /\ map.local = {}))
    /\ UpdateInit
    /\ IF part = "env" THEN EnvInit ELSE posted = {}
    /\ IF part = "events" THEN CraftsInit ELSE crafts = {}
    /\ IF part = "texts" THEN TextsInit ELSE texts = {}
    /\ IF part = "plans" THEN CyclesInit ELSE cycles = {}

PartsNext ==
    \/ /\ part = "output" /\ Next
       /\ UNCHANGED <<inputs, tfVars, accountVars, mergerVars, updateVars>>
    \/ /\ part = "transforms" /\ TfNext
       /\ UNCHANGED <<inputs, vars, accountVars, mergerVars, updateVars>>
    \/ /\ part = "accounts" /\ AccountsNext
       /\ UNCHANGED <<inputs, vars, tfVars, mergerVars, updateVars>>
    \/ /\ part = "merger" /\ MergerNext
       /\ UNCHANGED <<inputs, vars, tfVars, accountVars, updateVars>>
    \/ /\ part = "update" /\ UpdateNext
       /\ UNCHANGED <<inputs, vars, tfVars, accountVars, mergerVars>>

\* A client of an output is like any other: no constant and no definition names one.
Symmetry == Permutations(Client)

PartsSpec == PartsInit /\ [][PartsNext]_partsVars
=============================================================================
