---------------------------- MODULE AircraftMerger ----------------------------
(***************************************************************************)
(* The aircraft merger (aircraft-merger/merge.py): one thread reads        *)
(* aircraft from ADSBHub, another merges them every 1.5 s into what the    *)
(* local receivers have, and a page of the dashboard turns ADSBHub on and  *)
(* off while both run.                                                     *)
(*                                                                         *)
(* The threads share _state under a lock and _adsbhub_last_seen without    *)
(* one: the merge loop's purge compares and deletes in two steps.          *)
(*                                                                         *)
(* A definition whose name begins with Bug is a mistake the code does not  *)
(* make: put in place of the definition below it, it breaks a property.    *)
(***************************************************************************)
EXTENDS Integers, FiniteSets

CONSTANTS
    Craft,   \* aircraft
    Unheard, \* has no entry in _adsbhub_last_seen
    Stale    \* STALE_SECONDS

ASSUME MergerAssumption == Stale \in Nat /\ Unheard \notin 0..(Stale + 1)

VARIABLES
    enabled,  \* the file receive_enabled
    sbs,      \* the thread of ADSBHub: not started, without or with a connection
    book,     \* adsbhub_by_hex, its own
    heard,    \* seconds since the time in _adsbhub_last_seen
    received,     \* _state["_adsbhub"]
    pc,       \* where the merge loop is
    on,       \* what it read of receive_enabled
    local,    \* fresh aircraft of the local receivers
    remote,   \* its copy of received
    merged,   \* aircraft taken from ADSBHub
    toPurge,  \* keys the purge has not looked at
    doomed,   \* keys it is about to delete (at most one)
    map,      \* _state["aircraft"]: local ones, and those of ADSBHub
    lastMsg,  \* seconds since the last message of each (history)
    lost      \* entries deleted although not stale (history)

mergerVars == <<enabled, sbs, book, heard, received, pc, on, local, remote, merged,
                toPurge, doomed, map, lastMsg, lost>>

reader == <<sbs, book>>
loop == <<pc, on, local, remote, merged, toPurge, doomed, map>>

Never == [h \in Craft |-> Unheard]

\* What main publishes before it starts the threads: local aircraft, as fetched.
FirstMaps == [local : SUBSET Craft, hub : {{}}]
Unstarted == IF enabled THEN "down" ELSE "none"

\* main; the SBS thread is started only if receiving is enabled then.
MergerInit ==
    /\ enabled \in BOOLEAN
    /\ sbs = Unstarted
    /\ book = {} /\ heard = Never /\ received = {}
    /\ pc = "fetch" /\ on = FALSE
    /\ local = {} /\ remote = {} /\ merged = {} /\ toPurge = {} /\ doomed = {}
    /\ map \in FirstMaps
    /\ lastMsg = [h \in Craft |-> Stale + 1] /\ lost = {}

-----------------------------------------------------------------------------
(* _run_sbs_client *)

SbsConnects ==
    /\ sbs = "down"
    /\ sbs' = "up"
    /\ UNCHANGED <<enabled, book, heard, received, loop, lastMsg, lost>>

\* The aircraft is entered, then its time.
SbsMessage(h) ==
    /\ sbs = "up"
    /\ book' = book \cup {h}
    /\ heard' = [heard EXCEPT ![h] = 0]
    /\ lastMsg' = [lastMsg EXCEPT ![h] = 0]
    /\ lost' = lost \ {h}
    /\ UNCHANGED <<enabled, sbs, received, loop>>

\* At the end of what was received.
SbsPublish ==
    /\ sbs = "up"
    /\ received' = book
    /\ UNCHANGED <<enabled, reader, heard, loop, lastMsg, lost>>

\* The thread connects again and keeps its dictionary, which nothing purges.
SbsEnds ==
    /\ sbs = "up"
    /\ sbs' = "down"
    /\ UNCHANGED <<enabled, book, heard, received, loop, lastMsg, lost>>

-----------------------------------------------------------------------------
(* _merge_loop *)

Fetch ==
    /\ pc = "fetch"
    /\ local' \in SUBSET Craft
    /\ on' = enabled
    /\ pc' = "lock"
    /\ UNCHANGED <<enabled, reader, heard, received, remote, merged, toPurge, doomed, map,
                   lastMsg, lost>>

TakeSnapshot ==
    /\ pc = "lock"
    /\ IF on
       THEN remote' = received /\ UNCHANGED <<heard, received, lost>>
       ELSE /\ remote' = {} /\ received' = {} /\ heard' = Never
            /\ lost' = {h \in Craft : lastMsg[h] <= Stale}
    /\ pc' = "merge"
    /\ UNCHANGED <<enabled, reader, on, local, merged, toPurge, doomed, map, lastMsg>>

BugRecent == {h \in Craft : heard[h] # Unheard}

Recent == {h \in Craft : heard[h] # Unheard /\ heard[h] <= Stale}

\* Local aircraft are preferred; stale ones of ADSBHub are left out.
Merge ==
    /\ pc = "merge"
    /\ merged' = (remote \ local) \cap Recent
    /\ toPurge' = {h \in Craft : heard[h] # Unheard}
    /\ pc' = "purge"
    /\ UNCHANGED <<enabled, reader, heard, received, on, local, remote, doomed, map, lastMsg, lost>>

PurgeLook(h) ==
    /\ pc = "purge" /\ doomed = {} /\ h \in toPurge
    /\ toPurge' = toPurge \ {h}
    /\ doomed' = IF heard[h] > Stale THEN {h} ELSE {}
    /\ UNCHANGED <<enabled, reader, heard, received, pc, on, local, remote, merged, map, lastMsg, lost>>

\* A time written since PurgeLook is deleted too.
PurgeDelete ==
    /\ doomed # {}
    /\ heard' = [h \in Craft |-> IF h \in doomed THEN Unheard ELSE heard[h]]
    /\ lost' = lost \cup {h \in doomed : lastMsg[h] <= Stale}
    /\ doomed' = {}
    /\ UNCHANGED <<enabled, reader, received, pc, on, local, remote, merged, toPurge, map, lastMsg>>

Publish ==
    /\ pc = "purge" /\ toPurge = {} /\ doomed = {}
    /\ map' = [local |-> local, hub |-> merged]
    /\ pc' = "fetch"
    /\ UNCHANGED <<enabled, reader, heard, received, on, local, remote, merged, toPurge, doomed,
                   lastMsg, lost>>

-----------------------------------------------------------------------------
\* The dashboard stores the switch, and restarts the merger if Docker lets it.
Toggle ==
    /\ enabled' = ~enabled
    /\ UNCHANGED <<reader, heard, received, loop, lastMsg, lost>>

RestartMerger ==
    /\ sbs' = Unstarted
    /\ book' = {} /\ heard' = Never /\ received' = {}
    /\ pc' = "fetch" /\ on' = FALSE
    /\ local' = {} /\ remote' = {} /\ merged' = {} /\ toPurge' = {} /\ doomed' = {}
    /\ map' \in FirstMaps
    /\ lastMsg' = [h \in Craft |-> Stale + 1] /\ lost' = {}
    /\ UNCHANGED enabled

Older(age) == IF age = Unheard THEN Unheard ELSE IF age > Stale THEN age ELSE age + 1

\* A second passes; not while the loop merges, which takes no time.
Tick ==
    /\ pc \in {"fetch", "lock"}
    /\ heard' = [h \in Craft |-> Older(heard[h])]
    /\ lastMsg' = [h \in Craft |-> Older(lastMsg[h])]
    /\ lost' = {h \in lost : lastMsg'[h] <= Stale}
    /\ UNCHANGED <<enabled, reader, received, loop>>

MergerNext ==
    \/ SbsConnects \/ SbsPublish \/ SbsEnds
    \/ \E h \in Craft : SbsMessage(h) \/ PurgeLook(h)
    \/ Fetch \/ TakeSnapshot \/ Merge \/ PurgeDelete \/ Publish
    \/ Toggle \/ RestartMerger \/ Tick

MergerSpec == MergerInit /\ [][MergerNext]_mergerVars

-----------------------------------------------------------------------------
(* Properties *)

\* What the merge takes from ADSBHub is exactly the published aircraft that were
\* heard within Stale seconds and that no local receiver has, but for those whose
\* time a purge deleted in the moment of a message, or that a switch off forgot:
\* the reader's book keeps every aircraft for ever and is published whole after
\* each switch and each lost connection, and only the times hold back what is old.
MergedIsRecent ==
    [][Merge => merged' = {h \in remote \ local : lastMsg[h] <= Stale} \ lost]_mergerVars
=============================================================================
