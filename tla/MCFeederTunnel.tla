---------------------------- MODULE MCFeederTunnel ----------------------------
(* Small instances of FeederTunnel for TLC. *)
EXTENDS FeederTunnel, TLC

CONSTANTS under, dash

\* Two ids that differ by a dash in place of an underscore.
MCToTry == (under :> <<under, dash>>) @@ (dash :> <<dash, under>>)

\* An id with neither.
MCOneSpelling == under :> <<under>>
=============================================================================
