--------------------------- MODULE MCFeederSessions ---------------------------
(* Small instances of FeederSessions for TLC. *)
EXTENDS FeederSessions, TLC

\* Sessions are interchangeable: no constant and no definition names one.
Symmetry == Permutations(Session)
=============================================================================
