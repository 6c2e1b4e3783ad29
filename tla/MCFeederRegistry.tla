--------------------------- MODULE MCFeederRegistry ---------------------------
(* Small instances of FeederRegistry for TLC. *)
EXTENDS FeederRegistry, TLC

CONSTANTS ip1, ip2, u1, u2, m1, h1, usr1

\* ip1 is a public address.  ip2 is a NetBird peer whose hostname the resolver
\* may know; while the peer list is stale it counts as public.
MCAnswer ==
    (ip1 :> {[type |-> "public", host |-> None]}) @@
    (ip2 :> {[type |-> "netbird", host |-> h1], [type |-> "public", host |-> None]})

\* A feeder that announces nothing, one with a uuid and a mac, and one with
\* another uuid and a claim.
MCHello ==
    {[uuid |-> None, mac |-> None, claim |-> None],
     [uuid |-> u1, mac |-> m1, claim |-> None],
     [uuid |-> u2, mac |-> None, claim |-> usr1]}

Symmetry == Permutations(Session)
=============================================================================
