------------------------ MODULE MCSettledReplication ------------------------
(* Small instances of SettledReplication. *)
EXTENDS SettledReplication

CONSTANTS a, b, x, l, s1

Checkpoint == [kind |-> "checkpoint"]
Plain == [kind |-> "plain"]
Target(D) == [kind |-> "target", devices |-> D]
Activate == [kind |-> "activate"]
Revoke(d) == [kind |-> "revoke", devices |-> {d}]
OpenSession(e) == [kind |-> "open", sessions |-> {e}]

\* The authority moves from a to b behind a checkpoint; it grows; a session of the
\* device's earlier life surfaces; the replica's own device becomes a voter.
MCPlans ==
    {<<Target({b}), Activate, Checkpoint>>,
     <<Target({a, b}), Activate>>,
     <<OpenSession(s1)>>,
     <<Target({a, l}), Plain>>}
=============================================================================
