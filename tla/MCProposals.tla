---------------------------- MODULE MCProposals ----------------------------
(* Small instances of Proposals for TLC. *)
EXTENDS Proposals

CONSTANTS n1, n2, n3, e1, e2, x, y

\* Two events written against the same chain head: the first decided wins.
MCBase == [id \in Ids |-> 0]

\* No event changes the apply floor, or e2 raises it beyond n3's binary.
MCRaises == [id \in Ids |-> IF id = e2 THEN 2 ELSE 0]
MCBinary == [n \in Nodes |-> IF n = n3 THEN 1 ELSE 2]

\* Two events, each behind a replica of its own.
MCRequestsTwo == {<<n3, e1, x>>, <<n1, e2, x>>}
\* One event ID submitted with different bytes behind one replica.
MCRequestsReused == {<<n1, e1, x>>, <<n1, e1, y>>}

=============================================================================
