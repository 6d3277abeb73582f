---------------------------- MODULE EventLedger ----------------------------
(***************************************************************************)
(* What the proposal path promises its callers: one ledger of results.     *)
(* Each submitted event is decided at most once, at the next result index, *)
(* accepted when the event chain has not moved since it was written and    *)
(* rejected otherwise; a caller is only told results of the ledger.        *)
(***************************************************************************)
EXTENDS Naturals, Sequences, FiniteSets

CONSTANTS Nodes, Ids, Bodies, Requests, Base

VARIABLES ledger, answers

Init == ledger = <<>> /\ answers = {}

\* The next result of the ledger.
Decide(n, id, b) ==
    /\ <<n, id, b>> \in Requests
    /\ \A k \in DOMAIN ledger : ledger[k].id # id
    /\ ledger' = Append(ledger,
           [id |-> id, body |-> b,
            accepted |-> Base[id] = Cardinality({k \in DOMAIN ledger : ledger[k].accepted})])
    /\ UNCHANGED answers

\* A caller is told the result at index k.
Tell(k) ==
    /\ k \in DOMAIN ledger
    /\ answers' = answers \cup {[id |-> ledger[k].id, body |-> ledger[k].body,
                                 accepted |-> ledger[k].accepted, index |-> k]}
    /\ UNCHANGED ledger

Next ==
    \/ \E n \in Nodes, id \in Ids, b \in Bodies : Decide(n, id, b)
    \/ \E k \in DOMAIN ledger : Tell(k)

Spec == Init /\ [][Next]_<<ledger, answers>>

=============================================================================
