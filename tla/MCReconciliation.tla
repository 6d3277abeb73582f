-------------------------- MODULE MCReconciliation --------------------------
(***************************************************************************)
(* The two reconcilers of a daemon: an instance of VoterReconciliation     *)
(* with three devices beside one of PeerEndpoints with two other members.  *)
(* A behaviour is about one of the two, the other stays as it began.       *)
(***************************************************************************)
EXTENDS VoterReconciliation, PeerEndpoints

CONSTANTS w, u, f1, f2

VARIABLE subject

(* Cases of PeerEndpoints: w publishes, u is another member.              *)

NoRoutes == /\ routes = {} /\ reconcile.phase = "idle" /\ hint = NoHint /\ dial = NoDial
            /\ selected.binds = 1
NoManual == \A r \in rows : r.kind # "manual"
OnePublisher == starts = 0 /\ withdrawals = 0 /\ refresh[f2].stage = "idle"
PublishedFirst ==
    refresh[f1].stage # "idle" => rows = {} /\ NoRoutes /\ clock = 0 /\ w \in activeMembers

\* Refreshes that overlap, fail, are withdrawn or lose the process, under any clock.
Publishing ==
    /\ rows = {} /\ NoRoutes /\ clock = 0 /\ activeMembers = Members /\ hintTTL = 2
    /\ Cardinality(published) <= 2
    /\ \A f \in Refreshes : LET s == refresh[f].set
          IN s = NoSet \/ (s.endpoints = {1} /\ s.expires = s.issued + 2)
\* Two sets, delivered in any order, among the rows of both members.
Storing ==
    /\ OnePublisher /\ NoRoutes /\ PublishedFirst /\ NoManual /\ backs = 0
    /\ Cardinality(published) <= 2 /\ sequence <= 2 /\ u \in activeMembers
    /\ \A r \in rows : r.kind = "guess" => r.endpoint = 1 /\ (r.device = u => r.observed = 0)
    /\ \A s \in published : s.endpoints = {1} => s.expires > 1
\* Passes over one set and what the operator configured, with a revocation and
\* a clock that is set back; then over the sources of datagrams.
Passing ==
    /\ OnePublisher /\ selected.binds = 1 /\ dial = NoDial /\ hintTTL = 2 /\ u \in activeMembers
    /\ reconcile.phase \in {"idle", "members"} \/ u \in reconcile.todo \/ w \notin reconcile.todo
    /\ \A r \in rows : r.device = w /\ (r.kind = "guess" => r.endpoint = 1)
    /\ clock + backs <= 2
PassingSets ==
    /\ Passing /\ PublishedFirst /\ hint = NoHint /\ learned[w] = {}
    /\ Cardinality(published) <= 1 /\ sequence <= 1
    /\ \A s \in published : s.issued = 0 /\ s.expires = 2 /\ s.endpoints = {1, 2}
    /\ \A r \in rows : r.kind = "manual" => r.endpoint = 2
    /\ Cardinality({r.kind : r \in rows} \ {"signed"}) <= 1
    /\ w \notin activeMembers \/ ~NoManual \/ owed => backs = 0
    /\ owed => reconcile.phase = "idle" /\ clock <= 1
PassingHints ==
    /\ Passing /\ refresh[f1].stage = "idle" /\ sequence = 0 /\ NoManual
    /\ backs = 0 /\ clock <= 1 /\ (hint # NoHint => hint.route.peer = w)
    /\ \A r \in rows : r.kind = "guess" => r.observed = 0
    /\ reconcile.by = "loop" /\ Cardinality(rows) <= 2
\* The local address changes under passes, dials and connections.
Dialling ==
    /\ OnePublisher /\ sequence = 0 /\ refresh[f1].stage = "idle" /\ hint = NoHint
    /\ activeMembers = Members /\ hintTTL = 2 /\ clock = 0 /\ backs = 0
    /\ \A r \in rows : r.kind = "guess" /\ r.endpoint = 1
EndpointCase ==
    \/ subject = "publishing" /\ ~owed /\ Publishing
    \/ /\ subject = "endpoints"
       /\ PassingSets \/ (~owed /\ (Storing \/ PassingHints \/ Dialling))

MCInit == /\ Init /\ EndpointInit /\ subject \in {"voters", "publishing", "endpoints"}
          /\ subject = "voters" => hintTTL = 2
MCNext == \/ subject = "voters" /\ Next /\ UNCHANGED <<endpointVars, subject>>
          \/ /\ subject # "voters" /\ UNCHANGED <<vars, subject>>
             /\ EndpointNext /\ EndpointCase'

InVoters(A) == subject = "voters" /\ A
MCFairness == \A d \in Devices :
    /\ WF_vars(InVoters(Reconciles(d)))
    /\ WF_vars(InVoters(Commits(d)))
    /\ WF_vars(InVoters(Elected(d)))
MCSpec == MCInit /\ [][MCNext]_<<vars, endpointVars, subject>> /\ MCFairness
=============================================================================
