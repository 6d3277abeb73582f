--------------------------- MODULE MCCoordination ---------------------------
(***************************************************************************)
(* A finite instance of Coordination.                                      *)
(***************************************************************************)
EXTENDS Coordination, TLC

CONSTANTS d1, d2, s1, s2, t1, t2, l1, l2, pa, pb

MCOverlap == {<<p, p>> : p \in PathScopes} \cup
             {<<p, q>> \in PathScopes \X PathScopes : {p, q} = {pa, pb}}

Limits(ac, dc, al, dl, n) ==
    [agentClaims |-> ac, deviceClaims |-> dc, agentLeases |-> al,
     deviceLeases |-> dl, sessions |-> n]
TightLimits == Limits(1, 1, 1, 1, 1)
MiddleLimits == Limits(1, 2, 1, 2, 2)
WideLimits == Limits(2, 2, 2, 2, 2)

VersionBounds(s, t, l, p) ==
    [k \in {"session", "task", "lease", "policy"} |->
        CASE k = "session" -> s [] k = "task" -> t [] k = "lease" -> l [] OTHER -> p]
MCVersions == VersionBounds(3, 6, 3, 2)
MCPolicies == {TightLimits, MiddleLimits, WideLimits}

Used(rows) == {x \in DOMAIN rows : rows[x].version > 0}
Within(s, t, l, p) ==
    /\ \A x \in Sessions : session[x].version <= s
    /\ \A x \in Tasks : task[x].version <= t
    /\ \A x \in Leases : lease[x].version <= l
    /\ policy.version <= p

OneTask == Cardinality(Used(task)) <= 1
OneDevice == device[d2].status = "absent"

\* The instance has room for three cases, explored side by side: dependent tasks,
\* several devices, and leases.  Conflicts meet the tasks of the first.
DependentTasks ==
    /\ Used(lease) = {} /\ OneDevice /\ policy.values = MiddleLimits
    /\ Within(2, 5, 0, 1) \/ (OneTask /\ Within(2, 6, 0, 1))
SeveralDevices ==
    /\ Used(lease) = {} /\ OneTask /\ unresolved = {}
    /\ Within(3, 3, 0, 2) /\ policy.values # WideLimits
LeasesAndLimits ==
    /\ OneDevice /\ OneTask /\ unresolved = {}
    /\ Within(2, 3, 3, 2) /\ policy.values # MiddleLimits

Focus == DependentTasks \/ SeveralDevices \/ LeasesAndLimits

\* Ids of one kind are interchangeable: the code compares them for equality.
Symmetry == Permutations(Sessions) \cup Permutations(Tasks) \cup Permutations(Leases)
=============================================================================
