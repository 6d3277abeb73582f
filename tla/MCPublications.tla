--------------------------- MODULE MCPublications ---------------------------
(***************************************************************************)
(* A finite instance of Publications, two devices, one task and one lease, *)
(* beside one of CredentialRenewal, three nodes and one that is none: a    *)
(* behaviour is about one of the two, the other stays as it began.         *)
(***************************************************************************)
EXTENDS Publications, CredentialRenewal

CONSTANTS d1, d2, s1, s2, t1, l1, pa, c0, c1, c2, c3, p1, p2, r1, r2, m1, m2, m3,
          v1, v2, v3, x

VARIABLE subject

MCOverlap == {<<pa, pa>>}
MCPolicies == {[agentClaims |-> 1, deviceClaims |-> 2, agentLeases |-> 1,
                deviceLeases |-> 2, sessions |-> 2]}
MCVersions == [k \in {"session", "task", "lease", "policy"} |->
    CASE k = "session" -> 3 [] k = "task" -> 4 [] k = "lease" -> 2 [] OTHER -> 1]

\* c1 and c2 compete for the root, c3 continues c1.
MCParent == [c \in {c1, c2, c3} |-> IF c = c3 THEN c1 ELSE c0]

NoRepository == voters.version = 1 /\ \A p \in Pubs : ~Exists(p)
NoNotes ==
    /\ planCurrent.version = 1
    /\ \A r \in Plans : plan[r] = None
    /\ \A m \in Memories : memory[m] = None
\* Ids are interchangeable, so they are used up in one order.
IdsInOrder ==
    /\ Exists(p2) => Exists(p1)
    /\ plan[r2] # None => plan[r1] # None
    /\ memory[m3] # None => memory[m2] # None
    /\ memory[m2] # None => memory[m1] # None

\* s1 claims the task behind d1, takes a lease and writes; s2 reviews behind d2.
Setting ==
    /\ session[s1].device \in {None, d1} /\ session[s2].device \in {None, d2}
    /\ \A s \in Sessions : session[s].state \in {"absent", "starting", "idle", "ended"}
    /\ session[s2].state # "idle"
    /\ task[t1].agent \in {None, s1} /\ task[t1].intended = None
    /\ task[t1].state \in {"absent", "backlog", "ready", "claimed"}
    /\ lease[l1].agent \in {None, s1} /\ lease[l1].scope \in {None, pa}
    /\ device[d1] = [status |-> "active", role |-> "owner"]
    /\ device[d2].role = "editor"
\* All that is there before the first publication.
SettingFirst ==
    \/ NoRepository
    \/ /\ device[d2].status # "absent" /\ session[s1].version >= 2
       /\ session[s2].version >= 1 /\ task[t1].version \in {0, 3, 4}
       /\ lease[l1].version >= 1 /\ pub[p1].commit \in {c0, c1}
       /\ pub[p2].reviewer \notin Devices /\ pub[p1].reviewer # d2
\* Then either there are conflicts, or agents, device and voter target change.
ConflictCase ==
    /\ voters.version = 1 /\ device[d2].status # "revoked"
    /\ \A s \in Sessions : session[s].state # "ended"
    /\ lease[l1].version <= 1 /\ task[t1].version <= 3
    /\ pub[p2].supersedes = None /\ pub[p1].reviewer # d1
    /\ task[t1].version = 3 => pub[p1].reviewer = None
    /\ Cardinality({c \in Conflicts : conflict[c].version > 0}) <= (IF Exists(p2) THEN 2 ELSE 1)
ChangeCase ==
    /\ \A c \in Conflicts : conflict[c].version = 0
    /\ task[t1].version = 0 /\ voters.members \in {{d1}, {d1, d2}}
    /\ lease[l1].version = 2 => ~Exists(p2)
NotesCase ==
    /\ NoRepository /\ device[d2].status = "absent"
    /\ session[s1].version + session[s2].version + lease[l1].version = 0
    /\ task[t1].version <= 1

\* A single voter authorizes; up to one disturbance, and a stop.
Troubles == Committed.entity + Cardinality(Committed.revoked) + (Len(sets) - 1)
            + lost + stops + (leader.term - 1)
AuthorityAlone == /\ sets = <<{v2}>> /\ leader = [id |-> v2, term |-> 1]
                  /\ applied[v1] = 1 /\ Committed.entity = 0
NodeRenews == /\ AuthorityAlone /\ self = v3 /\ lost = 0
              /\ Troubles <= 1 /\ Len(attempts) + stops <= 3
              /\ Len(attempts) + Troubles <= 3 \/ (closing = 0 /\ Len(granted) >= Len(attempts) - 1)
              /\ closing = 0 \/ Len(granted) + Len(attempts) <= 2
SettledRenews == /\ AuthorityAlone /\ self = x /\ Len(granted) <= 1
                 /\ Len(attempts) + Troubles <= 2 /\ Troubles <= 1 /\ time <= 1
\* Three voters authorize, one of them with a wrong clock, and the authority changes.
VotersAuthorize ==
    /\ Cardinality(sets[1]) = 3 /\ self = v3 /\ self \notin Committed.revoked
    /\ stops + lost = 0 /\ closing = 0 /\ (leader.term = 1 \/ Troubles = 1)
    /\ Len(log) <= 3 /\ Len(attempts) <= 2 /\ Len(attempts) + Troubles <= 3 /\ time <= 1
    /\ \A d \in {v1, v2} : applied[d] + 1 >= Len(log)

Begun == /\ self = v3 /\ leader.id = v2 /\ sets = <<{v2}>>
MCInit == /\ PInit /\ RenewalInit
          /\ \/ subject = "publications" /\ Begun
             \/ subject = "renewal"
MCNext == \/ subject = "publications" /\ PNext /\ UNCHANGED <<renewalVars, subject>>
          \/ subject = "renewal" /\ RenewalNext /\ UNCHANGED <<pvars, subject>>
MCSpec == MCInit /\ [][MCNext]_<<pvars, renewalVars, subject>>

Focus ==
    \/ subject = "renewal" /\ (NodeRenews \/ SettledRenews \/ VotersAuthorize)
    \/ /\ subject = "publications" /\ IdsInOrder /\ Setting /\ SettingFirst
       /\ NotesCase \/ (NoNotes /\ (ConflictCase \/ ChangeCase))
=============================================================================
