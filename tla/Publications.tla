---------------------------- MODULE Publications ----------------------------
(***************************************************************************)
(* The repository reducers of internal/reducer on top of Coordination:     *)
(* publications, the canonical reference, merge conflicts, the plan and    *)
(* the shared memory.  As there, one action is one accepted proposal, and  *)
(* its effect is the change set that State.Apply validates and merges.     *)
(*                                                                         *)
(* A publication names a commit, the commit its first parent: Parent is    *)
(* Git's history, fixed by the hashes.  A conflict id is a digest of what  *)
(* it is about, so a conflict is the pair of a publication and the         *)
(* canonical commit it did not merge with.  Staging receipts come from     *)
(* voters that hold the objects; what a reducer reads of them is who       *)
(* signed and for which voter-set version.  Recovery, which withdraws      *)
(* every open publication, is left to its own boundary.                    *)
(***************************************************************************)
EXTENDS Coordination

CONSTANTS
    Pubs,             \* publication ids
    Commits,          \* commits of the repository
    Root,             \* the commit the session starts from
    Parent,           \* commit -> its first parent
    Plans,            \* plan revision ids
    Memories,         \* memory record ids
    MaxVoterVersion,  \* voter-set versions explored
    MaxPlanVersion    \* stands for MaxSafeInteger in the current-plan row

ASSUME RepositoryAssumption ==
    /\ Root \in Commits /\ Parent \in [Commits \ {Root} -> Commits]
    /\ IsFiniteSet(Pubs) /\ IsFiniteSet(Commits)
    /\ None \notin Pubs \cup Plans \cup Memories
    /\ \A S \in SUBSET (Commits \ {Root}) : S # {} => \E c \in S : Parent[c] \notin S
    /\ MaxVoterVersion \in Nat \ {0} /\ MaxPlanVersion \in Nat \ {0}

VARIABLES
    pub,            \* publication rows
    canonical,      \* the canonical reference: its commit and version
    conflict,       \* merge-conflict rows by publication and canonical commit
    count,          \* unresolvedConflictsByTask
    voters,         \* the voter target: its members and version
    plan,           \* plan revisions, absent ones None
    planCurrent,    \* the selected revision and the row's version
    memory,         \* memory records, absent ones None
    successor       \* memorySuccessors: record -> the one that supersedes it

repositoryVars == <<pub, canonical, conflict, count, voters>>
notesVars == <<plan, planCurrent, memory, successor>>
pvars == <<vars, repositoryVars, notesVars>>

Conflicts == Pubs \X Commits
Closed == {"applied", "rejected", "withdrawn"}
PubRow(state, commit, author, t, old, resolves) ==
    [state |-> state, commit |-> commit, author |-> author, task |-> t,
     supersedes |-> old, resolves |-> resolves, reviewer |-> None,
     signers |-> {}, signedAt |-> 0, version |-> 1]
NoPub == [PubRow("absent", Root, None, None, None, {}) EXCEPT !.version = 0]
ConflictRow(status, by, version) == [status |-> status, by |-> by, version |-> version]

Exists(p) == pub[p].state # "absent"
AuthorDevice(p) == session[pub[p].author].device
UnresolvedConflicts == {c \in Conflicts : conflict[c].status = "unresolved"}
TaskOf(c) == pub[c[1]].task

----------------------------------------------------------------------------
(* Publications.                                                           *)

\* An actor is an agent session, or a device on which a human acts.  Where the
\* reducer reads only the device of the origin, the action takes the device.
Acts(actor) == IF actor \in Sessions THEN AgentActs(actor) ELSE Active(actor)
DeviceOf(actor) == IF actor \in Sessions THEN session[actor].device ELSE actor

\* validatePublicationReceipts: distinct active members of the target, all
\* signing for its current version, a majority of it.
QuorumSigned(signers, version) ==
    /\ version = voters.version
    /\ signers \subseteq voters.members
    /\ \A d \in signers : Active(d)
    /\ 2 * Cardinality(signers) > Cardinality(voters.members)

\* publicationPathsCovered: every path lies under an active path lease of the
\* author.  Control paths belong to no scope and are never covered.
Covered(paths, s) == \A q \in paths : \E l \in LeasesOf(s) : lease[l].scope = q

\* Bug variant: an open publication may be superseded.
SupersedableAnyState(old, s, t) ==
    Exists(old) /\ pub[old].author = s /\ pub[old].task = t

\* The superseded publication is closed without effect, in the same lineage.
Supersedable(old, s, t) ==
    /\ pub[old].state \in {"rejected", "withdrawn"}
    /\ pub[old].author = s /\ pub[old].task = t

PublicationProposed(p, s, commit, t, old, resolves, signers, version) ==
    /\ AgentActs(s)
    /\ ~Exists(p)
    /\ t # None => task[t].state # "absent" /\ HeldBy(t, s)
    /\ old # None => Supersedable(old, s, t)
    /\ resolves \subseteq UnresolvedConflicts
    /\ \E paths \in SUBSET PathScopes : paths # {} /\ Covered(paths, s)
    /\ QuorumSigned(signers, version)
    /\ pub' = [pub EXCEPT ![p] =
          [PubRow("proposed", commit, s, t, old, resolves) EXCEPT
              !.signers = signers, !.signedAt = version]]
    /\ UNCHANGED <<vars, canonical, conflict, count, voters, notesVars>>

\* loadMutablePublication: it exists at the expected version.
LoadsPub(p, expected) == Exists(p) /\ expected = pub[p].version

\* An agent never decides on what its own device wrote; a human may.
PublicationReviewed(p, actor, decision, v) ==
    /\ Acts(actor) /\ LoadsPub(p, v)
    /\ actor \in Sessions => DeviceOf(actor) # AuthorDevice(p)
    /\ \/ decision = "approved" /\ pub[p].state = "proposed"
       \/ decision = "rejected" /\ pub[p].state \in {"proposed", "approved"}
    /\ pub' = [pub EXCEPT ![p].state = decision, ![p].reviewer = actor,
                          ![p].version = @ + 1]
    /\ UNCHANGED <<vars, canonical, conflict, count, voters, notesVars>>

\* publicationWithdrawalAuthorized: the author, an owner, or a human on the
\* author's device.
PublicationWithdrawn(p, actor, v) ==
    /\ Acts(actor) /\ LoadsPub(p, v)
    /\ \/ actor \in Sessions /\ actor = pub[p].author
       \/ actor \in Devices /\ (IsOwner(actor) \/ actor = AuthorDevice(p))
    /\ pub[p].state \in {"proposed", "approved"}
    /\ pub' = [pub EXCEPT ![p].state = "withdrawn", ![p].version = @ + 1]
    /\ UNCHANGED <<vars, canonical, conflict, count, voters, notesVars>>

\* Bug variant: the version of the reference is compared, its commit is not.
AppliesOnCanonicalByVersion(commit, refVersion) == refVersion = canonical.version

\* The proposal names the reference's version, the publication its commit.
AppliesOnCanonical(commit, refVersion) ==
    /\ refVersion = canonical.version
    /\ Parent[commit] = canonical.commit

\* The receipts are collected again, for the target of this moment.
PublicationApplied(p, d, refVersion, signers, version, v) ==
    /\ Active(d) /\ LoadsPub(p, v)
    /\ AppliesOnCanonical(pub[p].commit, refVersion)
    /\ QuorumSigned(signers, version)
    /\ pub[p].state = "approved"
    /\ pub' = [pub EXCEPT ![p].state = "applied", ![p].signers = signers,
                          ![p].signedAt = version, ![p].version = @ + 1]
    /\ canonical' = [commit |-> pub[p].commit, version |-> canonical.version + 1]
    /\ UNCHANGED <<vars, conflict, count, voters, notesVars>>

----------------------------------------------------------------------------
(* Conflicts.  Coordination reads of them only which tasks have one.       *)

SetCount(t, n) ==
    /\ count' = IF t = None THEN count ELSE [count EXCEPT ![t] = n]
    /\ unresolved' = {u \in Tasks : count'[u] # 0}
    /\ UNCHANGED <<device, scopeDevice, session, task, lease, policy>>

CountOf(t) == IF t = None THEN 0 ELSE count[t]

\* Bug variant: a detection that is repeated after the resolution reopens it.
RedetectedReopens(c) ==
    /\ conflict[c].version > 0
    /\ conflict' = [conflict EXCEPT ![c].status = "unresolved"]
    /\ UNCHANGED <<vars, pub, canonical, count, voters, notesVars>>

\* CompareRedetection: the same tuple again is accepted and changes nothing,
\* even when the publication or the reference has moved on since.
Redetected(c) ==
    /\ conflict[c].version > 0
    /\ UNCHANGED pvars

\* Every daemon that replays a publication may report what it finds.
ConflictDetected(d, c) ==
    /\ Active(d)
    /\ \/ Redetected(c)
       \/ /\ conflict[c].version = 0
          /\ Exists(c[1]) /\ pub[c[1]].state \notin Closed
          /\ c[2] = canonical.commit
          /\ conflict' = [conflict EXCEPT ![c] = ConflictRow("unresolved", None, 1)]
          /\ SetCount(TaskOf(c), CountOf(TaskOf(c)) + 1)
          /\ UNCHANGED <<pub, canonical, voters, notesVars>>

Resolve(c, by) ==
    /\ conflict' = [conflict EXCEPT ![c] = ConflictRow("resolved", by, @.version + 1)]
    /\ SetCount(TaskOf(c), CountOf(TaskOf(c)) - 1)
    /\ UNCHANGED <<pub, canonical, voters, notesVars>>

\* By a publication that was applied and had declared it; an agent may only
\* point at its own.
ConflictResolved(c, p, actor, v) ==
    /\ Acts(actor) /\ conflict[c].status = "unresolved" /\ v = conflict[c].version
    /\ pub[p].state = "applied" /\ c \in pub[p].resolves
    /\ actor \in Sessions => actor = pub[p].author
    /\ Resolve(c, p)

ConflictForceResolved(c, d, v) ==
    /\ IsOwner(d) /\ conflict[c].status = "unresolved" /\ v = conflict[c].version
    /\ Resolve(c, None)

----------------------------------------------------------------------------
(* The plan and the memory: rows are only added.                           *)

PlanRevisionProposed(r, d, tasks, old) ==
    /\ Active(d)
    /\ plan[r] = None
    /\ old # None => plan[old] # None
    /\ \A t \in tasks : task[t].state # "absent"
    /\ plan' = [plan EXCEPT ![r] = [by |-> d, tasks |-> tasks, supersedes |-> old]]
    /\ UNCHANGED <<vars, repositoryVars, planCurrent, memory, successor>>

PlanCurrentSelected(r, d, v) ==
    /\ IsOwner(d)
    /\ v = planCurrent.version /\ v < MaxPlanVersion
    /\ plan[r] # None
    /\ planCurrent' = [revision |-> r, version |-> v + 1]
    /\ UNCHANGED <<vars, repositoryVars, plan, memory, successor>>

\* ValidatePredecessor: the same scope, task and key.
PredecessorMatches(old, t) == memory[old] # None /\ memory[old].task = t

\* memorySuccessors: no other record has superseded it.
Supersedes(old, t) == PredecessorMatches(old, t) /\ successor[old] = None

\* A record of the session has no task; every record here has one key.
MemoryAppended(m, d, t, old) ==
    /\ Active(d)
    /\ memory[m] = None
    /\ t # None => task[t].state # "absent"
    /\ old # None => Supersedes(old, t)
    /\ memory' = [memory EXCEPT ![m] = [task |-> t, supersedes |-> old]]
    /\ successor' = IF old = None THEN successor ELSE [successor EXCEPT ![old] = m]
    /\ UNCHANGED <<vars, repositoryVars, plan, planCurrent>>

----------------------------------------------------------------------------
(* Composition.                                                            *)

\* The voter target is a projection of Membership's: active devices only,
\* and while a device is in it, it is not revoked.
VoterSetStep(members) ==
    /\ voters.version < MaxVoterVersion
    /\ members # {} /\ \A d \in members : Active(d)
    /\ voters' = [members |-> members, version |-> voters.version + 1]
    /\ UNCHANGED <<vars, pub, canonical, conflict, count, notesVars>>

CoordinationStep ==
    /\ OwnNext
    /\ \A d \in voters.members : device'[d].status = "active"
    /\ UNCHANGED <<repositoryVars, notesVars>>

Actors == Sessions \cup Devices
PubVersions == 1 .. 3

PublicationNext == \E p \in Pubs, version \in 1 .. MaxVoterVersion :
    \/ \E signers \in SUBSET Devices :
        \/ \E s \in Sessions, commit \in Commits \ {Root}, t \in Tasks \cup {None},
              old \in Pubs \cup {None}, resolves \in SUBSET UnresolvedConflicts :
              PublicationProposed(p, s, commit, t, old, resolves, signers, version)
        \/ \E d \in Devices, refVersion \in 1 .. Cardinality(Pubs), v \in PubVersions :
              PublicationApplied(p, d, refVersion, signers, version, v)
    \/ \E actor \in Actors, v \in PubVersions :
        \/ \E decision \in {"approved", "rejected"} :
              PublicationReviewed(p, actor, decision, v)
        \/ PublicationWithdrawn(p, actor, v)

ConflictNext == \E c \in Conflicts :
    \/ \E d \in Devices : ConflictDetected(d, c)
    \/ \E p \in Pubs, actor \in Actors, v \in PubVersions :
          ConflictResolved(c, p, actor, v)
    \/ \E d \in Devices, v \in PubVersions : ConflictForceResolved(c, d, v)

NotesNext ==
    \/ \E r \in Plans, d \in Devices :
        \/ \E tasks \in SUBSET Tasks, old \in Plans \cup {None} :
              PlanRevisionProposed(r, d, tasks, old)
        \/ \E v \in 1 .. MaxPlanVersion : PlanCurrentSelected(r, d, v)
    \/ \E m \in Memories, d \in Devices, t \in Tasks \cup {None},
          old \in Memories \cup {None} : MemoryAppended(m, d, t, old)

PInit ==
    /\ Init
    /\ pub = [p \in Pubs |-> NoPub]
    /\ canonical = [commit |-> Root, version |-> 1]
    /\ conflict = [c \in Conflicts |-> ConflictRow("absent", None, 0)]
    /\ count = [t \in Tasks |-> 0]
    /\ voters = [members |-> {Founder}, version |-> 1]
    /\ plan = [r \in Plans |-> None]
    /\ planCurrent = [revision |-> None, version |-> 1]
    /\ memory = [m \in Memories |-> None]
    /\ successor = [m \in Memories |-> None]

PNext ==
    \/ CoordinationStep
    \/ PublicationNext
    \/ ConflictNext
    \/ NotesNext
    \/ \E members \in SUBSET Devices : VoterSetStep(members)

PSpec == PInit /\ [][PNext]_pvars

----------------------------------------------------------------------------
(* Properties.                                                             *)

\* c is the canonical commit or one of its ancestors.
InCanonicalHistory(c) ==
    \A S \in SUBSET Commits :
        /\ canonical.commit \in S
        /\ \A x \in S \ {Root} : Parent[x] \in S
        => c \in S

\* No publication that was applied is lost: the canonical commit descends from
\* every one of them, no commit was applied twice, and each passed a review that
\* was not its own agent's, although applies of competing publications, reviews
\* and changes of the voter target are committed in any order
\* (reducePublicationApplied and what it compares).
AppliedAreKept ==
    LET applied == {p \in Pubs : pub[p].state = "applied"} IN
    /\ canonical.version = Cardinality(applied) + 1
    /\ \A p \in applied :
          /\ InCanonicalHistory(pub[p].commit)
          /\ \A q \in applied \ {p} : pub[q].commit # pub[p].commit
          /\ pub[p].reviewer # None
          /\ pub[p].reviewer \in Sessions =>
                session[pub[p].reviewer].device # AuthorDevice(p)

PublicationReferencesHold(p) ==
    /\ session[pub[p].author].state # "absent"
    /\ pub[p].task # None => task[pub[p].task].state # "absent"
    /\ pub[p].supersedes # None =>
          LET old == pub[pub[p].supersedes] IN
          /\ old.state \in {"rejected", "withdrawn"}
          /\ old.author = pub[p].author /\ old.task = pub[p].task
    /\ \A d \in pub[p].signers : device[d].status # "absent"
    /\ \A c \in pub[p].resolves : conflict[c].version > 0
ConflictReferencesHold(c) ==
    /\ Exists(c[1])
    /\ conflict[c].by # None =>
          pub[conflict[c].by].state = "applied" /\ c \in pub[conflict[c].by].resolves
PlanReferencesHold(r) ==
    /\ device[plan[r].by].status # "absent"
    /\ \A t \in plan[r].tasks : task[t].state # "absent"
    /\ plan[r].supersedes # None => plan[plan[r].supersedes] # None
MemoryReferencesHold(m) ==
    /\ memory[m].task # None => task[memory[m].task].state # "absent"
    /\ memory[m].supersedes # None =>
          /\ memory[memory[m].supersedes] # None
          /\ memory[memory[m].supersedes].task = memory[m].task
          /\ successor[memory[m].supersedes] = m
\* In every set of rows one supersedes none of the others.
Acyclic(supersedes) ==
    \A S \in SUBSET DOMAIN supersedes : S # {} => \E x \in S : supersedes[x] \notin S

\* NewState on the publications and conflicts of a snapshot.
RepositoryRowsLoad ==
    /\ \A p \in Pubs : Exists(p) => PublicationReferencesHold(p)
    /\ Acyclic([p \in {q \in Pubs : Exists(q)} |-> pub[p].supersedes])
    /\ \A c \in Conflicts : conflict[c].version > 0 => ConflictReferencesHold(c)
\* loadPlanMemorySnapshot.
NoteRowsLoad ==
    /\ \A r \in Plans : plan[r] # None => PlanReferencesHold(r)
    /\ Acyclic([r \in {q \in Plans : plan[q] # None} |-> plan[r].supersedes])
    /\ planCurrent.revision # None => plan[planCurrent.revision] # None
    /\ \A m \in Memories : memory[m] # None => MemoryReferencesHold(m)
    /\ Acyclic([m \in {n \in Memories : memory[n] # None} |-> memory[m].supersedes])
\* The count NewState makes of the rows.
RebuiltCount(t) == Cardinality({c \in UnresolvedConflicts : TaskOf(c) = t})

\* The per-task count that every replica maintains step by step is the one that
\* NewState rebuilds from the rows after a restart: otherwise two replicas would
\* answer the same claim or completion of a task differently.
CountsMatchRows ==
    /\ \A t \in Tasks : count[t] = RebuiltCount(t)
    /\ unresolved = {t \in Tasks : count[t] # 0}

\* Whatever was committed since, every row still passes the check that NewState
\* and each later reducer that meets it apply (validate*References, the walks
\* for supersession cycles, the index of memory successors, the counts): a row
\* that does not makes every replica return an invalid-state error and halt.
ReferencesHold == RepositoryRowsLoad /\ NoteRowsLoad /\ CountsMatchRows
=============================================================================
