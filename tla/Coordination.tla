---------------------------- MODULE Coordination ----------------------------
(***************************************************************************)
(* The coordination reducers of internal/reducer: agent sessions, tasks,   *)
(* leases and the session policy that bounds them.  Every committed        *)
(* proposal is reduced alone, in log order, so one action is one accepted  *)
(* proposal: its guard is the conjunction of the checks between            *)
(* beginReduction and context.accept*, its effect the rows of the change   *)
(* set.  A rejected proposal leaves these rows alone; the one rejection    *)
(* with an effect here, a refused agent.session.started, burns its id.     *)
(*                                                                         *)
(* A row that does not exist has state or status "absent" and version 0.   *)
(* MaxVersion[k] stands for domain.MaxSafeInteger in rows of kind k, so    *)
(* the version_exhausted rejections are reached.  Device rows and          *)
(* unresolved conflicts belong to other reducers; MembershipStep and       *)
(* ConflictStep are their projections.                                     *)
(***************************************************************************)
EXTENDS Naturals, FiniteSets

CONSTANTS
    Devices,      \* device ids
    Sessions,     \* agent session ids an agent may propose
    Tasks,        \* task ids
    Leases,       \* lease ids
    PathScopes,   \* normalised path pattern lists
    Overlap,      \* pairs of path scopes with an intersecting pattern
    Policies,     \* policy values that pass Values.Validate
    MaxVersion,   \* row kind -> the largest entity version of its rows
    Founder,      \* the device that created the session
    None          \* the null of optional identifiers

ASSUME ConstantsAssumption ==
    /\ Founder \in Devices
    /\ MaxVersion \in [{"session", "task", "lease", "policy"} -> Nat \ {0}]
    /\ None \notin Devices \cup Sessions \cup Tasks \cup PathScopes
    /\ IsFiniteSet(Sessions) /\ IsFiniteSet(Tasks) /\ IsFiniteSet(Leases)
    /\ Tasks \cap PathScopes = {}
    /\ Policies # {}

\* Overlap is the graph of ActiveLeasesIntersect on path leases.
ASSUME OverlapAssumption ==
    /\ Overlap \subseteq PathScopes \X PathScopes
    /\ \A p \in PathScopes : <<p, p>> \in Overlap
    /\ \A p, q \in PathScopes : <<p, q>> \in Overlap => <<q, p>> \in Overlap

\* Values.Validate: lower bounds and the two relations between limits.
ASSUME PoliciesAssumption ==
    \A p \in Policies :
        /\ p \in [agentClaims : Nat \ {0}, deviceClaims : Nat \ {0},
                  agentLeases : Nat \ {0}, deviceLeases : Nat \ {0},
                  sessions : Nat \ {0}]
        /\ p.agentClaims <= p.deviceClaims
        /\ p.agentLeases <= p.deviceLeases

VARIABLES
    device,       \* device id -> its membership row
    scopeDevice,  \* agent scope id -> the device it is bound to
    session,      \* agent session rows
    task,         \* task rows
    lease,        \* lease rows
    policy,       \* the session policy row
    unresolved    \* tasks with an unresolved merge conflict

vars == <<device, scopeDevice, session, task, lease, policy, unresolved>>

----------------------------------------------------------------------------
(* States and edges of the three lifecycles.                               *)

Connected == {"starting", "idle", "claimed", "working", "blocked"}
SessionStates == Connected \cup {"absent", "disconnected", "ended"}
ASSUME NullAssumption == None \notin Connected

\* agentStatusTransitions: starting only becomes idle, the rest interconnect.
AgentStatusEdge(from, to) ==
    \/ from = "starting" /\ to = "idle"
    \/ /\ from \in Connected \ {"starting"}
       /\ to \in Connected \ {"starting"}
       /\ from # to

Owned == {"claimed", "in_progress", "blocked"}
Terminal == {"done", "cancelled"}
TaskStates == Owned \cup Terminal \cup {"absent", "backlog", "ready"}

\* legalTransitions[OperationStateChange]
StateChangeEdges ==
    {<<"backlog", "ready">>, <<"ready", "backlog">>,
     <<"claimed", "in_progress">>, <<"in_progress", "blocked">>,
     <<"in_progress", "done">>, <<"blocked", "in_progress">>}

\* releaseEdges(true), for the forced release and the reassignment.
Releasable == Owned \cup {"ready"}

LeaseScopes == Tasks \cup PathScopes

SessionRow(state, resume, dev, version) ==
    [state |-> state, resume |-> resume, device |-> dev, version |-> version]
TaskRow(state, dev, agent, intended, blockedBy, version) ==
    [state |-> state, device |-> dev, agent |-> agent, intended |-> intended,
     blockedBy |-> blockedBy, version |-> version]
LeaseRow(status, dev, agent, scope, version) ==
    [status |-> status, device |-> dev, agent |-> agent, scope |-> scope,
     version |-> version]

----------------------------------------------------------------------------
(* Who may act, and which rows an operation may load.                      *)

Active(d) == device[d].status = "active"

\* beginReduction and roleSatisfies: every active role meets RoleEditor.
IsOwner(d) == Active(d) /\ device[d].role = "owner"

\* Bug variant: the origin's device row is not looked at.
AgentActsWithoutDevice(s) == session[s].state \in Connected

\* validateOriginBinding for the kinds other than agent.session.started.
AgentActs(s) == session[s].state \in Connected /\ Active(session[s].device)

\* loadMutable{Task,Lease,AgentSession}: the row exists, the proposal's
\* expected version is the row's, and the row can take one more version.
Loads(row, expected, kind) ==
    /\ row.version > 0
    /\ expected = row.version
    /\ row.version < MaxVersion[kind]

HeldBy(t, s) == task[t].agent = s /\ task[t].device = session[s].device
WhollyUnowned(t) == task[t].agent = None /\ task[t].device = None

TasksOf(s) == {t \in Tasks : task[t].agent = s}
TasksOn(d) == {t \in Tasks : task[t].device = d}
ActiveLeases == {l \in Leases : lease[l].status = "active"}
LeasesOf(s) == {l \in ActiveLeases : lease[l].agent = s}
LeasesOn(d) == {l \in ActiveLeases : lease[l].device = d}
LiveSessions == {s \in Sessions : session[s].state \notin {"absent", "ended"}}

\* Bug variant: the release forgets entity_version++.
UnownedSameVersion(row, state, intended) ==
    TaskRow(state, None, None, intended, row.blockedBy, row.version)

\* Owners and intent cleared, one version on: what every release writes, with
\* the intended device of a reassignment or the terminal state it moves to.
Unowned(row, state, intended) ==
    TaskRow(state, None, None, intended, row.blockedBy, row.version + 1)
Released(row) == Unowned(row, "ready", None)

\* ActiveLeasesIntersect: equal tasks, overlapping paths, never a mixture.
Intersects(a, b) == a = b \/ <<a, b>> \in Overlap

\* Bug variant: an agent's own leases are skipped.
NoLeaseConflictWithOthers(scope, s) ==
    \A l \in ActiveLeases : lease[l].agent # s => ~Intersects(scope, lease[l].scope)

\* findActiveLeaseConflict: whoever holds it, an intersecting lease conflicts.
NoLeaseConflict(scope, s) ==
    \A l \in ActiveLeases : ~Intersects(scope, lease[l].scope)

\* Bug variant: the candidates are looked at, but not what they depend on.
DependenciesValidShallow(t, deps) ==
    /\ \A u \in deps : task[u].state # "absent"
    /\ t \notin deps

\* ValidateDependencyGraph: every dependency exists, and no walk along
\* blocked_by from the candidates returns to the subject, that is, some set
\* closed under blocked_by holds the candidates and not the subject.
ClosedUnder(S, rows) == \A u \in S : rows[u].blockedBy \subseteq S
DependenciesValid(t, deps) ==
    /\ \A u \in deps : task[u].state # "absent"
    /\ \E S \in SUBSET Tasks :
          /\ deps \subseteq S
          /\ t \notin S
          /\ ClosedUnder(S, task)

AllDependenciesDone(t) == \A u \in task[t].blockedBy : task[u].state = "done"

Claimable(t, d) ==
    /\ task[t].state = "ready"
    /\ AllDependenciesDone(t)
    /\ t \notin unresolved
    /\ task[t].intended \in {None, d}

\* Bug variant: <= for <.
MayClaimOneMoreOff(s, d) ==
    /\ Cardinality(TasksOf(s)) <= policy.values.agentClaims
    /\ Cardinality(TasksOn(d)) <= policy.values.deviceClaims

MayClaimOneMore(s, d) ==
    /\ Cardinality(TasksOf(s)) < policy.values.agentClaims
    /\ Cardinality(TasksOn(d)) < policy.values.deviceClaims

\* policyUseViolation, the limits the coordination rows use.
UseWithin(values) ==
    /\ Cardinality(LiveSessions) <= values.sessions
    /\ \A s \in Sessions :
          /\ Cardinality(TasksOf(s)) <= values.agentClaims
          /\ Cardinality(LeasesOf(s)) <= values.agentLeases
    /\ \A d \in Devices :
          /\ Cardinality(TasksOn(d)) <= values.deviceClaims
          /\ Cardinality(LeasesOn(d)) <= values.deviceLeases

----------------------------------------------------------------------------
(* Agent sessions.                                                         *)

AgentSessionStarted(d, s) ==
    /\ Active(d)
    /\ scopeDevice[s] = None
    /\ session[s].state = "absent"
    /\ Cardinality(LiveSessions) < policy.values.sessions
    /\ scopeDevice' = [scopeDevice EXCEPT ![s] = d]
    /\ session' = [session EXCEPT ![s] = SessionRow("starting", None, d, 1)]
    /\ UNCHANGED <<device, task, lease, policy, unresolved>>

\* A start refused after its sequence was consumed (the limit is reached, or
\* the payload is bad) leaves the agent scope behind: the id is burned.
AgentSessionStartRejected(d, s) ==
    /\ Active(d)
    /\ scopeDevice[s] = None
    /\ session[s].state = "absent"
    /\ scopeDevice' = [scopeDevice EXCEPT ![s] = d]
    /\ UNCHANGED <<device, session, task, lease, policy, unresolved>>

SessionStep(row, state, resume) ==
    SessionRow(state, resume, row.device, row.version + 1)

AgentStatusChanged(s, to, expected) ==
    /\ AgentActs(s)
    /\ Loads(session[s], expected, "session")
    /\ AgentStatusEdge(session[s].state, to)
    /\ session' = [session EXCEPT ![s] = SessionStep(session[s], to, None)]
    /\ UNCHANGED <<device, scopeDevice, task, lease, policy, unresolved>>

DaemonDisconnect(s, expected) ==
    /\ Loads(session[s], expected, "session")
    /\ Active(session[s].device)
    /\ session[s].state \in Connected
    /\ session' = [session EXCEPT ![s] =
                      SessionStep(session[s], "disconnected", session[s].state)]
    /\ UNCHANGED <<device, scopeDevice, task, lease, policy, unresolved>>

DaemonResume(s, to, expected) ==
    /\ Loads(session[s], expected, "session")
    /\ Active(session[s].device)
    /\ session[s].state = "disconnected"
    /\ to = session[s].resume
    /\ session' = [session EXCEPT ![s] = SessionStep(session[s], to, None)]
    /\ UNCHANGED <<device, scopeDevice, task, lease, policy, unresolved>>

\* OperationCleanEnd by the agent, OperationDaemonEnd by the session's device.
MayEnd(s, reason) ==
    CASE reason = "clean" -> AgentActs(s)
      [] reason = "disconnect_timeout" ->
            /\ Active(session[s].device)
            /\ session[s].state = "disconnected"
      [] OTHER -> Active(session[s].device) /\ session[s].state # "ended"

\* Bug variant: the cascade misses blocked tasks.
CascadeTasksNotBlocked(s) ==
    [t \in Tasks |-> IF task[t].agent = s /\ task[t].state # "blocked"
                     THEN Released(task[t]) ELSE task[t]]

\* buildSessionEndCascade: everything the session holds, or nothing.
CascadeTasks(s) ==
    [t \in Tasks |-> IF task[t].agent = s THEN Released(task[t]) ELSE task[t]]
LeaseStep(row, status) ==
    LeaseRow(status, row.device, row.agent, row.scope, row.version + 1)
CascadeLeases(s) ==
    [l \in Leases |->
        IF l \in LeasesOf(s)
        THEN LeaseStep(lease[l], "released")
        ELSE lease[l]]

AgentSessionEnded(s, reason, expected) ==
    /\ Loads(session[s], expected, "session")
    /\ MayEnd(s, reason)
    /\ \A t \in TasksOf(s) : task[t].version < MaxVersion["task"]
    /\ \A l \in LeasesOf(s) : lease[l].version < MaxVersion["lease"]
    /\ session' = [session EXCEPT ![s] = SessionStep(session[s], "ended", None)]
    /\ task' = CascadeTasks(s)
    /\ lease' = CascadeLeases(s)
    /\ UNCHANGED <<device, scopeDevice, policy, unresolved>>

----------------------------------------------------------------------------
(* Tasks.                                                                  *)

TaskCreated(t, deps) ==
    /\ \E d \in Devices : Active(d)
    /\ task[t].state = "absent"
    /\ DependenciesValid(t, deps)
    /\ task' = [task EXCEPT ![t] = TaskRow("backlog", None, None, None, deps, 1)]
    /\ UNCHANGED <<device, scopeDevice, session, lease, policy, unresolved>>

\* A human of any active device, or an agent that holds the task or finds it
\* unowned; the state of the task is not looked at.
MayUpdate(t, s) ==
    \/ s = None
    \/ s # None /\ AgentActs(s) /\ (HeldBy(t, s) \/ WhollyUnowned(t))

TaskUpdated(t, s, deps, expected) ==
    /\ Loads(task[t], expected, "task")
    /\ \E d \in Devices : Active(d)
    /\ MayUpdate(t, s)
    /\ deps # task[t].blockedBy => DependenciesValid(t, deps)
    /\ task' = [task EXCEPT ![t] =
                   TaskRow(task[t].state, task[t].device, task[t].agent,
                           task[t].intended, deps, task[t].version + 1)]
    /\ UNCHANGED <<device, scopeDevice, session, lease, policy, unresolved>>

\* The holder moves an owned task, a human one that nobody owns.
TaskStateChanged(t, s, to, expected) ==
    /\ Loads(task[t], expected, "task")
    /\ \/ s # None /\ AgentActs(s) /\ HeldBy(t, s)
       \/ s = None /\ WhollyUnowned(t) /\ \E d \in Devices : Active(d)
    /\ <<task[t].state, to>> \in StateChangeEdges
    /\ to = "done" => t \notin unresolved
    /\ task' = [task EXCEPT ![t] =
                   IF to \in Terminal
                   THEN Unowned(task[t], to, None)
                   ELSE TaskRow(to, task[t].device, task[t].agent,
                                task[t].intended, task[t].blockedBy,
                                task[t].version + 1)]
    /\ UNCHANGED <<device, scopeDevice, session, lease, policy, unresolved>>

TaskClaimed(t, s, expected) ==
    LET d == session[s].device IN
    /\ AgentActs(s)
    /\ Loads(task[t], expected, "task")
    /\ Claimable(t, d)
    /\ MayClaimOneMore(s, d)
    /\ task' = [task EXCEPT ![t] =
                   TaskRow("claimed", d, s, None, task[t].blockedBy,
                           task[t].version + 1)]
    /\ UNCHANGED <<device, scopeDevice, session, lease, policy, unresolved>>

TaskReleasedVoluntary(t, s, expected) ==
    /\ AgentActs(s)
    /\ Loads(task[t], expected, "task")
    /\ HeldBy(t, s)
    /\ task[t].state \in Owned
    /\ task' = [task EXCEPT ![t] = Released(task[t])]
    /\ UNCHANGED <<device, scopeDevice, session, lease, policy, unresolved>>

TaskReleasedForced(t, d, expected) ==
    /\ Active(d)
    /\ Loads(task[t], expected, "task")
    /\ IsOwner(d) \/ task[t].device = d \/ task[t].intended = d
    /\ task[t].state \in Releasable
    /\ task' = [task EXCEPT ![t] = Released(task[t])]
    /\ UNCHANGED <<device, scopeDevice, session, lease, policy, unresolved>>

TaskReassigned(t, d, target, expected) ==
    /\ IsOwner(d)
    /\ Loads(task[t], expected, "task")
    /\ Active(target)
    /\ task[t].state \in Releasable
    /\ task' = [task EXCEPT ![t] = Unowned(task[t], "ready", target)]
    /\ UNCHANGED <<device, scopeDevice, session, lease, policy, unresolved>>

TaskCancelled(t, d, expected) ==
    /\ IsOwner(d)
    /\ Loads(task[t], expected, "task")
    /\ task[t].state \notin Terminal
    /\ task' = [task EXCEPT ![t] = Unowned(task[t], "cancelled", None)]
    /\ UNCHANGED <<device, scopeDevice, session, lease, policy, unresolved>>

----------------------------------------------------------------------------
(* Leases.                                                                 *)

LeaseAcquired(l, s, scope) ==
    LET d == session[s].device IN
    /\ AgentActs(s)
    /\ lease[l].status = "absent"
    /\ scope \in Tasks => task[scope].state # "absent" /\ HeldBy(scope, s)
    /\ Cardinality(LeasesOf(s)) < policy.values.agentLeases
    /\ Cardinality(LeasesOn(d)) < policy.values.deviceLeases
    /\ NoLeaseConflict(scope, s)
    /\ lease' = [lease EXCEPT ![l] = LeaseRow("active", d, s, scope, 1)]
    /\ UNCHANGED <<device, scopeDevice, session, task, policy, unresolved>>

LeaseHeldBy(l, s) == lease[l].agent = s /\ lease[l].device = session[s].device

LeaseRenewed(l, s, expected) ==
    /\ AgentActs(s)
    /\ Loads(lease[l], expected, "lease")
    /\ LeaseHeldBy(l, s)
    /\ lease[l].status = "active"
    /\ lease' = [lease EXCEPT ![l] = LeaseStep(lease[l], "active")]
    /\ UNCHANGED <<device, scopeDevice, session, task, policy, unresolved>>

\* voluntary by the holding agent, forced by an operator, expired by a daemon
\* (that it leads is an ingress check, not a reducer input).
MayReleaseLease(l, s, d, reason) ==
    CASE reason = "voluntary" -> AgentActs(s) /\ LeaseHeldBy(l, s)
      [] reason = "forced" -> Active(d) /\ (IsOwner(d) \/ lease[l].device = d)
      [] OTHER -> Active(d)

LeaseReleased(l, s, d, reason, expected) ==
    /\ Loads(lease[l], expected, "lease")
    /\ MayReleaseLease(l, s, d, reason)
    /\ lease[l].status = "active"
    /\ lease' = [lease EXCEPT ![l] = LeaseStep(lease[l], "released")]
    /\ UNCHANGED <<device, scopeDevice, session, task, policy, unresolved>>

----------------------------------------------------------------------------
(* Policy, and the projections of the other reducers.                      *)

PolicyChanged(d, values, expected) ==
    /\ IsOwner(d)
    /\ expected = policy.version
    /\ policy.version < MaxVersion["policy"]
    /\ UseWithin(values)
    /\ policy' = [values |-> values, version |-> policy.version + 1]
    /\ UNCHANGED <<device, scopeDevice, session, task, lease, unresolved>>

\* membership.*: admission, role change, revocation; an active owner remains.
MembershipStep(d, row) ==
    /\ device[d].status # "revoked"
    /\ row.status # "absent" /\ row # device[d]
    /\ device[d].status = "absent" => row.status = "active"
    /\ device' = [device EXCEPT ![d] = row]
    /\ \E o \in Devices : device'[o] = [status |-> "active", role |-> "owner"]
    /\ UNCHANGED <<scopeDevice, session, task, lease, policy, unresolved>>

\* workspace.conflict.*: detection on a publication of the task, resolution.
ConflictStep(t) ==
    /\ task[t].state # "absent"
    /\ unresolved' = IF t \in unresolved THEN unresolved \ {t}
                                         ELSE unresolved \cup {t}
    /\ UNCHANGED <<device, scopeDevice, session, task, lease, policy>>

----------------------------------------------------------------------------
(* The specification.                                                      *)

Versions(kind) == 1 .. MaxVersion[kind]
EndReasons == {"clean", "disconnect_timeout", "operator", "crash_reap"}
ReleaseReasons == {"voluntary", "forced", "expired"}
DeviceRows == [status : {"absent", "active", "revoked"},
               role : {"owner", "editor"}]

Init ==
    /\ device = [d \in Devices |->
                    IF d = Founder THEN [status |-> "active", role |-> "owner"]
                                   ELSE [status |-> "absent", role |-> "editor"]]
    /\ scopeDevice = [s \in Sessions |-> None]
    /\ session = [s \in Sessions |-> SessionRow("absent", None, None, 0)]
    /\ task = [t \in Tasks |-> TaskRow("absent", None, None, None, {}, 0)]
    /\ lease = [l \in Leases |-> LeaseRow("absent", None, None, None, 0)]
    /\ policy \in [values : Policies, version : {1}]
    /\ unresolved = {}

SessionNext == \E s \in Sessions :
    \/ \E d \in Devices : AgentSessionStarted(d, s) \/ AgentSessionStartRejected(d, s)
    \/ \E v \in Versions("session") :
          \/ \E to \in Connected : AgentStatusChanged(s, to, v)
          \/ \E to \in Connected : DaemonResume(s, to, v)
          \/ DaemonDisconnect(s, v)
          \/ \E r \in EndReasons : AgentSessionEnded(s, r, v)

TaskOperation(t) ==
    \/ \E deps \in SUBSET Tasks : TaskCreated(t, deps)
    \/ \E v \in Versions("task") :
          \/ \E s \in Sessions \cup {None} :
                \/ \E deps \in SUBSET Tasks : TaskUpdated(t, s, deps, v)
                \/ \E to \in TaskStates : TaskStateChanged(t, s, to, v)
          \/ \E s \in Sessions : TaskClaimed(t, s, v) \/ TaskReleasedVoluntary(t, s, v)
          \/ \E d \in Devices :
                \/ TaskReleasedForced(t, d, v)
                \/ TaskCancelled(t, d, v)
                \/ \E target \in Devices : TaskReassigned(t, d, target, v)

TaskNext == \E t \in Tasks : TaskOperation(t) \/ ConflictStep(t)

LeaseNext == \E l \in Leases, s \in Sessions :
    \/ \E scope \in LeaseScopes : LeaseAcquired(l, s, scope)
    \/ \E v \in Versions("lease") :
          \/ LeaseRenewed(l, s, v)
          \/ \E d \in Devices, r \in ReleaseReasons : LeaseReleased(l, s, d, r, v)

AdminNext == \E d \in Devices :
    \/ \E values \in Policies, v \in Versions("policy") : PolicyChanged(d, values, v)
    \/ \E row \in DeviceRows : MembershipStep(d, row)

Next == SessionNext \/ TaskNext \/ LeaseNext \/ AdminNext

\* Next without the projection of the conflict reducers.
OwnNext == SessionNext \/ (\E t \in Tasks : TaskOperation(t)) \/ LeaseNext \/ AdminNext

Spec == Init /\ [][Next]_vars

----------------------------------------------------------------------------
(* Properties.                                                             *)

TaskRows == [state : TaskStates, device : Devices \cup {None},
             agent : Sessions \cup {None}, intended : Devices \cup {None},
             blockedBy : SUBSET Tasks, version : 0 .. MaxVersion["task"]]
SessionRows == [state : SessionStates, resume : Connected \cup {None},
                device : Devices \cup {None}, version : 0 .. MaxVersion["session"]]
LeaseRows == [status : {"absent", "active", "released"},
              device : Devices \cup {None}, agent : Sessions \cup {None},
              scope : LeaseScopes \cup {None}, version : 0 .. MaxVersion["lease"]]

\* Every row has the shape its table in the projection store gives it.
TypeOK ==
    /\ device \in [Devices -> DeviceRows]
    /\ scopeDevice \in [Sessions -> Devices \cup {None}]
    /\ session \in [Sessions -> SessionRows]
    /\ task \in [Tasks -> TaskRows]
    /\ lease \in [Leases -> LeaseRows]
    /\ policy \in [values : Policies, version : 1 .. MaxVersion["policy"]]
    /\ unresolved \subseteq Tasks

\* A session row lives in the agent scope of its own device, only a
\* disconnected session remembers a state to resume, and version 0 means that
\* the row is absent (validateAgentSessionReferences, Lifecycle.Validate).
SessionsConsistent == \A s \in Sessions :
    /\ (session[s].state = "absent") <=> (session[s].version = 0)
    /\ session[s].state # "absent" =>
          session[s].device # None /\ scopeDevice[s] = session[s].device
    /\ (session[s].state = "disconnected") <=> (session[s].resume # None)

\* A task has an owner exactly while it is claimed, in progress or blocked; the
\* owner is a session that has not ended, on the owning device; an intent and an
\* owner, or an intent and a terminal state, never meet (validateOwnership,
\* validateTaskReferences: a snapshot that breaks this cannot be loaded again).
OwnershipConsistent == \A t \in Tasks :
    LET row == task[t] IN
    /\ (row.state = "absent") <=> (row.version = 0)
    /\ (row.agent # None) <=> (row.state \in Owned)
    /\ (row.device # None) <=> (row.agent # None)
    /\ row.agent # None =>
          /\ session[row.agent].state \notin {"absent", "ended"}
          /\ session[row.agent].device = row.device
          /\ row.intended = None
    /\ row.state \in Terminal \cup {"absent"} => row.intended = None

\* An active lease is held by a session that has not ended, on the holding
\* device (validateLeaseReferences): ending a session leaves no lease behind.
LeaseHoldersLive == \A l \in Leases :
    /\ (lease[l].status = "absent") <=> (lease[l].version = 0)
    /\ lease[l].status = "active" =>
          /\ lease[l].scope # None
          /\ lease[l].agent # None
          /\ session[lease[l].agent].state \notin {"absent", "ended"}
          /\ session[lease[l].agent].device = lease[l].device

\* Committed use never exceeds the committed policy, although limits are
\* lowered while sessions, claims and leases exist (validateDerivedBounds).
UseWithinPolicy == UseWithin(policy.values)

\* No two active leases reserve the same task or overlapping paths, whatever
\* the order in which acquisitions, releases and session ends were committed.
LeasesDisjoint == \A l, m \in ActiveLeases :
    l # m => ~Intersects(lease[l].scope, lease[m].scope)

\* Every dependency names a task that exists, and blocked_by is well-founded:
\* in any set of tasks one waits for none of the others, so no tasks block each
\* other for ever, however often blocked_by is rewritten.
DependenciesAcyclic ==
    /\ \A t \in Tasks : \A u \in task[t].blockedBy : task[u].state # "absent"
    /\ \A S \in SUBSET Tasks :
          S # {} => \E t \in S : task[t].blockedBy \cap S = {}

\* Sessions, tasks and leases fit together after any cascade: sessions have the
\* resume state they need, nothing is held by a session that is gone, no limit
\* is exceeded, no two leases intersect and no tasks wait for each other.
RowsConsistent ==
    /\ SessionsConsistent /\ OwnershipConsistent /\ LeaseHoldersLive
    /\ UseWithinPolicy /\ LeasesDisjoint /\ DependenciesAcyclic

\* validate*Changes: a row that changes moves to its next version, an ended
\* session and a released lease never change, and a finished task stays so.
RowsAdvance ==
    /\ \A s \in Sessions : session'[s] # session[s] =>
          /\ session'[s].version = session[s].version + 1
          /\ session[s].state # "ended"
    /\ \A l \in Leases : lease'[l] # lease[l] =>
          /\ lease'[l].version = lease[l].version + 1
          /\ lease[l].status # "released"
    /\ \A t \in Tasks : task'[t] # task[t] =>
          /\ task'[t].version = task[t].version + 1
          /\ task[t].state \in Terminal => task'[t].state = task[t].state

\* A session that is disconnected, or whose device is revoked, makes no
\* progress on what it holds: its tasks can only be taken from it (back to
\* ready, or cancelled), it claims nothing and acquires or renews no lease.
Silent(s) ==
    \/ session[s].state \notin Connected
    \/ device[session[s].device].status # "active"
SilentSessionsFrozen ==
    \A s \in Sessions :
        Silent(s) =>
            /\ \A t \in Tasks :
                  /\ task[t].agent = s /\ task'[t].state # task[t].state
                        => task'[t].state \in {"ready", "cancelled"}
                  /\ task'[t].agent = s => task[t].agent = s
            /\ \A l \in Leases :
                  lease'[l] # lease[l] /\ lease'[l].agent = s
                        => lease'[l].status = "released"

\* No step takes a row back or lets a silent session act (validate*Changes and the
\* reducers' checks of the acting session).
RowsAlwaysAdvance == [][RowsAdvance /\ SilentSessionsFrozen]_vars
=============================================================================
