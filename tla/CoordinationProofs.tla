------------------------- MODULE CoordinationProofs -------------------------
(***************************************************************************)
(* Proofs about Coordination, for every set of devices, sessions, tasks,   *)
(* leases, path scopes and policies and every version bound.               *)
(***************************************************************************)
EXTENDS Coordination, FiniteSetTheorems, TLAPS

----------------------------------------------------------------------------
(* The row operators keep the types of the rows.                           *)

\* Releasing a task row that can take one more version gives a task row.
LEMMA UnownedType ==
    ASSUME NEW row \in TaskRows, row.version < MaxVersion["task"],
           NEW state \in TaskStates, NEW intended \in Devices \cup {None}
    PROVE  Unowned(row, state, intended) \in TaskRows
  BY ConstantsAssumption DEF Unowned, TaskRow, TaskRows

LEMMA ReleasedType ==
    ASSUME NEW row \in TaskRows, row.version < MaxVersion["task"]
    PROVE  Released(row) \in TaskRows
  BY UnownedType DEF Released, TaskStates

\* An acting agent session has a device.
LEMMA ActorDevice ==
    ASSUME TypeOK, SessionsConsistent, NEW s \in Sessions, AgentActs(s)
    PROVE  session[s].device \in Devices /\ session[s].state \notin {"absent", "ended"}
  BY DEF TypeOK, SessionsConsistent, SessionRows, AgentActs, Connected

\* Initially every row is absent but the founder's.
LEMMA TypeInit == Init => TypeOK
  BY ConstantsAssumption
  DEF Init, TypeOK, DeviceRows, SessionRows, TaskRows, LeaseRows, SessionStates,
      TaskStates, SessionRow, TaskRow, LeaseRow

\* The reducers of agent.session.* keep every row well typed.
LEMMA TypeSession == TypeOK /\ SessionNext => TypeOK'
  <1> SUFFICES ASSUME TypeOK, NEW s \in Sessions,
                      \/ \E d \in Devices : \/ AgentSessionStarted(d, s)
                                            \/ AgentSessionStartRejected(d, s)
                      \/ \E v \in Versions("session") :
                            \/ \E to \in Connected : AgentStatusChanged(s, to, v)
                            \/ \E to \in Connected : DaemonResume(s, to, v)
                            \/ DaemonDisconnect(s, v)
                            \/ \E r \in EndReasons : AgentSessionEnded(s, r, v)
               PROVE  TypeOK'
    BY DEF SessionNext
  <1> USE ConstantsAssumption
  <1>1. ASSUME NEW d \in Devices, AgentSessionStarted(d, s) PROVE TypeOK'
    BY <1>1 DEF AgentSessionStarted, SessionRow, TypeOK, SessionRows, SessionStates, Connected
  <1>2. ASSUME NEW d \in Devices, AgentSessionStartRejected(d, s) PROVE TypeOK'
    BY <1>2 DEF AgentSessionStartRejected, TypeOK
  <1>3. ASSUME NEW v, NEW to \in Connected, AgentStatusChanged(s, to, v) PROVE TypeOK'
    BY <1>3 DEF AgentStatusChanged, SessionStep, SessionRow, Loads, TypeOK, SessionRows, SessionStates
  <1>4. ASSUME NEW v, NEW to \in Connected, DaemonResume(s, to, v) PROVE TypeOK'
    BY <1>4 DEF DaemonResume, SessionStep, SessionRow, Loads, TypeOK, SessionRows, SessionStates
  <1>5. ASSUME NEW v, DaemonDisconnect(s, v) PROVE TypeOK'
    BY <1>5 DEF DaemonDisconnect, SessionStep, SessionRow, Loads, TypeOK, SessionRows, SessionStates
  <1>6. ASSUME NEW v, NEW r, AgentSessionEnded(s, r, v) PROVE TypeOK'
    <2>1. session' \in [Sessions -> SessionRows]
      BY <1>6 DEF AgentSessionEnded, SessionStep, SessionRow, Loads, TypeOK, SessionRows, SessionStates
    <2>2. task' \in [Tasks -> TaskRows]
      BY <1>6, ReleasedType DEF AgentSessionEnded, CascadeTasks, TasksOf, TypeOK
    <2>3. lease' \in [Leases -> LeaseRows]
      BY <1>6 DEF AgentSessionEnded, CascadeLeases, LeaseStep, LeaseRow, LeasesOf, ActiveLeases, TypeOK, LeaseRows
    <2> QED
      BY <1>6, <2>1, <2>2, <2>3 DEF AgentSessionEnded, TypeOK
  <1> QED
    BY <1>1, <1>2, <1>3, <1>4, <1>5, <1>6

\* The reducers of task.* keep every row well typed.
LEMMA TypeTask == TypeOK /\ SessionsConsistent /\ TaskNext => TypeOK'
  <1> SUFFICES ASSUME TypeOK, SessionsConsistent, NEW t \in Tasks,
                      \/ \E deps \in SUBSET Tasks : TaskCreated(t, deps)
                      \/ ConflictStep(t)
                      \/ \E v \in Versions("task") :
                            \/ \E s \in Sessions \cup {None} :
                                  \/ \E deps \in SUBSET Tasks : TaskUpdated(t, s, deps, v)
                                  \/ \E to \in TaskStates : TaskStateChanged(t, s, to, v)
                            \/ \E s \in Sessions : \/ TaskClaimed(t, s, v)
                                                   \/ TaskReleasedVoluntary(t, s, v)
                            \/ \E d \in Devices :
                                  \/ TaskReleasedForced(t, d, v)
                                  \/ TaskCancelled(t, d, v)
                                  \/ \E target \in Devices : TaskReassigned(t, d, target, v)
               PROVE  TypeOK'
    BY DEF TaskNext, TaskOperation
  <1> USE ConstantsAssumption
  <1>a. task[t] \in TaskRows
    BY DEF TypeOK
  <1>1. ASSUME NEW deps \in SUBSET Tasks, TaskCreated(t, deps) PROVE TypeOK'
    BY <1>1 DEF TaskCreated, TaskRow, TypeOK, TaskRows, TaskStates
  <1>2. CASE ConflictStep(t)
    BY <1>2 DEF ConflictStep, TypeOK
  <1>3. ASSUME NEW v, NEW s, NEW deps \in SUBSET Tasks, TaskUpdated(t, s, deps, v)
        PROVE  TypeOK'
    BY <1>3, <1>a DEF TaskUpdated, TaskRow, Loads, TypeOK, TaskRows
  <1>4. ASSUME NEW v, NEW s, NEW to \in TaskStates, TaskStateChanged(t, s, to, v)
        PROVE  TypeOK'
    <2>1. Unowned(task[t], to, None) \in TaskRows
      BY <1>4, <1>a, UnownedType DEF TaskStateChanged, Loads
    <2>2. TaskRow(to, task[t].device, task[t].agent, task[t].intended,
                  task[t].blockedBy, task[t].version + 1) \in TaskRows
      BY <1>4, <1>a DEF TaskStateChanged, TaskRow, Loads, TaskRows
    <2> QED
      BY <1>4, <2>1, <2>2 DEF TaskStateChanged, TypeOK
  <1>5. ASSUME NEW v, NEW s \in Sessions, TaskClaimed(t, s, v) PROVE TypeOK'
    <2>1. session[s].device \in Devices
      BY <1>5, ActorDevice DEF TaskClaimed
    <2> QED
      BY <1>5, <1>a, <2>1 DEF TaskClaimed, TaskRow, Loads, TypeOK, TaskRows, TaskStates, Owned
  <1>6. ASSUME NEW v, NEW s \in Sessions, TaskReleasedVoluntary(t, s, v) PROVE TypeOK'
    BY <1>6, <1>a, ReleasedType DEF TaskReleasedVoluntary, Loads, TypeOK
  <1>7. ASSUME NEW v, NEW d \in Devices, TaskReleasedForced(t, d, v) PROVE TypeOK'
    BY <1>7, <1>a, ReleasedType DEF TaskReleasedForced, Loads, TypeOK
  <1>8. ASSUME NEW v, NEW d \in Devices, TaskCancelled(t, d, v) PROVE TypeOK'
    BY <1>8, <1>a, UnownedType DEF TaskStates, Terminal, TaskCancelled, Loads, TypeOK
  <1>9. ASSUME NEW v, NEW d \in Devices, NEW target \in Devices,
               TaskReassigned(t, d, target, v)
        PROVE  TypeOK'
    BY <1>9, <1>a, UnownedType DEF TaskStates, TaskReassigned, Loads, TypeOK
  <1> QED
    BY <1>1, <1>2, <1>3, <1>4, <1>5, <1>6, <1>7, <1>8, <1>9

\* The reducers of lease.* keep every row well typed.
LEMMA TypeLease == TypeOK /\ SessionsConsistent /\ LeaseNext => TypeOK'
  <1> SUFFICES ASSUME TypeOK, SessionsConsistent, NEW l \in Leases, NEW s \in Sessions,
                      \/ \E scope \in LeaseScopes : LeaseAcquired(l, s, scope)
                      \/ \E v \in Versions("lease") :
                            \/ LeaseRenewed(l, s, v)
                            \/ \E d \in Devices, r \in ReleaseReasons :
                                  LeaseReleased(l, s, d, r, v)
               PROVE  TypeOK'
    BY DEF LeaseNext
  <1> USE ConstantsAssumption
  <1>1. ASSUME NEW scope \in LeaseScopes, LeaseAcquired(l, s, scope) PROVE TypeOK'
    BY <1>1, ActorDevice DEF LeaseAcquired, LeaseRow, TypeOK, LeaseRows
  <1>2. ASSUME NEW v, LeaseRenewed(l, s, v) PROVE TypeOK'
    BY <1>2 DEF LeaseRenewed, LeaseStep, LeaseRow, Loads, TypeOK, LeaseRows
  <1>3. ASSUME NEW v, NEW d, NEW r, LeaseReleased(l, s, d, r, v) PROVE TypeOK'
    BY <1>3 DEF LeaseReleased, LeaseStep, LeaseRow, Loads, TypeOK, LeaseRows
  <1> QED
    BY <1>1, <1>2, <1>3

\* Policy and membership steps keep every row well typed.
LEMMA TypeAdmin == TypeOK /\ AdminNext => TypeOK'
  <1> SUFFICES ASSUME TypeOK, NEW d \in Devices,
                      \/ \E values \in Policies, v \in Versions("policy") :
                            PolicyChanged(d, values, v)
                      \/ \E row \in DeviceRows : MembershipStep(d, row)
               PROVE  TypeOK'
    BY DEF AdminNext
  <1> USE ConstantsAssumption
  <1>1. ASSUME NEW values \in Policies, NEW v, PolicyChanged(d, values, v) PROVE TypeOK'
    BY <1>1 DEF PolicyChanged, TypeOK
  <1>2. ASSUME NEW row \in DeviceRows, MembershipStep(d, row) PROVE TypeOK'
    BY <1>2 DEF MembershipStep, TypeOK
  <1> QED
    BY <1>1, <1>2

----------------------------------------------------------------------------
(* What each group of reducers leaves alone.                               *)

\* task.* and workspace.conflict.* change task rows and conflicts only.
LEMMA TaskFrame == TaskNext => UNCHANGED <<device, scopeDevice, session, lease, policy>>
  <1> DEFINE Frame == UNCHANGED <<device, scopeDevice, session, lease, policy>>
  <1>1. ASSUME NEW t, NEW s, NEW v,
               \/ ConflictStep(t)
               \/ \E deps \in SUBSET Tasks : TaskCreated(t, deps) \/ TaskUpdated(t, s, deps, v)
               \/ \E to \in TaskStates : TaskStateChanged(t, s, to, v)
        PROVE  Frame
    BY <1>1 DEF ConflictStep, TaskCreated, TaskUpdated, TaskStateChanged
  <1>2. ASSUME NEW t, NEW s, NEW v, TaskClaimed(t, s, v) \/ TaskReleasedVoluntary(t, s, v)
        PROVE  Frame
    BY <1>2 DEF TaskClaimed, TaskReleasedVoluntary
  <1>3. ASSUME NEW t, NEW d, NEW v,
               \/ TaskReleasedForced(t, d, v)
               \/ TaskCancelled(t, d, v)
               \/ \E target \in Devices : TaskReassigned(t, d, target, v)
        PROVE  Frame
    BY <1>3 DEF TaskReleasedForced, TaskCancelled, TaskReassigned
  <1> QED
    <2> HIDE DEF Frame
    <2>1. TaskNext => Frame
      BY <1>1, <1>2, <1>3 DEF TaskNext, TaskOperation
    <2> QED
      BY <2>1 DEF Frame

\* lease.* changes lease rows only.
LEMMA LeaseFrame ==
    LeaseNext => UNCHANGED <<device, scopeDevice, session, task, policy, unresolved>>
  BY DEF LeaseNext, LeaseAcquired, LeaseRenewed, LeaseReleased

\* policy.changed and membership.* leave sessions, tasks and leases alone.
LEMMA AdminFrame == AdminNext => UNCHANGED <<scopeDevice, session, task, lease, unresolved>>
  BY DEF AdminNext, PolicyChanged, MembershipStep

----------------------------------------------------------------------------
(* Sessions.                                                               *)

\* No session row exists initially.
LEMMA SessionsInit == Init => SessionsConsistent
  BY ConstantsAssumption DEF Init, SessionsConsistent, SessionRow

\* Every step keeps each session bound to the scope of its device.
LEMMA SessionsStep ==
    ASSUME TypeOK, SessionsConsistent, [Next]_vars
    PROVE  SessionsConsistent'
  <1> USE ConstantsAssumption, NullAssumption
  <1>1. CASE SessionNext
    <2> PICK s \in Sessions :
            \/ \E d \in Devices : \/ AgentSessionStarted(d, s)
                                  \/ AgentSessionStartRejected(d, s)
            \/ \E v \in Versions("session") :
                  \/ \E to \in Connected : AgentStatusChanged(s, to, v)
                  \/ \E to \in Connected : DaemonResume(s, to, v)
                  \/ DaemonDisconnect(s, v)
                  \/ \E r \in EndReasons : AgentSessionEnded(s, r, v)
      BY <1>1 DEF SessionNext
    <2>a. session[s] \in SessionRows
      BY DEF TypeOK
    <2>1. ASSUME NEW d \in Devices, AgentSessionStarted(d, s) PROVE SessionsConsistent'
      BY <2>1 DEF AgentSessionStarted, SessionRow, TypeOK, SessionsConsistent, Connected
    <2>2. ASSUME NEW d \in Devices, AgentSessionStartRejected(d, s) PROVE SessionsConsistent'
      BY <2>2 DEF AgentSessionStartRejected, TypeOK, SessionsConsistent
    <2>3. ASSUME NEW v, NEW to \in Connected, AgentStatusChanged(s, to, v)
          PROVE  SessionsConsistent'
      BY <2>3, <2>a DEF AgentStatusChanged, AgentActs, SessionStep, SessionRow, Loads,
                        TypeOK, SessionsConsistent, Connected, SessionRows
    <2>4. ASSUME NEW v, NEW to \in Connected, DaemonResume(s, to, v)
          PROVE  SessionsConsistent'
      BY <2>4, <2>a DEF DaemonResume, SessionStep, SessionRow, Loads, TypeOK,
                        SessionsConsistent, Connected, SessionRows
    <2>5. ASSUME NEW v, DaemonDisconnect(s, v) PROVE SessionsConsistent'
      BY <2>5, <2>a DEF DaemonDisconnect, SessionStep, SessionRow, Loads, TypeOK,
                        SessionsConsistent, Connected, SessionRows
    <2>6. ASSUME NEW v, NEW r, AgentSessionEnded(s, r, v) PROVE SessionsConsistent'
      BY <2>6, <2>a DEF AgentSessionEnded, SessionStep, SessionRow, Loads, TypeOK,
                        SessionsConsistent, Connected, SessionRows
    <2> QED
      BY <2>1, <2>2, <2>3, <2>4, <2>5, <2>6
  <1>2. CASE UNCHANGED <<session, scopeDevice>>
    BY <1>2 DEF SessionsConsistent
  <1> QED
    BY <1>1, <1>2, TaskFrame, LeaseFrame, AdminFrame DEF Next, vars

----------------------------------------------------------------------------
(* Ownership of tasks and leases.                                          *)

\* No task or lease row exists initially.
LEMMA OwnershipInit == Init => OwnershipConsistent /\ LeaseHoldersLive
  BY ConstantsAssumption
  DEF Init, OwnershipConsistent, LeaseHoldersLive, TaskRow, LeaseRow, Owned, Terminal

\* A session step other than an end keeps a session that has not ended, and
\* its device; an end leaves neither a task nor an active lease to the session.
LEMMA OwnershipSession ==
    ASSUME TypeOK, SessionsConsistent, OwnershipConsistent, LeaseHoldersLive, SessionNext
    PROVE  OwnershipConsistent' /\ LeaseHoldersLive'
  <1> USE ConstantsAssumption, NullAssumption
  <1> PICK s \in Sessions :
          \/ \E d \in Devices : \/ AgentSessionStarted(d, s)
                                \/ AgentSessionStartRejected(d, s)
          \/ \E v \in Versions("session") :
                \/ \E to \in Connected : AgentStatusChanged(s, to, v)
                \/ \E to \in Connected : DaemonResume(s, to, v)
                \/ DaemonDisconnect(s, v)
                \/ \E r \in EndReasons : AgentSessionEnded(s, r, v)
    BY DEF SessionNext
  <1> DEFINE Kept == /\ UNCHANGED <<task, lease>>
                     /\ \A u \in Sessions : session[u].state \notin {"absent", "ended"} =>
                           /\ session'[u].state \notin {"absent", "ended"}
                           /\ session'[u].device = session[u].device
  <1>1. ASSUME NEW d \in Devices, AgentSessionStarted(d, s) PROVE Kept
    BY <1>1 DEF AgentSessionStarted, TypeOK
  <1>2. ASSUME NEW d \in Devices, AgentSessionStartRejected(d, s) PROVE Kept
    BY <1>2 DEF AgentSessionStartRejected
  <1>3. ASSUME NEW v, NEW to \in Connected, AgentStatusChanged(s, to, v) PROVE Kept
    BY <1>3 DEF AgentStatusChanged, SessionStep, SessionRow, TypeOK, Connected
  <1>4. ASSUME NEW v, NEW to \in Connected, DaemonResume(s, to, v) PROVE Kept
    BY <1>4 DEF DaemonResume, SessionStep, SessionRow, TypeOK, Connected
  <1>5. ASSUME NEW v, DaemonDisconnect(s, v) PROVE Kept
    BY <1>5 DEF DaemonDisconnect, SessionStep, SessionRow, TypeOK
  <1>6. ASSUME Kept PROVE OwnershipConsistent' /\ LeaseHoldersLive'
    BY <1>6 DEF OwnershipConsistent, LeaseHoldersLive, TypeOK, TaskRows, LeaseRows
  <1>7. ASSUME NEW v, NEW r, AgentSessionEnded(s, r, v)
        PROVE  OwnershipConsistent' /\ LeaseHoldersLive'
    <2>1. \A u \in Sessions \ {s} : session'[u] = session[u]
      BY <1>7 DEF AgentSessionEnded, TypeOK
    <2>2. OwnershipConsistent'
      <3> SUFFICES ASSUME NEW t \in Tasks PROVE OwnershipConsistent!(t)'
        BY DEF OwnershipConsistent
      <3>1. CASE task[t].agent = s
        <4>1. task'[t] = Released(task[t])
          BY <1>7, <3>1 DEF AgentSessionEnded, CascadeTasks
        <4> QED
          BY <4>1 DEF Released, Unowned, TaskRow, Owned, Terminal, TypeOK, TaskRows
      <3>2. CASE task[t].agent # s
        <4>1. task'[t] = task[t]
          BY <1>7, <3>2 DEF AgentSessionEnded, CascadeTasks
        <4> QED
          BY <4>1, <3>2, <2>1 DEF OwnershipConsistent, TypeOK, TaskRows
      <3> QED
        BY <3>1, <3>2
    <2>3. LeaseHoldersLive'
      <3> SUFFICES ASSUME NEW l \in Leases PROVE LeaseHoldersLive!(l)'
        BY DEF LeaseHoldersLive
      <3>1. CASE l \in LeasesOf(s)
        <4>1. lease'[l] = LeaseStep(lease[l], "released")
          BY <1>7, <3>1 DEF AgentSessionEnded, CascadeLeases
        <4> QED
          BY <4>1 DEF LeaseStep, LeaseRow, TypeOK, LeaseRows
      <3>2. CASE l \notin LeasesOf(s)
        <4>1. lease'[l] = lease[l]
          BY <1>7, <3>2 DEF AgentSessionEnded, CascadeLeases
        <4> QED
          BY <4>1, <3>2, <2>1 DEF LeaseHoldersLive, LeasesOf, ActiveLeases, TypeOK, LeaseRows
      <3> QED
        BY <3>1, <3>2
    <2> QED
      BY <2>2, <2>3
  <1> QED
    <2> HIDE DEF Kept
    <2> QED
      BY <1>1, <1>2, <1>3, <1>4, <1>5, <1>6, <1>7

\* What OwnershipConsistent says of one task row, as an operator of the row.
RowOwned(row) ==
    /\ (row.state = "absent") <=> (row.version = 0)
    /\ (row.agent # None) <=> (row.state \in Owned)
    /\ (row.device # None) <=> (row.agent # None)
    /\ row.agent # None =>
          /\ session[row.agent].state \notin {"absent", "ended"}
          /\ session[row.agent].device = row.device
          /\ row.intended = None
    /\ row.state \in Terminal \cup {"absent"} => row.intended = None

\* A step that writes one task row and no session needs that row checked.
LEMMA OneTaskRow ==
    ASSUME TypeOK, OwnershipConsistent, NEW t \in Tasks, NEW row, RowOwned(row),
           UNCHANGED session, task' = [task EXCEPT ![t] = row]
    PROVE  OwnershipConsistent'
  BY DEF TypeOK, OwnershipConsistent, RowOwned

\* The rows that releases, reassignments and cancellations write have no owner.
LEMMA UnownedOwned ==
    ASSUME NEW row \in TaskRows, NEW state \in {"ready", "done", "cancelled"},
           NEW intended, intended = None \/ state = "ready"
    PROVE  RowOwned(Unowned(row, state, intended))
  BY ConstantsAssumption DEF RowOwned, Unowned, TaskRow, TaskRows, Owned, Terminal

\* Every task reducer keeps owners and task states in step.
LEMMA OwnershipTask ==
    ASSUME TypeOK, SessionsConsistent, OwnershipConsistent, TaskNext
    PROVE  OwnershipConsistent'
  <1> USE ConstantsAssumption
  <1> PICK t \in Tasks :
          \/ \E deps \in SUBSET Tasks : TaskCreated(t, deps)
          \/ ConflictStep(t)
          \/ \E v \in Versions("task") :
                \/ \E s \in Sessions \cup {None} :
                      \/ \E deps \in SUBSET Tasks : TaskUpdated(t, s, deps, v)
                      \/ \E to \in TaskStates : TaskStateChanged(t, s, to, v)
                \/ \E s \in Sessions : \/ TaskClaimed(t, s, v)
                                       \/ TaskReleasedVoluntary(t, s, v)
                \/ \E d \in Devices :
                      \/ TaskReleasedForced(t, d, v)
                      \/ TaskCancelled(t, d, v)
                      \/ \E target \in Devices : TaskReassigned(t, d, target, v)
    BY DEF TaskNext, TaskOperation
  <1>a. task[t] \in TaskRows /\ RowOwned(task[t])
    BY DEF TypeOK, OwnershipConsistent, RowOwned
  <1>1. ASSUME NEW deps \in SUBSET Tasks, TaskCreated(t, deps) PROVE OwnershipConsistent'
    <2>1. RowOwned(TaskRow("backlog", None, None, None, deps, 1))
      BY DEF RowOwned, TaskRow, Owned, Terminal
    <2> QED
      BY <1>1, <2>1, OneTaskRow DEF TaskCreated
  <1>2. CASE ConflictStep(t)
    BY <1>2 DEF ConflictStep, OwnershipConsistent
  <1>3. ASSUME NEW v, NEW s, NEW deps \in SUBSET Tasks, TaskUpdated(t, s, deps, v)
        PROVE  OwnershipConsistent'
    <2>1. RowOwned(TaskRow(task[t].state, task[t].device, task[t].agent,
                           task[t].intended, deps, task[t].version + 1))
      BY <1>3, <1>a DEF TaskUpdated, Loads, RowOwned, TaskRow, TaskRows
    <2> QED
      BY <1>3, <2>1, OneTaskRow DEF TaskUpdated
  <1>4. ASSUME NEW v, NEW s, NEW to \in TaskStates, TaskStateChanged(t, s, to, v)
        PROVE  OwnershipConsistent'
    <2>1. CASE to \in Terminal
      <3>1. RowOwned(Unowned(task[t], to, None))
        BY <2>1, <1>a, UnownedOwned DEF Terminal
      <3> QED
        BY <1>4, <2>1, <3>1, OneTaskRow DEF TaskStateChanged
    <2>2. CASE to \notin Terminal
      <3> DEFINE row == TaskRow(to, task[t].device, task[t].agent, task[t].intended,
                                task[t].blockedBy, task[t].version + 1)
      <3>1. RowOwned(row)
        BY <1>4, <2>2, <1>a DEF TaskStateChanged, Loads, StateChangeEdges, RowOwned,
                                TaskRow, TaskRows, Owned, Terminal
      <3> QED
        BY <1>4, <2>2, <3>1, OneTaskRow DEF TaskStateChanged
    <2> QED
      BY <2>1, <2>2
  <1>5. ASSUME NEW v, NEW s \in Sessions, TaskClaimed(t, s, v) PROVE OwnershipConsistent'
    <2> DEFINE row == TaskRow("claimed", session[s].device, s, None, task[t].blockedBy,
                              task[t].version + 1)
    <2>1. RowOwned(row)
      BY <1>5, <1>a, ActorDevice DEF TaskClaimed, Claimable, Loads, RowOwned, TaskRow, TaskRows,
                                     Owned, Terminal
    <2> QED
      BY <1>5, <2>1, OneTaskRow DEF TaskClaimed
  <1>6. RowOwned(Released(task[t])) /\ RowOwned(Unowned(task[t], "cancelled", None))
    BY <1>a, UnownedOwned DEF Released
  <1>7. ASSUME NEW v, NEW s \in Sessions, TaskReleasedVoluntary(t, s, v)
        PROVE  OwnershipConsistent'
    BY <1>6, <1>7, OneTaskRow DEF TaskReleasedVoluntary
  <1>8. ASSUME NEW v, NEW d \in Devices,
               TaskReleasedForced(t, d, v) \/ TaskCancelled(t, d, v)
        PROVE  OwnershipConsistent'
    BY <1>6, <1>8, OneTaskRow DEF TaskReleasedForced, TaskCancelled
  <1>9. ASSUME NEW v, NEW d \in Devices, NEW target \in Devices,
               TaskReassigned(t, d, target, v)
        PROVE  OwnershipConsistent'
    <2>1. RowOwned(Unowned(task[t], "ready", target))
      BY <1>a, UnownedOwned
    <2> QED
      BY <1>9, <2>1, OneTaskRow DEF TaskReassigned
  <1> QED
    BY <1>1, <1>2, <1>3, <1>4, <1>5, <1>7, <1>8, <1>9

\* Every lease reducer keeps an active lease with a session that has not ended.
LEMMA OwnershipLease ==
    ASSUME TypeOK, SessionsConsistent, LeaseHoldersLive, LeaseNext
    PROVE  LeaseHoldersLive'
  <1> USE ConstantsAssumption
  <1> PICK l \in Leases, s \in Sessions :
          \/ \E scope \in LeaseScopes : LeaseAcquired(l, s, scope)
          \/ \E v \in Versions("lease") :
                \/ LeaseRenewed(l, s, v)
                \/ \E d \in Devices, r \in ReleaseReasons : LeaseReleased(l, s, d, r, v)
    BY DEF LeaseNext
  <1>1. ASSUME NEW scope \in LeaseScopes, LeaseAcquired(l, s, scope)
        PROVE  LeaseHoldersLive'
    BY <1>1, ActorDevice DEF LeaseAcquired, LeaseRow, LeaseHoldersLive, TypeOK, LeaseScopes
  <1>2. ASSUME NEW v, LeaseRenewed(l, s, v) PROVE LeaseHoldersLive'
    BY <1>2 DEF LeaseRenewed, LeaseStep, LeaseRow, Loads, LeaseHoldersLive, TypeOK, LeaseRows
  <1>3. ASSUME NEW v, NEW d, NEW r, LeaseReleased(l, s, d, r, v) PROVE LeaseHoldersLive'
    BY <1>3 DEF LeaseReleased, LeaseStep, LeaseRow, Loads, LeaseHoldersLive, TypeOK, LeaseRows
  <1> QED
    BY <1>1, <1>2, <1>3

----------------------------------------------------------------------------
(* Disjointness of active leases.                                          *)

\* A step that makes no lease active and moves no scope keeps leases disjoint.
LEMMA DisjointKept ==
    ASSUME LeasesDisjoint,
           \A l \in Leases : lease'[l].status = "active" =>
              lease[l].status = "active" /\ lease'[l].scope = lease[l].scope
    PROVE  LeasesDisjoint'
  BY DEF LeasesDisjoint, ActiveLeases, Intersects

\* Every step keeps active leases pairwise disjoint.
LEMMA DisjointStep ==
    ASSUME TypeOK, LeasesDisjoint, [Next]_vars
    PROVE  LeasesDisjoint'
  <1>1. CASE SessionNext
    <2>1. \A l \in Leases : lease'[l].status = "active" => lease'[l] = lease[l]
      BY <1>1 DEF SessionNext, AgentSessionStarted, AgentSessionStartRejected,
                  AgentStatusChanged, DaemonResume, DaemonDisconnect, AgentSessionEnded,
                  CascadeLeases, LeaseStep, LeaseRow, TypeOK
    <2> QED
      BY <2>1, DisjointKept
  <1>2. CASE LeaseNext
    <2> PICK l \in Leases, s \in Sessions :
          \/ \E scope \in LeaseScopes : LeaseAcquired(l, s, scope)
          \/ \E v \in Versions("lease") :
                \/ LeaseRenewed(l, s, v)
                \/ \E d \in Devices, r \in ReleaseReasons : LeaseReleased(l, s, d, r, v)
      BY <1>2 DEF LeaseNext
    <2>1. ASSUME NEW scope \in LeaseScopes, LeaseAcquired(l, s, scope)
          PROVE  LeasesDisjoint'
      <3>1. /\ lease'[l].scope = scope
            /\ \A m \in Leases \ {l} : lease'[m] = lease[m]
        BY <2>1 DEF LeaseAcquired, LeaseRow, TypeOK
      <3>2. \A m \in Leases \ {l} : lease[m].status = "active" =>
                /\ ~Intersects(scope, lease[m].scope)
                /\ ~Intersects(lease[m].scope, scope)
        BY <2>1, OverlapAssumption DEF LeaseAcquired, NoLeaseConflict, ActiveLeases, Intersects
      <3> QED
        BY <3>1, <3>2 DEF LeasesDisjoint, ActiveLeases, Intersects
    <2>2. ASSUME NEW v, LeaseRenewed(l, s, v) PROVE LeasesDisjoint'
      BY <2>2, DisjointKept DEF LeaseRenewed, LeaseStep, LeaseRow, TypeOK
    <2>3. ASSUME NEW v, NEW d, NEW r, LeaseReleased(l, s, d, r, v) PROVE LeasesDisjoint'
      BY <2>3, DisjointKept DEF LeaseReleased, LeaseStep, LeaseRow, TypeOK
    <2> QED
      BY <2>1, <2>2, <2>3
  <1>3. CASE UNCHANGED lease
    BY <1>3, DisjointKept
  <1> QED
    BY <1>1, <1>2, <1>3, TaskFrame, AdminFrame DEF Next, vars

----------------------------------------------------------------------------
(* Acyclicity of blocked_by.                                               *)

\* Writing one task row keeps the graph well-founded when the new list was
\* checked: T, closed and without the task, holds the list.  Of a set S, a
\* member of S \cap T that is minimal there is minimal in S, for what it waits
\* for is in T; when S \cap T is empty, the written task waits for nothing in S.
LEMMA AcyclicWrite ==
    ASSUME TypeOK, DependenciesAcyclic,
           NEW t \in Tasks, NEW row, row.state # "absent",
           DependenciesValid(t, row.blockedBy),
           task' = [task EXCEPT ![t] = row]
    PROVE  DependenciesAcyclic'
  <1> PICK T \in SUBSET Tasks : /\ row.blockedBy \subseteq T
                                /\ t \notin T
                                /\ ClosedUnder(T, task)
    BY DEF DependenciesValid
  <1>a. task'[t] = row /\ \A u \in Tasks \ {t} : task'[u] = task[u]
    BY DEF TypeOK
  <1>b. \A u \in Tasks : task[u].state # "absent" => task'[u].state # "absent"
    BY <1>a
  <1>1. \A u \in Tasks : \A w \in task'[u].blockedBy : task'[w].state # "absent"
    <2> SUFFICES ASSUME NEW u \in Tasks, NEW w \in task'[u].blockedBy
                 PROVE  task'[w].state # "absent"
      OBVIOUS
    <2>1. w \in Tasks /\ task[w].state # "absent"
      BY <1>a DEF DependenciesAcyclic, DependenciesValid, TypeOK, TaskRows
    <2> QED
      BY <2>1, <1>b
  <1>2. ASSUME NEW S \in SUBSET Tasks, S # {}
        PROVE  \E u \in S : task'[u].blockedBy \cap S = {}
    <2>1. CASE S \cap T # {}
      <3>1. PICK u \in S \cap T : task[u].blockedBy \cap (S \cap T) = {}
        BY <2>1 DEF DependenciesAcyclic
      <3>2. task'[u].blockedBy \subseteq T /\ task'[u] = task[u]
        BY <1>a DEF ClosedUnder
      <3> QED
        BY <3>1, <3>2
    <2>2. CASE S \cap T = {} /\ t \in S
      BY <2>2, <1>a
    <2>3. CASE t \notin S
      <3>1. PICK u \in S : task[u].blockedBy \cap S = {}
        BY <1>2 DEF DependenciesAcyclic
      <3> QED
        BY <3>1, <2>3, <1>a
    <2> QED
      BY <2>1, <2>2, <2>3
  <1> QED
    BY <1>1, <1>2 DEF DependenciesAcyclic

\* A step that keeps every blocked_by and makes no task absent keeps the graph.
LEMMA AcyclicKept ==
    ASSUME TypeOK, DependenciesAcyclic,
           \A u \in Tasks : /\ task'[u].blockedBy = task[u].blockedBy
                            /\ task[u].state # "absent" => task'[u].state # "absent"
    PROVE  DependenciesAcyclic'
  <1>1. \A u \in Tasks : \A w \in task'[u].blockedBy : task'[w].state # "absent"
    BY DEF DependenciesAcyclic, TypeOK, TaskRows
  <1>2. ASSUME NEW S \in SUBSET Tasks, S # {}
        PROVE  \E u \in S : task'[u].blockedBy \cap S = {}
    <2>1. PICK u \in S : task[u].blockedBy \cap S = {}
      BY <1>2 DEF DependenciesAcyclic
    <2> QED
      BY <2>1
  <1> QED
    BY <1>1, <1>2 DEF DependenciesAcyclic

\* There are no dependencies initially.
LEMMA AcyclicInit == Init => DependenciesAcyclic
  <1> SUFFICES ASSUME Init PROVE DependenciesAcyclic
    OBVIOUS
  <1>1. \A t \in Tasks : task[t].blockedBy = {}
    BY DEF Init, TaskRow
  <1> QED
    BY <1>1 DEF DependenciesAcyclic

\* Every step keeps the dependency graph acyclic.
LEMMA AcyclicStep ==
    ASSUME TypeOK, OwnershipConsistent, DependenciesAcyclic, [Next]_vars
    PROVE  DependenciesAcyclic'
  <1> DEFINE Kept == \A u \in Tasks :
                        /\ task'[u].blockedBy = task[u].blockedBy
                        /\ task[u].state # "absent" => task'[u].state # "absent"
  <1>1. CASE SessionNext
    <2>1. Kept
      BY <1>1 DEF SessionNext, AgentSessionStarted, AgentSessionStartRejected,
                  AgentStatusChanged, DaemonResume, DaemonDisconnect, AgentSessionEnded,
                  CascadeTasks, Released, Unowned, TaskRow, TypeOK
    <2> QED
      BY <2>1, AcyclicKept
  <1>2. CASE TaskNext
    <2> PICK t \in Tasks :
            \/ \E deps \in SUBSET Tasks : TaskCreated(t, deps)
            \/ ConflictStep(t)
            \/ \E v \in Versions("task") :
                  \/ \E s \in Sessions \cup {None} :
                        \/ \E deps \in SUBSET Tasks : TaskUpdated(t, s, deps, v)
                        \/ \E to \in TaskStates : TaskStateChanged(t, s, to, v)
                  \/ \E s \in Sessions : \/ TaskClaimed(t, s, v)
                                         \/ TaskReleasedVoluntary(t, s, v)
                  \/ \E d \in Devices :
                        \/ TaskReleasedForced(t, d, v)
                        \/ TaskCancelled(t, d, v)
                        \/ \E target \in Devices : TaskReassigned(t, d, target, v)
      BY <1>2 DEF TaskNext, TaskOperation
    <2>1. ASSUME NEW deps \in SUBSET Tasks, TaskCreated(t, deps)
          PROVE  DependenciesAcyclic'
      <3> DEFINE row == TaskRow("backlog", None, None, None, deps, 1)
      <3>1. row.state # "absent" /\ row.blockedBy = deps
        BY DEF TaskRow
      <3> HIDE DEF row
      <3>2. DependenciesValid(t, row.blockedBy) /\ task' = [task EXCEPT ![t] = row]
        BY <2>1, <3>1 DEF TaskCreated, row
      <3> QED
        BY <3>1, <3>2, AcyclicWrite
    <2>2. ASSUME NEW v, NEW s, NEW deps \in SUBSET Tasks, TaskUpdated(t, s, deps, v)
          PROVE  DependenciesAcyclic'
      <3> DEFINE row == TaskRow(task[t].state, task[t].device, task[t].agent,
                                task[t].intended, deps, task[t].version + 1)
      <3>1. row.state = task[t].state /\ row.blockedBy = deps
        BY DEF TaskRow
      <3>2. task' = [task EXCEPT ![t] = row]
        BY <2>2 DEF TaskUpdated
      <3>a. task[t].state # "absent"
        BY <2>2 DEF TaskUpdated, Loads, OwnershipConsistent, TypeOK, TaskRows
      <3> HIDE DEF row
      <3>3. CASE deps = task[t].blockedBy
        <4>1. Kept
          BY <3>1, <3>2, <3>3, <3>a DEF TypeOK
        <4> QED
          BY <4>1, AcyclicKept
      <3>4. CASE deps # task[t].blockedBy
        <4>1. DependenciesValid(t, deps)
          BY <2>2, <3>4 DEF TaskUpdated
        <4> QED
          BY <3>1, <3>2, <4>1, <3>a, AcyclicWrite
      <3> QED
        BY <3>3, <3>4
    <2>3. ASSUME NEW v, NEW s, NEW to \in TaskStates, TaskStateChanged(t, s, to, v)
          PROVE  Kept
      BY <2>3 DEF TaskStateChanged, StateChangeEdges, Unowned, TaskRow, TypeOK
    <2>4. ASSUME NEW v, NEW s \in Sessions,
                 TaskClaimed(t, s, v) \/ TaskReleasedVoluntary(t, s, v)
          PROVE  Kept
      BY <2>4 DEF TaskClaimed, TaskReleasedVoluntary, Released, Unowned, TaskRow, TypeOK
    <2>5. ASSUME NEW v, NEW d \in Devices,
                 \/ TaskReleasedForced(t, d, v)
                 \/ TaskCancelled(t, d, v)
                 \/ \E target \in Devices : TaskReassigned(t, d, target, v)
          PROVE  Kept
      BY <2>5 DEF TaskReleasedForced, TaskCancelled, TaskReassigned, Released, Unowned,
                  TaskRow, TypeOK
    <2>6. CASE ConflictStep(t)
      BY <2>6, AcyclicKept DEF ConflictStep
    <2> HIDE DEF Kept
    <2>7. Kept => DependenciesAcyclic'
      BY AcyclicKept DEF Kept
    <2> QED
      BY <2>1, <2>2, <2>3, <2>4, <2>5, <2>6, <2>7
  <1>3. CASE UNCHANGED task
    BY <1>3, AcyclicKept
  <1> QED
    BY <1>1, <1>2, <1>3, LeaseFrame, AdminFrame DEF Next, vars

----------------------------------------------------------------------------
(* The inductive invariant and the theorems.                               *)

\* No conjunct is inductive alone: an owner must be a session that exists and
\* has not ended, so ownership needs the sessions; a scope is compared with
\* those of the active leases, so disjointness needs the types.
Inv == /\ TypeOK
       /\ SessionsConsistent
       /\ OwnershipConsistent
       /\ LeaseHoldersLive
       /\ LeasesDisjoint
       /\ DependenciesAcyclic

\* The initial projection satisfies the invariant.
LEMMA InvInit == Init => Inv
  <1>1. Init => LeasesDisjoint
    BY DEF Init, LeasesDisjoint, ActiveLeases, LeaseRow
  <1> QED
    BY <1>1, TypeInit, SessionsInit, OwnershipInit, AcyclicInit DEF Inv

\* Every accepted proposal preserves the invariant.
LEMMA InvStep == Inv /\ [Next]_vars => Inv'
  <1> SUFFICES ASSUME Inv, [Next]_vars PROVE Inv'
    OBVIOUS
  <1> USE DEF Inv
  <1>1. SessionsConsistent' /\ LeasesDisjoint' /\ DependenciesAcyclic'
    BY SessionsStep, DisjointStep, AcyclicStep
  <1>2. CASE SessionNext
    BY <1>1, <1>2, TypeSession, OwnershipSession
  <1>3. CASE TaskNext
    <2>1. LeaseHoldersLive'
      BY <1>3, TaskFrame DEF LeaseHoldersLive
    <2> QED
      BY <1>1, <1>3, <2>1, TypeTask, OwnershipTask
  <1>4. CASE LeaseNext
    <2>1. OwnershipConsistent'
      BY <1>4, LeaseFrame DEF OwnershipConsistent
    <2> QED
      BY <1>1, <1>4, <2>1, TypeLease, OwnershipLease
  <1>5. CASE AdminNext
    <2>1. OwnershipConsistent' /\ LeaseHoldersLive'
      BY <1>5, AdminFrame DEF OwnershipConsistent, LeaseHoldersLive
    <2> QED
      BY <1>1, <1>5, <2>1, TypeAdmin
  <1>6. CASE UNCHANGED vars
    <2>1. TypeOK' /\ OwnershipConsistent' /\ LeaseHoldersLive'
      BY <1>6 DEF TypeOK, OwnershipConsistent, LeaseHoldersLive, vars
    <2> QED
      BY <1>1, <2>1
  <1> QED
    BY <1>2, <1>3, <1>4, <1>5, <1>6 DEF Next

\* The invariant holds in every state the committed log can reach.
THEOREM Invariance == Spec => []Inv
  BY InvInit, InvStep, PTL DEF Spec

\* The rows keep their types: no reducer writes a version past the maximum, an
\* unknown state or a dangling identifier.
THEOREM TypeCorrect == Spec => []TypeOK
  <1>1. Inv => TypeOK
    BY DEF Inv
  <1> QED
    BY <1>1, Invariance, PTL

\* A task is owned exactly in an owned state and by a session that has not
\* ended: the cascade of agent.session.ended never leaves a claim behind.
THEOREM OwnershipSafe == Spec => []OwnershipConsistent
  <1>1. Inv => OwnershipConsistent
    BY DEF Inv
  <1> QED
    BY <1>1, Invariance, PTL

\* An active lease is held by a session that has not ended.
THEOREM LeaseHoldersSafe == Spec => []LeaseHoldersLive
  <1>1. Inv => LeaseHoldersLive
    BY DEF Inv
  <1> QED
    BY <1>1, Invariance, PTL

\* Two active leases never intersect.
THEOREM LeaseExclusion == Spec => []LeasesDisjoint
  <1>1. Inv => LeasesDisjoint
    BY DEF Inv
  <1> QED
    BY <1>1, Invariance, PTL

\* No task ever waits for itself through its dependencies.
THEOREM NoDependencyCycle == Spec => []DependenciesAcyclic
  <1>1. Inv => DependenciesAcyclic
    BY DEF Inv
  <1> QED
    BY <1>1, Invariance, PTL

----------------------------------------------------------------------------
(* What one accepted proposal writes.                                      *)

\* The owner a task reducer writes: the one there is, none, or an acting agent
\* that may claim one more task, where there was none.
OwnerWritten(t, row) ==
    \/ row.agent = task[t].agent /\ row.device = task[t].device
    \/ row.agent = None /\ row.device = None
    \/ \E s \in Sessions : /\ AgentActs(s) /\ MayClaimOneMore(s, session[s].device)
                           /\ task[t].agent = None
                           /\ row.agent = s /\ row.device = session[s].device

\* The state it writes: of a task that is held, the same one, unless the
\* holder acts or the task is taken from it; a finished task stays finished.
StateWritten(t, row) ==
    /\ task[t].state \in Terminal => row.state = task[t].state
    /\ \/ row.state = task[t].state
       \/ row.state \in {"ready", "cancelled"}
       \/ task[t].agent = None
       \/ task[t].agent \in Sessions /\ AgentActs(task[t].agent)

\* Every reducer of task.* writes one row, at its next version.
LEMMA TaskWrites ==
    ASSUME TypeOK, SessionsConsistent, OwnershipConsistent, NEW t \in Tasks, TaskOperation(t)
    PROVE  \E row : /\ task' = [task EXCEPT ![t] = row]
                    /\ row.version = task[t].version + 1
                    /\ OwnerWritten(t, row)
                    /\ StateWritten(t, row)
  <1> USE ConstantsAssumption
  <1>a. /\ task[t] \in TaskRows
        /\ task[t].state = "absent" <=> task[t].version = 0
        /\ task[t].agent # None <=> task[t].state \in Owned
        /\ task[t].device # None <=> task[t].agent # None
    BY DEF TypeOK, OwnershipConsistent
  <1> DEFINE Goal == \E row : /\ task' = [task EXCEPT ![t] = row]
                              /\ row.version = task[t].version + 1
                              /\ OwnerWritten(t, row)
                              /\ StateWritten(t, row)
  <1>1. ASSUME NEW deps \in SUBSET Tasks, TaskCreated(t, deps) PROVE Goal
    <2> DEFINE row == TaskRow("backlog", None, None, None, deps, 1)
    <2>1. task' = [task EXCEPT ![t] = row] /\ task[t].state = "absent"
      BY <1>1 DEF TaskCreated
    <2>2. row.version = task[t].version + 1 /\ row.agent = None /\ row.device = None
      BY <1>a, <2>1 DEF TaskRow
    <2>3. OwnerWritten(t, row) /\ StateWritten(t, row)
      BY <1>a, <2>1, <2>2 DEF OwnerWritten, StateWritten, Owned, Terminal
    <2> HIDE DEF row
    <2> QED BY <2>1, <2>2, <2>3
  <1>2. ASSUME NEW s \in Sessions \cup {None}, NEW deps \in SUBSET Tasks, NEW v, TaskUpdated(t, s, deps, v)
        PROVE  Goal
    <2> DEFINE row == TaskRow(task[t].state, task[t].device, task[t].agent, task[t].intended, deps,
                              task[t].version + 1)
    <2>1. task' = [task EXCEPT ![t] = row]
      BY <1>2 DEF TaskUpdated
    <2>2. /\ row.version = task[t].version + 1 /\ row.state = task[t].state
          /\ row.agent = task[t].agent /\ row.device = task[t].device
      BY DEF TaskRow
    <2> HIDE DEF row
    <2>3. OwnerWritten(t, row) /\ StateWritten(t, row)
      BY <2>2 DEF OwnerWritten, StateWritten
    <2> QED BY <2>1, <2>2, <2>3
  <1>3. ASSUME NEW s \in Sessions \cup {None}, NEW to \in TaskStates, NEW v, TaskStateChanged(t, s, to, v)
        PROVE  Goal
    <2> DEFINE row == IF to \in Terminal
                      THEN Unowned(task[t], to, None)
                      ELSE TaskRow(to, task[t].device, task[t].agent, task[t].intended,
                                   task[t].blockedBy, task[t].version + 1)
    <2>1. task' = [task EXCEPT ![t] = row]
      BY <1>3 DEF TaskStateChanged
    <2>2. row.version = task[t].version + 1 /\ OwnerWritten(t, row)
      BY DEF Unowned, TaskRow, OwnerWritten
    <2> HIDE DEF row
    <2>3. task[t].state \notin Terminal
      BY <1>3 DEF TaskStateChanged, StateChangeEdges, Terminal
    <2>4. task[t].agent = None \/ (task[t].agent \in Sessions /\ AgentActs(task[t].agent))
      BY <1>3 DEF TaskStateChanged, HeldBy, WhollyUnowned
    <2>5. StateWritten(t, row)
      BY <2>3, <2>4 DEF StateWritten
    <2> QED BY <2>1, <2>2, <2>5
  <1>4. ASSUME NEW s \in Sessions, NEW v, TaskClaimed(t, s, v) PROVE Goal
    <2> DEFINE row == TaskRow("claimed", session[s].device, s, None, task[t].blockedBy, task[t].version + 1)
    <2>1. /\ task' = [task EXCEPT ![t] = row] /\ task[t].state = "ready"
          /\ AgentActs(s) /\ MayClaimOneMore(s, session[s].device)
      BY <1>4 DEF TaskClaimed, Claimable
    <2>2. row.version = task[t].version + 1 /\ row.agent = s /\ row.device = session[s].device
      BY DEF TaskRow
    <2> HIDE DEF row
    <2>3. task[t].agent = None
      BY <1>a, <2>1 DEF Owned
    <2>4. OwnerWritten(t, row) /\ StateWritten(t, row)
      BY <2>1, <2>2, <2>3 DEF OwnerWritten, StateWritten, Terminal
    <2> QED BY <2>1, <2>2, <2>4
  <1>5. ASSUME NEW state \in {"ready", "cancelled"}, NEW intended, task[t].state \notin Terminal,
               task' = [task EXCEPT ![t] = Unowned(task[t], state, intended)]
        PROVE  Goal
    <2> DEFINE row == Unowned(task[t], state, intended)
    <2>1. /\ row.version = task[t].version + 1 /\ row.agent = None /\ row.device = None
          /\ row.state = state
      BY DEF Unowned, TaskRow
    <2> HIDE DEF row
    <2>2. OwnerWritten(t, row) /\ StateWritten(t, row)
      BY <1>5, <2>1 DEF OwnerWritten, StateWritten
    <2> QED BY <1>5, <2>1, <2>2 DEF row
  <1>6. ASSUME NEW s \in Sessions, NEW v, TaskReleasedVoluntary(t, s, v) PROVE Goal
    BY <1>5, <1>6 DEF TaskReleasedVoluntary, Released, Owned, Terminal
  <1>7. ASSUME NEW d \in Devices, NEW v, TaskReleasedForced(t, d, v) PROVE Goal
    BY <1>5, <1>7 DEF TaskReleasedForced, Released, Releasable, Owned, Terminal
  <1>8. ASSUME NEW d \in Devices, NEW v, NEW target \in Devices, TaskReassigned(t, d, target, v)
        PROVE  Goal
    BY <1>5, <1>8 DEF TaskReassigned, Releasable, Owned, Terminal
  <1>9. ASSUME NEW d \in Devices, NEW v, TaskCancelled(t, d, v) PROVE Goal
    BY <1>5, <1>9 DEF TaskCancelled
  <1> HIDE DEF Goal
  <1>10. Goal
    BY <1>1, <1>2, <1>3, <1>4, <1>6, <1>7, <1>8, <1>9 DEF TaskOperation
  <1> QED
    BY <1>10 DEF Goal

\* A set at most one larger than one below the limit is within the limit.
LEMMA AtMostOneMore ==
    ASSUME NEW S, IsFiniteSet(S), NEW T, NEW x, T \subseteq S \cup {x}, NEW n \in Nat, Cardinality(S) < n
    PROVE  Cardinality(T) <= n
  <1>1. Cardinality(S) \in Nat /\ IsFiniteSet(S \cup {x})
    BY FS_CardinalityType, FS_AddElement
  <1>2. Cardinality(S \cup {x}) <= n
    BY <1>1, FS_AddElement
  <1>3. Cardinality(T) <= Cardinality(S \cup {x}) /\ Cardinality(T) \in Nat /\ Cardinality(S \cup {x}) \in Nat
    BY <1>1, FS_Subset, FS_CardinalityType
  <1> QED BY <1>2, <1>3

LEMMA NoMore ==
    ASSUME NEW S, IsFiniteSet(S), NEW T \in SUBSET S, NEW n \in Nat, Cardinality(S) <= n
    PROVE  Cardinality(T) <= n
  <1>1. Cardinality(T) <= Cardinality(S) /\ Cardinality(T) \in Nat /\ Cardinality(S) \in Nat
    BY FS_Subset, FS_CardinalityType
  <1> QED BY <1>1

LEMMA FiniteUse ==
    /\ IsFiniteSet(LiveSessions)
    /\ \A s : IsFiniteSet(TasksOf(s)) /\ IsFiniteSet(LeasesOf(s))
    /\ \A d : IsFiniteSet(TasksOn(d)) /\ IsFiniteSet(LeasesOn(d))
  BY ConstantsAssumption, FS_Subset DEF LiveSessions, TasksOf, LeasesOf, TasksOn, LeasesOn, ActiveLeases

LEMMA PolicyLimits ==
    ASSUME TypeOK
    PROVE  /\ policy.values.sessions \in Nat
           /\ policy.values.agentClaims \in Nat /\ policy.values.deviceClaims \in Nat
           /\ policy.values.agentLeases \in Nat /\ policy.values.deviceLeases \in Nat
  <1>1. policy.values \in Policies
    BY DEF TypeOK
  <1> QED BY <1>1, PoliciesAssumption

----------------------------------------------------------------------------
(* Use stays within the policy.                                            *)

LEMMA UseInit == Init => UseWithinPolicy
  <1> SUFFICES ASSUME Init PROVE UseWithinPolicy
    OBVIOUS
  <1>1. /\ LiveSessions = {}
        /\ \A s \in Sessions : TasksOf(s) = {} /\ LeasesOf(s) = {}
        /\ \A d \in Devices : TasksOn(d) = {} /\ LeasesOn(d) = {}
    BY ConstantsAssumption DEF Init, LiveSessions, TasksOf, LeasesOf, TasksOn, LeasesOn, ActiveLeases,
       SessionRow, TaskRow, LeaseRow
  <1>2. /\ policy.values.sessions \in Nat
        /\ policy.values.agentClaims \in Nat /\ policy.values.deviceClaims \in Nat
        /\ policy.values.agentLeases \in Nat /\ policy.values.deviceLeases \in Nat
    BY TypeInit, PolicyLimits
  <1> QED BY <1>1, <1>2, FS_EmptySet DEF UseWithinPolicy, UseWithin

\* A step that adds nothing to what sessions and devices hold keeps use within
\* an unchanged policy.
LEMMA UseKept ==
    ASSUME TypeOK, UseWithinPolicy, UNCHANGED policy, LiveSessions' \subseteq LiveSessions,
           \A s \in Sessions : TasksOf(s)' \subseteq TasksOf(s) /\ LeasesOf(s)' \subseteq LeasesOf(s),
           \A d \in Devices : TasksOn(d)' \subseteq TasksOn(d) /\ LeasesOn(d)' \subseteq LeasesOn(d)
    PROVE  UseWithinPolicy'
  BY FiniteUse, PolicyLimits, NoMore DEF UseWithinPolicy, UseWithin

\* agent.session.*: a start is counted; an end gives back all the session held.
LEMMA UseSession ==
    ASSUME TypeOK, SessionsConsistent, UseWithinPolicy, SessionNext
    PROVE  UseWithinPolicy'
  <1> USE ConstantsAssumption
  <1>1. UNCHANGED policy
    BY DEF SessionNext, AgentSessionStarted, AgentSessionStartRejected, AgentStatusChanged,
           DaemonResume, DaemonDisconnect, AgentSessionEnded
  <1>2. /\ \A t \in Tasks : task'[t] = task[t] \/ (task'[t].agent = None /\ task'[t].device = None)
        /\ \A l \in Leases : lease'[l] = lease[l] \/ lease'[l].status = "released"
    BY DEF SessionNext, AgentSessionStarted, AgentSessionStartRejected, AgentStatusChanged,
           DaemonResume, DaemonDisconnect, AgentSessionEnded, CascadeTasks, CascadeLeases,
           Released, Unowned, TaskRow, LeaseStep, LeaseRow
  <1>3. /\ \A s \in Sessions : TasksOf(s)' \subseteq TasksOf(s) /\ LeasesOf(s)' \subseteq LeasesOf(s)
        /\ \A d \in Devices : TasksOn(d)' \subseteq TasksOn(d) /\ LeasesOn(d)' \subseteq LeasesOn(d)
    BY <1>2 DEF TasksOf, LeasesOf, TasksOn, LeasesOn, ActiveLeases
  <1>4. CASE LiveSessions' \subseteq LiveSessions
    BY <1>1, <1>3, <1>4, UseKept
  <1>5. ASSUME NEW d \in Devices, NEW s \in Sessions, AgentSessionStarted(d, s)
        PROVE  UseWithinPolicy'
    <2>1. LiveSessions' \subseteq LiveSessions \cup {s} /\ Cardinality(LiveSessions) < policy.values.sessions
      BY <1>5 DEF AgentSessionStarted, LiveSessions, TypeOK
    <2>2. Cardinality(LiveSessions') <= policy.values.sessions
      BY <2>1, FiniteUse, PolicyLimits, AtMostOneMore
    <2> QED BY <1>1, <1>3, <2>2, FiniteUse, PolicyLimits, NoMore DEF UseWithinPolicy, UseWithin
  <1>6. ASSUME NEW s \in Sessions, NEW v,
               \/ \E d \in Devices : AgentSessionStartRejected(d, s)
               \/ \E to \in Connected : AgentStatusChanged(s, to, v) \/ DaemonResume(s, to, v)
               \/ DaemonDisconnect(s, v)
               \/ \E r \in EndReasons : AgentSessionEnded(s, r, v)
        PROVE  LiveSessions' \subseteq LiveSessions
    <2>1. CASE UNCHANGED session
      BY <2>1 DEF LiveSessions
    <2>2. CASE \E to \in Connected : AgentStatusChanged(s, to, v) \/ DaemonResume(s, to, v)
      BY <2>2 DEF LiveSessions, AgentStatusChanged, AgentActs, DaemonResume, Connected, TypeOK
    <2>3. CASE DaemonDisconnect(s, v)
      BY <2>3 DEF LiveSessions, DaemonDisconnect, Connected, TypeOK
    <2>4. CASE \E r \in EndReasons : AgentSessionEnded(s, r, v)
      BY <2>4 DEF LiveSessions, AgentSessionEnded, SessionStep, SessionRow, TypeOK
    <2> QED BY <1>6, <2>1, <2>2, <2>3, <2>4 DEF AgentSessionStartRejected
  <1> QED
    BY <1>4, <1>5, <1>6 DEF SessionNext

\* task.*: only a claim adds, and it was counted against both limits.
LEMMA UseTask ==
    ASSUME TypeOK, SessionsConsistent, OwnershipConsistent, UseWithinPolicy, TaskNext
    PROVE  UseWithinPolicy'
  <1> USE ConstantsAssumption
  <1>1. UNCHANGED <<session, lease, policy>>
    BY TaskFrame
  <1>2. /\ LiveSessions' = LiveSessions
        /\ \A s \in Sessions : LeasesOf(s)' = LeasesOf(s)
        /\ \A d \in Devices : LeasesOn(d)' = LeasesOn(d)
    BY <1>1 DEF LiveSessions, LeasesOf, LeasesOn, ActiveLeases
  <1>3. CASE UNCHANGED task
    <2>1. \A s \in Sessions : TasksOf(s)' = TasksOf(s)
      BY <1>3 DEF TasksOf
    <2>2. \A d \in Devices : TasksOn(d)' = TasksOn(d)
      BY <1>3 DEF TasksOn
    <2> QED BY <1>1, <1>2, <2>1, <2>2, UseKept
  <1>4. ASSUME NEW t \in Tasks, TaskOperation(t) PROVE UseWithinPolicy'
    <2>1. PICK row : /\ task' = [task EXCEPT ![t] = row]
                     /\ OwnerWritten(t, row)
      BY <1>4, TaskWrites
    <2>2. task'[t] = row /\ \A u \in Tasks \ {t} : task'[u] = task[u]
      BY <2>1 DEF TypeOK
    <2>3. CASE (row.agent = task[t].agent /\ row.device = task[t].device) \/ (row.agent = None /\ row.device = None)
      <3>1. /\ \A s \in Sessions : TasksOf(s)' \subseteq TasksOf(s)
            /\ \A d \in Devices : TasksOn(d)' \subseteq TasksOn(d)
        BY <2>2, <2>3 DEF TasksOf, TasksOn
      <3> QED BY <1>1, <1>2, <3>1, UseKept
    <2>4. ASSUME NEW s \in Sessions, AgentActs(s), MayClaimOneMore(s, session[s].device),
                 row.agent = s, row.device = session[s].device
          PROVE  UseWithinPolicy'
      <3>1. \A k \in Sessions : Cardinality(TasksOf(k)') <= policy.values.agentClaims
        <4> TAKE k \in Sessions
        <4>1. CASE k = s
          <5>1. TasksOf(k)' \subseteq TasksOf(k) \cup {t}
            BY <2>2 DEF TasksOf
          <5> QED BY <2>4, <4>1, <5>1, FiniteUse, PolicyLimits, AtMostOneMore DEF MayClaimOneMore
        <4>2. CASE k # s
          <5>1. TasksOf(k)' \subseteq TasksOf(k)
            BY <2>2, <2>4, <4>2 DEF TasksOf
          <5> QED BY <5>1, FiniteUse, PolicyLimits, NoMore DEF UseWithinPolicy, UseWithin
        <4> QED BY <4>1, <4>2
      <3>2. \A d \in Devices : Cardinality(TasksOn(d)') <= policy.values.deviceClaims
        <4> TAKE d \in Devices
        <4>1. CASE d = session[s].device
          <5>1. TasksOn(d)' \subseteq TasksOn(d) \cup {t}
            BY <2>2 DEF TasksOn
          <5> QED BY <2>4, <4>1, <5>1, FiniteUse, PolicyLimits, AtMostOneMore DEF MayClaimOneMore
        <4>2. CASE d # session[s].device
          <5>1. TasksOn(d)' \subseteq TasksOn(d)
            BY <2>2, <2>4, <4>2 DEF TasksOn
          <5> QED BY <5>1, FiniteUse, PolicyLimits, NoMore DEF UseWithinPolicy, UseWithin
        <4> QED BY <4>1, <4>2
      <3> QED BY <1>1, <1>2, <3>1, <3>2 DEF UseWithinPolicy, UseWithin
    <2> QED BY <2>1, <2>3, <2>4 DEF OwnerWritten
  <1> QED
    BY <1>3, <1>4 DEF TaskNext, ConflictStep

\* lease.*: only an acquisition adds, and it was counted against both limits.
LEMMA UseLease ==
    ASSUME TypeOK, SessionsConsistent, UseWithinPolicy, LeaseNext
    PROVE  UseWithinPolicy'
  <1>1. /\ LiveSessions' = LiveSessions /\ UNCHANGED policy
        /\ \A s \in Sessions : TasksOf(s)' = TasksOf(s)
        /\ \A d \in Devices : TasksOn(d)' = TasksOn(d)
    BY LeaseFrame DEF LiveSessions, TasksOf, TasksOn
  <1>2. ASSUME NEW l \in Leases, NEW s \in Sessions, NEW v,
               LeaseRenewed(l, s, v) \/ \E d \in Devices, r \in ReleaseReasons : LeaseReleased(l, s, d, r, v)
        PROVE  UseWithinPolicy'
    <2>1. /\ \A m \in Leases \ {l} : lease'[m] = lease[m]
          /\ lease[l].status = "active"
          /\ lease'[l].agent = lease[l].agent /\ lease'[l].device = lease[l].device
      BY <1>2 DEF LeaseRenewed, LeaseReleased, LeaseStep, LeaseRow, TypeOK
    <2>2. /\ \A k \in Sessions : LeasesOf(k)' \subseteq LeasesOf(k)
          /\ \A d \in Devices : LeasesOn(d)' \subseteq LeasesOn(d)
      BY <2>1 DEF LeasesOf, LeasesOn, ActiveLeases
    <2> QED BY <1>1, <2>2, UseKept
  <1>3. ASSUME NEW l \in Leases, NEW s \in Sessions, NEW scope \in LeaseScopes, LeaseAcquired(l, s, scope)
        PROVE  UseWithinPolicy'
    <2>1. /\ \A m \in Leases \ {l} : lease'[m] = lease[m]
          /\ lease'[l].agent = s /\ lease'[l].device = session[s].device
      BY <1>3 DEF LeaseAcquired, LeaseRow, TypeOK
    <2>2. \A k \in Sessions : Cardinality(LeasesOf(k)') <= policy.values.agentLeases
      <3> TAKE k \in Sessions
      <3>1. CASE k = s
        <4>1. LeasesOf(k)' \subseteq LeasesOf(k) \cup {l}
          BY <2>1 DEF LeasesOf, ActiveLeases
        <4> QED BY <1>3, <3>1, <4>1, FiniteUse, PolicyLimits, AtMostOneMore DEF LeaseAcquired
      <3>2. CASE k # s
        <4>1. LeasesOf(k)' \subseteq LeasesOf(k)
          BY <2>1, <3>2 DEF LeasesOf, ActiveLeases
        <4> QED BY <4>1, FiniteUse, PolicyLimits, NoMore DEF UseWithinPolicy, UseWithin
      <3> QED BY <3>1, <3>2
    <2>3. \A d \in Devices : Cardinality(LeasesOn(d)') <= policy.values.deviceLeases
      <3> TAKE d \in Devices
      <3>1. CASE d = session[s].device
        <4>1. LeasesOn(d)' \subseteq LeasesOn(d) \cup {l}
          BY <2>1 DEF LeasesOn, ActiveLeases
        <4> QED BY <1>3, <3>1, <4>1, FiniteUse, PolicyLimits, AtMostOneMore DEF LeaseAcquired
      <3>2. CASE d # session[s].device
        <4>1. LeasesOn(d)' \subseteq LeasesOn(d)
          BY <2>1, <3>2 DEF LeasesOn, ActiveLeases
        <4> QED BY <4>1, FiniteUse, PolicyLimits, NoMore DEF UseWithinPolicy, UseWithin
      <3> QED BY <3>1, <3>2
    <2> QED BY <1>1, <2>2, <2>3 DEF UseWithinPolicy, UseWithin
  <1> QED
    BY <1>2, <1>3 DEF LeaseNext

LEMMA UseStep ==
    ASSUME Inv, UseWithinPolicy, [Next]_vars
    PROVE  UseWithinPolicy'
  <1> USE DEF Inv
  <1>1. CASE AdminNext
    <2>1. UNCHANGED <<session, task, lease>>
      BY <1>1, AdminFrame
    <2>3. CASE UNCHANGED policy
      BY <2>1, <2>3 DEF UseWithinPolicy, UseWithin, LiveSessions, TasksOf, LeasesOf, TasksOn, LeasesOn, ActiveLeases
    <2>4. ASSUME NEW d, NEW values, NEW v, PolicyChanged(d, values, v) PROVE UseWithinPolicy'
      BY <2>1, <2>4 DEF PolicyChanged, UseWithinPolicy, UseWithin, LiveSessions, TasksOf, LeasesOf,
                        TasksOn, LeasesOn, ActiveLeases
    <2> QED BY <1>1, <2>3, <2>4 DEF AdminNext, MembershipStep
  <1>2. CASE UNCHANGED vars
    BY <1>2 DEF vars, UseWithinPolicy, UseWithin, LiveSessions, TasksOf, LeasesOf, TasksOn, LeasesOn, ActiveLeases
  <1> QED
    BY <1>1, <1>2, UseSession, UseTask, UseLease DEF Next

\* policy.changed, agent.session.started, task.claimed and lease.acquired: sessions,
\* tasks and leases fit together, and committed use never exceeds the committed policy,
\* although limits are lowered while sessions, claims and leases exist.
THEOREM RowsAreConsistent == Spec => []RowsConsistent
  <1>1. Init => Inv /\ UseWithinPolicy
    BY InvInit, UseInit
  <1>2. (Inv /\ UseWithinPolicy) /\ [Next]_vars => (Inv /\ UseWithinPolicy)'
    BY InvStep, UseStep
  <1>3. Inv /\ UseWithinPolicy => RowsConsistent
    BY DEF Inv, RowsConsistent
  <1> QED
    BY <1>1, <1>2, <1>3, PTL DEF Spec

----------------------------------------------------------------------------
(* What a step may never do.                                               *)

\* One session row is written, at its next version, and nothing is given to a session.
LEMMA SessionWrites ==
    ASSUME TypeOK, SessionsConsistent, SessionNext
    PROVE  /\ \A s \in Sessions : session'[s] # session[s] =>
                /\ session'[s].version = session[s].version + 1
                /\ session[s].state # "ended"
           /\ \A t \in Tasks : task'[t] # task[t] =>
                /\ task'[t] = Released(task[t])
                /\ task[t].agent # None
           /\ \A l \in Leases : lease'[l] # lease[l] =>
                /\ lease'[l] = LeaseStep(lease[l], "released")
                /\ lease[l].status = "active"
  <1> USE ConstantsAssumption
  <1> PICK s \in Sessions :
            \/ \E d \in Devices : \/ AgentSessionStarted(d, s)
                                  \/ AgentSessionStartRejected(d, s)
            \/ \E v \in Versions("session") :
                  \/ \E to \in Connected : AgentStatusChanged(s, to, v)
                  \/ \E to \in Connected : DaemonResume(s, to, v)
                  \/ DaemonDisconnect(s, v)
                  \/ \E r \in EndReasons : AgentSessionEnded(s, r, v)
    BY DEF SessionNext
  <1>1. \A k \in Sessions \ {s} : session'[k] = session[k]
    BY DEF AgentSessionStarted, AgentSessionStartRejected, AgentStatusChanged, DaemonResume,
           DaemonDisconnect, AgentSessionEnded, TypeOK
  <1>2. session'[s] # session[s] => session'[s].version = session[s].version + 1 /\ session[s].state # "ended"
    <2>1. ASSUME NEW d \in Devices, AgentSessionStarted(d, s)
          PROVE  session'[s].version = session[s].version + 1 /\ session[s].state # "ended"
      BY <2>1 DEF AgentSessionStarted, SessionRow, TypeOK, SessionsConsistent
    <2>2. ASSUME NEW v, NEW to \in Connected, AgentStatusChanged(s, to, v) \/ DaemonResume(s, to, v)
          PROVE  session'[s].version = session[s].version + 1 /\ session[s].state # "ended"
      BY <2>2 DEF AgentStatusChanged, AgentActs, Connected, DaemonResume, SessionStep, SessionRow, TypeOK
    <2>3. ASSUME NEW v, DaemonDisconnect(s, v)
          PROVE  session'[s].version = session[s].version + 1 /\ session[s].state # "ended"
      BY <2>3 DEF DaemonDisconnect, Connected, SessionStep, SessionRow, TypeOK
    <2>4. ASSUME NEW v, NEW r \in EndReasons, AgentSessionEnded(s, r, v)
          PROVE  session'[s].version = session[s].version + 1 /\ session[s].state # "ended"
      <3>1. session[s].state # "ended"
        BY <2>4 DEF AgentSessionEnded, MayEnd, AgentActs, Connected, EndReasons
      <3> QED BY <2>4, <3>1 DEF AgentSessionEnded, SessionStep, SessionRow, TypeOK
    <2> QED BY <2>1, <2>2, <2>3, <2>4 DEF AgentSessionStartRejected
  <1>3. /\ task' = task \/ task' = CascadeTasks(s)
        /\ lease' = lease \/ lease' = CascadeLeases(s)
    BY DEF AgentSessionStarted, AgentSessionStartRejected, AgentStatusChanged, DaemonResume,
           DaemonDisconnect, AgentSessionEnded
  <1>4. \A t \in Tasks : task'[t] # task[t] => task'[t] = Released(task[t]) /\ task[t].agent # None
    BY <1>3 DEF CascadeTasks
  <1>5. \A l \in Leases : lease'[l] # lease[l] =>
                lease'[l] = LeaseStep(lease[l], "released") /\ lease[l].status = "active"
    BY <1>3 DEF CascadeLeases, LeasesOf, ActiveLeases
  <1> QED BY <1>1, <1>2, <1>4, <1>5

\* One lease row is written: acquired or renewed by an acting agent, or released.
LEMMA LeaseWrites ==
    ASSUME TypeOK, SessionsConsistent, LeaseHoldersLive, LeaseNext
    PROVE  \A l \in Leases : lease'[l] # lease[l] =>
                /\ lease'[l].version = lease[l].version + 1
                /\ lease[l].status # "released"
                /\ \/ lease'[l].status = "released"
                   \/ \E s \in Sessions : lease'[l].agent = s /\ AgentActs(s)
  <1> PICK l \in Leases, s \in Sessions :
          \/ \E scope \in LeaseScopes : LeaseAcquired(l, s, scope)
          \/ \E v \in Versions("lease") :
                \/ LeaseRenewed(l, s, v)
                \/ \E d \in Devices, r \in ReleaseReasons : LeaseReleased(l, s, d, r, v)
    BY DEF LeaseNext
  <1>1. \A m \in Leases \ {l} : lease'[m] = lease[m]
    BY DEF LeaseAcquired, LeaseRenewed, LeaseReleased, TypeOK
  <1>2. ASSUME NEW scope \in LeaseScopes, LeaseAcquired(l, s, scope)
        PROVE  /\ lease'[l].version = lease[l].version + 1 /\ lease[l].status # "released"
               /\ lease'[l].agent = s /\ AgentActs(s)
    BY <1>2 DEF LeaseAcquired, LeaseRow, TypeOK, LeaseHoldersLive
  <1>3. ASSUME NEW v, LeaseRenewed(l, s, v)
        PROVE  /\ lease'[l].version = lease[l].version + 1 /\ lease[l].status # "released"
               /\ lease'[l].agent = s /\ AgentActs(s)
    BY <1>3 DEF LeaseRenewed, LeaseHeldBy, LeaseStep, LeaseRow, TypeOK
  <1>4. ASSUME NEW v, NEW d, NEW r, LeaseReleased(l, s, d, r, v)
        PROVE  /\ lease'[l].version = lease[l].version + 1 /\ lease[l].status # "released"
               /\ lease'[l].status = "released"
    BY <1>4 DEF LeaseReleased, LeaseStep, LeaseRow, TypeOK
  <1> QED BY <1>1, <1>2, <1>3, <1>4

LEMMA ActingIsHeard ==
    ASSUME NEW s \in Sessions, AgentActs(s)
    PROVE  ~Silent(s)
  BY DEF AgentActs, Active, Silent

\* Rows move one version at a time, what is over stays over, and a session that is
\* disconnected or whose device is revoked makes no progress on what it holds.
LEMMA AdvanceStep ==
    ASSUME Inv, Next
    PROVE  RowsAdvance /\ SilentSessionsFrozen
  <1> USE ConstantsAssumption DEF Inv
  <1>1. CASE SessionNext
    <2>1. ASSUME NEW t \in Tasks, task'[t] # task[t]
          PROVE  /\ task'[t].version = task[t].version + 1 /\ task'[t].agent = None
                 /\ task'[t].state = "ready" /\ task[t].state \notin Terminal
      <3>1. task'[t] = Released(task[t]) /\ task[t].agent # None
        BY <1>1, <2>1, SessionWrites
      <3>2. task[t].state \in Owned
        BY <3>1 DEF OwnershipConsistent
      <3> QED BY <3>1, <3>2 DEF Released, Unowned, TaskRow, Owned, Terminal
    <2>2. ASSUME NEW l \in Leases, lease'[l] # lease[l]
          PROVE  /\ lease'[l].version = lease[l].version + 1 /\ lease[l].status # "released"
                 /\ lease'[l].status = "released"
      <3>1. lease'[l] = LeaseStep(lease[l], "released") /\ lease[l].status = "active"
        BY <1>1, <2>2, SessionWrites
      <3> QED BY <3>1 DEF LeaseStep, LeaseRow
    <2>3. RowsAdvance
      BY <1>1, <2>1, <2>2, SessionWrites DEF RowsAdvance
    <2>4. SilentSessionsFrozen
      BY <2>1, <2>2 DEF SilentSessionsFrozen
    <2> QED BY <2>3, <2>4
  <1>2. CASE TaskNext
    <2>1. UNCHANGED <<session, lease>>
      BY <1>2, TaskFrame
    <2>2. CASE UNCHANGED task
      BY <2>1, <2>2 DEF RowsAdvance, SilentSessionsFrozen
    <2>3. ASSUME NEW t \in Tasks, TaskOperation(t) PROVE RowsAdvance /\ SilentSessionsFrozen
      <3>1. PICK row : /\ task' = [task EXCEPT ![t] = row]
                       /\ row.version = task[t].version + 1
                       /\ OwnerWritten(t, row)
                       /\ StateWritten(t, row)
        BY <2>3, TaskWrites
      <3>2. task'[t] = row /\ \A u \in Tasks \ {t} : task'[u] = task[u]
        BY <3>1 DEF TypeOK
      <3>3. RowsAdvance
        BY <2>1, <3>1, <3>2 DEF RowsAdvance, StateWritten
      <3>4. ASSUME NEW s \in Sessions, Silent(s)
            PROVE  /\ task[t].agent = s /\ row.state # task[t].state => row.state \in {"ready", "cancelled"}
                   /\ row.agent = s => task[t].agent = s
        <4>1. ~AgentActs(s)
          BY <3>4, ActingIsHeard
        <4> QED BY <3>1, <4>1 DEF StateWritten, OwnerWritten
      <3>5. SilentSessionsFrozen
        BY <2>1, <3>2, <3>4 DEF SilentSessionsFrozen
      <3> QED BY <3>3, <3>5
    <2> QED BY <1>2, <2>2, <2>3 DEF TaskNext, ConflictStep
  <1>3. CASE LeaseNext
    <2>1. UNCHANGED <<session, task>>
      BY <1>3, LeaseFrame
    <2>2. RowsAdvance
      BY <1>3, <2>1, LeaseWrites DEF RowsAdvance
    <2>3. \A s \in Sessions : Silent(s) =>
             \A l \in Leases : lease'[l] # lease[l] /\ lease'[l].agent = s => lease'[l].status = "released"
      BY <1>3, LeaseWrites, ActingIsHeard
    <2>4. SilentSessionsFrozen
      BY <2>1, <2>3 DEF SilentSessionsFrozen
    <2> QED BY <2>2, <2>4
  <1>4. CASE AdminNext
    BY <1>4, AdminFrame DEF RowsAdvance, SilentSessionsFrozen
  <1> QED
    BY <1>1, <1>2, <1>3, <1>4 DEF Next

\* validate*Changes and the checks of the acting session: no step takes a row back, lets
\* an ended session, a released lease or a finished task change, or lets a silent session
\* act.
THEOREM RowsOnlyAdvance == Spec => RowsAlwaysAdvance
  <1>1. Inv /\ [Next]_vars => [RowsAdvance /\ SilentSessionsFrozen]_vars
    BY AdvanceStep
  <1> QED
    BY <1>1, Invariance, PTL DEF Spec, RowsAlwaysAdvance
=============================================================================
