-------------------------- MODULE MembershipProofs --------------------------
(***************************************************************************)
(* Proofs about Membership, for every finite set of devices, every set of  *)
(* policies, levels and keys and every version bound; about the renewal of *)
(* credentials, for every cluster, clock error and interleaving; and about *)
(* pairing and join, for every number of invites, attempts, strangers,     *)
(* snapshots and faults.                                                   *)
(***************************************************************************)
EXTENDS Membership, CredentialRenewal, Joining, FiniteSetTheorems, TLAPS

\* The steps of Next, by the part of the state they write.
DeviceStep(d) ==
    \/ \E o \in Devices, role \in Roles, level \in Levels :
          \/ DeviceAdmitted(o, d, role, level)
          \/ \E v \in Versions("device") : DeviceReadmitted(o, d, role, level, v)
    \/ \E v \in Versions("device") :
          \/ \E o \in Devices, role \in Roles : RoleChanged(o, d, role, v)
          \/ OwnerRecovered(d, v)
          \/ \E level \in Levels : VersionReported(d, level, v)

\* What the five reducers that write a device row without revoking it have in
\* common: one row is written, it is active, and its version is in bounds.
DeviceWritten(d) ==
    /\ UNCHANGED <<target, authority, authorized, policy, generation>>
    /\ device[d].status # "revoked"
    /\ \E role \in Roles, level \in Levels, v \in 0 .. MaxVersion["device"] :
          device' = [device EXCEPT ![d] = DeviceRow("active", role, level, v)]
    /\ \/ counter' = counter
       \/ counter' = [counter EXCEPT ![d] = CounterRow(0, 0)]

LEMMA DeviceStepWrites ==
    ASSUME TypeOK, NEW d \in Devices, DeviceStep(d)
    PROVE  DeviceWritten(d)
  <1> USE MembershipAssumption
  <1>a. ASSUME NEW v, Loads(d, v)
        PROVE  device[d].version + 1 \in 0 .. MaxVersion["device"]
    BY <1>a DEF Loads, TypeOK, DeviceRows, Kinds
  <1>b. device[d].level \in Levels /\ device[d].role \in Roles /\ "owner" \in Roles
    BY DEF TypeOK, DeviceRows, Roles
  <1>c. 1 \in 0 .. MaxVersion["device"]
    BY DEF Kinds
  <1>1. ASSUME NEW o, NEW role \in Roles, NEW level \in Levels,
               DeviceAdmitted(o, d, role, level)
        PROVE  DeviceWritten(d)
    BY <1>1, <1>c DEF DeviceAdmitted, DeviceWritten
  <1>2. ASSUME NEW o, NEW role \in Roles, NEW level \in Levels, NEW v,
               DeviceReadmitted(o, d, role, level, v)
        PROVE  DeviceWritten(d)
    BY <1>2, <1>a DEF DeviceReadmitted, DeviceWritten
  <1>3. ASSUME NEW o, NEW role \in Roles, NEW v, RoleChanged(o, d, role, v)
        PROVE  DeviceWritten(d)
    BY <1>3, <1>a, <1>b DEF RoleChanged, Active, DeviceWritten
  <1>4. ASSUME NEW v, OwnerRecovered(d, v)
        PROVE  DeviceWritten(d)
    BY <1>4, <1>a, <1>b DEF OwnerRecovered, Active, DeviceWritten
  <1>5. ASSUME NEW v, NEW level \in Levels, VersionReported(d, level, v)
        PROVE  DeviceWritten(d)
    BY <1>5, <1>a, <1>b DEF VersionReported, Active, DeviceWritten
  <1> QED
    BY <1>1, <1>2, <1>3, <1>4, <1>5 DEF DeviceStep

\* DeviceNext is a DeviceStep of some device.
LEMMA DeviceNextSteps == DeviceNext => \E d \in Devices : DeviceStep(d)
  BY DEF DeviceNext, DeviceStep

----------------------------------------------------------------------------
(* Types.                                                                  *)

\* The single voter of genesis and of recovery is a voter set.
LEMMA SingleVoter ==
    ASSUME NEW d \in Devices
    PROVE  VoterRow({d}, 1) \in VoterRows
  <1>1. Cardinality({d}) = 1
    BY FS_Singleton
  <1>2. 1 \in Versions("target")
    BY MembershipAssumption DEF Versions, Kinds
  <1> QED
    BY <1>1, <1>2 DEF VoterRow, VoterRows, VoterSets

LEMMA TypeInit == Init => TypeOK
  <1> SUFFICES ASSUME Init PROVE TypeOK
    OBVIOUS
  <1> USE MembershipAssumption
  <1>1. device \in [Devices -> DeviceRows]
    BY DEF Init, DeviceRow, DeviceRows, Statuses, Roles, Kinds
  <1>2. counter \in [Devices -> CounterRows]
    BY DEF Init, CounterRow, CounterRows, Kinds
  <1>3. target \in VoterRows /\ authority \in VoterRows
    BY SingleVoter DEF Init
  <1>4. policy \in [values : Policies, version : Versions("policy")]
    BY DEF Init, Versions, Kinds
  <1>5. authorized \subseteq Authorizations /\ generation \in 0 .. MaxVersion["generation"]
    BY DEF Init, Kinds
  <1> QED
    BY <1>1, <1>2, <1>3, <1>4, <1>5 DEF TypeOK

\* Every step keeps every row well typed.
LEMMA TypeStep == TypeOK /\ [Next]_vars => TypeOK'
  <1> SUFFICES ASSUME TypeOK, [Next]_vars PROVE TypeOK'
    OBVIOUS
  <1> USE MembershipAssumption
  <1>1. CASE DeviceNext
    <2>1. PICK d \in Devices : DeviceStep(d)
      BY <1>1, DeviceNextSteps
    <2>2. CounterRow(0, 0) \in CounterRows
      BY DEF CounterRow, CounterRows, Kinds
    <2>3. device' \in [Devices -> DeviceRows]
      BY <2>1, DeviceStepWrites DEF DeviceWritten, DeviceRow, DeviceRows, Statuses, TypeOK
    <2> QED
      BY <2>1, <2>2, <2>3, DeviceStepWrites DEF DeviceWritten, TypeOK
  <1>2. ASSUME NEW o, NEW d \in Devices, NEW V \in VoterSets, NEW v, NEW w,
               DeviceRevoked(o, d, V, v, w)
        PROVE  TypeOK'
    <2>1. device' \in [Devices -> DeviceRows]
      BY <1>2 DEF DeviceRevoked, Loads, DeviceRow, DeviceRows, Statuses, TypeOK, Kinds
    <2>2. target' \in VoterRows
      BY <1>2 DEF DeviceRevoked, RevocationTarget, VoterRow, VoterRows, Versions, TypeOK, Kinds
    <2> QED
      BY <1>2, <2>1, <2>2 DEF DeviceRevoked, TypeOK
  <1>3. ASSUME NEW o, NEW V \in VoterSets, NEW w, VoterSetChanged(o, V, w)
        PROVE  TypeOK'
    BY <1>3 DEF VoterSetChanged, NextTarget, VoterRow, VoterRows, Versions, TypeOK, Kinds
  <1>4. ASSUME NEW o, NEW s, NEW c, NEW w, NEW a, VoterSetActivated(o, s, c, w, a)
        PROVE  TypeOK'
    BY <1>4 DEF VoterSetActivated, TypeOK
  <1>5. ASSUME NEW o, NEW d \in Devices, NEW e \in Versions("epoch"), NEW k \in Keys,
               NEW E, NEW v \in Versions("target"), CredentialAuthorized(o, d, e, k, E, v)
        PROVE  TypeOK'
    <2>1. Authorization(d, e, k, v) \in Authorizations
      BY DEF Authorization, Authorizations, TypeOK
    <2>2. CounterRow(e, 0) \in CounterRows
      BY DEF CounterRow, CounterRows, Versions, Kinds
    <2> QED
      BY <1>5, <2>1, <2>2 DEF CredentialAuthorized, TypeOK
  <1>6. ASSUME NEW o, NEW d \in Devices, NEW e, AuditRecorded(o, d, e)
        PROVE  TypeOK'
    <2>1. CounterRow(e, counter[d].count + 1) \in CounterRows
      BY <1>6 DEF AuditRecorded, CounterRow, CounterRows, TypeOK
    <2> QED
      BY <1>6, <2>1 DEF AuditRecorded, TypeOK
  <1>7. ASSUME NEW o, NEW values \in Policies, NEW v, PolicyChanged(o, values, v)
        PROVE  TypeOK'
    BY <1>7 DEF PolicyChanged, Versions, TypeOK, Kinds
  <1>8. ASSUME NEW r \in Devices, RecoveryBoundary(r)
        PROVE  TypeOK'
    <2>1. device' \in [Devices -> DeviceRows]
      <3>1. \A d \in Devices : RecoveredRow(d, r) \in DeviceRows
        BY DEF RecoveredRow, DeviceRow, DeviceRows, Statuses, Roles, TypeOK, Kinds
      <3> QED
        BY <1>8, <3>1 DEF RecoveryBoundary
    <2>2. counter' \in [Devices -> CounterRows]
      BY <1>8 DEF RecoveryBoundary, CounterRow, CounterRows, Kinds
    <2>3. target' \in VoterRows /\ authority' \in VoterRows
      BY <1>8, SingleVoter DEF RecoveryBoundary
    <2>4. policy' \in [values : Policies, version : Versions("policy")]
      BY <1>8 DEF RecoveryBoundary, TypeOK, Versions, Kinds
    <2>5. generation' \in 0 .. MaxVersion["generation"] /\ authorized' = authorized
      BY <1>8 DEF RecoveryBoundary, TypeOK, Kinds
    <2> QED
      BY <2>1, <2>2, <2>3, <2>4, <2>5 DEF TypeOK
  <1>9. CASE UNCHANGED vars
    BY <1>9 DEF vars, TypeOK
  <1> QED
    BY <1>1, <1>2, <1>3, <1>4, <1>5, <1>6, <1>7, <1>8, <1>9
    DEF Next, VotersNext, CredentialNext, PolicyNext

----------------------------------------------------------------------------
(* The topology.                                                           *)

\* A voter set of one, three or five is a majority of itself.
LEMMA AllIsMajority ==
    ASSUME NEW V \in VoterSets
    PROVE  Cardinality(V) >= Majority(V)
  BY DEF VoterSets, Majority

\* A step that leaves the authority alone and deactivates nobody keeps its
\* quorum of active members.
LEMMA QuorumKept ==
    ASSUME TypeOK, AuthorityQuorate, authority' = authority,
           \A v \in Devices : Active(v) => Active(v)'
    PROVE  AuthorityQuorate'
  <1> DEFINE A == {v \in authority.voters : Active(v)}
             B == {v \in authority'.voters : Active(v)'}
  <1>1. authority.voters \in VoterSets
    BY DEF TypeOK, VoterRows
  <1>2. IsFiniteSet(B) /\ A \subseteq B
    <2>1. B \subseteq Devices
      BY <1>1 DEF VoterSets
    <2> QED
      BY <2>1, <1>1, MembershipAssumption, FS_Subset DEF VoterSets
  <1>3. IsFiniteSet(A) /\ Cardinality(A) <= Cardinality(B)
    BY <1>2, FS_Subset
  <1>4. Cardinality(A) \in Nat /\ Cardinality(B) \in Nat
    BY <1>2, <1>3, FS_CardinalityType
  <1>5. Majority(authority.voters) \in Nat
    BY <1>1 DEF Majority, VoterSets
  <1>6. Cardinality(A) >= Majority(authority.voters)
    BY DEF AuthorityQuorate
  <1>7. Cardinality(B) >= Majority(authority'.voters)
    <2> HIDE DEF A, B
    <2> QED
      BY <1>3, <1>4, <1>5, <1>6 DEF Majority
  <1> QED
    BY <1>7 DEF AuthorityQuorate

LEMMA TopologyInit == Init => TopologyValid
  <1> SUFFICES ASSUME Init PROVE TopologyValid
    OBVIOUS
  <1>a. Founder \in Devices /\ IsOwner(Founder) /\ target.voters = {Founder}
    BY MembershipAssumption DEF Init, IsOwner, Active, DeviceRow, VoterRow
  <1>1. OwnerExists /\ TargetActive
    BY <1>a DEF OwnerExists, TargetActive, IsOwner
  <1>2. AuthorityBehind
    BY DEF Init, AuthorityBehind, VoterRow
  <1>3. AuthorityQuorate
    <2>1. authority.voters = {Founder} /\ {v \in {Founder} : Active(v)} = {Founder}
      BY <1>a DEF Init, VoterRow, IsOwner
    <2>2. Cardinality({Founder}) = 1
      BY FS_Singleton
    <2> QED
      BY <2>1, <2>2 DEF AuthorityQuorate, Majority
  <1> QED
    BY <1>1, <1>2, <1>3 DEF TopologyValid

\* Every step keeps the topology that validateMembershipTopology accepts.
LEMMA TopologyStep == TypeOK /\ TopologyValid /\ [Next]_vars => TopologyValid'
  <1> SUFFICES ASSUME TypeOK, TopologyValid, [Next]_vars PROVE TopologyValid'
    OBVIOUS
  <1>a. OwnerExists /\ TargetActive /\ AuthorityBehind /\ AuthorityQuorate
    BY DEF TopologyValid
  <1>b. target.voters \in VoterSets /\ target.version \in Nat /\ authority.version \in Nat
    BY MembershipAssumption DEF TypeOK, VoterRows, Versions, Kinds
  <1>c. target.voters \subseteq Devices
    BY <1>b DEF VoterSets
  <1>1. CASE DeviceNext
    <2>1. PICK d \in Devices : DeviceStep(d)
      BY <1>1, DeviceNextSteps
    <2>2. /\ target' = target /\ authority' = authority
          /\ \A v \in Devices : Active(v) => Active(v)'
      BY <2>1, DeviceStepWrites DEF DeviceWritten, Active, DeviceRow, TypeOK
    <2>3. OwnerExists'
      <3>1. CASE \E o, role, v : RoleChanged(o, d, role, v)
        BY <3>1 DEF RoleChanged, OwnerRemains, OwnerExists, IsOwner, Active, TypeOK
      <3>2. CASE \E v : OwnerRecovered(d, v)
        BY <3>2 DEF OwnerRecovered, DeviceRow, OwnerExists, IsOwner, Active, TypeOK
      <3>3. CASE \E level, v : VersionReported(d, level, v)
        BY <3>3, <1>a DEF VersionReported, DeviceRow, OwnerExists, IsOwner, Active, TypeOK
      <3>4. CASE \E o, role, level, v : \/ DeviceReadmitted(o, d, role, level, v)
                                        \/ DeviceAdmitted(o, d, role, level)
        <4>1. ~Active(d)
          BY <3>4 DEF DeviceReadmitted, DeviceAdmitted, Active
        <4>2. \A o \in Devices \ {d} : device'[o] = device[o]
          BY <2>1, DeviceStepWrites DEF DeviceWritten, TypeOK
        <4> QED
          BY <4>1, <4>2, <1>a DEF OwnerExists, IsOwner, Active
      <3> QED
        BY <2>1, <3>1, <3>2, <3>3, <3>4 DEF DeviceStep
    <2>4. TargetActive'
      BY <1>a, <1>c, <2>2 DEF TargetActive
    <2>5. AuthorityBehind'
      BY <1>a, <2>2 DEF AuthorityBehind
    <2>6. AuthorityQuorate'
      BY <1>a, <2>2, QuorumKept
    <2> QED
      BY <2>3, <2>4, <2>5, <2>6 DEF TopologyValid
  <1>2. ASSUME NEW o, NEW d \in Devices, NEW V \in VoterSets, NEW v, NEW w,
               DeviceRevoked(o, d, V, v, w)
        PROVE  TopologyValid'
    <2>1. /\ ~Active(d)'
          /\ \A u \in Devices \ {d} : device'[u] = device[u]
      BY <1>2 DEF DeviceRevoked, DeviceRow, Active, TypeOK
    <2>2. OwnerExists'
      BY <1>2, <2>1 DEF DeviceRevoked, OwnerRemains, DeviceRow, OwnerExists, IsOwner, Active
    <2>3. ASSUME d \in target.voters PROVE TargetActive' /\ AuthorityBehind'
      <3>1. /\ target' = VoterRow(V, target.version + 1)
            /\ V \subseteq target.voters \ {d}
            /\ \A u \in V : Active(u)
        BY <1>2, <2>3 DEF DeviceRevoked, RevocationTarget
      <3>2. TargetActive'
        BY <3>1, <2>1, <1>c DEF TargetActive, VoterRow, Active
      <3>3. AuthorityBehind'
        BY <1>2, <1>a, <1>b, <3>1 DEF DeviceRevoked, AuthorityBehind, VoterRow
      <3> QED
        BY <3>2, <3>3
    <2>4. ASSUME d \notin target.voters PROVE TargetActive' /\ AuthorityBehind'
      <3>1. target' = target
        BY <1>2, <2>4 DEF DeviceRevoked
      <3>2. TargetActive'
        BY <3>1, <2>1, <2>4, <1>a, <1>c DEF TargetActive, Active
      <3>3. AuthorityBehind'
        BY <1>2, <1>a, <3>1 DEF DeviceRevoked, AuthorityBehind
      <3> QED
        BY <3>2, <3>3
    <2>5. AuthorityQuorate'
      <3>1. authority' = authority /\ authority.voters \subseteq Devices
        BY <1>2 DEF DeviceRevoked, TypeOK, VoterRows, VoterSets
      <3>2. {u \in authority'.voters : Active(u)'} = {u \in authority.voters \ {d} : Active(u)}
        BY <3>1, <2>1 DEF Active
      <3>3. Cardinality({u \in authority.voters \ {d} : Active(u)})
               >= Majority(authority.voters)
        BY <1>2 DEF DeviceRevoked, AuthoritySurvives
      <3> QED
        BY <3>1, <3>2, <3>3 DEF AuthorityQuorate, Majority
    <2> QED
      BY <2>2, <2>3, <2>4, <2>5 DEF TopologyValid
  <1>3. ASSUME NEW o, NEW V \in VoterSets, NEW w, VoterSetChanged(o, V, w)
        PROVE  TopologyValid'
    <2>1. /\ device' = device /\ authority' = authority
          /\ target' = VoterRow(V, target.version + 1)
          /\ \A u \in V : Active(u)
      BY <1>3 DEF VoterSetChanged, NextTarget
    <2>2. OwnerExists' /\ TargetActive'
      BY <2>1, <1>a DEF OwnerExists, TargetActive, IsOwner, Active, VoterRow
    <2>3. AuthorityBehind'
      BY <2>1, <1>a, <1>b DEF AuthorityBehind, VoterRow
    <2>4. AuthorityQuorate'
      BY <2>1, <1>a, QuorumKept DEF Active
    <2> QED
      BY <2>2, <2>3, <2>4 DEF TopologyValid
  <1>4. ASSUME NEW o, NEW s, NEW c, NEW w, NEW a, VoterSetActivated(o, s, c, w, a)
        PROVE  TopologyValid'
    <2>1. device' = device /\ target' = target /\ authority' = target
      BY <1>4 DEF VoterSetActivated
    <2>2. OwnerExists' /\ TargetActive'
      BY <2>1, <1>a DEF OwnerExists, TargetActive, IsOwner, Active
    <2>3. AuthorityBehind'
      BY <2>1, <1>b DEF AuthorityBehind
    <2>4. AuthorityQuorate'
      <3>1. {u \in authority'.voters : Active(u)'} = target.voters
        BY <2>1, <1>a DEF TargetActive, Active
      <3>2. Cardinality(target.voters) >= Majority(target.voters)
        BY <1>b, AllIsMajority
      <3> QED
        BY <3>1, <3>2, <2>1 DEF AuthorityQuorate, Majority
    <2> QED
      BY <2>2, <2>3, <2>4 DEF TopologyValid
  <1>5. CASE \/ CredentialNext
             \/ \E o, values, v : PolicyChanged(o, values, v)
             \/ UNCHANGED vars
    <2>1. device' = device /\ target' = target /\ authority' = authority
      BY <1>5 DEF CredentialNext, CredentialAuthorized, AuditRecorded, PolicyChanged, vars
    <2>2. OwnerExists' /\ TargetActive'
      BY <2>1, <1>a DEF OwnerExists, TargetActive, IsOwner, Active
    <2>3. AuthorityBehind'
      BY <2>1, <1>a DEF AuthorityBehind
    <2>4. AuthorityQuorate'
      BY <2>1, <1>a, QuorumKept DEF Active
    <2> QED
      BY <2>2, <2>3, <2>4 DEF TopologyValid
  <1>6. ASSUME NEW r \in Devices, RecoveryBoundary(r)
        PROVE  TopologyValid'
    <2>1. /\ target'.voters = {r} /\ authority'.voters = {r}
          /\ target'.version = 1 /\ authority'.version = 1
      BY <1>6 DEF RecoveryBoundary, VoterRow
    <2>2. device'[r].status = "active" /\ device'[r].role = "owner"
      BY <1>6 DEF RecoveryBoundary, RecoveredRow, DeviceRow, Active
    <2>3. OwnerExists' /\ TargetActive' /\ AuthorityBehind'
      BY <2>1, <2>2 DEF OwnerExists, TargetActive, AuthorityBehind, IsOwner, Active
    <2>4. AuthorityQuorate'
      <3>1. {u \in authority'.voters : Active(u)'} = {r}
        BY <2>1, <2>2 DEF Active
      <3>2. Cardinality({r}) = 1
        BY FS_Singleton
      <3> QED
        BY <3>1, <3>2, <2>1 DEF AuthorityQuorate, Majority
    <2> QED
      BY <2>3, <2>4 DEF TopologyValid
  <1> QED
    BY <1>1, <1>2, <1>3, <1>4, <1>5, <1>6 DEF Next, VotersNext, PolicyNext

----------------------------------------------------------------------------
(* Theorems.                                                               *)

\* Whatever is committed, every row keeps its type, and validateMembershipTopology
\* accepts the state: the inductive invariant is the conjunction of the two.
THEOREM Invariance == Spec => [](TypeOK /\ TopologyValid)
  <1>1. Init => TypeOK /\ TopologyValid
    BY TypeInit, TopologyInit
  <1>2. TypeOK /\ TopologyValid /\ [Next]_vars => (TypeOK /\ TopologyValid)'
    BY TypeStep, TopologyStep
  <1> QED
    BY <1>1, <1>2, PTL DEF Spec

\* The session keeps an active owner, a target of active voters and an
\* authority that is quorate and never ahead of the target.
THEOREM TopologySafe == Spec => []TopologyValid
  BY Invariance, PTL

\* A revocation is never undone, by any proposal or by a recovery, and the
\* cluster apply level never falls.
LEMMA RevocationsAreFinal == TypeOK /\ [Next]_vars => [RevocationStands]_vars
  <1> SUFFICES ASSUME TypeOK, Next PROVE RevocationStands
    OBVIOUS
  <1> DEFINE Fixed == policy'.values.level >= policy.values.level
             Stays == \A d \in Devices :
                         device[d].status = "revoked" => device'[d].status = "revoked"
  <1>a. policy.values.level \in Nat
    BY MembershipAssumption DEF TypeOK
  <1>1. CASE DeviceNext
    <2>1. PICK d \in Devices : DeviceStep(d)
      BY <1>1, DeviceNextSteps
    <2>2. Stays
      BY <2>1, DeviceStepWrites DEF DeviceWritten, TypeOK
    <2>3. Fixed
      BY <2>1, DeviceStepWrites, <1>a DEF DeviceWritten
    <2> QED
      BY <2>2, <2>3 DEF RevocationStands
  <1>2. CASE VotersNext
    <2>1. Stays
      BY <1>2 DEF VotersNext, DeviceRevoked, VoterSetChanged, VoterSetActivated,
                  DeviceRow, TypeOK
    <2>2. Fixed
      BY <1>2, <1>a DEF VotersNext, DeviceRevoked, VoterSetChanged, VoterSetActivated
    <2> QED
      BY <2>1, <2>2 DEF RevocationStands
  <1>3. CASE CredentialNext
    BY <1>3, <1>a DEF CredentialNext, CredentialAuthorized, AuditRecorded, RevocationStands
  <1>4. ASSUME NEW o, NEW values, NEW v, PolicyChanged(o, values, v)
        PROVE  RevocationStands
    BY <1>4 DEF PolicyChanged, RevocationStands
  <1>5. ASSUME NEW r \in Devices, RecoveryBoundary(r)
        PROVE  RevocationStands
    <2>1. Stays
      BY <1>5 DEF RecoveryBoundary, RecoveredRow, DeviceRow, Active
    <2>2. Fixed
      BY <1>5, <1>a DEF RecoveryBoundary
    <2> QED
      BY <2>1, <2>2 DEF RevocationStands
  <1> QED
    BY <1>1, <1>2, <1>3, <1>4, <1>5 DEF Next, PolicyNext

\* Within a generation a voter-set version names one set, authorities only move
\* forward, and they never move together with the target.  That the activated
\* version is a later one rests on AuthorityBehind.
LEMMA HandOversOrdered ==
    TypeOK /\ TopologyValid /\ [Next]_vars => [VersionsNameOneSet]_vars
  <1> SUFFICES ASSUME TypeOK, TopologyValid, Next PROVE VersionsNameOneSet
    OBVIOUS
  <1>1. CASE DeviceNext
    <2>1. PICK d \in Devices : DeviceStep(d)
      BY <1>1, DeviceNextSteps
    <2> QED
      BY <2>1, DeviceStepWrites DEF DeviceWritten, VersionsNameOneSet
  <1>2. ASSUME NEW o, NEW d, NEW V, NEW v, NEW w, DeviceRevoked(o, d, V, v, w)
        PROVE  VersionsNameOneSet
    BY <1>2 DEF DeviceRevoked, VoterRow, VersionsNameOneSet
  <1>3. ASSUME NEW o, NEW V, NEW w, VoterSetChanged(o, V, w)
        PROVE  VersionsNameOneSet
    BY <1>3 DEF VoterSetChanged, NextTarget, VoterRow, VersionsNameOneSet
  <1>4. ASSUME NEW o, NEW s, NEW c, NEW w, NEW a, VoterSetActivated(o, s, c, w, a)
        PROVE  VersionsNameOneSet
    <2>1. target.version \in Nat /\ authority.version \in Nat
      BY MembershipAssumption DEF TypeOK, VoterRows, Versions, Kinds
    <2> QED
      BY <1>4, <2>1 DEF VoterSetActivated, TopologyValid, AuthorityBehind, VersionsNameOneSet
  <1>5. CASE CredentialNext \/ PolicyNext
    <2>1. \/ target' = target /\ authority' = authority
          \/ generation' = generation + 1
      BY <1>5 DEF CredentialNext, PolicyNext, CredentialAuthorized, AuditRecorded,
                  PolicyChanged, RecoveryBoundary
    <2>2. generation \in Nat
      BY MembershipAssumption DEF TypeOK, Kinds
    <2> QED
      BY <2>1, <2>2 DEF VersionsNameOneSet
  <1> QED
    BY <1>1, <1>2, <1>3, <1>4, <1>5 DEF Next, VotersNext

\* What was decided about members and voters stands: revocations are final, the
\* apply level never falls, and within a generation every hand-over is signed by
\* the set before it.
THEOREM MembershipOnlyAdvances == Spec => MembershipStands
  <1>1. TypeOK /\ TopologyValid /\ [Next]_vars => [VersionsNameOneSet /\ RevocationStands]_vars
    BY RevocationsAreFinal, HandOversOrdered
  <1> QED
    BY <1>1, Invariance, PTL DEF MembershipStands, Spec

----------------------------------------------------------------------------
(* The history of credentials.                                             *)

\* Epochs without a gap or a repetition, element by element.
EpochsDense ==
    \A d \in Devices, e \in Nat :
        (1 <= e /\ e <= counter[d].epoch)
        <=> \E a \in authorized : a.device = d /\ a.generation = generation /\ a.epoch = e

AuthorizationsDiffer ==
    \A a, b \in authorized :
        \/ a = b
        \/ /\ a.key # b.key
           /\ \/ a.generation # b.generation
              \/ a.device # b.device
              \/ a.epoch # b.epoch

AuthoritiesPast ==
    \A a \in authorized : a.generation = generation => a.authority <= authority.version

\* What the history needs to survive a recovery and an admission: nothing is
\* authorized in a generation that has not begun, and a device that was never
\* admitted has no credential.
HistoryInv ==
    /\ EpochsDense
    /\ AuthorizationsDiffer
    /\ AuthoritiesPast
    /\ \A a \in authorized : a.generation <= generation
    /\ \A d \in Devices : device[d].status = "absent" => counter[d].epoch = 0

LEMMA HistoryTypes ==
    ASSUME TypeOK
    PROVE  /\ generation \in Nat
           /\ \A d \in Devices : counter[d].epoch \in Nat
           /\ authority.version \in Nat /\ target.version \in Nat
           /\ \A a \in authorized : /\ a.generation \in Nat /\ a.epoch \in Nat /\ a.epoch >= 1
                                    /\ a.authority \in Nat /\ a.device \in Devices
  <1> USE MembershipAssumption
  <1>1. generation \in Nat
    BY DEF TypeOK, Kinds
  <1>2. \A d \in Devices : counter[d].epoch \in Nat
    BY DEF TypeOK, CounterRows, Kinds
  <1>3. authority.version \in Nat /\ target.version \in Nat
    BY DEF TypeOK, VoterRows, Versions, Kinds
  <1>4. ASSUME NEW a \in authorized
        PROVE  /\ a.generation \in Nat /\ a.epoch \in Nat /\ a.epoch >= 1
               /\ a.authority \in Nat /\ a.device \in Devices
    <2>1. a \in Authorizations
      BY DEF TypeOK
    <2> QED
      BY <2>1 DEF Authorizations, Versions, Kinds
  <1> QED
    BY <1>1, <1>2, <1>3, <1>4

LEMMA HistoryInvSuffices == TypeOK /\ HistoryInv => CredentialHistoryValid
  <1> SUFFICES ASSUME TypeOK, HistoryInv PROVE CredentialHistoryValid
    OBVIOUS
  <1>1. ASSUME NEW d \in Devices
        PROVE  {a.epoch : a \in {b \in authorized : b.device = d /\ b.generation = generation}}
                  = 1 .. counter[d].epoch
    <2> DEFINE E == {a.epoch : a \in {b \in authorized : b.device = d
                                                          /\ b.generation = generation}}
    <2>1. ASSUME NEW e \in E PROVE e \in 1 .. counter[d].epoch
      <3>1. PICK a \in authorized : a.device = d /\ a.generation = generation /\ e = a.epoch
        OBVIOUS
      <3>2. e \in Nat
        BY <3>1, HistoryTypes
      <3> QED
        BY <3>1, <3>2, HistoryTypes DEF HistoryInv, EpochsDense
    <2>2. ASSUME NEW e \in 1 .. counter[d].epoch PROVE e \in E
      <3>1. e \in Nat /\ 1 <= e /\ e <= counter[d].epoch
        BY HistoryTypes
      <3> QED
        BY <3>1 DEF HistoryInv, EpochsDense
    <2> QED
      BY <2>1, <2>2
  <1>2. \A a, b \in authorized :
          \/ a = b
          \/ /\ a.key # b.key
             /\ <<a.generation, a.device, a.epoch>> # <<b.generation, b.device, b.epoch>>
    BY DEF HistoryInv, AuthorizationsDiffer
  <1> QED
    BY <1>1, <1>2 DEF CredentialHistoryValid, HistoryInv, AuthoritiesPast

LEMMA HistoryInit == Init => HistoryInv
  <1> SUFFICES ASSUME Init PROVE HistoryInv
    OBVIOUS
  <1>1. authorized = {} /\ \A d \in Devices : counter[d].epoch = 0
    BY DEF Init, CounterRow
  <1> QED
    BY <1>1 DEF HistoryInv, EpochsDense, AuthorizationsDiffer, AuthoritiesPast

\* A step that authorizes nothing keeps the history when no epoch changes, no
\* device becomes absent and the authority does not move back.
LEMMA HistoryKept ==
    ASSUME TypeOK, TypeOK', HistoryInv,
           authorized' = authorized, generation' = generation,
           \A d \in Devices : counter'[d].epoch = counter[d].epoch,
           \A d \in Devices : device'[d].status = "absent" => device[d].status = "absent",
           authority.version <= authority'.version
    PROVE  HistoryInv'
  <1>1. EpochsDense'
    BY DEF HistoryInv, EpochsDense
  <1>2. AuthorizationsDiffer'
    BY DEF HistoryInv, AuthorizationsDiffer
  <1>3. AuthoritiesPast'
    <2>1. authority'.version \in Nat
      BY MembershipAssumption DEF TypeOK, VoterRows, Versions, Kinds
    <2> QED
      BY <2>1, HistoryTypes DEF HistoryInv, AuthoritiesPast
  <1>4. \A a \in authorized' : a.generation <= generation'
    BY DEF HistoryInv
  <1>5. \A d \in Devices : device'[d].status = "absent" => counter'[d].epoch = 0
    BY DEF HistoryInv
  <1> QED
    BY <1>1, <1>2, <1>3, <1>4, <1>5 DEF HistoryInv

\* credential.epoch.authorized: the next epoch of the device, with a key that no
\* authorization of any generation names.
LEMMA HistoryAuthorized ==
    ASSUME TypeOK, TypeOK', HistoryInv, NEW o, NEW d \in Devices, NEW e, NEW k, NEW E, NEW v,
           CredentialAuthorized(o, d, e, k, E, v)
    PROVE  HistoryInv'
  <1> DEFINE new == Authorization(d, e, k, v)
  <1>1. /\ new.generation = generation /\ new.device = d /\ new.epoch = e
        /\ new.key = k /\ new.authority = v
    BY DEF Authorization
  <1>2. /\ authorized' = authorized \cup {new}
        /\ generation' = generation /\ authority' = authority /\ device' = device
        /\ v = authority.version /\ e = counter[d].epoch + 1
        /\ \A a \in authorized : a.key # k
        /\ Active(d)
    BY DEF CredentialAuthorized, KeyUnused
  <1>3. \A x \in Devices : counter'[x].epoch = IF x = d THEN e ELSE counter[x].epoch
    BY DEF CredentialAuthorized, CounterRow, TypeOK
  <1>4. counter[d].epoch \in Nat /\ e \in Nat
    BY <1>2, HistoryTypes
  <1> HIDE DEF new
  <1>5. EpochsDense'
    <2> SUFFICES ASSUME NEW x \in Devices, NEW f \in Nat
                 PROVE  (1 <= f /\ f <= counter'[x].epoch)
                        <=> \E a \in authorized' :
                               a.device = x /\ a.generation = generation' /\ a.epoch = f
      BY DEF EpochsDense
    <2>1. (1 <= f /\ f <= counter[x].epoch)
          <=> \E a \in authorized : a.device = x /\ a.generation = generation /\ a.epoch = f
      BY DEF HistoryInv, EpochsDense
    <2>2. (\E a \in authorized' : a.device = x /\ a.generation = generation' /\ a.epoch = f)
          <=> \/ \E a \in authorized : a.device = x /\ a.generation = generation /\ a.epoch = f
              \/ x = d /\ f = e
      BY <1>1, <1>2
    <2>3. (1 <= f /\ f <= counter'[x].epoch)
          <=> ((1 <= f /\ f <= counter[x].epoch) \/ (x = d /\ f = e))
      BY <1>2, <1>3, <1>4
    <2> QED
      BY <2>1, <2>2, <2>3
  <1>6. AuthorizationsDiffer'
    <2>1. ASSUME NEW a \in authorized
          PROVE  /\ a.key # new.key
                 /\ \/ a.generation # new.generation
                    \/ a.device # new.device
                    \/ a.epoch # new.epoch
      <3>1. a.key # new.key
        BY <1>1, <1>2
      <3>2. a.epoch \in Nat
        BY HistoryTypes
      <3>3. ~(a.device = d /\ a.generation = generation /\ a.epoch = e)
        BY <1>2, <1>4, <3>2 DEF HistoryInv, EpochsDense
      <3> QED
        BY <1>1, <3>1, <3>3
    <2> QED
      BY <1>2, <2>1 DEF HistoryInv, AuthorizationsDiffer
  <1>7. AuthoritiesPast'
    BY <1>1, <1>2, HistoryTypes DEF HistoryInv, AuthoritiesPast
  <1>8. \A a \in authorized' : a.generation <= generation'
    BY <1>1, <1>2, HistoryTypes DEF HistoryInv
  <1>9. \A x \in Devices : device'[x].status = "absent" => counter'[x].epoch = 0
    BY <1>2, <1>3 DEF HistoryInv, Active
  <1> QED
    BY <1>5, <1>6, <1>7, <1>8, <1>9 DEF HistoryInv

\* The boundary begins a generation in which nothing is authorized yet.
LEMMA HistoryRecovered ==
    ASSUME TypeOK, HistoryInv, NEW r, RecoveryBoundary(r)
    PROVE  HistoryInv'
  <1>1. /\ authorized' = authorized /\ generation' = generation + 1
        /\ \A d \in Devices : counter'[d].epoch = 0
    BY DEF RecoveryBoundary, CounterRow
  <1>2. \A a \in authorized : a.generation # generation' /\ a.generation <= generation'
    BY <1>1, HistoryTypes DEF HistoryInv
  <1>3. EpochsDense'
    BY <1>1, <1>2 DEF EpochsDense
  <1>4. AuthorizationsDiffer'
    BY <1>1 DEF HistoryInv, AuthorizationsDiffer
  <1> QED
    BY <1>1, <1>2, <1>3, <1>4 DEF HistoryInv, AuthoritiesPast

LEMMA HistoryStep ==
    TypeOK /\ TypeOK' /\ TopologyValid /\ HistoryInv /\ [Next]_vars => HistoryInv'
  <1> SUFFICES ASSUME TypeOK, TypeOK', TopologyValid, HistoryInv, [Next]_vars
               PROVE  HistoryInv'
    OBVIOUS
  <1>a. authority.version <= authority.version /\ authority.version <= target.version
    BY HistoryTypes DEF TopologyValid, AuthorityBehind
  <1>1. CASE UNCHANGED vars
    BY <1>1, <1>a, HistoryKept DEF vars
  <1>2. CASE DeviceNext
    <2>1. PICK d \in Devices : DeviceStep(d)
      BY <1>2, DeviceNextSteps
    <2>2. DeviceWritten(d)
      BY <2>1, DeviceStepWrites
    <2>3. counter' # counter => device[d].status = "absent"
      BY <2>1 DEF DeviceStep, DeviceAdmitted, DeviceReadmitted, RoleChanged,
                  OwnerRecovered, VersionReported
    <2>4. \A x \in Devices : counter'[x].epoch = counter[x].epoch
      BY <2>2, <2>3 DEF DeviceWritten, CounterRow, HistoryInv, TypeOK
    <2>5. \A x \in Devices : device'[x].status = "absent" => device[x].status = "absent"
      BY <2>2 DEF DeviceWritten, DeviceRow, TypeOK
    <2> QED
      BY <2>2, <2>4, <2>5, <1>a, HistoryKept DEF DeviceWritten
  <1>3. CASE VotersNext
    <2>1. /\ authorized' = authorized /\ generation' = generation /\ counter' = counter
          /\ authority' = authority \/ authority' = target
      BY <1>3 DEF VotersNext, DeviceRevoked, VoterSetChanged, VoterSetActivated
    <2>2. \A x \in Devices : device'[x].status = "absent" => device[x].status = "absent"
      <3>1. ASSUME NEW o, NEW d \in Devices, NEW V, NEW v, NEW w, DeviceRevoked(o, d, V, v, w)
            PROVE  \A x \in Devices : device'[x].status # "absent" \/ device'[x] = device[x]
        BY <3>1 DEF DeviceRevoked, DeviceRow, TypeOK
      <3>2. ASSUME device' = device
            PROVE  \A x \in Devices : device'[x].status # "absent" \/ device'[x] = device[x]
        BY <3>2
      <3> QED
        BY <1>3, <3>1, <3>2 DEF VotersNext, VoterSetChanged, VoterSetActivated
    <2> QED
      BY <2>1, <2>2, <1>a, HistoryKept
  <1>4. ASSUME NEW o, NEW d \in Devices, NEW e, NEW k, NEW E, NEW v,
               CredentialAuthorized(o, d, e, k, E, v)
        PROVE  HistoryInv'
    BY <1>4, HistoryAuthorized
  <1>5. ASSUME NEW o, NEW d \in Devices, NEW e, AuditRecorded(o, d, e)
        PROVE  HistoryInv'
    <2>1. \A x \in Devices : counter'[x].epoch = counter[x].epoch
      BY <1>5 DEF AuditRecorded, CounterRow, TypeOK
    <2> QED
      BY <1>5, <2>1, <1>a, HistoryKept DEF AuditRecorded
  <1>6. ASSUME NEW o, NEW values, NEW v, PolicyChanged(o, values, v)
        PROVE  HistoryInv'
    BY <1>6, <1>a, HistoryKept DEF PolicyChanged
  <1>7. ASSUME NEW r, RecoveryBoundary(r)
        PROVE  HistoryInv'
    BY <1>7, HistoryRecovered
  <1> QED
    BY <1>1, <1>2, <1>3, <1>4, <1>5, <1>6, <1>7 DEF Next, CredentialNext, PolicyNext

\* loadCredentialSnapshot accepts the history of every committed state: in no
\* order of admissions, renewals, revocations, hand-overs and recoveries does a
\* device skip or repeat an epoch, a key return, or an authorization name an
\* authority of the generation that is still to come.
THEOREM CredentialHistorySafe == Spec => []CredentialHistoryValid
  <1>1. Init => HistoryInv
    BY HistoryInit
  <1>2. TypeOK /\ TypeOK' /\ TopologyValid /\ HistoryInv /\ [Next]_vars => HistoryInv'
    BY HistoryStep
  <1>3. TypeOK /\ HistoryInv => CredentialHistoryValid
    BY HistoryInvSuffices
  <1> QED
    BY <1>1, <1>2, <1>3, Invariance, PTL DEF Spec

-----------------------------------------------------------------------------
(***************************************************************************)
(* What RenewalSound rests on.                                             *)
(***************************************************************************)
CutStages == {"collect", "reserved", "accepted", "rejected"}
Replies == {"none", "granted", "unavailable", "revoked", "behind", "superseded", "halted", "mismatch"}
LogRow == [epoch : Nat, entity : Nat, version : Nat, revoked : SUBSET Everyone]
Grant == [epoch : Nat, key : Nat, issued : Int, notBefore : Int]
AttemptRecord ==
    [stage : CutStages \cup {"sent", "over"}, reply : Replies, epoch : Nat, key : Nat,
     term : Nat, at : Nat, issued : Int, notBefore : Int, version : Nat,
     endorsers : SUBSET Nodes, outcome : Nat]
PassRecord ==
    [phase : {"down", "idle", "erase", "candidate", "asking", "fatal", "closed"}, seen : Nat,
     doomed : SUBSET Epochs, then : {"idle", "candidate", "closed"}, key : Nat,
     peers : SUBSET Nodes, soft : BOOLEAN, why : Replies \cup {"integrity"}, attempt : Nat]

RenewalTypes ==
    /\ log \in Seq(LogRow) /\ Len(log) >= 1
    /\ sets \in Seq(AuthoritySets) /\ granted \in Seq(Grant)
    /\ time \in Nat
    /\ applied \in [Everyone -> Nat] /\ \A d \in Everyone : applied[d] \in 1 .. Len(log)
    /\ leader \in [id : Nodes, term : Nat] /\ halted \in SUBSET Nodes
    /\ attempts \in Seq(AttemptRecord)
    /\ self \in Subjects
    /\ epochKeys \in [Epochs -> Nat] /\ minted \in Nat
    /\ certs \in SUBSET Grant /\ provisional \in Grant
    /\ pass \in PassRecord /\ closing \in Int
    /\ lost \in Nat /\ stops \in Nat

\* The committed rows only move forward, a revoked device gets no later epoch,
\* and the last row counts the authorizations and the authorities.
RowsForward ==
    /\ \A j, k \in 1 .. Len(log) : j <= k =>
          /\ log[j].epoch <= log[k].epoch /\ log[j].entity <= log[k].entity
          /\ log[j].version <= log[k].version /\ log[j].revoked \subseteq log[k].revoked
          /\ self \in log[j].revoked => log[k].epoch = log[j].epoch
    /\ \A k \in 1 .. Len(log) : log[k].version >= 1
    /\ Committed.epoch = Len(granted) /\ Committed.version = Len(sets)

\* Every authorization answers an attempt, and successive ones are spaced.
GrantsAnswer ==
    \A e \in 1 .. Len(granted) :
        /\ granted[e].epoch = e
        /\ \E i \in 1 .. Len(attempts) : attempts[i].epoch = e /\ attempts[i].key = granted[e].key
GrantsSpaced ==
    \A e, f \in 1 .. Len(granted) :
        e < f => granted[e].notBefore + ValidityTime - OverlapTime <= granted[f].notBefore

\* A cut still describes the state it was taken from, and its time is endorsed.
CutHolds(a) ==
    /\ a.at \in 1 .. Len(log) /\ a.epoch = log[a.at].epoch + 1 /\ a.version = log[a.at].version
    /\ ~TooEarly(a.epoch, a.issued) /\ a.notBefore = NotBefore(a.epoch, a.issued)
    /\ a.term <= leader.term
    /\ a.term = leader.term /\ leader.id \notin Fast => a.issued <= time
    /\ a.endorsers \subseteq sets[a.version]
    /\ \A d \in a.endorsers \ Fast : a.issued <= time + Skew

\* Why an authorization was rejected at the position of its outcome.
RejectedFor(a, row) ==
    \/ self \in row.revoked
    \/ row.epoch + 1 # a.epoch
    \/ row.entity # log[a.at].entity
    \/ row.version # a.version
    \/ \E d \in a.endorsers : d \in row.revoked

AttemptHolds(a) ==
    /\ a.epoch \in Epochs /\ a.key \in 1 .. minted
    /\ a.epoch <= View(self).epoch + 1
    /\ a.stage = "sent" => a.endorsers = {}
    /\ a.reply = "granted" \/ a.stage = "accepted" => a.epoch <= Len(granted)
    /\ a.reply = "halted" => halted # {}
    /\ a.reply = "mismatch" => lost > 0
    /\ a.stage \in CutStages => CutHolds(a)
    /\ a.stage \in CutStages \ {"collect"} =>
           Cardinality(a.endorsers) >= QuorumSize(sets[a.version])
    /\ a.stage = "rejected" =>
           a.outcome \in 1 .. Len(log) /\ a.at <= a.outcome /\ RejectedFor(a, log[a.outcome])
AttemptsHold == \A i \in 1 .. Len(attempts) : AttemptHolds(attempts[i])

\* The keys: one epoch each, and as long as none is lost, one key each epoch.
KeysOfEpochs ==
    /\ \A i, j \in 1 .. Len(attempts) :
          /\ attempts[i].key = attempts[j].key => attempts[i].epoch = attempts[j].epoch
          /\ lost = 0 /\ attempts[i].epoch = attempts[j].epoch => attempts[i].key = attempts[j].key
    /\ \A e \in Epochs : epochKeys[e] # NoKey =>
          /\ epochKeys[e] <= minted /\ e <= View(self).epoch + 1
          /\ \A f \in Epochs : epochKeys[f] = epochKeys[e] => f = e
          /\ \A i \in 1 .. Len(attempts) :
                /\ attempts[i].key = epochKeys[e] => attempts[i].epoch = e
                /\ attempts[i].epoch <= e + 1
    /\ lost = 0 => \A i \in 1 .. Len(attempts) :
          \/ epochKeys[attempts[i].epoch] = attempts[i].key
          \/ /\ epochKeys[attempts[i].epoch] = NoKey
             /\ attempts[i].epoch <= View(self).epoch \/ self \in View(self).revoked

\* The pass: what it saw, what it will erase and which key it asks for.
PassHolds ==
    /\ pass.seen \in 1 .. applied[self]
    /\ pass.phase # "asking" => pass.attempt = 0
    /\ pass.then = "closed" => closing # 0
    /\ closing >= -1
    /\ closing > 0 => closing <= applied[self] /\ self \in log[closing].revoked
    /\ pass.phase \in {"candidate", "asking"} => pass.then = "candidate"
    /\ pass.phase \in {"idle", "down", "fatal"} => pass.then = "idle"
    /\ pass.phase = "closed" => pass.then = "closed"
    /\ pass.phase = "erase" => \A e \in pass.doomed :
          e <= View(self).epoch \/ self \in View(self).revoked
AsksHold ==
    /\ pass.then = "candidate" =>
          /\ self \notin log[pass.seen].revoked /\ Asked \in Epochs
          /\ \A e \in pass.doomed : e < Asked
          /\ \A i \in 1 .. Len(attempts) :
                /\ attempts[i].epoch <= Asked
                /\ lost = 0 /\ attempts[i].epoch = Asked => epochKeys[Asked] = attempts[i].key
          /\ \A e \in Epochs : epochKeys[e] # NoKey =>
                e + 1 >= Asked \/ (pass.phase = "erase" /\ e \in pass.doomed)
    /\ pass.phase = "asking" =>
          /\ pass.key \in 1 .. minted
          /\ lost = 0 => epochKeys[Asked] = pass.key
          /\ \A e \in Epochs : epochKeys[e] = pass.key => e = Asked
          /\ \A i \in 1 .. Len(attempts) : attempts[i].key = pass.key => attempts[i].epoch = Asked
          /\ pass.attempt # 0 => /\ pass.attempt \in 1 .. Len(attempts)
                                 /\ attempts[pass.attempt].epoch = Asked

\* Keys are erased to the last one.
ErasesAll ==
    \A e \in Epochs : epochKeys[e] # NoKey =>
        /\ pass.phase = "erase" /\ pass.then = "idle" /\ self \in log[pass.seen].revoked => e \in pass.doomed
        /\ pass.phase = "erase" /\ pass.then = "closed" /\ closing > 0 => e \in pass.doomed

\* What the service presents is granted, what is provisional not far ahead.
PresentedHold ==
    /\ \A g \in certs : g.epoch \in 1 .. Len(granted) /\ g = granted[g.epoch]
    /\ provisional # NoGrant =>
          /\ provisional.epoch \in 1 .. Len(granted) /\ provisional = granted[provisional.epoch]
          /\ provisional.epoch <= View(self).epoch + 1

RenewalInv ==
    /\ RenewalTypes /\ RowsForward /\ GrantsAnswer /\ GrantsSpaced /\ NotFarFuture
    /\ AttemptsHold /\ KeysOfEpochs /\ PassHolds /\ AsksHold /\ ErasesAll
    /\ PresentedHold /\ AlarmsExplained /\ HaltsExplained /\ KeysErased

\* Nothing committed, applied, asked or lost is taken back by a step.
RenewalGrows ==
    /\ Len(log) <= Len(log') /\ \A k \in 1 .. Len(log) : log'[k] = log[k]
    /\ Len(sets) <= Len(sets') /\ \A k \in 1 .. Len(sets) : sets'[k] = sets[k]
    /\ Len(granted) <= Len(granted') /\ \A k \in 1 .. Len(granted) : granted'[k] = granted[k]
    /\ time <= time' /\ self' = self /\ halted \subseteq halted' /\ lost <= lost' /\ minted <= minted'
    /\ \A d \in Everyone : applied[d] <= applied'[d]
    /\ leader' = leader \/ leader.term < leader'.term
    /\ Len(attempts) <= Len(attempts')
    /\ \A i \in 1 .. Len(attempts) :
          attempts'[i].epoch = attempts[i].epoch /\ attempts'[i].key = attempts[i].key

LEMMA StateNumbers ==
    ASSUME RenewalTypes
    PROVE  /\ Len(log) \in Nat /\ Len(log) >= 1 /\ Len(sets) \in Nat /\ Len(granted) \in Nat
           /\ Len(attempts) \in Nat /\ time \in Nat /\ minted \in Nat /\ lost \in Nat /\ leader.term \in Nat
BY DEF RenewalTypes

LEMMA NextNumbers ==
    ASSUME RenewalTypes'
    PROVE  /\ Len(log') \in Nat /\ Len(log') >= 1 /\ Len(sets') \in Nat /\ Len(granted') \in Nat
           /\ Len(attempts') \in Nat /\ time' \in Nat /\ minted' \in Nat /\ lost' \in Nat /\ leader'.term \in Nat
BY DEF RenewalTypes

LEMMA RowFacts ==
    ASSUME RenewalInv
    PROVE  /\ self \in Everyone
           /\ \A k \in 1 .. Len(log) :
                 /\ log[k] \in LogRow /\ log[k].epoch <= Len(granted)
                 /\ log[k].version \in 1 .. Len(sets) /\ sets[log[k].version] \in AuthoritySets
           /\ \A d \in Everyone : applied[d] \in 1 .. Len(log) /\ View(d) \in LogRow
           /\ Committed \in LogRow
           /\ View(self).epoch \in 0 .. Len(granted)
           /\ \A e \in 1 .. Len(granted) : granted[e] \in Grant /\ e \in Epochs
           /\ \A i \in 1 .. Len(attempts) : attempts[i] \in AttemptRecord
<1>1. self \in Everyone BY DEF RenewalInv, RenewalTypes, Everyone
<1>2. ASSUME NEW k \in 1 .. Len(log)
      PROVE  /\ log[k] \in LogRow /\ log[k].epoch <= Len(granted)
             /\ log[k].version \in 1 .. Len(sets) /\ sets[log[k].version] \in AuthoritySets
  <2>1. log \in Seq(LogRow) /\ sets \in Seq(AuthoritySets) /\ Len(log) \in Nat BY DEF RenewalInv, RenewalTypes
  <2>2. log[k] \in LogRow BY <2>1
  <2>3. /\ log[k].epoch <= log[Len(log)].epoch /\ log[k].version <= log[Len(log)].version
        /\ log[k].version >= 1 /\ log[Len(log)].epoch = Len(granted) /\ log[Len(log)].version = Len(sets)
    BY <2>1 DEF RenewalInv, RowsForward, Committed
  <2>4. log[k].version \in Nat BY <2>2 DEF LogRow
  <2>5. log[k].version \in 1 .. Len(sets) BY <2>1, <2>3, <2>4
  <2> QED BY <2>1, <2>2, <2>3, <2>5
<1>3. ASSUME NEW d \in Everyone PROVE applied[d] \in 1 .. Len(log) /\ View(d) \in LogRow
  BY <1>2 DEF RenewalInv, RenewalTypes, View
<1>4. Committed \in LogRow BY <1>2 DEF RenewalInv, RenewalTypes, Committed
<1>5. View(self).epoch \in 0 .. Len(granted)
  <2>1. View(self) \in LogRow /\ applied[self] \in 1 .. Len(log) BY <1>1, <1>3
  <2>2. View(self).epoch <= Len(granted) BY <2>1, <1>2 DEF View
  <2> QED BY <2>1, <2>2 DEF LogRow, RenewalInv, RenewalTypes
<1>6. ASSUME NEW i \in 1 .. Len(attempts) PROVE attempts[i] \in AttemptRecord
  BY DEF RenewalInv, RenewalTypes
<1>7. ASSUME NEW e \in 1 .. Len(granted) PROVE granted[e] \in Grant /\ e \in Epochs
  <2>1. PICK i \in 1 .. Len(attempts) : attempts[i].epoch = e BY DEF RenewalInv, GrantsAnswer
  <2>2. attempts[i].epoch \in Epochs BY DEF RenewalInv, AttemptsHold, AttemptHolds
  <2> QED BY <2>1, <2>2 DEF RenewalInv, RenewalTypes
<1> QED BY <1>1, <1>2, <1>3, <1>4, <1>5, <1>6, <1>7

\* The service's steps keep the types and write only what is the service's.
SessionKept == UNCHANGED <<log, sets, granted, time, applied, leader, halted, self, lost, stops>>

LEMMA PassIsTyped ==
    ASSUME NEW phase \in {"down", "idle", "erase", "candidate", "asking", "fatal", "closed"},
           NEW seen \in Nat, NEW doomed \in SUBSET Epochs, NEW then \in {"idle", "candidate", "closed"}
    PROVE  Pass(phase, seen, doomed, then) \in PassRecord
BY DEF Pass, PassRecord, NoKey, Replies

LEMMA EpochSetsTyped ==
    ASSUME NEW epoch \in Nat, NEW now \in Int
    PROVE  /\ InactiveEpochs(epoch) \subseteq Epochs /\ Obsolete(epoch, now) \subseteq Epochs
BY DEF InactiveEpochs, Obsolete

LEMMA SetFatalTyped ==
    ASSUME RenewalTypes, NEW why \in Replies \cup {"integrity"}, SetFatal(why)
    PROVE  certs' \in SUBSET Grant /\ provisional' \in Grant /\ pass' \in PassRecord
<1>1. NoGrant \in Grant BY DEF NoGrant, Grant, NoKey
<1>2. Pass("fatal", pass.seen, {}, "idle") \in PassRecord
  BY PassIsTyped DEF RenewalTypes, PassRecord
<1> QED BY <1>1, <1>2 DEF SetFatal, PassRecord

LEMMA ClockTyped ==
    ASSUME RenewalTypes, NEW d PROVE Clock(d) \in Int
<1>1. time \in Nat /\ Offset \in Int BY RenewalAssumption DEF RenewalTypes
<1>2. (IF d \in Fast THEN Offset ELSE 0) \in Int BY <1>1
<1> QED BY <1>1, <1>2 DEF Clock

LEMMA RefreshTypes ==
    ASSUME RenewalInv, NEW then \in {"idle", "candidate"}, Refresh(then), SessionKept
    PROVE  RenewalTypes' /\ RenewalGrows
<1>0. RenewalTypes BY DEF RenewalInv
<1>1. /\ self \in Everyone /\ View(self) \in LogRow /\ applied[self] \in Nat
      /\ View(self).epoch \in Nat /\ View(self).epoch <= Len(granted)
  <2>1. self \in Everyone /\ View(self) \in LogRow /\ applied[self] \in 1 .. Len(log) /\ View(self).epoch \in 0 .. Len(granted) BY RowFacts
  <2>2. Len(log) \in Nat /\ Len(granted) \in Nat BY <1>0 DEF RenewalTypes
  <2> QED BY <2>1, <2>2
<1>2. NoGrant \in Grant BY DEF NoGrant, Grant, NoKey
<1>3. Clock(self) \in Int BY <1>0, ClockTyped
<1>4. ASSUME NEW doomed \in SUBSET Epochs, NEW t \in {"idle", "candidate"}
      PROVE  PassFrom(doomed, t) \in PassRecord
  BY <1>1, PassIsTyped DEF PassFrom
<1>5. certs' \in SUBSET Grant /\ provisional' \in Grant /\ pass' \in PassRecord
  <2>1. CASE RefreshInactive
    BY <2>1, <1>1, <1>2, <1>3, <1>4, EpochSetsTyped DEF RefreshInactive
  <2>2. CASE RefreshFirst(then)
    BY <2>2, <1>0, <1>2, <1>4 DEF RefreshFirst, RenewalTypes
  <2>3. CASE RefreshCertificates(then)
    <3>1. Desired(View(self).epoch, Clock(self)) \subseteq 1 .. Len(granted)
      <4>1. View(self).epoch > 0 BY <2>3 DEF RefreshCertificates
      <4> QED BY <4>1, <1>1 DEF Desired, Epochs
    <3>2. certs' \in SUBSET Grant
      BY <2>3, <3>1, RowFacts DEF RefreshCertificates
    <3>3. provisional' \in Grant BY <2>3, <1>0, <1>2 DEF RefreshCertificates, StillProvisional, RenewalTypes
    <3>4. Obsolete(View(self).epoch, Clock(self)) \in SUBSET Epochs BY <1>1, <1>3, EpochSetsTyped
    <3>5. pass' \in PassRecord BY <2>3, <3>4, <1>4 DEF RefreshCertificates
    <3> QED BY <3>2, <3>3, <3>5
  <2>4. CASE RefreshFails
    BY <2>4, <1>0, SetFatalTyped DEF RefreshFails
  <2> QED BY <2>1, <2>2, <2>3, <2>4 DEF Refresh
<1>6. RenewalTypes' BY <1>0, <1>5 DEF RenewalTypes, Refresh, SessionKept, sessionVars
<1>7. RenewalGrows BY <1>0 DEF RenewalTypes, RenewalGrows, Refresh, SessionKept
<1> QED BY <1>6, <1>7


LEMMA AnswerTypes ==
    ASSUME RenewalInv, NEW reply \in Replies \cup {"next"}, NEW peers \in SUBSET Nodes,
           reply # "next", HandleAnswer(reply, peers),
           reply = "granted" => Asked \in 1 .. Len(granted)
    PROVE  certs' \in SUBSET Grant /\ provisional' \in Grant /\ pass' \in PassRecord
<1>0. RenewalTypes BY DEF RenewalInv
<1>1. pass \in PassRecord BY <1>0 DEF RenewalTypes
<1>2. Pass("idle", pass.seen, {}, "idle") \in PassRecord
  BY <1>1, PassIsTyped DEF PassRecord
<1>3. CASE reply = "granted"
  BY <1>0, <1>2, <1>3, RowFacts DEF HandleAnswer, InstallProvisional, FinishPass, RenewalTypes
<1>4. CASE reply # "granted"
  <2> DEFINE soft == pass.soft \/ reply = "unavailable"
             why == IF reply = "unavailable" THEN pass.why ELSE reply
  <2>1. why \in Replies \cup {"integrity"} /\ soft \in BOOLEAN BY <1>1 DEF PassRecord
  <2>2. CASE pass' = [pass EXCEPT !.peers = peers, !.soft = soft, !.why = why, !.attempt = 0]
             /\ UNCHANGED <<certs, provisional>>
    <3> HIDE DEF soft, why
    <3>1. pass' \in PassRecord BY <1>1, <2>1, <2>2 DEF PassRecord
    <3> QED BY <3>1, <2>2, <1>0 DEF RenewalTypes
  <2>3. CASE FinishPass /\ UNCHANGED <<certs, provisional>>
    BY <2>3, <1>0, <1>2 DEF FinishPass, RenewalTypes
  <2>4. CASE SetFatal(why)
    <3> HIDE DEF why
    <3> QED BY <2>1, <2>4, <1>0, SetFatalTyped
  <2> QED BY <1>4, <2>2, <2>3, <2>4 DEF HandleAnswer
<1> QED BY <1>3, <1>4

\* What a verdict is, and what it says of the epoch it is about.
LEMMA VerdictGrants ==
    ASSUME RenewalInv, NEW at \in 1 .. Len(log), NEW epoch \in Nat \ {0}, NEW key
    PROVE  /\ BindingVerdict(at, epoch, key) \in
                  {"revoked", "next", "behind", "superseded", "granted", "mismatch"}
           /\ BindingVerdict(at, epoch, key) \in {"granted", "mismatch"} => epoch \in 1 .. Len(granted)
           /\ BindingVerdict(at, epoch, key) = "mismatch" => granted[epoch].key # key
           /\ BindingVerdict(at, epoch, key) = "next" =>
                  epoch = log[at].epoch + 1 /\ self \notin log[at].revoked
<1>1. log[at].epoch \in Nat /\ log[at].epoch <= Len(granted) BY RowFacts DEF LogRow
<1>2. Len(granted) \in Nat BY DEF RenewalInv, RenewalTypes
<1>3. CASE self \in log[at].revoked BY <1>3 DEF BindingVerdict
<1>4. CASE self \notin log[at].revoked /\ epoch = log[at].epoch + 1 BY <1>1, <1>4 DEF BindingVerdict
<1>5. CASE self \notin log[at].revoked /\ epoch > log[at].epoch + 1 BY <1>1, <1>5 DEF BindingVerdict
<1>6. CASE self \notin log[at].revoked /\ epoch < log[at].epoch BY <1>1, <1>6 DEF BindingVerdict
<1>7. CASE self \notin log[at].revoked /\ epoch = log[at].epoch BY <1>1, <1>2, <1>7 DEF BindingVerdict
<1> QED BY <1>1, <1>3, <1>4, <1>5, <1>6, <1>7

LEMMA AskedTyped ==
    ASSUME RenewalInv
    PROVE  /\ pass.seen \in 1 .. Len(log) /\ Asked \in Nat \ {0} /\ Asked = log[pass.seen].epoch + 1
           /\ log[pass.seen].epoch <= View(self).epoch
<1>1. self \in Everyone /\ applied[self] \in 1 .. Len(log) BY RowFacts
<1>2. pass.seen \in 1 .. applied[self] BY DEF RenewalInv, PassHolds
<1>3. pass.seen \in 1 .. Len(log) BY <1>1, <1>2 DEF RenewalInv, RenewalTypes
<1>4. log[pass.seen].epoch \in Nat BY <1>3, RowFacts DEF LogRow
<1>5. log[pass.seen].epoch <= View(self).epoch
  BY <1>1, <1>2, <1>3 DEF RenewalInv, RowsForward, View
<1> QED BY <1>3, <1>4, <1>5 DEF Asked

LEMMA AttemptTyped ==
    ASSUME NEW stage \in CutStages \cup {"sent", "over"}, NEW reply \in Replies,
           NEW epoch \in Nat, NEW key \in Nat
    PROVE  Attempt(stage, reply, epoch, key) \in AttemptRecord
BY DEF Attempt, AttemptRecord

\* The steps of the service that do not refresh.
LEMMA ServiceTypes ==
    ASSUME RenewalInv, SessionKept,
           \/ \E e \in Epochs : Erase(e)
           \/ Erased \/ LoadOrCreateCandidate \/ \E p \in Nodes : Ask(p)
           \/ TakeReply \/ BeginClose \/ WorkerExits
    PROVE  RenewalTypes' /\ RenewalGrows
<1>0. RenewalTypes BY DEF RenewalInv
<1>1. pass \in PassRecord /\ self \in Everyone /\ applied[self] \in 1 .. Len(log) BY <1>0, RowFacts DEF RenewalTypes
<1>2. Asked \in Nat \ {0} BY AskedTyped
<1>3. /\ epochKeys' \in [Epochs -> Nat] /\ minted' \in Nat /\ certs' \in SUBSET Grant
      /\ provisional' \in Grant /\ pass' \in PassRecord /\ closing' \in Int /\ minted <= minted'
      /\ attempts' \in Seq(AttemptRecord) /\ Len(attempts) <= Len(attempts')
      /\ \A i \in 1 .. Len(attempts) : attempts'[i] = attempts[i]
  <2>1. ASSUME NEW e \in Epochs, Erase(e) PROVE <1>3!:
    <3>1. pass' \in PassRecord BY <1>1, <2>1 DEF Erase, PassRecord
    <3> QED BY <3>1, <1>0, <2>1 DEF Erase, RenewalTypes, NoKey
  <2>2. CASE Erased
    <3>1. pass' \in PassRecord BY <1>1, <2>2 DEF Erased, PassRecord
    <3> QED BY <3>1, <1>0, <2>2 DEF Erased, RenewalTypes
  <2>3. CASE LoadOrCreateCandidate
    <3>1. Asked \in Epochs BY <2>3 DEF LoadOrCreateCandidate, RenewalInv, PassHolds, AsksHold
    <3>2. epochKeys' \in [Epochs -> Nat] /\ minted' \in Nat /\ minted <= minted'
      <4>1. CASE UNCHANGED <<epochKeys, minted>> BY <4>1, <1>0 DEF RenewalTypes
      <4>2. CASE minted' = minted + 1 /\ epochKeys' = [epochKeys EXCEPT ![Asked] = minted + 1]
        BY <4>2, <1>0, <3>1 DEF RenewalTypes
      <4> QED BY <2>3, <4>1, <4>2 DEF LoadOrCreateCandidate
    <3>3. epochKeys'[Asked] \in Nat BY <3>1, <3>2
    <3>4. (IF self \in Nodes THEN {self} ELSE Nodes \ View(self).revoked) \in SUBSET Nodes OBVIOUS
    <3>5. pass' \in PassRecord
      <4>1. \A q \in SUBSET Nodes, k \in Nat : [pass EXCEPT !.phase = "asking", !.key = k, !.peers = q] \in PassRecord
        BY <1>1 DEF PassRecord
      <4> QED BY <4>1, <2>3, <3>3, <3>4 DEF LoadOrCreateCandidate
    <3> QED BY <3>2, <3>5, <2>3, <1>0 DEF LoadOrCreateCandidate, RenewalTypes
  <2>4. ASSUME NEW p \in Nodes, Ask(p) PROVE <1>3!:
    <3> DEFINE verdict == BindingVerdict(applied[p], Asked, pass.key)
    <3>0. UNCHANGED <<epochKeys, minted, closing>> BY <2>4 DEF Ask
    <3>1. applied[p] \in 1 .. Len(log) BY RowFacts DEF Everyone
    <3>2. /\ verdict \in (Replies \cup {"next"}) \ {"none", "unavailable", "halted"}
          /\ verdict = "granted" => Asked \in 1 .. Len(granted)
      BY <3>1, <1>2, VerdictGrants DEF Replies
    <3>3. pass.peers \ {p} \in SUBSET Nodes BY <1>1 DEF PassRecord
    <3>4. CASE /\ attempts' = Append(attempts, Attempt("sent", "none", Asked, pass.key))
               /\ pass' = [pass EXCEPT !.peers = @ \ {p}, !.attempt = Len(attempts) + 1]
               /\ UNCHANGED <<certs, provisional>>
      <4>1. Attempt("sent", "none", Asked, pass.key) \in AttemptRecord
        BY <1>1, <1>2, AttemptTyped DEF PassRecord, Replies
      <4>2. pass' \in PassRecord
        <5>1. Len(attempts) + 1 \in Nat BY <1>0 DEF RenewalTypes
        <5>2. \A n \in Nat : [pass EXCEPT !.peers = @ \ {p}, !.attempt = n] \in PassRecord BY <1>1 DEF PassRecord
        <5> QED BY <5>1, <5>2, <3>4
      <4> QED BY <4>1, <4>2, <3>4, <3>0, <1>0 DEF RenewalTypes
    <3>5. CASE verdict # "next" /\ HandleAnswer(verdict, pass.peers \ {p}) /\ UNCHANGED attempts
      <4>1. certs' \in SUBSET Grant /\ provisional' \in Grant /\ pass' \in PassRecord
        <5> HIDE DEF verdict
        <5> QED BY <3>2, <3>3, <3>5, AnswerTypes
      <4> QED BY <4>1, <3>5, <3>0, <1>0 DEF RenewalTypes
    <3>6. CASE HandleAnswer("unavailable", pass.peers \ {p}) /\ UNCHANGED attempts
      <4>1. certs' \in SUBSET Grant /\ provisional' \in Grant /\ pass' \in PassRecord
        BY <3>3, <3>6, AnswerTypes DEF Replies
      <4> QED BY <4>1, <3>6, <3>0, <1>0 DEF RenewalTypes
    <3> QED BY <2>4, <3>4, <3>5, <3>6 DEF Ask
  <2>5. CASE TakeReply
    <3>1. pass.attempt \in 1 .. Len(attempts) /\ attempts[pass.attempt].epoch = Asked
      BY <2>5 DEF TakeReply, RenewalInv, AsksHold
    <3>2. attempts[pass.attempt].reply \in Replies BY <3>1, RowFacts DEF AttemptRecord
    <3>3. attempts[pass.attempt].reply = "granted" => Asked <= Len(granted)
      BY <3>1 DEF RenewalInv, AttemptsHold, AttemptHolds
    <3>4. pass.peers \in SUBSET Nodes BY <1>1 DEF PassRecord
    <3>5. Len(granted) \in Nat BY <1>0 DEF RenewalTypes
    <3>6. certs' \in SUBSET Grant /\ provisional' \in Grant /\ pass' \in PassRecord
      <4>1. HandleAnswer(attempts[pass.attempt].reply, pass.peers) BY <2>5 DEF TakeReply
      <4>2. attempts[pass.attempt].reply = "granted" => Asked \in 1 .. Len(granted) BY <1>2, <3>3, <3>5
      <4>3. attempts[pass.attempt].reply # "next" BY <3>2 DEF Replies
      <4> QED BY <3>2, <3>4, <4>1, <4>2, <4>3, AnswerTypes
    <3> QED BY <3>6, <1>0, <2>5 DEF TakeReply, RenewalTypes
  <2>6. CASE BeginClose
    BY <2>6, <1>0, <1>1 DEF BeginClose, RenewalTypes
  <2>7. CASE WorkerExits
    <3>1. closing > 0 => log[closing].epoch \in Nat
      <4>1. closing > 0 => closing \in 1 .. Len(log)
        BY <1>0, <1>1 DEF RenewalInv, PassHolds, RenewalTypes
      <4> QED BY <4>1, RowFacts DEF LogRow
    <3>2. (IF closing = -1 THEN {} ELSE InactiveEpochs(log[closing].epoch)) \in SUBSET Epochs
      BY DEF InactiveEpochs
    <3>3. pass' \in PassRecord BY <3>2, <1>1, <2>7, PassIsTyped, SMTT(30) DEF WorkerExits, PassRecord
    <3> QED BY <3>3, <1>0, <2>7 DEF WorkerExits, RenewalTypes, NoGrant, Grant, NoKey
  <2> QED BY <2>1, <2>2, <2>3, <2>4, <2>5, <2>6, <2>7
<1>4. RenewalTypes' BY <1>0, <1>3 DEF RenewalTypes, SessionKept
<1>5. RenewalGrows BY <1>0, <1>3 DEF RenewalTypes, RenewalGrows, SessionKept
<1> QED BY <1>4, <1>5


\* A step of the leader writes one attempt and keeps what it asked for.
LEMMA AttemptWritten ==
    ASSUME RenewalInv, NEW i \in 1 .. Len(attempts), NEW b \in AttemptRecord, Set(i, b),
           b.epoch = attempts[i].epoch, b.key = attempts[i].key
    PROVE  /\ attempts' \in Seq(AttemptRecord) /\ Len(attempts') = Len(attempts)
           /\ attempts'[i] = b
           /\ \A j \in 1 .. Len(attempts) :
                 /\ j # i => attempts'[j] = attempts[j]
                 /\ attempts'[j].epoch = attempts[j].epoch /\ attempts'[j].key = attempts[j].key
<1>1. attempts \in Seq(AttemptRecord) BY DEF RenewalInv, RenewalTypes
<1>2. attempts' = [attempts EXCEPT ![i] = b] BY DEF Set
<1> QED BY <1>1, <1>2

LEMMA ReplyWritten ==
    ASSUME RenewalInv, NEW i \in 1 .. Len(attempts), NEW r \in Replies, Reply(i, r)
    PROVE  \E b \in AttemptRecord :
              /\ Set(i, b) /\ b.epoch = attempts[i].epoch /\ b.key = attempts[i].key
              /\ b.reply = r /\ b.stage = "over"
<1>1. attempts[i].epoch \in Nat /\ attempts[i].key \in Nat BY RowFacts DEF AttemptRecord
<1> DEFINE b == Attempt("over", r, attempts[i].epoch, attempts[i].key)
<1>2. b \in AttemptRecord BY <1>1, AttemptTyped
<1>3. b.epoch = attempts[i].epoch /\ b.key = attempts[i].key /\ b.reply = r /\ b.stage = "over" BY DEF Attempt
<1>4. Set(i, b) BY DEF Reply
<1> QED BY <1>2, <1>3, <1>4

CreditsKept == UNCHANGED <<epochKeys, minted, certs, provisional, pass, closing>>
ClusterKept == UNCHANGED <<time, applied, leader, self, lost, stops>>

\* What a step of the leader that commits nothing has in common with every other.
LEMMA LeaderTypes ==
    ASSUME RenewalInv, NEW i \in 1 .. Len(attempts), NEW b \in AttemptRecord, Set(i, b),
           b.epoch = attempts[i].epoch, b.key = attempts[i].key, CreditsKept, ClusterKept,
           UNCHANGED sessionVars, halted' \in SUBSET Nodes, halted \subseteq halted'
    PROVE  RenewalTypes' /\ RenewalGrows
<1>0. RenewalTypes BY DEF RenewalInv
<1>1. /\ attempts' \in Seq(AttemptRecord) /\ Len(attempts') = Len(attempts)
      /\ \A j \in 1 .. Len(attempts) :
            attempts'[j].epoch = attempts[j].epoch /\ attempts'[j].key = attempts[j].key
  BY AttemptWritten
<1>2. RenewalTypes' BY <1>0, <1>1 DEF RenewalTypes, CreditsKept, ClusterKept, sessionVars
<1>3. RenewalGrows BY <1>0, <1>1 DEF RenewalTypes, RenewalGrows, CreditsKept, ClusterKept, sessionVars
<1> QED BY <1>2, <1>3

LEMMA QuorumTimes ==
    ASSUME RenewalInv, NEW i \in 1 .. Len(attempts), attempts[i].stage \in CutStages \ {"collect"}
    PROVE  attempts[i].issued <= time + Skew
<1> DEFINE a == attempts[i]
<1>1. CutHolds(a) /\ Cardinality(a.endorsers) >= QuorumSize(sets[a.version])
  BY DEF RenewalInv, AttemptsHold, AttemptHolds
<1>2. sets[a.version] \in AuthoritySets BY <1>1, RowFacts DEF CutHolds
<1>3. a.endorsers \in SUBSET sets[a.version] BY <1>1 DEF CutHolds
<1>4. a.endorsers \ Fast # {} BY <1>1, <1>2, <1>3, RenewalAssumption
<1> QED BY <1>1, <1>4 DEF CutHolds

\* The rows after an entry: the last row moves forward in one of its fields.
LEMMA RowsAppended ==
    ASSUME RenewalInv, NEW row \in LogRow, log' = Append(log, row),
           self' = self, Committed.entity <= row.entity, Committed.version <= row.version,
           Committed.revoked \subseteq row.revoked, Committed.epoch <= row.epoch,
           self \in Committed.revoked => row.epoch = Committed.epoch,
           row.epoch = Len(granted'), row.version = Len(sets')
    PROVE  /\ log' \in Seq(LogRow) /\ Len(log') = Len(log) + 1 /\ log'[Len(log) + 1] = row
           /\ \A k \in 1 .. Len(log) : log'[k] = log[k]
           /\ RowsForward'
<1>0. log \in Seq(LogRow) /\ Len(log) \in Nat /\ Len(log) >= 1 BY DEF RenewalInv, RenewalTypes
<1>1. /\ log' \in Seq(LogRow) /\ Len(log') = Len(log) + 1 /\ log'[Len(log) + 1] = row
      /\ \A k \in 1 .. Len(log) : log'[k] = log[k]
  BY <1>0
<1>2. RowsForward BY DEF RenewalInv
<1>3. \A k \in 1 .. Len(log) : log[k] \in LogRow BY <1>0
<1>4. ASSUME NEW j \in 1 .. Len(log'), NEW k \in 1 .. Len(log'), j <= k
      PROVE  /\ log'[j].epoch <= log'[k].epoch /\ log'[j].entity <= log'[k].entity
             /\ log'[j].version <= log'[k].version /\ log'[j].revoked \subseteq log'[k].revoked
             /\ self' \in log'[j].revoked => log'[k].epoch = log'[j].epoch
  <2>1. CASE k <= Len(log)
    <3>1. j \in 1 .. Len(log) /\ k \in 1 .. Len(log) BY <2>1, <1>0, <1>1, <1>4
    <3> QED BY <3>1, <1>1, <1>2, <1>4 DEF RowsForward
  <2>2. CASE k = Len(log) + 1 /\ j <= Len(log)
    <3>1. j \in 1 .. Len(log) /\ Len(log) \in 1 .. Len(log) BY <2>2, <1>0, <1>1
    <3>2. /\ log[j].epoch <= Committed.epoch /\ log[j].entity <= Committed.entity
          /\ log[j].version <= Committed.version /\ log[j].revoked \subseteq Committed.revoked
          /\ self \in log[j].revoked => Committed.epoch = log[j].epoch
      BY <3>1, <1>2, <1>0, SMTT(30) DEF RowsForward, Committed
    <3>3. log'[j] = log[j] /\ log'[k] = row BY <3>1, <2>2, <1>1
    <3>4. log[j] \in LogRow /\ Committed \in LogRow BY <3>1, <1>3 DEF Committed
    <3>5. log[j].epoch \in Nat /\ Committed.epoch \in Nat /\ row.epoch \in Nat /\ log[j].entity \in Nat
          /\ Committed.entity \in Nat /\ row.entity \in Nat /\ log[j].version \in Nat
          /\ Committed.version \in Nat /\ row.version \in Nat
      BY <3>4 DEF LogRow
    <3>6. log[j].epoch <= row.epoch /\ log[j].entity <= row.entity /\ log[j].version <= row.version
      <4>1. Committed.epoch <= row.epoch /\ Committed.entity <= row.entity /\ Committed.version <= row.version OBVIOUS
      <4>2. log[j].epoch <= row.epoch BY <3>2, <3>5, <4>1, SMTT(30)
      <4>3. log[j].entity <= row.entity BY <3>2, <3>5, <4>1, SMTT(30)
      <4>4. log[j].version <= row.version BY <3>2, <3>5, <4>1
      <4> QED BY <4>2, <4>3, <4>4
    <3>7. log[j].revoked \subseteq row.revoked BY <3>2
    <3>8. self \in log[j].revoked => row.epoch = log[j].epoch
      <4>1. self \in log[j].revoked => self \in Committed.revoked BY <3>2
      <4> QED BY <4>1, <3>2
    <3> QED BY <3>3, <3>6, <3>7, <3>8
  <2>3. CASE k = Len(log) + 1 /\ j = k BY <2>3, <1>1 DEF LogRow
  <2> QED BY <2>1, <2>2, <2>3, <1>0, <1>1, <1>4
<1>5. ASSUME NEW k \in 1 .. Len(log') PROVE log'[k].version >= 1
  <2>1. CASE k \in 1 .. Len(log) BY <2>1, <1>1, <1>2 DEF RowsForward
  <2>2. CASE k = Len(log) + 1
    <3>1. Committed.version >= 1 BY <1>0, <1>2 DEF RowsForward, Committed
    <3>2. Committed \in LogRow BY <1>0, <1>3 DEF Committed
    <3> QED BY <3>1, <3>2, <2>2, <1>1 DEF LogRow
  <2> QED BY <2>1, <2>2, <1>0, <1>1
<1>6. Committed' = row BY <1>1 DEF Committed
<1>7. RowsForward' BY <1>4, <1>5, <1>6 DEF RowsForward
<1> QED BY <1>1, <1>7


\* What a step leaves standing: the rows, and what the device has applied.
StepFrame == RenewalInv /\ RenewalTypes' /\ RenewalGrows /\ RowsForward'

LEMMA ViewForward ==
    ASSUME StepFrame
    PROVE  /\ \A k \in 1 .. Len(log) : k \in 1 .. Len(log') /\ log'[k] = log[k]
           /\ \A v \in 1 .. Len(sets) : v \in 1 .. Len(sets') /\ sets'[v] = sets[v]
           /\ \A e \in 1 .. Len(granted) : e \in 1 .. Len(granted') /\ granted'[e] = granted[e]
           /\ applied[self] \in 1 .. Len(log) /\ applied'[self] \in 1 .. Len(log') /\ applied[self] <= applied'[self]
           /\ View(self).epoch \in Nat /\ View(self)'.epoch \in Nat
           /\ View(self).epoch <= View(self)'.epoch
           /\ View(self).revoked \subseteq View(self)'.revoked
           /\ self' = self
<1>0. RenewalInv /\ RenewalTypes /\ RenewalTypes' /\ RenewalGrows /\ RowsForward' /\ self' = self
  BY DEF StepFrame, RenewalInv, RenewalGrows
<1>1. /\ Len(log) \in Nat /\ Len(log') \in Nat /\ Len(sets) \in Nat /\ Len(sets') \in Nat
      /\ Len(granted) \in Nat /\ Len(granted') \in Nat
      /\ Len(log) <= Len(log') /\ Len(sets) <= Len(sets') /\ Len(granted) <= Len(granted')
  BY <1>0, StateNumbers, NextNumbers DEF RenewalGrows
<1>2. /\ \A k \in 1 .. Len(log) : k \in 1 .. Len(log') /\ log'[k] = log[k]
      /\ \A v \in 1 .. Len(sets) : v \in 1 .. Len(sets') /\ sets'[v] = sets[v]
      /\ \A e \in 1 .. Len(granted) : e \in 1 .. Len(granted') /\ granted'[e] = granted[e]
  BY <1>0, <1>1 DEF RenewalGrows
<1>3. self \in Everyone BY <1>0, RowFacts
<1>4. applied[self] \in 1 .. Len(log) /\ applied'[self] \in 1 .. Len(log') /\ applied[self] <= applied'[self]
  BY <1>0, <1>3 DEF RenewalTypes, RenewalGrows
<1>5. log[applied[self]] \in LogRow /\ log'[applied'[self]] \in LogRow
  <2>1. log \in Seq(LogRow) /\ log' \in Seq(LogRow) BY <1>0 DEF RenewalTypes
  <2> QED BY <2>1, <1>4
<1>6. applied[self] \in 1 .. Len(log') /\ log'[applied[self]] = log[applied[self]] BY <1>2, <1>4
<1>7. /\ log'[applied[self]].epoch <= log'[applied'[self]].epoch
      /\ log'[applied[self]].revoked \subseteq log'[applied'[self]].revoked
  BY <1>0, <1>4, <1>6 DEF RowsForward
<1>8. View(self) = log[applied[self]] /\ View(self)' = log'[applied'[self]] BY <1>0 DEF View
<1> QED BY <1>0, <1>2, <1>4, <1>5, <1>6, <1>7, <1>8 DEF LogRow

\* An attempt that a step does not write keeps what it says.
LEMMA CutStable ==
    ASSUME StepFrame, NEW a \in AttemptRecord, CutHolds(a),
           NEW j \in 1 .. Len(attempts'), attempts'[j] = a
    PROVE  CutHolds(attempts[j])'
<1>0. RenewalInv /\ RenewalTypes /\ RenewalTypes' /\ RenewalGrows BY DEF StepFrame, RenewalInv
<1>2. a.at \in 1 .. Len(log) /\ a.epoch = log[a.at].epoch + 1 /\ a.version = log[a.at].version BY DEF CutHolds
<1>3. a.at \in 1 .. Len(log') /\ log'[a.at] = log[a.at] BY <1>2, ViewForward
<1>4. log[a.at].epoch \in Nat /\ log[a.at].epoch <= Len(granted) /\ a.version \in 1 .. Len(sets) /\ Len(granted) \in Nat
  BY <1>0, <1>2, RowFacts, StateNumbers DEF LogRow
<1>5. sets'[a.version] = sets[a.version] BY <1>4, ViewForward
<1>6. a.epoch > 1 => granted'[a.epoch - 1] = granted[a.epoch - 1]
  <2>1. a.epoch > 1 => a.epoch - 1 \in 1 .. Len(granted) BY <1>2, <1>4, SMTT(30)
  <2> QED BY <2>1, ViewForward
<1>7. ~TooEarly(a.epoch, a.issued) /\ a.notBefore = NotBefore(a.epoch, a.issued) BY DEF CutHolds
<1>8. a.epoch \in Nat /\ a.epoch >= 1 BY <1>2, <1>4
<1>9. /\ ~(a.epoch > 1 /\ a.issued < granted'[a.epoch - 1].notBefore + ValidityTime - LeadTime)
  BY <1>6, <1>7 DEF TooEarly, RenewalFloor
<1>10. a.notBefore = IF a.epoch = 1 \/ granted'[a.epoch - 1].notBefore + ValidityTime - OverlapTime < a.issued THEN a.issued
                     ELSE granted'[a.epoch - 1].notBefore + ValidityTime - OverlapTime
  BY <1>6, <1>7, <1>8 DEF NotBefore, OverlapFloor
<1>11. /\ leader' = leader \/ leader.term < leader'.term
       /\ time <= time' /\ time \in Nat /\ time' \in Nat /\ leader.term \in Nat /\ leader'.term \in Nat
       /\ a.term \in Nat /\ a.issued \in Int /\ Skew \in Nat
  BY <1>0, RenewalAssumption DEF RenewalTypes, RenewalGrows, AttemptRecord
<1>12. a.term <= leader'.term /\ (a.term = leader'.term /\ leader'.id \notin Fast => a.issued <= time')
  BY <1>11 DEF CutHolds
<1>13. a.endorsers \subseteq sets'[a.version] /\ \A d \in a.endorsers \ Fast : a.issued <= time' + Skew
  BY <1>5, <1>11, SMTT(30) DEF CutHolds
<1> QED BY <1>2, <1>3, <1>9, <1>10, <1>12, <1>13 DEF CutHolds, TooEarly, NotBefore, RenewalFloor, OverlapFloor

LEMMA AttemptStable ==
    ASSUME StepFrame, NEW a \in AttemptRecord, AttemptHolds(a),
           NEW j \in 1 .. Len(attempts'), attempts'[j] = a
    PROVE  AttemptHolds(attempts[j])'
<1>0. RenewalInv /\ RenewalTypes /\ RenewalTypes' /\ RenewalGrows BY DEF StepFrame, RenewalInv
<1>1. a \in AttemptRecord /\ AttemptHolds(a) OBVIOUS
<1>2. a.stage \in CutStages => CutHolds(attempts[j])' BY <1>1, CutStable DEF AttemptHolds
<1>3. a.epoch \in Epochs /\ a.key \in 1 .. minted'
  <2>1. minted \in Nat /\ minted' \in Nat /\ minted <= minted' BY <1>0, StateNumbers, NextNumbers DEF RenewalGrows
  <2>2. a.epoch \in Epochs /\ a.key \in 1 .. minted BY <1>1 DEF AttemptHolds
  <2> QED BY <2>1, <2>2
<1>4. a.epoch <= View(self)'.epoch + 1 BY <1>1, ViewForward, SMTT(30) DEF AttemptHolds, AttemptRecord
<1>5. /\ a.reply = "granted" \/ a.stage = "accepted" => a.epoch <= Len(granted')
      /\ a.reply = "halted" => halted' # {}
      /\ a.reply = "mismatch" => lost' > 0
  <2>1. Len(granted) <= Len(granted') /\ Len(granted) \in Nat /\ Len(granted') \in Nat /\ halted \subseteq halted'
        /\ lost <= lost' /\ lost \in Nat /\ lost' \in Nat
    BY <1>0, StateNumbers, NextNumbers DEF RenewalGrows
  <2> QED BY <1>1, <2>1, SMTT(30) DEF AttemptHolds, AttemptRecord
<1>6. a.stage \in CutStages \ {"collect"} => Cardinality(a.endorsers) >= QuorumSize(sets'[a.version])
  <2>1. a.stage \in CutStages => a.version \in 1 .. Len(sets)
    <3>1. a.stage \in CutStages => a.at \in 1 .. Len(log) /\ a.version = log[a.at].version BY <1>1 DEF AttemptHolds, CutHolds
    <3> QED BY <3>1, <1>0, RowFacts
  <2>2. a.stage \in CutStages => sets'[a.version] = sets[a.version] BY <2>1, ViewForward
  <2> QED BY <1>1, <2>2 DEF AttemptHolds
<1>7. a.stage = "rejected" =>
          /\ a.outcome \in 1 .. Len(log') /\ a.at <= a.outcome
          /\ \/ self' \in log'[a.outcome].revoked
             \/ log'[a.outcome].epoch + 1 # a.epoch
             \/ log'[a.outcome].entity # log'[a.at].entity
             \/ log'[a.outcome].version # a.version
             \/ \E d \in a.endorsers : d \in log'[a.outcome].revoked
  <2> SUFFICES ASSUME a.stage = "rejected"
               PROVE  /\ a.outcome \in 1 .. Len(log') /\ a.at <= a.outcome
                      /\ \/ self' \in log'[a.outcome].revoked
                         \/ log'[a.outcome].epoch + 1 # a.epoch
                         \/ log'[a.outcome].entity # log'[a.at].entity
                         \/ log'[a.outcome].version # a.version
                         \/ \E d \in a.endorsers : d \in log'[a.outcome].revoked
    OBVIOUS
  <2>1. a.outcome \in 1 .. Len(log) /\ a.at <= a.outcome /\ RejectedFor(a, log[a.outcome]) /\ a.at \in 1 .. Len(log)
    BY <1>1 DEF AttemptHolds, CutStages, CutHolds
  <2>2. log'[a.outcome] = log[a.outcome] /\ log'[a.at] = log[a.at] /\ a.outcome \in 1 .. Len(log') /\ self' = self
    BY <2>1, ViewForward
  <2> QED BY <2>1, <2>2 DEF RejectedFor
<1>8. a.stage = "sent" => a.endorsers = {} BY <1>1 DEF AttemptHolds
<1>9. a.stage = "rejected" => RejectedFor(attempts[j], log[attempts[j].outcome])' BY <1>7 DEF RejectedFor
<1>10. /\ (attempts[j].epoch \in Epochs /\ attempts[j].key \in 1 .. minted)'
       /\ (attempts[j].epoch <= View(self).epoch + 1)'
  BY <1>3, <1>4 DEF Epochs
<1>11. (attempts[j].stage \in CutStages \ {"collect"} =>
           Cardinality(attempts[j].endorsers) >= QuorumSize(sets[attempts[j].version]))'
  BY <1>6 DEF QuorumSize, CutStages
<1>12. (attempts[j].stage \in CutStages => CutHolds(attempts[j]))' BY <1>2 DEF CutStages
<1>13. (attempts[j].stage = "rejected" =>
           attempts[j].outcome \in 1 .. Len(log) /\ attempts[j].at <= attempts[j].outcome
           /\ RejectedFor(attempts[j], log[attempts[j].outcome]))'
  BY <1>7, <1>9
<1> QED BY <1>5, <1>8, <1>10, <1>11, <1>12, <1>13 DEF AttemptHolds


\* Steps that authorize nothing.
LEMMA GrantsStable ==
    ASSUME StepFrame, granted' = granted
    PROVE  GrantsAnswer' /\ GrantsSpaced' /\ NotFarFuture'
<1>0. RenewalInv /\ RenewalTypes /\ RenewalTypes' /\ RenewalGrows BY DEF StepFrame, RenewalInv
<1>1. GrantsAnswer'
  <2>1. ASSUME NEW e \in 1 .. Len(granted)
        PROVE  /\ granted[e].epoch = e
               /\ \E i \in 1 .. Len(attempts') : attempts'[i].epoch = e /\ attempts'[i].key = granted[e].key
    <3>1. granted[e].epoch = e BY <1>0 DEF RenewalInv, GrantsAnswer
    <3>2. PICK i \in 1 .. Len(attempts) : attempts[i].epoch = e /\ attempts[i].key = granted[e].key
      BY <1>0 DEF RenewalInv, GrantsAnswer
    <3>3. i \in 1 .. Len(attempts') /\ attempts'[i].epoch = attempts[i].epoch /\ attempts'[i].key = attempts[i].key
      <4>1. Len(attempts) \in Nat /\ Len(attempts') \in Nat BY <1>0, StateNumbers, NextNumbers
      <4>2. Len(attempts) <= Len(attempts') BY <1>0 DEF RenewalGrows
      <4>3. i \in 1 .. Len(attempts') BY <4>1, <4>2
      <4> QED BY <4>3, <1>0 DEF RenewalGrows
    <3> QED BY <3>1, <3>2, <3>3
  <2> QED BY <2>1 DEF GrantsAnswer
<1>2. GrantsSpaced' BY <1>0 DEF RenewalInv, GrantsSpaced
<1>3. NotFarFuture'
  <2>1. \A e \in 1 .. Len(granted) : granted[e].issued \in Int
    BY <1>0, RowFacts DEF Grant
  <2>2. DOMAIN granted = 1 .. Len(granted) /\ time \in Nat /\ time' \in Nat /\ time <= time' /\ Skew \in Nat
    BY <1>0, RenewalAssumption, SMTT(30) DEF RenewalTypes, RenewalGrows
  <2>3. \A e \in 1 .. Len(granted) : granted[e].issued <= time + Skew
    BY <1>0, <2>2 DEF RenewalInv, NotFarFuture
  <2> QED BY <2>1, <2>2, <2>3 DEF NotFarFuture
<1> QED BY <1>1, <1>2, <1>3

LEMMA HaltsStable ==
    ASSUME StepFrame, halted' = halted
    PROVE  HaltsExplained'
<1>0. RenewalTypes /\ RenewalTypes' /\ HaltsExplained BY DEF StepFrame, RenewalInv
<1>1. DOMAIN sets = 1 .. Len(sets) /\ DOMAIN sets' = 1 .. Len(sets') BY <1>0 DEF RenewalTypes
<1> QED BY <1>0, <1>1, ViewForward DEF HaltsExplained

\* Steps that leave the service alone.
LEMMA ServiceStable ==
    ASSUME StepFrame, CreditsKept, lost' = lost, Len(attempts') = Len(attempts)
    PROVE  /\ KeysOfEpochs' /\ PassHolds' /\ AsksHold' /\ ErasesAll'
           /\ PresentedHold' /\ AlarmsExplained' /\ KeysErased'
<1>0. RenewalInv /\ RenewalTypes /\ RenewalTypes' /\ RenewalGrows /\ self' = self BY DEF StepFrame, RenewalInv, RenewalGrows
<1>1. \A i \in 1 .. Len(attempts) : attempts'[i].epoch = attempts[i].epoch /\ attempts'[i].key = attempts[i].key
  BY <1>0 DEF RenewalGrows
<1>2. /\ View(self).epoch \in Nat /\ View(self)'.epoch \in Nat /\ View(self).epoch <= View(self)'.epoch
      /\ View(self).revoked \subseteq View(self)'.revoked
  BY ViewForward
<1>3. pass.seen \in 1 .. Len(log) /\ Asked \in Nat BY <1>0, AskedTyped
<1>4. log'[pass.seen] = log[pass.seen] /\ Asked' = Asked
  BY <1>3, ViewForward DEF Asked, CreditsKept
<1>5. KeysOfEpochs'
  <2>1. \A e \in Epochs : e <= View(self).epoch + 1 => e <= View(self)'.epoch + 1 BY <1>2 DEF Epochs
  <2>2. \A i \in 1 .. Len(attempts) : attempts[i].epoch <= View(self).epoch => attempts[i].epoch <= View(self)'.epoch
    BY <1>0, <1>2, RowFacts DEF AttemptRecord
  <2>3. self \in View(self).revoked => self \in View(self)'.revoked BY <1>2
  <2>4. KeysOfEpochs BY <1>0 DEF RenewalInv
  <2> QED BY <1>0, <1>1, <2>1, <2>2, <2>3, <2>4 DEF KeysOfEpochs, CreditsKept
<1>6. PassHolds'
  <2>1. applied[self] \in 1 .. Len(log) /\ applied'[self] \in 1 .. Len(log') /\ applied[self] <= applied'[self] /\ closing \in Int
    BY <1>0, ViewForward DEF RenewalTypes
  <2>2. pass'.seen \in 1 .. applied'[self'] BY <1>0, <2>1 DEF RenewalInv, PassHolds, CreditsKept
  <2>3. closing > 0 => closing <= applied'[self] /\ self \in log'[closing].revoked
    <3>1. closing > 0 => closing \in 1 .. Len(log) /\ closing <= applied[self] /\ self \in log[closing].revoked
      <4>1. closing > 0 => closing <= applied[self] /\ self \in log[closing].revoked BY <1>0 DEF RenewalInv, PassHolds
      <4>2. Len(log) \in Nat BY <1>0, StateNumbers
      <4> QED BY <4>1, <4>2, <2>1
    <3> QED BY <3>1, <2>1, ViewForward
  <2>4. pass.phase = "erase" => \A e \in pass.doomed : e <= View(self)'.epoch \/ self \in View(self)'.revoked
    <3>1. pass.doomed \subseteq Epochs BY <1>0 DEF RenewalTypes, PassRecord
    <3> QED BY <1>0, <1>2, <3>1 DEF RenewalInv, PassHolds, Epochs
  <2> QED BY <1>0, <2>2, <2>3, <2>4 DEF RenewalInv, PassHolds, CreditsKept
<1>7. AsksHold' BY <1>0, <1>1, <1>4 DEF RenewalInv, AsksHold, CreditsKept
<1>8. ErasesAll' BY <1>0, <1>4 DEF RenewalInv, ErasesAll, CreditsKept
<1>9. PresentedHold'
  <2>1. provisional.epoch \in Nat BY <1>0 DEF RenewalTypes, Grant
  <2>2. \A g \in certs : g.epoch \in 1 .. Len(granted') /\ g = granted'[g.epoch]
    BY <1>0, ViewForward DEF RenewalInv, PresentedHold
  <2>3. provisional # NoGrant =>
          /\ provisional.epoch \in 1 .. Len(granted') /\ provisional = granted'[provisional.epoch]
          /\ provisional.epoch <= View(self)'.epoch + 1
    <3>1. provisional # NoGrant =>
            /\ provisional.epoch \in 1 .. Len(granted) /\ provisional = granted[provisional.epoch]
            /\ provisional.epoch <= View(self).epoch + 1
      BY <1>0 DEF RenewalInv, PresentedHold
    <3> QED BY <3>1, <2>1, <1>2, ViewForward, SMTT(30)
  <2> QED BY <2>2, <2>3 DEF PresentedHold, CreditsKept
<1>10. AlarmsExplained'
  BY <1>0 DEF RenewalInv, AlarmsExplained, CreditsKept, RenewalGrows
<1>11. KeysErased' BY <1>0, <1>4 DEF RenewalInv, KeysErased, NoKeys, CreditsKept
<1> QED BY <1>5, <1>6, <1>7, <1>8, <1>9, <1>10, <1>11


LEMMA AttemptsStable ==
    ASSUME StepFrame, attempts' = attempts
    PROVE  AttemptsHold'
<1>0. RenewalInv BY DEF StepFrame
<1>1. ASSUME NEW i \in 1 .. Len(attempts) PROVE AttemptHolds(attempts[i])'
  <2>1. attempts[i] \in AttemptRecord /\ AttemptHolds(attempts[i]) BY <1>0, RowFacts DEF RenewalInv, AttemptsHold
  <2> QED BY <2>1, AttemptStable
<1> QED BY <1>1 DEF AttemptsHold

LEMMA QuietStep ==
    ASSUME StepFrame, CreditsKept, lost' = lost, attempts' = attempts, granted' = granted, halted' = halted
    PROVE  RenewalInv'
<1>1. AttemptsHold' BY AttemptsStable
<1>2. GrantsAnswer' /\ GrantsSpaced' /\ NotFarFuture' /\ HaltsExplained' BY GrantsStable, HaltsStable
<1>3. /\ KeysOfEpochs' /\ PassHolds' /\ AsksHold' /\ ErasesAll'
      /\ PresentedHold' /\ AlarmsExplained' /\ KeysErased'
  BY ServiceStable
<1> QED BY <1>1, <1>2, <1>3 DEF RenewalInv, StepFrame

\* An entry that the reducers of the session accept and that authorizes nothing.
LEMMA EntryFrame ==
    ASSUME RenewalInv, NEW row \in LogRow, Enters(row), self' = self,
           Committed.entity <= row.entity, Committed.version <= row.version,
           Committed.revoked \subseteq row.revoked, row.epoch = Committed.epoch,
           row.version = Len(sets'),
           sets' = sets \/ \E S \in AuthoritySets : sets' = Append(sets, S)
    PROVE  StepFrame
<1>0. RenewalTypes BY DEF RenewalInv
<1>1. Committed.epoch = Len(granted) /\ Committed.epoch \in Nat /\ row.epoch \in Nat
  BY RowFacts DEF RenewalInv, RowsForward, LogRow
<1>2. /\ log' \in Seq(LogRow) /\ Len(log') = Len(log) + 1
      /\ \A k \in 1 .. Len(log) : log'[k] = log[k]
      /\ RowsForward'
  <2>1. log' = Append(log, row) /\ granted' = granted BY DEF Enters
  <2>2. Committed.epoch <= row.epoch /\ row.epoch = Len(granted') BY <1>1, <2>1
  <2> QED BY <2>1, <2>2, RowsAppended
<1>3. /\ sets' \in Seq(AuthoritySets) /\ Len(sets) <= Len(sets')
      /\ \A k \in 1 .. Len(sets) : sets'[k] = sets[k]
  <2>1. sets \in Seq(AuthoritySets) /\ Len(sets) \in Nat BY <1>0, StateNumbers DEF RenewalTypes
  <2>2. CASE sets' = sets BY <2>1, <2>2
  <2>3. ASSUME NEW S \in AuthoritySets, sets' = Append(sets, S)
        PROVE  /\ sets' \in Seq(AuthoritySets) /\ Len(sets) <= Len(sets')
               /\ \A k \in 1 .. Len(sets) : sets'[k] = sets[k]
    BY <2>1, <2>3
  <2> QED BY <2>2, <2>3
<1>4. Len(log) \in Nat /\ Len(log) >= 1 BY <1>0 DEF RenewalTypes
<1>5. \A d \in Everyone : applied[d] \in 1 .. Len(log') BY <1>0, <1>2, <1>4 DEF RenewalTypes
<1>6. RenewalTypes' BY <1>0, <1>2, <1>3, <1>4, <1>5 DEF RenewalTypes, Enters, credentialVars
<1>7. RenewalGrows BY <1>0, <1>2, <1>3, <1>4 DEF RenewalTypes, RenewalGrows, Enters, credentialVars
<1> QED BY <1>2, <1>6, <1>7 DEF StepFrame

\* Steps that leave the log alone.
LEMMA RowsKept ==
    ASSUME RenewalInv, RenewalTypes', RenewalGrows, UNCHANGED <<log, sets, granted, self>>
    PROVE  StepFrame
BY DEF StepFrame, RenewalInv, RowsForward, Committed

LEMMA LoseKeyStep ==
    ASSUME RenewalInv, NEW x \in Epochs, LoseKey(x), self' = self
    PROVE  RenewalInv'
<1>0. RenewalTypes BY DEF RenewalInv
<1>1. epochKeys' = [epochKeys EXCEPT ![x] = NoKey] /\ lost' = lost + 1 /\ lost \in Nat /\ epochKeys \in [Epochs -> Nat]
  BY <1>0 DEF LoseKey, RenewalTypes
<1>2. StepFrame
  <2>1. RenewalTypes' BY <1>0, <1>1 DEF LoseKey, RenewalTypes, sessionVars, NoKey
  <2>2. RenewalGrows BY <1>0, <1>1 DEF LoseKey, RenewalTypes, RenewalGrows, sessionVars
  <2> QED BY <2>1, <2>2, RowsKept DEF LoseKey, sessionVars
<1>3. AttemptsHold' /\ GrantsAnswer' /\ GrantsSpaced' /\ NotFarFuture' /\ HaltsExplained'
  BY <1>2, AttemptsStable, GrantsStable, HaltsStable DEF LoseKey, sessionVars
<1>4. /\ UNCHANGED <<log, applied, granted, attempts, minted, certs, provisional, pass, closing, halted, self>>
      /\ View(self)' = View(self) /\ Asked' = Asked
  BY DEF LoseKey, sessionVars, View, Asked
<1>5. \A e \in Epochs : epochKeys'[e] # NoKey => epochKeys'[e] = epochKeys[e] /\ e # x
  BY <1>1
<1>6. lost' > 0 BY <1>1
<1>7. KeysOfEpochs'
  <2>1. KeysOfEpochs BY DEF RenewalInv
  <2>2. /\ \A i, j \in 1 .. Len(attempts) : attempts[i].key = attempts[j].key => attempts[i].epoch = attempts[j].epoch
        /\ \A e \in Epochs : epochKeys[e] # NoKey =>
             /\ epochKeys[e] <= minted /\ e <= View(self).epoch + 1
             /\ \A f \in Epochs : epochKeys[f] = epochKeys[e] => f = e
             /\ \A i \in 1 .. Len(attempts) :
                   /\ attempts[i].key = epochKeys[e] => attempts[i].epoch = e
                   /\ attempts[i].epoch <= e + 1
    BY <2>1 DEF KeysOfEpochs
  <2>3. \A e \in Epochs : epochKeys'[e] # NoKey =>
             /\ epochKeys'[e] <= minted /\ e <= View(self).epoch + 1
             /\ \A f \in Epochs : epochKeys'[f] = epochKeys'[e] => f = e
             /\ \A i \in 1 .. Len(attempts) :
                   /\ attempts[i].key = epochKeys'[e] => attempts[i].epoch = e
                   /\ attempts[i].epoch <= e + 1
    BY <2>2, <1>5
  <2> QED BY <1>1, <1>4, <1>6, <2>2, <2>3 DEF KeysOfEpochs
<1>8. PassHolds' BY <1>4 DEF RenewalInv, PassHolds
<1>9. AsksHold'
  <2>1. AsksHold BY DEF RenewalInv
  <2>2. pass.phase = "asking" => \A e \in Epochs : epochKeys'[e] = pass.key => e = Asked
    <3>1. pass.phase = "asking" => pass.key # NoKey BY <2>1, <1>0 DEF AsksHold, NoKey, RenewalTypes
    <3> QED BY <3>1, <2>1, <1>5 DEF AsksHold
  <2>3. pass.then = "candidate" => \A e \in Epochs : epochKeys'[e] # NoKey =>
              e + 1 >= Asked \/ (pass.phase = "erase" /\ e \in pass.doomed)
    BY <2>1, <1>5 DEF AsksHold
  <2>4. lost' # 0 BY <1>6
  <2> QED BY <2>1, <2>2, <2>3, <2>4, <1>4 DEF AsksHold
<1>10. ErasesAll' BY <1>4, <1>5 DEF RenewalInv, ErasesAll
<1>11. PresentedHold' BY <1>4 DEF RenewalInv, PresentedHold
<1>12. AlarmsExplained' BY <1>6 DEF AlarmsExplained
<1>13. KeysErased' BY <1>4, <1>5 DEF RenewalInv, KeysErased, NoKeys
<1> QED BY <1>2, <1>3, <1>7, <1>8, <1>9, <1>10, <1>11, <1>12, <1>13 DEF RenewalInv, StepFrame

LEMMA StopStep ==
    ASSUME RenewalInv, Stop, self' = self
    PROVE  RenewalInv'
<1>0. RenewalTypes BY DEF RenewalInv
<1>1. /\ pass' = Pass("down", 1, {}, "idle") /\ certs' = {} /\ provisional' = NoGrant /\ closing' = 0
      /\ UNCHANGED <<log, sets, granted, time, applied, leader, halted, attempts, epochKeys, minted, lost, self>>
      /\ stops' = stops + 1
  BY DEF Stop, sessionVars
<1>2. StepFrame
  <2>1. pass' \in PassRecord BY <1>1, PassIsTyped
  <2>2. RenewalTypes' BY <1>0, <1>1, <2>1 DEF RenewalTypes, NoGrant, Grant, NoKey
  <2>3. RenewalGrows BY <1>0, <1>1 DEF RenewalTypes, RenewalGrows
  <2> QED BY <1>1, <2>2, <2>3, RowsKept
<1>3. AttemptsHold' /\ GrantsAnswer' /\ GrantsSpaced' /\ NotFarFuture' /\ HaltsExplained'
  BY <1>1, <1>2, AttemptsStable, GrantsStable, HaltsStable
<1>4. View(self)' = View(self) BY <1>1 DEF View
<1>5. KeysOfEpochs' BY <1>1, <1>4 DEF RenewalInv, KeysOfEpochs
<1>6. /\ pass'.phase = "down" /\ pass'.then = "idle" /\ pass'.seen = 1 /\ pass'.doomed = {}
      /\ pass'.why = "none" /\ pass'.attempt = 0
  BY <1>1 DEF Pass
<1>7. PassHolds'
  <2>1. applied[self] \in 1 .. Len(log) /\ Len(log) \in Nat BY <1>0, RowFacts DEF RenewalTypes
  <2>2. 1 \in 1 .. applied[self] BY <2>1
  <2> QED BY <1>1, <1>6, <2>2 DEF PassHolds
<1>8. AsksHold' /\ ErasesAll' /\ KeysErased' /\ AlarmsExplained'
  BY <1>6 DEF AsksHold, ErasesAll, KeysErased, AlarmsExplained
<1>9. PresentedHold' BY <1>1 DEF PresentedHold
<1> QED BY <1>2, <1>3, <1>5, <1>7, <1>8, <1>9 DEF RenewalInv, StepFrame

LEMMA WorldStep ==
    ASSUME RenewalInv, WorldNext
    PROVE  RenewalInv'
<1>0. RenewalTypes /\ self' = self BY DEF RenewalInv, WorldNext
<1>a. Committed \in LogRow /\ self \in Everyone /\ Committed.version = Len(sets)
  BY RowFacts DEF RenewalInv, RowsForward
<1>1. CASE Tick
  <2>1. RenewalTypes' BY <1>0, <1>1 DEF Tick, RenewalTypes, sessionVars, credentialVars
  <2>2. RenewalGrows BY <1>0, <1>1 DEF Tick, RenewalTypes, RenewalGrows, sessionVars, credentialVars
  <2>3. StepFrame BY <1>0, <1>1, <2>1, <2>2, RowsKept DEF Tick, sessionVars
  <2> QED BY <1>1, <2>3, QuietStep DEF Tick, sessionVars, credentialVars, CreditsKept
<1>2. ASSUME NEW d \in Participants, Apply(d) PROVE RenewalInv'
  <2>0. d \in Everyone BY <1>a DEF Participants, Everyone
  <2>1. /\ applied' \in [Everyone -> Nat] /\ \A x \in Everyone : applied'[x] \in 1 .. Len(log) /\ applied[x] <= applied'[x]
    BY <1>0, <1>2, <2>0 DEF Apply, RenewalTypes
  <2>2. RenewalTypes' BY <1>0, <1>2, <2>1 DEF Apply, RenewalTypes, sessionVars, credentialVars
  <2>3. RenewalGrows BY <1>0, <1>2, <2>1 DEF Apply, RenewalTypes, RenewalGrows, sessionVars, credentialVars
  <2>4. StepFrame BY <1>0, <1>2, <2>2, <2>3, RowsKept DEF Apply, sessionVars
  <2> QED BY <1>2, <2>4, QuietStep DEF Apply, sessionVars, credentialVars, CreditsKept
<1>3. ASSUME NEW d \in Nodes, LeaderChange(d) PROVE RenewalInv'
  <2>1. RenewalTypes' BY <1>0, <1>3 DEF LeaderChange, RenewalTypes, sessionVars, credentialVars
  <2>2. RenewalGrows BY <1>0, <1>3 DEF LeaderChange, RenewalTypes, RenewalGrows, sessionVars, credentialVars
  <2>3. StepFrame BY <1>0, <1>3, <2>1, <2>2, RowsKept DEF LeaderChange, sessionVars
  <2> QED BY <1>3, <2>3, QuietStep DEF LeaderChange, sessionVars, credentialVars, CreditsKept
<1>4. CASE SubjectRoleChanged
  <2> DEFINE row == [Committed EXCEPT !.entity = @ + 1]
  <2>1. row \in LogRow /\ row.entity = Committed.entity + 1 /\ row.version = Committed.version
        /\ row.revoked = Committed.revoked /\ row.epoch = Committed.epoch
    BY <1>a DEF LogRow
  <2>2. Enters(row) /\ sets' = sets BY <1>4 DEF SubjectRoleChanged
  <2>3. Committed.entity \in Nat /\ Committed.version \in Nat BY <1>a DEF LogRow
  <2> HIDE DEF row
  <2>4. StepFrame BY <1>0, <1>a, <2>1, <2>2, <2>3, EntryFrame
  <2> QED BY <2>2, <2>4, QuietStep DEF Enters, credentialVars, CreditsKept
<1>5. ASSUME NEW d \in Participants, Revoked(d) PROVE RenewalInv'
  <2> DEFINE row == [Committed EXCEPT !.revoked = @ \cup {d}]
  <2>0. d \in Everyone BY <1>a DEF Participants, Everyone
  <2>1. row \in LogRow /\ row.entity = Committed.entity /\ row.version = Committed.version
        /\ row.revoked = Committed.revoked \cup {d} /\ row.epoch = Committed.epoch
    BY <1>a, <2>0 DEF LogRow
  <2>2. Enters(row) /\ sets' = sets BY <1>5 DEF Revoked
  <2>3. Committed.entity \in Nat /\ Committed.version \in Nat BY <1>a DEF LogRow
  <2> HIDE DEF row
  <2>4. StepFrame BY <1>0, <1>a, <2>1, <2>2, <2>3, EntryFrame
  <2> QED BY <2>2, <2>4, QuietStep DEF Enters, credentialVars, CreditsKept
<1>6. ASSUME NEW S \in AuthoritySets, Activated(S) PROVE RenewalInv'
  <2> DEFINE row == [Committed EXCEPT !.version = Len(sets) + 1]
  <2>0. Len(sets) \in Nat /\ sets \in Seq(AuthoritySets) BY <1>0 DEF RenewalTypes
  <2>1. row \in LogRow /\ row.entity = Committed.entity /\ row.version = Len(sets) + 1
        /\ row.revoked = Committed.revoked /\ row.epoch = Committed.epoch
    BY <1>a, <2>0 DEF LogRow
  <2>2. Enters(row) /\ sets' = Append(sets, S) BY <1>6 DEF Activated
  <2>3. Len(sets') = Len(sets) + 1 BY <2>0, <2>2
  <2>4. Committed.entity \in Nat BY <1>a DEF LogRow
  <2> HIDE DEF row
  <2>5. StepFrame BY <1>0, <1>a, <2>0, <2>1, <2>2, <2>3, <2>4, EntryFrame
  <2> QED BY <2>2, <2>5, QuietStep DEF Enters, credentialVars, CreditsKept
<1>7. ASSUME NEW e \in Epochs, LoseKey(e) PROVE RenewalInv' BY <1>0, <1>7, LoseKeyStep
<1>8. CASE Stop BY <1>0, <1>8, StopStep
<1> QED BY <1>1, <1>2, <1>3, <1>4, <1>5, <1>6, <1>7, <1>8 DEF WorldNext


\* A step of the leader that commits nothing: it writes one attempt.
LEMMA WrittenStep ==
    ASSUME RenewalInv, NEW i \in 1 .. Len(attempts), NEW b \in AttemptRecord, Set(i, b),
           b.epoch = attempts[i].epoch, b.key = attempts[i].key, CreditsKept, ClusterKept,
           UNCHANGED sessionVars, halted' \in SUBSET Nodes, halted \subseteq halted', HaltsExplained',
           AttemptHolds(b) \/ (halted' # {} /\ b.reply = "halted" /\ b.stage = "over")
    PROVE  RenewalInv'
<1>1. StepFrame BY LeaderTypes, RowsKept DEF sessionVars, ClusterKept
<1>2. /\ Len(attempts') = Len(attempts) /\ attempts'[i] = b
      /\ \A j \in 1 .. Len(attempts) : j # i => attempts'[j] = attempts[j]
  BY AttemptWritten
<1>3. AttemptsHold'
  <2>1. ASSUME NEW j \in 1 .. Len(attempts') PROVE AttemptHolds(attempts[j])'
    <3>1. CASE j # i
      <4>1. attempts[j] \in AttemptRecord /\ AttemptHolds(attempts[j]) BY <1>2, RowFacts DEF RenewalInv, AttemptsHold
      <4> QED BY <1>1, <1>2, <3>1, <4>1, AttemptStable
    <3>2. CASE j = i /\ AttemptHolds(b) BY <1>1, <1>2, <3>2, AttemptStable
    <3>3. CASE j = i /\ halted' # {} /\ b.reply = "halted" /\ b.stage = "over"
      <4>1. AttemptHolds(attempts[i]) BY DEF RenewalInv, AttemptsHold
      <4>2. /\ b.epoch \in Epochs /\ b.key \in 1 .. minted /\ b.epoch <= View(self).epoch + 1
        BY <4>1 DEF AttemptHolds
      <4>3. View(self)' = View(self) /\ minted' = minted BY DEF View, ClusterKept, sessionVars, CreditsKept
      <4> QED BY <1>2, <3>3, <4>2, <4>3 DEF AttemptHolds, CutStages, Epochs
    <3> QED BY <3>1, <3>2, <3>3
  <2> QED BY <2>1 DEF AttemptsHold
<1>4. GrantsAnswer' /\ GrantsSpaced' /\ NotFarFuture' BY <1>1, GrantsStable DEF sessionVars
<1>5. /\ KeysOfEpochs' /\ PassHolds' /\ AsksHold' /\ ErasesAll'
      /\ PresentedHold' /\ AlarmsExplained' /\ KeysErased'
  BY <1>1, <1>2, ServiceStable DEF ClusterKept
<1> QED BY <1>1, <1>3, <1>4, <1>5 DEF RenewalInv, StepFrame

LEMMA ReplyStep ==
    ASSUME RenewalInv, NEW i \in 1 .. Len(attempts), NEW r \in Replies, Reply(i, r), CreditsKept, ClusterKept,
           UNCHANGED sessionVars, halted' = halted,
           r = "granted" => attempts[i].epoch <= Len(granted), r # "halted",
           r = "mismatch" => lost > 0
    PROVE  RenewalInv'
<1>1. PICK b \in AttemptRecord :
              /\ Set(i, b) /\ b.epoch = attempts[i].epoch /\ b.key = attempts[i].key
              /\ b.reply = r /\ b.stage = "over"
  BY ReplyWritten
<1>2. AttemptHolds(attempts[i]) BY DEF RenewalInv, AttemptsHold
<1>3. AttemptHolds(b) BY <1>1, <1>2 DEF AttemptHolds, CutStages
<1>4. HaltsExplained' BY DEF RenewalInv, HaltsExplained, sessionVars
<1>5. halted' \in SUBSET Nodes /\ halted \subseteq halted' BY DEF RenewalInv, RenewalTypes
<1> QED BY <1>1, <1>3, <1>4, <1>5, WrittenStep

LEMMA SetStep ==
    ASSUME RenewalInv, NEW i \in 1 .. Len(attempts), NEW b \in AttemptRecord, Set(i, b),
           b.epoch = attempts[i].epoch, b.key = attempts[i].key, CreditsKept, ClusterKept,
           UNCHANGED sessionVars, halted' = halted, AttemptHolds(b)
    PROVE  RenewalInv'
<1>4. HaltsExplained' BY DEF RenewalInv, HaltsExplained, sessionVars
<1>5. halted' \in SUBSET Nodes /\ halted \subseteq halted' BY DEF RenewalInv, RenewalTypes
<1> QED BY <1>4, <1>5, WrittenStep

\* A key that is not the one authorized for its epoch was lost and made again.
LEMMA MismatchLost ==
    ASSUME RenewalInv, NEW i \in 1 .. Len(attempts), attempts[i].epoch \in 1 .. Len(granted),
           granted[attempts[i].epoch].key # attempts[i].key
    PROVE  lost > 0
<1>1. PICK j \in 1 .. Len(attempts) : attempts[j].epoch = attempts[i].epoch
                                      /\ attempts[j].key = granted[attempts[i].epoch].key
  BY DEF RenewalInv, GrantsAnswer
<1>2. lost # 0 BY <1>1 DEF RenewalInv, KeysOfEpochs
<1> QED BY <1>2 DEF RenewalInv, RenewalTypes

LEMMA CaptureStep ==
    ASSUME RenewalInv, NEW i \in 1 .. Len(attempts), CaptureCut(i), CreditsKept, ClusterKept,
           UNCHANGED sessionVars, halted' = halted
    PROVE  RenewalInv'
<1> DEFINE at == applied[leader.id]
           a == attempts[i]
           verdict == BindingVerdict(at, a.epoch, a.key)
           issued == Clock(leader.id)
<1>0. RenewalTypes /\ a \in AttemptRecord /\ AttemptHolds(a) BY RowFacts DEF RenewalInv, AttemptsHold
<1>1. leader.id \in Everyone /\ at \in 1 .. Len(log) BY <1>0, RowFacts DEF RenewalTypes, Everyone
<1>2. a.epoch \in Nat \ {0} BY <1>0 DEF AttemptHolds, Epochs, AttemptRecord
<1>3. /\ verdict \in {"revoked", "next", "behind", "superseded", "granted", "mismatch"}
      /\ verdict \in {"granted", "mismatch"} => a.epoch \in 1 .. Len(granted)
      /\ verdict = "mismatch" => granted[a.epoch].key # a.key
      /\ verdict = "next" => a.epoch = log[at].epoch + 1 /\ self \notin log[at].revoked
  BY <1>1, <1>2, VerdictGrants
<1>4. CASE verdict # "next" /\ Reply(i, verdict)
  <2>1. verdict = "mismatch" => lost > 0 BY <1>3, MismatchLost
  <2>2. verdict = "granted" => a.epoch <= Len(granted) BY <1>3, <1>2, <1>0 DEF RenewalTypes
  <2>3. verdict \in Replies /\ verdict # "halted" BY <1>3, <1>4 DEF Replies
  <2> HIDE DEF verdict
  <2> QED BY <1>4, <2>1, <2>2, <2>3, ReplyStep
<1>5. CASE Reply(i, "unavailable")
  BY <1>5, ReplyStep DEF Replies
<1>6. CASE /\ verdict = "next" /\ ~TooEarly(a.epoch, issued)
           /\ Set(i, [a EXCEPT !.stage = "collect", !.term = leader.term, !.at = at, !.issued = issued,
                               !.notBefore = NotBefore(a.epoch, issued), !.version = log[at].version])
  <2> DEFINE nb == NotBefore(a.epoch, issued)
             b == [a EXCEPT !.stage = "collect", !.term = leader.term, !.at = at, !.issued = issued,
                            !.notBefore = nb, !.version = log[at].version]
  <2>1. issued \in Int /\ leader.term \in Nat /\ at \in Nat BY <1>0, <1>1, ClockTyped DEF RenewalTypes
  <2>2. log[at].version \in Nat /\ log[at].epoch \in Nat /\ log[at].epoch <= Len(granted) /\ Len(granted) \in Nat
    BY <1>0, <1>1, RowFacts, StateNumbers DEF LogRow
  <2>3. nb \in Int
    <3>1. a.epoch = 1 \/ a.epoch - 1 \in 1 .. Len(granted) BY <1>2, <1>3, <1>6, <2>2, SMTT(30)
    <3>2. a.epoch # 1 => granted[a.epoch - 1].notBefore \in Int BY <3>1, RowFacts DEF Grant
    <3>3. ValidityTime \in Nat /\ OverlapTime \in Nat BY RenewalAssumption
    <3>4. a.epoch # 1 => OverlapFloor(granted[a.epoch - 1]) \in Int BY <3>2, <3>3 DEF OverlapFloor
    <3>5. nb = issued \/ (a.epoch # 1 /\ nb = OverlapFloor(granted[a.epoch - 1])) BY DEF NotBefore
    <3> QED BY <2>1, <3>4, <3>5
  <2>4. leader.id \notin Fast => issued = time BY <1>0 DEF Clock, RenewalTypes
  <2>5. log[at].epoch + 1 = a.epoch BY <1>3, <1>6
  <2>6. a.stage = "sent" /\ a.endorsers = {} BY <1>0 DEF CaptureCut, AttemptHolds
  <2> HIDE DEF nb, issued, at
  <2>7. /\ b \in AttemptRecord /\ b.epoch = a.epoch /\ b.key = a.key /\ b.reply = a.reply
        /\ b.stage = "collect" /\ b.term = leader.term /\ b.at = at /\ b.issued = issued
        /\ b.notBefore = nb /\ b.version = log[at].version /\ b.endorsers = a.endorsers
    BY <1>0, <2>1, <2>2, <2>3 DEF AttemptRecord, CutStages
  <2>8. CutHolds(b)
    <3> HIDE DEF b
    <3>1. ~TooEarly(b.epoch, b.issued) /\ b.notBefore = NotBefore(b.epoch, b.issued) BY <1>6, <2>7 DEF nb
    <3> QED BY <1>0, <1>1, <2>1, <2>4, <2>5, <2>6, <2>7, <3>1 DEF CutHolds, RenewalTypes
  <2>9. AttemptHolds(b)
    <3> HIDE DEF b
    <3> QED BY <1>0, <2>6, <2>7, <2>8 DEF AttemptHolds, CutStages
  <2>10. Set(i, b) BY <1>6 DEF nb
  <2> HIDE DEF b
  <2> QED BY <2>7, <2>9, <2>10, SetStep
<1> QED BY <1>4, <1>5, <1>6 DEF CaptureCut


LEMMA EndorseStep ==
    ASSUME RenewalInv, NEW i \in 1 .. Len(attempts), NEW d \in Nodes, Endorse(i, d), CreditsKept, ClusterKept,
           UNCHANGED sessionVars, halted' = halted
    PROVE  RenewalInv'
<1> DEFINE a == attempts[i]
           b == [a EXCEPT !.endorsers = @ \cup {d}]
<1>0. RenewalTypes /\ a \in AttemptRecord /\ AttemptHolds(a) BY RowFacts DEF RenewalInv, AttemptsHold
<1>1. /\ b \in AttemptRecord /\ b.epoch = a.epoch /\ b.key = a.key /\ b.reply = a.reply
      /\ b.stage = a.stage /\ b.term = a.term /\ b.at = a.at /\ b.issued = a.issued
      /\ b.notBefore = a.notBefore /\ b.version = a.version /\ b.endorsers = a.endorsers \cup {d}
      /\ b.outcome = a.outcome
  BY <1>0 DEF AttemptRecord
<1>2. Set(i, b) /\ a.stage = "collect" /\ d \in sets[a.version] BY DEF Endorse
<1>3. d \notin Fast => a.issued <= time + Skew
  <2>1. time \in Nat /\ a.issued \in Int /\ Skew \in Nat BY <1>0, RenewalAssumption DEF RenewalTypes, AttemptRecord
  <2>2. CASE d = leader.id
    <3>1. a.term = leader.term BY DEF Endorse, Leads
    <3>2. CutHolds(a) BY <1>0, <1>2 DEF AttemptHolds, CutStages
    <3>3. d \notin Fast => a.issued <= time BY <2>2, <3>1, <3>2 DEF CutHolds
    <3> QED BY <2>1, <3>3
  <2>3. CASE d # leader.id
    <3>1. Within(a.issued, d) BY <2>3 DEF Endorse, MayEndorse
    <3> QED BY <2>1, <3>1 DEF Within, Clock
  <2> QED BY <2>2, <2>3
<1>4. CutHolds(a) BY <1>0, <1>2 DEF AttemptHolds, CutStages
<1> HIDE DEF b
<1>5. CutHolds(b) BY <1>1, <1>2, <1>3, <1>4 DEF CutHolds
<1>6. AttemptHolds(b) BY <1>0, <1>1, <1>2, <1>5 DEF AttemptHolds, CutStages
<1> QED BY <1>1, <1>2, <1>6, SetStep

LEMMA SubmitStep ==
    ASSUME RenewalInv, NEW i \in 1 .. Len(attempts), SubmitAuthorization(i), CreditsKept, ClusterKept,
           UNCHANGED sessionVars, halted' = halted
    PROVE  RenewalInv'
<1> DEFINE a == attempts[i]
           b == [a EXCEPT !.stage = "reserved"]
<1>0. RenewalTypes /\ a \in AttemptRecord /\ AttemptHolds(a) BY RowFacts DEF RenewalInv, AttemptsHold
<1>1. /\ b \in AttemptRecord /\ b.epoch = a.epoch /\ b.key = a.key /\ b.reply = a.reply
      /\ b.stage = "reserved" /\ b.term = a.term /\ b.at = a.at /\ b.issued = a.issued
      /\ b.notBefore = a.notBefore /\ b.version = a.version /\ b.endorsers = a.endorsers
  BY <1>0 DEF AttemptRecord, CutStages
<1>2. Set(i, b) /\ a.stage = "collect" /\ Cardinality(a.endorsers) >= QuorumSize(sets[a.version])
  BY DEF SubmitAuthorization
<1>4. CutHolds(a) BY <1>0, <1>2 DEF AttemptHolds, CutStages
<1> HIDE DEF b
<1>5. CutHolds(b) BY <1>1, <1>4 DEF CutHolds
<1>6. AttemptHolds(b) BY <1>0, <1>1, <1>2, <1>5 DEF AttemptHolds, CutStages
<1> QED BY <1>1, <1>2, <1>6, SetStep

\* After the first time the committed epoch is never the answer to a request.
LEMMA CutVerdicts ==
    ASSUME RenewalInv, NEW i \in 1 .. Len(attempts)
    PROVE  /\ CutVerdict(i) \in {"superseded", "revoked", "behind", "next", "unavailable"}
           /\ CutVerdict(i) = "next" =>
                 /\ attempts[i].epoch = log[applied[leader.id]].epoch + 1
                 /\ self \notin log[applied[leader.id]].revoked
                 /\ AuthorityActive(applied[leader.id])
<1> DEFINE at == applied[leader.id]
           a == attempts[i]
           verdict == BindingVerdict(at, a.epoch, a.key)
<1>0. RenewalTypes /\ a \in AttemptRecord /\ AttemptHolds(a) BY RowFacts DEF RenewalInv, AttemptsHold
<1>1. leader.id \in Everyone /\ at \in 1 .. Len(log) BY <1>0, RowFacts DEF RenewalTypes, Everyone
<1>2. a.epoch \in Nat \ {0} BY <1>0 DEF AttemptHolds, Epochs, AttemptRecord
<1>3. /\ verdict \in {"revoked", "next", "behind", "superseded", "granted", "mismatch"}
      /\ verdict = "next" => a.epoch = log[at].epoch + 1 /\ self \notin log[at].revoked
  BY <1>1, <1>2, VerdictGrants
<1>4. CutVerdict(i) = CASE verdict \in {"granted", "mismatch"} -> "superseded"
                        [] verdict \notin {"granted", "mismatch", "next"} -> verdict
                        [] verdict = "next" -> IF AuthorityActive(at) THEN "next" ELSE "unavailable"
  BY DEF CutVerdict
<1> HIDE DEF verdict, at, a
<1>5. CASE verdict \in {"granted", "mismatch"} BY <1>4, <1>5
<1>6. CASE verdict \in {"revoked", "behind", "superseded"} BY <1>4, <1>6
<1>7. CASE verdict = "next" BY <1>3, <1>4, <1>7 DEF a, at
<1> QED BY <1>3, <1>5, <1>6, <1>7

LEMMA CutMovedStep ==
    ASSUME RenewalInv, NEW i \in 1 .. Len(attempts), CutMoved(i), CreditsKept, ClusterKept,
           UNCHANGED sessionVars, halted' = halted
    PROVE  RenewalInv'
<1> DEFINE r == IF CutVerdict(i) = "next" THEN "unavailable" ELSE CutVerdict(i)
<1>1. r \in {"superseded", "revoked", "behind", "unavailable"} BY CutVerdicts
<1>2. Reply(i, r) BY DEF CutMoved
<1> HIDE DEF r
<1>3. r \in Replies /\ r # "granted" /\ r # "halted" /\ r # "mismatch" BY <1>1 DEF Replies
<1> QED BY <1>2, <1>3, ReplyStep

LEMMA LoseAnswerStep ==
    ASSUME RenewalInv, NEW i \in 1 .. Len(attempts), LoseAnswer(i), CreditsKept, ClusterKept,
           UNCHANGED sessionVars, halted' = halted
    PROVE  RenewalInv'
<1> DEFINE a == attempts[i]
           b == [a EXCEPT !.reply = "unavailable"]
<1>0. RenewalTypes /\ a \in AttemptRecord /\ AttemptHolds(a) BY RowFacts DEF RenewalInv, AttemptsHold
<1>1. CASE a.stage # "reserved"
  <2>1. Reply(i, "unavailable") BY <1>1 DEF LoseAnswer
  <2> QED BY <2>1, ReplyStep DEF Replies
<1>2. CASE a.stage = "reserved"
  <2>1. /\ b \in AttemptRecord /\ b.epoch = a.epoch /\ b.key = a.key /\ b.reply = "unavailable"
        /\ b.stage = a.stage /\ b.term = a.term /\ b.at = a.at /\ b.issued = a.issued
        /\ b.notBefore = a.notBefore /\ b.version = a.version /\ b.endorsers = a.endorsers
    BY <1>0 DEF AttemptRecord, Replies
  <2>2. Set(i, b) BY <1>2 DEF LoseAnswer
  <2>4. CutHolds(a) BY <1>0, <1>2 DEF AttemptHolds, CutStages
  <2> HIDE DEF b
  <2>5. CutHolds(b) BY <2>1, <2>4 DEF CutHolds
  <2>6. AttemptHolds(b) BY <1>0, <1>2, <2>1, <2>5 DEF AttemptHolds, CutStages
  <2> QED BY <2>1, <2>2, <2>6, SetStep
<1> QED BY <1>1, <1>2

LEMMA ResolveAcceptedStep ==
    ASSUME RenewalInv, NEW i \in 1 .. Len(attempts), ResolveAccepted(i), CreditsKept, ClusterKept,
           UNCHANGED sessionVars
    PROVE  RenewalInv'
<1>1. AttemptHolds(attempts[i]) BY DEF RenewalInv, AttemptsHold
<1>2. attempts[i].epoch <= Len(granted) BY <1>1 DEF ResolveAccepted, AttemptHolds
<1>3. Reply(i, "granted") /\ halted' = halted BY DEF ResolveAccepted
<1> QED BY <1>2, <1>3, ReplyStep DEF Replies


\* A leader that halts over its own authorization met an authority that came back.
LEMMA ResolveRejectedStep ==
    ASSUME RenewalInv, NEW i \in 1 .. Len(attempts), ResolveRejected(i), CreditsKept, ClusterKept,
           UNCHANGED sessionVars
    PROVE  RenewalInv'
<1> DEFINE at == applied[leader.id]
           a == attempts[i]
           verdict == CutVerdict(i)
           stale == ~SameSemanticCut(i) \/ ~Within(a.issued, leader.id)
<1>0. RenewalTypes /\ a \in AttemptRecord /\ AttemptHolds(a) BY RowFacts DEF RenewalInv, AttemptsHold
<1>1. leader.id \in Everyone /\ leader.id \in Nodes /\ at \in 1 .. Len(log)
  BY <1>0, RowFacts DEF RenewalTypes, Everyone
<1>2. verdict \in {"superseded", "revoked", "behind", "next", "unavailable"} BY CutVerdicts
<1>3. CASE verdict # "next" /\ Reply(i, verdict) /\ halted' = halted
  <2>1. verdict \in Replies /\ verdict # "granted" /\ verdict # "halted" /\ verdict # "mismatch"
    BY <1>2, <1>3 DEF Replies
  <2> HIDE DEF verdict
  <2> QED BY <1>3, <2>1, ReplyStep
<1>4. CASE Reply(i, "unavailable") /\ halted' = halted
  BY <1>4, ReplyStep DEF Replies
<1>5. CASE verdict = "next" /\ ~stale /\ Reply(i, "halted") /\ halted' = halted \cup {leader.id}
  <2>1. /\ a.epoch = log[at].epoch + 1 /\ self \notin log[at].revoked
        /\ sets[log[at].version] \cap log[at].revoked = {}
    BY <1>5, CutVerdicts DEF AuthorityActive
  <2>2. /\ log[a.at].entity = log[at].entity /\ sets[log[a.at].version] = sets[log[at].version]
        /\ log[a.at].epoch = log[at].epoch
    BY <1>5 DEF SameSemanticCut, View
  <2>3. a.stage = "rejected" /\ at >= a.outcome BY DEF ResolveRejected, Waits
  <2>4. /\ CutHolds(a) /\ a.outcome \in 1 .. Len(log) /\ a.at <= a.outcome /\ RejectedFor(a, log[a.outcome])
    BY <1>0, <2>3 DEF AttemptHolds, CutStages
  <2>5. a.at \in 1 .. Len(log) /\ a.version = log[a.at].version /\ a.endorsers \subseteq sets[a.version]
    BY <2>4 DEF CutHolds
  <2> DEFINE first == log[a.at]
             mid == log[a.outcome]
             last == log[at]
  <2>6. /\ first \in LogRow /\ mid \in LogRow /\ last \in LogRow
        /\ first.version \in 1 .. Len(sets) /\ last.version \in 1 .. Len(sets)
    BY <1>1, <2>4, <2>5, RowFacts
  <2>7. /\ first.epoch <= mid.epoch /\ first.entity <= mid.entity /\ first.version <= mid.version
        /\ mid.epoch <= last.epoch /\ mid.entity <= last.entity /\ mid.version <= last.version
        /\ mid.revoked \subseteq last.revoked
    <3>1. RowsForward BY DEF RenewalInv
    <3> QED BY <3>1, <1>1, <2>3, <2>4, <2>5, SMTT(30) DEF RowsForward
  <2> HIDE DEF first, mid, last
  <2>8. first.epoch = last.epoch /\ first.entity = last.entity /\ a.epoch = last.epoch + 1
    BY <2>1, <2>2 DEF first, last
  <2>9. mid.epoch = last.epoch /\ mid.entity = first.entity BY <2>6, <2>7, <2>8 DEF LogRow
  <2>10. self \notin mid.revoked BY <2>1, <2>7 DEF last
  <2>11. \A d \in a.endorsers : d \notin mid.revoked
    <3>1. a.endorsers \subseteq sets[last.version] BY <2>2, <2>5 DEF last
    <3> QED BY <3>1, <2>1, <2>7 DEF last
  <2>12. mid.version # a.version
    <3>1. RejectedFor(a, mid) BY <2>4 DEF mid
    <3> QED BY <3>1, <2>8, <2>9, <2>10, <2>11, <2>6 DEF RejectedFor, first, LogRow
  <2>13. first.version < last.version
    BY <2>5, <2>6, <2>7, <2>12, SMTT(30) DEF LogRow, first
  <2>14. HaltsExplained'
    <3>1. DOMAIN sets = 1 .. Len(sets) /\ sets' = sets BY <1>0 DEF RenewalTypes, sessionVars
    <3>2. sets[first.version] = sets[last.version] BY <2>2 DEF first, last
    <3> QED BY <3>1, <3>2, <2>6, <2>13 DEF HaltsExplained
  <2>15. PICK b \in AttemptRecord :
              /\ Set(i, b) /\ b.epoch = attempts[i].epoch /\ b.key = attempts[i].key
              /\ b.reply = "halted" /\ b.stage = "over"
    BY <1>5, ReplyWritten DEF Replies
  <2>16. halted' \in SUBSET Nodes /\ halted \subseteq halted' /\ halted' # {} BY <1>0, <1>1, <1>5 DEF RenewalTypes
  <2> QED BY <2>14, <2>15, <2>16, WrittenStep
<1> QED BY <1>3, <1>4, <1>5 DEF ResolveRejected

\* How the operation that reserved an authorization ends.
LEMMA Concluded ==
    ASSUME RenewalInv, NEW i \in 1 .. Len(attempts), NEW stage \in {"accepted", "rejected"}, NEW at \in Nat,
           Conclude(i, stage, at)
    PROVE  \E b \in AttemptRecord :
              /\ Set(i, b) /\ b.epoch = attempts[i].epoch /\ b.key = attempts[i].key /\ b.reply = attempts[i].reply
              /\ \/ b.stage = "over"
                 \/ /\ b.stage = stage /\ b.outcome = at /\ b.reply = "none"
                    /\ b.term = attempts[i].term /\ b.at = attempts[i].at /\ b.issued = attempts[i].issued
                    /\ b.notBefore = attempts[i].notBefore /\ b.version = attempts[i].version
                    /\ b.endorsers = attempts[i].endorsers
<1> DEFINE a == attempts[i]
           b == [a EXCEPT !.stage = stage, !.outcome = at]
<1>0. a \in AttemptRecord BY RowFacts
<1>1. CASE a.reply = "none"
  <2>1. /\ b \in AttemptRecord /\ b.epoch = a.epoch /\ b.key = a.key /\ b.reply = a.reply
        /\ b.stage = stage /\ b.outcome = at /\ b.term = a.term /\ b.at = a.at /\ b.issued = a.issued
        /\ b.notBefore = a.notBefore /\ b.version = a.version /\ b.endorsers = a.endorsers
    BY <1>0 DEF AttemptRecord, CutStages
  <2>2. Set(i, b) BY <1>1 DEF Conclude
  <2> HIDE DEF b
  <2> QED BY <1>1, <2>1, <2>2
<1>2. CASE a.reply # "none"
  <2>1. Reply(i, a.reply) /\ a.reply \in Replies BY <1>0, <1>2 DEF Conclude, AttemptRecord
  <2> QED BY <2>1, ReplyWritten
<1> QED BY <1>1, <1>2

LEMMA RejectStep ==
    ASSUME RenewalInv, NEW i \in 1 .. Len(attempts), attempts[i].stage = "reserved", ~Reduces(attempts[i]),
           Conclude(i, "rejected", Len(log)), CreditsKept, ClusterKept,
           UNCHANGED sessionVars, halted' = halted
    PROVE  RenewalInv'
<1> DEFINE a == attempts[i]
<1>0. RenewalTypes /\ a \in AttemptRecord /\ AttemptHolds(a) BY RowFacts DEF RenewalInv, AttemptsHold
<1>1. CutHolds(a) /\ Cardinality(a.endorsers) >= QuorumSize(sets[a.version])
  BY <1>0 DEF AttemptHolds, CutStages
<1>2. Len(log) \in Nat /\ Len(log) >= 1 BY <1>0, StateNumbers
<1>3. Committed \in LogRow /\ Committed.epoch = Len(granted) BY RowFacts DEF RenewalInv, RowsForward
<1>4. RejectedFor(a, Committed)
  <2> SUFFICES ASSUME ~RejectedFor(a, Committed) PROVE FALSE OBVIOUS
  <2>1. /\ self \notin Committed.revoked /\ Committed.epoch + 1 = a.epoch
        /\ Committed.entity = log[a.at].entity /\ Committed.version = a.version
        /\ \A d \in a.endorsers : d \notin Committed.revoked
    BY DEF RejectedFor
  <2>2. \A e \in 1 .. Committed.epoch : granted[e].key # a.key
    <3>1. SUFFICES ASSUME NEW e \in 1 .. Committed.epoch, granted[e].key = a.key PROVE FALSE OBVIOUS
    <3>2. e \in 1 .. Len(granted) BY <1>3
    <3>3. PICK j \in 1 .. Len(attempts) : attempts[j].epoch = e /\ attempts[j].key = granted[e].key
      BY <3>2 DEF RenewalInv, GrantsAnswer
    <3>4. a.epoch = e BY <3>1, <3>3 DEF RenewalInv, KeysOfEpochs
    <3> QED BY <3>1, <3>4, <2>1, <1>3 DEF LogRow
  <2>3. a.endorsers \subseteq sets[Committed.version] \ Committed.revoked BY <1>1, <2>1 DEF CutHolds
  <2>4. ~TooEarly(a.epoch, a.issued) /\ a.notBefore = NotBefore(a.epoch, a.issued) BY <1>1 DEF CutHolds
  <2>5. Reduces(a) BY <1>1, <2>1, <2>2, <2>3, <2>4 DEF Reduces
  <2> QED BY <2>5
<1>5. PICK b \in AttemptRecord :
              /\ Set(i, b) /\ b.epoch = a.epoch /\ b.key = a.key /\ b.reply = a.reply
              /\ \/ b.stage = "over"
                 \/ /\ b.stage = "rejected" /\ b.outcome = Len(log) /\ b.reply = "none"
                    /\ b.term = a.term /\ b.at = a.at /\ b.issued = a.issued
                    /\ b.notBefore = a.notBefore /\ b.version = a.version
                    /\ b.endorsers = a.endorsers
  BY <1>2, Concluded
<1>6. CASE b.stage = "over"
  <2>1. AttemptHolds(b) BY <1>0, <1>5, <1>6 DEF AttemptHolds, CutStages
  <2> QED BY <1>5, <2>1, SetStep
<1>7. CASE b.stage # "over"
  <2>1. CutHolds(b) BY <1>1, <1>5, <1>7 DEF CutHolds
  <2>2. RejectedFor(b, log[Len(log)]) BY <1>4, <1>5, <1>7 DEF RejectedFor, Committed
  <2>3. Len(log) \in 1 .. Len(log) /\ b.at <= Len(log) BY <1>2, <2>1 DEF CutHolds
  <2>4. AttemptHolds(b) BY <1>0, <1>1, <1>5, <1>7, <2>1, <2>2, <2>3 DEF AttemptHolds, CutStages
  <2> QED BY <1>5, <2>4, SetStep
<1> QED BY <1>6, <1>7


\* An accepted authorization: the epoch after the last, spaced from it and for an endorsed time.
LEMMA AcceptStep ==
    ASSUME RenewalInv, NEW i \in 1 .. Len(attempts), attempts[i].stage = "reserved", Reduces(attempts[i]),
           log' = Append(log, [Committed EXCEPT !.epoch = @ + 1]),
           granted' = Append(granted, [epoch |-> attempts[i].epoch, key |-> attempts[i].key,
                                       issued |-> attempts[i].issued, notBefore |-> attempts[i].notBefore]),
           Conclude(i, "accepted", Len(log) + 1), CreditsKept, ClusterKept,
           sets' = sets, halted' = halted
    PROVE  RenewalInv'
<1> DEFINE a == attempts[i]
           row == [Committed EXCEPT !.epoch = @ + 1]
           g == [epoch |-> a.epoch, key |-> a.key, issued |-> a.issued, notBefore |-> a.notBefore]
           n == Len(granted)
<1>0. RenewalTypes /\ a \in AttemptRecord /\ AttemptHolds(a) BY RowFacts DEF RenewalInv, AttemptsHold
<1>1. CutHolds(a) /\ Cardinality(a.endorsers) >= QuorumSize(sets[a.version])
  BY <1>0 DEF AttemptHolds, CutStages
<1>2. /\ Len(log) \in Nat /\ Len(log) >= 1 /\ n \in Nat /\ Len(sets) \in Nat
  BY <1>0, StateNumbers
<1>3. Committed \in LogRow /\ Committed.epoch = n /\ Committed.version = Len(sets)
  BY RowFacts DEF RenewalInv, RowsForward
<1>4. self \notin Committed.revoked /\ a.epoch = n + 1 /\ ~TooEarly(a.epoch, a.issued)
      /\ a.notBefore = NotBefore(a.epoch, a.issued)
  BY <1>3 DEF Reduces
<1>5. g \in Grant /\ g.epoch = n + 1 /\ g.key = a.key /\ g.issued = a.issued /\ g.notBefore = a.notBefore
  BY <1>0, <1>4 DEF AttemptRecord, Grant
<1>6. row \in LogRow /\ row.epoch = n + 1 /\ row.entity = Committed.entity /\ row.version = Committed.version
      /\ row.revoked = Committed.revoked
  <2> DEFINE c == Committed
  <2>1. c \in LogRow /\ c.epoch = n /\ n + 1 \in Nat BY <1>2, <1>3
  <2>2. row = [c EXCEPT !.epoch = @ + 1] OBVIOUS
  <2> HIDE DEF c, n, row
  <2>3. row \in LogRow /\ row.epoch = c.epoch + 1 /\ row.entity = c.entity /\ row.version = c.version
        /\ row.revoked = c.revoked
    BY <2>1, <2>2 DEF LogRow
  <2> QED BY <2>1, <2>3 DEF c
<1>7. /\ granted' \in Seq(Grant) /\ Len(granted') = n + 1 /\ granted'[n + 1] = g
      /\ \A e \in 1 .. n : granted'[e] = granted[e]
  <2>1. granted \in Seq(Grant) /\ granted' = Append(granted, g) BY <1>0 DEF RenewalTypes
  <2> HIDE DEF g
  <2> QED BY <2>1, <1>2, <1>5
<1>8. log' = Append(log, row) OBVIOUS
<1>9. self' = self /\ time' = time /\ applied' = applied /\ leader' = leader /\ lost' = lost /\ stops' = stops
  BY DEF ClusterKept
<1> HIDE DEF row, g
<1>10. /\ log' \in Seq(LogRow) /\ Len(log') = Len(log) + 1
       /\ \A k \in 1 .. Len(log) : log'[k] = log[k]
       /\ RowsForward'
  <2>1. Committed.entity \in Nat /\ Committed.version \in Nat BY <1>3 DEF LogRow
  <2>2. Committed.entity <= row.entity /\ Committed.version <= row.version /\ Committed.revoked \subseteq row.revoked
        /\ Committed.epoch <= row.epoch /\ row.epoch = Len(granted') /\ row.version = Len(sets')
    BY <2>1, <1>2, <1>3, <1>6, <1>7
  <2> QED BY <1>4, <1>6, <1>8, <1>9, <2>2, RowsAppended
<1>11. PICK b \in AttemptRecord :
              /\ Set(i, b) /\ b.epoch = a.epoch /\ b.key = a.key /\ b.reply = a.reply
              /\ \/ b.stage = "over"
                 \/ /\ b.stage = "accepted" /\ b.outcome = Len(log) + 1 /\ b.reply = "none"
                    /\ b.term = a.term /\ b.at = a.at /\ b.issued = a.issued
                    /\ b.notBefore = a.notBefore /\ b.version = a.version
                    /\ b.endorsers = a.endorsers
  <2>1. Len(log) + 1 \in Nat BY <1>2
  <2> QED BY <2>1, Concluded
<1>12. /\ attempts' \in Seq(AttemptRecord) /\ Len(attempts') = Len(attempts) /\ attempts'[i] = b
       /\ \A j \in 1 .. Len(attempts) :
             /\ j # i => attempts'[j] = attempts[j]
             /\ attempts'[j].epoch = attempts[j].epoch /\ attempts'[j].key = attempts[j].key
  BY <1>11, AttemptWritten
<1>13. StepFrame
  <2>1. \A d \in Everyone : applied[d] \in 1 .. Len(log') BY <1>0, <1>2, <1>10 DEF RenewalTypes
  <2>2. RenewalTypes' BY <1>0, <1>2, <1>7, <1>9, <1>10, <1>12, <2>1 DEF RenewalTypes, CreditsKept
  <2>3. RenewalGrows
    <3>1. time <= time' /\ halted \subseteq halted' /\ lost <= lost' /\ minted <= minted'
          /\ \A d \in Everyone : applied[d] <= applied'[d]
      BY <1>0, <1>9 DEF RenewalTypes, CreditsKept
    <3>2. Len(attempts) <= Len(attempts') /\ Len(sets) <= Len(sets') BY <1>2, <1>12, <1>0, StateNumbers
    <3>3. Len(log) <= Len(log') /\ Len(granted) <= Len(granted') BY <1>2, <1>7, <1>10
    <3> QED BY <3>1, <3>2, <3>3, <1>7, <1>9, <1>10, <1>12 DEF RenewalGrows
  <2> QED BY <1>10, <2>2, <2>3 DEF StepFrame
<1>14. AttemptsHold'
  <2>1. ASSUME NEW j \in 1 .. Len(attempts') PROVE AttemptHolds(attempts[j])'
    <3>0. j \in 1 .. Len(attempts) BY <1>12
    <3>1. CASE j # i
      <4>1. attempts[j] \in AttemptRecord /\ AttemptHolds(attempts[j]) BY <3>0, RowFacts DEF RenewalInv, AttemptsHold
      <4> QED BY <1>12, <1>13, <3>0, <3>1, <4>1, AttemptStable
    <3>2. CASE j = i /\ b.stage = "over"
      <4>1. AttemptHolds(b) BY <1>0, <1>11, <3>2 DEF AttemptHolds, CutStages
      <4> QED BY <1>12, <1>13, <3>2, <4>1, AttemptStable
    <3>3. CASE j = i /\ b.stage # "over"
      <4>1. CutHolds(b) BY <1>1, <1>11, <3>3 DEF CutHolds
      <4>2. CutHolds(attempts[j])' BY <1>12, <1>13, <3>3, <4>1, CutStable
      <4>3. b.epoch \in Epochs /\ b.key \in 1 .. minted' /\ b.epoch <= Len(granted')
        BY <1>0, <1>2, <1>4, <1>7, <1>11 DEF AttemptHolds, CreditsKept
      <4>4. b.epoch <= View(self)'.epoch + 1
        <5>1. b.epoch <= View(self).epoch + 1 BY <1>0, <1>11 DEF AttemptHolds
        <5>2. View(self).epoch \in Nat /\ View(self)'.epoch \in Nat /\ View(self).epoch <= View(self)'.epoch
          BY <1>13, ViewForward
        <5>3. b.epoch \in Nat BY <1>11 DEF AttemptRecord
        <5> QED BY <5>1, <5>2, <5>3
      <4>5. b.stage = "accepted" /\ b.reply = "none" /\ attempts'[j] = b
            /\ Cardinality(b.endorsers) >= QuorumSize(sets'[b.version])
        BY <1>1, <1>11, <1>12, <3>3
      <4>6. (attempts[j].epoch \in Epochs)' BY <4>3, <4>5 DEF Epochs
      <4>7. (Cardinality(attempts[j].endorsers) >= QuorumSize(sets[attempts[j].version]))' BY <4>5 DEF QuorumSize
      <4> QED BY <4>2, <4>3, <4>4, <4>5, <4>6, <4>7 DEF AttemptHolds
    <3> QED BY <3>1, <3>2, <3>3
  <2> QED BY <2>1 DEF AttemptsHold
<1>15. GrantsAnswer'
  <2>1. ASSUME NEW e \in 1 .. Len(granted')
        PROVE  /\ granted'[e].epoch = e
               /\ \E j \in 1 .. Len(attempts') : attempts'[j].epoch = e /\ attempts'[j].key = granted'[e].key
    <3>1. CASE e = n + 1
      <4>1. i \in 1 .. Len(attempts') /\ attempts'[i].epoch = e /\ attempts'[i].key = granted'[e].key
        BY <1>4, <1>5, <1>7, <1>11, <1>12, <3>1
      <4>2. granted'[e].epoch = e BY <1>5, <1>7, <3>1
      <4> QED BY <4>1, <4>2
    <3>2. CASE e # n + 1
      <4>1. e \in 1 .. n /\ granted'[e] = granted[e] BY <1>2, <1>7, <3>2
      <4>2. granted[e].epoch = e BY <4>1 DEF RenewalInv, GrantsAnswer
      <4>3. PICK j \in 1 .. Len(attempts) : attempts[j].epoch = e /\ attempts[j].key = granted[e].key
        BY <4>1 DEF RenewalInv, GrantsAnswer
      <4> QED BY <4>1, <4>2, <4>3, <1>12
    <3> QED BY <3>1, <3>2
  <2> QED BY <2>1 DEF GrantsAnswer
<1>16. GrantsSpaced'
  <2>0. ValidityTime \in Nat /\ OverlapTime \in Nat /\ 2 * OverlapTime <= ValidityTime BY RenewalAssumption
  <2>1. n >= 1 => granted[n].notBefore + ValidityTime - OverlapTime <= a.notBefore
    <3>1. n >= 1 => granted[n].notBefore \in Int /\ n + 1 # 1 /\ (n + 1) - 1 = n BY <1>2, RowFacts, SMTT(30) DEF Grant
    <3>2. a.issued \in Int BY <1>0 DEF AttemptRecord
    <3>3. n >= 1 => a.notBefore = IF granted[n].notBefore + ValidityTime - OverlapTime < a.issued THEN a.issued
                                  ELSE granted[n].notBefore + ValidityTime - OverlapTime
      BY <1>4, <3>1 DEF NotBefore, OverlapFloor
    <3> QED BY <2>0, <3>1, <3>2, <3>3
  <2>2. ASSUME NEW e \in 1 .. Len(granted'), NEW f \in 1 .. Len(granted'), e < f
        PROVE  granted'[e].notBefore + ValidityTime - OverlapTime <= granted'[f].notBefore
    <3>1. CASE f # n + 1
      <4>1. e \in 1 .. n /\ f \in 1 .. n /\ granted'[e] = granted[e] /\ granted'[f] = granted[f]
        BY <1>2, <1>7, <2>2, <3>1
      <4> QED BY <4>1, <2>2 DEF RenewalInv, GrantsSpaced
    <3>2. CASE f = n + 1 /\ e = n
      <4>1. n >= 1 /\ granted'[e] = granted[n] /\ granted'[f].notBefore = a.notBefore
        BY <1>2, <1>5, <1>7, <3>2
      <4> QED BY <4>1, <2>1
    <3>3. CASE f = n + 1 /\ e # n
      <4>1. e \in 1 .. n /\ n \in 1 .. n /\ e < n /\ granted'[e] = granted[e] /\ granted'[f].notBefore = a.notBefore
        BY <1>2, <1>5, <1>7, <2>2, <3>3
      <4>2. granted[e].notBefore + ValidityTime - OverlapTime <= granted[n].notBefore
        BY <4>1 DEF RenewalInv, GrantsSpaced
      <4>3. granted[e].notBefore \in Int /\ granted[n].notBefore \in Int /\ a.notBefore \in Int
        BY <4>1, <1>0, RowFacts DEF Grant, AttemptRecord
      <4>4. granted[n].notBefore + ValidityTime - OverlapTime <= a.notBefore BY <4>1, <2>1, <1>2
      <4>5. granted[e].notBefore + ValidityTime - OverlapTime <= a.notBefore
        <5> DEFINE x == granted[e].notBefore
                   y == granted[n].notBefore
                   z == a.notBefore
        <5>1. x \in Int /\ y \in Int /\ z \in Int /\ x + ValidityTime - OverlapTime <= y
              /\ y + ValidityTime - OverlapTime <= z
          BY <4>2, <4>3, <4>4
        <5> HIDE DEF x, y, z
        <5>2. x + ValidityTime - OverlapTime <= z BY <5>1, <2>0, SMTT(30)
        <5> QED BY <5>2 DEF x, z
      <4> QED BY <4>1, <4>5
    <3> QED BY <3>1, <3>2, <3>3
  <2> QED BY <2>2 DEF GrantsSpaced
<1>17. NotFarFuture'
  <2>1. a.issued <= time + Skew BY QuorumTimes DEF CutStages
  <2>2. DOMAIN granted' = 1 .. n + 1 /\ DOMAIN granted = 1 .. n BY <1>0, <1>7, <1>2 DEF RenewalTypes
  <2>3. ASSUME NEW e \in 1 .. n + 1 PROVE granted'[e].issued <= time' + Skew
    <3>1. CASE e = n + 1 BY <1>5, <1>7, <1>9, <2>1, <3>1
    <3>2. CASE e # n + 1
      <4>1. e \in 1 .. n /\ granted'[e] = granted[e] BY <1>2, <1>7, <3>2
      <4> QED BY <4>1, <2>2, <1>9 DEF RenewalInv, NotFarFuture
    <3> QED BY <3>1, <3>2
  <2> QED BY <2>2, <2>3 DEF NotFarFuture
<1>18. HaltsExplained' BY <1>13, HaltsStable
<1>19. /\ KeysOfEpochs' /\ PassHolds' /\ AsksHold' /\ ErasesAll'
       /\ PresentedHold' /\ AlarmsExplained' /\ KeysErased'
  BY <1>9, <1>12, <1>13, ServiceStable
<1> QED BY <1>13, <1>14, <1>15, <1>16, <1>17, <1>18, <1>19 DEF RenewalInv, StepFrame

LEMMA CommitStep ==
    ASSUME RenewalInv, NEW i \in 1 .. Len(attempts), Commit(i), CreditsKept, ClusterKept, halted' = halted
    PROVE  RenewalInv'
<1>1. attempts[i].stage = "reserved" /\ sets' = sets BY DEF Commit
<1>2. CASE Reduces(attempts[i])
  BY <1>1, <1>2, AcceptStep DEF Commit
<1>3. CASE ~Reduces(attempts[i])
  BY <1>1, <1>3, RejectStep DEF Commit, sessionVars
<1> QED BY <1>2, <1>3

LEMMA LeaderStep ==
    ASSUME RenewalInv, LeaderNext
    PROVE  RenewalInv'
<1>0. attempts \in Seq(AttemptRecord) BY DEF RenewalInv, RenewalTypes
<1>1. DOMAIN attempts = 1 .. Len(attempts) BY <1>0
<1>2. PICK i \in 1 .. Len(attempts) :
         /\ \/ CaptureCut(i) /\ UNCHANGED <<sessionVars, halted>>
            \/ (\E d \in Nodes : Endorse(i, d)) /\ UNCHANGED <<sessionVars, halted>>
            \/ SubmitAuthorization(i) /\ UNCHANGED <<sessionVars, halted>>
            \/ CutMoved(i) /\ UNCHANGED <<sessionVars, halted>>
            \/ Commit(i) /\ UNCHANGED halted
            \/ (ResolveAccepted(i) \/ ResolveRejected(i)) /\ UNCHANGED sessionVars
            \/ LoseAnswer(i) /\ UNCHANGED <<sessionVars, halted>>
         /\ UNCHANGED <<credentialVars, time, applied, leader, self, lost, stops>>
  BY <1>1 DEF LeaderNext
<1>3. CreditsKept /\ ClusterKept BY <1>2 DEF credentialVars, CreditsKept, ClusterKept
<1>4. CASE CaptureCut(i) /\ UNCHANGED <<sessionVars, halted>> BY <1>3, <1>4, CaptureStep
<1>5. CASE (\E d \in Nodes : Endorse(i, d)) /\ UNCHANGED <<sessionVars, halted>> BY <1>3, <1>5, EndorseStep
<1>6. CASE SubmitAuthorization(i) /\ UNCHANGED <<sessionVars, halted>> BY <1>3, <1>6, SubmitStep
<1>7. CASE CutMoved(i) /\ UNCHANGED <<sessionVars, halted>> BY <1>3, <1>7, CutMovedStep
<1>8. CASE Commit(i) /\ UNCHANGED halted BY <1>3, <1>8, CommitStep
<1>9. CASE ResolveAccepted(i) /\ UNCHANGED sessionVars BY <1>3, <1>9, ResolveAcceptedStep
<1>10. CASE ResolveRejected(i) /\ UNCHANGED sessionVars BY <1>3, <1>10, ResolveRejectedStep
<1>11. CASE LoseAnswer(i) /\ UNCHANGED <<sessionVars, halted>> BY <1>3, <1>11, LoseAnswerStep
<1> QED BY <1>2, <1>4, <1>5, <1>6, <1>7, <1>8, <1>9, <1>10, <1>11


\* What a pass may rely on.
LEMMA ProvisionalSound ==
    ASSUME RenewalInv
    PROVE  ~ProvisionalAlarm(View(self).epoch)
<1>1. View(self).epoch \in Nat BY RowFacts DEF LogRow
<1>2. provisional.epoch \in Nat BY DEF RenewalInv, RenewalTypes, Grant
<1>3. provisional # NoGrant => /\ provisional = granted[provisional.epoch]
                               /\ provisional.epoch <= View(self).epoch + 1
  BY DEF RenewalInv, PresentedHold
<1> QED BY <1>1, <1>2, <1>3 DEF ProvisionalAlarm

LEMMA IssuableOrLost ==
    ASSUME RenewalInv, NEW e \in 1 .. Len(granted), Unissuable(e)
    PROVE  lost > 0
<1>1. e \in Epochs BY RowFacts
<1>2. PICK i \in 1 .. Len(attempts) : attempts[i].epoch = e /\ attempts[i].key = granted[e].key
  BY DEF RenewalInv, GrantsAnswer
<1>3. epochKeys[e] # NoKey /\ epochKeys[e] # granted[e].key BY DEF Unissuable
<1>4. lost # 0 BY <1>2, <1>3 DEF RenewalInv, KeysOfEpochs
<1> QED BY <1>4 DEF RenewalInv, RenewalTypes

\* The native store holds keys of the epochs about the current one only.
LEMMA KeysNear ==
    ASSUME RenewalInv, NEW e \in Epochs, epochKeys[e] # NoKey
    PROVE  /\ View(self).epoch <= e + 1 /\ e <= View(self).epoch + 1
           /\ e \in InactiveEpochs(View(self).epoch)
<1> DEFINE v == View(self).epoch
<1>1. v \in 0 .. Len(granted) /\ Len(granted) \in Nat
  BY RowFacts, StateNumbers DEF RenewalInv
<1>2. e <= v + 1 BY DEF RenewalInv, KeysOfEpochs
<1>3. e \in Nat /\ e >= 1 BY RenewalAssumption DEF Epochs
<1>4. v <= e + 1
  <2>1. CASE v = 0 BY <2>1, <1>3
  <2>2. CASE v # 0
    <3>1. v \in 1 .. Len(granted) BY <1>1, <2>2
    <3>2. PICK i \in 1 .. Len(attempts) : attempts[i].epoch = v BY <3>1 DEF RenewalInv, GrantsAnswer
    <3>3. attempts[i].epoch <= e + 1 BY <3>2 DEF RenewalInv, KeysOfEpochs
    <3> QED BY <3>2, <3>3
  <2> QED BY <2>1, <2>2
<1> HIDE DEF v
<1>5. e = v - 1 \/ e = v \/ e = v + 1 BY <1>1, <1>2, <1>3, <1>4
<1>6. e \in InactiveEpochs(v) BY <1>5 DEF InactiveEpochs
<1> QED BY <1>2, <1>4, <1>6 DEF v

\* A step of the service asks nothing new: the rest is what the pass is about.
LEMMA ServiceFrame ==
    ASSUME RenewalInv, RenewalTypes', RenewalGrows, SessionKept, attempts' = attempts,
           KeysOfEpochs', PassHolds', AsksHold', ErasesAll', PresentedHold', AlarmsExplained', KeysErased'
    PROVE  RenewalInv'
<1>1. StepFrame BY RowsKept DEF SessionKept
<1>2. AttemptsHold' /\ GrantsAnswer' /\ GrantsSpaced' /\ NotFarFuture' /\ HaltsExplained'
  BY <1>1, AttemptsStable, GrantsStable, HaltsStable DEF SessionKept
<1> QED BY <1>1, <1>2 DEF RenewalInv, StepFrame

\* The device's own view and the rows do not change under such a step.
LEMMA ServiceViews ==
    ASSUME RenewalInv, SessionKept
    PROVE  /\ View(self)' = View(self) /\ log' = log /\ self' = self /\ applied' = applied /\ granted' = granted
           /\ halted' = halted /\ lost' = lost
           /\ View(self) = log[applied[self]] /\ View(self) \in LogRow /\ applied[self] \in 1 .. Len(log)
<1>1. self \in Everyone /\ applied[self] \in 1 .. Len(log) /\ View(self) \in LogRow BY RowFacts
<1> QED BY <1>1 DEF SessionKept, View

\* A pass begins: it may lead to a candidate only with all older keys doomed.
LEMMA PassBegins ==
    ASSUME RenewalInv, SessionKept, UNCHANGED <<epochKeys, minted, closing, attempts>>,
           NEW doomed \in SUBSET Epochs, NEW then \in {"idle", "candidate"},
           pass' = PassFrom(doomed, then), RenewalTypes', RenewalGrows, PresentedHold',
           \A e \in doomed : e <= View(self).epoch \/ self \in View(self).revoked,
           self \in View(self).revoked => then = "idle" /\ doomed = InactiveEpochs(View(self).epoch),
           then = "candidate" =>
              /\ View(self).epoch + 1 \in Epochs
              /\ \A e \in Epochs : epochKeys[e] # NoKey => e >= View(self).epoch \/ e \in doomed
    PROVE  RenewalInv'
<1>0. RenewalTypes BY DEF RenewalInv
<1>1. /\ View(self)' = View(self) /\ log' = log /\ self' = self /\ applied' = applied /\ granted' = granted
      /\ halted' = halted /\ lost' = lost
      /\ View(self) = log[applied[self]] /\ View(self) \in LogRow /\ applied[self] \in 1 .. Len(log)
  BY ServiceViews
<1>2. /\ pass'.phase = "erase" /\ pass'.seen = applied[self] /\ pass'.doomed = doomed /\ pass'.then = then
      /\ pass'.why = "none" /\ pass'.attempt = 0
  BY DEF PassFrom, Pass
<1>3. KeysOfEpochs' BY <1>1 DEF RenewalInv, KeysOfEpochs
<1>4. PassHolds'
  <2>1. applied[self] \in 1 .. applied[self] BY <1>1, <1>0, StateNumbers
  <2> QED BY <1>1, <1>2, <2>1 DEF RenewalInv, PassHolds
<1>5. Asked' = View(self).epoch + 1 BY <1>1, <1>2 DEF Asked
<1>6. AsksHold'
  <2> SUFFICES ASSUME then = "candidate" PROVE AsksHold' BY <1>2 DEF AsksHold
  <2>1. self \notin View(self).revoked /\ Asked' \in Epochs BY <1>5
  <2>2. View(self).epoch \in Nat BY <1>1 DEF LogRow
  <2>3. \A e \in doomed : e < Asked' BY <1>5, <2>1, <2>2 DEF Epochs
  <2>4. \A i \in 1 .. Len(attempts) :
           /\ attempts[i].epoch <= Asked'
           /\ lost = 0 /\ attempts[i].epoch = Asked' => epochKeys[Asked'] = attempts[i].key
    <3> TAKE i \in 1 .. Len(attempts)
    <3>1. attempts[i].epoch <= View(self).epoch + 1 BY DEF RenewalInv, AttemptsHold, AttemptHolds
    <3>2. lost = 0 => \/ epochKeys[attempts[i].epoch] = attempts[i].key
                      \/ attempts[i].epoch <= View(self).epoch \/ self \in View(self).revoked
      BY DEF RenewalInv, KeysOfEpochs
    <3> QED BY <3>1, <3>2, <1>5, <2>1, <2>2
  <2>5. \A e \in Epochs : epochKeys[e] # NoKey => e + 1 >= Asked' \/ e \in doomed
    BY <1>5, <2>2 DEF Epochs
  <2>6. self' \notin log'[pass'.seen].revoked BY <1>1, <1>2, <2>1
  <2>7. (Asked \in Epochs)' BY <2>1 DEF Epochs
  <2> QED BY <1>1, <1>2, <2>3, <2>4, <2>5, <2>6, <2>7 DEF AsksHold, Epochs
<1>7. ErasesAll'
  <2>1. ASSUME NEW e \in Epochs, epochKeys[e] # NoKey, self \in View(self).revoked PROVE e \in doomed
    BY <2>1, KeysNear
  <2> QED BY <1>1, <1>2, <2>1 DEF ErasesAll, Epochs
<1>8. AlarmsExplained' /\ KeysErased' BY <1>2 DEF AlarmsExplained, KeysErased
<1> QED BY <1>3, <1>4, <1>6, <1>7, <1>8, ServiceFrame

\* The service gives up: nothing it holds is presented any longer.
LEMMA FatalStep ==
    ASSUME RenewalInv, SessionKept, UNCHANGED <<epochKeys, minted, closing, attempts>>,
           NEW why, SetFatal(why), RenewalTypes', RenewalGrows,
           why \in {"none", "revoked", "superseded", "behind"} \/ lost > 0 \/ (why = "halted" /\ halted # {})
    PROVE  RenewalInv'
<1>1. /\ View(self)' = View(self) /\ log' = log /\ self' = self /\ applied' = applied
      /\ halted' = halted /\ lost' = lost
  BY ServiceViews
<1>2. /\ pass'.phase = "fatal" /\ pass'.seen = pass.seen /\ pass'.doomed = {} /\ pass'.then = "idle"
      /\ pass'.why = why /\ pass'.attempt = 0
  BY DEF SetFatal, Pass
<1>3. KeysOfEpochs' BY <1>1 DEF RenewalInv, KeysOfEpochs
<1>4. PassHolds' BY <1>1, <1>2 DEF RenewalInv, PassHolds
<1>5. AsksHold' /\ ErasesAll' /\ KeysErased' BY <1>2 DEF AsksHold, ErasesAll, KeysErased
<1>6. PresentedHold' BY DEF PresentedHold, SetFatal
<1>7. AlarmsExplained' BY <1>1, <1>2 DEF AlarmsExplained
<1> QED BY <1>3, <1>4, <1>5, <1>6, <1>7, ServiceFrame


\* When the next epoch is due the epoch before the current one is over.
LEMMA DueEndsPrevious ==
    ASSUME RenewalInv, NEW e \in 1 .. Len(granted), e - 1 \in 1 .. Len(granted), NEW now \in Int,
           now >= RenewalFloor(granted[e])
    PROVE  ~ActiveAt(granted[e - 1], now)
<1> DEFINE x == granted[e - 1].notBefore
           y == granted[e].notBefore
<1>1. x \in Int /\ y \in Int BY RowFacts DEF Grant
<1>2. Len(granted) \in Nat BY StateNumbers DEF RenewalInv
<1>3. e - 1 < e BY <1>2
<1>4. x + ValidityTime - OverlapTime <= y BY <1>3 DEF RenewalInv, GrantsSpaced
<1>5. now >= y + ValidityTime - LeadTime BY DEF RenewalFloor
<1>6. ValidityTime \in Nat /\ LeadTime \in Nat /\ OverlapTime \in Nat /\ LeadTime + OverlapTime <= ValidityTime
  BY RenewalAssumption
<1> HIDE DEF x, y
<1>7. ~(now < x + ValidityTime) BY <1>1, <1>4, <1>5, <1>6
<1> QED BY <1>7 DEF ActiveAt, x

LEMMA RefreshStep ==
    ASSUME RenewalInv, SessionKept, NEW then \in {"idle", "candidate"}, Refresh(then)
    PROVE  RenewalInv'
<1> DEFINE epoch == View(self).epoch
           now == Clock(self)
<1>0. RenewalTypes /\ RenewalTypes' /\ RenewalGrows BY RefreshTypes DEF RenewalInv
<1>1. /\ View(self)' = View(self) /\ granted' = granted /\ View(self) \in LogRow /\ self' = self
  BY ServiceViews
<1>2. UNCHANGED <<epochKeys, minted, closing, attempts>> BY DEF Refresh
<1>3. epoch \in 0 .. Len(granted) /\ Len(granted) \in Nat /\ now \in Int
  BY <1>0, RowFacts, StateNumbers, ClockTyped
<1>4. epoch \in Nat BY <1>3
<1>5. /\ \A e \in {epoch - 2, epoch - 1, epoch} \cap Epochs : e \in 1 .. Len(granted)
  BY <1>3 DEF Epochs
<1>6. CASE RefreshInactive
  <2>1. PresentedHold' BY <1>6 DEF RefreshInactive, PresentedHold
  <2>2. InactiveEpochs(epoch) \in SUBSET Epochs /\ self \in View(self).revoked BY <1>6 DEF InactiveEpochs, RefreshInactive
  <2>3. pass' = PassFrom(InactiveEpochs(epoch), "idle") BY <1>6 DEF RefreshInactive
  <2> QED BY <1>0, <1>2, <2>1, <2>2, <2>3, PassBegins
<1>7. CASE RefreshFirst(then)
  <2>1. /\ self \notin View(self).revoked /\ epoch = 0 /\ certs' = {}
        /\ provisional' = provisional \/ provisional' = NoGrant
        /\ \E t \in {"idle", "candidate"} : pass' = PassFrom({}, t)
    BY <1>7 DEF RefreshFirst
  <2>2. PICK t \in {"idle", "candidate"} : pass' = PassFrom({}, t) BY <2>1
  <2>3. PresentedHold' BY <1>1, <2>1 DEF RenewalInv, PresentedHold
  <2>4. epoch + 1 \in Epochs /\ \A e \in Epochs : e >= epoch
    <3>1. MaxEpoch \in Nat BY RenewalAssumption
    <3> QED BY <3>1, <2>1 DEF Epochs
  <2>5. {} \in SUBSET Epochs OBVIOUS
  <2> QED BY <1>0, <1>2, <2>1, <2>2, <2>3, <2>4, <2>5, PassBegins
<1>8. CASE RefreshCertificates(then)
  <2> DEFINE doomed == Obsolete(epoch, now)
             due == now >= RenewalFloor(granted[epoch]) /\ epoch < MaxEpoch
  <2>1. /\ self \notin View(self).revoked /\ epoch > 0
        /\ certs' = {granted[e] : e \in {d \in Desired(epoch, now) : Issuable(d)}}
        /\ provisional' = provisional \/ provisional' = NoGrant
        /\ \E t \in {"idle", "candidate"} : pass' = PassFrom(doomed, t) /\ (t = "candidate" => due)
    BY <1>8 DEF RefreshCertificates, StillProvisional
  <2>2. PICK t \in {"idle", "candidate"} : pass' = PassFrom(doomed, t) /\ (t = "candidate" => due) BY <2>1
  <2>3. epoch \in 1 .. Len(granted) /\ epoch \in Epochs BY <1>3, <2>1, RowFacts
  <2>4. \A e \in Desired(epoch, now) : e \in 1 .. Len(granted)
    <3>1. Desired(epoch, now) \subseteq {epoch} \cup ({epoch - 1} \cap Epochs) BY DEF Desired
    <3> QED BY <3>1, <1>5, <2>3
  <2>5. PresentedHold'
    <3>1. \A e \in 1 .. Len(granted) : granted[e].epoch = e BY DEF RenewalInv, GrantsAnswer
    <3>2. \A g \in certs' : g.epoch \in 1 .. Len(granted) /\ g = granted[g.epoch] BY <2>1, <2>4, <3>1
    <3>3. provisional' # NoGrant => provisional' = provisional /\ provisional # NoGrant BY <2>1
    <3> QED BY <1>1, <3>2, <3>3 DEF RenewalInv, PresentedHold
  <2>6. doomed \in SUBSET Epochs /\ \A e \in doomed : e <= epoch BY <1>4 DEF Obsolete
  <2>7. t = "candidate" =>
           /\ epoch + 1 \in Epochs
           /\ \A e \in Epochs : epochKeys[e] # NoKey => e >= epoch \/ e \in doomed
    <3> SUFFICES ASSUME t = "candidate"
                 PROVE  /\ epoch + 1 \in Epochs
                        /\ \A e \in Epochs : epochKeys[e] # NoKey => e >= epoch \/ e \in doomed
      OBVIOUS
    <3>1. due BY <2>2
    <3>2. epoch + 1 \in Epochs BY <3>1, <1>4, RenewalAssumption DEF Epochs
    <3>3. ASSUME NEW e \in Epochs, epochKeys[e] # NoKey, ~(e >= epoch) PROVE e \in doomed
      <4>1. e \in Nat /\ e >= 1 /\ epoch <= e + 1 BY <3>3, KeysNear DEF Epochs
      <4>2. e = epoch - 1 BY <1>4, <3>3, <4>1
      <4>3. e \in 1 .. Len(granted) BY <1>5, <4>2
      <4>4. ~ActiveAt(granted[e], now) BY <1>3, <2>3, <3>1, <4>2, <4>3, DueEndsPrevious
      <4>5. e \notin Desired(epoch, now) BY <1>4, <4>2, <4>4 DEF Desired
      <4> QED BY <4>2, <4>5 DEF Obsolete
    <3> QED BY <3>2, <3>3
  <2> HIDE DEF doomed, epoch
  <2>8. \A e \in doomed : e <= View(self).epoch BY <2>6 DEF epoch
  <2> QED BY <1>0, <1>2, <2>1, <2>2, <2>5, <2>6, <2>7, <2>8, PassBegins DEF epoch
<1>9. CASE RefreshFails
  <2>1. SetFatal("integrity") BY <1>9 DEF RefreshFails
  <2>2. epoch > 0 /\ \E e \in Desired(epoch, now) : Unissuable(e) BY <1>9, ProvisionalSound DEF RefreshFails
  <2>3. PICK e \in Desired(epoch, now) : Unissuable(e) BY <2>2
  <2>4. e \in 1 .. Len(granted)
    <3>1. epoch \in 1 .. Len(granted) BY <1>3, <2>2
    <3>2. e = epoch \/ e \in {epoch - 1} \cap Epochs BY DEF Desired
    <3> QED BY <3>1, <3>2, <1>5
  <2>5. lost > 0 BY <2>3, <2>4, IssuableOrLost
  <2> QED BY <1>0, <1>2, <2>1, <2>5, FatalStep
<1> QED BY <1>6, <1>7, <1>8, <1>9 DEF Refresh

LEMMA EraseStep ==
    ASSUME RenewalInv, SessionKept, NEW x \in Epochs, Erase(x)
    PROVE  RenewalInv'
<1>0. RenewalTypes /\ RenewalTypes' /\ RenewalGrows BY ServiceTypes DEF RenewalInv
<1>1. /\ View(self)' = View(self) /\ log' = log /\ self' = self /\ applied' = applied /\ granted' = granted
      /\ halted' = halted /\ lost' = lost
  BY ServiceViews
<1>2. /\ pass.phase = "erase" /\ x \in pass.doomed
      /\ epochKeys' = [epochKeys EXCEPT ![x] = NoKey] /\ pass' = [pass EXCEPT !.doomed = @ \ {x}]
      /\ UNCHANGED <<minted, certs, provisional, closing, attempts>>
  BY DEF Erase
<1>3. pass \in PassRecord /\ epochKeys \in [Epochs -> Nat] BY <1>0 DEF RenewalTypes
<1>4. /\ pass'.phase = "erase" /\ pass'.doomed = pass.doomed \ {x} /\ pass'.then = pass.then
      /\ pass'.seen = pass.seen /\ pass'.attempt = pass.attempt /\ pass'.why = pass.why /\ pass'.key = pass.key
  BY <1>2, <1>3 DEF PassRecord
<1>5. /\ epochKeys'[x] = NoKey /\ \A e \in Epochs : e # x => epochKeys'[e] = epochKeys[e]
  BY <1>2, <1>3
<1>6. Asked' = Asked BY <1>1, <1>4 DEF Asked
<1>7. KeysOfEpochs'
  <2>0. KeysOfEpochs BY DEF RenewalInv
  <2>1. x <= View(self).epoch \/ self \in View(self).revoked BY <1>2 DEF RenewalInv, PassHolds
  <2>2. \A e \in Epochs : epochKeys'[e] # NoKey =>
             /\ epochKeys'[e] <= minted /\ e <= View(self).epoch + 1
             /\ \A f \in Epochs : epochKeys'[f] = epochKeys'[e] => f = e
             /\ \A i \in 1 .. Len(attempts) :
                   /\ attempts[i].key = epochKeys'[e] => attempts[i].epoch = e
                   /\ attempts[i].epoch <= e + 1
    BY <2>0, <1>5 DEF KeysOfEpochs
  <2>3. lost = 0 => \A i \in 1 .. Len(attempts) :
          \/ epochKeys'[attempts[i].epoch] = attempts[i].key
          \/ /\ epochKeys'[attempts[i].epoch] = NoKey
             /\ attempts[i].epoch <= View(self).epoch \/ self \in View(self).revoked
    <3> SUFFICES ASSUME lost = 0, NEW i \in 1 .. Len(attempts)
                 PROVE  \/ epochKeys'[attempts[i].epoch] = attempts[i].key
                        \/ /\ epochKeys'[attempts[i].epoch] = NoKey
                           /\ attempts[i].epoch <= View(self).epoch \/ self \in View(self).revoked
      OBVIOUS
    <3>1. attempts[i].epoch \in Epochs BY DEF RenewalInv, AttemptsHold, AttemptHolds
    <3>2. CASE attempts[i].epoch = x BY <3>2, <1>5, <2>1
    <3>3. CASE attempts[i].epoch # x BY <3>1, <3>3, <1>5, <2>0 DEF KeysOfEpochs
    <3> QED BY <3>2, <3>3
  <2> QED BY <1>1, <1>2, <2>0, <2>2, <2>3 DEF KeysOfEpochs, Epochs
<1>8. PassHolds' BY <1>1, <1>2, <1>4 DEF RenewalInv, PassHolds
<1>9. AsksHold'
  <2>0. AsksHold BY DEF RenewalInv
  <2>1. pass.then = "candidate" => x < Asked /\ Asked \in Epochs BY <2>0, <1>2 DEF AsksHold
  <2>2. pass.then = "candidate" => epochKeys'[Asked] = epochKeys[Asked] BY <2>1, <1>5 DEF Epochs
  <2>3. \A e \in Epochs : epochKeys'[e] # NoKey => epochKeys[e] # NoKey /\ e # x BY <1>5
  <2>4. pass'.then = "candidate" => \A e \in Epochs : epochKeys'[e] # NoKey =>
                e + 1 >= Asked \/ (pass'.phase = "erase" /\ e \in pass'.doomed)
    BY <2>0, <2>3, <1>4 DEF AsksHold
  <2> QED BY <2>0, <2>2, <2>4, <1>1, <1>2, <1>4, <1>6 DEF AsksHold, Epochs
<1>10. ErasesAll' BY <1>1, <1>2, <1>4, <1>5 DEF RenewalInv, ErasesAll, Epochs
<1>11. PresentedHold' BY <1>1, <1>2 DEF RenewalInv, PresentedHold
<1>12. AlarmsExplained' BY <1>1, <1>4 DEF RenewalInv, AlarmsExplained
<1>13. KeysErased' BY <1>4 DEF KeysErased
<1> QED BY <1>0, <1>2, <1>7, <1>8, <1>9, <1>10, <1>11, <1>12, <1>13, ServiceFrame

LEMMA ErasedStep ==
    ASSUME RenewalInv, SessionKept, Erased
    PROVE  RenewalInv'
<1>0. RenewalTypes /\ RenewalTypes' /\ RenewalGrows BY ServiceTypes DEF RenewalInv
<1>1. /\ View(self)' = View(self) /\ log' = log /\ self' = self /\ applied' = applied /\ granted' = granted
      /\ halted' = halted /\ lost' = lost
  BY ServiceViews
<1>2. /\ pass.phase = "erase" /\ pass.doomed = {} /\ pass' = [pass EXCEPT !.phase = pass.then]
      /\ UNCHANGED <<epochKeys, minted, certs, provisional, closing, attempts>>
  BY DEF Erased
<1>3. pass \in PassRecord BY <1>0 DEF RenewalTypes
<1>4. /\ pass'.phase = pass.then /\ pass'.doomed = {} /\ pass'.then = pass.then /\ pass.then \in {"idle", "candidate", "closed"}
      /\ pass'.seen = pass.seen /\ pass'.attempt = pass.attempt /\ pass'.why = pass.why /\ pass'.key = pass.key
  BY <1>2, <1>3 DEF PassRecord
<1>5. KeysOfEpochs' BY <1>1, <1>2 DEF RenewalInv, KeysOfEpochs
<1>6. PassHolds' BY <1>1, <1>2, <1>4 DEF RenewalInv, PassHolds
<1>7. Asked' = Asked BY <1>1, <1>4 DEF Asked
<1>8. AsksHold' BY <1>1, <1>2, <1>4, <1>7 DEF RenewalInv, AsksHold
<1>9. ErasesAll' BY <1>4 DEF ErasesAll
<1>10. PresentedHold' BY <1>1, <1>2 DEF RenewalInv, PresentedHold
<1>11. AlarmsExplained' BY <1>1, <1>4 DEF RenewalInv, AlarmsExplained
<1>12. KeysErased'
  <2>1. ErasesAll BY DEF RenewalInv
  <2> QED BY <2>1, <1>1, <1>2, <1>4 DEF ErasesAll, KeysErased, NoKeys, Epochs
<1> QED BY <1>0, <1>2, <1>5, <1>6, <1>8, <1>9, <1>10, <1>11, <1>12, ServiceFrame


\* A key made for an epoch is the epoch's own, and no attempt was made with it.
LEMMA CandidateStep ==
    ASSUME RenewalInv, SessionKept, LoadOrCreateCandidate
    PROVE  RenewalInv'
<1>0. RenewalTypes /\ RenewalTypes' /\ RenewalGrows BY ServiceTypes DEF RenewalInv
<1>1. /\ View(self)' = View(self) /\ log' = log /\ self' = self /\ applied' = applied /\ granted' = granted
      /\ halted' = halted /\ lost' = lost
  BY ServiceViews
<1>2. pass.phase = "candidate" /\ UNCHANGED <<certs, provisional, closing, attempts>> BY DEF LoadOrCreateCandidate
<1>3. pass \in PassRecord /\ epochKeys \in [Epochs -> Nat] /\ minted \in Nat BY <1>0 DEF RenewalTypes
<1>4. /\ pass'.phase = "asking" /\ pass'.doomed = pass.doomed /\ pass'.then = pass.then
      /\ pass'.seen = pass.seen /\ pass'.attempt = pass.attempt /\ pass'.why = pass.why
      /\ pass'.key = epochKeys'[Asked]
  BY <1>3 DEF PassRecord, LoadOrCreateCandidate
<1>5. pass.then = "candidate" /\ pass.attempt = 0 BY <1>2 DEF RenewalInv, PassHolds
<1>6. /\ self \notin log[pass.seen].revoked /\ Asked \in Epochs
      /\ \A e \in pass.doomed : e < Asked
      /\ \A i \in 1 .. Len(attempts) :
            /\ attempts[i].epoch <= Asked
            /\ lost = 0 /\ attempts[i].epoch = Asked => epochKeys[Asked] = attempts[i].key
      /\ \A e \in Epochs : epochKeys[e] # NoKey => e + 1 >= Asked
  BY <1>2, <1>5 DEF RenewalInv, AsksHold
<1>7. Asked' = Asked /\ Asked <= View(self).epoch + 1 /\ View(self).epoch \in Nat
  <2>1. Asked' = Asked BY <1>1, <1>4 DEF Asked
  <2>2. log[pass.seen].epoch <= View(self).epoch /\ Asked = log[pass.seen].epoch + 1 /\ pass.seen \in 1 .. Len(log)
    BY AskedTyped
  <2>3. log[pass.seen].epoch \in Nat /\ View(self).epoch \in Nat BY <2>2, RowFacts DEF LogRow
  <2> QED BY <2>1, <2>2, <2>3
<1>8. \A i \in 1 .. Len(attempts) : attempts[i].key \in 1 .. minted /\ attempts[i].epoch \in Epochs
  BY DEF RenewalInv, AttemptsHold, AttemptHolds
<1>9. KeysOfEpochs BY DEF RenewalInv
<1>10. /\ KeysOfEpochs'
       /\ epochKeys'[Asked] \in 1 .. minted'
       /\ \A e \in Epochs : epochKeys'[e] = epochKeys'[Asked] => e = Asked
       /\ \A e \in Epochs : epochKeys'[e] # NoKey => e + 1 >= Asked
       /\ \A i \in 1 .. Len(attempts) :
             /\ attempts[i].key = epochKeys'[Asked] => attempts[i].epoch = Asked
             /\ lost = 0 /\ attempts[i].epoch = Asked => epochKeys'[Asked] = attempts[i].key
  <2>1. CASE epochKeys[Asked] # NoKey /\ UNCHANGED <<epochKeys, minted>>
    <3>1. KeysOfEpochs' BY <1>1, <1>2, <1>9, <2>1 DEF KeysOfEpochs
    <3>2. epochKeys[Asked] \in 1 .. minted BY <1>3, <1>6, <1>9, <2>1 DEF KeysOfEpochs, NoKey
    <3> QED BY <3>1, <3>2, <2>1, <1>6, <1>9 DEF KeysOfEpochs
  <2>2. CASE epochKeys[Asked] = NoKey /\ minted' = minted + 1 /\ epochKeys' = [epochKeys EXCEPT ![Asked] = minted + 1]
    <3>1. /\ epochKeys'[Asked] = minted + 1
          /\ \A e \in Epochs : e # Asked => epochKeys'[e] = epochKeys[e]
      BY <2>2, <1>3, <1>6
    <3>2. \A e \in Epochs : epochKeys[e] <= minted
      BY <1>3, <1>9 DEF KeysOfEpochs, NoKey
    <3>3. \A e \in Epochs : epochKeys'[e] = epochKeys'[Asked] => e = Asked
      <4> SUFFICES ASSUME NEW e \in Epochs, e # Asked PROVE epochKeys'[e] # epochKeys'[Asked] OBVIOUS
      <4>1. epochKeys[e] <= minted /\ epochKeys[e] \in Nat BY <1>3, <3>2
      <4> QED BY <4>1, <3>1, <1>3
    <3>4. \A i \in 1 .. Len(attempts) : attempts[i].key # epochKeys'[Asked] BY <1>3, <1>8, <3>1
    <3>5. lost = 0 => \A i \in 1 .. Len(attempts) : attempts[i].epoch # Asked BY <1>3, <1>6, <1>8, <2>2 DEF NoKey
    <3>6. \A e \in Epochs : epochKeys'[e] # NoKey =>
             /\ epochKeys'[e] <= minted + 1 /\ e <= View(self).epoch + 1
             /\ \A f \in Epochs : epochKeys'[f] = epochKeys'[e] => f = e
             /\ \A i \in 1 .. Len(attempts) :
                   /\ attempts[i].key = epochKeys'[e] => attempts[i].epoch = e
                   /\ attempts[i].epoch <= e + 1
      <4> SUFFICES ASSUME NEW e \in Epochs, epochKeys'[e] # NoKey
                   PROVE  /\ epochKeys'[e] <= minted + 1 /\ e <= View(self).epoch + 1
                          /\ \A f \in Epochs : epochKeys'[f] = epochKeys'[e] => f = e
                          /\ \A i \in 1 .. Len(attempts) :
                                /\ attempts[i].key = epochKeys'[e] => attempts[i].epoch = e
                                /\ attempts[i].epoch <= e + 1
        OBVIOUS
      <4>1. CASE e = Asked
        <5>1. \A i \in 1 .. Len(attempts) : attempts[i].epoch <= Asked + 1
          <6>1. Asked \in Nat BY AskedTyped
          <6>2. \A i \in 1 .. Len(attempts) : attempts[i].epoch \in Nat BY RowFacts DEF AttemptRecord
          <6> QED BY <1>6, <6>1, <6>2
        <5> QED BY <4>1, <5>1, <1>3, <1>7, <3>1, <3>3, <3>4
      <4>2. CASE e # Asked
        <5>1. epochKeys'[e] = epochKeys[e] /\ epochKeys[e] # NoKey BY <4>2, <3>1
        <5>2. /\ epochKeys[e] <= minted /\ e <= View(self).epoch + 1
              /\ \A f \in Epochs : epochKeys[f] = epochKeys[e] => f = e
              /\ \A i \in 1 .. Len(attempts) :
                    /\ attempts[i].key = epochKeys[e] => attempts[i].epoch = e
                    /\ attempts[i].epoch <= e + 1
          BY <5>1, <1>9 DEF KeysOfEpochs
        <5>3. \A f \in Epochs : epochKeys'[f] = epochKeys'[e] => f = e BY <5>1, <5>2, <3>1, <3>3, <4>2
        <5>4. epochKeys'[e] <= minted + 1 BY <5>1, <5>2, <1>3
        <5> QED BY <5>1, <5>2, <5>3, <5>4
      <4> QED BY <4>1, <4>2
    <3>7. lost = 0 => \A i \in 1 .. Len(attempts) :
          \/ epochKeys'[attempts[i].epoch] = attempts[i].key
          \/ /\ epochKeys'[attempts[i].epoch] = NoKey
             /\ attempts[i].epoch <= View(self).epoch \/ self \in View(self).revoked
      <4> SUFFICES ASSUME lost = 0, NEW i \in 1 .. Len(attempts)
                   PROVE  \/ epochKeys'[attempts[i].epoch] = attempts[i].key
                          \/ /\ epochKeys'[attempts[i].epoch] = NoKey
                             /\ attempts[i].epoch <= View(self).epoch \/ self \in View(self).revoked
        OBVIOUS
      <4>1. epochKeys'[attempts[i].epoch] = epochKeys[attempts[i].epoch] BY <3>1, <3>5, <1>8
      <4> QED BY <4>1, <1>9 DEF KeysOfEpochs
    <3>8. KeysOfEpochs' BY <1>1, <1>2, <1>9, <2>2, <3>6, <3>7 DEF KeysOfEpochs, Epochs
    <3>9. \A e \in Epochs : epochKeys'[e] # NoKey => e + 1 >= Asked BY <1>6, <3>1 DEF Epochs
    <3>10. epochKeys'[Asked] \in 1 .. minted' BY <1>3, <2>2, <3>1
    <3> QED BY <3>3, <3>4, <3>5, <3>8, <3>9, <3>10
  <2> QED BY <2>1, <2>2 DEF LoadOrCreateCandidate
<1>11. PassHolds' BY <1>1, <1>2, <1>4, <1>5 DEF RenewalInv, PassHolds
<1>12. AsksHold' BY <1>1, <1>2, <1>4, <1>5, <1>6, <1>7, <1>10 DEF AsksHold, Epochs
<1>13. ErasesAll' /\ KeysErased' BY <1>4 DEF ErasesAll, KeysErased
<1>14. PresentedHold' BY <1>1, <1>2 DEF RenewalInv, PresentedHold
<1>15. AlarmsExplained' BY <1>1, <1>4 DEF RenewalInv, AlarmsExplained
<1> QED BY <1>0, <1>2, <1>10, <1>11, <1>12, <1>13, <1>14, <1>15, ServiceFrame

\* An answer, however it came.
LEMMA AnswerStep ==
    ASSUME RenewalInv, SessionKept, UNCHANGED <<epochKeys, minted, closing, attempts>>,
           RenewalTypes', RenewalGrows, pass.phase = "asking",
           NEW reply \in Replies, NEW peers, HandleAnswer(reply, peers),
           reply = "granted" => Asked \in 1 .. Len(granted), reply = "mismatch" => lost > 0,
           reply = "halted" => halted # {}
    PROVE  RenewalInv'
<1>0. RenewalTypes BY DEF RenewalInv
<1>1. /\ View(self)' = View(self) /\ log' = log /\ self' = self /\ applied' = applied /\ granted' = granted
      /\ halted' = halted /\ lost' = lost
  BY ServiceViews
<1>2. pass \in PassRecord BY <1>0 DEF RenewalTypes
<1>3. pass.then = "candidate" BY DEF RenewalInv, PassHolds
<1>4. self \notin log[pass.seen].revoked BY <1>3 DEF RenewalInv, AsksHold
<1>5. KeysOfEpochs' BY <1>1 DEF RenewalInv, KeysOfEpochs
<1>6. ASSUME FinishPass, PresentedHold' PROVE RenewalInv'
  <2>1. /\ pass'.phase = "idle" /\ pass'.seen = pass.seen /\ pass'.doomed = {} /\ pass'.then = "idle"
        /\ pass'.why = "none" /\ pass'.attempt = 0
    BY <1>6 DEF FinishPass, Pass
  <2>2. PassHolds' BY <1>1, <2>1 DEF RenewalInv, PassHolds
  <2>3. AsksHold' /\ ErasesAll' BY <2>1 DEF AsksHold, ErasesAll
  <2>4. AlarmsExplained' BY <2>1 DEF AlarmsExplained
  <2>5. KeysErased' BY <1>1, <1>4, <2>1 DEF KeysErased
  <2> QED BY <1>5, <1>6, <2>2, <2>3, <2>4, <2>5, ServiceFrame
<1> DEFINE why == IF reply = "unavailable" THEN pass.why ELSE reply
<1>7. CASE reply = "granted"
  <2>1. provisional' = granted[Asked] /\ FinishPass /\ certs' = certs
    BY <1>7 DEF HandleAnswer, InstallProvisional
  <2>2. granted[Asked].epoch = Asked /\ Asked \in 1 .. Len(granted) BY <1>7 DEF RenewalInv, GrantsAnswer
  <2>3. Asked <= View(self).epoch + 1
    <3>1. log[pass.seen].epoch <= View(self).epoch /\ Asked = log[pass.seen].epoch + 1 /\ pass.seen \in 1 .. Len(log)
      BY AskedTyped
    <3>2. log[pass.seen].epoch \in Nat /\ View(self).epoch \in Nat BY <3>1, RowFacts DEF LogRow
    <3> QED BY <3>1, <3>2
  <2>4. PresentedHold' BY <1>1, <2>1, <2>2, <2>3 DEF RenewalInv, PresentedHold
  <2> QED BY <1>6, <2>1, <2>4
<1>8. CASE reply # "granted"
  <2>0. reply # "none" => \/ why \in {"none", "revoked", "superseded", "behind"}
                          \/ lost > 0 \/ (why = "halted" /\ halted # {})
    BY <1>8 DEF RenewalInv, AlarmsExplained, Replies
  <2>a. reply = "none" => why = "none" OBVIOUS
  <2>b. \/ why \in {"none", "revoked", "superseded", "behind"}
        \/ lost > 0 \/ (why = "halted" /\ halted # {})
    BY <2>0, <2>a
  <2>1. ASSUME NEW soft, pass' = [pass EXCEPT !.peers = peers, !.soft = soft, !.why = why, !.attempt = 0],
               UNCHANGED <<certs, provisional>>
        PROVE  RenewalInv'
    <3>1. /\ pass'.phase = "asking" /\ pass'.seen = pass.seen /\ pass'.doomed = pass.doomed
          /\ pass'.then = "candidate" /\ pass'.why = why /\ pass'.attempt = 0 /\ pass'.key = pass.key
      BY <1>2, <1>3, <2>1 DEF PassRecord
    <3>2. Asked' = Asked BY <1>1, <3>1 DEF Asked
    <3>3. PassHolds' BY <1>1, <1>3, <3>1 DEF RenewalInv, PassHolds
    <3>4. AsksHold' BY <1>1, <1>3, <3>1, <3>2 DEF RenewalInv, AsksHold
    <3>5. ErasesAll' /\ KeysErased' BY <3>1 DEF ErasesAll, KeysErased
    <3>6. PresentedHold' BY <1>1, <2>1 DEF RenewalInv, PresentedHold
    <3>7. AlarmsExplained' BY <1>1, <2>b, <3>1 DEF AlarmsExplained
    <3> QED BY <1>5, <3>3, <3>4, <3>5, <3>6, <3>7, ServiceFrame
  <2>2. CASE FinishPass /\ UNCHANGED <<certs, provisional>>
    <3>1. PresentedHold' BY <1>1, <2>2 DEF RenewalInv, PresentedHold
    <3> QED BY <1>6, <2>2, <3>1
  <2>3. CASE SetFatal(why)
    <3> HIDE DEF why
    <3> QED BY <2>3, <2>b, FatalStep
  <2> QED BY <1>8, <2>1, <2>2, <2>3 DEF HandleAnswer
<1> QED BY <1>7, <1>8


\* The cluster is asked once more, with the key of the epoch.
LEMMA SentStep ==
    ASSUME RenewalInv, SessionKept, RenewalTypes', RenewalGrows, UNCHANGED <<epochKeys, minted, closing>>,
           NEW p, pass.phase = "asking", pass.attempt = 0,
           attempts' = Append(attempts, Attempt("sent", "none", Asked, pass.key)),
           pass' = [pass EXCEPT !.peers = @ \ {p}, !.attempt = Len(attempts) + 1],
           UNCHANGED <<certs, provisional>>
    PROVE  RenewalInv'
<1> DEFINE n == Len(attempts)
           b == Attempt("sent", "none", Asked, pass.key)
<1>0. RenewalTypes BY DEF RenewalInv
<1>1. /\ View(self)' = View(self) /\ log' = log /\ self' = self /\ applied' = applied /\ granted' = granted
      /\ halted' = halted /\ lost' = lost
  BY ServiceViews
<1>2. pass \in PassRecord /\ n \in Nat /\ attempts \in Seq(AttemptRecord) /\ minted \in Nat BY <1>0, StateNumbers DEF RenewalTypes
<1>3. /\ pass'.phase = "asking" /\ pass'.seen = pass.seen /\ pass'.doomed = pass.doomed
      /\ pass'.then = pass.then /\ pass'.why = pass.why /\ pass'.attempt = n + 1 /\ pass'.key = pass.key
  BY <1>2 DEF PassRecord
<1>4. pass.then = "candidate" BY DEF RenewalInv, PassHolds
<1>5. AsksHold /\ KeysOfEpochs BY DEF RenewalInv
<1>6. /\ self \notin log[pass.seen].revoked /\ Asked \in Epochs /\ pass.key \in 1 .. minted
      /\ \A e \in Epochs : epochKeys[e] # NoKey => e + 1 >= Asked
  BY <1>4, <1>5 DEF AsksHold
<1>7. Asked' = Asked /\ Asked <= View(self).epoch + 1 /\ Asked \in Nat
  <2>1. Asked' = Asked BY <1>1, <1>3 DEF Asked
  <2>2. log[pass.seen].epoch <= View(self).epoch /\ Asked = log[pass.seen].epoch + 1 /\ pass.seen \in 1 .. Len(log)
    BY AskedTyped
  <2>3. log[pass.seen].epoch \in Nat /\ View(self).epoch \in Nat BY <2>2, RowFacts DEF LogRow
  <2> QED BY <2>1, <2>2, <2>3
<1>8. b \in AttemptRecord /\ b.epoch = Asked /\ b.key = pass.key /\ b.stage = "sent" /\ b.reply = "none" /\ b.endorsers = {}
  <2>1. pass.key \in Nat BY <1>2 DEF PassRecord
  <2>2. b \in AttemptRecord BY <2>1, <1>7, AttemptTyped DEF Replies
  <2> QED BY <2>2 DEF Attempt
<1> HIDE DEF b
<1>9. /\ Len(attempts') = n + 1 /\ attempts'[n + 1] = b /\ \A i \in 1 .. n : attempts'[i] = attempts[i]
  <2>1. attempts' = Append(attempts, b) BY DEF b
  <2> QED BY <1>2, <1>8, <2>1
<1>10. StepFrame BY RowsKept DEF SessionKept
<1>11. AttemptsHold'
  <2>1. ASSUME NEW i \in 1 .. Len(attempts') PROVE AttemptHolds(attempts[i])'
    <3>1. CASE i \in 1 .. n
      <4>1. attempts[i] \in AttemptRecord /\ AttemptHolds(attempts[i]) BY <3>1, RowFacts DEF RenewalInv, AttemptsHold
      <4> QED BY <1>9, <1>10, <3>1, <4>1, AttemptStable
    <3>2. CASE i = n + 1
      <4>1. AttemptHolds(b) BY <1>6, <1>7, <1>8 DEF AttemptHolds, CutStages
      <4> QED BY <1>8, <1>9, <1>10, <3>2, <4>1, AttemptStable
    <3> QED BY <3>1, <3>2, <1>2, <1>9
  <2> QED BY <2>1 DEF AttemptsHold
<1>12. GrantsAnswer' /\ GrantsSpaced' /\ NotFarFuture' /\ HaltsExplained' BY <1>1, <1>10, GrantsStable, HaltsStable
<1>13. \A i \in 1 .. Len(attempts') : i = n + 1 \/ i \in 1 .. n BY <1>2, <1>9
<1>14. \A j \in 1 .. n : /\ attempts[j].key = pass.key => attempts[j].epoch = Asked
                         /\ lost = 0 /\ attempts[j].epoch = Asked => attempts[j].key = pass.key
                         /\ attempts[j].epoch <= Asked
  BY <1>4, <1>5 DEF AsksHold
<1>15. KeysOfEpochs'
  <2>1. \A i, j \in 1 .. Len(attempts') :
          /\ attempts'[i].key = attempts'[j].key => attempts'[i].epoch = attempts'[j].epoch
          /\ lost = 0 /\ attempts'[i].epoch = attempts'[j].epoch => attempts'[i].key = attempts'[j].key
    <3> TAKE i, j \in 1 .. Len(attempts')
    <3>1. CASE i \in 1 .. n /\ j \in 1 .. n BY <1>5, <1>9, <3>1 DEF KeysOfEpochs
    <3>2. CASE i = n + 1 /\ j \in 1 .. n BY <1>8, <1>9, <1>14, <3>2
    <3>3. CASE i \in 1 .. n /\ j = n + 1 BY <1>8, <1>9, <1>14, <3>3
    <3>4. CASE i = n + 1 /\ j = n + 1 BY <3>4
    <3> QED BY <1>13, <3>1, <3>2, <3>3, <3>4
  <2>2. \A e \in Epochs : epochKeys[e] # NoKey =>
          /\ epochKeys[e] <= minted /\ e <= View(self).epoch + 1
          /\ \A f \in Epochs : epochKeys[f] = epochKeys[e] => f = e
          /\ \A i \in 1 .. Len(attempts') :
                /\ attempts'[i].key = epochKeys[e] => attempts'[i].epoch = e
                /\ attempts'[i].epoch <= e + 1
    <3> SUFFICES ASSUME NEW e \in Epochs, epochKeys[e] # NoKey
                 PROVE  /\ epochKeys[e] <= minted /\ e <= View(self).epoch + 1
                        /\ \A f \in Epochs : epochKeys[f] = epochKeys[e] => f = e
                        /\ \A i \in 1 .. Len(attempts') :
                              /\ attempts'[i].key = epochKeys[e] => attempts'[i].epoch = e
                              /\ attempts'[i].epoch <= e + 1
      OBVIOUS
    <3>1. /\ epochKeys[e] <= minted /\ e <= View(self).epoch + 1
          /\ \A f \in Epochs : epochKeys[f] = epochKeys[e] => f = e
      BY <1>5 DEF KeysOfEpochs
    <3>2. ASSUME NEW i \in 1 .. Len(attempts')
          PROVE  /\ attempts'[i].key = epochKeys[e] => attempts'[i].epoch = e
                 /\ attempts'[i].epoch <= e + 1
      <4>1. CASE i \in 1 .. n BY <1>5, <1>9, <4>1 DEF KeysOfEpochs
      <4>2. CASE i = n + 1
        <5>1. epochKeys[e] = pass.key => e = Asked BY <1>5 DEF AsksHold
        <5>2. Asked <= e + 1 BY <1>6, <1>7 DEF Epochs
        <5> QED BY <4>2, <5>1, <5>2, <1>8, <1>9
      <4> QED BY <1>13, <4>1, <4>2
    <3> QED BY <3>1, <3>2
  <2>3. lost = 0 => \A i \in 1 .. Len(attempts') :
          \/ epochKeys[attempts'[i].epoch] = attempts'[i].key
          \/ /\ epochKeys[attempts'[i].epoch] = NoKey
             /\ attempts'[i].epoch <= View(self).epoch \/ self \in View(self).revoked
    <3> SUFFICES ASSUME lost = 0, NEW i \in 1 .. Len(attempts')
                 PROVE  \/ epochKeys[attempts'[i].epoch] = attempts'[i].key
                        \/ /\ epochKeys[attempts'[i].epoch] = NoKey
                           /\ attempts'[i].epoch <= View(self).epoch \/ self \in View(self).revoked
      OBVIOUS
    <3>1. CASE i \in 1 .. n BY <1>5, <1>9, <3>1 DEF KeysOfEpochs
    <3>2. CASE i = n + 1 BY <1>5, <1>8, <1>9, <3>2 DEF AsksHold
    <3> QED BY <1>13, <3>1, <3>2
  <2> QED BY <1>1, <2>1, <2>2, <2>3 DEF KeysOfEpochs, Epochs
<1>16. PassHolds' BY <1>1, <1>3, <1>4 DEF RenewalInv, PassHolds
<1>17. AsksHold'
  <2>1. \A i \in 1 .. Len(attempts') :
           /\ attempts'[i].epoch <= Asked
           /\ lost = 0 /\ attempts'[i].epoch = Asked => epochKeys[Asked] = attempts'[i].key
           /\ attempts'[i].key = pass.key => attempts'[i].epoch = Asked
    <3> TAKE i \in 1 .. Len(attempts')
    <3>1. CASE i \in 1 .. n BY <1>4, <1>5, <1>9, <1>14, <3>1 DEF AsksHold
    <3>2. CASE i = n + 1 BY <1>5, <1>7, <1>8, <1>9, <3>2 DEF AsksHold
    <3> QED BY <1>13, <3>1, <3>2
  <2>2. n + 1 \in 1 .. Len(attempts') /\ attempts'[n + 1].epoch = Asked BY <1>2, <1>8, <1>9
  <2> QED BY <1>1, <1>3, <1>4, <1>5, <1>6, <1>7, <2>1, <2>2 DEF AsksHold, Epochs
<1>18. ErasesAll' /\ KeysErased' BY <1>3 DEF ErasesAll, KeysErased
<1>19. PresentedHold' BY <1>1 DEF RenewalInv, PresentedHold
<1>20. AlarmsExplained' BY <1>1, <1>3 DEF RenewalInv, AlarmsExplained
<1> QED BY <1>10, <1>11, <1>12, <1>15, <1>16, <1>17, <1>18, <1>19, <1>20 DEF RenewalInv, StepFrame

LEMMA AskStep ==
    ASSUME RenewalInv, SessionKept, NEW p \in Nodes, Ask(p)
    PROVE  RenewalInv'
<1> DEFINE verdict == BindingVerdict(applied[p], Asked, pass.key)
<1>0. RenewalTypes /\ RenewalTypes' /\ RenewalGrows BY ServiceTypes DEF RenewalInv
<1>1. pass.phase = "asking" /\ pass.attempt = 0 /\ UNCHANGED <<epochKeys, minted, closing>> BY DEF Ask
<1>2. applied[p] \in 1 .. Len(log) /\ Asked \in Nat \ {0} BY RowFacts, AskedTyped DEF Everyone
<1>3. /\ verdict \in {"revoked", "next", "behind", "superseded", "granted", "mismatch"}
      /\ verdict \in {"granted", "mismatch"} => Asked \in 1 .. Len(granted)
      /\ verdict = "mismatch" => granted[Asked].key # pass.key
  BY <1>2, VerdictGrants
<1>4. verdict = "mismatch" => lost > 0
  <2> SUFFICES ASSUME verdict = "mismatch", lost = 0 PROVE FALSE BY <1>0 DEF RenewalTypes
  <2>1. PICK i \in 1 .. Len(attempts) : attempts[i].epoch = Asked /\ attempts[i].key = granted[Asked].key
    BY <1>3 DEF RenewalInv, GrantsAnswer
  <2>2. pass.then = "candidate" BY <1>1 DEF RenewalInv, PassHolds
  <2>3. epochKeys[Asked] = attempts[i].key /\ epochKeys[Asked] = pass.key
    BY <1>1, <2>1, <2>2 DEF RenewalInv, AsksHold
  <2> QED BY <1>3, <2>1, <2>3
<1> HIDE DEF verdict
<1>5. CASE /\ attempts' = Append(attempts, Attempt("sent", "none", Asked, pass.key))
           /\ pass' = [pass EXCEPT !.peers = @ \ {p}, !.attempt = Len(attempts) + 1]
           /\ UNCHANGED <<certs, provisional>>
  BY <1>0, <1>1, <1>5, SentStep
<1>6. CASE verdict # "next" /\ HandleAnswer(verdict, pass.peers \ {p}) /\ UNCHANGED attempts
  <2>1. verdict \in Replies /\ verdict # "halted" BY <1>3, <1>6 DEF Replies
  <2> QED BY <1>0, <1>1, <1>3, <1>4, <1>6, <2>1, AnswerStep
<1>7. CASE HandleAnswer("unavailable", pass.peers \ {p}) /\ UNCHANGED attempts
  BY <1>0, <1>1, <1>7, AnswerStep DEF Replies
<1> QED BY <1>5, <1>6, <1>7 DEF Ask, verdict

LEMMA TakeReplyStep ==
    ASSUME RenewalInv, SessionKept, TakeReply
    PROVE  RenewalInv'
<1> DEFINE a == attempts[pass.attempt]
<1>0. RenewalTypes /\ RenewalTypes' /\ RenewalGrows BY ServiceTypes DEF RenewalInv
<1>1. pass.phase = "asking" /\ pass.attempt # 0 /\ UNCHANGED <<epochKeys, minted, closing, attempts>>
      /\ HandleAnswer(a.reply, pass.peers)
  BY DEF TakeReply
<1>2. pass.attempt \in 1 .. Len(attempts) /\ a.epoch = Asked BY <1>1 DEF RenewalInv, AsksHold
<1>3. a \in AttemptRecord /\ AttemptHolds(a) BY <1>2, RowFacts DEF RenewalInv, AttemptsHold
<1>4. Asked \in Nat \ {0} /\ Len(granted) \in Nat BY <1>0, AskedTyped, StateNumbers
<1>5. /\ a.reply \in Replies
      /\ a.reply = "granted" => Asked \in 1 .. Len(granted)
      /\ a.reply = "mismatch" => lost > 0
      /\ a.reply = "halted" => halted # {}
  BY <1>2, <1>3, <1>4 DEF AttemptHolds, AttemptRecord
<1> HIDE DEF a
<1> QED BY <1>0, <1>1, <1>5, AnswerStep

LEMMA BeginCloseStep ==
    ASSUME RenewalInv, SessionKept, BeginClose
    PROVE  RenewalInv'
<1>0. RenewalTypes /\ RenewalTypes' /\ RenewalGrows BY ServiceTypes DEF RenewalInv
<1>1. /\ View(self)' = View(self) /\ log' = log /\ self' = self /\ applied' = applied /\ granted' = granted
      /\ halted' = halted /\ lost' = lost
      /\ View(self) = log[applied[self]] /\ View(self) \in LogRow /\ applied[self] \in 1 .. Len(log)
  BY ServiceViews
<1>2. /\ closing = 0 /\ pass.phase # "closed" /\ UNCHANGED <<epochKeys, minted, certs, provisional, pass, attempts>>
      /\ closing' = IF self \in View(self).revoked THEN applied[self] ELSE -1
  BY DEF BeginClose
<1>3. pass.then # "closed" BY <1>2 DEF RenewalInv, PassHolds
<1>4. Asked' = Asked BY <1>1, <1>2 DEF Asked
<1>5. KeysOfEpochs' BY <1>1, <1>2 DEF RenewalInv, KeysOfEpochs
<1>6. PassHolds'
  <2>0. applied[self] \in Nat /\ applied[self] >= 1 BY <1>0, <1>1, StateNumbers
  <2>1. closing' >= -1 /\ (closing' > 0 => closing' <= applied'[self'] /\ self' \in log'[closing'].revoked)
    <3>1. CASE self \in View(self).revoked
      <4>1. closing' = applied[self] BY <1>2, <3>1
      <4> QED BY <1>1, <2>0, <3>1, <4>1
    <3>2. CASE self \notin View(self).revoked
      <4>1. closing' = -1 BY <1>2, <3>2
      <4> QED BY <4>1
    <3> QED BY <3>1, <3>2
  <2> QED BY <1>1, <1>2, <1>3, <2>1 DEF RenewalInv, PassHolds
<1>7. AsksHold' BY <1>1, <1>2, <1>4 DEF RenewalInv, AsksHold
<1>8. ErasesAll' BY <1>1, <1>2, <1>3 DEF RenewalInv, ErasesAll
<1>9. PresentedHold' /\ AlarmsExplained' BY <1>1, <1>2 DEF RenewalInv, PresentedHold, AlarmsExplained
<1>10. KeysErased' BY <1>1, <1>2 DEF RenewalInv, KeysErased, NoKeys
<1> QED BY <1>0, <1>2, <1>5, <1>6, <1>7, <1>8, <1>9, <1>10, ServiceFrame

LEMMA WorkerExitsStep ==
    ASSUME RenewalInv, SessionKept, WorkerExits
    PROVE  RenewalInv'
<1> DEFINE doomed == IF closing = -1 THEN {} ELSE InactiveEpochs(log[closing].epoch)
<1>0. RenewalTypes /\ RenewalTypes' /\ RenewalGrows BY ServiceTypes DEF RenewalInv
<1>1. /\ View(self)' = View(self) /\ log' = log /\ self' = self /\ applied' = applied /\ granted' = granted
      /\ halted' = halted /\ lost' = lost
      /\ View(self) = log[applied[self]] /\ View(self) \in LogRow /\ applied[self] \in 1 .. Len(log)
  BY ServiceViews
<1>2. /\ closing # 0 /\ certs' = {} /\ provisional' = NoGrant
      /\ pass' = Pass("erase", pass.seen, doomed, "closed")
      /\ UNCHANGED <<epochKeys, minted, closing, attempts>>
  BY DEF WorkerExits
<1>3. /\ pass'.phase = "erase" /\ pass'.seen = pass.seen /\ pass'.doomed = doomed /\ pass'.then = "closed"
      /\ pass'.why = "none" /\ pass'.attempt = 0
  BY <1>2 DEF Pass
<1>4. closing > 0 => /\ self \in View(self).revoked /\ doomed = InactiveEpochs(View(self).epoch)
  <2> SUFFICES ASSUME closing > 0 PROVE self \in View(self).revoked /\ doomed = InactiveEpochs(View(self).epoch)
    OBVIOUS
  <2>1. closing <= applied[self] /\ self \in log[closing].revoked /\ closing \in Int BY <1>0 DEF RenewalInv, PassHolds, RenewalTypes
  <2>2. Len(log) \in Nat BY <1>0, StateNumbers
  <2>3. closing \in 1 .. Len(log) BY <1>1, <2>1, <2>2
  <2>4. log[closing].revoked \subseteq log[applied[self]].revoked /\ log[applied[self]].epoch = log[closing].epoch
    BY <1>1, <2>1, <2>3 DEF RenewalInv, RowsForward
  <2> QED BY <1>1, <2>1, <2>4
<1>5. closing = -1 \/ closing > 0
  <2>1. closing >= -1 /\ closing \in Int BY <1>0 DEF RenewalInv, PassHolds, RenewalTypes
  <2> QED BY <1>2, <2>1
<1>6. KeysOfEpochs' BY <1>1, <1>2 DEF RenewalInv, KeysOfEpochs
<1>7. PassHolds'
  <2>1. \A e \in doomed : e <= View(self).epoch \/ self \in View(self).revoked BY <1>4, <1>5
  <2> HIDE DEF doomed
  <2> QED BY <1>1, <1>2, <1>3, <2>1 DEF RenewalInv, PassHolds
<1>8. AsksHold' /\ KeysErased' /\ AlarmsExplained' BY <1>3 DEF AsksHold, KeysErased, AlarmsExplained
<1>9. ErasesAll'
  <2>1. ASSUME NEW e \in Epochs, epochKeys[e] # NoKey, closing > 0 PROVE e \in doomed
    BY <2>1, <1>4, KeysNear
  <2> HIDE DEF doomed
  <2> QED BY <1>1, <1>2, <1>3, <2>1 DEF ErasesAll, Epochs
<1>10. PresentedHold' BY <1>2 DEF PresentedHold
<1> QED BY <1>0, <1>2, <1>6, <1>7, <1>8, <1>9, <1>10, ServiceFrame

LEMMA ServiceStep ==
    ASSUME RenewalInv, ServiceNext
    PROVE  RenewalInv'
<1>0. SessionKept BY DEF ServiceNext, SessionKept, sessionVars
<1>1. CASE RecoverKeys BY <1>0, <1>1, RefreshStep DEF RecoverKeys
<1>2. CASE Reconcile BY <1>0, <1>2, RefreshStep DEF Reconcile
<1>3. CASE \E e \in Epochs : Erase(e) BY <1>0, <1>3, EraseStep
<1>4. CASE Erased BY <1>0, <1>4, ErasedStep
<1>5. CASE LoadOrCreateCandidate BY <1>0, <1>5, CandidateStep
<1>6. CASE \E p \in Nodes : Ask(p) BY <1>0, <1>6, AskStep
<1>7. CASE TakeReply BY <1>0, <1>7, TakeReplyStep
<1>8. CASE BeginClose BY <1>0, <1>8, BeginCloseStep
<1>9. CASE WorkerExits BY <1>0, <1>9, WorkerExitsStep
<1> QED BY <1>1, <1>2, <1>3, <1>4, <1>5, <1>6, <1>7, <1>8, <1>9 DEF ServiceNext

LEMMA RenewalStart ==
    ASSUME RenewalInit PROVE RenewalInv
<1> DEFINE row == [epoch |-> 0, entity |-> 0, version |-> 1, revoked |-> {}]
<1>1. /\ self \in Subjects /\ log = <<row>> /\ granted = << >> /\ time = 0 /\ applied = [d \in Everyone |-> 1]
      /\ halted = {} /\ attempts = << >> /\ epochKeys = [e \in Epochs |-> NoKey] /\ minted = 0
      /\ certs = {} /\ provisional = NoGrant /\ closing = 0 /\ pass = Pass("down", 1, {}, "idle")
      /\ lost = 0 /\ stops = 0
  BY DEF RenewalInit
<1>2. PICK S \in AuthoritySets : sets = <<S>> BY DEF RenewalInit
<1>3. PICK d \in Nodes : leader = [id |-> d, term |-> 1] BY DEF RenewalInit
<1>4. row \in LogRow /\ row.epoch = 0 /\ row.version = 1 /\ row.revoked = {} BY DEF LogRow
<1>5. log \in Seq(LogRow) /\ Len(log) = 1 /\ log[1] = row
  <2> HIDE DEF row
  <2> QED BY <1>1, <1>4
<1>6. sets \in Seq(AuthoritySets) /\ Len(sets) = 1 BY <1>2
<1>7. granted \in Seq(Grant) /\ Len(granted) = 0 /\ attempts \in Seq(AttemptRecord) /\ Len(attempts) = 0
      /\ DOMAIN granted = {}
  BY <1>1
<1>8. pass \in PassRecord BY <1>1, PassIsTyped
<1>9. self \in Everyone /\ applied[self] = 1 BY <1>1 DEF Everyone
<1> HIDE DEF row
<1>10. RenewalTypes
  BY <1>1, <1>3, <1>5, <1>6, <1>7, <1>8 DEF RenewalTypes, NoKey, NoGrant, Grant
<1>11. RowsForward BY <1>4, <1>5, <1>6, <1>7 DEF RowsForward, Committed, LogRow
<1>12. GrantsAnswer /\ GrantsSpaced /\ NotFarFuture /\ AttemptsHold
  BY <1>7 DEF GrantsAnswer, GrantsSpaced, NotFarFuture, AttemptsHold
<1>13. KeysOfEpochs BY <1>1, <1>7 DEF KeysOfEpochs
<1>14. pass.phase = "down" /\ pass.then = "idle" /\ pass.seen = 1 /\ pass.attempt = 0 /\ pass.why = "none"
  BY <1>1 DEF Pass
<1>15. PassHolds /\ AsksHold /\ ErasesAll /\ KeysErased /\ AlarmsExplained
  BY <1>1, <1>9, <1>14 DEF PassHolds, AsksHold, ErasesAll, KeysErased, AlarmsExplained
<1>16. PresentedHold /\ HaltsExplained BY <1>1 DEF PresentedHold, HaltsExplained
<1> QED BY <1>10, <1>11, <1>12, <1>13, <1>15, <1>16 DEF RenewalInv

\* The invariant implies what the run checks.
LEMMA RenewalInvSound ==
    ASSUME RenewalInv PROVE RenewalSound
<1>0. RenewalTypes BY DEF RenewalInv
<1>1. DOMAIN granted = 1 .. Len(granted) /\ Len(granted) \in Nat BY <1>0, StateNumbers DEF RenewalTypes
<1>2. CertificatesBacked
  <2>1. \A g \in certs : g.epoch \in 1 .. Len(granted) /\ g = granted[g.epoch] BY DEF RenewalInv, PresentedHold
  <2>2. provisional # NoGrant => provisional.epoch \in 1 .. Len(granted) /\ provisional = granted[provisional.epoch]
    BY DEF RenewalInv, PresentedHold
  <2> QED BY <1>1, <2>1, <2>2 DEF CertificatesBacked, Held
<1>3. AtMostTwoValid
  <2> SUFFICES ASSUME NEW e \in 1 .. Len(granted), NEW f \in 1 .. Len(granted), e + 2 <= f
               PROVE  granted[e].notBefore + ValidityTime <= granted[f].notBefore
    BY <1>1 DEF AtMostTwoValid
  <2> DEFINE x == granted[e].notBefore
             y == granted[e + 1].notBefore
             z == granted[f].notBefore
  <2>1. e + 1 \in 1 .. Len(granted) /\ e < e + 1 /\ e + 1 < f BY <1>1
  <2>2. x + ValidityTime - OverlapTime <= y /\ y + ValidityTime - OverlapTime <= z
    BY <2>1 DEF RenewalInv, GrantsSpaced
  <2>3. x \in Int /\ y \in Int /\ z \in Int BY <2>1, RowFacts DEF Grant
  <2>4. ValidityTime \in Nat /\ OverlapTime \in Nat /\ 2 * OverlapTime <= ValidityTime BY RenewalAssumption
  <2> HIDE DEF x, y, z
  <2>5. x + ValidityTime <= z BY <2>2, <2>3, <2>4
  <2> QED BY <2>5 DEF x, z
<1> QED BY <1>2, <1>3 DEF RenewalInv, RenewalSound

\* The renewal is sound for every cluster, clock error, order of events and loss: what
\* the service presents was authorized for the key it has, no authorization is for a time
\* far ahead, at most two epochs are valid at once, alarms and halts have a cause outside
\* the service, and a revoked device keeps no key (credentialservice, AuthorizeCredential).
THEOREM RenewalIsSound == RenewalSpec => []RenewalSound
<1>1. RenewalInit => RenewalInv BY RenewalStart
<1>2. RenewalInv /\ [RenewalNext]_renewalVars => RenewalInv'
  <2> SUFFICES ASSUME RenewalInv, [RenewalNext]_renewalVars PROVE RenewalInv' OBVIOUS
  <2>1. CASE ServiceNext BY <2>1, ServiceStep
  <2>2. CASE LeaderNext BY <2>2, LeaderStep
  <2>3. CASE WorldNext BY <2>3, WorldStep
  <2>4. CASE UNCHANGED renewalVars
    <3>1. RenewalTypes' BY <2>4 DEF RenewalInv, RenewalTypes, renewalVars
    <3>2. RenewalGrows BY <2>4, StateNumbers DEF RenewalInv, RenewalTypes, RenewalGrows, renewalVars
    <3>3. StepFrame BY <2>4, <3>1, <3>2, RowsKept DEF renewalVars
    <3> QED BY <2>4, <3>3, QuietStep DEF renewalVars, CreditsKept
  <2> QED BY <2>1, <2>2, <2>3, <2>4 DEF RenewalNext
<1>3. RenewalInv => RenewalSound BY RenewalInvSound
<1> QED BY <1>1, <1>2, <1>3, PTL DEF RenewalSpec

-----------------------------------------------------------------------------
(* Pairing and join *)

Steps == {"idle", "requesting", "review", "deciding", "declining", "bootstrap",
          "authorized", "staged", "owned", "opened", "installed"}
Exchange == {"requesting", "review", "deciding", "declining"}
Bootstrap == {"bootstrap", "authorized", "staged", "owned", "opened", "installed"}
Confirmed == {"confirmed", "installing", "installing_owned"}
Modes == {"new", "rebootstrap", "readmission"}

\* The values of the tables, calls and files.
InviteValues == [state : {"unused", "pruned"} \cup Live \cup Terminal, mode : Modes,
                 epoch : Nat, version : Nat, failures : Nat, consumedBy : Attempts \cup {None}]
AttemptValues == [state : {"none", "awaiting_sas", "finalizing"} \cup Finished,
                  invite : Invites \cup {None}, input : Nat, remote : BOOLEAN,
                  declinedBy : {"local", "remote", None}]
Tables == [invite : [Invites -> InviteValues],
           attempt : [Attempts \cup Strangers -> AttemptValues],
           deletions : SUBSET Invites,
           command : [Attempts -> {"none", "pending", "accepted", "rejected"}]]
JournalValues == [phase : {"none", "decision_approved"} \cup Confirmed,
                  attempt : Attempts \cup {None}, mode : Modes, epoch : Nat, root : Nat]
Creations == {None} \cup [invite : Invites, stored : BOOLEAN]
Finalizers == {None} \cup [attempt : Attempts, outcome : {"none", "pending", "accepted", "rejected"}]
Joiners == [step : Steps, attempt : Attempts \cup {None}, invite : Invites \cup {None}, connected : BOOLEAN]
Members == [status : {"absent", "active", "readmit"}, version : Nat, epoch : Nat,
            cut : Nat, owner : BOOLEAN, configured : BOOLEAN]
Destinations == [kind : {"absent", "predecessor", "foreign", "empty", "installed"},
                 root : Nat, attempt : Attempts \cup {None}]

JoinValues ==
    /\ db \in Tables /\ calls \subseteq Calls
    /\ creating \in Creations /\ finalizer \in Finalizers
    /\ member \in Members
    /\ proposed \in [Attempts -> {"none", "sent", "accepted", "rejected"}]
    /\ snapshots \in Nat
    /\ journal \in JournalValues
    /\ dest \in Destinations /\ joiner \in Joiners
    /\ said \in [Attempts -> {"unused", "asked", "yes", "no"}]
    /\ tried \in [Invites -> SUBSET (Strangers \X (1..2))]

\* An attempt, the invite it belongs to, and the kind of that invite.
St(D, a) == D.attempt[a].state
Of(D, a) == D.attempt[a].invite
ModeOf(D, a) == D.invite[Of(D, a)].mode

\* An invite that was used, ended or dropped.
Spent(D, i) == D.invite[i].state \notin {"unused", "preparing", "outstanding"}

\* An attempt is in the table while the invite it consumed is; it goes on only with the
\* joiner's yes; and its reserved command follows the ledger.
AttemptSound(D, S, P, a) ==
    /\ St(D, a) # "none" =>
          /\ St(D, a) # "proof_rejected" /\ Of(D, a) \in Invites
          /\ D.invite[Of(D, a)].state = "consumed" /\ D.invite[Of(D, a)].consumedBy = a
    /\ St(D, a) \in {"finalizing", "completed"} \/ D.attempt[a].remote \/ D.command[a] # "none"
          => S[a] = "yes"
    /\ S[a] = "unused" => St(D, a) = "none"
    /\ D.command[a] \in {"accepted", "rejected"} => P[a] = D.command[a]
    /\ P[a] # "none" => D.command[a] # "none"
    /\ D.command[a] = "pending" => St(D, a) = "finalizing"
    /\ D.command[a] = "accepted" => St(D, a) \in {"finalizing", "completed", "none"}
    /\ St(D, a) = "awaiting_sas" => D.command[a] = "none"
    /\ St(D, a) \in {"finalizing", "completed"} /\ ModeOf(D, a) = "rebootstrap" =>
          D.command[a] = "none"
    /\ St(D, a) = "completed" /\ ModeOf(D, a) # "rebootstrap" => D.command[a] = "accepted"

\* A call names the invite of its attempt, and a request that was answered can no longer
\* find its invite outstanding.
CallSound(D, S, W, c) ==
    /\ St(D, c.attempt) # "none" => Of(D, c.attempt) = c.invite
    /\ S[c.attempt] # "unused"
    /\ c.op = "confirm" => S[c.attempt] = "yes"
    /\ c.op = "request"
          /\ (S[c.attempt] \in {"yes", "no"} \/ (W.step = "review" /\ W.attempt = c.attempt))
        => Spent(D, c.invite)
    /\ W.step = "requesting" /\ W.attempt = c.attempt => c.invite = W.invite

\* The joiner's exchange and journal.
JoinerSound(D, S, W, N) ==
    /\ W.step \in Exchange => W.attempt \in Attempts /\ W.invite \in Invites
    /\ W.step \in {"requesting", "review"} => S[W.attempt] = "asked"
    /\ W.step = "deciding" => /\ S[W.attempt] = "yes"
                              /\ N.attempt = W.attempt /\ N.phase = "decision_approved"
    /\ W.step = "requesting" /\ St(D, W.attempt) # "none" => Of(D, W.attempt) = W.invite
    /\ W.step \in Bootstrap => N.phase \in Confirmed
    /\ N.phase \in Confirmed /\ N.mode = "rebootstrap" =>
          /\ N.attempt \in Attempts /\ S[N.attempt] = "yes"
          /\ St(D, N.attempt) \in {"completed", "none"}
    /\ N.phase = "none" => N = NoJournal

\* What the holder of finalizeMu read still stands.
FinalizerSound(D, F) ==
    F # None =>
        /\ St(D, F.attempt) = "finalizing"
        /\ F.outcome \in {"accepted", "rejected"} /\ ModeOf(D, F.attempt) # "rebootstrap" =>
              D.command[F.attempt] = F.outcome

\* Every wrong proof on record was tried, and every one tried was charged.
ProofsSound(D, T) ==
    /\ \A i \in Invites :
          /\ IsFiniteSet(T[i])
          /\ D.invite[i].state \in {"unused", "preparing"} => T[i] = {}
          /\ D.invite[i].state = "outstanding" => D.invite[i].failures >= Cardinality(T[i])
    /\ \A s \in Strangers :
          St(D, s) = "proof_rejected" =>
              Of(D, s) \in Invites /\ <<s, D.attempt[s].input>> \in T[Of(D, s)]

\* The inviter's tables beside what is said, called, proposed and tried.
TablesSound(D, K, S, P, F, T, W, N) ==
    /\ \A a \in Attempts : AttemptSound(D, S, P, a)
    /\ \A c \in K : CallSound(D, S, W, c)
    /\ \A c, d \in K : c.attempt = d.attempt => c.invite = d.invite
    /\ JoinerSound(D, S, W, N) /\ FinalizerSound(D, F) /\ ProofsSound(D, T)

\* The destination is owned before it is written, and written with a snapshot that
\* covers the authorization.
InstallSound ==
    /\ joiner.step \in {"owned", "opened", "installed"} => journal.phase = "installing_owned"
    /\ joiner.step \notin {"idle", "installed"} => dest.kind # "installed"
    /\ joiner.step = "opened" => dest.kind \notin {"absent", "foreign"}
    /\ joiner.step \in {"authorized", "staged", "owned", "opened", "installed"} => Admitted
    /\ joiner.step \in {"staged", "owned", "opened", "installed"} => journal.root >= member.cut
    /\ InstalledCovers

JoinInv ==
    /\ JoinValues /\ InstallSound
    /\ TablesSound(db, calls, said, proposed, finalizer, tried, joiner, journal)

-----------------------------------------------------------------------------
(* What the transactions do to the tables *)

\* The states that end an invite other than by its use.
Ended == {"revoked", "expired", "proof_exhausted", "abandoned", "pruned"}

\* What maintenance, pruning and the end of an invite have in common: the reserved
\* commands stay; an invite only ends, and the consumed one only when its attempt has
\* left the table; an attempt only expires while it waits, or leaves when it is finished.
Sweep(D, E) ==
    /\ E \in Tables /\ E.command = D.command
    /\ \A i \in Invites :
          /\ E.invite[i].mode = D.invite[i].mode
          /\ E.invite[i].failures = D.invite[i].failures
          /\ E.invite[i].consumedBy = D.invite[i].consumedBy
          /\ \/ E.invite[i].state = D.invite[i].state
             \/ D.invite[i].state # "unused" /\ E.invite[i].state \in Ended
    /\ \A a \in Attempts \cup Strangers :
          \/ E.attempt[a] = D.attempt[a]
          \/ D.attempt[a].state = "awaiting_sas" /\ E.attempt[a] = [D.attempt[a] EXCEPT !.state = "expired"]
          \/ D.attempt[a].state \in Finished /\ E.attempt[a] = NoAttempt
    /\ \A a \in Attempts, i \in Invites :
          E.attempt[a].state # "none" /\ E.attempt[a].invite = i /\ D.invite[i].state = "consumed"
              => E.invite[i].state = "consumed"

LEMMA NoRows == NoAttempt \in AttemptValues /\ NoInvite \in InviteValues
  <1>1. NoAttempt \in AttemptValues BY DEF NoAttempt, AttemptValues
  <1>2. NoInvite \in InviteValues BY DEF NoInvite, InviteValues, Modes
  <1> QED BY <1>1, <1>2

\* The fields of the tables, and the tables rebuilt from new fields.
LEMMA TableFields ==
    ASSUME NEW D \in Tables
    PROVE  /\ D.invite \in [Invites -> InviteValues]
           /\ D.attempt \in [Attempts \cup Strangers -> AttemptValues]
           /\ D.deletions \subseteq Invites
           /\ D.command \in [Attempts -> {"none", "pending", "accepted", "rejected"}]
  BY DEF Tables

LEMMA PutInvites ==
    ASSUME NEW D \in Tables, NEW f \in [Invites -> InviteValues]
    PROVE  /\ [D EXCEPT !.invite = f] \in Tables
           /\ [D EXCEPT !.invite = f].invite = f
           /\ [D EXCEPT !.invite = f].attempt = D.attempt
           /\ [D EXCEPT !.invite = f].deletions = D.deletions
           /\ [D EXCEPT !.invite = f].command = D.command
  BY DEF Tables

LEMMA PutAttempts ==
    ASSUME NEW D \in Tables, NEW g \in [Attempts \cup Strangers -> AttemptValues]
    PROVE  /\ [D EXCEPT !.attempt = g] \in Tables
           /\ [D EXCEPT !.attempt = g].invite = D.invite
           /\ [D EXCEPT !.attempt = g].attempt = g
           /\ [D EXCEPT !.attempt = g].deletions = D.deletions
           /\ [D EXCEPT !.attempt = g].command = D.command
  BY DEF Tables

LEMMA PutDeletions ==
    ASSUME NEW D \in Tables, NEW Q \in SUBSET Invites
    PROVE  /\ [D EXCEPT !.deletions = Q] \in Tables
           /\ [D EXCEPT !.deletions = Q].invite = D.invite
           /\ [D EXCEPT !.deletions = Q].attempt = D.attempt
           /\ [D EXCEPT !.deletions = Q].command = D.command
  BY DEF Tables

LEMMA PutCommands ==
    ASSUME NEW D \in Tables,
           NEW h \in [Attempts -> {"none", "pending", "accepted", "rejected"}]
    PROVE  /\ [D EXCEPT !.command = h] \in Tables
           /\ [D EXCEPT !.command = h].invite = D.invite
           /\ [D EXCEPT !.command = h].attempt = D.attempt
           /\ [D EXCEPT !.command = h].command = h
  BY DEF Tables

LEMMA InviteFields ==
    ASSUME NEW r \in InviteValues, NEW s \in {"unused", "pruned"} \cup Live \cup Terminal
    PROVE  /\ [r EXCEPT !.state = s] \in InviteValues
           /\ [r EXCEPT !.state = s].state = s
           /\ [r EXCEPT !.state = s].mode = r.mode
           /\ [r EXCEPT !.state = s].failures = r.failures
           /\ [r EXCEPT !.state = s].consumedBy = r.consumedBy
  BY DEF InviteValues

LEMMA AttemptFields ==
    ASSUME NEW r \in AttemptValues, NEW s \in {"none", "awaiting_sas", "finalizing"} \cup Finished
    PROVE  /\ [r EXCEPT !.state = s] \in AttemptValues
           /\ [r EXCEPT !.state = s].state = s
           /\ [r EXCEPT !.state = s].invite = r.invite
           /\ [r EXCEPT !.state = s].input = r.input
           /\ [r EXCEPT !.state = s].remote = r.remote
           /\ [r EXCEPT !.state = s].declinedBy = r.declinedBy
  BY DEF AttemptValues

\* The trigger only queues deletions.
LEMMA QueueKeeps ==
    ASSUME NEW O, NEW D \in Tables
    PROVE  /\ Queue(O, D) \in Tables
           /\ Queue(O, D).invite = D.invite
           /\ Queue(O, D).attempt = D.attempt
           /\ Queue(O, D).command = D.command
  <1> DEFINE Q == D.deletions \cup {i \in Invites :
                      D.invite[i].state # O.invite[i].state /\ D.invite[i].state \in Terminal}
  <1>1. Q \in SUBSET Invites BY TableFields
  <1>2. Queue(O, D) = [D EXCEPT !.deletions = Q] BY DEF Queue
  <1> QED BY <1>1, <1>2, PutDeletions

\* Wrong-proof rows of ended invites go, nothing else.
Scrubbed(g, ended) ==
    [a \in DOMAIN g |-> IF g[a].state = "proof_rejected" /\ g[a].invite \in ended THEN NoAttempt ELSE g[a]]

LEMMA ScrubKeeps ==
    ASSUME NEW D \in Tables, NEW ended
    PROVE  /\ DeleteRejected(D, ended) \in Tables
           /\ DeleteRejected(D, ended).invite = D.invite
           /\ DeleteRejected(D, ended).attempt = Scrubbed(D.attempt, ended)
           /\ DeleteRejected(D, ended).command = D.command
           /\ Scrubbed(D.attempt, ended) \in [Attempts \cup Strangers -> AttemptValues]
           /\ \A a \in Attempts \cup Strangers :
                Scrubbed(D.attempt, ended)[a] =
                    IF D.attempt[a].state = "proof_rejected" /\ D.attempt[a].invite \in ended
                    THEN NoAttempt ELSE D.attempt[a]
  <1>1. DeleteRejected(D, ended) = [D EXCEPT !.attempt = Scrubbed(D.attempt, ended)]
    BY DEF DeleteRejected, Scrubbed
  <1>2. Scrubbed(D.attempt, ended) \in [Attempts \cup Strangers -> AttemptValues]
    BY TableFields, NoRows DEF Scrubbed
  <1>3. \A a \in Attempts \cup Strangers :
            Scrubbed(D.attempt, ended)[a] =
                IF D.attempt[a].state = "proof_rejected" /\ D.attempt[a].invite \in ended
                THEN NoAttempt ELSE D.attempt[a]
    BY TableFields DEF Scrubbed
  <1>4. PICK g \in [Attempts \cup Strangers -> AttemptValues] : g = Scrubbed(D.attempt, ended)
    BY <1>2
  <1>5. /\ [D EXCEPT !.attempt = g] \in Tables
        /\ [D EXCEPT !.attempt = g].invite = D.invite
        /\ [D EXCEPT !.attempt = g].attempt = g
        /\ [D EXCEPT !.attempt = g].command = D.command
    BY PutAttempts
  <1>6. DeleteRejected(D, ended) = [D EXCEPT !.attempt = g] BY <1>1, <1>4
  <1>7. /\ DeleteRejected(D, ended) \in Tables
        /\ DeleteRejected(D, ended).invite = D.invite
        /\ DeleteRejected(D, ended).attempt = g
        /\ DeleteRejected(D, ended).command = D.command
    BY <1>5, <1>6
  <1> QED BY <1>2, <1>3, <1>4, <1>7

LEMMA EndRows ==
    ASSUME NEW D \in Tables, NEW i \in Invites, NEW s \in {"unused", "pruned"} \cup Live \cup Terminal
    PROVE  /\ End(D, i, s) \in Tables
           /\ End(D, i, s).invite = [D.invite EXCEPT ![i] = [D.invite[i] EXCEPT !.state = s]]
           /\ End(D, i, s).attempt = Scrubbed(D.attempt, {i})
           /\ End(D, i, s).command = D.command
  <1> DEFINE f == [D.invite EXCEPT ![i] = [D.invite[i] EXCEPT !.state = s]]
             M == [D EXCEPT !.invite = f]
  <1>1. f \in [Invites -> InviteValues] BY TableFields, InviteFields
  <1>2. M \in Tables /\ M.invite = f /\ M.attempt = D.attempt /\ M.command = D.command
    BY <1>1, PutInvites
  <1>3. End(D, i, s) = Queue(D, DeleteRejected(M, {i})) BY DEF End
  <1> HIDE DEF M
  <1>4. /\ DeleteRejected(M, {i}) \in Tables /\ DeleteRejected(M, {i}).invite = f
        /\ DeleteRejected(M, {i}).attempt = Scrubbed(D.attempt, {i})
        /\ DeleteRejected(M, {i}).command = D.command
    BY <1>2, ScrubKeeps
  <1> HIDE DEF f
  <1>5. /\ End(D, i, s) \in Tables /\ End(D, i, s).invite = f
        /\ End(D, i, s).attempt = Scrubbed(D.attempt, {i})
        /\ End(D, i, s).command = D.command
    BY <1>3, <1>4, QueueKeeps
  <1> QED BY <1>5 DEF f

\* An invite that is preparing or outstanding is ended.
LEMMA EndSweeps ==
    ASSUME NEW D \in Tables, NEW i \in Invites, NEW s \in Terminal \ {"consumed"},
           D.invite[i].state \in Live
    PROVE  Sweep(D, End(D, i, s))
  <1>1. s \in {"unused", "pruned"} \cup Live \cup Terminal OBVIOUS
  <1>2. PICK E : E = End(D, i, s) OBVIOUS
  <1>3. /\ E \in Tables /\ E.invite = [D.invite EXCEPT ![i] = [D.invite[i] EXCEPT !.state = s]]
        /\ E.attempt = Scrubbed(D.attempt, {i}) /\ E.command = D.command
    <2>1. /\ End(D, i, s) \in Tables
          /\ End(D, i, s).invite = [D.invite EXCEPT ![i] = [D.invite[i] EXCEPT !.state = s]]
          /\ End(D, i, s).attempt = Scrubbed(D.attempt, {i})
          /\ End(D, i, s).command = D.command
      BY <1>1, EndRows
    <2> QED BY <1>2, <2>1
  <1>4. D.invite[i] \in InviteValues /\ D.invite \in [Invites -> InviteValues] BY TableFields
  <1>5. \A j \in Invites : j # i => E.invite[j] = D.invite[j] BY <1>3, <1>4
  <1>6. E.invite[i] = [D.invite[i] EXCEPT !.state = s] BY <1>3, <1>4
  <1>7. /\ E.invite[i].state = s /\ E.invite[i].mode = D.invite[i].mode
        /\ E.invite[i].failures = D.invite[i].failures
        /\ E.invite[i].consumedBy = D.invite[i].consumedBy
    BY <1>1, <1>4, <1>6, InviteFields
  <1>8. s \in Ended /\ D.invite[i].state # "unused" /\ D.invite[i].state # "consumed"
    BY DEF Ended, Terminal, Live
  <1>9. \A j \in Invites :
          /\ E.invite[j].mode = D.invite[j].mode
          /\ E.invite[j].failures = D.invite[j].failures
          /\ E.invite[j].consumedBy = D.invite[j].consumedBy
          /\ \/ E.invite[j].state = D.invite[j].state
             \/ D.invite[j].state # "unused" /\ E.invite[j].state \in Ended
    BY <1>5, <1>7, <1>8
  <1>10. \A a \in Attempts \cup Strangers :
            \/ E.attempt[a] = D.attempt[a]
            \/ D.attempt[a].state \in Finished /\ E.attempt[a] = NoAttempt
    <2>1. \A a \in Attempts \cup Strangers :
            Scrubbed(D.attempt, {i})[a] =
                IF D.attempt[a].state = "proof_rejected" /\ D.attempt[a].invite \in {i}
                THEN NoAttempt ELSE D.attempt[a]
      BY TableFields DEF Scrubbed
    <2> QED BY <1>3, <2>1 DEF Finished
  <1>11. \A j \in Invites : D.invite[j].state = "consumed" => E.invite[j].state = "consumed"
    BY <1>5, <1>8
  <1> QED BY <1>2, <1>3, <1>9, <1>10, <1>11 DEF Sweep

LEMMA SameSweeps ==
    ASSUME NEW D \in Tables
    PROVE  Sweep(D, D)
  BY DEF Sweep

LEMMA TerminateSweeps ==
    ASSUME NEW D \in Tables, NEW i \in Invites, NEW s \in Terminal \ {"consumed"}
    PROVE  Sweep(D, Terminate(D, i, s))
  BY EndSweeps, SameSweeps DEF Terminate

\* Expired and abandoned invites end, waiting attempts of late invites expire.
LEMMA MaintainSweeps ==
    ASSUME NEW D \in Tables, NEW startup
    PROVE  Sweep(D, Maintain(D, startup))
  <1> DEFINE expired == {i \in late : D.invite[i].state = "outstanding"}
             abandoned == {i \in Invites : startup /\ D.invite[i].state = "preparing"}
             f == [i \in Invites |-> [D.invite[i] EXCEPT
                     !.state = IF i \in expired THEN "expired"
                               ELSE IF i \in abandoned THEN "abandoned" ELSE D.invite[i].state]]
             g == [a \in DOMAIN D.attempt |-> [D.attempt[a] EXCEPT
                     !.state = IF D.attempt[a].state = "awaiting_sas" /\ D.attempt[a].invite \in late
                               THEN "expired" ELSE D.attempt[a].state]]
  <1>1. Maintain(D, startup) =
            Queue(D, DeleteRejected([D EXCEPT !.invite = f, !.attempt = g], expired))
    BY DEF Maintain
  <1>2. PICK X : X = expired OBVIOUS
  <1>3. \A i \in Invites :
          /\ f[i] \in InviteValues
          /\ f[i].mode = D.invite[i].mode
          /\ f[i].failures = D.invite[i].failures
          /\ f[i].consumedBy = D.invite[i].consumedBy
          /\ \/ f[i].state = D.invite[i].state
             \/ D.invite[i].state \in Live /\ f[i].state \in Ended
    <2> SUFFICES ASSUME NEW i \in Invites
                 PROVE  /\ f[i] \in InviteValues
                        /\ f[i].mode = D.invite[i].mode
                        /\ f[i].failures = D.invite[i].failures
                        /\ f[i].consumedBy = D.invite[i].consumedBy
                        /\ \/ f[i].state = D.invite[i].state
                           \/ D.invite[i].state \in Live /\ f[i].state \in Ended
      OBVIOUS
    <2>1. D.invite[i] \in InviteValues BY TableFields
    <2>2. PICK s \in {"unused", "pruned"} \cup Live \cup Terminal :
            /\ f[i] = [D.invite[i] EXCEPT !.state = s]
            /\ \/ s = D.invite[i].state
               \/ D.invite[i].state \in Live /\ s \in Ended
      <3> DEFINE s == IF i \in expired THEN "expired"
                      ELSE IF i \in abandoned THEN "abandoned" ELSE D.invite[i].state
      <3>1. f[i] = [D.invite[i] EXCEPT !.state = s] OBVIOUS
      <3>2. D.invite[i].state \in {"unused", "pruned"} \cup Live \cup Terminal
        BY <2>1 DEF InviteValues
      <3>3. \/ s = D.invite[i].state
            \/ D.invite[i].state \in Live /\ s \in {"expired", "abandoned"}
        BY DEF Live
      <3> HIDE DEF s
      <3>4. s \in {"unused", "pruned"} \cup Live \cup Terminal BY <3>2, <3>3 DEF Terminal
      <3>5. s \in {"expired", "abandoned"} => s \in Ended BY DEF Ended
      <3> QED BY <3>1, <3>3, <3>4, <3>5
    <2> HIDE DEF f
    <2> QED BY <2>1, <2>2, InviteFields
  <1>4. \A a \in Attempts \cup Strangers :
          /\ g[a] \in AttemptValues
          /\ \/ g[a] = D.attempt[a]
             \/ D.attempt[a].state = "awaiting_sas" /\ g[a] = [D.attempt[a] EXCEPT !.state = "expired"]
    <2> SUFFICES ASSUME NEW a \in Attempts \cup Strangers
                 PROVE  /\ g[a] \in AttemptValues
                        /\ \/ g[a] = D.attempt[a]
                           \/ /\ D.attempt[a].state = "awaiting_sas"
                              /\ g[a] = [D.attempt[a] EXCEPT !.state = "expired"]
      OBVIOUS
    <2>1. D.attempt[a] \in AttemptValues /\ a \in DOMAIN D.attempt BY TableFields
    <2>2. [D.attempt[a] EXCEPT !.state = D.attempt[a].state] = D.attempt[a]
      BY <2>1 DEF AttemptValues
    <2>3. [D.attempt[a] EXCEPT !.state = "expired"] \in AttemptValues
      BY <2>1, AttemptFields DEF Finished
    <2>4. CASE D.attempt[a].state = "awaiting_sas" /\ D.attempt[a].invite \in late
      BY <2>1, <2>3, <2>4
    <2>5. CASE ~(D.attempt[a].state = "awaiting_sas" /\ D.attempt[a].invite \in late)
      BY <2>1, <2>2, <2>5
    <2> QED BY <2>4, <2>5
  <1>5. f \in [Invites -> InviteValues] BY <1>3
  <1>6. g \in [Attempts \cup Strangers -> AttemptValues] BY <1>4, TableFields
  <1> HIDE DEF f, g
  <1>7. PICK M : M = [D EXCEPT !.invite = f, !.attempt = g] OBVIOUS
  <1>8. M \in Tables /\ M.invite = f /\ M.attempt = g /\ M.command = D.command
    BY <1>5, <1>6, <1>7 DEF Tables
  <1>9. PICK E : E = Maintain(D, startup) OBVIOUS
  <1>10. E = Queue(D, DeleteRejected(M, X)) BY <1>1, <1>2, <1>7, <1>9
  <1> HIDE DEF expired, abandoned
  <1>11. /\ DeleteRejected(M, X) \in Tables /\ DeleteRejected(M, X).invite = f
         /\ DeleteRejected(M, X).attempt = Scrubbed(g, X)
         /\ DeleteRejected(M, X).command = D.command
    BY <1>8, ScrubKeeps
  <1>12. E \in Tables /\ E.invite = f /\ E.attempt = Scrubbed(g, X) /\ E.command = D.command
    BY <1>10, <1>11, QueueKeeps
  <1>13. \A a \in Attempts \cup Strangers :
            E.attempt[a] = IF g[a].state = "proof_rejected" /\ g[a].invite \in X
                           THEN NoAttempt ELSE g[a]
    BY <1>6, <1>12 DEF Scrubbed
  <1>14. ASSUME NEW a \in Attempts \cup Strangers
         PROVE  \/ E.attempt[a] = D.attempt[a]
                \/ D.attempt[a].state = "awaiting_sas" /\ E.attempt[a] = [D.attempt[a] EXCEPT !.state = "expired"]
                \/ D.attempt[a].state \in Finished /\ E.attempt[a] = NoAttempt
    <2>1. D.attempt[a] \in AttemptValues BY TableFields
    <2>2. [D.attempt[a] EXCEPT !.state = "expired"].state = "expired" BY <2>1 DEF AttemptValues
    <2>3. CASE g[a] = D.attempt[a] BY <1>13, <2>3 DEF Finished
    <2>4. CASE D.attempt[a].state = "awaiting_sas" /\ g[a] = [D.attempt[a] EXCEPT !.state = "expired"]
      BY <1>13, <2>2, <2>4
    <2> QED BY <1>4, <2>3, <2>4
  <1>15. \A i \in Invites :
          /\ E.invite[i].mode = D.invite[i].mode
          /\ E.invite[i].failures = D.invite[i].failures
          /\ E.invite[i].consumedBy = D.invite[i].consumedBy
          /\ \/ E.invite[i].state = D.invite[i].state
             \/ D.invite[i].state \in Live /\ E.invite[i].state \in Ended
    BY <1>3, <1>12
  <1>16. "unused" \notin Live /\ "consumed" \notin Live BY DEF Live
  <1> QED BY <1>9, <1>12, <1>14, <1>15, <1>16 DEF Sweep

\* Pruned invites have ended, and took their finished attempts along.
LEMMA PruneSweeps ==
    ASSUME NEW D \in Tables, NEW retain, NEW E \in Prune(D, retain)
    PROVE  Sweep(D, E)
  <1>1. CASE E = D BY <1>1, SameSweeps
  <1>2. CASE E # D
    <2>1. PICK g \in SUBSET Prunable(D) :
            E = [D EXCEPT
                   !.invite = [i \in Invites |->
                       IF i \in g THEN [D.invite[i] EXCEPT !.state = "pruned"] ELSE D.invite[i]],
                   !.attempt = [a \in DOMAIN D.attempt |->
                       IF D.attempt[a].invite \in g THEN NoAttempt ELSE D.attempt[a]]]
      BY <1>2 DEF Prune
    <2> DEFINE f == [i \in Invites |->
                       IF i \in g THEN [D.invite[i] EXCEPT !.state = "pruned"] ELSE D.invite[i]]
               k == [a \in DOMAIN D.attempt |->
                       IF D.attempt[a].invite \in g THEN NoAttempt ELSE D.attempt[a]]
    <2>2. \A i \in Invites :
            /\ f[i] \in InviteValues
            /\ f[i].mode = D.invite[i].mode
            /\ f[i].failures = D.invite[i].failures
            /\ f[i].consumedBy = D.invite[i].consumedBy
            /\ \/ f[i] = D.invite[i] /\ i \notin g
               \/ i \in g /\ f[i].state = "pruned"
      <3> SUFFICES ASSUME NEW i \in Invites
                   PROVE  /\ f[i] \in InviteValues
                          /\ f[i].mode = D.invite[i].mode
                          /\ f[i].failures = D.invite[i].failures
                          /\ f[i].consumedBy = D.invite[i].consumedBy
                          /\ \/ f[i] = D.invite[i] /\ i \notin g
                             \/ i \in g /\ f[i].state = "pruned"
        OBVIOUS
      <3>1. D.invite[i] \in InviteValues BY TableFields
      <3>2. CASE i \in g
        <4>1. f[i] = [D.invite[i] EXCEPT !.state = "pruned"] BY <3>2
        <4> HIDE DEF f
        <4> QED BY <3>1, <3>2, <4>1, InviteFields
      <3>3. CASE i \notin g BY <3>1, <3>3
      <3> QED BY <3>2, <3>3
    <2>3. k \in [Attempts \cup Strangers -> AttemptValues] BY TableFields, NoRows
    <2>4. \A a \in Attempts \cup Strangers :
            k[a] = IF D.attempt[a].invite \in g THEN NoAttempt ELSE D.attempt[a]
      BY TableFields
    <2>5. f \in [Invites -> InviteValues] BY <2>2
    <2>6. E = [D EXCEPT !.invite = f, !.attempt = k] BY <2>1
    <2> HIDE DEF f, k
    <2>7. E \in Tables /\ E.invite = f /\ E.attempt = k /\ E.command = D.command
      BY <2>3, <2>5, <2>6 DEF Tables
    <2>8. \A i \in g : /\ i \in Invites /\ D.invite[i].state \in Terminal
                       /\ \A a \in Attempts \cup Strangers :
                            D.attempt[a].invite = i => D.attempt[a].state \in Finished
      BY <2>1, TableFields DEF Prunable
    <2>9. \A i \in Invites :
            /\ E.invite[i].mode = D.invite[i].mode
            /\ E.invite[i].failures = D.invite[i].failures
            /\ E.invite[i].consumedBy = D.invite[i].consumedBy
            /\ \/ E.invite[i].state = D.invite[i].state
               \/ D.invite[i].state # "unused" /\ E.invite[i].state \in Ended
      BY <2>2, <2>7, <2>8 DEF Ended, Terminal
    <2>10. \A a \in Attempts \cup Strangers :
             \/ E.attempt[a] = D.attempt[a]
             \/ D.attempt[a].state \in Finished /\ E.attempt[a] = NoAttempt
      BY <2>4, <2>7, <2>8
    <2>11. ASSUME NEW a \in Attempts, NEW i \in Invites,
                  E.attempt[a].state # "none", E.attempt[a].invite = i
           PROVE  i \notin g
      <3>1. E.attempt[a] = D.attempt[a] BY <2>4, <2>7, <2>11 DEF NoAttempt
      <3> QED BY <2>4, <2>7, <2>11, <3>1 DEF NoAttempt
    <2>12. \A i \in Invites : i \notin g => E.invite[i].state = D.invite[i].state BY <2>2, <2>7
    <2> QED BY <2>7, <2>9, <2>10, <2>11, <2>12 DEF Sweep
  <1> QED BY <1>1, <1>2

-----------------------------------------------------------------------------
(* What a sweep preserves *)

LEMMA SweepAttempts ==
    ASSUME NEW D \in Tables, NEW E, Sweep(D, E), NEW a \in Attempts \cup Strangers
    PROVE  /\ E.attempt[a].state # "none" =>
                /\ D.attempt[a].state # "none"
                /\ E.attempt[a].invite = D.attempt[a].invite
                /\ E.attempt[a].input = D.attempt[a].input
                /\ E.attempt[a].remote = D.attempt[a].remote
           /\ \/ E.attempt[a].state = D.attempt[a].state
              \/ D.attempt[a].state = "awaiting_sas" /\ E.attempt[a].state = "expired"
              \/ D.attempt[a].state \in Finished /\ E.attempt[a].state = "none"
           /\ E.attempt[a].remote => D.attempt[a].remote
  <1>1. D.attempt[a] \in AttemptValues BY TableFields
  <1>2. CASE E.attempt[a] = D.attempt[a] BY <1>2
  <1>3. CASE D.attempt[a].state = "awaiting_sas" /\ E.attempt[a] = [D.attempt[a] EXCEPT !.state = "expired"]
    <2>1. "expired" \in Finished BY DEF Finished
    <2>2. /\ E.attempt[a].state = "expired" /\ E.attempt[a].invite = D.attempt[a].invite
          /\ E.attempt[a].input = D.attempt[a].input
          /\ E.attempt[a].remote = D.attempt[a].remote
      BY <1>1, <1>3, <2>1, AttemptFields
    <2> QED BY <1>3, <2>2
  <1>4. CASE D.attempt[a].state \in Finished /\ E.attempt[a] = NoAttempt
    BY <1>4 DEF NoAttempt
  <1> QED BY <1>2, <1>3, <1>4 DEF Sweep

LEMMA SweepAttemptSound ==
    ASSUME NEW D \in Tables, NEW E, Sweep(D, E), NEW S, NEW P,
           NEW a \in Attempts, AttemptSound(D, S, P, a)
    PROVE  AttemptSound(E, S, P, a)
  <1>1. /\ E.attempt[a].state # "none" =>
              /\ D.attempt[a].state # "none" /\ E.attempt[a].invite = D.attempt[a].invite
              /\ E.attempt[a].remote = D.attempt[a].remote
        /\ \/ E.attempt[a].state = D.attempt[a].state
           \/ D.attempt[a].state = "awaiting_sas" /\ E.attempt[a].state = "expired"
           \/ D.attempt[a].state \in Finished /\ E.attempt[a].state = "none"
        /\ E.attempt[a].remote => D.attempt[a].remote
    BY SweepAttempts
  <1>2. E.command[a] = D.command[a] BY DEF Sweep
  <1>3. E.attempt[a].state # "none" =>
          /\ D.attempt[a].invite \in Invites /\ E.attempt[a].state # "proof_rejected"
          /\ E.invite[E.attempt[a].invite].state = "consumed"
          /\ E.invite[E.attempt[a].invite].consumedBy = a
          /\ E.invite[E.attempt[a].invite].mode = D.invite[D.attempt[a].invite].mode
    BY <1>1 DEF AttemptSound, Sweep, St, Of
  <1>4. /\ D.command[a] = "pending" => E.attempt[a].state = "finalizing"
        /\ D.command[a] = "accepted" => E.attempt[a].state \in {"finalizing", "completed", "none"}
        /\ E.attempt[a].state = "awaiting_sas" => D.command[a] = "none"
    BY <1>1 DEF AttemptSound, St, Finished
  <1>5. /\ E.attempt[a].state \in {"finalizing", "completed"} => E.attempt[a].state = D.attempt[a].state
        /\ S[a] = "unused" => E.attempt[a].state = "none"
    BY <1>1 DEF AttemptSound, St, Finished
  <1>6. E.attempt[a].state \in {"finalizing", "completed"} \/ E.attempt[a].remote \/ D.command[a] # "none"
          => S[a] = "yes"
    BY <1>1, <1>5 DEF AttemptSound, St
  <1>7. /\ E.attempt[a].state \in {"finalizing", "completed"}
              /\ E.invite[E.attempt[a].invite].mode = "rebootstrap" => D.command[a] = "none"
        /\ E.attempt[a].state = "completed"
              /\ E.invite[E.attempt[a].invite].mode # "rebootstrap" => D.command[a] = "accepted"
    BY <1>1, <1>3, <1>5 DEF AttemptSound, St, Of, ModeOf
  <1> QED BY <1>1, <1>2, <1>3, <1>4, <1>5, <1>6, <1>7 DEF AttemptSound, St, Of, ModeOf

LEMMA SweepSpent ==
    ASSUME NEW D, NEW E, Sweep(D, E), NEW i \in Invites, Spent(D, i)
    PROVE  Spent(E, i)
  BY DEF Sweep, Spent, Ended

LEMMA SweepSound ==
    ASSUME NEW D \in Tables, NEW E, Sweep(D, E), NEW K \in SUBSET Calls, NEW S, NEW P, NEW F, NEW T,
           NEW W \in Joiners, NEW N \in JournalValues, F \in Finalizers,
           TablesSound(D, K, S, P, F, T, W, N)
    PROVE  TablesSound(E, K, S, P, F, T, W, N)
  <1>1. \A a \in Attempts : AttemptSound(E, S, P, a) BY SweepAttemptSound DEF TablesSound
  <1>2. ASSUME NEW c \in K PROVE CallSound(E, S, W, c)
    <2>1. c.attempt \in Attempts /\ c.invite \in Invites BY DEF Calls
    <2>2. CallSound(D, S, W, c) BY DEF TablesSound
    <2>3. St(E, c.attempt) # "none" => Of(E, c.attempt) = c.invite
      BY <2>1, <2>2, SweepAttempts DEF CallSound, St, Of
    <2>4. Spent(D, c.invite) => Spent(E, c.invite) BY <2>1, SweepSpent
    <2> QED BY <2>2, <2>3, <2>4 DEF CallSound
  <1>3. JoinerSound(E, S, W, N)
    <2>1. JoinerSound(D, S, W, N) BY DEF TablesSound
    <2>2. W.step = "requesting" /\ St(E, W.attempt) # "none" => Of(E, W.attempt) = W.invite
      BY <2>1, SweepAttempts DEF JoinerSound, St, Of, Exchange, Joiners
    <2>3. N.phase \in Confirmed /\ N.mode = "rebootstrap" => St(E, N.attempt) \in {"completed", "none"}
      BY <2>1, SweepAttempts DEF JoinerSound, St
    <2> QED BY <2>1, <2>2, <2>3 DEF JoinerSound
  <1>4. FinalizerSound(E, F)
    <2> SUFFICES ASSUME F # None PROVE FinalizerSound(E, F) BY DEF FinalizerSound
    <2>1. F.attempt \in Attempts BY DEF Finalizers
    <2>2. FinalizerSound(D, F) BY DEF TablesSound
    <2>3. D.attempt[F.attempt].state = "finalizing" BY <2>2 DEF FinalizerSound, St
    <2>4. AttemptSound(D, S, P, F.attempt) BY <2>1 DEF TablesSound
    <2>5. /\ E.attempt[F.attempt].state = "finalizing"
          /\ E.attempt[F.attempt].invite = D.attempt[F.attempt].invite
      BY <2>1, <2>3, SweepAttempts DEF Finished
    <2>6. E.invite[D.attempt[F.attempt].invite].mode = D.invite[D.attempt[F.attempt].invite].mode
      BY <2>3, <2>4 DEF AttemptSound, St, Of, Sweep
    <2>7. E.command = D.command BY DEF Sweep
    <2> QED BY <2>2, <2>5, <2>6, <2>7 DEF FinalizerSound, St, Of, ModeOf
  <1>5. ProofsSound(E, T)
    <2>1. ProofsSound(D, T) BY DEF TablesSound
    <2>2. ASSUME NEW i \in Invites
          PROVE  /\ E.invite[i].state \in {"unused", "preparing", "outstanding"} =>
                        E.invite[i].state = D.invite[i].state
                 /\ E.invite[i].failures = D.invite[i].failures
      BY DEF Sweep, Ended
    <2>3. ASSUME NEW s \in Strangers, St(E, s) = "proof_rejected"
          PROVE  Of(E, s) \in Invites /\ <<s, E.attempt[s].input>> \in T[Of(E, s)]
      <3>1. /\ D.attempt[s].state = "proof_rejected" /\ E.attempt[s].invite = D.attempt[s].invite
            /\ E.attempt[s].input = D.attempt[s].input
        BY <2>3, SweepAttempts DEF St
      <3> QED BY <2>1, <3>1 DEF ProofsSound, St, Of
    <2> QED BY <2>1, <2>2, <2>3 DEF ProofsSound
  <1>6. \A c, d \in K : c.attempt = d.attempt => c.invite = d.invite BY DEF TablesSound
  <1> QED BY <1>1, <1>2, <1>3, <1>4, <1>5, <1>6 DEF TablesSound

-----------------------------------------------------------------------------
(* Steps of the inviter's operator and its maintenance *)

\* The tables D beside the rest of the current state.
TablesFit(D) == TablesSound(D, calls, said, proposed, finalizer, tried, joiner, journal)

LEMMA SweepFits ==
    ASSUME JoinValues, NEW D \in Tables, TablesFit(D), NEW E, Sweep(D, E)
    PROVE  E \in Tables /\ TablesFit(E)
  <1>1. calls \in SUBSET Calls /\ joiner \in Joiners /\ journal \in JournalValues /\ finalizer \in Finalizers
    BY DEF JoinValues
  <1> QED BY <1>1, SweepSound DEF TablesFit, Sweep

LEMMA MaintenanceFits ==
    ASSUME JoinValues, NEW D \in Tables, TablesFit(D), NEW startup, NEW retain,
           NEW E \in Prune(Maintain(D, startup), retain)
    PROVE  /\ E \in Tables /\ TablesFit(E)
           /\ \A i \in Invites : D.invite[i].state = "unused" => E.invite[i].state = "unused"
  <1>1. PICK M : M = Maintain(D, startup) OBVIOUS
  <1>2. Sweep(D, M) BY <1>1, MaintainSweeps
  <1>3. M \in Tables /\ TablesFit(M) BY <1>2, SweepFits
  <1>4. Sweep(M, E) BY <1>1, <1>3, PruneSweeps
  <1>5. E \in Tables /\ TablesFit(E) BY <1>3, <1>4, SweepFits
  <1> QED BY <1>2, <1>4, <1>5 DEF Sweep

LEMMA RowsStep ==
    ASSUME JoinInv, db' \in Tables, TablesFit(db'), creating' \in Creations,
           UNCHANGED <<calls, finalizer, member, proposed, snapshots, journal, dest, joiner, said, tried>>
    PROVE  JoinInv'
  <1>1. JoinValues' BY DEF JoinInv, JoinValues
  <1>2. InstallSound' BY DEF JoinInv, InstallSound, InstalledCovers, Admitted
  <1>3. TablesSound(db, calls, said, proposed, finalizer, tried, joiner, journal)' BY DEF TablesFit
  <1> QED BY <1>1, <1>2, <1>3 DEF JoinInv

\* A row nobody has used becomes a new invite, or a new invite becomes usable.
LEMMA FreshInviteFits ==
    ASSUME JoinValues, NEW D \in Tables, TablesFit(D), NEW i \in Invites, NEW r \in InviteValues,
           D.invite[i].state \in {"unused", "preparing"}, r.state \in {"preparing", "outstanding"}
    PROVE  /\ [D EXCEPT !.invite[i] = r] \in Tables
           /\ TablesFit([D EXCEPT !.invite[i] = r])
  <1> DEFINE f == [D.invite EXCEPT ![i] = r]
  <1>1. f \in [Invites -> InviteValues] /\ f[i] = r /\ \A j \in Invites \ {i} : f[j] = D.invite[j]
    BY TableFields
  <1>2. PICK E : E = [D EXCEPT !.invite[i] = r] OBVIOUS
  <1>3. E = [D EXCEPT !.invite = f] BY <1>2
  <1> HIDE DEF f
  <1>4. E \in Tables /\ E.invite = f /\ E.attempt = D.attempt /\ E.command = D.command
    BY <1>1, <1>3, PutInvites
  <1>5. \A j \in Invites \ {i} : E.invite[j] = D.invite[j] BY <1>1, <1>4
  <1>6. E.invite[i] = r BY <1>1, <1>4
  <1>7. ASSUME NEW a \in Attempts PROVE AttemptSound(E, said, proposed, a)
    <2>1. AttemptSound(D, said, proposed, a) BY DEF TablesFit, TablesSound
    <2>2. St(D, a) # "none" => Of(D, a) \in Invites \ {i} BY <2>1 DEF AttemptSound
    <2>3. St(D, a) # "none" => E.invite[Of(D, a)] = D.invite[Of(D, a)] BY <1>5, <2>2
    <2>4. St(E, a) = St(D, a) /\ Of(E, a) = Of(D, a) /\ E.attempt[a] = D.attempt[a] /\ E.command[a] = D.command[a]
      BY <1>4 DEF St, Of
    <2> QED BY <2>1, <2>3, <2>4 DEF AttemptSound, ModeOf
  <1>8. ASSUME NEW c \in calls PROVE CallSound(E, said, joiner, c)
    <2>1. CallSound(D, said, joiner, c) BY DEF TablesFit, TablesSound
    <2>2. c.invite \in Invites BY DEF JoinValues, Calls
    <2>3. Spent(D, c.invite) => Spent(E, c.invite) BY <1>5, <2>2 DEF Spent
    <2> QED BY <1>4, <2>1, <2>3 DEF CallSound, St, Of
  <1>9. JoinerSound(E, said, joiner, journal) BY <1>4 DEF TablesFit, TablesSound, JoinerSound, St, Of
  <1>10. FinalizerSound(E, finalizer)
    <2> SUFFICES ASSUME finalizer # None PROVE FinalizerSound(E, finalizer) BY DEF FinalizerSound
    <2>1. finalizer.attempt \in Attempts BY DEF JoinValues, Finalizers
    <2>2. FinalizerSound(D, finalizer) /\ AttemptSound(D, said, proposed, finalizer.attempt)
      BY <2>1 DEF TablesFit, TablesSound
    <2>3. Of(D, finalizer.attempt) \in Invites \ {i}
      BY <2>2 DEF FinalizerSound, AttemptSound
    <2>4. E.invite[Of(D, finalizer.attempt)] = D.invite[Of(D, finalizer.attempt)] BY <1>5, <2>3
    <2> QED BY <1>4, <2>2, <2>4 DEF FinalizerSound, St, Of, ModeOf
  <1>11. ProofsSound(E, tried)
    <2>1. ProofsSound(D, tried) BY DEF TablesFit, TablesSound
    <2>2. tried[i] = {} BY <2>1 DEF ProofsSound
    <2>3. Cardinality({}) = 0 BY FS_EmptySet
    <2>4. E.invite[i].failures >= Cardinality(tried[i]) BY <1>6, <2>2, <2>3 DEF InviteValues
    <2> QED BY <1>4, <1>5, <2>1, <2>2, <2>4 DEF ProofsSound, St, Of
  <1>12. TablesFit(E) BY <1>7, <1>8, <1>9, <1>10, <1>11 DEF TablesFit, TablesSound
  <1> QED BY <1>2, <1>4, <1>12

LEMMA IssuedValue ==
    ASSUME JoinValues
    PROVE  Issued \in InviteValues /\ Issued.state = "preparing"
  <1>1. member \in Members BY DEF JoinValues
  <1>2. PICK m, e : Issued = [NoInvite EXCEPT !.state = "preparing", !.version = member.version,
                                              !.mode = m, !.epoch = e]
                    /\ m \in Modes /\ e \in Nat
    <2> DEFINE m == CASE member.status = "absent" -> "new"
                      [] member.status = "active" -> "rebootstrap"
                      [] OTHER -> "readmission"
               e == IF member.status = "active" THEN member.epoch + 1 ELSE 1
    <2>1. Issued = [NoInvite EXCEPT !.state = "preparing", !.version = member.version,
                                    !.mode = m, !.epoch = e]
      BY DEF Issued
    <2>2. m \in Modes BY DEF Modes
    <2>3. e \in Nat BY <1>1 DEF Members
    <2> QED BY <2>1, <2>2, <2>3
  <1>3. member.version \in Nat BY <1>1 DEF Members
  <1> QED BY <1>2, <1>3 DEF NoInvite, InviteValues, Live

LEMMA ReserveStep ==
    ASSUME JoinInv, NEW i \in Invites, Reserve(i)
    PROVE  JoinInv'
  <1>1. JoinValues /\ db \in Tables /\ TablesFit(db) BY DEF JoinInv, JoinValues, TablesFit
  <1>2. PICK rows \in Prune(Maintain(db, FALSE), MaxHistory - 1) : db' = [rows EXCEPT !.invite[i] = Issued]
    BY DEF Reserve
  <1>3. rows \in Tables /\ TablesFit(rows) /\ rows.invite[i].state = "unused"
    BY <1>1, MaintenanceFits DEF Reserve
  <1>4. Issued \in InviteValues /\ Issued.state = "preparing" BY <1>1, IssuedValue
  <1>5. db' \in Tables /\ TablesFit(db')
    <2>1. PICK r \in InviteValues : r = Issued BY <1>4
    <2>2. [rows EXCEPT !.invite[i] = r] \in Tables /\ TablesFit([rows EXCEPT !.invite[i] = r])
      BY <1>1, <1>3, <1>4, <2>1, FreshInviteFits
    <2> QED BY <1>2, <2>1, <2>2
  <1>6. creating' \in Creations BY DEF Reserve, Creations
  <1>7. UNCHANGED <<calls, finalizer, member, proposed, snapshots, journal, dest, joiner, said, tried>>
    BY DEF Reserve, ledgerVars, joinerVars, historyVars
  <1> QED BY <1>5, <1>6, <1>7, RowsStep

LEMMA IssuingStep ==
    ASSUME JoinInv, Issuing
    PROVE  JoinInv'
  <1>1. JoinValues /\ db \in Tables /\ TablesFit(db) /\ creating \in Creations
    BY DEF JoinInv, JoinValues, TablesFit
  <1>2. ASSUME NEW i \in Invites, Reserve(i) PROVE JoinInv' BY <1>2, ReserveStep
  <1>3. ASSUME NEW i \in Invites, Revoke(i) PROVE JoinInv'
    <2>1. Sweep(db, Terminate(db, i, "revoked")) BY <1>1, TerminateSweeps DEF Terminal
    <2>2. db' \in Tables /\ TablesFit(db') BY <1>1, <1>3, <2>1, SweepFits DEF Revoke
    <2>3. UNCHANGED <<calls, finalizer, member, proposed, snapshots, journal, dest, joiner, said, tried>>
      BY <1>3 DEF Revoke, ledgerVars, joinerVars, serviceVars
    <2> QED BY <1>1, <1>3, <2>2, <2>3, RowsStep DEF Revoke, serviceVars
  <1>4. ASSUME creating # None PROVE creating.invite \in Invites BY <1>1, <1>4 DEF Creations
  <1>5. CASE StoreSecret
    <2>1. UNCHANGED <<calls, finalizer, member, proposed, snapshots, journal, dest, joiner, said, tried>>
      BY <1>5 DEF StoreSecret, ledgerVars, joinerVars, historyVars
    <2>2. db' \in Tables /\ TablesFit(db') BY <1>1, <1>5 DEF StoreSecret
    <2>3. creating' \in Creations BY <1>1, <1>5 DEF StoreSecret, Creations
    <2> QED BY <2>1, <2>2, <2>3, RowsStep
  <1>6. CASE SecretRefused
    <2>1. Sweep(db, Terminate(db, creating.invite, "abandoned"))
      BY <1>1, <1>4, <1>6, TerminateSweeps DEF Terminal, SecretRefused
    <2>2. db' \in Tables /\ TablesFit(db') BY <1>1, <1>6, <2>1, SweepFits DEF SecretRefused
    <2>3. UNCHANGED <<calls, finalizer, member, proposed, snapshots, journal, dest, joiner, said, tried>>
      BY <1>6 DEF SecretRefused, ledgerVars, joinerVars, historyVars
    <2>4. creating' \in Creations BY <1>6 DEF SecretRefused, Creations
    <2> QED BY <2>2, <2>3, <2>4, RowsStep
  <1>7. CASE ActivateInvite
    <2>1. PICK i \in Invites : i = creating.invite BY <1>4, <1>7 DEF ActivateInvite
    <2>2. db' \in Tables /\ TablesFit(db')
      <3>1. CASE db.invite[i].state = "preparing"
        <4>1. "outstanding" \in {"unused", "pruned"} \cup Live \cup Terminal BY DEF Live
        <4>2. db.invite[i] \in InviteValues BY <1>1, TableFields
        <4>3. PICK r \in InviteValues : r = [db.invite[i] EXCEPT !.state = "outstanding"] /\ r.state = "outstanding"
          BY <4>1, <4>2, InviteFields
        <4>4. db' = [db EXCEPT !.invite[i] = r] BY <1>7, <2>1, <3>1, <4>3 DEF ActivateInvite
        <4>5. [db EXCEPT !.invite[i] = r] \in Tables /\ TablesFit([db EXCEPT !.invite[i] = r])
          BY <1>1, <3>1, <4>3, FreshInviteFits
        <4> QED BY <4>4, <4>5
      <3>2. CASE db.invite[i].state # "preparing"
        <4>1. Sweep(db, Terminate(db, i, "abandoned")) BY <1>1, TerminateSweeps DEF Terminal
        <4>2. db' = Terminate(db, i, "abandoned") BY <1>7, <2>1, <3>2 DEF ActivateInvite
        <4> QED BY <1>1, <4>1, <4>2, SweepFits
      <3> QED BY <3>1, <3>2
    <2>3. UNCHANGED <<calls, finalizer, member, proposed, snapshots, journal, dest, joiner, said, tried>>
      BY <1>7 DEF ActivateInvite, ledgerVars, joinerVars, historyVars
    <2>4. creating' \in Creations BY <1>7 DEF ActivateInvite, Creations
    <2> QED BY <2>2, <2>3, <2>4, RowsStep
  <1> QED BY <1>2, <1>3, <1>5, <1>6, <1>7 DEF Issuing

LEMMA CleaningStep ==
    ASSUME JoinInv, Cleaning \/ Recover
    PROVE  JoinInv'
  <1>1. JoinValues /\ db \in Tables /\ TablesFit(db) /\ creating \in Creations
    BY DEF JoinInv, JoinValues, TablesFit
  <1>2. CASE MaintainState
    <2>1. PICK rows \in Prune(Maintain(db, FALSE), MaxHistory) : db' = rows BY <1>2 DEF MaintainState
    <2>2. db' \in Tables /\ TablesFit(db') BY <1>1, <2>1, MaintenanceFits
    <2>3. UNCHANGED <<calls, finalizer, member, proposed, snapshots, journal, dest, joiner, said, tried>>
      BY <1>2 DEF MaintainState, serviceVars, ledgerVars, joinerVars, historyVars
    <2> QED BY <1>1, <1>2, <2>2, <2>3, RowsStep DEF MaintainState, serviceVars
  <1>3. ASSUME NEW i \in Invites, DeleteSecret(i) PROVE JoinInv'
    <2>1. UNCHANGED <<calls, finalizer, member, proposed, snapshots, journal, dest, joiner, said, tried>>
      BY <1>3 DEF DeleteSecret, ledgerVars, joinerVars, historyVars
    <2> QED BY <1>1, <1>3, <2>1, RowsStep DEF DeleteSecret
  <1>4. CASE CompleteDeletion
    <2>1. PICK Q \in SUBSET Invites : Q = db.deletions \ {cleaning} BY <1>1, TableFields
    <2>2. PICK M : M = [db EXCEPT !.deletions = Q] OBVIOUS
    <2>3. M \in Tables /\ M.invite = db.invite /\ M.attempt = db.attempt /\ M.command = db.command
      BY <1>1, <2>2, PutDeletions
    <2>4. Sweep(db, M) BY <2>3 DEF Sweep
    <2>5. TablesFit(M) BY <1>1, <2>4, SweepFits
    <2>6. PICK E : E = db' OBVIOUS
    <2>7. E \in Prune(M, MaxHistory) BY <1>4, <2>1, <2>2, <2>6 DEF CompleteDeletion
    <2>8. Sweep(M, E) BY <2>3, <2>7, PruneSweeps
    <2>9. db' \in Tables /\ TablesFit(db') BY <1>1, <2>3, <2>5, <2>6, <2>8, SweepFits
    <2>10. UNCHANGED <<calls, finalizer, member, proposed, snapshots, journal, dest, joiner, said, tried>>
      BY <1>4 DEF CompleteDeletion, ledgerVars, joinerVars, historyVars
    <2> QED BY <1>1, <1>4, <2>9, <2>10, RowsStep DEF CompleteDeletion
  <1>5. CASE Recover
    <2>1. PICK E : E = db' OBVIOUS
    <2>2. E \in Prune(Maintain(db, TRUE), MaxHistory) BY <1>5, <2>1 DEF Recover
    <2>3. E \in Tables /\ TablesFit(E) BY <1>1, <2>2, MaintenanceFits
    <2>4. UNCHANGED <<calls, finalizer, member, proposed, snapshots, journal, dest, joiner, said, tried>>
      BY <1>5 DEF Recover, ledgerVars, joinerVars, historyVars
    <2> QED BY <1>1, <1>5, <2>1, <2>3, <2>4, RowsStep DEF Recover
  <1> QED BY <1>2, <1>3, <1>4, <1>5 DEF Cleaning

-----------------------------------------------------------------------------
(* Steps of the pairing exchange *)

\* Calls that return, a process that stops, a connection that breaks and a journal that
\* is given up take nothing from what holds.
LEMMA LessSound ==
    ASSUME NEW D, NEW K, NEW S, NEW P, NEW F, NEW T, NEW W, NEW N, TablesSound(D, K, S, P, F, T, W, N),
           NEW K2 \in SUBSET K, NEW F2 \in {F, None}, NEW N2 \in {N, NoJournal}, NEW V,
           V.step = "idle" \/ (V.step = W.step /\ V.attempt = W.attempt /\ V.invite = W.invite),
           N2 = N \/ V.step \notin Bootstrap \cup {"deciding"}
    PROVE  TablesSound(D, K2, S, P, F2, T, V, N2)
  <1>1. \A c \in K2 : CallSound(D, S, V, c) BY DEF TablesSound, CallSound
  <1>2. FinalizerSound(D, F2) BY DEF TablesSound, FinalizerSound
  <1>3. JoinerSound(D, S, V, N2)
    <2>1. JoinerSound(D, S, W, N) BY DEF TablesSound
    <2>2. NoJournal.phase \notin Confirmed BY DEF NoJournal, Confirmed
    <2>3. V.step \in Exchange => V.step = W.step /\ V.attempt = W.attempt /\ V.invite = W.invite
      BY DEF Exchange
    <2>4. V.step \in Bootstrap => V.step = W.step BY DEF Bootstrap
    <2>5. /\ V.step \in Exchange => V.attempt \in Attempts /\ V.invite \in Invites
          /\ V.step \in {"requesting", "review"} => S[V.attempt] = "asked"
          /\ V.step = "requesting" /\ St(D, V.attempt) # "none" => Of(D, V.attempt) = V.invite
      BY <2>1, <2>3 DEF JoinerSound, Exchange
    <2>6. V.step = "deciding" => /\ S[V.attempt] = "yes"
                                 /\ N2.attempt = V.attempt /\ N2.phase = "decision_approved"
      BY <2>1, <2>3 DEF JoinerSound, Exchange
    <2>7. V.step \in Bootstrap => N2.phase \in Confirmed BY <2>1, <2>4 DEF JoinerSound
    <2>8. /\ N2.phase \in Confirmed /\ N2.mode = "rebootstrap" =>
               /\ N2.attempt \in Attempts /\ S[N2.attempt] = "yes"
               /\ St(D, N2.attempt) \in {"completed", "none"}
          /\ N2.phase = "none" => N2 = NoJournal
      BY <2>1, <2>2 DEF JoinerSound
    <2> QED BY <2>5, <2>6, <2>7, <2>8 DEF JoinerSound
  <1> QED BY <1>1, <1>2, <1>3 DEF TablesSound

\* A request is answered: the joiner's operator compares the strings.
LEMMA ReviewSound ==
    ASSUME NEW D, NEW K, NEW S, NEW P, NEW F, NEW T, NEW W \in Joiners, NEW N,
           TablesSound(D, K, S, P, F, T, W, N), W.step = "requesting",
           \A c \in K : c.attempt = W.attempt => Spent(D, c.invite)
    PROVE  TablesSound(D, K, S, P, F, T, [W EXCEPT !.step = "review"], N)
  <1>1. PICK V : V = [W EXCEPT !.step = "review"] OBVIOUS
  <1>2. V.step = "review" /\ V.attempt = W.attempt /\ V.invite = W.invite BY <1>1 DEF Joiners
  <1>3. \A c \in K : CallSound(D, S, V, c) BY <1>2 DEF TablesSound, CallSound
  <1>4. JoinerSound(D, S, V, N) BY <1>2 DEF TablesSound, JoinerSound, Exchange, Bootstrap
  <1> QED BY <1>1, <1>3, <1>4 DEF TablesSound

\* Nothing is installed before the bootstrap.
LEMMA ExchangeInstall ==
    ASSUME InstallSound, UNCHANGED <<dest, member>>, joiner'.step \in Exchange \cup {"idle"},
           joiner'.step # "idle" => dest.kind # "installed"
    PROVE  InstallSound'
  BY DEF InstallSound, InstalledCovers, Admitted, Exchange

LEMMA SameInstall ==
    ASSUME InstallSound, UNCHANGED <<dest, member, journal>>, joiner'.step = joiner.step
    PROVE  InstallSound'
  BY DEF InstallSound, InstalledCovers, Admitted

LEMMA IdleValue == Idle \in Joiners /\ Idle.step = "idle" /\ NoJournal \in JournalValues /\ NoJournal.phase = "none"
  BY DEF Idle, Joiners, Steps, NoJournal, JournalValues, Modes

LEMMA FreshJoinStep ==
    ASSUME JoinInv, NEW i \in Invites, NEW a \in Attempts, FreshJoin(i, a)
    PROVE  JoinInv'
  <1>1. JoinValues /\ InstallSound /\ TablesFit(db) BY DEF JoinInv, TablesFit
  <1>2. /\ joiner' = [step |-> "requesting", attempt |-> a, invite |-> i, connected |-> TRUE]
        /\ said' = [said EXCEPT ![a] = "asked"] /\ said[a] = "unused"
        /\ dest.kind # "installed"
        /\ UNCHANGED <<db, calls, creating, finalizer, member, proposed, snapshots, journal, dest, tried>>
    BY DEF FreshJoin, DestinationFits, serviceVars, ledgerVars
  <1>3. /\ said'[a] = "asked" /\ \A b \in Attempts \ {a} : said'[b] = said[b]
        /\ said' \in [Attempts -> {"unused", "asked", "yes", "no"}]
    BY <1>1, <1>2 DEF JoinValues
  <1>4. joiner' \in Joiners BY <1>2 DEF Joiners, Steps
  <1>5. JoinValues' BY <1>1, <1>2, <1>3, <1>4 DEF JoinValues
  <1>6. InstallSound' BY <1>1, <1>2, ExchangeInstall DEF Exchange
  <1>7. ASSUME NEW b \in Attempts PROVE AttemptSound(db, said', proposed, b)
    BY <1>1, <1>2, <1>3 DEF TablesFit, TablesSound, AttemptSound
  <1>8. ASSUME NEW c \in calls PROVE CallSound(db, said', joiner', c)
    <2>1. CallSound(db, said, joiner, c) BY <1>1 DEF TablesFit, TablesSound
    <2>2. c.attempt \in Attempts BY <1>1 DEF JoinValues, Calls
    <2>3. c.attempt # a BY <1>2, <2>1 DEF CallSound
    <2>4. said'[c.attempt] = said[c.attempt] /\ joiner'.attempt # c.attempt BY <1>2, <1>3, <2>2, <2>3
    <2> QED BY <2>1, <2>4 DEF CallSound
  <1>9. JoinerSound(db, said', joiner', journal)
    <2>1. JoinerSound(db, said, joiner, journal) /\ AttemptSound(db, said, proposed, a)
      BY <1>1 DEF TablesFit, TablesSound
    <2>2. St(db, a) = "none" BY <1>2, <2>1 DEF AttemptSound
    <2>3. journal.phase \in Confirmed /\ journal.mode = "rebootstrap" => said'[journal.attempt] = "yes"
      BY <1>2, <1>3, <2>1 DEF JoinerSound
    <2> QED BY <1>2, <1>3, <2>1, <2>2, <2>3 DEF JoinerSound, Bootstrap
  <1>10. TablesSound(db, calls, said', proposed, finalizer, tried, joiner', journal)
    BY <1>1, <1>7, <1>8, <1>9 DEF TablesFit, TablesSound
  <1> QED BY <1>2, <1>5, <1>6, <1>10 DEF JoinInv

LEMMA RequestArrivesStep ==
    ASSUME JoinInv, RequestArrives
    PROVE  JoinInv'
  <1>1. JoinValues /\ InstallSound /\ TablesFit(db) BY DEF JoinInv, TablesFit
  <1>2. /\ joiner.step = "requesting"
        /\ UNCHANGED <<db, creating, finalizer, member, proposed, snapshots, journal, dest, said, tried>>
    BY DEF RequestArrives, ledgerVars, historyVars
  <1>3. PICK i \in Invites, a \in Attempts :
           /\ i = joiner.invite /\ a = joiner.attempt /\ said[a] = "asked"
           /\ (St(db, a) # "none" => Of(db, a) = i)
    BY <1>1, <1>2 DEF TablesFit, TablesSound, JoinerSound, Exchange
  <1>4. \A c \in calls : c.attempt = a => c.invite = i
    BY <1>1, <1>2, <1>3 DEF TablesFit, TablesSound, CallSound
  <1>5. CASE calls' = calls \cup {Call("request", a, i)} /\ joiner' = joiner
    <2>1. PICK c : c = Call("request", a, i) OBVIOUS
    <2>2. c \in Calls /\ c.op = "request" /\ c.attempt = a /\ c.invite = i BY <2>1 DEF Call, Calls
    <2>3. calls' = calls \cup {c} BY <1>5, <2>1
    <2>4. CallSound(db, said, joiner, c) BY <1>2, <1>3, <2>2 DEF CallSound
    <2>5. TablesSound(db, calls', said, proposed, finalizer, tried, joiner, journal)
      BY <1>1, <1>4, <2>2, <2>3, <2>4 DEF TablesFit, TablesSound
    <2>6. JoinValues' BY <1>1, <1>2, <1>5, <2>2, <2>3 DEF JoinValues
    <2>7. InstallSound' BY <1>1, <1>2, <1>5, SameInstall
    <2> QED BY <1>2, <1>5, <2>5, <2>6, <2>7 DEF JoinInv
  <1>6. CASE AcceptedBefore(i, a) /\ joiner' = Answered("review") /\ calls' = calls
    <2>1. \A c \in calls : c.attempt = joiner.attempt => Spent(db, c.invite)
      BY <1>3, <1>4, <1>6 DEF Spent, AcceptedBefore
    <2>2. joiner' = [joiner EXCEPT !.step = "review"] BY <1>6 DEF Answered
    <2>3. PICK W \in Joiners : W = joiner BY <1>1 DEF JoinValues
    <2>4. TablesSound(db, calls, said, proposed, finalizer, tried, [W EXCEPT !.step = "review"], journal)
      BY <1>1, <1>2, <2>1, <2>3, ReviewSound DEF TablesFit
    <2>5. joiner' \in Joiners /\ joiner'.step = "review" BY <2>2, <2>3 DEF Joiners, Steps
    <2>6. JoinValues' BY <1>1, <1>2, <1>6, <2>5 DEF JoinValues
    <2>7. InstallSound'
      BY <1>1, <1>2, <2>5, ExchangeInstall DEF Exchange, InstallSound
    <2> QED BY <1>2, <1>6, <2>2, <2>3, <2>4, <2>6, <2>7 DEF JoinInv
  <1>7. CASE joiner' = Idle /\ calls' = calls
    <2>1. JoinValues' BY <1>1, <1>2, <1>7, IdleValue DEF JoinValues
    <2>2. InstallSound' BY <1>1, <1>2, <1>7, IdleValue, ExchangeInstall
    <2>3. TablesSound(db, calls, said, proposed, finalizer, tried, Idle, journal)
      BY <1>1, IdleValue, LessSound DEF TablesFit
    <2> QED BY <1>2, <1>7, <2>1, <2>2, <2>3 DEF JoinInv
  <1> QED BY <1>3, <1>5, <1>6, <1>7 DEF RequestArrives

\* An accepted request consumes its invite and becomes the attempt of that invite.
LEMMA ConsumeFits ==
    ASSUME JoinValues, TablesFit(db), NEW c \in calls, c.op = "request", Consumes(c),
           db.attempt[c.attempt].state = "none"
    PROVE  /\ ConsumedRows(c) \in Tables /\ TablesFit(ConsumedRows(c))
           /\ Spent(ConsumedRows(c), c.invite)
  <1>1. PICK i \in Invites, a \in Attempts : i = c.invite /\ a = c.attempt BY DEF JoinValues, Calls
  <1>2. db \in Tables BY DEF JoinValues
  <1>3. db.invite[i] \in InviteValues /\ db.invite[i].state = "outstanding"
    BY <1>1, <1>2, TableFields DEF Consumes
  <1> DEFINE row == [NoAttempt EXCEPT !.state = "awaiting_sas", !.invite = i]
             used == [db.invite[i] EXCEPT !.consumedBy = a]
             f == [db.invite EXCEPT ![i] = used]
             g == [db.attempt EXCEPT ![a] = row]
  <1>4. /\ row \in AttemptValues /\ row.state = "awaiting_sas" /\ row.invite = i /\ row.remote = FALSE
    BY DEF NoAttempt, AttemptValues
  <1>5. /\ used \in InviteValues /\ used.mode = db.invite[i].mode /\ used.consumedBy = a
        /\ used.failures = db.invite[i].failures
    BY <1>3 DEF InviteValues
  <1> HIDE DEF row, used
  <1>6. /\ f \in [Invites -> InviteValues] /\ f[i] = used
        /\ \A j \in Invites \ {i} : f[j] = db.invite[j]
    BY <1>2, <1>5, TableFields
  <1>7. /\ g \in [Attempts \cup Strangers -> AttemptValues] /\ g[a] = row
        /\ \A b \in (Attempts \cup Strangers) \ {a} : g[b] = db.attempt[b]
    BY <1>2, <1>4, TableFields
  <1>8. PICK M : M = [db EXCEPT !.invite[i].consumedBy = a, !.attempt[a] = row] OBVIOUS
  <1>9. M = [db EXCEPT !.invite = f, !.attempt = g] BY <1>8 DEF used
  <1> HIDE DEF f, g
  <1>10. M \in Tables /\ M.invite = f /\ M.attempt = g /\ M.command = db.command
    BY <1>2, <1>6, <1>7, <1>9 DEF Tables
  <1>11. PICK E : E = ConsumedRows(c) OBVIOUS
  <1>12. E = End(M, i, "consumed") BY <1>1, <1>8, <1>11 DEF ConsumedRows, row
  <1>13. "consumed" \in {"unused", "pruned"} \cup Live \cup Terminal BY DEF Terminal
  <1>14. /\ End(M, i, "consumed") \in Tables
         /\ End(M, i, "consumed").invite = [M.invite EXCEPT ![i] = [M.invite[i] EXCEPT !.state = "consumed"]]
         /\ End(M, i, "consumed").attempt = Scrubbed(M.attempt, {i})
         /\ End(M, i, "consumed").command = M.command
    BY <1>10, <1>13, EndRows
  <1>15. /\ E \in Tables /\ E.invite = [f EXCEPT ![i] = [used EXCEPT !.state = "consumed"]]
         /\ E.attempt = Scrubbed(g, {i}) /\ E.command = db.command
    BY <1>6, <1>10, <1>12, <1>14
  <1>16. \A j \in Invites \ {i} : E.invite[j] = db.invite[j] BY <1>6, <1>15
  <1>17. /\ E.invite[i].state = "consumed" /\ E.invite[i].mode = db.invite[i].mode
         /\ E.invite[i].consumedBy = a
    <2>1. E.invite[i] = [used EXCEPT !.state = "consumed"] BY <1>6, <1>15
    <2> QED BY <1>5, <1>13, <2>1, InviteFields
  <1>18. \A b \in Attempts \cup Strangers :
            E.attempt[b] = IF g[b].state = "proof_rejected" /\ g[b].invite \in {i} THEN NoAttempt ELSE g[b]
    BY <1>7, <1>15 DEF Scrubbed
  <1>19. E.attempt[a] = row BY <1>4, <1>7, <1>18
  <1>20. ASSUME NEW b \in Attempts PROVE AttemptSound(db, said, proposed, b)
    BY DEF TablesFit, TablesSound
  <1>21. \A b \in Attempts \ {a} : E.attempt[b] = db.attempt[b]
    <2> SUFFICES ASSUME NEW b \in Attempts \ {a} PROVE E.attempt[b] = db.attempt[b] OBVIOUS
    <2>1. g[b] = db.attempt[b] BY <1>7
    <2>2. db.attempt[b].state # "proof_rejected" BY <1>20 DEF AttemptSound, St
    <2> QED BY <1>18, <2>1, <2>2
  <1>22. \A s \in Strangers : E.attempt[s] \in {db.attempt[s], NoAttempt}
    BY <1>7, <1>18, JoiningConstants
  <1>23. \A b \in Attempts : St(db, b) # "none" => Of(db, b) \in Invites \ {i}
    BY <1>3, <1>20 DEF AttemptSound
  <1>24. said[a] = "asked" /\ db.command[a] = "none" /\ proposed[a] = "none"
    <2>1. CallSound(db, said, joiner, c) BY DEF TablesFit, TablesSound
    <2>2. ~Spent(db, i) BY <1>3 DEF Spent
    <2>3. said[a] \notin {"yes", "no", "unused"} BY <1>1, <2>1, <2>2 DEF CallSound
    <2>4. said[a] = "asked" BY <2>3 DEF JoinValues
    <2> QED BY <1>20, <2>4 DEF AttemptSound
  <1>25. ASSUME NEW b \in Attempts PROVE AttemptSound(E, said, proposed, b)
    <2>1. CASE b = a
      <3>1. St(E, a) = "awaiting_sas" /\ Of(E, a) = i /\ ~E.attempt[a].remote BY <1>4, <1>19 DEF St, Of
      <3>2. E.command[a] = "none" BY <1>15, <1>24
      <3> QED BY <1>17, <1>24, <2>1, <3>1, <3>2 DEF AttemptSound
    <2>2. CASE b # a
      <3>1. E.attempt[b] = db.attempt[b] /\ E.command[b] = db.command[b] BY <1>15, <1>21, <2>2
      <3>2. St(db, b) # "none" => E.invite[Of(db, b)] = db.invite[Of(db, b)] BY <1>16, <1>23
      <3>3. St(E, b) = St(db, b) /\ Of(E, b) = Of(db, b) BY <3>1 DEF St, Of
      <3> QED BY <1>20, <3>1, <3>2, <3>3 DEF AttemptSound, ModeOf
    <2> QED BY <2>1, <2>2
  <1>26. ASSUME NEW d \in calls PROVE CallSound(E, said, joiner, d)
    <2>1. CallSound(db, said, joiner, d) /\ (d.attempt = c.attempt => d.invite = c.invite)
      BY DEF TablesFit, TablesSound
    <2>2. d.attempt \in Attempts /\ d.invite \in Invites BY DEF JoinValues, Calls
    <2>3. Spent(db, d.invite) => Spent(E, d.invite) BY <1>3, <1>16, <2>2 DEF Spent
    <2>4. St(E, d.attempt) # "none" => Of(E, d.attempt) = d.invite
      <3>1. CASE d.attempt = a BY <1>1, <1>4, <1>19, <2>1, <3>1 DEF Of
      <3>2. CASE d.attempt # a BY <1>21, <2>1, <2>2, <3>2 DEF CallSound, St, Of
      <3> QED BY <3>1, <3>2
    <2> QED BY <2>1, <2>3, <2>4 DEF CallSound
  <1>27. JoinerSound(E, said, joiner, journal)
    <2>1. JoinerSound(db, said, joiner, journal) /\ CallSound(db, said, joiner, c)
      BY DEF TablesFit, TablesSound
    <2>2. joiner.step = "requesting" /\ St(E, joiner.attempt) # "none" => Of(E, joiner.attempt) = joiner.invite
      <3>1. CASE joiner.attempt = a BY <1>1, <1>4, <1>19, <2>1, <3>1 DEF CallSound, Of
      <3>2. CASE joiner.attempt # a BY <1>21, <2>1, <3>2 DEF JoinerSound, St, Of, Exchange
      <3> QED BY <3>1, <3>2
    <2>3. journal.phase \in Confirmed /\ journal.mode = "rebootstrap"
            => St(E, journal.attempt) = St(db, journal.attempt)
      BY <1>21, <1>24, <2>1 DEF JoinerSound, St
    <2> QED BY <2>1, <2>2, <2>3 DEF JoinerSound
  <1>28. FinalizerSound(E, finalizer)
    <2> SUFFICES ASSUME finalizer # None PROVE FinalizerSound(E, finalizer) BY DEF FinalizerSound
    <2>1. PICK b \in Attempts : b = finalizer.attempt BY DEF JoinValues, Finalizers
    <2>2. FinalizerSound(db, finalizer) BY DEF TablesFit, TablesSound
    <2>3. St(db, b) = "finalizing" /\ b # a BY <1>1, <2>1, <2>2 DEF FinalizerSound, St
    <2>4. E.attempt[b] = db.attempt[b] /\ E.command = db.command BY <1>15, <1>21, <2>3
    <2>5. E.invite[Of(db, b)] = db.invite[Of(db, b)] BY <1>16, <1>23, <2>3
    <2> QED BY <2>1, <2>2, <2>4, <2>5 DEF FinalizerSound, St, Of, ModeOf
  <1>29. ProofsSound(E, tried)
    <2>1. ProofsSound(db, tried) BY DEF TablesFit, TablesSound
    <2>2. \A s \in Strangers : St(E, s) = "proof_rejected" => E.attempt[s] = db.attempt[s]
      BY <1>22 DEF St, NoAttempt
    <2>3. \A s \in Strangers :
            St(E, s) = "proof_rejected" => Of(E, s) \in Invites /\ <<s, E.attempt[s].input>> \in tried[Of(E, s)]
      BY <2>1, <2>2 DEF ProofsSound, St, Of
    <2>4. \A j \in Invites :
            /\ IsFiniteSet(tried[j])
            /\ E.invite[j].state \in {"unused", "preparing"} => tried[j] = {}
            /\ E.invite[j].state = "outstanding" => E.invite[j].failures >= Cardinality(tried[j])
      BY <1>16, <1>17, <2>1 DEF ProofsSound
    <2> QED BY <2>3, <2>4 DEF ProofsSound
  <1>30. TablesFit(E)
    BY <1>25, <1>26, <1>27, <1>28, <1>29 DEF TablesFit, TablesSound
  <1>31. Spent(E, i) BY <1>17 DEF Spent
  <1> QED BY <1>1, <1>11, <1>15, <1>30, <1>31

LEMMA FinishRequestStep ==
    ASSUME JoinInv, NEW c \in calls, FinishRequest(c)
    PROVE  JoinInv'
  <1>1. JoinValues /\ InstallSound /\ TablesFit(db) /\ db \in Tables BY DEF JoinInv, JoinValues, TablesFit
  <1>2. /\ calls' = calls \ {c} /\ c.op = "request"
        /\ UNCHANGED <<creating, finalizer, member, proposed, snapshots, journal, dest, said, tried>>
    BY DEF FinishRequest, ledgerVars, historyVars
  <1>3. PICK i \in Invites, a \in Attempts : i = c.invite /\ a = c.attempt BY <1>1 DEF JoinValues, Calls
  <1> DEFINE duplicate == db.attempt[c.attempt].state # "none"
  <1>4. /\ db' \in Tables /\ TablesFit(db')
        /\ duplicate \/ Consumes(c) => Spent(db', c.invite)
    <2>1. CASE duplicate
      <3>1. db' = db BY <2>1 DEF FinishRequest
      <3>2. CallSound(db, said, joiner, c) /\ AttemptSound(db, said, proposed, a)
        BY <1>1 DEF TablesFit, TablesSound
      <3>3. Spent(db, c.invite) BY <1>3, <2>1, <3>2 DEF CallSound, AttemptSound, Spent, St, Of
      <3> QED BY <1>1, <3>1, <3>3
    <2>2. CASE ~duplicate /\ Consumes(c)
      <3>1. db' = ConsumedRows(c) BY <2>2 DEF FinishRequest
      <3>2. ConsumedRows(c) \in Tables /\ TablesFit(ConsumedRows(c)) /\ Spent(ConsumedRows(c), c.invite)
        BY <1>1, <1>2, <2>2, ConsumeFits
      <3> QED BY <3>1, <3>2
    <2>3. CASE ~duplicate /\ ~Consumes(c)
      <3>1. \/ db' = db
            \/ db.invite[i].state = "outstanding" /\ db' = End(db, i, "expired")
        BY <1>3, <2>3 DEF FinishRequest
      <3>2. CASE db.invite[i].state = "outstanding" /\ db' = End(db, i, "expired")
        <4>1. "expired" \in Terminal \ {"consumed"} /\ db.invite[i].state \in Live
          BY <3>2 DEF Terminal, Live
        <4>2. Sweep(db, End(db, i, "expired")) BY <1>1, <4>1, EndSweeps
        <4> QED BY <1>1, <2>3, <3>2, <4>2, SweepFits
      <3> QED BY <1>1, <2>3, <3>1, <3>2
    <2> QED BY <2>1, <2>2, <2>3
  <1>5. calls' \subseteq Calls BY <1>1, <1>2 DEF JoinValues
  <1>6. CASE joiner' = joiner
    <2>1. JoinValues' BY <1>1, <1>2, <1>4, <1>5, <1>6 DEF JoinValues
    <2>2. InstallSound' BY <1>1, <1>2, <1>6, SameInstall
    <2>3. TablesSound(db', calls', said, proposed, finalizer, tried, joiner, journal)
      BY <1>2, <1>4, LessSound DEF TablesFit
    <2> QED BY <1>2, <1>6, <2>1, <2>2, <2>3 DEF JoinInv
  <1>7. CASE joiner' = Idle
    <2>1. JoinValues' BY <1>1, <1>2, <1>4, <1>5, <1>7, IdleValue DEF JoinValues
    <2>2. InstallSound' BY <1>1, <1>2, <1>7, IdleValue, ExchangeInstall
    <2>3. TablesSound(db', calls', said, proposed, finalizer, tried, Idle, journal)
      BY <1>2, <1>4, IdleValue, LessSound DEF TablesFit
    <2> QED BY <1>2, <1>7, <2>1, <2>2, <2>3 DEF JoinInv
  <1>8. CASE /\ Waiting(c.attempt, "requesting") /\ joiner' = Answered("review")
             /\ duplicate \/ Consumes(c)
    <2>1. joiner.step = "requesting" /\ joiner.attempt = c.attempt BY <1>8 DEF Waiting
    <2>2. joiner' = [joiner EXCEPT !.step = "review"] BY <1>8 DEF Answered
    <2>3. PICK W \in Joiners : W = joiner BY <1>1 DEF JoinValues
    <2>4. \A d \in calls' : d.attempt = W.attempt => Spent(db', d.invite)
      BY <1>1, <1>2, <1>4, <1>8, <2>1, <2>3 DEF TablesFit, TablesSound
    <2>5. TablesSound(db', calls', said, proposed, finalizer, tried, W, journal)
      BY <1>2, <1>4, <2>3, LessSound DEF TablesFit
    <2>6. TablesSound(db', calls', said, proposed, finalizer, tried, [W EXCEPT !.step = "review"], journal)
      BY <2>1, <2>3, <2>4, <2>5, ReviewSound
    <2>7. joiner' \in Joiners /\ joiner'.step = "review" BY <2>2, <2>3 DEF Joiners, Steps
    <2>8. JoinValues' BY <1>1, <1>2, <1>4, <1>5, <2>7 DEF JoinValues
    <2>9. InstallSound' BY <1>1, <1>2, <2>1, <2>7, ExchangeInstall DEF Exchange, InstallSound
    <2> QED BY <1>2, <2>2, <2>3, <2>6, <2>8, <2>9 DEF JoinInv
  <1> QED BY <1>6, <1>7, <1>8 DEF FinishRequest

\* One more wrong proof is counted, and recorded under its attempt identifier if that is free.
LEMMA CountFits ==
    ASSUME JoinValues, TablesFit(db), NEW i \in Invites, NEW a \in Strangers, NEW input \in 1..2,
           db.invite[i].state = "outstanding", NEW M \in Tables, NEW T2,
           M.command = db.command,
           M.invite = [db.invite EXCEPT ![i] = [db.invite[i] EXCEPT !.failures = db.invite[i].failures + 1]],
           \/ M.attempt = db.attempt
           \/ M.attempt = [db.attempt EXCEPT ![a] = [NoAttempt EXCEPT !.state = "proof_rejected",
                                                         !.invite = i, !.input = input]],
           T2 = [tried EXCEPT ![i] = tried[i] \cup {<<a, input>>}]
    PROVE  TablesSound(M, calls, said, proposed, finalizer, T2, joiner, journal)
  <1>1. db \in Tables /\ tried \in [Invites -> SUBSET (Strangers \X (1..2))] BY DEF JoinValues
  <1>2. db.invite[i] \in InviteValues /\ db.invite \in [Invites -> InviteValues] BY <1>1, TableFields
  <1>3. \A j \in Invites \ {i} : M.invite[j] = db.invite[j] BY <1>2
  <1>4. M.invite[i] = [db.invite[i] EXCEPT !.failures = db.invite[i].failures + 1] BY <1>2
  <1>5. /\ M.invite[i].state = "outstanding" /\ M.invite[i].mode = db.invite[i].mode
        /\ M.invite[i].consumedBy = db.invite[i].consumedBy
        /\ M.invite[i].failures = db.invite[i].failures + 1 /\ db.invite[i].failures \in Nat
    BY <1>2, <1>4 DEF InviteValues
  <1>6. \A j \in Invites : /\ M.invite[j].state = db.invite[j].state /\ M.invite[j].mode = db.invite[j].mode
                           /\ M.invite[j].consumedBy = db.invite[j].consumedBy
    BY <1>3, <1>5
  <1>7. a \notin Attempts BY JoiningConstants
  <1>8. \A b \in Attempts : M.attempt[b] = db.attempt[b] BY <1>1, <1>7, TableFields
  <1>9. \A s \in Strangers \ {a} : M.attempt[s] = db.attempt[s] BY <1>1, TableFields
  <1>10. \/ M.attempt[a] = db.attempt[a]
         \/ M.attempt[a].state = "proof_rejected" /\ M.attempt[a].invite = i /\ M.attempt[a].input = input
    <2>1. CASE M.attempt = db.attempt BY <2>1
    <2>2. CASE M.attempt = [db.attempt EXCEPT ![a] = [NoAttempt EXCEPT !.state = "proof_rejected",
                                                         !.invite = i, !.input = input]]
      <3>1. M.attempt[a] = [NoAttempt EXCEPT !.state = "proof_rejected", !.invite = i, !.input = input]
        BY <1>1, <2>2, TableFields
      <3> QED BY <3>1 DEF NoAttempt
    <2> QED BY <2>1, <2>2
  <1>11. ASSUME NEW b \in Attempts PROVE AttemptSound(M, said, proposed, b)
    <2>1. AttemptSound(db, said, proposed, b) BY DEF TablesFit, TablesSound
    <2>2. M.attempt[b] = db.attempt[b] /\ M.command[b] = db.command[b] BY <1>8
    <2>3. St(M, b) = St(db, b) /\ Of(M, b) = Of(db, b) BY <2>2 DEF St, Of
    <2>4. St(db, b) # "none" => /\ M.invite[Of(db, b)].state = db.invite[Of(db, b)].state
                                /\ M.invite[Of(db, b)].mode = db.invite[Of(db, b)].mode
                                /\ M.invite[Of(db, b)].consumedBy = db.invite[Of(db, b)].consumedBy
      BY <1>6, <2>1 DEF AttemptSound
    <2> QED BY <2>1, <2>2, <2>3, <2>4 DEF AttemptSound, ModeOf
  <1>12. ASSUME NEW c \in calls PROVE CallSound(M, said, joiner, c)
    <2>1. CallSound(db, said, joiner, c) BY DEF TablesFit, TablesSound
    <2>2. c.invite \in Invites /\ c.attempt \in Attempts BY DEF JoinValues, Calls
    <2>3. Spent(db, c.invite) => Spent(M, c.invite) BY <1>6, <2>2 DEF Spent
    <2> QED BY <1>8, <2>1, <2>2, <2>3 DEF CallSound, St, Of
  <1>13. JoinerSound(M, said, joiner, journal)
    <2>1. JoinerSound(db, said, joiner, journal) BY DEF TablesFit, TablesSound
    <2>2. joiner.step = "requesting" /\ St(M, joiner.attempt) # "none" => Of(M, joiner.attempt) = joiner.invite
      BY <1>8, <2>1 DEF JoinerSound, St, Of, Exchange
    <2>3. journal.phase \in Confirmed /\ journal.mode = "rebootstrap"
            => St(M, journal.attempt) = St(db, journal.attempt)
      BY <1>8, <2>1 DEF JoinerSound, St
    <2> QED BY <2>1, <2>2, <2>3 DEF JoinerSound
  <1>14. FinalizerSound(M, finalizer)
    <2> SUFFICES ASSUME finalizer # None PROVE FinalizerSound(M, finalizer) BY DEF FinalizerSound
    <2>1. PICK b \in Attempts : b = finalizer.attempt BY DEF JoinValues, Finalizers
    <2>2. FinalizerSound(db, finalizer) /\ AttemptSound(db, said, proposed, b) BY DEF TablesFit, TablesSound
    <2>3. Of(db, b) \in Invites BY <2>1, <2>2 DEF FinalizerSound, AttemptSound
    <2>4. M.invite[Of(db, b)].mode = db.invite[Of(db, b)].mode /\ M.attempt[b] = db.attempt[b]
      BY <1>6, <1>8, <2>3
    <2> QED BY <2>1, <2>2, <2>4 DEF FinalizerSound, St, Of, ModeOf
  <1>15. ProofsSound(M, T2)
    <2>1. ProofsSound(db, tried) BY DEF TablesFit, TablesSound
    <2>2. T2[i] = tried[i] \cup {<<a, input>>} /\ \A j \in Invites \ {i} : T2[j] = tried[j] BY <1>1
    <2>3. IsFiniteSet(tried[i]) /\ db.invite[i].failures >= Cardinality(tried[i]) BY <2>1 DEF ProofsSound
    <2>4. /\ IsFiniteSet(tried[i] \cup {<<a, input>>})
          /\ Cardinality(tried[i] \cup {<<a, input>>})
               = IF <<a, input>> \in tried[i] THEN Cardinality(tried[i]) ELSE Cardinality(tried[i]) + 1
      BY <2>3, FS_AddElement
    <2>5. Cardinality(tried[i]) \in Nat BY <2>3, FS_CardinalityType
    <2>6. M.invite[i].failures >= Cardinality(T2[i])
      <3>1. PICK n \in Nat : n = Cardinality(tried[i]) BY <2>5
      <3>2. PICK k : k = Cardinality(T2[i]) OBVIOUS
      <3>3. k = IF <<a, input>> \in tried[i] THEN n ELSE n + 1 BY <2>2, <2>4, <3>1, <3>2
      <3>4. k \in {n, n + 1}
        <4>1. CASE <<a, input>> \in tried[i] BY <3>3, <4>1
        <4>2. CASE <<a, input>> \notin tried[i] BY <3>3, <4>2
        <4> QED BY <4>1, <4>2
      <3>5. PICK m \in Nat : m = db.invite[i].failures /\ n <= m BY <1>5, <2>3, <3>1
      <3>6. k <= m + 1 BY <3>4, <3>5
      <3> QED BY <1>5, <3>2, <3>5, <3>6
    <2>7. \A j \in Invites :
            /\ IsFiniteSet(T2[j])
            /\ M.invite[j].state \in {"unused", "preparing"} => T2[j] = {}
            /\ M.invite[j].state = "outstanding" => M.invite[j].failures >= Cardinality(T2[j])
      BY <1>3, <1>5, <2>1, <2>2, <2>4, <2>6 DEF ProofsSound
    <2>8. ASSUME NEW s \in Strangers, St(M, s) = "proof_rejected"
          PROVE  Of(M, s) \in Invites /\ <<s, M.attempt[s].input>> \in T2[Of(M, s)]
      <3>1. CASE M.attempt[s] = db.attempt[s]
        <4>1. Of(db, s) \in Invites /\ <<s, db.attempt[s].input>> \in tried[Of(db, s)]
          BY <2>1, <2>8, <3>1 DEF ProofsSound, St
        <4> QED BY <2>2, <3>1, <4>1 DEF Of
      <3>2. CASE M.attempt[s] # db.attempt[s]
        <4>1. s = a /\ M.attempt[a].invite = i /\ M.attempt[a].input = input BY <1>9, <1>10, <3>2
        <4> QED BY <2>2, <4>1 DEF Of
      <3> QED BY <3>1, <3>2
    <2> QED BY <2>7, <2>8 DEF ProofsSound
  <1> QED BY <1>11, <1>12, <1>13, <1>14, <1>15 DEF TablesFit, TablesSound

LEMMA RejectedRow ==
    ASSUME NEW i \in Invites, NEW input \in 1..2
    PROVE  [NoAttempt EXCEPT !.state = "proof_rejected", !.invite = i, !.input = input] \in AttemptValues
  <1>1. input \in Nat OBVIOUS
  <1>2. "proof_rejected" \in Finished BY DEF Finished
  <1>3. NoAttempt \in AttemptValues BY NoRows
  <1>4. PICK r \in AttemptValues : r = NoAttempt BY <1>3
  <1>5. [r EXCEPT !.state = "proof_rejected", !.invite = i, !.input = input] \in AttemptValues
    BY <1>1, <1>2 DEF AttemptValues
  <1> QED BY <1>4, <1>5

LEMMA ChargedFits ==
    ASSUME JoinValues, TablesFit(db), NEW i \in Invites, NEW a \in Strangers, NEW input \in 1..2,
           db.invite[i].state = "outstanding", NEW T2,
           T2 = [tried EXCEPT ![i] = tried[i] \cup {<<a, input>>}]
    PROVE  /\ Charged(i, a, input) \in Tables
           /\ TablesSound(Charged(i, a, input), calls, said, proposed, finalizer, T2, joiner, journal)
  <1> DEFINE row == [NoAttempt EXCEPT !.state = "proof_rejected", !.invite = i, !.input = input]
             recorded == IF db.attempt[a].state = "none" THEN [db EXCEPT !.attempt[a] = row] ELSE db
             counted == [recorded EXCEPT !.invite[i].failures = recorded.invite[i].failures + 1]
             f == [db.invite EXCEPT ![i] = [db.invite[i] EXCEPT !.failures = db.invite[i].failures + 1]]
             g == [db.attempt EXCEPT ![a] = row]
  <1>1. db \in Tables /\ db.invite \in [Invites -> InviteValues] BY TableFields DEF JoinValues
  <1>2. row \in AttemptValues BY RejectedRow
  <1>3. g \in [Attempts \cup Strangers -> AttemptValues] BY <1>1, <1>2, TableFields
  <1>4. [db.invite[i] EXCEPT !.failures = db.invite[i].failures + 1] \in InviteValues
    BY <1>1 DEF InviteValues
  <1>5. f \in [Invites -> InviteValues] /\ f[i].state = "outstanding" BY <1>1, <1>4 DEF InviteValues
  <1>6. Charged(i, a, input) =
           IF db.invite[i].failures + 1 = MaxProofFailures THEN End(counted, i, "proof_exhausted") ELSE counted
    BY DEF Charged
  <1>7. PICK R : R = recorded OBVIOUS
  <1>8. [db EXCEPT !.attempt[a] = row] = [db EXCEPT !.attempt = g] OBVIOUS
  <1> HIDE DEF g
  <1>9. /\ R \in Tables /\ R.invite = db.invite /\ R.command = db.command
        /\ R.attempt = db.attempt \/ R.attempt = g
    <2>1. CASE db.attempt[a].state = "none"
      <3>1. R = [db EXCEPT !.attempt = g] BY <1>7, <1>8, <2>1
      <3> QED BY <1>1, <1>3, <3>1, PutAttempts
    <2>2. CASE db.attempt[a].state # "none" BY <1>1, <1>7, <2>2
    <2> QED BY <2>1, <2>2
  <1>10. PICK M : M = counted OBVIOUS
  <1>11. M = [R EXCEPT !.invite = f] BY <1>7, <1>9, <1>10
  <1> HIDE DEF recorded, counted
  <1>12. /\ M \in Tables /\ M.invite = f /\ M.command = db.command
         /\ M.attempt = db.attempt \/ M.attempt = g
    <2> HIDE DEF f
    <2> QED BY <1>5, <1>9, <1>11, PutInvites
  <1>13. TablesSound(M, calls, said, proposed, finalizer, T2, joiner, journal)
    BY <1>12, CountFits DEF g
  <1>14. CASE db.invite[i].failures + 1 # MaxProofFailures BY <1>6, <1>10, <1>12, <1>13, <1>14
  <1>15. CASE db.invite[i].failures + 1 = MaxProofFailures
    <2>1. PICK E : E = End(M, i, "proof_exhausted") OBVIOUS
    <2>2. "proof_exhausted" \in Terminal \ {"consumed"} /\ M.invite[i].state \in Live
      BY <1>5, <1>12 DEF Terminal, Live
    <2>3. Sweep(M, E) BY <1>12, <2>1, <2>2, EndSweeps
    <2>4. calls \in SUBSET Calls /\ joiner \in Joiners /\ journal \in JournalValues /\ finalizer \in Finalizers
      BY DEF JoinValues
    <2>5. TablesSound(E, calls, said, proposed, finalizer, T2, joiner, journal)
      BY <1>12, <1>13, <2>3, <2>4, SweepSound
    <2>6. E = Charged(i, a, input) BY <1>6, <1>10, <1>15, <2>1
    <2> QED BY <2>3, <2>5, <2>6 DEF Sweep
  <1> QED BY <1>14, <1>15

LEMMA WrongProofStep ==
    ASSUME JoinInv, NEW i \in Invites, NEW a \in Strangers, NEW input \in 1..2, WrongProof(i, a, input)
    PROVE  JoinInv'
  <1>1. JoinValues /\ InstallSound /\ TablesFit(db) /\ db \in Tables BY DEF JoinInv, JoinValues, TablesFit
  <1>2. /\ db.invite[i].state = "outstanding"
        /\ UNCHANGED <<calls, creating, finalizer, member, proposed, snapshots, journal, dest, joiner, said>>
    BY DEF WrongProof, serviceVars, ledgerVars, joinerVars
  <1> DEFINE same == /\ db.attempt[a].state = "proof_rejected" /\ db.attempt[a].invite = i
                     /\ db.attempt[a].input = input
  <1>3. /\ db' \in Tables
        /\ TablesSound(db', calls, said, proposed, finalizer, tried', joiner, journal)
    <2>1. CASE same
      <3>1. db' = db BY <2>1 DEF WrongProof
      <3>2. <<a, input>> \in tried[i] BY <1>1, <2>1 DEF TablesFit, TablesSound, ProofsSound, St, Of
      <3>3. tried[i] \cup {<<a, input>>} = tried[i] BY <3>2
      <3>4. tried' = tried BY <1>1, <3>3 DEF WrongProof, JoinValues
      <3> QED BY <1>1, <3>1, <3>4 DEF TablesFit
    <2>2. CASE ~same /\ i \in late
      <3>1. "expired" \in Terminal \ {"consumed"} /\ db.invite[i].state \in Live
        BY <1>2 DEF Terminal, Live
      <3>2. Sweep(db, End(db, i, "expired")) BY <1>1, <3>1, EndSweeps
      <3>3. db' = End(db, i, "expired") /\ tried' = tried BY <2>2 DEF WrongProof
      <3>4. db' \in Tables /\ TablesFit(db') BY <1>1, <3>2, <3>3, SweepFits
      <3> QED BY <3>3, <3>4 DEF TablesFit
    <2>3. CASE ~same /\ i \notin late
      <3>1. PICK T2 : T2 = [tried EXCEPT ![i] = tried[i] \cup {<<a, input>>}] OBVIOUS
      <3>2. db' = Charged(i, a, input) /\ tried' = T2 BY <2>3, <3>1 DEF WrongProof
      <3>3. /\ Charged(i, a, input) \in Tables
            /\ TablesSound(Charged(i, a, input), calls, said, proposed, finalizer, T2, joiner, journal)
        BY <1>1, <1>2, <3>1, ChargedFits
      <3> QED BY <3>2, <3>3
    <2> QED BY <2>1, <2>2, <2>3
  <1>4. tried' \in [Invites -> SUBSET (Strangers \X (1..2))]
    <2>1. tried[i] \cup {<<a, input>>} \in SUBSET (Strangers \X (1..2)) BY <1>1 DEF JoinValues
    <2>2. tried' = tried \/ tried' = [tried EXCEPT ![i] = tried[i] \cup {<<a, input>>}] BY DEF WrongProof
    <2> QED BY <1>1, <2>1, <2>2 DEF JoinValues
  <1>5. JoinValues' BY <1>1, <1>2, <1>3, <1>4 DEF JoinValues
  <1>6. InstallSound' BY <1>1, <1>2, SameInstall
  <1> QED BY <1>2, <1>3, <1>5, <1>6 DEF JoinInv

LEMMA ProvingStep ==
    ASSUME JoinInv, Proving
    PROVE  JoinInv'
  BY FreshJoinStep, RequestArrivesStep, FinishRequestStep, WrongProofStep DEF Proving

-----------------------------------------------------------------------------
(* Decisions and finalization *)

LEMMA LessStep ==
    ASSUME JoinInv, db' \in Tables, TablesFit(db'), calls' \subseteq calls,
           finalizer' \in {finalizer, None}, journal' \in {journal, NoJournal},
           creating' \in Creations, joiner' \in Joiners,
           \/ joiner' = Idle
           \/ /\ joiner'.step = joiner.step /\ joiner'.attempt = joiner.attempt
              /\ joiner'.invite = joiner.invite /\ journal' = journal,
           UNCHANGED <<member, proposed, snapshots, dest, said, tried>>
    PROVE  JoinInv'
  <1>1. JoinValues /\ InstallSound BY DEF JoinInv
  <1>2. finalizer' \in Finalizers /\ journal' \in JournalValues
    BY <1>1, IdleValue DEF JoinValues, Finalizers
  <1>3. JoinValues' BY <1>1, <1>2 DEF JoinValues
  <1>4. InstallSound'
    <2>1. CASE joiner' = Idle BY <1>1, <2>1, IdleValue, ExchangeInstall
    <2>2. CASE joiner'.step = joiner.step /\ journal' = journal BY <1>1, <2>2, SameInstall
    <2> QED BY <2>1, <2>2
  <1>5. TablesSound(db', calls', said, proposed, finalizer', tried, joiner', journal')
    <2>1. \/ joiner'.step = "idle"
          \/ /\ joiner'.step = joiner.step /\ joiner'.attempt = joiner.attempt
             /\ joiner'.invite = joiner.invite
      BY IdleValue
    <2>2. journal' = journal \/ joiner'.step \notin Bootstrap \cup {"deciding"}
      BY IdleValue DEF Bootstrap
    <2> QED BY <2>1, <2>2, LessSound DEF TablesFit
  <1> QED BY <1>3, <1>4, <1>5 DEF JoinInv

\* A call about an attempt that waits for a decision.
LEMMA NewCallSound ==
    ASSUME JoinValues, TablesFit(db), NEW a \in Attempts, St(db, a) = "awaiting_sas",
           NEW op \in {"confirm", "decline", "accept", "refuse"}, op = "confirm" => said[a] = "yes"
    PROVE  /\ Call(op, a, Of(db, a)) \in Calls
           /\ TablesSound(db, calls \cup {Call(op, a, Of(db, a))}, said, proposed, finalizer, tried, joiner, journal)
  <1>1. AttemptSound(db, said, proposed, a) /\ JoinerSound(db, said, joiner, journal)
    BY DEF TablesFit, TablesSound
  <1>2. Of(db, a) \in Invites /\ said[a] # "unused" BY <1>1 DEF AttemptSound
  <1>3. PICK c : c = Call(op, a, Of(db, a)) OBVIOUS
  <1>4. c \in Calls /\ c.op = op /\ c.attempt = a /\ c.invite = Of(db, a) BY <1>2, <1>3 DEF Call, Calls
  <1>5. CallSound(db, said, joiner, c) BY <1>1, <1>2, <1>4 DEF CallSound, JoinerSound
  <1>6. \A d \in calls : d.attempt = a => d.invite = Of(db, a)
    BY DEF TablesFit, TablesSound, CallSound
  <1>7. TablesSound(db, calls \cup {c}, said, proposed, finalizer, tried, joiner, journal)
    BY <1>4, <1>5, <1>6 DEF TablesFit, TablesSound
  <1> QED BY <1>3, <1>4, <1>7

\* One open attempt moves on, with its reserved command.
LEMMA MoveSound ==
    ASSUME JoinValues, TablesFit(db), NEW a \in Attempts, St(db, a) \in {"awaiting_sas", "finalizing"},
           NEW E \in Tables, E.invite = db.invite,
           \A b \in (Attempts \cup Strangers) \ {a} : E.attempt[b] = db.attempt[b],
           \A b \in Attempts \ {a} : E.command[b] = db.command[b],
           Of(E, a) = Of(db, a), AttemptSound(E, said, proposed, a),
           NEW F2, FinalizerSound(E, F2)
    PROVE  TablesSound(E, calls, said, proposed, F2, tried, joiner, journal)
  <1>1. ASSUME NEW b \in Attempts PROVE AttemptSound(E, said, proposed, b)
    BY DEF TablesFit, TablesSound, AttemptSound, St, Of, ModeOf
  <1>2. ASSUME NEW c \in calls PROVE CallSound(E, said, joiner, c)
    <2>1. CallSound(db, said, joiner, c) /\ c.attempt \in Attempts
      BY DEF TablesFit, TablesSound, JoinValues, Calls
    <2>2. St(E, c.attempt) # "none" => Of(E, c.attempt) = c.invite
      <3>1. CASE c.attempt = a BY <2>1, <3>1 DEF CallSound
      <3>2. CASE c.attempt # a BY <2>1, <3>2 DEF CallSound, St, Of
      <3> QED BY <3>1, <3>2
    <2> QED BY <2>1, <2>2 DEF CallSound, Spent
  <1>3. JoinerSound(E, said, joiner, journal)
    <2>1. JoinerSound(db, said, joiner, journal) BY DEF TablesFit, TablesSound
    <2>2. joiner.step = "requesting" /\ St(E, joiner.attempt) # "none" => Of(E, joiner.attempt) = joiner.invite
      <3>1. CASE joiner.attempt = a BY <2>1, <3>1 DEF JoinerSound
      <3>2. CASE joiner.attempt # a BY <2>1, <3>2 DEF JoinerSound, Exchange, St, Of
      <3> QED BY <3>1, <3>2
    <2>3. journal.phase \in Confirmed /\ journal.mode = "rebootstrap"
            => St(E, journal.attempt) = St(db, journal.attempt)
      BY <2>1 DEF JoinerSound, St
    <2> QED BY <2>1, <2>2, <2>3 DEF JoinerSound
  <1>4. ProofsSound(E, tried)
    <2>1. \A s \in Strangers : E.attempt[s] = db.attempt[s] BY JoiningConstants
    <2> QED BY <2>1 DEF TablesFit, TablesSound, ProofsSound, St, Of
  <1> QED BY <1>1, <1>2, <1>3, <1>4 DEF TablesFit, TablesSound

LEMMA OperatorAnswers ==
    ASSUME JoinInv, Approve \/ Decline
    PROVE  JoinInv'
  <1>1. JoinValues /\ InstallSound /\ TablesFit(db) BY DEF JoinInv, TablesFit
  <1>2. PICK yes \in BOOLEAN : (yes /\ Approve) \/ (~yes /\ Decline) OBVIOUS
  <1>3. /\ joiner.step = "review"
        /\ joiner' = [joiner EXCEPT !.step = IF yes THEN "deciding" ELSE "declining"]
        /\ said' = [said EXCEPT ![joiner.attempt] = IF yes THEN "yes" ELSE "no"]
        /\ UNCHANGED <<db, creating, calls, finalizer, member, proposed, snapshots, dest, tried>>
    BY <1>2 DEF Approve, Decline, Answered, serviceVars, ledgerVars
  <1>4. PICK a \in Attempts, i \in Invites :
          a = joiner.attempt /\ i = joiner.invite /\ said[a] = "asked"
    BY <1>1, <1>3 DEF TablesFit, TablesSound, JoinerSound, Exchange
  <1>5. journal' = IF yes THEN [phase |-> "decision_approved", attempt |-> a,
                                mode |-> db.invite[i].mode, epoch |-> db.invite[i].epoch, root |-> 0]
                   ELSE journal
    BY <1>2, <1>4 DEF Approve, Decline
  <1>6. journal' \in JournalValues
    <2>1. db.invite[i] \in InviteValues BY <1>1, TableFields DEF JoinValues
    <2>2. db.invite[i].mode \in Modes /\ db.invite[i].epoch \in Nat BY <2>1 DEF InviteValues
    <2>3. CASE yes BY <1>5, <2>2, <2>3 DEF JournalValues
    <2>4. CASE ~yes BY <1>1, <1>5, <2>4 DEF JoinValues
    <2> QED BY <2>3, <2>4
  <1>7. /\ joiner' \in Joiners /\ joiner'.attempt = a /\ joiner'.invite = i
        /\ joiner'.step = IF yes THEN "deciding" ELSE "declining"
    BY <1>1, <1>3, <1>4 DEF JoinValues, Joiners, Steps
  <1>8. /\ said' \in [Attempts -> {"unused", "asked", "yes", "no"}]
        /\ said'[a] = IF yes THEN "yes" ELSE "no"
        /\ \A b \in Attempts \ {a} : said'[b] = said[b]
    BY <1>1, <1>3, <1>4 DEF JoinValues
  <1>9. JoinValues' BY <1>1, <1>3, <1>6, <1>7, <1>8 DEF JoinValues
  <1>10. InstallSound' BY <1>1, <1>3, <1>7, ExchangeInstall DEF Exchange, InstallSound
  <1>11. ASSUME NEW b \in Attempts PROVE AttemptSound(db, said', proposed, b)
    <2>1. AttemptSound(db, said, proposed, b) BY <1>1 DEF TablesFit, TablesSound
    <2>2. CASE b = a BY <1>4, <1>8, <2>1, <2>2 DEF AttemptSound
    <2>3. CASE b # a BY <1>8, <2>1, <2>3 DEF AttemptSound
    <2> QED BY <2>2, <2>3
  <1>12. ASSUME NEW c \in calls PROVE CallSound(db, said', joiner', c)
    <2>1. CallSound(db, said, joiner, c) /\ c.attempt \in Attempts
      BY <1>1 DEF TablesFit, TablesSound, JoinValues, Calls
    <2>2. CASE c.attempt = a BY <1>3, <1>4, <1>7, <1>8, <2>1, <2>2 DEF CallSound
    <2>3. CASE c.attempt # a BY <1>7, <1>8, <2>1, <2>3 DEF CallSound
    <2> QED BY <2>2, <2>3
  <1>13. JoinerSound(db, said', joiner', journal')
    <2>1. JoinerSound(db, said, joiner, journal) BY <1>1 DEF TablesFit, TablesSound
    <2>2. /\ joiner'.step \in Exchange => joiner'.attempt \in Attempts /\ joiner'.invite \in Invites
          /\ joiner'.step \notin {"requesting", "review"} /\ joiner'.step \notin Bootstrap
      BY <1>7 DEF Bootstrap
    <2>3. CASE yes
      <3>1. journal'.attempt = a /\ journal'.phase = "decision_approved" BY <1>5, <2>3
      <3> QED BY <1>7, <1>8, <2>2, <2>3, <3>1 DEF JoinerSound, Confirmed
    <2>4. CASE ~yes
      <3>1. journal.phase \in Confirmed /\ journal.mode = "rebootstrap" => said'[journal.attempt] = "yes"
        BY <1>4, <1>8, <2>1 DEF JoinerSound
      <3> QED BY <1>5, <1>7, <2>1, <2>2, <2>4, <3>1 DEF JoinerSound
    <2> QED BY <2>3, <2>4
  <1>14. TablesSound(db, calls, said', proposed, finalizer, tried, joiner', journal')
    BY <1>1, <1>11, <1>12, <1>13 DEF TablesFit, TablesSound
  <1> QED BY <1>3, <1>9, <1>10, <1>14 DEF JoinInv

\* The bootstrap begins or goes on under a confirmed journal.
LEMMA BootstrapSound ==
    ASSUME NEW D, NEW K, NEW S, NEW P, NEW F, NEW T, NEW W, NEW N, TablesSound(D, K, S, P, F, T, W, N),
           NEW V, NEW N2, V.step \in Bootstrap, N2.phase \in Confirmed,
           N2.mode = "rebootstrap" =>
              N2.attempt \in Attempts /\ S[N2.attempt] = "yes" /\ St(D, N2.attempt) \in {"completed", "none"}
    PROVE  TablesSound(D, K, S, P, F, T, V, N2)
  <1>1. \A c \in K : CallSound(D, S, V, c) BY DEF TablesSound, CallSound, Bootstrap
  <1>2. JoinerSound(D, S, V, N2) BY DEF JoinerSound, Bootstrap, Exchange, Confirmed
  <1> QED BY <1>1, <1>2 DEF TablesSound

LEMMA ConfirmationArrivesStep ==
    ASSUME JoinInv, ConfirmationArrives
    PROVE  JoinInv'
  <1>1. JoinValues /\ InstallSound /\ TablesFit(db) /\ db \in Tables BY DEF JoinInv, JoinValues, TablesFit
  <1>2. /\ joiner.step \in {"deciding", "declining"}
        /\ UNCHANGED <<db, creating, finalizer, member, proposed, snapshots, dest, said, tried>>
    BY DEF ConfirmationArrives, ledgerVars, historyVars
  <1>3. PICK a \in Attempts : /\ a = joiner.attempt
                              /\ joiner.step = "deciding" =>
                                    said[a] = "yes" /\ journal.attempt = a /\ journal.phase = "decision_approved"
    BY <1>1, <1>2 DEF TablesFit, TablesSound, JoinerSound, Exchange
  <1>4. CASE /\ db.attempt[a].state = "awaiting_sas"
             /\ calls' = calls \cup {Call(IF joiner.step = "deciding" THEN "confirm" ELSE "decline",
                                          a, db.attempt[a].invite)}
             /\ UNCHANGED <<journal, joiner>>
    <2>1. PICK op \in {"confirm", "decline", "accept", "refuse"} :
            op = (IF joiner.step = "deciding" THEN "confirm" ELSE "decline") /\ (op = "confirm" => said[a] = "yes")
      BY <1>3
    <2>2. calls' = calls \cup {Call(op, a, Of(db, a))} BY <1>4, <2>1 DEF Of
    <2>3. /\ Call(op, a, Of(db, a)) \in Calls
          /\ TablesSound(db, calls \cup {Call(op, a, Of(db, a))}, said, proposed, finalizer, tried, joiner, journal)
      BY <1>1, <1>4, <2>1, NewCallSound DEF St
    <2>4. JoinValues' BY <1>1, <1>2, <1>4, <2>2, <2>3 DEF JoinValues
    <2>5. InstallSound' BY <1>1, <1>2, <1>4, SameInstall
    <2> QED BY <1>2, <1>4, <2>2, <2>3, <2>4, <2>5 DEF JoinInv
  <1>5. CASE calls' = calls /\ joiner' = Idle /\ journal' \in {journal, NoJournal}
    BY <1>1, <1>2, <1>5, IdleValue, LessStep DEF JoinValues
  <1>6. CASE /\ calls' = calls /\ joiner.step = "deciding" /\ db.attempt[a].state = "completed"
             /\ journal' = [journal EXCEPT !.phase = "confirmed"]
             /\ joiner' = [Answered("bootstrap") EXCEPT !.connected = FALSE]
    <2>1. /\ journal' \in JournalValues /\ journal'.phase = "confirmed" /\ journal'.attempt = a
      BY <1>1, <1>3, <1>6 DEF JoinValues, JournalValues, Confirmed
    <2>2. joiner' \in Joiners /\ joiner'.step = "bootstrap"
      BY <1>1, <1>6 DEF JoinValues, Joiners, Steps, Answered
    <2>3. JoinValues' BY <1>1, <1>2, <1>6, <2>1, <2>2 DEF JoinValues
    <2>4. InstallSound' BY <1>1, <1>2, <1>6, <2>2 DEF InstallSound, InstalledCovers, Admitted
    <2>5. TablesSound(db, calls, said, proposed, finalizer, tried, joiner', journal')
      <3>1. joiner'.step \in Bootstrap /\ journal'.phase \in Confirmed
        BY <2>1, <2>2 DEF Bootstrap, Confirmed
      <3>2. /\ journal'.attempt \in Attempts /\ said[journal'.attempt] = "yes"
            /\ St(db, journal'.attempt) \in {"completed", "none"}
        BY <1>3, <1>6, <2>1 DEF St
      <3> QED BY <1>1, <3>1, <3>2, BootstrapSound DEF TablesFit
    <2> QED BY <1>2, <1>6, <2>3, <2>4, <2>5 DEF JoinInv
  <1>7. \/ /\ db.attempt[a].state = "awaiting_sas"
           /\ calls' = calls \cup {Call(IF joiner.step = "deciding" THEN "confirm" ELSE "decline",
                                        a, db.attempt[a].invite)}
           /\ UNCHANGED <<journal, joiner>>
        \/ Learn(db.attempt[a].state) /\ calls' = calls
        \/ DecideFailed /\ calls' = calls
    BY <1>3 DEF ConfirmationArrives
  <1> QED BY <1>4, <1>5, <1>6, <1>7 DEF Learn, DecideFailed

LEMMA LocalDecisionStep ==
    ASSUME JoinInv, NEW a \in Attempts, NEW yes \in BOOLEAN, LocalDecision(a, yes)
    PROVE  JoinInv'
  <1>1. JoinValues /\ InstallSound /\ TablesFit(db) BY DEF JoinInv, TablesFit
  <1>2. PICK op \in {"confirm", "decline", "accept", "refuse"} :
          op = (IF yes THEN "accept" ELSE "refuse") /\ op # "confirm"
    OBVIOUS
  <1>3. /\ St(db, a) = "awaiting_sas" /\ calls' = calls \cup {Call(op, a, Of(db, a))}
        /\ UNCHANGED <<db, creating, finalizer, member, proposed, snapshots, journal, dest, joiner, said, tried>>
    BY <1>2 DEF LocalDecision, St, Of, ledgerVars, joinerVars, historyVars
  <1>4. /\ Call(op, a, Of(db, a)) \in Calls
        /\ TablesSound(db, calls \cup {Call(op, a, Of(db, a))}, said, proposed, finalizer, tried, joiner, journal)
    BY <1>1, <1>2, <1>3, NewCallSound
  <1>5. JoinValues' BY <1>1, <1>3, <1>4 DEF JoinValues
  <1>6. InstallSound' BY <1>1, <1>3, SameInstall
  <1> QED BY <1>3, <1>4, <1>5, <1>6 DEF JoinInv

\* A row of an attempt after each kind of decision.
LEMMA DecisionFields ==
    ASSUME NEW r \in AttemptValues, NEW who \in {"local", "remote"}
    PROVE  /\ [r EXCEPT !.remote = TRUE] \in AttemptValues
           /\ [r EXCEPT !.remote = TRUE].state = r.state
           /\ [r EXCEPT !.remote = TRUE].invite = r.invite
           /\ [r EXCEPT !.state = "declined", !.declinedBy = who] \in AttemptValues
           /\ [r EXCEPT !.state = "declined", !.declinedBy = who].state = "declined"
           /\ [r EXCEPT !.state = "declined", !.declinedBy = who].invite = r.invite
           /\ [r EXCEPT !.state = "declined", !.declinedBy = who].remote = r.remote
  <1>1. /\ [r EXCEPT !.remote = TRUE] \in AttemptValues
        /\ [r EXCEPT !.remote = TRUE].state = r.state
        /\ [r EXCEPT !.remote = TRUE].invite = r.invite
    BY DEF AttemptValues
  <1>2. "declined" \in {"none", "awaiting_sas", "finalizing"} \cup Finished BY DEF Finished
  <1>3. /\ [r EXCEPT !.state = "declined", !.declinedBy = who] \in AttemptValues
        /\ [r EXCEPT !.state = "declined", !.declinedBy = who].state = "declined"
        /\ [r EXCEPT !.state = "declined", !.declinedBy = who].invite = r.invite
        /\ [r EXCEPT !.state = "declined", !.declinedBy = who].remote = r.remote
    BY <1>2 DEF AttemptValues
  <1> QED BY <1>1, <1>3

\* A decision recorded on an open attempt.
LEMMA DecidedFits ==
    ASSUME JoinValues, TablesFit(db), NEW c \in calls, c.op # "request",
           St(db, c.attempt) = "awaiting_sas", c.op = "accept" => db.attempt[c.attempt].remote
    PROVE  Decided(c) \in Tables /\ TablesFit(Decided(c))
  <1>1. PICK a \in Attempts, i \in Invites : a = c.attempt /\ i = c.invite BY DEF JoinValues, Calls
  <1>2. db \in Tables /\ c \in Calls BY DEF JoinValues
  <1>3. /\ AttemptSound(db, said, proposed, a) /\ CallSound(db, said, joiner, c)
        /\ Of(db, a) = i /\ db.command[a] = "none" /\ proposed[a] = "none"
    BY <1>1 DEF TablesFit, TablesSound, CallSound, AttemptSound
  <1>4. db.attempt[a] \in AttemptValues /\ db.attempt \in [Attempts \cup Strangers -> AttemptValues]
    BY <1>2, TableFields
  <1>5. PICK E : E = Decided(c) OBVIOUS
  <1>6. PICK r \in AttemptValues, k \in {"none", "pending"} :
          /\ E = [db EXCEPT !.attempt = [db.attempt EXCEPT ![a] = r],
                            !.command = [db.command EXCEPT ![a] = k]]
          /\ r.invite = i /\ r.state \in {"awaiting_sas", "expired", "declined", "finalizing"}
          /\ r.state = "finalizing" \/ r.remote => said[a] = "yes"
          /\ k = "pending" => r.state = "finalizing" /\ db.invite[i].mode # "rebootstrap"
    <2>1. [db EXCEPT !.attempt = [db.attempt EXCEPT ![a] = db.attempt[a]]] = db BY <1>2, <1>4 DEF Tables
    <2>2. db.command \in [Attempts -> {"none", "pending", "accepted", "rejected"}] BY <1>2, TableFields
    <2>3. [db.command EXCEPT ![a] = "none"] = db.command BY <1>3, <2>2
    <2>4. ASSUME NEW r \in AttemptValues
          PROVE  [db EXCEPT !.attempt[a] = r]
                   = [db EXCEPT !.attempt = [db.attempt EXCEPT ![a] = r],
                                !.command = [db.command EXCEPT ![a] = "none"]]
      BY <1>2, <2>3 DEF Tables
    <2>5. c.op \in {"confirm", "decline", "refuse", "accept"} /\ c.inTime \in BOOLEAN BY <1>2 DEF Calls
    <2>6. db.attempt[a].remote => said[a] = "yes" BY <1>3 DEF AttemptSound
    <2>7. CASE ~c.inTime
      <3>1. E = [db EXCEPT !.attempt[a].state = "expired"] BY <1>1, <1>5, <2>7 DEF Decided
      <3>2. PICK r \in AttemptValues : /\ r = [db.attempt[a] EXCEPT !.state = "expired"]
                                       /\ r.state = "expired" /\ r.invite = i
                                       /\ r.remote = db.attempt[a].remote
        <4>1. "expired" \in {"none", "awaiting_sas", "finalizing"} \cup Finished BY DEF Finished
        <4>2. /\ [db.attempt[a] EXCEPT !.state = "expired"] \in AttemptValues
              /\ [db.attempt[a] EXCEPT !.state = "expired"].state = "expired"
              /\ [db.attempt[a] EXCEPT !.state = "expired"].invite = db.attempt[a].invite
              /\ [db.attempt[a] EXCEPT !.state = "expired"].remote = db.attempt[a].remote
          BY <1>4, <4>1, AttemptFields
        <4> QED BY <1>3, <4>2 DEF Of
      <3>3. E = [db EXCEPT !.attempt[a] = r] BY <3>1, <3>2
      <3> QED BY <2>4, <2>6, <3>2, <3>3
    <2>8. CASE c.inTime /\ c.op = "confirm"
      <3>1. E = [db EXCEPT !.attempt[a].remote = TRUE] BY <1>1, <1>5, <2>8 DEF Decided
      <3>2. PICK r \in AttemptValues : /\ r = [db.attempt[a] EXCEPT !.remote = TRUE]
                                       /\ r.state = "awaiting_sas" /\ r.invite = i
        <4>1. /\ [db.attempt[a] EXCEPT !.remote = TRUE] \in AttemptValues
              /\ [db.attempt[a] EXCEPT !.remote = TRUE].state = db.attempt[a].state
              /\ [db.attempt[a] EXCEPT !.remote = TRUE].invite = db.attempt[a].invite
          BY <1>4, DecisionFields
        <4> QED BY <1>1, <1>3, <4>1 DEF Of, St
      <3>3. said[a] = "yes" BY <1>1, <1>3, <2>8 DEF CallSound
      <3>4. E = [db EXCEPT !.attempt[a] = r] BY <3>1, <3>2
      <3> QED BY <2>4, <3>2, <3>3, <3>4
    <2>9. CASE c.inTime /\ c.op \in {"decline", "refuse"}
      <3>1. PICK who \in {"local", "remote"} :
              E = [db EXCEPT !.attempt[a].state = "declined", !.attempt[a].declinedBy = who]
        BY <1>1, <1>5, <2>9 DEF Decided
      <3>2. PICK r \in AttemptValues : /\ r = [db.attempt[a] EXCEPT !.state = "declined", !.declinedBy = who]
                                       /\ r.state = "declined" /\ r.invite = i
                                       /\ r.remote = db.attempt[a].remote
        <4>1. /\ [db.attempt[a] EXCEPT !.state = "declined", !.declinedBy = who] \in AttemptValues
              /\ [db.attempt[a] EXCEPT !.state = "declined", !.declinedBy = who].state = "declined"
              /\ [db.attempt[a] EXCEPT !.state = "declined", !.declinedBy = who].invite = db.attempt[a].invite
              /\ [db.attempt[a] EXCEPT !.state = "declined", !.declinedBy = who].remote = db.attempt[a].remote
          BY <1>4, DecisionFields
        <4> QED BY <1>3, <4>1 DEF Of
      <3>3. E = [db EXCEPT !.attempt[a] = r] BY <1>2, <1>4, <3>1, <3>2 DEF Tables
      <3> QED BY <2>4, <2>6, <3>2, <3>3
    <2>10. CASE c.inTime /\ c.op = "accept"
      <3>1. PICK k \in {"none", "pending"} : /\ k = Reserved(db.invite[i])
                                             /\ k = "pending" => db.invite[i].mode # "rebootstrap"
        BY DEF Reserved
      <3>2. E = [db EXCEPT !.attempt[a].state = "finalizing", !.command[a] = k]
        BY <1>1, <1>5, <2>10, <3>1 DEF Decided
      <3>3. PICK r \in AttemptValues : /\ r = [db.attempt[a] EXCEPT !.state = "finalizing"]
                                       /\ r.state = "finalizing" /\ r.invite = i
        BY <1>3, <1>4, AttemptFields DEF Of
      <3>4. said[a] = "yes" BY <1>1, <2>6, <2>10
      <3>5. E = [db EXCEPT !.attempt = [db.attempt EXCEPT ![a] = r],
                           !.command = [db.command EXCEPT ![a] = k]]
        BY <3>2, <3>3
      <3> QED BY <3>1, <3>3, <3>4, <3>5
    <2> QED BY <2>5, <2>7, <2>8, <2>9, <2>10
  <1> DEFINE g == [db.attempt EXCEPT ![a] = r]
             h == [db.command EXCEPT ![a] = k]
  <1>7. /\ g \in [Attempts \cup Strangers -> AttemptValues] /\ g[a] = r
        /\ \A b \in (Attempts \cup Strangers) \ {a} : g[b] = db.attempt[b]
    BY <1>4
  <1>8. /\ h \in [Attempts -> {"none", "pending", "accepted", "rejected"}] /\ h[a] = k
        /\ \A b \in Attempts \ {a} : h[b] = db.command[b]
    BY <1>2, TableFields
  <1>9. E = [db EXCEPT !.attempt = g, !.command = h] BY <1>6
  <1> HIDE DEF g, h
  <1>10. E \in Tables /\ E.invite = db.invite /\ E.attempt = g /\ E.command = h
    BY <1>2, <1>7, <1>8, <1>9 DEF Tables
  <1>11. St(E, a) = r.state /\ Of(E, a) = i /\ E.command[a] = k /\ E.attempt[a] = r
    BY <1>6, <1>7, <1>8, <1>10 DEF St, Of
  <1>12. AttemptSound(E, said, proposed, a)
    <2>1. db.invite[i].state = "consumed" /\ db.invite[i].consumedBy = a /\ said[a] # "unused"
      BY <1>1, <1>3 DEF AttemptSound
    <2>2. r.state = "finalizing" => said[a] = "yes" BY <1>6
    <2>3. k # "none" => k = "pending" /\ r.state = "finalizing" /\ said[a] = "yes" BY <1>6
    <2>4. /\ St(E, a) # "none" =>
               /\ St(E, a) # "proof_rejected" /\ Of(E, a) \in Invites
               /\ E.invite[Of(E, a)].state = "consumed" /\ E.invite[Of(E, a)].consumedBy = a
          /\ St(E, a) \in {"finalizing", "completed"} \/ E.attempt[a].remote \/ E.command[a] # "none"
               => said[a] = "yes"
          /\ said[a] = "unused" => St(E, a) = "none"
      BY <1>6, <1>10, <1>11, <2>1, <2>2, <2>3
    <2>5. /\ E.command[a] \in {"accepted", "rejected"} => proposed[a] = E.command[a]
          /\ proposed[a] # "none" => E.command[a] # "none"
          /\ E.command[a] = "pending" => St(E, a) = "finalizing"
          /\ E.command[a] = "accepted" => St(E, a) \in {"finalizing", "completed", "none"}
          /\ St(E, a) = "awaiting_sas" => E.command[a] = "none"
      BY <1>3, <1>6, <1>11, <2>3
    <2>6. /\ St(E, a) \in {"finalizing", "completed"} /\ ModeOf(E, a) = "rebootstrap" => E.command[a] = "none"
          /\ St(E, a) = "completed" /\ ModeOf(E, a) # "rebootstrap" => E.command[a] = "accepted"
      BY <1>6, <1>10, <1>11 DEF ModeOf
    <2> QED BY <2>4, <2>5, <2>6 DEF AttemptSound
  <1>13. FinalizerSound(E, finalizer)
    <2> SUFFICES ASSUME finalizer # None PROVE FinalizerSound(E, finalizer) BY DEF FinalizerSound
    <2>1. PICK b \in Attempts : b = finalizer.attempt BY DEF JoinValues, Finalizers
    <2>2. FinalizerSound(db, finalizer) BY DEF TablesFit, TablesSound
    <2>3. b # a BY <1>1, <2>1, <2>2 DEF FinalizerSound
    <2>4. E.attempt[b] = db.attempt[b] /\ E.command[b] = db.command[b] BY <1>7, <1>8, <1>10, <2>3
    <2> QED BY <1>10, <2>1, <2>2, <2>4 DEF FinalizerSound, St, Of, ModeOf
  <1>14. St(db, a) \in {"awaiting_sas", "finalizing"} /\ Of(E, a) = Of(db, a) BY <1>1, <1>3, <1>11
  <1>15. TablesFit(E)
    BY <1>7, <1>8, <1>10, <1>12, <1>13, <1>14, MoveSound DEF TablesFit
  <1> QED BY <1>5, <1>10, <1>15

LEMMA DecidingStep ==
    ASSUME JoinInv, Deciding
    PROVE  JoinInv'
  <1>1. JoinValues /\ TablesFit(db) /\ db \in Tables /\ creating \in Creations /\ joiner \in Joiners
    BY DEF JoinInv, JoinValues, TablesFit
  <1>2. CASE ExchangeFails
    <2>1. UNCHANGED <<member, proposed, snapshots, dest, said, tried>> /\ UNCHANGED <<db, creating, calls, finalizer>>
      BY <1>2 DEF ExchangeFails, serviceVars, ledgerVars, historyVars
    <2>2. joiner' = Idle /\ journal' \in {journal, NoJournal} BY <1>2 DEF ExchangeFails, DecideFailed
    <2> QED BY <1>1, <2>1, <2>2, IdleValue, LessStep
  <1>3. ASSUME NEW c \in calls, FinishDecision(c) PROVE JoinInv'
    <2>1. /\ UNCHANGED <<member, proposed, snapshots, dest, said, tried>> /\ UNCHANGED <<creating, finalizer>>
          /\ calls' \subseteq calls
      BY <1>3 DEF FinishDecision, ledgerVars, historyVars
    <2>2. \/ joiner' = Idle /\ journal' \in {journal, NoJournal}
          \/ joiner' = joiner /\ journal' = journal
      BY <1>3 DEF FinishDecision, DecideFailed
    <2>3. db' \in Tables /\ TablesFit(db')
      <3>1. CASE db' = db BY <1>1, <3>1
      <3>2. CASE db' # db
        <4>1. /\ db' = Decided(c) /\ c.op # "request" /\ St(db, c.attempt) = "awaiting_sas"
              /\ c.op = "accept" => db.attempt[c.attempt].remote
          BY <1>3, <3>2 DEF FinishDecision, St
        <4>2. Decided(c) \in Tables /\ TablesFit(Decided(c)) BY <1>1, <4>1, DecidedFits
        <4> QED BY <4>1, <4>2
      <3> QED BY <3>1, <3>2
    <2> QED BY <1>1, <2>1, <2>2, <2>3, IdleValue, LessStep
  <1> QED BY <1>2, <1>3, OperatorAnswers, ConfirmationArrivesStep, LocalDecisionStep DEF Deciding

LEMMA StartFinalizeStep ==
    ASSUME JoinInv, NEW a \in Attempts, StartFinalize(a)
    PROVE  JoinInv'
  <1>1. JoinValues /\ InstallSound /\ TablesFit(db) /\ db \in Tables BY DEF JoinInv, JoinValues, TablesFit
  <1>2. /\ St(db, a) = "finalizing" /\ finalizer' = [attempt |-> a, outcome |-> Outcome(a)]
        /\ Outcome(a) # "unavailable"
        /\ UNCHANGED <<db, creating, calls, member, snapshots, journal, dest, joiner, said, tried>>
    BY DEF StartFinalize, St, joinerVars, historyVars
  <1>3. AttemptSound(db, said, proposed, a) BY <1>1 DEF TablesFit, TablesSound
  <1>4. ModeOf(db, a) = db.invite[db.attempt[a].invite].mode BY DEF ModeOf, Of
  <1>5. db.command[a] \in {"none", "pending", "accepted", "rejected"} BY <1>1, TableFields
  <1>6. /\ Outcome(a) \in {"none", "pending", "accepted", "rejected"}
        /\ ModeOf(db, a) # "rebootstrap" => Outcome(a) = db.command[a]
        /\ ModeOf(db, a) = "rebootstrap" => Outcome(a) # "pending"
    BY <1>2, <1>4, <1>5 DEF Outcome
  <1>7. finalizer' \in Finalizers /\ finalizer'.attempt = a /\ finalizer'.outcome = Outcome(a)
    BY <1>2, <1>6 DEF Finalizers
  <1>8. FinalizerSound(db, finalizer') BY <1>2, <1>6, <1>7 DEF FinalizerSound
  <1>9. /\ proposed' \in [Attempts -> {"none", "sent", "accepted", "rejected"}]
        /\ \A b \in Attempts : proposed'[b] # proposed[b] =>
              b = a /\ proposed'[a] = "sent" /\ Outcome(a) = "pending"
    BY <1>1 DEF StartFinalize, JoinValues
  <1>10. ASSUME NEW b \in Attempts PROVE AttemptSound(db, said, proposed', b)
    <2>1. AttemptSound(db, said, proposed, b) BY <1>1 DEF TablesFit, TablesSound
    <2>2. CASE proposed'[b] = proposed[b] BY <2>1, <2>2 DEF AttemptSound
    <2>3. CASE proposed'[b] # proposed[b]
      <3>1. b = a /\ db.command[a] = "pending" BY <1>6, <1>9, <2>3
      <3> QED BY <2>1, <3>1 DEF AttemptSound
    <2> QED BY <2>2, <2>3
  <1>11. TablesSound(db, calls, said, proposed', finalizer', tried, joiner, journal)
    BY <1>1, <1>8, <1>10 DEF TablesFit, TablesSound
  <1>12. JoinValues' BY <1>1, <1>2, <1>7, <1>9 DEF JoinValues
  <1>13. InstallSound' BY <1>1, <1>2, SameInstall
  <1> QED BY <1>2, <1>11, <1>12, <1>13 DEF JoinInv

LEMMA AdmissionReturnsStep ==
    ASSUME JoinInv, AdmissionReturns
    PROVE  JoinInv'
  <1>1. JoinValues /\ InstallSound /\ TablesFit(db) /\ db \in Tables BY DEF JoinInv, JoinValues, TablesFit
  <1>2. /\ finalizer # None /\ finalizer' = [finalizer EXCEPT !.outcome = db.command[finalizer.attempt]]
        /\ UNCHANGED <<db, creating, calls, member, proposed, snapshots, journal, dest, joiner, said, tried>>
    BY DEF AdmissionReturns, ledgerVars, joinerVars, historyVars
  <1>3. PICK a \in Attempts : a = finalizer.attempt BY <1>1, <1>2 DEF JoinValues, Finalizers
  <1>4. db.command[a] \in {"none", "pending", "accepted", "rejected"} BY <1>1, TableFields
  <1>5. finalizer' \in Finalizers /\ finalizer'.attempt = a /\ finalizer'.outcome = db.command[a]
    BY <1>1, <1>2, <1>3, <1>4 DEF JoinValues, Finalizers
  <1>6. FinalizerSound(db, finalizer') BY <1>1, <1>2, <1>3, <1>5 DEF TablesFit, TablesSound, FinalizerSound
  <1>7. TablesSound(db, calls, said, proposed, finalizer', tried, joiner, journal)
    BY <1>1, <1>6 DEF TablesFit, TablesSound
  <1>8. JoinValues' BY <1>1, <1>2, <1>5 DEF JoinValues
  <1>9. InstallSound' BY <1>1, <1>2, SameInstall
  <1> QED BY <1>2, <1>7, <1>8, <1>9 DEF JoinInv

LEMMA RecordFinalizationStep ==
    ASSUME JoinInv, RecordFinalization
    PROVE  JoinInv'
  <1>1. JoinValues /\ InstallSound /\ TablesFit(db) /\ db \in Tables BY DEF JoinInv, JoinValues, TablesFit
  <1>2. /\ finalizer # None /\ finalizer.outcome \in {"accepted", "rejected"} /\ finalizer' = None
        /\ UNCHANGED <<creating, calls, member, proposed, snapshots, journal, dest, joiner, said, tried>>
    BY DEF RecordFinalization, ledgerVars, joinerVars, historyVars
  <1>3. PICK a \in Attempts : a = finalizer.attempt BY <1>1, <1>2 DEF JoinValues, Finalizers
  <1>4. /\ AttemptSound(db, said, proposed, a) /\ St(db, a) = "finalizing"
        /\ ModeOf(db, a) # "rebootstrap" => db.command[a] = finalizer.outcome
    BY <1>1, <1>2, <1>3 DEF TablesFit, TablesSound, FinalizerSound
  <1>5. PICK s \in {"none", "awaiting_sas", "finalizing"} \cup Finished :
          /\ s = (IF finalizer.outcome = "accepted" THEN "completed" ELSE "revoked")
          /\ s \in {"completed", "revoked"}
    BY DEF Finished
  <1>6. db.attempt[a] \in AttemptValues /\ db.attempt \in [Attempts \cup Strangers -> AttemptValues]
    BY <1>1, TableFields
  <1>7. PICK r \in AttemptValues : /\ r = [db.attempt[a] EXCEPT !.state = s]
                                   /\ r.state = s /\ r.invite = db.attempt[a].invite
                                   /\ r.remote = db.attempt[a].remote
    BY <1>6, AttemptFields
  <1> DEFINE g == [db.attempt EXCEPT ![a] = r]
  <1>8. /\ g \in [Attempts \cup Strangers -> AttemptValues] /\ g[a] = r
        /\ \A b \in (Attempts \cup Strangers) \ {a} : g[b] = db.attempt[b]
    BY <1>6
  <1>9. PICK E : E = db' OBVIOUS
  <1>10. E = [db EXCEPT !.attempt = g] BY <1>3, <1>5, <1>7, <1>9 DEF RecordFinalization
  <1> HIDE DEF g
  <1>11. E \in Tables /\ E.invite = db.invite /\ E.attempt = g /\ E.command = db.command
    BY <1>1, <1>8, <1>10, PutAttempts
  <1>12. St(E, a) = s /\ Of(E, a) = Of(db, a) /\ E.attempt[a].remote = db.attempt[a].remote
    BY <1>7, <1>8, <1>11 DEF St, Of
  <1>13. ModeOf(E, a) = ModeOf(db, a) BY <1>11, <1>12 DEF ModeOf
  <1>14. AttemptSound(E, said, proposed, a)
    <2>1. said[a] = "yes" /\ Of(db, a) \in Invites /\ db.invite[Of(db, a)].state = "consumed"
          /\ db.invite[Of(db, a)].consumedBy = a
      BY <1>4 DEF AttemptSound
    <2>2. ModeOf(db, a) = "rebootstrap" => db.command[a] = "none" BY <1>4 DEF AttemptSound
    <2>3. /\ s = "completed" /\ ModeOf(db, a) # "rebootstrap" => db.command[a] = "accepted"
          /\ db.command[a] # "pending"
          /\ db.command[a] = "accepted" => s = "completed"
      BY <1>2, <1>4, <1>5, <2>2
    <2>4. /\ db.command[a] \in {"accepted", "rejected"} => proposed[a] = db.command[a]
          /\ proposed[a] # "none" => db.command[a] # "none"
      BY <1>4 DEF AttemptSound
    <2> QED BY <1>5, <1>11, <1>12, <1>13, <2>1, <2>2, <2>3, <2>4 DEF AttemptSound
  <1>15. FinalizerSound(E, None) BY DEF FinalizerSound
  <1>16. \A b \in Attempts \ {a} : E.command[b] = db.command[b] BY <1>11
  <1>17. TablesSound(E, calls, said, proposed, None, tried, joiner, journal)
    BY <1>1, <1>4, <1>8, <1>11, <1>12, <1>14, <1>15, <1>16, MoveSound
  <1>18. JoinValues' BY <1>1, <1>2, <1>9, <1>11 DEF JoinValues, Finalizers
  <1>19. InstallSound' BY <1>1, <1>2, SameInstall
  <1> QED BY <1>2, <1>9, <1>17, <1>18, <1>19 DEF JoinInv

LEMMA FinalizingStep ==
    ASSUME JoinInv, Finalizing
    PROVE  JoinInv'
  <1>1. CASE FinalizationPending
    <2>1. /\ UNCHANGED <<member, proposed, snapshots, dest, said, tried>>
          /\ UNCHANGED <<db, creating, calls, journal, joiner>> /\ finalizer' = None
      BY <1>1 DEF FinalizationPending, ledgerVars, joinerVars, historyVars
    <2>2. TablesFit(db) /\ db \in Tables /\ creating \in Creations /\ joiner \in Joiners
      BY DEF JoinInv, JoinValues, TablesFit
    <2> QED BY <2>1, <2>2, LessStep
  <1> QED BY <1>1, StartFinalizeStep, AdmissionReturnsStep, RecordFinalizationStep DEF Finalizing

-----------------------------------------------------------------------------
(* Steps of the ledger and of the world around *)

\* The device stays admitted and its authorization stays where it is.
LEMMA MemberInstall ==
    ASSUME InstallSound, UNCHANGED <<dest, journal, joiner>>, member'.cut = member.cut,
           Admitted => member'.status = "active"
    PROVE  InstallSound'
  BY DEF InstallSound, InstalledCovers, Admitted

LEMMA MemberFields ==
    ASSUME NEW m \in Members
    PROVE  /\ [m EXCEPT !.status = "active", !.version = m.version + 1, !.epoch = 0] \in Members
           /\ [m EXCEPT !.status = "active", !.version = m.version + 1, !.epoch = 0].cut = m.cut
           /\ [m EXCEPT !.status = "active", !.version = m.version + 1, !.epoch = 0].status = "active"
           /\ [m EXCEPT !.owner = FALSE] \in Members
           /\ [m EXCEPT !.owner = FALSE].cut = m.cut
           /\ [m EXCEPT !.owner = FALSE].status = m.status
           /\ [m EXCEPT !.configured = ~m.configured] \in Members
           /\ [m EXCEPT !.configured = ~m.configured].cut = m.cut
           /\ [m EXCEPT !.configured = ~m.configured].status = m.status
  <1>1. m.version + 1 \in Nat BY DEF Members
  <1>2. /\ [m EXCEPT !.status = "active", !.version = m.version + 1, !.epoch = 0] \in Members
        /\ [m EXCEPT !.status = "active", !.version = m.version + 1, !.epoch = 0].cut = m.cut
        /\ [m EXCEPT !.status = "active", !.version = m.version + 1, !.epoch = 0].status = "active"
    <2>1. PICK v \in Nat : v = m.version + 1 BY <1>1
    <2>2. /\ [m EXCEPT !.status = "active", !.version = v, !.epoch = 0] \in Members
          /\ [m EXCEPT !.status = "active", !.version = v, !.epoch = 0].cut = m.cut
          /\ [m EXCEPT !.status = "active", !.version = v, !.epoch = 0].status = "active"
      BY DEF Members
    <2> QED BY <2>1, <2>2
  <1>3. /\ [m EXCEPT !.owner = FALSE] \in Members
        /\ [m EXCEPT !.owner = FALSE].cut = m.cut
        /\ [m EXCEPT !.owner = FALSE].status = m.status
    BY DEF Members
  <1>4. /\ [m EXCEPT !.configured = ~m.configured] \in Members
        /\ [m EXCEPT !.configured = ~m.configured].cut = m.cut
        /\ [m EXCEPT !.configured = ~m.configured].status = m.status
    BY DEF Members
  <1> QED BY <1>2, <1>3, <1>4

LEMMA CommitAdmissionStep ==
    ASSUME JoinInv, NEW a \in Attempts, CommitAdmission(a)
    PROVE  JoinInv'
  <1>1. JoinValues /\ InstallSound /\ TablesFit(db) /\ db \in Tables BY DEF JoinInv, JoinValues, TablesFit
  <1>2. /\ proposed[a] = "sent"
        /\ UNCHANGED <<db, creating, calls, finalizer, snapshots, journal, dest, joiner, said, tried>>
    BY DEF CommitAdmission, serviceVars, joinerVars, historyVars
  <1>3. PICK v \in {"accepted", "rejected"} : proposed' = [proposed EXCEPT ![a] = v]
    BY DEF CommitAdmission
  <1>4. /\ proposed' \in [Attempts -> {"none", "sent", "accepted", "rejected"}] /\ proposed'[a] = v
        /\ \A b \in Attempts \ {a} : proposed'[b] = proposed[b]
    BY <1>1, <1>3 DEF JoinValues
  <1>5. \/ member' = member
        \/ member' = [member EXCEPT !.status = "active", !.version = member.version + 1, !.epoch = 0]
    BY DEF CommitAdmission
  <1>6. member' \in Members /\ member'.cut = member.cut /\ (Admitted => member'.status = "active")
    <2>1. PICK m \in Members : m = member BY <1>1 DEF JoinValues
    <2> QED BY <1>5, <2>1, MemberFields DEF Admitted
  <1>7. ASSUME NEW b \in Attempts PROVE AttemptSound(db, said, proposed', b)
    <2>1. AttemptSound(db, said, proposed, b) BY <1>1 DEF TablesFit, TablesSound
    <2>2. CASE b = a
      <3>1. db.command[a] \notin {"accepted", "rejected"} /\ db.command[a] # "none"
        BY <1>2, <2>1, <2>2 DEF AttemptSound
      <3> QED BY <1>4, <2>1, <2>2, <3>1 DEF AttemptSound
    <2>3. CASE b # a BY <1>4, <2>1, <2>3 DEF AttemptSound
    <2> QED BY <2>2, <2>3
  <1>8. TablesSound(db, calls, said, proposed', finalizer, tried, joiner, journal)
    BY <1>1, <1>7 DEF TablesFit, TablesSound
  <1>9. JoinValues' BY <1>1, <1>2, <1>4, <1>6 DEF JoinValues
  <1>10. InstallSound' BY <1>1, <1>2, <1>6, MemberInstall
  <1> QED BY <1>2, <1>8, <1>9, <1>10 DEF JoinInv

LEMMA ApplyAdmissionStep ==
    ASSUME JoinInv, NEW a \in Attempts, ApplyAdmission(a)
    PROVE  JoinInv'
  <1>1. JoinValues /\ InstallSound /\ TablesFit(db) /\ db \in Tables BY DEF JoinInv, JoinValues, TablesFit
  <1>2. /\ db.command[a] = "pending"
        /\ UNCHANGED <<creating, calls, finalizer, member, proposed, snapshots, journal, dest, joiner, said, tried>>
    BY DEF ApplyAdmission, serviceVars, ledgerVars, joinerVars, historyVars
  <1>3. PICK v \in {"accepted", "rejected"} : v = proposed[a] BY DEF ApplyAdmission
  <1>4. AttemptSound(db, said, proposed, a) /\ St(db, a) = "finalizing"
    BY <1>1, <1>2 DEF TablesFit, TablesSound, AttemptSound
  <1> DEFINE h == [db.command EXCEPT ![a] = v]
  <1>5. /\ h \in [Attempts -> {"none", "pending", "accepted", "rejected"}] /\ h[a] = v
        /\ \A b \in Attempts \ {a} : h[b] = db.command[b]
    BY <1>1, TableFields
  <1>6. PICK E : E = db' OBVIOUS
  <1>7. E = [db EXCEPT !.command = h] BY <1>3, <1>6 DEF ApplyAdmission
  <1> HIDE DEF h
  <1>8. E \in Tables /\ E.invite = db.invite /\ E.attempt = db.attempt /\ E.command = h
    BY <1>1, <1>5, <1>7, PutCommands
  <1>9. St(E, a) = "finalizing" /\ Of(E, a) = Of(db, a) /\ ModeOf(E, a) = ModeOf(db, a)
    BY <1>4, <1>8 DEF St, Of, ModeOf
  <1>10. ModeOf(db, a) # "rebootstrap" BY <1>2, <1>4 DEF AttemptSound
  <1>11. AttemptSound(E, said, proposed, a)
    BY <1>2, <1>3, <1>4, <1>5, <1>8, <1>9, <1>10 DEF AttemptSound
  <1>12. FinalizerSound(E, finalizer)
    <2>1. FinalizerSound(db, finalizer) BY <1>1 DEF TablesFit, TablesSound
    <2>2. finalizer # None => finalizer.attempt \in Attempts BY <1>1 DEF JoinValues, Finalizers
    <2>3. CASE finalizer # None /\ finalizer.attempt = a
      BY <1>2, <1>8, <1>9, <1>10, <2>1, <2>3 DEF FinalizerSound
    <2>4. CASE finalizer # None /\ finalizer.attempt # a
      BY <1>5, <1>8, <2>1, <2>2, <2>4 DEF FinalizerSound, St, Of, ModeOf
    <2> QED BY <2>3, <2>4 DEF FinalizerSound
  <1>13. /\ \A b \in (Attempts \cup Strangers) \ {a} : E.attempt[b] = db.attempt[b]
         /\ \A b \in Attempts \ {a} : E.command[b] = db.command[b]
    BY <1>5, <1>8
  <1>14. TablesSound(E, calls, said, proposed, finalizer, tried, joiner, journal)
    BY <1>1, <1>4, <1>8, <1>9, <1>11, <1>12, <1>13, MoveSound
  <1>15. JoinValues' BY <1>1, <1>2, <1>6, <1>8 DEF JoinValues
  <1>16. InstallSound' BY <1>1, <1>2, SameInstall
  <1> QED BY <1>2, <1>6, <1>14, <1>15, <1>16 DEF JoinInv

LEMMA LedgerStep ==
    ASSUME JoinInv, Ledger
    PROVE  JoinInv'
  <1>1. JoinValues /\ InstallSound /\ TablesFit(db) BY DEF JoinInv, TablesFit
  <1>2. CASE MembershipChanges
    <2>1. UNCHANGED <<db, creating, calls, finalizer, proposed, snapshots, journal, dest, joiner, said, tried>>
      BY <1>2 DEF MembershipChanges, serviceVars, joinerVars, historyVars
    <2>2. member' \in Members /\ member'.cut = member.cut /\ (Admitted => member'.status = "active")
      <3>1. PICK m \in Members : m = member BY <1>1 DEF JoinValues
      <3>2. \/ member' = [m EXCEPT !.status = "active", !.version = m.version + 1, !.epoch = 0]
            \/ member' = [m EXCEPT !.owner = FALSE]
            \/ member' = [m EXCEPT !.configured = ~m.configured]
        BY <1>2, <3>1 DEF MembershipChanges
      <3> QED BY <3>1, <3>2, MemberFields DEF Admitted
    <2>3. JoinValues' BY <1>1, <2>1, <2>2 DEF JoinValues
    <2>4. InstallSound' BY <1>1, <2>1, <2>2, MemberInstall
    <2> QED BY <1>1, <2>1, <2>3, <2>4 DEF JoinInv, TablesFit
  <1>3. CASE PublishSnapshot
    <2>1. UNCHANGED <<db, creating, calls, finalizer, member, proposed, journal, dest, joiner, said, tried>>
      BY <1>3 DEF PublishSnapshot, serviceVars, joinerVars, historyVars
    <2>2. JoinValues' BY <1>1, <1>3, <2>1 DEF JoinValues, PublishSnapshot
    <2>3. InstallSound' BY <1>1, <2>1, SameInstall
    <2> QED BY <1>1, <2>1, <2>2, <2>3 DEF JoinInv, TablesFit
  <1> QED BY <1>2, <1>3, CommitAdmissionStep, ApplyAdmissionStep DEF Ledger

LEMMA FailingStep ==
    ASSUME JoinInv, Failing
    PROVE  JoinInv'
  <1>1. JoinValues /\ InstallSound /\ TablesFit(db) /\ db \in Tables /\ creating \in Creations /\ joiner \in Joiners
    BY DEF JoinInv, JoinValues, TablesFit
  <1>2. /\ [joiner EXCEPT !.connected = FALSE] \in Joiners
        /\ [joiner EXCEPT !.connected = FALSE].step = joiner.step
        /\ [joiner EXCEPT !.connected = FALSE].attempt = joiner.attempt
        /\ [joiner EXCEPT !.connected = FALSE].invite = joiner.invite
    BY <1>1 DEF Joiners
  <1>3. CASE InviterCrash
    <2>1. /\ UNCHANGED <<member, proposed, snapshots, dest, said, tried>> /\ UNCHANGED <<db, journal>>
          /\ creating' \in Creations /\ calls' \subseteq calls /\ finalizer' = None
          /\ joiner' = [joiner EXCEPT !.connected = FALSE]
      BY <1>3 DEF InviterCrash, Creations, ledgerVars, historyVars
    <2> QED BY <1>1, <1>2, <2>1, LessStep
  <1>4. CASE JoinerCrash \/ ConnectionBreaks
    <2>1. /\ UNCHANGED <<member, proposed, snapshots, dest, said, tried>>
          /\ UNCHANGED <<db, creating, calls, finalizer, journal>>
          /\ joiner' = Idle \/ joiner' = [joiner EXCEPT !.connected = FALSE]
      BY <1>4 DEF JoinerCrash, ConnectionBreaks, serviceVars, ledgerVars, historyVars
    <2> QED BY <1>1, <1>2, <2>1, IdleValue, LessStep
  <1>5. CASE ForeignDatabase
    <2>1. /\ UNCHANGED <<db, creating, calls, finalizer, member, proposed, snapshots, journal, joiner, said, tried>>
          /\ dest.kind = "absent" /\ dest' = [dest EXCEPT !.kind = "foreign"]
      BY <1>5 DEF ForeignDatabase, serviceVars, ledgerVars, historyVars
    <2>2. dest' \in Destinations /\ dest'.kind = "foreign" BY <1>1, <2>1 DEF JoinValues, Destinations
    <2>3. JoinValues' BY <1>1, <2>1, <2>2 DEF JoinValues
    <2>4. InstallSound' BY <1>1, <2>1, <2>2 DEF InstallSound, InstalledCovers, Admitted
    <2> QED BY <1>1, <2>1, <2>3, <2>4 DEF JoinInv, TablesFit
  <1>6. ASSUME NEW i \in Invites, Expire(i) PROVE JoinInv'
    <2>1. UNCHANGED <<calls, finalizer, member, proposed, snapshots, journal, dest, joiner, said, tried>>
          /\ UNCHANGED <<db, creating>>
      BY <1>6 DEF Expire, serviceVars, ledgerVars, joinerVars, historyVars
    <2> QED BY <1>1, <2>1, RowsStep
  <1> QED BY <1>3, <1>4, <1>5, <1>6, CleaningStep DEF Failing

-----------------------------------------------------------------------------
(* The joiner's bootstrap *)

\* A step of the bootstrap moves the joiner; the journal may record more of the same join.
LEMMA BootstrapMoves ==
    ASSUME JoinInv, NEW from \in Bootstrap, NEW to \in Bootstrap, BootstrapStep(from, to),
           journal' \in JournalValues, journal'.phase \in Confirmed,
           journal'.mode = journal.mode, journal'.attempt = journal.attempt,
           member' \in Members, dest' \in Destinations, InstallSound'
    PROVE  JoinInv'
  <1>1. JoinValues /\ TablesFit(db) BY DEF JoinInv, TablesFit
  <1>2. /\ joiner' = [joiner EXCEPT !.step = to] /\ joiner.step = from
        /\ UNCHANGED <<db, creating, calls, finalizer, proposed, snapshots, said, tried>>
    BY DEF BootstrapStep, Answered, serviceVars, historyVars
  <1>3. joiner' \in Joiners /\ joiner'.step = to
    BY <1>1, <1>2 DEF JoinValues, Joiners, Steps, Bootstrap
  <1>4. JoinValues' BY <1>1, <1>2, <1>3 DEF JoinValues
  <1>5. JoinerSound(db, said, joiner, journal) BY <1>1 DEF TablesFit, TablesSound
  <1>6. journal.phase \in Confirmed BY <1>2, <1>5 DEF JoinerSound
  <1>7. journal'.mode = "rebootstrap" =>
          /\ journal'.attempt \in Attempts /\ said[journal'.attempt] = "yes"
          /\ St(db, journal'.attempt) \in {"completed", "none"}
    BY <1>5, <1>6 DEF JoinerSound
  <1>8. TablesSound(db, calls, said, proposed, finalizer, tried, joiner', journal')
    BY <1>1, <1>3, <1>7, BootstrapSound DEF TablesFit
  <1> QED BY <1>2, <1>4, <1>8 DEF JoinInv

LEMMA ResumeStep ==
    ASSUME JoinInv, Resume
    PROVE  JoinInv'
  <1>1. JoinValues /\ InstallSound /\ TablesFit(db) /\ db \in Tables /\ creating \in Creations /\ joiner \in Joiners
        /\ journal \in JournalValues
    BY DEF JoinInv, JoinValues, TablesFit
  <1>2. /\ joiner = Idle /\ journal # NoJournal /\ ~Conflicts
        /\ UNCHANGED <<db, creating, calls, finalizer, member, proposed, snapshots, dest, said, tried>>
    BY DEF Resume, serviceVars, ledgerVars, historyVars
  <1>3. JoinerSound(db, said, joiner, journal) BY <1>1 DEF TablesFit, TablesSound
  <1> DEFINE continue == [Idle EXCEPT !.step = "bootstrap", !.attempt = journal.attempt]
  <1>4. CASE joiner' = joiner /\ journal' = NoJournal
    BY <1>1, <1>2, <1>4, LessStep
  <1>5. CASE /\ joiner' = continue /\ ~(journal.phase = "installing_owned" /\ Completed)
             /\ \/ journal' = journal /\ journal.phase # "decision_approved"
                \/ /\ journal' = [journal EXCEPT !.phase = "confirmed"]
                   /\ journal.phase = "decision_approved" /\ journal.mode # "rebootstrap"
    <2>1. continue \in Joiners /\ continue.step = "bootstrap"
      BY <1>1 DEF Idle, Joiners, Steps, JournalValues
    <2>2. journal.phase # "none" BY <1>2, <1>3 DEF JoinerSound
    <2>3. /\ journal' \in JournalValues /\ journal'.phase \in Confirmed
          /\ journal'.mode = journal.mode /\ journal'.attempt = journal.attempt
      <3>1. CASE journal' = journal /\ journal.phase # "decision_approved"
        BY <1>1, <2>2, <3>1 DEF JournalValues
      <3>2. CASE journal' = [journal EXCEPT !.phase = "confirmed"]
        BY <1>1, <3>2 DEF JournalValues, Confirmed
      <3> QED BY <1>5, <3>1, <3>2
    <2>4. /\ journal'.mode = "rebootstrap" =>
               /\ journal'.attempt \in Attempts /\ said[journal'.attempt] = "yes"
               /\ St(db, journal'.attempt) \in {"completed", "none"}
      <3>1. CASE journal' = journal BY <1>3, <2>3, <3>1 DEF JoinerSound
      <3>2. CASE journal.mode # "rebootstrap" BY <2>3, <3>2
      <3> QED BY <1>5, <3>1, <3>2
    <2>5. TablesSound(db, calls, said, proposed, finalizer, tried, joiner', journal')
      <3>1. joiner'.step \in Bootstrap BY <1>5, <2>1 DEF Bootstrap
      <3> QED BY <1>1, <2>3, <2>4, <3>1, BootstrapSound DEF TablesFit
    <2>6. JoinValues' BY <1>1, <1>2, <1>5, <2>1, <2>3 DEF JoinValues
    <2>7. dest.kind # "installed" BY <1>2, <1>5 DEF Conflicts, DestinationFits
    <2>8. joiner'.step = "bootstrap" BY <1>5, <2>1
    <2>9. InstallSound' BY <1>1, <1>2, <2>7, <2>8 DEF InstallSound, InstalledCovers, Admitted
    <2> QED BY <1>2, <2>5, <2>6, <2>9 DEF JoinInv
  <1>6. \/ joiner' = joiner /\ journal' = NoJournal
        \/ /\ joiner' = continue /\ ~(journal.phase = "installing_owned" /\ Completed)
           /\ \/ journal' = journal /\ journal.phase # "decision_approved"
              \/ /\ journal' = [journal EXCEPT !.phase = "confirmed"]
                 /\ journal.phase = "decision_approved" /\ journal.mode # "rebootstrap"
    <2>1. CASE journal.phase = "installing_owned" /\ Completed BY <2>1 DEF Resume
    <2>2. CASE journal.phase = "decision_approved" BY <2>2 DEF Resume
    <2>3. CASE ~(journal.phase = "installing_owned" /\ Completed) /\ journal.phase # "decision_approved"
      BY <2>3 DEF Resume
    <2> QED BY <2>1, <2>2, <2>3
  <1> QED BY <1>4, <1>5, <1>6

LEMMA BootstrappingStep ==
    ASSUME JoinInv, Bootstrapping
    PROVE  JoinInv'
  <1>1. JoinValues /\ InstallSound /\ TablesFit(db) /\ db \in Tables /\ creating \in Creations
        /\ joiner \in Joiners /\ journal \in JournalValues /\ member \in Members /\ dest \in Destinations
    BY DEF JoinInv, JoinValues, TablesFit
  <1>2. \A s \in Bootstrap : joiner.step = s => journal.phase \in Confirmed
    BY <1>1 DEF TablesFit, TablesSound, JoinerSound
  <1>3. \A to \in Steps : Answered(to).step = to BY <1>1 DEF Answered, Joiners
  <1>4. CASE Authorize
    <2>1. /\ BootstrapStep("bootstrap", "authorized") /\ UNCHANGED <<journal, dest>> /\ Admitted
          /\ joiner.step = "bootstrap" /\ joiner'.step = "authorized"
      BY <1>3, <1>4 DEF Authorize, Authorizable, BootstrapStep, Steps
    <2>2. CredentialEpoch \in Nat BY <1>1 DEF CredentialEpoch, JournalValues, Members
    <2>3. snapshots + 1 \in Nat BY <1>1 DEF JoinValues
    <2>4. member' \in Members /\ member'.status = member.status
      <3>1. PICK m \in Members, e \in Nat, k \in Nat :
              m = member /\ (member' = m \/ member' = [m EXCEPT !.epoch = e, !.cut = k])
        BY <1>1, <1>4, <2>2, <2>3 DEF Authorize
      <3>2. [m EXCEPT !.epoch = e, !.cut = k] \in Members /\ [m EXCEPT !.epoch = e, !.cut = k].status = m.status
        BY DEF Members
      <3> QED BY <3>1, <3>2
    <2>5. dest.kind # "installed" BY <1>1, <2>1 DEF InstallSound
    <2>6. InstallSound' BY <2>1, <2>4, <2>5 DEF InstallSound, InstalledCovers, Admitted
    <2>7. journal.phase \in Confirmed BY <1>2, <2>1 DEF Bootstrap
    <2> QED BY <1>1, <2>1, <2>4, <2>6, <2>7, BootstrapMoves DEF Bootstrap
  <1>5. CASE RecordSnapshot
    <2>1. /\ BootstrapStep("authorized", "staged") /\ UNCHANGED <<member, dest>> /\ snapshots >= member.cut
          /\ joiner.step = "authorized" /\ joiner'.step = "staged"
      BY <1>3, <1>5 DEF RecordSnapshot, SnapshotCovers, BootstrapStep, Steps
    <2>2. snapshots \in Nat BY <1>1 DEF JoinValues
    <2>3. PICK p \in Confirmed : journal' = [journal EXCEPT !.root = snapshots, !.phase = p]
      BY <1>5 DEF RecordSnapshot, Confirmed
    <2>4. /\ journal' \in JournalValues /\ journal'.phase = p /\ journal'.root = snapshots
          /\ journal'.mode = journal.mode /\ journal'.attempt = journal.attempt
      BY <1>1, <2>2, <2>3 DEF JournalValues
    <2>5. InstallSound' BY <1>1, <2>1, <2>4 DEF InstallSound, InstalledCovers, Admitted
    <2> QED BY <1>1, <2>1, <2>4, <2>5, BootstrapMoves DEF Bootstrap
  <1>6. CASE OwnDestination
    <2>1. /\ BootstrapStep("staged", "owned") /\ UNCHANGED <<member, dest>>
          /\ journal' = [journal EXCEPT !.phase = "installing_owned"]
          /\ joiner.step = "staged" /\ joiner'.step = "owned"
      BY <1>3, <1>6 DEF OwnDestination, BootstrapStep, Steps
    <2>2. /\ journal' \in JournalValues /\ journal'.phase = "installing_owned" /\ journal'.root = journal.root
          /\ journal'.mode = journal.mode /\ journal'.attempt = journal.attempt
      BY <1>1, <2>1 DEF JournalValues, Confirmed
    <2>3. InstallSound' BY <1>1, <2>1, <2>2 DEF InstallSound, InstalledCovers, Admitted
    <2> QED BY <1>1, <2>1, <2>2, <2>3, BootstrapMoves DEF Bootstrap, Confirmed
  <1>7. CASE CreateDatabase
    <2>1. /\ BootstrapStep("owned", "opened") /\ UNCHANGED <<member, journal>>
          /\ dest.kind \in {"absent", "empty", "predecessor"}
          /\ dest' = IF dest.kind = "absent" THEN [dest EXCEPT !.kind = "empty"] ELSE dest
          /\ joiner.step = "owned" /\ joiner'.step = "opened"
      BY <1>3, <1>7 DEF CreateDatabase, BootstrapStep, Steps
    <2>2. dest' \in Destinations /\ dest'.kind \in {"empty", "predecessor"} BY <1>1, <2>1 DEF Destinations
    <2>3. InstallSound' BY <1>1, <2>1, <2>2 DEF InstallSound, InstalledCovers, Admitted
    <2>4. journal.phase \in Confirmed BY <1>2, <2>1 DEF Bootstrap
    <2> QED BY <1>1, <2>1, <2>2, <2>3, <2>4, BootstrapMoves DEF Bootstrap
  <1>8. CASE Install
    <2>1. /\ BootstrapStep("opened", "installed") /\ UNCHANGED <<member, journal>>
          /\ dest' = [kind |-> "installed", root |-> journal.root, attempt |-> journal.attempt]
          /\ joiner.step = "opened" /\ joiner'.step = "installed"
      BY <1>3, <1>8 DEF Install, BootstrapStep, Steps
    <2>2. dest' \in Destinations /\ dest'.kind = "installed" /\ dest'.root = journal.root
      BY <1>1, <2>1 DEF Destinations, JournalValues
    <2>3. InstallSound' BY <1>1, <2>1, <2>2 DEF InstallSound, InstalledCovers, Admitted
    <2>4. journal.phase \in Confirmed BY <1>2, <2>1 DEF Bootstrap
    <2> QED BY <1>1, <2>1, <2>2, <2>3, <2>4, BootstrapMoves DEF Bootstrap
  <1>9. CASE FinishJoin \/ BootstrapFails
    <2>1. /\ UNCHANGED <<member, proposed, snapshots, dest, said, tried>>
          /\ UNCHANGED <<db, creating, calls, finalizer>>
          /\ joiner' = Idle /\ journal' \in {journal, NoJournal}
      BY <1>9 DEF FinishJoin, BootstrapFails, serviceVars, ledgerVars, historyVars
    <2> QED BY <1>1, <2>1, IdleValue, LessStep
  <1> QED BY <1>4, <1>5, <1>6, <1>7, <1>8, <1>9, ResumeStep DEF Bootstrapping

-----------------------------------------------------------------------------
(* The theorems *)

LEMMA JoiningInitHolds == JoiningInit => JoinInv
  <1> SUFFICES ASSUME JoiningInit PROVE JoinInv OBVIOUS
  <1>1. db \in Tables
    <2>1. /\ [i \in Invites |-> NoInvite] \in [Invites -> InviteValues]
          /\ [a \in Attempts \cup Strangers |-> NoAttempt] \in [Attempts \cup Strangers -> AttemptValues]
      BY NoRows
    <2> QED BY <2>1 DEF JoiningInit, Tables
  <1>2. member \in Members /\ dest \in Destinations /\ dest.kind # "installed"
    <2>1. PICK start \in {"absent", "active", "readmit"} :
            /\ member = [status |-> start, version |-> IF start = "absent" THEN 0 ELSE 1,
                         epoch |-> IF start = "active" THEN 1 ELSE 0, cut |-> 0,
                         owner |-> TRUE, configured |-> FALSE]
            /\ dest \in {Empty, [Empty EXCEPT !.kind = "predecessor"]}
      BY DEF JoiningInit
    <2>2. member \in Members BY <2>1 DEF Members
    <2> QED BY <2>1, <2>2 DEF Destinations, Empty
  <1>3. JoinValues
    BY <1>1, <1>2, IdleValue DEF JoiningInit, JoinValues, Creations, Finalizers
  <1>4. InstallSound BY <1>2, IdleValue DEF JoiningInit, InstallSound, InstalledCovers
  <1>5. \A a \in Attempts \cup Strangers : db.attempt[a] = NoAttempt BY DEF JoiningInit
  <1>6. \A a \in Attempts : AttemptSound(db, said, proposed, a)
    BY <1>5 DEF JoiningInit, AttemptSound, St, NoAttempt
  <1>7. JoinerSound(db, said, joiner, journal)
    BY IdleValue DEF JoiningInit, JoinerSound, Exchange, Bootstrap, Confirmed
  <1>8. FinalizerSound(db, finalizer) BY DEF JoiningInit, FinalizerSound
  <1>9. ProofsSound(db, tried)
    <2>1. IsFiniteSet({}) BY FS_EmptySet
    <2>2. \A i \in Invites : tried[i] = {} /\ db.invite[i].state = "unused" BY DEF JoiningInit, NoInvite
    <2>3. \A s \in Strangers : St(db, s) = "none" BY <1>5 DEF St, NoAttempt
    <2>4. \A i \in Invites :
            /\ IsFiniteSet(tried[i])
            /\ db.invite[i].state \in {"unused", "preparing"} => tried[i] = {}
            /\ db.invite[i].state # "outstanding"
      BY <2>1, <2>2
    <2> QED BY <2>3, <2>4 DEF ProofsSound
  <1>10. calls = {} BY DEF JoiningInit
  <1> QED BY <1>3, <1>4, <1>6, <1>7, <1>8, <1>9, <1>10 DEF JoinInv, TablesSound

LEMMA JoiningStepHolds == JoinInv /\ [JoiningNext]_joiningVars => JoinInv'
  <1> SUFFICES ASSUME JoinInv, [JoiningNext]_joiningVars PROVE JoinInv' OBVIOUS
  <1>1. CASE UNCHANGED joiningVars
    <2>1. UNCHANGED <<calls, finalizer, member, proposed, snapshots, journal, dest, joiner, said, tried>>
          /\ UNCHANGED <<db, creating>>
      BY <1>1 DEF joiningVars, serviceVars, ledgerVars, joinerVars, historyVars
    <2>2. db \in Tables /\ TablesFit(db) /\ creating \in Creations BY DEF JoinInv, JoinValues, TablesFit
    <2> QED BY <2>1, <2>2, RowsStep
  <1>2. CASE JoiningNext
    BY <1>2, IssuingStep, ProvingStep, DecidingStep, FinalizingStep, CleaningStep, LedgerStep,
       FailingStep, BootstrappingStep DEF JoiningNext
  <1> QED BY <1>1, <1>2

\* The strengthened invariant holds of every behaviour of the pairing and join protocol.
THEOREM JoinsKeepInvariant == JoiningSpec => []JoinInv
  <1> QED BY JoiningInitHolds, JoiningStepHolds, PTL DEF JoiningSpec

\* For every number of invites, attempts, strangers, faults and snapshots: an admission
\* handed to the ledger is carried to its outcome whatever crashes, expires or is pruned
\* in between, and every distinct wrong proof is charged to an invite that is still usable.
THEOREM InvitesAreAccounted == JoiningSpec => []InvitesAccounted
  <1>1. JoinInv => InvitesAccounted
    <2> SUFFICES ASSUME JoinInv PROVE InvitesAccounted OBVIOUS
    <2>1. ASSUME NEW a \in Attempts, proposed[a] \in {"sent", "accepted"}
          PROVE  /\ db.attempt[a].state \in {"finalizing", "completed", "none"}
                 /\ db.attempt[a].state = "none" => db.command[a] = "accepted"
      <3>1. AttemptSound(db, said, proposed, a) BY DEF JoinInv, TablesSound
      <3>2. db.command[a] \in {"none", "pending", "accepted", "rejected"}
        BY TableFields DEF JoinInv, JoinValues
      <3>3. db.command[a] \in {"pending", "accepted"} BY <2>1, <3>1, <3>2 DEF AttemptSound
      <3> QED BY <3>1, <3>3 DEF AttemptSound, St
    <2>2. ASSUME NEW i \in Invites, db.invite[i].state = "outstanding"
          PROVE  db.invite[i].failures >= Cardinality(tried[i])
      BY <2>2 DEF JoinInv, TablesSound, ProofsSound
    <2> QED BY <2>1, <2>2 DEF InvitesAccounted
  <1> QED BY <1>1, JoinsKeepInvariant, PTL

\* For the same instances: only an attempt both operators approved is finalized, only an
\* accepted one is completed, and what is installed covers the device's authorization.
THEOREM JoinsAreEarned == JoiningSpec => []JoinsEarned
  <1>1. JoinInv => JoinsEarned
    <2> SUFFICES ASSUME JoinInv PROVE JoinsEarned OBVIOUS
    <2>1. ASSUME NEW a \in Attempts
          PROVE  /\ db.attempt[a].state \in {"finalizing", "completed"} =>
                       said[a] = "yes" /\ db.invite[db.attempt[a].invite].consumedBy = a
                 /\ db.attempt[a].state = "completed" /\ db.invite[db.attempt[a].invite].mode # "rebootstrap" =>
                       proposed[a] = "accepted"
      <3>1. AttemptSound(db, said, proposed, a) BY DEF JoinInv, TablesSound
      <3> QED BY <3>1 DEF AttemptSound, St, Of, ModeOf
    <2>2. ASSUME journal # NoJournal, journal.mode = "rebootstrap", journal.phase # "decision_approved"
          PROVE  db.attempt[journal.attempt].state \in {"completed", "none"}
      <3>1. JoinerSound(db, said, joiner, journal) /\ journal \in JournalValues
        BY DEF JoinInv, TablesSound, JoinValues
      <3>2. journal.phase \in Confirmed BY <2>2, <3>1 DEF JoinerSound, JournalValues
      <3> QED BY <2>2, <3>1, <3>2 DEF JoinerSound, St
    <2>3. BothApproved BY <2>1, <2>2 DEF BothApproved
    <2> QED BY <2>3 DEF JoinsEarned, JoinInv, InstallSound
  <1> QED BY <1>1, JoinsKeepInvariant, PTL

\* For the same instances: the destination is written only under a journal that durably
\* owns it, and a database another program put there is never touched.
THEOREM DestinationIsOwned == JoiningSpec => DestinationOwned
  <1> DEFINE Owned == \/ dest'.kind = "foreign" /\ dest.kind = "absent"
                      \/ journal.phase = "installing_owned" /\ dest.kind # "foreign"
  <1>1. JoinInv /\ [JoiningNext]_joiningVars => [Owned]_dest
    <2> SUFFICES ASSUME JoinInv, [JoiningNext]_joiningVars, dest' # dest PROVE Owned OBVIOUS
    <2>1. CASE ForeignDatabase
      BY <2>1 DEF ForeignDatabase, JoinInv, JoinValues, Destinations
    <2>2. CASE CreateDatabase
      BY <2>2 DEF CreateDatabase, BootstrapStep, JoinInv, InstallSound
    <2>3. CASE Install
      BY <2>3 DEF Install, BootstrapStep, JoinInv, InstallSound
    <2>4. ForeignDatabase \/ CreateDatabase \/ Install
      <3>1. ~UNCHANGED joiningVars BY DEF joiningVars, joinerVars
      <3>2. ~Issuing
        BY DEF Issuing, Reserve, Revoke, StoreSecret, SecretRefused, ActivateInvite, joinerVars
      <3>3. ~Proving
        BY DEF Proving, FreshJoin, RequestArrives, FinishRequest, WrongProof, joinerVars
      <3>4. ~Deciding
        BY DEF Deciding, Approve, Decline, ConfirmationArrives, ExchangeFails, LocalDecision, FinishDecision,
               joinerVars
      <3>5. ~Finalizing
        BY DEF Finalizing, StartFinalize, AdmissionReturns, FinalizationPending, RecordFinalization, joinerVars
      <3>6. ~Cleaning /\ ~Recover
        BY DEF Cleaning, MaintainState, DeleteSecret, CompleteDeletion, Recover, joinerVars
      <3>7. ~Ledger
        BY DEF Ledger, CommitAdmission, ApplyAdmission, MembershipChanges, PublishSnapshot, joinerVars
      <3>8. ~InviterCrash /\ ~JoinerCrash /\ ~ConnectionBreaks /\ \A i \in Invites : ~Expire(i)
        BY DEF InviterCrash, JoinerCrash, ConnectionBreaks, Expire, joinerVars
      <3>9. ~Resume /\ ~Authorize /\ ~RecordSnapshot /\ ~OwnDestination /\ ~FinishJoin /\ ~BootstrapFails
        BY DEF Resume, Authorize, RecordSnapshot, OwnDestination, FinishJoin, BootstrapFails
      <3> QED BY <3>1, <3>2, <3>3, <3>4, <3>5, <3>6, <3>7, <3>8, <3>9
              DEF JoiningNext, Failing, Bootstrapping
    <2> QED BY <2>1, <2>2, <2>3, <2>4
  <1>2. JoiningSpec => [][JoiningNext]_joiningVars /\ []JoinInv BY JoinsKeepInvariant DEF JoiningSpec
  <1> QED BY <1>1, <1>2, PTL DEF DestinationOwned
=============================================================================
