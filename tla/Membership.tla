----------------------------- MODULE Membership -----------------------------
(***************************************************************************)
(* The membership, credential and audit reducers of internal/reducer:      *)
(* device rows, the voter target, the credential authority, the history of *)
(* credential epochs, the audit counters and the policy values they obey,  *)
(* and the recovery boundary of internal/consensus that starts the next    *)
(* generation of a session.                                                *)
(*                                                                         *)
(* One action is one accepted proposal.  The target is what the owners     *)
(* want the voters to be; the authority is the last target whose voters    *)
(* proved that they hold a checkpoint, and only its members can endorse    *)
(* credentials.  Signatures and proofs are abstracted to who made them.    *)
(***************************************************************************)
EXTENDS Naturals, FiniteSets

CONSTANTS
    Devices,      \* device ids
    Levels,       \* reducer apply levels
    Policies,     \* policy values that pass Values.Validate
    Keys,         \* digests of epoch public keys
    Founder,      \* the device that created the session
    MaxVersion    \* row kind -> the largest version, epoch or generation

Kinds == {"device", "target", "policy", "epoch", "generation"}

ASSUME MembershipAssumption ==
    /\ IsFiniteSet(Devices)
    /\ Founder \in Devices
    /\ Levels \subseteq Nat /\ Levels # {}
    /\ MaxVersion \in [Kinds -> Nat]
    /\ MaxVersion["device"] > 0 /\ MaxVersion["target"] > 0 /\ MaxVersion["policy"] > 0
    /\ \A p \in Policies :
          p \in [members : Nat \ {0}, level : Nat, auditDepth : Nat \ {0}]

VARIABLES
    device,       \* device id -> its row
    counter,      \* device id -> its audit counter
    target,       \* the voter set the owners asked for
    authority,    \* the credential authority
    authorized,   \* the credential authorizations of all generations
    policy,       \* the session policy row
    generation    \* the recovery generation

vars == <<device, counter, target, authority, authorized, policy, generation>>

----------------------------------------------------------------------------
(* Rows.                                                                   *)

Roles == {"owner", "editor"}
Statuses == {"absent", "active", "requires_readmission", "revoked"}

DeviceRow(status, role, level, version) ==
    [status |-> status, role |-> role, level |-> level, version |-> version]
CounterRow(epoch, count) == [epoch |-> epoch, count |-> count]
VoterRow(voters, version) == [voters |-> voters, version |-> version]

\* validVoterCount
VoterSets == {V \in SUBSET Devices : Cardinality(V) \in {1, 3, 5}}

Active(d) == device[d].status = "active"
IsOwner(d) == Active(d) /\ device[d].role = "owner"
ActiveDevices == {d \in Devices : Active(d)}

\* activeOwnerCount with the row of d replaced.
OwnerRemains(d, row) ==
    \E o \in Devices :
        IF o = d THEN row.status = "active" /\ row.role = "owner" ELSE IsOwner(o)

Majority(V) == Cardinality(V) \div 2 + 1

\* The checks every mutation of an existing row makes.
Loads(d, expected) ==
    /\ device[d].version > 0
    /\ expected = device[d].version
    /\ device[d].version < MaxVersion["device"]

----------------------------------------------------------------------------
(* Device rows.                                                            *)

MemberFits(level) ==
    /\ level >= policy.values.level
    /\ Cardinality(ActiveDevices) + 1 <= policy.values.members

DeviceAdmitted(o, d, role, level) ==
    /\ IsOwner(o)
    /\ device[d].status = "absent"
    /\ MemberFits(level)
    /\ device' = [device EXCEPT ![d] = DeviceRow("active", role, level, 1)]
    /\ counter' = [counter EXCEPT ![d] = CounterRow(0, 0)]
    /\ UNCHANGED <<target, authority, authorized, policy, generation>>

DeviceReadmitted(o, d, role, level, expected) ==
    /\ IsOwner(o)
    /\ device[d].status = "requires_readmission"
    /\ Loads(d, expected)
    /\ MemberFits(level)
    /\ device' = [device EXCEPT ![d] =
                     DeviceRow("active", role, level, device[d].version + 1)]
    /\ UNCHANGED <<counter, target, authority, authorized, policy, generation>>

RoleChanged(o, d, role, expected) ==
    LET row == DeviceRow("active", role, device[d].level, device[d].version + 1) IN
    /\ IsOwner(o)
    /\ Active(d)
    /\ Loads(d, expected)
    /\ role # device[d].role
    /\ OwnerRemains(d, row)
    /\ device' = [device EXCEPT ![d] = row]
    /\ UNCHANGED <<counter, target, authority, authorized, policy, generation>>

\* An active editor that presents an authorization by the recovery key.
OwnerRecovered(d, expected) ==
    /\ Active(d)
    /\ device[d].role = "editor"
    /\ Loads(d, expected)
    /\ device' = [device EXCEPT ![d] =
                     DeviceRow("active", "owner", device[d].level, device[d].version + 1)]
    /\ UNCHANGED <<counter, target, authority, authorized, policy, generation>>

\* The daemon version may change alone, so the level may stay as it is.
VersionReported(d, level, expected) ==
    /\ Active(d)
    /\ Loads(d, expected)
    /\ level >= policy.values.level
    /\ device' = [device EXCEPT ![d] =
                     DeviceRow("active", device[d].role, level, device[d].version + 1)]
    /\ UNCHANGED <<counter, target, authority, authorized, policy, generation>>

----------------------------------------------------------------------------
(* The voter target and the credential authority.                          *)

\* ValidateTransition(OperationTargetVoterRevocation) and the checks around
\* it, or (OperationNonvoterRevocation) for a device outside the target.
RevocationTarget(d, V) ==
    \/ /\ d \notin target.voters
       /\ V = target.voters
    \/ /\ d \in target.voters
       /\ target.version < MaxVersion["target"]
       /\ V \subseteq target.voters \ {d}
       /\ Cardinality(V) = Cardinality(target.voters) - 2
       /\ \A v \in V : Active(v)

\* Bug variant: the quorum of the authority is counted with the subject in it.
AuthoritySurvivesBefore(d) ==
    Cardinality({v \in authority.voters : Active(v)}) >= Majority(authority.voters)

AuthoritySurvives(d) ==
    Cardinality({v \in authority.voters \ {d} : Active(v)}) >= Majority(authority.voters)

DeviceRevoked(o, d, V, expected, expectedTarget) ==
    LET row == DeviceRow("revoked", device[d].role, device[d].level, device[d].version + 1) IN
    /\ IsOwner(o)
    /\ device[d].status \in {"active", "requires_readmission"}
    /\ Loads(d, expected)
    /\ expectedTarget = target.version
    /\ OwnerRemains(d, row)
    /\ RevocationTarget(d, V)
    /\ AuthoritySurvives(d)
    /\ device' = [device EXCEPT ![d] = row]
    /\ target' = IF d \in target.voters THEN VoterRow(V, target.version + 1) ELSE target
    /\ UNCHANGED <<counter, authority, authorized, policy, generation>>

\* Bug variant: a changed target keeps its version.
NextTargetSameVersion(V) == VoterRow(V, target.version)

NextTarget(V) == VoterRow(V, target.version + 1)

VoterSetChanged(o, V, expectedTarget) ==
    /\ IsOwner(o)
    /\ expectedTarget = target.version
    /\ target.version < MaxVersion["target"]
    /\ V # target.voters
    /\ \A v \in V : Active(v)
    /\ target' = NextTarget(V)
    /\ UNCHANGED <<device, counter, authority, authorized, policy, generation>>

\* Every voter of the target proves that it holds a checkpoint that covers the
\* live configuration, signed by a member of the current authority, and a
\* member of that authority signs the hand-over.  Both signers are active when
\* the event is reduced, not only when they signed.
VoterSetActivated(o, signer, checkpointSigner, targetVersion, authorityVersion) ==
    /\ Active(o)
    /\ targetVersion = target.version
    /\ authorityVersion = authority.version
    /\ targetVersion # authorityVersion
    /\ signer \in authority.voters /\ Active(signer)
    /\ checkpointSigner \in authority.voters /\ Active(checkpointSigner)
    /\ \A v \in target.voters : Active(v)
    /\ authority' = target
    /\ UNCHANGED <<device, counter, target, authorized, policy, generation>>

----------------------------------------------------------------------------
(* Credentials, audit and policy.                                          *)

Authorization(d, epoch, key, version) ==
    [generation |-> generation, device |-> d, epoch |-> epoch, key |-> key,
     authority |-> version]

\* Bug variant: keys are compared within the current generation only.
KeyUnusedInGeneration(key) ==
    \A a \in authorized : a.generation = generation => a.key # key

KeyUnused(key) == \A a \in authorized : a.key # key

\* Endorsers are active members of the authority, and a majority of it.
CredentialAuthorized(o, d, epoch, key, endorsers, version) ==
    /\ Active(o)
    /\ Active(d)
    /\ counter[d].epoch < MaxVersion["epoch"]
    /\ epoch = counter[d].epoch + 1
    /\ KeyUnused(key)
    /\ version = authority.version
    /\ \A e \in endorsers : e \in authority.voters /\ Active(e)
    /\ Cardinality(endorsers) >= Majority(authority.voters)
    /\ authorized' = authorized \cup {Authorization(d, epoch, key, version)}
    /\ counter' = [counter EXCEPT ![d] = CounterRow(epoch, 0)]
    /\ UNCHANGED <<device, target, authority, policy, generation>>

\* A daemon reports a rejection of the subject in its current epoch.
AuditRecorded(o, d, epoch) ==
    /\ Active(o)
    /\ Active(d)
    /\ epoch = counter[d].epoch
    /\ counter[d].count < policy.values.auditDepth
    /\ counter' = [counter EXCEPT ![d] = CounterRow(epoch, counter[d].count + 1)]
    /\ UNCHANGED <<device, target, authority, authorized, policy, generation>>

\* policyUseViolation, the limits the membership rows use: every counter is
\* compared, those of revoked devices too.
UseWithin(values) ==
    /\ Cardinality(ActiveDevices) <= values.members
    /\ \A d \in ActiveDevices : device[d].level >= values.level
    /\ \A d \in Devices : counter[d].count <= values.auditDepth

PolicyChanged(o, values, expected) ==
    /\ IsOwner(o)
    /\ expected = policy.version
    /\ policy.version < MaxVersion["policy"]
    /\ values.level >= policy.values.level
    /\ UseWithin(values)
    /\ policy' = [values |-> values, version |-> policy.version + 1]
    /\ UNCHANGED <<device, counter, target, authority, authorized, generation>>

----------------------------------------------------------------------------
(* The recovery boundary.                                                  *)

\* Bug variant: every device but the recovering one must be readmitted.
RecoveredRowForgiving(d, r) ==
    CASE d = r -> DeviceRow("active", "owner", device[d].level, 1)
      [] device[d].status = "absent" -> device[d]
      [] OTHER -> DeviceRow("requires_readmission", device[d].role, device[d].level, 1)

\* recoverySuccessorSnapshot: the recovering device is retained as the owner,
\* a revoked one stays revoked, any other must be admitted again.
RecoveredRow(d, r) ==
    CASE d = r -> DeviceRow("active", "owner", device[d].level, 1)
      [] device[d].status = "absent" -> device[d]
      [] device[d].status = "revoked" ->
            DeviceRow("revoked", device[d].role, device[d].level, 1)
      [] OTHER -> DeviceRow("requires_readmission", device[d].role, device[d].level, 1)

\* verifyLogicalSnapshotSuccessorBoundary: any active member, which as an
\* editor needs the recovery key, starts the next generation alone.
RecoveryBoundary(r) ==
    /\ Active(r)
    /\ generation < MaxVersion["generation"]
    /\ generation' = generation + 1
    /\ device' = [d \in Devices |-> RecoveredRow(d, r)]
    /\ counter' = [d \in Devices |-> CounterRow(0, 0)]
    /\ target' = VoterRow({r}, 1)
    /\ authority' = VoterRow({r}, 1)
    /\ policy' = [values |-> policy.values, version |-> 1]
    /\ UNCHANGED authorized

----------------------------------------------------------------------------
(* The specification.                                                      *)

Versions(kind) == 1 .. MaxVersion[kind]

Init ==
    \E level \in Levels :
      /\ device = [d \in Devices |-> IF d = Founder
                                     THEN DeviceRow("active", "owner", level, 1)
                                     ELSE DeviceRow("absent", "editor", level, 0)]
      /\ counter = [d \in Devices |-> CounterRow(0, 0)]
      /\ target = VoterRow({Founder}, 1)
      /\ authority = VoterRow({Founder}, 1)
      /\ authorized = {}
      /\ policy \in [values : {p \in Policies : p.level <= level}, version : {1}]
      /\ generation = 0

DeviceNext == \E d \in Devices :
    \/ \E o \in Devices, role \in Roles, level \in Levels :
          \/ DeviceAdmitted(o, d, role, level)
          \/ \E v \in Versions("device") : DeviceReadmitted(o, d, role, level, v)
    \/ \E v \in Versions("device") :
          \/ \E o \in Devices, role \in Roles : RoleChanged(o, d, role, v)
          \/ OwnerRecovered(d, v)
          \/ \E level \in Levels : VersionReported(d, level, v)

VotersNext == \E o \in Devices, w \in Versions("target") :
    \/ \E d \in Devices, V \in VoterSets, v \in Versions("device") :
          DeviceRevoked(o, d, V, v, w)
    \/ \E V \in VoterSets : VoterSetChanged(o, V, w)
    \/ \E s, c \in Devices, a \in Versions("target") : VoterSetActivated(o, s, c, w, a)

CredentialNext == \E o, d \in Devices :
    \/ \E e \in Versions("epoch"), k \in Keys, E \in SUBSET Devices,
          v \in Versions("target") : CredentialAuthorized(o, d, e, k, E, v)
    \/ \E e \in Versions("epoch") \cup {0} : AuditRecorded(o, d, e)

PolicyNext ==
    \/ \E o \in Devices, values \in Policies, v \in Versions("policy") :
          PolicyChanged(o, values, v)
    \/ \E r \in Devices : RecoveryBoundary(r)

Next == DeviceNext \/ VotersNext \/ CredentialNext \/ PolicyNext

Spec == Init /\ [][Next]_vars

----------------------------------------------------------------------------
(* Properties.                                                             *)

DeviceRows == [status : Statuses, role : Roles, level : Levels,
               version : 0 .. MaxVersion["device"]]
CounterRows == [epoch : 0 .. MaxVersion["epoch"], count : Nat]
VoterRows == [voters : VoterSets, version : Versions("target")]
Authorizations == [generation : 0 .. MaxVersion["generation"], device : Devices,
                   epoch : Versions("epoch"), key : Keys,
                   authority : Versions("target")]

\* Every row has the shape its table in the projection store gives it.
TypeOK ==
    /\ device \in [Devices -> DeviceRows]
    /\ counter \in [Devices -> CounterRows]
    /\ target \in VoterRows
    /\ authority \in VoterRows
    /\ authorized \subseteq Authorizations
    /\ policy \in [values : Policies, version : Versions("policy")]
    /\ generation \in 0 .. MaxVersion["generation"]

\* validateMembershipTopology accepts every committed state, so no daemon is
\* unable to restart from it: the authority is never ahead of the target and is
\* the target at equal versions, somebody owns the session, every voter of the
\* target is active, and a majority of the authority can still endorse.
OwnerExists == \E d \in Devices : IsOwner(d)
TargetActive == \A v \in target.voters : Active(v)
AuthorityBehind ==
    /\ authority.version <= target.version
    /\ authority.version = target.version => authority.voters = target.voters
AuthorityQuorate ==
    Cardinality({v \in authority.voters : Active(v)}) >= Majority(authority.voters)
TopologyValid == OwnerExists /\ TargetActive /\ AuthorityBehind /\ AuthorityQuorate

\* loadCredentialSnapshot accepts every committed history: the epochs of a
\* device in the current generation are 1 up to its counter, without a gap or a
\* repetition, no key is used twice in any generation, and no authorization
\* names an authority that is still to come.
CredentialHistoryValid ==
    /\ \A d \in Devices :
          {a.epoch : a \in {b \in authorized : b.device = d /\ b.generation = generation}}
             = 1 .. counter[d].epoch
    /\ \A a, b \in authorized :
          \/ a = b
          \/ /\ a.key # b.key
             /\ <<a.generation, a.device, a.epoch>> # <<b.generation, b.device, b.epoch>>
    /\ \A a \in authorized :
          a.generation = generation => a.authority <= authority.version

\* Within a generation a voter-set version names one set of voters and an
\* authority is only replaced by a later one; a target and the authority never
\* move in one event, so each hand-over is signed by the set before it.
VersionsNameOneSet ==
    generation' = generation =>
        /\ target' # target => target'.version = target.version + 1
        /\ authority' # authority =>
              /\ authority'.version > authority.version
              /\ target' = target

\* A revoked device never becomes a member again, through readmission or
\* recovery, and the cluster apply level is never lowered.
RevocationStands ==
    /\ \A d \in Devices : device[d].status = "revoked" => device'[d].status = "revoked"
    /\ policy'.values.level >= policy.values.level

\* What the reducers have decided about members and voters is never taken back
\* or given a second meaning, whichever proposals follow and whoever recovers.
MembershipStands == [][VersionsNameOneSet /\ RevocationStands]_vars
=============================================================================
