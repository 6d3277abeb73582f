------------------------ MODULE VoterReconciliation ------------------------
(***************************************************************************)
(* The voter-set reconciler of internal/consensus: the loop of every       *)
(* daemon that leads, which drives the live Raft configuration and the     *)
(* credential authority to the committed voter target, one configuration   *)
(* change at a time and without a persisted cursor.                        *)
(*                                                                         *)
(* Committed state is in log order.  A reconciler reads it in steps (the   *)
(* projection, then the Raft configuration), plans, and rechecks the plan  *)
(* under the enqueue guard, so between two of its steps other proposals    *)
(* commit, leaders change and devices become unreachable.  A follower that *)
(* lags reads what it could have read earlier.  Every device has been      *)
(* admitted; who may propose a target or a revocation is in Membership.    *)
(***************************************************************************)
EXTENDS Naturals, FiniteSets

CONSTANTS
    Devices,      \* device ids: numbers, because the planner orders them
    Founder,      \* the device that created the session
    MaxTarget,    \* bound on the voter-set version
    MaxFaultyTarget, \* the same bound once a fault has happened
    MaxFaults     \* bound on elections, outages, restarts and failed attempts

ASSUME ReconciliationAssumption ==
    /\ Devices \subseteq Nat \ {0} /\ IsFiniteSet(Devices)
    /\ Founder \in Devices
    /\ MaxTarget \in Nat \ {0} /\ MaxFaultyTarget \in 1 .. MaxTarget /\ MaxFaults \in Nat

None == 0

VARIABLES
    member,       \* device -> its committed membership status
    target,       \* the committed voter target
    authority,    \* the committed credential authority
    config,       \* device -> its suffrage in the live Raft configuration
    index,        \* the log index of that configuration, counting only these
    leader,       \* the Raft leader, or None
    term,         \* the Raft term
    down,         \* devices that do not answer readiness probes
    halted,       \* devices stopped by haltNode
    outbox,       \* device -> activation proposals not yet committed
    proc,         \* device -> its reconciler
    faults        \* disturbances so far

vars == <<member, target, authority, config, index, leader, term, down,
          halted, outbox, proc, faults>>

----------------------------------------------------------------------------
(* What a reconciler sees, and the planner.                                *)

Voters(conf) == {v \in Devices : conf[v] = "voter"}
VoterRow(voters, version) == [voters |-> voters, version |-> version]

\* decodedState, as far as the reconciler looks at it.
Committed == [target |-> target, authority |-> authority, member |-> member]

Activated(st) == st.authority.version = st.target.version
RevokedOutgoing(st, d) == st.member[d] = "revoked" /\ d \notin st.target.voters
QuorumOf(V, live) == Cardinality(V \cap live) >= Cardinality(V) \div 2 + 1

\* validateVoterReconciliationInput
ValidInput(st, conf, d, ready, eligible) ==
    /\ st.authority.version <= st.target.version
    /\ Activated(st) => st.authority.voters = st.target.voters
    /\ conf[d] = "voter"
    /\ \A v \in st.target.voters : st.member[v] = "active"
    /\ st.member[d] = "active" \/ RevokedOutgoing(st, d)
    /\ ~RevokedOutgoing(st, d) => d \in ready
    /\ \A v \in eligible : v \in st.target.voters /\ conf[v] # "none"
    /\ Activated(st) => \A v \in st.target.voters : conf[v] = "voter"

Lowest(S) == CHOOSE v \in S : \A w \in S : v <= w
Step(action, d) == [action |-> action, device |-> d]

\* Extra voters are removed revoked first, then unreachable, then by id.
RemovalRank(st, ready, v) ==
    IF st.member[v] = "revoked" THEN 0 ELSE IF v \notin ready THEN 1 ELSE 2
FirstRemoved(st, ready, S) ==
    CHOOSE v \in S : \A w \in S :
        \/ RemovalRank(st, ready, v) < RemovalRank(st, ready, w)
        \/ RemovalRank(st, ready, v) = RemovalRank(st, ready, w) /\ v <= w

\* A leader outside the target hands over once it cannot, or need not, lead
\* the activation.
MustTransfer(st, d) ==
    d \notin st.target.voters /\ (st.member[d] = "revoked" \/ Activated(st))

\* planVoterReconciliation on a valid input.
Plan(st, conf, d, ready, eligible) ==
    LET T == st.target.voters
        missing == {v \in T : conf[v] = "none"}
        staged == {v \in T : conf[v] = "nonvoter"}
        next == Lowest(staged \cap ready)
        heirs == T \cap ready \cap eligible
        live == {v \in ready : st.member[v] = "active"}
        extra == Voters(conf) \ T
        removable == {v \in extra \ {d} : QuorumOf(Voters(conf) \ {v}, live)}
        leftover == {v \in Devices \ T : conf[v] = "nonvoter"}
    IN
    IF missing # {} THEN Step("add", Lowest(missing))
    ELSE IF staged \cap ready # {}
         THEN Step(IF next \in eligible THEN "promote" ELSE "prove", next)
    ELSE IF staged # {} THEN Step("stalled", None)
    ELSE IF MustTransfer(st, d)
         THEN IF heirs # {} THEN Step("transfer", Lowest(heirs)) ELSE Step("stalled", None)
    ELSE IF ~Activated(st) THEN Step("activate", None)
    ELSE IF removable # {} THEN Step("remove_voter", FirstRemoved(st, ready, removable))
    ELSE IF extra # {} THEN Step("stalled", None)
    ELSE IF leftover # {} THEN Step("remove_nonvoter", Lowest(leftover))
    ELSE Step("stable", None)

----------------------------------------------------------------------------
(* The state of one reconciler.                                            *)

\* voterEligibilitySet: voters of the target when its version was first seen,
\* and staging proofs with the configuration index their checkpoint covers.
Evidence(version, existing, proved) ==
    [version |-> version, existing |-> existing, proved |-> proved]
NoEvidence == Evidence(0, {}, [v \in Devices |-> 0])
InitialEvidence(st, conf) ==
    Evidence(st.target.version, st.target.voters \cap Voters(conf),
             [v \in Devices |-> 0])

\* plannerSet and validFor: a proof of a nonvoter is void once the
\* configuration moved on, that of a promoted voter is not.
Eligible(st, conf, i, ev) ==
    {v \in st.target.voters :
        /\ ev.version = st.target.version
        /\ st.member[v] = "active"
        /\ \/ v \in ev.existing /\ conf[v] = "voter"
           \/ /\ ev.proved[v] > 0
              /\ conf[v] = "voter" \/ (conf[v] = "nonvoter" /\ ev.proved[v] >= i)}

Payload(st, signer, checkpointSigner) ==
    [target |-> st.target.version, authority |-> st.authority.version,
     signer |-> signer, checkpointSigner |-> checkpointSigner]
NoPayload == [target |-> 0, authority |-> 0, signer |-> None, checkpointSigner |-> None]

Proc(pc, t, seen, i, plan, ev, payload, result) ==
    [pc |-> pc, term |-> t, seen |-> seen, index |-> i, plan |-> plan,
     evidence |-> ev, payload |-> payload, result |-> result]
NoState == [target |-> VoterRow({}, 0), authority |-> VoterRow({}, 0),
            member |-> [v \in Devices |-> "active"]]
NoPlan == Step("stable", None)

Idle == Proc("idle", 0, NoState, 0, NoPlan, NoEvidence, NoPayload, "none")
\* The top of the loop, where only the evidence has survived.
Looping(ev) == Proc("loop", 0, NoState, 0, NoPlan, ev, NoPayload, "none")

Becomes(d, p) == proc' = [proc EXCEPT ![d] = p]

\* activeConfiguredSet, and the devices a readiness probe finds in it.
ActiveConfigured(st, conf) == {v \in Devices : conf[v] # "none" /\ st.member[v] = "active"}
Ready(st, conf) == ActiveConfigured(st, conf) \ (down \cup halted)

\* Bug variant: the rows of the participants are not compared.
SameCutVersions(st, i) == st.target = target /\ st.authority = authority /\ i = index

\* sameVoterActivationCut: versions, configuration and the participants' rows.
SameCut(st, i) ==
    /\ st.target = target /\ st.authority = authority /\ i = index
    /\ \A v \in target.voters \cup authority.voters : st.member[v] = member[v]

Halts(d) ==
    /\ halted' = halted \cup {d}
    /\ leader' = IF leader = d THEN None ELSE leader
    /\ Becomes(d, Idle)

----------------------------------------------------------------------------
(* voterReconciliationCut.                                                 *)

\* The epoch, the barrier, the epoch again, then the projection.
ReadState(d) ==
    /\ leader = d
    /\ proc[d].pc \in {"idle", "loop"}
    /\ Becomes(d, Proc("cut", term, Committed, 0, NoPlan, proc[d].evidence,
                       NoPayload, "none"))
    /\ UNCHANGED <<member, target, authority, config, index, leader, term,
                   down, halted, outbox, faults>>

\* Bug variant: evidence outlives its target.
CutEvidenceKept(d) ==
    IF proc[d].evidence.version # 0
    THEN proc[d].evidence ELSE InitialEvidence(proc[d].seen, config)

\* The evidence of an earlier target version is replaced.
CutEvidence(d) ==
    LET st == proc[d].seen IN
    IF proc[d].evidence.version = st.target.version
    THEN proc[d].evidence ELSE InitialEvidence(st, config)

CutReady(d) == Ready(proc[d].seen, config)
CutEligible(d) == Eligible(proc[d].seen, config, index, CutEvidence(d))
CutPlan(d) == Plan(proc[d].seen, config, d, CutReady(d), CutEligible(d))

\* The plan as if every active device were ready: it shows an input that is
\* invalid, or already stable, before anybody is asked.
StaticEligible(d) ==
    Eligible(proc[d].seen, config, index, InitialEvidence(proc[d].seen, config))
StaticallyValid(d) ==
    ValidInput(proc[d].seen, config, d, ActiveConfigured(proc[d].seen, config),
               StaticEligible(d))
StaticallyStable(d) ==
    Plan(proc[d].seen, config, d, ActiveConfigured(proc[d].seen, config),
         StaticEligible(d)).action = "stable"

\* The readiness gate and the leadership epoch, checked after it.
CutHolds(d) ==
    /\ ~StaticallyStable(d)
    /\ QuorumOf(Voters(config), CutReady(d))
    /\ proc[d].seen.member[d] = "active" => d \in CutReady(d)
    /\ leader = d /\ term = proc[d].term

\* The Raft configuration is read after the projection; an input that does not
\* fit it halts the node, the static one before the epoch is checked again.
CutHalts(d) ==
    /\ proc[d].pc = "cut"
    /\ \/ ~StaticallyValid(d)
       \/ CutHolds(d) /\ ~ValidInput(proc[d].seen, config, d, CutReady(d), CutEligible(d))
    /\ Halts(d)
    /\ UNCHANGED <<member, target, authority, config, index, term, down,
                   outbox, faults>>

CutReturns(d) ==
    /\ proc[d].pc = "cut"
    /\ StaticallyValid(d)
    /\ ~CutHolds(d) \/ CutPlan(d).action \in {"stalled", "stable"}
    /\ Becomes(d, Idle)
    /\ UNCHANGED <<member, target, authority, config, index, leader, term,
                   down, halted, outbox, faults>>

CutPlans(d) ==
    /\ proc[d].pc = "cut"
    /\ StaticallyValid(d)
    /\ CutHolds(d)
    /\ ValidInput(proc[d].seen, config, d, CutReady(d), CutEligible(d))
    /\ CutPlan(d).action \notin {"stalled", "stable"}
    /\ Becomes(d, Proc("planned", term, proc[d].seen, index, CutPlan(d),
                       CutEvidence(d), NoPayload, "none"))
    /\ UNCHANGED <<member, target, authority, config, index, leader, term,
                   down, halted, outbox, faults>>

----------------------------------------------------------------------------
(* The planned step.                                                       *)

Planned(d, actions) == proc[d].pc = "planned" /\ proc[d].plan.action \in actions

\* The plan recomputed under the enqueue guard is the one that was made.
StillPlanned(d) ==
    LET ready == Ready(Committed, config)
        eligible == Eligible(Committed, config, index, proc[d].evidence)
    IN /\ leader = d
       /\ index = proc[d].index
       /\ ValidInput(Committed, config, d, ready, eligible)
       /\ Plan(Committed, config, d, ready, eligible) = proc[d].plan

\* proveStagingVoter: a checkpoint at an unchanged cut, applied by the device.
ProveNonvoter(d) ==
    LET v == proc[d].plan.device
        ev == proc[d].evidence
    IN
    /\ Planned(d, {"prove"})
    /\ leader = d
    /\ SameCut(proc[d].seen, proc[d].index)
    /\ v \notin down \cup halted
    /\ Becomes(d, Looping(Evidence(ev.version, ev.existing \ {v},
                                   [ev.proved EXCEPT ![v] = index])))
    /\ UNCHANGED <<member, target, authority, config, index, leader, term,
                   down, halted, outbox, faults>>

ConfigurationActions == {"add", "promote", "remove_voter", "remove_nonvoter"}
Suffrage(action) ==
    CASE action = "add" -> "nonvoter" [] action = "promote" -> "voter" [] OTHER -> "none"

\* validateRaftConfigurationChange
ChangeApplies(action, v, d) ==
    CASE action = "add" -> v \in target.voters /\ config[v] = "none"
      [] action = "promote" -> v \in target.voters /\ config[v] = "nonvoter"
      [] OTHER -> /\ v \notin target.voters /\ config[v] # "none" /\ v # d
                  /\ authority = target

\* The voters after the change, a quorum of which must be ready.
PostChangeVoters(action, v) ==
    CASE action = "promote" -> Voters(config) \cup {v}
      [] action \in {"add", "transfer"} -> Voters(config)
      [] OTHER -> Voters(config) \ {v}

QuorumReady(action, v) ==
    QuorumOf(PostChangeVoters(action, v), Ready(Committed, config))

\* Bug variant: the plan is enqueued as it was made.
NotRechecked(d) == leader = d

\* What the enqueue guard checks again before the change is handed to Raft.
Rechecked(d) ==
    StillPlanned(d) /\ ChangeApplies(proc[d].plan.action, proc[d].plan.device, d)

\* changeRaftConfiguration
ChangeConfiguration(d) ==
    LET action == proc[d].plan.action
        v == proc[d].plan.device
    IN
    /\ Planned(d, ConfigurationActions)
    /\ Rechecked(d)
    /\ QuorumReady(action, v)
    /\ config' = [config EXCEPT ![v] = Suffrage(action)]
    /\ index' = index + 1
    /\ Becomes(d, Looping(proc[d].evidence))
    /\ UNCHANGED <<member, target, authority, leader, term, down, halted,
                   outbox, faults>>

\* transferLeadership, validateLeadershipTransferTarget
TransferLeadership(d) ==
    LET v == proc[d].plan.device IN
    /\ Planned(d, {"transfer"})
    /\ StillPlanned(d)
    /\ v # d /\ v \in target.voters /\ config[v] = "voter"
    /\ d \notin target.voters
    /\ authority = target \/ member[d] = "revoked"
    /\ QuorumReady("transfer", v)
    /\ leader' = v
    /\ term' = term + 1
    /\ Becomes(d, Idle)
    /\ UNCHANGED <<member, target, authority, config, index, down, halted,
                   outbox, faults>>

HandOverSigners == {v \in authority.voters \ (down \cup halted) : member[v] = "active"}

\* activateVoterSet up to the durable reservation: a checkpoint signed by a
\* member of the authority, a proof by every voter of the target, a hand-over
\* signed by a member of the authority, all at one cut.  The leader signs the
\* checkpoint itself when it can.
ActivateAuthority(d, signer, checkpointSigner) ==
    LET payload == Payload(Committed, signer, checkpointSigner) IN
    /\ Planned(d, {"activate"})
    /\ leader = d
    /\ SameCut(proc[d].seen, proc[d].index)
    /\ target.voters \subseteq Voters(config) \ (down \cup halted)
    /\ {signer, checkpointSigner} \subseteq HandOverSigners
    /\ d \in HandOverSigners => checkpointSigner = d
    /\ outbox' = [outbox EXCEPT ![d] = @ \cup {payload}]
    /\ Becomes(d, Proc("waiting", term, proc[d].seen, index, proc[d].plan,
                       proc[d].evidence, payload, "none"))
    /\ UNCHANGED <<member, target, authority, config, index, leader, term,
                   down, halted, faults>>

\* The input moved under the plan: the loop plans again.
PlanChanged(d) ==
    /\ \/ Planned(d, ConfigurationActions) /\ leader = d /\ ~Rechecked(d)
       \/ Planned(d, {"activate"}) /\ leader = d /\ ~SameCut(proc[d].seen, proc[d].index)
    /\ Becomes(d, Looping(proc[d].evidence))
    /\ UNCHANGED <<member, target, authority, config, index, leader, term,
                   down, halted, outbox, faults>>

\* Leadership is lost, a device does not answer, or a step that is not retried
\* in the loop finds its input moved: a later attempt starts over.
AttemptReturns(d) ==
    /\ \/ proc[d].pc \in {"loop", "planned"} /\ leader # d
       \/ /\ proc[d].pc = "waiting" /\ proc[d].result = "none"
          /\ leader # d \/ term # proc[d].term
       \/ /\ Planned(d, ConfigurationActions \cup {"transfer"})
          /\ ~QuorumReady(proc[d].plan.action, proc[d].plan.device)
       \/ Planned(d, {"transfer"}) /\ ~StillPlanned(d)
       \/ /\ Planned(d, {"prove"})
          /\ \/ ~SameCut(proc[d].seen, proc[d].index)
             \/ proc[d].plan.device \in down \cup halted
       \/ /\ Planned(d, {"activate"})
          /\ \/ ~(target.voters \subseteq Voters(config) \ (down \cup halted))
             \/ HandOverSigners = {}
    /\ Becomes(d, Idle)
    /\ UNCHANGED <<member, target, authority, config, index, leader, term,
                   down, halted, outbox, faults>>

----------------------------------------------------------------------------
(* The activation proposal in the log.                                     *)

\* Bug variant: the proposal names no target version.
ActivationAcceptedAnyTarget(d, p) ==
    /\ member[d] = "active"
    /\ p.authority = authority.version
    /\ target.version # p.authority
    /\ p.signer \in authority.voters /\ member[p.signer] = "active"
    /\ p.checkpointSigner \in authority.voters /\ member[p.checkpointSigner] = "active"

\* reduceMembershipVoterSetActivated, and beginReduction on its origin.
ActivationAccepted(d, p) ==
    /\ member[d] = "active"
    /\ p.target = target.version /\ p.authority = authority.version
    /\ p.target # p.authority
    /\ p.signer \in authority.voters /\ member[p.signer] = "active"
    /\ p.checkpointSigner \in authority.voters /\ member[p.checkpointSigner] = "active"
    /\ \A v \in target.voters : member[v] = "active"

\* A leader-scheduled proposal leaves the outbox only while its origin leads,
\* in this attempt or long after the attempt that reserved it has returned.
CommitActivation(d, p) ==
    LET accepted == ActivationAccepted(d, p)
        q == proc[d]
    IN
    /\ leader = d
    /\ p \in outbox[d]
    /\ outbox' = [outbox EXCEPT ![d] = @ \ {p}]
    /\ authority' = IF accepted THEN target ELSE authority
    /\ IF q.pc = "waiting" /\ q.payload = p
       THEN Becomes(d, Proc("waiting", q.term, q.seen, q.index, q.plan, q.evidence, p,
                            IF accepted THEN "accepted" ELSE "rejected"))
       ELSE UNCHANGED proc
    /\ UNCHANGED <<member, target, config, index, leader, term, down, halted, faults>>

\* A rejection at a cut that did not change halts the node.
ActivationOutcome(d) ==
    /\ proc[d].pc = "waiting" /\ proc[d].result # "none"
    /\ IF proc[d].result = "rejected" /\ SameCut(proc[d].seen, proc[d].index)
       THEN Halts(d)
       ELSE Becomes(d, Looping(proc[d].evidence)) /\ UNCHANGED <<leader, halted>>
    /\ UNCHANGED <<member, target, authority, config, index, term, down,
                   outbox, faults>>

----------------------------------------------------------------------------
(* Other proposals, Raft and the network.                                  *)

VoterSets == {V \in SUBSET Devices : Cardinality(V) \in {1, 3, 5}}

\* The next target has a version to take.
VersionLeft ==
    /\ target.version < MaxTarget
    /\ faults > 0 => target.version < MaxFaultyTarget

VoterSetChanged(V) ==
    /\ leader # None
    /\ VersionLeft
    /\ V # target.voters /\ \A v \in V : member[v] = "active"
    /\ target' = VoterRow(V, target.version + 1)
    /\ UNCHANGED <<member, authority, config, index, leader, term, down,
                   halted, outbox, proc, faults>>

DeviceRevoked(d, V) ==
    /\ leader # None
    /\ member[d] = "active"
    /\ \/ d \notin target.voters /\ V = target.voters
       \/ /\ d \in target.voters /\ VersionLeft
          /\ V \subseteq target.voters \ {d}
          /\ Cardinality(V) = Cardinality(target.voters) - 2
    /\ QuorumOf(authority.voters, {v \in Devices \ {d} : member[v] = "active"})
    /\ member' = [member EXCEPT ![d] = "revoked"]
    /\ target' = IF d \in target.voters THEN VoterRow(V, target.version + 1) ELSE target
    /\ UNCHANGED <<authority, config, index, leader, term, down, halted,
                   outbox, proc, faults>>

Fault ==
    /\ faults < MaxFaults /\ target.version <= MaxFaultyTarget
    /\ faults' = faults + 1

\* Raft makes a voter it can reach the leader of a new term.
Leads(d) ==
    /\ d # leader /\ config[d] = "voter" /\ d \notin down \cup halted
    /\ leader' = d
    /\ term' = term + 1
    /\ UNCHANGED <<member, target, authority, config, index, down, halted,
                   outbox, proc>>

\* There is no leader, or its peers refuse the revoked one.
Elected(d) ==
    /\ member[d] = "active"
    /\ leader = None \/ (leader # None /\ member[leader] = "revoked")
    /\ Leads(d)
    /\ UNCHANGED faults

\* A leader that others no longer hear is replaced while it runs on.
Deposed(d) == leader # None /\ Fault /\ Leads(d)

BecomesUnreachable(d) ==
    /\ d \notin down /\ d # leader /\ Fault
    /\ down' = down \cup {d}
    /\ UNCHANGED <<member, target, authority, config, index, leader, term,
                   halted, outbox, proc>>

BecomesReachable(d) ==
    /\ d \in down
    /\ down' = down \ {d}
    /\ UNCHANGED <<member, target, authority, config, index, leader, term,
                   halted, outbox, proc, faults>>

\* A crash, or the restart of a halted daemon: the outbox is durable, the
\* reconciler and its evidence are not.
Restarted(d) ==
    /\ Fault
    /\ halted' = halted \ {d}
    /\ leader' = IF leader = d THEN None ELSE leader
    /\ Becomes(d, Idle)
    /\ UNCHANGED <<member, target, authority, config, index, term, down, outbox>>

\* voterReconciliationAttemptTimeout, a refused proof, a failed future.
AttemptFails(d) ==
    /\ proc[d].pc \in {"planned", "waiting"} /\ Fault
    /\ Becomes(d, Idle)
    /\ UNCHANGED <<member, target, authority, config, index, leader, term,
                   down, halted, outbox>>

----------------------------------------------------------------------------
(* The specification.                                                      *)

Init ==
    /\ member = [v \in Devices |-> "active"]
    /\ target = VoterRow({Founder}, 1)
    /\ authority = VoterRow({Founder}, 1)
    /\ config = [v \in Devices |-> IF v = Founder THEN "voter" ELSE "none"]
    /\ index = 1
    /\ leader = Founder
    /\ term = 1
    /\ down = {} /\ halted = {}
    /\ outbox = [v \in Devices |-> {}]
    /\ proc = [v \in Devices |-> Idle]
    /\ faults = 0

Reconciles(d) ==
    \/ ReadState(d) \/ CutHalts(d) \/ CutReturns(d) \/ CutPlans(d)
    \/ ProveNonvoter(d) \/ ChangeConfiguration(d) \/ TransferLeadership(d)
    \/ \E s, c \in Devices : ActivateAuthority(d, s, c)
    \/ PlanChanged(d) \/ AttemptReturns(d) \/ ActivationOutcome(d)

Commits(d) == \E p \in outbox[d] : CommitActivation(d, p)

Environment(d) ==
    \/ \E V \in VoterSets : DeviceRevoked(d, V)
    \/ Elected(d) \/ Deposed(d) \/ BecomesUnreachable(d) \/ BecomesReachable(d)
    \/ Restarted(d) \/ AttemptFails(d)

Next ==
    \/ \E d \in Devices : Reconciles(d) \/ Commits(d) \/ Environment(d)
    \/ \E V \in VoterSets : VoterSetChanged(V)

\* runVoterReconciliation retries until it is closed, the outbox worker until
\* the proposal is resolved, and Raft elects a leader when there is none.
Fairness == \A d \in Devices :
    /\ WF_vars(Reconciles(d))
    /\ WF_vars(Commits(d))
    /\ WF_vars(Elected(d))

Spec == Init /\ [][Next]_vars
FairSpec == Spec /\ Fairness

----------------------------------------------------------------------------
(* Properties.                                                             *)

VoterRows == [voters : VoterSets, version : 1 .. MaxTarget]
Payloads == [target : 1 .. MaxTarget, authority : 1 .. MaxTarget,
             signer : Devices, checkpointSigner : Devices]

\* Committed rows and the live configuration have the shape of their tables;
\* the state inside a reconciler is left to the code's own types.
TypeOK ==
    /\ member \in [Devices -> {"active", "revoked"}]
    /\ target \in VoterRows /\ authority \in VoterRows
    /\ config \in [Devices -> {"none", "nonvoter", "voter"}]
    /\ index \in Nat \ {0} /\ term \in Nat \ {0}
    /\ leader \in Devices \cup {None}
    /\ down \subseteq Devices /\ halted \subseteq Devices
    /\ outbox \in [Devices -> SUBSET Payloads]
    /\ DOMAIN proc = Devices
    /\ faults \in 0 .. MaxFaults

\* The members of the activated credential authority stay voters of the live
\* configuration until another authority is activated, whatever targets,
\* leaders and late activation proposals come in between (validate-
\* VoterReconciliationInput halts the leader that finds it otherwise).
AuthorityKeepsVoting == authority.voters \subseteq Voters(config)

\* While a target stands, none of its voters leaves the live configuration.
TargetVotersStay ==
    [][target' = target =>
          target.voters \cap Voters(config) \subseteq Voters(config')]_vars

\* A daemon whose leadership epoch has not ended since its cut, and that has
\* not been revoked, is never halted by the reconciler.
HealthyLeadersRun ==
    [][\A d \in halted' \ halted :
          leader # d \/ term # proc[d].term \/ member[d] = "revoked"]_vars

\* "Integrity failures halt inside their boundary. Every other result is
\* retried from a fresh committed cut" (runVoterReconciliation): nothing here
\* is an integrity failure, so no daemon halts.
NeverHalted == halted = {}

\* The live voters are the target, it is activated and nothing is staged.
Stable ==
    /\ authority = target
    /\ \A v \in Devices :
          config[v] = IF v \in target.voters THEN "voter" ELSE "none"

\* All the reconciler asks for: the voters of the target and a majority of the
\* live voters are running, reachable and active, and so is a majority of the
\* authority.
Quorate ==
    LET live == {v \in Devices \ (down \cup halted) : member[v] = "active"} IN
    /\ target.voters \subseteq live
    /\ QuorumOf(Voters(config), live)
    /\ QuorumOf(authority.voters, live)

\* Once the disturbances end, the reconciler reaches the target and stays.
Converges == <>[]Quorate => <>[]Stable
=============================================================================
