------------------------ MODULE ReconciliationProofs ------------------------
(***************************************************************************)
(* Theorems about the two reconcilers of a daemon: VoterReconciliation,    *)
(* for every set of devices, every bound and every order of commits,       *)
(* elections, outages and restarts, and PeerEndpoints, for all members,    *)
(* endpoints, caps, lifetimes and movements of the clock.                  *)
(*                                                                         *)
(* That the credential authority keeps voting is not inductive.  It rests  *)
(* on what an activation proposal in an outbox is worth: it was reserved   *)
(* when the voters of its target were live voters, and as long as that     *)
(* target stands no later configuration change removes one of them.        *)
(*                                                                         *)
(* That no healthy leader halts rests on what a reconciler remembers: what *)
(* it read was the state once, and everything it is compared with later    *)
(* has only moved in one direction since.                                  *)
(*                                                                         *)
(* That the table of endpoints stays valid rests on the rows of a set      *)
(* being written, observed and expired together; that the latest set is    *)
(* kept, on a sequence naming one set; that a pass never stops over its    *)
(* address, on the loop rebinding only between its passes.                 *)
(***************************************************************************)
EXTENDS VoterReconciliation, PeerEndpoints, FiniteSetTheorems, TLAPS

\* The authority is at most as recent as the target, and is the target when
\* the versions meet.
AuthorityBehind ==
    /\ authority.version <= target.version
    /\ authority.version = target.version => authority.voters = target.voters

\* A proposal for the standing target finds its voters still voting.
ProposalsBacked ==
    \A d \in Devices : \A p \in outbox[d] :
        /\ p.target <= target.version
        /\ p.target = target.version => target.voters \subseteq Voters(config)

IInv == TypeOK /\ AuthorityBehind /\ AuthorityKeepsVoting /\ ProposalsBacked

\* What the invariant reads, apart from the types.
core == <<target, authority, config, outbox>>

----------------------------------------------------------------------------

(* An action that leaves the committed rows, the configuration and the     *)
(* outboxes alone keeps the invariant when it keeps the types.             *)
LEMMA CoreUnchanged ==
    ASSUME IInv, UNCHANGED core, TypeOK'
    PROVE  IInv'
  BY DEF IInv, core, AuthorityBehind, AuthorityKeepsVoting, ProposalsBacked, Voters

(* The reconciler's reads, plans and returns change only its own state:    *)
(* nothing committed and no configuration (voterReconciliationCut).        *)
LEMMA LocalStep ==
    ASSUME TypeOK, NEW d \in Devices,
           \/ ReadState(d) \/ CutHalts(d) \/ CutReturns(d) \/ CutPlans(d)
           \/ ProveNonvoter(d) \/ TransferLeadership(d)
           \/ PlanChanged(d) \/ AttemptReturns(d) \/ ActivationOutcome(d)
    PROVE  UNCHANGED core /\ TypeOK'
  <1> USE DEF core, TypeOK, Becomes
  <1>1. CASE ReadState(d) BY <1>1 DEF ReadState
  <1>2. CASE CutHalts(d) BY <1>2 DEF CutHalts, Halts
  <1>3. CASE CutReturns(d) BY <1>3 DEF CutReturns
  <1>4. CASE CutPlans(d) BY <1>4 DEF CutPlans
  <1>5. CASE ProveNonvoter(d) BY <1>5 DEF ProveNonvoter
  <1>6. CASE TransferLeadership(d)
    <2>1. leader' \in Devices
      BY <1>6 DEF TransferLeadership, VoterRows, VoterSets
    <2> QED BY <1>6, <2>1 DEF TransferLeadership
  <1>7. CASE PlanChanged(d) BY <1>7 DEF PlanChanged
  <1>8. CASE AttemptReturns(d) BY <1>8 DEF AttemptReturns
  <1>9. CASE ActivationOutcome(d) BY <1>9 DEF ActivationOutcome, Halts
  <1> QED BY <1>1, <1>2, <1>3, <1>4, <1>5, <1>6, <1>7, <1>8, <1>9

(* Elections, outages, restarts and failed attempts change nothing that is *)
(* committed.                                                              *)
LEMMA DisturbanceStep ==
    ASSUME ReconciliationAssumption, TypeOK, NEW d \in Devices,
           \/ Elected(d) \/ Deposed(d) \/ BecomesUnreachable(d)
           \/ BecomesReachable(d) \/ Restarted(d) \/ AttemptFails(d)
    PROVE  UNCHANGED core /\ TypeOK'
  <1> USE DEF core, TypeOK, Becomes, Fault, ReconciliationAssumption
  <1>1. CASE Elected(d) BY <1>1 DEF Elected, Leads
  <1>2. CASE Deposed(d) BY <1>2 DEF Deposed, Leads
  <1>3. CASE BecomesUnreachable(d) BY <1>3 DEF BecomesUnreachable
  <1>4. CASE BecomesReachable(d) BY <1>4 DEF BecomesReachable
  <1>5. CASE Restarted(d) BY <1>5 DEF Restarted
  <1>6. CASE AttemptFails(d) BY <1>6 DEF AttemptFails
  <1> QED BY <1>1, <1>2, <1>3, <1>4, <1>5, <1>6

(* A configuration change takes no vote from a member of the target, and   *)
(* takes one from anybody only when the authority is the target            *)
(* (validateRaftConfigurationChange).                                      *)
LEMMA ChangeKeepsVotes ==
    ASSUME TypeOK, NEW d \in Devices, ChangeConfiguration(d)
    PROVE  /\ TypeOK'
           /\ UNCHANGED <<target, authority, outbox>>
           /\ target.voters \cap Voters(config) \subseteq Voters(config')
           /\ authority # target => Voters(config) \subseteq Voters(config')
  <1> DEFINE action == proc[d].plan.action
             v == proc[d].plan.device
  <1>1. /\ ChangeApplies(action, v, d)
        /\ config' = [config EXCEPT ![v] = Suffrage(action)]
        /\ action \in {"add", "promote", "remove_voter", "remove_nonvoter"}
        /\ index' = index + 1
        /\ proc' = [proc EXCEPT ![d] = Looping(proc[d].evidence)]
        /\ UNCHANGED <<member, target, authority, leader, term, down, halted,
                       outbox, faults>>
    BY DEF ChangeConfiguration, Rechecked, Planned, ConfigurationActions, Becomes
  <1>2. config \in [Devices -> {"none", "nonvoter", "voter"}]
    BY DEF TypeOK
  <1> HIDE DEF action, v
  <1>3. Suffrage(action) \in {"none", "nonvoter", "voter"}
    BY <1>1 DEF Suffrage
  <1>4. config' \in [Devices -> {"none", "nonvoter", "voter"}]
    BY <1>1, <1>2, <1>3
  <1>5. TypeOK'
    BY <1>1, <1>4 DEF TypeOK
  <1>6. CASE action \in {"add", "promote"}
    <2>1. config[v] # "voter"
      BY <1>1, <1>6 DEF ChangeApplies
    <2>2. Voters(config) \subseteq Voters(config')
      BY <1>1, <1>2, <2>1 DEF Voters
    <2> QED BY <1>1, <1>5, <2>2
  <1>7. CASE action \in {"remove_voter", "remove_nonvoter"}
    <2>1. v \notin target.voters /\ authority = target
      BY <1>1, <1>7 DEF ChangeApplies
    <2>2. target.voters \cap Voters(config) \subseteq Voters(config')
      BY <1>1, <1>2, <2>1 DEF Voters
    <2> QED BY <1>1, <1>5, <2>1, <2>2
  <1> QED BY <1>1, <1>6, <1>7

LEMMA ChangeStep ==
    ASSUME IInv, NEW d \in Devices, ChangeConfiguration(d)
    PROVE  IInv'
  <1>1. /\ TypeOK'
        /\ UNCHANGED <<target, authority, outbox>>
        /\ target.voters \cap Voters(config) \subseteq Voters(config')
        /\ authority # target => Voters(config) \subseteq Voters(config')
    BY ChangeKeepsVotes DEF IInv
  <1>2. AuthorityBehind' BY <1>1 DEF IInv, AuthorityBehind
  <1>3. AuthorityKeepsVoting'
    BY <1>1 DEF IInv, AuthorityKeepsVoting
  <1>4. ProposalsBacked'
    <2>1. SUFFICES ASSUME NEW e \in Devices, NEW p \in outbox[e]
                   PROVE  /\ p.target <= target.version
                          /\ p.target = target.version =>
                                target.voters \subseteq Voters(config')
      BY <1>1 DEF ProposalsBacked
    <2>2. /\ p.target <= target.version
          /\ p.target = target.version => target.voters \subseteq Voters(config)
      BY DEF IInv, ProposalsBacked
    <2> QED BY <1>1, <2>2
  <1> QED BY <1>1, <1>2, <1>3, <1>4 DEF IInv

(* A proposal is reserved only at a cut where every voter of the target is *)
(* a live voter (activateVoterSet).                                        *)
LEMMA ReserveStep ==
    ASSUME IInv, NEW d \in Devices, NEW s \in Devices, NEW c \in Devices,
           ActivateAuthority(d, s, c)
    PROVE  IInv'
  <1> DEFINE q == Payload(Committed, s, c)
  <1>1. /\ target.voters \subseteq Voters(config)
        /\ outbox' = [outbox EXCEPT ![d] = @ \cup {q}]
        /\ proc' = [proc EXCEPT ![d] = Proc("waiting", term, proc[d].seen, index,
                       proc[d].plan, proc[d].evidence, q, "none")]
        /\ UNCHANGED <<member, target, authority, config, index, leader, term,
                       down, halted, faults>>
    BY DEF ActivateAuthority, Becomes
  <1>2. q \in Payloads /\ q.target = target.version
    BY DEF IInv, TypeOK, VoterRows, Payloads, Payload, Committed
  <1> HIDE DEF q
  <1>3. TypeOK'
    <2>1. outbox' \in [Devices -> SUBSET Payloads]
      BY <1>1, <1>2 DEF IInv, TypeOK
    <2>2. DOMAIN proc' = Devices
      BY <1>1 DEF IInv, TypeOK
    <2> QED BY <1>1, <2>1, <2>2 DEF IInv, TypeOK
  <1>4. AuthorityBehind' /\ AuthorityKeepsVoting'
    BY <1>1 DEF IInv, AuthorityBehind, AuthorityKeepsVoting, Voters
  <1>5. ProposalsBacked'
    <2>1. SUFFICES ASSUME NEW e \in Devices, NEW p \in outbox'[e]
                   PROVE  /\ p.target <= target.version
                          /\ p.target = target.version =>
                                target.voters \subseteq Voters(config)
      BY <1>1 DEF ProposalsBacked, Voters
    <2>2. p \in outbox[e] \/ p = q
      BY <1>1 DEF IInv, TypeOK
    <2>3. target.version \in Nat
      BY DEF IInv, TypeOK, VoterRows
    <2> QED BY <1>1, <1>2, <2>2, <2>3 DEF IInv, ProposalsBacked
  <1> QED BY <1>3, <1>4, <1>5 DEF IInv

(* An accepted proposal is for the standing target                         *)
(* (reduceMembershipVoterSetActivated).                                    *)
LEMMA CommitStep ==
    ASSUME IInv, NEW d \in Devices, NEW p \in outbox[d], CommitActivation(d, p)
    PROVE  IInv'
  <1>1. /\ outbox' = [outbox EXCEPT ![d] = @ \ {p}]
        /\ authority' = authority \/ (authority' = target /\ p.target = target.version)
        /\ DOMAIN proc' = Devices
        /\ UNCHANGED <<member, target, config, index, leader, term, down,
                       halted, faults>>
    BY DEF CommitActivation, ActivationAccepted, Becomes, IInv, TypeOK
  <1>2. TypeOK'
    <2>1. outbox' \in [Devices -> SUBSET Payloads]
      BY <1>1 DEF IInv, TypeOK
    <2> QED BY <1>1, <2>1 DEF IInv, TypeOK
  <1>3. AuthorityBehind'
    BY <1>1 DEF IInv, AuthorityBehind, TypeOK, VoterRows
  <1>4. AuthorityKeepsVoting'
    BY <1>1 DEF IInv, AuthorityKeepsVoting, ProposalsBacked, Voters
  <1>5. ProposalsBacked'
    <2>1. \A e \in Devices : outbox'[e] \subseteq outbox[e]
      BY <1>1 DEF IInv, TypeOK
    <2> QED BY <1>1, <2>1 DEF IInv, ProposalsBacked, Voters
  <1> QED BY <1>2, <1>3, <1>4, <1>5 DEF IInv

(* A new target takes the next version, so no reserved proposal is for it  *)
(* (reduceMembershipVoterSetChanged, reduceMembershipDeviceRevoked).       *)
LEMMA TargetStep ==
    ASSUME IInv, NEW V \in VoterSets,
           VoterSetChanged(V) \/ \E d \in Devices : DeviceRevoked(d, V)
    PROVE  IInv'
  <1>1. /\ \/ target' = target
           \/ target' = VoterRow(V, target.version + 1) /\ target.version < MaxTarget
        /\ member' \in [Devices -> {"active", "revoked"}]
        /\ UNCHANGED <<authority, config, index, leader, term, down, halted,
                       outbox, proc, faults>>
    <2>1. CASE VoterSetChanged(V)
      BY <2>1 DEF VoterSetChanged, VersionLeft, IInv, TypeOK
    <2>2. CASE \E d \in Devices : DeviceRevoked(d, V)
      BY <2>2 DEF DeviceRevoked, VersionLeft, IInv, TypeOK
    <2> QED BY <2>1, <2>2
  <1>2. target \in VoterRows /\ authority \in VoterRows
    BY DEF IInv, TypeOK
  <1>3. CASE target' = target
    BY <1>1, <1>3 DEF IInv, TypeOK, AuthorityBehind, AuthorityKeepsVoting,
                      ProposalsBacked, Voters
  <1>4. CASE target' = VoterRow(V, target.version + 1) /\ target.version < MaxTarget
    <2>1. /\ target'.version = target.version + 1 /\ target'.voters = V
          /\ target.version \in Nat /\ authority.version \in Nat
      BY <1>2, <1>4 DEF VoterRow, VoterRows
    <2>2. target' \in VoterRows
      BY <1>2, <1>4, ReconciliationAssumption
         DEF VoterRow, VoterRows, ReconciliationAssumption
    <2>3. TypeOK'
      BY <1>1, <2>2 DEF IInv, TypeOK
    <2>4. AuthorityBehind'
      BY <1>1, <2>1 DEF IInv, AuthorityBehind
    <2>5. AuthorityKeepsVoting'
      BY <1>1 DEF IInv, AuthorityKeepsVoting, Voters
    <2>6. ProposalsBacked'
      <3>1. SUFFICES ASSUME NEW e \in Devices, NEW p \in outbox[e]
                     PROVE  p.target <= target'.version /\ p.target # target'.version
        BY <1>1 DEF ProposalsBacked
      <3>2. p.target \in Nat /\ p.target <= target.version
        BY DEF IInv, TypeOK, ProposalsBacked, Payloads
      <3> QED BY <2>1, <3>2
    <2> QED BY <2>3, <2>4, <2>5, <2>6 DEF IInv
  <1> QED BY <1>1, <1>3, <1>4

----------------------------------------------------------------------------

LEMMA InitHolds == Init => IInv
  <1> SUFFICES ASSUME Init PROVE IInv OBVIOUS
  <1>1. Cardinality({Founder}) = 1
    BY FS_Singleton, ReconciliationAssumption DEF ReconciliationAssumption
  <1>2. VoterRow({Founder}, 1) \in VoterRows
    BY <1>1, ReconciliationAssumption
       DEF ReconciliationAssumption, VoterRow, VoterRows, VoterSets
  <1>3. TypeOK
    BY <1>2, ReconciliationAssumption DEF ReconciliationAssumption, Init, TypeOK
  <1>4. AuthorityBehind /\ AuthorityKeepsVoting /\ ProposalsBacked
    BY ReconciliationAssumption
       DEF ReconciliationAssumption, Init, AuthorityBehind, AuthorityKeepsVoting,
           ProposalsBacked, Voters, VoterRow
  <1> QED BY <1>3, <1>4 DEF IInv

LEMMA NextHolds == IInv /\ [Next]_vars => IInv'
  <1> SUFFICES ASSUME IInv, [Next]_vars PROVE IInv' OBVIOUS
  <1>1. ASSUME NEW d \in Devices, Reconciles(d) PROVE IInv'
    <2>1. CASE ChangeConfiguration(d) BY <2>1, ChangeStep
    <2>2. CASE \E s, c \in Devices : ActivateAuthority(d, s, c)
      BY <2>2, ReserveStep
    <2>3. ASSUME \/ ReadState(d) \/ CutHalts(d) \/ CutReturns(d) \/ CutPlans(d)
                 \/ ProveNonvoter(d) \/ TransferLeadership(d)
                 \/ PlanChanged(d) \/ AttemptReturns(d) \/ ActivationOutcome(d)
          PROVE IInv'
      <3>1. TypeOK BY DEF IInv
      <3>2. UNCHANGED core /\ TypeOK' BY <2>3, <3>1, LocalStep
      <3> QED BY <3>2, CoreUnchanged
    <2> QED BY <1>1, <2>1, <2>2, <2>3 DEF Reconciles
  <1>2. ASSUME NEW d \in Devices, Commits(d) PROVE IInv'
    BY <1>2, CommitStep DEF Commits
  <1>3. ASSUME NEW d \in Devices, Environment(d) PROVE IInv'
    <2>1. CASE \E V \in VoterSets : DeviceRevoked(d, V) BY <2>1, TargetStep
    <2>2. ASSUME \/ Elected(d) \/ Deposed(d) \/ BecomesUnreachable(d)
                 \/ BecomesReachable(d) \/ Restarted(d) \/ AttemptFails(d)
          PROVE IInv'
      <3>1. TypeOK BY DEF IInv
      <3>2. UNCHANGED core /\ TypeOK'
        BY <2>2, <3>1, DisturbanceStep, ReconciliationAssumption
      <3> QED BY <3>2, CoreUnchanged
    <2> QED BY <1>3, <2>1, <2>2 DEF Environment
  <1>4. ASSUME NEW V \in VoterSets, VoterSetChanged(V) PROVE IInv'
    BY <1>4, TargetStep
  <1>5. CASE UNCHANGED vars
    BY <1>5 DEF vars, IInv, TypeOK, AuthorityBehind, AuthorityKeepsVoting,
                ProposalsBacked, Voters
  <1> QED BY <1>1, <1>2, <1>3, <1>4, <1>5 DEF Next

(* The inductive invariant holds in every reachable state.                 *)
THEOREM Invariance == Spec => []IInv
  BY InitHolds, NextHolds, PTL DEF Spec

(* The members of the activated credential authority remain voters of the  *)
(* live Raft configuration (validateVoterReconciliationInput).             *)
THEOREM AuthorityVotes == Spec => []AuthorityKeepsVoting
  <1>1. IInv => AuthorityKeepsVoting BY DEF IInv
  <1> QED BY <1>1, Invariance, PTL

(* No step takes the vote of a voter of the target that stands             *)
(* (validateRaftConfigurationChange).                                      *)
THEOREM TargetVotersKept == Spec => TargetVotersStay
  <1> DEFINE Stay == target.voters \cap Voters(config) \subseteq Voters(config')
  <1>1. ASSUME IInv, [Next]_vars
        PROVE  [target' = target => Stay]_vars
    <2>1. CASE UNCHANGED vars BY <2>1
    <2>2. CASE \E d \in Devices : ChangeConfiguration(d)
      BY <1>1, <2>2, ChangeKeepsVotes DEF IInv
    <2>3. ASSUME UNCHANGED config PROVE Stay
      BY <2>3 DEF Voters
    <2>4. ASSUME NEW d \in Devices, Reconciles(d), ~ChangeConfiguration(d)
          PROVE  UNCHANGED config
      <3>1. CASE \E s, c \in Devices : ActivateAuthority(d, s, c)
        BY <3>1 DEF ActivateAuthority
      <3>2. ASSUME \/ ReadState(d) \/ CutHalts(d) \/ CutReturns(d) \/ CutPlans(d)
                   \/ ProveNonvoter(d) \/ TransferLeadership(d)
                   \/ PlanChanged(d) \/ AttemptReturns(d) \/ ActivationOutcome(d)
            PROVE  UNCHANGED config
        <4>1. TypeOK BY <1>1 DEF IInv
        <4>2. UNCHANGED core BY <3>2, <4>1, LocalStep
        <4> QED BY <4>2 DEF core
      <3> QED BY <2>4, <3>1, <3>2 DEF Reconciles
    <2>5. ASSUME NEW d \in Devices, Commits(d) \/ Environment(d)
          PROVE  UNCHANGED config
      BY <2>5 DEF Commits, CommitActivation, Environment, DeviceRevoked, Elected,
                  Deposed, Leads, BecomesUnreachable, BecomesReachable, Restarted,
                  AttemptFails
    <2>6. ASSUME NEW V \in VoterSets, VoterSetChanged(V) PROVE UNCHANGED config
      BY <2>6 DEF VoterSetChanged
    <2> QED BY <1>1, <2>1, <2>2, <2>3, <2>4, <2>5, <2>6 DEF Next
  <1> QED BY <1>1, Invariance, PTL DEF Spec, TargetVotersStay

----------------------------------------------------------------------------
(* Halting.  What a reconciler has read is compared with the state only    *)
(* later.  The comparison is sound because everything it looks at moves in *)
(* one direction, and because nobody but the leader changes the            *)
(* configuration while its term lasts.                                     *)

Holds(st) ==
    /\ st.target \in VoterRows /\ st.authority \in VoterRows
    /\ st.member \in [Devices -> {"active", "revoked"}]
    /\ st.authority.version <= st.target.version
    /\ st.authority.version = st.target.version => st.authority.voters = st.target.voters
    /\ \A v \in st.target.voters : st.member[v] = "active"

\* What was read is a state the rows have been in.
Past(st) ==
    /\ st.target.version <= target.version
    /\ st.target.version = target.version => st.target = target
    /\ st.authority.version <= authority.version
    /\ st.authority.version = authority.version => st.authority = authority
    /\ \A v \in Devices : st.member[v] = "revoked" => member[v] = "revoked"

\* The rows have moved since, in something the rejection of a proposal can rest on.
Moved(st, d) ==
    \/ st.target.version < target.version
    \/ st.authority.version < authority.version
    \/ \E v \in st.target.voters \cup st.authority.voters :
          st.member[v] = "active" /\ member[v] = "revoked"
    \/ member[d] = "revoked"

Running(d) == proc[d].pc \in {"cut", "planned", "waiting"}
Leading(d) == leader = d /\ term = proc[d].term

\* While the epoch of its cut lasts, the configuration is the one that was there
\* when the projection was read.
CutSound(d) ==
    proc[d].pc = "cut" /\ Leading(d) /\ Activated(proc[d].seen) =>
        \A v \in proc[d].seen.target.voters : config[v] = "voter"

PlanSound(d) ==
    proc[d].pc \in {"planned", "waiting"} /\ proc[d].plan.action = "activate" =>
        ~Activated(proc[d].seen)

Signs(st, v) == v \in st.authority.voters /\ st.member[v] = "active"
WaitSound(d) ==
    LET st == proc[d].seen
        p == proc[d].payload
    IN proc[d].pc = "waiting" =>
          /\ proc[d].plan.action = "activate"
          /\ p.target = st.target.version /\ p.authority = st.authority.version
          /\ Signs(st, p.signer) /\ Signs(st, p.checkpointSigner)
          /\ proc[d].result = "rejected" => Moved(st, d)

ProcSound(d) ==
    /\ Running(d) => /\ Holds(proc[d].seen) /\ Past(proc[d].seen)
                     /\ proc[d].term \in Nat /\ proc[d].term <= term
    /\ CutSound(d) /\ PlanSound(d) /\ WaitSound(d)

LeaderVotes == leader # None => config[leader] = "voter"
CommittedHolds == Holds(Committed)

HInv == IInv /\ CommittedHolds /\ LeaderVotes /\ \A d \in Devices : ProcSound(d)

(* Rows move in one direction: versions grow, the same version names the   *)
(* same row, and a revoked device stays revoked.                           *)
Onward ==
    /\ target.version <= target'.version
    /\ target'.version = target.version => target' = target
    /\ authority.version <= authority'.version
    /\ authority'.version = authority.version => authority' = authority
    /\ \A v \in Devices : member[v] = "revoked" => member'[v] = "revoked"

----------------------------------------------------------------------------

LEMMA GoesOnward == IInv /\ [Next]_vars => Onward
  <1> SUFFICES ASSUME IInv, [Next]_vars PROVE Onward OBVIOUS
  <1>1. /\ target.version \in Nat /\ authority.version \in Nat
        /\ authority.version <= target.version
        /\ member \in [Devices -> {"active", "revoked"}]
    BY DEF IInv, TypeOK, VoterRows, AuthorityBehind
  <1>2. ASSUME UNCHANGED <<target, authority, member>> PROVE Onward
    BY <1>1, <1>2 DEF Onward
  <1>3. ASSUME NEW d \in Devices, NEW p \in outbox[d], CommitActivation(d, p)
        PROVE  Onward
    <2>1. /\ UNCHANGED <<target, member>>
          /\ \/ authority' = authority
             \/ authority' = target /\ authority.version # target.version
      BY <1>3 DEF CommitActivation, ActivationAccepted
    <2> QED BY <1>1, <2>1 DEF Onward
  <1>4. ASSUME NEW V \in VoterSets, VoterSetChanged(V) PROVE Onward
    <2>1. /\ UNCHANGED <<authority, member>>
          /\ target'.version = target.version + 1
      BY <1>4 DEF VoterSetChanged, VoterRow
    <2> QED BY <1>1, <2>1 DEF Onward
  <1>5. ASSUME NEW d \in Devices, NEW V \in VoterSets, DeviceRevoked(d, V)
        PROVE  Onward
    <2>1. /\ authority' = authority
          /\ target' = target \/ target'.version = target.version + 1
          /\ member' = [member EXCEPT ![d] = "revoked"]
      BY <1>5 DEF DeviceRevoked, VoterRow
    <2>2. \A v \in Devices : member[v] = "revoked" => member'[v] = "revoked"
      BY <1>1, <2>1
    <2> QED BY <1>1, <2>1, <2>2 DEF Onward
  <1>6. ASSUME NEW d \in Devices, Reconciles(d)
        PROVE  UNCHANGED <<target, authority, member>>
    BY <1>6 DEF Reconciles, ReadState, CutHalts, CutReturns, CutPlans, ProveNonvoter,
                ChangeConfiguration, TransferLeadership, ActivateAuthority,
                PlanChanged, AttemptReturns, ActivationOutcome
  <1>7. ASSUME NEW d \in Devices,
               \/ Elected(d) \/ Deposed(d) \/ BecomesUnreachable(d)
               \/ BecomesReachable(d) \/ Restarted(d) \/ AttemptFails(d)
        PROVE  UNCHANGED <<target, authority, member>>
    BY <1>7 DEF Elected, Deposed, Leads, BecomesUnreachable, BecomesReachable,
                Restarted, AttemptFails
  <1>8. CASE UNCHANGED vars BY <1>2, <1>8 DEF vars
  <1> QED BY <1>2, <1>3, <1>4, <1>5, <1>6, <1>7, <1>8 DEF Next, Commits, Environment

(* The voters of the target are active: a target names active devices, and *)
(* the revocation of a voter takes it out (reduceMembershipDeviceRevoked). *)
LEMMA CommittedStep == IInv /\ CommittedHolds /\ [Next]_vars => CommittedHolds'
  <1> SUFFICES ASSUME IInv, CommittedHolds, [Next]_vars PROVE CommittedHolds' OBVIOUS
  <1>1. IInv' BY NextHolds
  <1>2. \A v \in target.voters : member[v] = "active"
    BY DEF CommittedHolds, Holds, Committed
  <1>3. /\ target.voters \subseteq Devices /\ member \in [Devices -> {"active", "revoked"}]
    BY DEF IInv, TypeOK, VoterRows, VoterSets
  <1>4. SUFFICES \A v \in target'.voters : member'[v] = "active"
    BY <1>1 DEF CommittedHolds, Holds, Committed, IInv, TypeOK, AuthorityBehind
  <1>5. ASSUME NEW V \in VoterSets, VoterSetChanged(V)
        PROVE  \A v \in target'.voters : member'[v] = "active"
    BY <1>5 DEF VoterSetChanged, VoterRow
  <1>6. ASSUME NEW d \in Devices, NEW V \in VoterSets, DeviceRevoked(d, V)
        PROVE  \A v \in target'.voters : member'[v] = "active"
    <2>1. /\ member' = [member EXCEPT ![d] = "revoked"]
          /\ \/ target' = target /\ d \notin target.voters
             \/ target'.voters = V /\ V \subseteq target.voters \ {d}
      BY <1>6 DEF DeviceRevoked, VoterRow
    <2> QED BY <1>2, <1>3, <2>1
  <1>7. ASSUME UNCHANGED <<target, member>>
        PROVE  \A v \in target'.voters : member'[v] = "active"
    BY <1>2, <1>7
  <1>8. ASSUME NEW d \in Devices, Reconciles(d) PROVE UNCHANGED <<target, member>>
    BY <1>8 DEF Reconciles, ReadState, CutHalts, CutReturns, CutPlans, ProveNonvoter,
                ChangeConfiguration, TransferLeadership, ActivateAuthority,
                PlanChanged, AttemptReturns, ActivationOutcome
  <1>9. ASSUME NEW d \in Devices,
               \/ Commits(d) \/ Elected(d) \/ Deposed(d) \/ BecomesUnreachable(d)
               \/ BecomesReachable(d) \/ Restarted(d) \/ AttemptFails(d)
        PROVE  UNCHANGED <<target, member>>
    BY <1>9 DEF Commits, CommitActivation, Elected, Deposed, Leads, BecomesUnreachable,
                BecomesReachable, Restarted, AttemptFails
  <1>10. CASE UNCHANGED vars BY <1>7, <1>10 DEF vars
  <1> QED BY <1>5, <1>6, <1>7, <1>8, <1>9, <1>10 DEF Next, Environment

(* Leadership moves only with the term, and only the leader changes the    *)
(* configuration, which ends the attempt that planned the change.          *)
Epoch ==
    /\ \/ (leader' = leader \/ leader' = None) /\ term' = term
       \/ leader' \in Devices /\ config'[leader'] = "voter" /\ term' = term + 1
    /\ \/ config' = config
       \/ /\ leader' = leader /\ leader \in Devices
          /\ config'[leader] = config[leader] \/ config[leader] # "voter"
          /\ proc'[leader].pc = "loop"

LEMMA StepEpoch == TypeOK /\ [Next]_vars => Epoch
  <1> SUFFICES ASSUME TypeOK, [Next]_vars PROVE Epoch OBVIOUS
  <1>1. DOMAIN proc = Devices /\ config \in [Devices -> {"none", "nonvoter", "voter"}]
    BY DEF TypeOK
  <1>2. ASSUME NEW d \in Devices, ChangeConfiguration(d) PROVE Epoch
    <2> DEFINE action == proc[d].plan.action
               v == proc[d].plan.device
    <2>1. /\ leader = d /\ UNCHANGED <<leader, term>>
          /\ ChangeApplies(action, v, d)
          /\ action \in {"add", "promote", "remove_voter", "remove_nonvoter"}
          /\ config' = [config EXCEPT ![v] = Suffrage(action)]
          /\ proc' = [proc EXCEPT ![d] = Looping(proc[d].evidence)]
      BY <1>2 DEF ChangeConfiguration, Rechecked, StillPlanned, Planned,
                  ConfigurationActions, Becomes
    <2> HIDE DEF action, v
    <2>2. config[v] # "voter" \/ v # d
      BY <2>1 DEF ChangeApplies
    <2>3. config'[d] = config[d] \/ config[d] # "voter"
      BY <1>1, <2>1, <2>2
    <2>4. proc'[d].pc = "loop"
      BY <1>1, <2>1 DEF Looping, Proc
    <2> QED BY <2>1, <2>3, <2>4 DEF Epoch
  <1>3. ASSUME NEW d \in Devices, TransferLeadership(d) PROVE Epoch
    <2>1. /\ config' = config /\ term' = term + 1
          /\ config[leader'] = "voter" /\ leader' \in target.voters
      BY <1>3 DEF TransferLeadership
    <2>2. leader' \in Devices
      BY <2>1 DEF TypeOK, VoterRows, VoterSets
    <2> QED BY <2>1, <2>2 DEF Epoch
  <1>4. ASSUME NEW d \in Devices, Elected(d) \/ Deposed(d) PROVE Epoch
    BY <1>4 DEF Elected, Deposed, Leads, Epoch
  <1>5. ASSUME config' = config, leader' = leader \/ leader' = None, term' = term
        PROVE  Epoch
    BY <1>5 DEF Epoch
  <1>6. ASSUME NEW d \in Devices,
               \/ ReadState(d) \/ CutHalts(d) \/ CutReturns(d) \/ CutPlans(d)
               \/ ProveNonvoter(d) \/ (\E s, c \in Devices : ActivateAuthority(d, s, c))
               \/ PlanChanged(d) \/ AttemptReturns(d) \/ ActivationOutcome(d)
        PROVE  Epoch
    BY <1>5, <1>6 DEF ReadState, CutHalts, CutReturns, CutPlans, ProveNonvoter,
                      ActivateAuthority, PlanChanged, AttemptReturns, ActivationOutcome, Halts
  <1>7. ASSUME NEW d \in Devices,
               \/ Commits(d) \/ BecomesUnreachable(d) \/ BecomesReachable(d)
               \/ Restarted(d) \/ AttemptFails(d)
               \/ \E V \in VoterSets : DeviceRevoked(d, V)
        PROVE  Epoch
    BY <1>5, <1>7 DEF Commits, CommitActivation, BecomesUnreachable, BecomesReachable,
                      Restarted, AttemptFails, DeviceRevoked
  <1>8. ASSUME NEW V \in VoterSets, VoterSetChanged(V) PROVE Epoch
    BY <1>5, <1>8 DEF VoterSetChanged
  <1>9. CASE UNCHANGED vars BY <1>5, <1>9 DEF vars
  <1> QED BY <1>2, <1>3, <1>4, <1>6, <1>7, <1>8, <1>9 DEF Next, Reconciles, Environment

(* Whoever leads has a vote (validateLeadershipTransferTarget).            *)
LEMMA LeaderStep ==
    ASSUME TypeOK, LeaderVotes, Epoch PROVE LeaderVotes'
  BY DEF LeaderVotes, Epoch

(* What was read stays a past state of the rows, and a row that has moved  *)
(* does not move back.                                                     *)
LEMMA PastKept ==
    ASSUME TypeOK, TypeOK', Onward, NEW st, Holds(st), Past(st)
    PROVE  /\ st.target.version <= target'.version
           /\ st.target.version = target'.version => st.target = target'
           /\ st.authority.version <= authority'.version
           /\ st.authority.version = authority'.version => st.authority = authority'
           /\ \A v \in Devices : st.member[v] = "revoked" => member'[v] = "revoked"
  <1>1. /\ target.version \in Nat /\ authority.version \in Nat
        /\ target'.version \in Nat /\ authority'.version \in Nat
        /\ st.target.version \in Nat /\ st.authority.version \in Nat
    BY DEF TypeOK, VoterRows, Holds
  <1> QED BY <1>1 DEF Onward, Past

LEMMA MovedKept ==
    ASSUME TypeOK, TypeOK', Onward, NEW st, NEW d \in Devices, Holds(st), Moved(st, d)
    PROVE  \/ st.target.version < target'.version
           \/ st.authority.version < authority'.version
           \/ \E v \in st.target.voters \cup st.authority.voters :
                 st.member[v] = "active" /\ member'[v] = "revoked"
           \/ member'[d] = "revoked"
  <1>1. /\ target.version \in Nat /\ authority.version \in Nat
        /\ target'.version \in Nat /\ authority'.version \in Nat
        /\ st.target.version \in Nat /\ st.authority.version \in Nat
    BY DEF TypeOK, VoterRows, Holds
  <1>2. st.target.voters \cup st.authority.voters \subseteq Devices
    BY DEF Holds, VoterRows, VoterSets
  <1> QED BY <1>1, <1>2 DEF Onward, Moved

(* The planner activates only what is not activated.                       *)
LEMMA PlanActivates ==
    ASSUME NEW st, NEW conf, NEW d, NEW ready, NEW eligible,
           Plan(st, conf, d, ready, eligible).action = "activate"
    PROVE  ~Activated(st)
  BY DEF Plan, Step

(* A reconciler that did not move.                                         *)
LEMMA ProcStays ==
    ASSUME IInv, IInv', Onward, Epoch, NEW d \in Devices, ProcSound(d),
           proc'[d] = proc[d]
    PROVE  ProcSound(d)'
  <1> DEFINE st == proc[d].seen
  <1>0. /\ TypeOK /\ TypeOK' /\ term \in Nat /\ term' \in Nat /\ term <= term'
    BY DEF IInv, TypeOK, Epoch
  <1>1. ASSUME Running(d)
        PROVE  /\ Holds(st) /\ Past(st)' /\ proc'[d].term \in Nat /\ proc'[d].term <= term'
    <2>1. Holds(st) /\ Past(st) /\ proc[d].term \in Nat /\ proc[d].term <= term
      BY <1>1 DEF ProcSound
    <2>2. Past(proc[d].seen)'
      BY <1>0, <2>1, PastKept DEF Past
    <2> QED BY <1>0, <2>1, <2>2
  <1>2. Running(d)' <=> Running(d)
    BY DEF Running
  <1>3. CutSound(d)'
    <2>1. SUFFICES ASSUME proc[d].pc = "cut", leader' = d, term' = proc[d].term, Activated(st)
                   PROVE  \A v \in st.target.voters : config'[v] = "voter"
      BY DEF CutSound, Leading, Activated
    <2>2. proc[d].term \in Nat /\ proc[d].term <= term
      BY <2>1 DEF ProcSound, Running
    <2>3. term' # term + 1
      BY <1>0, <2>1, <2>2
    <2>4. d # None
      BY ReconciliationAssumption DEF ReconciliationAssumption, None
    <2>5. leader = d /\ term = proc[d].term
      BY <2>1, <2>3, <2>4 DEF Epoch
    <2>6. config' = config
      BY <2>1, <2>5 DEF Epoch
    <2> QED BY <2>1, <2>5, <2>6 DEF ProcSound, CutSound, Leading
  <1>4. PlanSound(d)'
    BY DEF ProcSound, PlanSound, Activated
  <1>5. WaitSound(d)'
    <2>1. SUFFICES ASSUME proc[d].pc = "waiting", WaitSound(d) PROVE WaitSound(d)'
      BY DEF ProcSound, WaitSound
    <2>2. Holds(st)
      BY <1>1, <2>1 DEF Running
    <2>3. proc[d].result = "rejected" => Moved(proc[d].seen, d)'
      BY <1>0, <2>1, <2>2, MovedKept DEF WaitSound, Moved
    <2> QED BY <2>1, <2>3 DEF WaitSound, Signs
  <1> QED BY <1>1, <1>2, <1>3, <1>4, <1>5 DEF ProcSound

(* An attempt that is over claims nothing.                                 *)
LEMMA ProcEnds ==
    ASSUME NEW d \in Devices, proc'[d].pc \in {"idle", "loop"}
    PROVE  ProcSound(d)'
  BY DEF ProcSound, Running, CutSound, PlanSound, WaitSound

LEMMA ProcReads ==
    ASSUME IInv, CommittedHolds, NEW d \in Devices, ReadState(d)
    PROVE  ProcSound(d)'
  <1>1. /\ proc'[d].pc = "cut" /\ proc'[d].term = term /\ proc'[d].seen = Committed
        /\ UNCHANGED <<member, target, authority, config, leader, term>>
    BY DEF ReadState, Becomes, Proc, IInv, TypeOK
  <1>2. Holds(Committed) /\ term \in Nat /\ target.version \in Nat /\ authority.version \in Nat
    BY DEF CommittedHolds, IInv, TypeOK, VoterRows
  <1>3. Past(Committed)'
    BY <1>1, <1>2 DEF Past, Committed
  <1>4. Holds(proc'[d].seen) /\ Past(proc[d].seen)'
    BY <1>1, <1>2, <1>3 DEF Past, Committed
  <1>5. CutSound(d)'
    BY <1>1 DEF CutSound, Activated, Committed, IInv, AuthorityBehind,
                AuthorityKeepsVoting, Voters
  <1>6. PlanSound(d)' /\ WaitSound(d)'
    BY <1>1 DEF PlanSound, WaitSound
  <1> QED BY <1>1, <1>2, <1>4, <1>5, <1>6 DEF ProcSound

LEMMA ProcPlans ==
    ASSUME IInv, NEW d \in Devices, ProcSound(d), CutPlans(d)
    PROVE  ProcSound(d)'
  <1>1. /\ proc[d].pc = "cut"
        /\ proc'[d].pc = "planned" /\ proc'[d].term = term /\ proc'[d].seen = proc[d].seen
        /\ proc'[d].plan = CutPlan(d)
        /\ UNCHANGED <<member, target, authority, config, leader, term>>
    BY DEF CutPlans, Becomes, Proc, IInv, TypeOK
  <1>2. Holds(proc[d].seen) /\ Past(proc[d].seen) /\ term \in Nat
    BY <1>1 DEF ProcSound, Running, IInv, TypeOK
  <1>3. Past(proc[d].seen)'
    BY <1>1, <1>2 DEF Past
  <1>4. CutPlan(d).action = "activate" => ~Activated(proc[d].seen)
    BY PlanActivates DEF CutPlan
  <1>5. CutSound(d)' /\ PlanSound(d)' /\ WaitSound(d)'
    BY <1>1, <1>4 DEF CutSound, PlanSound, WaitSound
  <1> QED BY <1>1, <1>2, <1>3, <1>5 DEF ProcSound

LEMMA ProcReserves ==
    ASSUME IInv, NEW d \in Devices, NEW s \in Devices, NEW c \in Devices,
           ProcSound(d), ActivateAuthority(d, s, c)
    PROVE  ProcSound(d)'
  <1> DEFINE st == proc[d].seen
  <1>1. /\ proc[d].pc = "planned" /\ proc[d].plan.action = "activate"
        /\ SameCut(st, proc[d].index)
        /\ s \in HandOverSigners /\ c \in HandOverSigners
        /\ proc'[d].pc = "waiting" /\ proc'[d].term = term /\ proc'[d].seen = st
        /\ proc'[d].plan = proc[d].plan /\ proc'[d].result = "none"
        /\ proc'[d].payload = Payload(Committed, s, c)
        /\ UNCHANGED <<member, target, authority, config, leader, term>>
    BY DEF ActivateAuthority, Becomes, Proc, Planned, IInv, TypeOK
  <1>2. Holds(st) /\ Past(st) /\ term \in Nat /\ ~Activated(st)
    BY <1>1 DEF ProcSound, Running, PlanSound, IInv, TypeOK
  <1>3. Past(proc[d].seen)'
    BY <1>1, <1>2 DEF Past
  <1>4. Signs(st, s) /\ Signs(st, c)
    BY <1>1 DEF Signs, SameCut, HandOverSigners
  <1>5. /\ proc'[d].payload.target = st.target.version
        /\ proc'[d].payload.authority = st.authority.version
        /\ proc'[d].payload.signer = s /\ proc'[d].payload.checkpointSigner = c
    BY <1>1 DEF Payload, Committed, SameCut
  <1>6. WaitSound(d)'
    BY <1>1, <1>4, <1>5 DEF WaitSound, Signs
  <1>7. CutSound(d)' /\ PlanSound(d)'
    BY <1>1, <1>2 DEF CutSound, PlanSound, Activated
  <1> QED BY <1>1, <1>2, <1>3, <1>6, <1>7 DEF ProcSound

(* A proposal made from what was read and rejected means the rows moved.   *)
LEMMA RejectedMoved ==
    ASSUME IInv, CommittedHolds, NEW d \in Devices, ProcSound(d),
           proc[d].pc = "waiting", ~ActivationAccepted(d, proc[d].payload)
    PROVE  Moved(proc[d].seen, d)
  <1> DEFINE st == proc[d].seen
             p == proc[d].payload
  <1>1. /\ Holds(st) /\ Past(st) /\ ~Activated(st)
        /\ p.target = st.target.version /\ p.authority = st.authority.version
        /\ Signs(st, p.signer) /\ Signs(st, p.checkpointSigner)
    BY DEF ProcSound, Running, PlanSound, WaitSound
  <1>2. /\ target.version \in Nat /\ authority.version \in Nat
        /\ st.target.version \in Nat /\ st.authority.version \in Nat
        /\ \A v \in Devices : member[v] \in {"active", "revoked"}
        /\ st.authority.voters \subseteq Devices
        /\ \A v \in target.voters : member[v] = "active"
    BY <1>1 DEF IInv, TypeOK, Holds, VoterRows, VoterSets, CommittedHolds, Committed
  <1> HIDE DEF st, p
  <1>3. SUFFICES ASSUME st.target.version = target.version,
                        st.authority.version = authority.version,
                        member[d] = "active"
                 PROVE  Moved(st, d)
    BY <1>1, <1>2 DEF Past, Moved, st
  <1>4. st.authority = authority
    BY <1>1, <1>3 DEF Past
  <1>5. p.target # p.authority
    BY <1>1 DEF Activated
  <1>6. p.signer \in authority.voters /\ p.checkpointSigner \in authority.voters
    BY <1>1, <1>4 DEF Signs
  <1>7. member[p.signer] # "active" \/ member[p.checkpointSigner] # "active"
    BY <1>1, <1>2, <1>3, <1>5, <1>6 DEF ActivationAccepted, p
  <1>8. PICK v \in st.authority.voters : st.member[v] = "active" /\ member[v] # "active"
    BY <1>1, <1>7 DEF Signs
  <1> QED BY <1>2, <1>8 DEF Moved

LEMMA ProcAnswered ==
    ASSUME IInv, IInv', CommittedHolds, Onward, NEW d \in Devices, NEW p \in outbox[d],
           ProcSound(d), CommitActivation(d, p),
           proc[d].pc = "waiting", proc[d].payload = p
    PROVE  ProcSound(d)'
  <1> DEFINE st == proc[d].seen
             q == proc[d]
  <1>1. /\ proc' = [proc EXCEPT ![d] = Proc("waiting", q.term, q.seen, q.index, q.plan,
                       q.evidence, p,
                       IF ActivationAccepted(d, p) THEN "accepted" ELSE "rejected")]
        /\ UNCHANGED <<member, target, leader, term>>
        /\ ActivationAccepted(d, p) \/ authority' = authority
    BY DEF CommitActivation, Becomes
  <1>2. /\ proc'[d].pc = "waiting" /\ proc'[d].term = proc[d].term
        /\ proc'[d].seen = st /\ proc'[d].plan = proc[d].plan
        /\ proc'[d].payload = proc[d].payload
        /\ proc'[d].result = "rejected" => ~ActivationAccepted(d, p)
    BY <1>1 DEF Proc, IInv, TypeOK
  <1>3. /\ Holds(st) /\ Past(st) /\ ~Activated(st)
        /\ proc[d].term \in Nat /\ proc[d].term <= term
    BY DEF ProcSound, Running, PlanSound, WaitSound
  <1>4. Past(proc[d].seen)'
    <2>1. TypeOK /\ TypeOK' BY DEF IInv
    <2> QED BY <1>2, <1>3, <2>1, PastKept DEF Past
  <1>5. proc'[d].result = "rejected" => Moved(proc[d].seen, d)'
    <2>1. SUFFICES ASSUME ~ActivationAccepted(d, p) PROVE Moved(proc[d].seen, d)'
      BY <1>2
    <2>2. Moved(st, d) BY <2>1, RejectedMoved
    <2> QED BY <1>1, <1>2, <2>1, <2>2 DEF Moved
  <1>6. WaitSound(d)'
    BY <1>2, <1>5 DEF ProcSound, WaitSound, Signs
  <1>7. CutSound(d)' /\ PlanSound(d)'
    BY <1>2, <1>3 DEF CutSound, PlanSound, Activated
  <1> QED BY <1>1, <1>2, <1>3, <1>4, <1>6, <1>7 DEF ProcSound

(* What one step does to one reconciler.                                   *)
LEMMA ProcMoves ==
    ASSUME TypeOK, [Next]_vars, NEW d \in Devices
    PROVE  \/ proc'[d] = proc[d] \/ proc'[d].pc \in {"idle", "loop"}
           \/ ReadState(d) \/ CutPlans(d)
           \/ \E s, c \in Devices : ActivateAuthority(d, s, c)
           \/ \E p \in outbox[d] : /\ CommitActivation(d, p)
                                   /\ proc[d].pc = "waiting" /\ proc[d].payload = p
  <1> DEFINE Good == \/ proc'[d] = proc[d] \/ proc'[d].pc \in {"idle", "loop"}
                     \/ ReadState(d) \/ CutPlans(d)
                     \/ \E s, c \in Devices : ActivateAuthority(d, s, c)
                     \/ \E p \in outbox[d] : /\ CommitActivation(d, p)
                                             /\ proc[d].pc = "waiting" /\ proc[d].payload = p
  <1>1. DOMAIN proc = Devices BY DEF TypeOK
  <1>2. ASSUME NEW e \in Devices, NEW r, proc' = [proc EXCEPT ![e] = r],
               r.pc \in {"idle", "loop"}
        PROVE  proc'[d] = proc[d] \/ proc'[d].pc \in {"idle", "loop"}
    BY <1>1, <1>2
  <1>3. Idle.pc = "idle" /\ \A ev : Looping(ev).pc = "loop"
    BY DEF Idle, Looping, Proc
  <1>4. ASSUME NEW e \in Devices, ReadState(e) PROVE Good
    BY <1>1, <1>4 DEF ReadState, Becomes
  <1>5. ASSUME NEW e \in Devices, CutPlans(e) PROVE Good
    BY <1>1, <1>5 DEF CutPlans, Becomes
  <1>6. ASSUME NEW e \in Devices, NEW s \in Devices, NEW c \in Devices,
               ActivateAuthority(e, s, c)
        PROVE  Good
    BY <1>1, <1>6 DEF ActivateAuthority, Becomes
  <1>7. ASSUME NEW e \in Devices, NEW p \in outbox[e], CommitActivation(e, p) PROVE Good
    BY <1>1, <1>7 DEF CommitActivation, Becomes
  <1>8. ASSUME NEW e \in Devices, CutHalts(e) PROVE Good
    BY <1>2, <1>3, <1>8 DEF CutHalts, Halts, Becomes
  <1>9. ASSUME NEW e \in Devices, CutReturns(e) PROVE Good
    BY <1>2, <1>3, <1>9 DEF CutReturns, Becomes
  <1>10. ASSUME NEW e \in Devices, ProveNonvoter(e) PROVE Good
    BY <1>2, <1>3, <1>10 DEF ProveNonvoter, Becomes
  <1>11. ASSUME NEW e \in Devices, ChangeConfiguration(e) PROVE Good
    BY <1>2, <1>3, <1>11 DEF ChangeConfiguration, Becomes
  <1>12. ASSUME NEW e \in Devices, TransferLeadership(e) PROVE Good
    BY <1>2, <1>3, <1>12 DEF TransferLeadership, Becomes
  <1>13. ASSUME NEW e \in Devices, PlanChanged(e) PROVE Good
    BY <1>2, <1>3, <1>13 DEF PlanChanged, Becomes
  <1>14. ASSUME NEW e \in Devices, AttemptReturns(e) PROVE Good
    BY <1>2, <1>3, <1>14 DEF AttemptReturns, Becomes
  <1>15. ASSUME NEW e \in Devices, ActivationOutcome(e) PROVE Good
    <2>1. \/ proc' = [proc EXCEPT ![e] = Idle]
          \/ proc' = [proc EXCEPT ![e] = Looping(proc[e].evidence)]
      BY <1>15 DEF ActivationOutcome, Halts, Becomes
    <2> QED BY <1>2, <1>3, <2>1
  <1>16. ASSUME NEW e \in Devices, Restarted(e) \/ AttemptFails(e) PROVE Good
    BY <1>2, <1>3, <1>16 DEF Restarted, AttemptFails, Becomes
  <1>17. ASSUME NEW e \in Devices,
                \/ Elected(e) \/ Deposed(e) \/ BecomesUnreachable(e)
                \/ BecomesReachable(e) \/ \E V \in VoterSets : DeviceRevoked(e, V)
         PROVE  Good
    BY <1>17 DEF Elected, Deposed, Leads, BecomesUnreachable, BecomesReachable,
                 DeviceRevoked
  <1>18. ASSUME NEW V \in VoterSets, VoterSetChanged(V) PROVE Good
    BY <1>18 DEF VoterSetChanged
  <1>19. ASSUME UNCHANGED vars PROVE Good BY <1>19 DEF vars
  <1> HIDE DEF Good
  <1>20. ASSUME NEW e \in Devices, Reconciles(e) PROVE Good
    BY <1>20, <1>4, <1>5, <1>6, <1>8, <1>9, <1>10, <1>11, <1>12, <1>13, <1>14, <1>15
       DEF Reconciles
  <1>21. ASSUME NEW e \in Devices, Commits(e) \/ Environment(e) PROVE Good
    BY <1>21, <1>7, <1>16, <1>17 DEF Commits, Environment
  <1>22. Good BY <1>18, <1>19, <1>20, <1>21 DEF Next
  <1> QED BY <1>22 DEF Good

LEMMA HInvInit == Init => HInv
  <1> SUFFICES ASSUME Init PROVE HInv OBVIOUS
  <1>1. IInv BY InitHolds
  <1>2. CommittedHolds
    BY <1>1, ReconciliationAssumption
       DEF CommittedHolds, Holds, Committed, IInv, TypeOK, AuthorityBehind, Init,
           VoterRow, ReconciliationAssumption
  <1>3. LeaderVotes
    BY ReconciliationAssumption DEF LeaderVotes, Init, ReconciliationAssumption
  <1>4. \A d \in Devices : ProcSound(d)
    <2>1. \A d \in Devices : proc[d].pc = "idle"
      BY DEF Init, Idle, Proc
    <2> QED BY <2>1 DEF ProcSound, Running, CutSound, PlanSound, WaitSound
  <1> QED BY <1>1, <1>2, <1>3, <1>4 DEF HInv

LEMMA HInvNext == HInv /\ [Next]_vars => HInv'
  <1> SUFFICES ASSUME HInv, [Next]_vars PROVE HInv' OBVIOUS
  <1>1. IInv /\ CommittedHolds /\ LeaderVotes /\ TypeOK BY DEF HInv, IInv
  <1>2. IInv' /\ CommittedHolds' /\ Onward /\ Epoch
    BY <1>1, NextHolds, CommittedStep, GoesOnward, StepEpoch
  <1>3. LeaderVotes' BY <1>1, <1>2, LeaderStep
  <1>4. ASSUME NEW d \in Devices PROVE ProcSound(d)'
    <2>1. ProcSound(d) BY DEF HInv
    <2>2. CASE proc'[d] = proc[d] BY <1>1, <1>2, <2>1, <2>2, ProcStays
    <2>3. CASE proc'[d].pc \in {"idle", "loop"} BY <2>3, ProcEnds
    <2>4. CASE ReadState(d) BY <1>1, <2>4, ProcReads
    <2>5. CASE CutPlans(d) BY <1>1, <2>1, <2>5, ProcPlans
    <2>6. CASE \E s, c \in Devices : ActivateAuthority(d, s, c)
      BY <1>1, <2>1, <2>6, ProcReserves
    <2>7. CASE \E p \in outbox[d] : /\ CommitActivation(d, p)
                                    /\ proc[d].pc = "waiting" /\ proc[d].payload = p
      BY <1>1, <1>2, <2>1, <2>7, ProcAnswered
    <2> QED BY <1>1, <2>2, <2>3, <2>4, <2>5, <2>6, <2>7, ProcMoves
  <1> QED BY <1>2, <1>3, <1>4 DEF HInv

(* The input a leader plans on within its epoch is valid, so the plan does *)
(* not halt it (validateVoterReconciliationInput).                         *)
LEMMA InputValid ==
    ASSUME HInv, NEW d \in Devices, proc[d].pc = "cut", Leading(d), member[d] = "active",
           NEW ready, d \in ready, NEW ev
    PROVE  ValidInput(proc[d].seen, config, d, ready,
                      Eligible(proc[d].seen, config, index, ev))
  <1> DEFINE st == proc[d].seen
             eligible == Eligible(st, config, index, ev)
  <1>1. /\ Holds(st) /\ Past(st)
        /\ Activated(st) => \A v \in st.target.voters : config[v] = "voter"
    BY DEF HInv, ProcSound, Running, CutSound
  <1>2. st.member[d] = "active"
    BY <1>1 DEF Holds, Past
  <1>3. config[d] = "voter"
    BY ReconciliationAssumption
       DEF ReconciliationAssumption, None, Leading, HInv, LeaderVotes
  <1>4. \A v \in eligible : v \in st.target.voters /\ config[v] # "none"
    BY DEF Eligible
  <1> QED BY <1>1, <1>2, <1>3, <1>4 DEF ValidInput, Holds, Activated

(* A daemon that leads in the epoch of its cut and has not been revoked is *)
(* never halted (voterReconciliationCut, waitForVoterActivation).          *)
THEOREM HealthyLeaders == Spec => HealthyLeadersRun
  <1> DEFINE Spared(d) == leader # d \/ term # proc[d].term \/ member[d] = "revoked"
  <1>1. ASSUME HInv, [Next]_vars
        PROVE  [\A d \in halted' \ halted : Spared(d)]_vars
    <2>1. ASSUME UNCHANGED halted PROVE \A d \in halted' \ halted : Spared(d)
      BY <2>1
    <2>2. ASSUME NEW d \in Devices, CutHalts(d)
          PROVE  \A e \in halted' \ halted : Spared(e)
      <3>1. halted' = halted \cup {d} /\ proc[d].pc = "cut"
        BY <2>2 DEF CutHalts, Halts
      <3>2. SUFFICES ASSUME ~Spared(d) PROVE FALSE BY <3>1
      <3>3. Leading(d) /\ member[d] = "active"
        BY <1>1, <3>2 DEF Leading, HInv, IInv, TypeOK
      <3>4. Past(proc[d].seen) /\ Holds(proc[d].seen) /\ config[d] = "voter"
        BY <1>1, <3>1, <3>3, ReconciliationAssumption
           DEF HInv, ProcSound, Running, Leading, LeaderVotes, None, ReconciliationAssumption
      <3>5. proc[d].seen.member[d] = "active"
        BY <3>3, <3>4 DEF Holds, Past
      <3>6. d \in ActiveConfigured(proc[d].seen, config)
        BY <3>4, <3>5 DEF ActiveConfigured
      <3>7. StaticallyValid(d)
        BY <1>1, <3>1, <3>3, <3>6, InputValid DEF StaticallyValid, StaticEligible
      <3>8. CutHolds(d) => d \in CutReady(d)
        BY <3>5 DEF CutHolds
      <3>9. CutHolds(d) => ValidInput(proc[d].seen, config, d, CutReady(d), CutEligible(d))
        BY <1>1, <3>1, <3>3, <3>8, InputValid DEF CutEligible
      <3> QED BY <2>2, <3>7, <3>9 DEF CutHalts
    <2>3. ASSUME NEW d \in Devices, ActivationOutcome(d)
          PROVE  \A e \in halted' \ halted : Spared(e)
      <3>1. CASE proc[d].result = "rejected" /\ SameCut(proc[d].seen, proc[d].index)
        <4>1. halted' = halted \cup {d} /\ proc[d].pc = "waiting"
          BY <2>3, <3>1 DEF ActivationOutcome, Halts
        <4>2. Moved(proc[d].seen, d)
          BY <1>1, <3>1, <4>1 DEF HInv, ProcSound, WaitSound
        <4>3. target.version \in Nat /\ authority.version \in Nat
          BY <1>1 DEF HInv, IInv, TypeOK, VoterRows
        <4>4. member[d] = "revoked"
          BY <3>1, <4>2, <4>3 DEF Moved, SameCut
        <4> QED BY <4>1, <4>4
      <3>2. CASE ~(proc[d].result = "rejected" /\ SameCut(proc[d].seen, proc[d].index))
        BY <2>1, <2>3, <3>2 DEF ActivationOutcome
      <3> QED BY <3>1, <3>2
    <2>4. ASSUME NEW d \in Devices, Reconciles(d), ~CutHalts(d), ~ActivationOutcome(d)
          PROVE  UNCHANGED halted
      BY <2>4 DEF Reconciles, ReadState, CutReturns, CutPlans, ProveNonvoter,
                  ChangeConfiguration, TransferLeadership, ActivateAuthority,
                  PlanChanged, AttemptReturns
    <2>5. ASSUME NEW d \in Devices, Commits(d) \/ Environment(d)
          PROVE  halted' \subseteq halted
      BY <2>5 DEF Commits, CommitActivation, Environment, DeviceRevoked, Elected,
                  Deposed, Leads, BecomesUnreachable, BecomesReachable, Restarted,
                  AttemptFails
    <2>6. ASSUME NEW V \in VoterSets, VoterSetChanged(V) PROVE UNCHANGED halted
      BY <2>6 DEF VoterSetChanged
    <2>7. CASE UNCHANGED vars BY <2>7
    <2> HIDE DEF Spared
    <2> QED BY <1>1, <2>1, <2>2, <2>3, <2>4, <2>5, <2>6, <2>7 DEF Next
  <1>2. Spec => []HInv BY HInvInit, HInvNext, PTL DEF Spec
  <1> QED BY <1>1, <1>2, PTL DEF Spec, HealthyLeadersRun

-----------------------------------------------------------------------------
(* The publisher *)

EndpointSets == [seq : Nat, issued : Int, expires : Int, endpoints : SUBSET Endpoints, epoch : Nat]

PublisherTypeOK ==
    /\ sequence \in Nat /\ withdrawals \in Nat
    /\ current \in EndpointSets /\ published \subseteq EndpointSets
    /\ refresh \in [Refreshes -> [stage : {"idle", "begun", "signed"}, epoch : Nat, set : EndpointSets]]

\* A set that was given its sequence.
Sequenced(s) == s.seq # 0 /\ s.seq <= sequence /\ s.endpoints \in ListenerSets

\* The one refresh that has the token holds the newest sequence.
TokenHeld ==
    \A c \in Refreshes : refresh[c].stage = "signed" =>
        LET s == refresh[c].set IN
        /\ Sequenced(s) /\ s.epoch = refresh[c].epoch
        /\ \A t \in published : t.seq < s.seq
        /\ \A d \in Refreshes : refresh[d].stage = "signed" => d = c

PublisherInv ==
    /\ PublisherTypeOK /\ TokenHeld
    /\ \A s \in published : Sequenced(s)
    /\ PublicationsOrdered

LEMMA NoSetType == NoSet \in EndpointSets
  BY DEF NoSet, EndpointSets

LEMMA PublisherInitSound == EndpointInit => PublisherInv
  BY NoSetType DEF EndpointInit, PublisherInv, PublisherTypeOK, TokenHeld, Sequenced,
     PublicationsOrdered, NoRefresh

LEMMA RefreshBegins ==
    ASSUME PublisherInv, NEW c \in Refreshes, BeginRefresh(c)
    PROVE  PublisherInv'
  <1>1. PublisherTypeOK'
    BY NoSetType DEF PublisherInv, PublisherTypeOK, BeginRefresh
  <1>2. \A d \in Refreshes : refresh'[d].stage = "signed" => refresh'[d] = refresh[d] /\ refresh[d].stage = "signed"
    BY DEF PublisherInv, PublisherTypeOK, BeginRefresh
  <1>3. TokenHeld'
    BY <1>2 DEF PublisherInv, TokenHeld, Sequenced, BeginRefresh
  <1> QED BY <1>1, <1>3 DEF PublisherInv, PublicationsOrdered, Sequenced, BeginRefresh

LEMMA SequenceAllocated ==
    ASSUME PublisherInv, NEW c \in Refreshes, NEW at \in 0 .. MaxClock,
           NEW E \in ListenerSets, NEW ttl \in HintTTLs, AllocateSequence(c, at, E, ttl)
    PROVE  PublisherInv'
  <1> DEFINE n == NextOwnSequence(at)
             s == [seq |-> n, issued |-> at, expires |-> at + ttl, endpoints |-> E,
                   epoch |-> refresh[c].epoch]
  <1>1. at \in Nat /\ ttl \in Nat /\ E \in SUBSET Endpoints
    BY EndpointAssumption DEF EndpointAssumption
  <1>2. n \in Nat /\ n > sequence /\ n # 0
    BY <1>1 DEF NextOwnSequence, PublisherInv, PublisherTypeOK
  <1>3. /\ sequence' = n
        /\ refresh' = [refresh EXCEPT ![c].stage = "signed", ![c].set = s]
        /\ UNCHANGED <<current, withdrawals, published>>
    BY DEF AllocateSequence
  <1>4. s \in EndpointSets
    BY <1>1, <1>2 DEF EndpointSets, PublisherInv, PublisherTypeOK
  <1> HIDE DEF n
  <1>5. PublisherTypeOK'
    BY <1>2, <1>3, <1>4 DEF PublisherInv, PublisherTypeOK
  <1>6. \A d \in Refreshes : refresh'[d].stage = "signed" => d = c
    BY <1>3 DEF PublisherInv, PublisherTypeOK, AllocateSequence, TokenFree
  <1>7. \A t \in published : t.seq \in Nat /\ t.seq <= sequence /\ Sequenced(t)'
    <2>1. \A t \in published : t.seq \in Nat
      BY DEF PublisherInv, PublisherTypeOK, EndpointSets
    <2> QED BY <2>1, <1>2, <1>3 DEF PublisherInv, PublisherTypeOK, Sequenced
  <1>8. refresh'[c].set = s /\ refresh'[c].epoch = refresh[c].epoch
    BY <1>3 DEF PublisherInv, PublisherTypeOK
  <1>9. TokenHeld'
    <2>1. s.seq # 0 /\ s.seq <= sequence' /\ s.endpoints \in ListenerSets /\ s.epoch = refresh[c].epoch
      BY <1>2, <1>3
    <2>2. \A t \in published' : t.seq < s.seq
      BY <1>2, <1>3, <1>7 DEF PublisherInv, PublisherTypeOK
    <2> HIDE DEF s
    <2> QED BY <1>6, <1>8, <2>1, <2>2 DEF TokenHeld, Sequenced
  <1> QED BY <1>3, <1>5, <1>7, <1>9 DEF PublisherInv, PublicationsOrdered

LEMMA RefreshEnds ==
    ASSUME PublisherInv, NEW c \in Refreshes, PublishSet(c) \/ RefreshFailed(c)
    PROVE  PublisherInv'
  <1> DEFINE s == refresh[c].set
  <1>1. refresh' = [refresh EXCEPT ![c] = NoRefresh] /\ UNCHANGED <<sequence, withdrawals>>
    BY DEF PublishSet, RefreshFailed
  <1>2. \/ UNCHANGED <<current, published>>
        \/ /\ refresh[c].stage = "signed" /\ refresh[c].epoch = withdrawals
           /\ current' = s /\ published' = published \cup {s}
    BY DEF PublishSet, RefreshFailed
  <1>3. PublisherTypeOK'
    BY <1>1, <1>2, NoSetType DEF PublisherInv, PublisherTypeOK, NoRefresh
  <1>4. \A d \in Refreshes : refresh'[d].stage = "signed" =>
            d # c /\ refresh'[d] = refresh[d] /\ refresh[d].stage = "signed"
    BY <1>1 DEF PublisherInv, PublisherTypeOK, NoRefresh
  <1>5. TokenHeld'
    BY <1>1, <1>2, <1>4 DEF PublisherInv, TokenHeld, Sequenced
  <1>6. CASE UNCHANGED <<current, published>>
    BY <1>1, <1>3, <1>5, <1>6 DEF PublisherInv, PublicationsOrdered, Sequenced
  <1>7. ASSUME refresh[c].stage = "signed", refresh[c].epoch = withdrawals,
               current' = s, published' = published \cup {s}
        PROVE  PublisherInv'
    <2>1. Sequenced(s) /\ s.epoch = withdrawals /\ \A t \in published : t.seq < s.seq
      BY <1>7 DEF PublisherInv, TokenHeld
    <2>2. \A t \in published \cup {s} : t.seq \in Nat
      BY <1>3, <1>7 DEF PublisherTypeOK, EndpointSets
    <2>3. \A t \in published' : Sequenced(t)'
      BY <1>1, <1>7, <2>1 DEF PublisherInv, Sequenced
    <2> HIDE DEF s
    <2>4. PublicationsOrdered'
      BY <1>1, <1>7, <2>1, <2>2 DEF PublisherInv, PublicationsOrdered
    <2> QED BY <1>3, <1>5, <2>3, <2>4 DEF PublisherInv
  <1> QED BY <1>2, <1>6, <1>7

LEMMA PublisherStep ==
    ASSUME PublisherInv, [EndpointNext]_endpointVars
    PROVE  PublisherInv'
  <1>1. ASSUME UNCHANGED publisherVars PROVE PublisherInv'
    BY <1>1 DEF PublisherInv, PublisherTypeOK, TokenHeld, Sequenced, PublicationsOrdered, publisherVars
  <1>2. ASSUME Withdraw PROVE PublisherInv'
    BY <1>2, NoSetType DEF PublisherInv, PublisherTypeOK, TokenHeld, Sequenced, PublicationsOrdered, Withdraw
  <1>3. ASSUME PublisherRestarts PROVE PublisherInv'
    BY <1>3, NoSetType DEF PublisherInv, PublisherTypeOK, TokenHeld, Sequenced,
       PublicationsOrdered, PublisherRestarts, NoRefresh
  <1>4. CASE PublisherNext
    BY <1>2, <1>3, <1>4, RefreshBegins, SequenceAllocated, RefreshEnds DEF PublisherNext
  <1>5. CASE StoreNext \/ RuntimeNext \/ EnvironmentNext \/ UNCHANGED endpointVars
    BY <1>1, <1>5 DEF StoreNext, RuntimeNext, EnvironmentNext, endpointVars
  <1> QED BY <1>4, <1>5 DEF EndpointNext
-----------------------------------------------------------------------------
(* The store *)

EndpointRows == [device : Members, kind : {"signed", "guess", "raw", "manual"}, endpoint : Endpoints,
                 set : EndpointSets, observed : Nat, expires : Nat]

\* A row of a set is the source's and lasts as long as the set; no row outlasts
\* what its kind allows from the latest moment of the clock.
RowSound(r, A, L) ==
    /\ r.kind = "signed" => /\ r.device = Source /\ r.expires = r.observed + GuessTTL
                            /\ r.set # NoSet => r.set \in A /\ r.set.expires <= r.expires
    /\ r.kind # "signed" => r.set = NoSet
    /\ r.kind # "manual" => /\ r.observed <= L
                            /\ r.expires <= L + (IF r.kind = "raw" THEN RawTTL ELSE GuessTTL)

SignedRows(R) == {r \in R : r.kind = "signed"}
LearnedRows(R) == {r \in R : Learned(r)}
ManualOf(R, m) == Of(R, m) \ LearnedOf(R, m)

RowsTyped(R, A, L) == R \subseteq EndpointRows /\ IsFiniteSet(R) /\ \A r \in R : RowSound(r, A, L)
Grouped(R) ==
    \A r \in SignedRows(R) : r.set # NoSet =>
        /\ \A q \in SignedRows(R) : q.set = r.set /\ q.observed = r.observed
        /\ {q.endpoint : q \in SignedRows(R)} = r.set.endpoints
ManualCapped(R) == \A m \in Members : Cardinality(ManualOf(R, m)) <= ManualCap
LearnedCapped(R) ==
    /\ \A m \in Members : Cardinality(LearnedOf(R, m)) <= MemberCap
    /\ Cardinality(LearnedRows(R)) <= SessionCap
TableSound(R, A, L) == RowsTyped(R, A, L) /\ Grouped(R) /\ ManualCapped(R) /\ LearnedCapped(R)

\* The set that stands for s in R.
Covered(s, R) == \E r \in SignedRows(R) : r.set # NoSet /\ s.seq <= r.set.seq
MarkKept(R, A, L) ==
    \A s \in A : s.expires > L =>
        Covered(s, R) \/ \E t \in A : s.seq < t.seq /\ t.expires <= L

ClockInv ==
    /\ clock \in Nat /\ latest \in Nat /\ backs \in Nat /\ clock <= latest
    /\ backs = 0 => clock = latest
    /\ activeMembers \subseteq Members /\ hintTTL \in HintTTLs

TableInv ==
    /\ ClockInv /\ accepted \subseteq published
    /\ TableSound(rows, accepted, latest)
    /\ Source \in activeMembers => MarkKept(rows, accepted, latest)

LEMMA FunctionImage ==
    ASSUME NEW S, IsFiniteSet(S), NEW f, DOMAIN f = S, f \in [S -> {f[x] : x \in S}]
    PROVE  IsFiniteSet({f[x] : x \in S}) /\ Cardinality({f[x] : x \in S}) <= Cardinality(S)
  <1>1. f \in Surjection(S, {f[x] : x \in S})
    BY DEF Surjection, Range
  <1> QED BY <1>1, FS_Surjection

LEMMA SubsetCard ==
    ASSUME NEW S, IsFiniteSet(S), NEW T \in SUBSET S
    PROVE  /\ IsFiniteSet(T) /\ Cardinality(T) \in Nat /\ Cardinality(S) \in Nat
           /\ Cardinality(T) <= Cardinality(S)
  BY FS_Subset, FS_CardinalityType

LEMMA StaysCapped ==
    ASSUME NEW S, IsFiniteSet(S), NEW T \in SUBSET S, NEW cap \in Nat, Cardinality(S) <= cap
    PROVE  Cardinality(T) <= cap
  BY SubsetCard

\* What is stripped or dropped makes no room scarcer.
LEMMA StrippedCard ==
    ASSUME NEW R, IsFiniteSet(R), NEW now, NEW T \in SUBSET {Stripped(r, now) : r \in R}
    PROVE  IsFiniteSet(T) /\ Cardinality(T) \in Nat /\ Cardinality(T) <= Cardinality(R)
  <1> DEFINE f == [r \in R |-> Stripped(r, now)]
             I == {f[r] : r \in R}
  <1>1. DOMAIN f = R /\ f \in [R -> I]
    OBVIOUS
  <1>2. I = {Stripped(r, now) : r \in R}
    OBVIOUS
  <1> HIDE DEF f
  <1>3. IsFiniteSet(I) /\ Cardinality(I) <= Cardinality(R)
    BY <1>1, FunctionImage
  <1> HIDE DEF I
  <1>4. T \subseteq I
    BY <1>2
  <1> QED BY <1>3, <1>4, SubsetCard, FS_CardinalityType

LEMMA StrippedRow ==
    ASSUME NEW r \in EndpointRows, NEW A, NEW L, NEW now \in Nat
    PROVE  /\ Stripped(r, now) \in EndpointRows
           /\ Stripped(r, now).device = r.device /\ Stripped(r, now).kind = r.kind
           /\ Stripped(r, now).endpoint = r.endpoint /\ Stripped(r, now).observed = r.observed
           /\ Stripped(r, now).expires = r.expires
           /\ Stripped(r, now).set \in {r.set, NoSet}
           /\ Stripped(r, now).set # NoSet => r.set.expires > now
           /\ r.set.expires > now => Stripped(r, now) = r
           /\ RowSound(r, A, L) => RowSound(Stripped(r, now), A, L)
  <1>1. r.set.expires \in Int
    BY DEF EndpointRows, EndpointSets
  <1>2. CASE r.set.expires > now
    BY <1>1, <1>2 DEF Stripped
  <1>3. CASE r.set.expires <= now
    BY <1>1, <1>3, NoSetType DEF Stripped, EndpointRows, RowSound
  <1> QED BY <1>1, <1>2, <1>3

\* expireStalePeerEndpointRows: rows of the same set go, or lose it, together.
LEMMA FreshRows ==
    ASSUME NEW R, NEW A, NEW L, TableSound(R, A, L), NEW now \in Nat
    PROVE  /\ TableSound(Fresh(R, now), A, L)
           /\ \A x \in Fresh(R, now) : \E r \in R : x = Stripped(r, now)
           /\ \A r \in SignedRows(R) : r.set # NoSet /\ r.set.expires > now => r \in Fresh(R, now)
  <1> DEFINE F == Fresh(R, now)
  <1>1. R \subseteq EndpointRows /\ IsFiniteSet(R) /\ \A r \in R : RowSound(r, A, L)
    BY DEF TableSound, RowsTyped
  <1>2. ASSUME NEW x \in F PROVE \E r \in R : x = Stripped(r, now) /\ (r.kind = "manual" \/ r.expires > now)
    BY DEF Fresh
  <1>3. \A r \in R : r.kind = "manual" \/ r.expires > now => Stripped(r, now) \in F
    BY DEF Fresh
  <1> HIDE DEF F
  <1>4. F \subseteq {Stripped(r, now) : r \in R}
    BY <1>2
  <1>5. RowsTyped(F, A, L)
    <2>1. IsFiniteSet(F)
      BY <1>1, <1>4, StrippedCard
    <2>2. \A x \in F : x \in EndpointRows /\ RowSound(x, A, L)
      BY <1>1, <1>2, StrippedRow
    <2> QED BY <2>1, <2>2 DEF RowsTyped
  <1>6. ASSUME NEW r \in SignedRows(R), r.set # NoSet, r.set.expires > now PROVE r \in F /\ r.expires > now
    <2>1. r \in R /\ r \in EndpointRows /\ RowSound(r, A, L) /\ r.kind = "signed"
      BY <1>1 DEF SignedRows
    <2>2. r.expires \in Nat /\ r.set.expires \in Int /\ r.set.expires <= r.expires
      BY <2>1, <1>6 DEF EndpointRows, EndpointSets, RowSound
    <2>3. r.expires > now
      BY <2>2, <1>6
    <2>4. Stripped(r, now) = r
      BY <1>6, <2>1, StrippedRow
    <2> QED BY <1>3, <2>1, <2>3, <2>4
  <1>7. Grouped(F)
    <2>1. SUFFICES ASSUME NEW x \in SignedRows(F), x.set # NoSet
          PROVE  /\ \A q \in SignedRows(F) : q.set = x.set /\ q.observed = x.observed
                 /\ {q.endpoint : q \in SignedRows(F)} = x.set.endpoints
      BY DEF Grouped
    <2>2. PICK r \in R : x = Stripped(r, now)
      BY <1>2 DEF SignedRows
    <2>3. r \in SignedRows(R) /\ r.set # NoSet /\ r.set.expires > now /\ x = r
      <3>1. r \in EndpointRows
        BY <1>1
      <3>2. x.kind = r.kind /\ x.set \in {r.set, NoSet} /\ r.set.expires > now /\ x = r
        BY <2>1, <2>2, <3>1, StrippedRow
      <3> QED BY <2>1, <3>2 DEF SignedRows
    <2>4. /\ \A q \in SignedRows(R) : q.set = r.set /\ q.observed = r.observed
          /\ {q.endpoint : q \in SignedRows(R)} = r.set.endpoints
      BY <2>3 DEF TableSound, Grouped
    <2>5. SignedRows(F) = SignedRows(R)
      <3>1. ASSUME NEW q \in SignedRows(R) PROVE q \in SignedRows(F)
        BY <1>6, <2>3, <2>4 DEF SignedRows
      <3>2. ASSUME NEW y \in SignedRows(F) PROVE y \in SignedRows(R)
        <4>1. PICK q \in R : y = Stripped(q, now)
          BY <1>2 DEF SignedRows
        <4>2. q \in EndpointRows /\ y.kind = q.kind
          BY <1>1, <4>1, StrippedRow
        <4>3. q \in SignedRows(R)
          BY <4>2 DEF SignedRows
        <4>4. q.set.expires > now
          BY <2>3, <2>4, <4>3
        <4> QED BY <4>1, <4>2, <4>3, <4>4, StrippedRow
      <3> QED BY <3>1, <3>2
    <2> QED BY <2>3, <2>4, <2>5
  <1>8. ManualCapped(F)
    <2>1. SUFFICES ASSUME NEW m \in Members PROVE Cardinality(ManualOf(F, m)) <= ManualCap
      BY DEF ManualCapped
    <2>2. ManualOf(F, m) \subseteq {Stripped(r, now) : r \in ManualOf(R, m)}
      <3>1. SUFFICES ASSUME NEW x \in ManualOf(F, m) PROVE \E r \in ManualOf(R, m) : x = Stripped(r, now)
        OBVIOUS
      <3>2. x \in F /\ x.device = m /\ x.kind = "manual"
        BY DEF ManualOf, Of, LearnedOf, Learned
      <3>3. PICK r \in R : x = Stripped(r, now)
        BY <1>2, <3>2
      <3>4. r.device = m /\ r.kind = "manual"
        BY <1>1, <3>2, <3>3, StrippedRow
      <3> QED BY <3>3, <3>4 DEF ManualOf, Of, LearnedOf, Learned
    <2>3. IsFiniteSet(ManualOf(R, m)) /\ Cardinality(ManualOf(R, m)) <= ManualCap
      <3>1. ManualOf(R, m) \subseteq R
        BY DEF ManualOf, Of
      <3> QED BY <1>1, <3>1, FS_Subset DEF TableSound, ManualCapped
    <2>4. Cardinality(ManualOf(F, m)) \in Nat /\ Cardinality(ManualOf(F, m)) <= Cardinality(ManualOf(R, m))
      BY <2>2, <2>3, StrippedCard
    <2>5. Cardinality(ManualOf(R, m)) \in Nat
      BY <2>3, FS_CardinalityType
    <2> QED BY <2>3, <2>4, <2>5, EndpointAssumption DEF EndpointAssumption
  <1>9. LearnedCapped(F)
    <2>1. ASSUME NEW m \in Members PROVE Cardinality(LearnedOf(F, m)) <= MemberCap
      <3>1. LearnedOf(F, m) \subseteq {Stripped(r, now) : r \in LearnedOf(R, m)}
        <4>1. SUFFICES ASSUME NEW x \in LearnedOf(F, m) PROVE \E r \in LearnedOf(R, m) : x = Stripped(r, now)
          OBVIOUS
        <4>2. x \in F /\ x.device = m /\ x.kind # "manual"
          BY DEF Of, LearnedOf, Learned
        <4>3. PICK r \in R : x = Stripped(r, now)
          BY <1>2, <4>2
        <4>4. r.device = m /\ r.kind # "manual"
          BY <1>1, <4>2, <4>3, StrippedRow
        <4> QED BY <4>3, <4>4 DEF Of, LearnedOf, Learned
      <3>2. LearnedOf(R, m) \subseteq R
        BY DEF LearnedOf, Of
      <3>3. IsFiniteSet(LearnedOf(R, m)) /\ Cardinality(LearnedOf(R, m)) <= MemberCap
        BY <1>1, <3>2, FS_Subset DEF TableSound, LearnedCapped
      <3>4. Cardinality(LearnedOf(F, m)) \in Nat /\ Cardinality(LearnedOf(F, m)) <= Cardinality(LearnedOf(R, m))
        BY <3>1, <3>3, StrippedCard
      <3>5. Cardinality(LearnedOf(R, m)) \in Nat
        BY <3>3, FS_CardinalityType
      <3> QED BY <3>3, <3>4, <3>5, EndpointAssumption DEF EndpointAssumption
    <2>2. Cardinality(LearnedRows(F)) <= SessionCap
      <3>1. LearnedRows(F) \subseteq {Stripped(r, now) : r \in LearnedRows(R)}
        <4>1. SUFFICES ASSUME NEW x \in LearnedRows(F) PROVE \E r \in LearnedRows(R) : x = Stripped(r, now)
          OBVIOUS
        <4>2. x \in F /\ x.kind # "manual"
          BY DEF LearnedRows, Learned
        <4>3. PICK r \in R : x = Stripped(r, now)
          BY <1>2, <4>2
        <4>4. r.kind # "manual"
          BY <1>1, <4>2, <4>3, StrippedRow
        <4> QED BY <4>3, <4>4 DEF LearnedRows, Learned
      <3>2. LearnedRows(R) \subseteq R
        BY DEF LearnedRows
      <3>3. IsFiniteSet(LearnedRows(R)) /\ Cardinality(LearnedRows(R)) <= SessionCap
        BY <1>1, <3>2, FS_Subset DEF TableSound, LearnedCapped
      <3>4. Cardinality(LearnedRows(F)) \in Nat /\ Cardinality(LearnedRows(F)) <= Cardinality(LearnedRows(R))
        BY <3>1, <3>3, StrippedCard
      <3>5. Cardinality(LearnedRows(R)) \in Nat
        BY <3>3, FS_CardinalityType
      <3> QED BY <3>3, <3>4, <3>5, EndpointAssumption DEF EndpointAssumption
    <2> QED BY <2>1, <2>2 DEF LearnedCapped
  <1> QED BY <1>2, <1>5, <1>6, <1>7, <1>8, <1>9 DEF TableSound, F

\* A sequence names one set, so what goes was the latest, or has expired.
LEMMA FreshMark ==
    ASSUME PublisherInv, TableInv, NEW now \in Nat, now <= latest,
               Source \in activeMembers
    PROVE  MarkKept(Fresh(rows, now), accepted, latest)
  <1> DEFINE F == Fresh(rows, now)
  <1>1. TableSound(rows, accepted, latest) /\ ClockInv /\ MarkKept(rows, accepted, latest)
    BY DEF TableInv
  <1>2. \A r \in SignedRows(rows) : r.set # NoSet /\ r.set.expires > now => r \in F
    BY <1>1, FreshRows
  <1> HIDE DEF F
  <1>3. SUFFICES ASSUME NEW s \in accepted, s.expires > latest
        PROVE \/ Covered(s, F)
              \/ \E t \in accepted : s.seq < t.seq /\ t.expires <= latest
    BY DEF MarkKept, F
  <1>4. CASE \E t \in accepted : s.seq < t.seq /\ t.expires <= latest
    BY <1>4
  <1>5. ASSUME NEW r \in SignedRows(rows), r.set # NoSet, s.seq <= r.set.seq
        PROVE \/ Covered(s, F)
              \/ \E t \in accepted : s.seq < t.seq /\ t.expires <= latest
    <2>1. r \in rows /\ r.kind = "signed" /\ r \in EndpointRows /\ RowSound(r, accepted, latest)
      BY <1>1 DEF SignedRows, TableSound, RowsTyped
    <2>2. r.set \in accepted
      BY <1>5, <2>1 DEF RowSound
    <2>3. r.set \in published /\ s \in published /\ r.set \in EndpointSets /\ s \in EndpointSets
      BY <2>2 DEF TableInv, PublisherInv, PublisherTypeOK
    <2>4. r.set.expires \in Int /\ r.set.seq \in Nat /\ s.seq \in Nat /\ latest \in Nat
      BY <1>1, <2>3 DEF EndpointSets, ClockInv
    <2>5. CASE r.set.expires > now
      BY <1>2, <1>5, <2>1, <2>5 DEF Covered, SignedRows
    <2>6. CASE r.set.expires <= now
      <3>1. r.set.expires <= latest
        BY <2>4, <2>6
      <3>2. r.set # s
        BY <1>3, <2>4, <3>1
      <3>3. r.set.seq # s.seq
        BY <2>3, <3>2 DEF PublisherInv, PublicationsOrdered
      <3> QED BY <1>5, <2>2, <2>4, <3>1, <3>3
    <2> QED BY <2>4, <2>5, <2>6
  <1>6. Covered(s, rows) \/ \E t \in accepted : s.seq < t.seq /\ t.expires <= latest
    BY <1>1, <1>3 DEF MarkKept
  <1> QED BY <1>4, <1>5, <1>6 DEF Covered

\* enforcePeerEndpointCaps makes room among the rows it may take, and the rows of a
\* set that stands are not among them.
LEMMA EnforcedRows ==
    ASSUME NEW R, NEW A, NEW L, RowsTyped(R, A, L), Grouped(R), ManualCapped(R),
           NEW C \in SUBSET {r \in R : Evictable(r)}, NEW kept, Enforced(R, C, kept)
    PROVE  /\ TableSound(kept, A, L) /\ kept \subseteq R
           /\ \A r \in R : ~Evictable(r) => r \in kept
  <1>1. R \subseteq EndpointRows /\ IsFiniteSet(R) /\ \A r \in R : RowSound(r, A, L)
    BY DEF RowsTyped
  <1>2. PICK E \in SUBSET C, F \in SUBSET C :
            /\ F \cap E = {} /\ OverMember(R, C, E) /\ Cardinality(F) = OverSession(R \ E)
            /\ kept = R \ (E \cup F)
    BY DEF Enforced
  <1>3. kept \subseteq R /\ \A r \in R : ~Evictable(r) => r \in kept
    BY <1>2
  <1>4. \A r \in C : r \in R /\ Learned(r) /\ r.set = NoSet
    BY DEF Evictable
  <1>5. RowsTyped(kept, A, L)
    BY <1>1, <1>3, FS_Subset DEF RowsTyped
  <1>6. Grouped(kept)
    <2>1. SUFFICES ASSUME NEW r \in SignedRows(kept), r.set # NoSet
          PROVE  /\ \A q \in SignedRows(kept) : q.set = r.set /\ q.observed = r.observed
                 /\ {q.endpoint : q \in SignedRows(kept)} = r.set.endpoints
      BY DEF Grouped
    <2>2. r \in SignedRows(R)
      BY <1>3 DEF SignedRows
    <2>3. /\ \A q \in SignedRows(R) : q.set = r.set /\ q.observed = r.observed
          /\ {q.endpoint : q \in SignedRows(R)} = r.set.endpoints
      BY <2>1, <2>2 DEF Grouped
    <2>4. SignedRows(R) = SignedRows(kept)
      BY <1>2, <1>4, <2>1, <2>3 DEF SignedRows
    <2> QED BY <2>3, <2>4
  <1>7. ManualCapped(kept)
    <2>1. \A m \in Members : ManualOf(kept, m) = ManualOf(R, m)
      BY <1>2, <1>4 DEF ManualOf, Of, LearnedOf
    <2> QED BY <2>1 DEF ManualCapped
  <1>8. ASSUME NEW m \in Members PROVE Cardinality(LearnedOf(kept, m)) <= MemberCap
    <2> DEFINE S == LearnedOf(R, m)
               T == Of(E, m)
    <2>1. IsFiniteSet(S) /\ S \subseteq R
      BY <1>1, FS_Subset DEF LearnedOf, Of
    <2>2. S \cap T = T
      BY <1>2, <1>4 DEF LearnedOf, Of
    <2>3. Cardinality(S \ T) = Cardinality(S) - Cardinality(T)
      BY <2>1, <2>2, FS_Difference
    <2>4. Cardinality(T) = Excess(Cardinality(S), MemberCap)
      BY <1>2 DEF OverMember
    <2>5. LearnedOf(kept, m) \subseteq S \ T
      BY <1>2 DEF LearnedOf, Of
    <2>6. IsFiniteSet(S \ T) /\ Cardinality(S) \in Nat
      BY <2>1, FS_Difference, FS_CardinalityType
    <2> HIDE DEF S, T
    <2>7. Cardinality(S \ T) <= MemberCap
      BY <2>3, <2>4, <2>6, EndpointAssumption DEF Excess, EndpointAssumption
    <2>8. /\ Cardinality(LearnedOf(kept, m)) \in Nat /\ Cardinality(S \ T) \in Nat
          /\ Cardinality(LearnedOf(kept, m)) <= Cardinality(S \ T)
      BY <2>5, <2>6, SubsetCard
    <2> QED BY <2>7, <2>8, EndpointAssumption DEF EndpointAssumption
  <1>9. Cardinality(LearnedRows(kept)) <= SessionCap
    <2> DEFINE S == LearnedRows(R \ E)
    <2>1. IsFiniteSet(S)
      BY <1>1, FS_Subset DEF LearnedRows
    <2>2. S \cap F = F /\ LearnedRows(kept) = S \ F
      BY <1>2, <1>4 DEF LearnedRows
    <2>3. Cardinality(S \ F) = Cardinality(S) - Cardinality(F)
      BY <2>1, <2>2, FS_Difference
    <2>4. Cardinality(F) = Excess(Cardinality(S), SessionCap)
      BY <1>2 DEF OverSession, LearnedRows
    <2>5. Cardinality(S) \in Nat
      BY <2>1, FS_CardinalityType
    <2> HIDE DEF S
    <2> QED BY <2>2, <2>3, <2>4, <2>5, EndpointAssumption DEF Excess, EndpointAssumption
  <1> QED BY <1>3, <1>5, <1>6, <1>7, <1>8, <1>9 DEF TableSound, LearnedCapped

\* The mark rests on the rows of the set that stands.
LEMMA MarkCarried ==
    ASSUME NEW R, NEW S, NEW A, NEW L, MarkKept(R, A, L),
           \A r \in SignedRows(R) : r.set # NoSet => r \in S
    PROVE  MarkKept(S, A, L)
  <1>1. \A r \in SignedRows(R) : r.set # NoSet => r \in SignedRows(S)
    BY DEF SignedRows
  <1>2. \A s : Covered(s, R) => Covered(s, S)
    BY <1>1 DEF Covered
  <1> QED BY <1>2 DEF MarkKept

LEMMA UpsertedRows ==
    ASSUME TableInv, NEW r \in EndpointRows, r.kind # "signed", RowSound(r, accepted, latest)
    PROVE  /\ RowsTyped(Upserted(r), accepted, latest) /\ Grouped(Upserted(r))
           /\ SignedRows(Upserted(r)) = SignedRows(Fresh(rows, clock))
           /\ r.kind # "manual" => ManualCapped(Upserted(r))
           /\ r.kind = "manual" => LearnedCapped(Upserted(r))
  <1> DEFINE F == Fresh(rows, clock)
             U == Upserted(r)
  <1>1. clock \in Nat
    BY DEF TableInv, ClockInv
  <1>2. TableSound(F, accepted, latest)
    BY <1>1, FreshRows DEF TableInv
  <1>3. U = {s \in F : ~SameKey(r, s)} \cup {r}
    BY DEF Upserted
  <1> HIDE DEF F, U
  <1>4. IsFiniteSet(U)
    BY <1>2, <1>3, FS_Subset, FS_AddElement DEF TableSound, RowsTyped
  <1>5. RowsTyped(U, accepted, latest)
    BY <1>2, <1>3, <1>4 DEF TableSound, RowsTyped
  <1>6. SignedRows(U) = SignedRows(F)
    BY <1>3 DEF SignedRows, SameKey
  <1>7. Grouped(U)
    BY <1>2, <1>6 DEF TableSound, Grouped
  <1>8. ASSUME r.kind # "manual" PROVE ManualCapped(U)
    <2>1. \A m \in Members : ManualOf(U, m) = ManualOf(F, m)
      BY <1>3, <1>8 DEF ManualOf, Of, LearnedOf, Learned, SameKey
    <2> QED BY <1>2, <2>1 DEF TableSound, ManualCapped
  <1>9. ASSUME r.kind = "manual" PROVE LearnedCapped(U)
    <2>1. LearnedRows(U) = LearnedRows(F)
      BY <1>3, <1>9 DEF LearnedRows, Learned, SameKey
    <2>2. \A m \in Members : LearnedOf(U, m) = LearnedOf(F, m)
      BY <1>3, <1>9 DEF LearnedOf, Of, Learned, SameKey
    <2> QED BY <1>2, <2>1, <2>2 DEF TableSound, LearnedCapped
  <1> QED BY <1>5, <1>6, <1>7, <1>8, <1>9 DEF U, F

\* upsertPeerEndpointCandidate
LEMMA UpsertKeeps ==
    ASSUME PublisherInv, TableInv, NEW r \in EndpointRows, r.kind \in {"guess", "raw"},
           RowSound(r, accepted, latest), Upsert(r)
    PROVE  /\ TableSound(rows', accepted, latest)
           /\ Source \in activeMembers => MarkKept(rows', accepted, latest)
           /\ \A x \in rows' : x = r \/ \E q \in rows : x.device = q.device /\ x.kind = q.kind
  <1> DEFINE U == Upserted(r)
             C == {s \in U : Evictable(s) /\ ~SameKey(r, s)}
  <1>1. /\ RowsTyped(U, accepted, latest) /\ Grouped(U) /\ ManualCapped(U)
        /\ SignedRows(U) = SignedRows(Fresh(rows, clock))
    BY UpsertedRows
  <1>2. Enforced(U, C, rows') /\ C \in SUBSET {s \in U : Evictable(s)}
    BY DEF Upsert
  <1>3. U \subseteq Fresh(rows, clock) \cup {r}
    BY DEF Upserted
  <1> HIDE DEF U, C
  <1>4. TableSound(rows', accepted, latest) /\ rows' \subseteq U /\ \A x \in U : ~Evictable(x) => x \in rows'
    BY <1>1, <1>2, EnforcedRows
  <1>5. clock \in Nat /\ clock <= latest /\ TableSound(rows, accepted, latest)
    BY DEF TableInv, ClockInv
  <1>6. ASSUME Source \in activeMembers PROVE MarkKept(rows', accepted, latest)
    <2>1. MarkKept(Fresh(rows, clock), accepted, latest)
      BY <1>5, <1>6, FreshMark
    <2>2. \A x \in SignedRows(Fresh(rows, clock)) : x.set # NoSet => x \in rows'
      BY <1>1, <1>4 DEF Evictable, SignedRows
    <2> QED BY <2>1, <2>2, MarkCarried
  <1>7. ASSUME NEW x \in rows', x # r PROVE \E q \in rows : x.device = q.device /\ x.kind = q.kind
    <2>1. PICK q \in rows : x = Stripped(q, clock)
      BY <1>3, <1>4, <1>5, <1>7, FreshRows
    <2>2. q \in EndpointRows
      BY <1>5 DEF TableSound, RowsTyped
    <2> QED BY <1>5, <2>1, <2>2, StrippedRow
  <1> QED BY <1>4, <1>6, <1>7

\* AddManualEndpoint and RemoveManualEndpoint
LEMMA ManualKeeps ==
    ASSUME PublisherInv, TableInv, NEW m \in Members, NEW e \in Endpoints,
           AddManual(m, e) \/ RemoveManual(m, e)
    PROVE  /\ TableSound(rows', accepted, latest)
           /\ Source \in activeMembers => MarkKept(rows', accepted, latest)
           /\ \A x \in rows' : Learned(x) => \E q \in rows : x.device = q.device /\ x.kind = q.kind
  <1> USE DEF TableInv
  <1>1. clock \in Nat /\ latest \in Nat /\ clock <= latest /\ TableSound(rows, accepted, latest)
    BY DEF ClockInv
  <1>2. ASSUME RemoveManual(m, e)
        PROVE  /\ TableSound(rows', accepted, latest)
               /\ Source \in activeMembers => MarkKept(rows', accepted, latest)
               /\ rows' \subseteq rows
    <2>1. rows' = {r \in rows : r.device # m \/ r.kind # "manual" \/ r.endpoint # e} /\ rows' \subseteq rows
      BY <1>2 DEF RemoveManual
    <2>2. RowsTyped(rows', accepted, latest)
      BY <1>1, <2>1, FS_Subset DEF TableSound, RowsTyped
    <2>3. SignedRows(rows') = SignedRows(rows) /\ LearnedRows(rows') = LearnedRows(rows)
      BY <2>1 DEF SignedRows, LearnedRows, Learned
    <2>4. \A d \in Members : LearnedOf(rows', d) = LearnedOf(rows, d)
      BY <2>1 DEF LearnedOf, Of, Learned
    <2>5. ManualCapped(rows')
      <3>1. SUFFICES ASSUME NEW d \in Members PROVE Cardinality(ManualOf(rows', d)) <= ManualCap
        BY DEF ManualCapped
      <3>2. ManualOf(rows', d) \subseteq ManualOf(rows, d) /\ ManualOf(rows, d) \subseteq rows
        BY <2>1 DEF ManualOf, Of, LearnedOf
      <3>3. IsFiniteSet(ManualOf(rows, d)) /\ Cardinality(ManualOf(rows, d)) <= ManualCap
        BY <1>1, <3>2, FS_Subset DEF TableSound, RowsTyped, ManualCapped
      <3> QED BY <3>2, <3>3, SubsetCard, EndpointAssumption DEF EndpointAssumption
    <2>6. TableSound(rows', accepted, latest)
      BY <1>1, <2>2, <2>3, <2>4, <2>5 DEF TableSound, Grouped, LearnedCapped
    <2>7. \A r \in SignedRows(rows) : r.set # NoSet => r \in rows'
      BY <2>3 DEF SignedRows
    <2> QED BY <2>1, <2>6, <2>7, MarkCarried
  <1>3. ASSUME AddManual(m, e)
        PROVE  /\ TableSound(rows', accepted, latest)
               /\ Source \in activeMembers => MarkKept(rows', accepted, latest)
               /\ \A x \in rows' : Learned(x) => \E q \in rows : x.device = q.device /\ x.kind = q.kind
    <2> DEFINE r == Row(m, "manual", e, NoSet, 0)
               F == Fresh(rows, clock)
               M == {s \in F : s.kind = "manual" /\ ~SameKey(r, s)}
    <2>1. r \in EndpointRows /\ r.kind = "manual" /\ r.device = m /\ RowSound(r, accepted, latest)
      BY <1>1, NoSetType DEF Row, EndpointRows, RowSound
    <2>2. rows' = Upserted(r) /\ rows' = {s \in F : ~SameKey(r, s)} \cup {r} /\ Cardinality(Of(M, m)) < ManualCap
      BY <1>3 DEF AddManual, Upserted
    <2> HIDE DEF r, F, M, TableInv
    <2>3. /\ RowsTyped(rows', accepted, latest) /\ Grouped(rows') /\ LearnedCapped(rows')
          /\ SignedRows(rows') = SignedRows(F)
      <3>1. /\ RowsTyped(Upserted(r), accepted, latest) /\ Grouped(Upserted(r)) /\ LearnedCapped(Upserted(r))
            /\ SignedRows(Upserted(r)) = SignedRows(Fresh(rows, clock))
        BY <2>1, UpsertedRows
      <3> QED BY <2>2, <3>1 DEF F
    <2>4. TableSound(F, accepted, latest) /\ \A x \in F : \E q \in rows : x = Stripped(q, clock)
      BY <1>1, FreshRows DEF F
    <2>5. ManualCapped(rows')
      <3>1. SUFFICES ASSUME NEW d \in Members PROVE Cardinality(ManualOf(rows', d)) <= ManualCap
        BY DEF ManualCapped
      <3>2. CASE d = m
        <4>1. ManualOf(rows', d) = Of(M, m) \cup {r} /\ Of(M, m) \subseteq F
          BY <2>1, <2>2, <3>2 DEF ManualOf, Of, LearnedOf, Learned, M
        <4>2. IsFiniteSet(Of(M, m))
          BY <2>4, <4>1, FS_Subset DEF TableSound, RowsTyped
        <4> DEFINE X == Of(M, m)
        <4>3. IsFiniteSet(X) /\ Cardinality(X) < ManualCap /\ ManualOf(rows', d) = X \cup {r}
          BY <2>2, <4>1, <4>2
        <4> HIDE DEF X
        <4>4. Cardinality(X) \in Nat
          BY <4>3, FS_CardinalityType
        <4>5. Cardinality(X \cup {r}) = IF r \in X THEN Cardinality(X) ELSE Cardinality(X) + 1
          BY <4>3, FS_AddElement
        <4> QED BY <4>3, <4>4, <4>5, EndpointAssumption DEF EndpointAssumption
      <3>3. CASE d # m
        <4>1. ManualOf(rows', d) = ManualOf(F, d)
          BY <2>1, <2>2, <3>3 DEF ManualOf, Of, LearnedOf, Learned, SameKey
        <4> QED BY <2>4, <4>1 DEF TableSound, ManualCapped
      <3> QED BY <3>2, <3>3
    <2>6. ASSUME Source \in activeMembers PROVE MarkKept(rows', accepted, latest)
      <3>1. MarkKept(F, accepted, latest)
        BY <1>1, <2>6, FreshMark DEF F
      <3>2. \A x \in SignedRows(F) : x.set # NoSet => x \in rows'
        BY <2>3 DEF SignedRows
      <3> QED BY <3>1, <3>2, MarkCarried
    <2>7. ASSUME NEW x \in rows', Learned(x) PROVE \E q \in rows : x.device = q.device /\ x.kind = q.kind
      <3>1. x \in F
        BY <2>1, <2>2, <2>7 DEF Learned
      <3>2. PICK q \in rows : x = Stripped(q, clock)
        BY <2>4, <3>1
      <3>3. q \in EndpointRows
        BY <1>1 DEF TableSound, RowsTyped
      <3> QED BY <1>1, <3>2, <3>3, StrippedRow
    <2> QED BY <2>3, <2>5, <2>6, <2>7 DEF TableSound
  <1> QED BY <1>2, <1>3

\* The row of a set that is observed again, or the row as it was.
Renewed(R, s, now) ==
    [r \in R |-> IF r.kind = "signed" /\ now > r.observed
                 THEN [device |-> Source, kind |-> "signed", endpoint |-> r.endpoint,
                       set |-> s, observed |-> now, expires |-> now + GuessTTL]
                 ELSE r]
RenewedRows(R, s, now) == {Renewed(R, s, now)[r] : r \in R}

\* The set that is there is observed again: its rows change together.
LEMMA ObservedAgain ==
    ASSUME NEW R, NEW A, NEW L \in Nat, TableSound(R, A, L), NEW now \in Nat, now <= L,
           NEW s \in A, s \in EndpointSets, s # NoSet, s.expires <= now + GuessTTL,
           \A r \in SignedRows(R) : r.set = s
    PROVE  /\ TableSound(RenewedRows(R, s, now), A, L)
           /\ \A x \in RenewedRows(R, s, now) : \E q \in R : x.device = q.device /\ x.kind = q.kind
           /\ \A s2 : Covered(s2, R) => Covered(s2, RenewedRows(R, s, now))
  <1> DEFINE G == Renewed(R, s, now)
             N == RenewedRows(R, s, now)
  <1>0. N = {G[r] : r \in R}
    BY DEF RenewedRows
  <1>1. R \subseteq EndpointRows /\ IsFiniteSet(R) /\ \A r \in R : RowSound(r, A, L)
    BY DEF TableSound, RowsTyped
  <1>2. GuessTTL \in Nat
    BY EndpointAssumption DEF EndpointAssumption
  <1>3. ASSUME NEW r \in R
        PROVE  /\ G[r] \in EndpointRows /\ RowSound(G[r], A, L)
               /\ G[r].device = r.device /\ G[r].kind = r.kind /\ G[r].endpoint = r.endpoint
               /\ r.kind = "signed" => /\ G[r].set = s
                                       /\ G[r].observed = IF now > r.observed THEN now ELSE r.observed
    <2>1. r \in EndpointRows /\ RowSound(r, A, L)
      BY <1>1
    <2>2. CASE r.kind = "signed" /\ now > r.observed
      <3> DEFINE x == [device |-> Source, kind |-> "signed", endpoint |-> r.endpoint,
                       set |-> s, observed |-> now, expires |-> now + GuessTTL]
      <3>1. G[r] = x
        BY <2>2 DEF Renewed
      <3>2. r.endpoint \in Endpoints /\ r.device = Source /\ Source \in Members
        BY <2>1, <2>2, EndpointAssumption DEF EndpointRows, RowSound, EndpointAssumption
      <3>3. x \in EndpointRows
        BY <1>2, <3>2 DEF EndpointRows
      <3>4. RowSound(x, A, L)
        BY <1>2 DEF RowSound
      <3> QED BY <2>2, <3>1, <3>2, <3>3, <3>4
    <2>3. CASE ~(r.kind = "signed" /\ now > r.observed)
      BY <2>1, <2>3 DEF SignedRows, Renewed
    <2> QED BY <2>2, <2>3
  <1> HIDE DEF G, N
  <1>4. \A T \in SUBSET R, X \in SUBSET N :
            (\A r \in R : G[r] \in X => r \in T) =>
                IsFiniteSet(X) /\ IsFiniteSet(T) /\ Cardinality(X) \in Nat /\ Cardinality(T) \in Nat
                /\ Cardinality(X) <= Cardinality(T)
    <2>1. SUFFICES ASSUME NEW T \in SUBSET R, NEW X \in SUBSET N, \A r \in R : G[r] \in X => r \in T
          PROVE  IsFiniteSet(X) /\ IsFiniteSet(T) /\ Cardinality(X) \in Nat /\ Cardinality(T) \in Nat
                 /\ Cardinality(X) <= Cardinality(T)
      OBVIOUS
    <2> DEFINE h == [r \in T |-> G[r]]
               I == {h[r] : r \in T}
    <2>2. X \subseteq I
      BY <1>0, <2>1
    <2>3. DOMAIN h = T /\ h \in [T -> I]
      OBVIOUS
    <2>4. IsFiniteSet(T)
      BY <1>1, FS_Subset
    <2> HIDE DEF h
    <2>5. IsFiniteSet(I) /\ Cardinality(I) <= Cardinality(T)
      BY <2>3, <2>4, FunctionImage
    <2> HIDE DEF I
    <2> QED BY <2>2, <2>4, <2>5, SubsetCard, FS_CardinalityType
  <1>5. RowsTyped(N, A, L)
    <2>1. IsFiniteSet(N)
      BY <1>4
    <2>2. \A x \in N : x \in EndpointRows /\ RowSound(x, A, L)
      BY <1>0, <1>3
    <2> QED BY <2>1, <2>2 DEF RowsTyped
  <1>6. Grouped(N)
    <2>1. SUFFICES ASSUME NEW x \in SignedRows(N)
          PROVE  /\ \A q \in SignedRows(N) : q.set = x.set /\ q.observed = x.observed
                 /\ {q.endpoint : q \in SignedRows(N)} = x.set.endpoints
      BY DEF Grouped
    <2>2. PICK r \in R : x = G[r]
      BY <1>0 DEF SignedRows
    <2>3. r \in SignedRows(R) /\ x.set = s
      BY <1>3, <2>2 DEF SignedRows
    <2>4. /\ \A q \in SignedRows(R) : q.observed = r.observed
          /\ {q.endpoint : q \in SignedRows(R)} = s.endpoints
      BY <2>3 DEF TableSound, Grouped
    <2>5. ASSUME NEW q \in SignedRows(R) PROVE G[q] \in SignedRows(N) /\ G[q].set = s /\ G[q].observed = x.observed
      <3>1. q \in R /\ q.kind = "signed" /\ r.kind = "signed"
        BY <2>3 DEF SignedRows
      <3>2. G[q].observed = IF now > q.observed THEN now ELSE q.observed
        BY <1>3, <3>1
      <3>3. x.observed = IF now > r.observed THEN now ELSE r.observed
        BY <1>3, <2>2, <3>1
      <3> QED BY <1>0, <1>3, <2>4, <3>1, <3>2, <3>3 DEF SignedRows
    <2>6. ASSUME NEW y \in SignedRows(N) PROVE \E q \in SignedRows(R) : y = G[q]
      BY <1>0, <1>3 DEF SignedRows
    <2>7. {q.endpoint : q \in SignedRows(N)} = {q.endpoint : q \in SignedRows(R)}
      <3>1. \A q \in SignedRows(R) : G[q].endpoint = q.endpoint
        BY <1>3 DEF SignedRows
      <3>2. ASSUME NEW y \in SignedRows(N) PROVE \E q \in SignedRows(R) : y.endpoint = q.endpoint
        BY <2>6, <3>1
      <3>3. ASSUME NEW q \in SignedRows(R) PROVE \E y \in SignedRows(N) : y.endpoint = q.endpoint
        BY <2>5, <3>1
      <3> QED BY <3>2, <3>3
    <2>8. ASSUME NEW y \in SignedRows(N) PROVE y.set = x.set /\ y.observed = x.observed
      <3>1. PICK q \in SignedRows(R) : y = G[q]
        BY <2>6
      <3> QED BY <2>3, <2>5, <3>1
    <2> QED BY <2>3, <2>4, <2>7, <2>8
  <1>7. ManualCapped(N)
    <2>1. SUFFICES ASSUME NEW m \in Members PROVE Cardinality(ManualOf(N, m)) <= ManualCap
      BY DEF ManualCapped
    <2>2. /\ ManualOf(N, m) \in SUBSET N /\ ManualOf(R, m) \in SUBSET R
          /\ \A r \in R : G[r] \in ManualOf(N, m) => r \in ManualOf(R, m)
      BY <1>0, <1>3 DEF ManualOf, Of, LearnedOf, Learned
    <2>3. Cardinality(ManualOf(R, m)) <= ManualCap
      BY DEF TableSound, ManualCapped
    <2> QED BY <1>4, <2>2, <2>3, EndpointAssumption DEF EndpointAssumption
  <1>8. ASSUME NEW m \in Members PROVE Cardinality(LearnedOf(N, m)) <= MemberCap
    <2>1. /\ LearnedOf(N, m) \in SUBSET N /\ LearnedOf(R, m) \in SUBSET R
          /\ \A r \in R : G[r] \in LearnedOf(N, m) => r \in LearnedOf(R, m)
      BY <1>0, <1>3 DEF Of, LearnedOf, Learned
    <2>2. Cardinality(LearnedOf(R, m)) <= MemberCap
      BY DEF TableSound, LearnedCapped
    <2> QED BY <1>4, <2>1, <2>2, EndpointAssumption DEF EndpointAssumption
  <1>9. Cardinality(LearnedRows(N)) <= SessionCap
    <2>1. /\ LearnedRows(N) \in SUBSET N /\ LearnedRows(R) \in SUBSET R
          /\ \A r \in R : G[r] \in LearnedRows(N) => r \in LearnedRows(R)
      BY <1>0, <1>3 DEF LearnedRows, Learned
    <2>2. Cardinality(LearnedRows(R)) <= SessionCap
      BY DEF TableSound, LearnedCapped
    <2> QED BY <1>4, <2>1, <2>2, EndpointAssumption DEF EndpointAssumption
  <1>10. \A x \in N : \E q \in R : x.device = q.device /\ x.kind = q.kind
    BY <1>0, <1>3
  <1>11. \A s2 : Covered(s2, R) => Covered(s2, N)
    BY <1>0, <1>3 DEF Covered, SignedRows
  <1> QED BY <1>5, <1>6, <1>7, <1>8, <1>9, <1>10, <1>11 DEF TableSound, LearnedCapped, N

LEMMA SoundStays ==
    ASSUME NEW R, NEW A, NEW A2, A \subseteq A2, NEW L \in Nat, NEW L2 \in Nat, L <= L2,
           TableSound(R, A, L)
    PROVE  TableSound(R, A2, L2)
  <1>1. R \subseteq EndpointRows /\ IsFiniteSet(R) /\ \A r \in R : RowSound(r, A, L)
    BY DEF TableSound, RowsTyped
  <1>2. ASSUME NEW r \in R PROVE RowSound(r, A2, L2)
    <2>1. r.expires \in Nat /\ r.observed \in Nat /\ RowSound(r, A, L)
      BY <1>1 DEF EndpointRows
    <2> QED BY <2>1, EndpointAssumption DEF RowSound, EndpointAssumption
  <1> QED BY <1>1, <1>2 DEF TableSound, RowsTyped

\* ReplaceMemberSignedEndpointSet
LEMMA ReplaceKeeps ==
    ASSUME PublisherInv, TableInv, NEW s \in published, ReplaceSet(s)
    PROVE  /\ TableSound(rows', accepted', latest) /\ MarkKept(rows', accepted', latest)
           /\ accepted' \subseteq published
           /\ \A x \in rows' : x.device = Source \/ \E q \in rows : x.device = q.device /\ x.kind = q.kind
  <1> DEFINE R == Fresh(rows, clock)
             others == {r \in R : r.device # Source \/ r.kind # "signed"}
             new == {Row(Source, "signed", e, s, clock + GuessTTL) : e \in s.endpoints}
  <1>1. /\ clock \in Nat /\ latest \in Nat /\ clock <= latest /\ hintTTL \in HintTTLs
        /\ TableSound(rows, accepted, latest) /\ accepted \subseteq published
    BY DEF TableInv, ClockInv
  <1>2. /\ s \in EndpointSets /\ s.seq \in Nat /\ s.seq # 0 /\ s # NoSet
        /\ s.endpoints \in SUBSET Endpoints /\ s.endpoints # {}
        /\ s.expires \in Int /\ s.expires <= clock + GuessTTL
    <2>1. s \in EndpointSets /\ Sequenced(s)
      BY DEF PublisherInv, PublisherTypeOK
    <2>2. s.seq \in Nat /\ s.endpoints \in SUBSET Endpoints /\ s.expires \in Int
      BY <2>1 DEF EndpointSets
    <2>3. s.seq # 0 /\ s.endpoints # {}
      BY <2>1, EndpointAssumption DEF Sequenced, EndpointAssumption
    <2>4. hintTTL \in Nat /\ ClockSkew \in Nat /\ GuessTTL \in Nat /\ hintTTL + ClockSkew <= GuessTTL
      BY <1>1, EndpointAssumption DEF EndpointAssumption
    <2>5. s.expires <= clock + hintTTL + ClockSkew
      BY DEF ReplaceSet, TimesValid
    <2>6. s # NoSet
      BY <2>3 DEF NoSet
    <2> QED BY <1>1, <2>1, <2>2, <2>3, <2>4, <2>5, <2>6
  <1>3. Source \in activeMembers /\ accepted' = accepted \cup {s}
    BY DEF ReplaceSet
  <1>4. /\ TableSound(R, accepted, latest) /\ MarkKept(R, accepted, latest)
        /\ \A x \in R : \E q \in rows : x.device = q.device /\ x.kind = q.kind
    <2>1. TableSound(R, accepted, latest) /\ \A x \in R : \E q \in rows : x = Stripped(q, clock)
      BY <1>1, FreshRows
    <2>2. \A q \in rows : q \in EndpointRows
      BY <1>1 DEF TableSound, RowsTyped
    <2>3. \A q \in rows : Stripped(q, clock).device = q.device /\ Stripped(q, clock).kind = q.kind
      BY <1>1, <2>2, StrippedRow
    <2> QED BY <1>1, <1>3, <2>1, <2>3, FreshMark
  <1>5. \/ /\ s \in CurrentSets(R, Source)
           /\ rows' = others \cup
                  {IF clock > r.observed THEN Row(Source, "signed", r.endpoint, s, clock + GuessTTL)
                   ELSE r : r \in R \ others}
        \/ /\ \A t \in CurrentSets(R, Source) : t.seq < s.seq
           /\ Enforced(others \cup new, {r \in others \cup new : Evictable(r)}, rows')
    BY DEF ReplaceSet
  <1> HIDE DEF R
  <1>6. TableSound(R, accepted', latest)
    BY <1>1, <1>3, <1>4, SoundStays
  <1>7. \A r \in R : r.kind = "signed" => r.device = Source
    BY <1>4 DEF TableSound, RowsTyped, RowSound
  <1>8. others = R \ SignedRows(R)
    BY <1>7 DEF SignedRows
  <1>9. ASSUME s \in CurrentSets(R, Source),
               rows' = others \cup
                  {IF clock > r.observed THEN Row(Source, "signed", r.endpoint, s, clock + GuessTTL)
                   ELSE r : r \in R \ others}
        PROVE  /\ TableSound(rows', accepted', latest) /\ MarkKept(rows', accepted', latest)
               /\ \A x \in rows' : \E q \in R : x.device = q.device /\ x.kind = q.kind
    <2> DEFINE G == Renewed(R, s, clock)
    <2>1. PICK q \in R : q.kind = "signed" /\ q.set = s
      BY <1>9 DEF CurrentSets, Of
    <2>2. \A r \in SignedRows(R) : r.set = s
      BY <1>2, <1>4, <2>1 DEF TableSound, Grouped, SignedRows
    <2>3. s \in accepted
      BY <1>2, <1>4, <2>1 DEF TableSound, RowsTyped, RowSound
    <2>4. rows' = {G[r] : r \in R}
      <3>1. \A r \in SignedRows(R) : G[r] = IF clock > r.observed THEN Row(Source, "signed", r.endpoint, s, clock + GuessTTL) ELSE r
        BY DEF Row, SignedRows, Renewed
      <3>2. \A r \in R \ SignedRows(R) : G[r] = r
        BY DEF SignedRows, Renewed
      <3>3. SignedRows(R) \subseteq R /\ R \ others = SignedRows(R)
        BY <1>8 DEF SignedRows
      <3> HIDE DEF G, others
      <3>4. rows' = others \cup {IF clock > r.observed THEN Row(Source, "signed", r.endpoint, s, clock + GuessTTL)
                                 ELSE r : r \in SignedRows(R)}
        BY <1>9, <3>3
      <3>5. rows' = (R \ SignedRows(R)) \cup {G[r] : r \in SignedRows(R)}
        BY <1>8, <3>1, <3>4
      <3>6. {G[r] : r \in R} = {G[r] : r \in R \ SignedRows(R)} \cup {G[r] : r \in SignedRows(R)}
        BY <3>3
      <3>7. {G[r] : r \in R \ SignedRows(R)} = R \ SignedRows(R)
        BY <3>2
      <3> QED BY <3>5, <3>6, <3>7
    <2>5. accepted' = accepted
      BY <1>3, <2>3
    <2>6. /\ TableSound(rows', accepted, latest)
          /\ \A x \in rows' : \E p \in R : x.device = p.device /\ x.kind = p.kind
          /\ \A s2 : Covered(s2, R) => Covered(s2, rows')
      <3>1. rows' = RenewedRows(R, s, clock)
        BY <2>4 DEF RenewedRows
      <3>2. /\ TableSound(RenewedRows(R, s, clock), accepted, latest)
            /\ \A x \in RenewedRows(R, s, clock) : \E p \in R : x.device = p.device /\ x.kind = p.kind
            /\ \A s2 : Covered(s2, R) => Covered(s2, RenewedRows(R, s, clock))
        BY <1>1, <1>2, <1>4, <2>2, <2>3, ObservedAgain
      <3> QED BY <3>1, <3>2
    <2> QED BY <1>4, <2>5, <2>6 DEF MarkKept
  <1>10. ASSUME \A t \in CurrentSets(R, Source) : t.seq < s.seq,
                Enforced(others \cup new, {r \in others \cup new : Evictable(r)}, rows')
         PROVE  /\ TableSound(rows', accepted', latest) /\ MarkKept(rows', accepted', latest)
                /\ \A x \in rows' : x.device = Source \/ \E q \in R : x.device = q.device /\ x.kind = q.kind
    <2> DEFINE n == others \cup new
    <2>1. \A x \in new : /\ x \in EndpointRows /\ x.kind = "signed" /\ x.set = s /\ x.observed = clock
                         /\ x.device = Source /\ RowSound(x, accepted', latest) /\ ~Evictable(x)
      <3>1. SUFFICES ASSUME NEW e \in s.endpoints,
                            NEW x, x = Row(Source, "signed", e, s, clock + GuessTTL)
            PROVE  /\ x \in EndpointRows /\ x.kind = "signed" /\ x.set = s /\ x.observed = clock
                   /\ x.device = Source /\ RowSound(x, accepted', latest) /\ ~Evictable(x)
        OBVIOUS
      <3>2. e \in Endpoints /\ GuessTTL \in Nat /\ Source \in Members
        BY <1>2, EndpointAssumption DEF EndpointAssumption
      <3>3. x = [device |-> Source, kind |-> "signed", endpoint |-> e, set |-> s,
                 observed |-> clock, expires |-> clock + GuessTTL]
        BY <3>1 DEF Row
      <3>4. x \in EndpointRows
        BY <1>1, <1>2, <3>2, <3>3 DEF EndpointRows
      <3>5. RowSound(x, accepted', latest)
        BY <1>1, <1>2, <1>3, <3>2, <3>3 DEF RowSound
      <3> QED BY <1>2, <3>3, <3>4, <3>5 DEF Evictable
    <2>2. SignedRows(n) = new /\ {x.endpoint : x \in new} = s.endpoints
      <3>1. SignedRows(n) = new
        BY <1>8, <2>1 DEF SignedRows
      <3>2. \A e \in s.endpoints : Row(Source, "signed", e, s, clock + GuessTTL).endpoint = e
        BY DEF Row
      <3> QED BY <3>1, <3>2
    <2>3. IsFiniteSet(n)
      <3>1. IsFiniteSet(s.endpoints)
        BY <1>2, EndpointAssumption, FS_Subset DEF EndpointAssumption
      <3> DEFINE f == [e \in s.endpoints |-> Row(Source, "signed", e, s, clock + GuessTTL)]
      <3>2. DOMAIN f = s.endpoints /\ f \in [s.endpoints -> {f[e] : e \in s.endpoints}]
            /\ new = {f[e] : e \in s.endpoints}
        OBVIOUS
      <3> HIDE DEF f, new, others
      <3>3. IsFiniteSet(new)
        BY <3>1, <3>2, FunctionImage
      <3>4. IsFiniteSet(others)
        BY <1>4, <1>8, FS_Subset DEF TableSound, RowsTyped
      <3> QED BY <3>3, <3>4, FS_Union
    <2> HIDE DEF new, n
    <2>4. RowsTyped(n, accepted', latest)
      BY <1>6, <2>1, <2>3 DEF TableSound, RowsTyped, n
    <2>5. Grouped(n)
      BY <2>1, <2>2 DEF Grouped
    <2>6. ManualCapped(n)
      <3>1. \A m \in Members : ManualOf(n, m) = ManualOf(R, m)
        BY <1>8, <2>1 DEF ManualOf, Of, LearnedOf, Learned, n, SignedRows
      <3> QED BY <1>4, <3>1 DEF TableSound, ManualCapped
    <2>7. /\ TableSound(rows', accepted', latest) /\ rows' \subseteq n
          /\ \A x \in n : ~Evictable(x) => x \in rows'
      <3>1. {r \in n : Evictable(r)} \in SUBSET {r \in n : Evictable(r)}
        OBVIOUS
      <3> QED BY <1>10, <2>4, <2>5, <2>6, <3>1, EnforcedRows DEF n
    <2>8. \A x \in new : x \in SignedRows(rows')
      BY <2>1, <2>7 DEF SignedRows, n
    <2>9. new # {}
      BY <1>2 DEF new
    <2>10. \A t : t.seq <= s.seq => Covered(t, rows')
      BY <1>2, <2>1, <2>8, <2>9 DEF Covered
    <2>11. MarkKept(rows', accepted', latest)
      <3>1. SUFFICES ASSUME NEW t \in accepted, t.expires > latest
            PROVE Covered(t, rows') \/ \E u \in accepted : t.seq < u.seq /\ u.expires <= latest
        BY <1>2, <1>3, <2>10 DEF MarkKept
      <3>2. CASE \E u \in accepted : t.seq < u.seq /\ u.expires <= latest
        BY <3>2
      <3>3. ASSUME NEW r \in SignedRows(R), r.set # NoSet, t.seq <= r.set.seq PROVE Covered(t, rows')
        <4>1. r.set \in CurrentSets(R, Source)
          BY <1>7, <3>3 DEF CurrentSets, Of, SignedRows
        <4>2. r.set \in EndpointSets /\ t \in EndpointSets
          BY <1>1, <1>4, <3>1 DEF SignedRows, TableSound, RowsTyped, EndpointRows, PublisherInv, PublisherTypeOK
        <4>3. t.seq \in Nat /\ r.set.seq \in Nat /\ r.set.seq < s.seq
          BY <1>10, <4>1, <4>2 DEF EndpointSets
        <4> QED BY <1>2, <2>10, <3>3, <4>3
      <3>4. Covered(t, R) \/ \E u \in accepted : t.seq < u.seq /\ u.expires <= latest
        BY <1>4, <3>1 DEF MarkKept
      <3> QED BY <3>2, <3>3, <3>4 DEF Covered
    <2>12. \A x \in rows' : x.device = Source \/ \E q \in R : x.device = q.device /\ x.kind = q.kind
      BY <2>1, <2>7 DEF n
    <2> QED BY <2>7, <2>11, <2>12
  <1> QED BY <1>1, <1>3, <1>4, <1>5, <1>9, <1>10

-----------------------------------------------------------------------------
(* Routes, passes, datagrams and dials *)

Routes == [peer : Members, source : 1 .. 4, endpoint : Endpoints, expires : Nat]

\* A learned route does not outlast what its source allows.
Lasts(r, L) == r.source # 1 => r.expires <= L + Lifetime(r.source)

Passes == [phase : {"idle", "members", "peers", "purge", "install"}, at : Nat,
           by : {"loop", "operator"}, all : BOOLEAN, bound : BOOLEAN, members : SUBSET Members,
           todo : SUBSET Members, peer : Members, found : SUBSET Routes, next : 1 .. 4]

\* What a pass has read is not contradicted by what was purged, and a pass of the loop
\* knows whether the address is bound.
PassSound(p, active) ==
    /\ p \in Passes
    /\ p.phase \in {"peers", "purge", "install"} => active \subseteq p.members
    /\ p.phase = "purge" => p.peer \notin p.members
    /\ p.phase = "install" => p.peer \in p.members /\ \A r \in p.found : r.peer = p.peer
    /\ ~p.bound => p.found = {}

PassKept ==
    /\ PassSound(reconcile, activeMembers)
    /\ reconcile.at <= latest
    /\ \A r \in reconcile.found : Lasts(r, latest)
    /\ reconcile.phase \in {"peers", "purge", "install"} => purged \cap reconcile.members = {}
    /\ reconcile.phase = "purge" => LearnedOf(rows, reconcile.peer) = {}
    /\ reconcile.phase # "idle" /\ reconcile.by = "loop" => reconcile.bound = selected.on

HintSound ==
    hint # NoHint => /\ hint \in [stage : {"accepted", "stored"}, at : Nat, route : Routes]
                     /\ hint.route.source = 4
                     /\ hint.route.expires <= latest + RawTTL

LearnedSound ==
    /\ DOMAIN learned = Members
    /\ \A m \in Members : \A r \in learned[m] : r \in Routes /\ r.peer = m /\ r.source = 4

RuntimeInv ==
    /\ selected \in [on : BOOLEAN, binds : Nat, pending : BOOLEAN]
    /\ PassKept /\ HintSound /\ LearnedSound
    /\ purged \subseteq Members /\ purged \cap activeMembers = {}
    /\ RevokedForgotten /\ ConnectionsBound /\ StopsExplained

EndpointInv == PublisherInv /\ TableInv /\ RuntimeInv

LEMMA EndpointInitSound == EndpointInit => EndpointInv
  <1> SUFFICES ASSUME EndpointInit PROVE EndpointInv
    OBVIOUS
  <1>1. PublisherInv
    BY PublisherInitSound
  <1>2. TableInv
    <2>1. ClockInv /\ accepted \subseteq published
      BY DEF EndpointInit, ClockInv
    <2>2. \A m \in Members : LearnedOf({}, m) = {} /\ ManualOf({}, m) = {}
      BY DEF LearnedOf, ManualOf, Of
    <2>3. LearnedRows({}) = {} /\ SignedRows({}) = {}
      BY DEF LearnedRows, SignedRows
    <2>4. IsFiniteSet({}) /\ Cardinality({}) = 0
      BY FS_EmptySet
    <2>5. TableSound({}, accepted, latest)
      <3>1. 0 <= ManualCap /\ 0 <= MemberCap /\ 0 <= SessionCap
        BY EndpointAssumption DEF EndpointAssumption
      <3>2. RowsTyped({}, accepted, latest)
        BY <2>4 DEF RowsTyped
      <3>3. Grouped({})
        BY <2>3 DEF Grouped
      <3>4. ManualCapped({})
        BY <2>2, <2>4, <3>1 DEF ManualCapped
      <3>5. LearnedCapped({})
        BY <2>2, <2>3, <2>4, <3>1 DEF LearnedCapped
      <3> QED BY <3>2, <3>3, <3>4, <3>5 DEF TableSound
    <2>6. MarkKept(rows, accepted, latest)
      BY DEF EndpointInit, MarkKept
    <2> QED BY <2>1, <2>5, <2>6 DEF TableInv, EndpointInit
  <1>3. PassKept
    <2>1. Source \in Members
      BY EndpointAssumption DEF EndpointAssumption
    <2>2. NoPass \in Passes
      BY <2>1 DEF NoPass, Passes
    <2> QED BY <2>2 DEF EndpointInit, PassKept, PassSound, NoPass
  <1>4. selected \in [on : BOOLEAN, binds : Nat, pending : BOOLEAN]
    BY DEF EndpointInit
  <1> QED BY <1>1, <1>2, <1>3, <1>4 DEF EndpointInv, RuntimeInv, EndpointInit, HintSound, LearnedSound,
        RevokedForgotten, ConnectionsBound, StopsExplained

\* A row comes from an earlier one or belongs to an active member.
RowsCome ==
    \A x \in rows' : Learned(x) => \/ x.device \in activeMembers
                                   \/ \E q \in rows : x.device = q.device /\ x.kind = q.kind

LEMMA NothingComesBack ==
    ASSUME RowsCome, NEW m, m \notin activeMembers, LearnedOf(rows, m) = {}
    PROVE  LearnedOf(rows', m) = {}
  BY DEF RowsCome, LearnedOf, Of, Learned

LEMMA FreshComes ==
    ASSUME TableInv, NEW now \in Nat, rows' = Fresh(rows, now)
    PROVE  RowsCome
  <1>1. TableSound(rows, accepted, latest)
    BY DEF TableInv
  <1>2. \A x \in rows' : \E q \in rows : x = Stripped(q, now)
    BY <1>1, FreshRows
  <1>3. \A q \in rows : Stripped(q, now).device = q.device /\ Stripped(q, now).kind = q.kind
    BY <1>1, StrippedRow DEF TableSound, RowsTyped
  <1> QED BY <1>2, <1>3 DEF RowsCome

\* A step of the store that leaves the rest alone.
LEMMA RowsMayCome ==
    ASSUME RuntimeInv, RowsCome,
           UNCHANGED <<clock, latest, activeMembers, purged, selected, routes, learned, hint,
                       reconcile, connections, fatal, backs>>
    PROVE  RuntimeInv'
  <1>1. PassKept'
    <2>1. reconcile.phase = "purge" => reconcile.peer \notin activeMembers
      BY DEF RuntimeInv, PassKept, PassSound
    <2> QED BY <2>1, NothingComesBack DEF RuntimeInv, PassKept
  <1>2. RevokedForgotten'
    <2>1. \A m \in purged : LearnedOf(rows', m) = {}
      BY NothingComesBack DEF RuntimeInv, RevokedForgotten
    <2> QED BY <2>1 DEF RuntimeInv, RevokedForgotten, RoutesOf
  <1> QED BY <1>1, <1>2 DEF RuntimeInv, HintSound, LearnedSound, ConnectionsBound, StopsExplained

LEMMA StoreKeeps ==
    ASSUME EndpointInv, StoreNext
    PROVE  TableInv' /\ RuntimeInv'
  <1> USE DEF EndpointInv
  <1>1. UNCHANGED <<publisherVars, clock, latest, activeMembers, hintTTL, selected, routes, learned,
                   hint, reconcile, dial, connections, fatal, starts, backs>>
    BY DEF StoreNext
  <1>2. published' = published /\ ClockInv' /\ accepted \subseteq published
    BY <1>1 DEF TableInv, ClockInv, publisherVars
  <1>3. ASSUME NEW s \in published, ReplaceSet(s) PROVE TableInv' /\ RuntimeInv'
    <2>1. purged' = purged /\ Source \in activeMembers
      BY <1>3 DEF ReplaceSet
    <2>2. /\ TableSound(rows', accepted', latest) /\ MarkKept(rows', accepted', latest)
          /\ accepted' \subseteq published
          /\ \A x \in rows' : x.device = Source \/ \E q \in rows : x.device = q.device /\ x.kind = q.kind
      BY <1>3, ReplaceKeeps
    <2>3. RowsCome
      BY <2>1, <2>2 DEF RowsCome
    <2> QED BY <1>1, <1>2, <2>1, <2>2, <2>3, RowsMayCome DEF TableInv
  <1>4. ASSUME NEW m \in Members, NEW e \in Endpoints, AuthenticatedDial(m, e)
        PROVE  TableInv' /\ RuntimeInv'
    <2> DEFINE r == Row(m, "guess", e, NoSet, clock + GuessTTL)
    <2>1. Upsert(r) /\ m \in activeMembers /\ UNCHANGED <<accepted, purged>>
      BY <1>4 DEF AuthenticatedDial, UpsertAllowed, Row
    <2>2. clock \in Nat /\ latest \in Nat /\ clock <= latest /\ GuessTTL \in Nat
      BY EndpointAssumption DEF TableInv, ClockInv, EndpointAssumption
    <2>3. r \in EndpointRows /\ r.kind = "guess" /\ r.device = m /\ RowSound(r, accepted, latest)
      BY <2>2, NoSetType DEF Row, EndpointRows, RowSound
    <2> HIDE DEF r
    <2>4. /\ TableSound(rows', accepted, latest)
          /\ Source \in activeMembers => MarkKept(rows', accepted, latest)
          /\ \A x \in rows' : x = r \/ \E q \in rows : x.device = q.device /\ x.kind = q.kind
      BY <2>1, <2>3, UpsertKeeps
    <2>5. RowsCome
      BY <2>1, <2>3, <2>4 DEF RowsCome
    <2> QED BY <1>1, <1>2, <2>1, <2>4, <2>5, RowsMayCome DEF TableInv
  <1>5. ASSUME NEW m \in Members, NEW e \in Endpoints, AddManual(m, e) \/ RemoveManual(m, e)
        PROVE  TableInv' /\ RuntimeInv'
    <2>1. UNCHANGED <<accepted, purged>>
      BY <1>5 DEF AddManual, RemoveManual
    <2>2. /\ TableSound(rows', accepted, latest)
          /\ Source \in activeMembers => MarkKept(rows', accepted, latest)
          /\ \A x \in rows' : Learned(x) => \E q \in rows : x.device = q.device /\ x.kind = q.kind
      BY <1>5, ManualKeeps
    <2>3. RowsCome
      BY <2>2 DEF RowsCome
    <2> QED BY <1>1, <1>2, <2>1, <2>2, <2>3, RowsMayCome DEF TableInv
  <1> QED BY <1>3, <1>4, <1>5 DEF StoreNext

LEMMA FreshTable ==
    ASSUME PublisherInv, TableInv, NEW now \in Nat, now <= latest, rows' = Fresh(rows, now),
           UNCHANGED <<published, clock, latest, activeMembers, hintTTL, accepted, backs>>
    PROVE  TableInv'
  <1>1. ClockInv' /\ TableSound(rows, accepted, latest) /\ accepted' \subseteq published'
    BY DEF TableInv, ClockInv
  <1>2. TableSound(rows', accepted, latest)
    BY <1>1, FreshRows
  <1> QED BY <1>1, <1>2, FreshMark DEF TableInv

\* A purge takes nothing of an active member.
LEMMA PurgeTable ==
    ASSUME TableInv, NEW m \in Members, m \notin activeMembers, rows' = rows \ LearnedOf(rows, m),
           UNCHANGED <<published, clock, latest, activeMembers, hintTTL, accepted, backs>>
    PROVE  TableInv' /\ LearnedOf(rows', m) = {} /\ RowsCome
  <1>1. /\ ClockInv' /\ TableSound(rows, accepted, latest) /\ accepted' \subseteq published'
        /\ Source \in activeMembers => MarkKept(rows, accepted, latest)
    BY DEF TableInv, ClockInv
  <1>2. rows' \subseteq rows /\ LearnedOf(rows', m) = {}
    BY DEF LearnedOf, Of
  <1>3. RowsTyped(rows', accepted, latest)
    BY <1>1, <1>2, FS_Subset DEF TableSound, RowsTyped
  <1>4. \A r \in SignedRows(rows) : r.device = Source /\ Learned(r)
    BY <1>1 DEF TableSound, RowsTyped, RowSound, SignedRows, Learned
  <1>5. IF m = Source THEN SignedRows(rows') = {} ELSE SignedRows(rows') = SignedRows(rows)
    BY <1>2, <1>4 DEF SignedRows, LearnedOf, Of
  <1>6. Grouped(rows')
    BY <1>1, <1>5 DEF TableSound, Grouped
  <1>7. ManualCapped(rows')
    <2>1. \A d \in Members : ManualOf(rows', d) = ManualOf(rows, d)
      BY DEF ManualOf, Of, LearnedOf
    <2> QED BY <1>1, <2>1 DEF TableSound, ManualCapped
  <1>8. LearnedCapped(rows')
    <2>1. ASSUME NEW d \in Members PROVE Cardinality(LearnedOf(rows', d)) <= MemberCap
      <3>1. LearnedOf(rows', d) \subseteq LearnedOf(rows, d) /\ LearnedOf(rows, d) \subseteq rows
        BY <1>2 DEF LearnedOf, Of
      <3>2. IsFiniteSet(LearnedOf(rows, d)) /\ Cardinality(LearnedOf(rows, d)) <= MemberCap
        BY <1>1, <3>1, FS_Subset DEF TableSound, RowsTyped, LearnedCapped
      <3> QED BY <3>1, <3>2, StaysCapped, EndpointAssumption DEF EndpointAssumption
    <2>2. Cardinality(LearnedRows(rows')) <= SessionCap
      <3>1. LearnedRows(rows') \subseteq LearnedRows(rows) /\ LearnedRows(rows) \subseteq rows
        BY <1>2 DEF LearnedRows
      <3>2. IsFiniteSet(LearnedRows(rows)) /\ Cardinality(LearnedRows(rows)) <= SessionCap
        BY <1>1, <3>1, FS_Subset DEF TableSound, RowsTyped, LearnedCapped
      <3> QED BY <3>1, <3>2, StaysCapped, EndpointAssumption DEF EndpointAssumption
    <2> QED BY <2>1, <2>2 DEF LearnedCapped
  <1>9. ASSUME Source \in activeMembers PROVE MarkKept(rows', accepted, latest)
    <2>1. \A r \in SignedRows(rows) : r \in rows'
      BY <1>5, <1>9 DEF SignedRows
    <2> QED BY <1>1, <1>9, <2>1, MarkCarried
  <1>10. RowsCome
    BY <1>2 DEF RowsCome
  <1> QED BY <1>1, <1>2, <1>3, <1>6, <1>7, <1>8, <1>9, <1>10 DEF TableInv, TableSound

LEMMA RouteOfRow ==
    ASSUME NEW A, NEW L \in Nat, NEW r \in EndpointRows, RowSound(r, A, L)
    PROVE  Route(r) \in Routes /\ Route(r).peer = r.device /\ Lasts(Route(r), L)
  <1>1. r.kind \in {"signed", "guess", "raw", "manual"} /\ r.device \in Members /\ r.endpoint \in Endpoints
        /\ r.expires \in Nat
    BY DEF EndpointRows
  <1>2. /\ r.kind = "manual" => SourceOf(r.kind) = 1
        /\ r.kind = "signed" => SourceOf(r.kind) = 2
        /\ r.kind = "guess" => SourceOf(r.kind) = 3
        /\ r.kind = "raw" => SourceOf(r.kind) = 4
    BY DEF SourceOf
  <1>3. SourceOf(r.kind) \in 1 .. 4
    BY <1>1, <1>2
  <1>4. Route(r) \in Routes /\ Route(r).peer = r.device /\ Route(r).source = SourceOf(r.kind)
        /\ Route(r).expires = r.expires
    BY <1>1, <1>3 DEF Route, Routes
  <1> QED BY <1>1, <1>2, <1>4 DEF Lasts, Lifetime, RowSound

LEMMA ObstacleFound ==
    ASSUME NEW m, NEW k, NEW R
    PROVE  /\ Obstacle(m, k, R) = "unbound" => R # {} /\ ~selected.on
           /\ Obstacle(m, k, R) = "clock" => k # 1 /\ \E r \in R : r.expires - clock > Lifetime(k)
  BY DEF Obstacle

LEMMA PassStarts ==
    ASSUME EndpointInv, NEW by \in {"loop", "operator"}, StartReconcile(by),
           UNCHANGED <<published, clock, latest, activeMembers, hintTTL, accepted, backs,
                       learned, hint, connections>>
    PROVE  TableInv' /\ RuntimeInv'
  <1> USE DEF EndpointInv
  <1>1. clock \in Nat /\ clock <= latest /\ activeMembers \subseteq Members
    BY DEF TableInv, ClockInv
  <1>2. TableInv' /\ RowsCome
    BY <1>1, FreshTable, FreshComes DEF StartReconcile
  <1>3. Source \in Members
    BY EndpointAssumption DEF EndpointAssumption
  <1>4. /\ reconcile' \in Passes /\ reconcile'.phase = "members" /\ reconcile'.at = clock
        /\ reconcile'.found = {} /\ reconcile'.bound = selected.on
    <2> DEFINE all == by = "loop" /\ selected.pending
    <2>1. reconcile' = [NoPass EXCEPT !.phase = "members", !.at = clock, !.by = by,
                                    !.all = all, !.bound = selected.on]
      BY DEF StartReconcile
    <2>2. all \in BOOLEAN /\ selected.on \in BOOLEAN
      BY DEF RuntimeInv
    <2> HIDE DEF all
    <2>3. reconcile' = [phase |-> "members", at |-> clock, by |-> by, all |-> all, bound |-> selected.on,
                        members |-> {}, todo |-> {}, peer |-> Source, found |-> {}, next |-> 1]
      BY <2>1 DEF NoPass
    <2> QED BY <1>1, <1>3, <2>2, <2>3 DEF Passes
  <1>5. selected' \in [on : BOOLEAN, binds : Nat, pending : BOOLEAN] /\ selected'.on = selected.on
        /\ selected'.binds = selected.binds
    BY DEF StartReconcile, RuntimeInv
  <1>6. PassKept'
    BY <1>1, <1>4, <1>5 DEF PassKept, PassSound
  <1>7. RevokedForgotten'
    <2>1. \A m \in purged : LearnedOf(rows', m) = {}
      BY <1>2, NothingComesBack DEF RuntimeInv, RevokedForgotten
    <2> QED BY <2>1 DEF RuntimeInv, RevokedForgotten, RoutesOf, StartReconcile
  <1> QED BY <1>2, <1>5, <1>6, <1>7 DEF RuntimeInv, HintSound, LearnedSound, ConnectionsBound,
        StopsExplained, StartReconcile

LEMMA PassPurges ==
    ASSUME EndpointInv, ReadMembers \/ (\E m \in Members : PurgeRows(m)) \/ PurgeRoutes,
           UNCHANGED <<published, clock, latest, activeMembers, hintTTL, accepted, backs,
                       learned, hint, connections>>
    PROVE  TableInv' /\ RuntimeInv'
  <1> USE DEF EndpointInv
  <1>1. activeMembers \subseteq Members /\ reconcile \in Passes
    BY DEF TableInv, ClockInv, RuntimeInv, PassKept, PassSound
  <1>2. ASSUME rows' = rows PROVE TableInv'
    BY <1>2 DEF TableInv, ClockInv
  <1>3. ASSUME ReadMembers PROVE TableInv' /\ RuntimeInv'
    <2>1. /\ reconcile' = [reconcile EXCEPT !.phase = "peers", !.members = activeMembers, !.todo = Members]
          /\ reconcile.phase = "members" /\ UNCHANGED <<rows, purged, selected, routes, fatal>>
      BY <1>3 DEF ReadMembers
    <2>2. reconcile' \in Passes /\ reconcile'.phase = "peers" /\ reconcile'.members = activeMembers
          /\ reconcile'.bound = reconcile.bound /\ reconcile'.found = reconcile.found
          /\ reconcile'.by = reconcile.by /\ reconcile'.at = reconcile.at
      BY <1>1, <2>1 DEF Passes
    <2>3. PassKept'
      BY <2>1, <2>2 DEF RuntimeInv, PassKept, PassSound
    <2> QED BY <1>2, <2>1, <2>3 DEF RuntimeInv, HintSound, LearnedSound, ConnectionsBound,
          StopsExplained, RevokedForgotten, RoutesOf
  <1>4. ASSUME NEW m \in Members, PurgeRows(m) PROVE TableInv' /\ RuntimeInv'
    <2>1. /\ reconcile' = [reconcile EXCEPT !.phase = "purge", !.peer = m]
          /\ reconcile.phase = "peers" /\ m \notin reconcile.members
          /\ rows' = rows \ LearnedOf(rows, m) /\ UNCHANGED <<purged, selected, routes, fatal>>
      BY <1>4 DEF PurgeRows
    <2>2. m \notin activeMembers
      BY <2>1 DEF RuntimeInv, PassKept, PassSound
    <2>3. TableInv' /\ LearnedOf(rows', m) = {} /\ RowsCome
      BY <2>1, <2>2, PurgeTable
    <2>4. /\ reconcile' \in Passes /\ reconcile'.phase = "purge" /\ reconcile'.members = reconcile.members
          /\ reconcile'.bound = reconcile.bound /\ reconcile'.found = reconcile.found
          /\ reconcile'.by = reconcile.by /\ reconcile'.at = reconcile.at /\ reconcile'.peer = m
      BY <1>1, <2>1 DEF Passes
    <2>5. PassKept'
      BY <2>1, <2>3, <2>4 DEF RuntimeInv, PassKept, PassSound
    <2>6. \A d \in purged : LearnedOf(rows', d) = {}
      BY <2>3, NothingComesBack DEF RuntimeInv, RevokedForgotten
    <2> QED BY <2>1, <2>3, <2>5, <2>6 DEF RuntimeInv, HintSound, LearnedSound, ConnectionsBound,
          StopsExplained, RevokedForgotten, RoutesOf
  <1>5. ASSUME PurgeRoutes PROVE TableInv' /\ RuntimeInv'
    <2>1. /\ reconcile' = [reconcile EXCEPT !.phase = "peers", !.todo = @ \ {reconcile.peer}]
          /\ reconcile.phase = "purge" /\ routes' = routes \ RoutesOf(routes, reconcile.peer)
          /\ purged' = purged \cup {reconcile.peer} /\ UNCHANGED <<rows, selected, fatal>>
      BY <1>5 DEF PurgeRoutes
    <2>2. /\ reconcile.peer \notin reconcile.members /\ reconcile.peer \in Members
          /\ LearnedOf(rows, reconcile.peer) = {} /\ activeMembers \subseteq reconcile.members
      BY <1>1, <2>1 DEF RuntimeInv, PassKept, PassSound, Passes
    <2>3. /\ reconcile' \in Passes /\ reconcile'.phase = "peers" /\ reconcile'.members = reconcile.members
          /\ reconcile'.bound = reconcile.bound /\ reconcile'.found = reconcile.found
          /\ reconcile'.by = reconcile.by /\ reconcile'.at = reconcile.at
      BY <1>1, <2>1 DEF Passes
    <2>4. PassKept'
      BY <2>1, <2>2, <2>3 DEF RuntimeInv, PassKept, PassSound
    <2>5. RevokedForgotten'
      BY <2>1, <2>2 DEF RuntimeInv, RevokedForgotten, RoutesOf
    <2>6. purged' \subseteq Members /\ purged' \cap activeMembers' = {}
      BY <2>1, <2>2 DEF RuntimeInv
    <2> QED BY <1>2, <2>1, <2>4, <2>5, <2>6 DEF RuntimeInv, HintSound, LearnedSound, ConnectionsBound, StopsExplained
  <1> QED BY <1>3, <1>4, <1>5

LEMMA PassLists ==
    ASSUME EndpointInv, NEW m \in Members, ListCandidates(m),
           UNCHANGED <<published, clock, latest, activeMembers, hintTTL, accepted, backs,
                       learned, hint, connections>>
    PROVE  TableInv' /\ RuntimeInv'
  <1> USE DEF EndpointInv
  <1>1. /\ reconcile \in Passes /\ reconcile.at \in Nat /\ reconcile.at <= latest /\ latest \in Nat
        /\ activeMembers \subseteq Members
    BY DEF TableInv, ClockInv, RuntimeInv, PassKept, PassSound, Passes
  <1> DEFINE found == IF reconcile.bound THEN {Route(r) : r \in Best(Of(rows', m))} ELSE {}
  <1>2. /\ reconcile.phase = "peers" /\ m \in reconcile.members /\ rows' = Fresh(rows, reconcile.at)
        /\ reconcile' = [reconcile EXCEPT !.phase = "install", !.peer = m, !.next = 1, !.found = found]
        /\ UNCHANGED <<purged, selected, routes, fatal>>
    BY DEF ListCandidates
  <1>3. TableInv' /\ RowsCome
    BY <1>1, <1>2, FreshTable, FreshComes
  <1>4. \A r \in found : r \in Routes /\ r.peer = m /\ Lasts(r, latest)
    <2>1. SUFFICES ASSUME NEW r \in Best(Of(rows', m))
          PROVE  Route(r) \in Routes /\ Route(r).peer = m /\ Lasts(Route(r), latest)
      OBVIOUS
    <2>2. r \in rows' /\ r.device = m
      BY DEF Best, Of
    <2>3. r \in EndpointRows /\ RowSound(r, accepted, latest)
      BY <1>3, <2>2 DEF TableInv, TableSound, RowsTyped
    <2> QED BY <1>1, <2>2, <2>3, RouteOfRow
  <1>5. ~reconcile.bound => found = {}
    OBVIOUS
  <1> HIDE DEF found
  <1>6. /\ reconcile' \in Passes /\ reconcile'.phase = "install" /\ reconcile'.peer = m
        /\ reconcile'.members = reconcile.members /\ reconcile'.found = found
        /\ reconcile'.bound = reconcile.bound /\ reconcile'.by = reconcile.by /\ reconcile'.at = reconcile.at
    <2>1. found \in SUBSET Routes
      BY <1>4
    <2>2. reconcile' = [reconcile EXCEPT !.phase = "install", !.peer = m, !.next = 1, !.found = found]
      BY <1>2
    <2>3. 1 \in 1 .. 4
      OBVIOUS
    <2> QED BY <1>1, <2>1, <2>2, <2>3 DEF Passes
  <1>7. PassKept'
    BY <1>2, <1>4, <1>5, <1>6 DEF RuntimeInv, PassKept, PassSound
  <1>8. \A d \in purged : LearnedOf(rows', d) = {}
    BY <1>3, NothingComesBack DEF RuntimeInv, RevokedForgotten
  <1> QED BY <1>2, <1>3, <1>7, <1>8 DEF RuntimeInv, HintSound, LearnedSound, ConnectionsBound,
        StopsExplained, RevokedForgotten, RoutesOf

LEMMA NoPassSound ==
    ASSUME ClockInv
    PROVE  /\ PassSound(NoPass, activeMembers) /\ NoPass.phase = "idle" /\ NoPass.at <= latest
           /\ NoPass.found = {}
  <1>1. Source \in Members
    BY EndpointAssumption DEF EndpointAssumption
  <1>2. NoPass \in Passes
    BY <1>1 DEF NoPass, Passes
  <1> QED BY <1>2 DEF PassSound, NoPass, ClockInv

\* A pass of the loop finds its address bound and its routes within their lifetimes.
LEMMA PassInstalls ==
    ASSUME EndpointInv, fatal = "none", InstallRoutes \/ EndReconcile,
           UNCHANGED <<published, clock, latest, activeMembers, hintTTL, accepted, backs,
                       learned, hint, connections>>
    PROVE  TableInv' /\ RuntimeInv'
  <1> USE DEF EndpointInv
  <1>1. /\ reconcile \in Passes /\ ClockInv /\ ClockInv' /\ UNCHANGED <<rows, purged, selected>>
    BY DEF TableInv, ClockInv, RuntimeInv, PassKept, PassSound, InstallRoutes, EndReconcile
  <1>2. TableInv'
    BY <1>1 DEF TableInv
  <1>3. ASSUME reconcile' = NoPass PROVE PassKept'
    BY <1>1, <1>3, NoPassSound DEF PassKept, ClockInv
  <1>4. ASSUME PassKept', StopsExplained',
               \A d \in purged : RoutesOf(routes', d) \subseteq RoutesOf(routes, d)
        PROVE  RuntimeInv'
    BY <1>1, <1>4 DEF RuntimeInv, HintSound, LearnedSound, ConnectionsBound, RevokedForgotten
  <1>5. ASSUME EndReconcile PROVE RuntimeInv'
    BY <1>3, <1>4, <1>5 DEF EndReconcile, LiveRoutes, RoutesOf, RuntimeInv, StopsExplained
  <1>6. ASSUME InstallRoutes PROVE RuntimeInv'
    <2> DEFINE m == reconcile.peer
               k == reconcile.next
               R == {r \in reconcile.found : r.source = k}
    <2>1. /\ reconcile.phase = "install"
          /\ \/ /\ routes' = Replaced(m, k, R) \/ routes' = routes
                /\ \/ k < 4 /\ reconcile' = [reconcile EXCEPT !.next = @ + 1]
                   \/ reconcile' = [reconcile EXCEPT !.phase = "peers", !.todo = @ \ {m}]
                /\ UNCHANGED fatal
             \/ /\ reconcile' = NoPass /\ UNCHANGED routes
                /\ \/ UNCHANGED fatal
                   \/ reconcile.by = "loop" /\ fatal' = Obstacle(m, k, R)
      BY <1>6 DEF InstallRoutes
    <2>2. /\ m \in reconcile.members /\ m \notin purged /\ k \in 1 .. 4
          /\ \A r \in reconcile.found : r.peer = m /\ Lasts(r, latest) /\ r.expires \in Nat
      BY <1>1, <2>1 DEF RuntimeInv, PassKept, PassSound, Passes, Routes
    <2>3. CASE reconcile' # NoPass
      <3>1. \A d \in purged : RoutesOf(routes', d) \subseteq RoutesOf(routes, d)
        BY <2>1, <2>2, <2>3 DEF Replaced, RoutesOf
      <3>2. /\ reconcile' \in Passes /\ reconcile'.phase \in {"install", "peers"}
            /\ reconcile'.peer = m /\ reconcile'.members = reconcile.members
            /\ reconcile'.found = reconcile.found /\ reconcile'.by = reconcile.by
            /\ reconcile'.bound = reconcile.bound /\ reconcile'.at = reconcile.at
        <4>1. CASE k < 4 /\ reconcile' = [reconcile EXCEPT !.next = @ + 1]
          BY <1>1, <2>1, <2>2, <4>1 DEF Passes
        <4>2. CASE reconcile' = [reconcile EXCEPT !.phase = "peers", !.todo = @ \ {m}]
          BY <1>1, <2>1, <4>2 DEF Passes
        <4> QED BY <2>1, <2>3, <4>1, <4>2
      <3>3. PassKept'
        BY <1>1, <2>1, <2>2, <3>2 DEF RuntimeInv, PassKept, PassSound
      <3>4. StopsExplained'
        BY <2>1, <2>3 DEF RuntimeInv, StopsExplained
      <3> QED BY <1>4, <3>1, <3>3, <3>4
    <2>4. CASE reconcile' = NoPass
      <3>1. \A d \in purged : RoutesOf(routes', d) \subseteq RoutesOf(routes, d)
        BY <2>1, <2>2 DEF Replaced, RoutesOf
      <3>2. ASSUME reconcile.by = "loop" PROVE Obstacle(m, k, R) # "unbound"
        <4>1. reconcile.bound = selected.on /\ (~reconcile.bound => reconcile.found = {})
          BY <2>1, <3>2 DEF RuntimeInv, PassKept, PassSound
        <4>2. R # {} => selected.on
          BY <4>1
        <4> HIDE DEF R, m, k
        <4> QED BY <4>2, ObstacleFound
      <3>3. Obstacle(m, k, R) = "clock" => backs > 0
        <4>1. SUFFICES ASSUME Obstacle(m, k, R) = "clock", backs = 0 PROVE FALSE
          BY <1>1 DEF ClockInv
        <4>2. k # 1 /\ \E r \in R : r.expires - clock > Lifetime(k)
          <5> HIDE DEF R, m, k
          <5> QED BY <4>1, ObstacleFound
        <4>3. PICK r \in R : r.expires - clock > Lifetime(k)
          BY <4>2
        <4>4. clock = latest /\ clock \in Nat /\ Lifetime(k) \in Nat
          BY <1>1, <4>1, EndpointAssumption DEF ClockInv, Lifetime, EndpointAssumption
        <4>5. r.expires \in Nat /\ r.expires <= latest + Lifetime(k)
          BY <2>2, <4>2 DEF Lasts
        <4> QED BY <4>3, <4>4, <4>5
      <3>4. StopsExplained'
        <4> HIDE DEF R, m, k
        <4> QED BY <2>1, <3>2, <3>3 DEF RuntimeInv, StopsExplained
      <3> QED BY <1>3, <1>4, <2>4, <3>1, <3>4
    <2> QED BY <2>3, <2>4
  <1> QED BY <1>2, <1>5, <1>6

\* The discovery service remembers what it routes, for members and revoked ones alike.
LEMMA DiscoveryKeeps ==
    ASSUME EndpointInv, fatal = "none", DiscoveryNext,
           UNCHANGED <<published, clock, latest, activeMembers, hintTTL, backs>>
    PROVE  TableInv' /\ RuntimeInv'
  <1> USE DEF EndpointInv
  <1>1. /\ UNCHANGED <<selected, reconcile, connections, accepted, purged>>
        /\ clock \in Nat /\ latest \in Nat /\ clock <= latest /\ RawTTL \in Nat /\ activeMembers \subseteq Members
        /\ ClockInv'
    BY EndpointAssumption DEF DiscoveryNext, AcceptHint, ObserveRaw, LearnRoute, MaintainRoutes, tableVars,
       TableInv, ClockInv, EndpointAssumption
  <1>2. ASSUME rows' = rows PROVE TableInv' /\ PassKept'
    BY <1>1, <1>2 DEF TableInv, RuntimeInv, PassKept
  <1>3. ASSUME NEW m \in Members, NEW e \in Endpoints, NEW ttl \in 1 .. RawTTL, AcceptHint(m, e, ttl)
        PROVE  TableInv' /\ RuntimeInv'
    <2>1. UNCHANGED <<rows, routes, learned, fatal>>
      BY <1>3 DEF AcceptHint, tableVars
    <2>2. HintSound'
      <3>1. hint' = [stage |-> "accepted", at |-> clock,
                     route |-> [peer |-> m, source |-> 4, endpoint |-> e, expires |-> clock + ttl]]
        BY <1>3 DEF AcceptHint
      <3>2. ttl \in Nat /\ ttl <= RawTTL
        BY <1>1
      <3> QED BY <1>1, <3>1, <3>2 DEF HintSound, Routes
    <2> QED BY <1>1, <1>2, <2>1, <2>2 DEF RuntimeInv, LearnedSound, ConnectionsBound, StopsExplained,
          RevokedForgotten, RoutesOf
  <1>4. ASSUME ObserveRaw PROVE TableInv' /\ RuntimeInv'
    <2> DEFINE g == hint.route
               r == Row(g.peer, "raw", g.endpoint, NoSet, g.expires)
    <2>1. hint # NoHint /\ UNCHANGED <<routes, learned>>
      BY <1>4 DEF ObserveRaw, NoHint
    <2>2. g \in Routes /\ g.expires \in Nat /\ g.expires <= latest + RawTTL /\ g.peer \in Members
          /\ g.endpoint \in Endpoints
      BY <2>1 DEF RuntimeInv, HintSound, Routes
    <2>3. HintSound'
      BY <1>1, <1>4, <2>1 DEF ObserveRaw, RuntimeInv, HintSound, NoHint
    <2>4. StopsExplained'
      BY <1>1, <1>4 DEF ObserveRaw, StopsExplained, RuntimeInv
    <2>5. rows' = rows \/ (UpsertAllowed(r) /\ Upsert(r))
      BY <1>4 DEF ObserveRaw
    <2>6. CASE rows' = rows
      BY <1>1, <1>2, <2>1, <2>3, <2>4, <2>6 DEF RuntimeInv, LearnedSound, ConnectionsBound,
         RevokedForgotten, RoutesOf
    <2>7. ASSUME UpsertAllowed(r), Upsert(r) PROVE TableInv' /\ RuntimeInv'
      <3>1. r \in EndpointRows /\ r.kind = "raw" /\ r.device = g.peer /\ RowSound(r, accepted, latest)
        BY <1>1, <2>2, NoSetType DEF Row, EndpointRows, RowSound
      <3>2. r.device \in activeMembers
        BY <2>7 DEF UpsertAllowed
      <3> HIDE DEF r, g
      <3>3. /\ TableSound(rows', accepted, latest)
            /\ Source \in activeMembers => MarkKept(rows', accepted, latest)
            /\ \A x \in rows' : x = r \/ \E q \in rows : x.device = q.device /\ x.kind = q.kind
        BY <2>7, <3>1, UpsertKeeps
      <3>4. RowsCome
        BY <3>2, <3>3 DEF RowsCome
      <3>5. TableInv'
        BY <1>1, <3>3 DEF TableInv
      <3>6. PassKept'
        <4>1. reconcile.phase = "purge" => reconcile.peer \notin activeMembers
          BY DEF RuntimeInv, PassKept, PassSound
        <4> QED BY <1>1, <3>4, <4>1, NothingComesBack DEF RuntimeInv, PassKept
      <3>7. \A m \in purged : LearnedOf(rows', m) = {}
        BY <3>4, NothingComesBack DEF RuntimeInv, RevokedForgotten
      <3> QED BY <1>1, <2>1, <2>3, <2>4, <3>5, <3>6, <3>7 DEF RuntimeInv, LearnedSound, ConnectionsBound,
            RevokedForgotten, RoutesOf
    <2> QED BY <2>5, <2>6, <2>7
  <1>5. ASSUME LearnRoute PROVE TableInv' /\ RuntimeInv'
    <2> DEFINE g == hint.route
               m == g.peer
    <2>1. /\ hint # NoHint /\ hint' = NoHint /\ UNCHANGED <<rows, fatal>>
          /\ \/ UNCHANGED <<routes, learned>>
             \/ \E N \in SUBSET learned[m] :
                   /\ learned' = [learned EXCEPT ![m] = N \cup {g}]
                   /\ routes' = Replaced(m, 4, N \cup {g})
      BY <1>5 DEF LearnRoute, NoHint, tableVars
    <2>2. g \in Routes /\ m \in Members /\ g.source = 4
      BY <2>1 DEF RuntimeInv, HintSound, Routes
    <2>3. HintSound'
      BY <2>1 DEF HintSound
    <2>4. CASE UNCHANGED <<routes, learned>>
      BY <1>1, <1>2, <2>1, <2>3, <2>4 DEF RuntimeInv, LearnedSound, ConnectionsBound, StopsExplained,
         RevokedForgotten, RoutesOf
    <2>5. ASSUME NEW N \in SUBSET learned[m], learned' = [learned EXCEPT ![m] = N \cup {g}],
                 routes' = Replaced(m, 4, N \cup {g})
          PROVE  TableInv' /\ RuntimeInv'
      <3>1. \A r \in N : r \in Routes /\ r.peer = m /\ r.source = 4
        BY <2>2, <2>5 DEF RuntimeInv, LearnedSound
      <3>2. /\ DOMAIN learned' = Members /\ learned'[m] = N \cup {g}
            /\ \A d \in Members \ {m} : learned'[d] = learned[d]
        BY <2>2, <2>5 DEF RuntimeInv, LearnedSound
      <3>3. LearnedSound'
        BY <2>2, <3>1, <3>2 DEF RuntimeInv, LearnedSound
      <3>4. ASSUME NEW d \in purged PROVE \A r \in RoutesOf(routes', d) : r.source = 4 /\ r \in learned'[d]
        <4>1. \A r \in RoutesOf(routes, d) : r.source = 4 /\ r \in learned[d]
          BY DEF RuntimeInv, RevokedForgotten
        <4>2. d \in Members
          BY DEF RuntimeInv
        <4>3. CASE d = m
          BY <2>2, <2>5, <3>1, <3>2, <4>1, <4>3 DEF RoutesOf, Replaced
        <4>4. CASE d # m
          BY <2>2, <2>5, <3>1, <3>2, <4>1, <4>2, <4>4 DEF RoutesOf, Replaced
        <4> QED BY <4>3, <4>4
      <3>5. RevokedForgotten'
        BY <1>1, <2>1, <3>4 DEF RuntimeInv, RevokedForgotten
      <3> QED BY <1>1, <1>2, <2>1, <2>3, <3>3, <3>5 DEF RuntimeInv, ConnectionsBound, StopsExplained
    <2> QED BY <2>1, <2>4, <2>5
  <1>6. ASSUME MaintainRoutes PROVE TableInv' /\ RuntimeInv'
    <2>1. /\ UNCHANGED <<rows, hint, fatal>>
          /\ learned' = [d \in Members |-> IF d \in activeMembers THEN {r \in learned[d] : r.expires > clock} ELSE {}]
          /\ routes' = LiveRoutes({r \in routes : r.source # 4 \/ r.peer \in activeMembers \/ learned[r.peer] = {}})
      BY <1>6 DEF MaintainRoutes, tableVars
    <2>2. LearnedSound'
      BY <2>1 DEF RuntimeInv, LearnedSound
    <2>3. ASSUME NEW d \in purged PROVE RoutesOf(routes', d) = {}
      <3>1. d \notin activeMembers /\ \A r \in RoutesOf(routes, d) : r.source = 4 /\ r \in learned[d]
        BY DEF RuntimeInv, RevokedForgotten
      <3> QED BY <2>1, <3>1 DEF RoutesOf, LiveRoutes
    <2>4. RevokedForgotten'
      BY <1>1, <2>1, <2>3 DEF RuntimeInv, RevokedForgotten
    <2> QED BY <1>1, <1>2, <2>1, <2>2, <2>4 DEF RuntimeInv, HintSound, ConnectionsBound, StopsExplained
  <1> QED BY <1>3, <1>4, <1>5, <1>6 DEF DiscoveryNext

LEMMA DialKeeps ==
    ASSUME EndpointInv, DialNext,
           UNCHANGED <<published, clock, latest, activeMembers, hintTTL, backs>>
    PROVE  TableInv' /\ RuntimeInv'
  <1> USE DEF EndpointInv
  <1>1. UNCHANGED <<rows, accepted, purged, learned, hint, reconcile, fatal>>
    BY DEF DialNext, tableVars
  <1>2. TableInv'
    BY <1>1 DEF TableInv, ClockInv
  <1>3. routes' \subseteq routes
    BY DEF DialNext, Rebind, PrepareDial, FinishDial, LiveRoutes
  <1>4. RevokedForgotten'
    BY <1>1, <1>3 DEF RuntimeInv, RevokedForgotten, RoutesOf
  <1>5. ASSUME NEW on \in BOOLEAN, Rebind(on) PROVE RuntimeInv'
    <2>1. selected' = [on |-> on, binds |-> selected.binds + 1, pending |-> TRUE] /\ connections' = {}
          /\ (reconcile.phase = "idle" \/ reconcile.by = "operator")
      BY <1>5 DEF Rebind
    <2>2. selected' \in [on : BOOLEAN, binds : Nat, pending : BOOLEAN]
      BY <2>1 DEF RuntimeInv
    <2>3. PassKept'
      BY <1>1, <2>1 DEF RuntimeInv, PassKept
    <2> QED BY <1>1, <1>4, <2>1, <2>2, <2>3 DEF RuntimeInv, HintSound, LearnedSound, ConnectionsBound, StopsExplained
  <1>6. ASSUME (\E e \in Endpoints : PrepareDial(e)) \/ FinishDial PROVE RuntimeInv'
    <2>1. /\ selected' = selected
          /\ \A c \in connections' : c \in connections \/ (selected.on /\ c.binds = selected.binds)
      BY <1>6 DEF PrepareDial, FinishDial, SameSelection
    <2>2. PassKept'
      BY <1>1, <2>1 DEF RuntimeInv, PassKept
    <2> QED BY <1>1, <1>4, <2>1, <2>2 DEF RuntimeInv, HintSound, LearnedSound, ConnectionsBound, StopsExplained
  <1> QED BY <1>2, <1>5, <1>6 DEF DialNext

\* Time passes or goes back, members leave, the policy changes.
LEMMA EnvironmentKeeps ==
    ASSUME EndpointInv, EnvironmentNext
    PROVE  TableInv' /\ RuntimeInv'
  <1> USE DEF EndpointInv
  <1>1. /\ UNCHANGED <<published, rows, accepted, purged, routes, learned, hint, reconcile, selected,
                       connections, fatal>>
    BY DEF EnvironmentNext, publisherVars, tableVars, routeVars
  <1>2. /\ ClockInv' /\ latest \in Nat /\ latest' \in Nat /\ latest <= latest'
        /\ activeMembers' \subseteq activeMembers /\ backs \in Nat /\ backs' \in Nat /\ backs <= backs'
    <2>1. clock \in Nat /\ latest \in Nat /\ backs \in Nat /\ clock <= latest
          /\ (backs = 0 => clock = latest) /\ activeMembers \subseteq Members /\ hintTTL \in HintTTLs
      BY DEF TableInv, ClockInv
    <2>2. CASE Later /\ backs' = (IF clock' < clock THEN backs + 1 ELSE backs)
               /\ latest' = (IF clock' > latest THEN clock' ELSE latest) /\ UNCHANGED <<activeMembers, hintTTL>>
      BY <2>1, <2>2 DEF Later, ClockInv
    <2>3. CASE SetBack /\ backs' = (IF clock' < clock THEN backs + 1 ELSE backs)
               /\ latest' = (IF clock' > latest THEN clock' ELSE latest) /\ UNCHANGED <<activeMembers, hintTTL>>
      BY <2>1, <2>3 DEF SetBack, ClockInv
    <2>4. CASE \E m \in activeMembers : activeMembers' = activeMembers \ {m} /\ UNCHANGED <<clock, latest, hintTTL, backs>>
      BY <2>1, <2>4 DEF ClockInv
    <2>5. CASE \E t \in HintTTLs \ {hintTTL} : hintTTL' = t /\ UNCHANGED <<clock, latest, activeMembers, backs>>
      BY <2>1, <2>5 DEF ClockInv
    <2> QED BY <2>2, <2>3, <2>4, <2>5 DEF EnvironmentNext
  <1>3. TableSound(rows', accepted', latest')
    BY <1>1, <1>2, SoundStays DEF TableInv
  <1>4. ASSUME Source \in activeMembers' PROVE MarkKept(rows', accepted', latest')
    <2>1. MarkKept(rows, accepted, latest)
      BY <1>2, <1>4 DEF TableInv
    <2>2. \A s \in accepted : s.expires \in Int
      BY DEF TableInv, PublisherInv, PublisherTypeOK, EndpointSets
    <2>3. SUFFICES ASSUME NEW s \in accepted, s.expires > latest'
          PROVE  Covered(s, rows) \/ \E t \in accepted : s.seq < t.seq /\ t.expires <= latest'
      BY <1>1 DEF MarkKept
    <2>4. s.expires > latest
      BY <1>2, <2>2, <2>3
    <2>5. Covered(s, rows) \/ \E t \in accepted : s.seq < t.seq /\ t.expires <= latest
      BY <2>1, <2>4 DEF MarkKept
    <2> QED BY <1>2, <2>2, <2>5
  <1>5. \A r \in Routes : Lasts(r, latest) => Lasts(r, latest')
    BY <1>2, EndpointAssumption DEF Lasts, Routes, Lifetime, EndpointAssumption
  <1>6. PassKept'
    <2>1. reconcile \in Passes /\ reconcile.at \in Nat /\ reconcile.found \subseteq Routes
      BY DEF RuntimeInv, PassKept, PassSound, Passes
    <2>2. reconcile'.at <= latest' /\ \A r \in reconcile'.found : Lasts(r, latest')
      BY <1>1, <1>2, <1>5, <2>1 DEF RuntimeInv, PassKept
    <2>3. PassSound(reconcile', activeMembers')
      BY <1>1, <1>2 DEF RuntimeInv, PassKept, PassSound
    <2> QED BY <1>1, <2>2, <2>3 DEF RuntimeInv, PassKept
  <1>7. HintSound'
    <2>1. hint # NoHint => hint.route.expires \in Nat
      BY DEF RuntimeInv, HintSound, Routes
    <2> QED BY <1>1, <1>2, <2>1, EndpointAssumption DEF RuntimeInv, HintSound, EndpointAssumption
  <1>8. StopsExplained'
    BY <1>1, <1>2 DEF RuntimeInv, StopsExplained
  <1> QED BY <1>1, <1>2, <1>3, <1>4, <1>6, <1>7, <1>8 DEF TableInv, RuntimeInv, LearnedSound,
        ConnectionsBound, RevokedForgotten, RoutesOf

LEMMA EndpointStepSound ==
    ASSUME EndpointInv, [EndpointNext]_endpointVars
    PROVE  EndpointInv'
  <1>1. PublisherInv'
    BY PublisherStep DEF EndpointInv
  <1>2. ASSUME published \subseteq published',
               UNCHANGED <<clock, latest, activeMembers, hintTTL, tableVars, routeVars, fatal, backs>>
        PROVE  TableInv' /\ RuntimeInv'
    BY <1>2 DEF EndpointInv, TableInv, ClockInv, RuntimeInv, PassKept, HintSound, LearnedSound,
       RevokedForgotten, RoutesOf, ConnectionsBound, StopsExplained, tableVars, routeVars
  <1>3. CASE PublisherNext
    <2>1. published \subseteq published'
      BY <1>3 DEF PublisherNext, BeginRefresh, PublishSet, RefreshFailed, AllocateSequence, Withdraw,
         PublisherRestarts
    <2> QED BY <1>1, <1>2, <1>3, <2>1 DEF PublisherNext, EndpointInv
  <1>4. CASE StoreNext
    BY <1>1, <1>4, StoreKeeps DEF EndpointInv
  <1>5. CASE EnvironmentNext
    BY <1>1, <1>5, EnvironmentKeeps DEF EndpointInv
  <1>6. CASE RuntimeNext
    <2>1. fatal = "none" /\ UNCHANGED <<published, clock, latest, activeMembers, hintTTL, backs>>
      BY <1>6 DEF RuntimeNext, publisherVars
    <2>2. ASSUME ReconcileNext PROVE TableInv' /\ RuntimeInv'
      <3>1. UNCHANGED <<accepted, learned, hint, connections>>
        BY <2>2 DEF ReconcileNext
      <3> QED BY <2>1, <2>2, <3>1, PassStarts, PassPurges, PassLists, PassInstalls DEF ReconcileNext
    <2> QED BY <1>1, <1>6, <2>1, <2>2, DiscoveryKeeps, DialKeeps DEF RuntimeNext, EndpointInv
  <1>7. CASE UNCHANGED endpointVars
    <2>1. UNCHANGED <<published, clock, latest, activeMembers, hintTTL, tableVars, routeVars, fatal, backs>>
      BY <1>7 DEF endpointVars, publisherVars
    <2> QED BY <1>1, <1>2, <2>1 DEF EndpointInv
  <1> QED BY <1>3, <1>4, <1>5, <1>6, <1>7 DEF EndpointNext

LEMMA EndpointInvSuffices == EndpointInv => EndpointsSound
  <1> SUFFICES ASSUME EndpointInv PROVE EndpointsSound
    OBVIOUS
  <1>1. PublicationsOrdered /\ RevokedForgotten /\ ConnectionsBound /\ StopsExplained
    BY DEF EndpointInv, PublisherInv, RuntimeInv
  <1>2. TableSound(rows, accepted, latest) /\ \A r \in SignedRows(rows) : r.device = Source
    BY DEF EndpointInv, TableInv, TableSound, RowsTyped, RowSound, SignedRows
  <1>3. LatestKept
    <2>1. SUFFICES ASSUME Source \in activeMembers, NEW s \in accepted, s.expires > latest
          PROVE  \/ \E t \in CurrentSets(rows, Source) : s.seq <= t.seq
                 \/ \E t \in accepted : s.seq < t.seq /\ t.expires <= latest
      BY DEF LatestKept
    <2>2. Covered(s, rows) \/ \E t \in accepted : s.seq < t.seq /\ t.expires <= latest
      BY <2>1 DEF EndpointInv, TableInv, MarkKept
    <2>3. ASSUME NEW r \in SignedRows(rows), r.set # NoSet PROVE r.set \in CurrentSets(rows, Source)
      BY <1>2, <2>3 DEF CurrentSets, Of, SignedRows
    <2> QED BY <2>2, <2>3 DEF Covered
  <1>4. TableValid
    <2>1. ASSUME NEW m \in Members,
                 NEW r \in {x \in Of(rows, m) : x.kind = "signed"}, r.set # NoSet
          PROVE  LET signed == {x \in Of(rows, m) : x.kind = "signed"}
                 IN /\ \A q \in signed : q.set = r.set /\ q.observed = r.observed
                    /\ {q.endpoint : q \in signed} = r.set.endpoints
      <3>1. r \in SignedRows(rows) /\ m = Source
        BY <1>2 DEF SignedRows, Of
      <3>2. {x \in Of(rows, m) : x.kind = "signed"} = SignedRows(rows)
        BY <1>2, <3>1 DEF SignedRows, Of
      <3>3. /\ \A q \in SignedRows(rows) : q.set = r.set /\ q.observed = r.observed
            /\ {q.endpoint : q \in SignedRows(rows)} = r.set.endpoints
        BY <1>2, <2>1, <3>1 DEF TableSound, Grouped
      <3> QED BY <3>2, <3>3
    <2>2. \A m \in Members : /\ Cardinality(LearnedOf(rows, m)) <= MemberCap
                             /\ Cardinality(Of(rows, m) \ LearnedOf(rows, m)) <= ManualCap
      BY <1>2 DEF TableSound, LearnedCapped, ManualCapped, ManualOf
    <2>3. Cardinality({r \in rows : Learned(r)}) <= SessionCap
      BY <1>2 DEF TableSound, LearnedCapped, LearnedRows
    <2> QED BY <2>1, <2>2, <2>3 DEF TableValid
  <1> QED BY <1>1, <1>3, <1>4 DEF EndpointsSound

\* Whatever sets, datagrams and dials a daemon sees, late, twice or in any order, whatever
\* its clock does, who is revoked and how its address is rebound: what it publishes is
\* ordered, its table of endpoints is one no later read takes for corrupt, it keeps the
\* latest set it took, forgets who was revoked, and its runtime stops for none of this
\* but a clock that was set back.
THEOREM EndpointsAreSound == EndpointSpec => []EndpointsSound
  BY EndpointInitSound, EndpointStepSound, EndpointInvSuffices, PTL DEF EndpointSpec
=============================================================================
