-------------------------- MODULE CredentialRenewal --------------------------
(***************************************************************************)
(* How one device renews its content credential.  Its credential service   *)
(* makes an epoch key, keeps it in the native store and asks the cluster to *)
(* authorize it; the leader takes a cut of its applied state, collects the  *)
(* clock endorsements of the credential authority, submits the              *)
(* authorization through its durable outbox and answers once it is applied. *)
(* An answer may be lost while the submission goes on, the next attempt     *)
(* meets the result of the one before, leaders change, every replica        *)
(* applies the log at its own pace, and the device may be revoked, closed   *)
(* or crash at any step.                                                    *)
(*                                                                          *)
(* The committed log is the sequence of the states it leads through, as far *)
(* as the renewal reads them; a replica's view is a position in it.         *)
(***************************************************************************)
EXTENDS Integers, FiniteSets, Sequences

CONSTANTS
    Nodes,              \* the devices that run Raft
    Subjects,           \* the devices whose renewal is followed, one per behaviour
    AuthoritySets,      \* the sets of voters that may become the credential authority
    Fast, Offset,       \* the devices whose clock is wrong, and by how much
    ValidityTime, LeadTime, OverlapTime, Skew,
    MaxEpoch, MaxTime, MaxEntries, MaxAttempts, MaxTerm, MaxLost, MaxStops

Everyone == Nodes \cup Subjects
QuorumSize(S) == Cardinality(S) \div 2 + 1

\* The times of credentialauthorization: 1800, 300, 120 and 120 seconds.  The
\* authority has a majority of good clocks in each of its majorities.
ASSUME RenewalAssumption ==
    /\ IsFiniteSet(Nodes) /\ Nodes # {} /\ IsFiniteSet(Subjects)
    /\ AuthoritySets \subseteq SUBSET Nodes /\ {} \notin AuthoritySets
    /\ ValidityTime \in Nat /\ LeadTime \in Nat /\ OverlapTime \in Nat /\ Skew \in Nat /\ Offset \in Int
    /\ LeadTime + OverlapTime <= ValidityTime /\ 2 * OverlapTime <= ValidityTime
    /\ \A S \in AuthoritySets : \A E \in SUBSET S :
           Cardinality(E) >= QuorumSize(S) => E \ Fast # {}
    /\ \A bound \in {MaxEpoch, MaxTime, MaxEntries, MaxAttempts, MaxTerm, MaxLost, MaxStops} :
           bound \in Nat

VARIABLES
    log, sets, granted, \* committed states, authorities by version, authorizations by epoch
    time, applied,      \* the true time; the position every replica has applied
    leader, halted,     \* the leader and its term; the nodes that halted
    attempts,           \* the renewals the cluster was asked for
    self,               \* the device whose renewal this is
    epochKeys, minted,    \* its native store: the key of every epoch; keys made so far
    certs, provisional, \* its retained certificates, and one its own replica has yet to confirm
    pass, closing,      \* its worker's pass; what its shutdown saw
    lost, stops         \* keys the native store lost; stops of the daemon

sessionVars == <<log, sets, granted>>
credentialVars == <<epochKeys, minted, certs, provisional, pass, closing>>
renewalVars == <<log, sets, granted, time, applied, leader, halted, attempts, self,
                 epochKeys, minted, certs, provisional, pass, closing, lost, stops>>

Epochs == 1 .. MaxEpoch + 1
NoKey == 0
NoGrant == [epoch |-> 0, key |-> NoKey, issued |-> 0, notBefore |-> 0]

Clock(d) == time + (IF d \in Fast THEN Offset ELSE 0)
Within(issued, d) == issued - Skew <= Clock(d) /\ Clock(d) <= issued + Skew
Committed == log[Len(log)]
View(d) == log[applied[d]]

RenewalFloor(g) == g.notBefore + ValidityTime - LeadTime
OverlapFloor(g) == g.notBefore + ValidityTime - OverlapTime
ActiveAt(g, t) == g.notBefore <= t /\ t < g.notBefore + ValidityTime

----------------------------------------------------------------------------
(* The worker of the device's credential service.                          *)

\* eraseInactiveMemberKeys: the keys a device at this epoch may hold.
InactiveEpochs(epoch) == {epoch - 1, epoch, epoch + 1} \cap Epochs

\* The epochs whose certificate a device at this epoch keeps, the previous one
\* only as long as it is active, and the keys it erases instead.
Desired(epoch, now) ==
    {epoch} \cup {e \in {epoch - 1} \cap Epochs : ActiveAt(granted[e], now)}

\* (Variant: a certificate of the previous epoch keeps its key whether or not it is active.)
ObsoleteButPrevious(epoch, now) == {epoch - 2} \cap Epochs
Obsolete(epoch, now) == ({epoch - 2, epoch - 1} \cap Epochs) \ Desired(epoch, now)

\* reconcileProvisionalCertificate and provisionalAwaitingApply: what the
\* service holds ahead of its replica is the next epoch's, and once the
\* replica has that epoch it holds the same authorization.
ProvisionalAlarm(epoch) ==
    /\ provisional # NoGrant
    /\ provisional.epoch # epoch + 1
    /\ provisional.epoch > epoch \/ granted[provisional.epoch] # provisional
StillProvisional(epoch) == IF provisional.epoch <= epoch THEN NoGrant ELSE provisional

\* A stored key that is not the one authorized fails IssueContentCertificate.
Unissuable(e) == granted[e] \notin certs /\ epochKeys[e] \notin {NoKey, granted[e].key}
Issuable(e) == granted[e] \in certs \/ epochKeys[e] = granted[e].key

Pass(phase, seen, doomed, then) ==
    [phase |-> phase, seen |-> seen, doomed |-> doomed, then |-> then,
     key |-> NoKey, peers |-> {}, soft |-> FALSE, why |-> "none", attempt |-> 0]

SetFatal(why) == /\ certs' = {} /\ provisional' = NoGrant
                 /\ pass' = [Pass("fatal", pass.seen, {}, "idle") EXCEPT !.why = why]

\* A pass takes the applied admission snapshot of the moment; every later step
\* of the pass works with that snapshot.
PassFrom(doomed, then) == Pass("erase", applied[self], doomed, then)
FinishPass == pass' = Pass("idle", pass.seen, {}, "idle")

RefreshInactive ==
    /\ self \in View(self).revoked
    /\ certs' = {} /\ provisional' = NoGrant
    /\ pass' = PassFrom(InactiveEpochs(View(self).epoch), "idle")

RefreshFirst(then) ==
    /\ self \notin View(self).revoked /\ View(self).epoch = 0
    /\ ~ProvisionalAlarm(0)
    /\ certs' = {}
    /\ LET waits == provisional # NoGrant /\ Clock(self) < provisional.notBefore + ValidityTime
       IN /\ provisional' = IF waits THEN provisional ELSE NoGrant
          /\ pass' = PassFrom({}, IF waits THEN "idle" ELSE then)

RefreshCertificates(then) ==
    LET epoch == View(self).epoch
        now == Clock(self)
        desired == Desired(epoch, now)
        ahead == StillProvisional(epoch)
        waits == ahead # NoGrant /\ now < ahead.notBefore + ValidityTime
        due == now >= RenewalFloor(granted[epoch]) /\ epoch < MaxEpoch
    IN /\ self \notin View(self).revoked /\ epoch > 0
       /\ ~ProvisionalAlarm(epoch) /\ \A e \in desired : ~Unissuable(e)
       /\ certs' = {granted[e] : e \in {d \in desired : Issuable(d)}}
       /\ provisional' = IF waits THEN ahead ELSE NoGrant
       /\ pass' = PassFrom(Obsolete(epoch, now), IF due /\ ~waits THEN then ELSE "idle")

RefreshFails ==
    LET epoch == View(self).epoch
    IN /\ self \notin View(self).revoked
       /\ \/ ProvisionalAlarm(epoch)
          \/ epoch > 0 /\ \E e \in Desired(epoch, Clock(self)) : Unissuable(e)
       /\ SetFatal("integrity")

Refresh(then) ==
    /\ RefreshInactive \/ RefreshFirst(then) \/ RefreshCertificates(then) \/ RefreshFails
    /\ UNCHANGED <<epochKeys, minted, closing, attempts>>

\* RecoverKeys loads what is retained before the worker starts; reconcile does the
\* same at the start of every pass and then asks for the next epoch when it is due.
RecoverKeys == pass.phase = "down" /\ Refresh("idle")
Reconcile == pass.phase = "idle" /\ Refresh("candidate")

Erase(e) ==
    /\ pass.phase = "erase" /\ e \in pass.doomed
    /\ epochKeys' = [epochKeys EXCEPT ![e] = NoKey]
    /\ pass' = [pass EXCEPT !.doomed = @ \ {e}]
    /\ UNCHANGED <<minted, certs, provisional, closing, attempts>>

Erased ==
    /\ pass.phase = "erase" /\ pass.doomed = {}
    /\ pass' = [pass EXCEPT !.phase = pass.then]
    /\ UNCHANGED <<epochKeys, minted, certs, provisional, closing, attempts>>

Asked == log[pass.seen].epoch + 1

\* A daemon that runs Raft asks its own node, a settled one every active member
\* in turn.  The key is in the native store before anyone is asked for it.
LoadOrCreateCandidate ==
    /\ pass.phase = "candidate"
    /\ \/ epochKeys[Asked] # NoKey /\ UNCHANGED <<epochKeys, minted>>
       \/ /\ epochKeys[Asked] = NoKey
          /\ minted' = minted + 1
          /\ epochKeys' = [epochKeys EXCEPT ![Asked] = minted + 1]
    /\ pass' = [pass EXCEPT !.phase = "asking", !.key = epochKeys'[Asked],
                            !.peers = IF self \in Nodes THEN {self} ELSE Nodes \ View(self).revoked]
    /\ UNCHANGED <<certs, provisional, closing, attempts>>

\* What a replica says of the binding, at its own position: it is the next
\* epoch's, or the committed one's and the answer to a repeated request, or
\* ErrInvalidCredentialBinding for one of four reasons.
BindingVerdict(at, epoch, key) ==
    IF self \in log[at].revoked THEN "revoked"
    ELSE CASE epoch = log[at].epoch + 1 -> "next"
           [] epoch > log[at].epoch + 1 -> "behind"
           [] epoch < log[at].epoch -> "superseded"
           [] epoch = log[at].epoch -> IF granted[epoch].key = key THEN "granted" ELSE "mismatch"

InstallProvisional(epoch) ==
    /\ provisional' = granted[epoch]
    /\ FinishPass
    /\ UNCHANGED certs

\* An answer that may differ next time is retried with back-off.  A refusal is
\* an integrity failure, unless another peer's answer was not final.
HandleAnswer(reply, peers) ==
    \/ reply = "granted" /\ InstallProvisional(Asked)
    \/ /\ reply # "granted"
       /\ LET soft == pass.soft \/ reply = "unavailable"
              why == IF reply = "unavailable" THEN pass.why ELSE reply
          IN \/ /\ peers # {}
                /\ pass' = [pass EXCEPT !.peers = peers, !.soft = soft, !.why = why, !.attempt = 0]
                /\ UNCHANGED <<certs, provisional>>
             \/ /\ peers = {} /\ soft
                /\ FinishPass
                /\ UNCHANGED <<certs, provisional>>
             \/ peers = {} /\ ~soft /\ SetFatal(why)

Attempt(stage, reply, epoch, key) ==
    [stage |-> stage, reply |-> reply, epoch |-> epoch, key |-> key, term |-> 0, at |-> 0,
     issued |-> 0, notBefore |-> 0, version |-> 0, endorsers |-> {}, outcome |-> 0]

\* The peer that is asked, the device's own node included, validates the binding
\* and hands it to the leader it knows of, or cannot be reached.
Ask(p) ==
    /\ pass.phase = "asking" /\ pass.attempt = 0 /\ p \in pass.peers
    /\ LET verdict == BindingVerdict(applied[p], Asked, pass.key)
       IN \/ /\ verdict = "next" /\ Len(attempts) < MaxAttempts
             /\ attempts' = Append(attempts, Attempt("sent", "none", Asked, pass.key))
             /\ pass' = [pass EXCEPT !.peers = @ \ {p}, !.attempt = Len(attempts) + 1]
             /\ UNCHANGED <<certs, provisional>>
          \/ verdict # "next" /\ HandleAnswer(verdict, pass.peers \ {p}) /\ UNCHANGED attempts
          \/ HandleAnswer("unavailable", pass.peers \ {p}) /\ UNCHANGED attempts
    /\ UNCHANGED <<epochKeys, minted, closing>>

TakeReply ==
    /\ pass.phase = "asking" /\ pass.attempt # 0
    /\ attempts[pass.attempt].reply # "none"
    /\ HandleAnswer(attempts[pass.attempt].reply, pass.peers)
    /\ UNCHANGED <<epochKeys, minted, closing, attempts>>

\* What the service may present, the greatest active epoch of it to a peer.
Held == certs \cup ({provisional} \ {NoGrant})

\* BeginClose keeps the applied cut when it shows the device inactive; once the
\* worker is gone, Wait erases the keys by that cut.
BeginClose ==
    /\ pass.phase \notin {"down", "closed"} /\ closing = 0
    /\ closing' = IF self \in View(self).revoked THEN applied[self] ELSE -1
    /\ UNCHANGED <<epochKeys, minted, certs, provisional, pass, attempts>>

WorkerExits ==
    /\ closing # 0 /\ pass.phase \notin {"down", "closed"} /\ pass.then # "closed"
    /\ certs' = {} /\ provisional' = NoGrant
    /\ pass' = Pass("erase", pass.seen,
                    IF closing = -1 THEN {} ELSE InactiveEpochs(log[closing].epoch), "closed")
    /\ UNCHANGED <<epochKeys, minted, closing, attempts>>

ServiceNext ==
    /\ \/ RecoverKeys \/ Reconcile \/ \E e \in Epochs : Erase(e)
       \/ Erased \/ LoadOrCreateCandidate \/ \E p \in Nodes : Ask(p)
       \/ TakeReply \/ BeginClose \/ WorkerExits
    /\ UNCHANGED <<sessionVars, time, applied, leader, halted, self, lost, stops>>

----------------------------------------------------------------------------
(* The leader: AuthorizeCredential.                                        *)

Set(i, attempt) == attempts' = [attempts EXCEPT ![i] = attempt]
Reply(i, reply) == Set(i, Attempt("over", reply, attempts[i].epoch, attempts[i].key))

Leads(i) == leader.term = attempts[i].term /\ leader.id \notin halted
AuthorityActive(at) == sets[log[at].version] \cap log[at].revoked = {}
TooEarly(epoch, issued) == epoch > 1 /\ issued < RenewalFloor(granted[epoch - 1])
NotBefore(epoch, issued) ==
    IF epoch = 1 \/ OverlapFloor(granted[epoch - 1]) < issued THEN issued
    ELSE OverlapFloor(granted[epoch - 1])

\* Another answer than a fresh authorization: a repeated request is answered
\* with what is committed, and nothing is authorized too early.
CaptureCut(i) ==
    LET at == applied[leader.id]
        verdict == BindingVerdict(at, attempts[i].epoch, attempts[i].key)
        issued == Clock(leader.id)
    IN /\ attempts[i].stage = "sent" /\ leader.id \notin halted
       /\ \/ verdict # "next" /\ Reply(i, verdict)
          \/ /\ verdict = "next"
             /\ ~AuthorityActive(at) \/ TooEarly(attempts[i].epoch, issued)
             /\ Reply(i, "unavailable")
          \/ /\ verdict = "next" /\ AuthorityActive(at) /\ ~TooEarly(attempts[i].epoch, issued)
             /\ Set(i, [attempts[i] EXCEPT
                          !.stage = "collect", !.term = leader.term, !.at = at, !.issued = issued,
                          !.notBefore = NotBefore(attempts[i].epoch, issued),
                          !.version = log[at].version])

\* An authority member endorses the time against its own clock, and the cut
\* against its own state; the leader signs for the time it chose.
MayEndorse(i, d) ==
    /\ View(d).version = attempts[i].version /\ d \notin View(d).revoked
    /\ d \notin halted /\ Within(attempts[i].issued, d)
Endorse(i, d) ==
    /\ attempts[i].stage = "collect" /\ Leads(i)
    /\ d \in sets[attempts[i].version] \ attempts[i].endorsers
    /\ d # leader.id => MayEndorse(i, d)
    /\ Set(i, [attempts[i] EXCEPT !.endorsers = @ \cup {d}])

\* captureCredentialAuthorizationCut after the first time: here the committed
\* epoch itself is an invalid binding.
CutVerdict(i) ==
    LET at == applied[leader.id]
        verdict == BindingVerdict(at, attempts[i].epoch, attempts[i].key)
    IN CASE verdict \in {"granted", "mismatch"} -> "superseded"
         [] verdict \notin {"granted", "mismatch", "next"} -> verdict
         [] verdict = "next" -> IF AuthorityActive(at) THEN "next" ELSE "unavailable"

\* requireCredentialAuthorizationCut: the applied state is exactly the one the
\* cut was taken from, and the clock still agrees with the time.
SameCut(i) == applied[leader.id] = attempts[i].at
SubmitAuthorization(i) ==
    /\ attempts[i].stage = "collect" /\ Leads(i)
    /\ Cardinality(attempts[i].endorsers) >= QuorumSize(sets[attempts[i].version])
    /\ SameCut(i) /\ Within(attempts[i].issued, leader.id)
    /\ Set(i, [attempts[i] EXCEPT !.stage = "reserved"])
CutMoved(i) ==
    /\ attempts[i].stage = "collect" /\ Leads(i)
    /\ Cardinality(attempts[i].endorsers) >= QuorumSize(sets[attempts[i].version])
    /\ ~SameCut(i)
    /\ Reply(i, IF CutVerdict(i) = "next" THEN "unavailable" ELSE CutVerdict(i))

\* reduceCredentialAuthorized.
Reduces(a) ==
    /\ self \notin Committed.revoked
    /\ a.epoch = Committed.epoch + 1
    /\ \A e \in 1 .. Committed.epoch : granted[e].key # a.key
    /\ log[a.at].entity % 2 = Committed.entity % 2
    /\ a.version = Committed.version
    /\ a.endorsers \subseteq sets[Committed.version] \ Committed.revoked
    /\ Cardinality(a.endorsers) >= QuorumSize(sets[Committed.version])
    /\ ~TooEarly(a.epoch, a.issued)
    /\ a.notBefore = NotBefore(a.epoch, a.issued)

\* The operation that reserved the authorization sees its outcome if it still waits.
Conclude(i, stage, at) ==
    IF attempts[i].reply = "none" THEN Set(i, [attempts[i] EXCEPT !.stage = stage, !.outcome = at])
    ELSE Reply(i, attempts[i].reply)

\* What is reserved is durable: it is committed when the outbox gets it through,
\* whoever leads then and whether or not anyone waits for it.
Commit(i) ==
    LET a == attempts[i]
    IN /\ a.stage = "reserved"
       /\ \/ /\ Reduces(a)
             /\ Len(log) < MaxEntries
             /\ log' = Append(log, [Committed EXCEPT !.epoch = @ + 1])
             /\ granted' = Append(granted, [epoch |-> a.epoch, key |-> a.key, issued |-> a.issued,
                                            notBefore |-> a.notBefore])
             /\ Conclude(i, "accepted", Len(log) + 1)
          \/ /\ ~Reduces(a)
             /\ Conclude(i, "rejected", Len(log))
             /\ UNCHANGED <<log, granted>>
       /\ UNCHANGED sets

\* (Variant: the members of the authority are not compared.)
SameSubject(i) ==
    LET old == log[attempts[i].at]
        new == View(leader.id)
    IN old.entity = new.entity /\ old.epoch = new.epoch

\* sameCredentialAuthorizationSemanticCut: the subject's row, the members of the
\* authority and the authorization before.
SameSemanticCut(i) ==
    LET old == log[attempts[i].at]
        new == View(leader.id)
    IN old.entity = new.entity /\ sets[old.version] = sets[new.version] /\ old.epoch = new.epoch

Waits(i) == Leads(i) /\ applied[leader.id] >= attempts[i].outcome
ResolveAccepted(i) ==
    /\ attempts[i].stage = "accepted" /\ Waits(i)
    /\ Reply(i, "granted")
    /\ UNCHANGED halted
ResolveRejected(i) ==
    /\ attempts[i].stage = "rejected" /\ Waits(i)
    /\ LET verdict == CutVerdict(i)
           stale == ~SameSemanticCut(i) \/ ~Within(attempts[i].issued, leader.id)
       IN \/ verdict # "next" /\ Reply(i, verdict) /\ UNCHANGED halted
          \/ verdict = "next" /\ stale /\ Reply(i, "unavailable") /\ UNCHANGED halted
          \/ verdict = "next" /\ ~stale /\ Reply(i, "halted") /\ halted' = halted \cup {leader.id}

\* A lost answer, a timeout, a lost leadership: nobody waits any longer.  What is
\* not reserved ends here.
LoseAnswer(i) ==
    /\ attempts[i].reply = "none"
    /\ IF attempts[i].stage = "reserved" THEN Set(i, [attempts[i] EXCEPT !.reply = "unavailable"])
       ELSE Reply(i, "unavailable")

LeaderNext == \E i \in DOMAIN attempts :
    /\ \/ CaptureCut(i) /\ UNCHANGED <<sessionVars, halted>>
       \/ (\E d \in Nodes : Endorse(i, d)) /\ UNCHANGED <<sessionVars, halted>>
       \/ SubmitAuthorization(i) /\ UNCHANGED <<sessionVars, halted>>
       \/ CutMoved(i) /\ UNCHANGED <<sessionVars, halted>>
       \/ Commit(i) /\ UNCHANGED halted
       \/ (ResolveAccepted(i) \/ ResolveRejected(i)) /\ UNCHANGED sessionVars
       \/ LoseAnswer(i) /\ UNCHANGED <<sessionVars, halted>>
    /\ UNCHANGED <<credentialVars, time, applied, leader, self, lost, stops>>

----------------------------------------------------------------------------
(* The rest of the session, and what may befall the device.                *)

Tick == /\ time < MaxTime /\ time' = time + 1
        /\ UNCHANGED <<sessionVars, applied, leader, halted, attempts, lost, stops, credentialVars>>

Apply(d) ==
    /\ applied[d] < Len(log) /\ applied' = [applied EXCEPT ![d] = @ + 1]
    /\ UNCHANGED <<sessionVars, time, leader, halted, attempts, lost, stops, credentialVars>>

LeaderChange(d) ==
    /\ leader.term < MaxTerm /\ d \notin halted
    /\ leader' = [id |-> d, term |-> leader.term + 1]
    /\ UNCHANGED <<sessionVars, time, applied, halted, attempts, lost, stops, credentialVars>>

Enters(row) ==
    /\ Len(log) < MaxEntries /\ log' = Append(log, row)
    /\ UNCHANGED <<granted, time, applied, leader, halted, attempts, lost, stops, credentialVars>>

SubjectRoleChanged == Enters([Committed EXCEPT !.entity = @ + 1]) /\ UNCHANGED sets
Revoked(d) ==
    /\ d \notin Committed.revoked
    /\ LET authority == sets[Committed.version]
       IN Cardinality(authority \ (Committed.revoked \cup {d})) >= QuorumSize(authority)
    /\ Enters([Committed EXCEPT !.revoked = @ \cup {d}]) /\ UNCHANGED sets
Activated(S) ==
    /\ S # sets[Committed.version] /\ S \cap Committed.revoked = {}
    /\ Enters([Committed EXCEPT !.version = Len(sets) + 1]) /\ sets' = Append(sets, S)

LoseKey(e) ==
    /\ lost < MaxLost /\ epochKeys[e] # NoKey
    /\ lost' = lost + 1 /\ epochKeys' = [epochKeys EXCEPT ![e] = NoKey]
    /\ UNCHANGED <<sessionVars, time, applied, leader, halted, attempts, stops, minted, certs,
                   provisional, pass, closing>>

\* The daemon's process ends, in order or not; its memory is gone.
Stop ==
    /\ pass.phase # "down" /\ stops < MaxStops
    /\ stops' = stops + 1
    /\ certs' = {} /\ provisional' = NoGrant /\ closing' = 0
    /\ pass' = Pass("down", 1, {}, "idle")
    /\ UNCHANGED <<sessionVars, time, applied, leader, halted, attempts, epochKeys, minted, lost>>

Participants == Nodes \cup {self}

WorldNext ==
    /\ \/ Tick \/ \E d \in Participants : Apply(d)
       \/ \E d \in Nodes : LeaderChange(d)
       \/ SubjectRoleChanged \/ \E d \in Participants : Revoked(d)
       \/ \E S \in AuthoritySets : Activated(S)
       \/ \E e \in Epochs : LoseKey(e)
       \/ Stop
    /\ UNCHANGED self

RenewalInit ==
    /\ self \in Subjects
    /\ log = <<[epoch |-> 0, entity |-> 0, version |-> 1, revoked |-> {}]>>
    /\ \E S \in AuthoritySets : sets = <<S>>
    /\ granted = << >> /\ time = 0 /\ applied = [d \in Everyone |-> 1]
    /\ \E d \in Nodes : leader = [id |-> d, term |-> 1]
    /\ halted = {} /\ attempts = << >>
    /\ epochKeys = [e \in Epochs |-> NoKey] /\ minted = 0
    /\ certs = {} /\ provisional = NoGrant /\ closing = 0
    /\ pass = Pass("down", 1, {}, "idle")
    /\ lost = 0 /\ stops = 0

RenewalNext == ServiceNext \/ LeaderNext \/ WorldNext
RenewalSpec == RenewalInit /\ [][RenewalNext]_renewalVars

----------------------------------------------------------------------------
(* Properties.                                                             *)

\* Every certificate the service would present is of a committed authorization,
\* for the key that was authorized (ContentCertificate).
CertificatesBacked == \A g \in Held : \E e \in DOMAIN granted : g = granted[e]

\* No authorization is for a time far ahead of the true one, whatever the
\* leader's clock: a majority of the authority has endorsed the time.
NotFarFuture == \A e \in DOMAIN granted : granted[e].issued <= time + Skew

\* At no time are more than two epochs of a device valid: an epoch and the
\* overlap of its successor.
AtMostTwoValid ==
    \A e, f \in DOMAIN granted : e + 2 <= f => granted[e].notBefore + ValidityTime <= granted[f].notBefore

\* The service takes its own state for corrupt, or an answer for a refusal, only
\* when the device is revoked, when the epoch it asks for is already granted to
\* an earlier request, when a peer that is behind was asked, or when the native
\* store lost a key.  It never happens through the service's own doing.
AlarmsExplained ==
    \/ pass.why \in {"none", "revoked", "superseded", "behind"}
    \/ lost > 0
    \/ pass.why = "halted" /\ halted # {}

\* A leader halts over a rejected authorization only if the authority left and
\* came back while the authorization was on its way.
HaltsExplained == halted # {} =>
    \E v, w \in DOMAIN sets : v < w /\ sets[v] = sets[w]

\* When a pass over a revocation is over, and when the service is closed after
\* one, no epoch key is left in the native store (eraseInactiveMemberKeys).
NoKeys == \A e \in Epochs : epochKeys[e] = NoKey
KeysErased ==
    /\ pass.phase = "idle" /\ self \in log[pass.seen].revoked => NoKeys
    /\ pass.phase = "closed" /\ closing > 0 => NoKeys

\* The renewal as a whole: what is presented was authorized, for the right time,
\* alarms and halts have a cause, and a revoked device keeps no key.
RenewalSound == /\ CertificatesBacked /\ NotFarFuture /\ AtMostTwoValid
                /\ AlarmsExplained /\ HaltsExplained /\ KeysErased
=============================================================================
