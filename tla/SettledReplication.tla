------------------------- MODULE SettledReplication -------------------------
(***************************************************************************)
(* How a settled nonvoter follows the coordination ledger without Raft.    *)
(*                                                                         *)
(* The voters commit command results; each applies them at its own pace.   *)
(* The replica runs sync passes against its peers, one at a time: it asks  *)
(* a peer for the results after its own head, replays the signed page and  *)
(* imports it in one transaction, asks for an acknowledgement when the     *)
(* peer has nothing more, and replaces its whole state by a logical        *)
(* snapshot when no page of the peer can be authorized.  From what it has  *)
(* durably recorded and what peers told it on live connections it decides  *)
(* whether it is current; a rebootstrapped device waits for that before it *)
(* ends the agent sessions of its earlier life and opens for agents.       *)
(*                                                                         *)
(* Sources: internal/consensus/{replication_import,replication_replay,     *)
(* replication_observation,logical_snapshot_install}.go, internal/store/   *)
(* {result_range,result_batch_import,replication_watermark,                *)
(* replication_watermark_observation,settled_replication_progress,         *)
(* replication_evidence,settled_nonvoter}.go, internal/replication,        *)
(* cmd/codecommd/{content_replication,settled_replication,                 *)
(* settled_snapshot_recovery,settled_agent_recovery,settled_command}.go.   *)
(***************************************************************************)
EXTENDS Integers, Sequences, FiniteSets

CONSTANTS
    Servers,     \* devices that hold the ledger and answer the replica
    Strays,      \* servers that were recovered into another generation
    Local,       \* the replica's own device
    Founders,    \* the authority at genesis
    Sessions,    \* agent sessions of the local device's earlier life
    Open,        \* those of them genesis already holds open
    Plans,       \* the command sequences the cluster may commit
    None,
    MaxPage,     \* results a page may carry
    MaxFaults    \* bound: lost connections and restarts together

Devices == Servers \cup {Local}

\* The commands that matter here; every other one is "plain".
Commands == [kind : {"plain", "checkpoint", "activate"}]
            \cup [kind : {"target", "revoke"}, devices : SUBSET Devices]
            \cup [kind : {"open", "end"}, sessions : SUBSET Sessions]

ASSUME SettledConstants ==
    /\ Strays \subseteq Servers /\ Local \notin Servers
    /\ Founders \subseteq Servers \ Strays /\ Founders # {}
    /\ Open \subseteq Sessions
    /\ None \notin Servers
    /\ Plans \subseteq Seq(Commands)
    /\ MaxPage \in Nat \ {0} /\ MaxFaults \in Nat

VARIABLES
    plan,      \* commands the cluster has still to commit
    ledger,    \* the committed results of the session's generation
    at,        \* results each server has applied
    hist,      \* store: the replica's command results
    base,      \* store: cut of the verified baseline the evidence starts from
    attested,  \* store: replication_attestations after the baseline
    acks,      \* store: replication_watermark_observations
    marker,    \* store: the rebootstrap install marker
    live,      \* memory: replicationObservations
    transition,\* memory: transitionRequired
    waited,    \* memory: agent recovery has once seen the replica current
    pass,      \* memory: the sync pass that holds the import turn
    since,     \* at[s] when the process or the link to s last started (history variable)
    faults

clusterVars == <<plan, ledger, at>>
storeVars   == <<hist, base, attested, acks, marker>>
memoryVars  == <<live, transition, waited, pass>>
vars == <<clusterVars, storeVars, memoryVars, since, faults>>

-----------------------------------------------------------------------------
(* Results and the rows they leave behind *)

Genesis == [kind |-> "genesis", target |-> Founders, voters |-> Founders, version |-> 1,
            active |-> Devices, open |-> Open]

\* The reduced rows after a history.
Rows(h) == IF h = <<>> THEN Genesis ELSE h[Len(h)]

\* The result of committing a command on a history.
Reduce(h, c) ==
    LET r == [Rows(h) EXCEPT !.kind = c.kind]
    IN CASE c.kind = "target"   -> [r EXCEPT !.target = c.devices]
         [] c.kind = "activate" -> [r EXCEPT !.voters = r.target, !.version = r.version + 1]
         [] c.kind = "revoke"   -> [r EXCEPT !.active = @ \ c.devices]
         [] c.kind = "open"     -> [r EXCEPT !.open = @ \cup c.sessions]
         [] c.kind = "end"      -> [r EXCEPT !.open = @ \ c.sessions]
         [] OTHER               -> r

Prefix(h, n) == SubSeq(h, 1, n)

\* The device is an active member of the authority after a history.
Authorized(h, d) == d \in Rows(h).voters /\ d \in Rows(h).active

\* A settled nonvoter is active, in no voter target and in no authority.
Eligible(h) ==
    /\ Local \in Rows(h).active
    /\ Local \notin Rows(h).target /\ Local \notin Rows(h).voters

\* A server recovered at genesis is the sole authority of another generation.
Fork(s) == <<[Genesis EXCEPT !.kind = "recovered", !.target = {s}, !.voters = {s}]>>
History(s) == IF s \in Strays THEN Fork(s) ELSE Prefix(ledger, at[s])
Generation(s) == IF s \in Strays THEN 1 ELSE 0

-----------------------------------------------------------------------------
(* What a server answers.  Reads are one store transaction each. *)

\* Bug variant: the page ends where the size limit puts it.
FullEnd(s, after) ==
    LET last == IF after + MaxPage < Len(History(s)) THEN after + MaxPage ELSE Len(History(s))
    IN {last}

\* ExportResultRange: the largest end the server may sign for, none when no
\* position of the page has it as an active authority member.
RangeEnd(s, after) ==
    LET last == IF after + MaxPage < Len(History(s)) THEN after + MaxPage ELSE Len(History(s))
        ends == {e \in (after + 1)..last : Authorized(Prefix(History(s), e), s)}
    IN {e \in ends : \A f \in ends : f <= e}

Page(s, after, end) ==
    [kind |-> "page", signer |-> s, generation |-> Generation(s), from |-> after + 1, to |-> end,
     start |-> Prefix(History(s), after), results |-> SubSeq(History(s), after + 1, end),
     version |-> Rows(Prefix(History(s), end)).version, applied |-> Len(History(s))]

\* The answer to a request for the results after a cursor.
ReplicationReply(s, after) ==
    IF after > Len(History(s)) THEN [kind |-> "refused"]
    ELSE IF after = Len(History(s)) THEN [kind |-> "unavailable"]
    ELSE IF RangeEnd(s, after) # {} THEN Page(s, after, CHOOSE e \in RangeEnd(s, after) : TRUE)
    ELSE IF Authorized(History(s), s) THEN [kind |-> "snapshot"]
    ELSE [kind |-> "unavailable"]

\* A server acknowledges its exact current cut, as an authority member of it.
AcknowledgementReply(s, index) ==
    IF Authorized(History(s), s) /\ Len(History(s)) = index
    THEN [kind |-> "ack", signer |-> s, generation |-> Generation(s), index |-> index,
          heads |-> History(s), version |-> Rows(History(s)).version]
    ELSE [kind |-> "refused"]

\* The checkpoint cuts the server may sign a snapshot of.
SnapshotCuts(s) ==
    {c \in 1..Len(History(s)) :
        History(s)[c].kind = "checkpoint" /\ Authorized(Prefix(History(s), c), s)}

\* The signed root of the latest snapshot the server has published.
SnapshotRoot(s, cut) ==
    [kind |-> "root", signer |-> s, generation |-> Generation(s), cut |-> cut,
     heads |-> Prefix(History(s), cut), version |-> Rows(Prefix(History(s), cut)).version]
SnapshotReply(s) ==
    IF SnapshotCuts(s) = {} THEN {[kind |-> "refused"]}
    ELSE {SnapshotRoot(s, cut) : cut \in {c \in SnapshotCuts(s) : \A d \in SnapshotCuts(s) : d <= c}}

-----------------------------------------------------------------------------
(* What the replica knows *)

ReplicaHead == Len(hist)

Watermarks == {a.applied : a \in attested} \cup {k.index : k \in acks}

\* Bug variant: a durable acknowledgement counts as a live one.
ObservedDurably(m) ==
    \/ live[m] # None /\ live[m] = [version |-> Rows(hist).version, verified |-> ReplicaHead, applied |-> ReplicaHead]
    \/ \E k \in acks : k.signer = m /\ k.version = Rows(hist).version /\ k.index = ReplicaHead

\* The member told this process, on a connection still up, that it stands
\* exactly at the replica's head under the replica's authority.
ObservedAtHead(m) ==
    live[m] # None /\ live[m] = [version |-> Rows(hist).version, verified |-> ReplicaHead, applied |-> ReplicaHead]

\* settledReplicaCurrency.
Currency ==
    IF \/ \E w \in Watermarks : w > ReplicaHead
       \/ \E s \in Servers : live[s] # None /\ live[s].applied > ReplicaHead
    THEN "behind"
    ELSE IF \A m \in Rows(hist).voters : m \in Servers /\ ObservedAtHead(m) THEN "current"
    ELSE "unknown"

\* recordLiveReplicationObservation keeps the larger of two observations.
Observe(s, o) ==
    IF \/ live[s] = None
       \/ o.version > live[s].version
       \/ o.version = live[s].version /\ o.applied > live[s].applied
       \/ o.version = live[s].version /\ o.applied = live[s].applied /\ o.verified > live[s].verified
    THEN [live EXCEPT ![s] = o] ELSE live

-----------------------------------------------------------------------------
Init ==
    /\ plan \in Plans /\ ledger = <<>>
    /\ at = [s \in Servers |-> 0] 
    /\ hist = <<>> /\ base = 0 /\ attested = {} /\ acks = {} /\ marker = TRUE
    /\ live = [s \in Servers |-> None] /\ transition = FALSE /\ waited = FALSE
    /\ pass = None
    /\ since = at /\ faults = 0

-----------------------------------------------------------------------------
(* The cluster.  Committing is Raft's; the voters' own replicas are modelled  *)
(* in Proposals.                                                              *)

CommitNext ==
    /\ plan # <<>>
    /\ ledger' = Append(ledger, Reduce(ledger, Head(plan)))
    /\ plan' = Tail(plan)
    /\ UNCHANGED <<at, storeVars, memoryVars, since, faults>>

ApplyNext(s) ==
    /\ s \notin Strays /\ at[s] < Len(ledger)
    /\ at' = [at EXCEPT ![s] = @ + 1]
    /\ UNCHANGED <<plan, ledger, storeVars, memoryVars, since, faults>>

-----------------------------------------------------------------------------
(* A sync pass.  It holds the import turn from its first request to its end.  *)

\* ForgetReplicationPeer.
Forget(s) == [live EXCEPT ![s] = None]

StartSync(s) ==
    /\ pass = None
    /\ live' = Forget(s)
    /\ pass' = [relay |-> s, stage |-> "ask", reply |-> None, installed |-> FALSE]
    /\ since' = [since EXCEPT ![s] = at[s]]
    /\ UNCHANGED <<clusterVars, storeVars, transition, waited, faults>>

Reply(stage, s) ==
    CASE stage = "ask"  -> {ReplicationReply(s, ReplicaHead)}
      [] stage = "ack"  -> {AcknowledgementReply(s, ReplicaHead)}
      [] stage = "root" -> SnapshotReply(s)

\* The peer answers the request the pass is waiting on.
Answer ==
    /\ pass # None /\ pass.reply = None
    /\ \E r \in Reply(pass.stage, pass.relay) : pass' = [pass EXCEPT !.reply = r]
    /\ UNCHANGED <<clusterVars, storeVars, live, transition, waited, since, faults>>

Answered(kind) == pass # None /\ pass.reply # None /\ pass.reply.kind = kind

Ask(stage) == pass' = [pass EXCEPT !.stage = stage, !.reply = None]

\* The peer has no page at this cursor: ask where it stands.
AskAcknowledgement ==
    /\ Answered("unavailable")
    /\ Ask("ack")
    /\ UNCHANGED <<clusterVars, storeVars, live, transition, waited, since, faults>>

\* The peer requires a snapshot, which a pass installs once.
AskSnapshot ==
    /\ Answered("snapshot") /\ ~pass.installed
    /\ Ask("root")
    /\ UNCHANGED <<clusterVars, storeVars, live, transition, waited, since, faults>>

\* Bug variant: a page of any generation extends the local history.
ContiguousPage(p) == p.from = ReplicaHead + 1 /\ p.start = hist

\* replayResultBatch: the page extends exactly the local history of this
\* generation, its results are what the local reducer gives, and its signer is
\* an active authority member at the page's end.
Replays(p) ==
    /\ p.generation = 0
    /\ p.from = ReplicaHead + 1 /\ p.start = hist
    /\ p.version = Rows(hist \o p.results).version
    /\ Authorized(hist \o p.results, p.signer)

\* The cursor kept for a relay never goes back.
CursorAllows(p) ==
    \A a \in attested : a.signer = p.signer => a.to < p.from /\ a.version <= p.version

\* The local device has left the settled role: a Raft role or a revocation.
TransitionAfter(h) == ~Eligible(h)

\* The attestation row kept for an imported page.
Attestation(p) ==
    [signer |-> p.signer, version |-> p.version, from |-> p.from, to |-> p.to, applied |-> p.applied]

\* ImportSettledNonvoterResultBatch: results, heads and attestation in one transaction.
StorePage(p) ==
    /\ CursorAllows(p)
    /\ hist' = hist \o p.results
    /\ attested' = attested \cup {Attestation(p)}
    /\ UNCHANGED <<base, acks, marker>>

\* ImportResultBatch: the replayed page is stored and then published in memory.
ImportResultBatch ==
    /\ Answered("page") /\ ~transition
    /\ LET p == pass.reply
       IN /\ Replays(p)
          /\ StorePage(p)
          /\ transition' = TransitionAfter(hist')
          /\ live' = Observe(p.signer, [version |-> p.version, verified |-> p.to,
                                        applied |-> p.applied])
          /\ IF p.to >= p.applied THEN pass' = None ELSE Ask("ask")
    /\ UNCHANGED <<clusterVars, waited, since, faults>>

\* The acknowledgement is an authority member's, of the replica's exact cut.
Acknowledges(k) ==
    /\ k.generation = 0 /\ k.heads = hist
    /\ k.version = Rows(hist).version /\ Authorized(hist, k.signer)

\* RecordSettledReplicationAcknowledgement: one row for a signer and an authority version.
StoreAcknowledged(k) ==
    /\ acks' = {o \in acks : ~(o.signer = k.signer /\ o.version = k.version)} \cup
                {[signer |-> k.signer, version |-> k.version, index |-> k.index]}
    /\ UNCHANGED <<hist, base, attested, marker>>

\* ObserveReplicationAcknowledgement.
ObserveAcknowledgement ==
    /\ Answered("ack") /\ ~transition
    /\ LET k == pass.reply
       IN /\ Acknowledges(k) /\ StoreAcknowledged(k)
          /\ live' = Observe(k.signer, [version |-> k.version, verified |-> k.index,
                                        applied |-> k.index])
    /\ pass' = None
    /\ UNCHANGED <<clusterVars, transition, waited, since, faults>>

\* preflightSnapshotRoot: the cut advances the replica and is signed by an
\* authority no older than the local one.
Preflight(r) ==
    /\ r.generation = 0 /\ r.cut > ReplicaHead
    /\ r.signer \in Rows(hist).active
    /\ r.version >= Rows(hist).version
    /\ r.version = Rows(hist).version => r.signer \in Rows(hist).voters

\* The evidence restarts at the installed cut.
Baseline(cut) == cut

\* The staged artifact verifies: its signer was authorized at its cut and it
\* extends the local history.
Installable(r) ==
    Preflight(r) /\ Authorized(r.heads, r.signer) /\ Prefix(r.heads, ReplicaHead) = hist

\* The transaction that replaces the replica's state; an outstanding marker is
\* bound to the new attestation.
StoreSnapshot(r) ==
    /\ hist' = r.heads /\ base' = Baseline(r.cut)
    /\ attested' = {} /\ acks' = {}
    /\ UNCHANGED marker

\* InstallLogicalSnapshot: every live observation is forgotten with the old state
\* and the pass goes on from the new head.
InstallLogicalSnapshot ==
    /\ Answered("root") /\ ~transition
    /\ Installable(pass.reply) /\ StoreSnapshot(pass.reply)
    /\ transition' = TransitionAfter(pass.reply.heads)
    /\ live' = [s \in Servers |-> None]
    /\ pass' = [pass EXCEPT !.stage = "ask", !.reply = None, !.installed = TRUE]
    /\ UNCHANGED <<clusterVars, waited, since, faults>>

\* The answer cannot be used: the pass ends and the next one starts over.
EndPass ==
    /\ pass # None /\ pass.reply # None
    /\ \/ Answered("refused")
       \/ Answered("snapshot") /\ pass.installed
       \/ Answered("page") /\ (transition \/ ~Replays(pass.reply) \/ ~CursorAllows(pass.reply))
       \/ Answered("ack") /\ (transition \/ ~Acknowledges(pass.reply))
       \/ Answered("root") /\ (transition \/ ~Installable(pass.reply))
    /\ pass' = None
    /\ UNCHANGED <<clusterVars, storeVars, live, transition, waited, since, faults>>

-----------------------------------------------------------------------------
(* Agent recovery after a rebootstrap *)

\* WaitCurrent.
AwaitCurrent ==
    /\ marker /\ ~waited /\ Currency = "current"
    /\ waited' = TRUE
    /\ UNCHANGED <<clusterVars, storeVars, live, transition, pass, since, faults>>

\* CrashReap ends a session the replica holds open.  The signed event goes to an
\* authority member the replica knows, which commits it while it is a voter; the
\* same event is decided once.
CrashReap(x, m) ==
    /\ marker /\ waited /\ x \in Rows(hist).open
    /\ Authorized(hist, m) /\ m \in Rows(ledger).voters /\ x \in Rows(ledger).open
    /\ ledger' = Append(ledger, Reduce(ledger, [kind |-> "end", sessions |-> {x}]))
    /\ UNCHANGED <<plan, at, storeVars, memoryVars, since, faults>>

\* Bug variant: the marker is cleared on the rescan alone.
ClearUnfenced ==
    /\ marker /\ waited /\ Rows(hist).open = {}
    /\ marker' = FALSE
    /\ UNCHANGED <<clusterVars, hist, base, attested, acks, memoryVars, since, faults>>

\* WithCurrent: the import turn is held and the replica is current.
Fenced == pass = None /\ Currency = "current"

\* A fenced rescan that finds no open session clears the marker.
ClearMarker ==
    /\ marker /\ waited /\ Fenced
    /\ Rows(hist).open = {}
    /\ marker' = FALSE
    /\ UNCHANGED <<clusterVars, hist, base, attested, acks, memoryVars, since, faults>>

-----------------------------------------------------------------------------
(* Faults *)

\* The connection to a peer is lost, with the pass that was using it.
Disconnect(s) ==
    /\ faults < MaxFaults
    /\ faults' = faults + 1
    /\ live' = Forget(s)
    /\ pass' = IF pass # None /\ pass.relay = s THEN None ELSE pass
    /\ since' = [since EXCEPT ![s] = at[s]]
    /\ UNCHANGED <<clusterVars, storeVars, transition, waited>>

\* verifySettledNonvoterEvidence: the attestations cover every result from the
\* baseline to the head without a gap or an overlap, each signed by an active
\* member of the authority at its end, and so are the stored acknowledgements.
EvidenceVerifies ==
    /\ base <= ReplicaHead
    /\ \A i \in (base + 1)..ReplicaHead :
          Cardinality({a \in attested : a.from <= i /\ i <= a.to}) = 1
    /\ \A a \in attested : /\ base < a.from /\ a.to <= ReplicaHead
                           /\ Authorized(Prefix(hist, a.to), a.signer)
                           /\ a.version = Rows(Prefix(hist, a.to)).version
    /\ \A k \in acks : Authorized(Prefix(hist, k.index), k.signer)

\* The process restarts from its store; OpenSettledReplica refuses a store whose
\* evidence does not verify and a device that has left the role.
Restart ==
    /\ faults < MaxFaults
    /\ faults' = faults + 1
    /\ live' = [s \in Servers |-> None]
    /\ transition' = ~(EvidenceVerifies /\ Eligible(hist)) /\ waited' = FALSE /\ pass' = None
    /\ since' = at
    /\ UNCHANGED <<clusterVars, storeVars>>

-----------------------------------------------------------------------------
Next ==
    \/ CommitNext
    \/ \E s \in Servers : ApplyNext(s) \/ StartSync(s) \/ Disconnect(s)
    \/ Answer \/ AskAcknowledgement \/ AskSnapshot
    \/ ImportResultBatch \/ ObserveAcknowledgement \/ InstallLogicalSnapshot \/ EndPass
    \/ AwaitCurrent \/ ClearMarker
    \/ \E x \in Sessions, m \in Servers : CrashReap(x, m)
    \/ Restart

Spec == Init /\ [][Next]_vars

\* The voters of the latest authority keep applying.
Serving(s) == s \in Rows(ledger).voters

\* Raft replicates to the current voters, the peer runtime dials every peer again
\* and waiters on the import turn are served in order, and a pass runs to its end.
FairSpec ==
    /\ Spec
    /\ WF_vars(CommitNext)
    /\ \A s \in Servers :
          /\ WF_vars(Serving(s) /\ ApplyNext(s))
          /\ SF_vars(StartSync(s))
    /\ WF_vars(Answer \/ AskAcknowledgement \/ AskSnapshot \/ ImportResultBatch
               \/ ObserveAcknowledgement \/ InstallLogicalSnapshot \/ EndPass)
    /\ SF_vars(AwaitCurrent) /\ SF_vars(ClearMarker)
    /\ \A x \in Sessions : WF_vars(\E m \in Servers : CrashReap(x, m))

-----------------------------------------------------------------------------
(* Properties *)

RowSet == [kind : {"genesis", "plain", "checkpoint", "target", "activate", "revoke", "open", "end", "recovered"},
           target : SUBSET Devices, voters : SUBSET Devices, version : Nat,
           active : SUBSET Devices, open : SUBSET Sessions]

\* The state's shape.
TypeOK ==
    /\ plan \in Seq(Commands) /\ ledger \in Seq(RowSet) /\ hist \in Seq(RowSet)
    /\ at \in [Servers -> Nat] /\ since \in [Servers -> Nat]
    /\ base \in Nat /\ faults \in Nat
    /\ attested \subseteq [signer : Servers, version : Nat, from : Nat, to : Nat, applied : Nat]
    /\ acks \subseteq [signer : Servers, version : Nat, index : Nat]
    /\ live \in [Servers -> {None} \cup [version : Nat, verified : Nat, applied : Nat]]
    /\ marker \in BOOLEAN /\ transition \in BOOLEAN /\ waited \in BOOLEAN
    /\ pass # None => /\ pass.relay \in Servers /\ pass.stage \in {"ask", "ack", "root"}
                      /\ pass.installed \in BOOLEAN

\* Whatever peers answer, in whatever order and however late, the replica's
\* history is a prefix of the history its generation committed; and whatever mix of
\* pages, relays, authorities and snapshots brought it there, the evidence in its
\* store is what the next start demands.
HistoryIsProven ==
    /\ ReplicaHead <= Len(ledger)
    /\ hist = Prefix(ledger, ReplicaHead)
    /\ EvidenceVerifies

\* A replica that calls itself current holds every result any member of its
\* authority had applied when this process, or the connection to that member,
\* started: nothing remembered from before a restart or a lost connection counts.
CurrentIsFresh ==
    Currency = "current" => \A m \in Rows(hist).voters : since[m] <= ReplicaHead

\* The rebootstrap marker goes only when the replica holds no session of its
\* earlier life open and has caught up with every member of its authority.
MarkerClearedSafely ==
    [][marker /\ ~marker' => /\ Rows(hist).open = {}
                             /\ \A m \in Rows(hist).voters : since[m] <= ReplicaHead]_vars

\* Once the cluster has gone quiet the replica reaches its head, through pages or
\* a snapshot, unless it has left the role.
CatchesUp == <>[](transition \/ hist = ledger)

\* A nonvoter's store holds only proven history, and what it says of its currency is
\* true of this process and these connections.
ReplicaSound == HistoryIsProven /\ CurrentIsFresh
=============================================================================
