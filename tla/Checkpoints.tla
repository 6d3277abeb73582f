----------------------------- MODULE Checkpoints -----------------------------
(***************************************************************************)
(* Periodic checkpoints.  A scheduler on every node watches the durable    *)
(* cadence; on the leader it forces a checkpoint: the enqueue cut is       *)
(* closed, a barrier waits for everything before it, the committed heads   *)
(* are captured, a member of the credential authority signs them, the      *)
(* event is reserved in the outbox and enqueued as the exact successor of  *)
(* what it covers.  A reservation that outlives its attempt is replayed by *)
(* the boot outbox.                                                        *)
(*                                                                         *)
(* Raft is one log whose uncommitted suffix a new leader may drop; every   *)
(* node learns of commitment and applies to its store in steps of its own. *)
(* A store is a function of how much of the log it has applied.            *)
(***************************************************************************)
EXTENDS Naturals, Sequences, FiniteSets

CONSTANTS
    Nodes,
    AuthorityOf,    \* members of the credential authority, by voter set version
    MaxIndex,       \* log length
    MaxTerm,        \* Raft terms
    MaxAttempts,    \* checkpoints the schedulers force
    MaxCommands,    \* other commands
    MaxRestarts,    \* daemon restarts
    NoNode

Versions == DOMAIN AuthorityOf

ASSUME CheckpointConstants ==
    /\ IsFiniteSet(Nodes) /\ NoNode \notin Nodes
    /\ AuthorityOf \in Seq(SUBSET Nodes \ {{}}) /\ AuthorityOf # <<>>
    /\ {MaxIndex, MaxTerm} \subseteq Nat \ {0}
    /\ {MaxAttempts, MaxCommands, MaxRestarts} \subseteq Nat

VARIABLES
    log,        \* raft log
    term, leader,
    commit,     \* raft.CommitIndex
    stored,     \* how much of the log the store has applied
    reserved,   \* the unresolved checkpoint of the boot outbox
    sequence,   \* checkpoints this node has reserved
    attempt,    \* ForceCheckpoint, or the outbox replaying a checkpoint
    cadence,    \* the scheduler: its last observation and its pending commit
    broken,     \* nodes that halted, and why
    left        \* what is left of the three bounds

raftVars       == <<log, term, leader, commit, stored>>
checkpointVars == <<log, term, leader, commit, stored, reserved, sequence, attempt, cadence,
                    broken, left>>

Absent == [id |-> <<NoNode, 0>>, term |-> 0, covered |-> 0, version |-> 0, signer |-> NoNode,
           chain |-> 0, results |-> 0]
Resting == [stage |-> "none", epoch |-> 0, cut |-> 0, proof |-> Absent]
Unwatched == [base |-> 0, pending |-> 0, waiting |-> FALSE, failed |-> FALSE]

CheckpointInit ==
    /\ log = <<>> /\ term = 0 /\ leader = NoNode
    /\ commit = [n \in Nodes |-> 0] /\ stored = [n \in Nodes |-> 0]
    /\ reserved = [n \in Nodes |-> Absent] /\ sequence = [n \in Nodes |-> 0]
    /\ attempt = [n \in Nodes |-> Resting]
    /\ cadence = [n \in Nodes |-> Unwatched]
    /\ broken = [n \in Nodes |-> "no"]
    /\ left = [attempts |-> MaxAttempts, commands |-> MaxCommands, restarts |-> MaxRestarts]

-----------------------------------------------------------------------------
(* What applying the log yields *)

Genesis == [version |-> 1, chain |-> 0, results |-> 0, base |-> 0, outcome |-> {}]
Entry(kind, proof) == [term |-> term, kind |-> kind, proof |-> proof]

Decided(s, id) == \E o \in s.outcome : o.id = id
OutcomeOf(s, id) == (CHOOSE o \in s.outcome : o.id = id).code

\* (Variant: the signer must belong to the first authority.)
ProofHoldsAtGenesis(s, p) == p.version = s.version /\ p.signer \in AuthorityOf[1]

\* decodeCheckpointProof: the authority and its signer are the ones the proof names.
ProofHolds(s, p) == p.version = s.version /\ p.signer \in AuthorityOf[s.version]

\* (Variant: an entry between the cut and the checkpoint is not noticed.)
CoversTerm(e, k) == e.proof.term = e.term

\* validateCheckpointAtApply: the exact successor in the same term, or it is stale; then
\* the heads it covers are the committed heads.
CoversPredecessor(e, k) == e.proof.term = e.term /\ e.proof.covered = k - 1
CoversHeads(s, p) == p.chain = s.chain /\ p.results = s.results

\* reduceConsensusCheckpoint
ReduceCheckpoint(s, e, k) ==
    IF ~ProofHolds(s, e.proof) THEN "invalid_payload"
    ELSE IF ~CoversPredecessor(e, k) THEN "stale_checkpoint"
    ELSE IF ~CoversHeads(s, e.proof) THEN "integrity_mismatch"
    ELSE "accepted"

\* Results are counted when their event is first applied; the baseline of the cadence is
\* the accepted checkpoint itself.
Reduced(s, e, k) ==
    LET code == ReduceCheckpoint(s, e, k) IN
    CASE e.kind = "barrier" -> s
      [] e.kind = "command" -> [s EXCEPT !.chain = @ + 1, !.results = @ + 1]
      [] e.kind = "authority" -> [s EXCEPT !.chain = @ + 1, !.results = @ + 1, !.version = @ + 1]
      [] e.kind = "checkpoint" /\ Decided(s, e.proof.id) -> s
      [] OTHER -> [s EXCEPT !.results = @ + 1,
                            !.chain = @ + (IF code = "accepted" THEN 1 ELSE 0),
                            !.base  = IF code = "accepted" THEN s.chain + 1 ELSE @,
                            !.outcome = @ \cup {[id |-> e.proof.id, code |-> code]}]

\* The store after its first k entries.
StoreAt(k) ==
    LET after[i \in 0..Len(log)] == IF i = 0 THEN Genesis ELSE Reduced(after[i - 1], log[i], i)
    IN after[k]
View(n) == StoreAt(stored[n])

-----------------------------------------------------------------------------
(* Raft, as this code meets it *)

Use(what) == left[what] > 0 /\ left' = [left EXCEPT ![what] = @ - 1]

Running(n)  == broken[n] = "no"
Leads(n)    == leader = n /\ Running(n)
Room        == Len(log) < MaxIndex
Furthest    == CHOOSE k \in {commit[n] : n \in Nodes} : \A n \in Nodes : commit[n] <= k

\* acquireRaftEnqueue: the attempt that closed the cut is the only one to enqueue.
CutClosed(n) == attempt[n].stage \in {"barrier", "view", "sign", "recheck", "reserve", "enqueue"}

\* An election: what was committed stays, of the rest any prefix; the new leader's first
\* entry is its no-op.
Elect(n) ==
    /\ Running(n) /\ term < MaxTerm
    /\ term' = term + 1
    /\ leader' = n
    /\ \E k \in Furthest..Len(log) :
          /\ k < MaxIndex
          /\ log' = Append(SubSeq(log, 1, k), [Entry("barrier", Absent) EXCEPT !.term = term + 1])
    /\ UNCHANGED <<commit, stored, reserved, sequence, attempt, cadence, broken, left>>

\* A leader loses contact with its majority.
StepDown ==
    /\ leader # NoNode
    /\ leader' = NoNode
    /\ UNCHANGED <<log, term, commit, stored, reserved, sequence, attempt, cadence, broken, left>>

\* Other commands, among them the one that changes the credential authority.
Propose(n) ==
    /\ Leads(n) /\ Room /\ ~CutClosed(n)
    /\ Use("commands")
    /\ \/ log' = Append(log, Entry("command", Absent))
       \/ /\ StoreAt(Len(log)).version < Len(AuthorityOf)
          /\ log' = Append(log, Entry("authority", Absent))
    /\ UNCHANGED <<term, leader, commit, stored, reserved, sequence, attempt, cadence, broken>>

Learn(n) ==
    /\ Running(n)
    /\ \/ /\ Leads(n)
          /\ commit[n] < Len(log)
          /\ commit' = [commit EXCEPT ![n] = Len(log)]
       \/ commit[n] < Furthest /\ commit' = [commit EXCEPT ![n] = Furthest]
    /\ UNCHANGED <<log, term, leader, stored, reserved, sequence, attempt, cadence, broken, left>>

\* The state machine applies what was committed: a result takes its request out of the
\* outbox, and a checkpoint that does not match the store stops the node.
ApplyEntries(n) ==
    LET after == StoreAt(commit[n]) IN
    /\ Running(n) /\ stored[n] < commit[n]
    /\ stored' = [stored EXCEPT ![n] = commit[n]]
    /\ reserved' = IF Decided(after, reserved[n].id) THEN [reserved EXCEPT ![n] = Absent] ELSE reserved
    /\ broken' = IF \E o \in after.outcome : o.code = "integrity_mismatch"
                 THEN [broken EXCEPT ![n] = "mismatch"] ELSE broken
    /\ UNCHANGED <<log, term, leader, commit, sequence, attempt, cadence, left>>

-----------------------------------------------------------------------------
(* The scheduler *)

Go(n, st) == attempt' = [attempt EXCEPT ![n].stage = st]

\* The verified cadence row, and what the scheduler must not find in it: a baseline older
\* than the one observed, or than the one a forced checkpoint left.
Baseline(n) == View(n).base
Regressed(n) == Baseline(n) < cadence[n].base \/ Baseline(n) < cadence[n].pending

\* daemonCheckpointScheduler.run, one turn: read the cadence, compare it with what was
\* observed and with what a forced checkpoint must have advanced, and force a checkpoint
\* on the leader if one is due: the commands since the baseline or the interval, which may
\* have passed at any turn, say so.
Observe(n) ==
    /\ Running(n) /\ ~cadence[n].failed /\ ~cadence[n].waiting /\ attempt[n] = Resting
    /\ IF Regressed(n)
       THEN cadence' = [cadence EXCEPT ![n].failed = TRUE] /\ UNCHANGED <<attempt, left>>
       ELSE /\ Leads(n)
            /\ Use("attempts")
            /\ cadence' = [cadence EXCEPT ![n] = [Unwatched EXCEPT !.base = Baseline(n), !.waiting = TRUE]]
            /\ Go(n, "lane")
    /\ UNCHANGED <<raftVars, reserved, sequence, broken>>

\* The attempt is over; the scheduler waits for a wake or its retry timer.
Finished(n) == attempt' = [attempt EXCEPT ![n] = Resting]
Relaxed(n, p) == cadence' = [cadence EXCEPT ![n].waiting = FALSE, ![n].pending = p]
\* A lost epoch, an unreachable signer, a timeout: a retryable error.
FailAttempt(n) ==
    /\ attempt[n].stage \in {"lane", "barrier", "view", "sign", "recheck", "reserve", "enqueue", "decide", "replay"}
    /\ Running(n)
    /\ Finished(n) /\ Relaxed(n, 0)
    /\ UNCHANGED <<raftVars, reserved, sequence, broken, left>>

-----------------------------------------------------------------------------
(* ForceCheckpoint *)

\* RunExclusive has drained the scope; the cut is closed and the barrier enqueued.
EnqueueBarrier(n) ==
    /\ attempt[n].stage = "lane" /\ Leads(n) /\ Room
    /\ reserved[n] = Absent
    /\ log' = Append(log, Entry("barrier", Absent))
    /\ attempt' = [attempt EXCEPT ![n] = [Resting EXCEPT !.stage = "barrier", !.epoch = term, !.cut = Len(log) + 1]]
    /\ UNCHANGED <<term, leader, commit, stored, reserved, sequence, cadence, broken, left>>

EpochHolds(n) == Leads(n) /\ term = attempt[n].epoch

\* appliedThroughCommit: everything committed is in the store.
Settled(n) == stored[n] = commit[n]

Again(n) == attempt' = [attempt EXCEPT ![n] = [Resting EXCEPT !.stage = "lane"]]

\* captureCheckpointState, once the barrier is through: the indexes are read before the
\* view and compared after it; a cut that moved is taken again from the barrier.
ReadIndexes(n) ==
    /\ attempt[n].stage = "barrier" /\ stored[n] >= attempt[n].cut /\ EpochHolds(n)
    /\ IF Settled(n)
       THEN attempt' = [attempt EXCEPT ![n].cut = commit[n], ![n].stage = "view"]
       ELSE Again(n)
    /\ UNCHANGED <<raftVars, reserved, sequence, cadence, broken, left>>

Unmoved(n) == commit[n] = attempt[n].cut

\* signingExpectation for one of the authority's members.
Expectation(n, m) ==
    [Absent EXCEPT !.term = term, !.covered = attempt[n].cut, !.version = View(n).version, !.signer = m,
                   !.chain = View(n).chain, !.results = View(n).results]

CaptureView(n) ==
    /\ attempt[n].stage = "view" /\ EpochHolds(n)
    /\ IF Unmoved(n)
       THEN attempt' = [attempt EXCEPT ![n].stage = "sign", ![n].proof = Expectation(n, NoNode)]
       ELSE Again(n)
    /\ UNCHANGED <<raftVars, reserved, sequence, cadence, broken, left>>

\* proveCheckpointSign: a remote signer knows the requester as the leader of the term.
KnowsRequester(n) == Leads(n) /\ term = attempt[n].proof.term

\* checkpointSigningCut: the signer stands exactly at the cut and finds its own heads and
\* authority in the request.
StandsAtCut(m, p) ==
    /\ commit[m] = p.covered /\ Settled(m)
    /\ View(m).version = p.version /\ CoversHeads(View(m), p)

\* collectCheckpointSignature: this node if it belongs to the authority, or any member of
\* it that has caught up with the cut by some try.
Signers(n) ==
    LET p == attempt[n].proof IN
    {m \in AuthorityOf[p.version] : Running(m) /\ (m = n \/ (KnowsRequester(n) /\ StandsAtCut(m, p)))}

\* requestCheckpointSignature: the answer is for exactly the heads that were asked.
Sign(n, m) ==
    /\ attempt[n].stage = "sign" /\ Running(n)
    /\ m \in Signers(n)
    /\ attempt' = [attempt EXCEPT ![n].stage = "recheck", ![n].proof.signer = m]
    /\ UNCHANGED <<raftVars, reserved, sequence, cadence, broken, left>>

\* requireCheckpointCapture: the signed cut is still the current one.
ConfirmCapture(n) ==
    LET p == attempt[n].proof IN
    /\ attempt[n].stage = "recheck" /\ EpochHolds(n)
    /\ IF Settled(n) /\ Unmoved(n) /\ Expectation(n, p.signer) = p /\ p.signer \in AuthorityOf[p.version]
       THEN Go(n, "reserve")
       ELSE Again(n)
    /\ UNCHANGED <<raftVars, reserved, sequence, cadence, broken, left>>

\* reserveCheckpoint: durable before it is enqueued.
ReserveCheckpoint(n) ==
    LET p == [attempt[n].proof EXCEPT !.id = <<n, sequence[n] + 1>>] IN
    /\ attempt[n].stage = "reserve" /\ Running(n)
    /\ sequence' = [sequence EXCEPT ![n] = @ + 1]
    /\ reserved' = [reserved EXCEPT ![n] = p]
    /\ attempt' = [attempt EXCEPT ![n].stage = "enqueue", ![n].proof = p]
    /\ UNCHANGED <<raftVars, cadence, broken, left>>

\* applyCheckpointWithGuard: enqueue on whatever term this node now leads, open the cut.
EnqueueCheckpoint(n) ==
    /\ attempt[n].stage = "enqueue" /\ Leads(n) /\ Room
    /\ log' = Append(log, Entry("checkpoint", attempt[n].proof))
    /\ Go(n, "decide")
    /\ UNCHANGED <<term, leader, commit, stored, reserved, sequence, cadence, broken, left>>

Answered(n) == Running(n) /\ Decided(View(n), attempt[n].proof.id)
Answer(n)   == OutcomeOf(View(n), attempt[n].proof.id)
Halted(n, why) == broken' = [broken EXCEPT ![n] = why]

\* (Variant: a checkpoint found stale is reported as committed.)
ConcludeStale(n) ==
    /\ attempt[n].stage = "decide" /\ Answered(n)
    /\ Finished(n) /\ Relaxed(n, cadence[n].base + 1)
    /\ UNCHANGED <<raftVars, reserved, sequence, broken, left>>

\* forceCheckpointAttempt after the result: an accepted checkpoint is the scheduler's
\* pending commit, a stale one is tried again, anything else halts the node.
Conclude(n) ==
    /\ attempt[n].stage = "decide" /\ Answered(n)
    /\ \/ /\ Answer(n) = "accepted"
          /\ Finished(n) /\ Relaxed(n, cadence[n].base + 1) /\ UNCHANGED broken
       \/ /\ Answer(n) = "stale_checkpoint"
          /\ Again(n)
          /\ UNCHANGED <<cadence, broken>>
       \/ /\ Answer(n) = "invalid_payload"
          /\ Finished(n) /\ Halted(n, "rejected") /\ UNCHANGED cadence
    /\ UNCHANGED <<raftVars, reserved, sequence, left>>

\* drainScopeThroughLocked: a leader replays the reservation an attempt left behind.
ReplayProof(n) ==
    /\ attempt[n].stage \in {"none", "lane"} /\ Leads(n) /\ Room
    /\ reserved[n] # Absent
    /\ log' = Append(log, Entry("checkpoint", reserved[n]))
    /\ attempt' = [attempt EXCEPT ![n] = [Resting EXCEPT !.stage = "replay", !.proof = reserved[n]]]
    /\ UNCHANGED <<term, leader, commit, stored, reserved, sequence, cadence, broken, left>>

\* VerifyCheckpointReplay: accepted and stale are the two legal outcomes.
VerifyReplay(n) ==
    /\ attempt[n].stage = "replay" /\ Answered(n)
    /\ IF Answer(n) \in {"accepted", "stale_checkpoint"}
       THEN Finished(n) /\ Relaxed(n, 0) /\ UNCHANGED broken
       ELSE Finished(n) /\ Halted(n, "rejected") /\ UNCHANGED cadence
    /\ UNCHANGED <<raftVars, reserved, sequence, left>>

\* A restart loses the attempt and what the scheduler observed; of an idle node it shows
\* nothing and is left out.
Restart(n) ==
    /\ Use("restarts")
    /\ attempt[n] # Resting \/ cadence[n] # Unwatched \/ ~Running(n)
    /\ leader' = IF leader = n THEN NoNode ELSE leader
    /\ attempt' = [attempt EXCEPT ![n] = Resting]
    /\ cadence' = [cadence EXCEPT ![n] = Unwatched]
    /\ broken' = [broken EXCEPT ![n] = "no"]
    /\ UNCHANGED <<log, term, commit, stored, reserved, sequence>>

CheckpointNext ==
    \/ StepDown
    \/ \E n \in Nodes :
          \/ Elect(n) \/ Propose(n) \/ Learn(n) \/ ApplyEntries(n)
          \/ Observe(n) \/ FailAttempt(n) \/ EnqueueBarrier(n) \/ ReadIndexes(n)
          \/ CaptureView(n) \/ ConfirmCapture(n) \/ ReserveCheckpoint(n) \/ EnqueueCheckpoint(n)
          \/ Conclude(n) \/ ReplayProof(n) \/ VerifyReplay(n) \/ Restart(n)
          \/ \E m \in Nodes : Sign(n, m)

CheckpointSpec == CheckpointInit /\ [][CheckpointNext]_checkpointVars

-----------------------------------------------------------------------------
(* Properties *)

\* A checkpoint that is committed as the exact successor of what it covers, in its term,
\* attests the heads every store has there: no store ever finds a mismatch, however far
\* commitment runs ahead of the store while the heads are captured.
CheckpointsTrue == \A n \in Nodes : broken[n] # "mismatch"

\* A forced checkpoint that was reported as committed has advanced the durable baseline,
\* and no baseline goes back: no scheduler stops for a broken cadence.
SchedulersRun == \A n \in Nodes : ~cadence[n].failed

\* A checkpoint refused for anything but staleness is one whose authority changed after
\* it was reserved.
RefusalsExplained ==
    \A n \in Nodes : \A o \in View(n).outcome :
        o.code = "invalid_payload" =>
            \E k \in 1..stored[n] : /\ log[k].kind = "checkpoint" /\ log[k].proof.id = o.id
                                    /\ \E j \in log[k].proof.covered + 1 .. k : log[j].kind = "authority"

\* internal/consensus/checkpoint_commit.go: a replay reaches "the only two legal terminal
\* checkpoint outcomes".
ReplaysLegal == \A n \in Nodes : broken[n] # "rejected"

\* Checkpoints never say what did not happen, and none of them stops a daemon that did
\* nothing wrong.
CheckpointsSound == CheckpointsTrue /\ SchedulersRun /\ RefusalsExplained
=============================================================================
