---------------------------- MODULE SnapshotStream ----------------------------
(***************************************************************************)
(* A logical snapshot is the whole history of a workspace session as a     *)
(* stream of records: the genesis of every recovery generation, every      *)
(* command result with its mutations in chunks, the accepted events, the   *)
(* projection rows and the checkpoint the signed root names.  The receiver *)
(* goes through the stream twice.  The structural pass (the                *)
(* SequenceValidator) recomputes every chain from the records and compares *)
(* it with the root; the semantic pass reduces every command again into a  *)
(* staged store.  A verified stage then replaces the state of a device's   *)
(* own store, which has gone on applying commands in the meantime, if the  *)
(* snapshot continues exactly the history that store has.                  *)
(*                                                                         *)
(* The reducer is a slice of the real one: origin sequences and exclusive  *)
(* leases, enough to tell accepted, rejected and rejected-without-sequence *)
(* apart.  A digest is the value it is taken of, so two digests are equal  *)
(* exactly when what was hashed is.  Pages and chunks of the transfer, and *)
(* the signature of the root, are below this module: the root commits to   *)
(* the bytes of the artifact, so what arrives is what its exporter signed. *)
(* The exporter may itself be wrong: its replica may have computed another *)
(* outcome, other rows or another recovery transform, and it may have left *)
(* out, repeated or exchanged records.                                     *)
(***************************************************************************)
EXTENDS Naturals, FiniteSets, Sequences, SequencesExt

CONSTANTS
    Local, Other,      \* origins of commands: the installing device, another
    Keys,              \* the paths leases are taken on, as numbers
    FirstSession,      \* the session of generation zero
    LaterSessions,     \* those a recovery may start
    MaxSequence,       \* bounds the commands of one origin,
    MaxHistory,        \* what the exporter's history has before its checkpoint,
    MaxAhead,          \* and that of the destination
    Faults             \* the faults an exporter may have

Origins == {Local, Other}

ASSUME DistinctNames == /\ Local # Other
                        /\ Origins \cup Keys \subseteq Nat
                        /\ FirstSession \notin LaterSessions
                        /\ Faults \subseteq {"outcome", "writes", "transform",
                              "omit", "repeat", "swap", "session", "cut"}

VARIABLES
    source,      \* the exporter's store
    fault,       \* the fault the exporter has, or "none"
    phase,       \* "history", "validate", "replay", "staged", "installed",
                 \* "refused" (by the verification) or "kept" (by the store)
    artifact,    \* the signed root and the records
    pos,         \* the record the current pass reads next
    sv,          \* the structural pass
    rp,          \* the semantic pass, with the staged store
    dest,        \* the destination store: the shared tables of it
    local        \* its tables that no snapshot replaces

vars == <<source, fault, phase, artifact, pos, sv, rp, dest, local>>

-----------------------------------------------------------------------------
(* Rows, proposals and the reducer. *)

None == [none |-> TRUE]

InitialRows == [scopes |-> [o \in Origins |-> 0],
                leases |-> [k \in Keys |-> "none"]]

Lease(session, o, n, k) == [kind |-> "lease", session |-> session,
                            origin |-> o, sequence |-> n, key |-> k]
Checkpoint(st) == [kind |-> "checkpoint", session |-> st.session,
                   generation |-> st.generation, cut |-> st.heads]

\* A sequence that is used or too far ahead is rejected and changes nothing;
\* any other rejection uses the sequence up.  A row, and a write of it, is the
\* number of its table, its key and its value.
Scope(o, n)    == <<1, o, n>>
LeaseRow(k, v) == <<2, k, v>>

Reduce(rows, p) ==
    LET next == p.sequence = rows.scopes[p.origin] + 1
        free == rows.leases[p.key] # "active"
        used == <<Scope(p.origin, p.sequence)>>
    IN  [accepted |-> next /\ free,
         writes   |-> IF ~next THEN <<>>
                      ELSE IF free THEN Append(used, LeaseRow(p.key, "active"))
                      ELSE used]

WriteRow(rows, w) == IF w[1] = 1 THEN [rows EXCEPT !.scopes[w[2]] = w[3]]
                                 ELSE [rows EXCEPT !.leases[w[2]] = w[3]]
Write(rows, writes) == FoldLeft(WriteRow, rows, writes)

\* The rows a recovery starts its generation with: origin sequences begin
\* again and active leases end.
RecoverySuccessor(rows) ==
    [scopes |-> [o \in Origins |-> 0],
     leases |-> [k \in Keys |-> IF rows.leases[k] = "active"
                                THEN "released" ELSE rows.leases[k]]]

\* The rows in the order of the covered tables and of their keys.
Before(r, q) == r[1] < q[1] \/ (r[1] = q[1] /\ r[2] < q[2])
ProjectionRows(rows) ==
    SetToSortSeq({Scope(o, rows.scopes[o]) :
                      o \in {x \in Origins : rows.scopes[x] > 0}}, Before)
    \o
    SetToSortSeq({LeaseRow(k, rows.leases[k]) :
                      k \in {x \in Keys : rows.leases[x] # "none"}}, Before)

-----------------------------------------------------------------------------
(* A store: the generations, the results and the heads of their chains. *)

\* Every chain of a generation starts from its genesis, which names the heads
\* and the genesis it continues and the rows it starts with.
Seeded(heads, g) == [heads EXCEPT !.chainHash = <<g>>, !.resultHash = <<g>>,
                                  !.accumulator = <<g>>]

NoHeads == [chainIndex |-> 0, chainHash |-> <<>>, resultIndex |-> 0,
            resultHash |-> <<>>, accumulator |-> <<>>]

GenesisZero == [generation |-> 0, session |-> FirstSession,
                predecessor |-> NoHeads, predecessorGenesis |-> None,
                transform |-> InitialRows]

Initialize(g) == [generation |-> 0, session |-> g.session, genesis |-> <<g>>,
                  heads |-> Seeded(NoHeads, g), rows |-> g.transform,
                  results |-> <<>>]

Uninitialized == [generation |-> 0, session |-> FirstSession,
                  genesis |-> <<>>, heads |-> NoHeads,
                  rows |-> InitialRows, results |-> <<>>]
Found(st) == st.genesis # <<>>

Successor(st, session, rows) ==
    [generation |-> st.generation + 1, session |-> session,
     predecessor |-> st.heads, predecessorGenesis |-> Last(st.genesis),
     transform |-> rows]

InstallSuccessor(st, g) ==
    [st EXCEPT !.generation = g.generation, !.session = g.session,
               !.genesis = Append(@, g), !.heads = Seeded(@, g),
               !.rows = g.transform]

\* A result: its position, the proposal, the outcome and, when it is
\* accepted, the link of the event chain.
ResultOf(heads, p, accepted) ==
    [resultIndex |-> heads.resultIndex + 1, proposal |-> p,
     accepted |-> accepted,
     chainIndex |-> IF accepted THEN heads.chainIndex + 1 ELSE 0,
     chainHash |-> IF accepted THEN Append(heads.chainHash, p) ELSE <<>>]

AppendResult(heads, r, writes) ==
    [chainIndex  |-> IF r.accepted THEN r.chainIndex ELSE heads.chainIndex,
     chainHash   |-> IF r.accepted THEN r.chainHash ELSE heads.chainHash,
     resultIndex |-> r.resultIndex,
     resultHash  |-> Append(heads.resultHash, r),
     accumulator |-> Append(heads.accumulator, <<r, writes>>)]

Import(st, p, accepted, writes) ==
    LET r == ResultOf(st.heads, p, accepted)
    IN  [st EXCEPT !.heads = AppendResult(@, r, writes),
                   !.rows = Write(@, writes),
                   !.results = Append(@, [result |-> r, writes |-> writes])]

Apply(st, p) == LET o == Reduce(st.rows, p)
                IN  Import(st, p, o.accepted, o.writes)

Committed(st, p) == \E i \in 1..Len(st.results) :
                        st.results[i].result.proposal = p

-----------------------------------------------------------------------------
(* The export: the records of a store whose last result is a checkpoint. *)

\* One write is as much as fits a mutation chunk; an empty list is a chunk.
Chunks(writes) == IF writes = <<>> THEN <<<<>>>>
                  ELSE [i \in 1..Len(writes) |-> <<writes[i]>>]

ResultRecords(e) ==
    <<[type |-> "result", result |-> e.result, mutations |-> e.writes]>>
    \o [i \in 1..Len(Chunks(e.writes)) |->
          [type |-> "mutation", resultIndex |-> e.result.resultIndex,
           chunkIndex |-> i - 1, data |-> Chunks(e.writes)[i]]]

EventRecord(e) == [type |-> "event", chainIndex |-> e.result.chainIndex,
                   chainHash |-> e.result.chainHash,
                   proposal |-> e.result.proposal]

ExportedRecords(st) ==
    [i \in 1..Len(st.genesis) |-> [type |-> "genesis", g |-> st.genesis[i]]]
    \o FlattenSeq([i \in 1..Len(st.results) |-> ResultRecords(st.results[i])])
    \o LET accepted == SelectSeq(st.results, LAMBDA e : e.result.accepted)
       IN  [i \in 1..Len(accepted) |-> EventRecord(accepted[i])]
    \o LET rows == ProjectionRows(st.rows)
       IN  [i \in 1..Len(rows) |-> [type |-> "projection", row |-> rows[i]]]
    \o <<[type |-> "checkpoint", id |-> Last(st.results).result.proposal]>>

\* The root of an export: the cut after the checkpoint, the digest of the
\* rows, the checkpoint and the number of records.
RootOf(st, records) ==
    [session |-> st.session, generation |-> st.generation,
     heads |-> st.heads, state |-> ProjectionRows(st.rows),
     checkpoint |-> Last(st.results).result.proposal,
     recordCount |-> Len(records)]

-----------------------------------------------------------------------------
(* The structural pass.  A failure is kept: every later record fails too.  *)

Fail(s) == [s EXCEPT !.failed = TRUE]
Then(s, Op(_)) == IF s.failed THEN s ELSE Op(s)
Require(s, condition) == IF condition THEN s ELSE Fail(s)

NewValidator(root) ==
    [failed |-> \/ root.heads.chainIndex < 1
               \/ root.recordCount < root.generation + 1
                    + 2 * root.heads.resultIndex + root.heads.chainIndex + 1,
     section |-> "genesis", count |-> 0, genesis |-> <<>>, active |-> 0,
     heads |-> NoHeads, pending |-> None, mutations |-> <<>>, chunk |-> 0,
     checkpoint |-> None, pre |-> NoHeads, proposals |-> <<>>,
     eventIndex |-> 0, eventHash |-> <<>>, eventSeen |-> FALSE, rows |-> <<>>]

ActiveSession(s) == s.genesis[s.active].session
HasNext(s) == s.active < Len(s.genesis)
PrepareBoundaryReplay(s) == [s EXCEPT !.active = 1]

\* Every generation up to the root's, in order, each continuing the genesis
\* before it under a session of its own.
ContinuesLineage(genesis, g, root) ==
    /\ g.generation = Len(genesis)
    /\ g.generation <= root.generation
    /\ (g.generation = root.generation) = (g.session = root.session)
    /\ g.generation > 0 => g.predecessorGenesis = Last(genesis)
    /\ \A i \in 1..Len(genesis) : genesis[i].session # g.session
ValidateGenesis(s, r, root) ==
    IF s.section = "genesis" /\ ContinuesLineage(s.genesis, r.g, root)
    THEN [s EXCEPT !.genesis = Append(@, r.g)]
    ELSE Fail(s)

FinishGenesis(s, root) ==
    IF s.section # "genesis" THEN s
    ELSE IF Len(s.genesis) = root.generation + 1
    THEN [PrepareBoundaryReplay(s) EXCEPT
              !.section = "result", !.heads = Seeded(NoHeads, s.genesis[1])]
    ELSE Fail(s)

\* A boundary takes effect when the results have reached the one it names;
\* several may stand at the same result.
ResultBoundary(s, i) ==
    LET g == s.genesis[i]
    IN  IF s.failed \/ i # s.active + 1
            \/ g.predecessor.resultIndex > s.heads.resultIndex THEN s
        ELSE IF g.predecessor = s.heads
        THEN [s EXCEPT !.active = i, !.heads = Seeded(@, g)]
        ELSE Fail(s)
ResultBoundaries(s) ==
    FoldLeft(ResultBoundary, s, [i \in 1..Len(s.genesis) |-> i])

ValidateResult(s, r, root) ==
    LET Op(t) == IF /\ t.section = "result"
                    /\ t.pending = None
                    /\ r.result.resultIndex = t.heads.resultIndex + 1
                    /\ r.result.resultIndex <= root.heads.resultIndex
                 THEN [t EXCEPT !.pending = r, !.mutations = <<>>, !.chunk = 0]
                 ELSE Fail(t)
    IN  Then(FinishGenesis(s, root), Op)

\* The next chunk of the pending result, no longer than its place allows.
NextChunk(s, r) ==
    /\ s.section = "result"
    /\ s.pending # None
    /\ r.resultIndex = s.pending.result.resultIndex
    /\ r.chunkIndex = s.chunk
    /\ r.chunkIndex < Len(Chunks(s.pending.mutations))
    /\ Len(r.data) = Len(Chunks(s.pending.mutations)[r.chunkIndex + 1])
TakeChunk(s, r) == [s EXCEPT !.mutations = @ \o r.data, !.chunk = @ + 1]
LastChunk(s) == s.chunk = Len(Chunks(s.pending.mutations))

AttestsPreRootCut(cp, pre, root) ==
    /\ cp.session = root.session
    /\ cp.generation = root.generation
    /\ cp.cut = pre
    /\ pre.chainIndex + 1 = root.heads.chainIndex
    /\ pre.resultIndex + 1 = root.heads.resultIndex

\* The root's checkpoint is the last result, accepted, and covers exactly
\* what comes before it.
CaptureCheckpoint(s, r, pre, root) ==
    IF r.proposal # root.checkpoint THEN s
    ELSE IF /\ s.checkpoint = None
            /\ r.proposal.kind = "checkpoint"
            /\ r.accepted
            /\ r.resultIndex = root.heads.resultIndex
            /\ r.chainIndex = root.heads.chainIndex
            /\ AttestsPreRootCut(r.proposal, pre, root)
    THEN [s EXCEPT !.checkpoint = r.proposal, !.pre = pre]
    ELSE Fail(s)

LinksEvent(heads, r) ==
    r.accepted => /\ r.chainIndex = heads.chainIndex + 1
                  /\ r.chainHash = Append(heads.chainHash, r.proposal)

FinishResult(s, r, root) ==
    LET Op(t) ==
          IF /\ r.proposal.session = ActiveSession(t)
             /\ LinksEvent(t.heads, r)
          THEN CaptureCheckpoint(
                 [t EXCEPT !.heads = AppendResult(@, r, s.mutations),
                           !.proposals = IF r.accepted THEN Append(@, r.proposal)
                                         ELSE @],
                 r, t.heads, root)
          ELSE Fail(t)
    IN  Then(ResultBoundaries([s EXCEPT !.pending = None]), Op)

ValidateMutation(s, r, root) ==
    IF ~NextChunk(s, r) THEN Fail(s)
    ELSE LET t == TakeChunk(s, r)
         IN  IF ~LastChunk(t) THEN t
             ELSE IF t.mutations = t.pending.mutations
             THEN FinishResult(t, t.pending.result, root)
             ELSE Fail(t)

ReachesRoot(s, root) == /\ ~HasNext(s)
                        /\ s.genesis[s.active].generation = root.generation
                        /\ ActiveSession(s) = root.session

FinishResults(s, root) ==
    LET Op(t) == IF /\ t.pending = None
                    /\ ReachesRoot(t, root)
                    /\ t.heads = root.heads
                    /\ t.checkpoint # None
                 THEN [PrepareBoundaryReplay(t) EXCEPT
                           !.section = "event", !.eventHash = <<t.genesis[1]>>]
                 ELSE Fail(t)
    IN  IF s.section # "result" THEN s ELSE Then(ResultBoundaries(s), Op)

EventBoundary(s, i) ==
    LET g == s.genesis[i]
    IN  IF s.failed \/ i # s.active + 1
            \/ g.predecessor.chainIndex > s.eventIndex THEN s
        ELSE IF /\ g.predecessor.chainIndex = s.eventIndex
                /\ g.predecessor.chainHash = s.eventHash
        THEN [s EXCEPT !.active = i, !.eventHash = <<g>>]
        ELSE Fail(s)
EventBoundaries(s) ==
    FoldLeft(EventBoundary, s, [i \in 1..Len(s.genesis) |-> i])

FinishSections(s, root) ==
    LET Results(t) == FinishResults(t, root)
    IN  Then(FinishGenesis(s, root), Results)

ValidateEvent(s, r, root) ==
    LET Link(t) ==
          IF /\ r.proposal.session = ActiveSession(t)
             /\ r.proposal = t.proposals[r.chainIndex]
             /\ r.chainHash = Append(t.eventHash, r.proposal)
             /\ r.proposal = root.checkpoint =>
                  /\ ~t.eventSeen
                  /\ r.chainIndex = root.heads.chainIndex
                  /\ r.proposal = t.checkpoint
          THEN [t EXCEPT !.eventIndex = r.chainIndex, !.eventHash = r.chainHash,
                         !.eventSeen = @ \/ r.proposal = root.checkpoint]
          ELSE Fail(t)
        Place(t) == IF /\ t.section = "event"
                       /\ r.chainIndex = t.eventIndex + 1
                       /\ r.chainIndex <= root.heads.chainIndex
                    THEN Then(EventBoundaries(t), Link)
                    ELSE Fail(t)
    IN  Then(FinishSections(s, root), Place)

FinishEvents(s, root) ==
    LET Op(t) == IF /\ ReachesRoot(t, root)
                    /\ t.eventIndex = root.heads.chainIndex
                    /\ t.eventHash = root.heads.chainHash
                    /\ t.eventSeen
                 THEN [t EXCEPT !.section = "projection"]
                 ELSE Fail(t)
    IN  IF s.section # "event" THEN s ELSE Then(EventBoundaries(s), Op)

StartProjections(s, root) ==
    LET Events(t) == FinishEvents(t, root)
        Op(t) == Require(t, t.section = "projection")
    IN  Then(Then(FinishSections(s, root), Events), Op)

ValidateProjection(s, r, root) ==
    LET Op(t) == IF t.rows = <<>> \/ Before(Last(t.rows), r.row)
                 THEN [t EXCEPT !.rows = Append(@, r.row)]
                 ELSE Fail(t)
    IN  Then(StartProjections(s, root), Op)

ValidateCheckpoint(s, r, root) ==
    LET Op(t) == IF /\ t.rows = root.state
                    /\ r.id = root.checkpoint
                    /\ r.id = t.checkpoint
                    /\ AttestsPreRootCut(r.id, t.pre, root)
                    /\ t.count = root.recordCount
                 THEN [t EXCEPT !.section = "done"]
                 ELSE Fail(t)
    IN  Then(StartProjections(s, root), Op)

Validate(s, r, root) ==
    IF s.failed \/ s.section = "done" \/ s.count >= root.recordCount
    THEN Fail(s)
    ELSE LET t == [s EXCEPT !.count = @ + 1]
         IN  CASE r.type = "genesis"    -> ValidateGenesis(t, r, root)
               [] r.type = "result"     -> ValidateResult(t, r, root)
               [] r.type = "mutation"   -> ValidateMutation(t, r, root)
               [] r.type = "event"      -> ValidateEvent(t, r, root)
               [] r.type = "projection" -> ValidateProjection(t, r, root)
               [] r.type = "checkpoint" -> ValidateCheckpoint(t, r, root)

-----------------------------------------------------------------------------
(* The semantic pass: every command is reduced again into a staged store. *)

NewReplay == [failed |-> FALSE, section |-> "genesis", count |-> 0,
              genesis |-> <<>>, store |-> Uninitialized, pending |-> None,
              mutations |-> <<>>, chunk |-> 0, rows |-> <<>>]

\* Generation zero is checked and installed at once; the successors wait in
\* a scratch file until the replay has reached their cut.
ReplayGenesis(s, r) ==
    IF s.section # "genesis" \/ r.g.generation # Len(s.genesis) THEN Fail(s)
    ELSE IF r.g.generation > 0 THEN [s EXCEPT !.genesis = Append(@, r.g)]
    ELSE IF r.g = GenesisZero
    THEN [s EXCEPT !.genesis = <<r.g>>, !.store = Initialize(r.g)]
    ELSE Fail(s)

ReplayFinishGenesis(s, root) ==
    IF s.section # "genesis" THEN s
    ELSE IF Len(s.genesis) = root.generation + 1
    THEN [s EXCEPT !.section = "result"]
    ELSE Fail(s)

\* The transform of a recovery is computed from the replayed rows.
VerifySuccessorBoundary(st, g) == g.transform = RecoverySuccessor(st.rows)

ReadyBoundary(s, i) ==
    LET g == s.genesis[i]
    IN  IF s.failed \/ i # s.store.generation + 2
            \/ g.predecessor.resultIndex > s.store.heads.resultIndex THEN s
        ELSE IF /\ g.session # s.store.session
                /\ g.predecessor = s.store.heads
                /\ VerifySuccessorBoundary(s.store, g)
        THEN [s EXCEPT !.store = InstallSuccessor(@, g)]
        ELSE Fail(s)
ReadyBoundaries(s) ==
    FoldLeft(ReadyBoundary, s, [i \in 1..Len(s.genesis) |-> i])

ReplayResult(s, r, root) ==
    LET Op(t) == IF r.result.resultIndex = t.store.heads.resultIndex + 1
                 THEN [t EXCEPT !.pending = r, !.mutations = <<>>, !.chunk = 0]
                 ELSE Fail(t)
        Place(t) == IF t.section = "result" /\ t.pending = None
                    THEN Then(ReadyBoundaries(t), Op)
                    ELSE Fail(t)
    IN  Then(ReplayFinishGenesis(s, root), Place)

\* A rejected checkpoint is taken from the record, since what it was judged
\* by includes Raft positions no snapshot has; an accepted one must name the
\* heads it was applied at.
ReduceAgain(st, r) ==
    IF r.proposal.kind = "lease" THEN Reduce(st.rows, r.proposal)
    ELSE [accepted |-> /\ r.accepted
                       /\ r.proposal.generation = st.generation
                       /\ r.proposal.cut = st.heads,
          writes |-> <<>>]

\* Bug variant: the mutations are taken from the artifact unchecked.
SameStatus(again, r, writes) == again.accepted = r.accepted
SameOutcome(again, r, writes) ==
    again.accepted = r.accepted /\ again.writes = writes

ReplayCommand(s, r) ==
    LET again == ReduceAgain(s.store, r)
    IN  IF /\ r.proposal.session = s.store.session
           /\ SameOutcome(again, r, s.mutations)
           /\ r = ResultOf(s.store.heads, r.proposal, r.accepted)
        THEN [s EXCEPT !.pending = None,
                       !.store = Import(@, r.proposal, r.accepted, s.mutations)]
        ELSE Fail(s)

ReplayMutation(s, r) ==
    IF ~NextChunk(s, r) THEN Fail(s)
    ELSE LET t == TakeChunk(s, r)
         IN  IF ~LastChunk(t) THEN t
             ELSE IF t.mutations = t.pending.mutations
             THEN ReplayCommand(t, t.pending.result)
             ELSE Fail(t)

ReplayFinishResults(s, root) ==
    LET Op(t) == IF /\ t.pending = None
                    /\ Len(t.genesis) = t.store.generation + 1
                    /\ t.store.session = root.session
                    /\ t.store.generation = root.generation
                    /\ t.store.heads = root.heads
                 THEN [t EXCEPT !.section = "event"]
                 ELSE Fail(t)
    IN  IF s.section # "result" THEN s ELSE Then(ReadyBoundaries(s), Op)

ReplayEvent(s, r, root) ==
    LET Results(t) == ReplayFinishResults(t, root)
        Op(t) == Require(t, t.section = "event")
    IN  Then(Then(ReplayFinishGenesis(s, root), Results), Op)

\* The rows of the artifact are compared with those of the stage, in order.
ReplayStartProjections(s, root) ==
    LET Op(t) == IF t.section = "event"
                 THEN [t EXCEPT !.section = "projection",
                                !.rows = ProjectionRows(t.store.rows)]
                 ELSE Require(t, t.section = "projection")
        Results(t) == ReplayFinishResults(t, root)
    IN  Then(Then(ReplayFinishGenesis(s, root), Results), Op)

ReplayProjection(s, r, root) ==
    LET Op(t) == IF t.rows # <<>> /\ Head(t.rows) = r.row
                 THEN [t EXCEPT !.rows = Tail(@)]
                 ELSE Fail(t)
    IN  Then(ReplayStartProjections(s, root), Op)

ReplayCheckpoint(s, r, root) ==
    LET Op(t) == IF t.rows = <<>> /\ r.id = root.checkpoint
                 THEN [t EXCEPT !.section = "done"]
                 ELSE Fail(t)
    IN  Then(ReplayStartProjections(s, root), Op)

Replay(s, r, root) ==
    IF s.failed \/ s.count >= root.recordCount THEN Fail(s)
    ELSE LET t == [s EXCEPT !.count = @ + 1]
         IN  CASE r.type = "genesis"    -> ReplayGenesis(t, r)
               [] r.type = "result"     -> ReplayResult(t, r, root)
               [] r.type = "mutation"   -> ReplayMutation(t, r)
               [] r.type = "event"      -> ReplayEvent(t, r, root)
               [] r.type = "projection" -> ReplayProjection(t, r, root)
               [] r.type = "checkpoint" -> ReplayCheckpoint(t, r, root)

-----------------------------------------------------------------------------
(* The verification of a complete stage, from its tables alone. *)

\* The end of a generation: where its successor continues, or the head.
GenerationEnd(st, generation) ==
    IF generation = st.generation THEN st.heads
    ELSE st.genesis[generation + 2].predecessor

\* Heads and rows of a store just after a result of some generation, from
\* its genesis and the results it keeps.
Cut(st, generation, index) ==
    LET g == st.genesis[generation + 1]
        Step(c, i) == [heads |-> AppendResult(c.heads, st.results[i].result,
                                              st.results[i].writes),
                       rows  |-> Write(c.rows, st.results[i].writes)]
        from == g.predecessor.resultIndex
    IN  FoldLeft(Step, [heads |-> Seeded(g.predecessor, g),
                        rows |-> g.transform],
                 [i \in 1..(index - from) |-> from + i])

\* The links of a generation are computed again from its genesis.  Only the
\* active one still has its rows: a recovery replaced those of the others.
GenerationVerified(st, generation) ==
    LET end == GenerationEnd(st, generation)
        last == Cut(st, generation, end.resultIndex)
    IN  /\ \A i \in (st.genesis[generation + 1].predecessor.resultIndex + 1)
                         ..end.resultIndex :
              LET r == st.results[i].result
              IN  r = ResultOf(Cut(st, generation, i - 1).heads,
                               r.proposal, r.accepted)
        /\ last.heads = end
        /\ generation = st.generation => last.rows = st.rows

CompleteHistory(st) ==
    /\ Len(st.genesis) = st.generation + 1
    /\ Last(st.genesis).session = st.session
    /\ \A generation \in 0..st.generation :
          /\ st.genesis[generation + 1].generation = generation
          /\ GenerationVerified(st, generation)
    /\ Len(st.results) = st.heads.resultIndex
    /\ Len(SelectSeq(st.results, LAMBDA e : e.result.accepted))
          = st.heads.chainIndex

\* The result at the head is the accepted checkpoint of the cut before it.
TerminalCheckpoint(st, id) ==
    LET result == Last(st.results).result
    IN  /\ result.proposal = id
        /\ result.accepted
        /\ id.session = st.session
        /\ id.generation = st.generation
        /\ id.cut = Cut(st, st.generation, result.resultIndex - 1).heads

StageVerified(st, root) ==
    /\ st.session = root.session
    /\ st.generation = root.generation
    /\ st.heads = root.heads
    /\ CompleteHistory(st)
    /\ ProjectionRows(st.rows) = root.state
    /\ TerminalCheckpoint(st, root.checkpoint)

-----------------------------------------------------------------------------
(* The installation into the destination store. *)

\* Bug variant: only the indexes of the destination's cut are looked at.
ReachesPosition(st, d) ==
    /\ st.genesis[d.generation + 1].session = d.session
    /\ d.heads.resultIndex <= GenerationEnd(st, d.generation).resultIndex
    /\ d.heads.chainIndex <= GenerationEnd(st, d.generation).chainIndex
\* The snapshot holds exactly the cut the destination is at.
ContainsCut(st, d) ==
    /\ st.genesis[d.generation + 1] = Last(d.genesis)
    /\ d.heads.resultIndex <= GenerationEnd(st, d.generation).resultIndex
    /\ d.heads.chainIndex <= GenerationEnd(st, d.generation).chainIndex
    /\ LET cut == Cut(st, d.generation, d.heads.resultIndex)
       IN  /\ cut.heads = d.heads
           /\ d.generation = st.generation => cut.rows = d.rows

GenerationChanged(st, d) == Found(d) /\ d.generation < st.generation

\* An initialized store is only continued, and one that takes part in Raft
\* leaves it only with its generation.
DestinationPermits(st, d, asRaft) ==
    IF Found(d)
    THEN /\ d.generation <= st.generation
         /\ d.heads.resultIndex <= st.heads.resultIndex
         /\ d.heads.chainIndex <= st.heads.chainIndex
         /\ ContainsCut(st, d)
         /\ local.settled \/ asRaft \/ GenerationChanged(st, d)
    ELSE local.outbox = {}

\* Rows of the predecessor generation are cleared; commands the snapshot
\* answers leave the outbox, and the counter follows the committed sequence.
\* Bug variant: the origin counters outlive their generation.
ClearOutbox(l) == [l EXCEPT !.outbox = {}]
ClearGenerationLocalState(l) == [l EXCEPT !.outbox = {}, !.next = 1]
CompactLocalCommands(l, st) ==
    [l EXCEPT !.outbox = {p \in @ : ~Committed(st, p)}]
AdvanceOriginCounters(l, st) ==
    [l EXCEPT !.next = IF st.rows.scopes[Local] >= @ /\ @ > 1
                       THEN st.rows.scopes[Local] + 1 ELSE @]
ReconcileLocalState(l, st, changed) ==
    LET cleared == IF changed THEN ClearGenerationLocalState(l) ELSE l
    IN  AdvanceOriginCounters(CompactLocalCommands(cleared, st), st)

-----------------------------------------------------------------------------
(* Steps of the exporter. *)

\* What may be committed next: commands of the other device in any order,
\* those of the local device in the order it queued them.
Candidates(st) ==
    {p \in {Lease(st.session, Other, n, k) : n \in 1..MaxSequence, k \in Keys}
            \cup {q \in local.outbox : /\ q.session = st.session
                                        /\ q.sequence = st.rows.scopes[Local] + 1} :
        ~Committed(st, p)}

Recording == phase = "history" /\ Len(source.results) + source.generation < MaxHistory
Keeping   == UNCHANGED <<phase, artifact, pos, sv, rp, dest, local>>

SourceApplies == \E p \in Candidates(source) :
    /\ Recording
    /\ source' = Apply(source, p)
    /\ Keeping /\ UNCHANGED fault

\* A checkpoint proposal that reaches its log position is accepted; one that
\* is overtaken there is rejected whatever the heads are.
SourceCheckpoints == \E accepted \in BOOLEAN :
    /\ Recording
    /\ ~Committed(source, Checkpoint(source))
    /\ source' = Import(source, Checkpoint(source), accepted, <<>>)
    /\ Keeping /\ UNCHANGED fault

SourceRecovers == \E session \in LaterSessions :
    /\ Recording
    /\ \A i \in 1..Len(source.genesis) : source.genesis[i].session # session
    /\ source' = InstallSuccessor(source, Successor(source, session,
                                       RecoverySuccessor(source.rows)))
    /\ Keeping /\ UNCHANGED fault

\* The replica of the exporter went wrong, once: in an outcome, in the rows a
\* command wrote, or in the rows a recovery started from.
SourceGoesWrong ==
    /\ Recording
    /\ fault = "none"
    /\ \/ \E p \in Candidates(source) :
             LET o == Reduce(source.rows, p)
             IN  \/ /\ fault' = "outcome"
                    /\ source' = Import(source, p, ~o.accepted, o.writes)
                 \/ /\ fault' = "writes"
                    /\ o.writes # <<>>
                    /\ source' = Import(source, p, o.accepted, Tail(o.writes))
       \/ \E session \in LaterSessions :
             /\ fault' = "transform"
             /\ source.generation = 0
             /\ source.rows # RecoverySuccessor(source.rows)
             /\ source' = InstallSuccessor(source,
                              Successor(source, session, source.rows))
    /\ fault' \in Faults
    /\ Keeping

\* The last result is an accepted checkpoint of everything before it, and
\* the records are all of the store, unless the exporter slips.
Slips(records, root) ==
    {<<"none", records, root>>}
    \cup {<<"omit", RemoveAt(records, i),
             [root EXCEPT !.recordCount = @ - 1]>> : i \in 1..Len(records)}
    \cup {<<"repeat", InsertAt(records, i, records[i]),
             [root EXCEPT !.recordCount = @ + 1]>> : i \in 1..Len(records)}
    \cup {<<"swap", [records EXCEPT ![i] = records[i + 1],
                                    ![i + 1] = records[i]], root>> :
             i \in 1..(Len(records) - 1)}
    \cup (IF root.generation = 0 THEN {} ELSE
             {<<"session", records, [root EXCEPT !.session = FirstSession]>>})
    \cup {<<"cut", records, [root EXCEPT !.heads = root.checkpoint.cut]>>}

Export ==
    LET st == Import(source, Checkpoint(source), TRUE, <<>>)
        records == ExportedRecords(st)
    IN  /\ phase = "history"
        /\ ~Committed(source, Checkpoint(source))
        /\ \E slip \in Slips(records, RootOf(st, records)) :
             /\ slip[1] = "none" \/ (slip[1] \in Faults /\ fault = "none")
             /\ fault' = IF slip[1] = "none" THEN fault ELSE slip[1]
             /\ artifact' = [records |-> slip[2], root |-> slip[3]]
             /\ sv' = NewValidator(slip[3])
        /\ phase' = "validate"
        /\ pos' = 1
        /\ source' = st
        /\ UNCHANGED <<rp, dest, local>>

-----------------------------------------------------------------------------
(* Steps of the receiver. *)

ValidateRecord ==
    /\ phase = "validate"
    /\ pos <= Len(artifact.records)
    /\ ~sv.failed
    /\ sv' = Validate(sv, artifact.records[pos], artifact.root)
    /\ pos' = pos + 1
    /\ UNCHANGED <<source, fault, phase, artifact, rp, dest, local>>

\* The stream ends with its terminal checkpoint, or the artifact is refused.
FinishValidation ==
    /\ phase = "validate"
    /\ sv.failed \/ pos > Len(artifact.records)
    /\ IF sv.failed \/ sv.section # "done"
       THEN phase' = "refused" /\ UNCHANGED <<pos, rp>>
       ELSE phase' = "replay" /\ pos' = 1 /\ rp' = NewReplay
    /\ sv' = None
    /\ UNCHANGED <<source, fault, artifact, dest, local>>

ReplayRecord ==
    /\ phase = "replay"
    /\ pos <= Len(artifact.records)
    /\ ~rp.failed
    /\ rp' = Replay(rp, artifact.records[pos], artifact.root)
    /\ pos' = pos + 1
    /\ UNCHANGED <<source, fault, phase, artifact, sv, dest, local>>

\* A failed stage is removed; a complete one is verified and frozen.
FinishReplay ==
    /\ phase = "replay"
    /\ rp.failed \/ pos > Len(artifact.records)
    /\ IF /\ ~rp.failed
          /\ rp.section = "done"
          /\ rp.count = artifact.root.recordCount
          /\ StageVerified(rp.store, artifact.root)
       THEN phase' = "staged" /\ rp' = [store |-> rp.store, root |-> artifact.root]
       ELSE phase' = "refused" /\ rp' = None
    /\ artifact' = None
    /\ pos' = 0
    /\ UNCHANGED <<source, fault, sv, dest, local>>

\* The installation verifies the stage again and decides about the store as
\* it is by then; it replaces the shared tables and reconciles the local ones
\* in one transaction.
Install == \E asRaft \in BOOLEAN :
    /\ phase = "staged"
    /\ IF /\ StageVerified(rp.store, rp.root)
          /\ DestinationPermits(rp.store, dest, asRaft)
       THEN /\ phase' = "installed"
            /\ dest' = rp.store
            /\ local' = [ReconcileLocalState(local, rp.store,
                                 GenerationChanged(rp.store, dest))
                         EXCEPT !.settled = ~asRaft]
       ELSE phase' = "kept" /\ UNCHANGED <<dest, local>>
    /\ UNCHANGED <<source, fault, artifact, pos, sv, rp>>

\* Until then the destination goes on: it applies what it learns of, answers
\* its own commands, queues new ones and may follow a recovery.  The passes
\* do not read it, so these steps are taken once the stage is complete.
DestinationRuns == phase = "staged" /\ fault = "none" /\ Found(dest)
Ahead == Len(dest.results) + dest.generation < MaxAhead

DestinationApplies == \E p \in Candidates(dest) :
    /\ DestinationRuns /\ Ahead
    /\ dest' = Apply(dest, p)
    /\ local' = [local EXCEPT !.outbox = @ \ {p}]
    /\ UNCHANGED <<source, fault, phase, artifact, pos, sv, rp>>

DestinationCheckpoints ==
    /\ DestinationRuns /\ Ahead
    /\ ~Committed(dest, Checkpoint(dest))
    /\ dest' = Import(dest, Checkpoint(dest), TRUE, <<>>)
    /\ UNCHANGED <<source, fault, phase, artifact, pos, sv, rp, local>>

DestinationRecovers == \E session \in LaterSessions :
    /\ DestinationRuns /\ Ahead
    /\ \A i \in 1..Len(dest.genesis) : dest.genesis[i].session # session
    /\ dest' = InstallSuccessor(dest, Successor(dest, session,
                                      RecoverySuccessor(dest.rows)))
    /\ local' = [ClearGenerationLocalState(local) EXCEPT !.settled = FALSE]
    /\ UNCHANGED <<source, fault, phase, artifact, pos, sv, rp>>

\* nextOriginSequence and advanceOriginCounter: a command takes the next
\* number of the device.
DestinationQueues == \E k \in Keys :
    /\ DestinationRuns \/ (phase = "installed" /\ fault = "none")
    /\ local.next <= MaxSequence
    /\ local' = [local EXCEPT !.next = @ + 1,
                     !.outbox = @ \cup {Lease(dest.session, Local, local.next, k)}]
    /\ UNCHANGED <<source, fault, phase, artifact, pos, sv, rp, dest>>

Init ==
    /\ source = Initialize(GenesisZero)
    /\ fault = "none"
    /\ phase = "history"
    /\ artifact = None
    /\ pos = 0
    /\ sv = None
    /\ rp = None
    /\ \/ /\ dest = Uninitialized
          /\ local = [settled |-> FALSE, outbox |-> {}, next |-> 1]
       \/ /\ dest = Initialize(GenesisZero)
          /\ \E n \in 0..MaxSequence, settled \in BOOLEAN :
               \E k \in [1..n -> Keys] :
                  local = [settled |-> settled, next |-> n + 1,
                           outbox |-> {Lease(FirstSession, Local, i, k[i]) :
                                           i \in 1..n}]

Next == \/ SourceApplies \/ SourceCheckpoints \/ SourceRecovers
        \/ SourceGoesWrong \/ Export
        \/ ValidateRecord \/ FinishValidation
        \/ ReplayRecord \/ FinishReplay \/ Install
        \/ DestinationApplies \/ DestinationCheckpoints
        \/ DestinationRecovers \/ DestinationQueues

Spec == Init /\ [][Next]_vars

-----------------------------------------------------------------------------
(* Properties *)

\* The two passes are exact: an artifact is staged when its exporter has no
\* fault and refused when it has one.  A replica that computed another
\* outcome signs chains that are consistent in themselves, and a generation
\* may start anywhere between the results.
VerificationIsExact ==
    /\ phase \in {"staged", "installed", "kept"} =>
           fault = "none" /\ rp.store = source
    /\ phase = "refused" => fault # "none"

\* An installation never takes back or rewrites what the device has applied:
\* the generations and the results it had are the first ones of the new
\* history, although the store has gone on since the stage was verified.
InstallExtends ==
    [][phase' = "installed" /\ phase = "staged" =>
         /\ IsPrefix(dest.genesis, dest'.genesis)
         /\ IsPrefix(dest.results, dest'.results)]_vars

\* Queued commands are exactly the ones that follow the last committed
\* sequence of the device, in the generation the store is in, whatever was
\* installed between queueing and committing: no answered command is sent
\* again and no later one is rejected for a gap.
LocalSequenceContinues ==
    Found(dest) =>
        /\ {p.sequence : p \in local.outbox} =
               (dest.rows.scopes[Local] + 1)..(local.next - 1)
        /\ \A p \in local.outbox : p.session = dest.session /\ ~Committed(dest, p)

\* What a device stages and keeps is right: the verified artifact, and its own queue
\* after an installation.
InstalledIsSound == VerificationIsExact /\ LocalSequenceContinues
=============================================================================
