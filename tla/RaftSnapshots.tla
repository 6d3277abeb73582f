---------------------------- MODULE RaftSnapshots ----------------------------
(***************************************************************************)
(* The Raft snapshots of one mesh daemon: the FSM snapshot it captures at   *)
(* a checkpoint command, the frame it writes to the file snapshot store,    *)
(* the snapshot a leader sends when its log no longer reaches back to this  *)
(* daemon, the SQLite installation that restores it, and the checks         *)
(* openNode makes before it hands the files to Raft again.  Three durable   *)
(* stores have to agree after any crash: the Raft log, the snapshot files   *)
(* and SQLite.                                                              *)
(*                                                                          *)
(* The library (hashicorp/raft with raft-boltdb) is external: replication,  *)
(* its order of calls around an installed snapshot, log compaction and the  *)
(* file store's reaping.  The committed log is global; an entry is          *)
(* identified by its index, which fixes its term and bytes.                 *)
(***************************************************************************)
EXTENDS Integers, Sequences, FiniteSets, FiniteSetsExt

CONSTANTS
    Kinds,             \* kinds of entries the leader commits
    MaxLog,            \* bound on the committed entries
    MaxFaults,         \* bound on crashes and rejected snapshots
    MaxFlawed,         \* bound on snapshots a leader sends that do not verify
    SnapshotRetention, \* snapshotRetention: good files the store keeps
    MaxRaftTail,       \* maxSnapshotRaftTail: non-command entries an anchor covers
    TrailingLogs       \* Raft configuration: entries kept behind a snapshot

ASSUME BoundsAssumption ==
    /\ Kinds \subseteq {"command", "checkpoint", "config", "barrier"}
    /\ MaxLog \in Nat \ {0} /\ MaxFaults \in Nat /\ MaxFlawed \in Nat
    /\ SnapshotRetention \in Nat \ {0} /\ MaxRaftTail \in Nat
    /\ TrailingLogs \in Nat

VARIABLES
    committed, \* the committed entries, by index
    peer,     \* the leader: first retained index, latest snapshot
    logs,     \* indexes in this daemon's Raft log store
    files,    \* finalized snapshot files
    sql,      \* SQLite: applied command, configuration, install record
    mode,     \* "up", "down", "halted" (FSM), "refused" (openNode failed)
    raft,     \* volatile Raft state: lastApplied and lastSnapshot
    restore,  \* the finalized inbound file, and whether SQLite has it
    capture,  \* the FSM snapshot between capture and Persist
    compact,  \* snapshot index Raft is about to compact to, 0 for none
    faults, flawed

vars == <<committed, peer, logs, files, sql, mode, raft, restore, capture, compact,
          faults, flawed>>

None == [none |-> TRUE]

Commands == {"command", "checkpoint"}

(* What can be wrong with an inbound snapshot: its frame, the envelope that  *)
(* binds the frame to Raft's metadata, its signed root, the record stream    *)
(* under the root, the replay of that stream.                                *)
Flaws == {"frame", "envelope", "root", "stream", "replay"}

-----------------------------------------------------------------------------
(* Positions in the committed log.                                          *)

AtMost(i, K) == Max({0} \cup {j \in 1 .. i : committed[j] \in K})
LastCommand(i) == AtMost(i, Commands)
LastConfig(i) == AtMost(i, {"config"})

(* snapshotRaftEntryType: the entries a tail may hold.                       *)
TailEntry(j) == committed[j] \in {"config", "barrier"}

LastIn(S) == Max({0} \cup S)
FirstIn(S) == IF S = {} THEN 0 ELSE Min(S)

(* Raft's last index is the later of its log and its snapshot.               *)
LastIndex == Max({LastIn(logs), raft.snap})

(* The file store lists the newest first: by index, then by creation.        *)
Newer(f, g) == f.index > g.index \/ (f.index = g.index /\ f.id > g.id)
Latest(F) == CHOOSE f \in F : \A g \in F \ {f} : Newer(f, g)

(* A file's name carries its creation time: a new one is the latest.         *)
FreshId == 1 + Max({0} \cup {f.id : f \in files}
                   \cup (IF sql.install = None THEN {} ELSE {sql.install.id}))

(* The store keeps one file more than the retention, a validation slot for   *)
(* a finalized inbound snapshot.                                             *)
NoValidationSlot == SnapshotRetention
Slots == SnapshotRetention + 1
Reap(F) == {f \in F : Cardinality({g \in F : Newer(g, f)}) < Slots}

-----------------------------------------------------------------------------
(* Capture: FSM.Snapshot on the FSM goroutine.                               *)

(* The contiguous non-command entries after the applied command: the end of  *)
(* the tail, and whether the anchor can hold it.                             *)
TailEnd ==
    LET Run(k) == \A j \in (sql.applied + 1) .. k : j \in logs /\ TailEntry(j)
    IN  Max({k \in sql.applied .. LastIn(logs \cup {sql.applied}) : Run(k)})
TailCovered == TailEnd - sql.applied <= MaxRaftTail

(* The applied command is still in the log and is a checkpoint.              *)
Eligible ==
    /\ sql.applied \in logs
    /\ committed[sql.applied] = "checkpoint"

(* The export verifies that the checkpoint covers the whole applied history: *)
(* it is the last result, so the cut is the state itself.                    *)
ExportedCut == [base |-> sql.applied, config |-> LastConfig(raft.applied)]

CaptureSnapshot ==
    /\ mode = "up" /\ capture = None /\ compact = 0
    /\ sql.applied # 0 /\ raft.applied > raft.snap
    /\ TailCovered /\ Eligible
    /\ capture' = [base   |-> ExportedCut.base, tail |-> TailEnd,
                   index  |-> raft.applied, config |-> ExportedCut.config]
    /\ UNCHANGED <<committed, peer, logs, files, sql, mode, raft, restore, compact,
                   faults, flawed>>

(* validateSnapshotMetaAnchor: Raft's index is the baseline or in its tail.  *)
AnchorCovers(c) == c.base <= c.index /\ c.index <= c.tail

LocalFile(c) == [id |-> FreshId, source |-> "local", index |-> c.index,
                 base |-> c.base, config |-> c.config, flaw |-> "none"]

(* Persist: the frame is written, verified by the sink and finalized, or the *)
(* sink is cancelled when the metadata does not fit the captured cut.        *)
PersistSnapshot ==
    /\ mode = "up" /\ capture # None
    /\ capture' = None
    /\ IF AnchorCovers(capture)
       THEN /\ files' = Reap(files \cup {LocalFile(capture)})
            /\ raft' = [raft EXCEPT !.snap = Max({@, capture.index})]
            /\ compact' = capture.index
       ELSE UNCHANGED <<files, raft, compact>>
    /\ UNCHANGED <<committed, peer, logs, sql, mode, restore, faults, flawed>>

(* Raft deletes what the snapshot covers, but keeps the trailing entries.    *)
CompactedLogs(S, i) ==
    IF LastIn(S) <= TrailingLogs THEN S
    ELSE {j \in S : j > Min({i, LastIn(S) - TrailingLogs})}

CompactLog ==
    /\ mode = "up" /\ compact # 0
    /\ logs' = CompactedLogs(logs, compact)
    /\ compact' = 0
    /\ UNCHANGED <<committed, peer, files, sql, mode, raft, restore, capture,
                   faults, flawed>>

-----------------------------------------------------------------------------
(* Restore: a leader whose log starts after this daemon's next entry sends   *)
(* its latest snapshot.                                                      *)

PeerFile(flaw) == [id |-> FreshId, source |-> "peer", index |-> peer.snap.index,
                   base |-> peer.snap.base, config |-> peer.snap.config,
                   flaw |-> flaw]

(* The sink's frame verifier: header, size and payload digest.               *)
FrameVerified(f) == f.flaw # "frame"
(* The envelope names the index, term and configuration Raft announced.      *)
EnvelopeVerified(f) == f.flaw # "envelope"
(* The root in the payload names the sender and carries its signature.       *)
RootVerified(f) == f.flaw # "root"
(* The expanded record stream follows the section order and the commitments  *)
(* of the root.                                                              *)
StreamVerified(f) == f.flaw # "stream"
(* Replaying the reducers over the stream in a staging database yields the   *)
(* heads, the projections and the checkpoint the root signs.                 *)
ReplayVerified(f) == f.flaw # "replay"

(* A frame that does not verify is cancelled before it becomes a file.       *)
ReceiveSnapshot ==
    /\ mode = "up" /\ restore = None
    /\ peer.snap # None /\ LastIndex + 1 < peer.first
    /\ \E flaw \in Flaws \cup {"none"} :
          /\ flaw # "none" => flawed < MaxFlawed
          /\ flawed' = flawed + (IF flaw = "none" THEN 0 ELSE 1)
          /\ IF FrameVerified(PeerFile(flaw))
             THEN /\ files' = Reap(files \cup {PeerFile(flaw)})
                  /\ restore' = [file |-> PeerFile(flaw), done |-> FALSE]
                  ELSE UNCHANGED <<files, restore>>
    /\ UNCHANGED <<committed, peer, logs, sql, mode, raft, capture, compact, faults>>

(* RebindVerifiedRaftSnapshotInstall: the very snapshot SQLite was installed *)
(* from, sent again, only changes the receiver-local file name.              *)
Rebinds(f) ==
    /\ sql.install # None
    /\ sql.install.index = f.index /\ sql.install.base = f.base
    /\ sql.install.config = f.config /\ f.flaw = "none"
    /\ sql.applied = f.base /\ sql.config = f.config

(* The installation refuses to take SQLite back: neither the command         *)
(* position, nor the result history, nor the configuration regresses.        *)
PositionNeverAccepted(f) == f.index <= sql.applied
PositionAdvances(f) ==
    /\ sql.applied # 0 => f.index >= sql.applied
    /\ f.config >= sql.config
HistoryExtends(f) == sql.applied <= f.base

Restorable(f) ==
    /\ EnvelopeVerified(f) /\ RootVerified(f)
    /\ Rebinds(f) \/ /\ StreamVerified(f) /\ ReplayVerified(f)
                     /\ PositionAdvances(f) /\ HistoryExtends(f)

(* One transaction replaces the replicated tables and writes the baseline    *)
(* command, the configuration and the binding to the file.                   *)
Installed(f) == [applied |-> f.base, config |-> f.config,
                 install |-> [id |-> f.id, index |-> f.index,
                              base |-> f.base, config |-> f.config]]
Rebound(f) == [sql EXCEPT !.install.id = f.id]

RestoreSnapshot ==
    /\ mode = "up" /\ restore # None /\ ~ restore.done
    /\ Restorable(restore.file)
    /\ sql' = IF Rebinds(restore.file) THEN Rebound(restore.file)
              ELSE Installed(restore.file)
    /\ restore' = [restore EXCEPT !.done = TRUE]
    /\ raft' = [raft EXCEPT !.applied = restore.file.index]
    /\ UNCHANGED <<committed, peer, logs, files, mode, capture, compact, faults,
                   flawed>>

(* A snapshot that cannot be restored halts the FSM and is moved to the      *)
(* quarantine directory.                                                     *)
Quarantined(F, f) == F \ {f}
RejectSnapshot ==
    /\ mode = "up" /\ restore # None /\ ~ restore.done
    /\ ~ Restorable(restore.file)
    /\ files' = Quarantined(files, restore.file)
    /\ mode' = "halted"
    /\ restore' = None /\ capture' = None /\ compact' = 0
    /\ raft' = [applied |-> 0, snap |-> 0]
    /\ UNCHANGED <<committed, peer, logs, sql, faults, flawed>>

(* Back in the library: the snapshot becomes the last one, then the log is   *)
(* compacted; only now is the request answered.                              *)
FinishInstall ==
    /\ mode = "up" /\ restore # None /\ restore.done
    /\ raft' = [raft EXCEPT !.snap = Max({@, restore.file.index})]
    /\ logs' = CompactedLogs(logs, restore.file.index)
    /\ restore' = None
    /\ UNCHANGED <<committed, peer, files, sql, mode, capture, compact, faults,
                   flawed>>

-----------------------------------------------------------------------------
(* Replication and application.                                              *)

Commit(k) ==
    /\ Len(committed) < MaxLog
    /\ committed' = Append(committed, k)
    /\ UNCHANGED <<peer, logs, files, sql, mode, raft, restore, capture,
                   compact, faults, flawed>>

(* The leader snapshots and compacts by the same rules.                      *)
PeerSnapshot(i) ==
    /\ LET b == LastCommand(i) IN
       /\ b # 0 /\ committed[b] = "checkpoint" /\ i - b <= MaxRaftTail
       /\ peer.snap # None => peer.snap.index < i
       /\ peer' = [snap  |-> [index |-> i, base |-> b, config |-> LastConfig(i)],
                   first |-> Max({peer.first,
                                  Min({i, Len(committed) - TrailingLogs}) + 1})]
    /\ UNCHANGED <<committed, logs, files, sql, mode, raft, restore, capture,
                   compact, faults, flawed>>

Replicate ==
    /\ mode = "up" /\ restore = None
    /\ LastIndex < Len(committed) /\ LastIndex + 1 >= peer.first
    /\ logs' = logs \cup {LastIndex + 1}
    /\ UNCHANGED <<committed, peer, files, sql, mode, raft, restore, capture,
                   compact, faults, flawed>>

(* The FSM gets the next entry: a command SQLite already holds is answered   *)
(* from its record, a configuration never takes the stored one back.         *)
AppliedTo(s, i) ==
    CASE committed[i] \in Commands -> [s EXCEPT !.applied = Max({@, i})]
      [] committed[i] = "config"   -> [s EXCEPT !.config = Max({@, i})]
      [] OTHER               -> s

ApplyEntry ==
    /\ mode = "up" /\ (restore # None => ~ restore.done)
    /\ raft.applied + 1 \in logs
    /\ raft' = [raft EXCEPT !.applied = @ + 1]
    /\ sql' = AppliedTo(sql, raft.applied + 1)
    /\ UNCHANGED <<committed, peer, logs, files, mode, restore, capture, compact,
                   faults, flawed>>

-----------------------------------------------------------------------------
(* A crash, and the checks of openNode.                                      *)

Crash ==
    /\ mode = "up" /\ faults < MaxFaults
    /\ mode' = "down" /\ faults' = faults + 1
    /\ restore' = None /\ capture' = None /\ compact' = 0
    /\ raft' = [applied |-> 0, snap |-> 0]
    /\ UNCHANGED <<committed, peer, logs, files, sql, flawed>>

(* A foreign snapshot SQLite is not bound to was finalized but never         *)
(* restored: it is moved to quarantine, and the next file becomes the        *)
(* latest.  A file this daemon signed is never moved.                        *)
BoundAnyFile(f) == TRUE
Bound(f) == f.source = "local" \/ (sql.install # None /\ sql.install.id = f.id)
LiveFiles ==
    {f \in files : \E g \in files : Bound(g) /\ (f = g \/ Newer(g, f))}

LatestIndex(F) == IF F = {} THEN 0 ELSE Latest(F).index

(* verifyLatestLogicalRaftSnapshot, after the quarantine.                    *)
LocalCovered(f) == f.source = "local" => sql.applied >= f.base
InstallRecordValid ==
    sql.install # None =>
        sql.install.base <= sql.applied /\ sql.install.config <= sql.config
BindingMatches(f) ==
    sql.install # None /\ sql.install.id = f.id =>
        /\ sql.install.index = f.index /\ sql.install.base = f.base
        /\ sql.install.config = f.config
SnapshotsVerified ==
    /\ InstallRecordValid
    /\ IF LiveFiles = {} THEN sql.install = None
       ELSE /\ LocalCovered(Latest(LiveFiles))
            /\ \A f \in LiveFiles : BindingMatches(f)

(* The configuration of the latest snapshot, else of the retained log, is    *)
(* made durable before it is compared with its evidence.                     *)
SeededConfig ==
    LET fromSnapshot == IF LiveFiles = {} THEN sql.config
                        ELSE Max({sql.config, Latest(LiveFiles).config})
    IN  IF fromSnapshot # 0 \/ sql.applied = 0 THEN fromSnapshot
        ELSE Max({0} \cup {j \in logs : j <= sql.applied /\ committed[j] = "config"})
ConfigurationEvident ==
    \/ SeededConfig = 0 /\ sql.applied = 0
    \/ SeededConfig \in logs /\ committed[SeededConfig] = "config"
    \/ \E f \in LiveFiles : f.config = SeededConfig

(* validateRaftReplayCoverage: the log starts where the latest snapshot      *)
(* ends, and every index between its first and its last is present.          *)
LogReaches ==
    IF logs = {} THEN LatestIndex(LiveFiles) # 0
    ELSE LastIn(logs) > LatestIndex(LiveFiles) =>
            FirstIn(logs) <= LatestIndex(LiveFiles) + 1
LogContiguous == logs = FirstIn(logs) .. LastIn(logs) \/ logs = {}

(* store.Open: SQLite never applied an entry the durable Raft state lacks.   *)
DurableCovers == sql.applied <= Max({LastIn(logs), LatestIndex(files)})

(* Every check but the one for holes in the log.                             *)
Coherent ==
    DurableCovers /\ SnapshotsVerified /\ ConfigurationEvident /\ LogReaches

(* Raft starts at the latest snapshot without restoring it                   *)
(* (NoSnapshotRestoreOnStart) and replays the log behind it.                 *)
OpenNode ==
    /\ mode \in {"down", "halted"}
    /\ files' = LiveFiles
    /\ IF Coherent /\ LogContiguous
       THEN /\ mode' = "up"
            /\ sql' = [sql EXCEPT !.config = SeededConfig]
            /\ raft' = [applied |-> LatestIndex(LiveFiles),
                        snap    |-> LatestIndex(LiveFiles)]
       ELSE mode' = "refused" /\ UNCHANGED <<sql, raft>>
    /\ UNCHANGED <<committed, peer, logs, restore, capture, compact, faults, flawed>>

-----------------------------------------------------------------------------
(* A bootstrapped voter: the first entry is the initial configuration.       *)
Init ==
    /\ committed = <<"config">>
    /\ peer = [first |-> 1, snap |-> None]
    /\ logs = {1}
    /\ files = {}
    /\ sql = [applied |-> 0, config |-> 0, install |-> None]
    /\ mode = "up"
    /\ raft = [applied |-> 0, snap |-> 0]
    /\ restore = None /\ capture = None /\ compact = 0
    /\ faults = 0 /\ flawed = 0

Next ==
    \/ \E k \in Kinds : Commit(k)
    \/ \E i \in 1 .. Len(committed) : PeerSnapshot(i)
    \/ Replicate \/ ApplyEntry
    \/ CaptureSnapshot \/ PersistSnapshot \/ CompactLog
    \/ ReceiveSnapshot \/ RestoreSnapshot \/ RejectSnapshot \/ FinishInstall
    \/ Crash \/ OpenNode

Spec == Init /\ [][Next]_vars

(* The leader keeps replicating and answering with snapshots, the FSM        *)
(* goroutine keeps running, and the service manager restarts the daemon.     *)
Fairness ==
    /\ WF_vars(Replicate) /\ WF_vars(ApplyEntry)
    /\ WF_vars(ReceiveSnapshot) /\ WF_vars(RestoreSnapshot \/ RejectSnapshot)
    /\ WF_vars(FinishInstall) /\ WF_vars(OpenNode)

FairSpec == Spec /\ Fairness

-----------------------------------------------------------------------------
(* openNode starts Raft at the latest snapshot without restoring it          *)
(* (NoSnapshotRestoreOnStart), and Raft hands the FSM only what follows.     *)
(* Whatever crashed between the finalized file and the SQLite installation,  *)
(* no command at or below Raft's applied index is missing from SQLite, and   *)
(* Raft never starts below the baseline SQLite was installed from.           *)
NoCommandSkipped ==
    mode = "up" /\ (restore # None => ~ restore.done) =>
        /\ LastCommand(raft.applied) <= sql.applied
        /\ sql.install # None => raft.applied >= sql.install.base

(* Log, files and SQLite agree after every crash and after every rejected    *)
(* snapshot: of all its checks, openNode only ever fails the one for holes   *)
(* in the log.  The prior good snapshot is still there because the store     *)
(* keeps a validation slot for the finalized inbound one.                    *)
RefusedOnlyForGap ==
    /\ mode \in {"down", "halted"} => Coherent
    /\ mode = "refused" => ~ LogContiguous

(* A daemon that fell behind the leader's log catches up: with finitely many *)
(* crashes and unverifiable snapshots it applies every committed command,    *)
(* by replication or from a snapshot, unless openNode refuses its log.       *)
Rejoins == <>[](mode = "refused" \/ sql.applied = LastCommand(Len(committed)))

(* What openNode finds after any crash is a store it can go on from, without *)
(* a committed command missing.                                              *)
OpeningsSound == NoCommandSkipped /\ RefusedOnlyForGap
=============================================================================
