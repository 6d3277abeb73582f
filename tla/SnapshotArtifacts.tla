-------------------------- MODULE SnapshotArtifacts --------------------------
(***************************************************************************)
(* Logical snapshot artifacts on their way from one daemon to another.     *)
(* The publisher forces a checkpoint, builds an artifact in a staging      *)
(* directory and renames it into the repository; the repository keeps the  *)
(* newest few, retires the rest once neither a handed-out root nor an open *)
(* transfer needs them, and removes retired directories in the background. *)
(* A receiver asks for the latest root, fetches what its cache lacks over  *)
(* a bulk connection, verifies it, installs it and discards the cache.     *)
(*                                                                         *)
(* Artifacts are numbered by the checkpoint they cover.  Descriptor pages  *)
(* and chunks are one sequence of pieces; digests are exact.  What the     *)
(* receiver verifies and installs is the subject of SnapshotStream.        *)
(***************************************************************************)
EXTENDS Naturals, FiniteSets, Sequences

CONSTANTS
    Receivers,
    MaxArtifacts,    \* checkpoints that are published
    Retention,       \* daemonSnapshotRetention
    CacheRetention,  \* daemonSettledSnapshotCacheRetention
    Pieces,          \* pages and chunks of an artifact
    MaxCrashes,      \* of either side
    MaxStops,        \* orderly shutdowns of the publisher's daemon
    MaxMishaps        \* failed file operations, lost connections, damaged cache files

Ids == 1..MaxArtifacts

ASSUME ArtifactConstants ==
    /\ IsFiniteSet(Receivers)
    /\ {MaxArtifacts, Retention, CacheRetention, Pieces} \subseteq Nat \ {0}
    /\ {MaxCrashes, MaxStops, MaxMishaps} \subseteq Nat

VARIABLES
    lifecycle,        \* the publisher's daemon
    disk,        \* the directory of every artifact
    artifacts,   \* repository.artifacts
    retired,     \* repository.retired
    cleaning,    \* cleanupInProgress, and how far
    handoff,     \* artifacts whose handoffUntil lies ahead
    publisher,   \* stage and artifact of publishOnce
    forced,      \* the last forced checkpoint
    bulk,        \* the transfer every receiver's bulk connection holds, 0 for none
    getter,      \* installLatestSnapshot at every receiver
    cache,       \* cache directories, most recently used first
    installed,   \* the cut every receiver has installed
    budget       \* what is left of the three bounds

repositoryVars == <<lifecycle, disk, artifacts, retired, cleaning, handoff, publisher, forced>>
receiverVars   == <<bulk, getter, cache, installed>>
artifactVars   == <<repositoryVars, receiverVars, budget>>

Dormant == [stage |-> "idle", id |-> 0]
Quiet   == [stage |-> "idle", id |-> 0, next |-> 1]

ArtifactInit ==
    /\ lifecycle = "up"
    /\ disk = [i \in Ids |-> "none"]
    /\ artifacts = {} /\ retired = {} /\ handoff = {}
    /\ cleaning = [i \in Ids |-> "no"]
    /\ publisher = Dormant /\ forced = 0
    /\ bulk = [r \in Receivers |-> 0]
    /\ getter = [r \in Receivers |-> Quiet]
    /\ cache = [r \in Receivers |-> <<>>]
    /\ installed = [r \in Receivers |-> 0]
    /\ budget = [crashes |-> MaxCrashes, stops |-> MaxStops, faults |-> MaxMishaps]

Spend(what) == budget[what] > 0 /\ budget' = [budget EXCEPT ![what] = @ - 1]

-----------------------------------------------------------------------------
(* The repository *)

\* newerDaemonSnapshot orders artifacts by the cut they cover.
LatestSnapshot == CHOOSE i \in artifacts : \A j \in artifacts : j <= i
Surplus(s) == {i \in s : Cardinality({j \in s : j > i}) >= Retention}
Transfers(i) == Cardinality({r \in Receivers : bulk[r] = i})

\* (Variant: an artifact is retired although its root was just handed out.)
RetireAny(s, kept) == Surplus(s)

\* retireSnapshotArtifacts: what is beyond the retention and not handed out.
Retire(s, kept) == Surplus(s) \ kept

\* (Variant: retired artifacts are removed under an open transfer.)
AllRemovable(i) == cleaning[i] = "no"
Removable(i) == Transfers(i) = 0 /\ cleaning[i] = "no"

\* scheduleSnapshotPrune on the registered artifacts s and the handed-out ones kept.
Prune(s, kept) ==
    LET gone == retired \cup Retire(s, kept) IN
    /\ artifacts' = s \ Retire(s, kept)
    /\ retired' = gone
    /\ cleaning' = [i \in Ids |-> IF i \in gone /\ Removable(i) THEN "queued" ELSE cleaning[i]]

\* cleanupRetiredArtifact: one removal at a time; the directory, if it is still there,
\* loses its files one by one.
StartRemoval(i) ==
    /\ cleaning[i] = "queued" /\ lifecycle \in {"up", "loading"}
    /\ \A j \in Ids : cleaning[j] # "removing"
    /\ cleaning' = [cleaning EXCEPT ![i] = "removing"]
    /\ disk' = [disk EXCEPT ![i] = IF @ = "none" THEN @ ELSE "parts"]
    /\ UNCHANGED <<lifecycle, artifacts, retired, handoff, publisher, forced, receiverVars, budget>>

\* finishRetiredCleanup: a failed removal or inventory sync leaves the artifact retired.
FinishRemoval(i) ==
    /\ cleaning[i] = "removing"
    /\ cleaning' = [cleaning EXCEPT ![i] = "no"]
    /\ \/ /\ disk' = [disk EXCEPT ![i] = "none"] /\ retired' = retired \ {i} /\ UNCHANGED budget
       \/ /\ Spend("faults") /\ UNCHANGED retired
          /\ \E d \in {"none", disk[i]} : disk' = [disk EXCEPT ![i] = d]
    /\ UNCHANGED <<lifecycle, artifacts, handoff, publisher, forced, receiverVars>>

\* expireSnapshotHandoff
ExpireHandoff(i) ==
    /\ i \in handoff /\ lifecycle = "up"
    /\ handoff' = handoff \ {i}
    /\ Prune(artifacts, handoff \ {i})
    /\ UNCHANGED <<lifecycle, disk, publisher, forced, receiverVars, budget>>

-----------------------------------------------------------------------------
(* The publisher *)

\* (Variant: retired artifacts that are still on disk do not count.)
OverfullRegistered == Cardinality(artifacts) > Retention

\* requireSnapshotPublicationCapacity
Overfull == Cardinality(artifacts) > Retention \/ retired # {}

At(st) == publisher.stage = st /\ lifecycle = "up"
Turn(st) == publisher' = [publisher EXCEPT !.stage = st]
RegistryKept == UNCHANGED <<artifacts, retired, cleaning>>

\* publishOnce: room for one more, or clean up and try again later.
Consider ==
    /\ At("idle")
    /\ \/ Overfull /\ Prune(artifacts, handoff) /\ UNCHANGED publisher
       \/ ~Overfull /\ forced < MaxArtifacts /\ Turn("force") /\ RegistryKept
    /\ UNCHANGED <<lifecycle, disk, handoff, forced, receiverVars, budget>>

\* ForceCheckpoint answers with a checkpoint, or this node is not the leader.
ForceCheckpoint ==
    /\ At("force")
    /\ \/ publisher' = [stage |-> "admit", id |-> forced + 1] /\ forced' = forced + 1
       \/ publisher' = Dormant /\ UNCHANGED forced
    /\ UNCHANGED <<lifecycle, disk, artifacts, retired, cleaning, handoff, receiverVars, budget>>

\* publish: the room is checked again, then the staging directory is created.
Admit ==
    /\ At("admit")
    /\ IF Overfull
       THEN Prune(artifacts, handoff) /\ publisher' = Dormant /\ UNCHANGED disk
       ELSE Turn("build") /\ disk' = [disk EXCEPT ![publisher.id] = "staged"] /\ RegistryKept
    /\ UNCHANGED <<lifecycle, handoff, forced, receiverVars, budget>>

\* The staged artifact is complete and verified, or removed again; what is not an error
\* of leadership or coverage stops the daemon.
Build ==
    /\ At("build")
    /\ \/ Turn("promote") /\ UNCHANGED <<disk, budget>>
       \/ publisher' = Dormant /\ disk' = [disk EXCEPT ![publisher.id] = "none"] /\ UNCHANGED budget
       \/ Spend("faults") /\ Turn("fatal") /\ disk' = [disk EXCEPT ![publisher.id] = "none"]
    /\ UNCHANGED <<lifecycle, artifacts, retired, cleaning, handoff, forced, receiverVars>>

\* The rename, and the sync of the inventory after it.
Promote ==
    /\ At("promote")
    /\ disk' = [disk EXCEPT ![publisher.id] = "whole"]
    /\ \/ Turn("register") /\ UNCHANGED budget
       \/ Spend("faults") /\ Turn("fatal")
    /\ UNCHANGED <<lifecycle, artifacts, retired, cleaning, handoff, forced, receiverVars>>

Register ==
    /\ At("register")
    /\ Prune(artifacts \cup {publisher.id}, handoff)
    /\ publisher' = Dormant
    /\ UNCHANGED <<lifecycle, disk, handoff, forced, receiverVars, budget>>

-----------------------------------------------------------------------------
(* Shutdown, crash and restart of the publisher's daemon *)

\* BeginClose, by an operator or after a fatal publication error: handoffs end, queued
\* cleanups are cancelled, a build that was running removes its staging directory.
BeginClose ==
    /\ lifecycle = "up"
    /\ IF publisher.stage = "fatal" THEN UNCHANGED budget ELSE Spend("stops")
    /\ lifecycle' = "closing"
    /\ handoff' = {}
    /\ cleaning' = [i \in Ids |-> IF cleaning[i] = "queued" THEN "no" ELSE cleaning[i]]
    /\ publisher' = Dormant
    /\ disk' = [i \in Ids |-> IF disk[i] = "staged" /\ i = publisher.id THEN "none" ELSE disk[i]]
    /\ UNCHANGED <<artifacts, retired, forced, receiverVars>>

Gone ==
    /\ lifecycle' = "down"
    /\ artifacts' = {} /\ retired' = {} /\ handoff' = {}
    /\ cleaning' = [i \in Ids |-> "no"]
    /\ publisher' = Dormant
    /\ bulk' = [r \in Receivers |-> 0]

\* Wait: a removal that has begun is waited for.
Closed ==
    /\ lifecycle = "closing"
    /\ \A i \in Ids : cleaning[i] # "removing"
    /\ Gone
    /\ UNCHANGED <<disk, forced, getter, cache, installed, budget>>

CrashDaemon ==
    /\ lifecycle \in {"up", "loading", "closing"}
    /\ Spend("crashes")
    /\ Gone
    /\ UNCHANGED <<disk, forced, getter, cache, installed>>

\* loadArtifact verifies the root, the inventory and every piece of a directory.
Complete == {i \in Ids : disk[i] = "whole"}
Damaged  == \E i \in Ids : disk[i] = "parts"

\* load: staging directories past their age are removed, an
\* artifact that is not whole refuses the repository and with it the daemon.
Open ==
    /\ lifecycle = "down"
    /\ \E expired \in {{}, {i \in Ids : disk[i] = "staged"}} :
          disk' = [i \in Ids |-> IF i \in expired THEN "none" ELSE disk[i]]
    /\ IF Damaged
       THEN lifecycle' = "failed" /\ RegistryKept
       ELSE lifecycle' = "loading" /\ Prune(Complete, {})
    /\ UNCHANGED <<handoff, publisher, forced, receiverVars, budget>>

\* The first prune is part of opening; its errors are errors of the open.
Loaded ==
    /\ lifecycle = "loading"
    /\ \A i \in Ids : cleaning[i] = "no"
    /\ IF retired = {}
       THEN lifecycle' = "up" /\ UNCHANGED <<artifacts, retired, cleaning, handoff, publisher, bulk>>
       ELSE Gone
    /\ UNCHANGED <<disk, forced, getter, cache, installed, budget>>

-----------------------------------------------------------------------------
(* The receiver *)

Working(r) == getter[r].stage = "fetch"
Fresh(i) == [id |-> i, have |-> {}, bad |-> {}]
Without(r, i) == SelectSeq(cache[r], LAMBDA c : c.id # i)
Mine(r) == CHOOSE c \in {cache[r][k] : k \in DOMAIN cache[r]} : c.id = getter[r].id
Touched(r, c) == [cache EXCEPT ![r] = <<c>> \o Without(r, c.id)]
Discarded(r) == [cache EXCEPT ![r] = Without(r, getter[r].id)]
Halt(r) == getter' = [getter EXCEPT ![r] = Quiet]

\* pruneDaemonSettledSnapshotCaches
Recent(all) == SubSeq(all, 1, IF Len(all) < CacheRetention THEN Len(all) ELSE CacheRetention)

\* openOrCreate: the artifact's cache directory, and the most recently used of the others.
OpenCache(r, i) ==
    LET own == SelectSeq(cache[r], LAMBDA c : c.id = i)
        all == (IF own = <<>> THEN <<Fresh(i)>> ELSE own) \o Without(r, i)
    IN [cache EXCEPT ![r] = Recent(all)]

\* LatestSnapshot reserves the handoff; a root that does not advance the receiver is not
\* fetched.
Ask(r) ==
    /\ lifecycle = "up" /\ artifacts # {}
    /\ getter[r] = Quiet /\ bulk[r] = 0
    /\ handoff' = handoff \cup {LatestSnapshot}
    /\ IF LatestSnapshot > installed[r]
       THEN /\ getter' = [getter EXCEPT ![r] = [stage |-> "fetch", id |-> LatestSnapshot, next |-> 1]]
            /\ cache' = OpenCache(r, LatestSnapshot)
       ELSE UNCHANGED <<getter, cache>>
    /\ UNCHANGED <<lifecycle, disk, artifacts, retired, cleaning, publisher, forced, bulk, installed, budget>>

Needed(r) == getter[r].next <= Pieces
Cached(r) == getter[r].next \in Mine(r).have

\* OpenSnapshotTransfer, on the first piece the cache lacks.
OpenTransfer(r) ==
    /\ Working(r) /\ Needed(r) /\ ~Cached(r) /\ bulk[r] = 0
    /\ lifecycle = "up" /\ getter[r].id \in artifacts
    /\ bulk' = [bulk EXCEPT ![r] = getter[r].id]
    /\ UNCHANGED <<repositoryVars, getter, cache, installed, budget>>

Step(r) == getter' = [getter EXCEPT ![r].next = @ + 1]

\* The transfer reads the piece from the artifact's directory.
Served(r) == lifecycle = "up" /\ bulk[r] = getter[r].id /\ disk[bulk[r]] = "whole"

\* SnapshotManifestPage and SnapshotChunk of the bulk client, written to the cache before they are used.
Fetch(r) ==
    LET c == Mine(r) IN
    /\ Working(r) /\ Needed(r) /\ ~Cached(r)
    /\ Served(r)
    /\ cache' = Touched(r, [c EXCEPT !.have = @ \cup {getter[r].next}])
    /\ Step(r)
    /\ UNCHANGED <<repositoryVars, bulk, installed, budget>>

\* (Variant: an attempt that fails keeps what it has cached.)
ReadCacheKeeping(r) ==
    /\ Working(r) /\ Needed(r) /\ Cached(r)
    /\ IF getter[r].next \in Mine(r).bad THEN Halt(r) ELSE Step(r)
    /\ cache' = cache
    /\ UNCHANGED <<repositoryVars, bulk, installed, budget>>

\* A piece from the cache; one that does not verify takes the whole cache with it.
ReadCache(r) ==
    /\ Working(r) /\ Needed(r) /\ Cached(r)
    /\ IF getter[r].next \in Mine(r).bad
       THEN Halt(r) /\ cache' = Discarded(r)
       ELSE Step(r) /\ cache' = Touched(r, Mine(r))
    /\ UNCHANGED <<repositoryVars, bulk, installed, budget>>

\* InstallLogicalSnapshot
Install(r) ==
    /\ Working(r) /\ ~Needed(r)
    /\ installed' = [installed EXCEPT ![r] = getter[r].id]
    /\ cache' = Discarded(r)
    /\ Halt(r)
    /\ UNCHANGED <<repositoryVars, bulk, budget>>

\* A fetch fails: the cache is kept for the next attempt.
Interrupted(r) ==
    /\ Working(r) /\ Needed(r) /\ ~Cached(r)
    /\ \/ lifecycle # "up" \/ (bulk[r] = 0 /\ getter[r].id \notin artifacts)
       \/ (bulk[r] # 0 /\ disk[bulk[r]] # "whole")
    /\ Halt(r)
    /\ UNCHANGED <<repositoryVars, bulk, cache, installed, budget>>

\* releaseSnapshotTransfer, when the connection ends: the attempt is over, or the
\* connection broke or reached its lifetime.
CloseTransfer(r) ==
    LET i == bulk[r] IN
    /\ i # 0 /\ lifecycle = "up"
    /\ IF Working(r) THEN Spend("faults") /\ Halt(r) ELSE UNCHANGED <<budget, getter>>
    /\ bulk' = [bulk EXCEPT ![r] = 0]
    /\ cleaning' = IF i \in retired /\ Transfers(i) = 1 /\ cleaning[i] = "no"
                   THEN [cleaning EXCEPT ![i] = "queued"] ELSE cleaning
    /\ UNCHANGED <<lifecycle, disk, artifacts, retired, handoff, publisher, forced, cache, installed>>

\* A cached file is damaged on disk.
Rot(r) ==
    /\ Spend("faults")
    /\ \E k \in DOMAIN cache[r] : \E p \in cache[r][k].have \ cache[r][k].bad :
          cache' = [cache EXCEPT ![r][k].bad = @ \cup {p}]
    /\ UNCHANGED <<repositoryVars, bulk, getter, installed>>

\* The receiver restarts; prepareDaemonSettledSnapshotScratch drops the attempt, not the
\* cache.
ReceiverCrash(r) ==
    /\ Working(r)
    /\ Spend("crashes")
    /\ Halt(r)
    /\ UNCHANGED <<repositoryVars, bulk, cache, installed>>

-----------------------------------------------------------------------------
PublisherStep == Consider \/ ForceCheckpoint \/ Admit \/ Build \/ Promote \/ Register
ReceiverStep(r) == Ask(r) \/ OpenTransfer(r) \/ Fetch(r) \/ ReadCache(r) \/ Install(r) \/ Interrupted(r)

ArtifactNext ==
    \/ PublisherStep
    \/ BeginClose \/ Closed \/ CrashDaemon \/ Open \/ Loaded
    \/ \E i \in Ids : StartRemoval(i) \/ FinishRemoval(i) \/ ExpireHandoff(i)
    \/ \E r \in Receivers : ReceiverStep(r) \/ CloseTransfer(r) \/ Rot(r) \/ ReceiverCrash(r)

\* The publisher's timer, the cleanup goroutines, the handoff timers, the service manager
\* that restarts the daemon, and a receiver that retries on its interval.
ArtifactFairness ==
    /\ WF_artifactVars(PublisherStep)
    /\ WF_artifactVars(BeginClose /\ publisher.stage = "fatal")
    /\ WF_artifactVars(Closed \/ Open \/ Loaded)
    /\ \A i \in Ids : WF_artifactVars(StartRemoval(i) \/ FinishRemoval(i)) /\ WF_artifactVars(ExpireHandoff(i))
    /\ \A r \in Receivers : WF_artifactVars(ReceiverStep(r)) /\ WF_artifactVars(CloseTransfer(r) /\ ~Working(r))

ArtifactSpec == ArtifactInit /\ [][ArtifactNext]_artifactVars

-----------------------------------------------------------------------------
(* Properties *)

\* A root that was handed out can be opened until its handoff lapses, and what an open
\* transfer serves is whole, whatever is published, retired and removed meanwhile.
ServedIsWhole ==
    lifecycle = "up" => /\ handoff \subseteq artifacts
                   /\ \A i \in artifacts : disk[i] = "whole"
                   /\ \A r \in Receivers : bulk[r] # 0 => disk[bulk[r]] = "whole"

\* The disk holds at most one artifact more than the retention, through crashes, failed
\* removals and transfers that hold retired artifacts.
FinalsBounded == Cardinality({i \in Ids : disk[i] \in {"whole", "parts"}}) <= Retention + 1

\* Unless the repository was refused, every receiver ends with the latest artifact,
\* whatever its cache holds, and every retired artifact is removed.
SnapshotsSettle ==
    <>[](lifecycle = "failed" \/ /\ retired = {}
                                 /\ \A r \in Receivers : artifacts # {} => installed[r] = LatestSnapshot)

\* cmd/codecommd/snapshot_repository.go: "A final artifact directory is never modified
\* after promotion": the daemon that restarts finds its artifacts whole.
RepositoryOpens == lifecycle # "failed"

\* What the repository hands out is whole and stays until it was read, and it keeps no
\* more than its retention allows.
ArtifactsKept == ServedIsWhole /\ FinalsBounded
=============================================================================
