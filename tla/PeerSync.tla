------------------------------- MODULE PeerSync -------------------------------
(***************************************************************************)
(* Content connections between a daemon and one of its peers.  A worker    *)
(* keeps one control connection: it dials, reads the peer's session,       *)
(* watches the peer's event watermarks, replicates when they move, and     *)
(* dials a replacement when the credential of either side has advanced.    *)
(* The peer's server registers at most one current and one draining        *)
(* connection and lets no older credential displace a newer one.           *)
(*                                                                         *)
(* A request is a step of the server; the event stream is a request that   *)
(* stays.  What replication transfers is the subject of                    *)
(* SettledReplication: here it brings the daemon to the peer's head.       *)
(***************************************************************************)
EXTENDS Naturals, FiniteSets

CONSTANTS
    MaxConns,     \* connections dialled
    MaxEpoch,     \* credential epochs of each side
    MaxHead,      \* results the peer applies
    MaxBreaks,    \* connections that break
    MaxChanges    \* times the peer leaves or rejoins the membership

Conns  == 1..MaxConns
Epochs == 1..MaxEpoch

ASSUME SyncConstants ==
    /\ {MaxConns, MaxEpoch} \subseteq Nat \ {0}
    /\ {MaxHead, MaxBreaks, MaxChanges} \subseteq Nat

VARIABLES
    member,      \* the peer is an active member
    epoch,       \* current content credential, of this daemon and of the peer
    worker,      \* stage, connection and replacement of the peer's worker
    conn,        \* every connection
    current, draining, credential,   \* controlPeerState of this daemon at the peer
    head,        \* the peer's applied result index
    wake,        \* streamWake
    seen,        \* streamResultIndex
    target,      \* the result the next replication answers
    synced,      \* this daemon's result index
    spent        \* breaks and membership changes

registryVars == <<current, draining, credential>>
syncVars == <<member, epoch, worker, conn, registryVars, head, wake, seen, target, synced, spent>>

Unused == [client |-> "none", handler |-> "none", local |-> 0, remote |-> 0,
           stream |-> "no", changed |-> FALSE, sent |-> 0, frame |-> 0]
Off == [stage |-> "off", conn |-> 0, spare |-> 0]

SyncInit ==
    /\ member \in BOOLEAN
    /\ epoch = [local |-> 1, remote |-> 1]
    /\ worker = Off
    /\ conn = [c \in Conns |-> Unused]
    /\ current = 0 /\ draining = 0 /\ credential = 0
    /\ head = 0 /\ wake = FALSE /\ seen = 0 /\ target = 0 /\ synced = 0
    /\ spent = [breaks |-> 0, changes |-> 0]

-----------------------------------------------------------------------------
(* The server's registry and handlers *)

LiveConn(c) == conn[c].handler \in {"fresh", "serving", "draining"}
With(c, field, v) == conn' = [conn EXCEPT ![c][field] = v]

\* compareControlCredentials
Older(c, d) == conn[c].local < conn[d].local

\* register: a credential older than one that was registered.
Superseded(c) == conn[c].local < credential

\* (Variant: a connection is registered beside the one that drains.)
AnyRoom == TRUE

\* registerControl: room only while nothing drains.
ControlRoom == current = 0 \/ draining = 0

\* markDraining
Drained(cs) == [d \in Conns |-> IF d = current THEN [cs[d] EXCEPT !.handler = "draining"] ELSE cs[d]]

\* ServeHTTP on the session request: the connection takes its role and its slot.
RegisterConn(c) ==
    /\ conn[c].handler = "fresh" /\ conn[c].client = "open"
    /\ ~Superseded(c) /\ ControlRoom
    /\ conn' = [Drained(conn) EXCEPT ![c].handler = "serving", ![c].client = "ready"]
    /\ draining' = IF current # 0 THEN current ELSE draining
    /\ current' = c
    /\ credential' = conn[c].local
    /\ UNCHANGED <<member, epoch, worker, head, wake, seen, target, synced, spent>>

\* Superseded, or no slot: the response closes the connection.
Refuse(c) ==
    /\ conn[c].handler = "fresh" /\ conn[c].client = "open"
    /\ Superseded(c) \/ ~ControlRoom
    /\ conn' = [conn EXCEPT ![c].handler = "gone", ![c].client = "failed"]
    /\ UNCHANGED <<member, epoch, worker, registryVars, head, wake, seen, target, synced, spent>>

\* The deferred close of ServeAuthenticatedConn, when the client has hung up, or a
\* draining connection has no request left: unregister.
EndConnection(c) ==
    /\ LiveConn(c)
    /\ conn[c].client \in {"failed", "shut"} \/ (conn[c].handler = "draining" /\ conn[c].stream = "no")
    /\ conn' = [conn EXCEPT ![c].handler = "gone", ![c].stream = "no", ![c].changed = FALSE,
                            ![c].client = IF @ = "shut" THEN @ ELSE "failed"]
    /\ current'  = IF current = c THEN 0 ELSE current
    /\ draining' = IF draining = c THEN 0 ELSE draining
    /\ UNCHANGED <<member, epoch, worker, credential, head, wake, seen, target, synced, spent>>

-----------------------------------------------------------------------------
(* The event stream *)

Accepts(c) == conn[c].handler = "serving" /\ conn[c].client = "ready"

\* (Variant: the watermark is read before the stream subscribes to changes.)
SubscribeStreamLate(c) ==
    /\ conn[c].stream = "asked" /\ Accepts(c)
    /\ conn' = [conn EXCEPT ![c].stream = "subscribed", ![c].sent = head, ![c].frame = head + 1]
    /\ UNCHANGED <<member, epoch, worker, registryVars, head, wake, seen, target, synced, spent>>

\* serveEventStream subscribes to changes first and reads the watermark after.
SubscribeStream(c) ==
    /\ conn[c].stream = "asked" /\ Accepts(c)
    /\ conn' = [conn EXCEPT ![c].stream = "subscribed", ![c].changed = TRUE]
    /\ UNCHANGED <<member, epoch, worker, registryVars, head, wake, seen, target, synced, spent>>

\* The current watermark, then every change that moved it; frames carry head + 1, 0 is none.
SendWatermark(c) ==
    /\ conn[c].stream \in {"subscribed", "flowing"} /\ conn[c].changed /\ LiveConn(c)
    /\ conn' = [conn EXCEPT ![c].stream = "flowing", ![c].changed = FALSE, ![c].sent = head,
                            ![c].frame = IF conn[c].stream = "subscribed" \/ head > conn[c].sent THEN head + 1 ELSE @]
    /\ UNCHANGED <<member, epoch, worker, registryVars, head, wake, seen, target, synced, spent>>

\* The peer applies a result and signals its subscribers.
ApplyResult ==
    /\ head < MaxHead
    /\ head' = head + 1
    /\ conn' = [c \in Conns |-> IF conn[c].stream = "flowing" \/ (conn[c].stream = "subscribed" /\ conn[c].changed)
                                THEN [conn[c] EXCEPT !.changed = TRUE] ELSE conn[c]]
    /\ UNCHANGED <<member, epoch, worker, registryVars, wake, seen, target, synced, spent>>

\* watchEventWatermarks: the watermark is stored, then the worker is woken.
ReceiveWatermark(c) ==
    /\ c = worker.conn /\ conn[c].frame > 0 /\ conn[c].client = "ready" /\ worker.stage = "maintain"
    /\ seen' = conn[c].frame - 1
    /\ wake' = TRUE
    /\ With(c, "frame", 0)
    /\ UNCHANGED <<member, epoch, worker, registryVars, head, target, synced, spent>>

-----------------------------------------------------------------------------
(* The worker *)

Unspent(what, most) == spent[what] < most /\ spent' = [spent EXCEPT ![what] = @ + 1]
NextConn(c) == conn[c] = Unused /\ \A d \in Conns : d < c => conn[d] # Unused
Spare == \E c \in Conns : conn[c] = Unused

Hung(c, cs) == IF c = 0 THEN cs ELSE [cs EXCEPT ![c].client = "shut", ![c].frame = 0]

\* reconcileWorkers, on the refresh ticker: a worker for every active peer.
Reconcile ==
    /\ member # (worker.stage # "off")
    /\ IF member
       THEN worker' = [Off EXCEPT !.stage = "dial"] /\ UNCHANGED conn
       ELSE worker' = Off /\ conn' = Hung(worker.spare, Hung(worker.conn, conn))
    /\ target' = 0
    /\ UNCHANGED <<member, epoch, registryVars, head, wake, seen, synced, spent>>

\* dialPeer, to the first endpoint that answers; both certificates are the current ones.
DialPeer ==
    /\ worker.stage \in {"dial", "replace"} /\ worker.spare = 0
    /\ \E c \in Conns :
         /\ NextConn(c)
         /\ worker' = [worker EXCEPT !.spare = c]
         /\ conn' = [conn EXCEPT ![c].client = "open", ![c].handler = "fresh",
                                 ![c].local = epoch.local, ![c].remote = epoch.remote]
    /\ UNCHANGED <<member, epoch, registryVars, head, wake, seen, target, synced, spent>>

\* The session answer arrived: the new connection takes the place of the old one, and
\* maintainPeer asks for the stream on it.
Connected ==
    LET c == worker.spare IN
    /\ c # 0 /\ conn[c].client = "ready"
    /\ worker' = [stage |-> "maintain", conn |-> c, spare |-> 0]
    /\ conn' = [Hung(worker.conn, conn) EXCEPT ![c].stream = "asked"]
    /\ wake' = TRUE
    /\ UNCHANGED <<member, epoch, registryVars, head, seen, target, synced, spent>>

\* The dial failed: retried from the start, or the old connection is maintained again.
DialFailed ==
    LET c == worker.conn IN
    /\ worker.spare # 0 /\ conn[worker.spare].client = "failed"
    /\ worker' = [worker EXCEPT !.spare = 0, !.stage = IF c = 0 THEN "dial" ELSE "maintain"]
    /\ conn' = IF c = 0 THEN conn ELSE [conn EXCEPT ![c].stream = IF Accepts(c) THEN "asked" ELSE @]
    /\ wake' = TRUE
    /\ UNCHANGED <<member, epoch, registryVars, head, seen, target, synced, spent>>

Usable == worker.stage = "maintain" /\ Accepts(worker.conn)

\* maintainPeer, woken: the wake is consumed and the watermark read before the request.
BeginSync ==
    /\ Usable /\ wake /\ target = 0
    /\ wake' = FALSE
    /\ target' = seen + 1
    /\ UNCHANGED <<member, epoch, worker, conn, registryVars, head, seen, synced, spent>>

\* syncPeerReplication reads up to some head the peer had since the wake was consumed.
EndSync ==
    /\ Usable /\ target > 0
    /\ \E h \in {synced, target - 1, head} : h >= synced /\ h >= target - 1 /\ synced' = h
    /\ target' = 0
    /\ UNCHANGED <<member, epoch, worker, conn, registryVars, head, wake, seen, spent>>

\* localCredentialAdvanced, remoteCredentialAdvanced
Advanced(c) == epoch.local > conn[c].local \/ epoch.remote > conn[c].remote

\* The metadata ticker finds an older credential: the stream is cancelled and a
\* replacement dialled while the old connection stays.
NoticeAdvance ==
    /\ worker.stage = "maintain" /\ conn[worker.conn].client = "ready" /\ target = 0
    /\ Advanced(worker.conn)
    /\ worker' = [worker EXCEPT !.stage = "replace"]
    /\ conn' = [conn EXCEPT ![worker.conn].stream = "no", ![worker.conn].changed = FALSE, ![worker.conn].frame = 0]
    /\ UNCHANGED <<member, epoch, registryVars, head, wake, seen, target, synced, spent>>

\* Any request, or the stream, ends with an error: the connection is closed and dialled
\* anew.
LoseConnection ==
    LET c == worker.conn IN
    /\ worker.stage = "maintain"
    /\ conn[c].client = "failed" \/ conn[c].handler = "draining"
    /\ worker' = [Off EXCEPT !.stage = "dial"]
    /\ conn' = Hung(c, conn)
    /\ target' = 0
    /\ UNCHANGED <<member, epoch, registryVars, head, wake, seen, synced, spent>>

-----------------------------------------------------------------------------
(* The environment *)

\* A connection breaks; the server may notice much later.
Break(c) ==
    /\ conn[c].client \in {"open", "ready"}
    /\ Unspent("breaks", MaxBreaks)
    /\ conn' = [conn EXCEPT ![c].client = "failed", ![c].frame = 0]
    /\ UNCHANGED <<member, epoch, worker, registryVars, head, wake, seen, target, synced>>

Renew(side) ==
    /\ epoch[side] < MaxEpoch
    /\ epoch' = [epoch EXCEPT ![side] = @ + 1]
    /\ UNCHANGED <<member, worker, conn, registryVars, head, wake, seen, target, synced, spent>>

ChangeMembership ==
    /\ Unspent("changes", MaxChanges)
    /\ member' = ~member
    /\ UNCHANGED <<epoch, worker, conn, registryVars, head, wake, seen, target, synced>>

WorkerStep == Reconcile \/ DialPeer \/ Connected \/ DialFailed \/ BeginSync \/ EndSync \/ LoseConnection
ServerStep(c) == RegisterConn(c) \/ Refuse(c) \/ EndConnection(c) \/ SubscribeStream(c) \/ SendWatermark(c)

SyncNext ==
    \/ WorkerStep \/ NoticeAdvance \/ ApplyResult \/ ChangeMembership
    \/ \E c \in Conns : ServerStep(c) \/ ReceiveWatermark(c) \/ Break(c)
    \/ \E side \in {"local", "remote"} : Renew(side)

\* The worker, its tickers and the server's goroutines run; the fallback timer of
\* replication is not assumed.
SyncFairness ==
    /\ WF_syncVars(WorkerStep) /\ SF_syncVars(NoticeAdvance)
    /\ \A c \in Conns : WF_syncVars(ServerStep(c)) /\ WF_syncVars(ReceiveWatermark(c))

SyncSpec == SyncInit /\ [][SyncNext]_syncVars

-----------------------------------------------------------------------------
(* Properties *)

Links ==
    [client : {"none", "open", "ready", "failed", "shut"},
     handler : {"none", "fresh", "serving", "draining", "gone"},
     local : Nat, remote : Nat, stream : {"no", "asked", "subscribed", "flowing"},
     changed : BOOLEAN, sent : Nat, frame : Nat]

\* The types of the variables.
SyncTypeOK ==
    /\ member \in BOOLEAN /\ epoch \in [local : Epochs, remote : Epochs]
    /\ worker \in [stage : {"off", "dial", "maintain", "replace"}, conn : Conns \cup {0}, spare : Conns \cup {0}]
    /\ conn \in [Conns -> Links]
    /\ current \in Conns \cup {0} /\ draining \in Conns \cup {0} /\ credential \in Nat
    /\ head \in Nat /\ wake \in BOOLEAN /\ seen \in Nat /\ target \in Nat /\ synced \in Nat
    /\ spent \in [breaks : Nat, changes : Nat]

\* Of the two slots the peer keeps, the current one never has the older credential, both
\* hold connections that are still served, and every connection the server serves has a
\* slot: none leaks, none is served unregistered.
SlotsSound ==
    /\ current # 0 /\ draining # 0 => current # draining /\ ~Older(current, draining)
    /\ \A c \in {current, draining} \ {0} : conn[c].handler \in {"serving", "draining"}
    /\ \A c \in Conns : conn[c].handler \in {"serving", "draining"} => c \in {current, draining}

\* The connections are bounded: if they suffice and the peer stays a member, the daemon
\* ends with the peer's last result, on a connection with both current credentials.
PeerSettles ==
    <>[](\/ ~member \/ ~Spare
         \/ synced = head /\ worker.stage = "maintain" /\ ~Advanced(worker.conn))
=============================================================================
