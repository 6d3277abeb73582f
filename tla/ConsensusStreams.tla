--------------------------- MODULE ConsensusStreams ---------------------------
(***************************************************************************)
(* The streams that carry Raft between daemons.  A daemon keeps, for each  *)
(* peer, one reusable HTTP/2 connection, opens Raft's streams and control  *)
(* requests on it, pings it to learn whether the peer is reachable, and    *)
(* serves the streams its peers open.                                      *)
(*                                                                         *)
(* Who may have a stream changes: the applied membership accepts a peer's  *)
(* identity or not, and the live Raft configuration names it or not.  A    *)
(* watcher is signalled after each change and closes what is no longer     *)
(* allowed; it works from snapshots of the registries, one peer at a time, *)
(* beside calls that were authorized before the change and register what   *)
(* they open after it.  A call keeps its peer's mutex while it dials and   *)
(* opens; everything else it does with the network is outside it.          *)
(***************************************************************************)
EXTENDS Integers, FiniteSets

CONSTANTS
    Peers,            \* the other devices
    Calls,            \* calls of this daemon and streams its peers open
    StreamSlots,      \* ConsensusStreamsPerConnectionMax
    HandlerSlots,     \* ConsensusActiveHandlersMax: handlers, and the accept queue
    LastGeneration,   \* the largest generation of a connection
    NoCall,
    MaxShifts,         \* changes of membership and configuration
    MaxOutages         \* connections that break

ASSUME StreamConstants ==
    /\ Peers # {} /\ IsFiniteSet(Calls) /\ NoCall \notin Calls
    /\ {StreamSlots, HandlerSlots, LastGeneration} \subseteq Nat \ {0}
    /\ {MaxShifts, MaxOutages} \subseteq Nat

VARIABLES
    standing,    \* of each peer: accepted by the applied membership, named by the configuration
    owed, signals,  \* a change not yet signalled; the channel of signals: empty, full or closed
    layer,       \* authorizationAvailable, closed, and whether its context is cancelled
    clients,     \* the peers that have a client
    client,      \* of each: its connection, that connection's health, generation, ...
    call,        \* the calls
    stream,      \* the stream of a call: open, registered, and its close hook
    queue,       \* accepted streams Raft has not taken
    sweep,       \* the watcher, and after it the sweep of Close
    born, shifts, outages

streamVars == <<standing, owed, signals, layer, clients, client, call, stream, queue, sweep,
                born, shifts, outages>>
worldVars == <<standing, owed, signals, born, shifts, outages>>

Outbound == {"dial", "proof", "status", "probe"}

NoClient == [physical |-> 0, usable |-> FALSE, generation |-> 0, open |-> 0, slots |-> 0, holder |-> NoCall]
NoStreamCall == [kind |-> "none", peer |-> CHOOSE p \in Peers : TRUE, stage |-> "idle", physical |-> 0,
                 generation |-> 0, slot |-> FALSE, counted |-> FALSE, todo |-> {}]
NoStream == [open |-> FALSE, registered |-> FALSE, hook |-> "none"]
NoSweep == [stage |-> "idle", left |-> {}, clients |-> {}, at |-> {}, had |-> FALSE, denied |-> FALSE, todo |-> {}]

StreamInit ==
    /\ standing \in [Peers -> [accepted : {TRUE}, named : BOOLEAN]]
    /\ owed = FALSE /\ signals = "empty"
    /\ layer = [available |-> TRUE, closed |-> FALSE, cancelled |-> FALSE]
    /\ clients = {} /\ client = [p \in Peers |-> NoClient]
    /\ call = [c \in Calls |-> NoStreamCall] /\ stream = [c \in Calls |-> NoStream]
    /\ queue = {} /\ sweep = NoSweep
    /\ born = 0 /\ shifts = 0 /\ outages = 0

-----------------------------------------------------------------------------
(* What calls ask                                                          *)

Available == layer.available /\ ~layer.closed
Expected(p) == Available /\ standing[p].accepted
Authorized(p) == Available /\ standing[p].named

\* requiresLiveConfiguration: a status or a renewal may reach any accepted peer.
Permits(c) == call[c].kind = "status" \/ Authorized(call[c].peer)

\* detachPhysicalLocked, applied to a client: the generation stops at the last one.
Detached(k) ==
    IF k.physical = 0 THEN k
    ELSE [k EXCEPT !.physical = 0, !.usable = FALSE,
                   !.generation = IF @ = LastGeneration THEN @ ELSE @ + 1]

\* attachPhysicalLocked
MayAttach(k) == k.physical = 0 /\ k.generation # LastGeneration

Unlocked(k) == [k EXCEPT !.holder = NoCall]
Free(p) == client[p].holder = NoCall

\* consensusPeerSlot.release: once for each call.
Released(k, c) == IF call[c].slot THEN [k EXCEPT !.slots = @ - 1] ELSE k

\* The call goes on; the client of its peer becomes k.
Goes(c, stage, k) ==
    /\ call' = [call EXCEPT ![c].stage = stage]
    /\ client' = [client EXCEPT ![call[c].peer] = k]

\* The call returns; its deferred release gives back a slot it has.
Returns(c, k) ==
    /\ call' = [call EXCEPT ![c].stage = "returned", ![c].slot = FALSE]
    /\ client' = [client EXCEPT ![call[c].peer] = Released(k, c)]

Client(c) == client[call[c].peer]

RegisteredOf(p) == {s \in Calls : stream[s].registered /\ call[s].peer = p}
RegisteredStreams == {s \in Calls : stream[s].registered}

-----------------------------------------------------------------------------
(* Calls of this daemon                                                    *)

BeginCall(c, kind, p) ==
    /\ call[c].stage = "idle"
    /\ kind # "status" => Authorized(p)
    /\ call' = [call EXCEPT ![c].kind = kind, ![c].peer = p, ![c].stage = "begun"]
    /\ UNCHANGED <<worldVars, layer, clients, client, stream, queue, sweep>>

\* layer.peer; a probe takes no slot.
FindClient(c) ==
    /\ call[c].stage = "begun"
    /\ IF layer.closed THEN Returns(c, Client(c)) /\ UNCHANGED clients
       ELSE /\ clients' = clients \cup {call[c].peer}
            /\ Goes(c, IF call[c].kind = "probe" THEN "ready" ELSE "waiting", Client(c))
    /\ UNCHANGED <<worldVars, layer, stream, queue, sweep>>

\* acquire, or its context ends first.
AcquireSlot(c) ==
    /\ call[c].stage = "waiting"
    /\ \/ /\ Client(c).slots < StreamSlots
          /\ call' = [call EXCEPT ![c].stage = "ready", ![c].slot = TRUE]
          /\ client' = [client EXCEPT ![call[c].peer].slots = @ + 1]
       \/ Returns(c, Client(c))
    /\ UNCHANGED <<worldVars, layer, clients, stream, queue, sweep>>

\* Under the client's mutex: a connection in use is never replaced.
LockClient(c) ==
    /\ call[c].stage = "ready" /\ Free(call[c].peer)
    /\ LET k == Client(c)
       IN IF layer.closed \/ (~k.usable /\ k.open # 0) THEN Returns(c, k)
          ELSE IF k.usable THEN Goes(c, "locked", [k EXCEPT !.holder = c])
          ELSE Goes(c, "dialing", [Detached(k) EXCEPT !.holder = c])
    /\ UNCHANGED <<worldVars, layer, clients, stream, queue, sweep>>

\* dialPhysical: some endpoint answers as the expected peer, or none does.
DialPhysical(c) ==
    /\ call[c].stage = "dialing"
    /\ \/ /\ Expected(call[c].peer) /\ Permits(c) /\ MayAttach(Client(c))
          /\ born' = born + 1
          /\ Goes(c, "locked", [Client(c) EXCEPT !.physical = born + 1, !.usable = TRUE, !.generation = @ + 1])
       \/ Returns(c, Unlocked(Client(c))) /\ UNCHANGED born
    /\ UNCHANGED <<standing, owed, signals, shifts, outages, layer, clients, stream, queue, sweep>>

\* verifyExpected, then authorize; a refusal drops the connection and then every stream of the peer.
VerifyLocked(c) ==
    /\ call[c].stage = "locked"
    /\ IF Expected(call[c].peer) THEN Goes(c, "verified", Client(c))
       ELSE Goes(c, "purge", Unlocked(Detached(Client(c))))
    /\ UNCHANGED <<worldVars, layer, clients, stream, queue, sweep>>

AuthorizeLocked(c) ==
    /\ call[c].stage = "verified"
    /\ IF Permits(c) THEN Goes(c, "permitted", Client(c))
       ELSE Goes(c, "purge", Unlocked(Detached(Client(c))))
    /\ UNCHANGED <<worldVars, layer, clients, stream, queue, sweep>>

\* closeStreamsForDevice: those registered now; each is closed in turn.
CollectPurge(c) ==
    /\ call[c].stage = "purge"
    /\ call' = [call EXCEPT ![c].stage = "purging", ![c].todo = RegisteredOf(call[c].peer)]
    /\ UNCHANGED <<worldVars, layer, clients, client, stream, queue, sweep>>

\* A stream's Close has returned: its hooks have run, or it had none.
ClosedFor(s) == ~stream[s].open /\ stream[s].hook # "set"

PurgeOne(c, s) ==
    /\ call[c].stage = "purging" /\ s \in call[c].todo /\ ClosedFor(s)
    /\ call' = [call EXCEPT ![c].todo = @ \ {s}]
    /\ UNCHANGED <<worldVars, layer, clients, client, stream, queue, sweep>>

EndPurge(c) ==
    /\ call[c].stage = "purging" /\ call[c].todo = {}
    /\ IF call[c].counted THEN Goes(c, "ending", Client(c)) ELSE Returns(c, Client(c))
    /\ UNCHANGED <<worldVars, layer, clients, stream, queue, sweep>>

-----------------------------------------------------------------------------
(* Raft's streams                                                          *)

\* openOutboundStream and register, still under the mutex.
OpenStream(c) ==
    /\ call[c].kind = "dial" /\ call[c].stage = "permitted" /\ Client(c).usable
    /\ IF layer.closed THEN Returns(c, Unlocked(Client(c))) /\ UNCHANGED stream
       ELSE /\ call' = [call EXCEPT ![c].stage = "hooking", ![c].counted = TRUE, ![c].physical = Client(c).physical]
            /\ client' = [client EXCEPT ![call[c].peer] = [Unlocked(@) EXCEPT !.open = @ + 1]]
            /\ stream' = [stream EXCEPT ![c] = [open |-> TRUE, registered |-> TRUE, hook |-> "none"]]
    /\ UNCHANGED <<worldVars, layer, clients, queue, sweep>>

StreamRefused(c) ==
    /\ call[c].kind = "dial" /\ call[c].stage = "permitted"
    /\ Returns(c, Unlocked(IF ~Client(c).usable /\ Client(c).open = 0 THEN Detached(Client(c)) ELSE Client(c)))
    /\ UNCHANGED <<worldVars, layer, clients, stream, queue, sweep>>

\* What the hook of an outbound stream does: streamClosed, release, unregister.
RunsHook(c) ==
    /\ Free(call[c].peer)
    /\ stream' = [stream EXCEPT ![c] = [open |-> FALSE, registered |-> FALSE, hook |-> "run"]]
    /\ call' = [call EXCEPT ![c].stage = "returned", ![c].slot = FALSE, ![c].counted = FALSE]
    /\ client' = [client EXCEPT ![call[c].peer] = Released([@ EXCEPT !.open = @ - 1], c)]

\* addCloseHook: if Close already won, the hook runs at once and Dial fails.
AddHook(c) ==
    /\ call[c].stage = "hooking"
    /\ \/ /\ stream[c].open
          /\ stream' = [stream EXCEPT ![c].hook = "set"]
          /\ Goes(c, "running", Client(c))
       \/ ~stream[c].open /\ RunsHook(c)
    /\ UNCHANGED <<worldVars, layer, clients, queue, sweep>>

\* Raft, the peer, a broken connection, the progress timer or a sweep closes it.
CloseStream(c) ==
    /\ stream[c].open
    /\ stream' = [stream EXCEPT ![c].open = FALSE]
    /\ UNCHANGED <<worldVars, layer, clients, client, call, queue, sweep>>

RunHooks(c) ==
    /\ ~stream[c].open /\ stream[c].hook = "set"
    /\ IF call[c].kind = "dial" THEN RunsHook(c)
       ELSE /\ stream' = [stream EXCEPT ![c].registered = FALSE, ![c].hook = "run"]
            /\ UNCHANGED <<call, client>>
    /\ UNCHANGED <<worldVars, layer, clients, queue, sweep>>

-----------------------------------------------------------------------------
(* Control requests and probes                                             *)

\* The request is counted; a probe only remembers the connection.
SendRequest(c) ==
    /\ call[c].kind # "dial" /\ call[c].stage = "permitted"
    /\ call' = [call EXCEPT ![c].stage = "sent", ![c].counted = call[c].kind # "probe",
                            ![c].physical = Client(c).physical, ![c].generation = Client(c).generation]
    /\ client' = [client EXCEPT ![call[c].peer] =
                    [Unlocked(@) EXCEPT !.open = IF call[c].kind = "probe" THEN @ ELSE @ + 1]]
    /\ UNCHANGED <<worldVars, layer, clients, stream, queue, sweep>>

RequestLost(c) ==
    /\ call[c].stage = "sent"
    /\ Goes(c, IF call[c].kind = "probe" THEN "invalidate" ELSE "ending", Client(c))
    /\ UNCHANGED <<worldVars, layer, clients, stream, queue, sweep>>

\* The answer came: the peer is verified, then authorized, again.
VerifyAnswer(c) ==
    /\ call[c].stage = "sent"
    /\ Goes(c, IF Expected(call[c].peer) THEN "answered" ELSE "invalidate", Client(c))
    /\ UNCHANGED <<worldVars, layer, clients, stream, queue, sweep>>

AuthorizeAnswer(c) ==
    /\ call[c].stage = "answered"
    /\ Goes(c, CASE ~Permits(c) -> "invalidate"
                 [] Permits(c) /\ call[c].kind = "probe" -> "confirm"
                 [] OTHER -> "ending", Client(c))
    /\ UNCHANGED <<worldVars, layer, clients, stream, queue, sweep>>

\* invalidateConsensusPeer drops what is current, invalidateConsensusPhysical only what was pinged.
SameConnection(c) == Client(c).physical = call[c].physical /\ Client(c).generation = call[c].generation

Invalidate(c) ==
    /\ call[c].stage = "invalidate" /\ Free(call[c].peer)
    /\ IF call[c].kind # "probe" \/ SameConnection(c) THEN Goes(c, "purge", Detached(Client(c)))
       ELSE Returns(c, Client(c))
    /\ UNCHANGED <<worldVars, layer, clients, stream, queue, sweep>>

\* The deferred streamClosed and release.
FinishRequest(c) ==
    /\ call[c].stage = "ending" /\ Free(call[c].peer)
    /\ call' = [call EXCEPT ![c].stage = "returned", ![c].slot = FALSE, ![c].counted = FALSE]
    /\ client' = [client EXCEPT ![call[c].peer] = Released([@ EXCEPT !.open = @ - 1], c)]
    /\ UNCHANGED <<worldVars, layer, clients, stream, queue, sweep>>

\* The token is given only for a connection that is still current.
ConfirmProbe(c) ==
    /\ call[c].stage = "confirm" /\ Free(call[c].peer)
    /\ Goes(c, IF SameConnection(c) /\ Client(c).usable THEN "token" ELSE "returned", Client(c))
    /\ UNCHANGED <<worldVars, layer, clients, stream, queue, sweep>>

\* VerifyConsensusPeerReachability
TokenHolds(c) ==
    /\ Available /\ call[c].peer \in clients
    /\ Client(c).generation = call[c].generation /\ Client(c).physical # 0 /\ Client(c).usable

-----------------------------------------------------------------------------
(* Streams the peers open                                                  *)

Handled == {c \in Calls : call[c].kind = "inbound" /\ call[c].stage # "returned"}

\* ServeHTTP: a handler slot, and the ingress admits the peer again.
ArriveStream(c, p) ==
    /\ call[c].stage = "idle" /\ Cardinality(Handled) < HandlerSlots /\ standing[p].accepted
    /\ call' = [call EXCEPT ![c].kind = "inbound", ![c].peer = p, ![c].stage = "arrived"]
    /\ UNCHANGED <<worldVars, layer, clients, client, stream, queue, sweep>>

AdmitStream(c) ==
    /\ call[c].stage = "arrived"
    /\ call' = [call EXCEPT ![c].stage = IF Authorized(call[c].peer) THEN "admitted" ELSE "returned"]
    /\ UNCHANGED <<worldVars, layer, clients, client, stream, queue, sweep>>

RegisterStream(c) ==
    /\ call[c].stage = "admitted"
    /\ IF layer.closed THEN call' = [call EXCEPT ![c].stage = "returned"] /\ UNCHANGED stream
       ELSE /\ call' = [call EXCEPT ![c].stage = "registered"]
            /\ stream' = [stream EXCEPT ![c] = [open |-> TRUE, registered |-> TRUE, hook |-> "none"]]
    /\ UNCHANGED <<worldVars, layer, clients, client, queue, sweep>>

HookStream(c) ==
    /\ call[c].stage = "registered"
    /\ call' = [call EXCEPT ![c].stage = "hooked"]
    /\ stream' = [stream EXCEPT ![c].hook = IF stream[c].open THEN "set" ELSE "run",
                                ![c].registered = stream[c].open]
    /\ UNCHANGED <<worldVars, layer, clients, client, queue, sweep>>

\* Once registered it is admitted and authorized again; a refusal closes it.
Recheck(c, from, allowed, to) ==
    /\ call[c].stage = from
    /\ IF allowed THEN call' = [call EXCEPT ![c].stage = to] /\ UNCHANGED stream
       ELSE /\ call' = [call EXCEPT ![c].stage = "leaving"]
            /\ stream' = [stream EXCEPT ![c].open = FALSE]
    /\ UNCHANGED <<worldVars, layer, clients, client, queue, sweep>>

ReadmitStream(c) == Recheck(c, "hooked", standing[call[c].peer].accepted, "readmitted")
AuthorizeStream(c) == Recheck(c, "readmitted", Authorized(call[c].peer), "handing")

HandOver(c) ==
    /\ call[c].stage = "handing"
    /\ \/ /\ Cardinality(queue) < HandlerSlots
          /\ queue' = queue \cup {c}
          /\ call' = [call EXCEPT ![c].stage = "serving"] /\ UNCHANGED stream
       \/ /\ call' = [call EXCEPT ![c].stage = "leaving"]     \* the request or the layer is cancelled
          /\ stream' = [stream EXCEPT ![c].open = FALSE] /\ UNCHANGED queue
    /\ UNCHANGED <<worldVars, layer, clients, client, sweep>>

\* Accept: a stream taken after the layer is cancelled is closed.
AcceptStream(c) ==
    /\ c \in queue /\ queue' = queue \ {c}
    /\ stream' = [stream EXCEPT ![c].open = @ /\ ~layer.cancelled]
    /\ UNCHANGED <<worldVars, layer, clients, client, call, sweep>>

\* serveRaft returns once the stream is closed; its handler slot is free again.
LeaveHandler(c) ==
    /\ call[c].stage \in {"serving", "leaving"} /\ ClosedFor(c)
    /\ call' = [call EXCEPT ![c].stage = "returned"]
    /\ UNCHANGED <<worldVars, layer, clients, client, stream, queue, sweep>>

-----------------------------------------------------------------------------
(* The watcher and Close                                                   *)

\* revalidateAuthorization: the clients and the peers of streams, at one moment.
TakeSignal ==
    /\ sweep.stage = "idle" /\ signals = "full" /\ signals' = "empty"
    /\ LET P == clients \cup {call[s].peer : s \in RegisteredStreams}
       IN sweep' = [NoSweep EXCEPT !.stage = IF P = {} THEN "idle" ELSE "pass", !.left = P, !.clients = clients]
    /\ UNCHANGED <<standing, owed, born, shifts, outages, layer, clients, client, call, stream, queue>>

\* A mutant: the watcher looks at a client without its mutex.
LookAtUnlocked(p) ==
    /\ sweep.stage = "pass" /\ p \in sweep.left
    /\ sweep' = [sweep EXCEPT !.stage = "looked", !.at = {p}, !.denied = FALSE,
                              !.had = p \in sweep.clients /\ client[p].physical # 0]
    /\ UNCHANGED <<worldVars, layer, clients, client, call, stream, queue>>

LookAt(p) ==
    /\ sweep.stage = "pass" /\ p \in sweep.left /\ (p \in sweep.clients => Free(p))
    /\ sweep' = [sweep EXCEPT !.stage = "looked", !.at = {p}, !.denied = FALSE,
                              !.had = p \in sweep.clients /\ client[p].physical # 0]
    /\ UNCHANGED <<worldVars, layer, clients, client, call, stream, queue>>

VerifySwept(p) ==
    /\ sweep.stage = "looked" /\ p \in sweep.at
    /\ sweep' = [sweep EXCEPT !.stage = IF sweep.had /\ ~Expected(p) THEN "evict" ELSE "check"]
    /\ UNCHANGED <<worldVars, layer, clients, client, call, stream, queue>>

EvictSwept(p) ==
    /\ sweep.stage = "evict" /\ p \in sweep.at /\ Free(p)
    /\ client' = [client EXCEPT ![p] = Detached(@)]
    /\ sweep' = [sweep EXCEPT !.stage = "check", !.denied = TRUE]
    /\ UNCHANGED <<worldVars, layer, clients, call, stream, queue>>

Swept(p) == [sweep EXCEPT !.stage = IF sweep.left = {p} THEN "idle" ELSE "pass", !.left = @ \ {p}, !.at = {}]

CheckSwept(p) ==
    /\ sweep.stage = "check" /\ p \in sweep.at
    /\ sweep' = IF sweep.denied \/ ~Authorized(p) THEN [sweep EXCEPT !.stage = "collect"] ELSE Swept(p)
    /\ UNCHANGED <<worldVars, layer, clients, client, call, stream, queue>>

CollectSwept(p) ==
    /\ sweep.stage = "collect" /\ p \in sweep.at
    /\ sweep' = [sweep EXCEPT !.stage = "closing", !.todo = RegisteredOf(p)]
    /\ UNCHANGED <<worldVars, layer, clients, client, call, stream, queue>>

SweepOne(s) ==
    /\ sweep.stage \in {"closing", "drop"} /\ s \in sweep.todo /\ ClosedFor(s)
    /\ sweep' = [sweep EXCEPT !.todo = @ \ {s}]
    /\ UNCHANGED <<worldVars, layer, clients, client, call, stream, queue>>

EndSwept(p) ==
    /\ sweep.stage = "closing" /\ p \in sweep.at /\ sweep.todo = {}
    /\ sweep' = Swept(p)
    /\ UNCHANGED <<worldVars, layer, clients, client, call, stream, queue>>

\* Every connection and every stream there is at one moment, for good.
SweepAll == [NoSweep EXCEPT !.stage = "drop", !.left = clients, !.todo = RegisteredStreams]

DisableAuthorization ==
    /\ sweep.stage = "idle" /\ signals = "closed"
    /\ layer' = [layer EXCEPT !.available = FALSE]
    /\ sweep' = SweepAll
    /\ UNCHANGED <<worldVars, clients, client, call, stream, queue>>

StopWatching ==
    /\ sweep.stage = "idle" /\ layer.cancelled
    /\ sweep' = [sweep EXCEPT !.stage = "gone"]
    /\ UNCHANGED <<worldVars, layer, clients, client, call, stream, queue>>

CancelLayer ==
    /\ ~layer.cancelled /\ layer' = [layer EXCEPT !.cancelled = TRUE]
    /\ UNCHANGED <<worldVars, clients, client, call, stream, queue, sweep>>

CloseLayer ==
    /\ layer.cancelled /\ ~layer.closed /\ sweep.stage = "gone"
    /\ layer' = [layer EXCEPT !.closed = TRUE]
    /\ sweep' = SweepAll
    /\ UNCHANGED <<worldVars, clients, client, call, stream, queue>>

DropClient(p) ==
    /\ sweep.stage = "drop" /\ p \in sweep.left /\ Free(p)
    /\ client' = [client EXCEPT ![p] = Detached(@)]
    /\ sweep' = [sweep EXCEPT !.left = @ \ {p}]
    /\ UNCHANGED <<worldVars, layer, clients, call, stream, queue>>

EndDrop ==
    /\ sweep.stage = "drop" /\ sweep.left = {} /\ sweep.todo = {}
    /\ sweep' = [sweep EXCEPT !.stage = "gone"]
    /\ UNCHANGED <<worldVars, layer, clients, client, call, stream, queue>>

-----------------------------------------------------------------------------
(* The world                                                               *)

ChangeStanding(p) ==
    /\ shifts < MaxShifts /\ shifts' = shifts + 1 /\ owed' = TRUE
    /\ \E x \in [accepted : BOOLEAN, named : BOOLEAN] \ {standing[p]} : standing' = [standing EXCEPT ![p] = x]
    /\ UNCHANGED <<signals, born, outages, layer, clients, client, call, stream, queue, sweep>>

SignalChange ==
    /\ owed /\ signals # "closed" /\ owed' = FALSE /\ signals' = "full"
    /\ UNCHANGED <<standing, born, shifts, outages, layer, clients, client, call, stream, queue, sweep>>

EndFeed ==
    /\ signals = "empty" /\ signals' = "closed"
    /\ UNCHANGED <<standing, owed, born, shifts, outages, layer, clients, client, call, stream, queue, sweep>>

BreakPhysical(p) ==
    /\ outages < MaxOutages /\ outages' = outages + 1
    /\ client[p].usable /\ client' = [client EXCEPT ![p].usable = FALSE]
    /\ UNCHANGED <<standing, owed, signals, born, shifts, layer, clients, call, stream, queue, sweep>>

-----------------------------------------------------------------------------
CallNext(c) ==
    \/ \E p \in Peers : ArriveStream(c, p) \/ \E kind \in Outbound : BeginCall(c, kind, p)
    \/ FindClient(c) \/ AcquireSlot(c) \/ LockClient(c) \/ DialPhysical(c)
    \/ VerifyLocked(c) \/ AuthorizeLocked(c)
    \/ CollectPurge(c) \/ (\E s \in Calls : PurgeOne(c, s)) \/ EndPurge(c)
    \/ OpenStream(c) \/ StreamRefused(c) \/ AddHook(c) \/ CloseStream(c) \/ RunHooks(c)
    \/ SendRequest(c) \/ RequestLost(c) \/ VerifyAnswer(c) \/ AuthorizeAnswer(c)
    \/ Invalidate(c) \/ FinishRequest(c) \/ ConfirmProbe(c)
    \/ AdmitStream(c) \/ RegisterStream(c) \/ HookStream(c) \/ ReadmitStream(c) \/ AuthorizeStream(c)
    \/ HandOver(c) \/ AcceptStream(c) \/ LeaveHandler(c)

SweepNext ==
    \/ TakeSignal \/ DisableAuthorization \/ StopWatching \/ CloseLayer \/ EndDrop
    \/ \E p \in Peers : \/ LookAt(p) \/ VerifySwept(p) \/ EvictSwept(p) \/ CheckSwept(p)
                        \/ CollectSwept(p) \/ EndSwept(p) \/ DropClient(p)
    \/ \E s \in Calls : SweepOne(s)

WorldNext ==
    \/ CancelLayer \/ SignalChange \/ EndFeed
    \/ \E p \in Peers : ChangeStanding(p) \/ BreakPhysical(p)

StreamNext == (\E c \in Calls : CallNext(c)) \/ SweepNext \/ WorldNext

StreamSpec == StreamInit /\ [][StreamNext]_streamVars

-----------------------------------------------------------------------------
(* Properties                                                              *)

\* A stream in use: one Raft dialed, or one handed to it after the second checks.
InUse(c) == /\ stream[c].open
            /\ call[c].kind = "inbound" => call[c].stage \in {"handing", "serving"}

\* Nothing is left to do about earlier changes.
AllSwept == /\ ~owed /\ signals = "empty" /\ sweep.stage = "idle"
         /\ \A c \in Calls : call[c].stage \notin {"purge", "purging"}

\* Whatever a call was authorized for before a change and opened after it, the pass that
\* follows the change closes: no stream is left of a peer outside the live configuration,
\* and none was dialed to one the membership no longer accepts (revalidateAuthorization
\* waits for the mutex Dial opens its stream under).
StreamsAuthorized ==
    AllSwept => \A c \in Calls : InUse(c) =>
                 /\ standing[call[c].peer].named
                 /\ call[c].kind = "dial" => standing[call[c].peer].accepted

\* Once the feed of changes has ended, nothing reaches a peer any more: an open stream has
\* lost its connection.  Once the layer is closed no stream is open.
FailsClosed ==
    sweep.stage = "gone" =>
        /\ layer.closed => \A c \in Calls : ~stream[c].open
        /\ ~layer.available => \A c \in Calls : InUse(c) =>
               call[c].kind = "dial" /\ call[c].physical # Client(c).physical

\* openStreams and the slots count exactly the calls that have one, whoever closed the
\* stream and whenever, and all that is open to a peer is on its one connection.
SlotsAccounted ==
    \A p \in Peers :
        /\ client[p].open = Cardinality({c \in Calls : call[c].counted /\ call[c].peer = p})
        /\ client[p].slots = Cardinality({c \in Calls : call[c].slot /\ call[c].peer = p})
        /\ client[p].slots <= StreamSlots
        /\ \A c \in Calls : call[c].counted /\ call[c].peer = p => client[p].physical \in {0, call[c].physical}

\* A token that still verifies names the connection whose ping was answered.
TokensFresh ==
    \A c \in Calls : call[c].stage = "token" /\ TokenHolds(c) => Client(c).physical = call[c].physical

\* Raft's streams are those the members may have, and each is accounted for.
StreamsSound == StreamsAuthorized /\ FailsClosed /\ SlotsAccounted /\ TokensFresh
=============================================================================
