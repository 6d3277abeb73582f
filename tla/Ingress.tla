-------------------------------- MODULE Ingress --------------------------------
(***************************************************************************)
(* The daemon's peer ingress.  One loop accepts connections from listeners *)
(* that are rebound when the machine's addresses change; each connection   *)
(* makes its TLS handshake, is verified against the applied membership and *)
(* then established; every request on it is authorized again.  Applied     *)
(* changes signal a watcher that revalidates what is established.          *)
(*                                                                         *)
(* Verification runs outside the ingress lock.  A generation, advanced by  *)
(* each revalidation, tells a verdict that may be stale; another one,      *)
(* advanced when addresses vanish, tells an accepted connection that may   *)
(* be bound to one of them.  The connections are those of one peer; rates  *)
(* of attempts and the idle sources of the admission limiter are left out. *)
(***************************************************************************)
EXTENDS Naturals, FiniteSets

CONSTANTS
    MaxInbound,      \* connections that arrive
    Addresses,       \* addresses of this machine
    Planes,          \* planes the peer uses
    FirstEpoch,      \* credential epoch of both sides at the start
    ConnectionSlots, \* PeerConnectionsMax
    HandshakeSlots,  \* HandshakePendingMax
    VerifyAttempts,  \* peerEstablishmentVerifyAttempts
    PlaneMax,        \* established connections of the peer on each plane
    MaxTurns,        \* changes of the applied membership
    MaxRebinds       \* changes of the machine's addresses

Inbound == 1..MaxInbound
Unbound == "unbound"

ASSUME IngressConstants ==
    /\ MaxInbound \in Nat \ {0} /\ FirstEpoch \in Nat \ {0}
    /\ {ConnectionSlots, HandshakeSlots, VerifyAttempts} \subseteq Nat \ {0}
    /\ {MaxTurns, MaxRebinds} \subseteq Nat
    /\ Planes \subseteq {"pairing", "consensus", "content"}
    /\ PlaneMax \in [Planes -> Nat \ {0}]
    /\ Unbound \notin Addresses

VARIABLES
    applied,      \* the peer's status, its credential epoch and this daemon's own
    feed,         \* changes of the applied state: quiet, signalled or closed
    permitted,    \* memberAccessAvailable
    generation,   \* revalidationGeneration
    scan,         \* connections the watcher still has to check
    bound,        \* address of the current listener generation
    binding,      \* localBindingGeneration
    vanished,     \* addresses whose connections the refresh still has to close
    acceptor,     \* the accept loop
    inbound,      \* the connections
    stopping,
    turns, rebinds

ingressVars == <<applied, feed, permitted, generation, scan, bound, binding, vanished,
                 acceptor, inbound, stopping, turns, rebinds>>

NoConn == [stage |-> "none", address |-> Unbound, plane |-> "none", epoch |-> 0, own |-> 0,
           gen |-> 0, tries |-> 0, closing |-> FALSE, request |-> "none"]

IngressInit ==
    /\ applied = [status |-> "active", epoch |-> FirstEpoch, own |-> FirstEpoch]
    /\ feed = "signalled" /\ permitted = TRUE /\ generation = 0 /\ scan = {}
    /\ bound \in Addresses /\ binding = 0 /\ vanished = {}
    /\ acceptor = [stage |-> "loop", gen |-> 0, conn |-> 0]
    /\ inbound = [c \in Inbound |-> NoConn]
    /\ stopping = FALSE /\ turns = 0 /\ rebinds = 0

-----------------------------------------------------------------------------
(* Admission *)

\* verifyAppliedContentPeer: the current credential or the one it overlaps.
Overlaps(epoch, current) == epoch <= current /\ current - epoch <= 1

\* Verifiers: pairing refuses the revoked, the other planes ask for an active member.
\* Once the feed is closed no applied state is served.
Admits(x) ==
    /\ feed # "closed"
    /\ \/ x.plane = "pairing" /\ applied.status # "revoked"
       \/ x.plane = "consensus" /\ applied.status = "active"
       \/ /\ x.plane = "content" /\ applied.status = "active"
          /\ Overlaps(x.epoch, applied.epoch) /\ Overlaps(x.own, applied.own)
Admitted(c) == Admits(inbound[c])

MemberAccess(plane) == plane = "pairing" \/ permitted

Established == {c \in Inbound : inbound[c].stage = "established" /\ ~inbound[c].closing}
Registered  == {c \in Inbound : inbound[c].stage \in {"handshake", "ready", "verify", "verified", "established"}}

\* peerConnectionSlotAvailable
PlaneRoom(c) ==
    \/ inbound[c].plane = "pairing"
    \/ Cardinality({d \in Established \ {c} : inbound[d].plane = inbound[c].plane}) < PlaneMax[inbound[c].plane]

-----------------------------------------------------------------------------
(* The listeners and the accept loop *)

Put(c, x) == inbound' = [inbound EXCEPT ![c] = x]
Over == [NoConn EXCEPT !.stage = "gone"]

\* A child listener accepts; the connection waits to be taken.
Arrive(c) ==
    /\ inbound[c] = NoConn /\ \A d \in Inbound : d < c => inbound[d] # NoConn
    /\ bound # Unbound /\ ~stopping
    /\ \A d \in Inbound : inbound[d].stage # "queued"
    /\ Put(c, [NoConn EXCEPT !.stage = "queued", !.address = bound])
    /\ UNCHANGED <<applied, feed, permitted, generation, scan, bound, binding, vanished, acceptor, stopping, turns, rebinds>>

\* The loop reads the binding generation before it accepts.
BeginAccept ==
    /\ acceptor.stage = "loop" /\ ~stopping
    /\ acceptor' = [stage |-> "wait", gen |-> binding, conn |-> 0]
    /\ UNCHANGED <<applied, feed, permitted, generation, scan, bound, binding, vanished, inbound, stopping, turns, rebinds>>

Accept(c) ==
    /\ acceptor.stage = "wait" /\ inbound[c].stage = "queued"
    /\ acceptor' = [acceptor EXCEPT !.stage = "took", !.conn = c]
    /\ Put(c, [inbound[c] EXCEPT !.stage = "taken"])
    /\ UNCHANGED <<applied, feed, permitted, generation, scan, bound, binding, vanished, stopping, turns, rebinds>>

\* A handshake permit and a connection slot.
Capacity ==
    /\ Cardinality({c \in Inbound : inbound[c].stage = "handshake"}) < HandshakeSlots
    /\ Cardinality(Registered) < ConnectionSlots

\* (Variant: the binding generation is not compared.)
MayRegisterAnyway == ~stopping

\* registerConnection
MayRegister == ~stopping /\ acceptor.gen = binding

RegisterAccepted ==
    LET c == acceptor.conn IN
    /\ acceptor.stage = "took"
    /\ Put(c, IF Capacity /\ MayRegister THEN [inbound[c] EXCEPT !.stage = "handshake"] ELSE Over)
    /\ acceptor' = [acceptor EXCEPT !.stage = "loop", !.conn = 0]
    /\ UNCHANGED <<applied, feed, permitted, generation, scan, bound, binding, vanished, stopping, turns, rebinds>>

\* rebind: the listener generation is replaced, by none when the bind fails, and what the
\* retired one had not handed over is closed.
Rebind(a) ==
    /\ rebinds < MaxRebinds /\ vanished = {} /\ a # bound /\ ~stopping
    /\ rebinds' = rebinds + 1
    /\ bound' = a
    /\ vanished' = {bound} \ {Unbound}
    /\ inbound' = [c \in Inbound |-> IF inbound[c].stage = "queued" THEN Over ELSE inbound[c]]
    /\ UNCHANGED <<applied, feed, permitted, generation, scan, binding, acceptor, stopping, turns>>

\* CloseConnectionsBoundTo, from the same refresh.
CloseVanished ==
    /\ vanished # {}
    /\ binding' = binding + 1
    /\ inbound' = [c \in Inbound |-> IF c \in Registered /\ inbound[c].address \in vanished
                                     THEN [inbound[c] EXCEPT !.closing = TRUE] ELSE inbound[c]]
    /\ vanished' = {}
    /\ UNCHANGED <<applied, feed, permitted, generation, scan, bound, acceptor, stopping, turns, rebinds>>

-----------------------------------------------------------------------------
(* A connection *)

\* The handshake: the client chose a plane and shows a certificate, which TLS verifies.
Handshake(c) ==
    /\ inbound[c].stage = "handshake"
    /\ \E p \in Planes, e \in {applied.epoch - 1, applied.epoch} :
         LET x == [inbound[c] EXCEPT !.stage = "ready", !.plane = p,
                                     !.epoch = IF p = "content" THEN e ELSE 0,
                                     !.own = IF p = "content" THEN applied.own ELSE 0] IN
         /\ applied.status = "active" \/ (p = "pairing" /\ applied.status # "revoked")
         /\ feed # "closed"
         /\ Put(c, x)
    /\ UNCHANGED <<applied, feed, permitted, generation, scan, bound, binding, vanished, acceptor, stopping, turns, rebinds>>

\* The conditions establishPeer checks under the lock, before and after it verifies.
MayEstablish(c) ==
    /\ ~stopping /\ ~inbound[c].closing
    /\ MemberAccess(inbound[c].plane) /\ PlaneRoom(c)

BeginVerify(c) ==
    /\ inbound[c].stage = "ready"
    /\ Put(c, IF MayEstablish(c) THEN [inbound[c] EXCEPT !.stage = "verify", !.gen = generation]
              ELSE Over)
    /\ UNCHANGED <<applied, feed, permitted, generation, scan, bound, binding, vanished, acceptor, stopping, turns, rebinds>>

VerifyConn(c) ==
    /\ inbound[c].stage = "verify"
    /\ Put(c, IF Admitted(c) THEN [inbound[c] EXCEPT !.stage = "verified"] ELSE Over)
    /\ UNCHANGED <<applied, feed, permitted, generation, scan, bound, binding, vanished, acceptor, stopping, turns, rebinds>>

\* (Variant: the verdict is used whatever was revalidated meanwhile.)
CurrentAlways(c) == TRUE

\* No revalidation began since the verdict was asked for.
CurrentVerdict(c) == inbound[c].gen = generation

Establish(c) ==
    LET x == inbound[c] IN
    /\ x.stage = "verified"
    /\ Put(c, CASE ~MayEstablish(c) -> Over
                [] MayEstablish(c) /\ CurrentVerdict(c) -> [x EXCEPT !.stage = "established", !.tries = 0, !.gen = 0]
                [] OTHER -> IF x.tries + 1 < VerifyAttempts
                            THEN [x EXCEPT !.stage = "ready", !.tries = @ + 1] ELSE Over)
    /\ UNCHANGED <<applied, feed, permitted, generation, scan, bound, binding, vanished, acceptor, stopping, turns, rebinds>>

\* reauthorizePeer, of a request: begun, verified, and granted or refused.
MayServe(c) == c \in Established /\ ~stopping /\ MemberAccess(inbound[c].plane)

BeginRequest(c) ==
    /\ inbound[c].stage = "established" /\ inbound[c].request \in {"none", "again"} /\ MayServe(c)
    /\ Put(c, [inbound[c] EXCEPT !.request = "verify", !.gen = generation])
    /\ UNCHANGED <<applied, feed, permitted, generation, scan, bound, binding, vanished, acceptor, stopping, turns, rebinds>>

VerifyRequest(c) ==
    /\ inbound[c].request = "verify"
    /\ Put(c, IF Admitted(c) THEN [inbound[c] EXCEPT !.request = "verified"]
              ELSE [inbound[c] EXCEPT !.request = "none", !.tries = 0, !.gen = 0, !.closing = TRUE])
    /\ UNCHANGED <<applied, feed, permitted, generation, scan, bound, binding, vanished, acceptor, stopping, turns, rebinds>>

Grants(c) == inbound[c].request = "verified" /\ MayServe(c) /\ CurrentVerdict(c)

EndRequest(c) ==
    LET x == inbound[c] IN
    /\ x.request = "verified"
    /\ Put(c, CASE ~MayServe(c) -> [x EXCEPT !.request = "none", !.tries = 0, !.gen = 0]
                [] Grants(c) -> [x EXCEPT !.request = "none", !.tries = 0, !.gen = 0]
                [] OTHER -> IF x.tries + 1 < VerifyAttempts
                            THEN [x EXCEPT !.request = "again", !.tries = @ + 1]
                            ELSE [x EXCEPT !.request = "none", !.tries = 0, !.gen = 0, !.closing = TRUE])
    /\ UNCHANGED <<applied, feed, permitted, generation, scan, bound, binding, vanished, acceptor, stopping, turns, rebinds>>

\* The client hangs up, the handshake fails, the certificate expires, or a closed
\* connection's handler returns: unregisterConnection.
EndConn(c) ==
    /\ c \in Registered
    /\ Put(c, Over)
    /\ scan' = scan \ {c}
    /\ UNCHANGED <<applied, feed, permitted, generation, bound, binding, vanished, acceptor, stopping, turns, rebinds>>

-----------------------------------------------------------------------------
(* The watcher *)

\* RevalidatePeers, on a signal.
Revalidate ==
    /\ feed = "signalled" /\ scan = {} /\ ~stopping
    /\ feed' = "quiet"
    /\ generation' = generation + 1
    /\ scan' = Established
    /\ UNCHANGED <<applied, permitted, bound, binding, vanished, acceptor, inbound, stopping, turns, rebinds>>

\* disableMemberAccess: the feed was closed.
DisableAccess ==
    /\ feed = "closed" /\ permitted /\ scan = {} /\ ~stopping
    /\ permitted' = FALSE
    /\ generation' = generation + 1
    /\ scan' = {c \in Established : inbound[c].plane # "pairing"}
    /\ UNCHANGED <<applied, feed, bound, binding, vanished, acceptor, inbound, stopping, turns, rebinds>>

CheckPeer(c) ==
    /\ c \in scan
    /\ scan' = scan \ {c}
    /\ inbound' = IF permitted /\ Admitted(c) THEN inbound ELSE [inbound EXCEPT ![c].closing = TRUE]
    /\ UNCHANGED <<applied, feed, permitted, generation, bound, binding, vanished, acceptor, stopping, turns, rebinds>>

-----------------------------------------------------------------------------
(* The environment *)

\* A change is applied, published and signalled under one lock.
Change(a) ==
    /\ turns < MaxTurns /\ feed # "closed"
    /\ turns' = turns + 1
    /\ applied' = a /\ feed' = "signalled"
    /\ UNCHANGED <<permitted, generation, scan, bound, binding, vanished, acceptor, inbound, stopping, rebinds>>

ApplyChange ==
    \/ Change([applied EXCEPT !.status = IF @ = "active" THEN "revoked" ELSE "active"])
    \/ Change([applied EXCEPT !.epoch = @ + 1])
    \/ Change([applied EXCEPT !.own = @ + 1])

\* The node halts or closes.
CloseFeed ==
    /\ feed # "closed" /\ feed' = "closed"
    /\ UNCHANGED <<applied, permitted, generation, scan, bound, binding, vanished, acceptor, inbound, stopping, turns, rebinds>>

\* initiateShutdown
StopIngress ==
    /\ ~stopping /\ stopping' = TRUE
    /\ bound' = Unbound
    /\ scan' = {}
    /\ inbound' = [c \in Inbound |-> CASE inbound[c].stage = "queued" -> Over
                                       [] c \in Registered -> [inbound[c] EXCEPT !.closing = TRUE]
                                       [] OTHER -> inbound[c]]
    /\ UNCHANGED <<applied, feed, permitted, generation, binding, vanished, acceptor, turns, rebinds>>

ConnStep(c) ==
    \/ Handshake(c) \/ BeginVerify(c) \/ VerifyConn(c) \/ Establish(c)
    \/ BeginRequest(c) \/ VerifyRequest(c) \/ EndRequest(c) \/ EndConn(c)

IngressNext ==
    \/ BeginAccept \/ RegisterAccepted \/ CloseVanished \/ Revalidate \/ DisableAccess
    \/ ApplyChange \/ CloseFeed \/ StopIngress
    \/ \E c \in Inbound : Arrive(c) \/ Accept(c) \/ ConnStep(c) \/ CheckPeer(c)
    \/ \E a \in Addresses \cup {Unbound} : Rebind(a)

IngressSpec == IngressInit /\ [][IngressNext]_ingressVars

-----------------------------------------------------------------------------
(* Properties *)

Stages == {"none", "queued", "taken", "handshake", "ready", "verify", "verified", "established", "gone"}
Connections ==
    [stage : Stages, address : Addresses \cup {Unbound}, plane : Planes \cup {"none"},
     epoch : Nat, own : Nat, gen : Nat, tries : Nat, closing : BOOLEAN,
     request : {"none", "verify", "verified", "again"}]

\* The types of the variables.
IngressTypeOK ==
    /\ applied \in [status : {"active", "revoked"}, epoch : Nat \ {0}, own : Nat \ {0}]
    /\ feed \in {"quiet", "signalled", "closed"} /\ permitted \in BOOLEAN
    /\ generation \in Nat /\ scan \subseteq Inbound
    /\ bound \in Addresses \cup {Unbound} /\ binding \in Nat /\ vanished \subseteq Addresses
    /\ acceptor \in [stage : {"loop", "wait", "took"}, gen : Nat, conn : Inbound \cup {0}]
    /\ inbound \in [Inbound -> Connections]
    /\ stopping \in BOOLEAN /\ turns \in Nat /\ rebinds \in Nat

\* What the watcher has been told and has not acted on: a change, or the end of the feed,
\* after which pairing alone goes on.
Pending(c) == \/ feed = "signalled"
              \/ feed = "closed" /\ (permitted \/ inbound[c].plane = "pairing")

\* An established connection the applied state no longer admits is about to be closed:
\* a signal waits for the watcher, or the revalidation it runs has still to check it.
NoStaleAccess ==
    \A c \in Established : Admitted(c) \/ Pending(c) \/ c \in scan

\* A request is granted only on the applied state that the last revalidation began with
\* or a later one: if the peer is not admitted now, a signal is already waiting.
GrantsFresh ==
    [][\A c \in Inbound : Grants(c) /\ inbound'[c].request = "none" => Admitted(c) \/ Pending(c)]_ingressVars

\* Once a refresh is over no connection remains on an address the daemon no longer
\* listens on, the ones accepted while it ran included.
VanishedClosed ==
    vanished = {} /\ ~stopping => \A c \in Registered : inbound[c].closing \/ inbound[c].address = bound

\* Whom the ingress serves, it serves with reason: a peer whose access ended, or a
\* connection through an address that vanished, is closed or about to be.
ConnectionsAuthorized == NoStaleAccess /\ VanishedClosed
=============================================================================
