--------------------------- MODULE ConnectionProofs ---------------------------
(***************************************************************************)
(* Proofs about both ends of a peer connection and the artifacts that are  *)
(* transferred over it, for any number of connections, addresses, planes,  *)
(* slots, credential epochs, changes, artifacts and receivers.             *)
(*                                                                         *)
(* Ingress: no connection outlives the admission of its peer or the        *)
(* address it came through without its closing being under way, and no     *)
(* request is granted on a verdict from before the last revalidation.      *)
(* PeerSync: the server's two slots hold exactly the connections it        *)
(* serves, and no credential displaces a newer one.                        *)
(* SnapshotArtifacts: what is handed out or transferred is whole, and the  *)
(* disk holds no more than the retention allows.                           *)
(* Checkpoints: no store finds a checkpoint that does not match it, and    *)
(* no scheduler stops for a broken cadence.                                *)
(* RaftSnapshots: a crash leaves no command out, and openNode refuses      *)
(* nothing but a log with a hole.                                          *)
(***************************************************************************)
EXTENDS Ingress, PeerSync, SnapshotArtifacts, Checkpoints, RaftSnapshots,
        FiniteSetTheorems, WellFoundedInduction, TLAPS

-----------------------------------------------------------------------------
(* The ingress *)

\* Stages in which a connection is registered.
Serving == {"handshake", "ready", "verify", "verified", "established"}

\* Pending of Ingress, of a connection's record.
Awaits(x) == \/ feed = "signalled"
             \/ feed = "closed" /\ (permitted \/ x.plane = "pairing")

\* A verdict that establishPeer or reauthorizePeer would still accept.
Standing(x) == (x.stage = "verified" \/ x.request = "verified") /\ x.gen = generation

\* What holds of every connection.
ConnSound(x) ==
    /\ x.gen <= generation
    /\ x.request # "none" => x.stage = "established"
    /\ x.stage \notin {"none", "gone"} => x.address # Unbound
    /\ Standing(x) => Admits(x) \/ Awaits(x)
    /\ x.stage = "queued" => x.address = bound
    /\ x.stage \in Serving => stopping \/ x.closing \/ x.address = bound \/ x.address \in vanished

\* An established connection is admitted, or the watcher will come to it.
Watched(c) ==
    inbound[c].stage = "established" /\ ~inbound[c].closing =>
        Admits(inbound[c]) \/ Awaits(inbound[c]) \/ c \in scan

\* The connection the accept loop holds: if the loop's generation still stands, its
\* address is bound or in the hands of the refresh that runs.
Accepted ==
    /\ acceptor.gen <= binding
    /\ acceptor.stage = "took" =>
         /\ acceptor.conn \in Inbound
         /\ inbound[acceptor.conn].stage = "taken"
         /\ acceptor.gen = binding =>
              \/ stopping
              \/ inbound[acceptor.conn].address = bound
              \/ inbound[acceptor.conn].address \in vanished

IngressInv ==
    /\ IngressTypeOK
    /\ \A c \in Inbound : ConnSound(inbound[c]) /\ Watched(c)
    /\ Accepted
    /\ permitted \/ feed = "closed"
-----------------------------------------------------------------------------
LEMMA InitSound == IngressInit => IngressInv
  <1>. SUFFICES ASSUME IngressInit PROVE IngressInv
    OBVIOUS
  <1>1. IngressTypeOK
    BY IngressConstants DEF IngressInit, IngressTypeOK, NoConn, Connections, Stages, Inbound
  <1>2. \A c \in Inbound : inbound[c] = NoConn
    BY DEF IngressInit
  <1>3. \A c \in Inbound : ConnSound(inbound[c]) /\ Watched(c)
    BY <1>2 DEF IngressInit, ConnSound, Watched, NoConn, Standing, Serving
  <1>4. Accepted
    BY DEF IngressInit, Accepted
  <1>. QED
    BY <1>1, <1>3, <1>4 DEF IngressInv, IngressInit

\* A step of one connection, or of its handler, that leaves everything else alone.
LEMMA OneConn ==
    ASSUME IngressInv, NEW c \in Inbound, NEW x \in Connections,
           inbound' = [inbound EXCEPT ![c] = x],
           UNCHANGED <<applied, feed, permitted, generation, scan, bound, binding, vanished,
                       acceptor, stopping, turns, rebinds>>,
           inbound[c].stage # "taken",
           ConnSound(x),
           x.stage = "established" /\ ~x.closing => Admits(x) \/ Awaits(x) \/ c \in scan
    PROVE  IngressInv'
  <1>1. IngressTypeOK'
    BY DEF IngressInv, IngressTypeOK
  <1>2. inbound'[c] = x /\ \A d \in Inbound \ {c} : inbound'[d] = inbound[d]
    BY DEF IngressInv, IngressTypeOK
  <1>3. \A y : /\ ConnSound(y)' <=> ConnSound(y)
               /\ Admits(y)' <=> Admits(y)
               /\ Awaits(y)' <=> Awaits(y)
    BY DEF ConnSound, Admits, Awaits, Standing
  <1>4. ASSUME NEW d \in Inbound PROVE (ConnSound(inbound[d]) /\ Watched(d))'
    BY <1>2, <1>3 DEF IngressInv, Watched
  <1>5. Accepted'
    BY <1>2 DEF IngressInv, Accepted
  <1>. QED
    BY <1>1, <1>4, <1>5 DEF IngressInv

\* A closed connection satisfies everything.
LEMMA OverSound ==
    ASSUME IngressTypeOK
    PROVE  Over \in Connections /\ ConnSound(Over) /\ Over.stage = "gone"
  <1>1. NoConn \in Connections
    BY DEF NoConn, Connections, Stages
  <1>2. Over \in Connections /\ Over.stage = "gone" /\ Over.request = "none" /\ Over.gen = 0
    BY <1>1 DEF Over, NoConn, Connections, Stages
  <1>3. ConnSound(Over)
    BY <1>2 DEF ConnSound, Standing, Serving, IngressTypeOK
  <1>. QED
    BY <1>2, <1>3

\* Marking a connection as closing changes neither its verdicts nor who admits it.
LEMMA ClosingSound ==
    ASSUME NEW x \in Connections, NEW y, y = [x EXCEPT !.closing = TRUE]
    PROVE  /\ y \in Connections /\ y.closing
           /\ y.stage = x.stage /\ y.request = x.request /\ y.gen = x.gen
           /\ y.address = x.address /\ y.plane = x.plane
           /\ Admits(y) <=> Admits(x)
           /\ Awaits(y) <=> Awaits(x)
           /\ Standing(y) <=> Standing(x)
  <1>1. /\ y \in Connections /\ y.closing
        /\ y.stage = x.stage /\ y.request = x.request /\ y.gen = x.gen
        /\ y.address = x.address /\ y.plane = x.plane
        /\ y.epoch = x.epoch /\ y.own = x.own
    BY DEF Connections
  <1>2. (Admits(y) <=> Admits(x)) /\ (Awaits(y) <=> Awaits(x)) /\ (Standing(y) <=> Standing(x))
    BY <1>1 DEF Admits, Awaits, Standing
  <1>. QED
    BY <1>1, <1>2

LEMMA HandshakeSound ==
    ASSUME IngressInv, NEW c \in Inbound, Handshake(c)
    PROVE  IngressInv'
  <1>1. inbound[c] \in Connections /\ ConnSound(inbound[c])
    BY DEF IngressInv, IngressTypeOK
  <1>2. PICK p \in Planes, e \in {applied.epoch - 1, applied.epoch} :
           Put(c, [inbound[c] EXCEPT !.stage = "ready", !.plane = p,
                                     !.epoch = IF p = "content" THEN e ELSE 0,
                                     !.own = IF p = "content" THEN applied.own ELSE 0])
    BY DEF Handshake
  <1>. DEFINE x == [inbound[c] EXCEPT !.stage = "ready", !.plane = p,
                                      !.epoch = IF p = "content" THEN e ELSE 0,
                                      !.own = IF p = "content" THEN applied.own ELSE 0]
  <1>3. e \in Nat /\ applied.own \in Nat
    BY DEF IngressInv, IngressTypeOK
  <1>4. x \in Connections
    BY <1>1, <1>3 DEF Connections, Stages
  <1>5. /\ x.stage = "ready" /\ x.request = inbound[c].request /\ x.gen = inbound[c].gen
        /\ x.address = inbound[c].address /\ x.closing = inbound[c].closing
    BY <1>1 DEF Connections
  <1>6. inbound[c].stage = "handshake"
    BY DEF Handshake
  <1>7. ConnSound(x)
    BY <1>1, <1>5, <1>6 DEF ConnSound, Standing, Serving
  <1>. HIDE DEF x
  <1>. QED
    BY <1>2, <1>4, <1>5, <1>6, <1>7, OneConn DEF Handshake, Put, x

LEMMA EstablishmentSound ==
    ASSUME IngressInv, NEW c \in Inbound, BeginVerify(c) \/ VerifyConn(c) \/ Establish(c)
    PROVE  IngressInv'
  <1>1. /\ inbound[c] \in Connections /\ ConnSound(inbound[c])
        /\ generation \in Nat /\ IngressTypeOK
    BY DEF IngressInv, IngressTypeOK
  <1>2. Over \in Connections /\ ConnSound(Over) /\ Over.stage = "gone"
    BY <1>1, OverSound
  <1>3. CASE BeginVerify(c)
    <2>. DEFINE x == [inbound[c] EXCEPT !.stage = "verify", !.gen = generation]
    <2>1. x \in Connections /\ x.stage = "verify"
      BY <1>1 DEF Connections, Stages
    <2>2. ConnSound(x)
      BY <1>1, <1>3 DEF ConnSound, BeginVerify, Connections, Standing, Serving
    <2>3. inbound' = [inbound EXCEPT ![c] = x] \/ inbound' = [inbound EXCEPT ![c] = Over]
      BY <1>3 DEF BeginVerify, Put
    <2>. HIDE DEF x
    <2>. QED
      BY <1>2, <1>3, <2>1, <2>2, <2>3, OneConn DEF BeginVerify
  <1>4. CASE VerifyConn(c)
    <2>. DEFINE x == [inbound[c] EXCEPT !.stage = "verified"]
    <2>1. x \in Connections /\ x.stage = "verified"
      BY <1>1 DEF Connections, Stages
    <2>2. ASSUME Admitted(c) PROVE ConnSound(x)
      BY <1>1, <1>4, <2>2 DEF ConnSound, VerifyConn, Connections, Standing, Serving, Admitted, Admits
    <2>3. \/ Admitted(c) /\ inbound' = [inbound EXCEPT ![c] = x]
          \/ inbound' = [inbound EXCEPT ![c] = Over]
      BY <1>4 DEF VerifyConn, Put
    <2>. HIDE DEF x
    <2>. QED
      BY <1>2, <1>4, <2>1, <2>2, <2>3, OneConn DEF VerifyConn
  <1>5. CASE Establish(c)
    <2>. DEFINE x == [inbound[c] EXCEPT !.stage = "established", !.tries = 0, !.gen = 0]
                y == [inbound[c] EXCEPT !.stage = "ready", !.tries = @ + 1]
    <2>0. inbound[c].tries + 1 \in Nat
      BY <1>1 DEF Connections
    <2>1. x \in Connections /\ x.stage = "established"
      BY <1>1 DEF Connections, Stages
    <2>1a. y \in Connections /\ y.stage = "ready"
      BY <1>1, <2>0 DEF Connections, Stages
    <2>2. inbound[c].stage = "verified"
      BY <1>5 DEF Establish
    <2>3. ASSUME MayEstablish(c), CurrentVerdict(c)
          PROVE  ConnSound(x) /\ (Admits(x) \/ Awaits(x))
      BY <1>1, <2>2, <2>3 DEF ConnSound, CurrentVerdict, Connections, Standing, Serving, Admits, Awaits
    <2>4. ConnSound(y)
      BY <1>1, <2>2 DEF ConnSound, Connections, Standing, Serving
    <2>5. \/ MayEstablish(c) /\ CurrentVerdict(c) /\ inbound' = [inbound EXCEPT ![c] = x]
          \/ inbound' = [inbound EXCEPT ![c] = y]
          \/ inbound' = [inbound EXCEPT ![c] = Over]
      BY <1>5 DEF Establish, Put
    <2>. HIDE DEF x, y
    <2>. QED
      BY <1>2, <1>5, <2>1, <2>1a, <2>2, <2>3, <2>4, <2>5, OneConn DEF Establish
  <1>. QED
    BY <1>3, <1>4, <1>5

LEMMA RequestSound ==
    ASSUME IngressInv, NEW c \in Inbound, BeginRequest(c) \/ VerifyRequest(c) \/ EndRequest(c)
    PROVE  IngressInv'
  <1>1. /\ inbound[c] \in Connections /\ ConnSound(inbound[c]) /\ Watched(c)
        /\ generation \in Nat /\ inbound[c].tries + 1 \in Nat
    BY DEF IngressInv, IngressTypeOK, Connections
  <1>2. inbound[c].stage = "established"
    BY <1>1 DEF BeginRequest, VerifyRequest, EndRequest, ConnSound
  <1>3. CASE BeginRequest(c)
    <2>. DEFINE x == [inbound[c] EXCEPT !.request = "verify", !.gen = generation]
    <2>1. x \in Connections
      BY <1>1 DEF Connections
    <2>2. ConnSound(x) /\ (~x.closing => Admits(x) \/ Awaits(x) \/ c \in scan)
      BY <1>1, <1>2, <1>3 DEF ConnSound, Watched, Connections, Standing, Serving, Admits, Awaits
    <2>3. inbound' = [inbound EXCEPT ![c] = x]
      BY <1>3 DEF BeginRequest, Put
    <2>. HIDE DEF x
    <2>. QED
      BY <1>2, <1>3, <2>1, <2>2, <2>3, OneConn DEF BeginRequest
  <1>4. CASE VerifyRequest(c)
    <2>. DEFINE x == [inbound[c] EXCEPT !.request = "verified"]
                y == [inbound[c] EXCEPT !.request = "none", !.tries = 0, !.gen = 0, !.closing = TRUE]
    <2>1. x \in Connections
      BY <1>1 DEF Connections
    <2>2. y \in Connections /\ y.closing
      BY <1>1 DEF Connections
    <2>3. ASSUME Admitted(c) PROVE ConnSound(x) /\ Admits(x)
      BY <1>1, <1>2, <2>3 DEF ConnSound, Connections, Standing, Serving, Admitted, Admits
    <2>4. ConnSound(y)
      BY <1>1, <1>2 DEF ConnSound, Connections, Standing, Serving
    <2>5. \/ Admitted(c) /\ inbound' = [inbound EXCEPT ![c] = x]
          \/ inbound' = [inbound EXCEPT ![c] = y]
      BY <1>4 DEF VerifyRequest, Put
    <2>. HIDE DEF x, y
    <2>. QED
      BY <1>2, <1>4, <2>1, <2>2, <2>3, <2>4, <2>5, OneConn DEF VerifyRequest
  <1>5. CASE EndRequest(c)
    <2>. DEFINE x == [inbound[c] EXCEPT !.request = "none", !.tries = 0, !.gen = 0]
                y == [inbound[c] EXCEPT !.request = "none", !.tries = 0, !.gen = 0, !.closing = TRUE]
                z == [inbound[c] EXCEPT !.request = "again", !.tries = @ + 1]
    <2>1. x \in Connections
      BY <1>1 DEF Connections
    <2>2. y \in Connections /\ y.closing
      BY <1>1 DEF Connections
    <2>3. z \in Connections
      BY <1>1 DEF Connections
    <2>4. ConnSound(x) /\ (~x.closing => Admits(x) \/ Awaits(x) \/ c \in scan)
      BY <1>1, <1>2 DEF ConnSound, Watched, Connections, Standing, Serving, Admits, Awaits
    <2>5. ConnSound(y)
      BY <1>1, <1>2 DEF ConnSound, Connections, Standing, Serving
    <2>6. ConnSound(z) /\ (~z.closing => Admits(z) \/ Awaits(z) \/ c \in scan)
      BY <1>1, <1>2 DEF ConnSound, Watched, Connections, Standing, Serving, Admits, Awaits
    <2>7. \/ inbound' = [inbound EXCEPT ![c] = x]
          \/ inbound' = [inbound EXCEPT ![c] = y]
          \/ inbound' = [inbound EXCEPT ![c] = z]
      BY <1>5 DEF EndRequest, Put
    <2>. HIDE DEF x, y, z
    <2>. QED
      BY <1>2, <1>5, <2>1, <2>2, <2>3, <2>4, <2>5, <2>6, <2>7, OneConn DEF EndRequest
  <1>. QED
    BY <1>3, <1>4, <1>5

LEMMA ArriveSound ==
    ASSUME IngressInv, NEW c \in Inbound, Arrive(c)
    PROVE  IngressInv'
  <1>. DEFINE x == [NoConn EXCEPT !.stage = "queued", !.address = bound]
  <1>1. bound \in Addresses /\ generation \in Nat
    BY DEF Arrive, IngressInv, IngressTypeOK
  <1>2. /\ x \in Connections /\ x.stage = "queued" /\ x.address = bound
        /\ x.request = "none" /\ x.gen = 0
    BY <1>1 DEF NoConn, Connections, Stages
  <1>3. ConnSound(x)
    BY <1>1, <1>2 DEF ConnSound, Standing, Serving, Arrive
  <1>4. inbound' = [inbound EXCEPT ![c] = x] /\ inbound[c].stage # "taken"
    BY DEF Arrive, Put, NoConn
  <1>. HIDE DEF x
  <1>. QED
    BY <1>2, <1>3, <1>4, OneConn DEF Arrive

LEMMA EndConnSound ==
    ASSUME IngressInv, NEW c \in Inbound, EndConn(c)
    PROVE  IngressInv'
  <1>1. Over \in Connections /\ ConnSound(Over) /\ Over.stage = "gone"
    BY OverSound DEF IngressInv
  <1>2. inbound'[c] = Over /\ \A d \in Inbound \ {c} : inbound'[d] = inbound[d]
    BY DEF EndConn, Put, IngressInv, IngressTypeOK
  <1>3. IngressTypeOK'
    BY <1>1 DEF EndConn, Put, IngressInv, IngressTypeOK
  <1>4. \A y : /\ ConnSound(y)' <=> ConnSound(y)
               /\ Admits(y)' <=> Admits(y)
               /\ Awaits(y)' <=> Awaits(y)
    BY DEF EndConn, ConnSound, Admits, Awaits, Standing
  <1>5. ASSUME NEW d \in Inbound PROVE (ConnSound(inbound[d]) /\ Watched(d))'
    BY <1>1, <1>2, <1>4 DEF EndConn, IngressInv, Watched
  <1>6. Accepted'
    BY <1>2 DEF EndConn, IngressInv, Accepted, Registered
  <1>. QED
    BY <1>3, <1>5, <1>6 DEF IngressInv, EndConn

LEMMA AcceptSound ==
    ASSUME IngressInv,
           BeginAccept \/ RegisterAccepted \/ \E c \in Inbound : Accept(c)
    PROVE  IngressInv'
  <1>. USE DEF IngressInv
  <1>1. Over \in Connections /\ ConnSound(Over) /\ Over.stage = "gone"
    BY OverSound
  <1>0. UNCHANGED <<applied, feed, permitted, generation, scan, bound, vanished, stopping>>
    BY DEF BeginAccept, RegisterAccepted, Accept
  <1>2. \A y : /\ ConnSound(y)' <=> ConnSound(y)
               /\ Admits(y)' <=> Admits(y)
               /\ Awaits(y)' <=> Awaits(y)
    BY <1>0 DEF ConnSound, Admits, Awaits, Standing
  <1>3. CASE BeginAccept
    <2>1. IngressTypeOK' /\ Accepted'
      BY <1>3 DEF BeginAccept, IngressTypeOK, Accepted
    <2>2. \A c \in Inbound : (ConnSound(inbound[c]) /\ Watched(c))'
      BY <1>0, <1>2, <1>3 DEF BeginAccept, Watched
    <2>. QED
      BY <1>0, <2>1, <2>2
  <1>4. CASE RegisterAccepted
    <2>. DEFINE c == acceptor.conn
                x == [inbound[c] EXCEPT !.stage = "handshake"]
    <2>1. c \in Inbound /\ inbound[c].stage = "taken" /\ inbound[c] \in Connections
      BY <1>4 DEF RegisterAccepted, Accepted, IngressTypeOK
    <2>2. x \in Connections /\ x.stage = "handshake"
      BY <2>1 DEF Connections, Stages
    <2>3. ASSUME MayRegister PROVE ConnSound(x)
      <3>1. ConnSound(inbound[c])
        BY <2>1
      <3>2. inbound[c].address = bound \/ inbound[c].address \in vanished
        BY <1>4, <2>3 DEF RegisterAccepted, Accepted, MayRegister, IngressTypeOK
      <3>. QED
        BY <2>1, <3>1, <3>2 DEF ConnSound, Connections, Standing, Serving
    <2>4. \/ MayRegister /\ inbound' = [inbound EXCEPT ![c] = x]
          \/ inbound' = [inbound EXCEPT ![c] = Over]
      BY <1>4 DEF RegisterAccepted, Put
    <2>5. PICK z \in Connections : /\ inbound' = [inbound EXCEPT ![c] = z]
                                   /\ ConnSound(z) /\ z.stage # "established"
      <3>. HIDE DEF x, c
      <3>. QED
        BY <1>1, <2>2, <2>3, <2>4
    <2>6. inbound'[c] = z /\ \A d \in Inbound \ {c} : inbound'[d] = inbound[d]
      BY <2>1, <2>5 DEF IngressTypeOK
    <2>7. IngressTypeOK'
      BY <1>4, <2>1, <2>5 DEF RegisterAccepted, IngressTypeOK
    <2>8. Accepted'
      BY <1>4 DEF RegisterAccepted, Accepted, IngressTypeOK
    <2>9. \A d \in Inbound : (ConnSound(inbound[d]) /\ Watched(d))'
      BY <1>0, <1>2, <2>5, <2>6 DEF Watched
    <2>. QED
      BY <1>0, <2>7, <2>8, <2>9
  <1>5. CASE \E c \in Inbound : Accept(c)
    <2>1. PICK c \in Inbound : Accept(c)
      BY <1>5
    <2>. DEFINE x == [inbound[c] EXCEPT !.stage = "taken"]
    <2>2. inbound[c] \in Connections /\ ConnSound(inbound[c]) /\ inbound[c].stage = "queued"
      BY <2>1 DEF IngressTypeOK, Accept
    <2>3. /\ x \in Connections /\ x.stage = "taken" /\ x.address = bound
          /\ ConnSound(x)
      BY <2>2 DEF Connections, Stages, ConnSound, Standing, Serving
    <2>4. inbound'[c] = x /\ \A d \in Inbound \ {c} : inbound'[d] = inbound[d]
      BY <2>1 DEF Accept, Put, IngressTypeOK
    <2>5. IngressTypeOK'
      BY <2>1, <2>3 DEF Accept, Put, IngressTypeOK
    <2>6. Accepted'
      BY <2>1, <2>3, <2>4 DEF Accept, Accepted, IngressTypeOK
    <2>. HIDE DEF x
    <2>7. \A d \in Inbound : (ConnSound(inbound[d]) /\ Watched(d))'
      BY <1>0, <1>2, <2>3, <2>4 DEF Watched
    <2>. QED
      BY <1>0, <2>5, <2>6, <2>7
  <1>. QED
    BY <1>3, <1>4, <1>5

LEMMA RefreshSound ==
    ASSUME IngressInv,
           CloseVanished \/ \E a \in Addresses \cup {Unbound} : Rebind(a)
    PROVE  IngressInv'
  <1>. USE DEF IngressInv
  <1>1. Over \in Connections /\ Over.stage = "gone" /\ Over.request = "none" /\ Over.gen = 0
    BY DEF Over, NoConn, Connections, Stages
  <1>2. \A y : /\ Admits(y)' <=> Admits(y)
               /\ Awaits(y)' <=> Awaits(y)
               /\ Standing(y)' <=> Standing(y)
    BY DEF CloseVanished, Rebind, Admits, Awaits, Standing
  <1>3. CASE CloseVanished
    <2>1. ASSUME NEW c \in Inbound
          PROVE  /\ inbound'[c] \in Connections
                 /\ (ConnSound(inbound[c]) /\ Watched(c))'
                 /\ inbound'[c].stage = inbound[c].stage
      <3>1. inbound[c] \in Connections /\ ConnSound(inbound[c]) /\ Watched(c)
        BY DEF IngressTypeOK
      <3>. DEFINE y == [inbound[c] EXCEPT !.closing = TRUE]
      <3>2. /\ y \in Connections /\ y.closing
            /\ y.stage = inbound[c].stage /\ y.request = inbound[c].request
            /\ y.gen = inbound[c].gen /\ y.address = inbound[c].address
            /\ Admits(y) <=> Admits(inbound[c])
            /\ Awaits(y) <=> Awaits(inbound[c])
            /\ Standing(y) <=> Standing(inbound[c])
        BY <3>1, ClosingSound
      <3>3. inbound'[c] = IF c \in Registered /\ inbound[c].address \in vanished
                          THEN y ELSE inbound[c]
        BY <1>3 DEF CloseVanished
      <3>. HIDE DEF y
      <3>4. CASE c \in Registered /\ inbound[c].address \in vanished
        BY <1>2, <1>3, <3>1, <3>2, <3>3, <3>4 DEF CloseVanished, ConnSound, Watched, Serving
      <3>5. CASE ~(c \in Registered /\ inbound[c].address \in vanished)
        <4>1. inbound[c].stage \in Serving => c \in Registered
          BY DEF Serving, Registered
        <4>. QED
          BY <1>2, <1>3, <3>1, <3>3, <3>5, <4>1 DEF CloseVanished, ConnSound, Watched, Standing
      <3>. QED
        BY <3>4, <3>5
    <2>2. IngressTypeOK'
      <3>1. inbound' \in [Inbound -> Connections]
        BY <1>3, <2>1 DEF CloseVanished
      <3>. QED
        BY <1>3, <3>1 DEF CloseVanished, IngressTypeOK
    <2>3. Accepted'
      BY <1>3 DEF CloseVanished, Accepted, IngressTypeOK
    <2>. QED
      BY <1>3, <2>1, <2>2, <2>3 DEF CloseVanished
  <1>4. CASE \E a \in Addresses \cup {Unbound} : Rebind(a)
    <2>1. PICK a \in Addresses \cup {Unbound} : Rebind(a)
      BY <1>4
    <2>2. vanished = {} /\ bound' = a /\ vanished' = {bound} \ {Unbound} /\ UNCHANGED <<stopping, generation, scan>>
      BY <2>1 DEF Rebind
    <2>3. ASSUME NEW c \in Inbound
          PROVE  /\ inbound'[c] \in Connections
                 /\ (ConnSound(inbound[c]) /\ Watched(c))'
                 /\ inbound[c].stage # "queued" => inbound'[c] = inbound[c]
      <3>1. inbound[c] \in Connections /\ ConnSound(inbound[c]) /\ Watched(c)
        BY DEF IngressTypeOK
      <3>2. inbound'[c] = IF inbound[c].stage = "queued" THEN Over ELSE inbound[c]
        BY <2>1 DEF Rebind
      <3>3. CASE inbound[c].stage = "queued"
        BY <1>1, <1>2, <2>2, <3>2, <3>3 DEF ConnSound, Watched, Standing, Serving, IngressTypeOK
      <3>4. CASE inbound[c].stage # "queued"
        BY <1>2, <2>2, <3>1, <3>2, <3>4 DEF ConnSound, Watched, Standing, Serving
      <3>. QED
        BY <3>3, <3>4
    <2>4. IngressTypeOK'
      BY <2>1, <2>3 DEF Rebind, IngressTypeOK
    <2>5. Accepted'
      <3>1. acceptor' = acceptor /\ binding' = binding
        BY <2>1 DEF Rebind
      <3>. SUFFICES ASSUME acceptor.stage = "took", acceptor.gen = binding, ~stopping
                    PROVE  \/ inbound'[acceptor.conn].address = bound'
                           \/ inbound'[acceptor.conn].address \in vanished'
        BY <2>2, <2>3, <3>1 DEF Accepted
      <3>2. acceptor.conn \in Inbound /\ inbound[acceptor.conn].stage = "taken"
            /\ inbound[acceptor.conn].address = bound
        BY <2>2 DEF Accepted
      <3>3. inbound[acceptor.conn].address # Unbound
        BY <3>2 DEF ConnSound
      <3>. QED
        BY <2>2, <2>3, <3>2, <3>3
    <2>. QED
      BY <2>1, <2>3, <2>4, <2>5 DEF Rebind
  <1>. QED
    BY <1>3, <1>4

LEMMA WatcherSound ==
    ASSUME IngressInv,
           Revalidate \/ DisableAccess \/ \E c \in Inbound : CheckPeer(c)
    PROVE  IngressInv'
  <1>. USE DEF IngressInv
  <1>1. CASE Revalidate \/ DisableAccess
    <2>1. /\ UNCHANGED <<applied, bound, binding, vanished, acceptor, inbound, stopping>>
          /\ generation' = generation + 1 /\ generation \in Nat
      BY <1>1 DEF Revalidate, DisableAccess, IngressTypeOK
    <2>2. IngressTypeOK'
      <3>1. Established \subseteq Inbound
        BY DEF Established
      <3>2. CASE Revalidate
        BY <3>1, <3>2 DEF Revalidate, IngressTypeOK
      <3>3. CASE DisableAccess
        <4>1. scan' \subseteq Inbound
          BY <3>1, <3>3 DEF DisableAccess
        <4>2. generation' \in Nat
          BY <3>3 DEF DisableAccess, IngressTypeOK
        <4>3. permitted' = FALSE
          BY <3>3 DEF DisableAccess
        <4>. QED
          BY <3>3, <4>1, <4>2, <4>3 DEF DisableAccess, IngressTypeOK
      <3>. QED
        BY <1>1, <3>2, <3>3
    <2>3. Accepted'
      BY <2>1 DEF Accepted
    <2>4. ASSUME NEW c \in Inbound PROVE (ConnSound(inbound[c]) /\ Watched(c))'
      <3>1. inbound[c] \in Connections /\ inbound[c].gen \in Nat /\ ConnSound(inbound[c])
        BY DEF IngressTypeOK, Connections
      <3>2. ConnSound(inbound[c])'
        BY <2>1, <3>1 DEF ConnSound, Standing
      <3>3. Watched(c)'
        <4>1. CASE Revalidate
          BY <2>1, <4>1 DEF Revalidate, Watched, Established
        <4>2. CASE DisableAccess
          BY <2>1, <4>2 DEF DisableAccess, Watched, Established, Awaits
        <4>. QED
          BY <1>1, <4>1, <4>2
      <3>. QED
        BY <3>2, <3>3
    <2>. QED
      BY <1>1, <2>2, <2>3, <2>4 DEF Revalidate, DisableAccess
  <1>2. CASE \E c \in Inbound : CheckPeer(c)
    <2>1. PICK c \in Inbound : CheckPeer(c)
      BY <1>2
    <2>2. UNCHANGED <<applied, feed, permitted, generation, bound, binding, vanished, acceptor, stopping>>
      BY <2>1 DEF CheckPeer
    <2>3. \A y : /\ ConnSound(y)' <=> ConnSound(y)
                 /\ Admits(y)' <=> Admits(y)
                 /\ Awaits(y)' <=> Awaits(y)
      BY <2>2 DEF ConnSound, Admits, Awaits, Standing
    <2>4. inbound[c] \in Connections /\ ConnSound(inbound[c])
      BY DEF IngressTypeOK
    <2>. DEFINE y == [inbound[c] EXCEPT !.closing = TRUE]
    <2>5. /\ y \in Connections /\ y.closing
          /\ y.stage = inbound[c].stage /\ y.request = inbound[c].request
          /\ y.gen = inbound[c].gen /\ y.address = inbound[c].address
          /\ Admits(y) <=> Admits(inbound[c])
          /\ Awaits(y) <=> Awaits(inbound[c])
          /\ Standing(y) <=> Standing(inbound[c])
      BY <2>4, ClosingSound
    <2>6. \/ inbound' = inbound /\ Admits(inbound[c])
          \/ inbound' = [inbound EXCEPT ![c] = y]
      BY <2>1 DEF CheckPeer, Admitted
    <2>. HIDE DEF y
    <2>7. ConnSound(y)
      BY <2>4, <2>5 DEF ConnSound, Serving
    <2>8. ASSUME NEW d \in Inbound
          PROVE  /\ inbound'[d] \in Connections
                 /\ inbound'[d].stage = inbound[d].stage
                 /\ inbound'[d].address = inbound[d].address
                 /\ (ConnSound(inbound[d]) /\ Watched(d))'
      <3>1. CASE d = c
        BY <2>3, <2>4, <2>5, <2>6, <2>7, <3>1 DEF Watched, IngressTypeOK
      <3>2. CASE d # c
        <4>1. inbound'[d] = inbound[d] /\ inbound[d] \in Connections /\ (d \in scan => d \in scan')
          BY <2>1, <2>6, <3>2 DEF CheckPeer, IngressTypeOK
        <4>. QED
          BY <2>3, <4>1 DEF Watched
      <3>. QED
        BY <3>1, <3>2
    <2>9. IngressTypeOK'
      <3>1. inbound' \in [Inbound -> Connections]
        BY <2>5, <2>6 DEF IngressTypeOK
      <3>. QED
        BY <2>1, <3>1 DEF CheckPeer, IngressTypeOK
    <2>10. Accepted'
      BY <2>2, <2>8 DEF Accepted
    <2>. QED
      BY <2>2, <2>8, <2>9, <2>10
  <1>. QED
    BY <1>1, <1>2

LEMMA EnvironmentSound ==
    ASSUME IngressInv, ApplyChange \/ CloseFeed
    PROVE  IngressInv'
  <1>. USE DEF IngressInv
  <1>1. /\ UNCHANGED <<permitted, generation, scan, bound, binding, vanished, acceptor, inbound,
                       stopping, rebinds>>
        /\ feed # "closed"
        /\ feed' = "signalled" \/ (feed' = "closed" /\ UNCHANGED <<applied, turns>>)
    BY DEF ApplyChange, Change, CloseFeed
  <1>2. /\ applied' \in [status : {"active", "revoked"}, epoch : Nat \ {0}, own : Nat \ {0}]
        /\ turns' \in Nat
    <2>1. CASE CloseFeed
      BY <2>1 DEF CloseFeed, IngressTypeOK
    <2>2. CASE ApplyChange
      BY <2>2 DEF ApplyChange, Change, IngressTypeOK
    <2>. QED
      BY <2>1, <2>2
  <1>3. IngressTypeOK'
    BY <1>1, <1>2 DEF IngressTypeOK
  <1>4. Accepted'
    BY <1>1 DEF Accepted
  <1>5. ASSUME NEW c \in Inbound PROVE (ConnSound(inbound[c]) /\ Watched(c))'
    <2>1. ConnSound(inbound[c]) /\ Watched(c)
      OBVIOUS
    <2>2. CASE feed' = "signalled"
      BY <1>1, <2>1, <2>2 DEF ConnSound, Watched, Standing, Awaits
    <2>3. CASE feed' = "closed"
      BY <1>1, <2>1, <2>3 DEF ConnSound, Watched, Standing, Awaits
    <2>. QED
      BY <1>1, <2>2, <2>3
  <1>. QED
    BY <1>1, <1>3, <1>4, <1>5

LEMMA StopSound ==
    ASSUME IngressInv, StopIngress
    PROVE  IngressInv'
  <1>. USE DEF IngressInv
  <1>1. Over \in Connections /\ Over.stage = "gone" /\ Over.request = "none" /\ Over.gen = 0
    BY DEF Over, NoConn, Connections, Stages
  <1>2. /\ UNCHANGED <<applied, feed, permitted, generation, binding, vanished, acceptor>>
        /\ stopping' = TRUE /\ bound' = Unbound /\ generation \in Nat
    BY DEF StopIngress, IngressTypeOK
  <1>3. \A y : /\ Admits(y)' <=> Admits(y)
               /\ Awaits(y)' <=> Awaits(y)
               /\ Standing(y)' <=> Standing(y)
    BY <1>2 DEF Admits, Awaits, Standing
  <1>4. ASSUME NEW c \in Inbound
        PROVE  /\ inbound'[c] \in Connections
               /\ (ConnSound(inbound[c]) /\ Watched(c))'
               /\ inbound[c].stage = "taken" => inbound'[c].stage = "taken"
    <2>1. inbound[c] \in Connections /\ ConnSound(inbound[c]) /\ Watched(c)
      BY DEF IngressTypeOK
    <2>. DEFINE y == [inbound[c] EXCEPT !.closing = TRUE]
    <2>2. /\ y \in Connections /\ y.closing
          /\ y.stage = inbound[c].stage /\ y.request = inbound[c].request
          /\ y.gen = inbound[c].gen /\ y.address = inbound[c].address
          /\ Admits(y) <=> Admits(inbound[c])
          /\ Awaits(y) <=> Awaits(inbound[c])
          /\ Standing(y) <=> Standing(inbound[c])
      BY <2>1, ClosingSound
    <2>3. /\ inbound[c].stage = "queued" => inbound'[c] = Over
          /\ c \in Registered => inbound'[c] = y
          /\ c \notin Registered /\ inbound[c].stage # "queued" => inbound'[c] = inbound[c]
      BY DEF StopIngress, Registered
    <2>4. c \in Registered <=> inbound[c].stage \in Serving
      BY DEF Registered, Serving
    <2>. HIDE DEF y
    <2>5. CASE inbound[c].stage = "queued"
      BY <1>1, <1>2, <1>3, <2>3, <2>5 DEF ConnSound, Watched, Standing, Serving
    <2>6. CASE c \in Registered
      BY <1>2, <1>3, <2>1, <2>2, <2>3, <2>4, <2>6 DEF ConnSound, Watched, Serving
    <2>7. CASE c \notin Registered /\ inbound[c].stage # "queued"
      BY <1>2, <1>3, <2>1, <2>3, <2>4, <2>7 DEF ConnSound, Watched, Serving
    <2>. QED
      BY <2>5, <2>6, <2>7
  <1>5. IngressTypeOK'
    <2>1. inbound' \in [Inbound -> Connections]
      BY <1>4 DEF StopIngress
    <2>. QED
      BY <2>1 DEF StopIngress, IngressTypeOK
  <1>6. Accepted'
    BY <1>2, <1>4 DEF Accepted
  <1>. QED
    BY <1>2, <1>4, <1>5, <1>6

LEMMA StepSound == IngressInv /\ [IngressNext]_ingressVars => IngressInv'
  <1>. SUFFICES ASSUME IngressInv, [IngressNext]_ingressVars PROVE IngressInv'
    OBVIOUS
  <1>1. CASE UNCHANGED ingressVars
    BY <1>1 DEF ingressVars, IngressInv, IngressTypeOK, ConnSound, Watched, Accepted, Standing,
                Admits, Awaits
  <1>2. CASE BeginAccept \/ RegisterAccepted
    BY <1>2, AcceptSound
  <1>3. CASE CloseVanished \/ \E a \in Addresses \cup {Unbound} : Rebind(a)
    BY <1>3, RefreshSound
  <1>4. CASE Revalidate \/ DisableAccess
    BY <1>4, WatcherSound
  <1>5. CASE ApplyChange \/ CloseFeed
    BY <1>5, EnvironmentSound
  <1>6. CASE StopIngress
    BY <1>6, StopSound
  <1>7. ASSUME NEW c \in Inbound, Arrive(c) \/ Accept(c) \/ ConnStep(c) \/ CheckPeer(c)
        PROVE  IngressInv'
    BY <1>7, ArriveSound, AcceptSound, HandshakeSound, EstablishmentSound, RequestSound,
       EndConnSound, WatcherSound DEF ConnStep
  <1>. QED
    BY <1>1, <1>2, <1>3, <1>4, <1>5, <1>6, <1>7 DEF IngressNext

THEOREM IngressInvariant == IngressSpec => []IngressInv
  BY InitSound, StepSound, PTL DEF IngressSpec

\* The state of the ingress keeps its types, whatever arrives, changes or is rebound.
THEOREM IngressTypeCorrect == IngressSpec => []IngressTypeOK
  <1>1. IngressInv => IngressTypeOK
    BY DEF IngressInv
  <1>. QED
    BY <1>1, IngressInvariant, PTL

\* No established connection outlives its peer's admission, and none the address it
\* came through, unless its closing is under way: the two generations close every window
\* between the unlocked verification or accept and the change that overtakes it.
THEOREM AccessHeld == IngressSpec => []ConnectionsAuthorized
  <1>1. IngressInv => ConnectionsAuthorized
    <2>. SUFFICES ASSUME IngressInv PROVE NoStaleAccess /\ VanishedClosed
      BY DEF ConnectionsAuthorized
    <2>1. NoStaleAccess
      BY DEF IngressInv, NoStaleAccess, Watched, Established, Admitted, Pending, Awaits
    <2>2. VanishedClosed
      BY DEF IngressInv, VanishedClosed, ConnSound, Registered, Serving
    <2>. QED
      BY <2>1, <2>2
  <1>. QED
    BY <1>1, IngressInvariant, PTL

\* reauthorizePeer grants a request only on a verdict no revalidation has overtaken: the
\* peer is admitted at that moment, or a change the watcher has not seen yet is signalled.
THEOREM GrantsAreFresh == IngressSpec => GrantsFresh
  <1>1. ASSUME IngressInv, NEW c \in Inbound, Grants(c)
        PROVE  Admitted(c) \/ Pending(c)
    BY <1>1 DEF IngressInv, ConnSound, Standing, Grants, CurrentVerdict, Admitted, Pending, Awaits
  <1>2. IngressInv =>
          \A c \in Inbound : Grants(c) /\ inbound'[c].request = "none" => Admitted(c) \/ Pending(c)
    BY <1>1
  <1>. QED
    BY <1>2, IngressInvariant, PTL DEF GrantsFresh

-----------------------------------------------------------------------------
(* Content connections *)

\* The slots, and the credential the registry remembers: the current connection shows
\* it, and the draining one shows no newer.
Registry ==
    /\ SlotsSound
    /\ current # 0 => conn[current].local = credential
    /\ draining # 0 => conn[draining].local <= credential
    /\ current # 0 /\ draining # 0 => current # draining

SyncInv == SyncTypeOK /\ Registry

ServedHere(c) == conn[c].handler \in {"serving", "draining"}

LEMMA SyncInitSound == SyncInit => SyncInv
  <1>. SUFFICES ASSUME SyncInit PROVE SyncInv
    OBVIOUS
  <1>1. SyncTypeOK
    <2>1. Unused \in Links
      BY DEF Unused, Links
    <2>2. 1 \in Epochs
      BY SyncConstants DEF Epochs
    <2>3. Off \in [stage : {"off", "dial", "maintain", "replace"}, conn : Conns \cup {0}, spare : Conns \cup {0}]
      BY DEF Off
    <2>4. conn \in [Conns -> Links]
      BY <2>1 DEF SyncInit
    <2>. QED
      BY <2>2, <2>3, <2>4 DEF SyncInit, SyncTypeOK
  <1>2. Registry
    BY DEF SyncInit, Registry, SlotsSound, Unused
  <1>. QED
    BY <1>1, <1>2 DEF SyncInv

\* A step that changes no slot, no handler and no credential a connection shows.
LEMMA SlotsKept ==
    ASSUME Registry, SyncTypeOK, UNCHANGED registryVars,
           \A c \in Conns : ServedHere(c)' <=> ServedHere(c),
           \A c \in Conns : ServedHere(c) => conn'[c].local = conn[c].local
    PROVE  Registry'
  <1>1. current' = current /\ draining' = draining /\ credential' = credential
    BY DEF registryVars
  <1>2. current # 0 => current \in Conns /\ ServedHere(current)
    BY DEF SyncTypeOK, Registry, SlotsSound, ServedHere
  <1>3. draining # 0 => draining \in Conns /\ ServedHere(draining)
    BY DEF SyncTypeOK, Registry, SlotsSound, ServedHere
  <1>4. /\ current # 0 => conn'[current].local = conn[current].local
        /\ draining # 0 => conn'[draining].local = conn[draining].local
    BY <1>2, <1>3
  <1>5. \A c \in {current, draining} \ {0} : ServedHere(c)'
    BY <1>2, <1>3
  <1>6. \A c \in Conns : ServedHere(c)' => c \in {current, draining}
    BY DEF Registry, SlotsSound, ServedHere
  <1>7. SlotsSound'
    BY <1>1, <1>4, <1>5, <1>6 DEF Registry, SlotsSound, ServedHere, Older
  <1>. QED
    BY <1>1, <1>4, <1>7 DEF Registry

LEMMA RegisterConnSound ==
    ASSUME SyncInv, NEW c \in Conns, RegisterConn(c)
    PROVE  SyncInv'
  <1>. USE DEF SyncInv
  <1>1. 0 \notin Conns
    BY DEF Conns
  <1>2. conn \in [Conns -> Links] /\ current \in Conns \cup {0} /\ draining \in Conns \cup {0} /\ credential \in Nat
    BY DEF SyncTypeOK
  <1>3. c # current /\ c # draining
    BY <1>1 DEF RegisterConn, Registry, SlotsSound
  <1>4. /\ conn' \in [Conns -> Links]
        /\ conn'[c].handler = "serving" /\ conn'[c].local = conn[c].local
        /\ \A d \in Conns \ {c} :
             conn'[d] = IF d = current THEN [conn[d] EXCEPT !.handler = "draining"] ELSE conn[d]
    <2>. DEFINE cs == Drained(conn)
    <2>1. /\ cs \in [Conns -> Links]
          /\ \A d \in Conns : cs[d] = IF d = current THEN [conn[d] EXCEPT !.handler = "draining"] ELSE conn[d]
      BY <1>2 DEF Drained, Links
    <2>2. cs[c] = conn[c]
      BY <1>3, <2>1
    <2>3. conn' = [cs EXCEPT ![c].handler = "serving", ![c].client = "ready"]
      BY DEF RegisterConn
    <2>. HIDE DEF cs
    <2>4. conn' = [cs EXCEPT ![c] = [conn[c] EXCEPT !.handler = "serving", !.client = "ready"]]
      BY <2>1, <2>2, <2>3
    <2>5. /\ [conn[c] EXCEPT !.handler = "serving", !.client = "ready"] \in Links
          /\ [conn[c] EXCEPT !.handler = "serving", !.client = "ready"].handler = "serving"
          /\ [conn[c] EXCEPT !.handler = "serving", !.client = "ready"].local = conn[c].local
      BY <1>2 DEF Links
    <2>. QED
      BY <2>1, <2>4, <2>5
  <1>5. \A d \in Conns \ {c} :
          /\ conn'[d].local = conn[d].local
          /\ conn'[d].handler = IF d = current THEN "draining" ELSE conn[d].handler
    BY <1>2, <1>4 DEF Links
  <1>6. SyncTypeOK'
    BY <1>2, <1>4 DEF RegisterConn, SyncTypeOK, Links
  <1>7. /\ current' = c /\ credential' = conn[c].local /\ conn[c].local \in Nat
        /\ conn[c].local >= credential
        /\ current # 0 => draining = 0 /\ draining' = current
        /\ current = 0 => draining' = draining
    BY <1>2 DEF RegisterConn, Superseded, ControlRoom, Links
  <1>8. \A d \in Conns : conn[d].local \in Nat
    BY <1>2 DEF Links
  <1>9. Registry'
    <2>1. draining' # 0 => /\ draining' \in Conns \ {c} /\ conn[draining'].local <= credential
                           /\ conn'[draining'].handler \in {"serving", "draining"}
      BY <1>2, <1>3, <1>5, <1>7, <1>8 DEF Registry, SlotsSound
    <2>2. draining' # 0 => conn'[draining'].local <= credential'
      BY <1>2, <1>5, <1>7, <1>8, <2>1
    <2>3. \A d \in Conns : conn'[d].handler \in {"serving", "draining"} => d \in {current', draining'}
      BY <1>1, <1>2, <1>4, <1>5, <1>7 DEF Registry, SlotsSound
    <2>4. \A d \in {current', draining'} \ {0} : conn'[d].handler \in {"serving", "draining"}
      BY <1>4, <1>7, <2>1
    <2>5. current' # 0 /\ draining' # 0 => current' # draining' /\ ~Older(current, draining)'
      BY <1>4, <1>5, <1>7, <1>8, <2>1, <2>2 DEF Older
    <2>. QED
      BY <1>4, <1>7, <2>2, <2>3, <2>4, <2>5 DEF Registry, SlotsSound
  <1>. QED
    BY <1>6, <1>9

LEMMA EndConnectionSound ==
    ASSUME SyncInv, NEW c \in Conns, EndConnection(c)
    PROVE  SyncInv'
  <1>. USE DEF SyncInv
  <1>1. /\ conn \in [Conns -> Links] /\ 0 \notin Conns
        /\ current \in Conns \cup {0} /\ draining \in Conns \cup {0}
    BY DEF SyncTypeOK, Conns
  <1>. DEFINE x == [conn[c] EXCEPT !.handler = "gone", !.stream = "no", !.changed = FALSE,
                                   !.client = IF @ = "shut" THEN @ ELSE "failed"]
  <1>2. x \in Links /\ x.handler = "gone"
    BY <1>1 DEF Links
  <1>3. conn' = [conn EXCEPT ![c] = x]
    BY <1>1 DEF EndConnection
  <1>. HIDE DEF x
  <1>4. conn' \in [Conns -> Links] /\ conn'[c] = x /\ \A d \in Conns \ {c} : conn'[d] = conn[d]
    BY <1>1, <1>2, <1>3
  <1>5. /\ current' = (IF current = c THEN 0 ELSE current)
        /\ draining' = (IF draining = c THEN 0 ELSE draining)
        /\ credential' = credential
    BY DEF EndConnection
  <1>6. SyncTypeOK'
    BY <1>4, <1>5 DEF EndConnection, SyncTypeOK
  <1>7. /\ current' # 0 => current' = current /\ current \in Conns \ {c}
        /\ draining' # 0 => draining' = draining /\ draining \in Conns \ {c}
    BY <1>1, <1>5
  <1>8. \A d \in Conns : conn'[d].handler \in {"serving", "draining"} => d \in {current', draining'}
    BY <1>2, <1>4, <1>5 DEF Registry, SlotsSound
  <1>9. Registry'
    BY <1>4, <1>5, <1>7, <1>8 DEF Registry, SlotsSound, Older
  <1>. QED
    BY <1>6, <1>9

\* A step that leaves the slots alone and at most one connection's handler and
\* credential: that connection was in no slot and takes none.
LEMMA OneLink ==
    ASSUME SyncInv, NEW c \in Conns, NEW x \in Links,
           conn' = [conn EXCEPT ![c] = x], UNCHANGED registryVars,
           \/ x.handler = conn[c].handler /\ x.local = conn[c].local
           \/ ~ServedHere(c) /\ x.handler \notin {"serving", "draining"}
    PROVE  Registry' /\ conn' \in [Conns -> Links]
  <1>1. conn \in [Conns -> Links] /\ SyncTypeOK /\ Registry
    BY DEF SyncInv, SyncTypeOK
  <1>2. conn' \in [Conns -> Links] /\ conn'[c] = x /\ \A d \in Conns \ {c} : conn'[d] = conn[d]
    BY <1>1
  <1>3. \A d \in Conns : ServedHere(d)' <=> ServedHere(d)
    BY <1>2 DEF ServedHere
  <1>4. \A d \in Conns : ServedHere(d) => conn'[d].local = conn[d].local
    BY <1>2
  <1>. QED
    BY <1>1, <1>2, <1>3, <1>4, SlotsKept

\* The same for every connection at once.
LEMMA AllLinks ==
    ASSUME SyncInv, conn' \in [Conns -> Links], UNCHANGED registryVars,
           \A c \in Conns : conn'[c].handler = conn[c].handler /\ conn'[c].local = conn[c].local
    PROVE  Registry'
  <1>1. \A d \in Conns : ServedHere(d)' <=> ServedHere(d)
    BY DEF ServedHere
  <1>. QED
    BY <1>1, SlotsKept DEF SyncInv

\* Steps of the server that touch one connection and no slot.
LEMMA ServerSound ==
    ASSUME SyncInv, NEW c \in Conns,
           \/ Refuse(c) \/ SubscribeStream(c) \/ SendWatermark(c) \/ ReceiveWatermark(c) \/ Break(c)
    PROVE  SyncInv'
  <1>1. conn \in [Conns -> Links] /\ conn[c] \in Links /\ head \in Nat /\ SyncTypeOK
    BY DEF SyncInv, SyncTypeOK
  <1>2. UNCHANGED registryVars
    BY DEF Refuse, SubscribeStream, SendWatermark, ReceiveWatermark, Break
  <1>3. PICK x \in Links :
           /\ conn' = [conn EXCEPT ![c] = x]
           /\ \/ x.handler = conn[c].handler /\ x.local = conn[c].local
              \/ ~ServedHere(c) /\ x.handler \notin {"serving", "draining"}
    <2>1. CASE Refuse(c)
      <3>. DEFINE x == [conn[c] EXCEPT !.handler = "gone", !.client = "failed"]
      <3>1. x \in Links /\ x.handler = "gone" /\ ~ServedHere(c)
        BY <1>1, <2>1 DEF Links, Refuse, ServedHere
      <3>. QED
        BY <1>1, <2>1, <3>1 DEF Refuse
    <2>2. CASE SubscribeStream(c)
      <3>. DEFINE x == [conn[c] EXCEPT !.stream = "subscribed", !.changed = TRUE]
      <3>1. x \in Links /\ x.handler = conn[c].handler /\ x.local = conn[c].local
        BY <1>1 DEF Links
      <3>. QED
        BY <1>1, <2>2, <3>1 DEF SubscribeStream
    <2>3. CASE SendWatermark(c)
      <3>. DEFINE f == IF conn[c].stream = "subscribed" \/ head > conn[c].sent THEN head + 1 ELSE conn[c].frame
                  x == [conn[c] EXCEPT !.stream = "flowing", !.changed = FALSE, !.sent = head, !.frame = f]
      <3>1. f \in Nat
        BY <1>1 DEF Links
      <3>2. conn' = [conn EXCEPT ![c] = x]
        BY <1>1, <2>3 DEF SendWatermark
      <3>. HIDE DEF f
      <3>3. x \in Links /\ x.handler = conn[c].handler /\ x.local = conn[c].local
        BY <1>1, <3>1 DEF Links
      <3>. QED
        BY <3>2, <3>3
    <2>4. CASE ReceiveWatermark(c)
      <3>. DEFINE x == [conn[c] EXCEPT !.frame = 0]
      <3>1. x \in Links /\ x.handler = conn[c].handler /\ x.local = conn[c].local
        BY <1>1 DEF Links
      <3>. QED
        BY <1>1, <2>4, <3>1 DEF ReceiveWatermark, With
    <2>5. CASE Break(c)
      <3>. DEFINE x == [conn[c] EXCEPT !.client = "failed", !.frame = 0]
      <3>1. x \in Links /\ x.handler = conn[c].handler /\ x.local = conn[c].local
        BY <1>1 DEF Links
      <3>. QED
        BY <1>1, <2>5, <3>1 DEF Break
    <2>. QED
      BY <2>1, <2>2, <2>3, <2>4, <2>5
  <1>4. Registry' /\ conn' \in [Conns -> Links]
    BY <1>2, <1>3, OneLink
  <1>5. SyncTypeOK'
    <2>1. CASE ReceiveWatermark(c)
      <3>1. conn[c].frame - 1 \in Nat
        BY <1>1, <2>1 DEF ReceiveWatermark, Links
      <3>. QED
        BY <1>2, <1>4, <2>1, <3>1 DEF ReceiveWatermark, SyncInv, SyncTypeOK, registryVars
    <2>2. CASE Break(c)
      <3>1. spent' \in [breaks : Nat, changes : Nat]
        BY <1>1, <2>2 DEF Break, Unspent, SyncTypeOK
      <3>. QED
        BY <1>2, <1>4, <2>2, <3>1 DEF Break, SyncInv, SyncTypeOK, registryVars
    <2>3. CASE Refuse(c) \/ SubscribeStream(c) \/ SendWatermark(c)
      BY <1>1, <1>2, <1>4, <2>3 DEF Refuse, SubscribeStream, SendWatermark, SyncTypeOK, registryVars
    <2>. QED
      BY <2>1, <2>2, <2>3
  <1>. QED
    BY <1>4, <1>5 DEF SyncInv

\* What the worker does to a connection it gives up.
LEMMA HungKeeps ==
    ASSUME NEW cs \in [Conns -> Links], NEW c \in Conns \cup {0}
    PROVE  /\ Hung(c, cs) \in [Conns -> Links]
           /\ \A d \in Conns : Hung(c, cs)[d].handler = cs[d].handler /\ Hung(c, cs)[d].local = cs[d].local
  <1>1. CASE c = 0
    BY <1>1 DEF Hung
  <1>2. CASE c # 0
    <2>. DEFINE x == [cs[c] EXCEPT !.client = "shut", !.frame = 0]
    <2>1. x \in Links /\ x.handler = cs[c].handler /\ x.local = cs[c].local
      BY <1>2 DEF Links
    <2>2. Hung(c, cs) = [cs EXCEPT ![c] = x]
      BY <1>2 DEF Hung
    <2>. QED
      BY <1>2, <2>1, <2>2
  <1>. QED
    BY <1>1, <1>2

LEMMA DialPeerSound ==
    ASSUME SyncInv, DialPeer
    PROVE  SyncInv'
  <1>1. PICK c \in Conns :
          /\ NextConn(c)
          /\ worker' = [worker EXCEPT !.spare = c]
          /\ conn' = [conn EXCEPT ![c].client = "open", ![c].handler = "fresh",
                                  ![c].local = epoch.local, ![c].remote = epoch.remote]
    BY DEF DialPeer
  <1>2. conn \in [Conns -> Links] /\ conn[c] \in Links /\ epoch.local \in Nat /\ epoch.remote \in Nat /\ SyncTypeOK
    BY DEF SyncInv, SyncTypeOK, Epochs
  <1>. DEFINE x == [conn[c] EXCEPT !.client = "open", !.handler = "fresh",
                                   !.local = epoch.local, !.remote = epoch.remote]
  <1>3. x \in Links /\ x.handler = "fresh"
    BY <1>2 DEF Links
  <1>4. conn' = [conn EXCEPT ![c] = x] /\ ~ServedHere(c) /\ UNCHANGED registryVars
    BY <1>1, <1>2 DEF NextConn, Unused, ServedHere, DialPeer
  <1>. HIDE DEF x
  <1>5. Registry' /\ conn' \in [Conns -> Links]
    BY <1>3, <1>4, OneLink
  <1>6. SyncTypeOK'
    BY <1>1, <1>2, <1>5 DEF DialPeer, SyncTypeOK, registryVars
  <1>. QED
    BY <1>5, <1>6 DEF SyncInv

LEMMA WorkerSound ==
    ASSUME SyncInv, Reconcile \/ Connected \/ DialFailed \/ LoseConnection \/ NoticeAdvance
    PROVE  SyncInv'
  <1>1. /\ SyncTypeOK /\ conn \in [Conns -> Links] /\ 0 \notin Conns
        /\ worker \in [stage : {"off", "dial", "maintain", "replace"}, conn : Conns \cup {0}, spare : Conns \cup {0}]
    BY DEF SyncInv, SyncTypeOK, Conns
  <1>2. /\ UNCHANGED registryVars
        /\ UNCHANGED <<member, epoch, head, synced, spent>>
    BY DEF Reconcile, Connected, DialFailed, LoseConnection, NoticeAdvance
  <1>3. /\ wake' \in BOOLEAN /\ seen' \in Nat /\ target' \in Nat
        /\ worker' \in [stage : {"off", "dial", "maintain", "replace"}, conn : Conns \cup {0}, spare : Conns \cup {0}]
    <2>1. CASE Reconcile
      BY <1>1, <2>1 DEF Reconcile, Off, SyncTypeOK
    <2>2. CASE Connected
      BY <1>1, <2>2 DEF Connected, SyncTypeOK
    <2>3. CASE DialFailed
      BY <1>1, <2>3 DEF DialFailed, SyncTypeOK
    <2>4. CASE LoseConnection
      BY <1>1, <2>4 DEF LoseConnection, Off, SyncTypeOK
    <2>5. CASE NoticeAdvance
      BY <1>1, <2>5 DEF NoticeAdvance, SyncTypeOK
    <2>. QED
      BY <2>1, <2>2, <2>3, <2>4, <2>5
  <1>4. /\ conn' \in [Conns -> Links]
        /\ \A c \in Conns : conn'[c].handler = conn[c].handler /\ conn'[c].local = conn[c].local
    <2>. DEFINE cs == Hung(worker.conn, conn)
    <2>1. /\ cs \in [Conns -> Links] /\ worker.conn \in Conns \cup {0} /\ worker.spare \in Conns \cup {0}
          /\ \A d \in Conns : cs[d].handler = conn[d].handler /\ cs[d].local = conn[d].local
      BY <1>1, HungKeeps
    <2>. HIDE DEF cs
    <2>2. /\ Hung(worker.spare, cs) \in [Conns -> Links]
          /\ \A d \in Conns : /\ Hung(worker.spare, cs)[d].handler = cs[d].handler
                              /\ Hung(worker.spare, cs)[d].local = cs[d].local
      BY <2>1, HungKeeps
    <2>3. \A w \in Conns, v \in {"no", "asked", "subscribed", "flowing"}, bs \in [Conns -> Links] :
            LET n == [bs EXCEPT ![w].stream = v]
            IN  /\ n \in [Conns -> Links]
                /\ \A d \in Conns : n[d].handler = bs[d].handler /\ n[d].local = bs[d].local
      BY DEF Links
    <2>4. CASE Reconcile
      BY <1>1, <2>1, <2>2, <2>4 DEF Reconcile, cs
    <2>5. CASE Connected
      BY <2>1, <2>3, <2>5 DEF Connected, cs
    <2>6. CASE DialFailed
      <3>1. worker.conn # 0 => conn[worker.conn].stream \in {"no", "asked", "subscribed", "flowing"}
        BY <1>1, <2>1 DEF Links
      <3>2. \/ conn' = conn
            \/ worker.conn # 0 /\ conn' = [conn EXCEPT ![worker.conn].stream = "asked"]
            \/ worker.conn # 0 /\ conn' = [conn EXCEPT ![worker.conn].stream = conn[worker.conn].stream]
        BY <1>1, <2>1, <2>6 DEF DialFailed
      <3>3. ASSUME worker.conn # 0, NEW v \in {"no", "asked", "subscribed", "flowing"},
                   conn' = [conn EXCEPT ![worker.conn].stream = v]
            PROVE  /\ conn' \in [Conns -> Links]
                   /\ \A c \in Conns : conn'[c].handler = conn[c].handler /\ conn'[c].local = conn[c].local
        <4>1. worker.conn \in Conns
          BY <2>1, <3>3
        <4>. QED
          BY <1>1, <2>3, <3>3, <4>1
      <3>4. CASE worker.conn = 0
        BY <1>1, <3>2, <3>4
      <3>. QED
        BY <1>1, <3>1, <3>2, <3>3, <3>4
    <2>7. CASE LoseConnection
      BY <2>1, <2>7 DEF LoseConnection, cs
    <2>8. CASE NoticeAdvance
      <3>1. CASE worker.conn = 0
        BY <1>1, <2>8, <3>1 DEF NoticeAdvance
      <3>2. CASE worker.conn # 0
        <4>. DEFINE w == worker.conn
                    x == [conn[w] EXCEPT !.stream = "no", !.changed = FALSE, !.frame = 0]
        <4>1. w \in Conns /\ conn[w] \in Links
          BY <1>1, <2>1, <3>2
        <4>2. x \in Links /\ x.handler = conn[w].handler /\ x.local = conn[w].local
          BY <4>1 DEF Links
        <4>3. conn' = [conn EXCEPT ![w] = x]
          BY <1>1, <2>8, <4>1 DEF NoticeAdvance
        <4>. QED
          BY <1>1, <4>1, <4>2, <4>3
      <3>. QED
        BY <3>1, <3>2
    <2>. QED
      BY <2>4, <2>5, <2>6, <2>7, <2>8
  <1>5. Registry'
    BY <1>2, <1>4, AllLinks
  <1>6. SyncTypeOK'
    BY <1>1, <1>2, <1>3, <1>4 DEF SyncTypeOK, registryVars
  <1>. QED
    BY <1>5, <1>6 DEF SyncInv

LEMMA OthersSound ==
    ASSUME SyncInv,
           \/ BeginSync \/ EndSync \/ ApplyResult \/ ChangeMembership
           \/ \E side \in {"local", "remote"} : Renew(side)
    PROVE  SyncInv'
  <1>1. SyncTypeOK /\ conn \in [Conns -> Links] /\ head \in Nat
    BY DEF SyncInv, SyncTypeOK
  <1>2. UNCHANGED registryVars /\ UNCHANGED worker
    BY DEF BeginSync, EndSync, ApplyResult, ChangeMembership, Renew
  <1>3. /\ conn' \in [Conns -> Links]
        /\ \A c \in Conns : conn'[c].handler = conn[c].handler /\ conn'[c].local = conn[c].local
    <2>1. CASE ApplyResult
      <3>1. \A c \in Conns : conn'[c] = conn[c] \/ conn'[c] = [conn[c] EXCEPT !.changed = TRUE]
        BY <2>1 DEF ApplyResult
      <3>2. ASSUME NEW c \in Conns
            PROVE  /\ conn'[c] \in Links /\ conn'[c].handler = conn[c].handler
                   /\ conn'[c].local = conn[c].local
        <4>1. conn[c] \in Links
          BY <1>1
        <4>2. CASE conn'[c] = conn[c]
          BY <4>1, <4>2
        <4>3. CASE conn'[c] = [conn[c] EXCEPT !.changed = TRUE]
          BY <4>1, <4>3 DEF Links
        <4>. QED
          BY <3>1, <4>2, <4>3
      <3>3. conn' = [c \in Conns |-> conn'[c]]
        BY <2>1 DEF ApplyResult
      <3>. QED
        BY <3>2, <3>3
    <2>2. CASE ~ApplyResult
      BY <1>1, <2>2 DEF BeginSync, EndSync, ChangeMembership, Renew
    <2>. QED
      BY <2>1, <2>2
  <1>4. Registry'
    BY <1>2, <1>3, AllLinks
  <1>5. SyncTypeOK'
    <2>1. CASE BeginSync
      <3>1. target' \in Nat /\ wake' = FALSE
        BY <1>1, <2>1 DEF BeginSync, SyncTypeOK
      <3>. QED
        BY <1>1, <1>2, <1>3, <2>1, <3>1 DEF BeginSync, SyncTypeOK, registryVars
    <2>2. CASE EndSync
      <3>1. synced' \in Nat
        BY <1>1, <2>2 DEF EndSync, SyncTypeOK
      <3>. QED
        BY <1>1, <1>2, <1>3, <2>2, <3>1 DEF EndSync, SyncTypeOK, registryVars
    <2>3. CASE ApplyResult
      BY <1>1, <1>2, <1>3, <2>3 DEF ApplyResult, SyncTypeOK, registryVars
    <2>4. CASE ChangeMembership
      <3>1. spent' \in [breaks : Nat, changes : Nat]
        BY <1>1, <2>4 DEF ChangeMembership, Unspent, SyncTypeOK
      <3>2. member' \in BOOLEAN
        BY <2>4 DEF ChangeMembership
      <3>. QED
        BY <1>1, <1>2, <1>3, <2>4, <3>1, <3>2 DEF ChangeMembership, SyncTypeOK, registryVars
    <2>5. CASE \E side \in {"local", "remote"} : Renew(side)
      <3>1. epoch' \in [local : Epochs, remote : Epochs]
        BY <1>1, <2>5, SyncConstants DEF Renew, Epochs, SyncTypeOK
      <3>. QED
        BY <1>1, <1>2, <1>3, <2>5, <3>1 DEF Renew, SyncTypeOK, registryVars
    <2>. QED
      BY <2>1, <2>2, <2>3, <2>4, <2>5
  <1>. QED
    BY <1>4, <1>5 DEF SyncInv

LEMMA SyncStepSound == SyncInv /\ [SyncNext]_syncVars => SyncInv'
  <1>. SUFFICES ASSUME SyncInv, [SyncNext]_syncVars PROVE SyncInv'
    OBVIOUS
  <1>1. CASE UNCHANGED syncVars
    BY <1>1 DEF syncVars, registryVars, SyncInv, SyncTypeOK, Registry, SlotsSound, Older
  <1>2. CASE WorkerStep \/ NoticeAdvance
    BY <1>2, WorkerSound, DialPeerSound, OthersSound DEF WorkerStep
  <1>3. CASE ApplyResult \/ ChangeMembership \/ \E side \in {"local", "remote"} : Renew(side)
    BY <1>3, OthersSound
  <1>4. ASSUME NEW c \in Conns, ServerStep(c) \/ ReceiveWatermark(c) \/ Break(c)
        PROVE  SyncInv'
    BY <1>4, RegisterConnSound, EndConnectionSound, ServerSound DEF ServerStep
  <1>. QED
    BY <1>1, <1>2, <1>3, <1>4 DEF SyncNext

THEOREM SyncInvariant == SyncSpec => []SyncInv
  BY SyncInitSound, SyncStepSound, PTL DEF SyncSpec

\* The worker, the registry and every connection keep their types.
THEOREM SyncTypeCorrect == SyncSpec => []SyncTypeOK
  <1>1. SyncInv => SyncTypeOK
    BY DEF SyncInv
  <1>. QED
    BY <1>1, SyncInvariant, PTL

\* contentConnectionRegistry: over any number of dials, renewals, replacements and lost
\* connections the peer serves at most the connection in the current slot and the one
\* that drains, and the current one never shows the older credential.
THEOREM SlotsAreSound == SyncSpec => []SlotsSound
  <1>1. SyncInv => SlotsSound
    BY DEF SyncInv, Registry
  <1>. QED
    BY <1>1, SyncInvariant, PTL
-----------------------------------------------------------------------------
(* Artifacts.  What an artifact is worth rests on the registry: what is    *)
(* handed out or transferred is registered or retired, only what is        *)
(* retired and in nobody's hands is removed, and every directory that was  *)
(* promoted is registered, retired or about to be registered while the     *)
(* daemon runs.                                                            *)

PublisherStages == {"idle", "force", "admit", "build", "promote", "register", "fatal"}
Building == {"admit", "build", "promote", "register"}

ArtifactTypeOK ==
    /\ lifecycle \in {"up", "closing", "down", "loading", "failed"}
    /\ disk \in [Ids -> {"none", "staged", "whole", "parts"}]
    /\ artifacts \subseteq Ids /\ retired \subseteq Ids /\ handoff \subseteq Ids
    /\ cleaning \in [Ids -> {"no", "queued", "removing"}]
    /\ publisher \in [stage : PublisherStages, id : 0 .. MaxArtifacts]
    /\ forced \in 0 .. MaxArtifacts
    /\ bulk \in [Receivers -> 0 .. MaxArtifacts]

Finals == {i \in Ids : disk[i] \in {"whole", "parts"}}

\* The artifact that is being published takes its place before it is there.
InTheMaking == IF publisher.stage \in {"build", "promote", "register", "fatal"}
           THEN {publisher.id} \cap Ids ELSE {}
Places == artifacts \cup retired \cup InTheMaking

Whole ==
    /\ handoff \subseteq artifacts
    /\ artifacts \cap retired = {}
    /\ \A i \in artifacts : disk[i] = "whole"
    /\ \A r \in Receivers : bulk[r] # 0 => disk[bulk[r]] = "whole"

\* Whatever is being removed is retired and nobody reads it.
RemovedUnread ==
    \A i \in Ids : cleaning[i] # "no" => i \in retired /\ \A r \in Receivers : bulk[r] # i

\* Numbers are used once, and the one in the making is nobody's yet.
Unclaimed(i) == i \notin artifacts \cup retired /\ \A r \in Receivers : bulk[r] # i
Numbered ==
    /\ \A i \in Ids : i > forced => disk[i] = "none" /\ Unclaimed(i)
    /\ publisher.stage \in Building => publisher.id \in Ids /\ publisher.id <= forced /\ Unclaimed(publisher.id)
    /\ publisher.stage = "force" => forced < MaxArtifacts
    /\ publisher.stage = "register" => disk[publisher.id] = "whole"

\* Nothing is registered while the daemon is down, and nothing published unless it is up.
Stopped ==
    /\ lifecycle # "up" => publisher = Dormant
    /\ lifecycle \in {"down", "failed"} =>
          /\ artifacts = {} /\ retired = {} /\ handoff = {}
          /\ \A i \in Ids : cleaning[i] = "no"
          /\ \A r \in Receivers : bulk[r] = 0
    /\ lifecycle = "loading" => handoff = {} /\ \A r \in Receivers : bulk[r] = 0

Placed ==
    /\ Cardinality(Finals) <= Retention + 1
    /\ lifecycle \in {"up", "loading"} =>
          Finals \subseteq Places /\ Cardinality(Places) <= Retention + 1

ArtifactInv ==
    ArtifactTypeOK /\ Whole /\ RemovedUnread /\ Numbered /\ Stopped /\ Placed

----------------------------------------------------------------------------

LEMMA IdsFinite ==
    ASSUME NEW S \in SUBSET Ids, NEW T \in SUBSET S
    PROVE  /\ IsFiniteSet(S) /\ Cardinality(S) \in Nat
           /\ Cardinality(T) \in Nat /\ Cardinality(T) <= Cardinality(S)
  <1>1. IsFiniteSet(Ids)
    <2>1. MaxArtifacts \in Int
      BY ArtifactConstants
    <2> QED BY <2>1, FS_Interval DEF Ids
  <1>2. IsFiniteSet(S) /\ IsFiniteSet(T)
    BY <1>1, FS_Subset
  <1> QED BY <1>2, FS_Subset, FS_CardinalityType

(* There is a latest snapshot (newerDaemonSnapshot).                       *)
LEMMA LatestRegistered ==
    ASSUME artifacts \subseteq Ids, artifacts # {}
    PROVE  LatestSnapshot \in artifacts
  <1> DEFINE T == {MaxArtifacts - i : i \in artifacts}
             R == {ss \in Nat \X Nat : ss[1] < ss[2]}
  <1>1. MaxArtifacts \in Nat
    BY ArtifactConstants DEF ArtifactConstants
  <1>2. T \subseteq Nat /\ T # {}
    <2>1. ASSUME NEW i \in artifacts PROVE MaxArtifacts - i \in Nat
      <3>1. i \in 1 .. MaxArtifacts BY DEF Ids
      <3> QED BY <1>1, <3>1
    <2>2. T # {} OBVIOUS
    <2> QED BY <2>1, <2>2
  <1>3. PICK m \in T : \A n \in T : ~(<<n, m>> \in R)
    <2>1. IsWellFoundedOn(R, Nat) BY NatLessThanWellFounded DEF OpToRel
    <2> HIDE DEF R, T
    <2> QED BY <1>2, <2>1, WFMin
  <1>4. ASSUME NEW n \in T PROVE ~(n < m)
    <2>1. n \in Nat /\ m \in Nat BY <1>2, <1>3
    <2>2. n < m => <<n, m>> \in R BY <2>1
    <2> HIDE DEF R, T
    <2> QED BY <1>3, <2>2
  <1>5. PICK i \in artifacts : m = MaxArtifacts - i
    OBVIOUS
  <1>6. \A j \in artifacts : j <= i
    <2>1. SUFFICES ASSUME NEW j \in artifacts PROVE j <= i OBVIOUS
    <2>2. ~(MaxArtifacts - j < m) BY <1>4
    <2> QED BY <1>1, <1>5, <2>2 DEF Ids
  <1> QED BY <1>6 DEF LatestSnapshot

(* A scheduled prune moves artifacts to the retired ones, except what is   *)
(* kept, and queues what nobody reads (scheduleSnapshotPrune).             *)
LEMMA PruneKeeps ==
    ASSUME ArtifactTypeOK, RemovedUnread,
           NEW s \in SUBSET Ids, NEW kept \in SUBSET s, s \cap retired = {},
           Prune(s, kept)
    PROVE  /\ artifacts' \subseteq s /\ artifacts' \cup retired' = s \cup retired
           /\ kept \subseteq artifacts' /\ artifacts' \cap retired' = {}
           /\ cleaning' \in [Ids -> {"no", "queued", "removing"}]
           /\ \A i \in Ids : cleaning'[i] # "no" =>
                 i \in retired' /\ \A r \in Receivers : bulk[r] # i
  <1> DEFINE gone == retired \cup Retire(s, kept)
  <1>1. /\ artifacts' = s \ Retire(s, kept) /\ retired' = gone
        /\ cleaning' = [i \in Ids |-> IF i \in gone /\ Removable(i) THEN "queued" ELSE cleaning[i]]
    BY DEF Prune
  <1>2. Retire(s, kept) \subseteq s /\ Retire(s, kept) \cap kept = {}
    BY DEF Retire, Surplus
  <1> HIDE DEF gone
  <1>3. cleaning' \in [Ids -> {"no", "queued", "removing"}]
    BY <1>1 DEF ArtifactTypeOK
  <1>4. ASSUME NEW i \in Ids, Removable(i), NEW r \in Receivers PROVE bulk[r] # i
    <2>1. Cardinality({q \in Receivers : bulk[q] = i}) = 0
      BY <1>4 DEF Removable, Transfers
    <2>2. IsFiniteSet({q \in Receivers : bulk[q] = i})
      BY FS_Subset, ArtifactConstants DEF ArtifactConstants
    <2>3. {q \in Receivers : bulk[q] = i} = {}
      BY <2>1, <2>2, FS_EmptySet
    <2> QED BY <2>3
  <1>5. ASSUME NEW i \in Ids, cleaning'[i] # "no"
        PROVE  i \in retired' /\ \A r \in Receivers : bulk[r] # i
    <2>1. CASE i \in gone /\ Removable(i)
      BY <1>1, <1>4, <2>1
    <2>2. CASE ~(i \in gone /\ Removable(i))
      <3>1. cleaning[i] # "no" BY <1>1, <1>5, <2>2
      <3>2. i \in retired BY <3>1 DEF RemovedUnread
      <3> QED BY <1>1, <3>1, <3>2 DEF RemovedUnread, gone
    <2> QED BY <2>1, <2>2
  <1> QED BY <1>1, <1>2, <1>3, <1>5 DEF gone

(* The same for a step that prunes, removes no directory and leaves the    *)
(* readers alone; the places are kept.                                     *)
LEMMA PruneStep ==
    ASSUME ArtifactInv, lifecycle = "up", NEW s \in SUBSET Ids, NEW kept \in SUBSET s,
           \/ publisher' = publisher /\ s = artifacts
           \/ publisher' = Dormant /\ s = artifacts \cup InTheMaking,
           s \cap retired = {}, \A i \in s : disk[i] = "whole" /\ i <= forced,
           Prune(s, kept), handoff' = kept,
           UNCHANGED <<lifecycle, disk, forced, bulk>>
    PROVE  ArtifactInv'
  <1>1. /\ artifacts' \subseteq s /\ artifacts' \cup retired' = s \cup retired
        /\ kept \subseteq artifacts' /\ artifacts' \cap retired' = {}
        /\ cleaning' \in [Ids -> {"no", "queued", "removing"}]
        /\ \A i \in Ids : cleaning'[i] # "no" =>
              i \in retired' /\ \A r \in Receivers : bulk[r] # i
    BY PruneKeeps DEF ArtifactInv
  <1>2. ArtifactTypeOK /\ Whole /\ Numbered /\ Stopped /\ Placed
    BY DEF ArtifactInv
  <1>3. ArtifactTypeOK'
    <2>1. Dormant \in [stage : PublisherStages, id : 0 .. MaxArtifacts]
      BY ArtifactConstants DEF Dormant, PublisherStages, ArtifactConstants
    <2> QED BY <1>1, <1>2, <2>1 DEF ArtifactTypeOK
  <1>4. Whole' BY <1>1, <1>2 DEF Whole
  <1>5. RemovedUnread' BY <1>1 DEF RemovedUnread
  <1>6. Placed'
    <2>1. Places' = Places
      BY <1>1 DEF Places, InTheMaking, Dormant
    <2>2. Finals' = Finals BY DEF Finals
    <2> QED BY <1>2, <2>1, <2>2 DEF Placed
  <1>7. Stopped'
    BY <1>2 DEF Stopped
  <1>8. Numbered'
    <2>1. \A i \in Ids : i > forced => Unclaimed(i)'
      <3>1. SUFFICES ASSUME NEW i \in Ids, i > forced PROVE Unclaimed(i)'
        OBVIOUS
      <3>2. Unclaimed(i) BY <1>2, <3>1 DEF Numbered
      <3>3. i \notin s
        BY <3>1, ArtifactConstants DEF Ids, ArtifactConstants, ArtifactInv, ArtifactTypeOK
      <3> QED BY <1>1, <3>2, <3>3 DEF Unclaimed
    <2>2. CASE publisher' = publisher /\ s = artifacts
      <3>1. publisher.stage \in Building => Unclaimed(publisher.id)'
        BY <1>1, <1>2, <2>2 DEF Numbered, Unclaimed
      <3> QED BY <1>2, <2>1, <2>2, <3>1 DEF Numbered
    <2>3. CASE publisher' = Dormant
      BY <1>2, <2>1, <2>3 DEF Numbered, Dormant, Building
    <2> QED BY <2>2, <2>3
  <1> QED BY <1>3, <1>4, <1>5, <1>6, <1>7, <1>8 DEF ArtifactInv

LEMMA RegistryFacts ==
    ASSUME ArtifactInv
    PROVE  /\ artifacts \subseteq Ids /\ retired \subseteq Ids
           /\ artifacts \cap retired = {} /\ handoff \subseteq artifacts
           /\ \A i \in artifacts : disk[i] = "whole" /\ i <= forced
           /\ forced \in Nat /\ MaxArtifacts \in Nat
  <1>1. MaxArtifacts \in Nat /\ forced \in Nat /\ artifacts \subseteq Ids /\ retired \subseteq Ids
    BY ArtifactConstants DEF ArtifactConstants, ArtifactInv, ArtifactTypeOK
  <1>2. \A i \in artifacts : i <= forced
    <2>1. SUFFICES ASSUME NEW i \in artifacts, i > forced PROVE FALSE
      BY <1>1 DEF Ids
    <2> QED BY <1>1, <2>1 DEF ArtifactInv, Numbered, Unclaimed
  <1> QED BY <1>1, <1>2 DEF ArtifactInv, Whole

LEMMA ConsiderStep == ASSUME ArtifactInv, Consider PROVE ArtifactInv'
  <1>0. /\ artifacts \subseteq Ids /\ artifacts \cap retired = {} /\ handoff \subseteq artifacts
        /\ \A i \in artifacts : disk[i] = "whole" /\ i <= forced
    BY RegistryFacts
  <1>1. CASE Prune(artifacts, handoff) /\ UNCHANGED publisher
    BY <1>0, <1>1, PruneStep DEF Consider, At, receiverVars
  <1>2. CASE ~Overfull /\ forced < MaxArtifacts /\ Turn("force") /\ RegistryKept
    <2>1. /\ publisher' = [publisher EXCEPT !.stage = "force"]
          /\ publisher.stage = "idle" /\ lifecycle = "up"
          /\ UNCHANGED <<lifecycle, disk, artifacts, retired, cleaning, handoff, forced, bulk>>
      BY <1>2 DEF Consider, At, Turn, RegistryKept, receiverVars
    <2>2. publisher' \in [stage : PublisherStages, id : 0 .. MaxArtifacts] /\ publisher'.stage = "force"
      BY <2>1 DEF ArtifactInv, ArtifactTypeOK, PublisherStages
    <2>3. ArtifactTypeOK' BY <2>1, <2>2 DEF ArtifactInv, ArtifactTypeOK
    <2>4. Whole' /\ RemovedUnread' BY <2>1 DEF ArtifactInv, Whole, RemovedUnread
    <2>5. Numbered' BY <1>2, <2>1, <2>2 DEF ArtifactInv, Numbered, Unclaimed, Building
    <2>6. Stopped' BY <2>1 DEF ArtifactInv, Stopped
    <2>7. Placed'
      <3>1. Places' = Places BY <2>1, <2>2 DEF Places, InTheMaking
      <3>2. Finals' = Finals BY <2>1 DEF Finals
      <3> QED BY <2>1, <3>1, <3>2 DEF ArtifactInv, Placed
    <2> QED BY <2>3, <2>4, <2>5, <2>6, <2>7 DEF ArtifactInv
  <1> QED BY <1>1, <1>2 DEF Consider

LEMMA ForceStep == ASSUME ArtifactInv, ForceCheckpoint PROVE ArtifactInv'
  <1>1. /\ publisher.stage = "force" /\ lifecycle = "up"
        /\ UNCHANGED <<lifecycle, disk, artifacts, retired, cleaning, handoff, bulk>>
        /\ \/ publisher' = [stage |-> "admit", id |-> forced + 1] /\ forced' = forced + 1
           \/ publisher' = Dormant /\ UNCHANGED forced
    BY DEF ForceCheckpoint, At, receiverVars
  <1>2. forced \in 0 .. MaxArtifacts /\ forced < MaxArtifacts /\ MaxArtifacts \in Nat
    BY <1>1, RegistryFacts DEF ArtifactInv, ArtifactTypeOK, Numbered
  <1>3. /\ publisher' \in [stage : PublisherStages, id : 0 .. MaxArtifacts]
        /\ forced' \in 0 .. MaxArtifacts /\ forced <= forced'
        /\ publisher'.stage \in {"admit", "idle"}
        /\ publisher'.stage = "admit" => publisher'.id = forced + 1 /\ forced' = forced + 1
    BY <1>1, <1>2 DEF Dormant, PublisherStages
  <1>4. ArtifactTypeOK' BY <1>1, <1>3 DEF ArtifactInv, ArtifactTypeOK
  <1>5. Whole' /\ RemovedUnread' BY <1>1 DEF ArtifactInv, Whole, RemovedUnread
  <1>6. Stopped' BY <1>1 DEF ArtifactInv, Stopped
  <1>7. Placed'
    <2>1. Places' = Places BY <1>1, <1>3 DEF Places, InTheMaking
    <2>2. Finals' = Finals BY <1>1 DEF Finals
    <2> QED BY <1>1, <2>1, <2>2 DEF ArtifactInv, Placed
  <1>8. Numbered'
    <2>1. forced + 1 \in Ids /\ forced + 1 > forced BY <1>2 DEF Ids
    <2>2. \A i \in Ids : i > forced => disk[i] = "none" /\ Unclaimed(i)
      BY DEF ArtifactInv, Numbered
    <2>3. \A i \in Ids : i > forced' => disk'[i] = "none" /\ Unclaimed(i)'
      BY <1>1, <1>2, <1>3, <2>2 DEF Unclaimed, Ids
    <2>4. publisher'.stage = "admit" => Unclaimed(publisher.id)'
      BY <1>1, <1>3, <2>1, <2>2 DEF Unclaimed
    <2> QED BY <1>2, <1>3, <2>1, <2>3, <2>4 DEF Numbered, Building
  <1> QED BY <1>4, <1>5, <1>6, <1>7, <1>8 DEF ArtifactInv

LEMMA AdmitStep == ASSUME ArtifactInv, Admit PROVE ArtifactInv'
  <1>0. /\ artifacts \subseteq Ids /\ artifacts \cap retired = {} /\ handoff \subseteq artifacts
        /\ \A i \in artifacts : disk[i] = "whole" /\ i <= forced
    BY RegistryFacts
  <1>1. CASE Overfull
    <2>1. InTheMaking = {} BY DEF Admit, At, InTheMaking
    <2> QED BY <1>0, <1>1, <2>1, PruneStep DEF Admit, At, receiverVars
  <1>2. CASE ~Overfull
    <2>1. /\ publisher' = [publisher EXCEPT !.stage = "build"]
          /\ publisher.stage = "admit" /\ lifecycle = "up"
          /\ disk' = [disk EXCEPT ![publisher.id] = "staged"]
          /\ UNCHANGED <<lifecycle, artifacts, retired, cleaning, handoff, forced, bulk>>
      BY <1>2 DEF Admit, At, Turn, RegistryKept, receiverVars
    <2>2. /\ publisher' \in [stage : PublisherStages, id : 0 .. MaxArtifacts]
          /\ publisher'.stage = "build" /\ publisher'.id = publisher.id
      BY <2>1 DEF ArtifactInv, ArtifactTypeOK, PublisherStages
    <2>3. publisher.id \in Ids /\ publisher.id <= forced /\ Unclaimed(publisher.id)
      BY <2>1 DEF ArtifactInv, Numbered, Building
    <2>4. disk \in [Ids -> {"none", "staged", "whole", "parts"}]
      BY DEF ArtifactInv, ArtifactTypeOK
    <2>5. ArtifactTypeOK' BY <2>1, <2>2, <2>3, <2>4 DEF ArtifactInv, ArtifactTypeOK
    <2>6. \A i \in Ids \ {publisher.id} : disk'[i] = disk[i]
      BY <2>1, <2>4
    <2>7. Whole'
      <3>1. \A i \in artifacts : disk'[i] = "whole"
        BY <1>0, <2>3, <2>6 DEF Unclaimed
      <3>2. \A r \in Receivers : bulk[r] # 0 => disk'[bulk[r]] = "whole"
        <4>1. SUFFICES ASSUME NEW r \in Receivers, bulk[r] # 0 PROVE disk'[bulk[r]] = "whole"
          OBVIOUS
        <4>2. bulk[r] \in Ids
          BY <4>1, RegistryFacts DEF ArtifactInv, ArtifactTypeOK, Ids
        <4>3. disk[bulk[r]] = "whole" BY <4>1 DEF ArtifactInv, Whole
        <4> QED BY <2>3, <2>6, <4>2, <4>3 DEF Unclaimed
      <3> QED BY <1>0, <2>1, <3>1, <3>2 DEF Whole
    <2>8. RemovedUnread' BY <2>1 DEF ArtifactInv, RemovedUnread
    <2>9. Numbered'
      <3>1. \A i \in Ids : i > forced => disk'[i] = "none" /\ Unclaimed(i)'
        <4>1. SUFFICES ASSUME NEW i \in Ids, i > forced PROVE disk'[i] = "none" /\ Unclaimed(i)'
          OBVIOUS
        <4>2. disk[i] = "none" /\ Unclaimed(i) BY <4>1 DEF ArtifactInv, Numbered
        <4>3. i # publisher.id BY <2>3, <4>1, RegistryFacts DEF Ids
        <4> QED BY <2>1, <2>6, <4>2, <4>3 DEF Unclaimed
      <3>2. Unclaimed(publisher.id)' BY <2>1, <2>2, <2>3 DEF Unclaimed
      <3> QED BY <2>1, <2>2, <2>3, <3>1, <3>2 DEF Numbered
    <2>10. Stopped' BY <2>1 DEF ArtifactInv, Stopped
    <2>11. Placed'
      <3>1. retired = {} /\ ~(Cardinality(artifacts) > Retention) BY <1>2 DEF Overfull
      <3>2. Places' = artifacts \cup {publisher.id}
        BY <2>1, <2>2, <2>3, <3>1 DEF Places, InTheMaking
      <3>3. Finals' \subseteq Finals BY <2>4, <2>6, <2>1, <2>3 DEF Finals
      <3>4. Finals \subseteq artifacts
        BY <2>1, <3>1 DEF ArtifactInv, Placed, Places, InTheMaking
      <3>5. IsFiniteSet(artifacts) /\ Cardinality(artifacts) \in Nat
        BY <1>0, IdsFinite
      <3>6. Cardinality(artifacts \cup {publisher.id}) <= Cardinality(artifacts) + 1
        BY <3>5, FS_AddElement
      <3>7. Retention \in Nat BY ArtifactConstants DEF ArtifactConstants
      <3>8. Cardinality(Places') <= Retention + 1
        <4>1. IsFiniteSet(artifacts \cup {publisher.id}) BY <3>5, FS_AddElement
        <4>2. Cardinality(artifacts \cup {publisher.id}) \in Nat
          BY <4>1, FS_CardinalityType
        <4> QED BY <3>1, <3>2, <3>5, <3>6, <3>7, <4>2
      <3>9. /\ Cardinality(Finals') <= Cardinality(Places')
            /\ Cardinality(Finals') \in Nat /\ Cardinality(Places') \in Nat
        <4>1. Finals' \in SUBSET Places' /\ Places' \in SUBSET Ids
          BY <1>0, <2>3, <3>2, <3>3, <3>4
        <4> QED BY <4>1, IdsFinite
      <3> QED BY <3>2, <3>3, <3>4, <3>7, <3>8, <3>9 DEF Placed
    <2> QED BY <2>5, <2>7, <2>8, <2>9, <2>10, <2>11 DEF ArtifactInv
  <1> QED BY <1>1, <1>2

(* The publisher changes only the directory that is nobody's yet.          *)
LEMMA OwnDirectory ==
    ASSUME ArtifactInv, lifecycle = "up", publisher.stage \in {"build", "promote"},
           disk' \in [Ids -> {"none", "staged", "whole", "parts"}],
           \A i \in Ids \ {publisher.id} : disk'[i] = disk[i],
           publisher' \in [stage : PublisherStages, id : 0 .. MaxArtifacts],
           publisher'.stage \in {"promote", "register", "fatal", "idle"},
           publisher'.stage # "idle" => publisher'.id = publisher.id,
           publisher'.stage = "register" => disk'[publisher.id] = "whole",
           publisher'.stage = "idle" => disk'[publisher.id] = "none",
           UNCHANGED <<lifecycle, artifacts, retired, cleaning, handoff, forced, bulk>>
    PROVE  ArtifactInv'
  <1>1. publisher.id \in Ids /\ publisher.id <= forced /\ Unclaimed(publisher.id)
    BY DEF ArtifactInv, Numbered, Building
  <1>2. ArtifactTypeOK' BY DEF ArtifactInv, ArtifactTypeOK
  <1>3. Whole'
    <2>1. \A i \in artifacts : disk'[i] = "whole"
      BY <1>1, RegistryFacts DEF Unclaimed
    <2>2. ASSUME NEW r \in Receivers, bulk[r] # 0 PROVE disk'[bulk[r]] = "whole"
      <3>1. bulk[r] \in Ids
        BY <2>2, RegistryFacts DEF ArtifactInv, ArtifactTypeOK, Ids
      <3>2. disk[bulk[r]] = "whole" BY <2>2 DEF ArtifactInv, Whole
      <3> QED BY <1>1, <3>1, <3>2 DEF Unclaimed
    <2> QED BY <2>1, <2>2 DEF ArtifactInv, Whole
  <1>4. RemovedUnread' BY DEF ArtifactInv, RemovedUnread
  <1>5. Stopped' BY DEF ArtifactInv, Stopped
  <1>6. Numbered'
    <2>1. ASSUME NEW i \in Ids, i > forced PROVE disk'[i] = "none" /\ Unclaimed(i)'
      <3>1. disk[i] = "none" /\ Unclaimed(i) BY <2>1 DEF ArtifactInv, Numbered
      <3>2. i # publisher.id BY <1>1, <2>1, RegistryFacts DEF Ids
      <3> QED BY <3>1, <3>2 DEF Unclaimed
    <2>2. publisher'.stage # "idle" => Unclaimed(publisher.id)'
      BY <1>1 DEF Unclaimed
    <2> QED BY <1>1, <2>1, <2>2 DEF Numbered, Building
  <1>7. Placed'
    <2>1. /\ Finals \subseteq Places /\ Cardinality(Places) <= Retention + 1
          /\ publisher.id \in Places /\ Places \subseteq Ids
      BY <1>1, RegistryFacts DEF ArtifactInv, Placed, Places, InTheMaking
    <2>2. Finals' \subseteq Places' /\ Places' \subseteq Places
      <3>1. Finals' \subseteq Finals \cup {publisher.id} BY DEF Finals
      <3>2. CASE publisher'.stage = "idle"
        <4>1. Finals' \subseteq Finals \ {publisher.id}
          BY <3>1, <3>2 DEF Finals
        <4>2. Places' = artifacts \cup retired /\ Places \subseteq artifacts \cup retired \cup {publisher.id}
          BY <3>2 DEF Places, InTheMaking
        <4>3. artifacts \cup retired \subseteq Places BY DEF Places
        <4> QED BY <2>1, <4>1, <4>2, <4>3
      <3>3. CASE publisher'.stage # "idle"
        <4>1. Places' = Places BY <3>3 DEF Places, InTheMaking
        <4> QED BY <2>1, <3>1, <4>1
      <3> QED BY <3>2, <3>3
    <2>3. /\ Cardinality(Places') <= Cardinality(Places)
          /\ Cardinality(Places) \in Nat /\ Cardinality(Places') \in Nat
      BY <2>1, <2>2, IdsFinite
    <2>4. Cardinality(Finals') <= Cardinality(Places') /\ Cardinality(Finals') \in Nat
      <3>1. Places' \subseteq Ids BY <2>1, <2>2
      <3> QED BY <2>2, <3>1, IdsFinite
    <2>5. Retention \in Nat BY ArtifactConstants DEF ArtifactConstants
    <2> QED BY <2>1, <2>2, <2>3, <2>4, <2>5 DEF Placed
  <1> QED BY <1>2, <1>3, <1>4, <1>5, <1>6, <1>7 DEF ArtifactInv

LEMMA BuildStep == ASSUME ArtifactInv, Build \/ Promote PROVE ArtifactInv'
  <1>1. /\ disk \in [Ids -> {"none", "staged", "whole", "parts"}]
        /\ publisher \in [stage : PublisherStages, id : 0 .. MaxArtifacts]
    BY DEF ArtifactInv, ArtifactTypeOK
  <1>2. /\ lifecycle = "up" /\ publisher.stage \in {"build", "promote"}
        /\ UNCHANGED <<lifecycle, artifacts, retired, cleaning, handoff, forced, bulk>>
    BY DEF Build, Promote, At, receiverVars
  <1>3. publisher.id \in Ids
    BY <1>2 DEF ArtifactInv, Numbered, Building
  <1>4. ASSUME NEW v \in {"none", "whole"}, NEW st \in {"promote", "register", "fatal"},
               disk' = disk \/ disk' = [disk EXCEPT ![publisher.id] = v],
               publisher' = [publisher EXCEPT !.stage = st],
               st = "register" => disk' = [disk EXCEPT ![publisher.id] = "whole"]
        PROVE  ArtifactInv'
    <2>1. /\ disk' \in [Ids -> {"none", "staged", "whole", "parts"}]
          /\ \A i \in Ids \ {publisher.id} : disk'[i] = disk[i]
          /\ st = "register" => disk'[publisher.id] = "whole"
      BY <1>1, <1>3, <1>4
    <2>2. /\ publisher' \in [stage : PublisherStages, id : 0 .. MaxArtifacts]
          /\ publisher'.stage = st /\ publisher'.id = publisher.id
      BY <1>1, <1>4 DEF PublisherStages
    <2> QED BY <1>2, <2>1, <2>2, OwnDirectory
  <1>5. ASSUME publisher' = Dormant, disk' = [disk EXCEPT ![publisher.id] = "none"]
        PROVE  ArtifactInv'
    <2>1. /\ disk' \in [Ids -> {"none", "staged", "whole", "parts"}]
          /\ \A i \in Ids \ {publisher.id} : disk'[i] = disk[i]
          /\ disk'[publisher.id] = "none"
      BY <1>1, <1>3, <1>5
    <2>2. publisher' \in [stage : PublisherStages, id : 0 .. MaxArtifacts] /\ publisher'.stage = "idle"
      BY <1>5, RegistryFacts DEF Dormant, PublisherStages
    <2> QED BY <1>2, <2>1, <2>2, OwnDirectory
  <1>6. CASE Build
    <2>1. \/ publisher' = [publisher EXCEPT !.stage = "promote"] /\ disk' = disk
          \/ publisher' = Dormant /\ disk' = [disk EXCEPT ![publisher.id] = "none"]
          \/ /\ publisher' = [publisher EXCEPT !.stage = "fatal"]
             /\ disk' = [disk EXCEPT ![publisher.id] = "none"]
      BY <1>6 DEF Build, Turn
    <2> QED BY <1>4, <1>5, <2>1
  <1>7. CASE Promote
    <2>1. /\ disk' = [disk EXCEPT ![publisher.id] = "whole"]
          /\ \/ publisher' = [publisher EXCEPT !.stage = "register"]
             \/ publisher' = [publisher EXCEPT !.stage = "fatal"]
      BY <1>7 DEF Promote, Turn
    <2> QED BY <1>4, <2>1
  <1> QED BY <1>6, <1>7

LEMMA RegisterStep == ASSUME ArtifactInv, Register PROVE ArtifactInv'
  <1>0. /\ artifacts \subseteq Ids /\ artifacts \cap retired = {} /\ handoff \subseteq artifacts
        /\ \A i \in artifacts : disk[i] = "whole" /\ i <= forced
    BY RegistryFacts
  <1>1. publisher.stage = "register" /\ lifecycle = "up" BY DEF Register, At
  <1>2. /\ publisher.id \in Ids /\ publisher.id <= forced /\ publisher.id \notin retired
        /\ disk[publisher.id] = "whole"
    BY <1>1 DEF ArtifactInv, Numbered, Building, Unclaimed
  <1>3. InTheMaking = {publisher.id} BY <1>1, <1>2 DEF InTheMaking
  <1> QED BY <1>0, <1>1, <1>2, <1>3, PruneStep DEF Register, receiverVars

LEMMA ExpireStep ==
    ASSUME ArtifactInv, NEW i \in Ids, ExpireHandoff(i) PROVE ArtifactInv'
  <1>0. /\ artifacts \subseteq Ids /\ artifacts \cap retired = {} /\ handoff \subseteq artifacts
        /\ \A j \in artifacts : disk[j] = "whole" /\ j <= forced
    BY RegistryFacts
  <1>1. /\ lifecycle = "up" /\ handoff' = handoff \ {i} /\ Prune(artifacts, handoff \ {i})
        /\ UNCHANGED <<lifecycle, disk, publisher, forced, bulk>>
    BY DEF ExpireHandoff, receiverVars
  <1> QED BY <1>0, <1>1, PruneStep

(* A directory is removed only when it is retired and nobody reads it      *)
(* (cleanupRetiredArtifact, finishRetiredCleanup).                         *)
LEMMA RemovalStep ==
    ASSUME ArtifactInv, NEW i \in Ids, StartRemoval(i) \/ FinishRemoval(i)
    PROVE  ArtifactInv'
  <1> DEFINE Disks == {"none", "staged", "whole", "parts"}
  <1>1. /\ disk \in [Ids -> Disks] /\ cleaning \in [Ids -> {"no", "queued", "removing"}]
        /\ retired \subseteq Ids
    BY DEF ArtifactInv, ArtifactTypeOK
  <1>2. /\ cleaning[i] # "no"
        /\ UNCHANGED <<lifecycle, artifacts, handoff, publisher, forced, bulk>>
        /\ \E v \in Disks : disk' = [disk EXCEPT ![i] = v]
        /\ \E c \in {"no", "removing"} : cleaning' = [cleaning EXCEPT ![i] = c]
    BY <1>1 DEF StartRemoval, FinishRemoval, receiverVars
  <1>3. /\ retired' = retired \/ (retired' = retired \ {i} /\ disk'[i] = "none" /\ cleaning'[i] = "no")
        /\ disk'[i] \in {"whole", "parts"} => disk[i] \in {"whole", "parts"} \/ lifecycle \in {"up", "loading"}
    BY <1>1 DEF StartRemoval, FinishRemoval
  <1>4. i \in retired /\ \A r \in Receivers : bulk[r] # i
    BY <1>2 DEF ArtifactInv, RemovedUnread
  <1>5. /\ disk' \in [Ids -> Disks] /\ \A j \in Ids \ {i} : disk'[j] = disk[j]
        /\ cleaning' \in [Ids -> {"no", "queued", "removing"}]
        /\ \A j \in Ids \ {i} : cleaning'[j] = cleaning[j]
        /\ retired' \subseteq retired /\ retired \subseteq retired' \cup {i}
    BY <1>1, <1>2, <1>3
  <1>6. ArtifactTypeOK'
    BY <1>2, <1>5 DEF ArtifactInv, ArtifactTypeOK
  <1>7. Whole'
    <2>1. i \notin artifacts BY <1>4, RegistryFacts
    <2>2. \A j \in artifacts : disk'[j] = "whole" BY <1>5, <2>1, RegistryFacts
    <2>3. ASSUME NEW r \in Receivers, bulk[r] # 0 PROVE disk'[bulk[r]] = "whole"
      <3>1. bulk[r] \in Ids
        BY <2>3, RegistryFacts DEF ArtifactInv, ArtifactTypeOK, Ids
      <3>2. disk[bulk[r]] = "whole" BY <2>3 DEF ArtifactInv, Whole
      <3> QED BY <1>4, <1>5, <3>1, <3>2
    <2> QED BY <1>2, <1>5, <2>2, <2>3 DEF ArtifactInv, Whole
  <1>8. RemovedUnread'
    <2>1. SUFFICES ASSUME NEW j \in Ids, cleaning'[j] # "no"
                   PROVE  j \in retired' /\ \A r \in Receivers : bulk[r] # j
      BY <1>2 DEF RemovedUnread
    <2>2. CASE j = i BY <1>3, <1>4, <2>1, <2>2
    <2>3. CASE j # i BY <1>5, <2>1, <2>3 DEF ArtifactInv, RemovedUnread
    <2> QED BY <2>2, <2>3
  <1>9. Numbered'
    <2>1. ASSUME NEW j \in Ids, j > forced PROVE disk'[j] = "none" /\ Unclaimed(j)'
      <3>1. disk[j] = "none" /\ Unclaimed(j) BY <2>1 DEF ArtifactInv, Numbered
      <3>2. j # i BY <1>4, <3>1 DEF Unclaimed
      <3> QED BY <1>2, <1>5, <3>1, <3>2 DEF Unclaimed
    <2>2. publisher.stage \in Building =>
             /\ publisher.id \in Ids /\ publisher.id <= forced
             /\ Unclaimed(publisher.id) /\ Unclaimed(publisher.id)'
      BY <1>2, <1>5 DEF ArtifactInv, Numbered, Unclaimed
    <2>3. publisher.stage = "register" => disk'[publisher.id] = "whole"
      <3>1. SUFFICES ASSUME publisher.stage = "register" PROVE disk'[publisher.id] = "whole"
        OBVIOUS
      <3>2. publisher.id # i BY <1>4, <2>2, <3>1 DEF Unclaimed, Building
      <3> QED BY <1>5, <2>2, <3>1, <3>2 DEF ArtifactInv, Numbered, Building
    <2>4. publisher.stage = "force" => forced < MaxArtifacts BY DEF ArtifactInv, Numbered
    <2> QED BY <1>2, <2>1, <2>2, <2>3, <2>4 DEF Numbered
  <1>10. Stopped'
    BY <1>2, <1>5 DEF ArtifactInv, Stopped
  <1>11. Placed'
    <2>1. Retention \in Nat BY ArtifactConstants DEF ArtifactConstants
    <2>2. Finals \subseteq Ids /\ Finals' \subseteq Finals \cup {i}
      BY <1>5 DEF Finals
    <2>3. CASE lifecycle \in {"up", "loading"}
      <3>1. /\ Finals \subseteq Places /\ Cardinality(Places) <= Retention + 1
            /\ Places \subseteq Ids /\ i \in Places
        BY <1>4, <2>3, RegistryFacts DEF ArtifactInv, Placed, Places, InTheMaking
      <3>2. Places' \subseteq Places /\ Places \subseteq Places' \cup {i}
        BY <1>2, <1>5 DEF Places, InTheMaking
      <3>3. Finals' \subseteq Places'
        <4>1. CASE retired' = retired
          BY <1>2, <2>2, <3>1, <4>1 DEF Places, InTheMaking
        <4>2. CASE disk'[i] = "none"
          <5>1. i \notin Finals' BY <4>2 DEF Finals
          <5> QED BY <2>2, <3>1, <3>2, <5>1
        <4> QED BY <1>3, <4>1, <4>2
      <3>4. /\ Cardinality(Places') <= Cardinality(Places)
            /\ Cardinality(Places) \in Nat /\ Cardinality(Places') \in Nat
        BY <3>1, <3>2, IdsFinite
      <3>5. Cardinality(Finals') <= Cardinality(Places') /\ Cardinality(Finals') \in Nat
        <4>1. Places' \subseteq Ids BY <3>1, <3>2
        <4> QED BY <3>3, <4>1, IdsFinite
      <3> QED BY <2>1, <3>1, <3>3, <3>4, <3>5 DEF Placed
    <2>4. CASE lifecycle \notin {"up", "loading"}
      <3>1. Finals' \subseteq Finals
        BY <1>3, <1>5, <2>2, <2>4 DEF Finals
      <3>2. /\ Cardinality(Finals') <= Cardinality(Finals)
            /\ Cardinality(Finals) \in Nat /\ Cardinality(Finals') \in Nat
        BY <2>2, <3>1, IdsFinite
      <3> QED BY <1>2, <2>1, <2>4, <3>2 DEF ArtifactInv, Placed
    <2> QED BY <2>3, <2>4
  <1> QED BY <1>6, <1>7, <1>8, <1>9, <1>10, <1>11 DEF ArtifactInv

LEMMA CloseStep == ASSUME ArtifactInv, BeginClose PROVE ArtifactInv'
  <1>1. /\ lifecycle' = "closing" /\ handoff' = {} /\ publisher' = Dormant
        /\ cleaning' = [i \in Ids |-> IF cleaning[i] = "queued" THEN "no" ELSE cleaning[i]]
        /\ disk' = [i \in Ids |-> IF disk[i] = "staged" /\ i = publisher.id THEN "none" ELSE disk[i]]
        /\ UNCHANGED <<artifacts, retired, forced, bulk>>
    BY DEF BeginClose, receiverVars
  <1>2. /\ disk \in [Ids -> {"none", "staged", "whole", "parts"}]
        /\ cleaning \in [Ids -> {"no", "queued", "removing"}]
    BY DEF ArtifactInv, ArtifactTypeOK
  <1>3. /\ disk' \in [Ids -> {"none", "staged", "whole", "parts"}]
        /\ cleaning' \in [Ids -> {"no", "queued", "removing"}]
        /\ \A i \in Ids : (cleaning'[i] # "no" => cleaning[i] # "no")
                          /\ (disk[i] # "staged" => disk'[i] = disk[i])
                          /\ (disk'[i] \in {"whole", "parts"} => disk[i] \in {"whole", "parts"})
    BY <1>1, <1>2
  <1>4. Dormant \in [stage : PublisherStages, id : 0 .. MaxArtifacts]
    BY RegistryFacts DEF Dormant, PublisherStages
  <1>5. ArtifactTypeOK'
    BY <1>1, <1>3, <1>4 DEF ArtifactInv, ArtifactTypeOK
  <1>6. Whole'
    <2>1. ASSUME NEW r \in Receivers, bulk[r] # 0 PROVE disk'[bulk[r]] = "whole"
      <3>1. bulk[r] \in Ids
        BY <2>1, RegistryFacts DEF ArtifactInv, ArtifactTypeOK, Ids
      <3>2. disk[bulk[r]] = "whole" BY <2>1 DEF ArtifactInv, Whole
      <3> QED BY <1>3, <3>1, <3>2
    <2>2. \A i \in artifacts : disk'[i] = "whole" BY <1>3, RegistryFacts
    <2> QED BY <1>1, <2>1, <2>2 DEF ArtifactInv, Whole
  <1>7. RemovedUnread' BY <1>1, <1>3 DEF ArtifactInv, RemovedUnread
  <1>8. Numbered'
    <2>1. ASSUME NEW i \in Ids, i > forced PROVE disk'[i] = "none" /\ Unclaimed(i)'
      BY <1>1, <1>3, <2>1 DEF ArtifactInv, Numbered, Unclaimed
    <2> QED BY <1>1, <2>1 DEF Numbered, Dormant, Building
  <1>9. Stopped' BY <1>1 DEF Stopped
  <1>10. Placed'
    <2>1. Finals' \subseteq Finals /\ Finals \subseteq Ids BY <1>3 DEF Finals
    <2>2. /\ Cardinality(Finals') <= Cardinality(Finals)
          /\ Cardinality(Finals) \in Nat /\ Cardinality(Finals') \in Nat
      BY <2>1, IdsFinite
    <2>3. Retention \in Nat BY ArtifactConstants DEF ArtifactConstants
    <2> QED BY <1>1, <2>2, <2>3 DEF ArtifactInv, Placed
  <1> QED BY <1>5, <1>6, <1>7, <1>8, <1>9, <1>10 DEF ArtifactInv

(* A daemon that is gone knows of no artifact; the directories stay.       *)
LEMMA GoneStep ==
    ASSUME ArtifactInv, Gone, UNCHANGED <<disk, forced>> PROVE ArtifactInv'
  <1>1. /\ lifecycle' = "down" /\ artifacts' = {} /\ retired' = {} /\ handoff' = {}
        /\ cleaning' = [i \in Ids |-> "no"] /\ publisher' = Dormant
        /\ bulk' = [r \in Receivers |-> 0]
    BY DEF Gone
  <1>2. Dormant \in [stage : PublisherStages, id : 0 .. MaxArtifacts] /\ 0 \in 0 .. MaxArtifacts
    BY RegistryFacts DEF Dormant, PublisherStages
  <1>3. ArtifactTypeOK' BY <1>1, <1>2 DEF ArtifactInv, ArtifactTypeOK
  <1>4. Whole' /\ RemovedUnread' /\ Stopped'
    BY <1>1 DEF Whole, RemovedUnread, Stopped
  <1>5. Numbered'
    <2>1. ASSUME NEW i \in Ids, i > forced PROVE disk[i] = "none" /\ Unclaimed(i)'
      <3>1. disk[i] = "none" BY <2>1 DEF ArtifactInv, Numbered
      <3>2. i # 0 BY DEF Ids
      <3> QED BY <1>1, <3>1, <3>2 DEF Unclaimed
    <2> QED BY <1>1, <2>1 DEF Numbered, Dormant, Building
  <1>6. Placed'
    <2>1. Finals' = Finals BY DEF Finals
    <2> QED BY <1>1, <2>1 DEF ArtifactInv, Placed
  <1> QED BY <1>3, <1>4, <1>5, <1>6 DEF ArtifactInv

(* A daemon that opens registers every directory that was promoted (load). *)
LEMMA OpenStep == ASSUME ArtifactInv, Open PROVE ArtifactInv'
  <1>1. /\ lifecycle = "down"
        /\ UNCHANGED <<handoff, publisher, forced, bulk>>
        /\ publisher = Dormant /\ artifacts = {} /\ retired = {} /\ handoff = {}
        /\ \A r \in Receivers : bulk[r] = 0
        /\ \A i \in Ids : cleaning[i] = "no"
    BY DEF Open, ArtifactInv, Stopped, receiverVars
  <1>2. PICK expired \in {{}, {i \in Ids : disk[i] = "staged"}} :
            disk' = [i \in Ids |-> IF i \in expired THEN "none" ELSE disk[i]]
    BY DEF Open
  <1>3. /\ disk \in [Ids -> {"none", "staged", "whole", "parts"}]
        /\ disk' \in [Ids -> {"none", "staged", "whole", "parts"}]
        /\ \A i \in Ids : /\ disk[i] # "staged" => disk'[i] = disk[i]
                          /\ disk[i] = "staged" => disk'[i] \in {"staged", "none"}
    BY <1>2 DEF ArtifactInv, ArtifactTypeOK
  <1>4. Finals' = Finals /\ Finals \subseteq Ids
    BY <1>3 DEF Finals
  <1>5. \A i \in Ids : i > forced => disk'[i] = "none"
    BY <1>3 DEF ArtifactInv, Numbered
  <1>6. CASE Damaged
    <2>1. lifecycle' = "failed" /\ UNCHANGED <<artifacts, retired, cleaning>>
      BY <1>6 DEF Open, RegistryKept
    <2>2. ArtifactTypeOK' BY <1>1, <1>3, <2>1 DEF ArtifactInv, ArtifactTypeOK
    <2>3. Whole' /\ RemovedUnread' /\ Stopped'
      BY <1>1, <2>1 DEF Whole, RemovedUnread, Stopped
    <2>4. Numbered'
      <3>1. \A i \in Ids : i > forced => Unclaimed(i)'
        BY <1>1, <2>1 DEF ArtifactInv, Numbered, Unclaimed
      <3> QED BY <1>1, <1>5, <3>1 DEF Numbered, Dormant, Building
    <2>5. Placed' BY <1>4, <2>1 DEF ArtifactInv, Placed
    <2> QED BY <2>2, <2>3, <2>4, <2>5 DEF ArtifactInv
  <1>7. CASE ~Damaged
    <2>1. lifecycle' = "loading" /\ Prune(Complete, {})
      BY <1>7 DEF Open
    <2>2. Complete \in SUBSET Ids /\ Complete \cap retired = {} /\ {} \in SUBSET Complete
      BY <1>1 DEF Complete
    <2>3. /\ artifacts' \subseteq Complete /\ artifacts' \cup retired' = Complete \cup retired
          /\ artifacts' \cap retired' = {}
          /\ cleaning' \in [Ids -> {"no", "queued", "removing"}]
          /\ \A i \in Ids : cleaning'[i] # "no" =>
                i \in retired' /\ \A r \in Receivers : bulk[r] # i
      <3>1. ArtifactTypeOK /\ RemovedUnread BY DEF ArtifactInv
      <3> HIDE DEF Complete
      <3> QED BY <2>1, <2>2, <3>1, PruneKeeps
    <2>4. artifacts' \cup retired' = Complete BY <1>1, <2>3
    <2>5. Complete = Finals
      BY <1>3, <1>7 DEF Complete, Finals, Damaged
    <2>6. ArtifactTypeOK'
      <3>1. artifacts' \subseteq Ids /\ retired' \subseteq Ids BY <2>2, <2>4
      <3> QED BY <1>1, <1>3, <2>1, <2>3, <3>1 DEF ArtifactInv, ArtifactTypeOK
    <2>7. Whole'
      <3>1. \A i \in Complete : disk'[i] = "whole" BY <1>3 DEF Complete
      <3> QED BY <1>1, <2>3, <3>1 DEF Whole
    <2>8. RemovedUnread' /\ Stopped'
      BY <1>1, <2>1, <2>3 DEF RemovedUnread, Stopped
    <2>9. Numbered'
      <3>1. ASSUME NEW i \in Ids, i > forced PROVE Unclaimed(i)'
        <4>1. disk[i] = "none" BY <3>1 DEF ArtifactInv, Numbered
        <4>2. i \notin Complete BY <4>1 DEF Complete
        <4>3. i # 0 BY DEF Ids
        <4> QED BY <1>1, <2>4, <4>2, <4>3 DEF Unclaimed
      <3> QED BY <1>1, <1>5, <3>1 DEF Numbered, Dormant, Building
    <2>10. Placed'
      <3>1. InTheMaking' = {} BY <1>1 DEF InTheMaking, Dormant
      <3>2. Places' = Finals BY <2>4, <2>5, <3>1 DEF Places
      <3> QED BY <1>4, <2>1, <3>2 DEF ArtifactInv, Placed
    <2> QED BY <2>6, <2>7, <2>8, <2>9, <2>10 DEF ArtifactInv
  <1> QED BY <1>6, <1>7

LEMMA LoadedStep == ASSUME ArtifactInv, Loaded PROVE ArtifactInv'
  <1>1. CASE retired = {}
    <2>1. /\ lifecycle = "loading" /\ lifecycle' = "up"
          /\ UNCHANGED <<disk, artifacts, retired, cleaning, handoff, publisher, forced, bulk>>
      BY <1>1 DEF Loaded
    <2>2. ArtifactTypeOK' BY <2>1 DEF ArtifactInv, ArtifactTypeOK
    <2>3. Whole' /\ RemovedUnread' BY <2>1 DEF ArtifactInv, Whole, RemovedUnread
    <2>4. Numbered' BY <2>1 DEF ArtifactInv, Numbered, Unclaimed
    <2>5. Stopped' BY <2>1 DEF ArtifactInv, Stopped
    <2>6. Placed'
      <3>1. Places' = Places /\ Finals' = Finals BY <2>1 DEF Places, InTheMaking, Finals
      <3> QED BY <2>1, <3>1 DEF ArtifactInv, Placed
    <2> QED BY <2>2, <2>3, <2>4, <2>5, <2>6 DEF ArtifactInv
  <1>2. CASE retired # {}
    BY <1>2, GoneStep DEF Loaded
  <1> QED BY <1>1, <1>2

LEMMA QuietStep ==
    ASSUME ArtifactInv, UNCHANGED <<repositoryVars, bulk>> PROVE ArtifactInv'
  <1>1. UNCHANGED <<lifecycle, disk, artifacts, retired, cleaning, handoff, publisher, forced, bulk>>
    BY DEF repositoryVars
  <1>2. ArtifactTypeOK' BY <1>1 DEF ArtifactInv, ArtifactTypeOK
  <1>3. Whole' /\ RemovedUnread' BY <1>1 DEF ArtifactInv, Whole, RemovedUnread
  <1>4. Numbered' BY <1>1 DEF ArtifactInv, Numbered, Unclaimed
  <1>5. Stopped' BY <1>1 DEF ArtifactInv, Stopped
  <1>6. Placed'
    <2>1. Places' = Places /\ Finals' = Finals BY <1>1 DEF Places, InTheMaking, Finals
    <2> QED BY <1>1, <2>1 DEF ArtifactInv, Placed
  <1> QED BY <1>2, <1>3, <1>4, <1>5, <1>6 DEF ArtifactInv

LEMMA AskStep == ASSUME ArtifactInv, NEW r \in Receivers, Ask(r) PROVE ArtifactInv'
  <1>1. /\ lifecycle = "up" /\ artifacts # {} /\ handoff' = handoff \cup {LatestSnapshot}
        /\ UNCHANGED <<lifecycle, disk, artifacts, retired, cleaning, publisher, forced, bulk>>
    BY DEF Ask
  <1>2. LatestSnapshot \in artifacts
    BY <1>1, LatestRegistered, RegistryFacts
  <1>3. handoff' \subseteq artifacts
    BY <1>1, <1>2, RegistryFacts
  <1>4. ArtifactTypeOK' BY <1>1, <1>3 DEF ArtifactInv, ArtifactTypeOK
  <1>5. Whole' /\ RemovedUnread' BY <1>1, <1>3 DEF ArtifactInv, Whole, RemovedUnread
  <1>6. Numbered' BY <1>1 DEF ArtifactInv, Numbered, Unclaimed
  <1>7. Stopped' BY <1>1 DEF ArtifactInv, Stopped
  <1>8. Placed'
    <2>1. Places' = Places /\ Finals' = Finals BY <1>1 DEF Places, InTheMaking, Finals
    <2> QED BY <1>1, <2>1 DEF ArtifactInv, Placed
  <1> QED BY <1>4, <1>5, <1>6, <1>7, <1>8 DEF ArtifactInv

(* What a bulk connection opens is registered, what it releases may be     *)
(* removed once nobody else reads it (releaseSnapshotTransfer).            *)
LEMMA TransferStep ==
    ASSUME ArtifactInv, NEW r \in Receivers, OpenTransfer(r) \/ CloseTransfer(r)
    PROVE  ArtifactInv'
  <1>1. /\ lifecycle = "up"
        /\ UNCHANGED <<lifecycle, disk, artifacts, retired, handoff, publisher, forced>>
    BY DEF OpenTransfer, CloseTransfer, repositoryVars
  <1>2. /\ bulk \in [Receivers -> 0 .. MaxArtifacts]
        /\ cleaning \in [Ids -> {"no", "queued", "removing"}]
        /\ \A i \in artifacts : i \in Ids /\ i \in 0 .. MaxArtifacts
    BY RegistryFacts DEF ArtifactInv, ArtifactTypeOK, Ids
  <1>3. PICK t \in artifacts \cup {0} : bulk' = [bulk EXCEPT ![r] = t]
    BY DEF OpenTransfer, CloseTransfer
  <1>4. /\ bulk' \in [Receivers -> 0 .. MaxArtifacts] /\ bulk'[r] = t
        /\ \A q \in Receivers \ {r} : bulk'[q] = bulk[q]
    <2>1. t \in 0 .. MaxArtifacts BY <1>2, <1>3, RegistryFacts
    <2> QED BY <1>2, <1>3, <2>1
  <1>5. /\ cleaning' \in [Ids -> {"no", "queued", "removing"}]
        /\ \A i \in Ids : cleaning'[i] # "no" =>
              i \in retired /\ \A q \in Receivers : bulk'[q] # i
    <2>1. CASE OpenTransfer(r)
      <3>1. cleaning' = cleaning BY <2>1 DEF OpenTransfer, repositoryVars
      <3>2. \A i \in Ids : cleaning[i] # "no" => i \in retired /\ i \notin artifacts /\ i # 0
        BY RegistryFacts DEF ArtifactInv, RemovedUnread, Ids
      <3> QED BY <1>2, <1>3, <1>4, <3>1, <3>2 DEF ArtifactInv, RemovedUnread
    <2>2. CASE CloseTransfer(r)
      <3> DEFINE k == bulk[r]
                 readers == {q \in Receivers : bulk[q] = k}
      <3>1. bulk' = [bulk EXCEPT ![r] = 0] BY <2>2 DEF CloseTransfer
      <3>2. bulk'[r] = 0 /\ \A i \in Ids : i # 0 BY <1>2, <3>1 DEF Ids
      <3>3. CASE cleaning' = cleaning
        <4>1. ASSUME NEW i \in Ids, cleaning[i] # "no"
              PROVE  i \in retired /\ \A q \in Receivers : bulk'[q] # i
          BY <1>4, <3>2, <4>1 DEF ArtifactInv, RemovedUnread
        <4> QED BY <1>2, <3>3, <4>1
      <3>4. CASE /\ k \in retired /\ Cardinality(readers) = 1
                 /\ cleaning' = [cleaning EXCEPT ![k] = "queued"]
        <4>1. IsFiniteSet(readers)
          BY FS_Subset, ArtifactConstants DEF ArtifactConstants
        <4>2. PICK x : readers = {x} BY <3>4, <4>1, FS_Singleton
        <4>3. r \in readers OBVIOUS
        <4>4. \A q \in Receivers \ {r} : bulk[q] # k BY <4>2, <4>3
        <4>5. k \in Ids BY <3>4, RegistryFacts
        <4> HIDE DEF k, readers
        <4>6. cleaning' \in [Ids -> {"no", "queued", "removing"}] BY <1>2, <3>4
        <4>7. ASSUME NEW i \in Ids, cleaning'[i] # "no"
              PROVE  i \in retired /\ \A q \in Receivers : bulk'[q] # i
          <5>1. CASE i = k BY <1>4, <3>2, <3>4, <4>4, <5>1
          <5>2. CASE i # k
            <6>1. cleaning[i] # "no" BY <1>2, <3>4, <4>7, <5>2
            <6> QED BY <1>4, <3>2, <6>1 DEF ArtifactInv, RemovedUnread
          <5> QED BY <5>1, <5>2
        <4> QED BY <4>6, <4>7
      <3> QED BY <2>2, <3>3, <3>4 DEF CloseTransfer, Transfers
    <2> QED BY <2>1, <2>2
  <1>6. ArtifactTypeOK' BY <1>1, <1>4, <1>5 DEF ArtifactInv, ArtifactTypeOK
  <1>7. Whole'
    <2>1. ASSUME NEW q \in Receivers, bulk'[q] # 0 PROVE disk[bulk'[q]] = "whole"
      <3>1. CASE q = r BY <1>3, <1>4, <2>1, <3>1, RegistryFacts
      <3>2. CASE q # r BY <1>4, <2>1, <3>2 DEF ArtifactInv, Whole
      <3> QED BY <3>1, <3>2
    <2> QED BY <1>1, <2>1 DEF ArtifactInv, Whole
  <1>8. RemovedUnread' BY <1>1, <1>5 DEF RemovedUnread
  <1>9. Numbered'
    <2>1. ASSUME NEW i \in Ids, Unclaimed(i) PROVE Unclaimed(i)'
      <3>1. i # 0 /\ i \notin artifacts BY <2>1 DEF Ids, Unclaimed
      <3>2. \A q \in Receivers : bulk'[q] # i
        BY <1>3, <1>4, <2>1, <3>1 DEF Unclaimed
      <3> QED BY <1>1, <2>1, <3>2 DEF Unclaimed
    <2>2. \A i \in Ids : i > forced => disk[i] = "none" /\ Unclaimed(i)'
      BY <2>1 DEF ArtifactInv, Numbered
    <2>3. publisher.stage \in Building =>
             publisher.id \in Ids /\ publisher.id <= forced /\ Unclaimed(publisher.id)'
      BY <1>1, <2>1 DEF ArtifactInv, Numbered
    <2> QED BY <1>1, <2>2, <2>3 DEF ArtifactInv, Numbered
  <1>10. Stopped' BY <1>1 DEF ArtifactInv, Stopped
  <1>11. Placed'
    <2>1. Places' = Places /\ Finals' = Finals BY <1>1 DEF Places, InTheMaking, Finals
    <2> QED BY <1>1, <2>1 DEF ArtifactInv, Placed
  <1> QED BY <1>6, <1>7, <1>8, <1>9, <1>10, <1>11 DEF ArtifactInv

LEMMA ArtifactInvInit == ArtifactInit => ArtifactInv
  <1> SUFFICES ASSUME ArtifactInit PROVE ArtifactInv OBVIOUS
  <1>1. Retention \in Nat /\ MaxArtifacts \in Nat
    BY ArtifactConstants DEF ArtifactConstants
  <1>2. Dormant \in [stage : PublisherStages, id : 0 .. MaxArtifacts] /\ 0 \in 0 .. MaxArtifacts
    BY <1>1 DEF Dormant, PublisherStages
  <1>3. ArtifactTypeOK BY <1>2 DEF ArtifactInit, ArtifactTypeOK
  <1>4. Whole /\ RemovedUnread /\ Stopped
    BY DEF ArtifactInit, Whole, RemovedUnread, Stopped
  <1>5. Numbered
    BY DEF ArtifactInit, Numbered, Unclaimed, Dormant, Building, Ids
  <1>6. Finals = {} /\ Places = {}
    BY DEF ArtifactInit, Finals, Places, InTheMaking, Dormant
  <1>7. Placed BY <1>1, <1>6, FS_EmptySet DEF Placed
  <1> QED BY <1>3, <1>4, <1>5, <1>7 DEF ArtifactInv

LEMMA ArtifactInvNext == ArtifactInv /\ [ArtifactNext]_artifactVars => ArtifactInv'
  <1> SUFFICES ASSUME ArtifactInv, [ArtifactNext]_artifactVars PROVE ArtifactInv' OBVIOUS
  <1>1. ASSUME PublisherStep PROVE ArtifactInv'
    BY <1>1, ConsiderStep, ForceStep, AdmitStep, BuildStep, RegisterStep DEF PublisherStep
  <1>2. ASSUME Closed \/ CrashDaemon PROVE ArtifactInv'
    BY <1>2, GoneStep DEF Closed, CrashDaemon
  <1>3. ASSUME NEW r \in Receivers, ReceiverStep(r) PROVE ArtifactInv'
    <2>1. CASE Ask(r) BY <2>1, AskStep
    <2>2. CASE OpenTransfer(r) BY <2>2, TransferStep
    <2>3. ASSUME Fetch(r) \/ ReadCache(r) \/ Install(r) \/ Interrupted(r) PROVE ArtifactInv'
      <3>1. UNCHANGED <<repositoryVars, bulk>>
        BY <2>3 DEF Fetch, ReadCache, Install, Interrupted
      <3> QED BY <3>1, QuietStep
    <2> QED BY <1>3, <2>1, <2>2, <2>3 DEF ReceiverStep
  <1>4. ASSUME NEW r \in Receivers, Rot(r) \/ ReceiverCrash(r) PROVE ArtifactInv'
    <2>1. UNCHANGED <<repositoryVars, bulk>> BY <1>4 DEF Rot, ReceiverCrash
    <2> QED BY <2>1, QuietStep
  <1>5. ASSUME NEW r \in Receivers, CloseTransfer(r) PROVE ArtifactInv'
    BY <1>5, TransferStep
  <1>6. ASSUME NEW i \in Ids, StartRemoval(i) \/ FinishRemoval(i) \/ ExpireHandoff(i)
        PROVE  ArtifactInv'
    BY <1>6, RemovalStep, ExpireStep
  <1>7. ASSUME BeginClose \/ Open \/ Loaded PROVE ArtifactInv'
    BY <1>7, CloseStep, OpenStep, LoadedStep
  <1>8. CASE UNCHANGED artifactVars
    <2>1. UNCHANGED <<repositoryVars, bulk>> BY <1>8 DEF artifactVars, receiverVars
    <2> QED BY <2>1, QuietStep
  <1> QED BY <1>1, <1>2, <1>3, <1>4, <1>5, <1>6, <1>7, <1>8 DEF ArtifactNext

(* Whatever is published, retired and removed meanwhile, through crashes,  *)
(* shutdowns and failed removals, a root that was handed out can be        *)
(* opened, an open transfer reads a whole artifact, and the disk holds at  *)
(* most one artifact more than the retention (scheduleSnapshotPrune,       *)
(* cleanupRetiredArtifact, load).                                          *)
THEOREM ArtifactsAreKept == ArtifactSpec => []ArtifactsKept
  <1>1. ArtifactInv => ArtifactsKept
    BY DEF ArtifactInv, Whole, Placed, Finals, ArtifactsKept, ServedIsWhole, FinalsBounded
  <1> QED BY <1>1, ArtifactInvInit, ArtifactInvNext, PTL DEF ArtifactSpec

-----------------------------------------------------------------------------
(* What applying a log yields *)

LEMMA LeastNat ==
    ASSUME NEW S \in SUBSET Nat, S # {}
    PROVE  \E m \in S : \A n \in S : m <= n
  <1> DEFINE R == {ss \in Nat \X Nat : ss[1] < ss[2]}
  <1>1. IsWellFoundedOn(R, Nat)
    BY NatLessThanWellFounded DEF OpToRel
  <1>2. PICK m \in S : \A n \in S : ~(<<n, m>> \in R)
    <2> HIDE DEF R
    <2> QED BY <1>1, WFMin
  <1>3. ASSUME NEW n \in S PROVE m <= n
    <2>1. n \in Nat /\ m \in Nat
      OBVIOUS
    <2>2. n < m => <<n, m>> \in R
      BY <2>1
    <2>3. ~(n < m)
      BY <1>2, <2>2
    <2> QED BY <2>1, <2>3
  <1> QED BY <1>3

\* The values of the state.
CheckpointIds == (Nodes \cup {NoNode}) \X Nat
CheckpointProofs ==
    [id : CheckpointIds, term : Nat, covered : Nat, version : Nat,
     signer : Nodes \cup {NoNode}, chain : Nat, results : Nat]
Entries == [term : Nat, kind : {"barrier", "command", "authority", "checkpoint"},
            proof : CheckpointProofs]
OutcomeCodes == {"invalid_payload", "stale_checkpoint", "integrity_mismatch", "accepted"}
StoreStates == [version : Nat, chain : Nat, results : Nat, base : Nat,
                outcome : SUBSET [id : CheckpointIds, code : OutcomeCodes]]

\* StoreAt for any log.
StoreOf(L, k) ==
    LET after[i \in 0..Len(L)] == IF i = 0 THEN Genesis ELSE Reduced(after[i - 1], L[i], i)
    IN after[k]

IsRun(f, L, n) ==
    f = [i \in 0 .. n |-> IF i = 0 THEN Genesis ELSE Reduced(f[i - 1], L[i], i)]

LEMMA RunExists ==
    ASSUME NEW L \in Seq(Entries), NEW k \in 0 .. Len(L)
    PROVE  \E f : IsRun(f, L, k)
  <1> DEFINE S == {n \in 0 .. Len(L) : ~\E f : IsRun(f, L, n)}
  <1>1. SUFFICES S = {}
    BY Zenon
  <1>2. SUFFICES ASSUME S # {} PROVE FALSE
    OBVIOUS
  <1>3. Len(L) \in Nat /\ S \in SUBSET Nat
    OBVIOUS
  <1>4. PICK m \in S : \A n \in S : m <= n
    <2> HIDE DEF S
    <2> QED BY <1>2, <1>3, LeastNat
  <1>5. m \in Nat /\ m \in 0 .. Len(L)
    BY <1>3
  <1>6. CASE m = 0
    <2> DEFINE g == [i \in 0 .. 0 |-> Genesis]
    <2>1. IsRun(g, L, 0)
      BY DEF IsRun
    <2> QED BY <1>4, <1>6, <2>1
  <1>7. CASE m # 0
    <2>1. m - 1 \in 0 .. Len(L) /\ ~(m <= m - 1)
      BY <1>3, <1>5, <1>7
    <2>2. m - 1 \notin S
      BY <1>4, <2>1
    <2>3. PICK f : IsRun(f, L, m - 1)
      BY <2>1, <2>2
    <2> DEFINE g == [i \in 0 .. m |-> IF i = m THEN Reduced(f[m - 1], L[m], m) ELSE f[i]]
    <2>4. f = [i \in 0 .. m - 1 |-> IF i = 0 THEN Genesis ELSE Reduced(f[i - 1], L[i], i)]
      BY <2>3 DEF IsRun
    <2>5. ASSUME NEW i \in 0 .. m
          PROVE  g[i] = IF i = 0 THEN Genesis ELSE Reduced(g[i - 1], L[i], i)
      <3>1. CASE i = m
        <4>1. m - 1 \in 0 .. m /\ m - 1 # m
          BY <1>5, <1>7
        <4>2. g[m - 1] = f[m - 1]
          BY <4>1
        <4> QED BY <1>7, <3>1, <4>2
      <3>2. CASE i # m
        <4>1. i \in 0 .. m - 1 /\ (i # 0 => i - 1 \in 0 .. m /\ i - 1 # m)
          BY <1>5, <3>2
        <4>2. g[i] = f[i] /\ (i # 0 => g[i - 1] = f[i - 1])
          BY <3>2, <4>1
        <4>3. f[i] = IF i = 0 THEN Genesis ELSE Reduced(f[i - 1], L[i], i)
          BY <2>4, <4>1
        <4> QED BY <4>2, <4>3
      <3> QED BY <3>1, <3>2
    <2>6. g = [i \in 0 .. m |-> IF i = 0 THEN Genesis ELSE Reduced(g[i - 1], L[i], i)]
      <3> DEFINE h == [i \in 0 .. m |-> IF i = 0 THEN Genesis ELSE Reduced(g[i - 1], L[i], i)]
      <3>1. \A i \in 0 .. m : g[i] = h[i]
        BY <2>5
      <3>2. DOMAIN g = 0 .. m /\ DOMAIN h = 0 .. m
        OBVIOUS
      <3> QED BY <3>1, <3>2
    <2>7. IsRun(g, L, m)
      <3> HIDE DEF g
      <3> QED BY <2>6 DEF IsRun
    <2> QED BY <1>4, <2>7
  <1> QED BY <1>6, <1>7

\* The recursion of StoreOf.
LEMMA StoreSteps ==
    ASSUME NEW L \in Seq(Entries)
    PROVE  /\ StoreOf(L, 0) = Genesis
           /\ \A i \in 1 .. Len(L) : StoreOf(L, i) = Reduced(StoreOf(L, i - 1), L[i], i)
  <1>1. Len(L) \in Nat
    OBVIOUS
  <1> DEFINE F == CHOOSE f : f = [i \in 0 .. Len(L) |-> IF i = 0 THEN Genesis ELSE Reduced(f[i - 1], L[i], i)]
  <1>2. \E f : f = [i \in 0 .. Len(L) |-> IF i = 0 THEN Genesis ELSE Reduced(f[i - 1], L[i], i)]
    <2>1. Len(L) \in 0 .. Len(L) BY <1>1
    <2>2. PICK f : IsRun(f, L, Len(L)) BY <2>1, RunExists
    <2> QED BY <2>2, Zenon DEF IsRun
  <1>3. F = [i \in 0 .. Len(L) |-> IF i = 0 THEN Genesis ELSE Reduced(F[i - 1], L[i], i)]
    BY <1>2, Zenon
  <1>4. \A k : StoreOf(L, k) = F[k]
    BY DEF StoreOf
  <1> HIDE DEF F
  <1>5. \A i \in 0 .. Len(L) : F[i] = IF i = 0 THEN Genesis ELSE Reduced(F[i - 1], L[i], i)
    BY <1>3
  <1>6. \A i \in 1 .. Len(L) : i \in 0 .. Len(L) /\ i # 0 /\ 0 \in 0 .. Len(L)
    BY <1>1
  <1> QED BY <1>1, <1>4, <1>5, <1>6

LEMMA StoreIsOfLog ==
    ASSUME NEW k
    PROVE  StoreAt(k) = StoreOf(log, k) /\ StoreAt(k)' = StoreOf(log', k)
BY DEF StoreAt, StoreOf

\* A store depends on the entries it has applied, and on no other.
LEMMA StoreOfPrefix ==
    ASSUME NEW L \in Seq(Entries), NEW M \in Seq(Entries), NEW n \in Nat,
           n <= Len(L), n <= Len(M), \A i \in 1 .. n : L[i] = M[i]
    PROVE  \A k \in 0 .. n : StoreOf(L, k) = StoreOf(M, k)
  <1> DEFINE S == {k \in 0 .. n : StoreOf(L, k) # StoreOf(M, k)}
  <1>1. SUFFICES ASSUME S # {} PROVE FALSE
    OBVIOUS
  <1>2. S \in SUBSET Nat /\ Len(L) \in Nat /\ Len(M) \in Nat
    OBVIOUS
  <1>3. PICK m \in S : \A k \in S : m <= k
    <2> HIDE DEF S
    <2> QED BY <1>1, <1>2, LeastNat
  <1>4. m \in 0 .. n /\ StoreOf(L, m) # StoreOf(M, m)
    OBVIOUS
  <1>5. m # 0
    BY <1>4, StoreSteps
  <1>6. m - 1 \in 0 .. n /\ m \in 1 .. n /\ m \in 1 .. Len(L) /\ m \in 1 .. Len(M) /\ ~(m <= m - 1)
    BY <1>2, <1>4, <1>5
  <1>7. StoreOf(L, m - 1) = StoreOf(M, m - 1)
    BY <1>3, <1>6
  <1>8. /\ StoreOf(L, m) = Reduced(StoreOf(L, m - 1), L[m], m)
        /\ StoreOf(M, m) = Reduced(StoreOf(M, m - 1), M[m], m)
    BY <1>6, StoreSteps
  <1> QED BY <1>4, <1>6, <1>7, <1>8


-----------------------------------------------------------------------------
(* What every log yields *)

Decides(L, i, o) ==
    /\ L[i].kind = "checkpoint" /\ o.id = L[i].proof.id
    /\ o.code = ReduceCheckpoint(StoreOf(L, i - 1), L[i], i)
    /\ o.code = "accepted" => StoreOf(L, i).base = StoreOf(L, i - 1).chain + 1

\* After k entries: the baseline is one the chain has reached and has not gone back,
\* the version is older than an authority entry, and every outcome is that of an entry.
ReplayHolds(L, k) ==
    /\ StoreOf(L, k) \in StoreStates /\ StoreOf(L, k).base <= StoreOf(L, k).chain
    /\ \A j \in 0 .. k : StoreOf(L, j).base <= StoreOf(L, k).base
    /\ \A j \in 0 .. k :
          (\A m \in j + 1 .. k : L[m].kind # "authority")
             => StoreOf(L, j).version = StoreOf(L, k).version
    /\ \A o \in StoreOf(L, k).outcome : \E i \in 1 .. k : Decides(L, i, o)

LEMMA ReducedStep ==
    ASSUME NEW s \in StoreStates, NEW e \in Entries, NEW k \in Nat, s.base <= s.chain
    PROVE  /\ Reduced(s, e, k) \in StoreStates
           /\ Reduced(s, e, k).base <= Reduced(s, e, k).chain
           /\ s.base <= Reduced(s, e, k).base
           /\ e.kind # "authority" => Reduced(s, e, k).version = s.version
           /\ \A o \in Reduced(s, e, k).outcome :
                 \/ o \in s.outcome
                 \/ /\ e.kind = "checkpoint" /\ o.id = e.proof.id /\ o.code = ReduceCheckpoint(s, e, k)
                    /\ o.code = "accepted" => Reduced(s, e, k).base = s.chain + 1
  <1> DEFINE code == ReduceCheckpoint(s, e, k)
             t == Reduced(s, e, k)
  <1>1. code \in OutcomeCodes
    BY DEF ReduceCheckpoint, OutcomeCodes
  <1>2. e.kind \in {"barrier", "command", "authority", "checkpoint"} /\ e.proof.id \in CheckpointIds
    BY DEF Entries, CheckpointProofs
  <1>3. CASE e.kind = "barrier"
    <2>1. t = s BY <1>3 DEF Reduced
    <2> QED BY <1>3, <2>1 DEF StoreStates
  <1>4. CASE e.kind = "command"
    <2>1. t = [s EXCEPT !.chain = @ + 1, !.results = @ + 1] BY <1>4 DEF Reduced
    <2> HIDE DEF t
    <2>2. /\ t.chain = s.chain + 1 /\ t.base = s.base /\ t.outcome = s.outcome /\ t.version = s.version
          /\ s.chain \in Nat /\ s.base \in Nat
      BY <2>1 DEF StoreStates
    <2>3. t \in StoreStates
      <3>1. /\ s.chain \in Nat /\ s.results \in Nat /\ s.base \in Nat /\ s.version \in Nat
            /\ s.outcome \in SUBSET [id : CheckpointIds, code : OutcomeCodes]
        BY DEF StoreStates
      <3>2. t = [version |-> s.version, chain |-> s.chain + 1, results |-> s.results + 1,
                 base |-> s.base, outcome |-> s.outcome]
        BY <2>1 DEF StoreStates
      <3> QED BY <3>1, <3>2 DEF StoreStates
    <2>4. t.base <= t.chain /\ s.base <= t.base BY <2>2
    <2> QED BY <1>4, <2>2, <2>3, <2>4 DEF t
  <1>5. CASE e.kind = "authority"
    <2>1. t = [s EXCEPT !.chain = @ + 1, !.results = @ + 1, !.version = @ + 1] BY <1>5 DEF Reduced
    <2> HIDE DEF t
    <2>2. /\ t.chain = s.chain + 1 /\ t.base = s.base /\ t.outcome = s.outcome
          /\ s.chain \in Nat /\ s.base \in Nat
      BY <2>1 DEF StoreStates
    <2>3. t \in StoreStates
      <3>1. /\ s.chain \in Nat /\ s.results \in Nat /\ s.base \in Nat /\ s.version \in Nat
            /\ s.outcome \in SUBSET [id : CheckpointIds, code : OutcomeCodes]
        BY DEF StoreStates
      <3>2. t = [version |-> s.version + 1, chain |-> s.chain + 1, results |-> s.results + 1,
                 base |-> s.base, outcome |-> s.outcome]
        BY <2>1 DEF StoreStates
      <3> QED BY <3>1, <3>2 DEF StoreStates
    <2>4. t.base <= t.chain /\ s.base <= t.base BY <2>2
    <2> QED BY <1>5, <2>2, <2>3, <2>4 DEF t
  <1>6. CASE e.kind = "checkpoint" /\ Decided(s, e.proof.id)
    <2>1. t = s BY <1>6 DEF Reduced
    <2> QED BY <1>6, <2>1 DEF StoreStates
  <1>7. CASE e.kind = "checkpoint" /\ ~Decided(s, e.proof.id)
    <2>1. t = [s EXCEPT !.results = @ + 1, !.chain = @ + (IF code = "accepted" THEN 1 ELSE 0),
                        !.base  = IF code = "accepted" THEN s.chain + 1 ELSE @,
                        !.outcome = @ \cup {[id |-> e.proof.id, code |-> code]}]
      BY <1>7 DEF Reduced
    <2> HIDE DEF code
    <2>2. /\ t.results = s.results + 1 /\ t.chain = s.chain + (IF code = "accepted" THEN 1 ELSE 0)
          /\ t.base = (IF code = "accepted" THEN s.chain + 1 ELSE s.base)
          /\ t.outcome = s.outcome \cup {[id |-> e.proof.id, code |-> code]} /\ t.version = s.version
      BY <2>1 DEF StoreStates
    <2>3. [id |-> e.proof.id, code |-> code] \in [id : CheckpointIds, code : OutcomeCodes]
      BY <1>1, <1>2
    <2>4. t \in StoreStates
      <3>1. /\ s.chain \in Nat /\ s.results \in Nat /\ s.base \in Nat /\ s.version \in Nat
            /\ s.outcome \in SUBSET [id : CheckpointIds, code : OutcomeCodes]
        BY DEF StoreStates
      <3>2. t.chain \in Nat /\ t.results \in Nat /\ t.base \in Nat /\ t.version \in Nat
        BY <2>2, <3>1
      <3>3. t.outcome \in SUBSET [id : CheckpointIds, code : OutcomeCodes]
        BY <2>2, <2>3, <3>1
      <3>4. t = [version |-> t.version, chain |-> t.chain, results |-> t.results, base |-> t.base,
                 outcome |-> t.outcome]
        BY <2>1 DEF StoreStates
      <3> HIDE DEF t
      <3> QED BY <3>2, <3>3, <3>4 DEF StoreStates
    <2>5. t.base <= t.chain /\ s.base <= t.base
      BY <2>2 DEF StoreStates
    <2>6. ASSUME NEW o \in t.outcome, o \notin s.outcome
          PROVE  o.id = e.proof.id /\ o.code = code /\ (o.code = "accepted" => t.base = s.chain + 1)
      BY <2>2, <2>6
    <2> HIDE DEF t
    <2> QED BY <1>7, <2>2, <2>4, <2>5, <2>6 DEF code, t
  <1> QED BY <1>2, <1>3, <1>4, <1>5, <1>6, <1>7

LEMMA ReplayFacts ==
    ASSUME NEW L \in Seq(Entries)
    PROVE  \A k \in 0 .. Len(L) : ReplayHolds(L, k)
  <1> DEFINE S == {k \in 0 .. Len(L) : ~ReplayHolds(L, k)}
  <1>1. SUFFICES ASSUME S # {} PROVE FALSE
    OBVIOUS
  <1>2. S \in SUBSET Nat /\ Len(L) \in Nat
    OBVIOUS
  <1>3. PICK k \in S : \A j \in S : k <= j
    <2> HIDE DEF S
    <2> QED BY <1>1, <1>2, LeastNat
  <1>4. k \in 0 .. Len(L) /\ ~ReplayHolds(L, k)
    OBVIOUS
  <1>5. CASE k = 0
    <2>1. StoreOf(L, 0) = Genesis
      BY StoreSteps
    <2>2. Genesis \in StoreStates /\ Genesis.outcome = {} /\ Genesis.base <= Genesis.chain
      BY DEF Genesis, StoreStates
    <2>3. \A j \in 0 .. 0 : j = 0
      OBVIOUS
    <2>4. ReplayHolds(L, 0)
      BY <2>1, <2>2, <2>3 DEF ReplayHolds, StoreStates
    <2> QED BY <1>4, <1>5, <2>4
  <1>6. CASE k # 0
    <2> DEFINE h == k - 1
    <2>1. h \in 0 .. Len(L) /\ k \in 1 .. Len(L) /\ ~(k <= h) /\ k \in Nat /\ h \in Nat
      BY <1>2, <1>4, <1>6
    <2>2. ReplayHolds(L, h)
      BY <1>3, <2>1
    <2>3. StoreOf(L, k) = Reduced(StoreOf(L, h), L[k], k)
      BY <2>1, StoreSteps
    <2>4. L[k] \in Entries
      BY <2>1
    <2>5. StoreOf(L, h) \in StoreStates /\ StoreOf(L, h).base <= StoreOf(L, h).chain
      BY <2>2 DEF ReplayHolds
    <2>6. /\ StoreOf(L, k) \in StoreStates
          /\ StoreOf(L, k).base <= StoreOf(L, k).chain
          /\ StoreOf(L, h).base <= StoreOf(L, k).base
          /\ L[k].kind # "authority" => StoreOf(L, k).version = StoreOf(L, h).version
          /\ \A o \in StoreOf(L, k).outcome :
                \/ o \in StoreOf(L, h).outcome
                \/ /\ L[k].kind = "checkpoint" /\ o.id = L[k].proof.id
                   /\ o.code = ReduceCheckpoint(StoreOf(L, h), L[k], k)
                   /\ o.code = "accepted" => StoreOf(L, k).base = StoreOf(L, h).chain + 1
      BY <2>1, <2>3, <2>4, <2>5, ReducedStep
    <2>7. ASSUME NEW j \in 0 .. k
          PROVE  /\ StoreOf(L, j).base <= StoreOf(L, k).base
                 /\ (\A m \in j + 1 .. k : L[m].kind # "authority")
                        => StoreOf(L, j).version = StoreOf(L, k).version
      <3>1. CASE j = k BY <2>6, <3>1 DEF StoreStates
      <3>2. CASE j # k
        <4>1. j \in 0 .. h /\ k \in j + 1 .. k /\ \A m \in j + 1 .. h : m \in j + 1 .. k
          BY <2>1, <3>2
        <4>2. StoreOf(L, j).base <= StoreOf(L, h).base
          BY <2>2, <4>1 DEF ReplayHolds
        <4>3. \A i \in {j, h, k} : StoreOf(L, i).base \in Nat
          <5>1. \A i \in {h, k} : StoreOf(L, i).base \in Nat BY <2>5, <2>6 DEF StoreStates
          <5>2. CASE j = h BY <5>1, <5>2
          <5>3. CASE j # h
            <6>1. j \in 0 .. Len(L) /\ ~(k <= j) BY <2>1, <4>1
            <6>2. ReplayHolds(L, j) BY <1>3, <6>1
            <6> QED BY <5>1, <6>2 DEF ReplayHolds, StoreStates
          <5> QED BY <5>2, <5>3
        <4>4. (\A m \in j + 1 .. h : L[m].kind # "authority")
                  => StoreOf(L, j).version = StoreOf(L, h).version
          BY <2>2, <4>1 DEF ReplayHolds
        <4>5. StoreOf(L, j).base <= StoreOf(L, k).base
          BY <2>6, <4>2, <4>3
        <4> QED BY <2>6, <4>1, <4>4, <4>5
      <3> QED BY <3>1, <3>2
    <2>8. ASSUME NEW o \in StoreOf(L, k).outcome PROVE \E i \in 1 .. k : Decides(L, i, o)
      <3>1. CASE o \in StoreOf(L, h).outcome
        <4>1. PICK i \in 1 .. h : Decides(L, i, o)
          BY <2>2, <3>1 DEF ReplayHolds
        <4>2. i \in 1 .. k BY <2>1
        <4> QED BY <4>1, <4>2
      <3>2. CASE o \notin StoreOf(L, h).outcome
        <4>1. Decides(L, k, o) BY <2>6, <3>2 DEF Decides
        <4>2. k \in 1 .. k BY <2>1
        <4> QED BY <4>1, <4>2
      <3> QED BY <3>1, <3>2
    <2>9. ReplayHolds(L, k)
      BY <2>6, <2>7, <2>8 DEF ReplayHolds
    <2> QED BY <1>4, <2>9
  <1> QED BY <1>5, <1>6


-----------------------------------------------------------------------------
(* The inductive invariant *)

AttemptStages == {"none", "lane", "barrier", "view", "sign", "recheck", "reserve", "enqueue",
                  "decide", "replay"}
CheckpointTypes ==
    /\ log \in Seq(Entries) /\ term \in Nat /\ leader \in Nodes \cup {NoNode}
    /\ commit \in [Nodes -> Nat] /\ stored \in [Nodes -> Nat]
    /\ reserved \in [Nodes -> CheckpointProofs] /\ sequence \in [Nodes -> Nat]
    /\ attempt \in [Nodes -> [stage : AttemptStages, epoch : Nat, cut : Nat, proof : CheckpointProofs]]
    /\ cadence \in [Nodes -> [base : Nat, pending : Nat, waiting : BOOLEAN, failed : BOOLEAN]]
    /\ broken \in [Nodes -> {"no", "mismatch", "rejected"}]

CutsOrdered == \A n \in Nodes : stored[n] <= commit[n] /\ commit[n] <= Len(log)

\* What a proof says is so, at a position that is committed.
HeadsTrue(p) ==
    /\ \E n \in Nodes : p.covered <= commit[n]
    /\ StoreOf(log, p.covered).version = p.version
    /\ StoreOf(log, p.covered).chain = p.chain /\ StoreOf(log, p.covered).results = p.results
Backed(p) == HeadsTrue(p) /\ p.signer \in AuthorityOf[p.version]

\* The proofs that are in the log, in an outbox or about to be enqueued.
Issued(p) ==
    \/ \E k \in 1 .. Len(log) : log[k].kind = "checkpoint" /\ log[k].proof = p
    \/ p # Absent /\ \E n \in Nodes : reserved[n] = p
    \/ \E n \in Nodes : attempt[n].stage \in {"enqueue", "decide"} /\ attempt[n].proof = p
IssuedHold == \A p \in CheckpointProofs : Issued(p) =>
    Backed(p) /\ p.id[1] \in Nodes /\ p.id[2] \in 1 .. sequence[p.id[1]]
IdsUnique == \A p, q \in CheckpointProofs : Issued(p) /\ Issued(q) /\ p.id = q.id => p = q
LogForward == \A k \in 1 .. Len(log) : log[k].kind = "checkpoint" => log[k].proof.covered < k

\* What an attempt has established at each stage, and what its scheduler saw before it.
AttemptCut(n) ==
    /\ attempt[n].stage = "view" => attempt[n].cut <= stored[n]
    /\ attempt[n].stage \in {"sign", "recheck", "reserve"} => HeadsTrue(attempt[n].proof)
    /\ attempt[n].stage \in {"recheck", "reserve"} =>
          attempt[n].proof.signer \in AuthorityOf[attempt[n].proof.version]
    /\ attempt[n].stage \in {"sign", "recheck", "reserve", "enqueue", "decide"} =>
          cadence[n].base <= StoreOf(log, attempt[n].proof.covered).base
CadenceHolds(n) ==
    /\ cadence[n].base <= StoreOf(log, stored[n]).base
    /\ cadence[n].pending <= StoreOf(log, stored[n]).base
    /\ ~cadence[n].failed
SchedulesHold == \A n \in Nodes : AttemptCut(n) /\ CadenceHolds(n)

CheckpointsInv ==
    /\ CheckpointTypes /\ CutsOrdered /\ IssuedHold /\ IdsUnique /\ LogForward
    /\ SchedulesHold /\ CheckpointsTrue

\* What the stores found in the committed part of the log is found there again.
CommittedKept ==
    /\ CheckpointTypes' /\ CutsOrdered'
    /\ \A n \in Nodes : commit[n] <= commit'[n] /\ stored[n] <= stored'[n] /\ sequence[n] <= sequence'[n]
    /\ \A n \in Nodes : \A k \in 0 .. commit[n] : StoreOf(log', k) = StoreOf(log, k)

-----------------------------------------------------------------------------
(* What follows from it *)

LEMMA FurthestHolds ==
    ASSUME CheckpointTypes, CutsOrdered, NEW n \in Nodes
    PROVE  Furthest \in Nat /\ Furthest <= Len(log) /\ \A m \in Nodes : commit[m] <= Furthest
  <1> DEFINE U == {k \in Nat : \A m \in Nodes : commit[m] <= k}
  <1>1. Len(log) \in U /\ U \in SUBSET Nat /\ Len(log) \in Nat
    BY DEF CheckpointTypes, CutsOrdered
  <1>2. PICK u \in U : \A k \in U : u <= k
    <2> HIDE DEF U
    <2> QED BY <1>1, LeastNat
  <1>3. u \in Nat /\ \A m \in Nodes : commit[m] <= u
    OBVIOUS
  <1>4. \E m \in Nodes : commit[m] = u
    <2>1. SUFFICES ASSUME \A m \in Nodes : commit[m] # u PROVE FALSE
      OBVIOUS
    <2>2. \A m \in Nodes : commit[m] \in Nat BY DEF CheckpointTypes
    <2>3. \A m \in Nodes : commit[m] <= u - 1 BY <1>3, <2>1, <2>2
    <2>4. u - 1 \in Nat BY <1>3, <2>2, <2>3
    <2>5. u - 1 \in U BY <2>3, <2>4
    <2> QED BY <1>2, <1>3, <2>5
  <1>5. \E k \in {commit[m] : m \in Nodes} : \A m \in Nodes : commit[m] <= k
    BY <1>3, <1>4
  <1>6. Furthest \in {commit[m] : m \in Nodes} /\ \A m \in Nodes : commit[m] <= Furthest
    BY <1>5, Zenon DEF Furthest
  <1> QED BY <1>6 DEF CheckpointTypes, CutsOrdered

\* An entry is appended after the first k, of which all that is committed is one.
LogStep(k, e) ==
    /\ k \in 0 .. Len(log) /\ e \in Entries /\ \A n \in Nodes : commit[n] <= k
    /\ log' \in Seq(Entries) /\ Len(log') = k + 1
    /\ \A i \in 1 .. k : log'[i] = log[i]
    /\ log'[k + 1] = e

LEMMA AppendIsLogStep ==
    ASSUME CheckpointTypes, CutsOrdered, NEW e \in Entries, log' = Append(log, e)
    PROVE  LogStep(Len(log), e)
BY DEF CheckpointTypes, CutsOrdered, LogStep

LEMMA CutIsLogStep ==
    ASSUME CheckpointTypes, CutsOrdered, NEW e \in Entries, NEW k \in 0 .. Len(log),
           \A n \in Nodes : commit[n] <= k, log' = Append(SubSeq(log, 1, k), e)
    PROVE  LogStep(k, e)
  <1> DEFINE p == SubSeq(log, 1, k)
  <1>1. log \in Seq(Entries) /\ Len(log) \in Nat BY DEF CheckpointTypes
  <1>2. p \in Seq(Entries) /\ Len(p) = k /\ \A i \in 1 .. k : p[i] = log[i]
    BY <1>1
  <1> HIDE DEF p
  <1>3. Append(p, e) \in Seq(Entries) /\ Len(Append(p, e)) = k + 1 /\ Append(p, e)[k + 1] = e
        /\ \A i \in 1 .. k : Append(p, e)[i] = p[i]
    BY <1>2
  <1> QED BY <1>1, <1>2, <1>3 DEF LogStep, p

LEMMA SameLogKeeps ==
    ASSUME CheckpointsInv, CheckpointTypes', CutsOrdered', log' = log,
           \A n \in Nodes : commit[n] <= commit'[n] /\ stored[n] <= stored'[n] /\ sequence[n] <= sequence'[n]
    PROVE  CommittedKept
BY DEF CommittedKept

LEMMA LogStepKeeps ==
    ASSUME CheckpointsInv, CheckpointTypes', NEW k, NEW e, LogStep(k, e),
           UNCHANGED <<commit, stored>>,
           \A n \in Nodes : sequence[n] <= sequence'[n]
    PROVE  CommittedKept
  <1>1. log \in Seq(Entries) /\ Len(log) \in Nat /\ k \in Nat /\ k <= Len(log) /\ k <= Len(log')
    BY DEF CheckpointsInv, CheckpointTypes, LogStep
  <1>2. \A i \in 0 .. k : StoreOf(log', i) = StoreOf(log, i)
    BY <1>1, StoreOfPrefix DEF LogStep
  <1>3. \A n \in Nodes : stored[n] \in Nat /\ commit[n] \in Nat /\ stored[n] <= commit[n] /\ commit[n] <= k
    BY DEF CheckpointsInv, CheckpointTypes, CutsOrdered, LogStep
  <1>4. CutsOrdered' BY <1>1, <1>3 DEF CutsOrdered
  <1>5. \A n \in Nodes : \A i \in 0 .. commit[n] : i \in 0 .. k BY <1>1, <1>3
  <1> QED BY <1>2, <1>3, <1>4, <1>5 DEF CommittedKept

LEMMA ProofsKept ==
    ASSUME CheckpointsInv, CommittedKept, NEW p \in CheckpointProofs, HeadsTrue(p)
    PROVE  /\ HeadsTrue(p)' /\ StoreOf(log', p.covered) = StoreOf(log, p.covered)
           /\ p.covered <= Len(log) /\ p.covered <= Len(log') /\ p.covered \in Nat
  <1>1. PICK n \in Nodes : p.covered <= commit[n] BY DEF HeadsTrue
  <1>2. /\ p.covered \in Nat /\ commit[n] \in Nat /\ commit'[n] \in Nat /\ commit[n] <= commit'[n]
        /\ Len(log) \in Nat /\ Len(log') \in Nat /\ commit[n] <= Len(log) /\ commit'[n] <= Len(log')
    <2>1. p.covered \in Nat BY DEF CheckpointProofs
    <2>2. commit[n] \in Nat /\ Len(log) \in Nat BY DEF CheckpointsInv, CheckpointTypes
    <2>3. commit'[n] \in Nat /\ Len(log') \in Nat BY DEF CommittedKept, CheckpointTypes
    <2>4. commit[n] <= Len(log) BY DEF CheckpointsInv, CutsOrdered
    <2>5. commit'[n] <= Len(log') /\ commit[n] <= commit'[n] BY DEF CommittedKept, CutsOrdered
    <2> QED BY <2>1, <2>2, <2>3, <2>4, <2>5
  <1>3. p.covered \in 0 .. commit[n] BY <1>1, <1>2
  <1>4. StoreOf(log', p.covered) = StoreOf(log, p.covered) BY <1>3 DEF CommittedKept
  <1>5. p.covered <= commit'[n] BY <1>1, <1>2
  <1> QED BY <1>1, <1>2, <1>4, <1>5 DEF HeadsTrue

\* A store that has applied more has a baseline at least as high.
LEMMA BaseRises ==
    ASSUME NEW L \in Seq(Entries), NEW k \in Nat, k <= Len(L), NEW j \in Nat, j <= k
    PROVE  StoreOf(L, j).base \in Nat /\ StoreOf(L, k).base \in Nat /\ StoreOf(L, j).base <= StoreOf(L, k).base
  <1>1. Len(L) \in Nat /\ j \in 0 .. Len(L) /\ k \in 0 .. Len(L) /\ j \in 0 .. k OBVIOUS
  <1> QED BY <1>1, ReplayFacts DEF ReplayHolds, StoreStates

LEMMA CadenceKept ==
    ASSUME CheckpointsInv, CommittedKept, NEW n \in Nodes, cadence'[n] = cadence[n]
    PROVE  CadenceHolds(n)'
  <1>1. /\ CadenceHolds(n) /\ stored[n] \in Nat /\ stored'[n] \in Nat /\ commit[n] \in Nat
        /\ stored[n] <= stored'[n] /\ stored'[n] <= commit'[n] /\ commit'[n] \in Nat
        /\ commit'[n] <= Len(log') /\ log' \in Seq(Entries) /\ Len(log') \in Nat /\ stored[n] <= commit[n]
        /\ cadence[n].base \in Nat /\ cadence[n].pending \in Nat
    <2>1. CadenceHolds(n) /\ stored[n] <= commit[n] BY DEF CheckpointsInv, CutsOrdered, SchedulesHold
    <2>2. stored[n] \in Nat /\ commit[n] \in Nat /\ cadence[n].base \in Nat /\ cadence[n].pending \in Nat
      BY DEF CheckpointsInv, CheckpointTypes
    <2>3. stored'[n] \in Nat /\ commit'[n] \in Nat /\ log' \in Seq(Entries) /\ Len(log') \in Nat
      BY DEF CommittedKept, CheckpointTypes
    <2>4. stored[n] <= stored'[n] /\ stored'[n] <= commit'[n] /\ commit'[n] <= Len(log')
      BY DEF CommittedKept, CutsOrdered
    <2> QED BY <2>1, <2>2, <2>3, <2>4
  <1>2. stored[n] \in 0 .. commit[n] /\ stored'[n] <= Len(log') BY <1>1
  <1>3. StoreOf(log', stored[n]) = StoreOf(log, stored[n]) BY <1>2 DEF CommittedKept
  <1>4. /\ StoreOf(log', stored[n]).base <= StoreOf(log', stored'[n]).base
        /\ StoreOf(log', stored[n]).base \in Nat /\ StoreOf(log', stored'[n]).base \in Nat
    BY <1>1, <1>2, BaseRises
  <1> QED BY <1>1, <1>3, <1>4 DEF CadenceHolds

LEMMA AttemptKept ==
    ASSUME CheckpointsInv, CommittedKept, NEW n \in Nodes, attempt'[n] = attempt[n],
           cadence'[n].base = cadence[n].base
    PROVE  AttemptCut(n)'
  <1>1. /\ AttemptCut(n) /\ stored[n] \in Nat /\ stored'[n] \in Nat /\ stored[n] <= stored'[n]
        /\ attempt[n].cut \in Nat /\ attempt[n].proof \in CheckpointProofs
    BY DEF CheckpointsInv, CheckpointTypes, CommittedKept, SchedulesHold
  <1>2. PICK p \in CheckpointProofs : p = attempt[n].proof BY <1>1
  <1>3. attempt[n].stage \in {"enqueue", "decide"} => HeadsTrue(p)
    BY <1>2 DEF CheckpointsInv, IssuedHold, Issued, Backed
  <1>4. attempt[n].stage \in {"sign", "recheck", "reserve"} => HeadsTrue(p)
    BY <1>1, <1>2 DEF AttemptCut
  <1>5. attempt[n].stage = "view" => attempt[n].cut <= stored'[n] BY <1>1 DEF AttemptCut
  <1>6. HeadsTrue(p) => HeadsTrue(p)' /\ StoreOf(log', p.covered) = StoreOf(log, p.covered)
    BY ProofsKept
  <1>7. attempt'[n].proof = p BY <1>2
  <1> QED BY <1>1, <1>2, <1>3, <1>4, <1>5, <1>6, <1>7 DEF AttemptCut, HeadsTrue


-----------------------------------------------------------------------------
(* One step *)

LEMMA IssuedStay ==
    ASSUME CheckpointsInv, CommittedKept, \A p \in CheckpointProofs : Issued(p)' => Issued(p)
    PROVE  IssuedHold' /\ IdsUnique'
  <1>1. ASSUME NEW p \in CheckpointProofs, Issued(p)'
        PROVE  Backed(p)' /\ p.id[1] \in Nodes /\ p.id[2] \in 1 .. sequence'[p.id[1]]
    <2>1. Backed(p) /\ p.id[1] \in Nodes /\ p.id[2] \in 1 .. sequence[p.id[1]]
      BY <1>1 DEF CheckpointsInv, IssuedHold
    <2>2. HeadsTrue(p)' BY <2>1, ProofsKept DEF Backed
    <2>3. /\ sequence[p.id[1]] <= sequence'[p.id[1]]
          /\ sequence[p.id[1]] \in Nat /\ sequence'[p.id[1]] \in Nat
      BY <2>1 DEF CheckpointsInv, CheckpointTypes, CommittedKept
    <2>4. p.id[2] \in 1 .. sequence'[p.id[1]] BY <2>1, <2>3
    <2> QED BY <2>1, <2>2, <2>4 DEF Backed
  <1>2. IssuedHold' BY <1>1 DEF IssuedHold
  <1>3. IdsUnique' BY DEF IdsUnique, CheckpointsInv
  <1> QED BY <1>2, <1>3

\* A step of node n that issues no new proof.
LEMMA StepKeeps ==
    ASSUME CheckpointsInv, CommittedKept, NEW n \in Nodes,
           \A m \in Nodes \ {n} : attempt'[m] = attempt[m] /\ cadence'[m] = cadence[m],
           \A m \in Nodes : reserved'[m] = reserved[m] \/ reserved'[m] = Absent,
           \A p \in CheckpointProofs :
              attempt'[n].stage \in {"enqueue", "decide"} /\ attempt'[n].proof = p => Issued(p),
           \A k \in 1 .. Len(log'), p \in CheckpointProofs :
              log'[k].kind = "checkpoint" /\ log'[k].proof = p => Issued(p) /\ p.covered < k,
           AttemptCut(n)', CadenceHolds(n)', CheckpointsTrue'
    PROVE  CheckpointsInv'
  <1>1. ASSUME NEW p \in CheckpointProofs, Issued(p)' PROVE Issued(p)
    <2>1. CASE \E k \in 1 .. Len(log') : log'[k].kind = "checkpoint" /\ log'[k].proof = p
      BY <2>1
    <2>2. CASE p # Absent /\ \E m \in Nodes : reserved'[m] = p
      BY <2>2 DEF Issued
    <2>3. CASE \E m \in Nodes : attempt'[m].stage \in {"enqueue", "decide"} /\ attempt'[m].proof = p
      <3>1. PICK m \in Nodes : attempt'[m].stage \in {"enqueue", "decide"} /\ attempt'[m].proof = p
        BY <2>3
      <3>2. CASE m = n BY <3>1, <3>2
      <3>3. CASE m # n
        <4>1. attempt'[m] = attempt[m] BY <3>3
        <4> QED BY <3>1, <4>1 DEF Issued
      <3> QED BY <3>2, <3>3
    <2> QED BY <1>1, <2>1, <2>2, <2>3 DEF Issued
  <1>2. IssuedHold' /\ IdsUnique' BY <1>1, IssuedStay
  <1>3. LogForward'
    <2>1. log' \in Seq(Entries) BY DEF CommittedKept, CheckpointTypes
    <2>2. ASSUME NEW k \in 1 .. Len(log') PROVE log'[k].proof \in CheckpointProofs
      <3>1. log'[k] \in Entries BY <2>1
      <3> QED BY <3>1 DEF Entries
    <2> QED BY <2>2 DEF LogForward
  <1>4. ASSUME NEW m \in Nodes PROVE AttemptCut(m)' /\ CadenceHolds(m)'
    <2>1. CASE m = n BY <2>1
    <2>2. CASE m # n BY <2>2, AttemptKept, CadenceKept
    <2> QED BY <2>1, <2>2
  <1>5. SchedulesHold' BY <1>4 DEF SchedulesHold
  <1> QED BY <1>2, <1>3, <1>5 DEF CheckpointsInv, CommittedKept

LEMMA LogIssued ==
    ASSUME CheckpointsInv, NEW k \in 1 .. Len(log), NEW p \in CheckpointProofs,
           log[k].kind = "checkpoint", log[k].proof = p
    PROVE  Issued(p) /\ p.covered < k
BY DEF CheckpointsInv, LogForward, Issued

\* A step of node n that leaves log, stores and outboxes alone.
LEMMA AttemptStep ==
    ASSUME CheckpointsInv, CheckpointTypes', NEW n \in Nodes,
           UNCHANGED <<log, commit, stored, reserved, sequence>>,
           \A m \in Nodes \ {n} : attempt'[m] = attempt[m] /\ cadence'[m] = cadence[m],
           \A p \in CheckpointProofs :
              attempt'[n].stage \in {"enqueue", "decide"} /\ attempt'[n].proof = p => Issued(p),
           AttemptCut(n)', CadenceHolds(n)', CheckpointsTrue'
    PROVE  CheckpointsInv'
  <1>1. CutsOrdered' BY DEF CheckpointsInv, CutsOrdered
  <1>2. ASSUME NEW m \in Nodes
        PROVE  commit[m] <= commit'[m] /\ stored[m] <= stored'[m] /\ sequence[m] <= sequence'[m]
    <2>1. commit[m] \in Nat /\ stored[m] \in Nat /\ sequence[m] \in Nat
      BY DEF CheckpointsInv, CheckpointTypes
    <2> QED BY <2>1
  <1>3. CommittedKept BY <1>1, <1>2, SameLogKeeps
  <1>4. \A k \in 1 .. Len(log'), p \in CheckpointProofs :
              log'[k].kind = "checkpoint" /\ log'[k].proof = p => Issued(p) /\ p.covered < k
    BY LogIssued
  <1> QED BY <1>3, <1>4, StepKeeps

\* A step of node n that appends to the log.
LEMMA AppendStep ==
    ASSUME CheckpointsInv, CheckpointTypes', NEW n \in Nodes, NEW k, NEW e, LogStep(k, e),
           UNCHANGED <<commit, stored, reserved, sequence, cadence, broken>>,
           \A m \in Nodes \ {n} : attempt'[m] = attempt[m],
           \A p \in CheckpointProofs :
              attempt'[n].stage \in {"enqueue", "decide"} /\ attempt'[n].proof = p => Issued(p),
           e.kind = "checkpoint" => Issued(e.proof),
           CommittedKept => AttemptCut(n)'
    PROVE  CheckpointsInv'
  <1>1. \A m \in Nodes : sequence[m] <= sequence'[m] BY DEF CheckpointsInv, CheckpointTypes
  <1>2. CommittedKept BY <1>1, LogStepKeeps
  <1>3. ASSUME NEW i \in 1 .. Len(log'), NEW p \in CheckpointProofs,
               log'[i].kind = "checkpoint", log'[i].proof = p
        PROVE  Issued(p) /\ p.covered < i
    <2>1. k \in Nat /\ k <= Len(log) /\ Len(log) \in Nat /\ Len(log') = k + 1
      BY DEF LogStep, CheckpointsInv, CheckpointTypes
    <2>2. CASE i <= k
      <3>1. i \in 1 .. k /\ i \in 1 .. Len(log) BY <2>1, <2>2
      <3>2. log'[i] = log[i] BY <3>1 DEF LogStep
      <3> QED BY <1>3, <3>1, <3>2, LogIssued
    <2>3. CASE i = k + 1
      <3>1. e.kind = "checkpoint" /\ e.proof = p BY <1>3, <2>3 DEF LogStep
      <3>2. Issued(p) BY <3>1
      <3>3. PICK m \in Nodes : p.covered <= commit[m]
        BY <3>2 DEF CheckpointsInv, IssuedHold, Backed, HeadsTrue
      <3>4. commit[m] <= k /\ commit[m] \in Nat /\ p.covered \in Nat
        BY DEF LogStep, CheckpointsInv, CheckpointTypes, CheckpointProofs
      <3> QED BY <2>1, <2>3, <3>2, <3>3, <3>4
    <2> QED BY <2>1, <2>2, <2>3
  <1>4. CadenceHolds(n)' BY <1>2, CadenceKept
  <1>5. CheckpointsTrue' BY DEF CheckpointsInv, CheckpointsTrue
  <1> QED BY <1>2, <1>3, <1>4, <1>5, StepKeeps

\* The proofs in the log are true, so no store finds a mismatch.
LEMMA NoMismatch ==
    ASSUME CheckpointsInv, NEW k \in 0 .. Len(log), NEW o \in StoreOf(log, k).outcome
    PROVE  o.code # "integrity_mismatch"
  <1>1. log \in Seq(Entries) /\ Len(log) \in Nat BY DEF CheckpointsInv, CheckpointTypes
  <1>2. PICK i \in 1 .. k : Decides(log, i, o) BY <1>1, ReplayFacts DEF ReplayHolds
  <1>3. i \in 1 .. Len(log) /\ log[i] \in Entries BY <1>1
  <1>4. PICK p \in CheckpointProofs : p = log[i].proof BY <1>3 DEF Entries
  <1>5. Issued(p) BY <1>2, <1>3, <1>4, LogIssued DEF Decides
  <1>6. HeadsTrue(p) BY <1>5 DEF CheckpointsInv, IssuedHold, Backed
  <1>7. CoversPredecessor(log[i], i) => CoversHeads(StoreOf(log, i - 1), log[i].proof)
    BY <1>4, <1>6 DEF CoversPredecessor, CoversHeads, HeadsTrue
  <1> QED BY <1>2, <1>7 DEF Decides, ReduceCheckpoint

\* An accepted checkpoint has raised the baseline above that of what it covers.
LEMMA AcceptedRaises ==
    ASSUME CheckpointsInv, NEW k \in 0 .. Len(log), NEW o \in StoreOf(log, k).outcome,
           o.code = "accepted", NEW p \in CheckpointProofs, Issued(p), p.id = o.id
    PROVE  /\ StoreOf(log, p.covered).base + 1 <= StoreOf(log, k).base
           /\ StoreOf(log, p.covered).base \in Nat /\ StoreOf(log, k).base \in Nat
  <1>1. log \in Seq(Entries) /\ Len(log) \in Nat BY DEF CheckpointsInv, CheckpointTypes
  <1>2. PICK i \in 1 .. k : Decides(log, i, o) BY <1>1, ReplayFacts DEF ReplayHolds
  <1>3. i \in 1 .. Len(log) /\ log[i] \in Entries BY <1>1
  <1>4. log[i].proof \in CheckpointProofs BY <1>3 DEF Entries
  <1>5. Issued(log[i].proof) BY <1>2, <1>3, <1>4, LogIssued DEF Decides
  <1>6. log[i].proof = p BY <1>2, <1>4, <1>5 DEF CheckpointsInv, IdsUnique, Decides
  <1>7. p.covered = i - 1 BY <1>2, <1>6 DEF Decides, ReduceCheckpoint, CoversPredecessor
  <1>8. StoreOf(log, i).base = StoreOf(log, i - 1).chain + 1 BY <1>2 DEF Decides
  <1>9. i - 1 \in 0 .. Len(log) /\ i \in Nat /\ k \in Nat /\ i <= k /\ k <= Len(log) BY <1>1, <1>3
  <1>10. StoreOf(log, i - 1).base <= StoreOf(log, i - 1).chain /\ StoreOf(log, i - 1).base \in Nat
         /\ StoreOf(log, i - 1).chain \in Nat
    BY <1>1, <1>9, ReplayFacts DEF ReplayHolds, StoreStates
  <1>11. StoreOf(log, i).base <= StoreOf(log, k).base /\ StoreOf(log, k).base \in Nat
    BY <1>1, <1>9, BaseRises
  <1> QED BY <1>7, <1>8, <1>10, <1>11

LEMMA CheckpointsInvSound ==
    ASSUME CheckpointsInv
    PROVE  CheckpointsSound
  <1>1. CheckpointsTrue BY DEF CheckpointsInv
  <1>2. SchedulersRun BY DEF CheckpointsInv, SchedulesHold, CadenceHolds, SchedulersRun
  <1>3. ASSUME NEW n \in Nodes, NEW o \in View(n).outcome, o.code = "invalid_payload"
        PROVE  \E k \in 1 .. stored[n] : /\ log[k].kind = "checkpoint" /\ log[k].proof.id = o.id
                    /\ \E j \in log[k].proof.covered + 1 .. k : log[j].kind = "authority"
    <2>1. log \in Seq(Entries) /\ Len(log) \in Nat /\ stored[n] \in 0 .. Len(log)
      BY DEF CheckpointsInv, CheckpointTypes, CutsOrdered
    <2>2. View(n) = StoreOf(log, stored[n]) BY StoreIsOfLog DEF View
    <2>3. PICK i \in 1 .. stored[n] : Decides(log, i, o)
      BY <1>3, <2>1, <2>2, ReplayFacts DEF ReplayHolds
    <2>4. i \in 1 .. Len(log) /\ log[i] \in Entries BY <2>1
    <2>5. PICK p \in CheckpointProofs : p = log[i].proof BY <2>4 DEF Entries
    <2>6. Issued(p) /\ p.covered < i BY <2>3, <2>4, <2>5, LogIssued DEF Decides
    <2>7. Backed(p) BY <2>6 DEF CheckpointsInv, IssuedHold
    <2>8. ~ProofHolds(StoreOf(log, i - 1), p)
      BY <1>3, <2>3, <2>5 DEF Decides, ReduceCheckpoint
    <2>9. StoreOf(log, i - 1).version # StoreOf(log, p.covered).version
      BY <2>7, <2>8 DEF Backed, HeadsTrue, ProofHolds
    <2>10. p.covered \in 0 .. i - 1 /\ i - 1 \in 0 .. Len(log)
      BY <2>1, <2>4, <2>6 DEF CheckpointProofs
    <2>11. PICK j \in p.covered + 1 .. i - 1 : log[j].kind = "authority"
      BY <2>1, <2>9, <2>10, ReplayFacts DEF ReplayHolds
    <2>12. j \in p.covered + 1 .. i BY <2>10
    <2> QED BY <2>3, <2>5, <2>11, <2>12 DEF Decides
  <1>4. RefusalsExplained BY <1>3 DEF RefusalsExplained
  <1> QED BY <1>1, <1>2, <1>4 DEF CheckpointsSound


-----------------------------------------------------------------------------
(* The actions *)

LEMMA CheckpointValues ==
    /\ Absent \in CheckpointProofs
    /\ Resting \in [stage : AttemptStages, epoch : Nat, cut : Nat, proof : CheckpointProofs]
    /\ Unwatched \in [base : Nat, pending : Nat, waiting : BOOLEAN, failed : BOOLEAN]
BY DEF Absent, Resting, Unwatched, CheckpointProofs, CheckpointIds, AttemptStages

LEMMA CheckpointInitHolds ==
    ASSUME CheckpointInit
    PROVE  CheckpointsInv
  <1>1. CheckpointTypes BY CheckpointValues DEF CheckpointInit, CheckpointTypes
  <1>2. CutsOrdered BY DEF CheckpointInit, CutsOrdered
  <1>3. \A p : ~Issued(p) BY DEF CheckpointInit, Issued, Resting
  <1>4. LogForward BY DEF CheckpointInit, LogForward
  <1>5. ASSUME NEW n \in Nodes PROVE AttemptCut(n) /\ CadenceHolds(n)
    <2>1. attempt[n].stage = "none" /\ stored[n] = 0 /\ log = <<>> /\ cadence[n] = Unwatched
      BY DEF CheckpointInit, Resting
    <2>2. <<>> \in Seq(Entries) OBVIOUS
    <2>3. StoreOf(log, stored[n]) = Genesis BY <2>1, <2>2, StoreSteps
    <2> QED BY <2>1, <2>3 DEF AttemptCut, CadenceHolds, Unwatched, Genesis
  <1>6. CheckpointsTrue BY DEF CheckpointInit, CheckpointsTrue
  <1> QED BY <1>1, <1>2, <1>3, <1>4, <1>5, <1>6 DEF CheckpointsInv, IssuedHold, IdsUnique, SchedulesHold

\* The attempt of n is over or begins anew.
LEMMA RestsHold ==
    ASSUME CheckpointsInv, NEW n \in Nodes,
           attempt'[n].stage \in {"none", "lane", "barrier", "replay"}
    PROVE  /\ AttemptCut(n)'
           /\ \A p \in CheckpointProofs :
                 attempt'[n].stage \in {"enqueue", "decide"} /\ attempt'[n].proof = p => Issued(p)
BY DEF AttemptCut

LEMMA SameCadence ==
    ASSUME CheckpointsInv, NEW n \in Nodes, UNCHANGED <<log, stored>>, cadence'[n] = cadence[n]
    PROVE  CadenceHolds(n)'
BY DEF CheckpointsInv, SchedulesHold, CadenceHolds

LEMMA StepDownStep ==
    ASSUME CheckpointsInv, StepDown
    PROVE  CheckpointsInv'
  <1>1. CheckpointTypes' BY DEF CheckpointsInv, CheckpointTypes, StepDown
  <1>2. /\ CutsOrdered' /\ LogForward' /\ CheckpointsTrue'
    BY DEF CheckpointsInv, StepDown, CutsOrdered, LogForward, CheckpointsTrue
  <1>3. IssuedHold' /\ IdsUnique'
    BY DEF CheckpointsInv, StepDown, IssuedHold, IdsUnique, Issued, Backed, HeadsTrue
  <1>4. SchedulesHold'
    BY DEF CheckpointsInv, StepDown, SchedulesHold, AttemptCut, CadenceHolds, HeadsTrue
  <1> QED BY <1>1, <1>2, <1>3, <1>4 DEF CheckpointsInv

LEMMA ElectStep ==
    ASSUME CheckpointsInv, NEW n \in Nodes, Elect(n)
    PROVE  CheckpointsInv'
  <1> DEFINE e == [Entry("barrier", Absent) EXCEPT !.term = term + 1]
  <1>1. CheckpointTypes /\ CutsOrdered BY DEF CheckpointsInv
  <1>2. e \in Entries /\ e.kind = "barrier"
    <2>1. e = [term |-> term + 1, kind |-> "barrier", proof |-> Absent] BY DEF Entry
    <2>2. term + 1 \in Nat BY <1>1 DEF CheckpointTypes
    <2> QED BY <2>1, <2>2, CheckpointValues DEF Entries
  <1>3. PICK k \in Furthest .. Len(log) : log' = Append(SubSeq(log, 1, k), e)
    BY DEF Elect
  <1>4. Furthest \in Nat /\ Furthest <= Len(log) /\ \A m \in Nodes : commit[m] <= Furthest
    BY <1>1, FurthestHolds
  <1>5. Len(log) \in Nat /\ \A m \in Nodes : commit[m] \in Nat BY <1>1 DEF CheckpointTypes
  <1>6. k \in 0 .. Len(log) /\ \A m \in Nodes : commit[m] <= k BY <1>4, <1>5
  <1> HIDE DEF e
  <1>7. LogStep(k, e) BY <1>1, <1>2, <1>3, <1>6, CutIsLogStep
  <1>8. CheckpointTypes'
    <2>1. log' \in Seq(Entries) BY <1>7 DEF LogStep
    <2>2. term' \in Nat /\ leader' \in Nodes \cup {NoNode} BY <1>1 DEF CheckpointTypes, Elect
    <2> QED BY <1>1, <2>1, <2>2 DEF CheckpointTypes, Elect
  <1>9. UNCHANGED <<commit, stored, reserved, sequence, attempt, cadence, broken>> BY DEF Elect
  <1>10. CommittedKept => AttemptCut(n)' BY <1>9, AttemptKept
  <1>11. \A p \in CheckpointProofs :
              attempt'[n].stage \in {"enqueue", "decide"} /\ attempt'[n].proof = p => Issued(p)
    BY <1>9 DEF Issued
  <1> QED BY <1>2, <1>7, <1>8, <1>9, <1>10, <1>11, AppendStep

LEMMA ProposeStep ==
    ASSUME CheckpointsInv, NEW n \in Nodes, Propose(n)
    PROVE  CheckpointsInv'
  <1>1. CheckpointTypes /\ CutsOrdered BY DEF CheckpointsInv
  <1>2. PICK e \in Entries : e.kind # "checkpoint" /\ log' = Append(log, e)
    <2>1. \A kind \in {"command", "authority"} :
             Entry(kind, Absent) \in Entries /\ Entry(kind, Absent).kind # "checkpoint"
      BY <1>1, CheckpointValues DEF Entry, Entries, CheckpointTypes
    <2> QED BY <2>1 DEF Propose
  <1>3. LogStep(Len(log), e) BY <1>1, <1>2, AppendIsLogStep
  <1>4. CheckpointTypes'
    <2>1. log' \in Seq(Entries) BY <1>3 DEF LogStep
    <2> QED BY <1>1, <2>1 DEF CheckpointTypes, Propose
  <1>5. UNCHANGED <<commit, stored, reserved, sequence, attempt, cadence, broken>> BY DEF Propose
  <1>6. CommittedKept => AttemptCut(n)' BY <1>5, AttemptKept
  <1>7. \A p \in CheckpointProofs :
              attempt'[n].stage \in {"enqueue", "decide"} /\ attempt'[n].proof = p => Issued(p)
    BY <1>5 DEF Issued
  <1> QED BY <1>2, <1>3, <1>4, <1>5, <1>6, <1>7, AppendStep

LEMMA EnqueueBarrierStep ==
    ASSUME CheckpointsInv, NEW n \in Nodes, EnqueueBarrier(n)
    PROVE  CheckpointsInv'
  <1> DEFINE e == Entry("barrier", Absent)
  <1>1. CheckpointTypes /\ CutsOrdered BY DEF CheckpointsInv
  <1>2. e \in Entries /\ e.kind = "barrier"
    BY <1>1, CheckpointValues DEF Entry, Entries, CheckpointTypes
  <1>3. log' = Append(log, e) BY DEF EnqueueBarrier
  <1> HIDE DEF e
  <1>4. LogStep(Len(log), e) BY <1>1, <1>2, <1>3, AppendIsLogStep
  <1> DEFINE a == [Resting EXCEPT !.stage = "barrier", !.epoch = term, !.cut = Len(log) + 1]
  <1>5. attempt' = [attempt EXCEPT ![n] = a] BY DEF EnqueueBarrier
  <1>6. a \in [stage : AttemptStages, epoch : Nat, cut : Nat, proof : CheckpointProofs] /\ a.stage = "barrier"
    <2> DEFINE c == Len(log) + 1
    <2>1. term \in Nat /\ c \in Nat BY <1>1 DEF CheckpointTypes
    <2> HIDE DEF c
    <2>2. /\ [Resting EXCEPT !.stage = "barrier", !.epoch = term, !.cut = c]
                \in [stage : AttemptStages, epoch : Nat, cut : Nat, proof : CheckpointProofs]
          /\ [Resting EXCEPT !.stage = "barrier", !.epoch = term, !.cut = c].stage = "barrier"
      BY <2>1, CheckpointValues DEF AttemptStages
    <2> QED BY <2>2 DEF c
  <1> HIDE DEF a
  <1>7. CheckpointTypes'
    <2>1. log' \in Seq(Entries) BY <1>4 DEF LogStep
    <2> QED BY <1>1, <1>5, <1>6, <2>1 DEF CheckpointTypes, EnqueueBarrier
  <1>8. UNCHANGED <<commit, stored, reserved, sequence, cadence, broken>> BY DEF EnqueueBarrier
  <1>9. attempt'[n].stage = "barrier" /\ \A m \in Nodes \ {n} : attempt'[m] = attempt[m]
    BY <1>1, <1>5, <1>6 DEF CheckpointTypes
  <1>10. /\ AttemptCut(n)'
         /\ \A p \in CheckpointProofs :
              attempt'[n].stage \in {"enqueue", "decide"} /\ attempt'[n].proof = p => Issued(p)
    BY <1>9, RestsHold
  <1> QED BY <1>2, <1>4, <1>7, <1>8, <1>9, <1>10, AppendStep

LEMMA EnqueueCheckpointStep ==
    ASSUME CheckpointsInv, NEW n \in Nodes, EnqueueCheckpoint(n)
    PROVE  CheckpointsInv'
  <1> DEFINE e == Entry("checkpoint", attempt[n].proof)
  <1>1. CheckpointTypes /\ CutsOrdered BY DEF CheckpointsInv
  <1>2. e \in Entries /\ e.kind = "checkpoint" /\ e.proof = attempt[n].proof
    BY <1>1 DEF Entry, Entries, CheckpointTypes
  <1>3. log' = Append(log, e) BY DEF EnqueueCheckpoint
  <1>4. Issued(attempt[n].proof) BY DEF EnqueueCheckpoint, Issued
  <1> HIDE DEF e
  <1>5. LogStep(Len(log), e) BY <1>1, <1>2, <1>3, AppendIsLogStep
  <1>6. attempt' = [attempt EXCEPT ![n].stage = "decide"] BY DEF EnqueueCheckpoint, Go
  <1>7. CheckpointTypes'
    <2>1. log' \in Seq(Entries) BY <1>5 DEF LogStep
    <2>2. attempt' \in [Nodes -> [stage : AttemptStages, epoch : Nat, cut : Nat, proof : CheckpointProofs]]
      <3>1. PICK a \in [stage : AttemptStages, epoch : Nat, cut : Nat, proof : CheckpointProofs] : a = attempt[n]
        BY <1>1 DEF CheckpointTypes
      <3>2. "decide" \in AttemptStages BY DEF AttemptStages
      <3>3. [a EXCEPT !.stage = "decide"]
              \in [stage : AttemptStages, epoch : Nat, cut : Nat, proof : CheckpointProofs]
        BY <3>2
      <3>4. attempt' = [attempt EXCEPT ![n] = [a EXCEPT !.stage = "decide"]] BY <1>6, <3>1
      <3> QED BY <1>1, <3>3, <3>4 DEF CheckpointTypes
    <2> QED BY <1>1, <2>1, <2>2 DEF CheckpointTypes, EnqueueCheckpoint
  <1>8. UNCHANGED <<commit, stored, reserved, sequence, cadence, broken>> BY DEF EnqueueCheckpoint
  <1>9. /\ attempt'[n].stage = "decide" /\ attempt'[n].proof = attempt[n].proof
        /\ \A m \in Nodes \ {n} : attempt'[m] = attempt[m]
    BY <1>1, <1>6 DEF CheckpointTypes
  <1>10. ASSUME CommittedKept PROVE AttemptCut(n)'
    <2>1. PICK p \in CheckpointProofs : p = attempt[n].proof BY <1>1 DEF CheckpointTypes
    <2>2. HeadsTrue(p) BY <1>4, <2>1 DEF CheckpointsInv, IssuedHold, Backed
    <2>3. StoreOf(log', p.covered) = StoreOf(log, p.covered) BY <1>10, <2>2, ProofsKept
    <2>4. attempt[n].stage = "enqueue" BY DEF EnqueueCheckpoint
    <2>5. cadence[n].base <= StoreOf(log, p.covered).base
      BY <2>1, <2>4 DEF CheckpointsInv, SchedulesHold, AttemptCut
    <2> QED BY <1>8, <1>9, <2>1, <2>3, <2>5 DEF AttemptCut
  <1>11. \A p \in CheckpointProofs :
              attempt'[n].stage \in {"enqueue", "decide"} /\ attempt'[n].proof = p => Issued(p)
    BY <1>4, <1>9
  <1>12. Issued(e.proof) BY <1>2, <1>4
  <1> QED BY <1>5, <1>7, <1>8, <1>9, <1>10, <1>11, <1>12, AppendStep

LEMMA ReplayProofStep ==
    ASSUME CheckpointsInv, NEW n \in Nodes, ReplayProof(n)
    PROVE  CheckpointsInv'
  <1> DEFINE e == Entry("checkpoint", reserved[n])
  <1>1. CheckpointTypes /\ CutsOrdered BY DEF CheckpointsInv
  <1>2. e \in Entries /\ e.kind = "checkpoint" /\ e.proof = reserved[n]
    BY <1>1 DEF Entry, Entries, CheckpointTypes
  <1>3. log' = Append(log, e) BY DEF ReplayProof
  <1>4. Issued(e.proof) BY <1>2 DEF ReplayProof, Issued
  <1> HIDE DEF e
  <1>5. LogStep(Len(log), e) BY <1>1, <1>2, <1>3, AppendIsLogStep
  <1> DEFINE a == [Resting EXCEPT !.stage = "replay", !.proof = reserved[n]]
  <1>6. attempt' = [attempt EXCEPT ![n] = a] BY DEF ReplayProof
  <1>7. a \in [stage : AttemptStages, epoch : Nat, cut : Nat, proof : CheckpointProofs] /\ a.stage = "replay"
    BY <1>1, CheckpointValues DEF CheckpointTypes, AttemptStages
  <1> HIDE DEF a
  <1>8. CheckpointTypes'
    <2>1. log' \in Seq(Entries) BY <1>5 DEF LogStep
    <2> QED BY <1>1, <1>6, <1>7, <2>1 DEF CheckpointTypes, ReplayProof
  <1>9. UNCHANGED <<commit, stored, reserved, sequence, cadence, broken>> BY DEF ReplayProof
  <1>10. attempt'[n].stage = "replay" /\ \A m \in Nodes \ {n} : attempt'[m] = attempt[m]
    BY <1>1, <1>6, <1>7 DEF CheckpointTypes
  <1>11. /\ AttemptCut(n)'
         /\ \A p \in CheckpointProofs :
              attempt'[n].stage \in {"enqueue", "decide"} /\ attempt'[n].proof = p => Issued(p)
    BY <1>10, RestsHold
  <1> QED BY <1>4, <1>5, <1>8, <1>9, <1>10, <1>11, AppendStep


LEMMA LearnStep ==
    ASSUME CheckpointsInv, NEW n \in Nodes, Learn(n)
    PROVE  CheckpointsInv'
  <1>1. CheckpointTypes /\ CutsOrdered BY DEF CheckpointsInv
  <1>2. UNCHANGED <<log, stored, reserved, sequence, attempt, cadence, broken>> BY DEF Learn
  <1>3. Furthest \in Nat /\ Furthest <= Len(log) BY <1>1, FurthestHolds
  <1>4. PICK c \in Nat : commit[n] < c /\ c <= Len(log) /\ commit' = [commit EXCEPT ![n] = c]
    <2>1. Len(log) \in Nat BY <1>1 DEF CheckpointTypes
    <2>2. CASE commit[n] < Len(log) /\ commit' = [commit EXCEPT ![n] = Len(log)]
      <3>1. Len(log) <= Len(log) BY <2>1
      <3> QED BY <2>1, <2>2, <3>1, Zenon
    <2>3. CASE commit[n] < Furthest /\ commit' = [commit EXCEPT ![n] = Furthest] BY <1>3, <2>3
    <2> QED BY <2>2, <2>3 DEF Learn
  <1>5. CheckpointTypes' BY <1>1, <1>4 DEF CheckpointTypes, Learn
  <1>6. ASSUME NEW m \in Nodes
        PROVE  /\ stored'[m] <= commit'[m] /\ commit'[m] <= Len(log')
               /\ commit[m] <= commit'[m] /\ stored[m] <= stored'[m] /\ sequence[m] <= sequence'[m]
    <2>1. /\ commit[m] \in Nat /\ stored[m] \in Nat /\ sequence[m] \in Nat /\ Len(log) \in Nat
          /\ stored[m] <= commit[m] /\ commit[m] <= Len(log)
      BY <1>1 DEF CheckpointTypes, CutsOrdered
    <2>2. commit'[m] = IF m = n THEN c ELSE commit[m] BY <1>1, <1>4 DEF CheckpointTypes
    <2>3. CASE m = n BY <1>2, <1>4, <2>1, <2>2, <2>3
    <2>4. CASE m # n BY <1>2, <2>1, <2>2, <2>4
    <2> QED BY <2>3, <2>4
  <1>7. CutsOrdered' BY <1>6 DEF CutsOrdered
  <1>8. CommittedKept BY <1>2, <1>5, <1>6, <1>7, SameLogKeeps
  <1>9. \A k \in 1 .. Len(log'), p \in CheckpointProofs :
              log'[k].kind = "checkpoint" /\ log'[k].proof = p => Issued(p) /\ p.covered < k
    BY <1>2, LogIssued
  <1>10. AttemptCut(n)' /\ CadenceHolds(n)' BY <1>2, <1>8, AttemptKept, CadenceKept
  <1>11. \A p \in CheckpointProofs :
              attempt'[n].stage \in {"enqueue", "decide"} /\ attempt'[n].proof = p => Issued(p)
    BY <1>2 DEF Issued
  <1>12. CheckpointsTrue' BY <1>2 DEF CheckpointsInv, CheckpointsTrue
  <1> QED BY <1>2, <1>8, <1>9, <1>10, <1>11, <1>12, StepKeeps

LEMMA ApplyEntriesStep ==
    ASSUME CheckpointsInv, NEW n \in Nodes, ApplyEntries(n)
    PROVE  CheckpointsInv'
  <1>1. CheckpointTypes /\ CutsOrdered BY DEF CheckpointsInv
  <1>2. UNCHANGED <<log, commit, sequence, attempt, cadence>> BY DEF ApplyEntries
  <1>3. stored[n] < commit[n] /\ stored' = [stored EXCEPT ![n] = commit[n]] BY DEF ApplyEntries
  <1>4. broken' = broken
    <2>1. commit[n] \in 0 .. Len(log) BY <1>1 DEF CheckpointTypes, CutsOrdered
    <2>2. \A o \in StoreOf(log, commit[n]).outcome : o.code # "integrity_mismatch"
      BY <2>1, NoMismatch
    <2>3. \A o \in StoreAt(commit[n]).outcome : o.code # "integrity_mismatch"
      BY <2>2, StoreIsOfLog
    <2> QED BY <2>3 DEF ApplyEntries
  <1>5. reserved' = reserved \/ reserved' = [reserved EXCEPT ![n] = Absent] BY DEF ApplyEntries
  <1>6. CheckpointTypes'
    <2>1. stored' \in [Nodes -> Nat] BY <1>1, <1>3 DEF CheckpointTypes
    <2>2. reserved' \in [Nodes -> CheckpointProofs] BY <1>1, <1>5, CheckpointValues DEF CheckpointTypes
    <2> QED BY <1>1, <1>4, <2>1, <2>2 DEF CheckpointTypes, ApplyEntries
  <1>7. ASSUME NEW m \in Nodes
        PROVE  /\ stored'[m] <= commit'[m] /\ commit'[m] <= Len(log')
               /\ commit[m] <= commit'[m] /\ stored[m] <= stored'[m] /\ sequence[m] <= sequence'[m]
    <2>1. /\ commit[m] \in Nat /\ stored[m] \in Nat /\ sequence[m] \in Nat /\ Len(log) \in Nat
          /\ stored[m] <= commit[m] /\ commit[m] <= Len(log)
      BY <1>1 DEF CheckpointTypes, CutsOrdered
    <2>2. stored'[m] = IF m = n THEN commit[n] ELSE stored[m] BY <1>1, <1>3 DEF CheckpointTypes
    <2>3. CASE m = n BY <1>2, <2>1, <2>2, <2>3
    <2>4. CASE m # n BY <1>2, <2>1, <2>2, <2>4
    <2> QED BY <2>3, <2>4
  <1>8. CutsOrdered' BY <1>7 DEF CutsOrdered
  <1>9. CommittedKept BY <1>2, <1>6, <1>7, <1>8, SameLogKeeps
  <1>10. \A k \in 1 .. Len(log'), p \in CheckpointProofs :
              log'[k].kind = "checkpoint" /\ log'[k].proof = p => Issued(p) /\ p.covered < k
    BY <1>2, LogIssued
  <1>11. AttemptCut(n)' /\ CadenceHolds(n)' BY <1>2, <1>9, AttemptKept, CadenceKept
  <1>12. \A p \in CheckpointProofs :
              attempt'[n].stage \in {"enqueue", "decide"} /\ attempt'[n].proof = p => Issued(p)
    BY <1>2 DEF Issued
  <1>13. CheckpointsTrue' BY <1>4 DEF CheckpointsInv, CheckpointsTrue
  <1>14. \A m \in Nodes : reserved'[m] = reserved[m] \/ reserved'[m] = Absent
    BY <1>1, <1>5 DEF CheckpointTypes
  <1> QED BY <1>2, <1>9, <1>10, <1>11, <1>12, <1>13, <1>14, StepKeeps

\* A step that changes one attempt and its scheduler.
LEMMA AttemptTypes ==
    ASSUME CheckpointTypes, NEW n \in Nodes, UNCHANGED <<log, term, commit, stored, reserved, sequence>>,
           leader' \in Nodes \cup {NoNode}, broken' \in [Nodes -> {"no", "mismatch", "rejected"}],
           NEW a \in [stage : AttemptStages, epoch : Nat, cut : Nat, proof : CheckpointProofs],
           attempt' = [attempt EXCEPT ![n] = a],
           NEW c \in [base : Nat, pending : Nat, waiting : BOOLEAN, failed : BOOLEAN],
           cadence' = [cadence EXCEPT ![n] = c]
    PROVE  /\ CheckpointTypes' /\ attempt'[n] = a /\ cadence'[n] = c
           /\ \A m \in Nodes \ {n} : attempt'[m] = attempt[m] /\ cadence'[m] = cadence[m]
BY DEF CheckpointTypes

\* An attempt that ends, or starts again from the lane.
LEMMA EndStep ==
    ASSUME CheckpointsInv, NEW n \in Nodes, UNCHANGED <<log, term, commit, stored, reserved, sequence>>,
           leader' \in Nodes \cup {NoNode}, broken' \in [Nodes -> {"no", "mismatch", "rejected"}],
           CheckpointsTrue',
           NEW a \in [stage : AttemptStages, epoch : Nat, cut : Nat, proof : CheckpointProofs],
           a.stage \in {"none", "lane", "barrier", "replay"},
           attempt' = [attempt EXCEPT ![n] = a],
           NEW c \in [base : Nat, pending : Nat, waiting : BOOLEAN, failed : BOOLEAN],
           cadence' = [cadence EXCEPT ![n] = c],
           c.base <= StoreOf(log, stored[n]).base, c.pending <= StoreOf(log, stored[n]).base, ~c.failed
    PROVE  CheckpointsInv'
  <1>1. /\ CheckpointTypes' /\ attempt'[n] = a /\ cadence'[n] = c
        /\ \A m \in Nodes \ {n} : attempt'[m] = attempt[m] /\ cadence'[m] = cadence[m]
    BY AttemptTypes DEF CheckpointsInv
  <1>2. CadenceHolds(n)' BY <1>1 DEF CadenceHolds
  <1>3. /\ AttemptCut(n)'
        /\ \A p \in CheckpointProofs :
              attempt'[n].stage \in {"enqueue", "decide"} /\ attempt'[n].proof = p => Issued(p)
    BY <1>1, RestsHold
  <1> QED BY <1>1, <1>2, <1>3, AttemptStep

\* What the scheduler of n has seen.
LEMMA SchedulerFacts ==
    ASSUME CheckpointsInv, NEW n \in Nodes
    PROVE  /\ cadence[n].base <= StoreOf(log, stored[n]).base /\ cadence[n].pending <= StoreOf(log, stored[n]).base
           /\ ~cadence[n].failed /\ StoreOf(log, stored[n]).base \in Nat
           /\ cadence[n] \in [base : Nat, pending : Nat, waiting : BOOLEAN, failed : BOOLEAN]
           /\ attempt[n] \in [stage : AttemptStages, epoch : Nat, cut : Nat, proof : CheckpointProofs]
           /\ stored[n] \in 0 .. Len(log) /\ stored[n] \in Nat /\ commit[n] \in Nat /\ stored[n] <= commit[n]
           /\ AttemptCut(n) /\ Baseline(n) = StoreOf(log, stored[n]).base /\ View(n) = StoreOf(log, stored[n])
  <1>1. /\ log \in Seq(Entries) /\ Len(log) \in Nat /\ stored[n] \in Nat /\ commit[n] \in Nat
        /\ cadence[n] \in [base : Nat, pending : Nat, waiting : BOOLEAN, failed : BOOLEAN]
        /\ attempt[n] \in [stage : AttemptStages, epoch : Nat, cut : Nat, proof : CheckpointProofs]
    BY DEF CheckpointsInv, CheckpointTypes
  <1>2. stored[n] <= commit[n] /\ commit[n] <= Len(log) BY DEF CheckpointsInv, CutsOrdered
  <1>3. stored[n] \in 0 .. Len(log) BY <1>1, <1>2
  <1>4. StoreOf(log, stored[n]).base \in Nat BY <1>1, <1>3, ReplayFacts DEF ReplayHolds, StoreStates
  <1>5. View(n) = StoreOf(log, stored[n]) BY StoreIsOfLog DEF View
  <1> QED BY <1>1, <1>2, <1>3, <1>4, <1>5 DEF CheckpointsInv, SchedulesHold, CadenceHolds, Baseline


LEMMA FailAttemptStep ==
    ASSUME CheckpointsInv, NEW n \in Nodes, FailAttempt(n)
    PROVE  CheckpointsInv'
  <1> DEFINE c == [cadence[n] EXCEPT !.waiting = FALSE, !.pending = 0]
  <1>1. CheckpointTypes BY DEF CheckpointsInv
  <1>2. cadence' = [cadence EXCEPT ![n] = c] BY <1>1 DEF FailAttempt, Relaxed, CheckpointTypes
  <1>3. /\ c \in [base : Nat, pending : Nat, waiting : BOOLEAN, failed : BOOLEAN]
        /\ c.base = cadence[n].base /\ c.pending = 0 /\ c.failed = cadence[n].failed
    BY SchedulerFacts
  <1>4. Resting.stage = "none" BY DEF Resting
  <1>5. CheckpointsTrue' BY DEF FailAttempt, CheckpointsInv, CheckpointsTrue
  <1>6. c.base <= StoreOf(log, stored[n]).base /\ c.pending <= StoreOf(log, stored[n]).base /\ ~c.failed
    BY <1>3, SchedulerFacts
  <1>7. /\ UNCHANGED <<log, term, commit, stored, reserved, sequence>>
        /\ leader' \in Nodes \cup {NoNode} /\ broken' \in [Nodes -> {"no", "mismatch", "rejected"}]
        /\ attempt' = [attempt EXCEPT ![n] = Resting]
    BY <1>1 DEF FailAttempt, Finished, CheckpointTypes, raftVars
  <1> HIDE DEF c
  <1> QED BY <1>2, <1>3, <1>4, <1>5, <1>6, <1>7, CheckpointValues, EndStep

LEMMA ObserveStep ==
    ASSUME CheckpointsInv, NEW n \in Nodes, Observe(n)
    PROVE  CheckpointsInv'
  <1> DEFINE c == [Unwatched EXCEPT !.base = Baseline(n), !.waiting = TRUE]
             a == [attempt[n] EXCEPT !.stage = "lane"]
  <1>1. CheckpointTypes BY DEF CheckpointsInv
  <1>2. ~Regressed(n)
    <2>1. cadence[n].base \in Nat /\ cadence[n].pending \in Nat BY SchedulerFacts
    <2> QED BY <2>1, SchedulerFacts DEF Regressed
  <1>3. cadence' = [cadence EXCEPT ![n] = c] BY <1>2 DEF Observe
  <1>4. attempt' = [attempt EXCEPT ![n] = a] BY <1>1, <1>2 DEF Observe, Go, CheckpointTypes
  <1>5. Baseline(n) \in Nat /\ Unwatched.pending = 0 /\ ~Unwatched.failed
    BY SchedulerFacts DEF Unwatched
  <1>6. /\ c \in [base : Nat, pending : Nat, waiting : BOOLEAN, failed : BOOLEAN]
        /\ c.base = StoreOf(log, stored[n]).base /\ c.pending = 0 /\ ~c.failed
    <2>1. /\ c \in [base : Nat, pending : Nat, waiting : BOOLEAN, failed : BOOLEAN]
          /\ c.base = Baseline(n) /\ c.pending = Unwatched.pending /\ c.failed = Unwatched.failed
      BY <1>5, CheckpointValues
    <2> HIDE DEF c
    <2> QED BY <1>5, <2>1, SchedulerFacts
  <1>7. a \in [stage : AttemptStages, epoch : Nat, cut : Nat, proof : CheckpointProofs] /\ a.stage = "lane"
    BY SchedulerFacts DEF AttemptStages
  <1>8. CheckpointsTrue' BY DEF Observe, CheckpointsInv, CheckpointsTrue
  <1>9. c.base <= StoreOf(log, stored[n]).base /\ c.pending <= StoreOf(log, stored[n]).base
    BY <1>6, SchedulerFacts
  <1>10. /\ UNCHANGED <<log, term, commit, stored, reserved, sequence>>
         /\ leader' \in Nodes \cup {NoNode} /\ broken' \in [Nodes -> {"no", "mismatch", "rejected"}]
    BY <1>1 DEF Observe, CheckpointTypes, raftVars
  <1> HIDE DEF c, a
  <1> QED BY <1>3, <1>4, <1>6, <1>7, <1>8, <1>9, <1>10, EndStep

\* The attempt starts again, its scheduler waits on.
LEMMA AgainStep ==
    ASSUME CheckpointsInv, NEW n \in Nodes, Again(n),
           UNCHANGED <<raftVars, reserved, sequence, cadence, broken, left>>
    PROVE  CheckpointsInv'
  <1> DEFINE a == [Resting EXCEPT !.stage = "lane"]
  <1>1. CheckpointTypes BY DEF CheckpointsInv
  <1>2. attempt' = [attempt EXCEPT ![n] = a] BY DEF Again
  <1>3. a \in [stage : AttemptStages, epoch : Nat, cut : Nat, proof : CheckpointProofs] /\ a.stage = "lane"
    BY CheckpointValues DEF AttemptStages
  <1>4. CheckpointsTrue' BY DEF CheckpointsInv, CheckpointsTrue
  <1>5. cadence' = [cadence EXCEPT ![n] = cadence[n]] BY <1>1 DEF CheckpointTypes
  <1>6. /\ UNCHANGED <<log, term, commit, stored, reserved, sequence>>
        /\ leader' \in Nodes \cup {NoNode} /\ broken' \in [Nodes -> {"no", "mismatch", "rejected"}]
    BY <1>1 DEF CheckpointTypes, raftVars
  <1> HIDE DEF a
  <1> QED BY <1>2, <1>3, <1>4, <1>5, <1>6, SchedulerFacts, EndStep

\* The attempt goes on to a stage before the proof is issued.
LEMMA AdvanceStep ==
    ASSUME CheckpointsInv, NEW n \in Nodes,
           UNCHANGED <<raftVars, reserved, sequence, cadence, broken, left>>,
           NEW a \in [stage : AttemptStages, epoch : Nat, cut : Nat, proof : CheckpointProofs],
           a.stage \in {"view", "sign", "recheck", "reserve"},
           attempt' = [attempt EXCEPT ![n] = a],
           a.stage = "view" => a.cut <= stored[n],
           a.stage # "view" => HeadsTrue(a.proof) /\ cadence[n].base <= StoreOf(log, a.proof.covered).base,
           a.stage \in {"recheck", "reserve"} => a.proof.signer \in AuthorityOf[a.proof.version]
    PROVE  CheckpointsInv'
  <1>1. CheckpointTypes BY DEF CheckpointsInv
  <1>3. UNCHANGED <<log, term, leader, commit, stored, reserved, sequence, cadence, broken>>
    BY DEF raftVars
  <1>4. /\ CheckpointTypes' /\ attempt'[n] = a
        /\ \A m \in Nodes \ {n} : attempt'[m] = attempt[m] /\ cadence'[m] = cadence[m]
    <2>1. attempt' \in [Nodes -> [stage : AttemptStages, epoch : Nat, cut : Nat, proof : CheckpointProofs]]
      BY <1>1 DEF CheckpointTypes
    <2>2. CheckpointTypes' BY <1>1, <1>3, <2>1 DEF CheckpointTypes
    <2>3. attempt'[n] = a /\ \A m \in Nodes \ {n} : attempt'[m] = attempt[m] BY <1>1 DEF CheckpointTypes
    <2> QED BY <1>3, <2>2, <2>3
  <1>5. AttemptCut(n)' BY <1>3, <1>4 DEF AttemptCut, HeadsTrue
  <1>6. CadenceHolds(n)' BY <1>3, SameCadence
  <1>7. CheckpointsTrue' BY <1>3 DEF CheckpointsInv, CheckpointsTrue
  <1>8. \A p \in CheckpointProofs :
              attempt'[n].stage \in {"enqueue", "decide"} /\ attempt'[n].proof = p => Issued(p)
    BY <1>4
  <1> QED BY <1>3, <1>4, <1>5, <1>6, <1>7, <1>8, AttemptStep

LEMMA ReadIndexesStep ==
    ASSUME CheckpointsInv, NEW n \in Nodes, ReadIndexes(n)
    PROVE  CheckpointsInv'
  <1>1. CASE ~Settled(n) BY <1>1, AgainStep DEF ReadIndexes
  <1>2. CASE Settled(n)
    <2> DEFINE a == [attempt[n] EXCEPT !.cut = commit[n], !.stage = "view"]
    <2>1. attempt' = [attempt EXCEPT ![n] = a]
      BY <1>2 DEF ReadIndexes, CheckpointsInv, CheckpointTypes
    <2>2. a \in [stage : AttemptStages, epoch : Nat, cut : Nat, proof : CheckpointProofs]
          /\ a.stage = "view" /\ a.cut = commit[n]
      BY SchedulerFacts DEF AttemptStages
    <2>3. a.cut <= stored[n] BY <1>2, <2>2, SchedulerFacts DEF Settled
    <2> HIDE DEF a
    <2> QED BY <2>1, <2>2, <2>3, AdvanceStep DEF ReadIndexes
  <1> QED BY <1>1, <1>2

LEMMA CaptureViewStep ==
    ASSUME CheckpointsInv, NEW n \in Nodes, CaptureView(n)
    PROVE  CheckpointsInv'
  <1>1. CASE ~Unmoved(n) BY <1>1, AgainStep DEF CaptureView
  <1>2. CASE Unmoved(n)
    <2> DEFINE p == Expectation(n, NoNode)
               a == [attempt[n] EXCEPT !.stage = "sign", !.proof = p]
    <2>1. attempt' = [attempt EXCEPT ![n] = a]
      BY <1>2 DEF CaptureView, CheckpointsInv, CheckpointTypes
    <2>2. View(n) \in StoreStates /\ View(n) = StoreOf(log, stored[n])
      <3>1. log \in Seq(Entries) BY DEF CheckpointsInv, CheckpointTypes
      <3> QED BY <3>1, SchedulerFacts, ReplayFacts DEF ReplayHolds
    <2>3. /\ term \in Nat /\ attempt[n].cut \in Nat
          /\ View(n).version \in Nat /\ View(n).chain \in Nat /\ View(n).results \in Nat
      BY <2>2, SchedulerFacts DEF CheckpointsInv, CheckpointTypes, StoreStates
    <2>4. /\ p \in CheckpointProofs
          /\ p.covered = attempt[n].cut /\ p.version = View(n).version
          /\ p.chain = View(n).chain /\ p.results = View(n).results
      BY <2>3, CheckpointValues DEF Expectation, CheckpointProofs
    <2> HIDE DEF p
    <2>5. a \in [stage : AttemptStages, epoch : Nat, cut : Nat, proof : CheckpointProofs]
          /\ a.stage = "sign" /\ a.proof = p
      BY <2>4, SchedulerFacts DEF AttemptStages
    <2>6. attempt[n].cut = stored[n] /\ attempt[n].cut = commit[n]
      <3>1. attempt[n].cut <= stored[n] /\ attempt[n].cut \in Nat BY SchedulerFacts DEF AttemptCut, CaptureView
      <3>2. commit[n] = attempt[n].cut BY <1>2 DEF Unmoved
      <3> QED BY <3>1, <3>2, SchedulerFacts
    <2>7. /\ p.covered = stored[n] /\ p.version = View(n).version /\ p.chain = View(n).chain
          /\ p.results = View(n).results
      BY <2>4, <2>6
    <2>8. HeadsTrue(p) BY <2>2, <2>7, SchedulerFacts DEF HeadsTrue
    <2>9. cadence[n].base <= StoreOf(log, p.covered).base BY <2>7, SchedulerFacts
    <2> HIDE DEF a
    <2> QED BY <2>1, <2>5, <2>8, <2>9, AdvanceStep DEF CaptureView
  <1> QED BY <1>1, <1>2

LEMMA SignStep ==
    ASSUME CheckpointsInv, NEW n \in Nodes, NEW m \in Nodes, Sign(n, m)
    PROVE  CheckpointsInv'
  <1> DEFINE a == [attempt[n] EXCEPT !.stage = "recheck", !.proof.signer = m]
             p == [attempt[n].proof EXCEPT !.signer = m]
  <1>1. attempt' = [attempt EXCEPT ![n] = a] BY DEF Sign, CheckpointsInv, CheckpointTypes
  <1>2. attempt[n].proof \in CheckpointProofs /\ attempt[n].stage = "sign" /\ m \in Signers(n)
    BY SchedulerFacts DEF Sign
  <1>3. /\ p \in CheckpointProofs /\ p.signer = m /\ p.covered = attempt[n].proof.covered
        /\ p.version = attempt[n].proof.version /\ p.chain = attempt[n].proof.chain
        /\ p.results = attempt[n].proof.results
    BY <1>2 DEF CheckpointProofs
  <1>4. a = [attempt[n] EXCEPT !.stage = "recheck", !.proof = p] BY SchedulerFacts
  <1> HIDE DEF p, a
  <1>5. a \in [stage : AttemptStages, epoch : Nat, cut : Nat, proof : CheckpointProofs]
        /\ a.stage = "recheck" /\ a.proof = p
    BY <1>3, <1>4, SchedulerFacts DEF AttemptStages
  <1>6. HeadsTrue(attempt[n].proof) /\ cadence[n].base <= StoreOf(log, attempt[n].proof.covered).base
    BY <1>2, SchedulerFacts DEF AttemptCut
  <1>7. HeadsTrue(p) /\ cadence[n].base <= StoreOf(log, p.covered).base BY <1>3, <1>6 DEF HeadsTrue
  <1>8. p.signer \in AuthorityOf[p.version] BY <1>2, <1>3 DEF Signers
  <1> QED BY <1>1, <1>5, <1>7, <1>8, AdvanceStep DEF Sign

LEMMA ConfirmCaptureStep ==
    ASSUME CheckpointsInv, NEW n \in Nodes, ConfirmCapture(n)
    PROVE  CheckpointsInv'
  <1>1. CASE Again(n) BY <1>1, AgainStep DEF ConfirmCapture
  <1>2. CASE Go(n, "reserve")
    <2> DEFINE a == [attempt[n] EXCEPT !.stage = "reserve"]
    <2>1. attempt' = [attempt EXCEPT ![n] = a] BY <1>2 DEF Go, CheckpointsInv, CheckpointTypes
    <2>2. a \in [stage : AttemptStages, epoch : Nat, cut : Nat, proof : CheckpointProofs]
          /\ a.stage = "reserve" /\ a.proof = attempt[n].proof
      BY SchedulerFacts DEF AttemptStages
    <2>3. attempt[n].stage = "recheck" BY DEF ConfirmCapture
    <2>4. /\ HeadsTrue(a.proof) /\ cadence[n].base <= StoreOf(log, a.proof.covered).base
          /\ a.proof.signer \in AuthorityOf[a.proof.version]
      BY <2>2, <2>3, SchedulerFacts DEF AttemptCut
    <2> HIDE DEF a
    <2> QED BY <2>1, <2>2, <2>4, AdvanceStep DEF ConfirmCapture
  <1> QED BY <1>1, <1>2 DEF ConfirmCapture


\* The proof gets an id that no proof has had, and is issued.
LEMMA ReserveCheckpointStep ==
    ASSUME CheckpointsInv, NEW n \in Nodes, ReserveCheckpoint(n)
    PROVE  CheckpointsInv'
  <1> DEFINE i == <<n, sequence[n] + 1>>
             proof == [attempt[n].proof EXCEPT !.id = i]
             a == [attempt[n] EXCEPT !.stage = "enqueue", !.proof = proof]
  <1>1. CheckpointTypes /\ CutsOrdered BY DEF CheckpointsInv
  <1>2. attempt' = [attempt EXCEPT ![n] = a] BY <1>1 DEF ReserveCheckpoint, CheckpointTypes
  <1>3. /\ reserved' = [reserved EXCEPT ![n] = proof] /\ sequence' = [sequence EXCEPT ![n] = @ + 1]
        /\ UNCHANGED <<log, term, leader, commit, stored, cadence, broken>> /\ attempt[n].stage = "reserve"
    BY DEF ReserveCheckpoint, raftVars
  <1>4. sequence[n] \in Nat /\ i \in CheckpointIds /\ i[1] = n /\ i[2] = sequence[n] + 1
    BY <1>1 DEF CheckpointTypes, CheckpointIds
  <1> HIDE DEF i
  <1>5. attempt[n].proof \in CheckpointProofs BY SchedulerFacts
  <1>6. PICK p \in CheckpointProofs : p = proof /\ p.id = i /\ p.covered = attempt[n].proof.covered
        /\ p.version = attempt[n].proof.version /\ p.chain = attempt[n].proof.chain
        /\ p.results = attempt[n].proof.results /\ p.signer = attempt[n].proof.signer
    <2>1. /\ proof \in CheckpointProofs /\ proof.id = i /\ proof.covered = attempt[n].proof.covered
          /\ proof.version = attempt[n].proof.version /\ proof.chain = attempt[n].proof.chain
          /\ proof.results = attempt[n].proof.results /\ proof.signer = attempt[n].proof.signer
      BY <1>4, <1>5 DEF CheckpointProofs
    <2> HIDE DEF proof
    <2> QED BY <2>1
  <1> HIDE DEF proof
  <1>7. a \in [stage : AttemptStages, epoch : Nat, cut : Nat, proof : CheckpointProofs]
        /\ a.stage = "enqueue" /\ a.proof = p
    BY <1>6, SchedulerFacts DEF AttemptStages
  <1> HIDE DEF a
  <1>8. CheckpointTypes'
    <2>1. reserved' \in [Nodes -> CheckpointProofs] BY <1>1, <1>3, <1>6 DEF CheckpointTypes
    <2>2. sequence' \in [Nodes -> Nat] BY <1>1, <1>3 DEF CheckpointTypes
    <2>3. attempt' \in [Nodes -> [stage : AttemptStages, epoch : Nat, cut : Nat, proof : CheckpointProofs]]
      BY <1>1, <1>2, <1>7 DEF CheckpointTypes
    <2> QED BY <1>1, <1>3, <2>1, <2>2, <2>3 DEF CheckpointTypes
  <1>9. CutsOrdered' BY <1>1, <1>3 DEF CutsOrdered
  <1>10. ASSUME NEW m \in Nodes
         PROVE  /\ commit[m] <= commit'[m] /\ stored[m] <= stored'[m] /\ sequence[m] <= sequence'[m]
                /\ sequence[m] \in Nat /\ (m = n => sequence'[m] = sequence[n] + 1)
    <2>1. commit[m] \in Nat /\ stored[m] \in Nat /\ sequence[m] \in Nat BY <1>1 DEF CheckpointTypes
    <2>2. sequence'[m] = IF m = n THEN sequence[n] + 1 ELSE sequence[m] BY <1>1, <1>3 DEF CheckpointTypes
    <2>3. CASE m = n BY <1>3, <2>1, <2>2, <2>3
    <2>4. CASE m # n BY <1>3, <2>1, <2>2, <2>4
    <2> QED BY <2>3, <2>4
  <1>11. CommittedKept BY <1>3, <1>8, <1>9, <1>10, SameLogKeeps
  <1>12. /\ HeadsTrue(attempt[n].proof) /\ attempt[n].proof.signer \in AuthorityOf[attempt[n].proof.version]
         /\ cadence[n].base <= StoreOf(log, attempt[n].proof.covered).base
    BY <1>3, SchedulerFacts DEF AttemptCut
  <1>13. Backed(p) BY <1>6, <1>12 DEF Backed, HeadsTrue
  <1>14. HeadsTrue(p)' BY <1>6, <1>11, <1>13, ProofsKept DEF Backed
  <1>15. ASSUME NEW q \in CheckpointProofs, Issued(q)' PROVE q = p \/ Issued(q)
    <2>1. CASE \E k \in 1 .. Len(log') : log'[k].kind = "checkpoint" /\ log'[k].proof = q
      BY <1>3, <2>1 DEF Issued
    <2>2. CASE q # Absent /\ \E m \in Nodes : reserved'[m] = q
      <3>1. PICK m \in Nodes : reserved'[m] = q BY <2>2
      <3>2. CASE m = n BY <1>1, <1>3, <1>6, <3>1, <3>2 DEF CheckpointTypes
      <3>3. CASE m # n
        <4>1. reserved'[m] = reserved[m] BY <1>1, <1>3, <3>3 DEF CheckpointTypes
        <4> QED BY <2>2, <3>1, <4>1 DEF Issued
      <3> QED BY <3>2, <3>3
    <2>3. CASE \E m \in Nodes : attempt'[m].stage \in {"enqueue", "decide"} /\ attempt'[m].proof = q
      <3>1. PICK m \in Nodes : attempt'[m].stage \in {"enqueue", "decide"} /\ attempt'[m].proof = q
        BY <2>3
      <3>2. CASE m = n
        <4>1. attempt'[n] = a BY <1>1, <1>2 DEF CheckpointTypes
        <4> QED BY <1>7, <3>1, <3>2, <4>1
      <3>3. CASE m # n
        <4>1. attempt'[m] = attempt[m] BY <1>1, <1>2, <3>3 DEF CheckpointTypes
        <4> QED BY <3>1, <4>1 DEF Issued
      <3> QED BY <3>2, <3>3
    <2> QED BY <1>15, <2>1, <2>2, <2>3 DEF Issued
  <1>16. ASSUME NEW q \in CheckpointProofs, Issued(q)
         PROVE  /\ Backed(q)' /\ q.id[1] \in Nodes /\ q.id[2] \in 1 .. sequence'[q.id[1]]
                /\ q.id # p.id
    <2>1. Backed(q) /\ q.id[1] \in Nodes /\ q.id[2] \in 1 .. sequence[q.id[1]]
      BY <1>16 DEF CheckpointsInv, IssuedHold
    <2>2. HeadsTrue(q)' BY <1>11, <2>1, ProofsKept DEF Backed
    <2>3. sequence[q.id[1]] <= sequence'[q.id[1]] /\ sequence[q.id[1]] \in Nat /\ sequence'[q.id[1]] \in Nat
      BY <1>8, <1>10, <2>1 DEF CheckpointTypes
    <2>4. q.id[2] \in 1 .. sequence'[q.id[1]] BY <2>1, <2>3
    <2>5. q.id # p.id
      <3>1. SUFFICES ASSUME q.id = i PROVE FALSE BY <1>6
      <3>2. sequence[n] + 1 \in 1 .. sequence[n] BY <1>4, <2>1, <3>1
      <3> QED BY <1>4, <3>2
    <2> QED BY <2>1, <2>2, <2>4, <2>5 DEF Backed
  <1>17. IssuedHold'
    <2>1. p.id[1] \in Nodes /\ p.id[2] \in 1 .. sequence'[p.id[1]]
      <3>1. sequence'[n] = sequence[n] + 1 BY <1>10
      <3>2. sequence[n] + 1 \in 1 .. sequence[n] + 1 BY <1>4
      <3> QED BY <1>4, <1>6, <3>1, <3>2
    <2>2. Backed(p)' BY <1>13, <1>14 DEF Backed
    <2>3. ASSUME NEW q \in CheckpointProofs, Issued(q)'
          PROVE  Backed(q)' /\ q.id[1] \in Nodes /\ q.id[2] \in 1 .. sequence'[q.id[1]]
      <3>1. CASE Issued(q) BY <1>16, <3>1
      <3>2. CASE q = p BY <2>1, <2>2, <3>2 DEF Backed, HeadsTrue
      <3> QED BY <1>15, <2>3, <3>1, <3>2
    <2> QED BY <2>3 DEF IssuedHold
  <1>18. IdsUnique'
    <2>1. ASSUME NEW q \in CheckpointProofs, NEW r \in CheckpointProofs, Issued(q)', Issued(r)', q.id = r.id
          PROVE  q = r
      <3>1. CASE Issued(q) /\ Issued(r) BY <2>1, <3>1 DEF CheckpointsInv, IdsUnique
      <3>2. CASE q = p /\ r = p BY <3>2
      <3>3. CASE Issued(q) /\ r = p BY <1>16, <2>1, <3>3
      <3>4. CASE q = p /\ Issued(r) BY <1>16, <2>1, <3>4
      <3> QED BY <1>15, <2>1, <3>1, <3>2, <3>3, <3>4
    <2> QED BY <2>1 DEF IdsUnique
  <1>19. LogForward' /\ CheckpointsTrue' BY <1>3 DEF CheckpointsInv, LogForward, CheckpointsTrue
  <1>20. ASSUME NEW m \in Nodes PROVE AttemptCut(m)' /\ CadenceHolds(m)'
    <2>1. CadenceHolds(m)' BY <1>3, SameCadence
    <2>2. CASE m # n
      <3>1. attempt'[m] = attempt[m] BY <1>1, <1>2, <2>2 DEF CheckpointTypes
      <3> QED BY <1>3, <1>11, <2>1, <3>1, AttemptKept
    <2>3. CASE m = n
      <3>1. attempt'[n] = a BY <1>1, <1>2 DEF CheckpointTypes
      <3>2. attempt'[n].stage = "enqueue" /\ attempt'[n].proof = p BY <1>7, <3>1
      <3>3. cadence'[n].base <= StoreOf(log', p.covered).base BY <1>3, <1>6, <1>12
      <3> QED BY <2>1, <2>3, <3>2, <3>3 DEF AttemptCut
    <2> QED BY <2>2, <2>3
  <1>21. SchedulesHold' BY <1>20 DEF SchedulesHold
  <1> QED BY <1>8, <1>9, <1>17, <1>18, <1>19, <1>21 DEF CheckpointsInv

LEMMA ConcludeStep ==
    ASSUME CheckpointsInv, NEW n \in Nodes, Conclude(n)
    PROVE  CheckpointsInv'
  <1>1. CheckpointTypes BY DEF CheckpointsInv
  <1>2. attempt[n].stage = "decide" /\ UNCHANGED <<raftVars, reserved, sequence, left>> /\ Answered(n)
    BY DEF Conclude
  <1>3. /\ UNCHANGED <<log, term, commit, stored, reserved, sequence>>
        /\ leader' \in Nodes \cup {NoNode}
    BY <1>1, <1>2 DEF CheckpointTypes, raftVars
  <1>4. Resting.stage = "none" BY DEF Resting
  <1>5. CASE Answer(n) = "accepted" /\ Finished(n) /\ Relaxed(n, cadence[n].base + 1) /\ UNCHANGED broken
    <2> DEFINE c == [cadence[n] EXCEPT !.waiting = FALSE, !.pending = cadence[n].base + 1]
    <2>1. cadence' = [cadence EXCEPT ![n] = c] BY <1>1, <1>5 DEF Relaxed, CheckpointTypes
    <2>2. cadence[n].base \in Nat /\ cadence[n].base + 1 \in Nat BY SchedulerFacts
    <2>3. /\ c \in [base : Nat, pending : Nat, waiting : BOOLEAN, failed : BOOLEAN]
          /\ c.base = cadence[n].base /\ c.pending = cadence[n].base + 1 /\ c.failed = cadence[n].failed
      BY <2>2, SchedulerFacts
    <2> HIDE DEF c
    <2>4. PICK p \in CheckpointProofs : p = attempt[n].proof BY SchedulerFacts
    <2>5. Issued(p) BY <1>2, <2>4 DEF Issued
    <2>6. PICK o \in StoreOf(log, stored[n]).outcome : o.id = p.id /\ o.code = "accepted"
      <3>1. \E o \in View(n).outcome : o.id = p.id BY <1>2, <2>4 DEF Answered, Decided
      <3>2. (CHOOSE o \in View(n).outcome : o.id = p.id).code = "accepted"
        BY <1>5, <2>4 DEF Answer, OutcomeOf
      <3> DEFINE w == CHOOSE o \in View(n).outcome : o.id = p.id
      <3>3. w \in View(n).outcome /\ w.id = p.id BY <3>1, Zenon
      <3> HIDE DEF w
      <3>4. View(n) = StoreOf(log, stored[n]) BY SchedulerFacts
      <3> QED BY <3>2, <3>3, <3>4 DEF w
    <2>7. stored[n] \in 0 .. Len(log) BY SchedulerFacts
    <2>8. /\ StoreOf(log, p.covered).base + 1 <= StoreOf(log, stored[n]).base
          /\ StoreOf(log, p.covered).base \in Nat /\ StoreOf(log, stored[n]).base \in Nat
      BY <2>5, <2>6, <2>7, AcceptedRaises
    <2>9. cadence[n].base <= StoreOf(log, p.covered).base
      BY <1>2, <2>4, SchedulerFacts DEF AttemptCut
    <2>10. c.pending <= StoreOf(log, stored[n]).base BY <2>2, <2>3, <2>8, <2>9
    <2>11. c.base <= StoreOf(log, stored[n]).base /\ ~c.failed BY <2>3, SchedulerFacts
    <2>12. broken' \in [Nodes -> {"no", "mismatch", "rejected"}] /\ CheckpointsTrue'
      BY <1>1, <1>5 DEF CheckpointTypes, CheckpointsInv, CheckpointsTrue
    <2>13. attempt' = [attempt EXCEPT ![n] = Resting] BY <1>5 DEF Finished
    <2> QED BY <1>3, <1>4, <2>1, <2>3, <2>10, <2>11, <2>12, <2>13, CheckpointValues, EndStep
  <1>6. CASE Answer(n) = "stale_checkpoint" /\ Again(n) /\ UNCHANGED <<cadence, broken>>
    BY <1>2, <1>6, AgainStep
  <1>7. CASE Finished(n) /\ Halted(n, "rejected") /\ UNCHANGED cadence
    <2>1. attempt' = [attempt EXCEPT ![n] = Resting] BY <1>7 DEF Finished
    <2>2. cadence' = [cadence EXCEPT ![n] = cadence[n]] BY <1>1, <1>7 DEF CheckpointTypes
    <2>3. broken' \in [Nodes -> {"no", "mismatch", "rejected"}] /\ CheckpointsTrue'
      BY <1>1, <1>7 DEF Halted, CheckpointTypes, CheckpointsInv, CheckpointsTrue
    <2> QED BY <1>3, <1>4, <2>1, <2>2, <2>3, CheckpointValues, SchedulerFacts, EndStep
  <1> QED BY <1>5, <1>6, <1>7 DEF Conclude

LEMMA VerifyReplayStep ==
    ASSUME CheckpointsInv, NEW n \in Nodes, VerifyReplay(n)
    PROVE  CheckpointsInv'
  <1>1. CheckpointTypes BY DEF CheckpointsInv
  <1>2. /\ UNCHANGED <<log, term, commit, stored, reserved, sequence>>
        /\ leader' \in Nodes \cup {NoNode}
    BY <1>1 DEF VerifyReplay, CheckpointTypes, raftVars
  <1>3. Resting.stage = "none" BY DEF Resting
  <1>4. attempt' = [attempt EXCEPT ![n] = Resting] BY DEF VerifyReplay, Finished
  <1>5. CASE Relaxed(n, 0) /\ UNCHANGED broken
    <2> DEFINE c == [cadence[n] EXCEPT !.waiting = FALSE, !.pending = 0]
    <2>1. cadence' = [cadence EXCEPT ![n] = c] BY <1>1, <1>5 DEF Relaxed, CheckpointTypes
    <2>2. /\ c \in [base : Nat, pending : Nat, waiting : BOOLEAN, failed : BOOLEAN]
          /\ c.base = cadence[n].base /\ c.pending = 0 /\ c.failed = cadence[n].failed
      BY SchedulerFacts
    <2> HIDE DEF c
    <2>3. c.base <= StoreOf(log, stored[n]).base /\ c.pending <= StoreOf(log, stored[n]).base /\ ~c.failed
      BY <2>2, SchedulerFacts
    <2>4. broken' \in [Nodes -> {"no", "mismatch", "rejected"}] /\ CheckpointsTrue'
      BY <1>1, <1>5 DEF CheckpointTypes, CheckpointsInv, CheckpointsTrue
    <2> QED BY <1>2, <1>3, <1>4, <2>1, <2>2, <2>3, <2>4, CheckpointValues, EndStep
  <1>6. CASE Halted(n, "rejected") /\ UNCHANGED cadence
    <2>1. cadence' = [cadence EXCEPT ![n] = cadence[n]] BY <1>1, <1>6 DEF CheckpointTypes
    <2>2. broken' \in [Nodes -> {"no", "mismatch", "rejected"}] /\ CheckpointsTrue'
      BY <1>1, <1>6 DEF Halted, CheckpointTypes, CheckpointsInv, CheckpointsTrue
    <2> QED BY <1>2, <1>3, <1>4, <2>1, <2>2, CheckpointValues, SchedulerFacts, EndStep
  <1> QED BY <1>5, <1>6 DEF VerifyReplay

LEMMA RestartStep ==
    ASSUME CheckpointsInv, NEW n \in Nodes, Restart(n)
    PROVE  CheckpointsInv'
  <1>1. CheckpointTypes BY DEF CheckpointsInv
  <1>2. /\ UNCHANGED <<log, term, commit, stored, reserved, sequence>>
        /\ leader' \in Nodes \cup {NoNode}
        /\ attempt' = [attempt EXCEPT ![n] = Resting] /\ cadence' = [cadence EXCEPT ![n] = Unwatched]
    BY <1>1 DEF Restart, CheckpointTypes
  <1>3. broken' \in [Nodes -> {"no", "mismatch", "rejected"}] /\ CheckpointsTrue'
    BY <1>1 DEF Restart, CheckpointTypes, CheckpointsInv, CheckpointsTrue
  <1>4. Resting.stage = "none" /\ Unwatched.base = 0 /\ Unwatched.pending = 0 /\ ~Unwatched.failed
    BY DEF Resting, Unwatched
  <1>5. StoreOf(log, stored[n]).base \in Nat BY SchedulerFacts
  <1>6. Unwatched.base <= StoreOf(log, stored[n]).base /\ Unwatched.pending <= StoreOf(log, stored[n]).base
    BY <1>4, <1>5
  <1> QED BY <1>2, <1>3, <1>4, <1>6, CheckpointValues, EndStep

\* Checkpoints never say what did not happen: no store finds a mismatch, no scheduler
\* stops for a broken cadence, and a refusal is explained by a change of the authority.
THEOREM CheckpointsAreSound == CheckpointSpec => []CheckpointsSound
<1>1. CheckpointInit => CheckpointsInv BY CheckpointInitHolds
<1>2. CheckpointsInv /\ [CheckpointNext]_checkpointVars => CheckpointsInv'
  <2> SUFFICES ASSUME CheckpointsInv, [CheckpointNext]_checkpointVars PROVE CheckpointsInv'
    OBVIOUS
  <2>1. CASE StepDown BY <2>1, StepDownStep
  <2>2. ASSUME NEW n \in Nodes,
               \/ Elect(n) \/ Propose(n) \/ Learn(n) \/ ApplyEntries(n)
               \/ Observe(n) \/ FailAttempt(n) \/ EnqueueBarrier(n) \/ ReadIndexes(n)
        PROVE  CheckpointsInv'
    BY <2>2, ElectStep, ProposeStep, LearnStep, ApplyEntriesStep, ObserveStep, FailAttemptStep,
       EnqueueBarrierStep, ReadIndexesStep
  <2>3. ASSUME NEW n \in Nodes,
               \/ CaptureView(n) \/ ConfirmCapture(n) \/ ReserveCheckpoint(n) \/ EnqueueCheckpoint(n)
               \/ Conclude(n) \/ ReplayProof(n) \/ VerifyReplay(n) \/ Restart(n)
               \/ \E m \in Nodes : Sign(n, m)
        PROVE  CheckpointsInv'
    BY <2>3, CaptureViewStep, ConfirmCaptureStep, ReserveCheckpointStep, EnqueueCheckpointStep,
       ConcludeStep, ReplayProofStep, VerifyReplayStep, RestartStep, SignStep
  <2>4. CASE UNCHANGED checkpointVars
    <3>1. /\ CheckpointTypes' /\ CutsOrdered' /\ LogForward' /\ CheckpointsTrue'
      BY <2>4 DEF CheckpointsInv, CheckpointTypes, CutsOrdered, LogForward, CheckpointsTrue, checkpointVars
    <3>2. IssuedHold' /\ IdsUnique'
      BY <2>4 DEF CheckpointsInv, IssuedHold, IdsUnique, Issued, Backed, HeadsTrue, checkpointVars
    <3>3. SchedulesHold'
      BY <2>4 DEF CheckpointsInv, SchedulesHold, AttemptCut, CadenceHolds, HeadsTrue, checkpointVars
    <3> QED BY <3>1, <3>2, <3>3 DEF CheckpointsInv
  <2> QED BY <2>1, <2>2, <2>3, <2>4 DEF CheckpointNext
<1>3. CheckpointsInv => CheckpointsSound BY CheckpointsInvSound
<1> QED BY <1>1, <1>2, <1>3, PTL DEF CheckpointSpec

-----------------------------------------------------------------------------
(* What a crash leaves in the Raft log, the snapshot files and SQLite *)

EntryKinds == {"command", "checkpoint", "config", "barrier"}
FileRecords == [id : Nat, source : {"local", "peer"}, index : Nat, base : Nat,
                config : Nat, flaw : Flaws \cup {"none"}]

\* A snapshot at position i: its baseline is the last command at or below i, a
\* checkpoint, and its configuration the last one at or below i.
CutAt(L, i, b, c) ==
    /\ i \in 1 .. Len(L) /\ b \in 1 .. i /\ c \in 1 .. i
    /\ L[b] = "checkpoint" /\ L[c] = "config"
    /\ \A j \in 1 .. i : /\ L[j] \in Commands => j <= b
                         /\ L[j] = "config" => j <= c

\* Every command at or below i is at or below a.
NoneMissing(L, i, a) == \A j \in 1 .. i : L[j] \in Commands => j <= a

SnapTypes ==
    /\ committed \in Seq(EntryKinds) /\ Len(committed) >= 1 /\ committed[1] = "config"
    /\ logs \subseteq 1 .. Len(committed)
    /\ peer \in [first : Nat, snap : {None} \cup [index : Nat, base : Nat, config : Nat]]
    /\ files \subseteq FileRecords
    /\ sql \in [applied : Nat, config : Nat,
                install : {None} \cup [id : Nat, index : Nat, base : Nat, config : Nat]]
    /\ mode \in {"up", "down", "halted", "refused"}
    /\ raft \in [applied : Nat, snap : Nat]
    /\ restore \in {None} \cup [file : FileRecords, done : BOOLEAN]
    /\ capture \in {None} \cup [base : Nat, tail : Nat, index : Nat, config : Nat]
    /\ compact \in Nat
    /\ mode # "up" => restore = None /\ capture = None /\ compact = 0

\* What the leader sends is such a snapshot, and its log starts at most behind it.
PeerSound ==
    /\ peer.snap = None => peer.first <= 1
    /\ peer.snap # None =>
          /\ CutAt(committed, peer.snap.index, peer.snap.base, peer.snap.config)
          /\ peer.first <= peer.snap.index + 1

FilesSound ==
    /\ \A f \in files : CutAt(committed, f.index, f.base, f.config)
    /\ \A f, g \in files : f.id = g.id => f = g
    /\ \E n \in Nat : /\ \A f \in files : f.id <= n
                      /\ sql.install # None => sql.install.id <= n
    /\ \A f \in files : BindingMatches(f) /\ LocalCovered(f)
    /\ files # {} => \E t \in files : \A g \in files \ {t} : Newer(t, g)

SqlSound ==
    /\ InstallRecordValid
    /\ sql.config # 0 => sql.config \in 1 .. Len(committed) /\ committed[sql.config] = "config"

\* The newest file SQLite stands behind has index s and configuration c.
IsAnchor(b) ==
    b \in files /\ Bound(b) /\ \A g \in files : Bound(g) => g = b \/ Newer(b, g)
AnchorAt(s, c) ==
    \/ s = 0 /\ c = 0 /\ \A f \in files : ~ Bound(f)
    \/ \E b \in files : IsAnchor(b) /\ b.index = s /\ b.config = c

\* Between that file and the log nothing is missing that SQLite needs.
Reached(s, c) ==
    /\ s = 0 => 1 \in logs /\ sql.install = None
    /\ sql.install # None => sql.install.base <= s
    /\ \A j \in logs : \A i \in (s + 1) .. j : i \in logs
    /\ sql.applied <= s \/ \E j \in logs : sql.applied <= j
    /\ sql.config \in logs \cup {0} \/ sql.config <= c

\* Of a running daemon.
Unrestored == restore # None /\ ~ restore.done
RaftRuns(s) ==
    /\ raft.applied <= Len(committed)
    /\ NoneMissing(committed, raft.applied, sql.applied)
    /\ sql.install # None => sql.install.base <= raft.applied
    /\ compact <= raft.snap
    /\ ~ Unrestored => \A f \in files : f \in LiveFiles
    /\ Unrestored => /\ ~ Bound(restore.file)
                  /\ \A f \in files : f = restore.file \/ f \in LiveFiles
    /\ restore = None \/ Unrestored => raft.snap = s
    /\ restore # None => /\ restore.file \in files
                         /\ raft.snap < restore.file.index
                         /\ \A j \in logs : j < restore.file.index
                         /\ restore.done => /\ IsAnchor(restore.file)
                                            /\ s = restore.file.index
                                            /\ raft.applied = restore.file.index
    /\ capture # None /\ AnchorCovers(capture) =>
          /\ CutAt(committed, capture.index, capture.base, capture.config)
          /\ capture.base <= sql.applied
          /\ capture.index <= raft.snap \/ \E j \in logs : capture.index <= j

StoresMeet == \E s, c \in Nat : AnchorAt(s, c) /\ Reached(s, c) /\ (mode = "up" => RaftRuns(s))

\* The inductive invariant.
OpenInv ==
    /\ SnapTypes /\ PeerSound /\ FilesSound /\ SqlSound /\ StoresMeet
    /\ mode = "refused" => ~ LogContiguous

-----------------------------------------------------------------------------
(* The operators the stores are compared with *)

LEMMA MaxIsGreatest ==
    ASSUME NEW S \in SUBSET Nat, NEW n \in Nat, S # {}, \A x \in S : x <= n
    PROVE  Max(S) \in S /\ Max(S) \in Nat /\ \A y \in S : y <= Max(S)
  <1> DEFINE D == {n - x : x \in S}
  <1>1. D \in SUBSET Nat /\ D # {}
    <2>1. \A x \in S : n - x \in Nat
      OBVIOUS
    <2> QED BY <2>1
  <1>2. PICK m \in D : \A d \in D : m <= d
    BY <1>1, LeastNat
  <1>3. PICK x \in S : m = n - x
    BY <1>2
  <1>4. \A y \in S : y <= x
    <2> SUFFICES ASSUME NEW y \in S PROVE y <= x
      OBVIOUS
    <2>1. n - y \in D
      OBVIOUS
    <2>2. n - x <= n - y
      BY <2>1, <1>2, <1>3
    <2> QED BY <2>2
  <1>5. \E z \in S : \A y \in S : z >= y
    BY <1>4
  <1>6. Max(S) \in S /\ \A y \in S : Max(S) >= y
    BY <1>5 DEF Max
  <1> QED BY <1>6

LEMMA MaxOfTwo ==
    ASSUME NEW a \in Int, NEW b \in Int
    PROVE  Max({a, b}) = IF a >= b THEN a ELSE b
  BY DEF Max

LEMMA MinOfTwo ==
    ASSUME NEW a \in Int, NEW b \in Int
    PROVE  Min({a, b}) = IF a <= b THEN a ELSE b
  BY DEF Min

(* The last of a set of positions, 0 when there is none.                     *)
LEMMA LastInIsLast ==
    ASSUME NEW S \in SUBSET Nat, NEW n \in Nat, \A x \in S : x <= n
    PROVE  /\ LastIn(S) \in Nat /\ LastIn(S) \in S \cup {0}
           /\ \A x \in S : x <= LastIn(S)
  <1>1. \A x \in {0} \cup S : x <= n
    OBVIOUS
  <1>2. {0} \cup S \in SUBSET Nat /\ {0} \cup S # {}
    OBVIOUS
  <1> HIDE DEF LastIn
  <1>3. Max({0} \cup S) \in {0} \cup S /\ \A y \in {0} \cup S : y <= Max({0} \cup S)
    BY <1>1, <1>2, MaxIsGreatest
  <1> QED BY <1>2, <1>3 DEF LastIn

LEMMA FirstInIsFirst ==
    ASSUME NEW S \in SUBSET Nat, S # {}
    PROVE  FirstIn(S) \in S /\ \A x \in S : FirstIn(S) <= x
  <1>1. \E m \in S : \A n \in S : m =< n
    BY LeastNat
  <1>2. Min(S) \in S /\ \A n \in S : Min(S) =< n
    BY <1>1 DEF Min
  <1> QED BY <1>2 DEF FirstIn

(* The last entry of kinds K at or below a position of the log.              *)
LEMMA AtMostIsLast ==
    ASSUME NEW i \in Nat, NEW K
    PROVE  /\ AtMost(i, K) \in 0 .. i
           /\ AtMost(i, K) # 0 => committed[AtMost(i, K)] \in K
           /\ \A j \in 1 .. i : committed[j] \in K => j <= AtMost(i, K)
  <1> DEFINE S == {j \in 1 .. i : committed[j] \in K}
  <1>1. S \in SUBSET Nat /\ \A x \in S : x <= i
    OBVIOUS
  <1>2. AtMost(i, K) = LastIn(S)
    BY DEF AtMost, LastIn
  <1>3. LastIn(S) \in Nat /\ LastIn(S) \in S \cup {0} /\ \A x \in S : x <= LastIn(S)
    <2> HIDE DEF S
    <2> QED BY <1>1, LastInIsLast
  <1>4. \A j \in 1 .. i : committed[j] \in K => j \in S
    OBVIOUS
  <1>5. \A x \in S : x \in 0 .. i /\ committed[x] \in K
    OBVIOUS
  <1> QED BY <1>2, <1>3, <1>4, <1>5

(* A record is not the absence of one.                                       *)
LEMMA RecordsAreSome ==
    /\ \A r \in [index : Nat, base : Nat, config : Nat] : r # None
    /\ \A r \in [id : Nat, index : Nat, base : Nat, config : Nat] : r # None
    /\ \A r \in [file : FileRecords, done : BOOLEAN] : r # None
    /\ \A r \in [base : Nat, tail : Nat, index : Nat, config : Nat] : r # None
  <1>1. DOMAIN None = {"none"}
    BY DEF None
  <1>2. \A r \in [index : Nat, base : Nat, config : Nat] : "index" \in DOMAIN r
    OBVIOUS
  <1>3. \A r \in [id : Nat, index : Nat, base : Nat, config : Nat] : "index" \in DOMAIN r
    OBVIOUS
  <1>4. \A r \in [file : FileRecords, done : BOOLEAN] : "file" \in DOMAIN r
    OBVIOUS
  <1>5. \A r \in [base : Nat, tail : Nat, index : Nat, config : Nat] : "index" \in DOMAIN r
    OBVIOUS
  <1> QED BY <1>1, <1>2, <1>3, <1>4, <1>5

(* The order of the file store is total and strict.                          *)
LEMMA NewerOrders ==
    ASSUME NEW f \in FileRecords, NEW g \in FileRecords, NEW h \in FileRecords
    PROVE  /\ ~ Newer(f, f)
           /\ ~ (Newer(f, g) /\ Newer(g, f))
           /\ Newer(f, g) /\ Newer(g, h) => Newer(f, h)
           /\ f.id # g.id => Newer(f, g) \/ Newer(g, f)
           /\ Newer(f, g) => f.index >= g.index
  BY DEF FileRecords, Newer

LEMMA TopIsLatest ==
    ASSUME NEW F \in SUBSET FileRecords, NEW t \in F, \A g \in F \ {t} : Newer(t, g)
    PROVE  Latest(F) = t
  <1>1. ASSUME NEW f \in F, \A g \in F \ {f} : Newer(f, g) PROVE f = t
    BY <1>1, NewerOrders
  <1> QED BY <1>1 DEF Latest

(* Reaping keeps a file that at most one other is newer than: there is       *)
(* always the validation slot.                                               *)
LEMMA ReapKeeps ==
    ASSUME NEW F \in SUBSET FileRecords, NEW f \in F, NEW t,
           \A g \in F : Newer(g, f) => g = t
    PROVE  f \in Reap(F)
  <1> DEFINE N == {g \in F : Newer(g, f)}
  <1>1. N = {} \/ N = {t}
    OBVIOUS
  <1>2. Cardinality(N) \in 0 .. 1
    <2> HIDE DEF N
    <2>1. Cardinality({}) = 0 /\ Cardinality({t}) = 1
      BY FS_EmptySet, FS_Singleton
    <2> QED BY <1>1, <2>1
  <1>3. Slots \in Nat /\ Slots > 1
    BY BoundsAssumption DEF Slots
  <1> QED BY <1>2, <1>3 DEF Reap

LEMMA ReapedAreFiles ==
    ASSUME NEW F
    PROVE  Reap(F) \subseteq F
  BY DEF Reap

(* Compaction to i drops nothing behind i, and keeps the end of the log      *)
(* unless i is past it.                                                      *)
LEMMA CompactionKeeps ==
    ASSUME NEW S \in SUBSET Nat, NEW n \in Nat, \A x \in S : x <= n, NEW i \in Nat
    PROVE  /\ CompactedLogs(S, i) \subseteq S
           /\ \A j \in S : j > i => j \in CompactedLogs(S, i)
           /\ \A x \in Nat : (\E j \in S : x <= j) =>
                 x <= i \/ \E j \in CompactedLogs(S, i) : x <= j
  <1>1. LastIn(S) \in Nat /\ LastIn(S) \in S \cup {0} /\ \A x \in S : x <= LastIn(S)
    BY LastInIsLast
  <1>2. TrailingLogs \in Nat
    BY BoundsAssumption
  <1> DEFINE l == LastIn(S)
             m == Min({i, l - TrailingLogs})
  <1>3. CASE l <= TrailingLogs
    BY <1>3 DEF CompactedLogs
  <1>4. CASE ~ (l <= TrailingLogs)
    <2>1. m \in Int /\ m <= i /\ m <= l /\ (m = i \/ m = l - TrailingLogs)
      BY <1>1, <1>2, MinOfTwo
    <2>2. CompactedLogs(S, i) = {j \in S : j > m}
      BY <1>4 DEF CompactedLogs
    <2>3. l \in S
      BY <1>1, <1>2, <1>4
    <2> HIDE DEF l, m
    <2>5. \A x \in S : x <= l BY <1>1 DEF l
    <2>6. ASSUME NEW x \in Nat, NEW j \in S, x <= j, ~ (x <= i)
          PROVE  l \in CompactedLogs(S, i) /\ x <= l
      BY <2>1, <2>2, <2>3, <2>5, <2>6
    <2>7. \A j \in S : j > i => j \in CompactedLogs(S, i)
      BY <2>1, <2>2
    <2> QED BY <2>2, <2>6, <2>7
  <1> QED BY <1>3, <1>4


-----------------------------------------------------------------------------
(* What openNode finds *)

(* The anchor is the latest file that survives the quarantine.               *)
LEMMA AnchorIsLatest ==
    ASSUME SnapTypes, FilesSound, NEW b, IsAnchor(b)
    PROVE  /\ b \in LiveFiles /\ Latest(LiveFiles) = b
           /\ \A g \in LiveFiles : g = b \/ Newer(b, g)
           /\ b \in FileRecords /\ b.index \in Nat \ {0}
  <1>1. b \in files /\ Bound(b) /\ (\A g \in files : Bound(g) => g = b \/ Newer(b, g))
    BY DEF IsAnchor
  <1>2. files \in SUBSET FileRecords /\ b \in FileRecords
    BY <1>1 DEF SnapTypes
  <1>3. b \in LiveFiles /\ LiveFiles \subseteq files
    BY <1>1 DEF LiveFiles
  <1>4. ASSUME NEW g \in LiveFiles PROVE g = b \/ Newer(b, g)
    <2>1. PICK h \in files : Bound(h) /\ (g = h \/ Newer(h, g))
      BY DEF LiveFiles
    <2>2. h = b \/ Newer(b, h)
      BY <1>1, <2>1
    <2>3. g \in FileRecords /\ h \in FileRecords
      BY <1>2, <1>3
    <2> QED BY <1>2, <2>1, <2>2, <2>3, NewerOrders
  <1>5. Latest(LiveFiles) = b
    BY <1>2, <1>3, <1>4, TopIsLatest
  <1>6. b.index \in Nat \ {0}
    BY <1>1 DEF FilesSound, CutAt
  <1> QED BY <1>2, <1>3, <1>4, <1>5, <1>6

LEMMA AnchorIndex ==
    ASSUME SnapTypes, FilesSound, NEW s \in Nat, NEW c \in Nat, AnchorAt(s, c)
    PROVE  /\ LatestIndex(LiveFiles) = s
           /\ s = 0 => LiveFiles = {} /\ c = 0
           /\ s # 0 => /\ LiveFiles # {} /\ IsAnchor(Latest(LiveFiles))
                       /\ Latest(LiveFiles) \in LiveFiles
                       /\ Latest(LiveFiles).index = s
                       /\ Latest(LiveFiles).config = c
  <1>1. CASE s = 0 /\ c = 0 /\ \A f \in files : ~ Bound(f)
    <2>1. LiveFiles = {}
      BY <1>1 DEF LiveFiles
    <2> QED BY <1>1, <2>1 DEF LatestIndex
  <1>2. CASE \E b \in files : IsAnchor(b) /\ b.index = s /\ b.config = c
    <2>1. PICK b \in files : IsAnchor(b) /\ b.index = s /\ b.config = c
      BY <1>2
    <2>2. b \in LiveFiles /\ Latest(LiveFiles) = b /\ b.index # 0
      BY <2>1, AnchorIsLatest
    <2> QED BY <2>1, <2>2 DEF LatestIndex
  <1> QED BY <1>1, <1>2 DEF AnchorAt

LEMMA LogBounds ==
    ASSUME SnapTypes
    PROVE  /\ logs \in SUBSET Nat /\ Len(committed) \in Nat
           /\ \A x \in logs : x <= Len(committed)
           /\ LastIn(logs) \in Nat /\ LastIn(logs) \in logs \cup {0}
           /\ \A x \in logs : x <= LastIn(logs)
  <1>1. logs \in SUBSET Nat /\ Len(committed) \in Nat /\ \A x \in logs : x <= Len(committed)
    BY DEF SnapTypes
  <1> QED BY <1>1, LastInIsLast

LEMMA Durable ==
    ASSUME SnapTypes, FilesSound, NEW s \in Nat, NEW c \in Nat, AnchorAt(s, c), Reached(s, c)
    PROVE  DurableCovers
  <1>1. LatestIndex(files) \in Nat /\ s <= LatestIndex(files)
    <2>1. CASE files = {}
      BY <2>1 DEF LatestIndex, AnchorAt
    <2>2. CASE files # {}
      <3>1. PICK t \in files : \A g \in files \ {t} : Newer(t, g)
        BY <2>2 DEF FilesSound
      <3>2. files \in SUBSET FileRecords
        BY DEF SnapTypes
      <3>3. Latest(files) = t
        BY <3>1, <3>2, TopIsLatest
      <3>4. t.index \in Nat
        BY <3>2 DEF FileRecords
      <3>5. \A g \in files : g.index <= t.index
        <4>1. \A g \in files : g.index \in Nat
          BY <3>2 DEF FileRecords
        <4> QED BY <3>1, <3>4, <4>1 DEF Newer
      <3>6. s <= t.index
        BY <3>4, <3>5 DEF AnchorAt
      <3> QED BY <2>2, <3>3, <3>4, <3>6 DEF LatestIndex
    <2> QED BY <2>1, <2>2
  <1>2. LastIn(logs) \in Nat /\ \A x \in logs : x <= LastIn(logs)
    BY LogBounds
  <1>3. sql.applied \in Nat /\ logs \in SUBSET Nat
    BY LogBounds DEF SnapTypes
  <1>4. sql.applied <= s \/ \E j \in logs : sql.applied <= j
    BY DEF Reached
  <1>5. Max({LastIn(logs), LatestIndex(files)}) =
            IF LastIn(logs) >= LatestIndex(files) THEN LastIn(logs) ELSE LatestIndex(files)
    BY <1>1, <1>2, MaxOfTwo
  <1> QED BY <1>1, <1>2, <1>3, <1>4, <1>5 DEF DurableCovers

LEMMA Verified ==
    ASSUME SnapTypes, FilesSound, SqlSound, NEW s \in Nat, NEW c \in Nat,
           AnchorAt(s, c), Reached(s, c)
    PROVE  SnapshotsVerified
  <1>1. LiveFiles \subseteq files
    BY DEF LiveFiles
  <1>2. \A f \in LiveFiles : BindingMatches(f) /\ LocalCovered(f)
    BY <1>1 DEF FilesSound
  <1>3. LiveFiles = {} => sql.install = None
    BY AnchorIndex DEF Reached
  <1>4. LiveFiles # {} => Latest(LiveFiles) \in LiveFiles
    BY AnchorIndex
  <1> QED BY <1>2, <1>3, <1>4 DEF SnapshotsVerified, SqlSound

(* What openNode makes durable is evident: it is in the log, or it is the    *)
(* configuration of the latest file.                                         *)
LEMMA Seeded ==
    ASSUME SnapTypes, FilesSound, SqlSound, NEW s \in Nat, NEW c \in Nat,
           AnchorAt(s, c), Reached(s, c)
    PROVE  /\ SeededConfig \in Nat /\ sql.config <= SeededConfig
           /\ \/ SeededConfig = 0 /\ sql.applied = 0
              \/ SeededConfig \in logs /\ committed[SeededConfig] = "config"
              \/ s # 0 /\ SeededConfig = c
  <1>1. sql.config \in Nat /\ sql.applied \in Nat /\ logs \in SUBSET Nat
    BY LogBounds DEF SnapTypes
  <1>2. sql.config \in logs \cup {0} \/ sql.config <= c
    BY DEF Reached
  <1>3. sql.config # 0 => committed[sql.config] = "config"
    BY DEF SqlSound
  <1>4. CASE s = 0
    <2>1. LiveFiles = {} /\ c = 0
      BY <1>4, AnchorIndex
    <2>2. 1 \in logs /\ committed[1] = "config"
      BY <1>4 DEF Reached, SnapTypes
    <2>3. CASE sql.config # 0 \/ sql.applied = 0
      <3>1. SeededConfig = sql.config
        BY <2>1, <2>3 DEF SeededConfig
      <3> QED BY <1>1, <1>2, <1>3, <2>1, <2>3, <3>1
    <2>4. CASE sql.config = 0 /\ sql.applied # 0
      <3> DEFINE S == {j \in logs : j <= sql.applied /\ committed[j] = "config"}
      <3>1. SeededConfig = LastIn(S)
        BY <2>1, <2>4 DEF SeededConfig, LastIn
      <3>2. S \in SUBSET Nat /\ \A x \in S : x <= sql.applied
        BY <1>1
      <3>3. 1 \in S
        BY <1>1, <2>2, <2>4
      <3>4. \A x \in S : x \in logs /\ committed[x] = "config"
        OBVIOUS
      <3> HIDE DEF S
      <3>5. LastIn(S) \in Nat /\ LastIn(S) \in S \cup {0} /\ \A x \in S : x <= LastIn(S)
        BY <1>1, <3>2, LastInIsLast
      <3> QED BY <2>4, <3>1, <3>3, <3>4, <3>5
    <2> QED BY <2>3, <2>4
  <1>5. CASE s # 0
    <2>1. LiveFiles # {} /\ Latest(LiveFiles).config = c
      BY <1>5, AnchorIndex
    <2>2. c # 0
      BY <1>5 DEF AnchorAt, FilesSound, CutAt
    <2>3. Max({sql.config, c}) = IF sql.config >= c THEN sql.config ELSE c
      BY <1>1, MaxOfTwo
    <2>4. SeededConfig = Max({sql.config, c})
      BY <1>1, <2>1, <2>2, <2>3 DEF SeededConfig
    <2> QED BY <1>1, <1>2, <1>3, <1>5, <2>2, <2>3, <2>4
  <1> QED BY <1>4, <1>5

LEMMA Reaches ==
    ASSUME SnapTypes, FilesSound, NEW s \in Nat, NEW c \in Nat, AnchorAt(s, c), Reached(s, c)
    PROVE  LogReaches
  <1>1. LatestIndex(LiveFiles) = s
    BY AnchorIndex
  <1>2. logs = {} => s # 0
    BY DEF Reached
  <1>3. ASSUME logs # {}, LastIn(logs) > s PROVE FirstIn(logs) <= s + 1
    <2>1. logs \in SUBSET Nat /\ LastIn(logs) \in logs
      BY <1>3, LogBounds
    <2>2. s + 1 \in logs
      <3>0. LastIn(logs) \in Nat
        BY LogBounds
      <3>1. s + 1 \in (s + 1) .. LastIn(logs)
        BY <1>3, <3>0
      <3>2. \A i \in (s + 1) .. LastIn(logs) : i \in logs
        BY <2>1 DEF Reached
      <3> QED BY <3>1, <3>2
    <2> QED BY <1>3, <2>1, <2>2, FirstInIsFirst
  <1> QED BY <1>1, <1>2, <1>3 DEF LogReaches

(* Whatever was interrupted, openNode finds the three stores coherent.       *)
LEMMA AlwaysCoherent ==
    ASSUME OpenInv
    PROVE  Coherent
  <1>1. PICK s \in Nat, c \in Nat : AnchorAt(s, c) /\ Reached(s, c)
    BY DEF OpenInv, StoresMeet
  <1>2. SnapTypes /\ FilesSound /\ SqlSound
    BY DEF OpenInv
  <1>3. DurableCovers /\ SnapshotsVerified /\ LogReaches
    BY <1>1, <1>2, Durable, Verified, Reaches
  <1>4. ConfigurationEvident
    <2>1. s # 0 => Latest(LiveFiles) \in LiveFiles /\ Latest(LiveFiles).config = c
      BY <1>1, <1>2, AnchorIndex
    <2>2. \/ SeededConfig = 0 /\ sql.applied = 0
          \/ SeededConfig \in logs /\ committed[SeededConfig] = "config"
          \/ s # 0 /\ SeededConfig = c
      BY <1>1, <1>2, Seeded
    <2> QED BY <2>1, <2>2 DEF ConfigurationEvident
  <1> QED BY <1>3, <1>4 DEF Coherent

LEMMA OpenInvImplies ==
    ASSUME OpenInv
    PROVE  OpeningsSound
  <1>1. RefusedOnlyForGap
    BY AlwaysCoherent DEF RefusedOnlyForGap, OpenInv
  <1>2. ASSUME mode = "up" PROVE NoCommandSkipped
    <2>1. PICK s \in Nat : RaftRuns(s)
      BY <1>2 DEF OpenInv, StoresMeet
    <2>2. raft.applied \in Nat /\ sql.applied \in Nat
      BY DEF OpenInv, SnapTypes
    <2>3. /\ LastCommand(raft.applied) \in 0 .. raft.applied
          /\ LastCommand(raft.applied) # 0 => committed[LastCommand(raft.applied)] \in Commands
      BY <2>2, AtMostIsLast DEF LastCommand
    <2>4. LastCommand(raft.applied) <= sql.applied
      BY <2>1, <2>2, <2>3 DEF RaftRuns, NoneMissing
    <2>5. sql.install # None => raft.applied >= sql.install.base
      <3>1. sql.install # None => sql.install.base <= raft.applied
        BY <2>1 DEF RaftRuns
      <3>2. sql.install # None => sql.install.base \in Nat
        BY DEF OpenInv, SnapTypes
      <3> QED BY <2>2, <3>1, <3>2
    <2> QED BY <2>4, <2>5 DEF NoCommandSkipped
  <1>3. NoCommandSkipped
    BY <1>2 DEF NoCommandSkipped
  <1> QED BY <1>1, <1>3 DEF OpeningsSound


-----------------------------------------------------------------------------
(* Every step keeps the invariant *)

LEMMA OpenInvInit == Init => OpenInv
  <1> SUFFICES ASSUME Init PROVE OpenInv
    OBVIOUS
  <1> USE DEF Init
  <1>1. committed \in Seq(EntryKinds) /\ Len(committed) = 1 /\ committed[1] = "config"
    BY DEF EntryKinds
  <1>2. peer.snap = None /\ sql.install = None
    OBVIOUS
  <1>3. SnapTypes
    BY <1>1 DEF SnapTypes
  <1>4. PeerSound
    BY <1>2 DEF PeerSound
  <1>5. FilesSound
    <2>1. \E n \in Nat : sql.install # None => sql.install.id <= n
      BY <1>2
    <2> QED BY <2>1 DEF FilesSound
  <1>6. SqlSound
    BY <1>2 DEF SqlSound, InstallRecordValid
  <1>7. AnchorAt(0, 0)
    BY DEF AnchorAt
  <1>8. Reached(0, 0)
    BY <1>2 DEF Reached
  <1>9. RaftRuns(0)
    BY <1>1, <1>2 DEF RaftRuns, NoneMissing, Unrestored
  <1> QED BY <1>3, <1>4, <1>5, <1>6, <1>7, <1>8, <1>9 DEF OpenInv, StoresMeet

LEMMA AppendedKind ==
    ASSUME NEW L \in Seq(EntryKinds), NEW k \in EntryKinds
    PROVE  /\ Append(L, k) \in Seq(EntryKinds) /\ Len(Append(L, k)) = Len(L) + 1
           /\ \A j \in 1 .. Len(L) : Append(L, k)[j] = L[j]
  OBVIOUS

LEMMA CutStays ==
    ASSUME NEW L \in Seq(EntryKinds), NEW k \in EntryKinds, NEW i, NEW b, NEW c,
           CutAt(L, i, b, c)
    PROVE  CutAt(Append(L, k), i, b, c)
  <1>1. /\ Len(Append(L, k)) = Len(L) + 1 /\ Len(L) \in Nat
        /\ \A j \in 1 .. Len(L) : Append(L, k)[j] = L[j]
    BY AppendedKind
  <1>2. i \in 1 .. Len(L) /\ b \in 1 .. i /\ c \in 1 .. i
    BY DEF CutAt
  <1>3. \A j \in 1 .. i : j \in 1 .. Len(L)
    BY <1>1, <1>2
  <1> QED BY <1>1, <1>2, <1>3 DEF CutAt

LEMMA CommitStep ==
    ASSUME OpenInv, NEW k \in Kinds, Commit(k)
    PROVE  OpenInv'
  <1> DEFINE L == committed
  <1>1. L \in Seq(EntryKinds) /\ Len(L) \in Nat /\ k \in EntryKinds
    BY BoundsAssumption DEF OpenInv, SnapTypes, EntryKinds
  <1>2. /\ committed' = Append(L, k)
        /\ UNCHANGED <<peer, logs, files, sql, mode, raft, restore, capture, compact>>
    BY DEF Commit
  <1>3. /\ committed' \in Seq(EntryKinds) /\ Len(committed') = Len(L) + 1
        /\ \A j \in 1 .. Len(L) : committed'[j] = L[j]
    BY <1>1, <1>2, AppendedKind
  <1>4. ASSUME NEW i, NEW b, NEW c, CutAt(committed, i, b, c) PROVE CutAt(committed', i, b, c)
    BY <1>1, <1>2, <1>4, CutStays
  <1> HIDE DEF L
  <1>5. SnapTypes'
    <2>1. Len(committed') >= 1 /\ committed'[1] = "config" /\ 1 .. Len(L) \subseteq 1 .. Len(committed')
      BY <1>1, <1>3 DEF OpenInv, SnapTypes, L
    <2>2. logs' \subseteq 1 .. Len(committed')
      BY <1>2, <2>1 DEF OpenInv, SnapTypes, L
    <2> QED BY <1>2, <1>3, <2>1, <2>2 DEF OpenInv, SnapTypes
  <1>6. PeerSound'
    BY <1>2, <1>4 DEF OpenInv, PeerSound
  <1>7. FilesSound'
    <2>1. \A f \in files' : CutAt(committed', f.index, f.base, f.config)
      BY <1>2, <1>4 DEF OpenInv, FilesSound
    <2>2. \A f \in files' : BindingMatches(f)' /\ LocalCovered(f)'
      BY <1>2 DEF OpenInv, FilesSound, BindingMatches, LocalCovered
    <2> QED BY <1>2, <2>1, <2>2 DEF OpenInv, FilesSound
  <1>8. SqlSound'
    BY <1>1, <1>2, <1>3 DEF OpenInv, SqlSound, InstallRecordValid, L
  <1>9. StoresMeet'
    <2>1. PICK s \in Nat, c \in Nat :
              AnchorAt(s, c) /\ Reached(s, c) /\ (mode = "up" => RaftRuns(s))
      BY DEF OpenInv, StoresMeet
    <2>2. AnchorAt(s, c)'
      BY <1>2, <2>1 DEF AnchorAt, IsAnchor, Bound
    <2>3. Reached(s, c)'
      BY <1>2, <2>1 DEF Reached
    <2>4. ASSUME mode = "up" PROVE RaftRuns(s)'
      <3>1. RaftRuns(s)
        BY <2>1, <2>4
      <3>2. raft.applied \in Nat /\ raft.applied <= Len(L)
        BY <3>1 DEF OpenInv, SnapTypes, RaftRuns, L
      <3>3. NoneMissing(committed', raft.applied, sql.applied)
        BY <1>1, <1>3, <3>1, <3>2 DEF RaftRuns, NoneMissing, L
      <3>4. raft.applied <= Len(committed')
        BY <1>1, <1>3, <3>2
      <3>5. \A f : f \in LiveFiles <=> f \in LiveFiles'
        BY <1>2 DEF LiveFiles, Bound
      <3>6. \A f : (Bound(f) <=> Bound(f)') /\ (IsAnchor(f) <=> IsAnchor(f)')
        BY <1>2 DEF Bound, IsAnchor
      <3>7. Unrestored <=> Unrestored'
        BY <1>2 DEF Unrestored
      <3>8. capture' # None /\ AnchorCovers(capture') =>
               CutAt(committed', capture'.index, capture'.base, capture'.config)
        BY <1>2, <1>4, <3>1 DEF RaftRuns
      <3> QED BY <1>2, <3>1, <3>3, <3>4, <3>5, <3>6, <3>7, <3>8 DEF RaftRuns
    <2> QED BY <1>2, <2>1, <2>2, <2>3, <2>4 DEF StoresMeet
  <1> QED BY <1>2, <1>5, <1>6, <1>7, <1>8, <1>9 DEF OpenInv, LogContiguous

LEMMA PeerSnapshotStep ==
    ASSUME OpenInv, NEW i \in 1 .. Len(committed), PeerSnapshot(i)
    PROVE  OpenInv'
  <1> DEFINE b == LastCommand(i)
             c == LastConfig(i)
             m == Min({i, Len(committed) - TrailingLogs})
  <1>1. /\ b # 0 /\ committed[b] = "checkpoint"
        /\ peer.snap # None => peer.snap.index < i
        /\ peer' = [snap  |-> [index |-> i, base |-> b, config |-> c],
                    first |-> Max({peer.first, m + 1})]
        /\ UNCHANGED <<committed, logs, files, sql, mode, raft, restore, capture, compact>>
    BY DEF PeerSnapshot
  <1>2. Len(committed) \in Nat /\ i \in Nat /\ 1 <= i /\ committed[1] = "config"
    BY DEF OpenInv, SnapTypes
  <1>3. /\ b \in 0 .. i
        /\ \A j \in 1 .. i : committed[j] \in Commands => j <= b
    BY <1>2, AtMostIsLast DEF LastCommand
  <1>4. /\ c \in 0 .. i /\ (c # 0 => committed[c] = "config")
        /\ \A j \in 1 .. i : committed[j] = "config" => j <= c
    BY <1>2, AtMostIsLast DEF LastConfig
  <1>5. c # 0
    BY <1>2, <1>4
  <1>6. CutAt(committed, i, b, c)
    BY <1>1, <1>2, <1>3, <1>4, <1>5 DEF CutAt
  <1>7. m \in Int /\ m <= i
    BY <1>2, BoundsAssumption, MinOfTwo
  <1> HIDE DEF b, c, m
  <1>8. peer.first \in Nat /\ peer.first <= i + 1
    <2>1. peer.first \in Nat
      BY DEF OpenInv, SnapTypes
    <2>2. CASE peer.snap = None
      BY <1>2, <2>1, <2>2 DEF OpenInv, PeerSound
    <2>3. CASE peer.snap # None
      <3>1. peer.snap.index \in Nat
        BY <2>3 DEF OpenInv, SnapTypes
      <3> QED BY <1>1, <1>2, <2>1, <2>3, <3>1 DEF OpenInv, PeerSound
    <2> QED BY <2>1, <2>2, <2>3
  <1>9. Max({peer.first, m + 1}) \in Nat /\ Max({peer.first, m + 1}) <= i + 1
    BY <1>2, <1>7, <1>8, MaxOfTwo
  <1>10. peer'.snap \in [index : Nat, base : Nat, config : Nat] /\ peer'.first \in Nat
    BY <1>1, <1>2, <1>3, <1>4, <1>9
  <1>11. SnapTypes'
    <2>1. peer' \in [first : Nat, snap : {None} \cup [index : Nat, base : Nat, config : Nat]]
      BY <1>1, <1>10
    <2> QED BY <1>1, <2>1 DEF OpenInv, SnapTypes
  <1>12. PeerSound'
    BY <1>1, <1>6, <1>9, <1>10, RecordsAreSome DEF PeerSound
  <1>13. (FilesSound /\ SqlSound /\ StoresMeet)' <=> (FilesSound /\ SqlSound /\ StoresMeet)
    BY <1>1 DEF FilesSound, BindingMatches, LocalCovered, SqlSound, InstallRecordValid, StoresMeet,
                AnchorAt, IsAnchor, Bound, Reached, RaftRuns, Unrestored, LiveFiles
  <1>14. LogContiguous' <=> LogContiguous
    BY <1>1 DEF LogContiguous
  <1> QED BY <1>1, <1>11, <1>12, <1>13, <1>14 DEF OpenInv


(* The three facts about files and SQLite that a step outside them keeps.    *)
LEMMA QuietStores ==
    ASSUME UNCHANGED <<committed, files, sql>>
    PROVE  /\ FilesSound' <=> FilesSound
           /\ SqlSound' <=> SqlSound
           /\ \A s, c : AnchorAt(s, c)' <=> AnchorAt(s, c)
           /\ LiveFiles' = LiveFiles
           /\ \A f : (Bound(f)' <=> Bound(f)) /\ (IsAnchor(f)' <=> IsAnchor(f))
  BY DEF FilesSound, BindingMatches, LocalCovered, SqlSound, InstallRecordValid,
         AnchorAt, IsAnchor, Bound, LiveFiles

LEMMA LastIndexIsLast ==
    ASSUME SnapTypes
    PROVE  /\ LastIndex \in Nat /\ raft.snap <= LastIndex
           /\ \A j \in logs : j <= LastIndex
           /\ LastIndex = raft.snap \/ LastIndex \in logs
  <1>1. raft.snap \in Nat
    BY DEF SnapTypes
  <1>2. /\ logs \in SUBSET Nat /\ LastIn(logs) \in Nat /\ LastIn(logs) \in logs \cup {0}
        /\ \A x \in logs : x <= LastIn(logs)
    BY LogBounds
  <1>3. LastIndex = IF LastIn(logs) >= raft.snap THEN LastIn(logs) ELSE raft.snap
    BY <1>1, <1>2, MaxOfTwo DEF LastIndex
  <1> QED BY <1>1, <1>2, <1>3

LEMMA ReplicateStep ==
    ASSUME OpenInv, Replicate
    PROVE  OpenInv'
  <1> DEFINE n == LastIndex + 1
  <1>1. /\ mode = "up" /\ restore = None /\ LastIndex < Len(committed)
        /\ logs' = logs \cup {n}
        /\ UNCHANGED <<committed, peer, files, sql, mode, raft, restore, capture, compact>>
    BY DEF Replicate
  <1>2. SnapTypes /\ PeerSound /\ FilesSound /\ SqlSound
    BY DEF OpenInv
  <1>3. PICK s \in Nat, c \in Nat : AnchorAt(s, c) /\ Reached(s, c) /\ RaftRuns(s)
    BY <1>1 DEF OpenInv, StoresMeet
  <1>4. /\ LastIndex \in Nat /\ (\A j \in logs : j <= LastIndex)
        /\ LastIndex = s \/ LastIndex \in logs
    BY <1>1, <1>2, <1>3, LastIndexIsLast DEF RaftRuns
  <1>5. n \in Nat /\ n \in 1 .. Len(committed) /\ logs \in SUBSET Nat
    BY <1>1, <1>2, <1>4, LogBounds
  <1>6. SnapTypes'
    BY <1>1, <1>2, <1>5 DEF SnapTypes
  <1>7. PeerSound' /\ FilesSound' /\ SqlSound' /\ AnchorAt(s, c)'
    BY <1>1, <1>2, <1>3, QuietStores DEF PeerSound
  <1>8. Reached(s, c)'
    <2>1. ASSUME NEW j \in logs', NEW i \in (s + 1) .. j PROVE i \in logs'
      <3>1. CASE j \in logs
        BY <1>1, <1>3, <3>1 DEF Reached
      <3>2. CASE j = n /\ i # n
        <4>1. i \in (s + 1) .. LastIndex
          BY <1>4, <3>2
        <4>2. LastIndex \in logs
          BY <1>4, <4>1
        <4> QED BY <1>1, <1>3, <4>1, <4>2 DEF Reached
      <3>3. CASE i = n
        BY <1>1, <3>3
      <3> QED BY <1>1, <3>1, <3>2, <3>3
    <2>2. logs \subseteq logs'
      BY <1>1
    <2> QED BY <1>1, <1>3, <2>1, <2>2 DEF Reached
  <1>9. RaftRuns(s)'
    <2>1. logs \subseteq logs'
      BY <1>1
    <2>2. LiveFiles' = LiveFiles /\ Unrestored' = Unrestored
      BY <1>1, QuietStores DEF Unrestored
    <2>3. /\ raft.applied <= Len(committed)
          /\ NoneMissing(committed, raft.applied, sql.applied)
          /\ sql.install # None => sql.install.base <= raft.applied
          /\ compact <= raft.snap
          /\ \A f \in files : f \in LiveFiles
          /\ raft.snap = s
      BY <1>1, <1>3 DEF RaftRuns, Unrestored
    <2>4. capture # None /\ AnchorCovers(capture) =>
             /\ CutAt(committed, capture.index, capture.base, capture.config)
             /\ capture.base <= sql.applied
             /\ capture.index <= raft.snap \/ \E j \in logs' : capture.index <= j
      BY <1>3, <2>1 DEF RaftRuns
    <2> QED BY <1>1, <2>2, <2>3, <2>4 DEF RaftRuns, Unrestored
  <1> QED BY <1>1, <1>6, <1>7, <1>8, <1>9 DEF OpenInv, StoresMeet

(* Applying an entry takes neither SQLite position back, and leaves the      *)
(* record of the installation alone.                                         *)
LEMMA AppliedAdvances ==
    ASSUME SnapTypes, NEW i \in Nat
    PROVE  LET t == AppliedTo(sql, i) IN
           /\ t \in [applied : Nat, config : Nat,
                     install : {None} \cup [id : Nat, index : Nat, base : Nat, config : Nat]]
           /\ t.install = sql.install
           /\ sql.applied <= t.applied /\ t.applied \in {sql.applied, i}
           /\ committed[i] \in Commands => i <= t.applied
           /\ sql.config <= t.config
           /\ t.config = sql.config \/ (t.config = i /\ committed[i] = "config")
  <1> DEFINE t == AppliedTo(sql, i)
  <1>1. sql \in [applied : Nat, config : Nat,
                 install : {None} \cup [id : Nat, index : Nat, base : Nat, config : Nat]]
    BY DEF SnapTypes
  <1>2. /\ Max({sql.applied, i}) = IF sql.applied >= i THEN sql.applied ELSE i
        /\ Max({sql.config, i}) = IF sql.config >= i THEN sql.config ELSE i
    BY <1>1, MaxOfTwo
  <1>3. CASE committed[i] \in Commands
    <2>1. t = [sql EXCEPT !.applied = Max({sql.applied, i})]
      BY <1>3 DEF AppliedTo, Commands
    <2>2. committed[i] # "config"
      BY <1>3 DEF Commands
    <2> HIDE DEF t
    <2> QED BY <1>1, <1>2, <2>1, <2>2 DEF t
  <1>4. CASE committed[i] = "config"
    <2>1. t = [sql EXCEPT !.config = Max({sql.config, i})]
      BY <1>4 DEF AppliedTo, Commands
    <2>2. committed[i] \notin Commands
      BY <1>4 DEF Commands
    <2> HIDE DEF t
    <2> QED BY <1>1, <1>2, <1>4, <2>1, <2>2 DEF t
  <1>5. CASE committed[i] \notin Commands /\ committed[i] # "config"
    <2>1. t = sql
      BY <1>5 DEF AppliedTo
    <2> HIDE DEF t
    <2> QED BY <1>1, <1>5, <2>1 DEF t
  <1> QED BY <1>3, <1>4, <1>5

LEMMA ApplyEntryStep ==
    ASSUME OpenInv, ApplyEntry
    PROVE  OpenInv'
  <1>1. PICK n : n = raft.applied + 1
    OBVIOUS
  <1>2. /\ mode = "up" /\ (restore # None => ~ restore.done) /\ n \in logs
        /\ raft' = [raft EXCEPT !.applied = n] /\ sql' = AppliedTo(sql, n)
        /\ UNCHANGED <<committed, peer, logs, files, mode, restore, capture, compact>>
    BY <1>1 DEF ApplyEntry
  <1>3. SnapTypes /\ PeerSound /\ FilesSound /\ SqlSound
    BY DEF OpenInv
  <1>4. PICK s \in Nat, c \in Nat : AnchorAt(s, c) /\ Reached(s, c) /\ RaftRuns(s)
    BY <1>2 DEF OpenInv, StoresMeet
  <1>5. n \in Nat /\ n \in 1 .. Len(committed) /\ raft.applied \in Nat /\ Len(committed) \in Nat
    BY <1>2, <1>3 DEF SnapTypes
  <1>6. /\ sql' \in [applied : Nat, config : Nat,
                     install : {None} \cup [id : Nat, index : Nat, base : Nat, config : Nat]]
        /\ sql'.install = sql.install
        /\ sql.applied <= sql'.applied /\ sql'.applied \in {sql.applied, n}
        /\ committed[n] \in Commands => n <= sql'.applied
        /\ sql.config <= sql'.config
        /\ sql'.config = sql.config \/ (sql'.config = n /\ committed[n] = "config")
    BY <1>2, <1>3, <1>5, AppliedAdvances
  <1>7. sql.applied \in Nat /\ sql.config \in Nat /\ sql'.applied \in Nat /\ sql'.config \in Nat
    BY <1>3, <1>6 DEF SnapTypes
  <1>8. raft' \in [applied : Nat, snap : Nat] /\ raft'.applied = n /\ raft'.snap = raft.snap
    BY <1>2, <1>3, <1>5 DEF SnapTypes
  <1>9. SnapTypes' /\ PeerSound'
    BY <1>2, <1>3, <1>6, <1>8 DEF SnapTypes, PeerSound
  <1>10. \A f : Bound(f)' <=> Bound(f)
    BY <1>6 DEF Bound
  <1>11. AnchorAt(s, c)' /\ LiveFiles' = LiveFiles
    BY <1>2, <1>4, <1>10 DEF AnchorAt, IsAnchor, LiveFiles
  <1>12. FilesSound'
    <2>1. \A f \in files : BindingMatches(f)'
      BY <1>3, <1>6 DEF FilesSound, BindingMatches
    <2>2. \A f \in files : LocalCovered(f)'
      <3>1. \A f \in files : f.base \in Nat
        BY <1>3 DEF SnapTypes, FileRecords
      <3> QED BY <1>3, <1>6, <1>7, <3>1 DEF FilesSound, LocalCovered
    <2> QED BY <1>2, <1>3, <1>6, <2>1, <2>2 DEF FilesSound
  <1>13. SqlSound'
    <2>1. InstallRecordValid'
      <3>1. sql.install # None => sql.install.base \in Nat /\ sql.install.config \in Nat
        BY <1>3 DEF SnapTypes
      <3> QED BY <1>3, <1>6, <1>7, <3>1 DEF SqlSound, InstallRecordValid
    <2> QED BY <1>2, <1>3, <1>5, <1>6, <2>1 DEF SqlSound
  <1>14. Reached(s, c)'
    BY <1>2, <1>4, <1>5, <1>6 DEF Reached
  <1>15. RaftRuns(s)'
    <2>1. NoneMissing(committed, n, sql'.applied)
      <3>1. \A j \in 1 .. n : j \in 1 .. raft.applied \/ j = n
        BY <1>1, <1>5
      <3> QED BY <1>4, <1>5, <1>6, <1>7, <3>1 DEF RaftRuns, NoneMissing
    <2>2. sql'.install # None => sql'.install.base <= n
      <3>1. sql.install # None => sql.install.base \in Nat
        BY <1>3 DEF SnapTypes
      <3> QED BY <1>1, <1>4, <1>5, <1>6, <3>1 DEF RaftRuns
    <2>3. Unrestored' = Unrestored /\ ~(restore # None /\ restore.done)
      BY <1>2 DEF Unrestored
    <2>4. capture # None /\ AnchorCovers(capture) =>
             /\ CutAt(committed, capture.index, capture.base, capture.config)
             /\ capture.base <= sql'.applied
             /\ capture.index <= raft.snap \/ \E j \in logs : capture.index <= j
      <3>1. capture # None => capture.base \in Nat
        BY <1>3 DEF SnapTypes
      <3> QED BY <1>4, <1>6, <1>7, <3>1 DEF RaftRuns
    <2>5. n <= Len(committed)
      BY <1>5
    <2>6. restore # None => /\ restore.file \in files
                            /\ raft.snap < restore.file.index
                            /\ \A j \in logs : j < restore.file.index
      BY <1>4 DEF RaftRuns
    <2>7. restore = None \/ Unrestored => raft.snap = s
      BY <1>4 DEF RaftRuns
    <2>8. /\ ~ Unrestored => \A f \in files : f \in LiveFiles
          /\ Unrestored => /\ ~ Bound(restore.file)
                        /\ \A f \in files : f = restore.file \/ f \in LiveFiles
      BY <1>4 DEF RaftRuns
    <2>9. compact <= raft.snap
      BY <1>4 DEF RaftRuns
    <2> QED BY <1>2, <1>8, <1>10, <1>11, <2>1, <2>2, <2>3, <2>4, <2>5, <2>6, <2>7, <2>8, <2>9
            DEF RaftRuns
  <1> QED BY <1>2, <1>9, <1>11, <1>12, <1>13, <1>14, <1>15 DEF OpenInv, StoresMeet


(* The contiguous entries after the applied command that are no commands.    *)
LEMMA TailEndIs ==
    ASSUME SnapTypes, sql.applied \in logs
    PROVE  /\ TailEnd \in Nat /\ sql.applied <= TailEnd /\ TailEnd <= LastIn(logs)
           /\ \A j \in (sql.applied + 1) .. TailEnd : TailEntry(j)
  <1> DEFINE Run(k) == \A j \in (sql.applied + 1) .. k : j \in logs /\ TailEntry(j)
             T == {k \in sql.applied .. LastIn(logs) : Run(k)}
  <1>1. sql.applied \in Nat /\ LastIn(logs) \in Nat /\ sql.applied <= LastIn(logs)
    BY LogBounds DEF SnapTypes
  <1>2. logs \cup {sql.applied} = logs
    OBVIOUS
  <1>3. TailEnd = Max(T)
    BY <1>2 DEF TailEnd
  <1>4. T \in SUBSET Nat /\ \A x \in T : x <= LastIn(logs)
    BY <1>1
  <1>5. sql.applied \in T
    BY <1>1
  <1>6. \A k \in T : sql.applied <= k /\ k <= LastIn(logs) /\ \A j \in (sql.applied + 1) .. k : TailEntry(j)
    BY <1>1
  <1> HIDE DEF T
  <1>7. Max(T) \in T /\ Max(T) \in Nat
    BY <1>1, <1>4, <1>5, MaxIsGreatest
  <1> QED BY <1>3, <1>6, <1>7

LEMMA CaptureStep ==
    ASSUME OpenInv, CaptureSnapshot
    PROVE  OpenInv'
  <1>1. /\ mode = "up" /\ sql.applied \in logs /\ committed[sql.applied] = "checkpoint"
        /\ capture' = [base |-> sql.applied, tail |-> TailEnd,
                       index |-> raft.applied, config |-> LastConfig(raft.applied)]
        /\ UNCHANGED <<committed, peer, logs, files, sql, mode, raft, restore, compact>>
    BY DEF CaptureSnapshot, Eligible, ExportedCut
  <1>2. SnapTypes /\ PeerSound /\ FilesSound /\ SqlSound
    BY DEF OpenInv
  <1>3. PICK s \in Nat, c \in Nat : AnchorAt(s, c) /\ Reached(s, c) /\ RaftRuns(s)
    BY <1>1 DEF OpenInv, StoresMeet
  <1>4. /\ TailEnd \in Nat /\ TailEnd <= LastIn(logs)
        /\ \A j \in (sql.applied + 1) .. TailEnd : TailEntry(j)
    BY <1>1, <1>2, TailEndIs
  <1>5. /\ raft.applied \in Nat /\ raft.applied <= Len(committed)
        /\ Len(committed) \in Nat /\ sql.applied \in Nat /\ sql.applied \in 1 .. Len(committed)
        /\ committed[1] = "config"
    BY <1>1, <1>2, <1>3 DEF SnapTypes, RaftRuns
  <1>6. PICK g : g = LastConfig(raft.applied)
    OBVIOUS
  <1>7. /\ g \in 0 .. raft.applied /\ (g # 0 => committed[g] = "config")
        /\ \A j \in 1 .. raft.applied : committed[j] = "config" => j <= g
    BY <1>5, <1>6, AtMostIsLast DEF LastConfig
  <1>8. /\ capture' \in [base : Nat, tail : Nat, index : Nat, config : Nat]
        /\ capture'.base = sql.applied /\ capture'.tail = TailEnd
        /\ capture'.index = raft.applied /\ capture'.config = g
    BY <1>1, <1>4, <1>5, <1>6, <1>7
  <1>9. SnapTypes' /\ PeerSound'
    BY <1>1, <1>2, <1>8 DEF SnapTypes, PeerSound
  <1>10. FilesSound' /\ SqlSound' /\ AnchorAt(s, c)' /\ Reached(s, c)'
    BY <1>1, <1>2, <1>3, QuietStores DEF Reached
  <1>11. ASSUME AnchorCovers(capture')
         PROVE  /\ CutAt(committed, raft.applied, sql.applied, g)
                /\ \E j \in logs : raft.applied <= j
    <2>1. sql.applied <= raft.applied /\ raft.applied <= TailEnd
      BY <1>8, <1>11 DEF AnchorCovers
    <2>2. raft.applied \in 1 .. Len(committed) /\ sql.applied \in 1 .. raft.applied
      BY <1>5, <2>1
    <2>3. g \in 1 .. raft.applied
      BY <1>5, <1>7, <2>2
    <2>4. ASSUME NEW j \in 1 .. raft.applied, committed[j] \in Commands PROVE j <= sql.applied
      <3>1. ~ TailEntry(j)
        BY <2>4 DEF TailEntry, Commands
      <3>2. j > sql.applied => j \in (sql.applied + 1) .. TailEnd
        BY <1>4, <1>5, <2>1
      <3> QED BY <1>4, <1>5, <3>1, <3>2
    <2>5. CutAt(committed, raft.applied, sql.applied, g)
      BY <1>1, <1>7, <2>2, <2>3, <2>4 DEF CutAt
    <2>6. LastIn(logs) \in Nat /\ LastIn(logs) \in logs \cup {0}
      BY <1>2, LogBounds
    <2>7. raft.applied <= LastIn(logs)
      BY <1>4, <1>5, <2>1, <2>6
    <2> QED BY <1>5, <2>2, <2>5, <2>6, <2>7
  <1>12. RaftRuns(s)'
    <2>1. /\ LiveFiles' = LiveFiles /\ Unrestored' = Unrestored
          /\ \A f : (Bound(f)' <=> Bound(f)) /\ (IsAnchor(f)' <=> IsAnchor(f))
      BY <1>1, QuietStores DEF Unrestored
    <2>2. AnchorCovers(capture') =>
             /\ CutAt(committed, capture'.index, capture'.base, capture'.config)
             /\ capture'.base <= sql.applied
             /\ \E j \in logs : capture'.index <= j
      BY <1>5, <1>8, <1>11
    <2> QED BY <1>1, <1>3, <2>1, <2>2 DEF RaftRuns
  <1> QED BY <1>1, <1>9, <1>10, <1>12 DEF OpenInv, StoresMeet

(* Compacting no further than the anchor takes nothing away SQLite needs.    *)
LEMMA CompactionReached ==
    ASSUME SnapTypes, FilesSound, SqlSound, NEW s \in Nat, NEW c \in Nat,
           AnchorAt(s, c), Reached(s, c), NEW i \in Nat, i <= s,
           logs' = CompactedLogs(logs, i), UNCHANGED <<committed, files, sql>>
    PROVE  Reached(s, c)'
  <1>1. /\ logs' \subseteq logs
        /\ \A j \in logs : j > i => j \in logs'
        /\ \A x \in Nat : (\E j \in logs : x <= j) => x <= i \/ \E j \in logs' : x <= j
    BY LogBounds, CompactionKeeps
  <1>2. logs \in SUBSET Nat /\ sql.applied \in Nat /\ sql.config \in Nat
    BY LogBounds DEF SnapTypes
  <1>3. s = 0 => 1 \in logs'
    BY <1>1 DEF Reached
  <1>4. ASSUME NEW j \in logs', NEW k \in (s + 1) .. j PROVE k \in logs'
    <2>1. j \in logs /\ j \in Nat
      BY <1>1, <1>2
    <2>2. k \in logs
      BY <2>1 DEF Reached
    <2>3. k > i
      BY <2>1
    <2> QED BY <1>1, <2>2, <2>3
  <1>5. sql.applied <= s \/ \E j \in logs' : sql.applied <= j
    BY <1>1, <1>2 DEF Reached
  <1>6. sql.config \in logs' \cup {0} \/ sql.config <= c
    <2> SUFFICES ASSUME sql.config # 0, sql.config \notin logs', sql.config \in logs
                 PROVE  sql.config <= c
      BY DEF Reached
    <2>1. sql.config <= s /\ committed[sql.config] = "config" /\ sql.config \in 1 .. s
      BY <1>1, <1>2 DEF SqlSound
    <2>2. PICK b \in files : b.index = s /\ b.config = c
      BY <2>1 DEF AnchorAt
    <2>3. CutAt(committed, s, b.base, c)
      BY <2>2 DEF FilesSound
    <2> QED BY <2>1, <2>3 DEF CutAt
  <1> QED BY <1>3, <1>4, <1>5, <1>6 DEF Reached

LEMMA CompactStep ==
    ASSUME OpenInv, CompactLog
    PROVE  OpenInv'
  <1>1. /\ mode = "up" /\ logs' = CompactedLogs(logs, compact) /\ compact' = 0
        /\ UNCHANGED <<committed, peer, files, sql, mode, raft, restore, capture>>
    BY DEF CompactLog
  <1>2. SnapTypes /\ PeerSound /\ FilesSound /\ SqlSound
    BY DEF OpenInv
  <1>3. PICK s \in Nat, c \in Nat : AnchorAt(s, c) /\ Reached(s, c) /\ RaftRuns(s)
    BY <1>1 DEF OpenInv, StoresMeet
  <1>4. compact \in Nat /\ raft.snap \in Nat /\ compact <= raft.snap
    BY <1>2, <1>3 DEF SnapTypes, RaftRuns
  <1>5. raft.snap <= s
    <2>1. CASE restore = None \/ Unrestored
      BY <1>3, <1>4, <2>1 DEF RaftRuns
    <2>2. CASE restore # None /\ restore.done
      BY <1>3, <1>4, <2>2 DEF RaftRuns
    <2> QED BY <2>1, <2>2 DEF Unrestored
  <1>6. /\ logs' \subseteq logs
        /\ \A x \in Nat : (\E j \in logs : x <= j) => x <= compact \/ \E j \in logs' : x <= j
    BY <1>1, <1>2, <1>4, LogBounds, CompactionKeeps
  <1>7. SnapTypes' /\ PeerSound'
    BY <1>1, <1>2, <1>6 DEF SnapTypes, PeerSound
  <1>8. FilesSound' /\ SqlSound' /\ AnchorAt(s, c)'
    BY <1>1, <1>2, <1>3, QuietStores
  <1>9. Reached(s, c)'
    <2>1. compact <= s
      BY <1>4, <1>5
    <2> QED BY <1>1, <1>2, <1>3, <1>4, <2>1, CompactionReached
  <1>10. RaftRuns(s)'
    <2>1. /\ LiveFiles' = LiveFiles /\ Unrestored' = Unrestored
          /\ \A f : (Bound(f)' <=> Bound(f)) /\ (IsAnchor(f)' <=> IsAnchor(f))
      BY <1>1, QuietStores DEF Unrestored
    <2>2. capture # None /\ AnchorCovers(capture) =>
             /\ CutAt(committed, capture.index, capture.base, capture.config)
             /\ capture.base <= sql.applied
             /\ capture.index <= raft.snap \/ \E j \in logs' : capture.index <= j
      <3>1. capture # None => capture.index \in Nat
        BY <1>2 DEF SnapTypes
      <3> QED BY <1>3, <1>4, <1>6, <3>1 DEF RaftRuns
    <2>3. compact' <= raft.snap
      BY <1>1, <1>4
    <2>4. restore # None => \A j \in logs' : j < restore.file.index
      BY <1>3, <1>6 DEF RaftRuns
    <2> QED BY <1>1, <1>3, <2>1, <2>2, <2>3, <2>4 DEF RaftRuns
  <1> QED BY <1>1, <1>7, <1>8, <1>9, <1>10 DEF OpenInv, StoresMeet

LEMMA FinishStep ==
    ASSUME OpenInv, FinishInstall
    PROVE  OpenInv'
  <1>1. PICK r : r = restore.file
    OBVIOUS
  <1>2. /\ mode = "up" /\ restore # None /\ restore.done
        /\ raft' = [raft EXCEPT !.snap = Max({raft.snap, r.index})]
        /\ logs' = CompactedLogs(logs, r.index) /\ restore' = None
        /\ UNCHANGED <<committed, peer, files, sql, mode, capture, compact>>
    BY <1>1 DEF FinishInstall
  <1>3. SnapTypes /\ PeerSound /\ FilesSound /\ SqlSound
    BY DEF OpenInv
  <1>4. PICK s \in Nat, c \in Nat : AnchorAt(s, c) /\ Reached(s, c) /\ RaftRuns(s)
    BY <1>2 DEF OpenInv, StoresMeet
  <1>5. raft.snap \in Nat /\ compact \in Nat /\ logs \in SUBSET Nat
    BY <1>3, LogBounds DEF SnapTypes
  <1>6. /\ r.index = s /\ raft.snap < s /\ (\A j \in logs : j < s) /\ compact <= raft.snap
        /\ \A f \in files : f \in LiveFiles
    BY <1>1, <1>2, <1>4 DEF RaftRuns, Unrestored
  <1>7. raft' \in [applied : Nat, snap : Nat] /\ raft'.snap = s /\ raft'.applied = raft.applied
    <2>1. Max({raft.snap, s}) = s
      BY <1>5, <1>6, MaxOfTwo
    <2> QED BY <1>2, <1>3, <1>6, <2>1 DEF SnapTypes
  <1>8. logs' \subseteq logs
    BY <1>2, <1>3, <1>6, LogBounds, CompactionKeeps
  <1>9. SnapTypes' /\ PeerSound'
    BY <1>2, <1>3, <1>7, <1>8 DEF SnapTypes, PeerSound
  <1>10. FilesSound' /\ SqlSound' /\ AnchorAt(s, c)'
    BY <1>2, <1>3, <1>4, QuietStores
  <1>11. Reached(s, c)'
    <2>1. s <= s
      OBVIOUS
    <2> QED BY <1>2, <1>3, <1>4, <1>6, <2>1, CompactionReached
  <1>12. RaftRuns(s)'
    <2>1. LiveFiles' = LiveFiles /\ ~ Unrestored'
      BY <1>2, QuietStores DEF Unrestored
    <2>2. capture # None /\ AnchorCovers(capture) =>
             /\ CutAt(committed, capture.index, capture.base, capture.config)
             /\ capture.base <= sql.applied /\ capture.index <= s
      <3>1. capture # None => capture.index \in Nat
        BY <1>3 DEF SnapTypes
      <3> QED BY <1>4, <1>5, <1>6, <3>1 DEF RaftRuns
    <2>3. compact <= s
      BY <1>5, <1>6
    <2> QED BY <1>2, <1>4, <1>6, <1>7, <2>1, <2>2, <2>3 DEF RaftRuns
  <1> QED BY <1>2, <1>9, <1>10, <1>11, <1>12 DEF OpenInv, StoresMeet


LEMMA CrashStep ==
    ASSUME OpenInv, Crash
    PROVE  OpenInv'
  <1>1. /\ mode' = "down" /\ restore' = None /\ capture' = None /\ compact' = 0
        /\ raft' = [applied |-> 0, snap |-> 0]
        /\ UNCHANGED <<committed, peer, logs, files, sql>>
    BY DEF Crash
  <1>2. SnapTypes /\ PeerSound /\ FilesSound /\ SqlSound
    BY DEF OpenInv
  <1>3. PICK s \in Nat, c \in Nat : AnchorAt(s, c) /\ Reached(s, c)
    BY DEF OpenInv, StoresMeet
  <1>4. SnapTypes' /\ PeerSound'
    BY <1>1, <1>2 DEF SnapTypes, PeerSound
  <1>5. FilesSound' /\ SqlSound' /\ AnchorAt(s, c)' /\ Reached(s, c)'
    BY <1>1, <1>2, <1>3, QuietStores DEF Reached
  <1> QED BY <1>1, <1>4, <1>5 DEF OpenInv, StoresMeet

(* A file the anchor is not behind is quarantined, and only such a file.     *)
LEMMA LiveIsBehind ==
    ASSUME SnapTypes, FilesSound, NEW s \in Nat, NEW c \in Nat, AnchorAt(s, c),
           NEW f \in LiveFiles
    PROVE  \E b \in files : /\ IsAnchor(b) /\ b.index = s /\ b.config = c
                            /\ f = b \/ Newer(b, f)
                            /\ f \in files /\ f.index \in Nat /\ f.index <= s
  <1>1. f \in files /\ f \in FileRecords /\ files \in SUBSET FileRecords
    BY DEF LiveFiles, SnapTypes
  <1>2. PICK b \in files : IsAnchor(b) /\ b.index = s /\ b.config = c
    BY DEF AnchorAt, LiveFiles
  <1>3. f = b \/ Newer(b, f)
    BY <1>2, AnchorIsLatest
  <1>4. f.index \in Nat /\ b.index \in Nat
    BY <1>1 DEF FileRecords
  <1>5. f.index <= b.index
    BY <1>3, <1>4 DEF Newer
  <1> QED BY <1>1, <1>2, <1>3, <1>4, <1>5

LEMMA RejectStep ==
    ASSUME OpenInv, RejectSnapshot
    PROVE  OpenInv'
  <1>1. PICK r : r = restore.file
    OBVIOUS
  <1>2. /\ mode = "up" /\ Unrestored /\ files' = files \ {r} /\ mode' = "halted"
        /\ restore' = None /\ capture' = None /\ compact' = 0
        /\ raft' = [applied |-> 0, snap |-> 0]
        /\ UNCHANGED <<committed, peer, logs, sql>>
    BY <1>1 DEF RejectSnapshot, Quarantined, Unrestored
  <1>3. SnapTypes /\ PeerSound /\ FilesSound /\ SqlSound
    BY DEF OpenInv
  <1>4. PICK s \in Nat, c \in Nat : AnchorAt(s, c) /\ Reached(s, c) /\ RaftRuns(s)
    BY <1>2 DEF OpenInv, StoresMeet
  <1>5. ~ Bound(r) /\ \A f \in files : f = r \/ f \in LiveFiles
    BY <1>1, <1>2, <1>4 DEF RaftRuns
  <1>6. \A f : Bound(f)' <=> Bound(f)
    BY <1>2 DEF Bound
  <1>7. SnapTypes' /\ PeerSound'
    BY <1>2, <1>3 DEF SnapTypes, PeerSound
  <1>8. AnchorAt(s, c)'
    <2>1. CASE s = 0 /\ c = 0 /\ \A f \in files : ~ Bound(f)
      BY <1>2, <1>6, <2>1 DEF AnchorAt
    <2>2. ASSUME NEW b \in files, IsAnchor(b), b.index = s, b.config = c
          PROVE  AnchorAt(s, c)'
      <3>1. b \in files'
        BY <1>2, <1>5, <2>2 DEF IsAnchor
      <3>2. IsAnchor(b)'
        BY <1>2, <1>6, <2>2, <3>1 DEF IsAnchor
      <3> QED BY <2>2, <3>1, <3>2 DEF AnchorAt
    <2> QED BY <1>4, <2>1, <2>2 DEF AnchorAt
  <1>9. FilesSound'
    <2>1. \A f \in files' : BindingMatches(f)' /\ LocalCovered(f)'
      BY <1>2, <1>3 DEF FilesSound, BindingMatches, LocalCovered
    <2>2. ASSUME files' # {} PROVE \E t \in files' : \A g \in files' \ {t} : Newer(t, g)
      <3>1. PICK f \in files' : f \in LiveFiles
        BY <1>2, <1>5, <2>2
      <3>2. PICK b \in files : IsAnchor(b)
        BY <1>3, <1>4, <3>1, LiveIsBehind
      <3>3. b \in files'
        BY <1>2, <1>5, <3>2 DEF IsAnchor
      <3>4. \A g \in files' \ {b} : Newer(b, g)
        BY <1>2, <1>3, <1>5, <3>2, AnchorIsLatest
      <3> QED BY <3>3, <3>4
    <2> QED BY <1>2, <1>3, <2>1, <2>2 DEF FilesSound
  <1>10. SqlSound' /\ Reached(s, c)'
    BY <1>2, <1>3, <1>4 DEF SqlSound, InstallRecordValid, Reached
  <1> QED BY <1>2, <1>7, <1>8, <1>9, <1>10 DEF OpenInv, StoresMeet

(* A file's name is fresh.                                                   *)
LEMMA FreshIsLater ==
    ASSUME SnapTypes, FilesSound
    PROVE  /\ FreshId \in Nat /\ \A f \in files : f.id < FreshId
           /\ sql.install # None => sql.install.id < FreshId
  <1> DEFINE I == {f.id : f \in files} \cup (IF sql.install = None THEN {} ELSE {sql.install.id})
  <1>1. PICK n \in Nat : /\ \A f \in files : f.id <= n
                         /\ sql.install # None => sql.install.id <= n
    BY DEF FilesSound
  <1>2. \A f \in files : f.id \in Nat
    BY DEF SnapTypes, FileRecords
  <1>3. sql.install # None => sql.install.id \in Nat
    BY DEF SnapTypes
  <1>4. I \in SUBSET Nat /\ \A x \in I : x <= n
    BY <1>1, <1>2, <1>3
  <1>5. FreshId = 1 + LastIn(I)
    <2>1. {0} \cup {f.id : f \in files} \cup (IF sql.install = None THEN {} ELSE {sql.install.id})
              = {0} \cup I
      OBVIOUS
    <2> QED BY <2>1 DEF FreshId, LastIn
  <1>6. (\A f \in files : f.id \in I) /\ (sql.install # None => sql.install.id \in I)
    OBVIOUS
  <1> HIDE DEF I
  <1>7. LastIn(I) \in Nat /\ \A x \in I : x <= LastIn(I)
    BY <1>4, LastInIsLast
  <1> QED BY <1>2, <1>3, <1>5, <1>6, <1>7

LEMMA RestoreStep ==
    ASSUME OpenInv, RestoreSnapshot
    PROVE  OpenInv'
  <1>1. PICK r : r = restore.file
    OBVIOUS
  <1>2. /\ mode = "up" /\ restore # None /\ Unrestored /\ Restorable(r)
        /\ sql' = (IF Rebinds(r) THEN Rebound(r) ELSE Installed(r))
        /\ restore' = [restore EXCEPT !.done = TRUE]
        /\ raft' = [raft EXCEPT !.applied = r.index]
        /\ UNCHANGED <<committed, peer, logs, files, mode, capture, compact>>
    BY <1>1 DEF RestoreSnapshot, Unrestored
  <1>3. SnapTypes /\ PeerSound /\ FilesSound /\ SqlSound
    BY DEF OpenInv
  <1>4. PICK s \in Nat, c \in Nat : AnchorAt(s, c) /\ Reached(s, c) /\ RaftRuns(s)
    BY <1>2 DEF OpenInv, StoresMeet
  <1>5. /\ r \in files /\ raft.snap = s /\ s < r.index /\ (\A j \in logs : j < r.index)
        /\ \A f \in files : f = r \/ f \in LiveFiles
    BY <1>1, <1>2, <1>4 DEF RaftRuns
  <1>6. /\ r \in FileRecords /\ files \in SUBSET FileRecords
        /\ r.id \in Nat /\ r.index \in Nat /\ r.base \in Nat /\ r.config \in Nat
    BY <1>3, <1>5 DEF SnapTypes, FileRecords
  <1>7. CutAt(committed, r.index, r.base, r.config)
    BY <1>3, <1>5 DEF FilesSound
  <1>8. sql.applied \in Nat /\ sql.config \in Nat
    BY <1>3 DEF SnapTypes
  <1>9. /\ sql'.applied = r.base /\ sql'.config = r.config
        /\ sql'.install \in [id : Nat, index : Nat, base : Nat, config : Nat]
        /\ sql'.install.id = r.id /\ sql'.install.index = r.index
        /\ sql'.install.base = r.base /\ sql'.install.config = r.config
        /\ sql' \in [applied : Nat, config : Nat,
                     install : {None} \cup [id : Nat, index : Nat, base : Nat, config : Nat]]
        /\ sql.applied <= r.base /\ sql.config <= r.config
    <2>1. CASE Rebinds(r)
      <3>1. /\ sql.install \in [id : Nat, index : Nat, base : Nat, config : Nat]
            /\ sql \in [applied : Nat, config : Nat,
                        install : {None} \cup [id : Nat, index : Nat, base : Nat, config : Nat]]
        BY <1>3, <2>1 DEF SnapTypes, Rebinds
      <3>2. /\ sql.install.index = r.index /\ sql.install.base = r.base
            /\ sql.install.config = r.config /\ sql.applied = r.base /\ sql.config = r.config
        BY <2>1 DEF Rebinds
      <3>3. sql' = [sql EXCEPT !.install = [sql.install EXCEPT !.id = r.id]]
        BY <1>2, <2>1 DEF Rebound
      <3>4. PICK i : i = [sql.install EXCEPT !.id = r.id]
        OBVIOUS
      <3>5. /\ i \in [id : Nat, index : Nat, base : Nat, config : Nat]
            /\ i.id = r.id /\ i.index = r.index /\ i.base = r.base /\ i.config = r.config
        BY <1>6, <3>1, <3>2, <3>4
      <3>6. sql' = [sql EXCEPT !.install = i]
        BY <3>3, <3>4
      <3>7. sql'.install = i /\ sql'.applied = sql.applied /\ sql'.config = sql.config
        BY <3>1, <3>6
      <3>8. sql' \in [applied : Nat, config : Nat,
                      install : {None} \cup [id : Nat, index : Nat, base : Nat, config : Nat]]
        BY <3>1, <3>5, <3>6
      <3> QED BY <1>6, <1>8, <3>2, <3>5, <3>7, <3>8
    <2>2. CASE ~ Rebinds(r)
      <3>1. sql' = [applied |-> r.base, config |-> r.config,
                    install |-> [id |-> r.id, index |-> r.index,
                                 base |-> r.base, config |-> r.config]]
        BY <1>2, <2>2 DEF Installed
      <3>2. r.config >= sql.config /\ sql.applied <= r.base
        BY <1>2, <2>2 DEF Restorable, PositionAdvances, HistoryExtends
      <3> QED BY <1>6, <1>8, <3>1, <3>2
    <2> QED BY <2>1, <2>2
  <1>10. sql'.install # None
    BY <1>9, RecordsAreSome
  <1>11. raft' \in [applied : Nat, snap : Nat] /\ raft'.applied = r.index /\ raft'.snap = raft.snap
    BY <1>2, <1>3, <1>6 DEF SnapTypes
  <1>12. /\ restore' \in [file : FileRecords, done : BOOLEAN]
         /\ restore'.file = r /\ restore'.done
    <2>1. restore \in [file : FileRecords, done : BOOLEAN]
      BY <1>2, <1>3 DEF SnapTypes
    <2> QED BY <1>1, <1>2, <2>1
  <1>13. restore' # None /\ ~ Unrestored'
    BY <1>12, RecordsAreSome DEF Unrestored
  <1>14. SnapTypes' /\ PeerSound'
    BY <1>2, <1>3, <1>9, <1>11, <1>12 DEF SnapTypes, PeerSound
  <1>15. ASSUME NEW g \in files, g # r PROVE Newer(r, g)
    <2>1. g.index \in Nat /\ g.index <= s
      BY <1>3, <1>4, <1>5, <1>15, LiveIsBehind
    <2> QED BY <1>5, <1>6, <2>1 DEF Newer
  <1>16. Bound(r)'
    BY <1>9, <1>10 DEF Bound
  <1>17. IsAnchor(r)' /\ AnchorAt(r.index, r.config)'
    BY <1>2, <1>5, <1>15, <1>16 DEF IsAnchor, AnchorAt
  <1>18. \A f \in files' : f \in LiveFiles'
    BY <1>2, <1>5, <1>15, <1>16 DEF LiveFiles
  <1>19. FilesSound'
    <2>1. ASSUME NEW f \in files PROVE BindingMatches(f)' /\ LocalCovered(f)'
      <3>1. f.id = r.id => f = r
        BY <1>3, <1>5 DEF FilesSound
      <3>2. BindingMatches(f)'
        BY <1>9, <3>1 DEF BindingMatches
      <3>3. f.base \in Nat
        BY <1>6 DEF FileRecords
      <3>4. LocalCovered(f)'
        BY <1>3, <1>6, <1>8, <1>9, <3>3 DEF FilesSound, LocalCovered
      <3> QED BY <3>2, <3>4
    <2>2. \E n \in Nat : (\A f \in files : f.id <= n) /\ sql'.install.id <= n
      BY <1>3, <1>5, <1>9 DEF FilesSound
    <2> QED BY <1>2, <1>3, <2>1, <2>2 DEF FilesSound
  <1>20. SqlSound'
    <2>1. InstallRecordValid'
      BY <1>6, <1>9 DEF InstallRecordValid
    <2>2. r.config \in 1 .. Len(committed) /\ committed[r.config] = "config"
      BY <1>7 DEF CutAt
    <2> QED BY <1>2, <1>9, <2>1, <2>2 DEF SqlSound
  <1>21. r.base <= r.index /\ r.index # 0 /\ r.index <= Len(committed)
         /\ NoneMissing(committed, r.index, r.base)
    BY <1>7 DEF CutAt, NoneMissing
  <1>22. Reached(r.index, r.config)'
    <2>1. \A j \in logs : \A i \in (r.index + 1) .. j : FALSE
      <3>1. logs \in SUBSET Nat
        BY <1>3, LogBounds
      <3> QED BY <1>5, <1>6, <3>1
    <2> QED BY <1>2, <1>6, <1>9, <1>21, <2>1 DEF Reached
  <1>23. RaftRuns(r.index)'
    <2>1. capture # None /\ AnchorCovers(capture) =>
             /\ CutAt(committed, capture.index, capture.base, capture.config)
             /\ capture.base <= r.base
             /\ capture.index <= raft.snap \/ \E j \in logs : capture.index <= j
      <3>1. capture # None => capture.base \in Nat
        BY <1>3 DEF SnapTypes
      <3> QED BY <1>4, <1>6, <1>8, <1>9, <3>1 DEF RaftRuns
    <2>2. compact <= raft.snap
      BY <1>4 DEF RaftRuns
    <2> QED BY <1>2, <1>5, <1>6, <1>9, <1>11, <1>12, <1>13, <1>17, <1>18, <1>21, <2>1, <2>2
            DEF RaftRuns
  <1> QED BY <1>2, <1>6, <1>14, <1>17, <1>19, <1>20, <1>22, <1>23 DEF OpenInv, StoresMeet


LEMMA ReceiveStep ==
    ASSUME OpenInv, ReceiveSnapshot
    PROVE  OpenInv'
  <1>1. /\ mode = "up" /\ restore = None /\ peer.snap # None /\ LastIndex + 1 < peer.first
        /\ UNCHANGED <<committed, peer, logs, sql, mode, raft, capture, compact>>
    BY DEF ReceiveSnapshot
  <1>2. PICK flaw \in Flaws \cup {"none"} :
            IF FrameVerified(PeerFile(flaw))
            THEN /\ files' = Reap(files \cup {PeerFile(flaw)})
                 /\ restore' = [file |-> PeerFile(flaw), done |-> FALSE]
            ELSE UNCHANGED <<files, restore>>
    BY DEF ReceiveSnapshot
  <1>3. PICK r : r = PeerFile(flaw)
    OBVIOUS
  <1>4. SnapTypes /\ PeerSound /\ FilesSound /\ SqlSound
    BY DEF OpenInv
  <1>5. PICK s \in Nat, c \in Nat : AnchorAt(s, c) /\ Reached(s, c) /\ RaftRuns(s)
    BY <1>1 DEF OpenInv, StoresMeet
  <1>6. CASE UNCHANGED <<files, restore>>
    <2>1. UNCHANGED <<committed, peer, logs, files, sql, mode, raft, restore, capture, compact>>
      BY <1>1, <1>6
    <2>2. SnapTypes' /\ PeerSound'
      BY <1>4, <2>1 DEF SnapTypes, PeerSound
    <2>3. FilesSound' /\ SqlSound' /\ AnchorAt(s, c)'
      BY <1>4, <1>5, <2>1, QuietStores
    <2>4. /\ LiveFiles' = LiveFiles /\ Unrestored' = Unrestored
          /\ \A f : (Bound(f)' <=> Bound(f)) /\ (IsAnchor(f)' <=> IsAnchor(f))
      BY <2>1, QuietStores DEF Unrestored
    <2>5. Reached(s, c)' /\ RaftRuns(s)'
      BY <1>5, <2>1, <2>4 DEF Reached, RaftRuns
    <2> QED BY <1>1, <2>2, <2>3, <2>5 DEF OpenInv, StoresMeet
  <1>7. CASE /\ files' = Reap(files \cup {r})
             /\ restore' = [file |-> r, done |-> FALSE]
    <2>1. /\ peer.snap.index \in Nat /\ peer.snap.base \in Nat /\ peer.snap.config \in Nat
          /\ peer.first \in Nat
      BY <1>1, <1>4 DEF SnapTypes
    <2>2. FreshId \in Nat /\ (\A f \in files : f.id < FreshId)
          /\ (sql.install # None => sql.install.id < FreshId)
      BY <1>4, FreshIsLater
    <2>3. /\ r \in FileRecords /\ r.source = "peer" /\ r.id = FreshId
          /\ r.index = peer.snap.index /\ r.base = peer.snap.base /\ r.config = peer.snap.config
      BY <1>2, <1>3, <2>1, <2>2 DEF PeerFile, FileRecords
    <2>4. CutAt(committed, r.index, r.base, r.config)
      BY <1>1, <1>4, <2>3 DEF PeerSound
    <2>5. /\ LastIndex \in Nat /\ raft.snap <= LastIndex /\ raft.snap \in Nat
          /\ (\A j \in logs : j <= LastIndex) /\ logs \in SUBSET Nat
      BY <1>4, LastIndexIsLast, LogBounds DEF SnapTypes
    <2>6. LastIndex < r.index
      <3>1. peer.first <= peer.snap.index + 1
        BY <1>1, <1>4 DEF PeerSound
      <3> QED BY <1>1, <2>1, <2>3, <2>5, <3>1
    <2>7. raft.snap = s /\ \A f \in files : f \in LiveFiles
      BY <1>1, <1>5 DEF RaftRuns, Unrestored
    <2>8. s < r.index /\ \A j \in logs : j < r.index
      <3>1. r.index \in Nat
        BY <2>1, <2>3
      <3>2. s < r.index
        BY <2>5, <2>6, <2>7, <3>1
      <3>3. ASSUME NEW j \in logs PROVE j < r.index
        <4>1. j \in Nat /\ j <= LastIndex
          BY <2>5
        <4> QED BY <2>5, <2>6, <3>1, <4>1
      <3> QED BY <3>2, <3>3
    <2>9. files \in SUBSET FileRecords /\ \A f \in files : f.id \in Nat
      BY <1>4 DEF SnapTypes, FileRecords
    <2>10. r \notin files /\ \A f \in files : f.id # r.id
      BY <2>2, <2>3, <2>9
    <2>11. \A g \in files : Newer(r, g)
      <3> SUFFICES ASSUME NEW g \in files PROVE Newer(r, g)
        OBVIOUS
      <3>1. g.index \in Nat /\ g.index <= s
        BY <1>4, <1>5, <2>7, LiveIsBehind
      <3> QED BY <2>1, <2>3, <2>8, <3>1 DEF Newer
    <2>12. PICK F : F = files \cup {r}
      OBVIOUS
    <2>13. F \in SUBSET FileRecords /\ files' \subseteq F
      BY <1>7, <2>3, <2>9, <2>12, ReapedAreFiles
    <2>14. r \in files'
      <3>1. \A g \in F : Newer(g, r) => g = r
        BY <2>3, <2>9, <2>11, <2>12, NewerOrders
      <3> QED BY <1>7, <2>12, <2>13, <3>1, ReapKeeps
    <2>15. ASSUME NEW b \in files, IsAnchor(b) PROVE b \in files'
      <3>1. \A g \in files : g = b \/ Newer(b, g)
        BY <1>4, <2>7, <2>15, AnchorIsLatest
      <3>2. \A g \in F : Newer(g, b) => g = r
        BY <2>9, <2>12, <3>1, NewerOrders
      <3> QED BY <1>7, <2>12, <2>13, <3>2, ReapKeeps
    <2>16. ~ Bound(r) /\ \A f : Bound(f)' <=> Bound(f)
      <3>1. sql.install # None => sql.install.id \in Nat /\ sql.install.id # r.id
        BY <1>4, <2>2, <2>3 DEF SnapTypes
      <3> QED BY <1>1, <2>3, <3>1 DEF Bound
    <2>17. AnchorAt(s, c)'
      <3>1. CASE s = 0 /\ c = 0 /\ \A f \in files : ~ Bound(f)
        BY <2>12, <2>13, <2>16, <3>1 DEF AnchorAt
      <3>2. ASSUME NEW b \in files, IsAnchor(b), b.index = s, b.config = c
            PROVE  AnchorAt(s, c)'
        <4>1. IsAnchor(b)'
          BY <2>12, <2>13, <2>15, <2>16, <3>2 DEF IsAnchor
        <4> QED BY <2>15, <3>2, <4>1 DEF AnchorAt
      <3> QED BY <1>5, <3>1, <3>2 DEF AnchorAt
    <2>18. \A f \in files' : f = r \/ f \in LiveFiles'
      <3> SUFFICES ASSUME NEW f \in files', f # r PROVE f \in LiveFiles'
        OBVIOUS
      <3>1. f \in LiveFiles
        BY <2>7, <2>12, <2>13
      <3>2. PICK b \in files : IsAnchor(b) /\ (f = b \/ Newer(b, f))
        BY <1>4, <1>5, <3>1, LiveIsBehind
      <3>3. b \in files' /\ Bound(b)'
        BY <2>15, <2>16, <3>2 DEF IsAnchor
      <3> QED BY <3>2, <3>3 DEF LiveFiles
    <2>19. /\ restore' \in [file : FileRecords, done : BOOLEAN]
           /\ restore'.file = r /\ ~ restore'.done
      BY <1>7, <2>3
    <2>20. restore' # None /\ Unrestored'
      BY <2>19, RecordsAreSome DEF Unrestored
    <2>21. SnapTypes' /\ PeerSound' /\ SqlSound' /\ Reached(s, c)'
      BY <1>1, <1>4, <1>5, <2>13, <2>19 DEF SnapTypes, PeerSound, SqlSound, InstallRecordValid,
           Reached
    <2>22. FilesSound'
      <3>1. \A f \in files' : CutAt(committed', f.index, f.base, f.config)
        BY <1>1, <1>4, <2>4, <2>12, <2>13 DEF FilesSound
      <3>2. \A f, g \in files' : f.id = g.id => f = g
        BY <1>4, <2>10, <2>12, <2>13 DEF FilesSound
      <3>3. \E n \in Nat : /\ \A f \in files' : f.id <= n
                           /\ sql'.install # None => sql'.install.id <= n
        <4>1. sql.install # None => sql.install.id \in Nat
          BY <1>4 DEF SnapTypes
        <4>2. \A f \in files' : f.id <= FreshId
          BY <2>2, <2>3, <2>9, <2>12, <2>13
        <4>3. sql'.install # None => sql'.install.id <= FreshId
          BY <1>1, <2>2, <4>1
        <4> QED BY <2>2, <4>2, <4>3
      <3>4. ASSUME NEW f \in files' PROVE BindingMatches(f)' /\ LocalCovered(f)'
        <4>1. CASE f \in files
          BY <1>1, <1>4, <4>1 DEF FilesSound, BindingMatches, LocalCovered
        <4>2. CASE f = r
          BY <1>1, <2>3, <2>16, <4>2 DEF BindingMatches, LocalCovered, Bound
        <4> QED BY <2>12, <2>13, <4>1, <4>2
      <3>5. \E t \in files' : \A g \in files' \ {t} : Newer(t, g)
        BY <2>11, <2>12, <2>13, <2>14
      <3> QED BY <3>1, <3>2, <3>3, <3>4, <3>5 DEF FilesSound
    <2>23. RaftRuns(s)'
      <3>1. /\ raft.applied <= Len(committed)
            /\ NoneMissing(committed, raft.applied, sql.applied)
            /\ sql.install # None => sql.install.base <= raft.applied
            /\ compact <= raft.snap
            /\ capture # None /\ AnchorCovers(capture) =>
                  /\ CutAt(committed, capture.index, capture.base, capture.config)
                  /\ capture.base <= sql.applied
                  /\ capture.index <= raft.snap \/ \E j \in logs : capture.index <= j
        BY <1>5 DEF RaftRuns
      <3> QED BY <1>1, <2>7, <2>8, <2>14, <2>16, <2>18, <2>19, <2>20, <3>1 DEF RaftRuns
    <2> QED BY <1>1, <2>17, <2>21, <2>22, <2>23 DEF OpenInv, StoresMeet
  <1> QED BY <1>2, <1>3, <1>6, <1>7

(* The snapshot of this daemon joins the files: the newer of it and the      *)
(* anchor is the anchor, and with the validation slot the reaping drops      *)
(* neither it nor the inbound file r.                                        *)
LEMMA LocalJoins ==
    ASSUME SnapTypes, FilesSound, NEW s \in Nat, NEW c \in Nat, AnchorAt(s, c),
           NEW l \in FileRecords, l.source = "local", \A f \in files : f.id < l.id,
           NEW r, \A f \in files : f = r \/ f \in LiveFiles,
           r \in files => s < r.index /\ l.index < r.index /\ ~ Bound(r)
    PROVE  \E b \in files \cup {l} :
              /\ b \in Reap(files \cup {l}) /\ Bound(b)
              /\ IF l.index >= s THEN b = l ELSE IsAnchor(b) /\ b.index = s /\ b.config = c
              /\ \A g \in files \cup {l} : (g \in files /\ g = r) \/ g = b \/ Newer(b, g)
              /\ r \in files => /\ r \in Reap(files \cup {l})
                                /\ \A g \in (files \cup {l}) \ {r} : Newer(r, g)
  <1>1. PICK F : F = files \cup {l}
    OBVIOUS
  <1>2. /\ files \in SUBSET FileRecords /\ F \in SUBSET FileRecords
        /\ l.index \in Nat /\ l.id \in Nat /\ Bound(l)
        /\ \A f \in files : f.index \in Nat /\ f.id \in Nat
    BY <1>1 DEF SnapTypes, FileRecords, Bound
  <1>3. \A f \in files : f # r => f.index <= s
    BY LiveIsBehind
  <1>4. ASSUME r \in files
        PROVE  r \in Reap(F) /\ \A g \in F \ {r} : Newer(r, g)
    <2>1. \A g \in F \ {r} : Newer(r, g)
      BY <1>1, <1>2, <1>3, <1>4 DEF Newer
    <2>2. \A g \in F : Newer(g, r) => g = r
      BY <1>1, <1>2, <1>4, <2>1, NewerOrders
    <2> QED BY <1>1, <1>2, <1>4, <2>1, <2>2, ReapKeeps
  <1>5. ASSUME NEW b \in F, \A g \in F : (g \in files /\ g = r) \/ g = b \/ Newer(b, g)
        PROVE  b \in Reap(F)
    <2>1. \A g \in F : Newer(g, b) => g = r
      BY <1>2, <1>5, NewerOrders
    <2> QED BY <1>2, <2>1, ReapKeeps
  <1>6. CASE l.index >= s
    <2>1. \A g \in F : (g \in files /\ g = r) \/ g = l \/ Newer(l, g)
      BY <1>1, <1>2, <1>3, <1>6 DEF Newer
    <2>2. l \in Reap(F)
      BY <1>1, <1>5, <2>1
    <2> QED BY <1>1, <1>2, <1>4, <1>6, <2>1, <2>2
  <1>7. CASE ~ (l.index >= s)
    <2>1. PICK b \in files : IsAnchor(b) /\ b.index = s /\ b.config = c
      BY <1>2, <1>7 DEF AnchorAt
    <2>2. \A g \in LiveFiles : g = b \/ Newer(b, g)
      BY <2>1, AnchorIsLatest
    <2>3. Newer(b, l)
      BY <1>2, <1>7, <2>1 DEF Newer
    <2>4. \A g \in F : (g \in files /\ g = r) \/ g = b \/ Newer(b, g)
      BY <1>1, <2>2, <2>3
    <2>5. b \in Reap(F)
      BY <1>1, <1>5, <2>4
    <2>6. Bound(b)
      BY <2>1 DEF IsAnchor
    <2> QED BY <1>1, <1>4, <1>7, <2>1, <2>4, <2>5, <2>6
  <1> QED BY <1>6, <1>7


LEMMA PersistStep ==
    ASSUME OpenInv, PersistSnapshot
    PROVE  OpenInv'
  <1>1. /\ mode = "up" /\ capture # None /\ capture' = None
        /\ UNCHANGED <<committed, peer, logs, sql, mode, restore>>
    BY DEF PersistSnapshot
  <1>2. SnapTypes /\ PeerSound /\ FilesSound /\ SqlSound
    BY DEF OpenInv
  <1>3. PICK s \in Nat, c \in Nat : AnchorAt(s, c) /\ Reached(s, c) /\ RaftRuns(s)
    BY <1>1 DEF OpenInv, StoresMeet
  <1>4. CASE ~ AnchorCovers(capture)
    <2>1. UNCHANGED <<files, raft, compact>>
      BY <1>4 DEF PersistSnapshot
    <2>2. SnapTypes' /\ PeerSound'
      BY <1>1, <1>2, <2>1 DEF SnapTypes, PeerSound
    <2>3. FilesSound' /\ SqlSound' /\ AnchorAt(s, c)'
      BY <1>1, <1>2, <1>3, <2>1, QuietStores
    <2>4. /\ LiveFiles' = LiveFiles /\ Unrestored' = Unrestored
          /\ \A f : (Bound(f)' <=> Bound(f)) /\ (IsAnchor(f)' <=> IsAnchor(f))
      BY <1>1, <2>1, QuietStores DEF Unrestored
    <2>5. Reached(s, c)' /\ RaftRuns(s)'
      BY <1>1, <1>3, <2>1, <2>4 DEF Reached, RaftRuns
    <2> QED BY <1>1, <2>2, <2>3, <2>5 DEF OpenInv, StoresMeet
  <1>5. CASE AnchorCovers(capture)
    <2>1. PICK l : l = LocalFile(capture)
      OBVIOUS
    <2>2. PICK F : F = files \cup {l}
      OBVIOUS
    <2>3. /\ files' = Reap(F) /\ compact' = capture.index
          /\ raft' = [raft EXCEPT !.snap = Max({raft.snap, capture.index})]
      BY <1>5, <2>1, <2>2 DEF PersistSnapshot
    <2>4. /\ capture.index \in Nat /\ capture.base \in Nat /\ capture.config \in Nat
          /\ raft.snap \in Nat /\ raft.applied \in Nat /\ sql.applied \in Nat
          /\ logs \in SUBSET Nat
      BY <1>1, <1>2, LogBounds DEF SnapTypes
    <2>5. FreshId \in Nat /\ (\A f \in files : f.id < FreshId)
          /\ (sql.install # None => sql.install.id < FreshId)
      BY <1>2, FreshIsLater
    <2>6. /\ l \in FileRecords /\ l.source = "local" /\ l.id = FreshId
          /\ l.index = capture.index /\ l.base = capture.base /\ l.config = capture.config
      BY <2>1, <2>4, <2>5 DEF LocalFile, FileRecords
    <2>7. /\ CutAt(committed, l.index, l.base, l.config)
          /\ l.base <= sql.applied
          /\ l.index <= raft.snap \/ \E j \in logs : l.index <= j
      BY <1>1, <1>3, <1>5, <2>6 DEF RaftRuns
    <2>8. raft' \in [applied : Nat, snap : Nat] /\ raft'.applied = raft.applied
          /\ raft'.snap = (IF raft.snap >= l.index THEN raft.snap ELSE l.index)
      <3>1. Max({raft.snap, l.index}) = IF raft.snap >= l.index THEN raft.snap ELSE l.index
        BY <2>4, <2>6, MaxOfTwo
      <3>2. raft' = [raft EXCEPT !.snap = Max({raft.snap, l.index})]
        BY <2>3, <2>6
      <3>3. raft \in [applied : Nat, snap : Nat] /\ l.index \in Nat
        BY <1>2, <2>4, <2>6 DEF SnapTypes
      <3> QED BY <3>1, <3>2, <3>3
    <2>9. /\ files \in SUBSET FileRecords /\ F \in SUBSET FileRecords /\ files' \subseteq F
          /\ \A f \in files : f.id \in Nat /\ f.index \in Nat
      BY <1>2, <2>2, <2>3, <2>6, ReapedAreFiles DEF SnapTypes, FileRecords
    <2>10. l \notin files /\ \A f \in files : f.id # l.id /\ f.id < l.id
      BY <2>5, <2>6, <2>9
    <2>11. PICK r : r = restore.file
      OBVIOUS
    <2>12. restore # None => /\ r \in files /\ r.index \in Nat /\ l.index < r.index
                             /\ raft'.snap < r.index
      <3> SUFFICES ASSUME restore # None
                   PROVE  /\ r \in files /\ r.index \in Nat /\ l.index < r.index
                          /\ raft'.snap < r.index
        OBVIOUS
      <3>1. r \in files /\ raft.snap < r.index /\ \A j \in logs : j < r.index
        BY <1>3, <2>11 DEF RaftRuns
      <3>2. r.index \in Nat /\ l.index \in Nat
        BY <2>4, <2>6, <2>9, <3>1
      <3>3. l.index < r.index
        BY <2>4, <2>7, <3>1, <3>2
      <3> QED BY <2>8, <3>1, <3>2, <3>3
    <2>13. PICK q : q = IF Unrestored THEN r ELSE l
      OBVIOUS
    <2>14. /\ \A f \in files : f = q \/ f \in LiveFiles
           /\ q \in files => Unrestored /\ q = r
           /\ q \in files => s < q.index /\ l.index < q.index /\ ~ Bound(q)
      <3>1. CASE Unrestored
        <4>1. /\ q = r /\ ~ Bound(r) /\ s = raft.snap /\ raft.snap < r.index
              /\ \A f \in files : f = r \/ f \in LiveFiles
          BY <1>3, <2>11, <2>13, <3>1 DEF RaftRuns, Unrestored
        <4> QED BY <2>12, <3>1, <4>1 DEF Unrestored
      <3>2. CASE ~ Unrestored
        BY <1>3, <2>10, <2>13, <3>2 DEF RaftRuns
      <3> QED BY <3>1, <3>2
    <2>15. PICK b \in F :
              /\ b \in Reap(F) /\ Bound(b)
              /\ IF l.index >= s THEN b = l ELSE IsAnchor(b) /\ b.index = s /\ b.config = c
              /\ \A g \in F : (g \in files /\ g = q) \/ g = b \/ Newer(b, g)
              /\ q \in files => q \in Reap(F) /\ \A g \in F \ {q} : Newer(q, g)
      BY <1>2, <1>3, <2>2, <2>6, <2>10, <2>14, LocalJoins
    <2>16. /\ b \in FileRecords /\ b.index \in Nat /\ b.config \in Nat /\ s <= b.index
           /\ l.index \in Nat /\ l.index <= b.index
      <3>1. b \in FileRecords /\ b.index \in Nat /\ b.config \in Nat /\ l.index \in Nat
        BY <2>4, <2>6, <2>9 DEF FileRecords
      <3> QED BY <2>15, <3>1
    <2>17. \A f : Bound(f)' <=> Bound(f)
      BY <1>1 DEF Bound
    <2>18. IsAnchor(b)' /\ AnchorAt(b.index, b.config)'
      <3>1. b \in files' /\ Bound(b)'
        BY <2>3, <2>15, <2>17
      <3>2. \A g \in files' : Bound(g)' => g = b \/ Newer(b, g)
        BY <2>9, <2>14, <2>15, <2>17
      <3>3. IsAnchor(b)'
        BY <3>1, <3>2 DEF IsAnchor
      <3> QED BY <3>1, <3>3 DEF AnchorAt
    <2>19. CutAt(committed, b.index, b.base, b.config) /\ c <= b.config
      <3>1. \A f \in F : CutAt(committed, f.index, f.base, f.config)
        BY <1>2, <2>2, <2>7 DEF FilesSound
      <3>2. CASE s = 0 /\ c = 0
        BY <2>16, <3>1, <3>2
      <3>3. ASSUME NEW a \in files, a.index = s, a.config = c PROVE c <= b.config
        <4>1. CutAt(committed, s, a.base, c) /\ CutAt(committed, b.index, b.base, b.config)
          BY <2>2, <3>1, <3>3
        <4> QED BY <2>16, <4>1 DEF CutAt
      <3> QED BY <1>3, <3>1, <3>2, <3>3 DEF AnchorAt
    <2>20. SnapTypes' /\ PeerSound' /\ SqlSound'
      BY <1>1, <1>2, <2>3, <2>4, <2>8, <2>9 DEF SnapTypes, PeerSound, SqlSound, InstallRecordValid
    <2>21. FilesSound'
      <3>1. \A f \in files' : CutAt(committed', f.index, f.base, f.config)
        BY <1>1, <1>2, <2>2, <2>7, <2>9 DEF FilesSound
      <3>2. \A f, g \in files' : f.id = g.id => f = g
        BY <1>2, <2>2, <2>9, <2>10 DEF FilesSound
      <3>3. \E n \in Nat : /\ \A f \in files' : f.id <= n
                           /\ sql'.install # None => sql'.install.id <= n
        <4>1. sql.install # None => sql.install.id \in Nat
          BY <1>2 DEF SnapTypes
        <4>2. \A f \in files' : f.id <= FreshId
          BY <2>2, <2>5, <2>6, <2>9
        <4>3. sql'.install # None => sql'.install.id <= FreshId
          BY <1>1, <2>5, <4>1
        <4> QED BY <2>5, <4>2, <4>3
      <3>4. ASSUME NEW f \in files' PROVE BindingMatches(f)' /\ LocalCovered(f)'
        <4>1. CASE f \in files
          BY <1>1, <1>2, <4>1 DEF FilesSound, BindingMatches, LocalCovered
        <4>2. CASE f = l
          <5>1. sql.install # None => sql.install.id \in Nat /\ sql.install.id # l.id
            BY <1>2, <2>5, <2>6 DEF SnapTypes
          <5> QED BY <1>1, <2>7, <4>2, <5>1 DEF BindingMatches, LocalCovered
        <4> QED BY <2>2, <2>9, <4>1, <4>2
      <3>5. \E t \in files' : \A g \in files' \ {t} : Newer(t, g)
        <4>1. CASE q \in files
          BY <2>3, <2>9, <2>15, <4>1
        <4>2. CASE q \notin files
          BY <2>3, <2>9, <2>15, <4>2
        <4> QED BY <4>1, <4>2
      <3> QED BY <3>1, <3>2, <3>3, <3>4, <3>5 DEF FilesSound
    <2>22. Reached(b.index, b.config)'
      <3>1. b.index # 0
        BY <2>16, <2>19 DEF CutAt
      <3>2. sql.install # None => sql.install.base <= b.index
        <4>1. sql.install # None => sql.install.base \in Nat
          BY <1>2 DEF SnapTypes
        <4> QED BY <1>3, <2>16, <4>1 DEF Reached
      <3>3. ASSUME NEW j \in logs, NEW i \in (b.index + 1) .. j PROVE i \in logs
        <4>1. i \in (s + 1) .. j
          BY <2>4, <2>16
        <4> QED BY <1>3, <4>1 DEF Reached
      <3>4. sql.applied <= b.index \/ \E j \in logs : sql.applied <= j
        BY <1>3, <2>4, <2>16 DEF Reached
      <3>5. sql.config \in logs \cup {0} \/ sql.config <= b.config
        <4>1. sql.config \in Nat
          BY <1>2 DEF SnapTypes
        <4> QED BY <1>3, <2>16, <2>19, <4>1 DEF Reached
      <3> QED BY <1>1, <3>1, <3>2, <3>3, <3>4, <3>5 DEF Reached
    <2>23. RaftRuns(b.index)'
      <3>1. Unrestored' = Unrestored
        BY <1>1 DEF Unrestored
      <3>2. /\ raft.applied <= Len(committed)
            /\ NoneMissing(committed, raft.applied, sql.applied)
            /\ sql.install # None => sql.install.base <= raft.applied
        BY <1>3 DEF RaftRuns
      <3>3. compact' <= raft'.snap
        BY <2>3, <2>4, <2>6, <2>8
      <3>4. \A f \in files' : (f \in files /\ f = q) \/ f \in LiveFiles'
        BY <2>3, <2>9, <2>15, <2>17 DEF LiveFiles
      <3>5. restore = None \/ Unrestored => raft'.snap = b.index
        <4>1. restore = None \/ Unrestored => raft.snap = s
          BY <1>3 DEF RaftRuns
        <4> QED BY <2>4, <2>8, <2>15, <2>16, <4>1
      <3>6. Unrestored => ~ Bound(r)
        BY <1>3, <2>11 DEF RaftRuns
      <3>7. Unrestored => r \in files'
        BY <2>3, <2>12, <2>13, <2>15 DEF Unrestored
      <3>8. ASSUME restore # None, restore.done
            PROVE  b = r /\ b.index = r.index /\ raft.applied = b.index
        <4>1. IsAnchor(r) /\ s = r.index /\ raft.applied = r.index
          BY <1>3, <2>11, <3>8 DEF RaftRuns
        <4>2. IsAnchor(b)
          BY <2>12, <2>15, <2>16, <3>8, <4>1
        <4>3. r \in FileRecords /\ b \in FileRecords
          BY <2>9, <4>1, <2>16 DEF IsAnchor
        <4>4. b = r
          BY <4>1, <4>2, <4>3, NewerOrders DEF IsAnchor
        <4> QED BY <4>1, <4>4
      <3>9. restore # None => /\ r \in files' /\ raft'.snap < r.index
                              /\ \A j \in logs : j < r.index
        <4>1. restore # None => r \in files'
          BY <2>3, <2>15, <3>7, <3>8 DEF Unrestored
        <4>2. restore # None => \A j \in logs : j < r.index
          BY <1>3, <2>11 DEF RaftRuns
        <4> QED BY <2>12, <4>1, <4>2
      <3>10. /\ ~ Unrestored => \A f \in files' : f \in LiveFiles'
             /\ Unrestored => \A f \in files' : f = r \/ f \in LiveFiles'
        BY <2>14, <3>4
      <3> QED BY <1>1, <2>8, <2>11, <2>17, <2>18, <3>1, <3>2, <3>3, <3>5, <3>6, <3>8, <3>9, <3>10
              DEF RaftRuns
    <2> QED BY <1>1, <2>16, <2>18, <2>20, <2>21, <2>22, <2>23 DEF OpenInv, StoresMeet
  <1> QED BY <1>4, <1>5

LEMMA OpenNodeStep ==
    ASSUME OpenInv, OpenNode
    PROVE  OpenInv'
  <1>1. /\ mode \in {"down", "halted"} /\ files' = LiveFiles
        /\ UNCHANGED <<committed, peer, logs, restore, capture, compact>>
    BY DEF OpenNode
  <1>2. SnapTypes /\ PeerSound /\ FilesSound /\ SqlSound /\ Coherent
    BY AlwaysCoherent DEF OpenInv
  <1>3. PICK s \in Nat, c \in Nat : AnchorAt(s, c) /\ Reached(s, c)
    BY DEF OpenInv, StoresMeet
  <1>4. /\ restore = None /\ capture = None /\ compact = 0
        /\ LiveFiles \subseteq files /\ files \in SUBSET FileRecords
    BY <1>1, <1>2 DEF SnapTypes, LiveFiles
  <1>5. /\ SeededConfig \in Nat /\ sql.config <= SeededConfig
        /\ \/ SeededConfig = 0 /\ sql.applied = 0
           \/ SeededConfig \in logs /\ committed[SeededConfig] = "config"
           \/ s # 0 /\ SeededConfig = c
    BY <1>2, <1>3, Seeded
  <1>6. LatestIndex(LiveFiles) = s
    BY <1>2, <1>3, AnchorIndex
  <1>7. \/ /\ LogContiguous /\ mode' = "up"
           /\ sql' = [sql EXCEPT !.config = SeededConfig]
           /\ raft' = [applied |-> s, snap |-> s]
        \/ ~ LogContiguous /\ mode' = "refused" /\ UNCHANGED <<sql, raft>>
    BY <1>2, <1>6 DEF OpenNode
  <1>8. sql \in [applied : Nat, config : Nat,
                 install : {None} \cup [id : Nat, index : Nat, base : Nat, config : Nat]]
    BY <1>2 DEF SnapTypes
  <1>9. /\ sql' \in [applied : Nat, config : Nat,
                     install : {None} \cup [id : Nat, index : Nat, base : Nat, config : Nat]]
        /\ sql'.applied = sql.applied /\ sql'.install = sql.install
        /\ sql'.config \in {sql.config, SeededConfig}
    <2>1. CASE sql' = [sql EXCEPT !.config = SeededConfig]
      BY <1>5, <1>8, <2>1
    <2>2. CASE sql' = sql
      BY <1>8, <2>2
    <2> QED BY <1>7, <2>1, <2>2
  <1>10. raft' \in [applied : Nat, snap : Nat]
    BY <1>2, <1>7 DEF SnapTypes
  <1>11. SnapTypes' /\ PeerSound'
    BY <1>1, <1>2, <1>4, <1>7, <1>9, <1>10 DEF SnapTypes, PeerSound
  <1>12. \A f : Bound(f)' <=> Bound(f)
    BY <1>9 DEF Bound
  <1>13. ASSUME NEW b \in files, IsAnchor(b)
         PROVE  /\ b \in files' /\ IsAnchor(b)'
                /\ \A g \in files' : g = b \/ Newer(b, g)
    <2>1. b \in files' /\ \A g \in files' : g = b \/ Newer(b, g)
      BY <1>1, <1>2, <1>13, AnchorIsLatest
    <2> QED BY <1>12, <1>13, <2>1 DEF IsAnchor
  <1>14. AnchorAt(s, c)'
    <2>1. CASE s = 0 /\ c = 0 /\ \A f \in files : ~ Bound(f)
      BY <1>1, <1>4, <1>12, <2>1 DEF AnchorAt
    <2>2. ASSUME NEW b \in files, IsAnchor(b), b.index = s, b.config = c
          PROVE  AnchorAt(s, c)'
      BY <1>13, <2>2 DEF AnchorAt
    <2> QED BY <1>3, <2>1, <2>2 DEF AnchorAt
  <1>15. FilesSound'
    <2>1. \A f \in files' : BindingMatches(f)' /\ LocalCovered(f)'
      BY <1>1, <1>2, <1>4, <1>9 DEF FilesSound, BindingMatches, LocalCovered
    <2>2. ASSUME files' # {} PROVE \E t \in files' : \A g \in files' \ {t} : Newer(t, g)
      <3>1. PICK f \in LiveFiles : TRUE
        BY <1>1, <2>2
      <3>2. PICK b \in files : IsAnchor(b)
        BY <1>2, <1>3, <3>1, LiveIsBehind
      <3> QED BY <1>13, <3>2
    <2>3. \A f \in files' : CutAt(committed', f.index, f.base, f.config)
      BY <1>1, <1>2, <1>4 DEF FilesSound
    <2>4. \A f, g \in files' : f.id = g.id => f = g
      BY <1>1, <1>2, <1>4 DEF FilesSound
    <2>5. \E n \in Nat : /\ \A f \in files' : f.id <= n
                         /\ sql'.install # None => sql'.install.id <= n
      BY <1>1, <1>2, <1>4, <1>9 DEF FilesSound
    <2> QED BY <2>1, <2>2, <2>3, <2>4, <2>5 DEF FilesSound
  <1>16. \A f \in files : CutAt(committed, f.index, f.base, f.config)
    BY <1>2 DEF FilesSound
  <1>17. SqlSound'
    <2>1. InstallRecordValid'
      <3>1. sql.install # None => sql.install.config \in Nat
        BY <1>8
      <3>2. sql.config <= sql'.config /\ sql.config \in Nat /\ sql'.config \in Nat
        BY <1>5, <1>8, <1>9
      <3> QED BY <1>2, <1>9, <3>1, <3>2 DEF SqlSound, InstallRecordValid
    <2>2. SeededConfig # 0 =>
              SeededConfig \in 1 .. Len(committed) /\ committed[SeededConfig] = "config"
      <3>1. CASE SeededConfig \in logs /\ committed[SeededConfig] = "config"
        BY <1>2, <3>1 DEF SnapTypes
      <3>2. CASE s # 0 /\ SeededConfig = c
        <4>1. PICK b \in files : b.config = c
          BY <1>3, <3>2 DEF AnchorAt
        <4> QED BY <1>16, <3>2, <4>1 DEF CutAt
      <3> QED BY <1>5, <3>1, <3>2
    <2> QED BY <1>1, <1>2, <1>9, <2>1, <2>2 DEF SqlSound
  <1>18. Reached(s, c)'
    <2>1. sql'.config \in logs \cup {0} \/ sql'.config <= c
      BY <1>3, <1>5, <1>9 DEF Reached
    <2> QED BY <1>1, <1>3, <1>9, <2>1 DEF Reached
  <1>19. ASSUME mode' = "up" PROVE RaftRuns(s)'
    <2>1. raft'.applied = s /\ raft'.snap = s
      BY <1>7, <1>19
    <2>2. s <= Len(committed) /\ NoneMissing(committed, s, sql.applied)
      <3>1. CASE s = 0
        BY <1>2, <3>1 DEF NoneMissing, SnapTypes
      <3>2. CASE s # 0
        <4>1. PICK b \in files : IsAnchor(b) /\ b.index = s
          BY <1>3, <3>2 DEF AnchorAt
        <4>2. CutAt(committed, s, b.base, b.config) /\ BindingMatches(b) /\ LocalCovered(b)
          BY <1>2, <4>1 DEF FilesSound
        <4>3. b.base <= sql.applied
          <5>1. CASE b.source = "local"
            BY <4>2, <5>1 DEF LocalCovered
          <5>2. CASE sql.install # None /\ sql.install.id = b.id
            BY <1>2, <4>2, <5>2 DEF BindingMatches, SqlSound, InstallRecordValid
          <5> QED BY <4>1, <5>1, <5>2 DEF IsAnchor, Bound
        <4>4. b.base \in Nat /\ sql.applied \in Nat
          BY <1>4, <1>8 DEF FileRecords
        <4> QED BY <4>2, <4>3, <4>4 DEF CutAt, NoneMissing
      <3> QED BY <3>1, <3>2
    <2>3. sql.install # None => sql.install.base <= s
      BY <1>3 DEF Reached
    <2>4. \A f \in files' : f \in LiveFiles'
      <3> SUFFICES ASSUME NEW f \in files' PROVE f \in LiveFiles'
        OBVIOUS
      <3>1. PICK b \in files : IsAnchor(b)
        BY <1>1, <1>2, <1>3, LiveIsBehind
      <3>2. b \in files' /\ IsAnchor(b)' /\ (f = b \/ Newer(b, f))
        BY <1>13, <3>1
      <3> QED BY <3>2 DEF LiveFiles, IsAnchor
    <2>5. restore' = None /\ capture' = None /\ compact' = 0 /\ ~ Unrestored'
      BY <1>1, <1>4 DEF Unrestored
    <2> QED BY <1>1, <1>9, <2>1, <2>2, <2>3, <2>4, <2>5 DEF RaftRuns
  <1>20. mode' = "refused" => ~ LogContiguous'
    BY <1>1, <1>7 DEF LogContiguous
  <1> QED BY <1>11, <1>14, <1>15, <1>17, <1>18, <1>19, <1>20 DEF OpenInv, StoresMeet

LEMMA OpenInvNext ==
    ASSUME OpenInv, [Next]_vars
    PROVE  OpenInv'
  <1>1. CASE Next
    BY <1>1, CommitStep, PeerSnapshotStep, ReplicateStep, ApplyEntryStep, CaptureStep, PersistStep,
       CompactStep, ReceiveStep, RestoreStep, RejectStep, FinishStep, CrashStep, OpenNodeStep
       DEF Next
  <1>2. CASE UNCHANGED vars
    <2>1. UNCHANGED <<committed, peer, logs, files, sql, mode, raft, restore, capture, compact>>
      BY <1>2 DEF vars
    <2>2. SnapTypes' /\ PeerSound'
      BY <2>1 DEF OpenInv, SnapTypes, PeerSound
    <2>3. PICK s \in Nat, c \in Nat :
              AnchorAt(s, c) /\ Reached(s, c) /\ (mode = "up" => RaftRuns(s))
      BY DEF OpenInv, StoresMeet
    <2>4. FilesSound' /\ SqlSound' /\ AnchorAt(s, c)'
      BY <2>1, <2>3, QuietStores DEF OpenInv
    <2>5. /\ LiveFiles' = LiveFiles /\ Unrestored' = Unrestored
          /\ \A f : (Bound(f)' <=> Bound(f)) /\ (IsAnchor(f)' <=> IsAnchor(f))
      BY <2>1, QuietStores DEF Unrestored
    <2>6. Reached(s, c)' /\ (mode' = "up" => RaftRuns(s)')
      BY <2>1, <2>3, <2>5 DEF Reached, RaftRuns
    <2> QED BY <2>1, <2>2, <2>3, <2>4, <2>6 DEF OpenInv, StoresMeet, LogContiguous
  <1> QED BY <1>1, <1>2

(* Whatever crashed between the log, the snapshot files and SQLite, and      *)
(* whatever snapshot was rejected, Raft starts where SQLite misses no        *)
(* command, and openNode refuses nothing but a log with a hole               *)
(* (verifyLatestLogicalRaftSnapshot, validateRaftReplayCoverage).            *)
THEOREM OpeningsAreSound == Spec => []OpeningsSound
  <1> QED BY OpenInvInit, OpenInvNext, OpenInvImplies, PTL DEF Spec

=============================================================================
