---------------------------- MODULE PeerEndpoints ----------------------------
(***************************************************************************)
(* Where a daemon looks for its peers.  One member publishes signed sets of *)
(* its endpoints under a durable sequence.  Another daemon keeps, in its    *)
(* store, the sets it is sent, the sources of discovery datagrams, the      *)
(* destinations that answered, and what its operator configured; it turns   *)
(* them into routes, over a selected local address, and dials them.         *)
(* Sets arrive late, twice and in any order, policies and memberships       *)
(* change, rows expire and are evicted, and the pass that makes routes      *)
(* works from what it read earlier.                                         *)
(***************************************************************************)
EXTENDS Integers, FiniteSets

CONSTANTS
    Members,            \* the other members of the session
    Source,             \* the one whose publications are followed
    Endpoints,          \* literal addresses and ports
    ListenerSets,       \* those the source may listen on
    Refreshes,          \* calls of the publisher that may overlap
    HintTTLs,           \* what the advertisement interval may make of a set's lifetime
    GuessTTL, RawTTL, ClockSkew,
    MemberCap, SessionCap, ManualCap,   \* of the store; the route table has the same
    MaxClock, MaxSequence, MaxRebinds, MaxStarts, MaxBacks

ASSUME EndpointAssumption ==
    /\ IsFiniteSet(Members) /\ Source \in Members /\ IsFiniteSet(Endpoints)
    /\ ListenerSets \subseteq SUBSET Endpoints /\ {} \notin ListenerSets
    /\ HintTTLs \subseteq Nat \ {0} /\ HintTTLs # {}
    /\ GuessTTL \in Nat \ {0} /\ RawTTL \in Nat \ {0} /\ ClockSkew \in Nat
    /\ \A t \in HintTTLs : t + ClockSkew <= GuessTTL
    /\ MemberCap \in Nat /\ SessionCap \in Nat /\ ManualCap \in Nat
    /\ {MaxClock, MaxSequence, MaxRebinds, MaxStarts, MaxBacks} \subseteq Nat

VARIABLES
    sequence, current, withdrawals, refresh, published,     \* the publisher
    clock, latest, activeMembers, hintTTL,     \* the daemon's clock and where it has been; its state
    rows, accepted, purged,     \* peer_endpoints; the sets it took; members a pass has purged
    owed,               \* an operator changed the table and waits for a pass
    selected,           \* how often the local address was bound, and whether it is
    routes, learned,    \* the route table; the discovery service's own routes
    hint, reconcile, dial, connections,
    fatal, starts, backs

publisherVars == <<sequence, current, withdrawals, refresh, published>>
tableVars == <<rows, accepted, purged>>
routeVars == <<owed, selected, routes, learned, hint, reconcile, dial, connections>>
endpointVars == <<publisherVars, clock, latest, activeMembers, hintTTL, tableVars, routeVars, fatal, starts, backs>>

NoSet == [seq |-> 0, issued |-> 0, expires |-> 0, endpoints |-> {}, epoch |-> 0]

----------------------------------------------------------------------------
(* The publisher (endpointservice).  Its clock may be set at any time.      *)

NoRefresh == [stage |-> "idle", epoch |-> 0, set |-> NoSet]

BeginRefresh(c) ==
    /\ refresh[c].stage = "idle"
    /\ refresh' = [refresh EXCEPT ![c] = [stage |-> "begun", epoch |-> withdrawals, set |-> NoSet]]
    /\ UNCHANGED <<sequence, current, withdrawals, published>>

TokenFree == \A c \in Refreshes : refresh[c].stage \in {"idle", "begun"}

\* (Variant: the sequence is the clock's.)
SequenceOfClock(at) == at
\* AllocateOwnEndpointSequence.
NextOwnSequence(at) == IF at > sequence THEN at ELSE sequence + 1

\* The refresh that has the token reads the clock and has its sequence stored.
AllocateSequence(c, at, endpoints, ttl) ==
    /\ refresh[c].stage = "begun" /\ TokenFree
    /\ NextOwnSequence(at) <= MaxSequence
    /\ sequence' = NextOwnSequence(at)
    /\ refresh' = [refresh EXCEPT ![c].stage = "signed",
                       ![c].set = [seq |-> NextOwnSequence(at), issued |-> at, expires |-> at + ttl,
                                   endpoints |-> endpoints, epoch |-> refresh[c].epoch]]
    /\ UNCHANGED <<current, withdrawals, published>>

PublishSet(c) ==
    /\ refresh[c].stage = "signed"
    /\ refresh' = [refresh EXCEPT ![c] = NoRefresh]
    /\ IF refresh[c].epoch = withdrawals
       THEN current' = refresh[c].set /\ published' = published \cup {refresh[c].set}
       ELSE UNCHANGED <<current, published>>
    /\ UNCHANGED <<sequence, withdrawals>>

\* A canceled call, an error of the store.
RefreshFailed(c) ==
    /\ refresh[c].stage # "idle"
    /\ refresh' = [refresh EXCEPT ![c] = NoRefresh]
    /\ UNCHANGED <<sequence, current, withdrawals, published>>

Withdraw ==
    /\ withdrawals < MaxRebinds
    /\ withdrawals' = withdrawals + 1 /\ current' = NoSet
    /\ UNCHANGED <<sequence, refresh, published>>

\* The sequence is all that a restart keeps.
PublisherRestarts ==
    /\ starts < MaxStarts /\ starts' = starts + 1
    /\ current' = NoSet /\ refresh' = [c \in Refreshes |-> NoRefresh]
    /\ UNCHANGED <<sequence, withdrawals, published>>

PublisherNext ==
    /\ \/ /\ \E c \in Refreshes :
                \/ BeginRefresh(c) \/ PublishSet(c) \/ RefreshFailed(c)
                \/ \E at \in 0 .. MaxClock, E \in ListenerSets, ttl \in HintTTLs :
                       AllocateSequence(c, at, E, ttl)
          /\ UNCHANGED starts
       \/ Withdraw /\ UNCHANGED starts
       \/ PublisherRestarts
    /\ UNCHANGED <<clock, latest, activeMembers, hintTTL, tableVars, routeVars, fatal, backs>>

----------------------------------------------------------------------------
(* The store: peer_endpoints, every operation in one transaction.           *)

Row(m, kind, e, set, expires) ==
    [device |-> m, kind |-> kind, endpoint |-> e, set |-> set, observed |-> clock, expires |-> expires]
SameKey(r, s) == r.device = s.device /\ r.kind = s.kind /\ r.endpoint = s.endpoint

Learned(r) == r.kind # "manual"
Of(R, m) == {r \in R : r.device = m}
LearnedOf(R, m) == {r \in Of(R, m) : Learned(r)}

\* expireStalePeerEndpointRows: what is past its expiry goes; a signed set past
\* its own leaves its addresses as guesses, without its sequence.
Stripped(r, now) == IF r.set.expires <= now THEN [r EXCEPT !.set = NoSet] ELSE r
Fresh(R, now) == {Stripped(r, now) : r \in {s \in R : s.kind = "manual" \/ s.expires > now}}

\* (Variant: a row of the current set may go.)
EvictableAny(r) == Learned(r)
Evictable(r) == Learned(r) /\ r.set = NoSet

Excess(n, cap) == IF n > cap THEN n - cap ELSE 0
Oldest(E, R) == \A e \in E, r \in R \ E : e.observed <= r.observed

\* enforcePeerEndpointCaps: first each member's oldest, then the session's.
OverMember(R, candidates, E) ==
    \A m \in Members :
        /\ Cardinality(Of(E, m)) = Excess(Cardinality(LearnedOf(R, m)), MemberCap)
        /\ Oldest(Of(E, m), Of(candidates, m))
OverSession(R) == Excess(Cardinality({r \in R : Learned(r)}), SessionCap)
Enforced(R, candidates, kept) ==
    \E E \in SUBSET candidates :
        /\ OverMember(R, candidates, E)
        /\ \E F \in SUBSET (candidates \ E) :
              /\ Cardinality(F) = OverSession(R \ E) /\ Oldest(F, candidates \ E)
              /\ kept = R \ (E \cup F)
HasRoom(R, candidates) ==
    \E E \in SUBSET candidates :
        OverMember(R, candidates, E) /\ OverSession(R \ E) <= Cardinality(candidates \ E)

Upserted(r) == {s \in Fresh(rows, clock) : ~SameKey(r, s)} \cup {r}

\* upsertPeerEndpointCandidate for a learned row.
UpsertAllowed(r) ==
    /\ r.device \in activeMembers
    /\ HasRoom(Upserted(r), {s \in Upserted(r) : Evictable(s) /\ ~SameKey(r, s)})
Upsert(r) ==
    Enforced(Upserted(r), {s \in Upserted(r) : Evictable(s) /\ ~SameKey(r, s)}, rows')

\* validatePeerEndpointSetTimes.
TimesValid(s, ttl, now) ==
    /\ s.expires - s.issued <= ttl /\ s.issued <= now + ClockSkew
    /\ s.expires > now /\ s.expires <= now + ttl + ClockSkew

CurrentSets(R, m) == {r.set : r \in {q \in Of(R, m) : q.kind = "signed"}} \ {NoSet}

\* ReplaceMemberSignedEndpointSet: a lower sequence and other bytes under the
\* same one are refused, the set that is there is observed again.
ReplaceSet(s) ==
    LET R == Fresh(rows, clock)
        others == {r \in R : r.device # Source \/ r.kind # "signed"}
        next == others \cup {Row(Source, "signed", e, s, clock + GuessTTL) : e \in s.endpoints}
    IN /\ Source \in activeMembers /\ TimesValid(s, hintTTL, clock)
       /\ \/ /\ s \in CurrentSets(R, Source)
             /\ rows' = others \cup
                    {IF clock > r.observed THEN Row(Source, "signed", r.endpoint, s, clock + GuessTTL)
                     ELSE r : r \in R \ others}
          \/ /\ \A t \in CurrentSets(R, Source) : t.seq < s.seq
             /\ Enforced(next, {r \in next : Evictable(r)}, rows')
       /\ accepted' = accepted \cup {s}
       /\ UNCHANGED purged

AuthenticatedDial(m, e) ==
    LET r == Row(m, "guess", e, NoSet, clock + GuessTTL)
    IN UpsertAllowed(r) /\ Upsert(r) /\ UNCHANGED <<accepted, purged>>

AddManual(m, e) ==
    LET r == Row(m, "manual", e, NoSet, 0)
        manual == {s \in Fresh(rows, clock) : s.kind = "manual" /\ ~SameKey(r, s)}
    IN /\ m \in activeMembers /\ Cardinality(Of(manual, m)) < ManualCap
       /\ rows' = Upserted(r) /\ UNCHANGED <<accepted, purged>>
RemoveManual(m, e) ==
    /\ \E r \in rows : r.device = m /\ r.kind = "manual" /\ r.endpoint = e
    /\ rows' = {r \in rows : r.device # m \/ r.kind # "manual" \/ r.endpoint # e}
    /\ UNCHANGED <<accepted, purged>>

StoreNext ==
    /\ fatal = "none"
    /\ \/ (\E s \in published : ReplaceSet(s)) /\ UNCHANGED owed
       \/ (\E m \in Members, e \in Endpoints : AuthenticatedDial(m, e)) /\ UNCHANGED owed
       \/ (\E m \in Members, e \in Endpoints : AddManual(m, e) \/ RemoveManual(m, e)) /\ owed' = TRUE
    /\ UNCHANGED <<publisherVars, clock, latest, activeMembers, hintTTL, selected, routes, learned,
                   hint, reconcile, dial, connections, fatal, starts, backs>>

----------------------------------------------------------------------------
(* The route table, its reconciler and the discovery service.               *)

Sources == 1 .. 4
SourceOf(kind) == CASE kind = "manual" -> 1 [] kind = "signed" -> 2
                    [] kind = "guess" -> 3 [] kind = "raw" -> 4
Route(r) == [peer |-> r.device, source |-> SourceOf(r.kind), endpoint |-> r.endpoint,
             expires |-> r.expires]
RoutesOf(R, m) == {r \in R : r.peer = m}
LiveRoutes(R) == {r \in R : r.source = 1 \/ r.expires > clock}

\* Replace: what stands in the way of a peer's routes of one source.  A learned
\* route lasts, and not longer than its source allows.
Lifetime(k) == IF k = 4 THEN RawTTL ELSE GuessTTL
Replaced(m, k, R) == {r \in routes : r.peer # m \/ r.source # k} \cup R
Obstacle(m, k, R) ==
    CASE R # {} /\ ~selected.on -> "unbound"
      [] k # 1 /\ \E r \in R : r.expires <= clock -> "expired"
      [] k # 1 /\ \E r \in R : r.expires - clock > Lifetime(k) -> "clock"
      [] \/ Cardinality(Replaced(m, k, R)) > SessionCap
         \/ Cardinality(RoutesOf(Replaced(m, k, R), m)) > MemberCap -> "capacity"
      [] OTHER -> "none"

NoPass == [phase |-> "idle", at |-> 0, by |-> "loop", all |-> FALSE, bound |-> FALSE,
           members |-> {}, todo |-> {}, peer |-> Source, found |-> {}, next |-> 1]

\* reconcile, from the timer of the discovery runtime, after a change of the
\* selected address (then with the stored raw sources too), or for an operator
\* who changed the table.
StartReconcile(by) ==
    /\ reconcile.phase = "idle" /\ (by = "operator" => owed)
    /\ owed' = (owed /\ by = "loop")
    /\ rows' = Fresh(rows, clock)
    /\ LET all == by = "loop" /\ selected.pending
       IN /\ reconcile' = [NoPass EXCEPT !.phase = "members", !.at = clock, !.by = by,
                                    !.all = all, !.bound = selected.on]
          /\ selected' = [selected EXCEPT !.pending = @ /\ ~all]
    /\ UNCHANGED <<purged, routes, fatal>>

ReadMembers ==
    /\ reconcile.phase = "members"
    /\ reconcile' = [reconcile EXCEPT !.phase = "peers", !.members = activeMembers, !.todo = Members]
    /\ UNCHANGED <<rows, purged, selected, routes, fatal>>

\* A member that the pass saw revoked loses its learned rows and its routes.
PurgeRows(m) ==
    /\ reconcile.phase = "peers" /\ m \in reconcile.todo \ reconcile.members
    /\ rows' = rows \ LearnedOf(rows, m)
    /\ reconcile' = [reconcile EXCEPT !.phase = "purge", !.peer = m]
    /\ UNCHANGED <<purged, selected, routes, fatal>>
PurgeRoutes ==
    /\ reconcile.phase = "purge"
    /\ routes' = routes \ RoutesOf(routes, reconcile.peer)
    /\ purged' = purged \cup {reconcile.peer}
    /\ reconcile' = [reconcile EXCEPT !.phase = "peers", !.todo = @ \ {reconcile.peer}]
    /\ UNCHANGED <<rows, selected, fatal>>

\* ListPeerEndpointCandidates: one row per endpoint, of the best source.
Rank(kind) == CASE kind = "signed" -> 0 [] kind = "raw" -> 1 [] kind = "guess" -> 2 [] OTHER -> 3
Best(R) == {r \in R : \A s \in R : s.endpoint = r.endpoint => Rank(r.kind) <= Rank(s.kind)}
ListCandidates(m) ==
    /\ reconcile.phase = "peers" /\ m \in reconcile.todo \cap reconcile.members
    /\ rows' = Fresh(rows, reconcile.at)
    /\ reconcile' = [reconcile EXCEPT !.phase = "install", !.peer = m, !.next = 1,
                            !.found = IF reconcile.bound THEN {Route(r) : r \in Best(Of(rows', m))} ELSE {}]
    /\ UNCHANGED <<purged, selected, routes, fatal>>

\* One source after the other; the raw sources are the discovery service's
\* unless the pass follows a change of the address.
InstallRoutes ==
    LET m == reconcile.peer
        k == reconcile.next
        R == {r \in reconcile.found : r.source = k}
    IN /\ reconcile.phase = "install"
       /\ \/ /\ k < 4 \/ reconcile.all
             /\ Obstacle(m, k, R) = "none"
             /\ routes' = Replaced(m, k, R)
             /\ reconcile' = IF k < 4 THEN [reconcile EXCEPT !.next = @ + 1]
                        ELSE [reconcile EXCEPT !.phase = "peers", !.todo = @ \ {m}]
             /\ UNCHANGED fatal
          \/ /\ k = 4 /\ ~reconcile.all
             /\ reconcile' = [reconcile EXCEPT !.phase = "peers", !.todo = @ \ {m}]
             /\ UNCHANGED <<routes, fatal>>
          \/ /\ k < 4 \/ reconcile.all
             /\ Obstacle(m, k, R) # "none"
             /\ reconcile' = NoPass
             /\ fatal' = IF reconcile.by = "loop" /\ ~reconcile.all THEN Obstacle(m, k, R) ELSE fatal
             /\ UNCHANGED routes
    /\ UNCHANGED <<rows, purged, selected>>

EndReconcile ==
    /\ reconcile.phase = "peers" /\ reconcile.todo = {}
    /\ reconcile' = NoPass /\ routes' = LiveRoutes(routes)
    /\ UNCHANGED <<rows, purged, selected, fatal>>

ReconcileNext ==
    /\ \/ \E by \in {"loop", "operator"} : StartReconcile(by)
       \/ ReadMembers /\ UNCHANGED owed
       \/ (\E m \in Members : PurgeRows(m) \/ ListCandidates(m)) /\ UNCHANGED owed
       \/ (PurgeRoutes \/ InstallRoutes \/ EndReconcile) /\ UNCHANGED owed
    /\ UNCHANGED <<accepted, learned, hint, dial, connections>>

\* The discovery service: a datagram of an active member is accepted, its source
\* stored, and then made a route beside the ones the service remembers.
NoHint == [stage |-> "none", at |-> 0, route |-> [peer |-> Source, source |-> 4, endpoint |-> 0, expires |-> 0]]

AcceptHint(m, e, ttl) ==
    /\ hint = NoHint /\ m \in activeMembers /\ selected.on
    /\ hint' = [stage |-> "accepted", at |-> clock,
                route |-> [peer |-> m, source |-> 4, endpoint |-> e, expires |-> clock + ttl]]
    /\ UNCHANGED <<tableVars, routes, learned, fatal>>

ObserveRaw ==
    LET g == hint.route
        r == Row(g.peer, "raw", g.endpoint, NoSet, g.expires)
    IN /\ hint.stage = "accepted"
       /\ \/ /\ g.expires <= clock
             /\ hint' = NoHint /\ UNCHANGED <<rows, fatal>>
          \/ /\ g.expires > clock /\ UpsertAllowed(r)
             /\ Upsert(r)
             /\ hint' = [hint EXCEPT !.stage = "stored", !.at = clock] /\ UNCHANGED fatal
          \/ /\ g.expires > clock /\ ~UpsertAllowed(r)
             /\ hint' = NoHint /\ UNCHANGED rows
             /\ fatal' = IF g.peer \in activeMembers THEN "capacity" ELSE "revoked"
       /\ UNCHANGED <<accepted, purged, routes, learned>>

\* Remembered routes make room for the new one, the oldest first.
LearnRoute ==
    LET g == hint.route
        m == g.peer
        old == {r \in learned[m] : r.expires > hint.at /\ r.endpoint # g.endpoint}
        Fits(N) == /\ Obstacle(m, 4, N \cup {g}) = "none"
                   /\ \A P \in SUBSET old : Cardinality(P) > Cardinality(N) =>
                         Obstacle(m, 4, P \cup {g}) = "capacity"
    IN /\ hint.stage = "stored" /\ hint' = NoHint
       /\ \/ \E N \in SUBSET old :
                /\ Fits(N)
                /\ learned' = [learned EXCEPT ![m] = N \cup {g}]
                /\ routes' = Replaced(m, 4, N \cup {g})
          \/ /\ \A N \in SUBSET old : ~Fits(N)
             /\ UNCHANGED <<routes, learned>>
       /\ UNCHANGED <<tableVars, fatal>>

MaintainRoutes ==
    /\ hint = NoHint
    /\ learned' = [m \in Members |-> IF m \in activeMembers THEN {r \in learned[m] : r.expires > clock} ELSE {}]
    /\ routes' = LiveRoutes({r \in routes : r.source # 4 \/ r.peer \in activeMembers \/ learned[r.peer] = {}})
    /\ UNCHANGED <<tableVars, hint, fatal>>

DiscoveryNext ==
    /\ \/ \E m \in Members, e \in Endpoints, ttl \in 1 .. RawTTL : AcceptHint(m, e, ttl)
       \/ ObserveRaw \/ LearnRoute \/ MaintainRoutes
    /\ UNCHANGED <<owed, selected, reconcile, dial, connections>>

\* RebindSelectedAddresses, by the loop between two of its passes.
Rebind(on) ==
    /\ selected.binds < MaxRebinds /\ (on \/ selected.on)
    /\ reconcile.phase = "idle" \/ reconcile.by = "operator"
    /\ selected' = [on |-> on, binds |-> selected.binds + 1, pending |-> TRUE]
    /\ routes' = IF on THEN routes ELSE {}
    /\ connections' = {}
    /\ UNCHANGED dial

\* A dial leaves the lock while it connects.
NoDial == [endpoint |-> 0, binds |-> 0]
Effective(e) ==
    LET R == {r \in LiveRoutes(routes) : r.endpoint = e}
    IN selected.on /\ R # {} /\ \A r, s \in R : r.peer = s.peer
PrepareDial(e) ==
    /\ dial = NoDial /\ Effective(e)
    /\ dial' = [endpoint |-> e, binds |-> selected.binds]
    /\ routes' = LiveRoutes(routes)
    /\ UNCHANGED <<selected, connections>>

\* (Variant: the address is still selected.)
StillSelected == selected.on
SameSelection == selected.on /\ selected.binds = dial.binds
FinishDial ==
    /\ dial # NoDial /\ dial' = NoDial
    /\ routes' = LiveRoutes(routes)
    /\ connections' = IF Effective(dial.endpoint) /\ SameSelection
                      THEN connections \cup {dial} ELSE connections
    /\ UNCHANGED selected

DialNext ==
    /\ \/ \E on \in BOOLEAN : Rebind(on)
       \/ \E e \in Endpoints : PrepareDial(e)
       \/ FinishDial
    /\ UNCHANGED <<tableVars, owed, learned, hint, reconcile, fatal>>

----------------------------------------------------------------------------
(* The session, and the clock.                                             *)

Later == clock < MaxClock /\ clock' = clock + 1
SetBack == clock > 0 /\ backs < MaxBacks /\ clock' = clock - 1
EnvironmentNext ==
    /\ \/ /\ Later \/ SetBack
          /\ backs' = IF clock' < clock THEN backs + 1 ELSE backs
          /\ latest' = IF clock' > latest THEN clock' ELSE latest
          /\ UNCHANGED <<activeMembers, hintTTL>>
       \/ \E m \in activeMembers : activeMembers' = activeMembers \ {m} /\ UNCHANGED <<clock, latest, hintTTL, backs>>
       \/ \E t \in HintTTLs \ {hintTTL} : hintTTL' = t /\ UNCHANGED <<clock, latest, activeMembers, backs>>
    /\ UNCHANGED <<publisherVars, tableVars, routeVars, fatal, starts>>

RuntimeNext ==
    /\ fatal = "none"
    /\ ReconcileNext \/ DiscoveryNext \/ DialNext
    /\ UNCHANGED <<publisherVars, clock, latest, activeMembers, hintTTL, starts, backs>>

EndpointInit ==
    /\ sequence = 0 /\ current = NoSet /\ withdrawals = 0 /\ published = {}
    /\ refresh = [c \in Refreshes |-> NoRefresh]
    /\ clock = 0 /\ latest = 0 /\ activeMembers = Members /\ hintTTL \in HintTTLs
    /\ rows = {} /\ accepted = {} /\ purged = {}
    /\ selected = [on |-> TRUE, binds |-> 1, pending |-> FALSE]
    /\ owed = FALSE /\ routes = {} /\ learned = [m \in Members |-> {}]
    /\ hint = NoHint /\ reconcile = NoPass /\ dial = NoDial /\ connections = {}
    /\ fatal = "none" /\ starts = 0 /\ backs = 0

EndpointNext == PublisherNext \/ StoreNext \/ RuntimeNext \/ EnvironmentNext
EndpointSpec == EndpointInit /\ [][EndpointNext]_endpointVars

----------------------------------------------------------------------------
(* Properties.                                                             *)

\* A sequence names one set, the publication that stands is the latest, and a
\* refresh that was admitted before a withdrawal does not undo it.
PublicationsOrdered ==
    /\ \A s, t \in published : s.seq = t.seq => s = t
    /\ current # NoSet => /\ current.epoch = withdrawals
                          /\ \A s \in published : s.seq <= current.seq

\* validateMemberEndpointGroups and validatePeerEndpointRowCaps: no later read
\* takes the table for corrupt, whatever expired, was evicted or replaced.
TableValid ==
    /\ \A m \in Members :
          /\ Cardinality(LearnedOf(rows, m)) <= MemberCap
          /\ Cardinality(Of(rows, m) \ LearnedOf(rows, m)) <= ManualCap
          /\ LET signed == {r \in Of(rows, m) : r.kind = "signed"}
             IN \A r \in signed : r.set # NoSet =>
                   /\ \A q \in signed : q.set = r.set /\ q.observed = r.observed
                   /\ {q.endpoint : q \in signed} = r.set.endpoints
    /\ Cardinality({r \in rows : Learned(r)}) <= SessionCap

\* The high-water mark: of the sets the daemon took and that no moment of its
\* clock has seen expired, it has the latest (ReplaceMemberSignedEndpointSet),
\* unless a later one has expired: a source whose clock went back may give its
\* later set the shorter life.
LatestKept ==
    Source \in activeMembers => \A s \in accepted : s.expires > latest =>
        \/ \E t \in CurrentSets(rows, Source) : s.seq <= t.seq
        \/ \E t \in accepted : s.seq < t.seq /\ t.expires <= latest

\* Once a pass that saw a member revoked has purged it, nothing learned of it is
\* left or comes back, but for a discovery route the service still remembers.
RevokedForgotten ==
    \A m \in purged : /\ LearnedOf(rows, m) = {}
                      /\ \A r \in RoutesOf(routes, m) : r.source = 4 /\ r \in learned[m]

\* An open connection uses the address as it is bound now.
ConnectionsBound == \A c \in connections : selected.on /\ c.binds = selected.binds

\* The discovery runtime never stops over its selected address, and over the
\* lifetime of a route only when the clock was set back.
StopsExplained == fatal # "unbound" /\ (fatal = "clock" => backs > 0)

\* All of this at once.
EndpointsSound == /\ PublicationsOrdered /\ TableValid /\ LatestKept
                  /\ RevokedForgotten /\ ConnectionsBound /\ StopsExplained
=============================================================================
