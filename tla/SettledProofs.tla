---------------------------- MODULE SettledProofs ----------------------------
(***************************************************************************)
(* Proofs about SettledReplication, for any servers, recovered servers,    *)
(* authorities, sessions, command plans, page sizes and faults: the        *)
(* replica's history is always a prefix of what its generation committed,  *)
(* its stored evidence always verifies, and it calls itself current only   *)
(* on what this process and these connections told it.                     *)
(***************************************************************************)
EXTENDS SettledReplication, SequenceTheorems, FiniteSetTheorems, TLAPS

\* An answer of a server of the replica's generation says what was true of the ledger,
\* and still is: a page is a slice of it, an acknowledgement and a snapshot name a
\* prefix, and none tells less than the server had when its link started.
SoundReply(r, s) ==
    /\ r.kind = "page" /\ r.generation = 0 =>
         /\ r.signer = s
         /\ r.from \in Nat \ {0} /\ r.to \in Nat /\ r.applied \in Nat
         /\ r.from <= r.to /\ r.to <= Len(ledger)
         /\ r.results = SubSeq(ledger, r.from, r.to)
         /\ since[s] <= r.applied
    /\ r.kind = "ack" /\ r.generation = 0 =>
         /\ r.signer = s
         /\ r.index \in Nat /\ r.index <= Len(ledger)
         /\ r.heads = Prefix(ledger, r.index)
         /\ since[s] <= r.index
    /\ r.kind = "root" /\ r.generation = 0 =>
         /\ r.cut \in Nat /\ r.cut <= Len(ledger)
         /\ r.heads = Prefix(ledger, r.cut)

\* What peers told this process is no older than its links to them.
LiveFresh == \A s \in Servers : live[s] # None => since[s] <= live[s].applied

PassSound == pass # None /\ pass.reply # None => SoundReply(pass.reply, pass.relay)

SettledInv ==
    /\ TypeOK
    /\ \A s \in Servers : since[s] <= at[s] /\ at[s] <= Len(ledger)
    /\ HistoryIsProven
    /\ \A k \in acks : k.index <= ReplicaHead
    /\ LiveFresh
    /\ PassSound
-----------------------------------------------------------------------------
(* Rows and prefixes *)

LEMMA GenesisRow == Genesis \in RowSet
  BY SettledConstants DEF Genesis, RowSet, Devices

LEMMA RowsType ==
    ASSUME NEW h \in Seq(RowSet)
    PROVE  Rows(h) \in RowSet
  <1>1. h # <<>> => Len(h) \in 1..Len(h)
    OBVIOUS
  <1>. QED
    BY <1>1, GenesisRow DEF Rows

LEMMA ReduceType ==
    ASSUME NEW h \in Seq(RowSet), NEW c \in Commands
    PROVE  Reduce(h, c) \in RowSet
  <1>. DEFINE r == [Rows(h) EXCEPT !.kind = c.kind]
  <1>1. r \in RowSet
    BY RowsType DEF RowSet, Commands
  <1>. HIDE DEF r
  <1>2. [r EXCEPT !.voters = r.target, !.version = r.version + 1] \in RowSet
    <2>1. r.target \in SUBSET Devices /\ r.version + 1 \in Nat
      BY <1>1 DEF RowSet
    <2>2. \A t \in SUBSET Devices, v \in Nat : [r EXCEPT !.voters = t, !.version = v] \in RowSet
      BY <1>1 DEF RowSet
    <2>. QED
      BY <2>1, <2>2
  <1>4. ASSUME NEW d \in SUBSET Devices
        PROVE  [r EXCEPT !.target = d] \in RowSet /\ [r EXCEPT !.active = @ \ d] \in RowSet
    BY <1>1 DEF RowSet
  <1>5. ASSUME NEW x \in SUBSET Sessions
        PROVE  [r EXCEPT !.open = @ \cup x] \in RowSet /\ [r EXCEPT !.open = @ \ x] \in RowSet
    BY <1>1 DEF RowSet
  <1>3. /\ c.kind \in {"target", "revoke"} => c.devices \in SUBSET Devices
        /\ c.kind \in {"open", "end"} => c.sessions \in SUBSET Sessions
    BY DEF Commands
  <1>. QED
    BY <1>1, <1>2, <1>3, <1>4, <1>5 DEF Reduce, r

\* A slice of a sequence is a slice of every longer one that starts with it.
LEMMA SliceKept ==
    ASSUME NEW S, NEW l \in Seq(S), NEW m \in Seq(S), Len(l) <= Len(m),
           \A i \in 1..Len(l) : m[i] = l[i],
           NEW a \in Nat \ {0}, NEW b \in Nat, b <= Len(l)
    PROVE  SubSeq(m, a, b) = SubSeq(l, a, b)
  <1>1. /\ \A i \in a..b : l[i] \in S
        /\ \A i \in a..b : m[i] \in S
        /\ \A i \in a..b : m[i] = l[i]
    OBVIOUS
  <1>2. /\ SubSeq(l, a, b) \in Seq(S) /\ SubSeq(m, a, b) \in Seq(S)
        /\ Len(SubSeq(l, a, b)) = IF a <= b THEN b - a + 1 ELSE 0
        /\ Len(SubSeq(m, a, b)) = IF a <= b THEN b - a + 1 ELSE 0
        /\ \A i \in 1..(b - a + 1) : SubSeq(l, a, b)[i] = l[a + i - 1]
        /\ \A i \in 1..(b - a + 1) : SubSeq(m, a, b)[i] = m[a + i - 1]
    BY <1>1, SubSeqProperties
  <1>3. \A i \in 1..Len(SubSeq(m, a, b)) : SubSeq(m, a, b)[i] = SubSeq(l, a, b)[i]
    BY <1>1, <1>2
  <1>. QED
    BY <1>2, <1>3, SeqEqual

LEMMA PrefixType ==
    ASSUME NEW S, NEW l \in Seq(S), NEW n \in Nat, n <= Len(l)
    PROVE  /\ Prefix(l, n) \in Seq(S) /\ Len(Prefix(l, n)) = n
           /\ \A i \in 1..n : Prefix(l, n)[i] = l[i]
  <1>1. \A i \in 1..n : l[i] \in S
    OBVIOUS
  <1>. QED
    BY <1>1, SubSeqProperties DEF Prefix

\* A prefix of a prefix.
LEMMA PrefixOfPrefix ==
    ASSUME NEW S, NEW l \in Seq(S), NEW n \in Nat, n <= Len(l), NEW k \in Nat, k <= n
    PROVE  Prefix(Prefix(l, n), k) = Prefix(l, k)
  <1>1. /\ Prefix(l, n) \in Seq(S) /\ Len(Prefix(l, n)) = n
        /\ \A i \in 1..n : l[i] = Prefix(l, n)[i]
    BY PrefixType
  <1>2. SubSeq(l, 1, k) = SubSeq(Prefix(l, n), 1, k)
    BY <1>1, SliceKept
  <1>. QED
    BY <1>2 DEF Prefix

\* The rows after a prefix of a longer history.
LEMMA PrefixKept ==
    ASSUME NEW S, NEW l \in Seq(S), NEW m \in Seq(S), NEW k \in Nat, k <= Len(l),
           Len(l) <= Len(m), l = Prefix(m, Len(l))
    PROVE  Prefix(m, k) = Prefix(l, k)
  BY PrefixOfPrefix

-----------------------------------------------------------------------------
(* The invariant, step by step *)

LEMMA InitSettled == Init => SettledInv
  <1>. SUFFICES ASSUME Init PROVE SettledInv
    OBVIOUS
  <1>1. TypeOK
    <2>1. plan \in Seq(Commands) /\ ledger \in Seq(RowSet) /\ hist \in Seq(RowSet)
      BY SettledConstants DEF Init
    <2>2. at \in [Servers -> Nat] /\ since \in [Servers -> Nat]
      BY DEF Init
    <2>3. live \in [Servers -> {None} \cup [version : Nat, verified : Nat, applied : Nat]]
      BY DEF Init
    <2>4. marker \in BOOLEAN /\ transition \in BOOLEAN /\ waited \in BOOLEAN
      BY DEF Init
    <2>. QED
      BY <2>1, <2>2, <2>3, <2>4 DEF Init, TypeOK
  <1>2. HistoryIsProven
    <2>1. Prefix(ledger, 0) = <<>>
      BY SubSeqEmpty DEF Prefix
    <2>2. EvidenceVerifies
      BY DEF Init, EvidenceVerifies, ReplicaHead
    <2>. QED
      BY <2>1, <2>2 DEF Init, HistoryIsProven, ReplicaHead
  <1>3. LiveFresh /\ PassSound
    BY DEF Init, LiveFresh, PassSound
  <1>. QED
    BY <1>1, <1>2, <1>3 DEF Init, SettledInv, ReplicaHead

\* The evidence depends on the store alone.
LEMMA EvidenceKept ==
    ASSUME UNCHANGED <<hist, base, attested, acks>>
    PROVE  EvidenceVerifies' <=> EvidenceVerifies
  BY DEF EvidenceVerifies, ReplicaHead

\* A result is committed: the ledger grows by it and nothing else changes.
LEMMA LedgerGrows ==
    ASSUME SettledInv, NEW row \in RowSet, ledger' = Append(ledger, row),
           plan' \in Seq(Commands),
           UNCHANGED <<at, storeVars, memoryVars, since, faults>>
    PROVE  SettledInv'
  <1>1. /\ ledger \in Seq(RowSet) /\ hist \in Seq(RowSet) /\ TypeOK
        /\ ReplicaHead \in Nat /\ ReplicaHead <= Len(ledger) /\ hist = Prefix(ledger, ReplicaHead)
    BY DEF SettledInv, TypeOK, HistoryIsProven, ReplicaHead
  <1>2. /\ ledger' \in Seq(RowSet) /\ Len(ledger') = Len(ledger) + 1
        /\ \A i \in 1..Len(ledger) : ledger'[i] = ledger[i]
    BY <1>1, AppendProperties
  <1>3. \A a \in Nat \ {0}, b \in Nat : b <= Len(ledger) => SubSeq(ledger', a, b) = SubSeq(ledger, a, b)
    <2>. SUFFICES ASSUME NEW a \in Nat \ {0}, NEW b \in Nat, b <= Len(ledger)
                  PROVE  SubSeq(ledger', a, b) = SubSeq(ledger, a, b)
      OBVIOUS
    <2>1. Len(ledger) <= Len(ledger')
      BY <1>1, <1>2
    <2>. QED
      BY <1>1, <1>2, <2>1, SliceKept
  <1>4. \A n \in Nat : n <= Len(ledger) => Prefix(ledger', n) = Prefix(ledger, n)
    BY <1>3 DEF Prefix
  <1>5. UNCHANGED <<at, hist, base, attested, acks, marker, live, transition, waited, pass, since, faults>>
    BY DEF storeVars, memoryVars
  <1>6. TypeOK'
    BY <1>1, <1>2, <1>5 DEF TypeOK
  <1>7. HistoryIsProven'
    <2>1. EvidenceVerifies'
      BY <1>5, EvidenceKept DEF SettledInv, HistoryIsProven
    <2>. QED
      BY <1>1, <1>2, <1>4, <1>5, <2>1 DEF HistoryIsProven, ReplicaHead
  <1>8. \A s \in Servers : since'[s] <= at'[s] /\ at'[s] <= Len(ledger')
    <2>1. \A s \in Servers : at[s] \in Nat /\ since[s] <= at[s] /\ at[s] <= Len(ledger) /\ Len(ledger) \in Nat
      BY <1>1 DEF SettledInv, TypeOK
    <2>. QED
      BY <1>2, <1>5, <2>1
  <1>9. LiveFresh' /\ \A k \in acks' : k.index <= ReplicaHead'
    BY <1>5 DEF SettledInv, LiveFresh, ReplicaHead
  <1>10. PassSound'
    <2>. SUFFICES ASSUME pass # None, pass.reply # None PROVE SoundReply(pass.reply, pass.relay)'
      BY <1>5 DEF PassSound
    <2>1. SoundReply(pass.reply, pass.relay) /\ Len(ledger) \in Nat
      BY <1>1 DEF SettledInv, PassSound
    <2>. DEFINE q == pass.reply
    <2>2. pass' = pass /\ since' = since /\ Len(ledger') = Len(ledger) + 1
      BY <1>2, <1>5
    <2>3. ASSUME q.kind = "page", q.generation = 0
          PROVE  q.to <= Len(ledger') /\ q.results = SubSeq(ledger', q.from, q.to)
      BY <1>3, <2>1, <2>2, <2>3 DEF SoundReply
    <2>4. ASSUME q.kind = "ack", q.generation = 0
          PROVE  q.index <= Len(ledger') /\ q.heads = Prefix(ledger', q.index)
      BY <1>4, <2>1, <2>2, <2>4 DEF SoundReply
    <2>5. ASSUME q.kind = "root", q.generation = 0
          PROVE  q.cut <= Len(ledger') /\ q.heads = Prefix(ledger', q.cut)
      BY <1>4, <2>1, <2>2, <2>5 DEF SoundReply
    <2>. QED
      BY <2>1, <2>2, <2>3, <2>4, <2>5 DEF SoundReply
  <1>. QED
    BY <1>6, <1>7, <1>8, <1>9, <1>10 DEF SettledInv

LEMMA CommitSound ==
    ASSUME SettledInv, CommitNext
    PROVE  SettledInv'
  <1>1. plan \in Seq(Commands) /\ plan # <<>> /\ ledger \in Seq(RowSet)
    BY DEF SettledInv, TypeOK, CommitNext
  <1>2. Head(plan) \in Commands /\ Tail(plan) \in Seq(Commands)
    BY <1>1
  <1>3. Reduce(ledger, Head(plan)) \in RowSet
    BY <1>1, <1>2, ReduceType
  <1>. QED
    BY <1>2, <1>3, LedgerGrows DEF CommitNext

LEMMA CrashReapSound ==
    ASSUME SettledInv, NEW x \in Sessions, NEW m \in Servers, CrashReap(x, m)
    PROVE  SettledInv'
  <1>. DEFINE c == [kind |-> "end", sessions |-> {x}]
  <1>1. c \in Commands /\ ledger \in Seq(RowSet) /\ plan \in Seq(Commands)
    BY DEF Commands, SettledInv, TypeOK
  <1>2. Reduce(ledger, c) \in RowSet
    BY <1>1, ReduceType
  <1>. QED
    BY <1>1, <1>2, LedgerGrows DEF CrashReap

\* A step that leaves the ledger and the evidence alone owes the links and the pass.
LEMMA StoreQuiet ==
    ASSUME SettledInv, UNCHANGED <<plan, ledger, hist, base, attested, acks>>,
           at' \in [Servers -> Nat], since' \in [Servers -> Nat],
           \A s \in Servers : since'[s] <= at'[s] /\ at'[s] <= Len(ledger),
           marker' \in BOOLEAN, transition' \in BOOLEAN, waited' \in BOOLEAN, faults' \in Nat,
           live' \in [Servers -> {None} \cup [version : Nat, verified : Nat, applied : Nat]],
           LiveFresh',
           pass' # None => /\ pass'.relay \in Servers /\ pass'.stage \in {"ask", "ack", "root"}
                           /\ pass'.installed \in BOOLEAN,
           PassSound'
    PROVE  SettledInv'
  <1>1. TypeOK'
    BY DEF SettledInv, TypeOK
  <1>2. EvidenceVerifies'
    BY EvidenceKept DEF SettledInv, HistoryIsProven
  <1>3. HistoryIsProven'
    BY <1>2 DEF SettledInv, HistoryIsProven, ReplicaHead
  <1>. QED
    BY <1>1, <1>3 DEF SettledInv, ReplicaHead

LEMMA ApplyNextSound ==
    ASSUME SettledInv, NEW s \in Servers, ApplyNext(s)
    PROVE  SettledInv'
  <1>1. UNCHANGED <<plan, ledger, hist, base, attested, acks, marker, live, transition, waited,
                    pass, since, faults>> /\ at' = [at EXCEPT ![s] = @ + 1] /\ at[s] < Len(ledger)
    BY DEF ApplyNext, storeVars, memoryVars
  <1>2. /\ TypeOK /\ LiveFresh /\ PassSound /\ at \in [Servers -> Nat] /\ since \in [Servers -> Nat]
        /\ Len(ledger) \in Nat
        /\ \A t \in Servers : since[t] <= at[t] /\ at[t] <= Len(ledger)
    BY DEF SettledInv, TypeOK
  <1>3. at' \in [Servers -> Nat] /\ \A t \in Servers : since'[t] <= at'[t] /\ at'[t] <= Len(ledger)
    BY <1>1, <1>2
  <1>4. LiveFresh' /\ PassSound'
    BY <1>1, <1>2 DEF LiveFresh, PassSound, SoundReply
  <1>. QED
    BY <1>1, <1>2, <1>3, <1>4, StoreQuiet DEF TypeOK

\* A link to a peer starts anew: what it told before is forgotten.
LEMMA ForgetSound ==
    ASSUME SettledInv, NEW s \in Servers, UNCHANGED ledger,
           live' = Forget(s), since' = [since EXCEPT ![s] = at[s]]
    PROVE  /\ live' \in [Servers -> {None} \cup [version : Nat, verified : Nat, applied : Nat]]
           /\ LiveFresh'
           /\ since' \in [Servers -> Nat] /\ \A t \in Servers : since'[t] <= at[t]
           /\ \A t \in Servers \ {s} : since'[t] = since[t]
  <1>1. /\ live \in [Servers -> {None} \cup [version : Nat, verified : Nat, applied : Nat]]
        /\ at \in [Servers -> Nat] /\ since \in [Servers -> Nat] /\ LiveFresh
        /\ \A t \in Servers : since[t] <= at[t]
    BY DEF SettledInv, TypeOK
  <1>2. live'[s] = None /\ \A t \in Servers \ {s} : live'[t] = live[t] /\ since'[t] = since[t]
    BY <1>1 DEF Forget
  <1>. QED
    BY <1>1, <1>2 DEF Forget, LiveFresh

LEMMA StartSyncSound ==
    ASSUME SettledInv, NEW s \in Servers, StartSync(s)
    PROVE  SettledInv'
  <1>1. /\ UNCHANGED <<plan, ledger, at, hist, base, attested, acks, marker, transition, waited, faults>>
        /\ live' = Forget(s) /\ since' = [since EXCEPT ![s] = at[s]]
        /\ pass' = [relay |-> s, stage |-> "ask", reply |-> None, installed |-> FALSE]
    BY DEF StartSync, storeVars, clusterVars
  <1>2. /\ TypeOK /\ at \in [Servers -> Nat] /\ \A t \in Servers : at[t] <= Len(ledger)
    BY DEF SettledInv, TypeOK
  <1>3. PassSound'
    BY <1>1 DEF PassSound
  <1>4. pass'.relay \in Servers /\ pass'.stage \in {"ask", "ack", "root"} /\ pass'.installed \in BOOLEAN
    BY <1>1
  <1>. QED
    BY <1>1, <1>2, <1>3, <1>4, ForgetSound, StoreQuiet DEF TypeOK

LEMMA DisconnectSound ==
    ASSUME SettledInv, NEW s \in Servers, Disconnect(s)
    PROVE  SettledInv'
  <1>1. /\ UNCHANGED <<plan, ledger, at, hist, base, attested, acks, marker, transition, waited>>
        /\ live' = Forget(s) /\ since' = [since EXCEPT ![s] = at[s]]
        /\ pass' = (IF pass # None /\ pass.relay = s THEN None ELSE pass)
        /\ faults' = faults + 1
    BY DEF Disconnect, storeVars, clusterVars
  <1>2. /\ TypeOK /\ PassSound /\ at \in [Servers -> Nat] /\ \A t \in Servers : at[t] <= Len(ledger)
        /\ since \in [Servers -> Nat] /\ faults' \in Nat
    BY <1>1 DEF SettledInv, TypeOK
  <1>3. PassSound'
    <2>. SUFFICES ASSUME pass' # None, pass'.reply # None PROVE SoundReply(pass.reply, pass.relay)'
      BY DEF PassSound
    <2>1. pass' = pass /\ pass.relay \in Servers \ {s}
      BY <1>1, <1>2 DEF TypeOK
    <2>2. since'[pass.relay] = since[pass.relay]
      BY <1>1, <1>2, <2>1
    <2>. QED
      BY <1>1, <1>2, <2>1, <2>2 DEF PassSound, SoundReply
  <1>. QED
    BY <1>1, <1>2, <1>3, ForgetSound, StoreQuiet DEF TypeOK

LEMMA RestartSound ==
    ASSUME SettledInv, Restart
    PROVE  SettledInv'
  <1>1. /\ UNCHANGED <<plan, ledger, at, hist, base, attested, acks, marker>>
        /\ live' = [s \in Servers |-> None] /\ since' = at /\ pass' = None
        /\ faults' = faults + 1 /\ waited' = FALSE
    BY DEF Restart, storeVars, clusterVars
  <1>2. transition' \in BOOLEAN
    BY DEF Restart
  <1>3. /\ TypeOK /\ at \in [Servers -> Nat] /\ \A t \in Servers : at[t] <= Len(ledger)
        /\ faults' \in Nat /\ \A t \in Servers : at[t] <= at[t]
    <2>1. TypeOK
      BY DEF SettledInv
    <2>2. at \in [Servers -> Nat] /\ faults \in Nat
      BY <2>1 DEF TypeOK
    <2>3. \A t \in Servers : at[t] <= Len(ledger)
      BY DEF SettledInv
    <2>. QED BY <1>1, <2>1, <2>2, <2>3
  <1>4. LiveFresh' /\ PassSound'
    BY <1>1 DEF LiveFresh, PassSound
  <1>5. live' \in [Servers -> {None} \cup [version : Nat, verified : Nat, applied : Nat]]
    BY <1>1
  <1>. QED
    BY <1>1, <1>2, <1>3, <1>4, <1>5, StoreQuiet DEF TypeOK

-----------------------------------------------------------------------------
(* What a server answers *)

LEMMA HistoryOf ==
    ASSUME SettledInv, NEW s \in Servers \ Strays
    PROVE  /\ History(s) = Prefix(ledger, at[s]) /\ at[s] \in Nat /\ at[s] <= Len(ledger)
           /\ ledger \in Seq(RowSet) /\ History(s) \in Seq(RowSet) /\ Len(History(s)) = at[s]
           /\ \A i \in 1..Len(History(s)) : ledger[i] = History(s)[i]
  <1>1. at[s] \in Nat /\ at[s] <= Len(ledger) /\ ledger \in Seq(RowSet)
    BY DEF SettledInv, TypeOK
  <1>2. History(s) = Prefix(ledger, at[s])
    BY DEF History
  <1>. QED
    BY <1>1, <1>2, PrefixType

LEMMA PageTruth ==
    ASSUME SettledInv, NEW s \in Servers, NEW e \in RangeEnd(s, ReplicaHead)
    PROVE  SoundReply(Page(s, ReplicaHead, e), s)
  <1>. DEFINE p == Page(s, ReplicaHead, e)
  <1>1. p.kind = "page" /\ p.signer = s /\ p.generation = Generation(s)
    BY DEF Page
  <1>2. CASE s \in Strays
    BY <1>1, <1>2 DEF SoundReply, Generation
  <1>3. CASE s \notin Strays
    <2>1. ReplicaHead \in Nat /\ since[s] <= at[s] /\ since[s] \in Nat
      BY DEF SettledInv, TypeOK, ReplicaHead
    <2>. DEFINE h == History(s)
    <2>2. /\ at[s] \in Nat /\ at[s] <= Len(ledger)
          /\ ledger \in Seq(RowSet) /\ h \in Seq(RowSet) /\ Len(h) = at[s]
          /\ \A i \in 1..Len(h) : ledger[i] = h[i]
      BY <1>3, HistoryOf
    <2>3. e \in Nat /\ ReplicaHead + 1 <= e /\ e <= Len(h)
      BY <2>1, <2>2, SettledConstants DEF RangeEnd
    <2>. HIDE DEF h
    <2>4. SubSeq(ledger, ReplicaHead + 1, e) = SubSeq(h, ReplicaHead + 1, e)
      BY <2>1, <2>2, <2>3, SliceKept
    <2>5. /\ p.from = ReplicaHead + 1 /\ p.to = e /\ p.applied = Len(h)
          /\ p.results = SubSeq(h, ReplicaHead + 1, e)
      BY DEF Page, h
    <2>. HIDE DEF p
    <2>. QED
      BY <1>1, <2>1, <2>2, <2>3, <2>4, <2>5 DEF SoundReply, p
  <1>. QED
    BY <1>2, <1>3

LEMMA AcknowledgementTruth ==
    ASSUME SettledInv, NEW s \in Servers
    PROVE  SoundReply(AcknowledgementReply(s, ReplicaHead), s)
  <1>. DEFINE k == AcknowledgementReply(s, ReplicaHead)
  <1>1. CASE k.kind # "ack"
    <2>1. k.kind = "refused"
      BY <1>1 DEF AcknowledgementReply
    <2>. QED
      BY <2>1 DEF SoundReply
  <1>2. CASE k.kind = "ack"
    <2>1. /\ k.signer = s /\ k.generation = Generation(s) /\ k.index = ReplicaHead
          /\ k.heads = History(s) /\ Len(History(s)) = ReplicaHead
      BY <1>2 DEF AcknowledgementReply
    <2>2. CASE s \in Strays
      BY <1>2, <2>1, <2>2 DEF SoundReply, Generation
    <2>3. CASE s \notin Strays
      <3>1. since[s] <= at[s]
        BY DEF SettledInv
      <3>2. ReplicaHead = at[s] /\ History(s) = Prefix(ledger, at[s]) /\ at[s] \in Nat /\ at[s] <= Len(ledger)
        BY <2>1, <2>3, HistoryOf
      <3>. HIDE DEF k
      <3>. QED
        BY <1>2, <2>1, <3>1, <3>2 DEF SoundReply, k
    <2>. QED
      BY <2>2, <2>3
  <1>. QED
    BY <1>1, <1>2

LEMMA RootTruth ==
    ASSUME SettledInv, NEW s \in Servers, NEW cut \in SnapshotCuts(s)
    PROVE  SoundReply(SnapshotRoot(s, cut), s)
  <1>. DEFINE r == SnapshotRoot(s, cut)
  <1>1. /\ r.kind = "root" /\ r.generation = Generation(s) /\ r.cut = cut
        /\ r.heads = Prefix(History(s), cut)
    BY DEF SnapshotRoot
  <1>. HIDE DEF r
  <1>2. CASE s \in Strays
    BY <1>1, <1>2 DEF SoundReply, Generation, r
  <1>3. CASE s \notin Strays
    <2>1. /\ History(s) = Prefix(ledger, at[s]) /\ at[s] \in Nat /\ at[s] <= Len(ledger)
          /\ ledger \in Seq(RowSet) /\ Len(History(s)) = at[s]
      BY <1>3, HistoryOf
    <2>2. cut \in Nat /\ cut <= at[s]
      BY <2>1 DEF SnapshotCuts
    <2>3. Prefix(History(s), cut) = Prefix(ledger, cut)
      BY <2>1, <2>2, PrefixOfPrefix
    <2>. QED
      BY <1>1, <2>1, <2>2, <2>3 DEF SoundReply, r
  <1>. QED
    BY <1>2, <1>3

LEMMA ReplyTruth ==
    ASSUME SettledInv, NEW s \in Servers, NEW stage \in {"ask", "ack", "root"}, NEW r \in Reply(stage, s)
    PROVE  SoundReply(r, s)
  <1>0. \A q : q.kind \in {"refused", "unavailable", "snapshot"} => SoundReply(q, s)
    BY DEF SoundReply
  <1>1. CASE stage = "ask"
    <2>1. r = ReplicationReply(s, ReplicaHead)
      BY <1>1 DEF Reply
    <2>2. CASE r.kind \in {"refused", "unavailable", "snapshot"}
      BY <1>0, <2>2
    <2>3. CASE r.kind \notin {"refused", "unavailable", "snapshot"}
      <3>1. PICK e \in RangeEnd(s, ReplicaHead) : r = Page(s, ReplicaHead, e)
        BY <2>1, <2>3 DEF ReplicationReply
      <3>. QED
        BY <3>1, PageTruth
    <2>. QED
      BY <2>2, <2>3
  <1>2. CASE stage = "ack"
    BY <1>2, AcknowledgementTruth DEF Reply
  <1>3. CASE stage = "root"
    <2>1. r \in SnapshotReply(s)
      BY <1>3 DEF Reply
    <2>2. r.kind = "refused" \/ \E cut \in SnapshotCuts(s) : r = SnapshotRoot(s, cut)
      BY <2>1 DEF SnapshotReply
    <2>. QED
      BY <1>0, <2>2, RootTruth
  <1>. QED
    BY <1>1, <1>2, <1>3

\* Steps of a pass that only move it on: the answer arrives, another request is made, or
\* the pass ends.
LEMMA PassStepSound ==
    ASSUME SettledInv, Answer \/ AskAcknowledgement \/ AskSnapshot \/ EndPass
    PROVE  SettledInv'
  <1>1. UNCHANGED <<plan, ledger, at, hist, base, attested, acks, marker, live, transition,
                    waited, since, faults>>
    BY DEF Answer, AskAcknowledgement, AskSnapshot, EndPass, storeVars, clusterVars
  <1>2. /\ TypeOK /\ LiveFresh /\ PassSound
        /\ \A t \in Servers : since[t] <= at[t] /\ at[t] <= Len(ledger)
    BY DEF SettledInv
  <1>3. LiveFresh'
    BY <1>1, <1>2 DEF LiveFresh
  <1>4. /\ pass' # None => /\ pass'.relay \in Servers /\ pass'.stage \in {"ask", "ack", "root"}
                           /\ pass'.installed \in BOOLEAN
        /\ PassSound'
    <2>1. CASE Answer
      <3>1. pass # None /\ pass.relay \in Servers /\ pass.stage \in {"ask", "ack", "root"} /\ pass.installed \in BOOLEAN
        BY <1>2, <2>1 DEF Answer, TypeOK
      <3>2. PICK r \in Reply(pass.stage, pass.relay) : pass' = [pass EXCEPT !.reply = r]
        BY <2>1 DEF Answer
      <3>3. SoundReply(r, pass.relay)
        BY <3>1, ReplyTruth
      <3>4. /\ pass'.relay = pass.relay /\ pass'.stage = pass.stage /\ pass'.installed = pass.installed
            /\ pass'.reply = r
        BY <3>2
      <3>5. SoundReply(pass.reply, pass.relay)'
        BY <1>1, <3>3, <3>4 DEF SoundReply
      <3>. QED
        BY <3>1, <3>4, <3>5 DEF PassSound
    <2>2. CASE AskAcknowledgement
      BY <1>2, <2>2 DEF AskAcknowledgement, Answered, Ask, TypeOK, PassSound
    <2>3. CASE AskSnapshot
      BY <1>2, <2>3 DEF AskSnapshot, Answered, Ask, TypeOK, PassSound
    <2>4. CASE EndPass
      BY <2>4 DEF EndPass, PassSound
    <2>. QED
      BY <2>1, <2>2, <2>3, <2>4
  <1>. QED
    BY <1>1, <1>2, <1>3, <1>4, StoreQuiet DEF TypeOK

-----------------------------------------------------------------------------
(* What the replica does with an answer *)

\* recordLiveReplicationObservation keeps one of two observations, both fresh.
LEMMA ObserveSound ==
    ASSUME SettledInv, NEW s \in Servers, NEW o \in [version : Nat, verified : Nat, applied : Nat],
           since[s] <= o.applied, UNCHANGED since, live' = Observe(s, o)
    PROVE  /\ live' \in [Servers -> {None} \cup [version : Nat, verified : Nat, applied : Nat]]
           /\ LiveFresh'
  <1>1. /\ live \in [Servers -> {None} \cup [version : Nat, verified : Nat, applied : Nat]]
        /\ LiveFresh
    BY DEF SettledInv, TypeOK
  <1>2. live' = live \/ live' = [live EXCEPT ![s] = o]
    BY DEF Observe
  <1>3. CASE live' = live
    BY <1>1, <1>3 DEF LiveFresh
  <1>4. CASE live' = [live EXCEPT ![s] = o]
    <2>1. live'[s] = o /\ \A t \in Servers \ {s} : live'[t] = live[t]
      BY <1>1, <1>4
    <2>. QED
      BY <1>1, <1>4, <2>1 DEF LiveFresh
  <1>. QED
    BY <1>2, <1>3, <1>4

LEMMA ObserveAcknowledgementSound ==
    ASSUME SettledInv, ObserveAcknowledgement
    PROVE  SettledInv'
  <1>. DEFINE k == pass.reply
              row == [signer |-> k.signer, version |-> k.version, index |-> k.index]
              o == [version |-> k.version, verified |-> k.index, applied |-> k.index]
  <1>1. /\ TypeOK /\ hist \in Seq(RowSet) /\ ledger \in Seq(RowSet) /\ HistoryIsProven
        /\ ReplicaHead = Len(hist) /\ Len(hist) \in Nat
    BY DEF SettledInv, TypeOK, ReplicaHead
  <1>2. /\ UNCHANGED <<plan, ledger, at, hist, base, attested, marker, transition, waited, since, faults>>
        /\ live' = Observe(k.signer, o) /\ pass' = None
        /\ Acknowledges(k)
    BY DEF ObserveAcknowledgement, StoreAcknowledged, clusterVars
  <1>3. pass # None /\ pass.reply # None /\ k.kind = "ack" /\ k.generation = 0
    BY DEF ObserveAcknowledgement, Answered, Acknowledges
  <1>4. /\ k.signer = pass.relay /\ pass.relay \in Servers
        /\ k.index \in Nat /\ k.index <= Len(ledger)
        /\ k.heads = Prefix(ledger, k.index) /\ since[k.signer] <= k.index
    BY <1>1, <1>3 DEF SettledInv, PassSound, SoundReply, TypeOK
  <1>5. k.index = ReplicaHead
    <2>1. Len(Prefix(ledger, k.index)) = k.index
      BY <1>1, <1>4, PrefixType
    <2>. QED
      BY <1>1, <1>2, <1>4, <2>1 DEF Acknowledges
  <1>6. k.version \in Nat /\ k.version = Rows(hist).version /\ Authorized(hist, k.signer)
    <2>1. Rows(hist) \in RowSet
      BY <1>1, RowsType
    <2>. QED
      BY <1>2, <2>1 DEF Acknowledges, RowSet
  <1>7. /\ row \in [signer : Servers, version : Nat, index : Nat]
        /\ o \in [version : Nat, verified : Nat, applied : Nat] /\ o.applied = k.index
    BY <1>4, <1>6
  <1>8. acks' \subseteq acks \cup {row}
    BY DEF ObserveAcknowledgement, StoreAcknowledged
  <1>9. row.signer = k.signer /\ row.index = ReplicaHead
    BY <1>5
  <1>. HIDE DEF row, o, k
  <1>10. acks' \subseteq [signer : Servers, version : Nat, index : Nat]
    BY <1>1, <1>7, <1>8 DEF TypeOK
  <1>11. /\ live' \in [Servers -> {None} \cup [version : Nat, verified : Nat, applied : Nat]]
         /\ LiveFresh'
    <2>1. since[k.signer] <= o.applied
      BY <1>4, <1>7
    <2>. QED
      BY <1>2, <1>4, <1>7, <2>1, ObserveSound
  <1>12. \A j \in acks' : Authorized(Prefix(hist, j.index), j.signer) /\ j.index <= ReplicaHead
    <2>1. Prefix(hist, ReplicaHead) = hist
      BY <1>1, SubSeqFull DEF Prefix
    <2>2. Authorized(Prefix(hist, row.index), row.signer) /\ row.index <= ReplicaHead
      BY <1>1, <1>6, <1>9, <2>1
    <2>3. \A j \in acks : Authorized(Prefix(hist, j.index), j.signer) /\ j.index <= ReplicaHead
      BY DEF SettledInv, HistoryIsProven, EvidenceVerifies
    <2>. QED
      BY <1>8, <2>2, <2>3
  <1>13. HistoryIsProven'
    BY <1>1, <1>2, <1>12 DEF HistoryIsProven, EvidenceVerifies, ReplicaHead
  <1>14. TypeOK'
    BY <1>1, <1>2, <1>10, <1>11 DEF TypeOK
  <1>15. PassSound'
    BY <1>2 DEF PassSound
  <1>. QED
    BY <1>2, <1>11, <1>12, <1>13, <1>14, <1>15 DEF SettledInv, ReplicaHead

\* The results of a page, appended to the history it was cut for, reach its end.
LEMMA PageExtends ==
    ASSUME NEW l \in Seq(RowSet), NEW h \in Seq(RowSet), Len(h) <= Len(l), h = Prefix(l, Len(h)),
           NEW to \in Nat, Len(h) + 1 <= to, to <= Len(l)
    PROVE  /\ h \o SubSeq(l, Len(h) + 1, to) = Prefix(l, to)
           /\ Prefix(l, to) \in Seq(RowSet) /\ Len(Prefix(l, to)) = to
           /\ \A n \in Nat : n <= Len(h) => Prefix(Prefix(l, to), n) = Prefix(h, n)
  <1>1. Len(h) \in Nat /\ Len(l) \in Nat
    OBVIOUS
  <1>2. SubSeq(l, 1, Len(h)) \o SubSeq(l, Len(h) + 1, to) = SubSeq(l, 1, to)
    <2>1. 1 \in 1..Len(l)+1 /\ Len(h) \in 1-1..Len(l) /\ to \in Len(h)..Len(l)
      BY <1>1
    <2>. QED
      BY <2>1, ConcatAdjacentSubSeq
  <1>3. Prefix(l, to) \in Seq(RowSet) /\ Len(Prefix(l, to)) = to
    BY PrefixType
  <1>4. ASSUME NEW n \in Nat, n <= Len(h)
        PROVE  Prefix(Prefix(l, to), n) = Prefix(h, n)
    <2>1. Prefix(Prefix(l, to), n) = Prefix(l, n)
      BY <1>1, <1>4, PrefixOfPrefix
    <2>2. Prefix(Prefix(l, Len(h)), n) = Prefix(l, n)
      BY <1>1, <1>4, PrefixOfPrefix
    <2>. QED
      BY <2>1, <2>2
  <1>. QED
    BY <1>2, <1>3, <1>4 DEF Prefix

\* One more attestation, for exactly the results that were appended.
LEMMA EvidenceExtends ==
    ASSUME SettledInv, NEW row \in [signer : Servers, version : Nat, from : Nat, to : Nat, applied : Nat],
           row.from = ReplicaHead + 1, row.from <= row.to, row.to <= Len(ledger),
           hist' = Prefix(ledger, row.to), attested' = attested \cup {row},
           UNCHANGED <<base, acks>>,
           Authorized(hist', row.signer), row.version = Rows(hist').version
    PROVE  EvidenceVerifies' /\ ReplicaHead' = row.to /\ hist' \in Seq(RowSet)
  <1>1. /\ hist \in Seq(RowSet) /\ ledger \in Seq(RowSet) /\ Len(hist) \in Nat /\ base \in Nat
        /\ ReplicaHead = Len(hist) /\ Len(hist) <= Len(ledger) /\ hist = Prefix(ledger, Len(hist))
        /\ attested \subseteq [signer : Servers, version : Nat, from : Nat, to : Nat, applied : Nat]
        /\ acks \subseteq [signer : Servers, version : Nat, index : Nat]
    BY DEF SettledInv, TypeOK, HistoryIsProven, ReplicaHead
  <1>2. /\ base <= Len(hist)
        /\ \A i \in (base + 1)..Len(hist) : Cardinality({a \in attested : a.from <= i /\ i <= a.to}) = 1
        /\ \A a \in attested : /\ base < a.from /\ a.to <= Len(hist)
                               /\ Authorized(Prefix(hist, a.to), a.signer)
                               /\ a.version = Rows(Prefix(hist, a.to)).version
        /\ \A k \in acks : Authorized(Prefix(hist, k.index), k.signer) /\ k.index <= Len(hist)
    BY DEF SettledInv, HistoryIsProven, EvidenceVerifies, ReplicaHead
  <1>3. /\ hist' \in Seq(RowSet) /\ Len(hist') = row.to /\ ReplicaHead' = row.to
        /\ \A n \in Nat : n <= Len(hist) => Prefix(hist', n) = Prefix(hist, n)
    BY <1>1, PageExtends DEF ReplicaHead
  <1>4. row.to \in Nat /\ row.from = Len(hist) + 1 /\ Prefix(hist', row.to) = hist'
    BY <1>1, <1>3, SubSeqFull DEF Prefix
  <1>5. ASSUME NEW i \in (base + 1)..row.to
        PROVE  Cardinality({a \in attested' : a.from <= i /\ i <= a.to}) = 1
    <2>1. CASE i <= Len(hist)
      <3>1. {a \in attested' : a.from <= i /\ i <= a.to} = {a \in attested : a.from <= i /\ i <= a.to}
        BY <1>1, <1>4, <2>1
      <3>2. i \in (base + 1)..Len(hist)
        BY <1>1, <2>1
      <3>. QED
        BY <1>2, <3>1, <3>2
    <2>2. CASE i > Len(hist)
      <3>1. {a \in attested' : a.from <= i /\ i <= a.to} = {row}
        <4>1. \A a \in attested : ~(i <= a.to)
          BY <1>1, <1>2, <2>2
        <4>2. row.from <= i /\ i <= row.to
          BY <1>1, <1>4, <2>2
        <4>. QED
          BY <4>1, <4>2
      <3>. QED
        BY <3>1, FS_Singleton
    <2>. QED
      BY <1>1, <2>1, <2>2
  <1>6. ASSUME NEW a \in attested'
        PROVE  /\ base < a.from /\ a.to <= row.to
               /\ Authorized(Prefix(hist', a.to), a.signer)
               /\ a.version = Rows(Prefix(hist', a.to)).version
    <2>1. CASE a \in attested
      <3>1. a.to \in Nat /\ a.to <= Len(hist)
        BY <1>1, <1>2, <2>1
      <3>2. Prefix(hist', a.to) = Prefix(hist, a.to)
        BY <1>3, <3>1
      <3>. QED
        BY <1>1, <1>2, <1>4, <2>1, <3>1, <3>2
    <2>2. CASE a = row
      BY <1>1, <1>2, <1>4, <2>2
    <2>. QED
      BY <2>1, <2>2
  <1>7. \A k \in acks' : Authorized(Prefix(hist', k.index), k.signer)
    BY <1>1, <1>2, <1>3
  <1>8. base' <= row.to
    BY <1>1, <1>2, <1>4
  <1>. QED
    BY <1>3, <1>5, <1>6, <1>7, <1>8 DEF EvidenceVerifies

LEMMA ImportResultBatchSound ==
    ASSUME SettledInv, ImportResultBatch
    PROVE  SettledInv'
  <1>. DEFINE p == pass.reply
              row == Attestation(p)
              o == [version |-> p.version, verified |-> p.to, applied |-> p.applied]
  <1>1. /\ TypeOK /\ hist \in Seq(RowSet) /\ ledger \in Seq(RowSet)
        /\ ReplicaHead = Len(hist) /\ Len(hist) \in Nat
        /\ Len(hist) <= Len(ledger) /\ hist = Prefix(ledger, Len(hist))
    BY DEF SettledInv, TypeOK, ReplicaHead, HistoryIsProven
  <1>2. /\ UNCHANGED <<plan, ledger, at, base, acks, marker, waited, since, faults>>
        /\ live' = Observe(p.signer, o)
        /\ Replays(p) /\ hist' = hist \o p.results /\ attested' = attested \cup {row}
        /\ pass' = None \/ pass' = [pass EXCEPT !.stage = "ask", !.reply = None]
    BY DEF ImportResultBatch, StorePage, clusterVars, Ask
  <1>3. pass # None /\ pass.reply # None /\ p.kind = "page" /\ p.generation = 0
    BY DEF ImportResultBatch, Answered, Replays
  <1>4. /\ p.signer = pass.relay /\ pass.relay \in Servers /\ pass.installed \in BOOLEAN
        /\ p.from \in Nat \ {0} /\ p.to \in Nat /\ p.applied \in Nat
        /\ p.from <= p.to /\ p.to <= Len(ledger)
        /\ p.results = SubSeq(ledger, p.from, p.to)
        /\ since[p.signer] <= p.applied
    BY <1>1, <1>3 DEF SettledInv, PassSound, SoundReply, TypeOK
  <1>5. p.from = Len(hist) + 1
    BY <1>1, <1>2 DEF Replays
  <1>6. /\ hist' = Prefix(ledger, p.to) /\ hist' \in Seq(RowSet) /\ Len(hist') = p.to
    <2>1. Len(hist) + 1 <= p.to
      BY <1>1, <1>4, <1>5
    <2>2. hist' = hist \o SubSeq(ledger, Len(hist) + 1, p.to)
      BY <1>2, <1>4, <1>5
    <2>3. p.to \in Nat /\ p.to <= Len(ledger)
      BY <1>4
    <2>. HIDE DEF p
    <2>4. /\ hist \o SubSeq(ledger, Len(hist) + 1, p.to) = Prefix(ledger, p.to)
          /\ Prefix(ledger, p.to) \in Seq(RowSet) /\ Len(Prefix(ledger, p.to)) = p.to
      BY <1>1, <2>1, <2>3, PageExtends
    <2>. QED
      BY <2>2, <2>4
  <1>7. /\ Authorized(hist', p.signer) /\ p.version = Rows(hist').version
        /\ p.version \in Nat
    <2>1. Rows(hist') \in RowSet
      BY <1>6, RowsType
    <2>3. Rows(hist').version \in Nat
      BY <2>1 DEF RowSet
    <2>2. p.version = Rows(hist').version /\ Authorized(hist', p.signer)
      BY <1>2 DEF Replays
    <2>. QED
      BY <2>2, <2>3
  <1>8. /\ row \in [signer : Servers, version : Nat, from : Nat, to : Nat, applied : Nat]
        /\ row.signer = p.signer /\ row.version = p.version /\ row.from = p.from /\ row.to = p.to
        /\ o \in [version : Nat, verified : Nat, applied : Nat] /\ o.applied = p.applied
    BY <1>4, <1>7 DEF Attestation
  <1>. HIDE DEF p, row, o
  <1>9. EvidenceVerifies' /\ ReplicaHead' = p.to
    BY <1>1, <1>2, <1>4, <1>5, <1>6, <1>7, <1>8, EvidenceExtends
  <1>10. HistoryIsProven'
    BY <1>2, <1>4, <1>6, <1>9 DEF HistoryIsProven
  <1>11. /\ live' \in [Servers -> {None} \cup [version : Nat, verified : Nat, applied : Nat]]
         /\ LiveFresh'
    BY <1>2, <1>4, <1>8, ObserveSound
  <1>12. transition' \in BOOLEAN
    BY DEF ImportResultBatch, TransitionAfter
  <1>13. /\ pass' # None => /\ pass'.relay \in Servers /\ pass'.stage \in {"ask", "ack", "root"}
                            /\ pass'.installed \in BOOLEAN
         /\ PassSound'
    <2>1. CASE pass' = None
      BY <2>1 DEF PassSound
    <2>2. CASE pass' = [pass EXCEPT !.stage = "ask", !.reply = None]
      BY <1>3, <1>4, <2>2 DEF PassSound, TypeOK
    <2>. QED
      BY <1>2, <2>1, <2>2
  <1>14. TypeOK'
    <2>1. attested' \subseteq [signer : Servers, version : Nat, from : Nat, to : Nat, applied : Nat]
      BY <1>1, <1>2, <1>8 DEF TypeOK
    <2>. QED
      BY <1>1, <1>2, <1>6, <1>11, <1>12, <1>13, <2>1 DEF TypeOK
  <1>15. \A k \in acks' : k.index <= ReplicaHead'
    <2>1. \A k \in acks : k.index \in Nat /\ k.index <= Len(hist)
      BY <1>1 DEF SettledInv, TypeOK
    <2>. QED
      BY <1>1, <1>2, <1>4, <1>5, <1>9, <2>1
  <1>. QED
    BY <1>2, <1>10, <1>11, <1>13, <1>14, <1>15 DEF SettledInv

LEMMA InstallLogicalSnapshotSound ==
    ASSUME SettledInv, InstallLogicalSnapshot
    PROVE  SettledInv'
  <1>. DEFINE r == pass.reply
  <1>1. TypeOK /\ ledger \in Seq(RowSet)
    BY DEF SettledInv, TypeOK
  <1>2. /\ UNCHANGED <<plan, ledger, at, marker, waited, since, faults>>
        /\ hist' = r.heads /\ base' = r.cut /\ attested' = {} /\ acks' = {}
        /\ live' = [s \in Servers |-> None]
        /\ pass' = [pass EXCEPT !.stage = "ask", !.reply = None, !.installed = TRUE]
    BY DEF InstallLogicalSnapshot, StoreSnapshot, Baseline, clusterVars
  <1>3. pass # None /\ pass.reply # None /\ r.kind = "root" /\ r.generation = 0
    BY DEF InstallLogicalSnapshot, Answered, Installable, Preflight
  <1>4. r.cut \in Nat /\ r.cut <= Len(ledger) /\ r.heads = Prefix(ledger, r.cut) /\ pass.relay \in Servers
    BY <1>1, <1>3 DEF SettledInv, PassSound, SoundReply, TypeOK
  <1>5. hist' \in Seq(RowSet) /\ Len(hist') = r.cut /\ hist' = Prefix(ledger, r.cut)
    BY <1>1, <1>2, <1>4, PrefixType
  <1>. HIDE DEF r
  <1>6. EvidenceVerifies'
    BY <1>2, <1>4, <1>5 DEF EvidenceVerifies, ReplicaHead
  <1>7. HistoryIsProven'
    BY <1>2, <1>4, <1>5, <1>6 DEF HistoryIsProven, ReplicaHead
  <1>8. LiveFresh' /\ live' \in [Servers -> {None} \cup [version : Nat, verified : Nat, applied : Nat]]
    BY <1>2 DEF LiveFresh
  <1>9. /\ pass'.relay \in Servers /\ pass'.stage \in {"ask", "ack", "root"} /\ pass'.installed \in BOOLEAN
        /\ PassSound'
    BY <1>2, <1>4 DEF PassSound
  <1>10. transition' \in BOOLEAN
    BY DEF InstallLogicalSnapshot, TransitionAfter
  <1>11. TypeOK'
    BY <1>1, <1>2, <1>4, <1>5, <1>8, <1>9, <1>10 DEF TypeOK
  <1>. QED
    BY <1>2, <1>7, <1>8, <1>9, <1>11 DEF SettledInv

LEMMA RecoverySound ==
    ASSUME SettledInv, AwaitCurrent \/ ClearMarker
    PROVE  SettledInv'
  <1>1. /\ UNCHANGED <<plan, ledger, at, hist, base, attested, acks, live, transition, pass, since, faults>>
        /\ marker' \in BOOLEAN /\ waited' \in BOOLEAN
    <2>1. TypeOK
      BY DEF SettledInv
    <2>2. CASE AwaitCurrent
      BY <2>1, <2>2 DEF AwaitCurrent, storeVars, clusterVars, TypeOK
    <2>3. CASE ClearMarker
      BY <2>1, <2>3 DEF ClearMarker, memoryVars, clusterVars, TypeOK
    <2>. QED
      BY <2>2, <2>3
  <1>2. /\ TypeOK /\ LiveFresh /\ PassSound
        /\ \A t \in Servers : since[t] <= at[t] /\ at[t] <= Len(ledger)
    BY DEF SettledInv
  <1>3. LiveFresh' /\ PassSound'
    BY <1>1, <1>2 DEF LiveFresh, PassSound, SoundReply
  <1>. QED
    BY <1>1, <1>2, <1>3, StoreQuiet DEF TypeOK

LEMMA StepSettled == SettledInv /\ [Next]_vars => SettledInv'
  <1>. SUFFICES ASSUME SettledInv, [Next]_vars PROVE SettledInv'
    OBVIOUS
  <1>1. CASE UNCHANGED vars
    <2>1. UNCHANGED <<plan, ledger, at, hist, base, attested, acks, marker, live, transition, waited,
                      pass, since, faults>>
      BY <1>1 DEF vars, clusterVars, storeVars, memoryVars
    <2>2. /\ TypeOK /\ LiveFresh /\ PassSound
          /\ \A t \in Servers : since[t] <= at[t] /\ at[t] <= Len(ledger)
      BY DEF SettledInv
    <2>3. LiveFresh' /\ PassSound'
      BY <2>1, <2>2 DEF LiveFresh, PassSound, SoundReply
    <2>. QED
      BY <2>1, <2>2, <2>3, StoreQuiet DEF TypeOK
  <1>2. CASE CommitNext
    BY <1>2, CommitSound
  <1>3. ASSUME NEW s \in Servers, ApplyNext(s) \/ StartSync(s) \/ Disconnect(s) PROVE SettledInv'
    BY <1>3, ApplyNextSound, StartSyncSound, DisconnectSound
  <1>4. CASE Answer \/ AskAcknowledgement \/ AskSnapshot \/ EndPass
    BY <1>4, PassStepSound
  <1>5. CASE ImportResultBatch
    BY <1>5, ImportResultBatchSound
  <1>6. CASE ObserveAcknowledgement
    BY <1>6, ObserveAcknowledgementSound
  <1>7. CASE InstallLogicalSnapshot
    BY <1>7, InstallLogicalSnapshotSound
  <1>8. CASE AwaitCurrent \/ ClearMarker
    BY <1>8, RecoverySound
  <1>9. ASSUME NEW x \in Sessions, NEW m \in Servers, CrashReap(x, m) PROVE SettledInv'
    BY <1>9, CrashReapSound
  <1>10. CASE Restart
    BY <1>10, RestartSound
  <1>. QED
    BY <1>1, <1>2, <1>3, <1>4, <1>5, <1>6, <1>7, <1>8, <1>9, <1>10 DEF Next

THEOREM SettledInvariant == Spec => []SettledInv
  BY InitSettled, StepSettled, PTL DEF Spec

\* The state of the cluster, the store and the process keep their types.
THEOREM SettledTypeCorrect == Spec => []TypeOK
  <1>1. SettledInv => TypeOK
    BY DEF SettledInv
  <1>. QED
    BY <1>1, SettledInvariant, PTL

LEMMA CurrentSound == SettledInv => CurrentIsFresh
  <1>. SUFFICES ASSUME SettledInv, Currency = "current", NEW m \in Rows(hist).voters
                PROVE  since[m] <= ReplicaHead
    BY DEF CurrentIsFresh
  <1>1. m \in Servers /\ live[m] # None /\ live[m].applied = ReplicaHead
    BY DEF Currency, ObservedAtHead
  <1>. QED
    BY <1>1 DEF SettledInv, LiveFresh

\* Whatever servers of either generation answer, in whatever order and however late,
\* the replica imports only results its own generation committed, keeps evidence that the
\* next start accepts, and calls itself current only on what live links told it.
THEOREM ReplicaIsSound == Spec => []ReplicaSound
  <1>1. SettledInv => ReplicaSound
    BY CurrentSound DEF SettledInv, ReplicaSound
  <1>. QED
    BY <1>1, SettledInvariant, PTL

\* The rebootstrap marker is cleared only by a fenced rescan that finds no open session,
\* by a replica that has caught up with every member of its authority.
THEOREM MarkerIsClearedSafely == Spec => MarkerClearedSafely
  <1>1. SettledInv /\ [Next]_vars =>
          (marker /\ ~marker' => /\ Rows(hist).open = {}
                                 /\ \A m \in Rows(hist).voters : since[m] <= ReplicaHead)
    <2>. SUFFICES ASSUME SettledInv, [Next]_vars, marker, ~marker'
                  PROVE  /\ Rows(hist).open = {}
                         /\ \A m \in Rows(hist).voters : since[m] <= ReplicaHead
      OBVIOUS
    <2>1. ClearMarker
      BY DEF Next, vars, CommitNext, ApplyNext, StartSync, Disconnect, Answer, AskAcknowledgement,
             AskSnapshot, EndPass, ImportResultBatch, StorePage, ObserveAcknowledgement,
             StoreAcknowledged, InstallLogicalSnapshot, StoreSnapshot, AwaitCurrent, CrashReap,
             Restart, storeVars
    <2>2. Currency = "current" /\ Rows(hist).open = {}
      BY <2>1 DEF ClearMarker, Fenced
    <2>. QED
      BY <2>2, CurrentSound DEF CurrentIsFresh
  <1>. QED
    BY <1>1, SettledInvariant, PTL DEF Spec, MarkerClearedSafely
=============================================================================
