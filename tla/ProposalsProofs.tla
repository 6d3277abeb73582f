-------------------------- MODULE ProposalsProofs --------------------------
(***************************************************************************)
(* Theorems about Proposals, for every set of replicas, events, bytes and  *)
(* requests, every bound and every order of elections, commits, deliveries,*)
(* forwards, failures and restarts.                                        *)
(*                                                                         *)
(* That replicas agree is not inductive: nothing in it says that the next  *)
(* result of a lagging replica is the one another already stored.  Replay  *)
(* says it: each stored result comes from a committed position whose       *)
(* earlier positions were all decided before it, and every position at or  *)
(* below the watermark is decided.                                         *)
(*                                                                         *)
(* That halts are explained rests on three more facts: terms never go back *)
(* in the log and every store binds exactly the positions it has applied   *)
(* (TermsOrdered, BindsLog), a forwarded result is the one every store     *)
(* gives (AwaitKept), and while all callers of an event are behind one     *)
(* replica, that replica guards the only bytes that may be decided         *)
(* (Reservation).                                                          *)
(***************************************************************************)
EXTENDS Proposals, WellFoundedInduction, TLAPS

StoredResults == [id : Ids, body : Bodies, accepted : BOOLEAN]

\* The log delivered since the last start is behind the durable watermark.
Covered ==
    \A n \in Nodes : applied[n] <= watermark[n].index /\ watermark[n].index <= Len(committed)

\* Result p of a history is what the reducer makes of position q of a log.
Reduced(h, log, p, q) ==
    h[p] = Reduce(SubSeq(h, 1, p - 1), log[q].id, log[q].body)

\* The events of the positions before q have results before p.
DecidedBefore(h, log, p, q) ==
    \A j \in 1..(q - 1) : \E i \in 1..(p - 1) : h[i].id = log[j].id

\* Every result comes from a committed position in this way.
FromLog ==
    \A n \in Nodes : \A p \in DOMAIN history[n] :
        \E q \in 1..watermark[n].index :
            /\ Reduced(history[n], committed, p, q)
            /\ DecidedBefore(history[n], committed, p, q)

\* Every position at or below the watermark has its result, with its bytes.
Complete ==
    \A n \in Nodes : \A j \in 1..watermark[n].index :
        \E p \in DOMAIN history[n] :
            history[n][p].id = committed[j].id /\ history[n][p].body = committed[j].body

Replay == Covered /\ FromLog /\ Complete

Inv == TypeOK /\ Replay /\ DecidedOnce /\ HistoriesAgree

\* What the invariant reads, apart from the types.
core == <<committed, applied, history, watermark>>

----------------------------------------------------------------------------
(* Looking up results *)

(* A decided event has a position, and its result has the right type        *)
(* (LookupCommandResult).                                                   *)
LEMMA LookupTyped ==
    ASSUME NEW h \in Seq(StoredResults), NEW id \in Ids, Decided(h, id)
    PROVE  /\ Position(h, id) \in DOMAIN h /\ h[Position(h, id)].id = id
           /\ Result(h, id) \in Results
           /\ \A b \in Bodies : Answer(h, id, b) \in Results
  <1>1. Position(h, id) \in DOMAIN h /\ h[Position(h, id)].id = id
    BY DEF Decided, Position
  <1>2. Position(h, id) \in Nat /\ h[Position(h, id)] \in StoredResults
    BY <1>1
  <1>3. Result(h, id) \in Results
    BY <1>1, <1>2 DEF Result, Results, StoredResults
  <1> QED BY <1>1, <1>3 DEF Answer, Results

(* When no event is decided twice, the position of a result is where it is. *)
LEMMA PositionUnique ==
    ASSUME NEW n \in Nodes, DecidedOnce, NEW k \in DOMAIN history[n]
    PROVE  Position(history[n], history[n][k].id) = k
  BY DEF DecidedOnce, Position

----------------------------------------------------------------------------
(* Steps that leave the store and the committed log alone                   *)

(* The invariant only moves with the log and the stores.                    *)
LEMMA CoreUnchanged ==
    ASSUME Inv, UNCHANGED core, TypeOK'
    PROVE  Inv'
  <1>1. committed' = committed /\ applied' = applied /\ history' = history
        /\ watermark' = watermark
    BY DEF core
  <1>2. Covered' BY <1>1 DEF Inv, Replay, Covered
  <1>3. FromLog' BY <1>1 DEF Inv, Replay, FromLog
  <1>4. Complete' BY <1>1 DEF Inv, Replay, Complete
  <1>5. DecidedOnce' /\ HistoriesAgree'
    BY <1>1 DEF Inv, DecidedOnce, HistoriesAgree
  <1> QED BY <1>2, <1>3, <1>4, <1>5 DEF Inv, Replay

(* Raft's own steps and the FSM's halt keep the types (haltNode).           *)
LEMMA RaftStep ==
    ASSUME TypeOK, NEW n \in Nodes,
           Elect(n) \/ Establish(n) \/ Heartbeat(n) \/ StepDown(n) \/ ApplyHalts(n)
    PROVE  TypeOK' /\ UNCHANGED core
  <1> USE DEF core, TypeOK, storeVars
  <1>1. CASE Elect(n)
    <2>1. term' \in Nat /\ leading' \in [Nodes -> Nat]
      BY <1>1 DEF Elect
    <2> QED BY <1>1, <2>1 DEF Elect
  <1>2. CASE Establish(n) BY <1>2 DEF Establish
  <1>3. CASE Heartbeat(n) BY <1>3 DEF Heartbeat
  <1>4. CASE StepDown(n) BY <1>4 DEF StepDown
  <1>5. CASE ApplyHalts(n) BY <1>5 DEF ApplyHalts, Halt
  <1> QED BY <1>1, <1>2, <1>3, <1>4, <1>5

(* A new flight and each of its stages is a flight (beginProposal).         *)
LEMMA FlightTyped ==
    ASSUME TypeOK, NEW n \in Nodes, NEW id \in Ids
    PROVE  /\ \A b \in Bodies, hop \in BOOLEAN : Open(n, id, b, hop) \in Flights
           /\ flight[n][id] # None => flight[n][id] \in Flights
           /\ \A f \in Flights, t \in Nat, r \in Results \cup {None},
                 s \in {"open", "raft", "forward", "await"} : Staged(f, s, t, r) \in Flights
  BY DEF TypeOK, Open, Staged, Flights

(* Ending a flight keeps the types of flights, reservations and calls       *)
(* (finishProposal).                                                        *)
LEMMA FailTyped ==
    ASSUME TypeOK, NEW n \in Nodes, NEW id \in Ids, flight[n][id] # None,
           NEW u \in BOOLEAN, NEW open \in SUBSET calls, Fail(n, id, u, open)
    PROVE  /\ flight' \in [Nodes -> [Ids -> Flights \cup {None}]]
           /\ reserved' \in [Nodes -> [Ids -> Bodies \cup {None}]]
           /\ calls' \subseteq Calls /\ told' \subseteq Results
  <1>1. flight[n][id].body \in Bodies
    BY FlightTyped DEF Flights
  <1>2. flight' \in [Nodes -> [Ids -> Flights \cup {None}]]
    BY DEF TypeOK, Fail
  <1>3. reserved' \in [Nodes -> [Ids -> Bodies \cup {None}]]
    BY <1>1 DEF TypeOK, Fail
  <1>4. calls' \subseteq Calls
    BY DEF TypeOK, Fail, Orphaned, CallBy, Calls
  <1> QED BY <1>2, <1>3, <1>4 DEF TypeOK, Fail

LEMMA SucceedTyped ==
    ASSUME TypeOK, NEW n \in Nodes, NEW id \in Ids, flight[n][id] # None,
           Decided(history[n], id), Succeed(n, id)
    PROVE  /\ flight' \in [Nodes -> [Ids -> Flights \cup {None}]]
           /\ reserved' \in [Nodes -> [Ids -> Bodies \cup {None}]]
           /\ calls' \subseteq Calls /\ told' \subseteq Results
  <1>1. flight[n][id].body \in Bodies
    BY FlightTyped DEF Flights
  <1>2. history[n] \in Seq(StoredResults)
    BY DEF TypeOK, StoredResults
  <1>3. Answer(history[n], id, flight[n][id].body) \in Results
    BY <1>1, <1>2, LookupTyped
  <1>4. calls' \subseteq Calls
    BY DEF TypeOK, Succeed, Orphaned, CallBy, Calls
  <1> QED BY <1>3, <1>4 DEF TypeOK, Succeed

(* Flights open, enqueue, are sent on and fail without touching a store     *)
(* (apply, resolveForwardedProposal).                                       *)
LEMMA FlightStep ==
    ASSUME TypeOK, NEW n \in Nodes, NEW id \in Ids,
           \/ \E b \in Bodies : Submit(n, id, b)
           \/ \E m \in Nodes : Forward(n, id, m)
           \/ Enqueue(n, id) \/ OpenFails(n, id) \/ ForwardFails(n, id)
    PROVE  TypeOK' /\ UNCHANGED core
  <1> USE DEF core, storeVars, raftVars
  <1>1. ASSUME NEW b \in Bodies, Submit(n, id, b) PROVE TypeOK' /\ UNCHANGED core
    <2>1. flight' \in [Nodes -> [Ids -> Flights \cup {None}]]
      BY <1>1, FlightTyped DEF Submit, TypeOK
    <2> QED BY <1>1, <2>1 DEF Submit, TypeOK
  <1>2. ASSUME NEW m \in Nodes, Forward(n, id, m) PROVE TypeOK' /\ UNCHANGED core
    <2>1. flight[n][id] \in Flights
      BY <1>2, FlightTyped DEF Forward, Running
    <2>2. flight' \in [Nodes -> [Ids -> Flights \cup {None}]]
      BY <1>2, <2>1, FlightTyped DEF Forward, TypeOK
    <2>a. flight[n][id].body \in Bodies
      BY <2>1 DEF Flights
    <2>b. [from |-> n, to |-> m, id |-> id, body |-> flight[n][id].body, served |-> FALSE]
            \in Calls
      BY <1>2, <2>a DEF Calls
    <2>3. calls' \subseteq Calls
      BY <1>2, <2>b DEF Forward, TypeOK
    <2> QED BY <1>2, <2>2, <2>3 DEF Forward, TypeOK
  <1>3. CASE Enqueue(n, id)
    <2>1. flight[n][id] \in Flights
      BY <1>3, FlightTyped DEF Enqueue, Running
    <2>2. leading[n] \in Nat
      BY DEF TypeOK
    <2>3. flight' \in [Nodes -> [Ids -> Flights \cup {None}]]
      BY <1>3, <2>1, <2>2, FlightTyped DEF Enqueue, TypeOK
    <2>4. pending' \subseteq Entries
      BY <1>3, <2>1, <2>2 DEF Enqueue, TypeOK, Entries, Flights
    <2> QED BY <1>3, <2>3, <2>4 DEF Enqueue, TypeOK
  <1>4. CASE OpenFails(n, id)
    <2>1. flight[n][id] # None /\ Fail(n, id, FALSE, calls)
      BY <1>4 DEF OpenFails, Running
    <2> QED BY <1>4, <2>1, FailTyped DEF OpenFails, TypeOK
  <1>5. CASE ForwardFails(n, id)
    <2>1. flight[n][id] # None /\ Fail(n, id, TRUE, calls)
      BY <1>5 DEF ForwardFails, Outstanding, Running
    <2> QED BY <1>5, <2>1, FailTyped DEF ForwardFails, TypeOK
  <1> QED BY <1>1, <1>2, <1>3, <1>4, <1>5

(* Calls are served, answered and refused without touching a store          *)
(* (ApplyForwardedProposal).                                                *)
LEMMA CallStep ==
    ASSUME TypeOK, NEW c \in calls, Serve(c) \/ Reply(c) \/ Refuse(c)
    PROVE  TypeOK' /\ UNCHANGED core
  <1> USE DEF core, storeVars, raftVars
  <1>0. /\ c \in Calls /\ c.to \in Nodes /\ c.id \in Ids /\ c.body \in Bodies
        /\ c.from \in Nodes \cup {None}
    BY DEF TypeOK, Calls
  <1>1. CASE Serve(c)
    <2>a. Open(c.to, c.id, c.body, FALSE) \in Flights
      BY <1>0, FlightTyped
    <2>d. \/ flight' = flight
          \/ flight' = [flight EXCEPT ![c.to][c.id] = Open(c.to, c.id, c.body, FALSE)]
      BY <1>1 DEF Serve
    <2>1. flight' \in [Nodes -> [Ids -> Flights \cup {None}]]
      <3>1. CASE flight' = flight
        BY <3>1 DEF TypeOK
      <3>2. CASE flight' = [flight EXCEPT ![c.to][c.id] = Open(c.to, c.id, c.body, FALSE)]
        BY <1>0, <2>a, <3>2 DEF TypeOK
      <3> QED BY <2>d, <3>1, <3>2
    <2>b. CallBy(c.from, c, TRUE) \in Calls
      BY <1>0 DEF CallBy, Calls
    <2>c. {CallBy(d.from, d, TRUE) : d \in {c} \ Abandoned} \subseteq {CallBy(c.from, c, TRUE)}
      OBVIOUS
    <2>2. calls' \subseteq Calls
      BY <1>1, <2>b, <2>c DEF Serve, TypeOK
    <2> QED BY <1>1, <2>1, <2>2 DEF Serve, TypeOK
  <1>2. CASE Reply(c)
    <2>1. c.from \in Nodes /\ flight[c.from][c.id] \in Flights
      BY <1>0, <1>2, FlightTyped DEF Reply, Running
    <2>2. history[c.to] \in Seq(StoredResults)
      BY <1>0 DEF TypeOK, StoredResults
    <2>3. Result(history[c.to], c.id) \in Results
      BY <1>0, <1>2, <2>2, LookupTyped DEF Reply, Found
    <2>4. Staged(flight[c.from][c.id], "await", 0, Result(history[c.to], c.id)) \in Flights
      BY <1>0, <2>1, <2>3, FlightTyped
    <2>5. flight' \in [Nodes -> [Ids -> Flights \cup {None}]]
      BY <1>0, <1>2, <2>1, <2>4 DEF Reply, TypeOK
    <2>6. calls' \subseteq Calls
      BY <1>2 DEF Reply, TypeOK
    <2> QED BY <1>2, <2>5, <2>6 DEF Reply, TypeOK
  <1>3. CASE Refuse(c)
    <2>1. /\ c.from \in Nodes /\ flight[c.from][c.id] # None
          /\ Fail(c.from, c.id, FALSE, calls \ {c})
      BY <1>0, <1>3 DEF Refuse, Running
    <2>2. calls \ {c} \in SUBSET calls
      OBVIOUS
    <2>3. /\ flight' \in [Nodes -> [Ids -> Flights \cup {None}]]
          /\ reserved' \in [Nodes -> [Ids -> Bodies \cup {None}]]
          /\ calls' \subseteq Calls /\ told' \subseteq Results
      BY <1>0, <2>1, <2>2, FailTyped
    <2> QED BY <1>3, <2>3 DEF Refuse, TypeOK
  <1> QED BY <1>1, <1>2, <1>3

(* Every answer is read from a store that holds it (resolveProposal,        *)
(* awaitForwardedProposalApply).                                            *)
LEMMA TellStep ==
    ASSUME Inv, NEW n \in Nodes, NEW id \in Ids,
           \/ \E b \in Bodies : SubmitDecided(n, id, b)
           \/ EnqueueLost(n, id) \/ ResolveApplied(n, id) \/ ResolveLost(n, id)
           \/ AwaitApplied(n, id)
    PROVE  TypeOK' /\ UNCHANGED core
  <1> USE DEF core, storeVars, raftVars
  <1>0. TypeOK BY DEF Inv
  <1>1. ASSUME NEW b \in Bodies, SubmitDecided(n, id, b) PROVE TypeOK' /\ UNCHANGED core
    <2>1. history[n] \in Seq(StoredResults)
      BY <1>0 DEF TypeOK, StoredResults
    <2>2. Answer(history[n], id, b) \in Results
      BY <1>1, <2>1, LookupTyped DEF SubmitDecided, Found
    <2>3. reserved' \in [Nodes -> [Ids -> Bodies \cup {None}]]
      BY <1>0, <1>1 DEF SubmitDecided, TypeOK
    <2> QED BY <1>0, <1>1, <2>2, <2>3 DEF SubmitDecided, TypeOK
  <1>2. CASE ResolveApplied(n, id)
    <2>1. PICK k \in 1..applied[n] :
            committed[k] = [term |-> flight[n][id].term, id |-> id, body |-> flight[n][id].body]
      BY <1>2 DEF ResolveApplied
    <2>2. k \in 1..watermark[n].index
      BY <1>0, <2>1 DEF TypeOK, Inv, Replay, Covered
    <2>3. Decided(history[n], id)
      BY <2>1, <2>2 DEF Inv, Replay, Complete, Decided
    <2>4. flight[n][id] # None /\ Succeed(n, id)
      BY <1>2 DEF ResolveApplied, Running
    <2> QED BY <1>0, <1>2, <2>3, <2>4, SucceedTyped DEF ResolveApplied, TypeOK
  <1>5. CASE EnqueueLost(n, id)
    <2>1. flight[n][id] # None /\ Decided(history[n], id) /\ Succeed(n, id)
      BY <1>5 DEF EnqueueLost, Running, Found
    <2> QED BY <1>0, <1>5, <2>1, SucceedTyped DEF EnqueueLost, TypeOK
  <1>3. CASE ResolveLost(n, id)
    <2>1. /\ flight[n][id] # None
          /\ \/ Decided(history[n], id) /\ Succeed(n, id)
             \/ Fail(n, id, TRUE, calls)
      BY <1>3 DEF ResolveLost, Running, Found
    <2> QED BY <1>0, <1>3, <2>1, SucceedTyped, FailTyped DEF ResolveLost, TypeOK
  <1>4. CASE AwaitApplied(n, id)
    <2>1. /\ flight[n][id] # None /\ Decided(history[n], id)
          /\ \/ Succeed(n, id) \/ \E u \in BOOLEAN : Fail(n, id, u, calls)
      BY <1>4 DEF AwaitApplied, Running, Found
    <2>2. /\ flight' \in [Nodes -> [Ids -> Flights \cup {None}]]
          /\ reserved' \in [Nodes -> [Ids -> Bodies \cup {None}]]
          /\ calls' \subseteq Calls /\ told' \subseteq Results
      BY <1>0, <2>1, SucceedTyped, FailTyped
    <2>a. UNCHANGED <<halted, leading>> \/ Halt(n)
      BY <1>4 DEF AwaitApplied
    <2>3. halted' \in [Nodes -> BOOLEAN] /\ leading' \in [Nodes -> Nat]
      <3>1. CASE UNCHANGED <<halted, leading>>
        BY <1>0, <3>1 DEF TypeOK
      <3>2. CASE Halt(n)
        BY <1>0, <3>2 DEF Halt, TypeOK
      <3> QED BY <2>a, <3>1, <3>2
    <2> QED BY <1>0, <1>4, <2>2, <2>3 DEF AwaitApplied, TypeOK
  <1> QED BY <1>1, <1>2, <1>3, <1>4, <1>5

(* A restart forgets everything but the log and the store (NewFSM).         *)
LEMMA RestartStep ==
    ASSUME Inv, NEW n \in Nodes, Restart(n)
    PROVE  Inv'
  <1> USE DEF storeVars
  <1>0. TypeOK BY DEF Inv
  <1>1. calls' \subseteq Calls
    BY <1>0 DEF Restart, TypeOK, CallBy, Calls
  <1>2. restarts' \in Nat /\ leading' \in [Nodes -> Nat] /\ applied' \in [Nodes -> Nat]
    BY <1>0 DEF Restart, TypeOK
  <1>3. warm' \in [Nodes -> BOOLEAN] /\ halted' \in [Nodes -> BOOLEAN]
    BY <1>0 DEF Restart, TypeOK, FloorAbove
  <1>4. /\ flight' \in [Nodes -> [Ids -> Flights \cup {None}]]
        /\ reserved' \in [Nodes -> [Ids -> Bodies \cup {None}]]
    BY <1>0 DEF Restart, TypeOK
  <1>5. TypeOK'
    BY <1>0, <1>1, <1>2, <1>3, <1>4 DEF Restart, TypeOK
  <1>6. committed' = committed /\ history' = history /\ watermark' = watermark
    BY DEF Restart
  <1>7. Covered'
    BY <1>0, <1>6 DEF Restart, TypeOK, Inv, Replay, Covered
  <1>8. FromLog' BY <1>6 DEF Inv, Replay, FromLog
  <1>9. Complete' BY <1>6 DEF Inv, Replay, Complete
  <1>10. DecidedOnce' /\ HistoriesAgree'
    BY <1>6 DEF Inv, DecidedOnce, HistoriesAgree
  <1> QED BY <1>5, <1>7, <1>8, <1>9, <1>10 DEF Inv, Replay

(* The log only grows at its end.                                           *)
LEMMA CommitStep ==
    ASSUME Inv, NEW p \in pending, Commit(p)
    PROVE  Inv'
  <1> USE DEF storeVars
  <1>0. TypeOK BY DEF Inv
  <1>1. p \in Entries /\ committed \in Seq(Entries) /\ committed' = Append(committed, p)
    BY <1>0 DEF Commit, TypeOK
  <1>2. history' = history /\ watermark' = watermark /\ applied' = applied
    BY DEF Commit
  <1>a. settled' \in Nat BY <1>1 DEF Commit, Entries
  <1>b. pending' \subseteq Entries BY <1>0 DEF Commit, TypeOK
  <1>c. committed' \in Seq(Entries) BY <1>1
  <1>3. TypeOK'
    BY <1>0, <1>a, <1>b, <1>c DEF Commit, TypeOK
  <1>4. Len(committed') = Len(committed) + 1 /\ Len(committed) \in Nat
    BY <1>1
  <1>5. \A j \in 1..Len(committed) : committed'[j] = committed[j]
    BY <1>1
  <1>6. \A n \in Nodes : /\ watermark[n].index \in Nat /\ applied[n] \in Nat
                        /\ watermark[n].index <= Len(committed)
                        /\ applied[n] <= watermark[n].index
    BY <1>0 DEF TypeOK, Inv, Replay, Covered
  <1>7. Covered'
    BY <1>2, <1>4, <1>6 DEF Covered
  <1>8. \A n \in Nodes : \A j \in 1..watermark[n].index : committed'[j] = committed[j]
    BY <1>4, <1>5, <1>6
  <1>9. FromLog'
    <2> SUFFICES ASSUME NEW n \in Nodes, NEW i \in DOMAIN history[n]
                 PROVE  \E q \in 1..watermark[n].index :
                            /\ Reduced(history[n], committed', i, q)
                            /\ DecidedBefore(history[n], committed', i, q)
      BY <1>2 DEF FromLog
    <2>1. PICK q \in 1..watermark[n].index :
            /\ Reduced(history[n], committed, i, q)
            /\ DecidedBefore(history[n], committed, i, q)
      BY DEF Inv, Replay, FromLog
    <2>2. Reduced(history[n], committed', i, q)
      BY <1>8, <2>1 DEF Reduced
    <2>3. DecidedBefore(history[n], committed', i, q)
      BY <1>6, <1>8, <2>1 DEF DecidedBefore
    <2> QED BY <2>2, <2>3
  <1>10. Complete'
    BY <1>2, <1>8 DEF Inv, Replay, Complete
  <1>11. DecidedOnce' /\ HistoriesAgree'
    BY <1>2 DEF Inv, DecidedOnce, HistoriesAgree
  <1> QED BY <1>3, <1>7, <1>9, <1>10, <1>11 DEF Inv, Replay

----------------------------------------------------------------------------
(* Delivered commands                                                       *)

(* What a delivered command is, and where the watermark stands.             *)
LEMMA DeliveredTyped ==
    ASSUME Inv, NEW n \in Nodes, Deliverable(n)
    PROVE  /\ Upcoming(n) \in 1..Len(committed) /\ Delivered(n) \in Entries
           /\ watermark[n].index \in Nat /\ applied[n] <= watermark[n].index
           /\ Delivered(n) = committed[Upcoming(n)]
           /\ Upcoming(n) > watermark[n].index => Upcoming(n) = watermark[n].index + 1
  <1>1. /\ applied[n] \in Nat /\ committed \in Seq(Entries)
        /\ watermark[n].index \in Nat /\ applied[n] <= watermark[n].index
    BY DEF Inv, TypeOK, Replay, Covered
  <1> QED BY <1>1 DEF Deliverable, Upcoming, Delivered

(* Binding a position keeps the types and moves only this watermark.        *)
LEMMA MarkTyped ==
    ASSUME Inv, NEW n \in Nodes, Deliverable(n), Mark(n), Advance(n)
    PROVE  /\ applied' \in [Nodes -> Nat]
           /\ watermark' \in [Nodes -> [index : Nat, term : Nat]]
           /\ applications' \in [Nodes -> SUBSET [index : Nat, term : Nat, id : Ids, body : Bodies]]
           /\ applied'[n] = Upcoming(n) /\ watermark'[n].index = Upcoming(n)
           /\ \A m \in Nodes \ {n} : applied'[m] = applied[m] /\ watermark'[m] = watermark[m]
  <1>0. TypeOK BY DEF Inv
  <1>1. Upcoming(n) \in Nat /\ Delivered(n).term \in Nat /\ Delivered(n).id \in Ids
        /\ Delivered(n).body \in Bodies
    BY DeliveredTyped DEF Entries
  <1>2. Binding(Upcoming(n), Delivered(n)) \in [index : Nat, term : Nat, id : Ids, body : Bodies]
    BY <1>1 DEF Binding
  <1>3. [index |-> Upcoming(n), term |-> Delivered(n).term] \in [index : Nat, term : Nat]
    BY <1>1
  <1>4. applied' \in [Nodes -> Nat] /\ applied'[n] = Upcoming(n)
        /\ \A m \in Nodes \ {n} : applied'[m] = applied[m]
    BY <1>0, <1>1 DEF TypeOK, Advance
  <1>5. /\ watermark' \in [Nodes -> [index : Nat, term : Nat]]
        /\ watermark'[n] = [index |-> Upcoming(n), term |-> Delivered(n).term]
        /\ \A m \in Nodes \ {n} : watermark'[m] = watermark[m]
    BY <1>0, <1>3 DEF TypeOK, Mark, WatermarkAt
  <1>6. applications' \in [Nodes -> SUBSET [index : Nat, term : Nat, id : Ids, body : Bodies]]
    BY <1>0, <1>2 DEF TypeOK, Mark
  <1> QED BY <1>4, <1>5, <1>6

(* Replay verifies and changes nothing (VerifyRaftCommand).                 *)
LEMMA CoveredStep ==
    ASSUME Inv, NEW n \in Nodes, ApplyCovered(n)
    PROVE  Inv'
  <1> USE DEF storeVars, raftVars
  <1>0. TypeOK BY DEF Inv
  <1>1. Deliverable(n) /\ Upcoming(n) <= watermark[n].index /\ Advance(n)
    BY DEF ApplyCovered
  <1>2. Upcoming(n) \in Nat /\ applied' \in [Nodes -> Nat] /\ applied'[n] = Upcoming(n)
        /\ \A m \in Nodes \ {n} : applied'[m] = applied[m]
    BY <1>0, <1>1, DeliveredTyped DEF TypeOK, Advance
  <1>3. TypeOK' BY <1>0, <1>2 DEF ApplyCovered, TypeOK
  <1>4. committed' = committed /\ history' = history /\ watermark' = watermark
    BY DEF ApplyCovered
  <1>5. Covered'
    BY <1>1, <1>2, <1>4 DEF Inv, Replay, Covered
  <1>6. FromLog' BY <1>4 DEF Inv, Replay, FromLog
  <1>7. Complete' BY <1>4 DEF Inv, Replay, Complete
  <1>8. DecidedOnce' /\ HistoriesAgree'
    BY <1>4 DEF Inv, DecidedOnce, HistoriesAgree
  <1> QED BY <1>3, <1>5, <1>6, <1>7, <1>8 DEF Inv, Replay

(* A duplicate moves the watermark over a position that is already decided. *)
LEMMA DuplicateStep ==
    ASSUME Inv, NEW n \in Nodes, ApplyDuplicate(n)
    PROVE  Inv'
  <1> USE DEF storeVars, raftVars
  <1> DEFINE w == watermark[n].index
             k == Upcoming(n)
  <1>0. TypeOK BY DEF Inv
  <1>1. Deliverable(n) /\ Found(n, Delivered(n).id, Delivered(n).body) /\ w < k
        /\ Mark(n) /\ Advance(n)
    BY DEF ApplyDuplicate
  <1>2. w \in Nat /\ k = w + 1 /\ k <= Len(committed) /\ Delivered(n) = committed[k]
        /\ Delivered(n) \in Entries
    BY <1>0, <1>1, DeliveredTyped
  <1>3. TypeOK'
    BY <1>0, <1>1, MarkTyped DEF ApplyDuplicate, TypeOK
  <1>4. committed' = committed /\ history' = history
    BY DEF ApplyDuplicate
  <1>5. /\ applied'[n] = k /\ watermark'[n].index = k
        /\ \A m \in Nodes \ {n} : applied'[m] = applied[m] /\ watermark'[m] = watermark[m]
    BY <1>1, MarkTyped
  <1>6. Covered'
    BY <1>2, <1>4, <1>5 DEF Inv, Replay, Covered
  <1>7. \A m \in Nodes : 1..watermark[m].index \subseteq 1..watermark'[m].index
    BY <1>2, <1>5
  <1>8. FromLog'
    BY <1>4, <1>7 DEF Inv, Replay, FromLog
  <1>9. \E p \in DOMAIN history[n] :
            history[n][p].id = committed[k].id /\ history[n][p].body = committed[k].body
    <2>1. history[n] \in Seq(StoredResults)
      BY <1>0 DEF TypeOK, StoredResults
    <2>2. committed[k].id \in Ids
      BY <1>2 DEF Entries
    <2>3. Decided(history[n], committed[k].id)
          /\ Result(history[n], committed[k].id).body = committed[k].body
      BY <1>1, <1>2 DEF Found
    <2>4. /\ Position(history[n], committed[k].id) \in DOMAIN history[n]
          /\ history[n][Position(history[n], committed[k].id)].id = committed[k].id
      BY <2>1, <2>2, <2>3, LookupTyped
    <2>5. history[n][Position(history[n], committed[k].id)].body = committed[k].body
      BY <2>3 DEF Result
    <2> QED BY <2>4, <2>5
  <1>10. Complete'
    <2> SUFFICES ASSUME NEW m \in Nodes, NEW j \in 1..watermark'[m].index
                 PROVE  \E p \in DOMAIN history[m] :
                            /\ history[m][p].id = committed[j].id
                            /\ history[m][p].body = committed[j].body
      BY <1>4 DEF Complete
    <2>1. CASE m = n /\ j = k BY <1>9, <2>1
    <2>2. CASE ~(m = n /\ j = k)
      <3>1. j \in 1..watermark[m].index BY <1>2, <1>5, <2>2
      <3> QED BY <3>1 DEF Inv, Replay, Complete
    <2> QED BY <2>1, <2>2
  <1>11. DecidedOnce' /\ HistoriesAgree'
    BY <1>4 DEF Inv, DecidedOnce, HistoriesAgree
  <1> QED BY <1>3, <1>6, <1>8, <1>10, <1>11 DEF Inv, Replay

----------------------------------------------------------------------------
(* A first decision                                                         *)

(* Appending a result leaves the earlier ones, and what they were reduced   *)
(* from, alone.                                                             *)
LEMMA AppendKeeps ==
    ASSUME NEW S, NEW h \in Seq(S), NEW r \in S
    PROVE  /\ Append(h, r) \in Seq(S) /\ Len(Append(h, r)) = Len(h) + 1
           /\ DOMAIN Append(h, r) = 1..(Len(h) + 1) /\ DOMAIN h = 1..Len(h)
           /\ \A i \in 1..Len(h) : Append(h, r)[i] = h[i]
           /\ Append(h, r)[Len(h) + 1] = r
           /\ \A p \in 1..(Len(h) + 1) :
                SubSeq(Append(h, r), 1, p - 1) = SubSeq(h, 1, p - 1)
  <1>1. /\ Append(h, r) \in Seq(S) /\ Len(Append(h, r)) = Len(h) + 1
        /\ DOMAIN Append(h, r) = 1..(Len(h) + 1) /\ DOMAIN h = 1..Len(h)
        /\ \A i \in 1..Len(h) : Append(h, r)[i] = h[i]
        /\ Append(h, r)[Len(h) + 1] = r /\ Len(h) \in Nat
    OBVIOUS
  <1>2. ASSUME NEW p \in 1..(Len(h) + 1)
        PROVE  SubSeq(Append(h, r), 1, p - 1) = SubSeq(h, 1, p - 1)
    <2>1. SubSeq(Append(h, r), 1, p - 1) = [i \in 1..(p - 1) |-> Append(h, r)[i]]
      BY <1>1, <1>2
    <2>2. SubSeq(h, 1, p - 1) = [i \in 1..(p - 1) |-> h[i]]
      BY <1>1, <1>2
    <2> QED BY <1>1, <1>2, <2>1, <2>2
  <1> QED BY <1>1, <1>2

(* A sequence is its own prefix of its length, and agreement up to there is *)
(* equality.                                                                *)
LEMMA PrefixEqual ==
    ASSUME NEW S, NEW h \in Seq(S), NEW g \in Seq(S), Len(h) <= Len(g),
           \A i \in 1..Len(h) : h[i] = g[i]
    PROVE  SubSeq(g, 1, Len(h)) = h
  <1>1. SubSeq(g, 1, Len(h)) = [i \in 1..Len(h) |-> g[i]]
    OBVIOUS
  <1>2. h = [i \in 1..Len(h) |-> h[i]]
    OBVIOUS
  <1> QED BY <1>1, <1>2

(* A replica that stored more already stored the result this one is about to *)
(* append: were its source another position, the event would be decided      *)
(* twice there or already decided here.                                      *)
LEMMA NextResultAgrees ==
    ASSUME Inv, NEW n \in Nodes, NEW m \in Nodes,
           NEW k \in Nat, k = watermark[n].index + 1,
           ~Decided(history[n], committed[k].id),
           Len(history[n]) + 1 \in DOMAIN history[m]
    PROVE  history[m][Len(history[n]) + 1] =
             Reduce(history[n], committed[k].id, committed[k].body)
  <1> DEFINE h == history[n]
             g == history[m]
             p == Len(history[n]) + 1
  <1>1. /\ h \in Seq(StoredResults) /\ g \in Seq(StoredResults)
        /\ watermark[n].index \in Nat /\ watermark[m].index \in Nat
    BY DEF Inv, TypeOK, StoredResults
  <1>2. /\ Len(h) \in Nat /\ Len(g) \in Nat /\ p <= Len(g)
        /\ DOMAIN h = 1..Len(h) /\ DOMAIN g = 1..Len(g)
    BY <1>1
  <1>3. \A i \in 1..Len(h) : h[i] = g[i]
    BY <1>2 DEF Inv, HistoriesAgree
  <1>4. PICK q \in 1..watermark[m].index :
            Reduced(g, committed, p, q) /\ DecidedBefore(g, committed, p, q)
    BY DEF Inv, Replay, FromLog
  <1>5. g[p] = Reduce(h, committed[q].id, committed[q].body)
    <2>1. SubSeq(g, 1, p - 1) = SubSeq(g, 1, Len(h))
      BY <1>2
    <2>2. SubSeq(g, 1, Len(h)) = h
      BY <1>1, <1>2, <1>3, PrefixEqual
    <2> QED BY <1>4, <2>1, <2>2 DEF Reduced
  <1>6. ~(q < k)
    <2> SUFFICES ASSUME q < k PROVE FALSE
      OBVIOUS
    <2>1. q \in 1..watermark[n].index
      BY <1>1
    <2>2. PICK i \in DOMAIN h : h[i].id = committed[q].id
      BY <2>1 DEF Inv, Replay, Complete
    <2>3. i \in DOMAIN g /\ p \in DOMAIN g /\ i # p /\ g[i].id = committed[q].id
      BY <1>2, <1>3, <2>2
    <2>4. g[p].id = committed[q].id
      BY <1>5 DEF Reduce
    <2> QED BY <2>3, <2>4 DEF Inv, DecidedOnce
  <1>7. ~(q > k)
    <2> SUFFICES ASSUME q > k PROVE FALSE
      OBVIOUS
    <2>1. k \in 1..(q - 1)
      BY <1>1
    <2>2. PICK i \in 1..(p - 1) : g[i].id = committed[k].id
      BY <1>4, <2>1 DEF DecidedBefore
    <2>3. i \in DOMAIN h /\ h[i].id = committed[k].id
      BY <1>2, <1>3, <2>2
    <2> QED BY <2>3 DEF Decided
  <1>8. q = k
    BY <1>1, <1>6, <1>7
  <1> QED BY <1>5, <1>8

(* A first decision appends the next result of the one history (FSM.Apply). *)
LEMMA FirstStep ==
    ASSUME Inv, NEW n \in Nodes, ApplyFirst(n)
    PROVE  Inv'
  <1> USE DEF storeVars, raftVars
  <1> DEFINE h == history[n]
             k == Upcoming(n)
             e == Delivered(n)
             r == Outcome(n, e)
  <1>0. TypeOK BY DEF Inv
  <1>1. /\ Deliverable(n) /\ ~Decided(h, e.id) /\ k > watermark[n].index
        /\ history' = [history EXCEPT ![n] = Append(@, r)]
        /\ Mark(n) /\ Advance(n) /\ committed' = committed
    BY DEF ApplyFirst, FirstSeen
  <1>2. /\ watermark[n].index \in Nat /\ k = watermark[n].index + 1 /\ k <= Len(committed)
        /\ k \in Nat /\ e = committed[k] /\ e \in Entries /\ Len(committed) \in Nat
    BY <1>0, <1>1, DeliveredTyped DEF TypeOK
  <1>3. h \in Seq(StoredResults) /\ \A m \in Nodes : history[m] \in Seq(StoredResults)
    BY <1>0 DEF TypeOK, StoredResults
  <1>4. r = Reduce(h, e.id, e.body) /\ r.id = e.id /\ r.body = e.body
    BY DEF Outcome, Reduce
  <1>5. r \in StoredResults
    <2>1. e.id \in Ids /\ e.body \in Bodies
      BY <1>2 DEF Entries
    <2> QED BY <2>1 DEF Outcome, Reduce, StoredResults
  <1> HIDE DEF r, e, h, k
  <1>6. history'[n] = Append(h, r) /\ \A m \in Nodes \ {n} : history'[m] = history[m]
    BY <1>0, <1>1 DEF TypeOK, h
  <1>7. history' \in [Nodes -> Seq(StoredResults)]
    <2>1. Append(h, r) \in Seq(StoredResults)
      BY <1>3, <1>5
    <2>2. history \in [Nodes -> Seq(StoredResults)]
      BY <1>0 DEF TypeOK, StoredResults
    <2> QED BY <1>1, <2>1, <2>2 DEF h
  <1>8. /\ Len(Append(h, r)) = Len(h) + 1 /\ DOMAIN h = 1..Len(h) /\ Len(h) \in Nat
        /\ DOMAIN Append(h, r) = 1..(Len(h) + 1)
        /\ \A i \in 1..Len(h) : Append(h, r)[i] = h[i]
        /\ Append(h, r)[Len(h) + 1] = r
        /\ \A p \in 1..(Len(h) + 1) : SubSeq(Append(h, r), 1, p - 1) = SubSeq(h, 1, p - 1)
    <2>1. Len(h) \in Nat BY <1>3
    <2> QED BY <1>3, <1>5, <2>1, AppendKeeps
  <1>9. /\ applied'[n] = k /\ watermark'[n].index = k
        /\ \A m \in Nodes \ {n} : applied'[m] = applied[m] /\ watermark'[m] = watermark[m]
    BY <1>1, MarkTyped DEF k
  <1>10. TypeOK'
    <2>1. UNCHANGED <<halted, leading>> \/ Halt(n)
      BY DEF ApplyFirst
    <2>2. halted' \in [Nodes -> BOOLEAN] /\ leading' \in [Nodes -> Nat]
      <3>1. CASE UNCHANGED <<halted, leading>>
        BY <1>0, <3>1 DEF TypeOK
      <3>2. CASE Halt(n)
        BY <1>0, <3>2 DEF Halt, TypeOK
      <3> QED BY <2>1, <3>1, <3>2
    <2>3. /\ term' = term /\ pending' = pending /\ committed' = committed /\ settled' = settled
          /\ warm' = warm /\ flight' = flight /\ reserved' = reserved /\ calls' = calls
          /\ told' = told /\ restarts' = restarts
      BY DEF ApplyFirst
    <2>4. /\ applied' \in [Nodes -> Nat]
          /\ watermark' \in [Nodes -> [index : Nat, term : Nat]]
          /\ applications' \in [Nodes -> SUBSET [index : Nat, term : Nat, id : Ids, body : Bodies]]
      BY <1>1, MarkTyped
    <2> QED BY <1>0, <1>7, <2>2, <2>3, <2>4 DEF TypeOK, StoredResults
  <1>11. Covered'
    BY <1>1, <1>2, <1>9 DEF Inv, Replay, Covered
  <1>12. FromLog'
    <2> SUFFICES ASSUME NEW m \in Nodes, NEW p \in DOMAIN history'[m]
                 PROVE  \E q \in 1..watermark'[m].index :
                            /\ Reduced(history'[m], committed, p, q)
                            /\ DecidedBefore(history'[m], committed, p, q)
      BY <1>1 DEF FromLog
    <2>1. CASE m # n
      BY <1>6, <1>9, <2>1 DEF Inv, Replay, FromLog
    <2>2. CASE m = n /\ p \in DOMAIN h
      <3>1. PICK q \in 1..watermark[n].index :
              Reduced(h, committed, p, q) /\ DecidedBefore(h, committed, p, q)
        BY <2>2 DEF Inv, Replay, FromLog, h
      <3>2. p \in 1..Len(h)
        BY <1>8, <2>2
      <3>3. Reduced(Append(h, r), committed, p, q)
        <4>1. Append(h, r)[p] = h[p]
          BY <1>8, <3>2
        <4>2. SubSeq(Append(h, r), 1, p - 1) = SubSeq(h, 1, p - 1)
          BY <1>8, <3>2
        <4> QED BY <3>1, <4>1, <4>2 DEF Reduced
      <3>4. DecidedBefore(Append(h, r), committed, p, q)
        BY <1>8, <3>1, <3>2 DEF DecidedBefore
      <3>5. q \in 1..watermark'[n].index
        BY <1>2, <1>9, <3>1
      <3> QED BY <1>6, <2>2, <3>3, <3>4, <3>5
    <2>3. CASE m = n /\ p \notin DOMAIN h
      <3>1. p = Len(h) + 1
        BY <1>6, <1>8, <2>3
      <3>2. SubSeq(Append(h, r), 1, p - 1) = h
        <4>1. SubSeq(Append(h, r), 1, p - 1) = SubSeq(h, 1, p - 1) /\ p - 1 = Len(h)
          BY <1>8, <3>1
        <4>2. SubSeq(h, 1, Len(h)) = h
          BY <1>3, PrefixEqual
        <4> QED BY <4>1, <4>2
      <3>3. Reduced(Append(h, r), committed, p, k)
        BY <1>2, <1>4, <1>8, <3>1, <3>2 DEF Reduced
      <3>4. DecidedBefore(Append(h, r), committed, p, k)
        <4> SUFFICES ASSUME NEW j \in 1..(k - 1)
                     PROVE  \E i \in 1..(p - 1) : Append(h, r)[i].id = committed[j].id
          BY DEF DecidedBefore
        <4>1. j \in 1..watermark[n].index
          BY <1>2
        <4>2. PICK i \in DOMAIN h : h[i].id = committed[j].id
          BY <4>1 DEF Inv, Replay, Complete, h
        <4>3. i \in 1..(p - 1) /\ Append(h, r)[i] = h[i]
          BY <1>8, <3>1, <4>2
        <4> QED BY <4>2, <4>3
      <3>5. k \in 1..watermark'[n].index
        BY <1>2, <1>9
      <3> QED BY <1>6, <2>3, <3>3, <3>4, <3>5
    <2> QED BY <2>1, <2>2, <2>3
  <1>13. Complete'
    <2> SUFFICES ASSUME NEW m \in Nodes, NEW j \in 1..watermark'[m].index
                 PROVE  \E p \in DOMAIN history'[m] :
                            /\ history'[m][p].id = committed[j].id
                            /\ history'[m][p].body = committed[j].body
      BY <1>1 DEF Complete
    <2>1. CASE m # n
      BY <1>6, <1>9, <2>1 DEF Inv, Replay, Complete
    <2>2. CASE m = n /\ j = k
      <3>1. Len(h) + 1 \in DOMAIN Append(h, r)
        BY <1>8
      <3>2. Append(h, r)[Len(h) + 1] = r
        BY <1>8
      <3>3. r.id = committed[j].id /\ r.body = committed[j].body
        BY <1>2, <1>4, <2>2
      <3> QED BY <1>6, <2>2, <3>1, <3>2, <3>3
    <2>3. CASE m = n /\ j # k
      <3>1. j \in 1..watermark[n].index
        BY <1>2, <1>9, <2>3
      <3>2. PICK p \in DOMAIN h :
              h[p].id = committed[j].id /\ h[p].body = committed[j].body
        BY <3>1 DEF Inv, Replay, Complete, h
      <3>3. p \in DOMAIN Append(h, r) /\ Append(h, r)[p] = h[p]
        BY <1>8, <3>2
      <3> QED BY <1>6, <2>3, <3>2, <3>3
    <2> QED BY <2>1, <2>2, <2>3
  <1>14. DecidedOnce'
    <2> SUFFICES ASSUME NEW m \in Nodes, NEW i \in DOMAIN history'[m],
                        NEW j \in DOMAIN history'[m],
                        history'[m][i].id = history'[m][j].id
                 PROVE  i = j
      BY DEF DecidedOnce
    <2>1. CASE m # n
      BY <1>6, <2>1 DEF Inv, DecidedOnce
    <2>2. CASE m = n
      <3>1. \A x \in DOMAIN h : h[x].id # e.id
        BY <1>1 DEF Decided
      <3>2. \A x \in DOMAIN Append(h, r) :
              \/ x \in DOMAIN h /\ Append(h, r)[x] = h[x]
              \/ x = Len(h) + 1 /\ Append(h, r)[x] = r
        BY <1>8
      <3>3. \A x, y \in DOMAIN h : h[x].id = h[y].id => x = y
        BY DEF Inv, DecidedOnce, h
      <3> QED BY <1>4, <1>6, <2>2, <3>1, <3>2, <3>3
    <2> QED BY <2>1, <2>2
  <1>15. \A m \in Nodes : Len(h) + 1 \in DOMAIN history[m] => history[m][Len(h) + 1] = r
    BY <1>1, <1>2, <1>4, NextResultAgrees DEF h
  <1>16. \A m \in Nodes : \A i \in DOMAIN Append(h, r) \cap DOMAIN history[m] :
            Append(h, r)[i] = history[m][i]
    <2> SUFFICES ASSUME NEW m \in Nodes, NEW i \in DOMAIN Append(h, r) \cap DOMAIN history[m]
                 PROVE  Append(h, r)[i] = history[m][i]
      OBVIOUS
    <2>1. CASE i \in DOMAIN h
      <3>1. h[i] = history[m][i]
        BY <2>1 DEF Inv, HistoriesAgree, h
      <3> QED BY <1>8, <2>1, <3>1
    <2>2. CASE i = Len(h) + 1
      BY <1>8, <1>15, <2>2
    <2> QED BY <1>8, <2>1, <2>2
  <1>17. HistoriesAgree'
    <2> SUFFICES ASSUME NEW a \in Nodes, NEW b \in Nodes,
                        NEW i \in DOMAIN history'[a] \cap DOMAIN history'[b]
                 PROVE  history'[a][i] = history'[b][i]
      BY DEF HistoriesAgree
    <2>1. CASE a = n /\ b = n BY <2>1
    <2>2. CASE a = n /\ b # n BY <1>6, <1>16, <2>2
    <2>3. CASE a # n /\ b = n BY <1>6, <1>16, <2>3
    <2>4. CASE a # n /\ b # n BY <1>6, <2>4 DEF Inv, HistoriesAgree
    <2> QED BY <2>1, <2>2, <2>3, <2>4
  <1> QED BY <1>10, <1>11, <1>12, <1>13, <1>14, <1>17 DEF Inv, Replay

----------------------------------------------------------------------------
(* The theorems                                                             *)

(* The types, the replay of the log and what it gives hold at the start and *)
(* through every step of Raft, of the FSMs, of flights and of calls.        *)
THEOREM Invariance == Spec => []Inv
  <1>1. Init => Inv
    <2> SUFFICES ASSUME Init PROVE Inv
      OBVIOUS
    <2>1. TypeOK
      BY DEF Init, TypeOK
    <2>2. \A n \in Nodes : history[n] = <<>> /\ watermark[n].index = 0 /\ applied[n] = 0
      BY DEF Init
    <2>3. DOMAIN <<>> = {} /\ Len(committed) = 0
      BY DEF Init
    <2>4. Covered BY <2>2, <2>3 DEF Covered
    <2>5. FromLog /\ Complete BY <2>2, <2>3 DEF FromLog, Complete
    <2>6. DecidedOnce /\ HistoriesAgree BY <2>2, <2>3 DEF DecidedOnce, HistoriesAgree
    <2> QED BY <2>1, <2>4, <2>5, <2>6 DEF Inv, Replay
  <1>2. Inv /\ [Next]_vars => Inv'
    <2> SUFFICES ASSUME Inv, [Next]_vars PROVE Inv'
      OBVIOUS
    <2>0. TypeOK BY DEF Inv
    <2>1. ASSUME NEW n \in Nodes,
                 Elect(n) \/ Establish(n) \/ Heartbeat(n) \/ StepDown(n) \/ ApplyHalts(n)
          PROVE  Inv'
      BY <2>0, <2>1, RaftStep, CoreUnchanged
    <2>2. ASSUME NEW n \in Nodes, ApplyFirst(n) PROVE Inv'
      BY <2>2, FirstStep
    <2>3. ASSUME NEW n \in Nodes, ApplyDuplicate(n) PROVE Inv'
      BY <2>3, DuplicateStep
    <2>4. ASSUME NEW n \in Nodes, ApplyCovered(n) PROVE Inv'
      BY <2>4, CoveredStep
    <2>5. ASSUME NEW n \in Nodes, Restart(n) PROVE Inv'
      BY <2>5, RestartStep
    <2>6. ASSUME NEW n \in Nodes, NEW id \in Ids,
                 \/ \E b \in Bodies : Submit(n, id, b)
                 \/ \E m \in Nodes : Forward(n, id, m)
                 \/ Enqueue(n, id) \/ OpenFails(n, id) \/ ForwardFails(n, id)
          PROVE  Inv'
      BY <2>0, <2>6, FlightStep, CoreUnchanged
    <2>7. ASSUME NEW n \in Nodes, NEW id \in Ids,
                 \/ \E b \in Bodies : SubmitDecided(n, id, b)
                 \/ EnqueueLost(n, id) \/ ResolveApplied(n, id) \/ ResolveLost(n, id)
                 \/ AwaitApplied(n, id)
          PROVE  Inv'
      BY <2>7, TellStep, CoreUnchanged
    <2>8. ASSUME NEW p \in pending, Commit(p) PROVE Inv'
      BY <2>8, CommitStep
    <2>9. ASSUME NEW c \in calls, Serve(c) \/ Reply(c) \/ Refuse(c) PROVE Inv'
      BY <2>0, <2>9, CallStep, CoreUnchanged
    <2>10. CASE UNCHANGED vars
      <3>1. UNCHANGED core /\ TypeOK'
        BY <2>0, <2>10 DEF vars, raftVars, storeVars, core, TypeOK
      <3> QED BY <3>1, CoreUnchanged
    <2> QED BY <2>1, <2>2, <2>3, <2>4, <2>5, <2>6, <2>7, <2>8, <2>9, <2>10 DEF Next
  <1> QED BY <1>1, <1>2, PTL DEF Spec

(* Every variable of the proposal path always has its type.                 *)
THEOREM TypeCorrect == Spec => []TypeOK
  <1>1. Inv => TypeOK BY DEF Inv
  <1> QED BY <1>1, Invariance, PTL

(* Replicas agree on every result they both have, whatever was enqueued     *)
(* twice, replayed after a restart or lost with a leader.                   *)
THEOREM Agreement == Spec => []HistoriesAgree
  <1>1. Inv => HistoriesAgree BY DEF Inv
  <1> QED BY <1>1, Invariance, PTL

(* No replica decides an event twice.                                       *)
THEOREM OneDecision == Spec => []DecidedOnce
  <1>1. Inv => DecidedOnce BY DEF Inv
  <1> QED BY <1>1, Invariance, PTL

----------------------------------------------------------------------------
(* Answers                                                                  *)

\* Each answer is the result some store holds.
Kept ==
    \A r \in told : \E n \in Nodes :
        Decided(history[n], r.id) /\ Result(history[n], r.id) = r

(* A replica that decides an event again after another, at whatever time,   *)
(* gives it the same result.                                                *)
LEMMA ResultsAgree ==
    ASSUME Inv, NEW n \in Nodes, NEW m \in Nodes, NEW id \in Ids,
           Decided(history[n], id), Decided(history[m], id)
    PROVE  Result(history[n], id) = Result(history[m], id)
  <1> DEFINE h == history[n]
             g == history[m]
             j == Position(history[n], id)
             k == Position(history[m], id)
  <1>1. h \in Seq(StoredResults) /\ g \in Seq(StoredResults)
    BY DEF Inv, TypeOK, StoredResults
  <1>2. j \in DOMAIN h /\ h[j].id = id /\ k \in DOMAIN g /\ g[k].id = id
    BY <1>1, LookupTyped
  <1>3. /\ DOMAIN h = 1..Len(h) /\ DOMAIN g = 1..Len(g)
        /\ Len(h) \in Nat /\ Len(g) \in Nat
    BY <1>1
  <1>4. j = k
    <2>1. CASE j <= k
      <3>1. j \in DOMAIN g BY <1>2, <1>3, <2>1
      <3>2. g[j].id = id BY <1>2, <3>1 DEF Inv, HistoriesAgree
      <3> QED BY <1>2, <3>1, <3>2 DEF Inv, DecidedOnce
    <2>2. CASE k <= j
      <3>1. k \in DOMAIN h BY <1>2, <1>3, <2>2
      <3>2. h[k].id = id BY <1>2, <3>1 DEF Inv, HistoriesAgree
      <3> QED BY <1>2, <3>1, <3>2 DEF Inv, DecidedOnce
    <2> QED BY <1>2, <1>3, <2>1, <2>2
  <1>5. h[j] = g[k]
    BY <1>2, <1>4 DEF Inv, HistoriesAgree
  <1> QED BY <1>4, <1>5 DEF Result

(* A store that grows keeps the results it has.                             *)
LEMMA ResultsStay ==
    ASSUME Inv, Inv', NEW n \in Nodes, NEW id \in Ids, Decided(history[n], id),
           \A k \in DOMAIN history[n] :
               k \in DOMAIN history'[n] /\ history'[n][k] = history[n][k]
    PROVE  Decided(history'[n], id) /\ Result(history'[n], id) = Result(history[n], id)
  <1> DEFINE j == Position(history[n], id)
  <1>1. history[n] \in Seq(StoredResults)
    BY DEF Inv, TypeOK, StoredResults
  <1>2. j \in DOMAIN history[n] /\ history[n][j].id = id
    BY <1>1, LookupTyped
  <1>3. j \in DOMAIN history'[n] /\ history'[n][j] = history[n][j]
    BY <1>2
  <1>4. \A k \in DOMAIN history'[n] : history'[n][k].id = id => k = j
    BY <1>2, <1>3 DEF Inv, DecidedOnce
  <1>5. Position(history'[n], id) = j
    BY <1>2, <1>3, <1>4 DEF Position
  <1>6. Decided(history'[n], id)
    BY <1>2, <1>3 DEF Decided
  <1> QED BY <1>3, <1>5, <1>6 DEF Result

(* Only ApplyFirst moves a history.                                         *)
LEMMA HistoriesStay ==
    ASSUME [Next]_vars, \A n \in Nodes : ~ApplyFirst(n)
    PROVE  history' = history
  <1> USE DEF storeVars, raftVars
  <1>1. CASE UNCHANGED vars BY <1>1 DEF vars
  <1>2. ASSUME NEW n \in Nodes,
               \/ Elect(n) \/ Establish(n) \/ Heartbeat(n) \/ StepDown(n)
               \/ ApplyDuplicate(n) \/ ApplyCovered(n) \/ ApplyHalts(n) \/ Restart(n)
        PROVE  history' = history
    BY <1>2 DEF Elect, Establish, Heartbeat, StepDown, ApplyDuplicate, ApplyCovered,
          ApplyHalts, Restart
  <1>3. ASSUME NEW n \in Nodes, NEW id \in Ids,
               \/ \E b \in Bodies : SubmitDecided(n, id, b) \/ Submit(n, id, b)
               \/ \E m \in Nodes : Forward(n, id, m)
               \/ Enqueue(n, id) \/ EnqueueLost(n, id) \/ OpenFails(n, id)
               \/ ResolveApplied(n, id) \/ ResolveLost(n, id)
               \/ ForwardFails(n, id) \/ AwaitApplied(n, id)
        PROVE  history' = history
    BY <1>3 DEF SubmitDecided, Submit, Forward, Enqueue, EnqueueLost, OpenFails, ResolveApplied,
          ResolveLost, ForwardFails, AwaitApplied
  <1>4. ASSUME NEW p \in pending, Commit(p) PROVE history' = history
    BY <1>4 DEF Commit
  <1>5. ASSUME NEW c \in calls, Serve(c) \/ Reply(c) \/ Refuse(c)
        PROVE  history' = history
    BY <1>5 DEF Serve, Reply, Refuse
  <1> QED BY <1>1, <1>2, <1>3, <1>4, <1>5 DEF Next

(* Histories grow at their end.                                             *)
LEMMA HistoriesGrow ==
    ASSUME Inv, [Next]_vars
    PROVE  \A n \in Nodes : \A k \in DOMAIN history[n] :
               k \in DOMAIN history'[n] /\ history'[n][k] = history[n][k]
  <1> USE DEF storeVars, raftVars
  <1>1. ASSUME NEW n \in Nodes, ApplyFirst(n)
        PROVE  \A m \in Nodes : \A k \in DOMAIN history[m] :
                   k \in DOMAIN history'[m] /\ history'[m][k] = history[m][k]
    <2>1. TypeOK BY DEF Inv
    <2>2. history' = [history EXCEPT ![n] = Append(@, Outcome(n, Delivered(n)))]
      BY <1>1 DEF ApplyFirst
    <2>3. \A m \in Nodes : history[m] \in Seq(StoredResults)
      BY <2>1 DEF TypeOK, StoredResults
    <2>4. history'[n] = Append(history[n], Outcome(n, Delivered(n)))
          /\ \A m \in Nodes \ {n} : history'[m] = history[m]
      BY <2>1, <2>2 DEF TypeOK
    <2>5. \A k \in DOMAIN history[n] :
            /\ k \in DOMAIN Append(history[n], Outcome(n, Delivered(n)))
            /\ Append(history[n], Outcome(n, Delivered(n)))[k] = history[n][k]
      BY <2>3
    <2> QED BY <2>4, <2>5
  <1>2. (\A n \in Nodes : ~ApplyFirst(n)) => history' = history
    BY HistoriesStay
  <1> QED BY <1>1, <1>2

(* What is told is read from a store that holds these bytes.                *)
LEMMA Told ==
    ASSUME Inv, [Next]_vars
    PROVE  \/ told' = told
           \/ \E n \in Nodes, id \in Ids, b \in Bodies :
                 Found(n, id, b) /\ told' = told \cup {Answer(history[n], id, b)}
  <1> USE DEF storeVars, raftVars
  <1> DEFINE Goal == \/ told' = told
                     \/ \E n \in Nodes, id \in Ids, b \in Bodies :
                           Found(n, id, b) /\ told' = told \cup {Answer(history[n], id, b)}
  <1>0. TypeOK BY DEF Inv
  <1>1. ASSUME NEW n \in Nodes, NEW id \in Ids, flight[n][id] # None,
               Found(n, id, flight[n][id].body), Succeed(n, id)
        PROVE  Goal
    <2>1. flight[n][id].body \in Bodies
      BY <1>0, <1>1, FlightTyped DEF Flights
    <2> QED BY <1>1, <2>1 DEF Succeed
  <1>2. ASSUME NEW n \in Nodes, NEW id \in Ids, ResolveApplied(n, id) PROVE Goal
    <2>1. PICK k \in 1..applied[n] :
            committed[k] = [term |-> flight[n][id].term, id |-> id, body |-> flight[n][id].body]
      BY <1>2 DEF ResolveApplied
    <2>2. k \in 1..watermark[n].index
      BY <1>0, <2>1 DEF TypeOK, Inv, Replay, Covered
    <2>3. PICK p \in DOMAIN history[n] :
            history[n][p].id = id /\ history[n][p].body = flight[n][id].body
      BY <2>1, <2>2 DEF Inv, Replay, Complete
    <2>4. Position(history[n], id) = p
      BY <2>3, PositionUnique DEF Inv
    <2>5. Found(n, id, flight[n][id].body)
      BY <2>3, <2>4 DEF Found, Decided, Result
    <2>6. flight[n][id] # None /\ Succeed(n, id)
      BY <1>2 DEF ResolveApplied, Running
    <2> QED BY <1>1, <2>5, <2>6
  <1>3. ASSUME NEW n \in Nodes, NEW id \in Ids, ResolveLost(n, id) PROVE Goal
    <2>1. /\ flight[n][id] # None
          /\ \/ Found(n, id, flight[n][id].body) /\ Succeed(n, id)
             \/ told' = told
      BY <1>3 DEF ResolveLost, Running, Fail
    <2> QED BY <1>1, <2>1
  <1>4. ASSUME NEW n \in Nodes, NEW id \in Ids, AwaitApplied(n, id) PROVE Goal
    <2>1. /\ flight[n][id] # None
          /\ \/ Found(n, id, flight[n][id].body) /\ Succeed(n, id)
             \/ told' = told
      BY <1>4 DEF AwaitApplied, Running, Fail
    <2> QED BY <1>1, <2>1
  <1>11. ASSUME NEW n \in Nodes, NEW id \in Ids, EnqueueLost(n, id) PROVE Goal
    <2>1. flight[n][id] # None /\ Found(n, id, flight[n][id].body) /\ Succeed(n, id)
      BY <1>11 DEF EnqueueLost, Running
    <2> QED BY <1>1, <2>1
  <1>5. ASSUME NEW n \in Nodes, NEW id \in Ids, NEW b \in Bodies, SubmitDecided(n, id, b)
        PROVE  Goal
    BY <1>5 DEF SubmitDecided
  <1>6. CASE UNCHANGED vars BY <1>6 DEF vars
  <1>7. ASSUME NEW n \in Nodes,
               \/ Elect(n) \/ Establish(n) \/ Heartbeat(n) \/ StepDown(n) \/ ApplyFirst(n)
               \/ ApplyDuplicate(n) \/ ApplyCovered(n) \/ ApplyHalts(n) \/ Restart(n)
        PROVE  told' = told
    BY <1>7 DEF Elect, Establish, Heartbeat, StepDown, ApplyFirst, ApplyDuplicate, ApplyCovered,
          ApplyHalts, Restart
  <1>8. ASSUME NEW n \in Nodes, NEW id \in Ids,
               \/ \E b \in Bodies : Submit(n, id, b)
               \/ \E m \in Nodes : Forward(n, id, m)
               \/ Enqueue(n, id) \/ OpenFails(n, id) \/ ForwardFails(n, id)
        PROVE  told' = told
    BY <1>8 DEF Submit, Forward, Enqueue, OpenFails, ForwardFails, Fail
  <1>9. ASSUME NEW p \in pending, Commit(p) PROVE told' = told
    BY <1>9 DEF Commit
  <1>10. ASSUME NEW c \in calls, Serve(c) \/ Reply(c) \/ Refuse(c) PROVE told' = told
    BY <1>10 DEF Serve, Reply, Refuse, Fail
  <1> QED BY <1>2, <1>3, <1>4, <1>5, <1>6, <1>7, <1>8, <1>9, <1>10, <1>11 DEF Next

(* A result once given to a caller is the result on every replica that      *)
(* decides the event, with those bytes, that outcome and that result index, *)
(* whatever IDs are reused, leaders lost or stores replayed.                *)
THEOREM AnswersHold == Spec => []AnswersStand
  <1>1. Init => Kept
    BY DEF Init, Kept
  <1>2. Inv /\ Inv' /\ Kept /\ [Next]_vars => Kept'
    <2> SUFFICES ASSUME Inv, Inv', Kept, [Next]_vars, NEW r \in told'
                 PROVE  \E n \in Nodes :
                            Decided(history'[n], r.id) /\ Result(history'[n], r.id) = r
      BY DEF Kept
    <2>1. PICK n \in Nodes : Decided(history[n], r.id) /\ Result(history[n], r.id) = r
      <3>1. CASE r \in told
        BY <3>1 DEF Kept
      <3>2. ASSUME NEW n \in Nodes, NEW id \in Ids, NEW b \in Bodies,
                   Found(n, id, b), r = Answer(history[n], id, b)
            PROVE  Decided(history[n], r.id) /\ Result(history[n], r.id) = r
        <4>1. r.id = id /\ Decided(history[n], id) /\ Result(history[n], id).body = b
          BY <3>2 DEF Answer, Found
        <4>2. Result(history[n], id) = Answer(history[n], id, b)
          BY <4>1 DEF Answer, Result
        <4> QED BY <3>2, <4>1, <4>2
      <3> QED BY <3>1, <3>2, Told
    <2>2. r.id \in Ids
      BY DEF Inv, TypeOK, Results
    <2>3. \A k \in DOMAIN history[n] :
            k \in DOMAIN history'[n] /\ history'[n][k] = history[n][k]
      BY HistoriesGrow
    <2> QED BY <2>1, <2>2, <2>3, ResultsStay
  <1>3. Inv /\ Kept => AnswersStand
    <2> SUFFICES ASSUME Inv, Kept, NEW r \in told
                 PROVE  /\ \E n \in Nodes : Decided(history[n], r.id)
                        /\ \A n \in Nodes : Decided(history[n], r.id) =>
                               Result(history[n], r.id) = r
      BY DEF AnswersStand
    <2>1. r.id \in Ids
      BY DEF Inv, TypeOK, Results
    <2>2. PICK n \in Nodes : Decided(history[n], r.id) /\ Result(history[n], r.id) = r
      BY DEF Kept
    <2> QED BY <2>1, <2>2, ResultsAgree
  <1> QED BY <1>1, <1>2, <1>3, Invariance, PTL DEF Spec

----------------------------------------------------------------------------
(* The ledger of positions                                                  *)

\* Raft's log: terms never go back, and nothing that may still commit would
\* take them back.
TermsOrdered ==
    /\ \A p \in pending : settled <= p.term
    /\ \A k \in DOMAIN committed : committed[k].term <= settled
    /\ \A j, k \in DOMAIN committed : j <= k => committed[j].term <= committed[k].term

\* A store binds every position up to its watermark to the command there, and
\* no other.
BindsLog ==
    \A n \in Nodes :
        /\ \A a : a \in applications[n] <=>
                     \E k \in 1..watermark[n].index : a = Binding(k, committed[k])
        /\ watermark[n].index = 0 => watermark[n].term = 0
        /\ watermark[n].index > 0 => watermark[n].term = committed[watermark[n].index].term

LEMMA StoreTypes ==
    ASSUME TypeOK
    PROVE  /\ committed \in Seq(Entries) /\ DOMAIN committed = 1..Len(committed)
           /\ Len(committed) \in Nat /\ settled \in Nat
           /\ \A k \in DOMAIN committed :
                 committed[k].term \in Nat /\ committed[k].id \in Ids /\ committed[k].body \in Bodies
           /\ \A p \in pending : p.term \in Nat /\ p.id \in Ids /\ p.body \in Bodies
           /\ \A n \in Nodes : /\ watermark[n].index \in Nat /\ watermark[n].term \in Nat
                               /\ leading[n] \in Nat /\ applied[n] \in Nat
                               /\ history[n] \in Seq(StoredResults)
  <1>1. committed \in Seq(Entries) /\ settled \in Nat
    BY DEF TypeOK
  <1>2. DOMAIN committed = 1..Len(committed) /\ Len(committed) \in Nat
    BY <1>1
  <1>3. \A k \in DOMAIN committed : committed[k] \in Entries
    BY <1>1
  <1>4. \A n \in Nodes : /\ watermark[n].index \in Nat /\ watermark[n].term \in Nat
                         /\ leading[n] \in Nat /\ applied[n] \in Nat
    BY DEF TypeOK
  <1>5. \A n \in Nodes : history[n] \in Seq(StoredResults)
    BY DEF TypeOK, StoredResults
  <1>6. \A p \in pending : p.term \in Nat /\ p.id \in Ids /\ p.body \in Bodies
    BY DEF TypeOK, Entries
  <1> QED BY <1>1, <1>2, <1>3, <1>4, <1>5, <1>6 DEF Entries

(* What a committed log keeps when Raft appends to it.                      *)
LEMMA LogAppended ==
    ASSUME TypeOK, NEW p \in pending, Commit(p)
    PROVE  /\ DOMAIN committed' = 1..(Len(committed) + 1)
           /\ \A k \in DOMAIN committed : k \in DOMAIN committed' /\ committed'[k] = committed[k]
           /\ committed'[Len(committed) + 1] = p
  <1>1. committed \in Seq(Entries) /\ p \in Entries /\ committed' = Append(committed, p)
    BY DEF TypeOK, Commit
  <1> QED BY <1>1

(* Elections, appends and commits keep the terms in order.                  *)
LEMMA TermsStep ==
    ASSUME Inv, TermsOrdered, [Next]_vars
    PROVE  TermsOrdered'
  <1> USE DEF storeVars, raftVars
  <1>0. TypeOK BY DEF Inv
  <1>1. ASSUME NEW p \in pending, Commit(p) PROVE TermsOrdered'
    <2>1. /\ settled' = p.term /\ settled <= p.term
          /\ \A q \in pending' : q \in pending /\ q.term >= p.term
      BY <1>1 DEF Commit, TermsOrdered
    <2>2. p.term \in Nat /\ settled \in Nat
          /\ \A k \in DOMAIN committed : committed[k].term \in Nat /\ committed[k].term <= p.term
      BY <1>0, <2>1, StoreTypes DEF TermsOrdered
    <2>3. \A k \in DOMAIN committed' :
            \/ k \in DOMAIN committed /\ committed'[k] = committed[k]
            \/ k = Len(committed) + 1 /\ committed'[k] = p
      BY <1>0, <1>1, LogAppended, StoreTypes
    <2>4. \A q \in pending' : settled' <= q.term
      BY <2>1
    <2>5. \A k \in DOMAIN committed' : committed'[k].term <= settled'
      BY <2>1, <2>2, <2>3
    <2>6. ASSUME NEW j \in DOMAIN committed', NEW k \in DOMAIN committed', j <= k
          PROVE  committed'[j].term <= committed'[k].term
      <3>1. j \in 1..(Len(committed) + 1) /\ k \in 1..(Len(committed) + 1)
        BY <1>0, <1>1, LogAppended
      <3>2. CASE k = Len(committed) + 1
        BY <1>0, <1>1, <2>1, <2>2, <2>3, <3>2, LogAppended
      <3>3. CASE k # Len(committed) + 1
        <4>1. j \in DOMAIN committed /\ k \in DOMAIN committed
          BY <1>0, <2>3, <2>6, <3>1, <3>3, StoreTypes
        <4> QED BY <1>0, <1>1, <2>6, <4>1, LogAppended DEF TermsOrdered
      <3> QED BY <3>2, <3>3
    <2> QED BY <2>4, <2>5, <2>6 DEF TermsOrdered
  <1>2. ASSUME NEW n \in Nodes, Establish(n) PROVE TermsOrdered'
    <2>1. /\ settled < leading[n] /\ settled' = leading[n] /\ committed' = committed
          /\ \A q \in pending' : q.term >= leading[n]
      BY <1>2 DEF Establish
    <2>2. leading[n] \in Nat /\ settled \in Nat
          /\ \A k \in DOMAIN committed : committed[k].term \in Nat
      BY <1>0, StoreTypes
    <2>3. \A q \in pending' : settled' <= q.term
      BY <2>1
    <2>4. \A k \in DOMAIN committed' : committed'[k].term <= settled'
      BY <2>1, <2>2 DEF TermsOrdered
    <2> QED BY <2>1, <2>3, <2>4 DEF TermsOrdered
  <1>3. ASSUME NEW n \in Nodes, NEW id \in Ids, Enqueue(n, id) PROVE TermsOrdered'
    <2>1. /\ settled' = settled /\ committed' = committed
          /\ \A q \in pending' : q \in pending \/ (q.term = leading[n] /\ leading[n] >= settled)
      BY <1>3 DEF Enqueue
    <2>2. leading[n] \in Nat /\ settled \in Nat
      BY <1>0, StoreTypes
    <2>3. \A q \in pending' : settled' <= q.term
      BY <2>1, <2>2 DEF TermsOrdered
    <2> QED BY <2>1, <2>3 DEF TermsOrdered
  <1>4. ASSUME UNCHANGED <<pending, committed, settled>> PROVE TermsOrdered'
    BY <1>4 DEF TermsOrdered
  <1>5. ASSUME NEW n \in Nodes,
               \/ Elect(n) \/ Heartbeat(n) \/ StepDown(n) \/ ApplyFirst(n)
               \/ ApplyDuplicate(n) \/ ApplyCovered(n) \/ ApplyHalts(n) \/ Restart(n)
        PROVE  UNCHANGED <<pending, committed, settled>>
    BY <1>5 DEF Elect, Heartbeat, StepDown, ApplyFirst, ApplyDuplicate, ApplyCovered,
          ApplyHalts, Restart
  <1>6. ASSUME NEW n \in Nodes, NEW id \in Ids,
               \/ \E b \in Bodies : SubmitDecided(n, id, b) \/ Submit(n, id, b)
               \/ \E m \in Nodes : Forward(n, id, m)
               \/ EnqueueLost(n, id) \/ OpenFails(n, id)
               \/ ResolveApplied(n, id) \/ ResolveLost(n, id)
               \/ ForwardFails(n, id) \/ AwaitApplied(n, id)
        PROVE  UNCHANGED <<pending, committed, settled>>
    BY <1>6 DEF SubmitDecided, Submit, Forward, EnqueueLost, OpenFails, ResolveApplied,
          ResolveLost, ForwardFails, AwaitApplied
  <1>7. ASSUME NEW c \in calls, Serve(c) \/ Reply(c) \/ Refuse(c)
        PROVE  UNCHANGED <<pending, committed, settled>>
    BY <1>7 DEF Serve, Reply, Refuse
  <1>8. CASE UNCHANGED vars
    BY <1>8, <1>4 DEF vars
  <1> QED BY <1>1, <1>2, <1>3, <1>4, <1>5, <1>6, <1>7, <1>8 DEF Next

(* A position is bound when it becomes the watermark, and never again.      *)
LEMMA BindsStep ==
    ASSUME Inv, BindsLog, [Next]_vars
    PROVE  BindsLog'
  <1> USE DEF storeVars, raftVars
  <1>0. TypeOK BY DEF Inv
  <1>a. \A n \in Nodes : watermark[n].index <= Len(committed)
    BY DEF Inv, Replay, Covered
  <1>1. ASSUME NEW p \in pending, Commit(p) PROVE BindsLog'
    <2>1. applications' = applications /\ watermark' = watermark
      BY <1>1 DEF Commit
    <2>2. \A n \in Nodes : \A k \in 1..watermark[n].index : committed'[k] = committed[k]
      BY <1>0, <1>a, <1>1, LogAppended, StoreTypes
    <2>3. ASSUME NEW n \in Nodes, NEW a
          PROVE  a \in applications'[n] <=>
                    \E k \in 1..watermark'[n].index : a = Binding(k, committed'[k])
      BY <2>1, <2>2 DEF BindsLog
    <2>4. ASSUME NEW n \in Nodes, watermark'[n].index > 0
          PROVE  watermark'[n].term = committed'[watermark'[n].index].term
      <3>1. watermark[n].index \in 1..watermark[n].index
        BY <1>0, <2>1, <2>4, StoreTypes
      <3>2. watermark[n].term = committed[watermark[n].index].term
        BY <2>1, <2>4 DEF BindsLog
      <3> QED BY <2>1, <2>2, <3>1, <3>2
    <2> QED BY <2>1, <2>3, <2>4 DEF BindsLog
  <1>2. ASSUME NEW n \in Nodes, ApplyFirst(n) \/ ApplyDuplicate(n) PROVE BindsLog'
    <2> DEFINE u == Upcoming(n)
               w == watermark[n].index
    <2>1. Deliverable(n) /\ Mark(n) /\ Advance(n) /\ committed' = committed /\ w < u
      BY <1>0, <1>2, StoreTypes DEF ApplyFirst, ApplyDuplicate
    <2>2. w \in Nat /\ u = w + 1 /\ Delivered(n) = committed[u]
      BY <2>1, DeliveredTyped
    <2>3. /\ applications'[n] = applications[n] \cup {Binding(u, committed[u])}
          /\ watermark'[n] = [index |-> u, term |-> committed[u].term]
          /\ \A m \in Nodes \ {n} : applications'[m] = applications[m] /\ watermark'[m] = watermark[m]
      BY <1>0, <2>1, <2>2 DEF Mark, WatermarkAt, TypeOK
    <2> HIDE DEF u, w
    <2>4. \A k : k \in 1..u <=> k \in 1..w \/ k = u
      BY <2>2
    <2>5. ASSUME NEW a
          PROVE  a \in applications'[n] <=>
                    \E k \in 1..watermark'[n].index : a = Binding(k, committed'[k])
      <3>1. a \in applications[n] <=> \E k \in 1..w : a = Binding(k, committed[k])
        BY DEF BindsLog, w
      <3> QED BY <2>1, <2>3, <2>4, <3>1
    <2>6. /\ watermark'[n].index > 0
          /\ watermark'[n].term = committed'[watermark'[n].index].term
      BY <2>1, <2>2, <2>3
    <2>7. ASSUME NEW m \in Nodes
          PROVE  /\ \A a : a \in applications'[m] <=>
                       \E k \in 1..watermark'[m].index : a = Binding(k, committed'[k])
                 /\ watermark'[m].index = 0 => watermark'[m].term = 0
                 /\ watermark'[m].index > 0 =>
                       watermark'[m].term = committed'[watermark'[m].index].term
      <3>1. CASE m = n
        BY <2>2, <2>3, <2>5, <2>6, <3>1
      <3>2. CASE m # n
        BY <2>1, <2>3, <3>2 DEF BindsLog
      <3> QED BY <3>1, <3>2
    <2> QED BY <2>7 DEF BindsLog
  <1>4. ASSUME UNCHANGED <<committed, watermark, applications>> PROVE BindsLog'
    BY <1>4 DEF BindsLog
  <1>5. ASSUME NEW n \in Nodes,
               \/ Elect(n) \/ Establish(n) \/ Heartbeat(n) \/ StepDown(n)
               \/ ApplyCovered(n) \/ ApplyHalts(n) \/ Restart(n)
        PROVE  UNCHANGED <<committed, watermark, applications>>
    BY <1>5 DEF Elect, Establish, Heartbeat, StepDown, ApplyCovered, ApplyHalts, Restart
  <1>6. ASSUME NEW n \in Nodes, NEW id \in Ids,
               \/ \E b \in Bodies : SubmitDecided(n, id, b) \/ Submit(n, id, b)
               \/ \E m \in Nodes : Forward(n, id, m)
               \/ Enqueue(n, id) \/ EnqueueLost(n, id) \/ OpenFails(n, id)
               \/ ResolveApplied(n, id) \/ ResolveLost(n, id)
               \/ ForwardFails(n, id) \/ AwaitApplied(n, id)
        PROVE  UNCHANGED <<committed, watermark, applications>>
    BY <1>6 DEF SubmitDecided, Submit, Forward, Enqueue, EnqueueLost, OpenFails, ResolveApplied,
          ResolveLost, ForwardFails, AwaitApplied
  <1>7. ASSUME NEW c \in calls, Serve(c) \/ Reply(c) \/ Refuse(c)
        PROVE  UNCHANGED <<committed, watermark, applications>>
    BY <1>7 DEF Serve, Reply, Refuse
  <1>8. CASE UNCHANGED vars
    BY <1>8, <1>4 DEF vars
  <1> QED BY <1>1, <1>2, <1>4, <1>5, <1>6, <1>7, <1>8 DEF Next

(* The ledger a store verifies when it opens follows from both.             *)
LEMMA LedgerFollows ==
    ASSUME Inv, TermsOrdered, BindsLog
    PROVE  LedgerIntact
  <1>0. TypeOK BY DEF Inv
  <1>1. ASSUME NEW n \in Nodes
        PROVE  LET app == applications[n] IN
               /\ IF app = {} THEN watermark[n] = [index |-> 0, term |-> 0]
                  ELSE \E a \in app : /\ a.index = watermark[n].index /\ a.term = watermark[n].term
                                      /\ \A b \in app : b.index <= a.index
               /\ \A a, b \in app : /\ a.index = b.index => a = b
                                    /\ a.index < b.index => a.term <= b.term
               /\ {[id |-> a.id, body |-> a.body] : a \in app} =
                  {[id |-> history[n][k].id, body |-> history[n][k].body] : k \in DOMAIN history[n]}
    <2> DEFINE w == watermark[n].index
               app == applications[n]
    <2>1. w \in Nat /\ w <= Len(committed) /\ Len(committed) \in Nat
          /\ DOMAIN committed = 1..Len(committed)
      BY <1>0, StoreTypes DEF Inv, Replay, Covered
    <2>2. \A a : a \in app <=> \E k \in 1..w : a = Binding(k, committed[k])
      BY DEF BindsLog
    <2>3. \A k : Binding(k, committed[k]).index = k
                 /\ Binding(k, committed[k]).term = committed[k].term
                 /\ Binding(k, committed[k]).id = committed[k].id
                 /\ Binding(k, committed[k]).body = committed[k].body
      BY DEF Binding
    <2>4. IF app = {} THEN watermark[n] = [index |-> 0, term |-> 0]
          ELSE \E a \in app : /\ a.index = watermark[n].index /\ a.term = watermark[n].term
                              /\ \A b \in app : b.index <= a.index
      <3>1. CASE w = 0
        <4>1. app = {}
          BY <2>2, <3>1
        <4>2. watermark[n] \in [index : Nat, term : Nat] /\ watermark[n].term = 0
          BY <1>0, <3>1 DEF TypeOK, BindsLog
        <4> QED BY <3>1, <4>1, <4>2
      <3>2. CASE w > 0
        <4> DEFINE a == Binding(w, committed[w])
        <4>1. a \in app /\ a.index = w /\ a.term = watermark[n].term
          BY <2>1, <2>2, <2>3, <3>2 DEF BindsLog
        <4>2. \A b \in app : b.index <= a.index
          BY <2>1, <2>2, <2>3
        <4> HIDE DEF a
        <4> QED BY <4>1, <4>2
      <3> QED BY <2>1, <3>1, <3>2
    <2>5. ASSUME NEW a \in app, NEW b \in app
          PROVE  /\ a.index = b.index => a = b
                 /\ a.index < b.index => a.term <= b.term
      <3>1. PICK j \in 1..w : a = Binding(j, committed[j])
        BY <2>2
      <3>2. PICK k \in 1..w : b = Binding(k, committed[k])
        BY <2>2
      <3>3. j \in DOMAIN committed /\ k \in DOMAIN committed /\ j \in Nat /\ k \in Nat
        BY <2>1
      <3> QED BY <2>3, <3>1, <3>2, <3>3 DEF TermsOrdered
    <2>6. ASSUME NEW j \in 1..w
          PROVE  \E k \in DOMAIN history[n] :
                    history[n][k].id = committed[j].id /\ history[n][k].body = committed[j].body
      BY DEF Inv, Replay, Complete
    <2>7. ASSUME NEW k \in DOMAIN history[n]
          PROVE  \E j \in 1..w :
                    history[n][k].id = committed[j].id /\ history[n][k].body = committed[j].body
      <3>1. PICK q \in 1..w : Reduced(history[n], committed, k, q)
        BY DEF Inv, Replay, FromLog
      <3> QED BY <3>1 DEF Reduced, Reduce
    <2>8. {[id |-> a.id, body |-> a.body] : a \in app} =
          {[id |-> history[n][k].id, body |-> history[n][k].body] : k \in DOMAIN history[n]}
      <3> HIDE DEF w, app
      <3> DEFINE A == {[id |-> a.id, body |-> a.body] : a \in app}
                 H == {[id |-> history[n][k].id, body |-> history[n][k].body] :
                          k \in DOMAIN history[n]}
      <3>1. ASSUME NEW x \in A PROVE x \in H
        <4>1. PICK a \in app : x = [id |-> a.id, body |-> a.body]
          OBVIOUS
        <4>2. PICK j \in 1..w : a = Binding(j, committed[j])
          BY <2>2
        <4> QED BY <2>3, <2>6, <4>1, <4>2
      <3>2. ASSUME NEW x \in H PROVE x \in A
        <4>1. PICK k \in DOMAIN history[n] :
                x = [id |-> history[n][k].id, body |-> history[n][k].body]
          OBVIOUS
        <4>2. PICK j \in 1..w :
                history[n][k].id = committed[j].id /\ history[n][k].body = committed[j].body
          BY <2>7
        <4>3. Binding(j, committed[j]) \in app
          BY <2>2, <4>2
        <4> QED BY <2>3, <4>1, <4>2, <4>3
      <3> QED BY <3>1, <3>2
    <2> QED BY <2>4, <2>5, <2>8
  <1> QED BY <1>1 DEF LedgerIntact

----------------------------------------------------------------------------
(* Forwarded results                                                        *)

\* A result that a forwarding replica waits for is one that some store holds.
AwaitKept ==
    \A n \in Nodes, id \in Ids :
        Running(n, id, "await") =>
            \E m \in Nodes : /\ Decided(history[m], id)
                             /\ flight[n][id].result = Result(history[m], id)

(* What ending a flight leaves of the other flights, of the reservations    *)
(* and of the calls (finishProposal).                                       *)
LEMMA FlightEnds ==
    ASSUME TypeOK, NEW n \in Nodes, NEW id \in Ids, flight[n][id] # None,
           Succeed(n, id) \/ \E u \in BOOLEAN, open \in SUBSET calls : Fail(n, id, u, open)
    PROVE  /\ flight'[n][id] = None
           /\ reserved'[n][id] \in {None, flight[n][id].body}
           /\ \A m \in Nodes, i \in Ids : <<m, i>> # <<n, id>> =>
                 flight'[m][i] = flight[m][i] /\ reserved'[m][i] = reserved[m][i]
           /\ \A c \in calls' : \E d \in calls : d.id = c.id /\ d.body = c.body
  <1>1. flight' = [flight EXCEPT ![n][id] = None]
        /\ \E r \in {None, flight[n][id].body} : reserved' = [reserved EXCEPT ![n][id] = r]
    BY DEF Succeed, Fail
  <1>2. PICK open \in SUBSET calls : calls' \subseteq Orphaned(n, id, open)
    BY DEF Succeed, Fail
  <1>3. \A c \in Orphaned(n, id, open) : \E d \in calls : d.id = c.id /\ d.body = c.body
    BY DEF Orphaned, CallBy
  <1>4. /\ flight'[n][id] = None
        /\ \A m \in Nodes, i \in Ids : <<m, i>> # <<n, id>> => flight'[m][i] = flight[m][i]
    BY <1>1 DEF TypeOK
  <1>5. /\ reserved'[n][id] \in {None, flight[n][id].body}
        /\ \A m \in Nodes, i \in Ids : <<m, i>> # <<n, id>> => reserved'[m][i] = reserved[m][i]
    BY <1>1 DEF TypeOK
  <1> QED BY <1>2, <1>3, <1>4, <1>5

(* A flight changes by beginning to wait for a result that the leader's     *)
(* store holds, or it does not wait after the step.                         *)
LEMMA AwaitStep ==
    ASSUME Inv, Inv', AwaitKept, [Next]_vars
    PROVE  AwaitKept'
  <1> USE DEF storeVars, raftVars
  <1>0. TypeOK BY DEF Inv
  <1> DEFINE Same(n, i) == flight'[n][i] = flight[n][i]
             Idle(n, i) == flight'[n][i] = None \/ flight'[n][i].stage # "await"
             Gets(n, i) == \E m \in Nodes : /\ Decided(history[m], i)
                                            /\ flight'[n][i].result = Result(history[m], i)
  <1>1. ASSUME NEW n \in Nodes, NEW id \in Ids, flight[n][id] # None,
               Succeed(n, id) \/ \E u \in BOOLEAN, open \in SUBSET calls : Fail(n, id, u, open)
        PROVE  \A m \in Nodes, i \in Ids : Same(m, i) \/ Idle(m, i)
    BY <1>0, <1>1, FlightEnds
  <1>2. ASSUME NEW n \in Nodes, NEW id \in Ids, NEW x, x.stage # "await",
               flight' = [flight EXCEPT ![n][id] = x]
        PROVE  \A m \in Nodes, i \in Ids : Same(m, i) \/ Idle(m, i)
    BY <1>0, <1>2 DEF TypeOK
  <1>3. ASSUME NEW n \in Nodes, NEW id \in Ids, NEW b \in Bodies, Submit(n, id, b)
        PROVE  \A m \in Nodes, i \in Ids : Same(m, i) \/ Idle(m, i)
    <2>1. Open(n, id, b, TRUE).stage # "await"
      BY DEF Open
    <2> QED BY <1>2, <1>3, <2>1 DEF Submit
  <1>4. ASSUME NEW n \in Nodes, NEW id \in Ids, Enqueue(n, id) \/ \E m \in Nodes : Forward(n, id, m)
        PROVE  \A m \in Nodes, i \in Ids : Same(m, i) \/ Idle(m, i)
    <2>1. \A t : Staged(flight[n][id], "raft", t, None).stage # "await"
                 /\ Staged(flight[n][id], "forward", t, None).stage # "await"
      BY DEF Staged
    <2>2. \/ flight' = [flight EXCEPT ![n][id] = Staged(flight[n][id], "raft", leading[n], None)]
          \/ flight' = [flight EXCEPT ![n][id] = Staged(flight[n][id], "forward", 0, None)]
      BY <1>0, <1>4 DEF Enqueue, Forward, TypeOK
    <2> QED BY <1>2, <2>1, <2>2
  <1>5. ASSUME NEW c \in calls, Serve(c)
        PROVE  \A m \in Nodes, i \in Ids : Same(m, i) \/ Idle(m, i)
    <2>1. c.to \in Nodes /\ c.id \in Ids /\ Open(c.to, c.id, c.body, FALSE).stage # "await"
      BY <1>0 DEF TypeOK, Calls, Open
    <2>2. \/ flight' = flight
          \/ flight' = [flight EXCEPT ![c.to][c.id] = Open(c.to, c.id, c.body, FALSE)]
      BY <1>5 DEF Serve
    <2> QED BY <1>2, <2>1, <2>2
  <1>6. ASSUME NEW c \in calls, Reply(c)
        PROVE  \A m \in Nodes, i \in Ids : Same(m, i) \/ Gets(m, i)
    <2>1. /\ c.to \in Nodes /\ c.id \in Ids /\ c.from \in Nodes
          /\ Decided(history[c.to], c.id)
      BY <1>0, <1>6 DEF TypeOK, Calls, Reply, Found
    <2>2. Staged(flight[c.from][c.id], "await", 0, Result(history[c.to], c.id)).result
            = Result(history[c.to], c.id)
      BY DEF Staged
    <2>3. flight' = [flight EXCEPT ![c.from][c.id] =
                        Staged(flight[c.from][c.id], "await", 0, Result(history[c.to], c.id))]
      BY <1>6 DEF Reply
    <2>4. flight'[c.from][c.id].result = Result(history[c.to], c.id)
          /\ \A m \in Nodes, i \in Ids : <<m, i>> # <<c.from, c.id>> => Same(m, i)
      BY <1>0, <2>1, <2>2, <2>3 DEF TypeOK
    <2> QED BY <2>1, <2>4
  <1>7. ASSUME NEW n \in Nodes, Restart(n)
        PROVE  \A m \in Nodes, i \in Ids : Same(m, i) \/ Idle(m, i)
    BY <1>0, <1>7 DEF Restart, TypeOK
  <1>8. ASSUME NEW c \in calls, Refuse(c)
        PROVE  \A m \in Nodes, i \in Ids : Same(m, i) \/ Idle(m, i)
    <2>1. c.from \in Nodes /\ c.id \in Ids /\ flight[c.from][c.id] # None
      BY <1>0, <1>8 DEF TypeOK, Calls, Refuse, Running
    <2>2. \E u \in BOOLEAN, open \in SUBSET calls : Fail(c.from, c.id, u, open)
      BY <1>8 DEF Refuse
    <2> QED BY <1>1, <2>1, <2>2
  <1>9. ASSUME NEW n \in Nodes, NEW id \in Ids,
               \/ EnqueueLost(n, id) \/ OpenFails(n, id)
               \/ ResolveApplied(n, id) \/ ResolveLost(n, id)
               \/ ForwardFails(n, id) \/ AwaitApplied(n, id)
        PROVE  \A m \in Nodes, i \in Ids : Same(m, i) \/ Idle(m, i)
    <2>1. /\ flight[n][id] # None
          /\ Succeed(n, id) \/ \E u \in BOOLEAN, open \in SUBSET calls : Fail(n, id, u, open)
      BY <1>9 DEF EnqueueLost, OpenFails, ResolveApplied, ResolveLost, ForwardFails,
            AwaitApplied, Running, Outstanding, Found
    <2> QED BY <1>1, <2>1
  <1>10. ASSUME flight' = flight PROVE \A m \in Nodes, i \in Ids : Same(m, i)
    BY <1>10
  <1>11. ASSUME NEW n \in Nodes,
               \/ Elect(n) \/ Establish(n) \/ Heartbeat(n) \/ StepDown(n) \/ ApplyFirst(n)
               \/ ApplyDuplicate(n) \/ ApplyCovered(n) \/ ApplyHalts(n)
        PROVE  flight' = flight
    BY <1>11 DEF Elect, Establish, Heartbeat, StepDown, ApplyFirst, ApplyDuplicate, ApplyCovered,
          ApplyHalts
  <1>12. ASSUME NEW n \in Nodes, NEW id \in Ids, NEW b \in Bodies, SubmitDecided(n, id, b)
         PROVE  flight' = flight
    BY <1>12 DEF SubmitDecided
  <1>13. ASSUME NEW p \in pending, Commit(p) PROVE flight' = flight
    BY <1>13 DEF Commit
  <1>14. UNCHANGED vars => flight' = flight
    BY DEF vars
  <1>15. \A m \in Nodes, i \in Ids : Same(m, i) \/ Idle(m, i) \/ Gets(m, i)
    BY <1>3, <1>4, <1>5, <1>6, <1>7, <1>8, <1>9, <1>10, <1>11, <1>12, <1>13, <1>14 DEF Next
  <1> SUFFICES ASSUME NEW n \in Nodes, NEW id \in Ids, Running(n, id, "await")'
               PROVE  \E m \in Nodes : /\ Decided(history'[m], id)
                                       /\ flight'[n][id].result = Result(history'[m], id)
    BY DEF AwaitKept
  <1>16. PICK m \in Nodes : /\ Decided(history[m], id)
                            /\ flight'[n][id].result = Result(history[m], id)
    <2>1. CASE Gets(n, id) BY <2>1
    <2>2. CASE Same(n, id)
      BY <2>2 DEF AwaitKept, Running
    <2>3. ~Idle(n, id)
      BY DEF Running
    <2> QED BY <1>15, <2>1, <2>2, <2>3
  <1>17. \A k \in DOMAIN history[m] : k \in DOMAIN history'[m] /\ history'[m][k] = history[m][k]
    BY HistoriesGrow
  <1> QED BY <1>16, <1>17, ResultsStay

----------------------------------------------------------------------------
(* Reservations                                                             *)

\* No daemon has stopped, and all callers of the event are behind replica s.
Sole(s, id) == restarts = 0 /\ \A q \in Requests : q[2] = id => q[1] = s

\* These bytes may still be decided, or are: they are on Raft, on their way to
\* a leader, or in the hands of another replica.
AtStake(s, id, b) ==
    \/ \E p \in pending : p.id = id /\ p.body = b
    \/ \E k \in DOMAIN committed : committed[k].id = id /\ committed[k].body = b
    \/ \E c \in calls : c.id = id /\ c.body = b
    \/ \E m \in Nodes \ {s} : \/ flight[m][id] # None /\ flight[m][id].body = b
                              \/ reserved[m][id] = b

\* Replica s keeps the event ID for these bytes: by a flight that will reserve
\* them, by a reservation, or by its store.
Guarded(s, id, b) ==
    IF flight[s][id] # None
    THEN /\ flight[s][id].body = b
         /\ flight[s][id].stage = "open" => flight[s][id].preserve
    ELSE reserved[s][id] = b \/ (reserved[s][id] = None /\ Found(s, id, b))

\* Whatever bytes are at stake, the replica its callers are behind guards them.
\* Guarded holds for one body at most, so no event is committed with two.
Reservation ==
    \A s \in Nodes, id \in Ids, b \in Bodies :
        Sole(s, id) /\ AtStake(s, id, b) => Guarded(s, id, b)

LEMMA OneBodyGuarded ==
    ASSUME TypeOK, NEW s \in Nodes, NEW id \in Ids, NEW b \in Bodies, NEW c \in Bodies,
           Guarded(s, id, b), Guarded(s, id, c)
    PROVE  b = c
  BY ProposalConstants DEF Guarded, Found

(* A decided event was committed, with the bytes it was decided with.       *)
LEMMA DecidedCommitted ==
    ASSUME Inv, NEW n \in Nodes, NEW id \in Ids, Decided(history[n], id)
    PROVE  \E k \in DOMAIN committed :
              /\ k \in 1..watermark[n].index
              /\ committed[k].id = id /\ committed[k].body = Result(history[n], id).body
  <1>0. TypeOK BY DEF Inv
  <1> DEFINE j == Position(history[n], id)
  <1>1. j \in DOMAIN history[n] /\ history[n][j].id = id
        /\ Result(history[n], id).body = history[n][j].body
    BY <1>0, StoreTypes, LookupTyped DEF Result
  <1>2. PICK q \in 1..watermark[n].index : Reduced(history[n], committed, j, q)
    BY <1>1 DEF Inv, Replay, FromLog
  <1>3. q \in DOMAIN committed
    BY <1>0, <1>2, StoreTypes DEF Inv, Replay, Covered
  <1> QED BY <1>1, <1>2, <1>3 DEF Reduced, Reduce

(* A replica that leaves its own flight and reservation alone guards on.    *)
LEMMA GuardKept ==
    ASSUME Inv, Inv', [Next]_vars, NEW s \in Nodes, NEW id \in Ids, NEW b \in Bodies,
           Guarded(s, id, b),
           flight'[s][id] = flight[s][id], reserved'[s][id] = reserved[s][id]
    PROVE  Guarded(s, id, b)'
  <1>1. Found(s, id, b) => Found(s, id, b)'
    <2> SUFFICES ASSUME Found(s, id, b) PROVE Found(s, id, b)'
      OBVIOUS
    <2>1. \A k \in DOMAIN history[s] : k \in DOMAIN history'[s] /\ history'[s][k] = history[s][k]
      BY HistoriesGrow
    <2>2. Decided(history'[s], id) /\ Result(history'[s], id) = Result(history[s], id)
      BY <2>1, ResultsStay DEF Found
    <2> QED BY <2>2 DEF Found
  <1> QED BY <1>1 DEF Guarded

(* Steps of Raft and of the FSM put no new bytes at stake.                  *)
LEMMA QuietKeeps ==
    ASSUME Inv, Inv', [Next]_vars, Reservation, UNCHANGED <<flight, reserved, calls, restarts>>,
           \A p \in pending' : p \in pending,
           \A k \in DOMAIN committed' :
              \/ k \in DOMAIN committed /\ committed'[k] = committed[k]
              \/ committed'[k] \in pending
    PROVE  Reservation'
  <1> SUFFICES ASSUME NEW s \in Nodes, NEW id \in Ids, NEW b \in Bodies,
                      Sole(s, id)', AtStake(s, id, b)'
               PROVE  Guarded(s, id, b)'
    BY DEF Reservation
  <1>1. Sole(s, id) BY DEF Sole
  <1>2. AtStake(s, id, b) BY DEF AtStake
  <1>3. Guarded(s, id, b) BY <1>1, <1>2 DEF Reservation
  <1> QED BY <1>3, GuardKept

(* A flight ends: with the result of its bytes, with a reservation of them, *)
(* or when they cannot be at stake.                                         *)
LEMMA EndKeeps ==
    ASSUME Inv, Inv', [Next]_vars, Reservation,
           UNCHANGED <<pending, committed, history, restarts>>,
           NEW n \in Nodes, NEW i \in Ids, flight[n][i] # None,
           \/ Succeed(n, i) /\ Found(n, i, flight[n][i].body)
           \/ \E u \in BOOLEAN, open \in SUBSET calls :
                 /\ Fail(n, i, u, open)
                 /\ u \/ flight[n][i].stage = "open" \/ ~Sole(n, i)
    PROVE  Reservation'
  <1>0. TypeOK BY DEF Inv
  <1> SUFFICES ASSUME NEW s \in Nodes, NEW id \in Ids, NEW b \in Bodies,
                      Sole(s, id)', AtStake(s, id, b)'
               PROVE  Guarded(s, id, b)'
    BY DEF Reservation
  <1>1. Sole(s, id) BY DEF Sole
  <1>2. Succeed(n, i) \/ \E u \in BOOLEAN, open \in SUBSET calls : Fail(n, i, u, open)
    OBVIOUS
  <1>3. /\ flight'[n][i] = None
        /\ reserved'[n][i] \in {None, flight[n][i].body}
        /\ \A m \in Nodes, j \in Ids : <<m, j>> # <<n, i>> =>
              flight'[m][j] = flight[m][j] /\ reserved'[m][j] = reserved[m][j]
        /\ \A c \in calls' : \E d \in calls : d.id = c.id /\ d.body = c.body
    BY <1>0, <1>2, FlightEnds
  <1>4. AtStake(s, id, b)
    <2>1. CASE \E p \in pending' : p.id = id /\ p.body = b
      BY <2>1 DEF AtStake
    <2>2. CASE \E k \in DOMAIN committed' : committed'[k].id = id /\ committed'[k].body = b
      BY <2>2 DEF AtStake
    <2>3. CASE \E c \in calls' : c.id = id /\ c.body = b
      BY <1>3, <2>3 DEF AtStake
    <2>4. ASSUME NEW m \in Nodes \ {s},
                 (flight'[m][id] # None /\ flight'[m][id].body = b) \/ reserved'[m][id] = b
          PROVE  AtStake(s, id, b)
      <3>1. CASE <<m, id>> = <<n, i>>
        BY <1>3, <2>4, <3>1, ProposalConstants DEF AtStake
      <3>2. CASE <<m, id>> # <<n, i>>
        BY <1>3, <2>4, <3>2 DEF AtStake
      <3> QED BY <3>1, <3>2
    <2> QED BY <2>1, <2>2, <2>3, <2>4 DEF AtStake
  <1>5. Guarded(s, id, b) BY <1>1, <1>4 DEF Reservation
  <1>6. CASE <<n, i>> # <<s, id>>
    BY <1>3, <1>5, <1>6, GuardKept
  <1>7. CASE n = s /\ i = id
    <2>1. /\ flight[s][id] # None /\ flight[s][id].body = b
          /\ flight[s][id].stage = "open" => flight[s][id].preserve
      BY <1>5, <1>7 DEF Guarded
    <2>2. CASE Succeed(n, i) /\ Found(n, i, flight[n][i].body)
      <3>1. Found(s, id, b)'
        BY <1>7, <2>1, <2>2 DEF Found
      <3>2. reserved'[s][id] = None
        BY <1>0, <1>7, <2>2 DEF Succeed, TypeOK
      <3> QED BY <1>3, <1>7, <3>1, <3>2 DEF Guarded
    <2>3. ASSUME NEW u \in BOOLEAN, NEW open \in SUBSET calls, Fail(n, i, u, open),
                 u \/ flight[n][i].stage = "open" \/ ~Sole(n, i)
          PROVE  Guarded(s, id, b)'
      <3>1. Reserves(flight[s][id], u)
        BY <1>1, <1>7, <2>1, <2>3 DEF Reserves
      <3>2. reserved'[s][id] = b
        BY <1>0, <1>7, <2>1, <2>3, <3>1 DEF Fail, TypeOK
      <3> QED BY <1>3, <1>7, <3>2 DEF Guarded
    <2> QED BY <2>2, <2>3
  <1> QED BY <1>6, <1>7

(* A caller is answered from the store, or its bytes get a flight: the bytes *)
(* at stake are the ones that are reserved (beginProposal).                 *)
LEMMA SubmitKeeps ==
    ASSUME Inv, Inv', [Next]_vars, Reservation, NEW n \in Nodes, NEW i \in Ids, NEW x \in Bodies,
           SubmitDecided(n, i, x) \/ Submit(n, i, x)
    PROVE  Reservation'
  <1> USE DEF storeVars, raftVars
  <1>0. TypeOK BY DEF Inv
  <1>a. /\ UNCHANGED <<pending, committed, calls, history, restarts>>
        /\ <<n, i, x>> \in Requests /\ flight[n][i] = None /\ ~Conflict(n, i, x)
    BY DEF SubmitDecided, Submit
  <1> SUFFICES ASSUME NEW s \in Nodes, NEW id \in Ids, NEW b \in Bodies,
                      Sole(s, id)', AtStake(s, id, b)'
               PROVE  Guarded(s, id, b)'
    BY DEF Reservation
  <1>1. Sole(s, id) BY <1>a DEF Sole
  <1>2. i = id => n = s
    BY <1>1, <1>a DEF Sole
  <1>3. \A m \in Nodes, j \in Ids : <<m, j>> # <<n, i>> =>
              flight'[m][j] = flight[m][j] /\ reserved'[m][j] = reserved[m][j]
    <2>1. CASE SubmitDecided(n, i, x)
      BY <1>0, <2>1 DEF SubmitDecided, TypeOK
    <2>2. CASE Submit(n, i, x)
      BY <1>0, <2>2 DEF Submit, TypeOK
    <2> QED BY <2>1, <2>2
  <1>4. AtStake(s, id, b)
    BY <1>2, <1>3, <1>a DEF AtStake
  <1>5. Guarded(s, id, b) BY <1>1, <1>4 DEF Reservation
  <1>6. CASE i # id
    BY <1>3, <1>5, <1>6, GuardKept
  <1>7. CASE i = id
    <2>1. n = s BY <1>2, <1>7
    <2>2. reserved[s][id] = b \/ (reserved[s][id] = None /\ Found(s, id, b))
      BY <1>5, <1>7, <1>a, <2>1 DEF Guarded
    <2>3. reserved[s][id] \in {None, x} /\ (Decided(history[s], id) => Found(s, id, x))
      BY <1>7, <1>a, <2>1 DEF Conflict
    <2>4. x = b
      BY <2>2, <2>3, ProposalConstants DEF Found
    <2>5. CASE SubmitDecided(n, i, x)
      <3>1. flight' = flight /\ reserved'[s][id] = None
        BY <1>0, <1>7, <2>1, <2>5 DEF SubmitDecided, TypeOK
      <3>2. Found(s, id, b)'
        BY <1>7, <1>a, <2>1, <2>4, <2>5 DEF SubmitDecided, Found
      <3> QED BY <1>7, <1>a, <2>1, <3>1, <3>2 DEF Guarded
    <2>6. CASE Submit(n, i, x)
      <3>1. reserved[s][id] = b
        BY <1>7, <2>1, <2>2, <2>4, <2>6 DEF Submit
      <3>2. flight'[s][id] = Open(s, id, b, TRUE)
        BY <1>0, <1>7, <2>1, <2>4, <2>6 DEF Submit, TypeOK
      <3>3. flight'[s][id].body = b /\ flight'[s][id].preserve /\ flight'[s][id] \in Flights
        <4>1. Open(s, id, b, TRUE) \in Flights
          BY <1>0, FlightTyped
        <4>2. /\ Open(s, id, b, TRUE).body = b
              /\ Open(s, id, b, TRUE).preserve = (reserved[s][id] # None)
          BY DEF Open
        <4> QED BY <3>1, <3>2, <4>1, <4>2, ProposalConstants
      <3> QED BY <3>3, NoneAssumption DEF Guarded
    <2> QED BY <2>5, <2>6
  <1> QED BY <1>6, <1>7

(* A flight that goes on puts at stake only the bytes it guards: it appends *)
(* them, sends them on or waits for their result.                           *)
LEMMA StageKeeps ==
    ASSUME Inv, Inv', [Next]_vars, Reservation,
           UNCHANGED <<committed, history, reserved, restarts>>,
           NEW n \in Nodes, NEW i \in Ids, flight[n][i] # None,
           NEW stage \in {"raft", "forward", "await"}, NEW t \in Nat, NEW r \in Results \cup {None},
           flight' = [flight EXCEPT ![n][i] = Staged(flight[n][i], stage, t, r)],
           \A p \in pending' : p \in pending \/ (p.id = i /\ p.body = flight[n][i].body),
           \A c \in calls' : c \in calls \/ (c.id = i /\ c.body = flight[n][i].body)
    PROVE  Reservation'
  <1>0. TypeOK BY DEF Inv
  <1> DEFINE f == flight[n][i]
             g == Staged(f, stage, t, r)
  <1> SUFFICES ASSUME NEW s \in Nodes, NEW id \in Ids, NEW b \in Bodies,
                      Sole(s, id)', AtStake(s, id, b)'
               PROVE  Guarded(s, id, b)'
    BY DEF Reservation
  <1>1. Sole(s, id) BY DEF Sole
  <1>2. g.body = f.body /\ g.stage = stage /\ g \in Flights
    BY <1>0, FlightTyped DEF Staged
  <1>3. g # None /\ g.stage # "open"
    BY <1>2, NoneAssumption
  <1>4. flight'[n][i] = g
        /\ \A m \in Nodes, j \in Ids : <<m, j>> # <<n, i>> => flight'[m][j] = flight[m][j]
    BY <1>0 DEF TypeOK
  <1> HIDE DEF g
  <1>5. CASE n = s /\ i = id /\ f.body = b
    BY <1>2, <1>3, <1>4, <1>5 DEF Guarded
  <1>6. CASE ~(n = s /\ i = id /\ f.body = b)
    <2>1. AtStake(s, id, b)
      <3>1. ASSUME i = id, f.body = b PROVE AtStake(s, id, b)
        BY <1>6, <3>1 DEF AtStake
      <3>2. CASE \E p \in pending' : p.id = id /\ p.body = b
        BY <3>1, <3>2 DEF AtStake
      <3>3. CASE \E k \in DOMAIN committed' : committed'[k].id = id /\ committed'[k].body = b
        BY <3>3 DEF AtStake
      <3>4. CASE \E c \in calls' : c.id = id /\ c.body = b
        BY <3>1, <3>4 DEF AtStake
      <3>5. ASSUME NEW m \in Nodes \ {s},
                   (flight'[m][id] # None /\ flight'[m][id].body = b) \/ reserved'[m][id] = b
            PROVE  AtStake(s, id, b)
        <4>1. CASE <<m, id>> = <<n, i>>
          BY <1>2, <1>4, <3>1, <3>5, <4>1 DEF AtStake
        <4>2. CASE <<m, id>> # <<n, i>>
          BY <1>4, <3>5, <4>2 DEF AtStake
        <4> QED BY <4>1, <4>2
      <3> QED BY <3>2, <3>3, <3>4, <3>5 DEF AtStake
    <2>2. Guarded(s, id, b) BY <1>1, <2>1 DEF Reservation
    <2>3. <<n, i>> # <<s, id>>
      BY <1>6, <2>2 DEF Guarded
    <2> QED BY <1>4, <2>2, <2>3, GuardKept
  <1> QED BY <1>5, <1>6

(* A leader that opens a flight for a call it is sent has nothing else at   *)
(* stake; the replica the callers are behind has the bytes reserved.        *)
LEMMA ServeKeeps ==
    ASSUME Inv, Inv', [Next]_vars, Reservation, NEW c \in calls, Serve(c)
    PROVE  Reservation'
  <1> USE DEF storeVars, raftVars
  <1>0. TypeOK BY DEF Inv
  <1>a. c.to \in Nodes /\ c.id \in Ids /\ c.body \in Bodies
    BY <1>0 DEF TypeOK, Calls
  <1>b. /\ UNCHANGED <<pending, committed, history, reserved, restarts>>
        /\ \/ flight' = flight
           \/ /\ flight[c.to][c.id] = None /\ ~Found(c.to, c.id, c.body)
              /\ flight' = [flight EXCEPT ![c.to][c.id] = Open(c.to, c.id, c.body, FALSE)]
    BY DEF Serve
  <1>c. \A e \in calls' : e \in calls \/ (e.id = c.id /\ e.body = c.body)
    BY DEF Serve, CallBy
  <1> DEFINE g == Open(c.to, c.id, c.body, FALSE)
  <1>d. g \in Flights /\ g.body = c.body /\ g.preserve = (reserved[c.to][c.id] # None)
    BY <1>0, <1>a, FlightTyped DEF Open
  <1> HIDE DEF g
  <1> SUFFICES ASSUME NEW s \in Nodes, NEW id \in Ids, NEW b \in Bodies,
                      Sole(s, id)', AtStake(s, id, b)'
               PROVE  Guarded(s, id, b)'
    BY DEF Reservation
  <1>1. Sole(s, id) BY <1>b DEF Sole
  <1>2. \A m \in Nodes, j \in Ids :
          \/ flight'[m][j] = flight[m][j]
          \/ m = c.to /\ j = c.id /\ flight'[m][j] = g
    <2>1. CASE flight' = flight BY <2>1
    <2>2. CASE flight' = [flight EXCEPT ![c.to][c.id] = g]
      BY <1>0, <1>a, <2>2 DEF TypeOK
    <2> QED BY <1>b, <2>1, <2>2 DEF g
  <1>3. AtStake(s, id, b)
    <2>1. CASE \E p \in pending' : p.id = id /\ p.body = b
      BY <1>b, <2>1 DEF AtStake
    <2>2. CASE \E k \in DOMAIN committed' : committed'[k].id = id /\ committed'[k].body = b
      BY <1>b, <2>2 DEF AtStake
    <2>3. CASE \E e \in calls' : e.id = id /\ e.body = b
      BY <1>c, <2>3 DEF AtStake
    <2>4. ASSUME NEW m \in Nodes \ {s},
                 (flight'[m][id] # None /\ flight'[m][id].body = b) \/ reserved'[m][id] = b
          PROVE  AtStake(s, id, b)
      BY <1>2, <1>b, <1>d, <2>4 DEF AtStake
    <2> QED BY <2>1, <2>2, <2>3, <2>4 DEF AtStake
  <1>4. Guarded(s, id, b) BY <1>1, <1>3 DEF Reservation
  <1>5. CASE flight'[s][id] = flight[s][id]
    BY <1>4, <1>5, <1>b, GuardKept
  <1>6. CASE flight'[s][id] # flight[s][id]
    <2>1. /\ s = c.to /\ id = c.id /\ flight'[s][id] = g
          /\ flight[s][id] = None /\ ~Found(s, id, c.body)
      BY <1>2, <1>6, <1>b
    <2>2. Guarded(s, id, c.body)
      BY <1>1, <1>a, <2>1 DEF Reservation, AtStake
    <2>3. b = c.body
      BY <1>0, <1>4, <1>a, <2>2, OneBodyGuarded
    <2>4. reserved[s][id] = b
      BY <1>4, <2>1, <2>3 DEF Guarded
    <2>5. g.preserve /\ g.body = b
      BY <1>d, <2>1, <2>3, <2>4, ProposalConstants
    <2>6. g # None
      BY <1>d, NoneAssumption
    <2> QED BY <2>1, <2>5, <2>6 DEF Guarded
  <1> QED BY <1>5, <1>6

(* Where all callers are behind the sender, no leader refuses its bytes for *)
(* others.                                                                  *)
LEMMA RefusedNotSole ==
    ASSUME Inv, Reservation, NEW c \in calls, Refuse(c)
    PROVE  ~Sole(c.from, c.id)
  <1>0. TypeOK BY DEF Inv
  <1> DEFINE s == c.from
             id == c.id
  <1>1. c.to \in Nodes /\ id \in Ids /\ c.body \in Bodies /\ s \in Nodes
    BY <1>0 DEF TypeOK, Calls, Refuse
  <1>2. flight[s][id] # None /\ Conflict(c.to, id, c.body)
    BY DEF Refuse, Running
  <1> SUFFICES ASSUME Sole(s, id) PROVE FALSE
    OBVIOUS
  <1>3. Guarded(s, id, c.body)
    BY <1>1 DEF Reservation, AtStake
  <1>4. \A b \in Bodies : AtStake(s, id, b) => b = c.body
    BY <1>0, <1>1, <1>3, OneBodyGuarded DEF Reservation
  <1>5. c.to # s \/ flight[c.to][id].body = c.body
    BY <1>2, <1>3 DEF Guarded
  <1>6. ASSUME c.to # s, flight[c.to][id] # None PROVE flight[c.to][id].body = c.body
    <2>1. flight[c.to][id].body \in Bodies
      BY <1>0, <1>1, <1>6, FlightTyped DEF Flights
    <2> QED BY <1>1, <1>4, <1>6, <2>1 DEF AtStake
  <1>7. ASSUME c.to # s PROVE reserved[c.to][id] \in {None, c.body}
    <2>1. reserved[c.to][id] \in Bodies \cup {None}
      BY <1>0, <1>1 DEF TypeOK
    <2> QED BY <1>1, <1>4, <1>7, <2>1 DEF AtStake
  <1>8. ASSUME Decided(history[c.to], id) PROVE Found(c.to, id, c.body)
    <2>1. PICK k \in DOMAIN committed :
            committed[k].id = id /\ committed[k].body = Result(history[c.to], id).body
      BY <1>1, <1>8, DecidedCommitted
    <2>2. committed[k].body \in Bodies
      BY <1>0, StoreTypes
    <2> QED BY <1>4, <1>8, <2>1, <2>2 DEF AtStake, Found
  <1> QED BY <1>2, <1>5, <1>6, <1>7, <1>8 DEF Conflict

(* The bytes at stake stay guarded.                                         *)
LEMMA ReservationStep ==
    ASSUME Inv, Inv', Reservation, [Next]_vars
    PROVE  Reservation'
  <1> USE DEF storeVars, raftVars
  <1>0. TypeOK BY DEF Inv
  <1>1. ASSUME NEW n \in Nodes,
               \/ Elect(n) \/ Establish(n) \/ Heartbeat(n) \/ StepDown(n) \/ ApplyFirst(n)
               \/ ApplyDuplicate(n) \/ ApplyCovered(n) \/ ApplyHalts(n)
        PROVE  Reservation'
    <2>1. UNCHANGED <<flight, reserved, calls, restarts, committed>>
          /\ \A p \in pending' : p \in pending
      BY <1>1 DEF Elect, Establish, Heartbeat, StepDown, ApplyFirst, ApplyDuplicate,
            ApplyCovered, ApplyHalts
    <2> QED BY <2>1, QuietKeeps
  <1>2. ASSUME NEW p \in pending, Commit(p) PROVE Reservation'
    <2>1. UNCHANGED <<flight, reserved, calls, restarts>> /\ \A q \in pending' : q \in pending
      BY <1>2 DEF Commit
    <2>2. \A k \in DOMAIN committed' : \/ k \in DOMAIN committed /\ committed'[k] = committed[k]
                                       \/ committed'[k] \in pending
      BY <1>0, <1>2, LogAppended, StoreTypes
    <2> QED BY <2>1, <2>2, QuietKeeps
  <1>3. CASE UNCHANGED vars
    BY <1>3, QuietKeeps DEF vars
  <1>4. ASSUME NEW n \in Nodes, Restart(n) PROVE Reservation'
    BY <1>0, <1>4 DEF Restart, TypeOK, Reservation, Sole
  <1>5. ASSUME NEW n \in Nodes, NEW id \in Ids, NEW b \in Bodies,
               SubmitDecided(n, id, b) \/ Submit(n, id, b)
        PROVE  Reservation'
    BY <1>5, SubmitKeeps
  <1>6. ASSUME NEW n \in Nodes, NEW id \in Ids, NEW m \in Nodes, Forward(n, id, m)
        PROVE  Reservation'
    <2>1. /\ flight[n][id] # None
          /\ UNCHANGED <<committed, history, reserved, restarts, pending>>
          /\ flight' = [flight EXCEPT ![n][id] = Staged(flight[n][id], "forward", 0, None)]
      BY <1>0, <1>6 DEF Forward, Running, TypeOK
    <2>2. \A c \in calls' : c \in calls \/ (c.id = id /\ c.body = flight[n][id].body)
      BY <1>6 DEF Forward
    <2> QED BY <2>1, <2>2, StageKeeps
  <1>7. ASSUME NEW n \in Nodes, NEW id \in Ids, Enqueue(n, id) PROVE Reservation'
    <2>1. /\ flight[n][id] # None /\ leading[n] \in Nat
          /\ UNCHANGED <<committed, history, reserved, restarts, calls>>
          /\ flight' = [flight EXCEPT ![n][id] = Staged(flight[n][id], "raft", leading[n], None)]
      BY <1>0, <1>7 DEF Enqueue, Running, TypeOK
    <2>2. \A p \in pending' : p \in pending \/ (p.id = id /\ p.body = flight[n][id].body)
      BY <1>7 DEF Enqueue
    <2> QED BY <2>1, <2>2, StageKeeps
  <1>8. ASSUME NEW c \in calls, Serve(c) PROVE Reservation'
    BY <1>8, ServeKeeps
  <1>9. ASSUME NEW c \in calls, Reply(c) PROVE Reservation'
    <2>1. c.from \in Nodes /\ c.id \in Ids /\ flight[c.from][c.id] # None
      BY <1>0, <1>9 DEF TypeOK, Calls, Reply, Running
    <2>2. Result(history[c.to], c.id) \in Results
      BY <1>0, <1>9, StoreTypes, LookupTyped DEF TypeOK, Calls, Reply, Found
    <2>3. /\ UNCHANGED <<committed, history, reserved, restarts, pending>>
          /\ flight' = [flight EXCEPT ![c.from][c.id] =
                  Staged(flight[c.from][c.id], "await", 0, Result(history[c.to], c.id))]
          /\ \A d \in calls' : d \in calls
      BY <1>9 DEF Reply
    <2> QED BY <2>1, <2>2, <2>3, StageKeeps
  <1>10. ASSUME NEW c \in calls, Refuse(c) PROVE Reservation'
    <2>1. /\ c.from \in Nodes /\ c.id \in Ids /\ flight[c.from][c.id] # None
          /\ UNCHANGED <<pending, committed, history, restarts>>
          /\ Fail(c.from, c.id, FALSE, calls \ {c})
      BY <1>0, <1>10 DEF TypeOK, Calls, Refuse, Running
    <2>2. ~Sole(c.from, c.id) BY <1>10, RefusedNotSole
    <2>3. \E u \in BOOLEAN, open \in SUBSET calls :
             Fail(c.from, c.id, u, open) /\ (u \/ flight[c.from][c.id].stage = "open"
                                             \/ ~Sole(c.from, c.id))
      BY <2>1, <2>2
    <2> QED BY <2>1, <2>3, EndKeeps
  <1>11. ASSUME NEW n \in Nodes, NEW id \in Ids,
                \/ EnqueueLost(n, id) \/ OpenFails(n, id)
                \/ ResolveApplied(n, id) \/ ResolveLost(n, id)
                \/ ForwardFails(n, id) \/ AwaitApplied(n, id)
         PROVE  Reservation'
    <2>1. flight[n][id] # None /\ UNCHANGED <<pending, committed, history, restarts>>
      BY <1>11 DEF EnqueueLost, OpenFails, ResolveApplied, ResolveLost, ForwardFails,
            AwaitApplied, Running, Outstanding
    <2> DEFINE Ends == \/ Succeed(n, id) /\ Found(n, id, flight[n][id].body)
                       \/ \E u \in BOOLEAN, open \in SUBSET calls :
                             /\ Fail(n, id, u, open)
                             /\ u \/ flight[n][id].stage = "open" \/ ~Sole(n, id)
    <2>2. ASSUME ResolveApplied(n, id) PROVE Ends
      <3>1. PICK k \in 1..applied[n] :
              committed[k] = [term |-> flight[n][id].term, id |-> id, body |-> flight[n][id].body]
        BY <2>2 DEF ResolveApplied
      <3>2. k \in 1..watermark[n].index
        BY <1>0, <3>1 DEF TypeOK, Inv, Replay, Covered
      <3>3. PICK p \in DOMAIN history[n] :
              history[n][p].id = id /\ history[n][p].body = flight[n][id].body
        BY <3>1, <3>2 DEF Inv, Replay, Complete
      <3>4. Position(history[n], id) = p
        BY <3>3, PositionUnique DEF Inv
      <3> QED BY <2>2, <3>3, <3>4 DEF ResolveApplied, Found, Decided, Result
    <2>3. ASSUME AwaitApplied(n, id) PROVE Ends
      <3> DEFINE u == Found(n, id, flight[n][id].body)
      <3>a. u \in BOOLEAN
        BY DEF Found
      <3>b. /\ Decided(history[n], id)
            /\ (Succeed(n, id) /\ u) \/ Fail(n, id, u, calls)
        BY <2>3 DEF AwaitApplied
      <3>1. CASE u
        BY <3>1, <3>a, <3>b
      <3>2. CASE ~u
        <4>1. Decided(history[n], id) /\ Fail(n, id, u, calls)
          BY <3>2, <3>b
        <4>2. ~Sole(n, id)
          <5> SUFFICES ASSUME Sole(n, id) PROVE FALSE
            OBVIOUS
          <5>1. PICK k \in DOMAIN committed :
                  committed[k].id = id /\ committed[k].body = Result(history[n], id).body
            BY <4>1, DecidedCommitted
          <5>2. Guarded(n, id, committed[k].body)
            BY <1>0, <5>1, StoreTypes DEF Reservation, AtStake
          <5> QED BY <2>1, <3>2, <4>1, <5>1, <5>2 DEF Guarded, Found
        <4> QED BY <3>a, <4>1, <4>2
      <3> QED BY <3>1, <3>2
    <2>4. ASSUME EnqueueLost(n, id) PROVE Ends
      BY <2>4 DEF EnqueueLost
    <2>5. ASSUME OpenFails(n, id) PROVE Ends
      BY <2>5 DEF OpenFails, Running
    <2>6. ASSUME ResolveLost(n, id) \/ ForwardFails(n, id) PROVE Ends
      BY <2>6 DEF ResolveLost, ForwardFails
    <2>7. Ends BY <1>11, <2>2, <2>3, <2>4, <2>5, <2>6
    <2> QED BY <2>1, <2>7, EndKeeps
  <1> QED BY <1>1, <1>2, <1>3, <1>4, <1>5, <1>6, <1>7, <1>8, <1>9, <1>10, <1>11 DEF Next

----------------------------------------------------------------------------
(* Halts                                                                    *)

(* Two bodies of an event are committed only where reservations cannot keep *)
(* them apart.                                                              *)
LEMMA TwoBodiesUnreserved ==
    ASSUME Inv, Reservation, NEW j \in DOMAIN committed, NEW k \in DOMAIN committed,
           committed[j].id = committed[k].id, committed[j].body # committed[k].body,
           Nodes # {}
    PROVE  Unreserved(committed[j].id)
  <1>0. TypeOK BY DEF Inv
  <1> DEFINE id == committed[j].id
  <1>1. id \in Ids /\ committed[j].body \in Bodies /\ committed[k].body \in Bodies
    BY <1>0, StoreTypes
  <1> SUFFICES ASSUME ~Unreserved(id) PROVE FALSE
    OBVIOUS
  <1>2. restarts = 0 /\ \A q, r \in Requests : q[2] = id /\ r[2] = id => q[1] = r[1]
    BY <1>0 DEF Unreserved, TypeOK
  <1>3. \E s \in Nodes : \A q \in Requests : q[2] = id => q[1] = s
    <2>1. CASE \E q \in Requests : q[2] = id
      <3>1. PICK q \in Requests : q[2] = id BY <2>1
      <3>2. q[1] \in Nodes BY ProposalConstants
      <3> QED BY <1>2, <3>1, <3>2
    <2>2. CASE ~\E q \in Requests : q[2] = id
      BY <2>2
    <2> QED BY <2>1, <2>2
  <1>4. PICK s \in Nodes : Sole(s, id)
    BY <1>2, <1>3 DEF Sole
  <1>5. Guarded(s, id, committed[j].body) /\ Guarded(s, id, committed[k].body)
    BY <1>1, <1>4 DEF Reservation, AtStake
  <1> QED BY <1>0, <1>1, <1>4, <1>5, OneBodyGuarded

\* Why a replica may be halted.
Explained(n) ==
    \/ FloorAbove(history[n], Binary[n])
    \/ \E j, k \in DOMAIN committed :
          /\ committed[j].id = committed[k].id /\ committed[j].body # committed[k].body
          /\ Unreserved(committed[j].id)

(* The only log entry the FSM cannot explain is a second body of an event:  *)
(* positions and terms never go back, and a covered position is bound to    *)
(* what it held.                                                            *)
LEMMA ApplyHaltExplained ==
    ASSUME Inv, TermsOrdered, BindsLog, Reservation, NEW n \in Nodes, ApplyHalts(n)
    PROVE  Explained(n)
  <1>0. TypeOK BY DEF Inv
  <1> DEFINE u == Upcoming(n)
             e == Delivered(n)
             w == watermark[n].index
  <1>1. Deliverable(n) /\ Unexplained(n)
    BY DEF ApplyHalts
  <1>2. /\ u \in 1..Len(committed) /\ e = committed[u] /\ u \in DOMAIN committed
        /\ w \in Nat /\ w <= Len(committed) /\ e.id \in Ids /\ e.body \in Bodies
        /\ Len(committed) \in Nat
        /\ u > w => u = w + 1
    BY <1>0, <1>1, DeliveredTyped, StoreTypes DEF Inv, Replay, Covered
  <1>3. ASSUME u > w PROVE e.term >= watermark[n].term
    <2>1. CASE w = 0
      BY <1>0, <1>2, <2>1, StoreTypes DEF BindsLog
    <2>2. CASE w > 0
      <3>1. w \in DOMAIN committed /\ watermark[n].term = committed[w].term
        BY <1>0, <1>2, <2>2, StoreTypes DEF BindsLog
      <3>2. committed[w].term <= committed[u].term
        BY <1>2, <1>3, <3>1 DEF TermsOrdered
      <3> QED BY <1>0, <1>2, <3>1, <3>2, StoreTypes
    <2> QED BY <1>2, <2>1, <2>2
  <1>4. ASSUME u <= w PROVE VerifyRaftCommand(n, u, e) /\ Decided(history[n], e.id)
    <2>1. u \in 1..w BY <1>2, <1>4
    <2>2. \A a : a \in applications[n] <=> \E k \in 1..w : a = Binding(k, committed[k])
      BY DEF BindsLog
    <2>3. \A k : Binding(k, committed[k]).index = k
      BY DEF Binding
    <2>4. {a \in applications[n] : a.index = u} = {Binding(u, committed[u])}
      BY <2>1, <2>2, <2>3
    <2>5. Decided(history[n], e.id)
      BY <1>2, <2>1 DEF Inv, Replay, Complete, Decided
    <2> QED BY <1>2, <2>4, <2>5 DEF VerifyRaftCommand
  <1>5. ASSUME Decided(history[n], e.id) PROVE w > 0
    <2>1. PICK k \in DOMAIN committed : k \in 1..w
      BY <1>2, <1>5, DecidedCommitted
    <2> QED BY <1>2, <2>1
  <1>6. e.term \in Nat /\ watermark[n].term \in Nat
    BY <1>0, <1>2, StoreTypes
  <1>7. Decided(history[n], e.id) /\ ~Found(n, e.id, e.body)
    <2>1. u > w \/ u <= w BY <1>2
    <2> QED BY <1>1, <1>2, <1>3, <1>4, <1>5, <1>6, <2>1 DEF Unexplained
  <1>8. PICK k \in DOMAIN committed :
          committed[k].id = e.id /\ committed[k].body = Result(history[n], e.id).body
    BY <1>2, <1>7, DecidedCommitted
  <1>9. committed[u].id = committed[k].id /\ committed[u].body # committed[k].body
    BY <1>2, <1>7, <1>8 DEF Found
  <1>10. Unreserved(committed[u].id)
    BY <1>2, <1>9, TwoBodiesUnreserved
  <1> QED BY <1>2, <1>9, <1>10 DEF Explained

(* A forwarding replica never finds another result than the leader's.       *)
LEMMA AwaitNeverHalts ==
    ASSUME Inv, AwaitKept, NEW n \in Nodes, NEW id \in Ids, AwaitApplied(n, id)
    PROVE  UNCHANGED halted
  <1>1. Running(n, id, "await") /\ Decided(history[n], id)
    BY DEF AwaitApplied
  <1>2. PICK m \in Nodes : /\ Decided(history[m], id)
                           /\ flight[n][id].result = Result(history[m], id)
    BY <1>1 DEF AwaitKept
  <1>3. Result(history[n], id) = flight[n][id].result
    BY <1>1, <1>2, ResultsAgree
  <1> QED BY <1>3 DEF AwaitApplied, SameForwardedResult

(* An explanation stays one: stores and the log only grow.                  *)
LEMMA ExplanationStays ==
    ASSUME Inv, [Next]_vars, NEW n \in Nodes, Explained(n)
    PROVE  Explained(n)'
  <1> USE DEF storeVars, raftVars
  <1>0. TypeOK BY DEF Inv
  <1>a. ASSUME NEW m \in Nodes,
               \/ Elect(m) \/ Establish(m) \/ Heartbeat(m) \/ StepDown(m) \/ ApplyFirst(m)
               \/ ApplyDuplicate(m) \/ ApplyCovered(m) \/ ApplyHalts(m)
        PROVE  committed' = committed /\ restarts' = restarts
    BY <1>a DEF Elect, Establish, Heartbeat, StepDown, ApplyFirst, ApplyDuplicate, ApplyCovered,
          ApplyHalts
  <1>b. ASSUME NEW m \in Nodes, NEW id \in Ids,
               \/ \E b \in Bodies : SubmitDecided(m, id, b) \/ Submit(m, id, b)
               \/ \E l \in Nodes : Forward(m, id, l)
               \/ Enqueue(m, id) \/ EnqueueLost(m, id) \/ OpenFails(m, id)
               \/ ResolveApplied(m, id) \/ ResolveLost(m, id)
               \/ ForwardFails(m, id) \/ AwaitApplied(m, id)
        PROVE  committed' = committed /\ restarts' = restarts
    BY <1>b DEF SubmitDecided, Submit, Forward, Enqueue, EnqueueLost, OpenFails, ResolveApplied,
          ResolveLost, ForwardFails, AwaitApplied
  <1>c. ASSUME NEW c \in calls, Serve(c) \/ Reply(c) \/ Refuse(c)
        PROVE  committed' = committed /\ restarts' = restarts
    BY <1>c DEF Serve, Reply, Refuse
  <1>d. UNCHANGED vars => committed' = committed /\ restarts' = restarts
    BY DEF vars
  <1>e. ASSUME NEW m \in Nodes, Restart(m)
        PROVE  committed' = committed /\ restarts' = restarts + 1
    BY <1>e DEF Restart
  <1>1. \A k \in DOMAIN history[n] : k \in DOMAIN history'[n] /\ history'[n][k] = history[n][k]
    BY HistoriesGrow
  <1>2. FloorAbove(history[n], Binary[n]) => FloorAbove(history'[n], Binary[n])
    BY <1>1 DEF FloorAbove, Accepted
  <1>3. \A k \in DOMAIN committed : k \in DOMAIN committed' /\ committed'[k] = committed[k]
    <2>1. ASSUME NEW p \in pending, Commit(p)
          PROVE  \A k \in DOMAIN committed : k \in DOMAIN committed' /\ committed'[k] = committed[k]
      BY <1>0, <2>1, LogAppended
    <2>2. committed' = committed
          => \A k \in DOMAIN committed : k \in DOMAIN committed' /\ committed'[k] = committed[k]
      OBVIOUS
    <2> QED BY <1>a, <1>b, <1>c, <1>d, <1>e, <2>1, <2>2 DEF Next
  <1>4. restarts' \in {restarts, restarts + 1} /\ restarts \in Nat
    <2>1. restarts \in Nat BY <1>0 DEF TypeOK
    <2>2. ASSUME NEW p \in pending, Commit(p) PROVE restarts' = restarts
      BY <2>2 DEF Commit
    <2> QED BY <1>a, <1>b, <1>c, <1>d, <1>e, <2>1, <2>2 DEF Next
  <1>5. \A i : Unreserved(i) => Unreserved(i)'
    BY <1>4 DEF Unreserved
  <1>6. CASE FloorAbove(history[n], Binary[n])
    BY <1>2, <1>6 DEF Explained
  <1>7. ASSUME NEW j \in DOMAIN committed, NEW k \in DOMAIN committed,
               committed[j].id = committed[k].id, committed[j].body # committed[k].body,
               Unreserved(committed[j].id)
        PROVE  Explained(n)'
    <2>1. \A i \in Ids : i = committed[j].id => Unreserved(i)'
      BY <1>5, <1>7
    <2>2. committed'[j] = committed[j] /\ committed'[k] = committed[k]
          /\ j \in DOMAIN committed' /\ k \in DOMAIN committed' /\ committed[j].id \in Ids
      BY <1>0, <1>3, StoreTypes
    <2> QED BY <1>7, <2>1, <2>2 DEF Explained, Unreserved
  <1> QED BY <1>6, <1>7 DEF Explained

LEMMA HaltsStep ==
    ASSUME Inv, TermsOrdered, BindsLog, Reservation, AwaitKept, HaltsExplained, [Next]_vars
    PROVE  HaltsExplained'
  <1> USE DEF storeVars, raftVars
  <1>0. TypeOK BY DEF Inv
  <1> SUFFICES ASSUME NEW n \in Nodes, halted'[n] PROVE Explained(n)'
    BY DEF HaltsExplained, Explained
  <1>1. CASE halted[n]
    <2>1. Explained(n) BY <1>1 DEF HaltsExplained, Explained
    <2> QED BY <2>1, ExplanationStays
  <1>2. CASE ~halted[n]
    <2>a. \A m \in Nodes : halted' = [halted EXCEPT ![m] = TRUE] => m = n
      BY <1>0, <1>2 DEF TypeOK
    <2>1. ASSUME NEW m \in Nodes, ApplyHalts(m) PROVE Explained(n)'
      <3>1. m = n BY <2>1, <2>a DEF ApplyHalts, Halt
      <3>2. Explained(n) BY <2>1, <3>1, ApplyHaltExplained
      <3> QED BY <3>2, ExplanationStays
    <2>2. ASSUME NEW m \in Nodes, ApplyFirst(m) PROVE Explained(n)'
      <3>1. FloorAbove(history'[m], Binary[m]) /\ Halt(m)
        BY <1>2, <2>2 DEF ApplyFirst
      <3>2. m = n BY <2>a, <3>1 DEF Halt
      <3> QED BY <3>1, <3>2 DEF Explained
    <2>3. ASSUME NEW m \in Nodes, Restart(m) PROVE Explained(n)'
      <3>1. m = n
        BY <1>0, <1>2, <2>3 DEF Restart, TypeOK
      <3>2. FloorAbove(history'[n], Binary[n])
        BY <1>0, <2>3, <3>1 DEF Restart, TypeOK
      <3> QED BY <3>2 DEF Explained
    <2>4. ASSUME NEW m \in Nodes, NEW id \in Ids, AwaitApplied(m, id) PROVE FALSE
      BY <1>2, <2>4, AwaitNeverHalts
    <2>5. ASSUME UNCHANGED halted PROVE FALSE
      BY <1>2, <2>5
    <2>6. ASSUME NEW m \in Nodes,
                 \/ Elect(m) \/ Establish(m) \/ Heartbeat(m) \/ StepDown(m)
                 \/ ApplyDuplicate(m) \/ ApplyCovered(m)
          PROVE  UNCHANGED halted
      BY <2>6 DEF Elect, Establish, Heartbeat, StepDown, ApplyDuplicate, ApplyCovered
    <2>7. ASSUME NEW m \in Nodes, NEW id \in Ids,
                 \/ \E b \in Bodies : SubmitDecided(m, id, b) \/ Submit(m, id, b)
                 \/ \E l \in Nodes : Forward(m, id, l)
                 \/ Enqueue(m, id) \/ EnqueueLost(m, id) \/ OpenFails(m, id)
                 \/ ResolveApplied(m, id) \/ ResolveLost(m, id) \/ ForwardFails(m, id)
          PROVE  UNCHANGED halted
      BY <2>7 DEF SubmitDecided, Submit, Forward, Enqueue, EnqueueLost, OpenFails,
            ResolveApplied, ResolveLost, ForwardFails
    <2>8. ASSUME NEW c \in calls, Serve(c) \/ Reply(c) \/ Refuse(c) PROVE UNCHANGED halted
      BY <2>8 DEF Serve, Reply, Refuse
    <2>9. ASSUME NEW p \in pending, Commit(p) PROVE UNCHANGED halted
      BY <2>9 DEF Commit
    <2>10. UNCHANGED vars => UNCHANGED halted
      BY DEF vars
    <2> QED BY <2>1, <2>2, <2>3, <2>4, <2>5, <2>6, <2>7, <2>8, <2>9, <2>10 DEF Next
  <1> QED BY <1>1, <1>2

\* The strengthening that makes StoresSound inductive.
StoreInv == TermsOrdered /\ BindsLog /\ AwaitKept /\ Reservation /\ HaltsExplained

(* The stores of the cluster always open again (verifyRaftCommandLedger),   *)
(* and no FSM halts but on a floor beyond its binary or on an event whose   *)
(* callers reused its ID where no reservation could refuse them.            *)
THEOREM StoresAreSound == Spec => []StoresSound
  <1>1. Init => StoreInv
    <2> SUFFICES ASSUME Init PROVE StoreInv
      OBVIOUS
    <2>1. committed = <<>> /\ DOMAIN committed = {} /\ pending = {} /\ calls = {}
      BY DEF Init
    <2>2. \A n \in Nodes : /\ watermark[n] = [index |-> 0, term |-> 0] /\ applications[n] = {}
                           /\ halted[n] = FALSE
      BY DEF Init
    <2>3. \A n \in Nodes, id \in Ids : flight[n][id] = None /\ reserved[n][id] = None
      BY DEF Init
    <2>4. TermsOrdered BY <2>1 DEF TermsOrdered
    <2>5. BindsLog BY <2>2 DEF BindsLog
    <2>6. AwaitKept BY <2>3 DEF AwaitKept, Running
    <2>7. Reservation BY <2>1, <2>3, ProposalConstants DEF Reservation, AtStake
    <2>8. HaltsExplained BY <2>2 DEF HaltsExplained
    <2> QED BY <2>4, <2>5, <2>6, <2>7, <2>8 DEF StoreInv
  <1>2. Inv /\ Inv' /\ StoreInv /\ [Next]_vars => StoreInv'
    BY TermsStep, BindsStep, AwaitStep, ReservationStep, HaltsStep DEF StoreInv
  <1>3. Inv /\ StoreInv => StoresSound
    BY LedgerFollows DEF StoreInv, StoresSound
  <1> QED BY <1>1, <1>2, <1>3, Invariance, PTL DEF Spec

----------------------------------------------------------------------------
(* The ledger the replicas implement                                        *)

Asked(id, b) == \E n \in Nodes : <<n, id, b>> \in Requests

\* Bytes are on their way, or committed, only because a caller signed them.
Requested ==
    /\ \A p \in pending : Asked(p.id, p.body)
    /\ \A k \in DOMAIN committed : Asked(committed[k].id, committed[k].body)
    /\ \A c \in calls : Asked(c.id, c.body)
    /\ \A n \in Nodes, id \in Ids : flight[n][id] # None => Asked(id, flight[n][id].body)

LEMMA RequestedStep ==
    ASSUME Inv, Requested, [Next]_vars
    PROVE  Requested'
  <1> USE DEF storeVars, raftVars
  <1>0. TypeOK BY DEF Inv
  <1>1. ASSUME UNCHANGED <<flight, calls, committed>>, \A p \in pending' : p \in pending
        PROVE  Requested'
    BY <1>1 DEF Requested
  <1>2. ASSUME NEW n \in Nodes,
               \/ Elect(n) \/ Establish(n) \/ Heartbeat(n) \/ StepDown(n) \/ ApplyFirst(n)
               \/ ApplyDuplicate(n) \/ ApplyCovered(n) \/ ApplyHalts(n)
        PROVE  Requested'
    <2>1. UNCHANGED <<flight, calls, committed>> /\ \A p \in pending' : p \in pending
      BY <1>2 DEF Elect, Establish, Heartbeat, StepDown, ApplyFirst, ApplyDuplicate,
            ApplyCovered, ApplyHalts
    <2> QED BY <1>1, <2>1
  <1>3. ASSUME NEW n \in Nodes, NEW id \in Ids, NEW b \in Bodies, SubmitDecided(n, id, b)
        PROVE  Requested'
    BY <1>1, <1>3 DEF SubmitDecided
  <1>4. CASE UNCHANGED vars
    BY <1>1, <1>4 DEF vars
  <1>5. ASSUME NEW p \in pending, Commit(p) PROVE Requested'
    <2>1. UNCHANGED <<flight, calls>> /\ \A q \in pending' : q \in pending
      BY <1>5 DEF Commit
    <2>2. \A k \in DOMAIN committed' : \/ k \in DOMAIN committed /\ committed'[k] = committed[k]
                                       \/ committed'[k] \in pending
      BY <1>0, <1>5, LogAppended, StoreTypes
    <2> QED BY <2>1, <2>2 DEF Requested
  <1>6. ASSUME NEW n \in Nodes, NEW id \in Ids, NEW f, Asked(id, f.body),
               flight' = [flight EXCEPT ![n][id] = f]
        PROVE  \A m \in Nodes, i \in Ids : flight'[m][i] # None => Asked(i, flight'[m][i].body)
    BY <1>0, <1>6 DEF Requested, TypeOK
  <1>7. ASSUME NEW n \in Nodes, NEW id \in Ids, NEW b \in Bodies, Submit(n, id, b)
        PROVE  Requested'
    <2>1. Asked(id, Open(n, id, b, TRUE).body)
      BY <1>7 DEF Submit, Asked, Open
    <2>2. /\ UNCHANGED <<pending, calls, committed>>
          /\ flight' = [flight EXCEPT ![n][id] = Open(n, id, b, TRUE)]
      BY <1>7 DEF Submit
    <2> QED BY <1>6, <2>1, <2>2 DEF Requested
  <1>8. ASSUME NEW n \in Nodes, NEW id \in Ids, Enqueue(n, id) \/ \E m \in Nodes : Forward(n, id, m)
        PROVE  Requested'
    <2>1. flight[n][id] # None /\ Asked(id, flight[n][id].body)
      BY <1>8 DEF Enqueue, Forward, Running, Requested
    <2>2. \A st, t : Asked(id, Staged(flight[n][id], st, t, None).body)
      BY <2>1 DEF Staged
    <2>3. \/ flight' = [flight EXCEPT ![n][id] = Staged(flight[n][id], "raft", leading[n], None)]
          \/ flight' = [flight EXCEPT ![n][id] = Staged(flight[n][id], "forward", 0, None)]
      BY <1>0, <1>8 DEF Enqueue, Forward, TypeOK
    <2>4. \A m \in Nodes, i \in Ids : flight'[m][i] # None => Asked(i, flight'[m][i].body)
      BY <1>6, <2>2, <2>3
    <2>5. committed' = committed
          /\ \A p \in pending' : p \in pending \/ (p.id = id /\ p.body = flight[n][id].body)
      BY <1>8 DEF Enqueue, Forward
    <2>6. \A c \in calls' : c \in calls \/ (c.id = id /\ c.body = flight[n][id].body)
      BY <1>8 DEF Enqueue, Forward
    <2> QED BY <2>1, <2>4, <2>5, <2>6 DEF Requested
  <1>9. ASSUME NEW c \in calls, Serve(c) PROVE Requested'
    <2>1. c.to \in Nodes /\ c.id \in Ids /\ Asked(c.id, c.body)
      BY <1>0 DEF TypeOK, Calls, Requested
    <2>2. \/ flight' = flight
          \/ flight' = [flight EXCEPT ![c.to][c.id] = Open(c.to, c.id, c.body, FALSE)]
      BY <1>9 DEF Serve
    <2>3. Asked(c.id, Open(c.to, c.id, c.body, FALSE).body)
      BY <2>1 DEF Open
    <2>4. \A m \in Nodes, i \in Ids : flight'[m][i] # None => Asked(i, flight'[m][i].body)
      BY <1>6, <2>1, <2>2, <2>3 DEF Requested
    <2>5. \A d \in calls' : d \in calls \/ (d.id = c.id /\ d.body = c.body)
      BY <1>9 DEF Serve, CallBy
    <2>6. UNCHANGED <<pending, committed>>
      BY <1>9 DEF Serve
    <2> QED BY <2>1, <2>4, <2>5, <2>6 DEF Requested
  <1>10. ASSUME NEW c \in calls, Reply(c) PROVE Requested'
    <2>1. c.from \in Nodes /\ c.id \in Ids /\ flight[c.from][c.id] # None
      BY <1>0, <1>10 DEF TypeOK, Calls, Reply, Running
    <2>2. Asked(c.id, Staged(flight[c.from][c.id], "await", 0, Result(history[c.to], c.id)).body)
      BY <2>1 DEF Staged, Requested
    <2>3. flight' = [flight EXCEPT ![c.from][c.id] =
                       Staged(flight[c.from][c.id], "await", 0, Result(history[c.to], c.id))]
          /\ UNCHANGED <<pending, committed>> /\ \A d \in calls' : d \in calls
      BY <1>10 DEF Reply
    <2>4. \A m \in Nodes, i \in Ids : flight'[m][i] # None => Asked(i, flight'[m][i].body)
      BY <1>6, <2>1, <2>2, <2>3
    <2> QED BY <2>3, <2>4 DEF Requested
  <1>11. ASSUME NEW n \in Nodes, NEW id \in Ids, flight[n][id] # None,
                UNCHANGED <<pending, committed>>,
                Succeed(n, id) \/ \E u \in BOOLEAN, open \in SUBSET calls : Fail(n, id, u, open)
         PROVE  Requested'
    <2>1. /\ flight'[n][id] = None
          /\ \A m \in Nodes, i \in Ids : <<m, i>> # <<n, id>> => flight'[m][i] = flight[m][i]
          /\ \A c \in calls' : \E d \in calls : d.id = c.id /\ d.body = c.body
      BY <1>0, <1>11, FlightEnds
    <2> QED BY <1>11, <2>1 DEF Requested
  <1>12. ASSUME NEW c \in calls, Refuse(c) PROVE Requested'
    <2>1. c.from \in Nodes /\ c.id \in Ids /\ flight[c.from][c.id] # None
      BY <1>0, <1>12 DEF TypeOK, Calls, Refuse, Running
    <2>2. /\ UNCHANGED <<pending, committed>>
          /\ \E u \in BOOLEAN, open \in SUBSET calls : Fail(c.from, c.id, u, open)
      BY <1>12 DEF Refuse
    <2> QED BY <1>11, <2>1, <2>2
  <1>13. ASSUME NEW n \in Nodes, NEW id \in Ids,
                \/ EnqueueLost(n, id) \/ OpenFails(n, id)
                \/ ResolveApplied(n, id) \/ ResolveLost(n, id)
                \/ ForwardFails(n, id) \/ AwaitApplied(n, id)
         PROVE  Requested'
    <2>1. /\ flight[n][id] # None /\ UNCHANGED <<pending, committed>>
          /\ Succeed(n, id) \/ \E u \in BOOLEAN, open \in SUBSET calls : Fail(n, id, u, open)
      BY <1>13 DEF EnqueueLost, OpenFails, ResolveApplied, ResolveLost, ForwardFails,
            AwaitApplied, Running, Outstanding, Found
    <2> QED BY <1>11, <2>1
  <1>14. ASSUME NEW n \in Nodes, Restart(n) PROVE Requested'
    <2>1. \A m \in Nodes, i \in Ids : flight'[m][i] = flight[m][i] \/ flight'[m][i] = None
      BY <1>0, <1>14 DEF Restart, TypeOK
    <2>2. \A c \in calls' : \E d \in calls : d.id = c.id /\ d.body = c.body
      BY <1>14 DEF Restart, CallBy
    <2>3. UNCHANGED <<pending, committed>>
      BY <1>14 DEF Restart
    <2> QED BY <2>1, <2>2, <2>3 DEF Requested
  <1> QED BY <1>2, <1>3, <1>4, <1>5, <1>7, <1>8, <1>9, <1>10, <1>12, <1>13, <1>14 DEF Next

\* A store has no more results than positions applied.
Lengths == \A n \in Nodes : Len(history[n]) <= watermark[n].index

LEMMA LengthsStep ==
    ASSUME Inv, Lengths, [Next]_vars
    PROVE  Lengths'
  <1> USE DEF storeVars, raftVars
  <1>0. TypeOK BY DEF Inv
  <1>1. ASSUME NEW n \in Nodes, ApplyFirst(n) \/ ApplyDuplicate(n)
        PROVE  Lengths'
    <2>1. Deliverable(n) /\ Mark(n) /\ Advance(n) /\ watermark[n].index < Upcoming(n)
      BY <1>0, <1>1, StoreTypes DEF ApplyFirst, ApplyDuplicate
    <2>2. /\ watermark'[n].index = watermark[n].index + 1 /\ watermark[n].index \in Nat
          /\ \A m \in Nodes \ {n} : watermark'[m] = watermark[m]
      BY <2>1, MarkTyped, DeliveredTyped
    <2>3. \/ history' = history
          \/ \E r : history' = [history EXCEPT ![n] = Append(history[n], r)]
      BY <1>0, <1>1 DEF ApplyFirst, ApplyDuplicate, TypeOK
    <2>4. \A m \in Nodes \ {n} : history'[m] = history[m]
      BY <1>0, <2>3 DEF TypeOK
    <2>5. Len(history'[n]) <= Len(history[n]) + 1 /\ Len(history[n]) \in Nat /\ Len(history'[n]) \in Nat
      <3>1. history[n] \in Seq(StoredResults) BY <1>0, StoreTypes
      <3>2. \A r : Len(Append(history[n], r)) = Len(history[n]) + 1
        BY <3>1
      <3>3. history'[n] = history[n] \/ \E r : history'[n] = Append(history[n], r)
        BY <1>0, <2>3 DEF TypeOK
      <3> QED BY <3>1, <3>2, <3>3
    <2> QED BY <2>2, <2>4, <2>5 DEF Lengths
  <1>2. ASSUME UNCHANGED <<history, watermark>> PROVE Lengths'
    BY <1>2 DEF Lengths
  <1>3. ASSUME NEW n \in Nodes,
               \/ Elect(n) \/ Establish(n) \/ Heartbeat(n) \/ StepDown(n)
               \/ ApplyCovered(n) \/ ApplyHalts(n) \/ Restart(n)
        PROVE  UNCHANGED <<history, watermark>>
    BY <1>3 DEF Elect, Establish, Heartbeat, StepDown, ApplyCovered, ApplyHalts, Restart
  <1>4. ASSUME NEW n \in Nodes, NEW id \in Ids,
               \/ \E b \in Bodies : SubmitDecided(n, id, b) \/ Submit(n, id, b)
               \/ \E m \in Nodes : Forward(n, id, m)
               \/ Enqueue(n, id) \/ EnqueueLost(n, id) \/ OpenFails(n, id)
               \/ ResolveApplied(n, id) \/ ResolveLost(n, id)
               \/ ForwardFails(n, id) \/ AwaitApplied(n, id)
        PROVE  UNCHANGED <<history, watermark>>
    BY <1>4 DEF SubmitDecided, Submit, Forward, Enqueue, EnqueueLost, OpenFails, ResolveApplied,
          ResolveLost, ForwardFails, AwaitApplied
  <1>5. ASSUME NEW p \in pending, Commit(p) PROVE UNCHANGED <<history, watermark>>
    BY <1>5 DEF Commit
  <1>6. ASSUME NEW c \in calls, Serve(c) \/ Reply(c) \/ Refuse(c)
        PROVE  UNCHANGED <<history, watermark>>
    BY <1>6 DEF Serve, Reply, Refuse
  <1>7. UNCHANGED vars => UNCHANGED <<history, watermark>>
    BY DEF vars
  <1> QED BY <1>1, <1>2, <1>3, <1>4, <1>5, <1>6, <1>7 DEF Next

(* Some replica has a history that no other exceeds, and it is Longest.     *)
LongestHeld ==
    \E n \in Nodes : /\ Longest = history[n]
                     /\ \A m \in Nodes : Len(history[m]) <= Len(history[n])

LEMMA LongestIs == Inv /\ Lengths => LongestHeld
  <1> SUFFICES ASSUME Inv, Lengths PROVE LongestHeld
    OBVIOUS
  <1>0. TypeOK BY DEF Inv
  <1> DEFINE T == {Len(committed) - Len(history[n]) : n \in Nodes}
             R == {ss \in Nat \X Nat : ss[1] < ss[2]}
  <1>1. \A n \in Nodes : /\ Len(history[n]) \in Nat /\ Len(committed) \in Nat
                         /\ Len(history[n]) <= Len(committed)
    <2>1. \A n \in Nodes : history[n] \in Seq(StoredResults) /\ watermark[n].index \in Nat
                           /\ watermark[n].index <= Len(committed) /\ Len(committed) \in Nat
      BY <1>0, StoreTypes DEF Inv, Replay, Covered
    <2>2. \A n \in Nodes : Len(history[n]) \in Nat
      BY <2>1
    <2> QED BY <2>1, <2>2 DEF Lengths
  <1>2. T \subseteq Nat /\ T # {}
    BY <1>1, ProposalConstants
  <1>3. PICK x \in T : \A y \in T : ~(<<y, x>> \in R)
    <2>1. IsWellFoundedOn(R, Nat) BY NatLessThanWellFounded DEF OpToRel
    <2> HIDE DEF T, R
    <2> QED BY <1>2, <2>1, WFMin
  <1>4. \A y \in T : x <= y
    <2> SUFFICES ASSUME NEW y \in T PROVE x <= y
      OBVIOUS
    <2>1. y \in Nat /\ x \in Nat
      BY <1>2, <1>3
    <2>2. y < x => <<y, x>> \in R
      BY <2>1
    <2> HIDE DEF T, R
    <2> QED BY <1>3, <2>1, <2>2
  <1>5. PICK n \in Nodes : x = Len(committed) - Len(history[n])
    BY <1>3
  <1>6. ASSUME NEW m \in Nodes PROVE Len(history[m]) <= Len(history[n])
    <2>1. Len(committed) - Len(history[m]) \in T
      OBVIOUS
    <2>2. Len(committed) - Len(history[n]) <= Len(committed) - Len(history[m])
      BY <1>4, <1>5, <2>1
    <2> QED BY <1>1, <2>2
  <1>7. \E k \in Nodes : \A m \in Nodes : Len(history[m]) <= Len(history[k])
    BY <1>6
  <1> DEFINE top == CHOOSE k \in Nodes : \A m \in Nodes : Len(history[m]) <= Len(history[k])
  <1>8. top \in Nodes /\ \A m \in Nodes : Len(history[m]) <= Len(history[top])
    BY <1>7
  <1> QED BY <1>8 DEF Longest, LongestHeld

(* Of two histories of one length both are the same.                        *)
LEMMA SameLengthSame ==
    ASSUME NEW g \in Seq(StoredResults), NEW h \in Seq(StoredResults), Len(g) = Len(h),
           \A k \in DOMAIN g \cap DOMAIN h : g[k] = h[k]
    PROVE  g = h
  OBVIOUS

(* A first decision is the next result of the ledger, or one it has.        *)
LEMMA DecideStep ==
    ASSUME Inv, Inv', Lengths, Lengths', Requested, [Next]_vars, NEW n \in Nodes, ApplyFirst(n)
    PROVE  \/ Longest' = Longest
           \/ \E m \in Nodes, id \in Ids, b \in Bodies : Ledger!Decide(m, id, b)
  <1> USE DEF storeVars, raftVars
  <1>0. TypeOK /\ TypeOK' BY DEF Inv
  <1>1. PICK a \in Nodes : Longest = history[a]
                           /\ \A m \in Nodes : Len(history[m]) <= Len(history[a])
    BY LongestIs DEF LongestHeld
  <1>2. PICK c \in Nodes : Longest' = history'[c]
                           /\ \A m \in Nodes : Len(history'[m]) <= Len(history'[c])
    <2>1. Inv' /\ Lengths' => LongestHeld'
      BY LongestIs, PTL
    <2> QED BY <2>1 DEF LongestHeld
  <1>3. \A m \in Nodes : history[m] \in Seq(StoredResults) /\ history'[m] \in Seq(StoredResults)
    BY <1>0 DEF TypeOK, StoredResults
  <1> DEFINE e == Delivered(n)
             r == Outcome(n, e)
  <1>4. /\ history'[n] = Append(history[n], r)
        /\ \A m \in Nodes \ {n} : history'[m] = history[m]
        /\ ~Decided(history[n], e.id) /\ Deliverable(n) /\ told' = told
    BY <1>0 DEF ApplyFirst, FirstSeen, TypeOK
  <1>5. e \in Entries /\ e.id \in Ids /\ e.body \in Bodies /\ Asked(e.id, e.body)
    BY <1>0, <1>4, DeliveredTyped, StoreTypes DEF Entries, Requested
  <1>6. r = Reduce(history[n], e.id, e.body)
    BY DEF Outcome
  <1> HIDE DEF r, e
  <1>7. \A m \in Nodes : /\ Len(history[m]) \in Nat /\ Len(history'[m]) \in Nat
                         /\ DOMAIN history[m] = 1..Len(history[m])
                         /\ DOMAIN history'[m] = 1..Len(history'[m])
    BY <1>3
  <1>8. Len(history'[n]) = Len(history[n]) + 1
    BY <1>3, <1>4
  <1>9. \A k \in DOMAIN history[a] : k \in DOMAIN history'[a] /\ history'[a][k] = history[a][k]
    BY HistoriesGrow
  <1>10. CASE Len(history'[c]) <= Len(history[a])
    <2>1. Len(history[a]) <= Len(history'[a])
      BY <1>4, <1>7, <1>8
    <2>2. Len(history'[c]) = Len(history[a])
      BY <1>2, <1>7, <1>10, <2>1
    <2>3. \A k \in DOMAIN history[a] \cap DOMAIN history'[c] : history[a][k] = history'[c][k]
      BY <1>9 DEF Inv, HistoriesAgree
    <2>4. history[a] = history'[c]
      BY <1>3, <2>2, <2>3, SameLengthSame
    <2> QED BY <1>1, <1>2, <2>4
  <1>11. CASE Len(history'[c]) > Len(history[a])
    <2>1. c = n
      BY <1>1, <1>4, <1>7, <1>11
    <2>2. Len(history[n]) = Len(history[a])
      BY <1>1, <1>7, <1>8, <1>11, <2>1
    <2>3. history[n] = history[a]
      BY <1>3, <2>2, SameLengthSame DEF Inv, HistoriesAgree
    <2>4. Longest' = Append(Longest, Reduce(Longest, e.id, e.body))
      BY <1>1, <1>2, <1>4, <1>6, <2>1, <2>3
    <2>5. \A k \in DOMAIN Longest : Longest[k].id # e.id
      BY <1>1, <1>4, <2>3 DEF Decided
    <2>6. PICK m \in Nodes : <<m, e.id, e.body>> \in Requests
      BY <1>5 DEF Asked
    <2> HIDE DEF Longest
    <2>a. Reduce(Longest, e.id, e.body)
            = [id |-> e.id, body |-> e.body,
               accepted |-> Base[e.id] = Cardinality({k \in DOMAIN Longest : Longest[k].accepted})]
      BY DEF Reduce, Accepted
    <2>b. \A S : Ledger!Cardinality(S) = Cardinality(S)
      BY DEF Ledger!Cardinality, Cardinality
    <2>7. Ledger!Decide(m, e.id, e.body)
      BY <1>4, <2>4, <2>5, <2>6, <2>a, <2>b DEF Ledger!Decide
    <2> QED BY <1>5, <2>7
  <1> QED BY <1>1, <1>2, <1>7, <1>10, <1>11

(* An answer is a result of the ledger.                                     *)
LEMMA AnswerStep ==
    ASSUME Inv, Lengths, NEW n \in Nodes, NEW id \in Ids, NEW b \in Bodies, Found(n, id, b),
           history' = history, told' = told \cup {Answer(history[n], id, b)}
    PROVE  \E k \in DOMAIN Longest : Ledger!Tell(k)
  <1>0. TypeOK BY DEF Inv
  <1>1. PICK a \in Nodes : Longest = history[a]
                           /\ \A m \in Nodes : Len(history[m]) <= Len(history[a])
    BY LongestIs DEF LongestHeld
  <1> DEFINE k == Position(history[n], id)
  <1>2. k \in DOMAIN history[n] /\ history[n][k].id = id /\ history[n][k].body = b
    BY <1>0, StoreTypes, LookupTyped DEF Found, Result
  <1>3. Answer(history[n], id, b)
          = [id |-> id, body |-> b, accepted |-> history[n][k].accepted, index |-> k]
    BY DEF Answer, Result
  <1>4. k \in DOMAIN history[a]
    <2>1. history[n] \in Seq(StoredResults) /\ history[a] \in Seq(StoredResults)
      BY <1>0, StoreTypes
    <2>2. Len(history[n]) <= Len(history[a])
      BY <1>1
    <2> HIDE DEF k
    <2> QED BY <1>2, <2>1, <2>2
  <1>5. history[a][k] = history[n][k]
    BY <1>2, <1>4 DEF Inv, HistoriesAgree
  <1>6. Longest' = Longest
    BY DEF Longest
  <1> HIDE DEF k, Longest
  <1>7. Ledger!Tell(k)
    BY <1>1, <1>2, <1>3, <1>4, <1>5, <1>6 DEF Ledger!Tell
  <1> QED BY <1>1, <1>4, <1>7

(* The replicas together implement one ledger that decides each submitted   *)
(* event once, at the next result index, and tells callers its results.     *)
THEOREM ReplicasImplementLedger == Spec => ImplementsLedger
  <1>1. Init => Requested /\ Lengths
    <2> SUFFICES ASSUME Init PROVE Requested /\ Lengths
      OBVIOUS
    <2>1. \A n \in Nodes : history[n] = <<>> /\ watermark[n].index = 0
      BY DEF Init
    <2>2. Lengths BY <2>1 DEF Lengths
    <2>3. \A n \in Nodes, id \in Ids : flight[n][id] = None
      BY DEF Init
    <2>4. DOMAIN committed = {} /\ pending = {} /\ calls = {}
      BY DEF Init
    <2>5. Requested BY <2>3, <2>4 DEF Requested
    <2> QED BY <2>2, <2>5
  <1>2. Inv /\ Requested /\ Lengths /\ [Next]_vars => Requested' /\ Lengths'
    BY RequestedStep, LengthsStep
  <1>3. Init /\ Inv /\ Lengths => Ledger!Init
    <2> SUFFICES ASSUME Init, Inv, Lengths PROVE Ledger!Init
      OBVIOUS
    <2>1. PICK a \in Nodes : Longest = history[a]
      BY LongestIs DEF LongestHeld
    <2>2. history[a] = <<>> /\ told = {}
      BY DEF Init
    <2> HIDE DEF Longest
    <2> QED BY <2>1, <2>2 DEF Ledger!Init
  <1>4. Inv /\ Inv' /\ Requested /\ Lengths /\ Lengths' /\ [Next]_vars
        => [Ledger!Next]_<<Longest, told>>
    <2> SUFFICES ASSUME Inv, Inv', Requested, Lengths, Lengths', [Next]_vars
                 PROVE  [Ledger!Next]_<<Longest, told>>
      OBVIOUS
    <2>1. ASSUME NEW n \in Nodes, ApplyFirst(n) PROVE [Ledger!Next]_<<Longest, told>>
      <3>1. told' = told BY <2>1 DEF ApplyFirst
      <3>2. \/ Longest' = Longest
            \/ \E m \in Nodes, id \in Ids, b \in Bodies : Ledger!Decide(m, id, b)
        BY <2>1, DecideStep
      <3> HIDE DEF Longest
      <3> QED BY <3>1, <3>2 DEF Ledger!Next
    <2>2. ASSUME \A n \in Nodes : ~ApplyFirst(n) PROVE [Ledger!Next]_<<Longest, told>>
      <3>1. history' = history BY <2>2, HistoriesStay
      <3>2. Longest' = Longest BY <3>1 DEF Longest
      <3>3. CASE told' = told BY <3>2, <3>3
      <3>4. ASSUME NEW n \in Nodes, NEW id \in Ids, NEW b \in Bodies,
                   Found(n, id, b), told' = told \cup {Answer(history[n], id, b)}
            PROVE  [Ledger!Next]_<<Longest, told>>
        <4>1. \E k \in DOMAIN Longest : Ledger!Tell(k)
          BY <3>1, <3>4, AnswerStep
        <4> HIDE DEF Longest
        <4> QED BY <4>1 DEF Ledger!Next
      <3> QED BY <3>3, <3>4, Told
    <2> QED BY <2>1, <2>2
  <1> QED
    BY <1>1, <1>2, <1>3, <1>4, Invariance, PTL DEF Spec, ImplementsLedger, Ledger!Spec

=============================================================================
