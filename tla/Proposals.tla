----------------------------- MODULE Proposals -----------------------------
(***************************************************************************)
(* How one signed event becomes one durable result on every replica.       *)
(*                                                                         *)
(* A caller hands a replica an event ID and the exact bytes it signed.     *)
(* The replica opens a proposal flight for the ID, enqueues the bytes on   *)
(* Raft when it leads or forwards them once to the leader it observes, and *)
(* answers when the outcome is durable in its own store.  Leadership can   *)
(* be lost, replicas restart, forwarded calls are delayed or lost, so the  *)
(* same event can be enqueued several times, at several log positions, by  *)
(* several replicas.  The FSM applies the committed log to SQLite, decides *)
(* each event once, and halts for good on anything it cannot explain.      *)
(*                                                                         *)
(* Sources: internal/consensus/{fsm,fsm_apply_state,node,raft_enqueue,     *)
(* proposal_forwarding}.go, internal/store/{apply,raft_commands,           *)
(* command_lookup}.go, cmd/codecommd/content_runtime.go.  Raft itself      *)
(* (elections, log replication, commit) is the HashiCorp library: external.*)
(***************************************************************************)
EXTENDS Integers, Sequences, FiniteSets

CONSTANTS
    Nodes,       \* voting replicas
    Ids,         \* event IDs
    Bodies,      \* signed bytes an event ID may be submitted with
    Requests,    \* <<n, id, b>>: callers submit event id with bytes b at n
    Base,        \* Base[id]: chain index the event was written against
    Raises,      \* Raises[id]: apply level an accepted event requires
    Binary,      \* Binary[n]: apply level replica n's binary supports
    None,
    MaxTerm,     \* bound: elections
    MaxLog,      \* bound: committed commands
    MaxRestarts  \* bound: restarts of all replicas together

ASSUME ProposalConstants ==
    /\ Nodes # {} /\ None \notin Nodes \cup Bodies
    /\ Requests \subseteq Nodes \X Ids \X Bodies
    /\ Base \in [Ids -> Nat] /\ Raises \in [Ids -> Nat] /\ Binary \in [Nodes -> Nat]
    /\ MaxTerm \in Nat /\ MaxLog \in Nat /\ MaxRestarts \in Nat

VARIABLES
    term,          \* Raft: latest term with an elected leader
    leading,       \* Raft: term each replica believes it leads, 0 for none
    pending,       \* Raft: entries appended by a leader, neither committed nor lost
    committed,     \* Raft: the committed commands, in log order
    settled,       \* Raft: highest term of a committed entry, no-ops included
    warm,          \* Raft: the volatile commit index is above zero
    applied,       \* Raft: commands delivered to the FSM since the last start
    history,       \* store: command_results in result-index order
    watermark,     \* store: consensus_state's last applied index and its term
    applications,  \* store: raft_command_applications
    halted,        \* FSM halt latch, or the daemon that cannot start again
    flight,        \* proposalFlights
    reserved,      \* proposalReservations
    calls,         \* forwarded proposals under way
    told,          \* results returned to callers (history variable)
    restarts

raftVars  == <<term, leading, pending, committed, settled, warm>>
storeVars == <<history, watermark, applications>>
vars == <<raftVars, storeVars, applied, halted, flight, reserved, calls, told, restarts>>

-----------------------------------------------------------------------------
(* The store and the reducer *)

\* The events accepted by a result history: the event chain.
Accepted(h) == {k \in DOMAIN h : h[k].accepted}

\* The cluster apply floor after a history exceeds an apply level.
FloorAbove(h, level) == \E k \in Accepted(h) : Raises[h[k].id] > level

\* The result the reducer gives an event: accepted when nothing it was written
\* against has moved, a durable rejection otherwise.
Reduce(h, id, b) ==
    [id |-> id, body |-> b, accepted |-> Base[id] = Cardinality(Accepted(h))]

Decided(h, id) == \E k \in DOMAIN h : h[k].id = id
Position(h, id) == CHOOSE k \in DOMAIN h : h[k].id = id

\* What a lookup of a decided event returns and a forwarding peer is sent.
Result(h, id) ==
    LET k == Position(h, id)
    IN [id |-> id, body |-> h[k].body, accepted |-> h[k].accepted, index |-> k]

\* What a caller that submitted the bytes b is told of a decided event.
Answer(h, id, b) ==
    [id |-> id, body |-> b, accepted |-> Result(h, id).accepted, index |-> Result(h, id).index]

\* Bug variant: the lookup goes by event ID alone.
FoundById(n, id, b) == Decided(history[n], id)

\* lookupCommitted: the durable result of exactly these bytes.
Found(n, id, b) == Decided(history[n], id) /\ Result(history[n], id).body = b

\* ErrIdempotencyConflict: the ID is in flight, reserved or decided with other bytes.
Conflict(n, id, b) ==
    \/ flight[n][id] # None /\ flight[n][id].body # b
    \/ flight[n][id] = None /\ reserved[n][id] \notin {None, b}
    \/ flight[n][id] = None /\ Decided(history[n], id) /\ ~Found(n, id, b)

-----------------------------------------------------------------------------
Init ==
    /\ term = 0 /\ leading = [n \in Nodes |-> 0]
    /\ pending = {} /\ committed = <<>> /\ settled = 0
    /\ warm = [n \in Nodes |-> FALSE]
    /\ applied = [n \in Nodes |-> 0]
    /\ history = [n \in Nodes |-> <<>>]
    /\ watermark = [n \in Nodes |-> [index |-> 0, term |-> 0]]
    /\ applications = [n \in Nodes |-> {}]
    /\ halted = [n \in Nodes |-> FALSE]
    /\ flight = [n \in Nodes |-> [id \in Ids |-> None]]
    /\ reserved = [n \in Nodes |-> [id \in Ids |-> None]]
    /\ calls = {} /\ told = {} /\ restarts = 0

-----------------------------------------------------------------------------
(* Raft, external.  One leader per term, possibly unaware of its successor;   *)
(* committed entries form one sequence whose terms never go back; an entry of *)
(* an earlier leader may commit late or never.                                *)

Elect(n) ==
    /\ ~halted[n] /\ term < MaxTerm
    /\ term' = term + 1
    /\ leading' = [leading EXCEPT ![n] = term + 1]
    /\ UNCHANGED <<pending, committed, settled, warm, storeVars, applied, halted,
                   flight, reserved, calls, told, restarts>>

\* A quorum holds the election no-op: entries it does not follow are lost.
Establish(n) ==
    /\ settled < leading[n]
    /\ settled' = leading[n]
    /\ pending' = {p \in pending : p.term >= leading[n]}
    /\ warm' = [warm EXCEPT ![n] = TRUE]
    /\ UNCHANGED <<term, leading, committed, storeVars, applied, halted,
                   flight, reserved, calls, told, restarts>>

\* A quorum holds an appended command.
Commit(p) ==
    /\ p \in pending /\ Len(committed) < MaxLog
    /\ settled' = p.term
    /\ committed' = Append(committed, p)
    /\ pending' = {q \in pending \ {p} : q.term >= p.term}
    /\ UNCHANGED <<term, leading, warm, storeVars, applied, halted,
                   flight, reserved, calls, told, restarts>>

\* A leader's heartbeat brings its commit index.
Heartbeat(n) ==
    /\ ~halted[n] /\ settled > 0 /\ ~warm[n]
    /\ warm' = [warm EXCEPT ![n] = TRUE]
    /\ UNCHANGED <<term, leading, pending, committed, settled, storeVars, applied, halted,
                   flight, reserved, calls, told, restarts>>

\* A leader that cannot reach a quorum, or hears of a later term, steps down.
StepDown(n) ==
    /\ leading[n] > 0
    /\ leading' = [leading EXCEPT ![n] = 0]
    /\ UNCHANGED <<term, pending, committed, settled, warm, storeVars, applied, halted,
                   flight, reserved, calls, told, restarts>>

-----------------------------------------------------------------------------
(* FSM.Apply: one committed command *)

\* The FSM latches its halt, and the monitor shuts Raft down.
Halt(n) ==
    /\ halted' = [halted EXCEPT ![n] = TRUE]
    /\ leading' = [leading EXCEPT ![n] = 0]

Binding(k, e) == [index |-> k, term |-> e.term, id |-> e.id, body |-> e.body]

\* Bug variant: only the first position of an event is remembered.
VerifyFirstPosition(n, k, e) == {a \in applications[n] : a.id = e.id} = {Binding(k, e)}

\* A log position at or below the watermark must hold what was applied there.
VerifyRaftCommand(n, k, e) == {a \in applications[n] : a.index = k} = {Binding(k, e)}

\* Bug variant: a replica that is behind catches up from the newest command.
UpcomingNewest(n) == IF Len(committed) > applied[n] THEN Len(committed) ELSE applied[n] + 1

\* Raft delivers the committed commands one by one, in log order.
Upcoming(n) == applied[n] + 1
Deliverable(n) == ~halted[n] /\ Upcoming(n) <= Len(committed)
Delivered(n) == committed[Upcoming(n)]
Advance(n) == applied' = [applied EXCEPT ![n] = Upcoming(n)]
WatermarkAt(n) == [watermark EXCEPT ![n] = [index |-> Upcoming(n), term |-> Delivered(n).term]]

\* Bug variant: a duplicate moves the watermark without binding its position.
MarkFirst(n) ==
    /\ applications' = [applications EXCEPT ![n] =
           @ \cup (IF Decided(history[n], Delivered(n).id) THEN {}
                   ELSE {Binding(Upcoming(n), Delivered(n))})]
    /\ watermark' = WatermarkAt(n)

\* The position is bound to its command and becomes the watermark.
Mark(n) ==
    /\ applications' = [applications EXCEPT ![n] = @ \cup {Binding(Upcoming(n), Delivered(n))}]
    /\ watermark' = WatermarkAt(n)

\* The store has no result for the event.
FirstSeen(n, e) == ~Decided(history[n], e.id)

\* Bug variant: a binary that cannot interpret an event rejects it.
OutcomeUnsupported(n, e) ==
    [id |-> e.id, body |-> e.body,
     accepted |-> Reduce(history[n], e.id, e.body).accepted /\ Raises[e.id] <= Binary[n]]

\* reduceCommitted on the state the last command left.
Outcome(n, e) == Reduce(history[n], e.id, e.body)

\* An event ID seen for the first time is reduced and committed in one
\* transaction: result, position binding and watermark.  A floor beyond this
\* binary halts the replica after the commit.
ApplyFirst(n) ==
    LET e == Delivered(n) IN
    /\ Deliverable(n) /\ FirstSeen(n, e)
    /\ Upcoming(n) > watermark[n].index /\ e.term >= watermark[n].term
    /\ history' = [history EXCEPT ![n] = Append(@, Outcome(n, e))]
    /\ Mark(n) /\ Advance(n)
    /\ IF FloorAbove(history'[n], Binary[n]) THEN Halt(n) ELSE UNCHANGED <<halted, leading>>
    /\ UNCHANGED <<term, pending, committed, settled, warm, flight, reserved, calls, told, restarts>>

\* The same bytes at a later position only advance the watermark.
ApplyDuplicate(n) ==
    LET e == Delivered(n) IN
    /\ Deliverable(n) /\ Found(n, e.id, e.body)
    /\ 0 < watermark[n].index /\ watermark[n].index < Upcoming(n) /\ e.term >= watermark[n].term
    /\ Mark(n) /\ Advance(n)
    /\ UNCHANGED <<raftVars, history, halted, flight, reserved, calls, told, restarts>>

\* Replay after a restart: a covered position is verified and changes nothing.
ApplyCovered(n) ==
    LET e == Delivered(n) IN
    /\ Deliverable(n) /\ Found(n, e.id, e.body)
    /\ Upcoming(n) <= watermark[n].index /\ VerifyRaftCommand(n, Upcoming(n), e)
    /\ Advance(n)
    /\ UNCHANGED <<raftVars, storeVars, halted, flight, reserved, calls, told, restarts>>

\* Anything else halts: other bytes under a decided ID, a covered position
\* bound to another command, a position or a term that goes back.
Unexplained(n) ==
    LET e == Delivered(n) IN
    IF Decided(history[n], e.id)
    THEN \/ ~Found(n, e.id, e.body)
         \/ watermark[n].index = 0
         \/ Upcoming(n) <= watermark[n].index /\ ~VerifyRaftCommand(n, Upcoming(n), e)
         \/ Upcoming(n) > watermark[n].index /\ e.term < watermark[n].term
    ELSE Upcoming(n) <= watermark[n].index \/ e.term < watermark[n].term

ApplyHalts(n) ==
    /\ Deliverable(n) /\ Unexplained(n)
    /\ Halt(n)
    /\ UNCHANGED <<term, pending, committed, settled, warm, applied, storeVars,
                   flight, reserved, calls, told, restarts>>

\* FSM.Apply of the next committed command.
ApplyLog(n) == ApplyFirst(n) \/ ApplyDuplicate(n) \/ ApplyCovered(n) \/ ApplyHalts(n)

-----------------------------------------------------------------------------
(* Proposal flights *)

Running(n, id, stage) == flight[n][id] # None /\ flight[n][id].stage = stage

\* beginProposal found nothing in flight, nothing else reserved, nothing durable.
Open(n, id, b, hop) ==
    [body |-> b, preserve |-> reserved[n][id] # None, allowForward |-> hop,
     stage |-> "open", term |-> 0, result |-> None]

Staged(f, stage, t, r) ==
    [body |-> f.body, preserve |-> f.preserve, allowForward |-> f.allowForward,
     stage |-> stage, term |-> t, result |-> r]

CallBy(from, c, served) ==
    [from |-> from, to |-> c.to, id |-> c.id, body |-> c.body, served |-> served]

\* Callers of n that go away leave their open call without anyone to answer.
Orphaned(n, id, open) ==
    {CallBy(IF c.from = n /\ c.id = id THEN None ELSE c.from, c, c.served) :
        c \in {d \in open : ~(d.from = n /\ d.id = id /\ d.served)}}
Served(n, id) == {c \in calls : c.to = n /\ c.id = id /\ c.served}

\* finishProposal with a result: the reservation goes, every waiter has the result.
Succeed(n, id) ==
    /\ flight' = [flight EXCEPT ![n][id] = None]
    /\ reserved' = [reserved EXCEPT ![n][id] = None]
    /\ calls' = Orphaned(n, id, calls)
    /\ told' = told \cup {Answer(history[n], id, flight[n][id].body)}

\* Bytes that may still be decided keep their event ID.
Reserves(f, uncertain) == uncertain \/ f.preserve

\* finishProposal with an error: the ID stays reserved for these bytes while a
\* copy of them may still be decided.
Fail(n, id, uncertain, open) ==
    LET f == flight[n][id] IN
    /\ flight' = [flight EXCEPT ![n][id] = None]
    /\ reserved' = [reserved EXCEPT ![n][id] =
                        IF Reserves(f, uncertain) THEN f.body ELSE None]
    /\ calls' = Orphaned(n, id, open) \ Served(n, id)
    /\ UNCHANGED told

\* Apply or ApplyPeerProposal: the durable result is returned at once ...
SubmitDecided(n, id, b) ==
    /\ <<n, id, b>> \in Requests /\ ~halted[n]
    /\ flight[n][id] = None /\ ~Conflict(n, id, b) /\ Found(n, id, b)
    /\ reserved' = [reserved EXCEPT ![n][id] = None]
    /\ told' = told \cup {Answer(history[n], id, b)}
    /\ UNCHANGED <<raftVars, storeVars, applied, halted, flight, calls, restarts>>

\* ... or a flight opens.  A caller with the bytes of the flight joins it, one
\* with other bytes is refused: neither changes anything.
Submit(n, id, b) ==
    /\ <<n, id, b>> \in Requests /\ ~halted[n]
    /\ flight[n][id] = None /\ ~Conflict(n, id, b) /\ ~Found(n, id, b)
    /\ flight' = [flight EXCEPT ![n][id] = Open(n, id, b, TRUE)]
    /\ UNCHANGED <<raftVars, storeVars, applied, halted, reserved, calls, told, restarts>>

\* enqueueRaftApply: the leader appends once its commit index has recovered.
Enqueue(n, id) ==
    /\ Running(n, id, "open") /\ leading[n] > 0 /\ ~halted[n]
    /\ warm[n] /\ ~FloorAbove(history[n], Binary[n])
    /\ pending' = pending \cup (IF leading[n] >= settled
                                THEN {[term |-> leading[n], id |-> id, body |-> flight[n][id].body]}
                                ELSE {})
    /\ flight' = [flight EXCEPT ![n][id] = Staged(@, "raft", leading[n], None)]
    /\ UNCHANGED <<term, leading, committed, settled, warm, storeVars, applied, halted,
                   reserved, calls, told, restarts>>

\* The append fails before it has a log index: nothing was sent, but the store
\* is asked and an earlier copy of the bytes has been decided meanwhile.
EnqueueLost(n, id) ==
    /\ Running(n, id, "open") /\ leading[n] > 0 /\ ~halted[n]
    /\ warm[n] /\ Found(n, id, flight[n][id].body)
    /\ Succeed(n, id)
    /\ UNCHANGED <<raftVars, storeVars, applied, halted, restarts>>

\* resolveForwardedProposal: a follower sends the bytes to the leader it observes.
\* A flight that a forwarded call opened is never sent on.
Forward(n, id, m) ==
    /\ Running(n, id, "open") /\ leading[n] = 0 /\ ~halted[n] /\ flight[n][id].allowForward
    /\ m # n /\ leading[m] > 0
    /\ flight' = [flight EXCEPT ![n][id] = Staged(@, "forward", 0, None)]
    /\ calls' = calls \cup {[from |-> n, to |-> m, id |-> id,
                             body |-> flight[n][id].body, served |-> FALSE]}
    /\ UNCHANGED <<raftVars, storeVars, applied, halted, reserved, told, restarts>>

\* The flight ends before anything was sent: no leader, no forwarder, a full
\* ingress bucket, an enqueue timeout, an apply level this binary lacks.
OpenFails(n, id) ==
    /\ Running(n, id, "open")
    /\ Fail(n, id, FALSE, calls)
    /\ UNCHANGED <<raftVars, storeVars, applied, halted, restarts>>

\* resolveProposal: the FSM applied the position the future holds ...
ResolveApplied(n, id) ==
    LET f == flight[n][id] IN
    /\ Running(n, id, "raft") /\ ~halted[n]
    /\ \E k \in 1..applied[n] : committed[k] = [term |-> f.term, id |-> id, body |-> f.body]
    /\ Succeed(n, id)
    /\ UNCHANGED <<raftVars, storeVars, applied, halted, restarts>>

\* ... or leadership was lost first, and the store is asked whether these
\* bytes were decided all the same.  A halted FSM answers with its halt error.
ResolveLost(n, id) ==
    LET f == flight[n][id] IN
    /\ Running(n, id, "raft")
    /\ halted[n] \/ leading[n] # f.term
    /\ \/ Found(n, id, f.body) /\ Succeed(n, id)
       \/ (halted[n] \/ ~Found(n, id, f.body)) /\ Fail(n, id, TRUE, calls)
    /\ UNCHANGED <<raftVars, storeVars, applied, halted, restarts>>

-----------------------------------------------------------------------------
(* Forwarded calls *)

\* Calls on their way whose sender has stopped waiting.
Abandoned == {c \in calls : c.from = None}

\* ApplyForwardedProposal at the leader opens a flight or joins the one there.
Serve(c) ==
    /\ c \in calls /\ ~c.served /\ ~halted[c.to] /\ leading[c.to] > 0
    /\ ~Conflict(c.to, c.id, c.body)
    /\ IF flight[c.to][c.id] = None
       THEN /\ ~Found(c.to, c.id, c.body)
            /\ flight' = [flight EXCEPT ![c.to][c.id] = Open(c.to, c.id, c.body, FALSE)]
       ELSE UNCHANGED flight
    /\ calls' = (calls \ {c}) \cup {CallBy(d.from, d, TRUE) : d \in {c} \ Abandoned}
    /\ UNCHANGED <<raftVars, storeVars, applied, halted, reserved, told, restarts>>

\* The leader's durable result reaches the replica that forwarded.
Reply(c) ==
    LET f == flight[c.from][c.id] IN
    /\ c \in calls /\ c.from # None /\ Running(c.from, c.id, "forward")
    /\ ~halted[c.to] /\ (c.served \/ leading[c.to] > 0)
    /\ flight[c.to][c.id] = None /\ Found(c.to, c.id, c.body)
    /\ flight' = [flight EXCEPT ![c.from][c.id] =
                    Staged(f, "await", 0, Result(history[c.to], c.id))]
    /\ calls' = calls \ {c}
    /\ UNCHANGED <<raftVars, storeVars, applied, halted, reserved, told, restarts>>

\* The leader knows the ID with other bytes: nothing of this flight can commit.
Refuse(c) ==
    /\ c \in calls /\ c.from # None /\ Running(c.from, c.id, "forward") /\ ~c.served
    /\ ~halted[c.to] /\ leading[c.to] > 0 /\ Conflict(c.to, c.id, c.body)
    /\ Fail(c.from, c.id, FALSE, calls \ {c})
    /\ UNCHANGED <<raftVars, storeVars, applied, halted, restarts>>

\* Bug variant: the timeout covers the call but not the wait for the local apply.
OutstandingCall(n, id) == Running(n, id, "forward")

\* The forward context lasts until the local store has the result.
Outstanding(n, id) == Running(n, id, "forward") \/ Running(n, id, "await")

\* A refusal, a lost connection, the forward timeout or a fatal error.
ForwardFails(n, id) ==
    /\ Outstanding(n, id)
    /\ Fail(n, id, TRUE, calls)
    /\ UNCHANGED <<raftVars, storeVars, applied, halted, restarts>>

\* The leader's outcome and result index are the local ones.
SameForwardedResult(local, forwarded) ==
    local.accepted = forwarded.accepted /\ local.index = forwarded.index

\* awaitForwardedProposalApply: the forwarding replica answers only when its
\* own store holds the leader's result for these bytes, and halts when it
\* holds another.  Other bytes under the ID are a conflict.
AwaitApplied(n, id) ==
    LET f == flight[n][id] IN
    /\ Running(n, id, "await") /\ ~halted[n] /\ Decided(history[n], id)
    /\ IF Found(n, id, f.body) /\ SameForwardedResult(Result(history[n], id), f.result)
       THEN Succeed(n, id) /\ UNCHANGED <<halted, leading>>
       ELSE /\ Fail(n, id, Found(n, id, f.body), calls)
            /\ IF Found(n, id, f.body) THEN Halt(n) ELSE UNCHANGED <<halted, leading>>
    /\ UNCHANGED <<term, pending, committed, settled, warm, storeVars, applied, restarts>>

-----------------------------------------------------------------------------
\* The daemon stops and starts again: the Raft log, its term and the store are
\* durable, everything else is not.  The log is delivered again from the start.
\* A store whose floor the binary does not support is refused (NewFSM).
Restart(n) ==
    /\ restarts < MaxRestarts
    /\ restarts' = restarts + 1
    /\ leading' = [leading EXCEPT ![n] = 0]
    /\ warm' = [warm EXCEPT ![n] = FALSE]
    /\ applied' = [applied EXCEPT ![n] = 0]
    /\ halted' = [halted EXCEPT ![n] = FloorAbove(history[n], Binary[n])]
    /\ flight' = [flight EXCEPT ![n] = [id \in Ids |-> None]]
    /\ reserved' = [reserved EXCEPT ![n] = [id \in Ids |-> None]]
    /\ calls' = {CallBy(IF c.from = n THEN None ELSE c.from, c, c.served) :
                    c \in {d \in calls : ~(d.served /\ n \in {d.from, d.to})}}
    /\ UNCHANGED <<term, pending, committed, settled, storeVars, told>>

Next ==
    \/ \E n \in Nodes :
        \/ Elect(n) \/ Establish(n) \/ Heartbeat(n) \/ StepDown(n)
        \/ ApplyFirst(n) \/ ApplyDuplicate(n) \/ ApplyCovered(n)
        \/ ApplyHalts(n)
        \/ Restart(n)
    \/ \E n \in Nodes, id \in Ids :
        \/ \E b \in Bodies : SubmitDecided(n, id, b) \/ Submit(n, id, b)
        \/ \E m \in Nodes : Forward(n, id, m)
        \/ Enqueue(n, id) \/ EnqueueLost(n, id) \/ OpenFails(n, id)
        \/ ResolveApplied(n, id) \/ ResolveLost(n, id)
        \/ ForwardFails(n, id) \/ AwaitApplied(n, id)
    \/ \E p \in pending : Commit(p)
    \/ \E c \in calls : Serve(c) \/ Reply(c) \/ Refuse(c)

Spec == Init /\ [][Next]_vars

\* Steps the code and Raft keep taking: committed commands are delivered, an
\* open flight moves on, futures resolve, a forward has its timeout, a leader
\* commits what it appended or steps down, as it does on hearing of a successor.
Progress(n) ==
    \/ leading[n] < term /\ StepDown(n)
    \/ \E p \in pending : p.term = leading[n] /\ (Commit(p) \/ StepDown(n))

Fairness ==
    \A n \in Nodes :
        /\ WF_vars(ApplyLog(n)) /\ WF_vars(Progress(n))
        /\ \A id \in Ids :
            /\ WF_vars(Enqueue(n, id) \/ OpenFails(n, id) \/ \E m \in Nodes : Forward(n, id, m))
            /\ WF_vars(ResolveApplied(n, id)) /\ WF_vars(ResolveLost(n, id))
            /\ WF_vars(ForwardFails(n, id))

FairSpec == Spec /\ Fairness

-----------------------------------------------------------------------------
(* Properties *)

Entries == [term : Nat, id : Ids, body : Bodies]
Results == [id : Ids, body : Bodies, accepted : BOOLEAN, index : Nat]
Flights ==
    [body : Bodies, preserve : BOOLEAN, allowForward : BOOLEAN,
     stage : {"open", "raft", "forward", "await"},
     term : Nat, result : Results \cup {None}]
Calls == [from : Nodes \cup {None}, to : Nodes, id : Ids, body : Bodies, served : BOOLEAN]

ASSUME NoneAssumption == None \notin Flights

\* Every variable of the proposal path has its type.
TypeOK ==
    /\ term \in Nat /\ leading \in [Nodes -> Nat] /\ settled \in Nat
    /\ pending \subseteq Entries /\ committed \in Seq(Entries)
    /\ warm \in [Nodes -> BOOLEAN] /\ applied \in [Nodes -> Nat]
    /\ history \in [Nodes -> Seq([id : Ids, body : Bodies, accepted : BOOLEAN])]
    /\ watermark \in [Nodes -> [index : Nat, term : Nat]]
    /\ applications \in [Nodes -> SUBSET [index : Nat, term : Nat, id : Ids, body : Bodies]]
    /\ halted \in [Nodes -> BOOLEAN]
    /\ flight \in [Nodes -> [Ids -> Flights \cup {None}]]
    /\ reserved \in [Nodes -> [Ids -> Bodies \cup {None}]]
    /\ calls \subseteq Calls /\ told \subseteq Results /\ restarts \in Nat

\* Replicas agree on what they have decided, in order: of any two result
\* histories one is a prefix of the other, whatever was enqueued twice,
\* replayed or lost (the result chain the checkpoints sign).
HistoriesAgree ==
    \A n, m \in Nodes : \A k \in DOMAIN history[n] \cap DOMAIN history[m] :
        history[n][k] = history[m][k]

\* No event is decided twice, though its bytes may stand at several log
\* positions (FSM.Apply's duplicate lookup).
DecidedOnce ==
    \A n \in Nodes : \A j, k \in DOMAIN history[n] :
        history[n][j].id = history[n][k].id => j = k

\* A result once given to a caller is the result: every replica that decides
\* the event decides it with those bytes, that outcome and that result index,
\* and some replica's store keeps it (Apply "returns only its durable outcome").
AnswersStand ==
    \A r \in told :
        /\ \E n \in Nodes : Decided(history[n], r.id)
        /\ \A n \in Nodes : Decided(history[n], r.id) => Result(history[n], r.id) = r

\* The position ledger a store verifies when it opens: the newest binding is
\* the watermark, positions are bound once, terms never go back, and results
\* and bindings name the same commands (verifyRaftCommandLedger).
LedgerIntact ==
    \A n \in Nodes :
        LET app == applications[n] IN
        /\ IF app = {} THEN watermark[n] = [index |-> 0, term |-> 0]
           ELSE \E a \in app : /\ a.index = watermark[n].index /\ a.term = watermark[n].term
                               /\ \A b \in app : b.index <= a.index
        /\ \A a, b \in app : /\ a.index = b.index => a = b
                             /\ a.index < b.index => a.term <= b.term
        /\ {[id |-> a.id, body |-> a.body] : a \in app} =
           {[id |-> history[n][k].id, body |-> history[n][k].body] : k \in DOMAIN history[n]}

\* The reservations cannot keep two bodies of an event apart: its callers are
\* behind several replicas, or a restart has lost a reservation.
Unreserved(id) ==
    restarts > 0 \/ \E q, r \in Requests : q[2] = id /\ r[2] = id /\ q[1] # r[1]

\* No FSM meets a log entry it cannot explain: a replica halts only on an apply
\* floor beyond its binary, or on an event ID that was committed with two
\* bodies, which takes callers behind several replicas or a lost reservation.
HaltsExplained ==
    \A n \in Nodes : halted[n] =>
        \/ FloorAbove(history[n], Binary[n])
        \/ \E j, k \in DOMAIN committed :
              /\ committed[j].id = committed[k].id /\ committed[j].body # committed[k].body
              /\ Unreserved(committed[j].id)

\* Every flight ends, so ApplyAtGeneration's caller, which waits without its
\* context, gets an answer or an error.
FlightsResolve ==
    \A n \in Nodes, id \in Ids : flight[n][id] # None ~> flight[n][id] = None

\* The replicas together are one ledger that decides each event once: the
\* longest result history, and the answers given from it.
Longest == history[CHOOSE n \in Nodes : \A m \in Nodes : Len(history[m]) <= Len(history[n])]
Ledger == INSTANCE EventLedger WITH ledger <- Longest, answers <- told

\* Every step of flights, forwarding, Raft and replay is a decision or an answer
\* of that ledger, or changes nothing of it.
ImplementsLedger == Ledger!Spec

\* A store of the cluster always opens again, and no replica stops without a reason
\* (verifyRaftCommandLedger, FSM halts).
StoresSound == LedgerIntact /\ HaltsExplained
=============================================================================
