------------------------------- MODULE Outbox -------------------------------
(***************************************************************************)
(* The durable outbox of one daemon and the two services that feed and     *)
(* drain it: the agent service, for the agent-session scope, and the boot  *)
(* origin, for the scope each boot opens.  A command is reserved in one    *)
(* transaction (idempotency key, back-pressure, next origin sequence), its *)
(* scope's head is offered to consensus until it is resolved, and callers  *)
(* wait on a signal that is closed and replaced at every result.           *)
(*                                                                         *)
(* The boot lane is a weighted semaphore: reservations and the worker's    *)
(* passes hold a share, RunExclusive and RunOrderedBootReservation hold it *)
(* all.  A version report, once reserved, goes before every other boot     *)
(* command; no other is sequenced until the report is complete.            *)
(*                                                                         *)
(* A resolved result is what the local state machine applied, so that      *)
(* commitment and local application are one step here; Proposals has the   *)
(* steps between.                                                          *)
(***************************************************************************)
EXTENDS Naturals, Sequences, FiniteSets

CONSTANTS
    Requests,        \* command requests of local callers
    Loads,           \* the classes these requests may have, one assignment per behaviour
    PerOrigin,       \* MaxUnresolvedCommandsPerOrigin
    PerSession,      \* MaxUnresolvedCommandsPerSession, small enough for each load to reach
    MaxReboots,      \* daemon restarts
    MaxCollisions,   \* event identifiers found bound to other bytes
    NoRequest

Classes == {"agent", "operator", "scheduled", "checkpoint", "admission", "report"}

ASSUME OutboxConstants ==
    /\ IsFiniteSet(Requests)
    /\ Loads \subseteq [Requests -> Classes]
    /\ PerOrigin \in Nat \ {0}
    /\ PerSession \in [Loads -> Nat \ {0}]
    /\ {MaxReboots, MaxCollisions} \subseteq Nat
    /\ NoRequest \notin Requests

VARIABLES
    class,      \* the class of each request
    req,        \* local_requests with their outbox rows
    offered,    \* proposals consensus has been given and may yet commit
    ledger,     \* committed results in order, with the sequence check's verdict
    leader,     \* whether this node leads
    bootID,     \* the scope this boot opened
    worker,     \* the agent worker and the boot worker
    wake,       \* their wake channels, of capacity one
    excl,       \* the holder of the whole lane
    gate,       \* the version report gate: boot, waiting or ready
    priority,   \* origin.versionReport
    wait,       \* callers in waitResolved
    dead,       \* a fatal error was latched
    collisions

outboxVars == <<class, req, offered, ledger, leader, bootID, worker, wake, excl, gate, priority,
                wait, dead, collisions>>
callVars  == <<class, leader, bootID, gate, priority, dead, collisions>>

Services   == {"agent", "boot"}
AgentScope == 0
Off        == [stage |-> "off", on |-> NoRequest]
Free       == [stage |-> "none", job |-> NoRequest, on |-> NoRequest]
Away       == [stage |-> "none", fired |-> FALSE]

OutboxInit ==
    /\ class \in Loads
    /\ req = [r \in Requests |-> [state |-> "none", scope |-> 0, seq |-> 0]]
    /\ offered = {} /\ ledger = <<>> /\ leader = FALSE
    /\ bootID = 1
    /\ worker = [s \in Services |-> Off]
    /\ wake = [s \in Services |-> s = "boot"]
    /\ excl = Free
    /\ gate = "boot" /\ priority = NoRequest
    /\ wait = [r \in Requests |-> Away]
    /\ dead = FALSE /\ collisions = 0

-----------------------------------------------------------------------------
(* The rows *)

ServiceOf(r)   == IF class[r] = "agent" THEN "agent" ELSE "boot"
ScopeFor(r)    == IF class[r] = "agent" THEN AgentScope ELSE bootID
Unresolved(r)  == req[r].state \in {"signed", "pending"}
Terminal(r)    == req[r].state \in {"resolved", "abandoned"}
InScope(s)     == {r \in Requests : req[r].state # "none" /\ req[r].scope = s}
Queue(s)       == {r \in InScope(s) : Unresolved(r)}

\* ClaimNextOutbox: the lowest sequence of the scope still awaiting a result.
AtHead(s, r) == r \in Queue(s) /\ \A k \in Queue(s) : req[r].seq <= req[k].seq

\* nextOriginSequence and advanceOriginCounter.
NextSequence(s) == Cardinality(InScope(s)) + 1

\* checkLocalBackpressure: one slot of the session is kept for a checkpoint, and version
\* reports, of which one may be unresolved, have a slot of their own.
Backpressure(r) ==
    LET open    == {k \in Requests : Unresolved(k)}
        reports == {k \in open : class[k] = "report"}
        others  == Cardinality(open \ reports)
    IN \/ Cardinality(Queue(ScopeFor(r))) >= PerOrigin
       \/ CASE class[r] = "checkpoint" -> others >= PerSession[class]
            [] class[r] = "report"     -> reports # {} \/ Cardinality(open) >= PerSession[class] + 1
            [] OTHER                   -> others >= PerSession[class] - 1

\* reserveLocalCommand: request and outbox row in one transaction.
Reserved(r) ==
    req' = [req EXCEPT ![r] = [state |-> "signed", scope |-> ScopeFor(r),
                               seq |-> NextSequence(ScopeFor(r))]]

Awaited(r)  == wait' = [wait EXCEPT ![r] = [stage |-> "look", fired |-> FALSE]]
Woken(s)    == wake' = [wake EXCEPT ![s] = TRUE]

\* signalResult: the channel current callers hold is closed.
Signalled(s) ==
    [r \in Requests |-> IF ServiceOf(r) = s /\ wait[r].stage \in {"armed", "asleep"}
                        THEN [wait[r] EXCEPT !.fired = TRUE] ELSE wait[r]]

-----------------------------------------------------------------------------
(* Callers *)

\* (Variants a mistake could make: commands of a boot before its report is prepared, and
\* beside the holder of the whole lane.)
MayReserveEarly(r) ==
    IF class[r] = "agent"
    THEN gate = "ready"
    ELSE excl = Free /\ priority = NoRequest
MayReserveBesideHolder(r) ==
    IF class[r] = "agent"
    THEN gate = "ready"
    ELSE gate # "boot" /\ priority = NoRequest

\* acquireSharedReservation: nobody holds the lane and no report is outstanding.  Agent
\* commands do not pass the lane; the gate keeps agents from binding before it is ready.
MayReserve(r) ==
    IF class[r] = "agent"
    THEN gate = "ready"
    ELSE gate # "boot" /\ excl = Free /\ priority = NoRequest

\* SubmitOperatorCommand, submitDaemonCommand, boundClient.submitCommand: reserve, wake
\* the worker, wait.
Submit(r) ==
    /\ req[r].state = "none" /\ ~dead
    /\ class[r] \in {"agent", "operator", "scheduled"}
    /\ class[r] = "scheduled" => leader
    /\ MayReserve(r)
    /\ ~Backpressure(r)
    /\ Reserved(r) /\ Awaited(r) /\ Woken(ServiceOf(r))
    /\ UNCHANGED <<offered, ledger, worker, excl>> /\ UNCHANGED callVars

\* A caller that lost its connection repeats the request: the row it finds is the answer
\* to wait for.
Repeat(r) ==
    /\ req[r].state # "none" /\ ~dead
    /\ class[r] \in {"agent", "operator"}
    /\ wait[r].stage = "gone"
    /\ MayReserve(r)
    /\ Awaited(r) /\ Woken(ServiceOf(r))
    /\ UNCHANGED <<req, offered, ledger, worker, excl>> /\ UNCHANGED callVars

Waits(r, s, f) == wait' = [wait EXCEPT ![r] = [stage |-> s, fired |-> f]]

\* waitResolved: look, take the current channel, look again, sleep until it is closed.
Look(r) ==
    /\ ~dead
    /\ \/ /\ wait[r].stage \in {"look", "armed"} /\ req[r].state = "resolved"
          /\ Waits(r, "answered", FALSE)
       \/ /\ wait[r].stage \in {"look", "armed"} /\ req[r].state = "abandoned"
          /\ Waits(r, "failed", FALSE)
       \/ /\ wait[r].stage = "look" /\ Unresolved(r)
          /\ Waits(r, "armed", FALSE)
       \/ /\ wait[r].stage = "armed" /\ Unresolved(r)
          /\ Waits(r, "asleep", wait[r].fired)
       \/ /\ wait[r].stage = "asleep" /\ wait[r].fired
          /\ Waits(r, "look", FALSE)
    /\ UNCHANGED <<req, offered, ledger, worker, wake, excl>> /\ UNCHANGED callVars

\* The caller's context ends first.
GiveUp(r) ==
    /\ wait[r].stage \in {"look", "armed", "asleep"}
    /\ class[r] # "report"
    /\ Waits(r, "gone", FALSE)
    /\ UNCHANGED <<req, offered, ledger, worker, wake, excl>> /\ UNCHANGED callVars

-----------------------------------------------------------------------------
(* Consensus, as the services see it *)

Committed(r) == \E k \in DOMAIN ledger : ledger[k].id = r

\* The reducer admits the next sequence of a scope and no other.
InSequence(r) ==
    req[r].seq = 1 + Cardinality({k \in DOMAIN ledger : ledger[k].ok /\ req[ledger[k].id].scope = req[r].scope})

\* The command commits; compactLocalProposal resolves the request and deletes its row.
Commit(r) ==
    /\ r \in offered /\ Unresolved(r)
    /\ ledger' = Append(ledger, [id |-> r, ok |-> InSequence(r)])
    /\ req' = [req EXCEPT ![r].state = "resolved"]
    /\ UNCHANGED <<offered, worker, wake, excl, wait>> /\ UNCHANGED callVars

ChangeLeader ==
    /\ leader' = ~leader
    /\ UNCHANGED <<class, req, offered, ledger, bootID, worker, wake, excl, gate, priority, wait, dead,
                   collisions>>

\* The drain gives up the head: pairing submits admissions itself, and what a leader's
\* daemon schedules waits until this node leads.
Blocked(r) == class[r] = "admission" \/ (class[r] \in {"scheduled", "checkpoint"} /\ ~leader)

Claimed(r) == [req EXCEPT ![r].state = "pending"]

-----------------------------------------------------------------------------
(* The workers *)

ScopesOf(s)  == IF s = "agent" THEN {AgentScope} ELSE 1..bootID
HeadsOf(s)   == {r \in Requests : \E c \in ScopesOf(s) : AtHead(c, r)}
Stage(s, st) == worker' = [worker EXCEPT ![s] = [stage |-> st, on |-> NoRequest]]

\* The worker takes its wake, or polls again after an error or a blocked head.  A boot
\* pass needs a share of the lane.
StartPass(s) ==
    /\ ~dead
    /\ worker[s].stage = "poll" \/ (worker[s].stage = "off" /\ wake[s])
    /\ s = "boot" => excl = Free
    /\ Stage(s, "pass")
    /\ wake' = [wake EXCEPT ![s] = IF worker[s].stage = "off" THEN FALSE ELSE @]
    /\ UNCHANGED <<req, offered, ledger, excl, wait>> /\ UNCHANGED callVars

\* The heads a pass may offer: while a report has priority, only the report.
Eligible(s) ==
    IF s = "boot" /\ priority # NoRequest
    THEN {r \in {priority} : Unresolved(r)}
    ELSE {r \in HeadsOf(s) : ~Blocked(r)}

\* drain and drainScopeThroughLocked: claim the head and offer it.  A report that is not
\* the head of its scope is an integrity failure.
OfferHead(s) ==
    /\ ~dead /\ worker[s].stage = "pass"
    /\ \E r \in Eligible(s) :
          IF AtHead(req[r].scope, r)
          THEN /\ req' = Claimed(r)
               /\ offered' = offered \cup {r}
               /\ worker' = [worker EXCEPT ![s] = [stage |-> "apply", on |-> r]]
               /\ UNCHANGED dead
          ELSE dead' = TRUE /\ UNCHANGED <<req, offered, worker>>
    /\ UNCHANGED <<class, ledger, leader, bootID, wake, excl, gate, priority, wait, collisions>>

\* (Variant: the worker also waits for a wake when the head it left was blocked.)
EndPassRetire(s) ==
    /\ ~dead /\ worker[s].stage = "pass" /\ Eligible(s) = {}
    /\ Stage(s, "off")
    /\ UNCHANGED <<req, offered, ledger, wake, excl, wait>> /\ UNCHANGED callVars

\* The pass is over: poll while something is blocked or a report is outstanding,
\* otherwise retire or wait for the next wake.
EndPass(s) ==
    /\ ~dead /\ worker[s].stage = "pass" /\ Eligible(s) = {}
    /\ Stage(s, IF HeadsOf(s) # {} \/ (s = "boot" /\ priority # NoRequest) THEN "poll" ELSE "off")
    /\ UNCHANGED <<req, offered, ledger, wake, excl, wait>> /\ UNCHANGED callVars

Verdict(r) == (CHOOSE k \in DOMAIN ledger : ledger[k].id = r)

\* ApplyAtGeneration returns a result: signal the callers, or die if the reducer refused
\* the sequence.
ReturnResult(s) ==
    LET r == worker[s].on IN
    /\ ~dead /\ worker[s].stage = "apply" /\ Committed(r)
    /\ Stage(s, "pass")
    /\ wait' = Signalled(s)
    /\ dead' = ~ledger[Verdict(r)].ok
    /\ UNCHANGED <<class, req, offered, ledger, leader, bootID, wake, excl, gate, priority, collisions>>

\* ApplyAtGeneration fails, before or after the command commits: retry from the queue.
ReturnError(s) ==
    /\ ~dead /\ worker[s].stage = "apply"
    /\ Stage(s, "poll")
    /\ UNCHANGED <<req, offered, ledger, wake, excl, wait>> /\ UNCHANGED callVars

\* ErrIdempotencyConflict: AbandonCommandCollision settles the exact request; a scope
\* that lost a command is poisoned.
ReturnConflict(s) ==
    LET r == worker[s].on IN
    /\ ~dead /\ worker[s].stage = "apply" /\ collisions < MaxCollisions
    /\ collisions' = collisions + 1
    /\ Stage(s, "pass")
    /\ IF req[r].state = "resolved"
       THEN wait' = Signalled(s) /\ UNCHANGED <<req, dead>>
       ELSE req' = [req EXCEPT ![r].state = "abandoned"] /\ dead' = TRUE /\ UNCHANGED wait
    /\ UNCHANGED <<class, offered, ledger, leader, bootID, wake, excl, gate, priority>>

-----------------------------------------------------------------------------
(* The whole lane: checkpoints and pairing's ordered reservations *)

Holding(st, r) == excl' = [excl EXCEPT !.stage = st, !.on = r]
LaneFree == excl = Free /\ worker["boot"].stage \notin {"pass", "apply"}

\* RunExclusive and RunOrderedBootReservation take the lane.
AcquireExclusive(r) ==
    /\ req[r].state = "none" /\ ~dead /\ gate # "boot"
    /\ class[r] \in {"checkpoint", "admission"}
    /\ class[r] = "checkpoint" => leader
    /\ LaneFree
    /\ excl' = [stage |-> "drain", job |-> r, on |-> NoRequest]
    /\ UNCHANGED <<req, offered, ledger, worker, wake, wait>> /\ UNCHANGED callVars

\* They drain what the boot scope already holds, an outstanding report first; a blocked
\* head or a report makes them release the lane and come back.
DrainExclusive ==
    /\ ~dead /\ excl.stage = "drain"
    /\ \/ /\ priority # NoRequest /\ Unresolved(priority)
          /\ req' = Claimed(priority) /\ offered' = offered \cup {priority}
          /\ Holding("apply", priority)
       \/ /\ priority # NoRequest /\ ~Unresolved(priority)
          /\ excl' = Free /\ UNCHANGED <<req, offered>>
       \/ /\ priority = NoRequest
          /\ \E r \in Queue(bootID) :
                /\ AtHead(bootID, r)
                /\ IF Blocked(r)
                   THEN excl' = Free /\ UNCHANGED <<req, offered>>
                   ELSE /\ req' = Claimed(r) /\ offered' = offered \cup {r}
                        /\ Holding("apply", r)
       \/ /\ priority = NoRequest /\ Queue(bootID) = {}
          /\ Holding("operate", NoRequest) /\ UNCHANGED <<req, offered>>
    /\ UNCHANGED <<ledger, worker, wake, wait>> /\ UNCHANGED callVars

ReturnExclusive ==
    /\ ~dead /\ excl.stage = "apply"
    /\ \/ /\ Committed(excl.on)
          /\ Holding("drain", NoRequest)
          /\ wait' = Signalled("boot")
          /\ dead' = ~ledger[Verdict(excl.on)].ok
       \/ /\ excl' = Free /\ UNCHANGED <<wait, dead>>
    /\ UNCHANGED <<class, req, offered, ledger, leader, bootID, worker, wake, gate, priority, collisions>>

\* The operation: a checkpoint is reserved and offered; an admission is only reserved,
\* in sequence, and the lane is released.
Operate ==
    LET r == excl.job IN
    /\ ~dead /\ excl.stage = "operate"
    /\ IF Backpressure(r)
       THEN excl' = Free /\ UNCHANGED <<req, offered, wake>>
       ELSE /\ Reserved(r)
            /\ IF class[r] = "checkpoint"
               THEN Holding("commit", r) /\ offered' = offered \cup {r} /\ UNCHANGED wake
               ELSE excl' = Free /\ Woken("boot") /\ UNCHANGED offered
    /\ UNCHANGED <<ledger, worker, wait>> /\ UNCHANGED callVars

\* The checkpoint's operation returns, with its result or an error.
FinishOperation ==
    /\ ~dead /\ excl.stage = "commit"
    /\ excl' = Free
    /\ wait' = Signalled("boot")
    /\ Woken("boot")
    /\ UNCHANGED <<req, offered, ledger, worker>> /\ UNCHANGED callVars

\* Pairing submits the admission it reserved.
OfferAdmission(r) ==
    /\ ~dead /\ class[r] = "admission" /\ Unresolved(r) /\ r \notin offered
    /\ AtHead(req[r].scope, r)
    /\ offered' = offered \cup {r}
    /\ UNCHANGED <<req, ledger, worker, wake, excl, wait>> /\ UNCHANGED callVars

-----------------------------------------------------------------------------
(* The version report and restarts *)

PendingReports == {r \in Requests : class[r] = "report" /\ Unresolved(r)}
FreshReports   == {r \in Requests : class[r] = "report" /\ req[r].state = "none"}
Prioritised(r) == priority' = r /\ gate' = "waiting" /\ Awaited(r)

\* prepareDaemonVersionReport, before anything else of this boot: adopt the report an
\* earlier boot left, reserve one if the binary changed, or need none.
PrepareReport ==
    /\ ~dead /\ gate = "boot"
    /\ \/ \E r \in PendingReports :
             IF AtHead(req[r].scope, r)
             THEN Prioritised(r) /\ UNCHANGED <<req, dead>>
             ELSE dead' = TRUE /\ UNCHANGED <<req, gate, priority, wait>>
       \/ /\ PendingReports = {}
          /\ \E r \in FreshReports : Reserved(r) /\ Prioritised(r) /\ UNCHANGED dead
       \/ /\ PendingReports = {}
          /\ gate' = "ready" /\ UNCHANGED <<req, priority, wait, dead>>
    /\ wake' = [wake EXCEPT !["boot"] = TRUE, !["agent"] = gate' = "ready"]
    /\ UNCHANGED <<class, offered, ledger, leader, bootID, worker, excl, collisions>>

\* daemonVersionReportGate.run: the report resolved.  If the membership row shows this
\* binary the barrier is lifted and agents are recovered; if a race left it otherwise, a
\* successor takes the report's place without opening the barrier.
CompleteReport ==
    /\ ~dead /\ gate = "waiting" /\ LaneFree
    /\ wait[priority].stage = "answered"
    /\ \/ /\ priority' = NoRequest /\ gate' = "ready"
          /\ wake' = [s \in Services |-> TRUE]
          /\ UNCHANGED <<req, wait>>
       \/ /\ \E r \in FreshReports : Reserved(r) /\ Prioritised(r)
          /\ Woken("boot")
    /\ UNCHANGED <<class, offered, ledger, leader, bootID, worker, excl, dead, collisions>>

\* The process ends, by itself or because a fatal error was latched, and starts again
\* with a boot scope of its own.
Reboot ==
    /\ bootID <= MaxReboots
    /\ bootID' = bootID + 1
    /\ worker' = [s \in Services |-> Off]
    /\ wake'   = [s \in Services |-> s = "boot"]
    /\ excl' = Free /\ gate' = "boot" /\ priority' = NoRequest /\ dead' = FALSE
    /\ wait' = [r \in Requests |-> IF wait[r].stage \in {"look", "armed", "asleep"}
                                   THEN [stage |-> "gone", fired |-> FALSE] ELSE wait[r]]
    /\ UNCHANGED <<class, req, offered, ledger, leader, collisions>>

-----------------------------------------------------------------------------

OutboxNext ==
    \/ \E r \in Requests : Submit(r) \/ Repeat(r) \/ Look(r) \/ GiveUp(r) \/ Commit(r)
                           \/ AcquireExclusive(r) \/ OfferAdmission(r)
    \/ \E s \in Services : StartPass(s) \/ OfferHead(s) \/ EndPass(s)
                           \/ ReturnResult(s) \/ ReturnError(s) \/ ReturnConflict(s)
    \/ DrainExclusive \/ ReturnExclusive \/ Operate \/ FinishOperation
    \/ PrepareReport \/ CompleteReport \/ ChangeLeader \/ Reboot

OutboxSpec == OutboxInit /\ [][OutboxNext]_outboxVars

\* Goroutines run, an offered command is decided, pairing carries on.
OutboxFairness ==
    /\ \A s \in Services : /\ SF_outboxVars(StartPass(s)) /\ SF_outboxVars(OfferHead(s))
                           /\ WF_outboxVars(EndPass(s))
                           /\ WF_outboxVars(ReturnResult(s) \/ ReturnError(s))
    /\ \A r \in Requests : WF_outboxVars(Commit(r)) /\ WF_outboxVars(Look(r))
                           /\ WF_outboxVars(OfferAdmission(r))
    /\ WF_outboxVars(DrainExclusive) /\ WF_outboxVars(ReturnExclusive)
    /\ WF_outboxVars(Operate) /\ WF_outboxVars(FinishOperation)
    /\ WF_outboxVars(PrepareReport) /\ SF_outboxVars(CompleteReport)
-----------------------------------------------------------------------------
(* Properties *)

\* A scope loses a command only when its event identifier was taken.
Poisoned(s) == \E r \in InScope(s) : req[r].state = "abandoned"

\* No command of this device is refused for its origin sequence, and no version report is
\* found behind another command of its scope, unless a collision took a command out of the
\* scope: retries, restarts, and the three places that drain a boot scope keep its order.
FatalOnlyByCollision ==
    /\ dead => collisions > 0
    /\ \A k \in DOMAIN ledger : ledger[k].ok \/ Poisoned(req[ledger[k].id].scope)

\* While a checkpoint is captured and committed under the whole lane, no other command of
\* this boot is outstanding: what it attests cannot move under it.
LaneIsExclusive ==
    excl.stage \in {"operate", "commit"} => Queue(bootID) \subseteq {excl.on}

\* The gate sleeps in waitResolved although its report is resolved (see WaitersHear).
GateDeaf ==
    gate = "waiting" /\ ~Unresolved(priority) /\ wait[priority] = [stage |-> "asleep", fired |-> FALSE]

\* Once this node keeps leading, the outbox empties, and every reserved command leaves it:
\* heads that were blocked, commands of earlier boots, results lost on the way back and a
\* report that goes first hold it up but do not strand it, unless a fatal error stops the
\* daemon or its version report gate missed its own result.
QueueDrains ==
    <>[]leader => []<>(dead \/ GateDeaf \/ \A r \in Requests : ~Unresolved(r))

\* docs/implementation/phase-2-status.md: workers retire "preventing both goroutine leaks
\* and lost wakeups".  A caller in waitResolved whose request is resolved hears of it.
WaitersHear ==
    \A r \in Requests :
        (wait[r].stage = "asleep" /\ req[r].state = "resolved") ~> (wait[r].stage # "asleep")

\* The lane of exclusive commands has one holder, and only a reused identifier stops
\* the daemon.
OutboxSound == LaneIsExclusive /\ FatalOnlyByCollision
=============================================================================
