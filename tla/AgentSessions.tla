---------------------------- MODULE AgentSessions ----------------------------
(***************************************************************************)
(* The agent service of one daemon: launches and their one-use selectors,  *)
(* resume capabilities, the binding of local clients to agent sessions,    *)
(* and the goroutine that marks a dropped session disconnected and, after  *)
(* the grace period, ends it.                                              *)
(*                                                                         *)
(* A launch makes at most one agent session, so both carry one name.  The  *)
(* committed session row is `session'; it changes only when a command of   *)
(* the boot or agent outbox commits, compared against the version the      *)
(* submitter read.  A caller whose connection closes stops waiting, but    *)
(* its command stays in the outbox and commits all the same: those are the *)
(* `orphans'.  Capabilities are numbers in the order they are minted.      *)
(***************************************************************************)
EXTENDS Naturals, FiniteSets

CONSTANTS
    Launches,       \* launch registrations the operator asks for
    Roots,          \* managed roots
    RootOf,         \* the managed root a launch names
    Isolated,       \* the roots registered for isolated use; the others are shared
    MaxBinds,       \* bind requests of local clients, in all
    MaxRestarts,    \* daemon restarts
    MaxGuardChanges \* times a root guard changes its verdict

ASSUME AgentConstants ==
    /\ RootOf \in [Launches -> Roots]
    /\ Isolated \subseteq Roots
    /\ {MaxBinds, MaxRestarts, MaxGuardChanges} \subseteq Nat

VARIABLES
    launch,     \* agent_launches.state
    start,      \* the start proposal: none, queued, accepted or rejected
    session,    \* agent_sessions row: state and entity version
    token,      \* agent_resume_tokens: the capability committed to
    bind,       \* bind requests in flight, one per proof
    active,     \* service.active
    live,       \* the bound connection: its capability and whether it acknowledged
    life,       \* service.lifecycles: the reconciling goroutine of a session
    orphans,    \* queued commands nobody waits for any more
    healthy,    \* managed_roots.guard_status
    recovered,  \* service.recovered: clients may launch, bind and resume
    budget      \* what is left of the three bounds

agentVars == <<launch, start, session, token, bind, active, live, life, orphans, healthy, recovered, budget>>

Proofs == {"launch", "resume"}
Nobody == [capability |-> 0, acked |-> FALSE]
Idle   == [stage |-> "none", version |-> 0]

AgentInit ==
    /\ launch  = [l \in Launches |-> "none"]
    /\ start   = [l \in Launches |-> "none"]
    /\ session = [l \in Launches |-> [state |-> "none", version |-> 0]]
    /\ token   = [l \in Launches |-> 0]
    /\ bind    = [l \in Launches |-> [p \in Proofs |-> Idle]]
    /\ active  = {}
    /\ live    = [l \in Launches |-> Nobody]
    /\ life    = [l \in Launches |-> Idle]
    /\ orphans = {}
    /\ healthy = [r \in Roots |-> TRUE]
    /\ recovered = TRUE
    /\ budget  = [binds |-> MaxBinds, restarts |-> MaxRestarts, guards |-> MaxGuardChanges]

-----------------------------------------------------------------------------
(* Reading the rows *)

\* launchableRoot: the root is active, verified, healthy and of the launch's kind.
Launchable(l) == healthy[RootOf[l]]

\* (Variant: a start that was reserved does not count.)
OccupiedByBound(r) ==
    \E k \in Launches : RootOf[k] = r /\ launch[k] \in {"pending", "consumed"}

\* isolatedRootOccupied: an isolated root serves one registration that was not rejected.
Occupied(r) ==
    \E k \in Launches : RootOf[k] = r /\ launch[k] \in {"pending", "reserved", "consumed"}

Submitted(stage, v) == [stage |-> stage, version |-> v]
Command(l, to, v)   == [on |-> l, to |-> to, version |-> v]
Spend(what)         == budget[what] > 0 /\ budget' = [budget EXCEPT ![what] = @ - 1]

\* The session transitions a daemon commits, each against the version it read.
Allowed(from, to) ==
    \/ from = "connected"    /\ to = "disconnected"
    \/ from = "disconnected" /\ to \in {"connected", "ended"}

Wins(c) == session[c.on].version = c.version /\ Allowed(session[c.on].state, c.to)

CommitChange(c) ==
    session' = IF Wins(c)
               THEN [session EXCEPT ![c.on] = [state |-> c.to, version |-> @.version + 1]]
               ELSE session

-----------------------------------------------------------------------------
(* Launching *)

\* RegisterLaunch: before the vendor process starts.
RegisterLaunch(l) ==
    /\ recovered
    /\ launch[l] = "none"
    /\ Launchable(l)
    /\ RootOf[l] \in Isolated => ~Occupied(RootOf[l])
    /\ launch' = [launch EXCEPT ![l] = "pending"]
    /\ UNCHANGED <<start, session, token, bind, active, live, life, orphans, healthy, recovered, budget>>

\* ReserveLaunchStart: the selector is turned into one start proposal; a repeat by the
\* same client finds the proposal it already has.
ReserveLaunchStart(l) ==
    \/ /\ launch[l] = "pending"
       /\ Launchable(l)
       /\ launch' = [launch EXCEPT ![l] = "reserved"]
       /\ start'  = [start EXCEPT ![l] = "queued"]
    \/ launch[l] = "reserved" /\ UNCHANGED <<launch, start>>

\* Bind with a launch selector: one flight per proof, then the reservation.
BindLaunch(l) ==
    /\ recovered
    /\ Spend("binds")
    /\ bind[l]["launch"] = Idle
    /\ ReserveLaunchStart(l)
    /\ bind' = [bind EXCEPT ![l]["launch"] = Submitted("starting", 0)]
    /\ UNCHANGED <<session, token, active, live, life, orphans, healthy, recovered>>

\* The start proposal commits, or its reducer rejects it (session limit, revoked member).
CommitStart(l) ==
    /\ start[l] = "queued"
    /\ \/ /\ start'   = [start EXCEPT ![l] = "accepted"]
          /\ session' = [session EXCEPT ![l] = [state |-> "connected", version |-> 1]]
       \/ /\ start'   = [start EXCEPT ![l] = "rejected"]
          /\ UNCHANGED session
    /\ UNCHANGED <<launch, token, bind, active, live, life, orphans, healthy, recovered, budget>>

EndBind(l, p)  == bind' = [bind EXCEPT ![l][p] = Idle]
Move(l, p, s)  == bind' = [bind EXCEPT ![l][p] = s]
Release(l)     == active' = active \ {l}

\* claimActive: at most one client holds a session.
Claimable(l) == l \notin active

\* (Variant: the claim is recorded without looking whether another client has it.)
ClaimLaunchAnyway(l) ==
    /\ bind[l]["launch"].stage = "starting"
    /\ start[l] \in {"accepted", "rejected"}
    /\ active' = active \cup {l} /\ Move(l, "launch", Submitted("claimed", 0))
    /\ UNCHANGED <<launch, start, session, token, live, life, orphans, healthy, recovered, budget>>

\* bindLaunch after the start resolved: claim the session or give up.
ClaimLaunch(l) ==
    /\ bind[l]["launch"].stage = "starting"
    /\ start[l] \in {"accepted", "rejected"}
    /\ IF Claimable(l)
       THEN active' = active \cup {l} /\ Move(l, "launch", Submitted("claimed", 0))
       ELSE EndBind(l, "launch") /\ UNCHANGED active
    /\ UNCHANGED <<launch, start, session, token, live, life, orphans, healthy, recovered, budget>>

\* SettleLaunch: a rejected start consumes the registration; an accepted one mints a
\* capability, replacing the one an unacknowledged attempt was given.
SettleLaunch(l) ==
    /\ bind[l]["launch"].stage = "claimed"
    /\ IF launch[l] # "reserved" \/ (start[l] = "accepted" /\ ~Launchable(l))
       THEN EndBind(l, "launch") /\ Release(l) /\ UNCHANGED <<launch, token>>
       ELSE IF start[l] = "rejected"
       THEN /\ launch' = [launch EXCEPT ![l] = "rejected"]
            /\ token'  = [token EXCEPT ![l] = 0]
            /\ EndBind(l, "launch")
            /\ Release(l)
       ELSE /\ token'  = [token EXCEPT ![l] = @ + 1]
            /\ Move(l, "launch", Submitted("settled", 0))
            /\ UNCHANGED <<launch, active>>
    /\ UNCHANGED <<start, session, live, life, orphans, healthy, recovered, budget>>

Attach(l, p, acked) ==
    /\ live' = [live EXCEPT ![l] = [capability |-> token[l], acked |-> acked]]
    /\ EndBind(l, p)

\* The rest of bindLaunch: the committed session decides whether the client is attached,
\* resumes a session that was marked disconnected meanwhile, or is refused.
AttachLaunch(l) ==
    /\ bind[l]["launch"].stage = "settled"
    /\ \/ /\ session[l].state = "connected"
          /\ Attach(l, "launch", FALSE)
          /\ UNCHANGED active
       \/ /\ session[l].state = "disconnected"
          /\ Move(l, "launch", Submitted("resuming", session[l].version))
          /\ UNCHANGED <<live, active>>
       \/ /\ session[l].state = "ended"
          /\ EndBind(l, "launch")
          /\ Release(l)
          /\ UNCHANGED live
    /\ UNCHANGED <<launch, start, session, token, life, orphans, healthy, recovered, budget>>

\* AcknowledgeLaunch through the launch gate: the capability the client was given must
\* still be the committed one.
AcknowledgeLaunch(l) ==
    /\ live[l] # Nobody /\ ~live[l].acked
    /\ launch[l] \in {"reserved", "consumed"}
    /\ session[l].state # "ended"
    /\ Launchable(l)
    /\ live[l].capability = token[l]
    /\ launch' = [launch EXCEPT ![l] = "consumed"]
    /\ live'   = [live EXCEPT ![l].acked = TRUE]
    /\ UNCHANGED <<start, session, token, bind, active, life, orphans, healthy, recovered, budget>>

-----------------------------------------------------------------------------
(* Resuming *)

\* AuthorizeResume: the presented capability is the committed one, its launch was
\* acknowledged, and the session is disconnected.  A capability that was replaced is
\* refused, which changes nothing.
AuthorizeResume(l) ==
    /\ recovered
    /\ Spend("binds")
    /\ bind[l]["resume"] = Idle
    /\ token[l] > 0
    /\ launch[l] = "consumed"
    /\ session[l].state = "disconnected"
    /\ Launchable(l)
    /\ Move(l, "resume", Submitted("authorized", session[l].version))
    /\ UNCHANGED <<launch, start, session, token, active, live, life, orphans, healthy, recovered>>

\* bindResume after the authorisation: claim, re-read the row, submit the transition.
ClaimResume(l) ==
    /\ bind[l]["resume"].stage = "authorized"
    /\ IF /\ Claimable(l)
          /\ session[l].version = bind[l]["resume"].version
          /\ session[l].state = "disconnected"
       THEN /\ active' = active \cup {l}
            /\ Move(l, "resume", Submitted("resuming", session[l].version))
       ELSE EndBind(l, "resume") /\ UNCHANGED active
    /\ UNCHANGED <<launch, start, session, token, live, life, orphans, healthy, recovered, budget>>

Resuming(l, p) == Command(l, "connected", bind[l][p].version)

\* The resume command commits; resumeSession hands its outcome to the bind.
CommitResume(l, p) ==
    /\ bind[l][p].stage = "resuming"
    /\ CommitChange(Resuming(l, p))
    /\ Move(l, p, Submitted(IF Wins(Resuming(l, p)) THEN "resumed" ELSE "refused", 0))
    /\ UNCHANGED <<launch, start, token, active, live, life, orphans, healthy, recovered, budget>>

FinishResume(l, p) ==
    /\ \/ /\ bind[l][p].stage = "resumed"
          /\ Attach(l, p, p = "resume")
          /\ UNCHANGED active
       \/ /\ bind[l][p].stage = "refused"
          /\ EndBind(l, p)
          /\ Release(l)
          /\ UNCHANGED live
    /\ UNCHANGED <<launch, start, session, token, life, orphans, healthy, recovered, budget>>

\* The connection closes while its bind request is served: the request context is
\* cancelled, the wait ends with an error, and the claim is given back.  The command that
\* was reserved stays in the outbox; nobody is told that the connection is gone.
AbandonBind(l, p) ==
    /\ bind[l][p].stage \in {"starting", "claimed", "settled", "authorized", "resuming"}
    /\ orphans' = IF bind[l][p].stage = "resuming"
                  THEN orphans \cup {Resuming(l, p)} ELSE orphans
    /\ active'  = IF bind[l][p].stage \in {"starting", "authorized"}
                  THEN active ELSE active \ {l}
    /\ EndBind(l, p)
    /\ UNCHANGED <<launch, start, session, token, live, life, healthy, recovered, budget>>

\* A command nobody waits for is drained like any other.
CommitOrphan(c) ==
    /\ c \in orphans
    /\ CommitChange(c)
    /\ orphans' = orphans \ {c}
    /\ UNCHANGED <<launch, start, token, bind, active, live, life, healthy, recovered, budget>>

-----------------------------------------------------------------------------
(* Disconnection and reaping *)

Step(l, s) == life' = [life EXCEPT ![l] = s]

\* startLifecycleReconciliation: one goroutine per session; a second start is dropped.
StartLifecycle(l) ==
    IF life[l] = Idle THEN Step(l, Submitted("read", 0)) ELSE UNCHANGED life

\* onDisconnected, from the end of a served connection.
Disconnect(l) ==
    /\ live[l] # Nobody
    /\ live' = [live EXCEPT ![l] = Nobody]
    /\ Release(l)
    /\ StartLifecycle(l)
    /\ UNCHANGED <<launch, start, session, token, bind, orphans, healthy, recovered, budget>>

\* reconcileLifecycle, the read at the top of its loop.
ReadLifecycle(l) ==
    /\ life[l].stage = "read"
    /\ Step(l, CASE session[l].state = "connected"    -> Submitted("disconnecting", session[l].version)
                 [] session[l].state = "disconnected" -> Submitted("grace", 0)
                 [] OTHER                             -> Submitted("leaving", 0))
    /\ UNCHANGED <<launch, start, session, token, bind, active, live, orphans, healthy, recovered, budget>>

\* The grace period elapses and the row is read again.
ElapseGrace(l) ==
    /\ life[l].stage = "grace"
    /\ Step(l, IF session[l].state = "disconnected"
               THEN Submitted("ending", session[l].version)
               ELSE Submitted("leaving", 0))
    /\ UNCHANGED <<launch, start, session, token, bind, active, live, orphans, healthy, recovered, budget>>

Reconciling(l) ==
    Command(l, IF life[l].stage = "ending" THEN "ended" ELSE "disconnected", life[l].version)

\* (Variant: the goroutine ends with its first command, whatever became of it.)
CommitLifecycleOnce(l) ==
    /\ life[l].stage \in {"disconnecting", "ending"}
    /\ CommitChange(Reconciling(l))
    /\ Step(l, Submitted("leaving", 0))
    /\ UNCHANGED <<launch, start, token, bind, active, live, orphans, healthy, recovered, budget>>

\* submitDaemonStateChange and submitDaemonEnd: an accepted end is final; an accepted
\* disconnection, and every refusal, goes back to the top of the loop.
CommitLifecycle(l) ==
    /\ life[l].stage \in {"disconnecting", "ending"}
    /\ CommitChange(Reconciling(l))
    /\ Step(l, Submitted(IF life[l].stage = "ending" /\ Wins(Reconciling(l))
                         THEN "leaving" ELSE "read", 0))
    /\ UNCHANGED <<launch, start, token, bind, active, live, orphans, healthy, recovered, budget>>

\* The goroutine returns and its deferred function takes it off the map.
LeaveLifecycle(l) ==
    /\ life[l].stage = "leaving"
    /\ Step(l, Idle)
    /\ UNCHANGED <<launch, start, session, token, bind, active, live, orphans, healthy, recovered, budget>>

-----------------------------------------------------------------------------
(* The environment *)

\* RegisterManagedRoot for a known root: the guard reports a new verdict.
GuardRoot(r) ==
    /\ Spend("guards")
    /\ healthy' = [healthy EXCEPT ![r] = ~@]
    /\ UNCHANGED <<launch, start, session, token, bind, active, live, life, orphans, recovered>>

Queued ==
    {Resuming(b[1], b[2]) : b \in {c \in Launches \X Proofs : bind[c[1]][c[2]].stage = "resuming"}}
    \cup {Reconciling(l) : l \in {k \in Launches : life[k].stage \in {"disconnecting", "ending"}}}

Cleared      == [l \in Launches |-> IF launch[l] = "pending" THEN "none" ELSE launch[l]]
Working(l)   == session[l].state \in {"connected", "disconnected"}

\* The process ends and starts again: its memory is gone, its outbox is not.  Recover
\* drops the launches nobody bound and reconciles every session of this device.  After a
\* snapshot was installed over the store, CrashReap comes first.
Restart ==
    /\ Spend("restarts")
    /\ recovered' \in BOOLEAN
    /\ launch'  = IF recovered' THEN Cleared ELSE launch
    /\ bind'    = [l \in Launches |-> [p \in Proofs |-> Idle]]
    /\ active'  = {}
    /\ live'    = [l \in Launches |-> Nobody]
    /\ life'    = [l \in Launches |-> IF recovered' /\ Working(l)
                                      THEN Submitted("read", 0) ELSE Idle]
    /\ orphans' = orphans \cup Queued
    /\ UNCHANGED <<start, session, token, healthy>>

\* drainPendingAgentSessionCommands: nothing of a session is left in the outbox.
SessionsDrained == orphans = {} /\ \A l \in Launches : start[l] # "queued"

\* CrashReap ends what the store still shows of this device's sessions.
CrashReap(l) ==
    /\ ~recovered
    /\ SessionsDrained
    /\ Working(l)
    /\ session' = [session EXCEPT ![l] = [state |-> "ended", version |-> @.version + 1]]
    /\ UNCHANGED <<launch, start, token, bind, active, live, life, orphans, healthy, recovered, budget>>

\* CrashReapPending finds nothing, and the service recovers.
Recover ==
    /\ ~recovered
    /\ SessionsDrained
    /\ \A l \in Launches : ~Working(l)
    /\ recovered' = TRUE
    /\ launch' = Cleared
    /\ UNCHANGED <<start, session, token, bind, active, live, life, orphans, healthy, budget>>

AgentStep(l) ==
    \/ RegisterLaunch(l) \/ BindLaunch(l) \/ CommitStart(l) \/ ClaimLaunch(l)
    \/ SettleLaunch(l) \/ AttachLaunch(l) \/ AcknowledgeLaunch(l)
    \/ AuthorizeResume(l) \/ ClaimResume(l) \/ Disconnect(l)
    \/ ReadLifecycle(l) \/ ElapseGrace(l) \/ CommitLifecycle(l) \/ LeaveLifecycle(l)
    \/ \E p \in Proofs : CommitResume(l, p) \/ FinishResume(l, p) \/ AbandonBind(l, p)

AgentNext ==
    \/ \E l \in Launches : AgentStep(l)
    \/ \E c \in orphans : CommitOrphan(c)
    \/ \E r \in Roots : GuardRoot(r)
    \/ \E l \in Launches : CrashReap(l)
    \/ Restart \/ Recover

AgentSpec == AgentInit /\ [][AgentNext]_agentVars

\* What the daemon does by itself: its goroutines run, timers fire, and the outbox is
\* drained.  Clients, operators and guards owe nothing.
Reconciles(l) ==
    ReadLifecycle(l) \/ ElapseGrace(l) \/ CommitLifecycle(l) \/ LeaveLifecycle(l)
Drains == (\E c \in orphans : CommitOrphan(c)) \/ (~recovered /\ \E l \in Launches : CommitStart(l))
Reaps  == Recover \/ \E l \in Launches : CrashReap(l)

AgentFairness ==
    /\ \A l \in Launches : WF_agentVars(Reconciles(l))
    /\ WF_agentVars(Drains)
    /\ WF_agentVars(Reaps)
-----------------------------------------------------------------------------
(* Properties *)

\* Two agents never work in one isolated root: the occupancy test of RegisterLaunch holds
\* until the session that came of the launch is over, across rejected starts, abandoned
\* binds and restarts that drop launches nobody bound.
IsolatedRootsExclusive ==
    \A l, k \in Launches :
        l # k /\ RootOf[l] = RootOf[k] /\ RootOf[l] \in Isolated => ~(Working(l) /\ Working(k))

\* A bound client holds the one capability that resumes its session: no concurrent launch
\* retry replaces the commitment under a client that is attached.
CapabilityHeld ==
    \A l \in Launches : live[l] # Nobody => live[l].capability = token[l]

\* No session stays marked disconnected: each is resumed or ended, the goroutine that
\* marked it is still there after the grace period, whatever raced with it, and a restart
\* starts another.
DisconnectedSettles ==
    []<>(\A l \in Launches : session[l].state # "disconnected")

\* docs/design/06-agents-and-mcp.md: "Resume and grace reaping use the same expected
\* session version, so exactly one wins".  A client that won stays connected: while it is
\* attached its session is not marked disconnected.
ResumeStands == \A l \in Launches : live[l] # Nobody => session[l].state = "connected"

\* Two agents never share an isolated worktree, and two clients never share a session.
SessionsExclusive == IsolatedRootsExclusive /\ CapabilityHeld
=============================================================================
