------------------------------ MODULE MCAgents ------------------------------
(***************************************************************************)
(* Small instances of AgentSessions and Outbox, one run for the agent      *)
(* service: a behaviour is about one of the two, the other stays as it     *)
(* began.                                                                  *)
(***************************************************************************)
EXTENDS AgentSessions, Outbox, TLC

CONSTANTS l1, l2, r1, p, q

VARIABLE subject

MCRootOf == [l \in Launches |-> r1]

\* What two proposals of one daemon can be; three for one agent's session fill its limit.
Load(x, y) == p :> x @@ q :> y
MCLoads == {Load("agent", "agent"), Load("scheduled", "checkpoint"), Load("operator", "report"),
            Load("report", "report"), Load("admission", "checkpoint"),
            Load("operator", "admission"), Load("report", "checkpoint")}
MCPerSession == [L \in Loads |-> IF L = Load("agent", "agent") THEN 3 ELSE 2]

MCInit == /\ AgentInit /\ OutboxInit
          /\ \/ subject = "sessions" /\ class = Load("agent", "agent")
             \/ subject = "outbox"
MCNext == \/ subject = "sessions" /\ AgentNext /\ UNCHANGED <<outboxVars, subject>>
          \/ subject = "outbox" /\ OutboxNext /\ UNCHANGED <<agentVars, subject>>

InSessions(A) == subject = "sessions" /\ A
InOutbox(A) == subject = "outbox" /\ A
MCFairness ==
    /\ \A l \in Launches : WF_agentVars(InSessions(Reconciles(l)))
    /\ WF_agentVars(InSessions(Drains)) /\ WF_agentVars(InSessions(Reaps))
    /\ \A s \in Services : /\ SF_outboxVars(InOutbox(StartPass(s))) /\ SF_outboxVars(InOutbox(OfferHead(s)))
                           /\ WF_outboxVars(InOutbox(EndPass(s)))
                           /\ WF_outboxVars(InOutbox(ReturnResult(s) \/ ReturnError(s)))
    /\ \A r \in Requests : /\ WF_outboxVars(InOutbox(Commit(r))) /\ WF_outboxVars(InOutbox(Look(r)))
                           /\ WF_outboxVars(InOutbox(OfferAdmission(r)))
    /\ WF_outboxVars(InOutbox(DrainExclusive)) /\ WF_outboxVars(InOutbox(ReturnExclusive))
    /\ WF_outboxVars(InOutbox(Operate)) /\ WF_outboxVars(InOutbox(FinishOperation))
    /\ WF_outboxVars(InOutbox(PrepareReport)) /\ SF_outboxVars(InOutbox(CompleteReport))

MCSpec == MCInit /\ [][MCNext]_<<agentVars, outboxVars, subject>> /\ MCFairness
=============================================================================
