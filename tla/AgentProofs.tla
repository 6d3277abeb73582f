---------------------------- MODULE AgentProofs ----------------------------
(***************************************************************************)
(* Proofs about the agent service and the outbox it shares with the boot   *)
(* origin, for any number of launches, roots, requests, binds and          *)
(* restarts.                                                               *)
(*                                                                         *)
(* AgentSessions: two agents never work in one isolated root, and the      *)
(* capability of an attached client is the committed one.  Outbox: no      *)
(* command is outstanding beside the holder of the whole boot lane, and    *)
(* only an identifier that was taken makes a command fail its sequence.    *)
(***************************************************************************)
EXTENDS AgentSessions, Outbox, FiniteSetTheorems, TLAPS

-----------------------------------------------------------------------------
(* Agent sessions *)

BindStages   == {"none", "starting", "claimed", "settled", "authorized",
                 "resuming", "resumed", "refused"}
LifeStages   == {"none", "read", "disconnecting", "grace", "ending", "leaving"}
SessionState == [state : {"none", "connected", "disconnected", "ended"}, version : Nat]
Commands     == [on : Launches, to : {"connected", "disconnected", "ended"}, version : Nat]

Bounds       == {"binds", "restarts", "guards"}

\* The rows and the service's memory have the shapes the code gives them.
AgentTypeOK ==
    /\ launch  \in [Launches -> {"none", "pending", "reserved", "consumed", "rejected"}]
    /\ start   \in [Launches -> {"none", "queued", "accepted", "rejected"}]
    /\ session \in [Launches -> SessionState]
    /\ token   \in [Launches -> Nat]
    /\ bind    \in [Launches -> [Proofs -> [stage : BindStages, version : Nat]]]
    /\ active  \subseteq Launches
    /\ live    \in [Launches -> [capability : Nat, acked : BOOLEAN]]
    /\ life    \in [Launches -> [stage : LifeStages, version : Nat]]
    /\ orphans \subseteq Commands
    /\ healthy \in [Roots -> BOOLEAN]
    /\ recovered \in BOOLEAN
    /\ budget  \in [Bounds -> Nat]

\* A registration that has not been rejected or dropped.
Holds(l) == launch[l] \in {"pending", "reserved", "consumed"}

\* A session at work came of an accepted start, and an isolated root has one holder: a
\* start that may still be accepted keeps its registration.
LaunchSound ==
    /\ \A l \in Launches : start[l] \in {"queued", "accepted"} => launch[l] \in {"reserved", "consumed"}
    /\ \A l \in Launches : Working(l) => start[l] = "accepted"
    /\ \A l, k \in Launches :
          l # k /\ RootOf[l] = RootOf[k] /\ RootOf[l] \in Isolated => ~(Holds(l) /\ Holds(k))

\* A bind that holds the claim of its session.
Claims(l, p) == bind[l][p].stage \in {"claimed", "settled", "resuming", "resumed", "refused"}

\* The claim has one holder: the bind that took it, or the client it attached.
ClaimSound ==
    \A l \in Launches :
        /\ \A p \in Proofs : Claims(l, p) => l \in active /\ live[l] = Nobody
        /\ live[l] # Nobody => l \in active
        /\ ~(Claims(l, "launch") /\ Claims(l, "resume"))

AgentInv == AgentTypeOK /\ LaunchSound /\ ClaimSound /\ CapabilityHeld

-----------------------------------------------------------------------------
LEMMA AgentInitSound == AgentInit => AgentInv
  <1>. SUFFICES ASSUME AgentInit PROVE AgentInv
    OBVIOUS
  <1>1. AgentTypeOK
    BY AgentConstants DEF AgentInit, AgentTypeOK, Bounds, SessionState, Idle, Nobody, BindStages, LifeStages
  <1>2. LaunchSound
    BY DEF AgentInit, LaunchSound, Working, Holds
  <1>3. ClaimSound
    BY DEF AgentInit, ClaimSound, Claims, Idle, Proofs
  <1>4. CapabilityHeld
    BY DEF AgentInit, CapabilityHeld
  <1>. QED BY <1>1, <1>2, <1>3, <1>4 DEF AgentInv

\* A committed transition changes no session that was not at work.
LEMMA ChangeOfWorking ==
  ASSUME AgentTypeOK, NEW c \in Commands, CommitChange(c)
  PROVE  /\ session' \in [Launches -> SessionState]
         /\ \A k \in Launches : Working(k)' => Working(k)
  <1>. USE DEF AgentTypeOK, SessionState, Commands
  <1>1. CASE Wins(c)
    BY <1>1 DEF CommitChange, Wins, Allowed, Working
  <1>2. CASE ~Wins(c)
    BY <1>2 DEF CommitChange, Working
  <1>. QED BY <1>1, <1>2

LEMMA Spent ==
  ASSUME AgentTypeOK, NEW w \in Bounds, Spend(w)
  PROVE  budget' \in [Bounds -> Nat]
  BY DEF AgentTypeOK, Spend

LEMMA LaunchFrame ==
  ASSUME LaunchSound, UNCHANGED <<launch, start>>,
         \A k \in Launches : Working(k)' => Working(k)
  PROVE  LaunchSound'
  BY DEF LaunchSound, Holds

LEMMA ClaimFrame ==
  ASSUME ClaimSound, CapabilityHeld, UNCHANGED <<bind, active, live, token>>
  PROVE  ClaimSound' /\ CapabilityHeld'
  BY DEF ClaimSound, CapabilityHeld, Claims

LEMMA LaunchKept ==
  ASSUME LaunchSound, UNCHANGED <<launch, start, session>>
  PROVE  LaunchSound'
  BY DEF LaunchSound, Holds, Working

\* One bind changes.
LEMMA BindMoved ==
  ASSUME AgentTypeOK, NEW l \in Launches, NEW p \in Proofs,
         NEW s \in [stage : BindStages, version : Nat],
         bind' = [bind EXCEPT ![l][p] = s]
  PROVE  /\ bind' \in [Launches -> [Proofs -> [stage : BindStages, version : Nat]]]
         /\ \A k \in Launches, q \in Proofs : bind'[k][q] = IF k = l /\ q = p THEN s ELSE bind[k][q]
  BY DEF AgentTypeOK

LEMMA StageValues ==
  ASSUME NEW s \in BindStages, NEW v \in Nat
  PROVE  /\ Submitted(s, v) \in [stage : BindStages, version : Nat]
         /\ Submitted(s, v).stage = s
  BY DEF Submitted

LEMMA IdleValue == Idle \in [stage : BindStages, version : Nat] /\ Idle.stage = "none"
  BY DEF Idle, BindStages

\* A bind of l gives up the claim, or never had it.
LEMMA BindEnded ==
  ASSUME AgentInv, NEW l \in Launches, NEW p \in Proofs, EndBind(l, p),
         UNCHANGED <<live, token>>,
         \/ active' = active /\ ~Claims(l, p)
         \/ active' = active \ {l} /\ Claims(l, p)
  PROVE  /\ bind' \in [Launches -> [Proofs -> [stage : BindStages, version : Nat]]]
         /\ ClaimSound' /\ CapabilityHeld'
  <1>1. /\ bind' \in [Launches -> [Proofs -> [stage : BindStages, version : Nat]]]
        /\ \A k \in Launches, q \in Proofs : bind'[k][q] = IF k = l /\ q = p THEN Idle ELSE bind[k][q]
    BY BindMoved, IdleValue DEF AgentInv, EndBind
  <1>2. \A k \in Launches, q \in Proofs : Claims(k, q)' <=> Claims(k, q) /\ ~(k = l /\ q = p)
    BY <1>1 DEF Claims, Idle
  <1>3. ClaimSound'
    BY <1>2 DEF AgentInv, ClaimSound, Proofs
  <1>4. CapabilityHeld'
    BY DEF AgentInv, CapabilityHeld
  <1>. QED BY <1>1, <1>3, <1>4

\* A bind of l moves on, keeping its claim or taking one that is free.
LEMMA BindClaims ==
  ASSUME AgentInv, NEW l \in Launches, NEW p \in Proofs, NEW s \in [stage : BindStages, version : Nat],
         Move(l, p, s), live' = live,
         \/ Claims(l, p) /\ active' = active
         \/ Claimable(l) /\ active' = active \cup {l}
         \/ active' = active /\ s.stage \in {"starting", "authorized"}
  PROVE  /\ bind' \in [Launches -> [Proofs -> [stage : BindStages, version : Nat]]]
         /\ active' \subseteq Launches
         /\ ClaimSound'
  <1>1. /\ bind' \in [Launches -> [Proofs -> [stage : BindStages, version : Nat]]]
        /\ \A k \in Launches, q \in Proofs : bind'[k][q] = IF k = l /\ q = p THEN s ELSE bind[k][q]
    BY BindMoved DEF AgentInv, Move
  <1>2. \A k \in Launches, q \in Proofs :
            Claims(k, q)' => Claims(k, q) \/ (k = l /\ q = p /\ s.stage \notin {"starting", "authorized"})
    BY <1>1 DEF Claims
  <1>3. ClaimSound'
    BY <1>2 DEF AgentInv, ClaimSound, Proofs, Claimable
  <1>. QED BY <1>1, <1>3 DEF AgentInv, AgentTypeOK

\* A bind that held the claim of l passes it to the client.
LEMMA Attached ==
  ASSUME AgentInv, NEW l \in Launches, NEW p \in Proofs, NEW a \in BOOLEAN, Attach(l, p, a),
         Claims(l, p), UNCHANGED <<active, token>>
  PROVE  /\ bind' \in [Launches -> [Proofs -> [stage : BindStages, version : Nat]]]
         /\ live' \in [Launches -> [capability : Nat, acked : BOOLEAN]]
         /\ ClaimSound' /\ CapabilityHeld'
  <1>1. /\ bind' \in [Launches -> [Proofs -> [stage : BindStages, version : Nat]]]
        /\ \A k \in Launches, q \in Proofs : bind'[k][q] = IF k = l /\ q = p THEN Idle ELSE bind[k][q]
    BY BindMoved, IdleValue DEF AgentInv, Attach, EndBind
  <1>2. \A k \in Launches, q \in Proofs : Claims(k, q)' <=> Claims(k, q) /\ ~(k = l /\ q = p)
    BY <1>1 DEF Claims, Idle
  <1>3. /\ live' \in [Launches -> [capability : Nat, acked : BOOLEAN]]
        /\ live'[l].capability = token[l]
        /\ \A k \in Launches \ {l} : live'[k] = live[k]
    BY DEF AgentInv, AgentTypeOK, Attach
  <1>4. ClaimSound'
    BY <1>2, <1>3 DEF AgentInv, ClaimSound, Proofs
  <1>5. CapabilityHeld'
    BY <1>3 DEF AgentInv, CapabilityHeld
  <1>. QED BY <1>1, <1>3, <1>4, <1>5

-----------------------------------------------------------------------------
(* One lemma per step of the agent service *)

LEMMA RegisterKeeps ==
  ASSUME AgentInv, NEW l \in Launches, RegisterLaunch(l)
  PROVE  AgentInv'
  <1>. USE DEF AgentInv, RegisterLaunch
  <1>1. AgentTypeOK'
    BY DEF AgentTypeOK
  <1>2. LaunchSound'
    BY AgentConstants DEF AgentTypeOK, LaunchSound, Holds, Working, Occupied
  <1>3. ClaimSound' /\ CapabilityHeld'
    BY ClaimFrame
  <1>. QED BY <1>1, <1>2, <1>3

LEMMA BindLaunchKeeps ==
  ASSUME AgentInv, NEW l \in Launches, BindLaunch(l)
  PROVE  AgentInv'
  <1>. DEFINE s == Submitted("starting", 0)
  <1>1. s \in [stage : BindStages, version : Nat] /\ s.stage = "starting"
    BY StageValues DEF BindStages
  <1>2. /\ bind' \in [Launches -> [Proofs -> [stage : BindStages, version : Nat]]]
        /\ ClaimSound'
    <2>1. Move(l, "launch", s) /\ live' = live /\ active' = active /\ "launch" \in Proofs
      BY DEF BindLaunch, Move, Proofs
    <2>. HIDE DEF s
    <2>. QED BY <1>1, <2>1, BindClaims
  <1>3. CapabilityHeld'
    BY DEF AgentInv, BindLaunch, CapabilityHeld
  <1>4. /\ launch' \in [Launches -> {"none", "pending", "reserved", "consumed", "rejected"}]
        /\ start' \in [Launches -> {"none", "queued", "accepted", "rejected"}]
        /\ LaunchSound'
    <2>1. CASE UNCHANGED <<launch, start>>
      BY <2>1, LaunchKept DEF AgentInv, AgentTypeOK, BindLaunch
    <2>2. CASE /\ launch[l] = "pending"
               /\ launch' = [launch EXCEPT ![l] = "reserved"]
               /\ start'  = [start EXCEPT ![l] = "queued"]
      BY <2>2 DEF AgentInv, BindLaunch, AgentTypeOK, LaunchSound, Holds, Working
    <2>. QED BY <2>1, <2>2 DEF BindLaunch, ReserveLaunchStart
  <1>5. budget' \in [Bounds -> Nat]
    BY Spent DEF AgentInv, BindLaunch, Bounds
  <1>6. AgentTypeOK'
    BY <1>2, <1>4, <1>5 DEF AgentInv, AgentTypeOK, BindLaunch
  <1>. QED BY <1>2, <1>3, <1>4, <1>6 DEF AgentInv

LEMMA CommitStartKeeps ==
  ASSUME AgentInv, NEW l \in Launches, CommitStart(l)
  PROVE  AgentInv'
  <1>1. AgentTypeOK'
    <2>1. start' \in [Launches -> {"none", "queued", "accepted", "rejected"}]
      BY DEF AgentInv, CommitStart, AgentTypeOK
    <2>2. session' \in [Launches -> SessionState]
      <3>1. [state |-> "connected", version |-> 1] \in SessionState
        BY DEF SessionState
      <3>. QED BY <3>1 DEF AgentInv, CommitStart, AgentTypeOK
    <2>. QED BY <2>1, <2>2 DEF AgentInv, CommitStart, AgentTypeOK
  <1>2. LaunchSound'
    BY DEF AgentInv, CommitStart, AgentTypeOK, SessionState, LaunchSound, Holds, Working
  <1>3. ClaimSound' /\ CapabilityHeld'
    BY ClaimFrame DEF AgentInv, CommitStart
  <1>. QED BY <1>1, <1>2, <1>3 DEF AgentInv

LEMMA ClaimLaunchKeeps ==
  ASSUME AgentInv, NEW l \in Launches, ClaimLaunch(l)
  PROVE  AgentInv'
  <1>. DEFINE s == Submitted("claimed", 0)
  <1>1. s \in [stage : BindStages, version : Nat] /\ "launch" \in Proofs
    BY StageValues DEF BindStages, Proofs
  <1>. HIDE DEF s
  <1>2. /\ bind' \in [Launches -> [Proofs -> [stage : BindStages, version : Nat]]]
        /\ active' \subseteq Launches
        /\ ClaimSound' /\ CapabilityHeld'
    <2>1. CASE Claimable(l)
      <3>1. Move(l, "launch", s) /\ active' = active \cup {l} /\ live' = live
        BY <2>1 DEF ClaimLaunch, s
      <3>2. CapabilityHeld'
        BY DEF AgentInv, CapabilityHeld, ClaimLaunch
      <3>. QED BY <1>1, <2>1, <3>1, <3>2, BindClaims
    <2>2. CASE ~Claimable(l)
      <3>1. EndBind(l, "launch") /\ UNCHANGED <<active, live, token>> /\ ~Claims(l, "launch")
        BY <2>2 DEF ClaimLaunch, Claims
      <3>. QED BY <1>1, <3>1, BindEnded DEF AgentInv, AgentTypeOK
    <2>. QED BY <2>1, <2>2
  <1>3. LaunchSound'
    BY LaunchKept DEF AgentInv, ClaimLaunch
  <1>4. AgentTypeOK'
    BY <1>2 DEF AgentInv, AgentTypeOK, ClaimLaunch
  <1>. QED BY <1>2, <1>3, <1>4 DEF AgentInv

LEMMA SettleLaunchKeeps ==
  ASSUME AgentInv, NEW l \in Launches, SettleLaunch(l)
  PROVE  AgentInv'
  <1>. DEFINE s == Submitted("settled", 0)
  <1>1. s \in [stage : BindStages, version : Nat] /\ "launch" \in Proofs
    BY StageValues DEF BindStages, Proofs
  <1>. HIDE DEF s
  <1>2. Claims(l, "launch") /\ live[l] = Nobody
    BY <1>1 DEF SettleLaunch, Claims, AgentInv, ClaimSound
  <1>3. CASE EndBind(l, "launch") /\ Release(l) /\ UNCHANGED <<launch, token>>
    <2>1. LaunchSound'
      BY <1>3, LaunchKept DEF AgentInv, SettleLaunch
    <2>2. /\ bind' \in [Launches -> [Proofs -> [stage : BindStages, version : Nat]]]
          /\ ClaimSound' /\ CapabilityHeld'
      BY <1>1, <1>2, <1>3, BindEnded DEF SettleLaunch, Release
    <2>3. AgentTypeOK'
      BY <1>3, <2>2 DEF AgentInv, AgentTypeOK, SettleLaunch, Release
    <2>. QED BY <2>1, <2>2, <2>3 DEF AgentInv
  <1>4. CASE /\ start[l] = "rejected"
             /\ launch' = [launch EXCEPT ![l] = "rejected"]
             /\ token'  = [token EXCEPT ![l] = 0]
             /\ EndBind(l, "launch") /\ Release(l)
    <2>1. LaunchSound'
      BY <1>4 DEF AgentInv, AgentTypeOK, SettleLaunch, LaunchSound, Holds, Working
    <2>2. /\ bind' \in [Launches -> [Proofs -> [stage : BindStages, version : Nat]]]
          /\ \A k \in Launches, q \in Proofs :
                bind'[k][q] = IF k = l /\ q = "launch" THEN Idle ELSE bind[k][q]
      BY <1>1, <1>4, BindMoved, IdleValue DEF AgentInv, EndBind
    <2>3. \A k \in Launches, q \in Proofs : Claims(k, q)' <=> Claims(k, q) /\ ~(k = l /\ q = "launch")
      BY <2>2 DEF Claims, Idle
    <2>4. ClaimSound'
      BY <1>2, <1>4, <2>3 DEF AgentInv, ClaimSound, Proofs, SettleLaunch, Release
    <2>5. CapabilityHeld'
      BY <1>2, <1>4 DEF AgentInv, AgentTypeOK, CapabilityHeld, SettleLaunch
    <2>6. AgentTypeOK'
      BY <1>4, <2>2 DEF AgentInv, AgentTypeOK, SettleLaunch, Release
    <2>. QED BY <2>1, <2>4, <2>5, <2>6 DEF AgentInv
  <1>5. CASE /\ token' = [token EXCEPT ![l] = @ + 1]
             /\ Move(l, "launch", s)
             /\ UNCHANGED <<launch, active>>
    <2>1. LaunchSound'
      BY <1>5, LaunchKept DEF AgentInv, SettleLaunch
    <2>2. /\ bind' \in [Launches -> [Proofs -> [stage : BindStages, version : Nat]]]
          /\ active' \subseteq Launches
          /\ ClaimSound'
      BY <1>1, <1>2, <1>5, BindClaims DEF SettleLaunch
    <2>3. CapabilityHeld'
      BY <1>2, <1>5 DEF AgentInv, AgentTypeOK, CapabilityHeld, SettleLaunch
    <2>4. AgentTypeOK'
      <3>1. token' \in [Launches -> Nat]
        BY <1>5 DEF AgentInv, AgentTypeOK
      <3>. QED BY <1>5, <2>2, <3>1 DEF AgentInv, AgentTypeOK, SettleLaunch
    <2>. QED BY <2>1, <2>2, <2>3, <2>4 DEF AgentInv
  <1>. QED BY <1>3, <1>4, <1>5 DEF SettleLaunch, s

LEMMA AttachLaunchKeeps ==
  ASSUME AgentInv, NEW l \in Launches, AttachLaunch(l)
  PROVE  AgentInv'
  <1>. DEFINE s == Submitted("resuming", session[l].version)
  <1>1. s \in [stage : BindStages, version : Nat] /\ "launch" \in Proofs
    BY StageValues DEF BindStages, Proofs, AgentInv, AgentTypeOK, SessionState
  <1>. HIDE DEF s
  <1>2. Claims(l, "launch")
    BY DEF AttachLaunch, Claims
  <1>3. LaunchSound'
    BY LaunchKept DEF AgentInv, AttachLaunch
  <1>4. /\ bind' \in [Launches -> [Proofs -> [stage : BindStages, version : Nat]]]
        /\ active' \subseteq Launches
        /\ live' \in [Launches -> [capability : Nat, acked : BOOLEAN]]
        /\ ClaimSound' /\ CapabilityHeld'
    <2>1. CASE Attach(l, "launch", FALSE) /\ UNCHANGED active
      BY <1>1, <1>2, <2>1, Attached DEF AttachLaunch, AgentInv, AgentTypeOK
    <2>2. CASE Move(l, "launch", s) /\ UNCHANGED <<live, active>>
      <3>1. CapabilityHeld'
        BY <2>2 DEF AgentInv, CapabilityHeld, AttachLaunch
      <3>. QED BY <1>1, <1>2, <2>2, <3>1, BindClaims DEF AttachLaunch, AgentInv, AgentTypeOK
    <2>3. CASE EndBind(l, "launch") /\ Release(l) /\ UNCHANGED live
      BY <1>1, <1>2, <2>3, BindEnded DEF AttachLaunch, AgentInv, AgentTypeOK, Release
    <2>. QED BY <2>1, <2>2, <2>3 DEF AttachLaunch, s
  <1>5. AgentTypeOK'
    BY <1>4 DEF AgentInv, AgentTypeOK, AttachLaunch
  <1>. QED BY <1>3, <1>4, <1>5 DEF AgentInv

LEMMA AcknowledgeKeeps ==
  ASSUME AgentInv, NEW l \in Launches, AcknowledgeLaunch(l)
  PROVE  AgentInv'
  <1>1. AgentTypeOK'
    BY DEF AgentInv, AgentTypeOK, AcknowledgeLaunch
  <1>2. LaunchSound'
    BY DEF AgentInv, AgentTypeOK, AcknowledgeLaunch, LaunchSound, Holds, Working
  <1>3. /\ live'[l].capability = live[l].capability
        /\ \A k \in Launches \ {l} : live'[k] = live[k]
    BY DEF AgentInv, AgentTypeOK, AcknowledgeLaunch
  <1>4. CapabilityHeld'
    BY <1>3 DEF AgentInv, CapabilityHeld, AcknowledgeLaunch
  <1>5. ClaimSound'
    BY <1>3 DEF AgentInv, ClaimSound, Claims, AcknowledgeLaunch
  <1>. QED BY <1>1, <1>2, <1>4, <1>5 DEF AgentInv

LEMMA AuthorizeKeeps ==
  ASSUME AgentInv, NEW l \in Launches, AuthorizeResume(l)
  PROVE  AgentInv'
  <1>. DEFINE s == Submitted("authorized", session[l].version)
  <1>1. s \in [stage : BindStages, version : Nat] /\ s.stage = "authorized" /\ "resume" \in Proofs
    BY StageValues DEF BindStages, Proofs, AgentInv, AgentTypeOK, SessionState
  <1>2. Move(l, "resume", s) /\ UNCHANGED <<live, active, token>>
    BY DEF AuthorizeResume
  <1>. HIDE DEF s
  <1>3. /\ bind' \in [Launches -> [Proofs -> [stage : BindStages, version : Nat]]]
        /\ ClaimSound'
    BY <1>1, <1>2, BindClaims
  <1>4. LaunchSound'
    BY LaunchKept DEF AgentInv, AuthorizeResume
  <1>5. CapabilityHeld'
    BY <1>2 DEF AgentInv, CapabilityHeld
  <1>6. budget' \in [Bounds -> Nat]
    BY Spent DEF AgentInv, AuthorizeResume, Bounds
  <1>7. AgentTypeOK'
    BY <1>3, <1>6 DEF AgentInv, AgentTypeOK, AuthorizeResume
  <1>. QED BY <1>3, <1>4, <1>5, <1>7 DEF AgentInv

LEMMA ClaimResumeKeeps ==
  ASSUME AgentInv, NEW l \in Launches, ClaimResume(l)
  PROVE  AgentInv'
  <1>. DEFINE s == Submitted("resuming", session[l].version)
  <1>1. s \in [stage : BindStages, version : Nat] /\ "resume" \in Proofs
    BY StageValues DEF BindStages, Proofs, AgentInv, AgentTypeOK, SessionState
  <1>. HIDE DEF s
  <1>2. /\ bind' \in [Launches -> [Proofs -> [stage : BindStages, version : Nat]]]
        /\ active' \subseteq Launches
        /\ ClaimSound' /\ CapabilityHeld'
    <2>1. CASE Claimable(l) /\ active' = active \cup {l} /\ Move(l, "resume", s)
      <3>1. live' = live /\ CapabilityHeld'
        BY DEF AgentInv, CapabilityHeld, ClaimResume
      <3>. QED BY <1>1, <2>1, <3>1, BindClaims
    <2>2. CASE EndBind(l, "resume") /\ UNCHANGED active
      <3>1. UNCHANGED <<live, token>> /\ ~Claims(l, "resume")
        BY DEF ClaimResume, Claims
      <3>. QED BY <1>1, <2>2, <3>1, BindEnded DEF AgentInv, AgentTypeOK
    <2>. QED BY <2>1, <2>2 DEF ClaimResume, s
  <1>3. LaunchSound'
    BY LaunchKept DEF AgentInv, ClaimResume
  <1>4. AgentTypeOK'
    BY <1>2 DEF AgentInv, AgentTypeOK, ClaimResume
  <1>. QED BY <1>2, <1>3, <1>4 DEF AgentInv

LEMMA CommitResumeKeeps ==
  ASSUME AgentInv, NEW l \in Launches, NEW p \in Proofs, CommitResume(l, p)
  PROVE  AgentInv'
  <1>. DEFINE s == Submitted(IF Wins(Resuming(l, p)) THEN "resumed" ELSE "refused", 0)
  <1>1. s \in [stage : BindStages, version : Nat]
    BY StageValues DEF BindStages
  <1>. HIDE DEF s
  <1>2. Resuming(l, p) \in Commands
    BY DEF Resuming, Command, Commands, AgentInv, AgentTypeOK
  <1>3. /\ session' \in [Launches -> SessionState]
        /\ \A k \in Launches : Working(k)' => Working(k)
    BY <1>2, ChangeOfWorking DEF AgentInv, CommitResume
  <1>4. LaunchSound'
    BY <1>3, LaunchFrame DEF AgentInv, CommitResume
  <1>5. /\ bind' \in [Launches -> [Proofs -> [stage : BindStages, version : Nat]]]
        /\ ClaimSound'
    BY <1>1, BindClaims DEF CommitResume, Claims, s
  <1>6. CapabilityHeld'
    BY DEF AgentInv, CapabilityHeld, CommitResume
  <1>7. AgentTypeOK'
    BY <1>3, <1>5 DEF AgentInv, AgentTypeOK, CommitResume
  <1>. QED BY <1>4, <1>5, <1>6, <1>7 DEF AgentInv

LEMMA FinishResumeKeeps ==
  ASSUME AgentInv, NEW l \in Launches, NEW p \in Proofs, FinishResume(l, p)
  PROVE  AgentInv'
  <1>1. Claims(l, p)
    BY DEF FinishResume, Claims
  <1>2. /\ bind' \in [Launches -> [Proofs -> [stage : BindStages, version : Nat]]]
        /\ active' \subseteq Launches
        /\ live' \in [Launches -> [capability : Nat, acked : BOOLEAN]]
        /\ ClaimSound' /\ CapabilityHeld'
    <2>1. CASE Attach(l, p, p = "resume") /\ UNCHANGED active
      BY <1>1, <2>1, Attached DEF FinishResume, AgentInv, AgentTypeOK
    <2>2. CASE EndBind(l, p) /\ Release(l) /\ UNCHANGED live
      BY <1>1, <2>2, BindEnded DEF FinishResume, AgentInv, AgentTypeOK, Release
    <2>. QED BY <2>1, <2>2 DEF FinishResume
  <1>3. LaunchSound'
    BY LaunchKept DEF AgentInv, FinishResume
  <1>4. AgentTypeOK'
    BY <1>2 DEF AgentInv, AgentTypeOK, FinishResume
  <1>. QED BY <1>2, <1>3, <1>4 DEF AgentInv

LEMMA AbandonKeeps ==
  ASSUME AgentInv, NEW l \in Launches, NEW p \in Proofs, AbandonBind(l, p)
  PROVE  AgentInv'
  <1>1. /\ bind' \in [Launches -> [Proofs -> [stage : BindStages, version : Nat]]]
        /\ ClaimSound' /\ CapabilityHeld'
    BY BindEnded DEF AbandonBind, Claims
  <1>2. active' \subseteq Launches
    BY DEF AbandonBind, AgentInv, AgentTypeOK
  <1>3. orphans' \subseteq Commands
    <2>1. Resuming(l, p) \in Commands
      BY DEF Resuming, Command, Commands, AgentInv, AgentTypeOK
    <2>. QED BY <2>1 DEF AbandonBind, AgentInv, AgentTypeOK
  <1>4. LaunchSound'
    BY LaunchKept DEF AgentInv, AbandonBind
  <1>5. AgentTypeOK'
    BY <1>1, <1>2, <1>3 DEF AgentInv, AgentTypeOK, AbandonBind
  <1>. QED BY <1>1, <1>4, <1>5 DEF AgentInv

LEMMA CommitOrphanKeeps ==
  ASSUME AgentInv, NEW c \in orphans, CommitOrphan(c)
  PROVE  AgentInv'
  <1>1. c \in Commands
    BY DEF AgentInv, AgentTypeOK
  <1>2. /\ session' \in [Launches -> SessionState]
        /\ \A k \in Launches : Working(k)' => Working(k)
    BY <1>1, ChangeOfWorking DEF AgentInv, CommitOrphan
  <1>3. LaunchSound'
    BY <1>2, LaunchFrame DEF AgentInv, CommitOrphan
  <1>4. ClaimSound' /\ CapabilityHeld'
    BY ClaimFrame DEF AgentInv, CommitOrphan
  <1>5. AgentTypeOK'
    BY <1>2 DEF AgentInv, AgentTypeOK, CommitOrphan
  <1>. QED BY <1>3, <1>4, <1>5 DEF AgentInv

LEMMA LifeValues ==
  ASSUME NEW s \in LifeStages, NEW v \in Nat
  PROVE  Submitted(s, v) \in [stage : LifeStages, version : Nat]
  BY DEF Submitted

LEMMA LifeMoved ==
  ASSUME AgentTypeOK, NEW l \in Launches, NEW s \in [stage : LifeStages, version : Nat], Step(l, s)
  PROVE  life' \in [Launches -> [stage : LifeStages, version : Nat]]
  BY DEF AgentTypeOK, Step

LEMMA DisconnectKeeps ==
  ASSUME AgentInv, NEW l \in Launches, Disconnect(l)
  PROVE  AgentInv'
  <1>1. /\ live' \in [Launches -> [capability : Nat, acked : BOOLEAN]]
        /\ live'[l] = Nobody
        /\ \A k \in Launches \ {l} : live'[k] = live[k]
    BY DEF Disconnect, Nobody, AgentInv, AgentTypeOK
  <1>2. life' \in [Launches -> [stage : LifeStages, version : Nat]]
    BY LifeValues, LifeMoved DEF Disconnect, StartLifecycle, LifeStages, AgentInv, AgentTypeOK
  <1>3. ClaimSound'
    BY <1>1 DEF Disconnect, Release, AgentInv, ClaimSound, Claims
  <1>4. CapabilityHeld'
    BY <1>1 DEF Disconnect, AgentInv, CapabilityHeld
  <1>5. LaunchSound'
    BY LaunchKept DEF AgentInv, Disconnect
  <1>6. AgentTypeOK'
    BY <1>1, <1>2 DEF AgentInv, AgentTypeOK, Disconnect, Release
  <1>. QED BY <1>3, <1>4, <1>5, <1>6 DEF AgentInv

\* The goroutine that reconciles a session moves, and at most commits a transition.
LEMMA ReconcileKeeps ==
  ASSUME AgentInv, NEW l \in Launches, Reconciles(l)
  PROVE  AgentInv'
  <1>1. life' \in [Launches -> [stage : LifeStages, version : Nat]]
    <2>1. session[l].version \in Nat /\ {"read", "disconnecting", "grace", "ending", "leaving"} \subseteq LifeStages
      BY DEF AgentInv, AgentTypeOK, SessionState, LifeStages
    <2>2. CASE ReadLifecycle(l)
      BY <2>1, <2>2, LifeValues, LifeMoved DEF ReadLifecycle, AgentInv
    <2>3. CASE ElapseGrace(l)
      BY <2>1, <2>3, LifeValues, LifeMoved DEF ElapseGrace, AgentInv
    <2>4. CASE CommitLifecycle(l)
      BY <2>1, <2>4, LifeValues, LifeMoved DEF CommitLifecycle, AgentInv
    <2>5. CASE LeaveLifecycle(l)
      BY <2>5, LifeMoved DEF LeaveLifecycle, AgentInv, Idle, LifeStages
    <2>. QED BY <2>2, <2>3, <2>4, <2>5 DEF Reconciles
  <1>2. /\ session' \in [Launches -> SessionState]
        /\ \A k \in Launches : Working(k)' => Working(k)
    <2>1. CASE CommitLifecycle(l)
      <3>1. Reconciling(l) \in Commands
        BY DEF Reconciling, Command, Commands, AgentInv, AgentTypeOK
      <3>. QED BY <2>1, <3>1, ChangeOfWorking DEF AgentInv, CommitLifecycle
    <2>2. CASE UNCHANGED session
      BY <2>2 DEF AgentInv, AgentTypeOK, Working
    <2>. QED BY <2>1, <2>2 DEF Reconciles, ReadLifecycle, ElapseGrace, LeaveLifecycle
  <1>3. UNCHANGED <<launch, start, token, bind, active, live, orphans, healthy, recovered, budget>>
    BY DEF Reconciles, ReadLifecycle, ElapseGrace, CommitLifecycle, LeaveLifecycle
  <1>4. LaunchSound'
    BY <1>2, <1>3, LaunchFrame DEF AgentInv
  <1>5. ClaimSound' /\ CapabilityHeld'
    BY <1>3, ClaimFrame DEF AgentInv
  <1>6. AgentTypeOK'
    BY <1>1, <1>2, <1>3 DEF AgentInv, AgentTypeOK
  <1>. QED BY <1>4, <1>5, <1>6 DEF AgentInv

LEMMA GuardKeeps ==
  ASSUME AgentInv, NEW r \in Roots, GuardRoot(r)
  PROVE  AgentInv'
  <1>1. budget' \in [Bounds -> Nat]
    BY Spent DEF AgentInv, GuardRoot, Bounds
  <1>2. healthy' \in [Roots -> BOOLEAN]
    BY DEF AgentInv, AgentTypeOK, GuardRoot
  <1>3. AgentTypeOK'
    BY <1>1, <1>2 DEF AgentInv, AgentTypeOK, GuardRoot
  <1>4. LaunchSound'
    BY LaunchKept DEF AgentInv, GuardRoot
  <1>5. ClaimSound' /\ CapabilityHeld'
    BY ClaimFrame DEF AgentInv, GuardRoot
  <1>. QED BY <1>3, <1>4, <1>5 DEF AgentInv

\* Recovery drops registrations nobody bound, and no other.
LEMMA ClearedSound ==
  ASSUME AgentInv, launch' = Cleared, UNCHANGED <<start, session>>
  PROVE  /\ launch' \in [Launches -> {"none", "pending", "reserved", "consumed", "rejected"}]
         /\ LaunchSound'
  <1>1. \A l \in Launches : launch'[l] = IF launch[l] = "pending" THEN "none" ELSE launch[l]
    BY DEF Cleared
  <1>2. launch' \in [Launches -> {"none", "pending", "reserved", "consumed", "rejected"}]
    BY DEF Cleared, AgentInv, AgentTypeOK
  <1>3. LaunchSound'
    BY <1>1 DEF AgentInv, LaunchSound, Holds, Working
  <1>. QED BY <1>2, <1>3

LEMMA RestartKeeps ==
  ASSUME AgentInv, Restart
  PROVE  AgentInv'
  <1>1. budget' \in [Bounds -> Nat]
    BY Spent DEF AgentInv, Restart, Bounds
  <1>2. /\ launch' \in [Launches -> {"none", "pending", "reserved", "consumed", "rejected"}]
        /\ LaunchSound'
    <2>1. CASE launch' = Cleared
      BY <2>1, ClearedSound DEF Restart
    <2>2. CASE launch' = launch
      BY <2>2, LaunchKept DEF Restart, AgentInv, AgentTypeOK
    <2>. QED BY <2>1, <2>2 DEF Restart
  <1>3. orphans' \subseteq Commands
    <2>1. Queued \subseteq Commands
      BY DEF Queued, Resuming, Reconciling, Command, Commands, AgentInv, AgentTypeOK
    <2>. QED BY <2>1 DEF Restart, AgentInv, AgentTypeOK
  <1>4. bind' \in [Launches -> [Proofs -> [stage : BindStages, version : Nat]]]
    BY IdleValue DEF Restart
  <1>5. /\ live' \in [Launches -> [capability : Nat, acked : BOOLEAN]]
        /\ \A l \in Launches : live'[l] = Nobody
    BY DEF Restart, Nobody
  <1>6. life' \in [Launches -> [stage : LifeStages, version : Nat]]
    <2>1. {Idle, Submitted("read", 0)} \subseteq [stage : LifeStages, version : Nat]
      BY DEF Idle, Submitted, LifeStages
    <2>. QED BY <2>1 DEF Restart
  <1>7. ClaimSound'
    BY <1>5 DEF ClaimSound, Claims, Restart, Idle, Proofs
  <1>8. CapabilityHeld'
    BY <1>5 DEF CapabilityHeld
  <1>9. AgentTypeOK'
    BY <1>1, <1>2, <1>3, <1>4, <1>5, <1>6 DEF AgentInv, AgentTypeOK, Restart
  <1>. QED BY <1>2, <1>7, <1>8, <1>9 DEF AgentInv

LEMMA CrashReapKeeps ==
  ASSUME AgentInv, NEW l \in Launches, CrashReap(l)
  PROVE  AgentInv'
  <1>1. /\ session' \in [Launches -> SessionState]
        /\ \A k \in Launches : Working(k)' => Working(k)
    BY DEF AgentInv, AgentTypeOK, SessionState, CrashReap, Working
  <1>2. LaunchSound'
    BY <1>1, LaunchFrame DEF AgentInv, CrashReap
  <1>3. ClaimSound' /\ CapabilityHeld'
    BY ClaimFrame DEF AgentInv, CrashReap
  <1>4. AgentTypeOK'
    BY <1>1 DEF AgentInv, AgentTypeOK, CrashReap
  <1>. QED BY <1>2, <1>3, <1>4 DEF AgentInv

LEMMA RecoverKeeps ==
  ASSUME AgentInv, Recover
  PROVE  AgentInv'
  <1>1. /\ launch' \in [Launches -> {"none", "pending", "reserved", "consumed", "rejected"}]
        /\ LaunchSound'
    BY ClearedSound DEF Recover
  <1>2. ClaimSound' /\ CapabilityHeld'
    BY ClaimFrame DEF AgentInv, Recover
  <1>3. AgentTypeOK'
    BY <1>1 DEF AgentInv, AgentTypeOK, Recover
  <1>. QED BY <1>1, <1>2, <1>3 DEF AgentInv

LEMMA AgentNextKeeps == AgentInv /\ [AgentNext]_agentVars => AgentInv'
  <1>. SUFFICES ASSUME AgentInv, [AgentNext]_agentVars PROVE AgentInv'
    OBVIOUS
  <1>1. ASSUME NEW l \in Launches, AgentStep(l) PROVE AgentInv'
    BY <1>1, RegisterKeeps, BindLaunchKeeps, CommitStartKeeps, ClaimLaunchKeeps, SettleLaunchKeeps,
       AttachLaunchKeeps, AcknowledgeKeeps, AuthorizeKeeps, ClaimResumeKeeps, DisconnectKeeps,
       ReconcileKeeps, CommitResumeKeeps, FinishResumeKeeps, AbandonKeeps
       DEF AgentStep, Reconciles
  <1>2. CASE UNCHANGED agentVars
    <2>1. LaunchSound'
      BY <1>2, LaunchKept DEF AgentInv, agentVars
    <2>2. ClaimSound' /\ CapabilityHeld'
      BY <1>2, ClaimFrame DEF AgentInv, agentVars
    <2>. QED BY <1>2, <2>1, <2>2 DEF AgentInv, AgentTypeOK, agentVars
  <1>. QED BY <1>1, <1>2, CommitOrphanKeeps, GuardKeeps, CrashReapKeeps, RestartKeeps, RecoverKeeps
           DEF AgentNext

\* Every behaviour of the agent service keeps the shape of its rows, one registration per
\* isolated root and one holder per claimed session.
THEOREM AgentInvariant == AgentSpec => []AgentInv
  BY AgentInitSound, AgentNextKeeps, PTL DEF AgentSpec

\* RegisterLaunch, ReserveLaunchStart and claimActive: two agents never work in one
\* isolated root and the capability of an attached client is the committed one, through
\* retries, abandoned binds, orphaned commands, reaping and restarts.
THEOREM SessionsAreExclusive == AgentSpec => []SessionsExclusive
  <1>1. AgentInv => SessionsExclusive
    BY DEF AgentInv, LaunchSound, Holds, SessionsExclusive, IsolatedRootsExclusive
  <1>. QED BY <1>1, AgentInvariant, PTL

-----------------------------------------------------------------------------
(* The outbox *)

Row       == [state : {"none", "signed", "pending", "resolved", "abandoned"}, scope : Nat, seq : Nat]
Result    == [id : Requests, ok : BOOLEAN]
Slots     == Requests \cup {NoRequest}
Attempt   == [stage : {"off", "poll", "pass", "apply"}, on : Slots]
Lane      == [stage : {"none", "drain", "apply", "operate", "commit"}, job : Slots, on : Slots]
Waiter    == [stage : {"none", "look", "armed", "asleep", "answered", "failed", "gone"}, fired : BOOLEAN]

OutboxTypeOK ==
    /\ class \in [Requests -> Classes]
    /\ req \in [Requests -> Row]
    /\ offered \subseteq Requests
    /\ ledger \in Seq(Result)
    /\ leader \in BOOLEAN
    /\ bootID \in Nat \ {0}
    /\ worker \in [Services -> Attempt]
    /\ wake \in [Services -> BOOLEAN]
    /\ excl \in Lane
    /\ gate \in {"boot", "waiting", "ready"}
    /\ priority \in Slots
    /\ wait \in [Requests -> Waiter]
    /\ dead \in BOOLEAN
    /\ collisions \in Nat

Done(s)     == {r \in InScope(s) : req[r].state = "resolved"}
Accepted(s) == {k \in DOMAIN ledger : ledger[k].ok /\ req[ledger[k].id].scope = s}
Total(s)    == Cardinality(InScope(s))
Settled(s)  == Cardinality(Done(s))

\* A scope numbers its commands 1, 2, 3 and so on, each number once.
Numbered(s) ==
    /\ \A r \in InScope(s) : req[r].seq \in 1..Total(s)
    /\ \A r, k \in InScope(s) : req[r].seq = req[k].seq => r = k
    /\ \A n \in 1..Total(s) : \E r \in InScope(s) : req[r].seq = n

\* Unless it lost a command, a scope is settled from the front, and consensus admitted
\* exactly what is settled.
InOrder(s) ==
    ~Poisoned(s) =>
        /\ Cardinality(Accepted(s)) = Settled(s)
        /\ \A r \in Done(s) : req[r].seq <= Settled(s)
        /\ \A r \in Queue(s) : req[r].seq > Settled(s)

Leads(r) == Unresolved(r) => AtHead(req[r].scope, r)

RowsSound ==
    /\ \A r \in Requests : req[r].state # "none" =>
          req[r].scope <= bootID /\ (class[r] = "agent" <=> req[r].scope = AgentScope)
    /\ \A s \in Nat : Numbered(s) /\ InOrder(s)
    /\ \A r \in Requests : class[r] = "report" => Leads(r)
    /\ \A r \in offered : req[r].state # "none" /\ Leads(r)
    /\ \A k \in DOMAIN ledger :
          /\ req[ledger[k].id].state = "resolved"
          /\ \A s \in Nat : req[ledger[k].id].scope = s => ledger[k].ok \/ Poisoned(s)
    /\ \A r \in Requests : req[r].state = "abandoned" => collisions > 0

\* A command of this boot that awaits its result.
OfBoot(r) == Unresolved(r) /\ req[r].scope = bootID

StepsSound ==
    /\ dead => collisions > 0
    /\ \A s \in Services : worker[s].stage = "apply" => worker[s].on \in offered
    /\ excl.stage = "apply" => excl.on \in offered
    /\ excl.stage \in {"drain", "apply", "operate"} =>
          /\ excl.job \in Requests
          /\ class[excl.job] \in {"checkpoint", "admission"}
          /\ req[excl.job].state = "none"
    /\ excl.stage = "operate" => excl.on = NoRequest
    /\ excl.stage \in {"operate", "commit"} => \A r \in Requests : OfBoot(r) => r = excl.on
    /\ gate = "boot" => excl.stage = "none" /\ \A r \in Requests : req[r].state = "none" \/ req[r].scope # bootID
    /\ gate = "waiting" <=> priority # NoRequest
    /\ priority # NoRequest =>
          /\ class[priority] = "report"
          /\ req[priority].state # "none"
          /\ \A r \in Requests : OfBoot(r) => r = priority
          /\ excl.stage \notin {"operate", "commit"}
    /\ \A r \in Requests : wait[r].stage = "answered" => req[r].state = "resolved"

OutboxInv == OutboxTypeOK /\ RowsSound /\ StepsSound

-----------------------------------------------------------------------------
LEMMA FiniteScopes ==
  ASSUME OutboxTypeOK, NEW s \in Nat
  PROVE  /\ IsFiniteSet(InScope(s)) /\ IsFiniteSet(Done(s)) /\ IsFiniteSet(Accepted(s))
         /\ Total(s) \in Nat /\ Settled(s) \in Nat /\ Cardinality(Accepted(s)) \in Nat
  <1>1. IsFiniteSet(InScope(s)) /\ IsFiniteSet(Done(s))
    BY OutboxConstants, FS_Subset DEF InScope, Done
  <1>2. IsFiniteSet(Accepted(s))
    <2>1. Accepted(s) \subseteq 1..Len(ledger) /\ Len(ledger) \in Nat
      BY DEF Accepted, OutboxTypeOK
    <2>2. IsFiniteSet(1..Len(ledger))
      BY <2>1, FS_Interval
    <2>. QED BY <2>1, <2>2, FS_Subset
  <1>. QED BY <1>1, <1>2, FS_CardinalityType DEF Total, Settled

LEMMA LedgerIds ==
  ASSUME OutboxTypeOK
  PROVE  \A k \in DOMAIN ledger : ledger[k].id \in Requests /\ req[ledger[k].id].scope \in Nat
  <1>1. \A k \in DOMAIN ledger : ledger[k] \in Result
    BY DEF OutboxTypeOK
  <1>. QED BY <1>1 DEF OutboxTypeOK, Result, Row

\* The rows move only between "signed" and "pending".
LEMMA RowsKept ==
  ASSUME OutboxTypeOK, RowsSound, req' \in [Requests -> Row], UNCHANGED <<class, ledger>>,
         bootID' \in Nat, bootID' >= bootID, collisions' \in Nat, collisions' >= collisions,
         \A r \in Requests : /\ req'[r].scope = req[r].scope /\ req'[r].seq = req[r].seq
                             /\ \/ req'[r].state = req[r].state
                                \/ {req'[r].state, req[r].state} \subseteq {"signed", "pending"},
         \A r \in offered' \ offered : r \in Requests /\ req[r].state # "none" /\ Leads(r)
  PROVE  RowsSound'
  <1>1. \A r \in Requests : /\ req'[r].state = "none" <=> req[r].state = "none"
                            /\ req'[r].state = "resolved" <=> req[r].state = "resolved"
                            /\ req'[r].state = "abandoned" <=> req[r].state = "abandoned"
                            /\ Unresolved(r)' <=> Unresolved(r)
    BY DEF Unresolved
  <1>2. \A s \in Nat : InScope(s)' = InScope(s) /\ Queue(s)' = Queue(s) /\ Done(s)' = Done(s)
    BY <1>1 DEF InScope, Queue, Done
  <1>3. \A s \in Nat : Accepted(s)' = Accepted(s) /\ (Poisoned(s)' <=> Poisoned(s))
    BY <1>1, <1>2, LedgerIds DEF Accepted, Poisoned, InScope
  <1>4. \A s \in Nat : Numbered(s)'
    <2>. TAKE s \in Nat
    <2>1. Numbered(s) /\ InScope(s)' = InScope(s) /\ Total(s)' = Total(s)
      BY <1>2 DEF RowsSound, Total
    <2>2. \A r \in InScope(s) : req'[r].seq = req[r].seq
      BY DEF InScope
    <2>. QED BY <2>1, <2>2 DEF Numbered
  <1>5. ASSUME NEW s \in Nat PROVE InOrder(s)'
    <2>1. InOrder(s) /\ Settled(s)' = Settled(s) /\ Accepted(s)' = Accepted(s)
      BY <1>2, <1>3 DEF RowsSound, Settled
    <2>2. \A r \in Done(s) \cup Queue(s) : req'[r].seq = req[r].seq
      BY DEF Done, Queue, InScope
    <2>. QED BY <1>2, <1>3, <2>1, <2>2 DEF InOrder
  <1>6. \A r \in Requests : Leads(r) => Leads(r)'
    BY <1>1, <1>2 DEF Leads, AtHead, OutboxTypeOK, Row, Queue, InScope
  <1>7. \A k \in DOMAIN ledger :
          /\ req'[ledger[k].id].state = "resolved"
          /\ \A s \in Nat : req'[ledger[k].id].scope = s => ledger[k].ok \/ Poisoned(s)'
    BY <1>1, <1>3, LedgerIds DEF RowsSound
  <1>8. \A r \in Requests : req'[r].state # "none" =>
          req'[r].scope <= bootID' /\ (class'[r] = "agent" <=> req'[r].scope = AgentScope)
    BY <1>1 DEF RowsSound, OutboxTypeOK, Row
  <1>9. \A r \in Requests : req'[r].state = "abandoned" => collisions' > 0
    BY <1>1 DEF RowsSound, OutboxTypeOK
  <1>10. \A r \in offered' : req'[r].state # "none" /\ Leads(r)'
    BY <1>1, <1>6 DEF RowsSound, OutboxTypeOK
  <1>11. \A r \in Requests : class'[r] = "report" => Leads(r)'
    BY <1>6 DEF RowsSound
  <1>. QED BY <1>2, <1>4, <1>5, <1>7, <1>8, <1>9, <1>10, <1>11 DEF RowsSound

\* reserveLocalCommand gives the next sequence of the scope.
LEMMA RowsReserved ==
  ASSUME OutboxTypeOK, RowsSound, NEW r \in Requests, req[r].state = "none", Reserved(r),
         UNCHANGED <<class, ledger, bootID, collisions>>,
         offered' = offered \/ (offered' = offered \cup {r} /\ Queue(ScopeFor(r)) = {}),
         class[r] = "report" => Queue(ScopeFor(r)) = {}
  PROVE  /\ req' \in [Requests -> Row]
         /\ RowsSound'
         /\ req'[r].state = "signed" /\ req'[r].scope = ScopeFor(r)
         /\ \A k \in Requests \ {r} : req'[k] = req[k]
  <1>. DEFINE c == ScopeFor(r)
              n == NextSequence(c)
              row == [state |-> "signed", scope |-> c, seq |-> n]
  <1>1. c \in Nat /\ c <= bootID /\ (class[r] = "agent" <=> c = AgentScope)
    BY DEF ScopeFor, AgentScope, OutboxTypeOK
  <1>2. n \in Nat /\ n = Total(c) + 1 /\ Total(c) \in Nat
    BY <1>1, FiniteScopes DEF NextSequence, Total
  <1>. HIDE DEF c, n
  <1>3. row \in Row
    BY <1>1, <1>2 DEF Row
  <1>4. /\ req' \in [Requests -> Row]
        /\ req'[r] = row
        /\ \A k \in Requests \ {r} : req'[k] = req[k]
    BY <1>3 DEF Reserved, OutboxTypeOK, c, n
  <1>5. \A s \in Nat : /\ InScope(s)' = IF s = c THEN InScope(s) \cup {r} ELSE InScope(s)
                       /\ Queue(s)' = IF s = c THEN Queue(s) \cup {r} ELSE Queue(s)
                       /\ Done(s)' = Done(s)
                       /\ r \notin InScope(s)
    BY <1>4 DEF InScope, Queue, Done, Unresolved
  <1>6. \A s \in Nat : Accepted(s)' = Accepted(s) /\ (Poisoned(s)' <=> Poisoned(s))
    <2>1. \A k \in DOMAIN ledger : ledger[k].id \in Requests \ {r}
      BY LedgerIds DEF RowsSound
    <2>. QED BY <1>4, <1>5, <2>1 DEF Accepted, Poisoned, InScope
  <1>7. ASSUME NEW s \in Nat PROVE Numbered(s)'
    <2>1. Numbered(s) /\ \A k \in InScope(s) : req'[k] = req[k]
      BY <1>4, <1>5 DEF RowsSound, InScope
    <2>2. CASE s # c
      <3>1. InScope(s)' = InScope(s) /\ Total(s)' = Total(s)
        BY <1>5, <2>2 DEF Total
      <3>. QED BY <2>1, <3>1 DEF Numbered
    <2>3. CASE s = c
      <3>1. Total(s)' = n
        BY <1>2, <1>5, <2>3, FiniteScopes, FS_AddElement DEF Total
      <3>2. InScope(s)' = InScope(s) \cup {r} /\ req'[r].seq = n /\ r \notin InScope(s)
        BY <1>4, <1>5, <2>3
      <3>3. \A k \in InScope(s) : req[k].seq \in 1..(n - 1)
        BY <1>2, <2>1, <2>3 DEF Numbered
      <3>4. \A k \in InScope(s)' : req'[k].seq \in 1..n
        BY <1>2, <2>1, <3>2, <3>3
      <3>5. \A j, k \in InScope(s)' : req'[j].seq = req'[k].seq => j = k
        BY <1>2, <2>1, <3>2, <3>3 DEF Numbered
      <3>6. \A m \in 1..n : \E k \in InScope(s)' : req'[k].seq = m
        <4>. TAKE m \in 1..n
        <4>1. CASE m = n
          BY <4>1, <3>2
        <4>2. CASE m # n
          <5>1. m \in 1..Total(s)
            BY <1>2, <2>3, <4>2
          <5>. QED BY <2>1, <3>2, <5>1 DEF Numbered
        <4>. QED BY <4>1, <4>2
      <3>. QED BY <3>1, <3>4, <3>5, <3>6 DEF Numbered
    <2>. QED BY <2>2, <2>3
  <1>8. ASSUME NEW s \in Nat PROVE InOrder(s)'
    <2>1. \A k \in InScope(s) : req'[k] = req[k]
      BY <1>4, <1>5 DEF InScope
    <2>2. InOrder(s) /\ Settled(s)' = Settled(s) /\ Done(s) \subseteq InScope(s) /\ Queue(s) \subseteq InScope(s)
      BY <1>5 DEF RowsSound, Settled, Done, Queue
    <2>3. s = c => n > Settled(s)
      <3>1. Settled(s) <= Total(s)
        BY <2>2, FiniteScopes, FS_Subset DEF Settled, Total
      <3>. QED BY <1>2, <3>1, FiniteScopes
    <2>4. s = c => req'[r].seq = n
      BY <1>4
    <2>. QED BY <1>5, <1>6, <2>1, <2>2, <2>3, <2>4 DEF InOrder
  <1>9. \A k \in Requests \ {r} : Leads(k) => Leads(k)'
    <2>. SUFFICES ASSUME NEW k \in Requests \ {r}, Leads(k), Unresolved(k)
                  PROVE  Leads(k)'
      BY <1>4 DEF Leads, Unresolved
    <2>1. AtHead(req[k].scope, k) /\ req[k].scope \in Nat /\ req'[k] = req[k] /\ req[k].seq \in Nat
      BY <1>4 DEF Leads, OutboxTypeOK, Row
    <2>2. req[k].scope = c => req[k].seq < n
      <3>1. k \in InScope(req[k].scope)
        BY <2>1 DEF AtHead, Queue
      <3>. QED BY <1>2, <2>1, <3>1 DEF RowsSound, Numbered
    <2>3. \A s \in Nat : s = req[k].scope => AtHead(s, k)'
      BY <1>2, <1>4, <1>5, <2>1, <2>2 DEF AtHead, Queue, InScope
    <2>. QED BY <2>1, <2>3 DEF Leads
  <1>10. Queue(c) = {} => Leads(r)'
    <2>. SUFFICES ASSUME Queue(c) = {} PROVE Leads(r)'
      OBVIOUS
    <2>1. \A s \in Nat : s = c => Queue(s)' = {r}
      BY <1>5
    <2>2. \A s \in Nat : s = c => AtHead(s, r)'
      BY <1>2, <1>4, <2>1 DEF AtHead
    <2>. QED BY <1>1, <1>4, <2>2 DEF Leads
  <1>11. \A k \in offered' : req'[k].state # "none" /\ Leads(k)'
    <2>1. r \notin offered /\ offered \subseteq Requests
      BY DEF RowsSound, OutboxTypeOK
    <2>. QED BY <1>4, <1>9, <1>10, <2>1 DEF RowsSound, c
  <1>12. \A k \in Requests : class'[k] = "report" => Leads(k)'
    BY <1>9, <1>10 DEF RowsSound, c
  <1>13. \A k \in Requests : req'[k].state # "none" =>
          req'[k].scope <= bootID' /\ (class'[k] = "agent" <=> req'[k].scope = AgentScope)
    BY <1>1, <1>4 DEF RowsSound
  <1>14. \A k \in DOMAIN ledger :
          /\ req'[ledger[k].id].state = "resolved"
          /\ \A s \in Nat : req'[ledger[k].id].scope = s => ledger[k].ok \/ Poisoned(s)'
    BY <1>4, <1>6, LedgerIds DEF RowsSound
  <1>15. \A k \in Requests : req'[k].state = "abandoned" => collisions' > 0
    BY <1>4 DEF RowsSound
  <1>. QED BY <1>4, <1>5, <1>7, <1>8, <1>11, <1>12, <1>13, <1>14, <1>15 DEF RowsSound, c

\* In an unpoisoned scope the head is the next command consensus admits.
LEMMA HeadInSequence ==
  ASSUME OutboxTypeOK, RowsSound, NEW r \in Requests, NEW s \in Nat, s = req[r].scope,
         AtHead(s, r), ~Poisoned(s)
  PROVE  req[r].seq = Settled(s) + 1 /\ InSequence(r)
  <1>1. /\ Numbered(s) /\ InOrder(s)
        /\ Settled(s) \in Nat /\ Total(s) \in Nat
        /\ Done(s) \subseteq InScope(s) /\ r \in InScope(s) /\ r \notin Done(s)
        /\ req[r].seq \in Nat
    BY FiniteScopes DEF RowsSound, Done, AtHead, Queue, Unresolved, OutboxTypeOK, Row
  <1>2. Settled(s) < Total(s)
    <2>1. Cardinality(Done(s) \cup {r}) = Settled(s) + 1
      BY <1>1, FiniteScopes, FS_AddElement DEF Settled
    <2>2. Cardinality(Done(s) \cup {r}) <= Total(s)
      BY <1>1, FiniteScopes, FS_Subset DEF Total
    <2>. QED BY <1>1, <2>1, <2>2
  <1>3. PICK k \in InScope(s) : req[k].seq = Settled(s) + 1
    BY <1>1, <1>2 DEF Numbered
  <1>4. k \in Queue(s)
    <2>1. k \notin Done(s)
      BY <1>1, <1>3 DEF InOrder
    <2>2. req[k].state \notin {"resolved", "abandoned", "none"}
      BY <2>1 DEF Done, Poisoned, InScope
    <2>. QED BY <2>2 DEF Queue, Unresolved, OutboxTypeOK, Row, InScope
  <1>5. req[r].seq <= Settled(s) + 1 /\ req[r].seq > Settled(s)
    BY <1>1, <1>3, <1>4 DEF AtHead, InOrder
  <1>6. InSequence(r) <=> req[r].seq = 1 + Cardinality(Accepted(s))
    BY DEF InSequence, Accepted
  <1>. QED BY <1>1, <1>5, <1>6 DEF InOrder

LEMMA RowsCommitted ==
  ASSUME OutboxTypeOK, RowsSound, NEW r \in Requests, Commit(r)
  PROVE  /\ req' \in [Requests -> Row]
         /\ ledger' \in Seq(Result)
         /\ RowsSound'
         /\ req'[r].scope = req[r].scope
         /\ req'[r].state = "resolved"
         /\ \A k \in Requests \ {r} : req'[k] = req[k]
  <1>. DEFINE e == [id |-> r, ok |-> InSequence(r)]
  <1>1. e \in Result
    BY DEF Result, InSequence
  <1>2. /\ ledger' \in Seq(Result)
        /\ DOMAIN ledger' = 1..(Len(ledger) + 1) /\ DOMAIN ledger = 1..Len(ledger) /\ Len(ledger) \in Nat
        /\ ledger'[Len(ledger) + 1] = e
        /\ \A k \in DOMAIN ledger : ledger'[k] = ledger[k]
    <2>1. ledger' = Append(ledger, e) /\ ledger \in Seq(Result)
      BY DEF Commit, OutboxTypeOK
    <2>. HIDE DEF e
    <2>. QED BY <1>1, <2>1
  <1>3. /\ req' \in [Requests -> Row]
        /\ req'[r].state = "resolved" /\ req'[r].scope = req[r].scope /\ req'[r].seq = req[r].seq
        /\ \A k \in Requests \ {r} : req'[k] = req[k]
        /\ Unresolved(r) /\ req[r].state # "none" /\ req[r].scope \in Nat
    BY DEF Commit, OutboxTypeOK, Row, Unresolved
  <1>4. AtHead(req[r].scope, r)
    BY DEF Commit, RowsSound, Leads
  <1>5. ASSUME NEW s \in Nat
        PROVE  /\ InScope(s)' = InScope(s)
               /\ Queue(s)' = Queue(s) \ {r}
               /\ Done(s)' = IF s = req[r].scope THEN Done(s) \cup {r} ELSE Done(s)
               /\ r \notin Done(s)
               /\ Poisoned(s)' <=> Poisoned(s)
    BY <1>3 DEF InScope, Queue, Done, Poisoned, Unresolved
  <1>6. ASSUME NEW s \in Nat PROVE Numbered(s)'
    <2>1. Numbered(s) /\ InScope(s)' = InScope(s) /\ Total(s)' = Total(s)
      BY <1>5 DEF RowsSound, Total
    <2>2. \A k \in InScope(s) : req'[k].seq = req[k].seq
      BY <1>3 DEF InScope
    <2>. QED BY <2>1, <2>2 DEF Numbered
  <1>7. ASSUME NEW s \in Nat, ~Poisoned(s)
        PROVE  /\ s = req[r].scope => InSequence(r)
               /\ Accepted(s)' = IF s = req[r].scope THEN Accepted(s) \cup {Len(ledger) + 1} ELSE Accepted(s)
               /\ Len(ledger) + 1 \notin Accepted(s)
    <2>1. s = req[r].scope => InSequence(r)
      BY <1>4, <1>7, HeadInSequence
    <2>2. \A k \in DOMAIN ledger : req'[ledger[k].id].scope = req[ledger[k].id].scope
      BY <1>3, LedgerIds
    <2>3. \A k \in DOMAIN ledger : k # Len(ledger) + 1
      BY <1>2
    <2>4. e.id = r /\ e.ok = InSequence(r)
      OBVIOUS
    <2>5. \A k : k \in DOMAIN ledger' <=> k \in DOMAIN ledger \/ k = Len(ledger) + 1
      BY <1>2
    <2>. HIDE DEF e
    <2>6. Accepted(s)' = {k \in DOMAIN ledger' : ledger'[k].ok /\ req'[ledger'[k].id].scope = s}
      BY DEF Accepted
    <2>. QED BY <1>2, <1>3, <2>1, <2>2, <2>3, <2>4, <2>5, <2>6 DEF Accepted
  <1>8. ASSUME NEW s \in Nat PROVE InOrder(s)'
    <2>. SUFFICES ASSUME ~Poisoned(s)
                  PROVE  /\ Cardinality(Accepted(s))' = Settled(s)'
                         /\ \A k \in Done(s)' : req'[k].seq <= Settled(s)'
                         /\ \A k \in Queue(s)' : req'[k].seq > Settled(s)'
      BY <1>5 DEF InOrder
    <2>1. /\ InOrder(s) /\ Numbered(s) /\ Settled(s) \in Nat
          /\ Cardinality(Accepted(s)) = Settled(s)
          /\ \A k \in Done(s) : req[k].seq <= Settled(s)
          /\ \A k \in Queue(s) : req[k].seq > Settled(s)
      BY FiniteScopes DEF RowsSound, InOrder
    <2>2. \A k \in InScope(s) : req'[k].seq = req[k].seq /\ req[k].seq \in Nat
      BY <1>3 DEF InScope, OutboxTypeOK, Row
    <2>3. Done(s) \subseteq InScope(s) /\ Queue(s) \subseteq InScope(s)
      BY DEF Done, Queue
    <2>4. CASE s # req[r].scope
      <3>1. Settled(s)' = Settled(s) /\ Accepted(s)' = Accepted(s)
        BY <1>5, <1>7, <2>4 DEF Settled
      <3>. QED BY <1>5, <2>1, <2>2, <2>3, <2>4, <3>1
    <2>5. CASE s = req[r].scope
      <3>1. Settled(s)' = Settled(s) + 1
        BY <1>5, <2>5, FiniteScopes, FS_AddElement DEF Settled
      <3>2. Cardinality(Accepted(s))' = Cardinality(Accepted(s)) + 1
        <4>1. /\ Accepted(s)' = Accepted(s) \cup {Len(ledger) + 1}
              /\ Len(ledger) + 1 \notin Accepted(s)
              /\ IsFiniteSet(Accepted(s))
          BY <1>7, <2>5, FiniteScopes
        <4>2. Cardinality(Accepted(s) \cup {Len(ledger) + 1}) = Cardinality(Accepted(s)) + 1
          BY <4>1, FS_AddElement
        <4>. QED BY <4>1, <4>2
      <3>3. req[r].seq = Settled(s) + 1 /\ r \in InScope(s)
        BY <1>4, <2>5, HeadInSequence DEF AtHead, Queue
      <3>4. \A k \in Queue(s) \ {r} : req[k].seq > Settled(s) + 1
        <4>. TAKE k \in Queue(s) \ {r}
        <4>1. req[k].seq # req[r].seq
          BY <2>1, <2>3, <3>3 DEF Numbered
        <4>. QED BY <2>1, <2>2, <2>3, <3>3, <4>1
      <3>5. \A k \in Done(s) \cup {r} : req[k].seq <= Settled(s) + 1
        BY <2>1, <2>2, <2>3, <3>3
      <3>. QED BY <1>5, <2>1, <2>2, <2>3, <2>5, <3>1, <3>2, <3>3, <3>4, <3>5
    <2>. QED BY <2>4, <2>5
  <1>9. \A k \in Requests : Leads(k) => Leads(k)'
    <2>. SUFFICES ASSUME NEW k \in Requests \ {r}, Leads(k), Unresolved(k) PROVE Leads(k)'
      BY <1>3 DEF Leads, Unresolved
    <2>1. AtHead(req[k].scope, k) /\ req[k].scope \in Nat /\ req'[k] = req[k]
      BY <1>3 DEF Leads, OutboxTypeOK, Row
    <2>2. \A s \in Nat : s = req[k].scope => AtHead(s, k)'
      <3>. SUFFICES ASSUME NEW s \in Nat, s = req[k].scope PROVE AtHead(s, k)'
        OBVIOUS
      <3>1. \A j \in Queue(s) : req'[j].seq = req[j].seq
        BY <1>3 DEF Queue, InScope
      <3>. QED BY <1>5, <2>1, <3>1 DEF AtHead
    <2>. QED BY <2>1, <2>2 DEF Leads
  <1>10. \A k \in offered' : req'[k].state # "none" /\ Leads(k)'
    BY <1>3, <1>9 DEF RowsSound, Commit, OutboxTypeOK
  <1>11. \A k \in Requests : class'[k] = "report" => Leads(k)'
    BY <1>9 DEF RowsSound, Commit, callVars
  <1>12. \A k \in Requests : req'[k].state # "none" =>
          req'[k].scope <= bootID' /\ (class'[k] = "agent" <=> req'[k].scope = AgentScope)
    BY <1>3 DEF RowsSound, Commit, callVars
  <1>13. \A k \in Requests : req'[k].state = "abandoned" => collisions' > 0
    BY <1>3 DEF RowsSound, Commit, callVars
  <1>14. \A k \in DOMAIN ledger' :
          /\ req'[ledger'[k].id].state = "resolved"
          /\ \A s \in Nat : req'[ledger'[k].id].scope = s => ledger'[k].ok \/ Poisoned(s)'
    <2>. TAKE k \in DOMAIN ledger'
    <2>1. CASE k \in DOMAIN ledger
      BY <1>2, <1>3, <1>5, <2>1, LedgerIds DEF RowsSound
    <2>2. CASE k = Len(ledger) + 1
      <3>1. ledger'[k].id = r /\ ledger'[k].ok = InSequence(r)
        BY <1>2, <2>2
      <3>. QED BY <1>3, <1>5, <1>7, <3>1
    <2>. QED BY <1>2, <2>1, <2>2
  <1>. QED BY <1>2, <1>3, <1>5, <1>6, <1>8, <1>10, <1>11, <1>12, <1>13, <1>14 DEF RowsSound

\* AbandonCommandCollision poisons the scope of the command it gives up.
LEMMA RowsAbandoned ==
  ASSUME OutboxTypeOK, RowsSound, NEW r \in Requests, req[r].state \notin {"none", "resolved"},
         req' = [req EXCEPT ![r].state = "abandoned"], collisions' = collisions + 1,
         UNCHANGED <<class, ledger, bootID, offered>>
  PROVE  /\ req' \in [Requests -> Row]
         /\ RowsSound'
         /\ req'[r].scope = req[r].scope
         /\ req'[r].state = "abandoned"
         /\ \A k \in Requests \ {r} : req'[k] = req[k]
  <1>1. /\ req' \in [Requests -> Row]
        /\ req'[r].state = "abandoned" /\ req'[r].scope = req[r].scope /\ req'[r].seq = req[r].seq
        /\ \A k \in Requests \ {r} : req'[k] = req[k]
        /\ req[r].scope \in Nat
    BY DEF OutboxTypeOK, Row
  <1>2. ASSUME NEW s \in Nat
        PROVE  /\ InScope(s)' = InScope(s)
               /\ Queue(s)' = Queue(s) \ {r}
               /\ Done(s)' = Done(s)
               /\ Poisoned(s)' <=> Poisoned(s) \/ s = req[r].scope
    BY <1>1 DEF InScope, Queue, Done, Poisoned, Unresolved
  <1>3. ASSUME NEW s \in Nat PROVE Numbered(s)'
    <2>1. Numbered(s) /\ InScope(s)' = InScope(s) /\ Total(s)' = Total(s)
      BY <1>2 DEF RowsSound, Total
    <2>2. \A k \in InScope(s) : req'[k].seq = req[k].seq
      BY <1>1 DEF InScope
    <2>. QED BY <2>1, <2>2 DEF Numbered
  <1>4. ASSUME NEW s \in Nat PROVE InOrder(s)'
    <2>1. Accepted(s)' = Accepted(s) /\ Settled(s)' = Settled(s) /\ InOrder(s)
      BY <1>1, <1>2, LedgerIds DEF Accepted, Settled, RowsSound
    <2>2. \A k \in Done(s) \cup Queue(s) : req'[k].seq = req[k].seq
      BY <1>1 DEF Done, Queue, InScope
    <2>. QED BY <1>2, <2>1, <2>2 DEF InOrder
  <1>5. \A k \in Requests : Leads(k) => Leads(k)'
    <2>. SUFFICES ASSUME NEW k \in Requests \ {r}, Leads(k), Unresolved(k) PROVE Leads(k)'
      BY <1>1 DEF Leads, Unresolved
    <2>1. AtHead(req[k].scope, k) /\ req[k].scope \in Nat /\ req'[k] = req[k]
      BY <1>1 DEF Leads, OutboxTypeOK, Row
    <2>2. \A s \in Nat : s = req[k].scope => AtHead(s, k)'
      <3>. SUFFICES ASSUME NEW s \in Nat, s = req[k].scope PROVE AtHead(s, k)'
        OBVIOUS
      <3>1. \A j \in Queue(s) : req'[j].seq = req[j].seq
        BY <1>1 DEF Queue, InScope
      <3>. QED BY <1>2, <2>1, <3>1 DEF AtHead
    <2>. QED BY <2>1, <2>2 DEF Leads
  <1>6. \A k \in offered' : req'[k].state # "none" /\ Leads(k)'
    BY <1>1, <1>5 DEF RowsSound, OutboxTypeOK
  <1>7. \A k \in Requests : class'[k] = "report" => Leads(k)'
    BY <1>5 DEF RowsSound
  <1>8. \A k \in Requests : req'[k].state # "none" =>
          req'[k].scope <= bootID' /\ (class'[k] = "agent" <=> req'[k].scope = AgentScope)
    BY <1>1 DEF RowsSound
  <1>9. \A k \in Requests : req'[k].state = "abandoned" => collisions' > 0
    BY DEF OutboxTypeOK
  <1>10. \A k \in DOMAIN ledger :
          /\ req'[ledger[k].id].state = "resolved"
          /\ \A s \in Nat : req'[ledger[k].id].scope = s => ledger[k].ok \/ Poisoned(s)'
    BY <1>1, <1>2, LedgerIds DEF RowsSound
  <1>. QED BY <1>1, <1>2, <1>3, <1>4, <1>6, <1>7, <1>8, <1>9, <1>10 DEF RowsSound

\* A result the reducer refused shows that a scope is poisoned.
LEMMA RefusalExplained ==
  ASSUME OutboxTypeOK, RowsSound, NEW r \in Requests, Committed(r), ~ledger[Verdict(r)].ok
  PROVE  collisions > 0
  <1>. DEFINE k == Verdict(r)
  <1>1. k \in DOMAIN ledger
    BY DEF Committed, Verdict
  <1>. HIDE DEF k
  <1>2. req[ledger[k].id].scope \in Nat /\ ~ledger[k].ok
    BY <1>1, LedgerIds DEF k
  <1>3. PICK s \in Nat : s = req[ledger[k].id].scope
    BY <1>2
  <1>4. Poisoned(s)
    BY <1>1, <1>2, <1>3 DEF RowsSound
  <1>. QED BY <1>4 DEF Poisoned, InScope, RowsSound

-----------------------------------------------------------------------------
(* One lemma per step of the outbox *)

LEMMA OutboxInitSound == OutboxInit => OutboxInv
  <1>. SUFFICES ASSUME OutboxInit PROVE OutboxInv
    OBVIOUS
  <1>1. OutboxTypeOK
    <2>1. class \in [Requests -> Classes]
      BY OutboxConstants DEF OutboxInit
    <2>2. req \in [Requests -> Row] /\ ledger \in Seq(Result) /\ bootID \in Nat \ {0}
      BY DEF OutboxInit, Row
    <2>3. worker \in [Services -> Attempt] /\ excl \in Lane /\ wait \in [Requests -> Waiter]
      BY DEF OutboxInit, Attempt, Lane, Waiter, Off, Free, Away, Slots
    <2>. QED BY <2>1, <2>2, <2>3 DEF OutboxInit, OutboxTypeOK, Slots
  <1>2. \A s \in Nat : InScope(s) = {} /\ Queue(s) = {} /\ Done(s) = {} /\ Accepted(s) = {}
    BY DEF OutboxInit, InScope, Queue, Done, Accepted
  <1>3. \A s \in Nat : Total(s) = 0 /\ Settled(s) = 0 /\ Cardinality(Accepted(s)) = 0
    BY <1>2, FS_EmptySet DEF Total, Settled
  <1>4. \A s \in Nat : Numbered(s) /\ InOrder(s)
    BY <1>2, <1>3 DEF Numbered, InOrder
  <1>5. RowsSound
    BY <1>4 DEF RowsSound, OutboxInit, Leads, Unresolved
  <1>6. StepsSound
    BY DEF StepsSound, OfBoot, Unresolved, OutboxInit, Off, Free, Away
  <1>. QED BY <1>1, <1>5, <1>6 DEF OutboxInv

\* Callers.
LEMMA SubmitKeeps ==
  ASSUME OutboxInv, NEW r \in Requests, Submit(r)
  PROVE  OutboxInv'
  <1>1. /\ req' \in [Requests -> Row] /\ RowsSound'
        /\ req'[r].state = "signed" /\ req'[r].scope = ScopeFor(r)
        /\ \A k \in Requests \ {r} : req'[k] = req[k]
    BY RowsReserved DEF Submit, OutboxInv, callVars
  <1>2. /\ wait' \in [Requests -> Waiter] /\ wait'[r].stage = "look"
        /\ \A k \in Requests \ {r} : wait'[k] = wait[k]
    <2>1. [stage |-> "look", fired |-> FALSE] \in Waiter
      BY DEF Waiter
    <2>. QED BY <2>1 DEF Submit, Awaited, OutboxInv, OutboxTypeOK
  <1>3. OutboxTypeOK'
    BY <1>1, <1>2 DEF Submit, Woken, OutboxInv, OutboxTypeOK, callVars
  <1>4. class[r] # "agent" => gate # "boot" /\ excl = Free /\ priority = NoRequest
    BY DEF Submit, MayReserve
  <1>5. class[r] = "agent" => gate = "ready" /\ ScopeFor(r) = 0 /\ bootID # 0
    BY DEF Submit, MayReserve, ScopeFor, AgentScope, OutboxInv, OutboxTypeOK
  <1>6. StepsSound'
    BY <1>1, <1>2, <1>4, <1>5 DEF Submit, StepsSound, OfBoot, Unresolved, OutboxInv, OutboxTypeOK, Slots, callVars, Free
  <1>. QED BY <1>1, <1>3, <1>6 DEF OutboxInv

\* A step that leaves rows, lane, gate and offers alone.
LEMMA RowsAndLaneKept ==
  ASSUME OutboxInv, UNCHANGED <<req, offered, ledger, excl>>, UNCHANGED callVars
  PROVE  /\ RowsSound'
         /\ OutboxTypeOK' <=> /\ worker' \in [Services -> Attempt]
                             /\ wake' \in [Services -> BOOLEAN]
                             /\ wait' \in [Requests -> Waiter]
         /\ StepsSound' <=> /\ \A s \in Services : worker'[s].stage = "apply" => worker'[s].on \in offered
                           /\ \A k \in Requests : wait'[k].stage = "answered" => req[k].state = "resolved"
  <1>1. RowsSound'
    <2>1. bootID \in Nat /\ collisions \in Nat /\ req' \in [Requests -> Row]
      BY DEF OutboxInv, OutboxTypeOK
    <2>. QED BY <2>1, RowsKept DEF OutboxInv, callVars
  <1>. QED BY <1>1 DEF OutboxInv, OutboxTypeOK, StepsSound, OfBoot, Unresolved, callVars

LEMMA WaitersKeep ==
  ASSUME OutboxInv, NEW r \in Requests, Repeat(r) \/ Look(r) \/ GiveUp(r)
  PROVE  OutboxInv'
  <1>1. UNCHANGED <<req, offered, ledger, worker, excl>> /\ UNCHANGED callVars
    BY DEF Repeat, Look, GiveUp
  <1>2. PICK w \in Waiter : /\ wait' = [wait EXCEPT ![r] = w]
                            /\ w.stage = "answered" => req[r].state = "resolved"
    <2>1. \A st \in {"none", "look", "armed", "asleep", "answered", "failed", "gone"}, f \in BOOLEAN :
             [stage |-> st, fired |-> f] \in Waiter
      BY DEF Waiter
    <2>2. wait[r].fired \in BOOLEAN
      BY DEF OutboxInv, OutboxTypeOK, Waiter
    <2>3. CASE Repeat(r)
      BY <2>1, <2>3 DEF Repeat, Awaited
    <2>4. CASE Look(r)
      BY <2>1, <2>2, <2>4 DEF Look, Waits
    <2>5. CASE GiveUp(r)
      BY <2>1, <2>5 DEF GiveUp, Waits
    <2>. QED BY <2>3, <2>4, <2>5
  <1>3. wait' \in [Requests -> Waiter] /\ wait'[r] = w /\ \A k \in Requests \ {r} : wait'[k] = wait[k]
    BY <1>2 DEF OutboxInv, OutboxTypeOK
  <1>4. wake' \in [Services -> BOOLEAN]
    BY DEF Repeat, Look, GiveUp, Woken, OutboxInv, OutboxTypeOK
  <1>5. OutboxTypeOK'
    BY <1>1, <1>3, <1>4, RowsAndLaneKept DEF OutboxInv, OutboxTypeOK
  <1>6. StepsSound'
    BY <1>1, <1>2, <1>3, RowsAndLaneKept DEF OutboxInv, StepsSound
  <1>. QED BY <1>1, <1>5, <1>6, RowsAndLaneKept DEF OutboxInv

LEMMA CommitKeeps ==
  ASSUME OutboxInv, NEW r \in Requests, Commit(r)
  PROVE  OutboxInv'
  <1>1. /\ req' \in [Requests -> Row] /\ ledger' \in Seq(Result) /\ RowsSound'
        /\ req'[r].state = "resolved" /\ req'[r].scope = req[r].scope
        /\ \A k \in Requests \ {r} : req'[k] = req[k]
    BY RowsCommitted DEF OutboxInv
  <1>2. OutboxTypeOK'
    BY <1>1 DEF Commit, OutboxInv, OutboxTypeOK, callVars
  <1>3. StepsSound'
    BY <1>1 DEF Commit, Unresolved, StepsSound, OfBoot, OutboxInv, OutboxTypeOK, Slots, callVars
  <1>. QED BY <1>1, <1>2, <1>3 DEF OutboxInv

\* The workers.
LEMMA StageMoved ==
  ASSUME OutboxTypeOK, NEW s \in Services, NEW st \in {"off", "poll", "pass"}, Stage(s, st)
  PROVE  /\ worker' \in [Services -> Attempt]
         /\ worker'[s].stage = st
         /\ \A t \in Services \ {s} : worker'[t] = worker[t]
  <1>1. [stage |-> st, on |-> NoRequest] \in Attempt
    BY DEF Attempt, Slots
  <1>. QED BY <1>1 DEF OutboxTypeOK, Stage

LEMMA PassKeeps ==
  ASSUME OutboxInv, NEW s \in Services, StartPass(s) \/ EndPass(s) \/ ReturnError(s)
  PROVE  OutboxInv'
  <1>1. UNCHANGED <<req, offered, ledger, excl, wait>> /\ UNCHANGED callVars
    BY DEF StartPass, EndPass, ReturnError
  <1>2. PICK st \in {"off", "poll", "pass"} : Stage(s, st)
    BY DEF StartPass, EndPass, ReturnError
  <1>3. wake' \in [Services -> BOOLEAN]
    BY DEF StartPass, EndPass, ReturnError, OutboxInv, OutboxTypeOK
  <1>4. /\ worker' \in [Services -> Attempt] /\ worker'[s].stage = st
        /\ \A t \in Services \ {s} : worker'[t] = worker[t]
    BY <1>2, StageMoved DEF OutboxInv
  <1>5. OutboxTypeOK'
    BY <1>1, <1>3, <1>4, RowsAndLaneKept DEF OutboxInv, OutboxTypeOK
  <1>6. StepsSound'
    BY <1>1, <1>4, RowsAndLaneKept DEF OutboxInv, StepsSound
  <1>. QED BY <1>1, <1>5, <1>6, RowsAndLaneKept DEF OutboxInv

\* A claimed head is offered.
LEMMA Offering ==
  ASSUME OutboxInv, NEW r \in Requests, Unresolved(r), Leads(r), req' = Claimed(r),
         offered' = offered \cup {r}, UNCHANGED <<class, ledger, bootID, collisions>>
  PROVE  /\ req' \in [Requests -> Row] /\ RowsSound'
         /\ \A k \in Requests : /\ Unresolved(k)' <=> Unresolved(k)
                                /\ req'[k].scope = req[k].scope
                                /\ req'[k].state = "none" <=> req[k].state = "none"
                                /\ req'[k].state = "resolved" <=> req[k].state = "resolved"
  <1>1. /\ req' \in [Requests -> Row]
        /\ req'[r].state = "pending" /\ req'[r].scope = req[r].scope /\ req'[r].seq = req[r].seq
        /\ \A k \in Requests \ {r} : req'[k] = req[k]
    BY DEF Claimed, OutboxInv, OutboxTypeOK, Row
  <1>2. bootID \in Nat /\ collisions \in Nat
    BY DEF OutboxInv, OutboxTypeOK
  <1>3. RowsSound'
    BY <1>1, <1>2, RowsKept DEF OutboxInv, Unresolved
  <1>. QED BY <1>1, <1>3 DEF Unresolved

LEMMA OfferHeadKeeps ==
  ASSUME OutboxInv, NEW s \in Services, OfferHead(s)
  PROVE  OutboxInv'
  <1>1. PICK r \in Eligible(s) :
          IF AtHead(req[r].scope, r)
          THEN /\ req' = Claimed(r)
               /\ offered' = offered \cup {r}
               /\ worker' = [worker EXCEPT ![s] = [stage |-> "apply", on |-> r]]
               /\ UNCHANGED dead
          ELSE dead' = TRUE /\ UNCHANGED <<req, offered, worker>>
    BY DEF OfferHead
  <1>2. r \in Requests /\ Unresolved(r) /\ AtHead(req[r].scope, r)
    <2>1. CASE priority # NoRequest /\ r = priority /\ Unresolved(r)
      <3>1. r \in Requests /\ class[r] = "report"
        BY <2>1 DEF OutboxInv, OutboxTypeOK, Slots, StepsSound
      <3>. QED BY <2>1, <3>1 DEF OutboxInv, RowsSound, Leads
    <2>2. CASE r \in HeadsOf(s)
      BY <2>2 DEF HeadsOf, AtHead, Queue, InScope
    <2>. QED BY <2>1, <2>2 DEF Eligible
  <1>3. /\ req' \in [Requests -> Row] /\ RowsSound'
        /\ \A k \in Requests : /\ Unresolved(k)' <=> Unresolved(k)
                               /\ req'[k].scope = req[k].scope
                               /\ req'[k].state = "none" <=> req[k].state = "none"
                               /\ req'[k].state = "resolved" <=> req[k].state = "resolved"
    BY <1>1, <1>2, Offering DEF OfferHead, Leads
  <1>4. /\ worker' \in [Services -> Attempt] /\ worker'[s].on = r
        /\ \A t \in Services \ {s} : worker'[t] = worker[t]
    <2>1. [stage |-> "apply", on |-> r] \in Attempt
      BY <1>2 DEF Attempt, Slots
    <2>2. worker' = [worker EXCEPT ![s] = [stage |-> "apply", on |-> r]]
      BY <1>1, <1>2
    <2>3. worker \in [Services -> Attempt]
      BY DEF OutboxInv, OutboxTypeOK
    <2>4. worker' \in [Services -> Attempt]
      BY <2>1, <2>2, <2>3
    <2>5. worker'[s].on = r /\ \A t \in Services \ {s} : worker'[t] = worker[t]
      BY <2>2, <2>3
    <2>. QED BY <2>4, <2>5
  <1>5. OutboxTypeOK'
    BY <1>1, <1>2, <1>3, <1>4 DEF OfferHead, OutboxInv, OutboxTypeOK
  <1>6. StepsSound'
    BY <1>1, <1>2, <1>3, <1>4 DEF OfferHead, StepsSound, OfBoot, OutboxInv, OutboxTypeOK, Slots
  <1>. QED BY <1>3, <1>5, <1>6 DEF OutboxInv

LEMMA SignalledKeeps ==
  ASSUME OutboxTypeOK, NEW s \in Services, wait' = Signalled(s)
  PROVE  wait' \in [Requests -> Waiter] /\ \A k \in Requests : wait'[k].stage = wait[k].stage
  <1>1. \A k \in Requests : wait[k] \in Waiter
    BY DEF OutboxTypeOK
  <1>2. \A k \in Requests : [wait[k] EXCEPT !.fired = TRUE] \in Waiter
                           /\ [wait[k] EXCEPT !.fired = TRUE].stage = wait[k].stage
    BY <1>1 DEF Waiter
  <1>. QED BY <1>1, <1>2 DEF Signalled

LEMMA ReturnResultKeeps ==
  ASSUME OutboxInv, NEW s \in Services, ReturnResult(s)
  PROVE  OutboxInv'
  <1>. DEFINE r == worker[s].on
  <1>1. r \in offered /\ r \in Requests
    BY DEF ReturnResult, OutboxInv, StepsSound, OutboxTypeOK
  <1>2. dead' \in BOOLEAN /\ (dead' => collisions > 0)
    <2>1. ledger[Verdict(r)].ok \/ collisions > 0
      BY <1>1, RefusalExplained DEF ReturnResult, OutboxInv
    <2>. QED BY <2>1 DEF ReturnResult
  <1>3. /\ worker' \in [Services -> Attempt] /\ worker'[s].stage = "pass"
        /\ \A t \in Services \ {s} : worker'[t] = worker[t]
    BY StageMoved DEF OutboxInv, ReturnResult
  <1>4. wait' \in [Requests -> Waiter] /\ \A k \in Requests : wait'[k].stage = wait[k].stage
    BY SignalledKeeps DEF OutboxInv, ReturnResult
  <1>5. OutboxTypeOK'
    BY <1>2, <1>3, <1>4 DEF OutboxInv, OutboxTypeOK, ReturnResult
  <1>6. RowsSound'
    <2>1. bootID \in Nat /\ collisions \in Nat /\ req' \in [Requests -> Row]
      BY DEF OutboxInv, OutboxTypeOK, ReturnResult
    <2>. QED BY <2>1, RowsKept DEF OutboxInv, ReturnResult
  <1>7. StepsSound'
    BY <1>2, <1>3, <1>4 DEF OutboxInv, StepsSound, OfBoot, Unresolved, ReturnResult
  <1>. QED BY <1>5, <1>6, <1>7 DEF OutboxInv

LEMMA ReturnConflictKeeps ==
  ASSUME OutboxInv, NEW s \in Services, ReturnConflict(s)
  PROVE  OutboxInv'
  <1>. DEFINE r == worker[s].on
  <1>1. r \in offered /\ r \in Requests /\ req[r].state # "none"
    BY DEF ReturnConflict, OutboxInv, StepsSound, OutboxTypeOK, RowsSound
  <1>2. /\ worker' \in [Services -> Attempt] /\ worker'[s].stage = "pass"
        /\ \A t \in Services \ {s} : worker'[t] = worker[t]
    BY StageMoved DEF OutboxInv, ReturnConflict
  <1>3. collisions \in Nat /\ collisions' = collisions + 1 /\ bootID \in Nat
    BY DEF ReturnConflict, OutboxInv, OutboxTypeOK
  <1>4. wait' \in [Requests -> Waiter] /\ \A k \in Requests : wait'[k].stage = wait[k].stage
    <2>1. CASE wait' = Signalled(s)
      BY <2>1, SignalledKeeps DEF OutboxInv
    <2>. QED BY <2>1 DEF ReturnConflict, OutboxInv, OutboxTypeOK
  <1>5. /\ req' \in [Requests -> Row] /\ RowsSound'
        /\ \A k \in Requests : /\ req'[k].scope = req[k].scope
                               /\ Unresolved(k)' => Unresolved(k)
                               /\ req'[k].state = "none" <=> req[k].state = "none"
                               /\ req[k].state = "resolved" => req'[k].state = "resolved"
    <2>1. CASE req[r].state = "resolved"
      <3>1. req' = req /\ req \in [Requests -> Row]
        BY <2>1 DEF ReturnConflict, OutboxInv, OutboxTypeOK
      <3>2. RowsSound'
        BY <1>3, <3>1, RowsKept DEF ReturnConflict, OutboxInv
      <3>. QED BY <3>1, <3>2 DEF Unresolved
    <2>2. CASE req[r].state # "resolved"
      <3>1. req' = [req EXCEPT ![r].state = "abandoned"] /\ req[r].state \notin {"none", "resolved"}
        BY <1>1, <2>2 DEF ReturnConflict
      <3>2. /\ req' \in [Requests -> Row] /\ RowsSound'
            /\ req'[r].scope = req[r].scope /\ req'[r].state = "abandoned"
            /\ \A k \in Requests \ {r} : req'[k] = req[k]
        BY <1>1, <1>3, <3>1, RowsAbandoned DEF ReturnConflict, OutboxInv
      <3>. QED BY <1>1, <3>1, <3>2 DEF Unresolved
    <2>. QED BY <2>1, <2>2
  <1>6. /\ dead' \in BOOLEAN /\ collisions' > 0 /\ collisions' \in Nat
        /\ UNCHANGED <<class, offered, ledger, leader, bootID, wake, excl, gate, priority>>
    <2>1. dead' \in BOOLEAN
      <3>1. dead' = dead \/ dead' = TRUE
        BY DEF ReturnConflict
      <3>. QED BY <3>1 DEF OutboxInv, OutboxTypeOK
    <2>. QED BY <1>3, <2>1 DEF ReturnConflict
  <1>7. OutboxTypeOK'
    BY <1>2, <1>4, <1>5, <1>6 DEF OutboxInv, OutboxTypeOK
  <1>8. priority \in Slots /\ excl.job \in Slots
    BY DEF OutboxInv, OutboxTypeOK, Lane
  <1>9. StepsSound'
    BY <1>2, <1>4, <1>5, <1>6, <1>8 DEF StepsSound, OfBoot, OutboxInv, Slots
  <1>. QED BY <1>5, <1>7, <1>9 DEF OutboxInv

\* The whole lane.
LEMMA AcquireKeeps ==
  ASSUME OutboxInv, NEW r \in Requests, AcquireExclusive(r)
  PROVE  OutboxInv'
  <1>1. excl' \in Lane /\ excl'.stage = "drain" /\ excl'.job = r
    BY DEF AcquireExclusive, Lane, Slots
  <1>2. RowsSound'
    <2>1. bootID \in Nat /\ collisions \in Nat /\ req' \in [Requests -> Row]
      BY DEF OutboxInv, OutboxTypeOK, AcquireExclusive
    <2>. QED BY <2>1, RowsKept DEF OutboxInv, AcquireExclusive, callVars
  <1>3. OutboxTypeOK'
    BY <1>1 DEF OutboxInv, OutboxTypeOK, AcquireExclusive, callVars
  <1>4. StepsSound'
    BY <1>1 DEF OutboxInv, StepsSound, OfBoot, Unresolved, AcquireExclusive, callVars
  <1>. QED BY <1>2, <1>3, <1>4 DEF OutboxInv

LEMMA HoldingMoves ==
  ASSUME OutboxTypeOK, NEW r \in Slots, NEW st \in {"drain", "apply", "operate", "commit"}, Holding(st, r)
  PROVE  excl' \in Lane /\ excl'.stage = st /\ excl'.on = r /\ excl'.job = excl.job
  BY DEF OutboxTypeOK, Lane, Holding

LEMMA FreeLane == Free \in Lane /\ Free.stage = "none"
  BY DEF Free, Lane, Slots

LEMMA DrainKeeps ==
  ASSUME OutboxInv, DrainExclusive
  PROVE  OutboxInv'
  <1>1. /\ UNCHANGED <<class, ledger, leader, bootID, worker, wake, gate, priority, wait, dead, collisions>>
        /\ excl.stage = "drain" /\ gate # "boot" /\ excl \in Lane /\ priority \in Slots
        /\ bootID \in Nat /\ collisions \in Nat /\ req \in [Requests -> Row]
    BY DEF DrainExclusive, callVars, OutboxInv, OutboxTypeOK, StepsSound
  <1>2. CASE UNCHANGED <<req, offered>> /\ excl' = Free
    <2>1. RowsSound'
      BY <1>1, <1>2, RowsKept DEF OutboxInv
    <2>2. OutboxTypeOK'
      BY <1>1, <1>2, FreeLane DEF OutboxInv, OutboxTypeOK
    <2>3. StepsSound'
      BY <1>1, <1>2, FreeLane DEF OutboxInv, StepsSound, OfBoot, Unresolved
    <2>. QED BY <2>1, <2>2, <2>3 DEF OutboxInv
  <1>3. CASE /\ UNCHANGED <<req, offered>> /\ Holding("operate", NoRequest)
             /\ priority = NoRequest /\ Queue(bootID) = {}
    <2>1. RowsSound'
      BY <1>1, <1>3, RowsKept DEF OutboxInv
    <2>2. excl' \in Lane /\ excl'.stage = "operate" /\ excl'.on = NoRequest /\ excl'.job = excl.job
      BY <1>3, HoldingMoves DEF OutboxInv, Slots
    <2>3. OutboxTypeOK'
      BY <1>1, <1>3, <2>2 DEF OutboxInv, OutboxTypeOK
    <2>4. \A r \in Requests : ~OfBoot(r)
      BY <1>3 DEF OfBoot, Queue, InScope, Unresolved
    <2>5. StepsSound'
      BY <1>1, <1>3, <2>2, <2>4 DEF OutboxInv, StepsSound, OfBoot, Unresolved
    <2>. QED BY <2>1, <2>3, <2>5 DEF OutboxInv
  <1>4. ASSUME NEW r \in Requests, Unresolved(r), Leads(r), req' = Claimed(r),
               offered' = offered \cup {r}, Holding("apply", r)
        PROVE  OutboxInv'
    <2>1. /\ req' \in [Requests -> Row] /\ RowsSound'
          /\ \A k \in Requests : /\ Unresolved(k)' <=> Unresolved(k)
                                 /\ req'[k].scope = req[k].scope
                                 /\ req'[k].state = "none" <=> req[k].state = "none"
                                 /\ req'[k].state = "resolved" <=> req[k].state = "resolved"
      BY <1>1, <1>4, Offering
    <2>2. excl' \in Lane /\ excl'.stage = "apply" /\ excl'.on = r /\ excl'.job = excl.job
      BY <1>4, HoldingMoves DEF OutboxInv, Slots
    <2>3. OutboxTypeOK'
      BY <1>1, <1>4, <2>1, <2>2 DEF OutboxInv, OutboxTypeOK
    <2>4. StepsSound'
      BY <1>1, <1>4, <2>1, <2>2 DEF OutboxInv, StepsSound, OfBoot, Slots
    <2>. QED BY <2>1, <2>3, <2>4 DEF OutboxInv
  <1>5. CASE /\ priority # NoRequest /\ Unresolved(priority)
             /\ req' = Claimed(priority) /\ offered' = offered \cup {priority}
             /\ Holding("apply", priority)
    <2>1. priority \in Requests /\ Leads(priority)
      BY <1>1, <1>5 DEF OutboxInv, StepsSound, RowsSound, Slots
    <2>. QED BY <1>4, <1>5, <2>1
  <1>6. ASSUME NEW r \in Queue(bootID), AtHead(bootID, r), req' = Claimed(r),
               offered' = offered \cup {r}, Holding("apply", r)
        PROVE  OutboxInv'
    <2>1. r \in Requests /\ Unresolved(r) /\ Leads(r)
      BY <1>6 DEF Queue, InScope, Leads
    <2>. QED BY <1>4, <1>6, <2>1
  <1>. QED BY <1>2, <1>3, <1>5, <1>6 DEF DrainExclusive

LEMMA ReturnExclusiveKeeps ==
  ASSUME OutboxInv, ReturnExclusive
  PROVE  OutboxInv'
  <1>. DEFINE r == excl.on
  <1>1. r \in offered /\ r \in Requests /\ gate # "boot"
    BY DEF ReturnExclusive, OutboxInv, StepsSound, OutboxTypeOK
  <1>2. dead' \in BOOLEAN /\ (dead' => collisions > 0)
    <2>1. Committed(r) => ledger[Verdict(r)].ok \/ collisions > 0
      BY <1>1, RefusalExplained DEF OutboxInv
    <2>2. CASE Committed(r) /\ dead' = ~ledger[Verdict(r)].ok
      BY <2>1, <2>2
    <2>3. CASE dead' = dead
      BY <2>3 DEF OutboxInv, OutboxTypeOK, StepsSound
    <2>. QED BY <2>2, <2>3 DEF ReturnExclusive
  <1>3. wait' \in [Requests -> Waiter] /\ \A k \in Requests : wait'[k].stage = wait[k].stage
    <2>1. CASE wait' = Signalled("boot")
      BY <2>1, SignalledKeeps DEF OutboxInv, Services
    <2>. QED BY <2>1 DEF ReturnExclusive, OutboxInv, OutboxTypeOK
  <1>4. excl' \in Lane /\ (excl'.stage = "none" \/ (excl'.stage = "drain" /\ excl'.job = excl.job))
    <2>1. CASE Holding("drain", NoRequest)
      BY <2>1, HoldingMoves DEF OutboxInv, Slots
    <2>2. CASE excl' = Free
      <3>1. excl' \in Lane
        BY <2>2 DEF Free, Lane, Slots
      <3>2. excl'.stage = "none"
        BY <2>2 DEF Free
      <3>. QED BY <3>1, <3>2
    <2>. QED BY <2>1, <2>2 DEF ReturnExclusive
  <1>5. OutboxTypeOK'
    BY <1>2, <1>3, <1>4 DEF OutboxInv, OutboxTypeOK, ReturnExclusive
  <1>6. RowsSound'
    <2>1. bootID \in Nat /\ collisions \in Nat /\ req' \in [Requests -> Row]
      BY DEF OutboxInv, OutboxTypeOK, ReturnExclusive
    <2>. QED BY <2>1, RowsKept DEF OutboxInv, ReturnExclusive
  <1>7. StepsSound'
    BY <1>1, <1>2, <1>3, <1>4 DEF OutboxInv, StepsSound, OfBoot, Unresolved, ReturnExclusive
  <1>. QED BY <1>5, <1>6, <1>7 DEF OutboxInv

LEMMA OperateKeeps ==
  ASSUME OutboxInv, Operate
  PROVE  OutboxInv'
  <1>. DEFINE r == excl.job
  <1>1. /\ r \in Requests /\ class[r] \in {"checkpoint", "admission"} /\ req[r].state = "none"
        /\ gate # "boot" /\ priority = NoRequest /\ ScopeFor(r) = bootID
        /\ \A k \in Requests : ~OfBoot(k)
    BY OutboxConstants DEF Operate, OutboxInv, StepsSound, OutboxTypeOK, ScopeFor
  <1>2. /\ UNCHANGED <<class, ledger, leader, bootID, worker, gate, priority, wait, dead, collisions>>
        /\ bootID \in Nat /\ collisions \in Nat /\ req \in [Requests -> Row]
    BY DEF Operate, callVars, OutboxInv, OutboxTypeOK
  <1>3. wake' \in [Services -> BOOLEAN]
    BY DEF Operate, Woken, OutboxInv, OutboxTypeOK
  <1>4. CASE Backpressure(r)
    <2>1. excl' = Free /\ UNCHANGED <<req, offered>>
      BY <1>4 DEF Operate
    <2>2. RowsSound'
      BY <1>2, <2>1, RowsKept DEF OutboxInv
    <2>3. OutboxTypeOK'
      BY <1>2, <1>3, <2>1, FreeLane DEF OutboxInv, OutboxTypeOK
    <2>4. StepsSound'
      BY <1>2, <2>1, FreeLane DEF OutboxInv, StepsSound, OfBoot, Unresolved
    <2>. QED BY <2>2, <2>3, <2>4 DEF OutboxInv
  <1>5. CASE ~Backpressure(r)
    <2>1. Queue(ScopeFor(r)) = {}
      BY <1>1 DEF Queue, InScope, OfBoot
    <2>2. Reserved(r) /\ (offered' = offered \/ offered' = offered \cup {r})
      BY <1>5 DEF Operate
    <2>3. /\ req' \in [Requests -> Row] /\ RowsSound'
          /\ req'[r].state = "signed"
          /\ \A k \in Requests \ {r} : req'[k] = req[k]
      BY <1>1, <1>2, <2>1, <2>2, RowsReserved DEF OutboxInv
    <2>4. excl' \in Lane /\ (excl'.stage = "none" \/ (excl'.stage = "commit" /\ excl'.on = r))
      <3>1. CASE Holding("commit", r)
        BY <1>1, <3>1, HoldingMoves DEF OutboxInv, Slots
      <3>2. CASE excl' = Free
        <4>1. excl' \in Lane
          BY <3>2 DEF Free, Lane, Slots
        <4>2. excl'.stage = "none"
          BY <3>2 DEF Free
        <4>. QED BY <4>1, <4>2
      <3>. QED BY <1>5, <3>1, <3>2 DEF Operate
    <2>5. OutboxTypeOK'
      BY <1>1, <1>2, <1>3, <2>2, <2>3, <2>4 DEF OutboxInv, OutboxTypeOK
    <2>6. StepsSound'
      BY <1>1, <1>2, <2>2, <2>3, <2>4 DEF OutboxInv, StepsSound, OfBoot, Unresolved
    <2>. QED BY <2>3, <2>5, <2>6 DEF OutboxInv
  <1>. QED BY <1>4, <1>5

LEMMA FinishKeeps ==
  ASSUME OutboxInv, FinishOperation
  PROVE  OutboxInv'
  <1>1. wait' \in [Requests -> Waiter] /\ \A k \in Requests : wait'[k].stage = wait[k].stage
    BY SignalledKeeps DEF OutboxInv, FinishOperation, Services
  <1>2. OutboxTypeOK'
    BY <1>1, FreeLane DEF OutboxInv, OutboxTypeOK, FinishOperation, Woken, callVars
  <1>3. RowsSound'
    <2>1. bootID \in Nat /\ collisions \in Nat /\ req' \in [Requests -> Row]
      BY DEF OutboxInv, OutboxTypeOK, FinishOperation
    <2>. QED BY <2>1, RowsKept DEF OutboxInv, FinishOperation, callVars
  <1>4. StepsSound'
    BY <1>1, FreeLane DEF OutboxInv, StepsSound, OfBoot, Unresolved, FinishOperation, callVars
  <1>. QED BY <1>2, <1>3, <1>4 DEF OutboxInv

LEMMA OfferAdmissionKeeps ==
  ASSUME OutboxInv, NEW r \in Requests, OfferAdmission(r)
  PROVE  OutboxInv'
  <1>1. OutboxTypeOK'
    BY DEF OutboxInv, OutboxTypeOK, OfferAdmission, callVars
  <1>2. RowsSound'
    <2>1. bootID \in Nat /\ collisions \in Nat /\ req' \in [Requests -> Row] /\ Leads(r) /\ req[r].state # "none"
      BY DEF OutboxInv, OutboxTypeOK, OfferAdmission, Leads, Unresolved
    <2>. QED BY <2>1, RowsKept DEF OutboxInv, OfferAdmission, callVars
  <1>3. StepsSound'
    BY DEF OutboxInv, StepsSound, OfBoot, Unresolved, OfferAdmission, callVars
  <1>. QED BY <1>1, <1>2, <1>3 DEF OutboxInv

-----------------------------------------------------------------------------
(* The version report and restarts *)

\* A report is reserved when nothing of this boot is outstanding, and takes priority.
LEMMA ReportReserved ==
  ASSUME OutboxInv, NEW r \in FreshReports, Reserved(r), Prioritised(r), \A k \in Requests : ~OfBoot(k),
         excl.stage \notin {"operate", "commit"}, wake' \in [Services -> BOOLEAN],
         UNCHANGED <<class, offered, ledger, leader, bootID, worker, excl, dead, collisions>>
  PROVE  OutboxInv'
  <1>1. r \in Requests /\ class[r] = "report" /\ req[r].state = "none" /\ ScopeFor(r) = bootID
    BY DEF FreshReports, ScopeFor
  <1>2. Queue(ScopeFor(r)) = {}
    BY <1>1 DEF Queue, InScope, OfBoot
  <1>3. /\ req' \in [Requests -> Row] /\ RowsSound' /\ req'[r].state = "signed"
        /\ \A k \in Requests \ {r} : req'[k] = req[k]
    BY <1>1, <1>2, RowsReserved DEF OutboxInv
  <1>4. /\ wait' \in [Requests -> Waiter] /\ wait'[r].stage = "look"
        /\ \A k \in Requests \ {r} : wait'[k] = wait[k]
    <2>1. [stage |-> "look", fired |-> FALSE] \in Waiter
      BY DEF Waiter
    <2>. QED BY <1>1, <2>1 DEF Prioritised, Awaited, OutboxInv, OutboxTypeOK
  <1>5. priority' = r /\ gate' = "waiting" /\ r # NoRequest
    BY <1>1, OutboxConstants DEF Prioritised
  <1>6. OutboxTypeOK'
    BY <1>1, <1>3, <1>4, <1>5 DEF OutboxInv, OutboxTypeOK, Slots
  <1>7. StepsSound'
    BY <1>1, <1>3, <1>4, <1>5 DEF OutboxInv, StepsSound, OfBoot, Unresolved
  <1>. QED BY <1>3, <1>6, <1>7 DEF OutboxInv

LEMMA PrepareKeeps ==
  ASSUME OutboxInv, PrepareReport
  PROVE  OutboxInv'
  <1>1. /\ UNCHANGED <<class, offered, ledger, leader, bootID, worker, excl, collisions>>
        /\ gate = "boot" /\ excl.stage = "none" /\ priority = NoRequest
        /\ bootID \in Nat /\ collisions \in Nat /\ req \in [Requests -> Row]
        /\ \A k \in Requests : ~OfBoot(k)
    BY DEF PrepareReport, OutboxInv, OutboxTypeOK, StepsSound, OfBoot, Unresolved
  <1>2. wake' \in [Services -> BOOLEAN]
    BY DEF PrepareReport, OutboxInv, OutboxTypeOK
  <1>3. ASSUME NEW r \in FreshReports, Reserved(r), Prioritised(r), UNCHANGED dead PROVE OutboxInv'
    BY <1>1, <1>2, <1>3, ReportReserved
  <1>4. ASSUME NEW r \in PendingReports, Prioritised(r), UNCHANGED <<req, dead>> PROVE OutboxInv'
    <2>1. r \in Requests /\ class[r] = "report" /\ req[r].state # "none" /\ r # NoRequest
      BY OutboxConstants DEF PendingReports, Unresolved
    <2>2. /\ wait' \in [Requests -> Waiter] /\ wait'[r].stage = "look"
          /\ \A k \in Requests \ {r} : wait'[k] = wait[k]
      <3>1. [stage |-> "look", fired |-> FALSE] \in Waiter
        BY DEF Waiter
      <3>. QED BY <1>4, <2>1, <3>1 DEF Prioritised, Awaited, OutboxInv, OutboxTypeOK
    <2>3. priority' = r /\ gate' = "waiting"
      BY <1>4 DEF Prioritised
    <2>4. RowsSound'
      BY <1>1, <1>4, RowsKept DEF OutboxInv
    <2>5. OutboxTypeOK'
      BY <1>1, <1>2, <1>4, <2>1, <2>2, <2>3 DEF OutboxInv, OutboxTypeOK, Slots
    <2>6. StepsSound'
      BY <1>1, <1>4, <2>1, <2>2, <2>3 DEF OutboxInv, StepsSound, OfBoot, Unresolved
    <2>. QED BY <2>4, <2>5, <2>6 DEF OutboxInv
  <1>5. CASE gate' = "ready" /\ UNCHANGED <<req, priority, wait, dead>>
    <2>1. RowsSound'
      BY <1>1, <1>5, RowsKept DEF OutboxInv
    <2>2. OutboxTypeOK'
      BY <1>1, <1>2, <1>5 DEF OutboxInv, OutboxTypeOK
    <2>3. StepsSound'
      BY <1>1, <1>5 DEF OutboxInv, StepsSound, OfBoot, Unresolved
    <2>. QED BY <2>1, <2>2, <2>3 DEF OutboxInv
  <1>6. \A r \in PendingReports : AtHead(req[r].scope, r)
    BY DEF PendingReports, OutboxInv, RowsSound, Leads
  <1>. QED BY <1>3, <1>4, <1>5, <1>6 DEF PrepareReport

LEMMA CompleteKeeps ==
  ASSUME OutboxInv, CompleteReport
  PROVE  OutboxInv'
  <1>1. /\ UNCHANGED <<class, offered, ledger, leader, bootID, worker, excl, dead, collisions>>
        /\ gate = "waiting" /\ excl.stage = "none" /\ priority \in Requests
        /\ req[priority].state = "resolved"
        /\ bootID \in Nat /\ collisions \in Nat /\ req \in [Requests -> Row]
    BY FreeLane DEF CompleteReport, LaneFree, OutboxInv, OutboxTypeOK, StepsSound, Slots
  <1>2. wake' \in [Services -> BOOLEAN]
    BY DEF CompleteReport, Woken, OutboxInv, OutboxTypeOK
  <1>3. \A k \in Requests : ~OfBoot(k)
    BY <1>1, OutboxConstants DEF OutboxInv, StepsSound, OfBoot, Unresolved
  <1>4. ASSUME NEW r \in FreshReports, Reserved(r), Prioritised(r) PROVE OutboxInv'
    BY <1>1, <1>2, <1>3, <1>4, ReportReserved
  <1>5. CASE priority' = NoRequest /\ gate' = "ready" /\ UNCHANGED <<req, wait>>
    <2>1. RowsSound'
      BY <1>1, <1>5, RowsKept DEF OutboxInv
    <2>2. OutboxTypeOK'
      BY <1>1, <1>2, <1>5 DEF OutboxInv, OutboxTypeOK, Slots
    <2>3. StepsSound'
      BY <1>1, <1>5 DEF OutboxInv, StepsSound, OfBoot, Unresolved
    <2>. QED BY <2>1, <2>2, <2>3 DEF OutboxInv
  <1>. QED BY <1>4, <1>5 DEF CompleteReport

LEMMA RebootKeeps ==
  ASSUME OutboxInv, Reboot
  PROVE  OutboxInv'
  <1>1. /\ UNCHANGED <<class, req, offered, ledger, leader, collisions>>
        /\ bootID \in Nat \ {0} /\ bootID' = bootID + 1
        /\ excl' = Free /\ gate' = "boot" /\ priority' = NoRequest /\ dead' = FALSE
        /\ collisions \in Nat /\ req \in [Requests -> Row]
    BY DEF Reboot, OutboxInv, OutboxTypeOK
  <1>2. RowsSound'
    BY <1>1, RowsKept DEF OutboxInv
  <1>3. worker' \in [Services -> Attempt] /\ \A s \in Services : worker'[s].stage = "off"
    <2>1. Off \in Attempt /\ Off.stage = "off"
      BY DEF Off, Attempt, Slots
    <2>. QED BY <2>1 DEF Reboot
  <1>4. /\ wait' \in [Requests -> Waiter]
        /\ \A k \in Requests : wait'[k].stage = "answered" => wait[k].stage = "answered"
    <2>1. [stage |-> "gone", fired |-> FALSE] \in Waiter
      BY DEF Waiter
    <2>. QED BY <2>1 DEF Reboot, OutboxInv, OutboxTypeOK
  <1>5. wake' \in [Services -> BOOLEAN]
    BY DEF Reboot
  <1>6. OutboxTypeOK'
    <2>1. excl' \in Lane /\ bootID' \in Nat \ {0} /\ priority' \in Slots
      BY <1>1 DEF Free, Lane, Slots
    <2>. QED BY <1>1, <1>3, <1>4, <1>5, <2>1 DEF OutboxInv, OutboxTypeOK
  <1>7. \A k \in Requests : req[k].state = "none" \/ req[k].scope # bootID + 1
    BY <1>1 DEF OutboxInv, RowsSound, Row
  <1>8. StepsSound'
    BY <1>1, <1>3, <1>4, <1>7, FreeLane DEF OutboxInv, StepsSound
  <1>. QED BY <1>2, <1>6, <1>8 DEF OutboxInv

LEMMA OutboxNextKeeps == OutboxInv /\ [OutboxNext]_outboxVars => OutboxInv'
  <1>. SUFFICES ASSUME OutboxInv, [OutboxNext]_outboxVars PROVE OutboxInv'
    OBVIOUS
  <1>1. CASE UNCHANGED outboxVars \/ ChangeLeader
    <2>1. UNCHANGED <<class, req, offered, ledger, bootID, worker, wake, excl, gate, priority, wait,
                      dead, collisions>> /\ leader' \in BOOLEAN
      BY <1>1 DEF outboxVars, ChangeLeader, OutboxInv, OutboxTypeOK
    <2>2. RowsSound'
      <3>1. bootID \in Nat /\ collisions \in Nat /\ req' \in [Requests -> Row]
        BY <2>1 DEF OutboxInv, OutboxTypeOK
      <3>. QED BY <2>1, <3>1, RowsKept DEF OutboxInv
    <2>3. OutboxTypeOK'
      BY <2>1 DEF OutboxInv, OutboxTypeOK
    <2>4. StepsSound'
      BY <2>1 DEF OutboxInv, StepsSound, OfBoot, Unresolved
    <2>. QED BY <2>2, <2>3, <2>4 DEF OutboxInv
  <1>2. ASSUME NEW r \in Requests,
               \/ Submit(r) \/ Repeat(r) \/ Look(r) \/ GiveUp(r) \/ Commit(r)
               \/ AcquireExclusive(r) \/ OfferAdmission(r)
        PROVE  OutboxInv'
    BY <1>2, SubmitKeeps, WaitersKeep, CommitKeeps, AcquireKeeps, OfferAdmissionKeeps
  <1>3. ASSUME NEW s \in Services,
               \/ StartPass(s) \/ OfferHead(s) \/ EndPass(s)
               \/ ReturnResult(s) \/ ReturnError(s) \/ ReturnConflict(s)
        PROVE  OutboxInv'
    BY <1>3, PassKeeps, OfferHeadKeeps, ReturnResultKeeps, ReturnConflictKeeps
  <1>. QED BY <1>1, <1>2, <1>3, DrainKeeps, ReturnExclusiveKeeps, OperateKeeps, FinishKeeps,
              PrepareKeeps, CompleteKeeps, RebootKeeps
           DEF OutboxNext

\* Every behaviour of the two services keeps each scope numbered without gaps and settled
\* from the front, unless a collision took a command out of it.
THEOREM OutboxInvariant == OutboxSpec => []OutboxInv
  BY OutboxInitSound, OutboxNextKeeps, PTL DEF OutboxSpec

\* checkLocalBackpressure to compactLocalProposal: nothing of this boot is outstanding
\* beside the holder of the whole lane, no command is refused for its sequence and no
\* report is found behind another command, unless its identifier was taken.
THEOREM OutboxIsSound == OutboxSpec => []OutboxSound
  <1>1. OutboxInv => OutboxSound
    <2>. SUFFICES ASSUME OutboxInv PROVE LaneIsExclusive /\ FatalOnlyByCollision
      BY DEF OutboxSound
    <2>1. LaneIsExclusive
      BY DEF OutboxInv, StepsSound, OfBoot, LaneIsExclusive, Queue, InScope
    <2>2. FatalOnlyByCollision
      <3>1. \A k \in DOMAIN ledger : ledger[k].ok \/ Poisoned(req[ledger[k].id].scope)
        BY LedgerIds DEF OutboxInv, RowsSound
      <3>. QED BY <3>1 DEF OutboxInv, StepsSound, FatalOnlyByCollision
    <2>. QED BY <2>1, <2>2
  <1>. QED BY <1>1, OutboxInvariant, PTL
=============================================================================
