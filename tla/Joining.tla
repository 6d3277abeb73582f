------------------------------ MODULE Joining ------------------------------
(***************************************************************************)
(* How a device joins a session: an owner's daemon issues a one-use        *)
(* invite, the joiner proves the secret over one pairing connection, both  *)
(* operators compare the authentication string, the inviter's daemon       *)
(* finalizes the attempt through the ledger, and the joiner installs a     *)
(* logical snapshot into its destination under a crash-safe journal.       *)
(*                                                                         *)
(* Either process may crash between any two durable writes, the pairing    *)
(* connection may break (a confirmation is bound to the connection of its  *)
(* request), the invite may expire while a call is in flight, and other    *)
(* owners change the membership underneath.                                *)
(*                                                                         *)
(* Sources: internal/pairingservice, internal/pairingjoiner,               *)
(* internal/joinbootstrap, internal/store/local_pairing_*.go,              *)
(* internal/store/migrations/0002, internal/consensus/pairing_guard.go,    *)
(* cmd/codecommd/pairing_runtime.go.                                       *)
(***************************************************************************)
EXTENDS Integers, FiniteSets

CONSTANTS
    Invites,           \* invite identifiers the inviter may generate
    Attempts,          \* attempt identifiers the joiner may generate
    Strangers,         \* attempt identifiers of requests with a wrong proof
    None,
    MaxOutstanding,    \* invites that may be preparing or outstanding
    MaxHistory,        \* invite rows the store retains
    MaxProofFailures,  \* failures that void an invite
    MaxSnapshots,      \* bound: snapshots the cluster publishes
    MaxFaults          \* bound: crashes, broken connections and foreign changes

ASSUME JoiningConstants ==
    /\ Attempts \cap Strangers = {} /\ None \notin Attempts \cup Invites
    /\ MaxOutstanding \in Nat \ {0} /\ MaxHistory \in Nat \ {0}
    /\ MaxProofFailures \in Nat \ {0}
    /\ MaxSnapshots \in Nat /\ MaxFaults \in Nat

VARIABLES
    db,         \* inviter store: invites, attempts, secret deletions, reserved commands
    secrets,    \* native store: invite secrets
    up,         \* the inviter's service is recovered and accepts calls
    creating,   \* memory: the Create call in flight
    calls,      \* memory: service calls that have read and not yet written
    cleaning,   \* memory: the deletion whose native secret is already gone
    finalizer,  \* memory: the attempt that holds finalizeMu
    late,       \* invites whose expiry time has passed
    member,     \* ledger: the joining device and the issuer's role
    proposed,   \* ledger: admissions handed to consensus
    snapshots,  \* cluster: logical snapshots published so far
    journal,    \* joiner disk: the pending-join journal
    dest,       \* joiner disk: what the destination path holds
    joiner,     \* joiner memory: the running join
    early,      \* invites ended while their Create was in flight (history variable)
    said,       \* the joiner's operator's answer per attempt (history variable)
    tried,      \* wrong proofs checked per invite (history variable)
    faults

serviceVars == <<up, creating, calls, cleaning, finalizer>>
ledgerVars  == <<member, proposed, snapshots>>
joinerVars  == <<journal, dest, joiner>>
historyVars == <<early, said, tried>>
joiningVars == <<db, secrets, serviceVars, late, ledgerVars, joinerVars, historyVars, faults>>

-----------------------------------------------------------------------------
(* The inviter's tables, and transactions as functions of them *)

Live == {"preparing", "outstanding"}
Terminal == {"consumed", "revoked", "expired", "proof_exhausted", "abandoned"}
Finished == {"proof_rejected", "declined", "expired", "revoked", "completed"}

NoInvite == [state |-> "unused", mode |-> "new", epoch |-> 0, version |-> 0,
             failures |-> 0, consumedBy |-> None]
NoAttempt == [state |-> "none", invite |-> None, input |-> 0, remote |-> FALSE, declinedBy |-> None]

\* Bug variant: the trigger forgets the invites that were used.
QueueUnused(old, rows) ==
    [rows EXCEPT !.deletions = @ \cup {i \in Invites :
        rows.invite[i].state # old.invite[i].state /\ rows.invite[i].state \in Terminal \ {"consumed"}}]

\* The schema trigger queues a secret's deletion when its invite becomes terminal.
Queue(old, rows) ==
    [rows EXCEPT !.deletions = @ \cup {i \in Invites :
        rows.invite[i].state # old.invite[i].state /\ rows.invite[i].state \in Terminal}]

\* Wrong-proof rows live only while their invite is outstanding.
DeleteRejected(rows, ended) ==
    [rows EXCEPT !.attempt = [a \in DOMAIN @ |->
        IF @[a].state = "proof_rejected" /\ @[a].invite \in ended THEN NoAttempt ELSE @[a]]]

\* Ends one invite in the given state.
End(rows, i, state) ==
    Queue(rows, DeleteRejected([rows EXCEPT !.invite[i].state = state], {i}))

\* TerminatePairingInvite: only an unused invite can be ended.
Terminate(rows, i, state) == IF rows.invite[i].state \in Live THEN End(rows, i, state) ELSE rows

\* maintainPairingRows: abandon preparing rows at startup, expire invites and attempts.
Maintain(rows, startup) ==
    LET expired == {i \in late : rows.invite[i].state = "outstanding"}
        abandoned == {i \in Invites : startup /\ rows.invite[i].state = "preparing"}
        inv == [i \in Invites |-> [rows.invite[i] EXCEPT
                   !.state = IF i \in expired THEN "expired"
                             ELSE IF i \in abandoned THEN "abandoned" ELSE @]]
        att == [a \in DOMAIN rows.attempt |-> [rows.attempt[a] EXCEPT
                   !.state = IF @ = "awaiting_sas" /\ rows.attempt[a].invite \in late
                             THEN "expired" ELSE @]]
    IN Queue(rows, DeleteRejected([rows EXCEPT !.invite = inv, !.attempt = att], expired))

\* Bug variant: an attempt being finalized does not hold its invite.
PrunableOpen(rows) ==
    {i \in Invites : /\ rows.invite[i].state \in Terminal /\ i \notin rows.deletions
                     /\ \A a \in DOMAIN rows.attempt :
                            rows.attempt[a].invite = i => rows.attempt[a].state # "awaiting_sas"}

\* Terminal invites with no queued deletion and no open attempt.
Prunable(rows) ==
    {i \in Invites : /\ rows.invite[i].state \in Terminal /\ i \notin rows.deletions
                     /\ \A a \in DOMAIN rows.attempt :
                            rows.attempt[a].invite = i => rows.attempt[a].state \in Finished}
History(rows) == {i \in Invites : rows.invite[i].state \in Live \cup Terminal}

\* prunePairingHistory: drop as many prunable rows as the limit asks for.
Prune(rows, retain) ==
    LET excess == Cardinality(History(rows)) - retain
        sizes == {Cardinality(g) : g \in {h \in SUBSET Prunable(rows) : Cardinality(h) <= excess}}
    IN IF excess <= 0 THEN {rows}
       ELSE {[rows EXCEPT
                !.invite = [i \in Invites |-> IF i \in g THEN [@[i] EXCEPT !.state = "pruned"] ELSE @[i]],
                !.attempt = [a \in DOMAIN @ |-> IF @[a].invite \in g THEN NoAttempt ELSE @[a]]] :
             g \in {h \in SUBSET Prunable(rows) :
                      Cardinality(h) \in sizes /\ \A n \in sizes : n <= Cardinality(h)}}

-----------------------------------------------------------------------------
(* The inviter's operator issues and revokes invites *)

\* The invite mode and epoch an operator chooses from the roster.
Issued ==
    [NoInvite EXCEPT
        !.state = "preparing", !.version = member.version,
        !.mode = CASE member.status = "absent" -> "new"
                   [] member.status = "active" -> "rebootstrap"
                   [] OTHER -> "readmission",
        !.epoch = IF member.status = "active" THEN member.epoch + 1 ELSE 1]

\* ReservePairingInvite: maintenance, the cap, pruning, then the preparing row.
Reserve(i) ==
    /\ up /\ creating = None
    /\ db.invite[i].state = "unused" /\ member.owner
    /\ i = CHOOSE j \in Invites : db.invite[j].state = "unused"
    /\ \E rows \in Prune(Maintain(db, FALSE), MaxHistory - 1) :
         /\ Cardinality({j \in Invites : rows.invite[j].state \in Live}) < MaxOutstanding
         /\ Cardinality(History(rows)) < MaxHistory
         /\ db' = [rows EXCEPT !.invite[i] = Issued]
    /\ creating' = [invite |-> i, stored |-> FALSE]
    /\ UNCHANGED <<secrets, up, calls, cleaning, finalizer, late, ledgerVars, joinerVars,
                   historyVars, faults>>

\* The native store keeps the secret ...
StoreSecret ==
    /\ creating # None /\ ~creating.stored
    /\ secrets' = secrets \cup {creating.invite}
    /\ creating' = [creating EXCEPT !.stored = TRUE]
    /\ UNCHANGED <<db, up, calls, cleaning, finalizer, late, ledgerVars, joinerVars,
                   historyVars, faults>>

\* ... or refuses, and the reservation is abandoned.
SecretRefused ==
    /\ creating # None /\ ~creating.stored /\ faults < MaxFaults
    /\ db' = Terminate(db, creating.invite, "abandoned")
    /\ creating' = None /\ faults' = faults + 1
    /\ UNCHANGED <<secrets, up, calls, cleaning, finalizer, late, ledgerVars, joinerVars,
                   historyVars>>

\* ActivatePairingInvite; the caller abandons the invite when the row is not preparing.
ActivateInvite ==
    /\ creating # None /\ creating.stored
    /\ db' = IF db.invite[creating.invite].state = "preparing"
             THEN [db EXCEPT !.invite[creating.invite].state = "outstanding"]
             ELSE Terminate(db, creating.invite, "abandoned")
    /\ creating' = None
    /\ UNCHANGED <<secrets, up, calls, cleaning, finalizer, late, ledgerVars, joinerVars,
                   historyVars, faults>>

\* Revoke ends an unused invite, a preparing one too.
Revoke(i) ==
    /\ up /\ db.invite[i].state \in Live
    /\ db' = Terminate(db, i, "revoked")
    /\ early' = early \cup {j \in {i} : creating # None /\ creating.invite = j}
    /\ UNCHANGED <<secrets, serviceVars, late, ledgerVars, joinerVars, said, tried, faults>>

-----------------------------------------------------------------------------
(* Requests: the joiner proves the secret over its pairing connection *)

Answered(state) == [joiner EXCEPT !.step = state]
NoJournal == [phase |-> "none", attempt |-> None, mode |-> "new", epoch |-> 0, root |-> 0]
Idle == [step |-> "idle", attempt |-> None, invite |-> None, connected |-> FALSE]
Waiting(a, step) == joiner.attempt = a /\ joiner.connected /\ joiner.step = step

\* requireJoinDestination
DestinationFits(mode) ==
    dest.kind = "absent" \/ (mode = "readmission" /\ dest.kind = "predecessor")

\* Run without a journal: a fresh attempt on a fresh pairing connection.
FreshJoin(i, a) ==
    /\ joiner = Idle /\ journal = NoJournal /\ up
    /\ db.invite[i].state \notin {"unused", "preparing", "abandoned"} /\ i \notin early \cup late
    /\ DestinationFits(db.invite[i].mode)
    /\ said[a] = "unused" /\ a = CHOOSE b \in Attempts : said[b] = "unused"
    /\ joiner' = [step |-> "requesting", attempt |-> a, invite |-> i, connected |-> TRUE]
    /\ said' = [said EXCEPT ![a] = "asked"]
    /\ UNCHANGED <<db, secrets, serviceVars, late, ledgerVars, journal, dest, early, tried, faults>>

\* acceptedRetry: the request that consumed the invite may be asked again.
AcceptedBefore(i, a) == db.invite[i].state = "consumed" /\ db.invite[i].consumedBy = a

Call(op, a, i) == [op |-> op, attempt |-> a, invite |-> i, inTime |-> i \notin late]

\* HandleRequest up to the verified proof; an accepted request is answered again.
RequestArrives ==
    LET i == joiner.invite
        a == joiner.attempt
    IN /\ up /\ joiner.step = "requesting" /\ joiner.connected
       /\ \/ /\ db.invite[i].state = "outstanding" /\ i \in secrets
             /\ calls' = calls \cup {Call("request", a, i)} /\ joiner' = joiner
          \/ /\ AcceptedBefore(i, a)
             /\ joiner' = Answered("review") /\ calls' = calls
          \/ /\ db.invite[i].state # "outstanding" /\ ~AcceptedBefore(i, a)
             /\ joiner' = Idle /\ calls' = calls
       /\ UNCHANGED <<db, secrets, up, creating, cleaning, finalizer, late, ledgerVars,
                      journal, dest, historyVars, faults>>

\* AcquireSettledNonvoter: the joiner is in no voter target, authority or configuration.
SettledNonvoter == ~member.configured

\* requirePairingEligibility
Eligible(row) ==
    /\ member.owner
    /\ CASE row.mode = "new" -> member.status = "absent"
         [] row.mode = "rebootstrap" ->
              member.status = "active" /\ SettledNonvoter /\ row.epoch = member.epoch + 1
         [] row.mode = "readmission" ->
              member.status = "readmit" /\ SettledNonvoter /\ row.version = member.version

\* Bug variant: the transaction trusts the invite state read with the request.
ConsumesStale(c) == Eligible(db.invite[c.invite]) /\ c.inTime

\* ConsumePairingInvite accepts the request, or finds its own earlier attempt.
Consumes(c) ==
    /\ Eligible(db.invite[c.invite]) /\ db.invite[c.invite].state = "outstanding" /\ c.inTime
ConsumedRows(c) ==
    End([db EXCEPT !.invite[c.invite].consumedBy = c.attempt,
                   !.attempt[c.attempt] = [NoAttempt EXCEPT !.state = "awaiting_sas", !.invite = c.invite]],
        c.invite, "consumed")

\* The transaction of HandleRequest and its reply.
FinishRequest(c) ==
    LET row == db.invite[c.invite]
        duplicate == db.attempt[c.attempt].state # "none"
    IN /\ c \in calls /\ c.op = "request"
       /\ calls' = calls \ {c}
       /\ db' = IF duplicate THEN db
                ELSE IF Consumes(c) THEN ConsumedRows(c)
                ELSE IF Eligible(row) /\ row.state = "outstanding" THEN End(db, c.invite, "expired")
                ELSE db
       /\ joiner' = IF ~Waiting(c.attempt, "requesting") THEN joiner
                    ELSE IF duplicate \/ Consumes(c) THEN Answered("review") ELSE Idle
       /\ UNCHANGED <<secrets, up, creating, cleaning, finalizer, late, ledgerVars, journal, dest,
                      historyVars, faults>>

\* RecordPairingProofFailure: one wrong proof of a stranger under an attempt identifier.
Charged(i, a, input) ==
    LET row == db.invite[i]
        recorded == IF db.attempt[a].state = "none"
                    THEN [db EXCEPT !.attempt[a] = [NoAttempt EXCEPT !.state = "proof_rejected",
                                                       !.invite = i, !.input = input]]
                    ELSE db
        counted == [recorded EXCEPT !.invite[i].failures = @ + 1]
    IN IF row.failures + 1 = MaxProofFailures THEN End(counted, i, "proof_exhausted") ELSE counted

WrongProof(i, a, input) ==
    LET same == /\ db.attempt[a].state = "proof_rejected" /\ db.attempt[a].invite = i
                /\ db.attempt[a].input = input
    IN /\ up /\ db.invite[i].state = "outstanding" /\ i \in secrets
       /\ db' = IF same THEN db
                ELSE IF i \in late THEN End(db, i, "expired") ELSE Charged(i, a, input)
       /\ tried' = IF i \in late THEN tried ELSE [tried EXCEPT ![i] = @ \cup {<<a, input>>}]
       /\ UNCHANGED <<secrets, serviceVars, late, ledgerVars, joinerVars, early, said, faults>>

-----------------------------------------------------------------------------
(* Decisions of the two operators *)

\* The joiner's operator accepts: the journal is written before the decision is sent.
Approve ==
    /\ joiner.step = "review"
    /\ joiner' = Answered("deciding")
    /\ journal' = [phase |-> "decision_approved", attempt |-> joiner.attempt,
                   mode |-> db.invite[joiner.invite].mode, epoch |-> db.invite[joiner.invite].epoch,
                   root |-> 0]
    /\ said' = [said EXCEPT ![joiner.attempt] = "yes"]
    /\ UNCHANGED <<db, secrets, serviceVars, late, ledgerVars, dest, early, tried, faults>>

Decline ==
    /\ joiner.step = "review"
    /\ joiner' = Answered("declining")
    /\ said' = [said EXCEPT ![joiner.attempt] = "no"]
    /\ UNCHANGED <<db, secrets, serviceVars, late, ledgerVars, journal, dest, early, tried, faults>>

\* completePairing after a terminal status.
Learn(status) ==
    IF joiner.step = "deciding" /\ status = "completed"
    THEN journal' = [journal EXCEPT !.phase = "confirmed"] /\ joiner' = [Answered("bootstrap") EXCEPT !.connected = FALSE]
    ELSE journal' = NoJournal /\ joiner' = Idle

\* Decide ends without a status; an approved rebootstrap cannot be recovered.
DecideFailed ==
    /\ joiner' = Idle
    /\ journal' = IF journal # NoJournal /\ journal.mode = "rebootstrap" THEN NoJournal ELSE journal

\* ConfirmRemote: an existing decision is answered, a first one goes on to be recorded.
ConfirmationArrives ==
    LET a == joiner.attempt
        row == db.attempt[a]
        yes == joiner.step = "deciding"
    IN /\ up /\ joiner.connected /\ joiner.step \in {"deciding", "declining"}
       /\ \/ /\ row.state = "awaiting_sas" /\ ~row.remote
             /\ calls' = calls \cup {Call(IF yes THEN "confirm" ELSE "decline", a, row.invite)}
             /\ UNCHANGED <<journal, joiner>>
          \/ /\ \/ row.state \in {"expired", "revoked"}
                \/ row.state = "declined" /\ ~(row.declinedBy = "remote" /\ yes)
                \/ row.state = "completed" /\ yes
             /\ Learn(row.state) /\ calls' = calls
          \/ /\ \/ row.state = "none"
                \/ row.state \in {"finalizing", "completed"} /\ ~yes
                \/ row.state = "awaiting_sas" /\ row.remote /\ ~yes
                \/ row.state = "declined" /\ row.declinedBy = "remote" /\ yes
             /\ DecideFailed /\ calls' = calls
       /\ UNCHANGED <<db, secrets, up, creating, cleaning, finalizer, late, ledgerVars, dest,
                      historyVars, faults>>

\* A broken connection, or the deadline of the attempt, ends Begin and Decide.
ExchangeFails ==
    /\ ~joiner.connected \/ joiner.invite \in late
    /\ \/ joiner.step = "requesting" /\ joiner' = Idle /\ journal' = journal
       \/ joiner.step \in {"deciding", "declining"} /\ DecideFailed
    /\ UNCHANGED <<db, secrets, serviceVars, late, ledgerVars, dest, historyVars, faults>>

\* ConfirmLocal: acceptance only after the joiner's; an unanswered attempt may be refused.
LocalDecision(a, yes) ==
    /\ up /\ db.attempt[a].state = "awaiting_sas"
    /\ yes => db.attempt[a].remote
    /\ calls' = calls \cup {Call(IF yes THEN "accept" ELSE "refuse", a, db.attempt[a].invite)}
    /\ UNCHANGED <<db, secrets, up, creating, cleaning, finalizer, late, ledgerVars, joinerVars,
                   historyVars, faults>>

\* PreparePairing: an admission is signed and reserved with the acceptance.
Reserved(row) == IF row.mode = "rebootstrap" THEN "none" ELSE "pending"

\* recordPairingConfirmation: the decision, and for an acceptance the reserved admission.
Decided(c) ==
    CASE ~c.inTime -> [db EXCEPT !.attempt[c.attempt].state = "expired"]
      [] c.inTime /\ c.op = "confirm" -> [db EXCEPT !.attempt[c.attempt].remote = TRUE]
      [] c.inTime /\ c.op = "decline" ->
           [db EXCEPT !.attempt[c.attempt].state = "declined", !.attempt[c.attempt].declinedBy = "remote"]
      [] c.inTime /\ c.op = "refuse" ->
           [db EXCEPT !.attempt[c.attempt].state = "declined", !.attempt[c.attempt].declinedBy = "local"]
      [] c.inTime /\ c.op = "accept" ->
           [db EXCEPT !.attempt[c.attempt].state = "finalizing",
                      !.command[c.attempt] = Reserved(db.invite[c.invite])]

FinishDecision(c) ==
    LET row == db.attempt[c.attempt]
        open == /\ row.state = "awaiting_sas"
                /\ IF c.op \in {"confirm", "decline"} THEN ~row.remote ELSE c.op = "accept" => row.remote
    IN /\ c \in calls /\ c.op # "request"
       /\ calls' = calls \ {c}
       /\ db' = IF open THEN Decided(c) ELSE db
       /\ IF /\ ~open \/ ~c.inTime
             /\ \/ c.op = "confirm" /\ Waiting(c.attempt, "deciding")
                \/ c.op = "decline" /\ Waiting(c.attempt, "declining")
          THEN DecideFailed ELSE UNCHANGED <<journal, joiner>>
       /\ UNCHANGED <<secrets, up, creating, cleaning, finalizer, late, ledgerVars, dest,
                      historyVars, faults>>

-----------------------------------------------------------------------------
(* The inviter's maintenance: expiry, finalization and secret cleanup *)

\* MaintainPairingState
MaintainState ==
    /\ up
    /\ \E rows \in Prune(Maintain(db, FALSE), MaxHistory) : rows # db /\ db' = rows
    /\ UNCHANGED <<secrets, serviceVars, late, ledgerVars, joinerVars, historyVars, faults>>

\* cleanupOneSecretAt: the native secret goes first, then the queue entry.
DeleteSecret(i) ==
    /\ up /\ cleaning = None /\ i \in db.deletions
    /\ secrets' = secrets \ {i}
    /\ cleaning' = i
    /\ UNCHANGED <<db, up, creating, calls, finalizer, late, ledgerVars, joinerVars, historyVars, faults>>

\* CompletePairingSecretDeletion
CompleteDeletion ==
    /\ cleaning # None
    /\ db' \in Prune([db EXCEPT !.deletions = @ \ {cleaning}], MaxHistory)
    /\ cleaning' = None
    /\ UNCHANGED <<secrets, up, creating, calls, finalizer, late, ledgerVars, joinerVars,
                   historyVars, faults>>

\* FinalizePairing: what the finalizer finds for an attempt before it waits for consensus.
Outcome(a) ==
    LET row == db.invite[db.attempt[a].invite]
    IN IF row.mode = "rebootstrap"
       THEN IF ~SettledNonvoter THEN "unavailable"
            ELSE IF Eligible(row) THEN "accepted" ELSE "rejected"
       ELSE db.command[a]

\* Bug variant: an admission already handed to consensus is not looked at again.
StartOnce(a) ==
    /\ up /\ finalizer = None
    /\ db.attempt[a].state = "finalizing" /\ Outcome(a) # "unavailable" /\ proposed[a] = "none"
    /\ finalizer' = [attempt |-> a, outcome |-> Outcome(a)]
    /\ proposed' = IF Outcome(a) = "pending" THEN [proposed EXCEPT ![a] = "sent"] ELSE proposed
    /\ UNCHANGED <<db, secrets, up, creating, calls, cleaning, late, member, snapshots, joinerVars,
                   historyVars, faults>>

\* finalizeAttempt takes finalizeMu and re-reads the attempt.
StartFinalize(a) ==
    /\ up /\ finalizer = None
    /\ db.attempt[a].state = "finalizing" /\ Outcome(a) # "unavailable"
    /\ finalizer' = [attempt |-> a, outcome |-> Outcome(a)]
    /\ proposed' = IF Outcome(a) = "pending" /\ proposed[a] = "none"
                   THEN [proposed EXCEPT ![a] = "sent"] ELSE proposed
    /\ UNCHANGED <<db, secrets, up, creating, calls, cleaning, late, member, snapshots, joinerVars,
                   historyVars, faults>>

\* ApplyAtGeneration returns the admission's outcome ...
AdmissionReturns ==
    /\ finalizer # None /\ finalizer.outcome = "pending"
    /\ db.command[finalizer.attempt] # "pending"
    /\ finalizer' = [finalizer EXCEPT !.outcome = db.command[finalizer.attempt]]
    /\ UNCHANGED <<db, secrets, up, creating, calls, cleaning, late, ledgerVars, joinerVars,
                   historyVars, faults>>

\* ... or an error, which leaves the attempt finalizing.
FinalizationPending ==
    /\ finalizer # None /\ finalizer.outcome = "pending"
    /\ finalizer' = None
    /\ UNCHANGED <<db, secrets, up, creating, calls, cleaning, late, ledgerVars, joinerVars,
                   historyVars, faults>>

\* CompletePairingFinalization or RejectPairingFinalization.
RecordFinalization ==
    /\ finalizer # None /\ finalizer.outcome \in {"accepted", "rejected"}
    /\ db' = [db EXCEPT !.attempt[finalizer.attempt].state =
                 IF finalizer.outcome = "accepted" THEN "completed" ELSE "revoked"]
    /\ finalizer' = None
    /\ UNCHANGED <<secrets, up, creating, calls, cleaning, late, ledgerVars, joinerVars,
                   historyVars, faults>>

\* The inviter's process ends; its pairing connections go with it.
InviterCrash ==
    /\ up /\ faults < MaxFaults
    /\ up' = FALSE /\ creating' = None /\ calls' = {} /\ cleaning' = None /\ finalizer' = None
    /\ joiner' = [joiner EXCEPT !.connected = FALSE]
    /\ faults' = faults + 1
    /\ UNCHANGED <<db, secrets, late, ledgerVars, journal, dest, historyVars>>

\* Recover: RecoverPairingState before the service accepts calls.
Recover ==
    /\ ~up
    /\ up' = TRUE
    /\ db' \in Prune(Maintain(db, TRUE), MaxHistory)
    /\ UNCHANGED <<secrets, creating, calls, cleaning, finalizer, late, ledgerVars, joinerVars,
                   historyVars, faults>>

-----------------------------------------------------------------------------
(* The ledger and the world around the two devices *)

\* The reducer's verdict on the admission of an attempt.
Admissible(row) ==
    /\ member.owner
    /\ \/ row.mode = "new" /\ member.status = "absent"
       \/ row.mode = "readmission" /\ member.status = "readmit" /\ row.version = member.version

CommitAdmission(a) ==
    LET row == db.invite[db.attempt[a].invite]
    IN /\ proposed[a] = "sent"
       /\ proposed' = [proposed EXCEPT ![a] = IF Admissible(row) THEN "accepted" ELSE "rejected"]
       /\ member' = IF Admissible(row)
                    THEN [member EXCEPT !.status = "active", !.version = @ + 1, !.epoch = 0]
                    ELSE member
       /\ UNCHANGED <<db, secrets, serviceVars, late, snapshots, joinerVars, historyVars, faults>>

\* The inviter applies the result, which resolves its reserved command.
ApplyAdmission(a) ==
    /\ up /\ db.command[a] = "pending" /\ proposed[a] \in {"accepted", "rejected"}
    /\ db' = [db EXCEPT !.command[a] = proposed[a]]
    /\ UNCHANGED <<secrets, serviceVars, late, ledgerVars, joinerVars, historyVars, faults>>

\* Another owner admits the identity, demotes the issuer, or changes the voter target.
MembershipChanges ==
    /\ faults < MaxFaults /\ faults' = faults + 1
    /\ \/ /\ member.status = "absent"
          /\ member' = [member EXCEPT !.status = "active", !.version = @ + 1, !.epoch = 0]
       \/ member.owner /\ member' = [member EXCEPT !.owner = FALSE]
       \/ member.status = "active" /\ member' = [member EXCEPT !.configured = ~@]
    /\ UNCHANGED <<db, secrets, serviceVars, late, proposed, snapshots, joinerVars, historyVars>>

\* A logical snapshot is published; only a running bootstrap looks at it.
PublishSnapshot ==
    /\ joiner.step \in {"bootstrap", "authorized", "staged"}
    /\ snapshots + (IF joiner.step = "bootstrap" THEN 1 ELSE 0) < MaxSnapshots
    /\ snapshots' = snapshots + 1
    /\ UNCHANGED <<db, secrets, serviceVars, late, member, proposed, joinerVars, historyVars, faults>>

Expire(i) ==
    /\ db.invite[i].state \notin {"unused", "pruned"} /\ i \notin late
    /\ late' = late \cup {i}
    /\ UNCHANGED <<db, secrets, serviceVars, ledgerVars, joinerVars, historyVars, faults>>

ConnectionBreaks ==
    /\ joiner.connected /\ faults < MaxFaults
    /\ joiner' = [joiner EXCEPT !.connected = FALSE] /\ faults' = faults + 1
    /\ UNCHANGED <<db, secrets, serviceVars, late, ledgerVars, journal, dest, historyVars>>

\* Some other program creates a database at the destination path.
ForeignDatabase ==
    /\ dest.kind = "absent" /\ faults < MaxFaults
    /\ dest' = [dest EXCEPT !.kind = "foreign"] /\ faults' = faults + 1
    /\ UNCHANGED <<db, secrets, serviceVars, late, ledgerVars, journal, joiner, historyVars>>

-----------------------------------------------------------------------------
(* The joiner's bootstrap under its journal *)

BootstrapStep(from, to) ==
    /\ joiner.step = from
    /\ joiner' = Answered(to)
    /\ UNCHANGED <<db, secrets, serviceVars, late, proposed, snapshots, historyVars, faults>>

JoinerCrash ==
    /\ joiner # Idle /\ faults < MaxFaults
    /\ joiner' = Idle /\ faults' = faults + 1
    /\ UNCHANGED <<db, secrets, serviceVars, late, ledgerVars, journal, dest, historyVars>>

\* verifyCompletedState on a destination this join owns.
Completed == dest = [kind |-> "installed", root |-> journal.root, attempt |-> journal.attempt]

\* Bug variant: a database file without any state is not recognised as this join's own.
ConflictsEmpty ==
    IF journal.phase = "installing_owned"
    THEN ~Completed /\ dest.kind # "absent"
    ELSE ~DestinationFits(journal.mode)

Conflicts ==
    IF journal.phase = "installing_owned"
    THEN ~Completed /\ dest.kind \notin {"absent", "empty"}
    ELSE ~DestinationFits(journal.mode)

\* An approved decision counts once the leader reports the device as admitted.
Admitted == member.status = "active"

\* Run with a journal.
Resume ==
    /\ joiner = Idle /\ journal # NoJournal /\ ~Conflicts
    /\ LET continue == [Idle EXCEPT !.step = "bootstrap", !.attempt = journal.attempt]
       IN CASE journal.phase = "installing_owned" /\ Completed ->
                 journal' = NoJournal /\ joiner' = joiner
            [] journal.phase = "decision_approved" /\ journal.mode = "rebootstrap" ->
                 journal' = NoJournal /\ joiner' = joiner
            [] journal.phase = "decision_approved" /\ journal.mode # "rebootstrap" ->
                 /\ Admitted
                 /\ journal' = [journal EXCEPT !.phase = "confirmed"] /\ joiner' = continue
            [] OTHER -> journal' = journal /\ joiner' = continue
    /\ UNCHANGED <<db, secrets, serviceVars, late, ledgerVars, dest, historyVars, faults>>

\* selectJoinCredential: the epoch whose content credential the join uses.
CredentialEpoch == IF journal.mode = "rebootstrap" THEN journal.epoch
                   ELSE IF member.epoch = 0 THEN 1 ELSE member.epoch
Authorizable == Admitted /\ CredentialEpoch \in {member.epoch, member.epoch + 1}

\* authorizeJoinCredential: the ledger authorizes that epoch, once.
Authorize ==
    /\ Authorizable
    /\ BootstrapStep("bootstrap", "authorized")
    /\ member' = IF CredentialEpoch = member.epoch THEN member
                 ELSE [member EXCEPT !.epoch = CredentialEpoch, !.cut = snapshots + 1]
    /\ UNCHANGED <<journal, dest>>

\* Bug variant: any published snapshot will do.
RecordAny ==
    /\ snapshots > 0
    /\ BootstrapStep("authorized", "staged")
    /\ journal' = [journal EXCEPT !.root = snapshots,
                      !.phase = IF @ = "installing_owned" THEN @ ELSE "installing"]
    /\ UNCHANGED <<member, dest>>

\* waitForSnapshot: the published root covers the cut of the content credential.
SnapshotCovers == snapshots > 0 /\ snapshots >= member.cut

\* recordSnapshotInstallation
RecordSnapshot ==
    /\ SnapshotCovers
    /\ BootstrapStep("authorized", "staged")
    /\ journal' = [journal EXCEPT !.root = snapshots,
                      !.phase = IF @ = "installing_owned" THEN @ ELSE "installing"]
    /\ UNCHANGED <<member, dest>>

\* Bug variant: ownership is not recorded.
OwnUnrecorded ==
    /\ journal.phase = "installing_owned" \/ DestinationFits(journal.mode)
    /\ BootstrapStep("staged", "owned")
    /\ UNCHANGED <<journal, member, dest>>

\* openJoinDestination: ownership is durable before the database is created.
OwnDestination ==
    /\ journal.phase = "installing_owned" \/ DestinationFits(journal.mode)
    /\ BootstrapStep("staged", "owned")
    /\ journal' = [journal EXCEPT !.phase = "installing_owned"]
    /\ UNCHANGED <<member, dest>>

CreateDatabase ==
    /\ dest.kind \in {"absent", "empty", "predecessor"}
    /\ BootstrapStep("owned", "opened")
    /\ dest' = IF dest.kind = "absent" THEN [dest EXCEPT !.kind = "empty"] ELSE dest
    /\ UNCHANGED <<member, journal>>

\* InstallStandalone or InstallStandaloneRebootstrap, one transaction.
Install ==
    /\ BootstrapStep("opened", "installed")
    /\ dest' = [kind |-> "installed", root |-> journal.root, attempt |-> journal.attempt]
    /\ UNCHANGED <<member, journal>>

\* verifyCompletedState, then the journal is removed.
FinishJoin ==
    /\ joiner.step = "installed" /\ Completed
    /\ joiner' = Idle /\ journal' = NoJournal
    /\ UNCHANGED <<db, secrets, serviceVars, late, ledgerVars, dest, historyVars, faults>>

\* An error of the bootstrap ends Run; the journal stays.
BootstrapFails ==
    /\ \/ joiner.step = "bootstrap" /\ ~Authorizable
       \/ joiner.step = "staged" /\ journal.phase = "installing" /\ ~DestinationFits(journal.mode)
       \/ joiner.step = "owned" /\ dest.kind \in {"foreign", "installed"}
    /\ joiner' = Idle
    /\ UNCHANGED <<db, secrets, serviceVars, late, ledgerVars, journal, dest, historyVars, faults>>

-----------------------------------------------------------------------------
Empty == [kind |-> "absent", root |-> 0, attempt |-> None]

JoiningInit ==
    /\ db = [invite |-> [i \in Invites |-> NoInvite],
             attempt |-> [a \in Attempts \cup Strangers |-> NoAttempt],
             deletions |-> {}, command |-> [a \in Attempts |-> "none"]]
    /\ secrets = {} /\ up = TRUE /\ creating = None /\ calls = {} /\ cleaning = None
    /\ finalizer = None /\ late = {}
    /\ \E start \in {"absent", "active", "readmit"} :
         /\ member = [status |-> start, version |-> IF start = "absent" THEN 0 ELSE 1,
                      epoch |-> IF start = "active" THEN 1 ELSE 0, cut |-> 0,
                      owner |-> TRUE, configured |-> FALSE]
         /\ dest \in {Empty} \cup (IF start = "readmit" THEN {[Empty EXCEPT !.kind = "predecessor"]} ELSE {})
    /\ proposed = [a \in Attempts |-> "none"] /\ snapshots = 0
    /\ journal = NoJournal /\ joiner = Idle
    /\ early = {} /\ said = [a \in Attempts |-> "unused"] /\ tried = [i \in Invites |-> {}]
    /\ faults = 0

Issuing == (\E i \in Invites : Reserve(i) \/ Revoke(i)) \/ StoreSecret \/ SecretRefused \/ ActivateInvite
Proving ==
    \/ \E i \in Invites, a \in Attempts : FreshJoin(i, a)
    \/ RequestArrives \/ \E c \in calls : FinishRequest(c)
    \/ \E i \in Invites, a \in Strangers, input \in 1..2 : WrongProof(i, a, input)
Deciding ==
    \/ Approve \/ Decline \/ ConfirmationArrives \/ ExchangeFails
    \/ \E a \in Attempts, yes \in BOOLEAN : LocalDecision(a, yes)
    \/ \E c \in calls : FinishDecision(c)
Finalizing ==
    \/ \E a \in Attempts : StartFinalize(a)
    \/ AdmissionReturns \/ FinalizationPending \/ RecordFinalization
Cleaning == MaintainState \/ (\E i \in Invites : DeleteSecret(i)) \/ CompleteDeletion
Ledger ==
    \/ \E a \in Attempts : CommitAdmission(a) \/ ApplyAdmission(a)
    \/ MembershipChanges \/ PublishSnapshot
Failing ==
    \/ InviterCrash \/ Recover \/ JoinerCrash \/ ConnectionBreaks \/ ForeignDatabase
    \/ \E i \in Invites : Expire(i)
Bootstrapping ==
    \/ Resume \/ Authorize \/ RecordSnapshot \/ OwnDestination \/ CreateDatabase \/ Install
    \/ FinishJoin \/ BootstrapFails

JoiningNext ==
    \/ Issuing \/ Proving \/ Deciding \/ Finalizing \/ Cleaning \/ Ledger \/ Failing
    \/ Bootstrapping
JoiningSpec == JoiningInit /\ [][JoiningNext]_joiningVars

\* The service manager restarts the inviter; its maintenance loop, its handlers and the
\* cluster go on; time passes; the joiner's process runs and its operator resumes a
\* pending join.  Nothing makes an operator answer or issue an invite.
Fairness ==
    /\ WF_joiningVars(Recover) /\ WF_joiningVars(StoreSecret \/ ActivateInvite)
    /\ WF_joiningVars(MaintainState) /\ WF_joiningVars(\E i \in Invites : DeleteSecret(i)) /\ WF_joiningVars(CompleteDeletion)
    /\ \A a \in Attempts : /\ WF_joiningVars(StartFinalize(a)) /\ WF_joiningVars(CommitAdmission(a))
                           /\ WF_joiningVars(ApplyAdmission(a))
    /\ WF_joiningVars(AdmissionReturns \/ FinalizationPending) /\ WF_joiningVars(RecordFinalization)
    /\ WF_joiningVars(PublishSnapshot)
    /\ WF_joiningVars(Resume) /\ WF_joiningVars(Authorize) /\ WF_joiningVars(RecordSnapshot) /\ WF_joiningVars(OwnDestination)
    /\ WF_joiningVars(CreateDatabase) /\ WF_joiningVars(Install) /\ WF_joiningVars(FinishJoin) /\ WF_joiningVars(BootstrapFails)

FairSpec == JoiningSpec /\ Fairness

-----------------------------------------------------------------------------
(* Properties *)

InviteRows == [state : {"unused", "pruned"} \cup Live \cup Terminal,
               mode : {"new", "rebootstrap", "readmission"}, epoch : Nat, version : Nat,
               failures : 0..MaxProofFailures, consumedBy : Attempts \cup {None}]
AttemptRows == [state : {"none", "awaiting_sas", "finalizing"} \cup Finished,
                invite : Invites \cup {None}, input : 0..2, remote : BOOLEAN,
                declinedBy : {"local", "remote", None}]
Calls == [op : {"request", "confirm", "decline", "accept", "refuse"},
          attempt : Attempts, invite : Invites, inTime : BOOLEAN]
Journals == {NoJournal} \cup
    [phase : {"decision_approved", "confirmed", "installing", "installing_owned"},
     attempt : Attempts, mode : {"new", "rebootstrap", "readmission"}, epoch : Nat,
     root : 0..MaxSnapshots]

\* Every table, journal and call keeps its type; a row names the invite it belongs to.
JoiningTypeOK ==
    /\ db.invite \in [Invites -> InviteRows]
    /\ db.attempt \in [Attempts \cup Strangers -> AttemptRows]
    /\ db.deletions \subseteq Invites
    /\ db.command \in [Attempts -> {"none", "pending", "accepted", "rejected"}]
    /\ secrets \subseteq Invites /\ late \subseteq Invites /\ early \subseteq Invites
    /\ up \in BOOLEAN /\ calls \subseteq Calls
    /\ creating \in {None} \cup [invite : Invites, stored : BOOLEAN]
    /\ cleaning \in Invites \cup {None}
    /\ finalizer \in {None} \cup [attempt : Attempts, outcome : {"pending", "accepted", "rejected"}]
    /\ member \in [status : {"absent", "active", "readmit"}, version : Nat, epoch : Nat,
                   cut : Nat, owner : BOOLEAN, configured : BOOLEAN]
    /\ proposed \in [Attempts -> {"none", "sent", "accepted", "rejected"}]
    /\ snapshots \in 0..MaxSnapshots
    /\ journal \in Journals
    /\ dest \in [kind : {"absent", "predecessor", "foreign", "empty", "installed"},
                 root : 0..MaxSnapshots, attempt : Attempts \cup {None}]
    /\ joiner \in [step : {"idle", "requesting", "review", "deciding", "declining", "bootstrap",
                          "authorized", "staged", "owned", "opened", "installed"},
                   attempt : Attempts \cup {None}, invite : Invites \cup {None}, connected : BOOLEAN]
    /\ said \in [Attempts -> {"unused", "asked", "yes", "no"}]
    /\ tried \in [Invites -> SUBSET (Strangers \X (1..2))]
    /\ faults \in 0..MaxFaults

\* What the ledger admitted, the inviter's store still carries to completion: no
\* expiry, decline, crash or pruning loses an admission between its proposal and its
\* recorded outcome.  And every distinct wrong proof was charged: reusing an attempt
\* identifier with another input does not spare the failure budget of an invite that
\* is still usable.
InvitesAccounted ==
    /\ \A a \in Attempts :
          proposed[a] \in {"sent", "accepted"} =>
              db.attempt[a].state \in {"finalizing", "completed", "none"}
                /\ (db.attempt[a].state = "none" => db.command[a] = "accepted")
    /\ \A i \in Invites :
          db.invite[i].state = "outstanding" =>
              db.invite[i].failures >= Cardinality(tried[i])

\* An attempt is finalized only when the joiner's operator said yes to that very
\* attempt and it is the attempt that consumed its invite, and it is reported complete
\* only when the ledger accepted its admission: neither a decline that races the
\* inviter's acceptance, a second attempt on the invite nor a crash gets through.  A
\* device that was a member all along installs again only after the inviter completed
\* the attempt: an unanswered approval is never resumed into an installation.
BothApproved ==
    /\ \A a \in Attempts :
          LET invite == db.invite[db.attempt[a].invite]
          IN /\ db.attempt[a].state \in {"finalizing", "completed"} =>
                   said[a] = "yes" /\ invite.consumedBy = a
             /\ db.attempt[a].state = "completed" /\ invite.mode # "rebootstrap" =>
                   proposed[a] = "accepted"
    /\ journal # NoJournal /\ journal.mode = "rebootstrap"
          /\ journal.phase # "decision_approved"
        => db.attempt[journal.attempt].state \in {"completed", "none"}

\* The destination changes only under a journal that durably owns it, and a database
\* another program put there is never touched.
DestinationOwned ==
    [][ \/ dest'.kind = "foreign" /\ dest.kind = "absent"
        \/ journal.phase = "installing_owned" /\ dest.kind # "foreign" ]_dest

\* An installed destination covers the authorization of the device's credential.
InstalledCovers == dest.kind = "installed" => Admitted /\ dest.root >= member.cut

\* A secret whose invite has ended is eventually erased from the native store.
SecretsErased ==
    \A i \in Invites : (db.invite[i].state \in Terminal /\ i \notin early) ~> i \notin secrets

\* An attempt both operators approved is eventually completed or revoked, whatever
\* crashes, unless the device stays in the voter configuration.
FinalizationSettles ==
    \A a \in Attempts :
        db.attempt[a].state = "finalizing" ~>
            db.attempt[a].state # "finalizing" \/ member.configured

\* A confirmed join that nobody interferes with is eventually installed.
JoinCompletes ==
    (journal # NoJournal /\ journal.phase # "decision_approved" /\ journal.mode # "readmission")
        ~> (dest.kind \in {"installed", "foreign"})

\* A join is earned before it is recorded: both people approved what was finalized, and
\* what was installed covers the authorization.
JoinsEarned == BothApproved /\ InstalledCovers

\* Nothing of a join is left half done: the secret is erased, the finalization ends and
\* the confirmed join is installed (the maintenance loop, the finalizer, join resume).
JoinsSettle == SecretsErased /\ FinalizationSettles /\ JoinCompletes
=============================================================================
