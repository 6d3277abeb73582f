------------------------- MODULE PublicationsProofs -------------------------
(***************************************************************************)
(* Proofs about Publications for any number of publications, commits,      *)
(* plans and records: no applied publication is lost, every row a snapshot *)
(* holds can be loaded again, and the repository reducers move the         *)
(* coordination rows only as Coordination allows.                          *)
(***************************************************************************)
EXTENDS Publications, CoordinationProofs

----------------------------------------------------------------------------
(* Git's history.                                                          *)

\* c is x or one of its ancestors.
Ancestor(c, x) ==
    \A S \in SUBSET Commits :
        /\ x \in S
        /\ \A y \in S \ {Root} : Parent[y] \in S
        => c \in S

LEMMA HistoryIsAncestry ==
    ASSUME NEW c PROVE InCanonicalHistory(c) <=> Ancestor(c, canonical.commit)
  BY DEF InCanonicalHistory, Ancestor

\* A commit has itself and its parent's ancestors.
LEMMA ChildExtends ==
    ASSUME NEW c \in Commits \ {Root}, NEW x, Ancestor(x, Parent[c]) \/ x = c
    PROVE  Ancestor(x, c)
  BY DEF Ancestor

\* What is an ancestor of a commit and not the commit is one of its parent's.
LEMMA AncestorOfParent ==
    ASSUME NEW c \in Commits, NEW x \in Commits \ {Root}, Ancestor(c, x), c # x
    PROVE  Ancestor(c, Parent[x])
  <1> SUFFICES ASSUME NEW S \in SUBSET Commits, Parent[x] \in S,
                      \A y \in S \ {Root} : Parent[y] \in S
               PROVE  c \in S
    BY DEF Ancestor
  <1> DEFINE T == S \cup {x}
  <1>1. T \in SUBSET Commits /\ x \in T /\ \A y \in T \ {Root} : Parent[y] \in T
    OBVIOUS
  <1> HIDE DEF T
  <1>2. c \in T
    BY <1>1 DEF Ancestor
  <1> QED BY <1>2 DEF T

\* The hashes leave no cycle: no commit is an ancestor of its own parent.
LEMMA NoCommitPrecedesItself ==
    ASSUME NEW c \in Commits \ {Root}
    PROVE  ~Ancestor(c, Parent[c])
  <1> SUFFICES ASSUME Ancestor(c, Parent[c]) PROVE FALSE
    OBVIOUS
  <1> DEFINE S == {x \in Commits \ {Root} : Ancestor(c, x)}
  <1>1. c \in S
    BY DEF Ancestor
  <1>2. ~Ancestor(c, Root)
    <2>1. Root \in {Root} /\ {Root} \in SUBSET Commits /\ c \notin {Root}
      BY RepositoryAssumption
    <2> QED BY <2>1 DEF Ancestor
  <1>3. ASSUME NEW x \in S PROVE Parent[x] \in S
    <2>1. Ancestor(c, Parent[x])
      BY AncestorOfParent
    <2>2. Parent[x] \in Commits
      BY RepositoryAssumption
    <2> QED BY <2>1, <2>2, <1>2
  <1>4. S \in SUBSET (Commits \ {Root})
    OBVIOUS
  <1> HIDE DEF S
  <1> QED BY <1>1, <1>3, <1>4, RepositoryAssumption

----------------------------------------------------------------------------
(* Supersession.                                                           *)

\* A fresh row that supersedes an existing one, or none, closes no cycle.
LEMMA FreshRowAcyclic ==
    ASSUME NEW D, NEW f, DOMAIN f = D, Acyclic(f),
           \A x \in D : f[x] \in D \cup {None},
           NEW r, r \notin D, r # None, NEW old \in D \cup {None},
           NEW g, DOMAIN g = D \cup {r}, g[r] = old, \A x \in D : g[x] = f[x]
    PROVE  Acyclic(g)
  <1> SUFFICES ASSUME NEW S \in SUBSET (D \cup {r}), S # {}
               PROVE  \E x \in S : g[x] \notin S
    BY DEF Acyclic
  <1>1. CASE S = {r}
    BY <1>1
  <1>2. CASE S # {r}
    <2>1. S \ {r} # {} /\ S \ {r} \in SUBSET D
      BY <1>2
    <2>2. PICK x \in S \ {r} : f[x] \notin S \ {r}
      BY <2>1 DEF Acyclic
    <2> QED BY <2>1, <2>2
  <1> QED BY <1>1, <1>2

----------------------------------------------------------------------------
(* The inductive invariant.                                                *)

PubStates == {"absent", "proposed", "approved"} \cup Closed
PubRows == [state : PubStates, commit : Commits, author : Sessions \cup {None},
            task : Tasks \cup {None}, supersedes : Pubs \cup {None},
            resolves : SUBSET Conflicts, reviewer : Actors \cup {None},
            signers : SUBSET Devices, signedAt : Nat, version : Nat]
ConflictRows == [status : {"absent", "unresolved", "resolved"},
                 by : Pubs \cup {None}, version : Nat]
PTypeOK ==
    /\ pub \in [Pubs -> PubRows]
    /\ canonical \in [commit : Commits, version : Nat]
    /\ conflict \in [Conflicts -> ConflictRows]
    /\ count \in [Tasks -> Nat]
NotesTypeOK ==
    /\ DOMAIN plan = Plans /\ DOMAIN memory = Memories
    /\ planCurrent.revision \in Plans \cup {None}
    /\ successor \in [Memories -> Memories \cup {None}]
    /\ \A r \in Plans : plan[r] # None =>
          /\ plan[r].by \in Devices /\ plan[r].tasks \in SUBSET Tasks
          /\ plan[r].supersedes \in Plans \cup {None}
    /\ \A m \in Memories : memory[m] # None =>
          /\ memory[m].task \in Tasks \cup {None}
          /\ memory[m].supersedes \in Memories \cup {None}

\* A row that exists has an author and a commit that has a parent.
Attributed == \A p \in Pubs : Exists(p) => pub[p].author \in Sessions /\ pub[p].commit # Root
\* An approval is by someone, and an agent's stays another device's.
ReviewsStand == \A p \in Pubs : pub[p].state \in {"approved", "applied"} =>
    /\ pub[p].reviewer # None
    /\ pub[p].reviewer \in Sessions =>
          /\ session[pub[p].reviewer].state # "absent"
          /\ session[pub[p].reviewer].device # AuthorDevice(p)
Detected == \A c \in Conflicts : (conflict[c].status = "absent") <=> (conflict[c].version = 0)

RepositoryInv == /\ Inv
                 /\ PTypeOK /\ Attributed /\ Detected
                 /\ RepositoryRowsLoad /\ CountsMatchRows
                 /\ ReviewsStand /\ AppliedAreKept
NotesInv == NotesTypeOK /\ NoteRowsLoad
----------------------------------------------------------------------------
(* What the coordination reducers leave of the rows that others name.      *)

\* A session keeps its device, and no session, task or device row disappears.
RowsRemain ==
    /\ \A s \in Sessions : session[s].state # "absent" =>
          session'[s].state # "absent" /\ session'[s].device = session[s].device
    /\ \A t \in Tasks : task[t].state # "absent" => task'[t].state # "absent"
    /\ \A d \in Devices : device[d].status # "absent" => device'[d].status # "absent"

LEMMA ScopesStay ==
    ASSUME TypeOK, OwnNext
    PROVE  /\ \A s \in Sessions : scopeDevice[s] # None => scopeDevice'[s] = scopeDevice[s]
           /\ UNCHANGED unresolved
  <1>1. CASE SessionNext
    BY <1>1 DEF SessionNext, AgentSessionStarted, AgentSessionStartRejected, AgentStatusChanged,
                DaemonResume, DaemonDisconnect, AgentSessionEnded, TypeOK
  <1>2. ASSUME NEW t \in Tasks, TaskOperation(t) PROVE UNCHANGED <<scopeDevice, unresolved>>
    <2>1. TaskNext
      BY <1>2 DEF TaskNext
    <2>2. UNCHANGED unresolved
      <3>1. ASSUME NEW s, NEW v,
                   \/ \E deps \in SUBSET Tasks : TaskCreated(t, deps) \/ TaskUpdated(t, s, deps, v)
                   \/ \E to \in TaskStates : TaskStateChanged(t, s, to, v)
            PROVE  UNCHANGED unresolved
        BY <3>1 DEF TaskCreated, TaskUpdated, TaskStateChanged
      <3>2. ASSUME NEW s, NEW v, TaskClaimed(t, s, v) \/ TaskReleasedVoluntary(t, s, v)
            PROVE  UNCHANGED unresolved
        BY <3>2 DEF TaskClaimed, TaskReleasedVoluntary
      <3>3. ASSUME NEW d, NEW v,
                   \/ TaskReleasedForced(t, d, v)
                   \/ TaskCancelled(t, d, v)
                   \/ \E target \in Devices : TaskReassigned(t, d, target, v)
            PROVE  UNCHANGED unresolved
        BY <3>3 DEF TaskReleasedForced, TaskCancelled, TaskReassigned
      <3> QED BY <1>2, <3>1, <3>2, <3>3 DEF TaskOperation
    <2> QED BY <2>1, <2>2, TaskFrame
  <1> QED
    BY <1>1, <1>2, LeaseFrame, AdminFrame DEF OwnNext

LEMMA RowsDoRemain ==
    ASSUME Inv, OwnNext
    PROVE  RowsRemain /\ UNCHANGED unresolved
  <1> USE DEF Inv
  <1>1. Next /\ Inv'
    <2>1. Next
      BY DEF OwnNext, Next, TaskNext
    <2> QED BY <2>1, InvStep
  <1>2. RowsAdvance
    BY <1>1, AdvanceStep
  <1>3. ASSUME NEW s \in Sessions, session[s].state # "absent"
        PROVE  session'[s].state # "absent" /\ session'[s].device = session[s].device
    <2>1. session[s].version \in Nat /\ scopeDevice[s] = session[s].device /\ scopeDevice[s] # None
      BY <1>3 DEF TypeOK, SessionRows, SessionsConsistent
    <2>2. scopeDevice'[s] = scopeDevice[s]
      BY <2>1, ScopesStay
    <2>3. session'[s].state # "absent"
      <3>1. CASE session'[s] = session[s]
        BY <3>1, <1>3
      <3>2. CASE session'[s] # session[s]
        <4>1. session'[s].version # 0
          BY <3>2, <2>1, <1>2 DEF RowsAdvance
        <4> QED BY <4>1, <1>1 DEF SessionsConsistent
      <3> QED BY <3>1, <3>2
    <2> QED BY <2>1, <2>2, <2>3, <1>1 DEF SessionsConsistent
  <1>4. ASSUME NEW t \in Tasks, task[t].state # "absent"
        PROVE  task'[t].state # "absent"
    <2>1. CASE task'[t] = task[t]
      BY <2>1, <1>4
    <2>2. CASE task'[t] # task[t]
      <3>1. task[t].version \in Nat
        BY DEF TypeOK, TaskRows
      <3>2. task'[t].version # 0
        BY <3>1, <2>2, <1>2 DEF RowsAdvance
      <3> QED BY <3>2, <1>1 DEF OwnershipConsistent
    <2> QED BY <2>1, <2>2
  <1>5. ASSUME NEW d \in Devices, device[d].status # "absent"
        PROVE  device'[d].status # "absent"
    <2>1. ASSUME NEW k \in Devices, NEW row \in DeviceRows, MembershipStep(k, row)
          PROVE  device'[d].status # "absent"
      BY <1>5, <2>1 DEF MembershipStep, TypeOK
    <2>2. CASE UNCHANGED device
      BY <2>2, <1>5
    <2>3. SessionNext => UNCHANGED device
      BY DEF SessionNext, AgentSessionStarted, AgentSessionStartRejected, AgentStatusChanged,
             DaemonResume, DaemonDisconnect, AgentSessionEnded
    <2>4. AdminNext => UNCHANGED device \/ \E k \in Devices, row \in DeviceRows : MembershipStep(k, row)
      BY DEF AdminNext, PolicyChanged
    <2> QED BY <2>1, <2>2, <2>3, <2>4, <1>1, TaskFrame, LeaseFrame DEF Next
  <1> QED
    BY <1>3, <1>4, <1>5, ScopesStay DEF RowsRemain
----------------------------------------------------------------------------
(* The steps on publications: a fresh row, or one that moves on.           *)

Existing == {p \in Pubs : Exists(p)}
Superseded == [p \in Existing |-> pub[p].supersedes]

Fresh(p, row) ==
    /\ row \in PubRows /\ pub' = [pub EXCEPT ![p] = row]
    /\ pub[p].state = "absent" /\ row.state = "proposed"
    /\ row.commit # Root
    /\ row.author \in Sessions /\ session[row.author].state # "absent"
    /\ row.task # None => task[row.task].state # "absent"
    /\ row.supersedes # None =>
          Supersedable(row.supersedes, row.author, row.task)
    /\ \A d \in row.signers : Active(d)
    /\ row.resolves \subseteq UnresolvedConflicts
    /\ UNCHANGED <<vars, canonical, conflict, count, voters, notesVars>>

Moved(p, row) ==
    /\ row \in PubRows /\ pub' = [pub EXCEPT ![p] = row]
    /\ pub[p].state \in {"proposed", "approved"}
    /\ row.state \in {"approved"} \cup Closed
    /\ row.commit = pub[p].commit /\ row.author = pub[p].author
    /\ row.task = pub[p].task /\ row.supersedes = pub[p].supersedes
    /\ row.resolves = pub[p].resolves
    /\ \A d \in row.signers : d \in pub[p].signers \/ Active(d)
    /\ UNCHANGED <<vars, conflict, count, voters, notesVars>>

\* A row keeps its shape when one of its columns is written.
LEMMA ColumnsTyped ==
    ASSUME NEW row \in PubRows
    PROVE  /\ \A state \in PubStates : [row EXCEPT !.state = state] \in PubRows
           /\ \A actor \in Actors : [row EXCEPT !.reviewer = actor] \in PubRows
           /\ \A signers \in SUBSET Devices : [row EXCEPT !.signers = signers] \in PubRows
           /\ \A n \in Nat : [row EXCEPT !.signedAt = n] \in PubRows
           /\ [row EXCEPT !.version = @ + 1] \in PubRows
  <1>1. \A state \in PubStates : [row EXCEPT !.state = state] \in PubRows
    BY DEF PubRows
  <1>2. \A actor \in Actors : [row EXCEPT !.reviewer = actor] \in PubRows
    BY DEF PubRows
  <1>3. \A signers \in SUBSET Devices : [row EXCEPT !.signers = signers] \in PubRows
    BY DEF PubRows
  <1>4. \A n \in Nat : [row EXCEPT !.signedAt = n] \in PubRows
    BY DEF PubRows
  <1>5. [row EXCEPT !.version = @ + 1] \in PubRows
    BY DEF PubRows
  <1> QED BY <1>1, <1>2, <1>3, <1>4, <1>5

LEMMA ProposedIsFresh ==
    ASSUME Inv, PTypeOK, NEW p \in Pubs, NEW s \in Sessions, NEW commit \in Commits \ {Root},
           NEW t \in Tasks \cup {None}, NEW old \in Pubs \cup {None},
           NEW resolves \in SUBSET UnresolvedConflicts, NEW signers \in SUBSET Devices,
           NEW version \in 1 .. MaxVoterVersion,
           PublicationProposed(p, s, commit, t, old, resolves, signers, version)
    PROVE  \E row : Fresh(p, row)
  <1> DEFINE row == [PubRow("proposed", commit, s, t, old, resolves) EXCEPT
                        !.signers = signers, !.signedAt = version]
  <1>1. PubRow("proposed", commit, s, t, old, resolves) \in PubRows
    <2>1. resolves \in SUBSET Conflicts
      BY DEF UnresolvedConflicts
    <2> QED BY <2>1 DEF PubRow, PubRows, PubStates
  <1>2. version \in Nat
    BY RepositoryAssumption
  <1>3. row \in PubRows
    <2> DEFINE first == PubRow("proposed", commit, s, t, old, resolves)
    <2>1. first \in PubRows
      BY <1>1
    <2> HIDE DEF first
    <2>2. [[first EXCEPT !.signers = signers] EXCEPT !.signedAt = version] \in PubRows
      BY <2>1, <1>2, ColumnsTyped
    <2>3. [first EXCEPT !.signers = signers, !.signedAt = version] =
          [[first EXCEPT !.signers = signers] EXCEPT !.signedAt = version]
      BY <2>1 DEF PubRows
    <2> QED BY <2>2, <2>3 DEF first
  <1>4. pub' = [pub EXCEPT ![p] = row]
    BY DEF PublicationProposed
  <1>5. /\ pub[p].state = "absent"
        /\ t # None => task[t].state # "absent"
        /\ old # None => Supersedable(old, s, t)
        /\ \A d \in signers : Active(d)
        /\ UNCHANGED <<vars, canonical, conflict, count, voters, notesVars>>
    BY DEF PublicationProposed, Exists, QuorumSigned
  <1>6. session[s].state # "absent"
    BY ActorDevice DEF PublicationProposed, Inv
  <1>7. /\ row.state = "proposed" /\ row.commit = commit /\ row.author = s /\ row.task = t
        /\ row.supersedes = old /\ row.signers = signers /\ row.resolves = resolves
    BY <1>1 DEF PubRow
  <1> HIDE DEF row
  <1>8. Fresh(p, row)
    BY <1>3, <1>4, <1>5, <1>6, <1>7 DEF Fresh
  <1> QED BY <1>8

LEMMA ReviewedMoves ==
    ASSUME PTypeOK, NEW p \in Pubs, NEW actor \in Actors, NEW decision \in {"approved", "rejected"},
           NEW v, PublicationReviewed(p, actor, decision, v)
    PROVE  \E row : /\ Moved(p, row) /\ UNCHANGED canonical
                    /\ row.state = decision /\ row.reviewer = actor
  <1> DEFINE row == [pub[p] EXCEPT !.state = decision, !.reviewer = actor, !.version = @ + 1]
  <1>1. pub[p] \in PubRows
    BY DEF PTypeOK
  <1>2. row \in PubRows
    <2>1. [[[pub[p] EXCEPT !.state = decision] EXCEPT !.reviewer = actor] EXCEPT !.version = @ + 1] \in PubRows
      BY <1>1, ColumnsTyped DEF PubStates, Closed
    <2> QED BY <1>1, <2>1 DEF PubRows
  <1>3. pub' = [pub EXCEPT ![p] = row]
    BY DEF PublicationReviewed, PTypeOK
  <1>4. /\ row.state = decision /\ row.reviewer = actor /\ row.commit = pub[p].commit
        /\ row.author = pub[p].author /\ row.task = pub[p].task
        /\ row.supersedes = pub[p].supersedes /\ row.resolves = pub[p].resolves
        /\ row.signers = pub[p].signers
    BY <1>1 DEF PubRows
  <1> HIDE DEF row
  <1>5. Moved(p, row) /\ UNCHANGED canonical
    BY <1>2, <1>3, <1>4 DEF PublicationReviewed, Moved, Closed
  <1> QED BY <1>4, <1>5

LEMMA WithdrawnMoves ==
    ASSUME PTypeOK, NEW p \in Pubs, NEW actor \in Actors, NEW v, PublicationWithdrawn(p, actor, v)
    PROVE  \E row : Moved(p, row) /\ row.state = "withdrawn" /\ UNCHANGED canonical
  <1> DEFINE row == [pub[p] EXCEPT !.state = "withdrawn", !.version = @ + 1]
  <1>1. pub[p] \in PubRows
    BY DEF PTypeOK
  <1>2. row \in PubRows
    <2>1. [[pub[p] EXCEPT !.state = "withdrawn"] EXCEPT !.version = @ + 1] \in PubRows
      BY <1>1, ColumnsTyped DEF PubStates, Closed
    <2> QED BY <1>1, <2>1 DEF PubRows
  <1>3. pub' = [pub EXCEPT ![p] = row]
    BY DEF PublicationWithdrawn, PTypeOK
  <1>4. /\ row.state = "withdrawn" /\ row.commit = pub[p].commit
        /\ row.author = pub[p].author /\ row.task = pub[p].task
        /\ row.supersedes = pub[p].supersedes /\ row.resolves = pub[p].resolves
        /\ row.signers = pub[p].signers
    BY <1>1 DEF PubRows
  <1> HIDE DEF row
  <1>5. Moved(p, row) /\ UNCHANGED canonical
    BY <1>2, <1>3, <1>4 DEF PublicationWithdrawn, Moved, Closed
  <1> QED BY <1>4, <1>5

LEMMA AppliedMoves ==
    ASSUME PTypeOK, NEW p \in Pubs, NEW d \in Devices, NEW refVersion, NEW signers \in SUBSET Devices,
           NEW version \in 1 .. MaxVoterVersion, NEW v,
           PublicationApplied(p, d, refVersion, signers, version, v)
    PROVE  /\ \E row : /\ Moved(p, row) /\ row.state = "applied"
                       /\ row.reviewer = pub[p].reviewer
           /\ pub[p].state = "approved"
           /\ Parent[pub[p].commit] = canonical.commit
           /\ canonical' = [commit |-> pub[p].commit, version |-> canonical.version + 1]
  <1> DEFINE row == [pub[p] EXCEPT !.state = "applied", !.signers = signers,
                                   !.signedAt = version, !.version = @ + 1]
  <1>1. pub[p] \in PubRows /\ version \in Nat
    BY RepositoryAssumption DEF PTypeOK
  <1>2. row \in PubRows
    <2>1. [[[[pub[p] EXCEPT !.state = "applied"] EXCEPT !.signers = signers] EXCEPT !.signedAt = version]
                EXCEPT !.version = @ + 1] \in PubRows
      BY <1>1, ColumnsTyped DEF PubStates, Closed
    <2> QED BY <1>1, <2>1 DEF PubRows
  <1>3. pub' = [pub EXCEPT ![p] = row]
    BY DEF PublicationApplied, PTypeOK
  <1>4. /\ row.state = "applied" /\ row.commit = pub[p].commit
        /\ row.author = pub[p].author /\ row.task = pub[p].task
        /\ row.supersedes = pub[p].supersedes /\ row.resolves = pub[p].resolves
        /\ row.signers = signers /\ row.reviewer = pub[p].reviewer
    BY <1>1 DEF PubRows
  <1> HIDE DEF row
  <1>5. Moved(p, row)
    BY <1>2, <1>3, <1>4 DEF PublicationApplied, QuorumSigned, Moved, Closed
  <1> QED BY <1>4, <1>5 DEF PublicationApplied, AppliesOnCanonical

----------------------------------------------------------------------------
(* Every step is of one of seven kinds.                                    *)

Reviews(p, row) ==
    /\ Moved(p, row) /\ UNCHANGED canonical
    /\ row.state # "applied"
    /\ row.state = "approved" =>
          /\ row.reviewer # None
          /\ row.reviewer \in Sessions =>
                /\ session[row.reviewer].state # "absent"
                /\ session[row.reviewer].device # session[row.author].device
Applies(p, row) ==
    /\ Moved(p, row) /\ row.state = "applied" /\ row.reviewer = pub[p].reviewer
    /\ pub[p].state = "approved" /\ Parent[pub[p].commit] = canonical.commit
    /\ canonical' = [commit |-> pub[p].commit, version |-> canonical.version + 1]
Detects(c) ==
    /\ conflict[c].version = 0 /\ Exists(c[1])
    /\ conflict' = [conflict EXCEPT ![c] = ConflictRow("unresolved", None, 1)]
    /\ SetCount(TaskOf(c), CountOf(TaskOf(c)) + 1)
    /\ UNCHANGED <<pub, canonical>>
Resolves(c, by) ==
    /\ conflict[c].status = "unresolved"
    /\ by = None \/ (by \in Pubs /\ pub[by].state = "applied" /\ c \in pub[by].resolves)
    /\ conflict' = [conflict EXCEPT ![c] = ConflictRow("resolved", by, @.version + 1)]
    /\ SetCount(TaskOf(c), CountOf(TaskOf(c)) - 1)
    /\ UNCHANGED <<pub, canonical>>
Quiet == UNCHANGED <<vars, pub, canonical, conflict, count>>

LEMMA StepKinds ==
    ASSUME Inv, PTypeOK, [PNext]_pvars
    PROVE  \/ OwnNext /\ UNCHANGED <<pub, canonical, conflict, count>>
           \/ \E p \in Pubs : \E row : Fresh(p, row) \/ Reviews(p, row) \/ Applies(p, row)
           \/ \E c \in Conflicts : Detects(c) \/ \E by \in Pubs \cup {None} : Resolves(c, by)
           \/ Quiet
  <1> DEFINE Kinds == \/ OwnNext /\ UNCHANGED <<pub, canonical, conflict, count>>
                      \/ \E p \in Pubs : \E row : Fresh(p, row) \/ Reviews(p, row) \/ Applies(p, row)
                      \/ \E c \in Conflicts : Detects(c) \/ \E by \in Pubs \cup {None} : Resolves(c, by)
                      \/ Quiet
  <1> HIDE DEF Kinds
  <1>1. CASE CoordinationStep
    BY <1>1 DEF CoordinationStep, repositoryVars, Kinds
  <1>2. ASSUME NEW p \in Pubs, NEW version \in 1 .. MaxVoterVersion, NEW signers \in SUBSET Devices,
               NEW s \in Sessions, NEW commit \in Commits \ {Root}, NEW t \in Tasks \cup {None},
               NEW old \in Pubs \cup {None}, NEW resolves \in SUBSET UnresolvedConflicts,
               PublicationProposed(p, s, commit, t, old, resolves, signers, version)
        PROVE  Kinds
    BY <1>2, ProposedIsFresh DEF Kinds
  <1>3. ASSUME NEW p \in Pubs, NEW version \in 1 .. MaxVoterVersion, NEW signers \in SUBSET Devices,
               NEW d \in Devices, NEW refVersion, NEW v,
               PublicationApplied(p, d, refVersion, signers, version, v)
        PROVE  Kinds
    <2>1. \E row : Applies(p, row)
      BY <1>3, AppliedMoves DEF Applies
    <2> QED BY <2>1 DEF Kinds
  <1>4. ASSUME NEW p \in Pubs, NEW actor \in Actors, NEW v, NEW decision \in {"approved", "rejected"},
               PublicationReviewed(p, actor, decision, v)
        PROVE  Kinds
    <2>1. PICK row : /\ Moved(p, row) /\ UNCHANGED canonical
                     /\ row.state = decision /\ row.reviewer = actor
      BY <1>4, ReviewedMoves
    <2>2. actor # None
      BY ConstantsAssumption DEF Actors
    <2>3. actor \in Sessions => /\ session[actor].state # "absent"
                                /\ session[actor].device # session[row.author].device
      BY <1>4, <2>1, ActorDevice
         DEF PublicationReviewed, Acts, DeviceOf, AuthorDevice, Moved, Inv
    <2>4. Reviews(p, row)
      BY <2>1, <2>2, <2>3 DEF Reviews
    <2> QED BY <2>4 DEF Kinds
  <1>5. ASSUME NEW p \in Pubs, NEW actor \in Actors, NEW v, PublicationWithdrawn(p, actor, v)
        PROVE  Kinds
    <2>1. \E row : Reviews(p, row)
      BY <1>5, WithdrawnMoves DEF Reviews
    <2> QED BY <2>1 DEF Kinds
  <1>6. PublicationNext => Kinds
    BY <1>2, <1>3, <1>4, <1>5 DEF PublicationNext
  <1>7. ASSUME NEW c \in Conflicts, NEW d \in Devices, ConflictDetected(d, c)
        PROVE  Kinds
    <2>1. CASE Redetected(c)
      BY <2>1 DEF Redetected, pvars, repositoryVars, Quiet, Kinds
    <2>2. CASE ~Redetected(c)
      <3>1. Detects(c)
        BY <1>7, <2>2 DEF ConflictDetected, Detects
      <3> QED BY <3>1 DEF Kinds
    <2> QED BY <2>1, <2>2
  <1>8. ASSUME NEW c \in Conflicts, NEW p \in Pubs, NEW actor \in Actors, NEW v,
               ConflictResolved(c, p, actor, v)
        PROVE  Kinds
    <2>1. Resolves(c, p)
      BY <1>8 DEF ConflictResolved, Resolve, Resolves
    <2> QED BY <2>1 DEF Kinds
  <1>9. ASSUME NEW c \in Conflicts, NEW d \in Devices, NEW v, ConflictForceResolved(c, d, v)
        PROVE  Kinds
    <2>1. Resolves(c, None)
      BY <1>9 DEF ConflictForceResolved, Resolve, Resolves
    <2> QED BY <2>1 DEF Kinds
  <1>10. ConflictNext => Kinds
    BY <1>7, <1>8, <1>9 DEF ConflictNext
  <1>11. CASE NotesNext
    BY <1>11 DEF NotesNext, PlanRevisionProposed, PlanCurrentSelected, MemoryAppended,
                 repositoryVars, Quiet, Kinds
  <1>12. ASSUME NEW members, VoterSetStep(members) PROVE Kinds
    BY <1>12 DEF VoterSetStep, Quiet, Kinds
  <1>13. CASE UNCHANGED pvars
    BY <1>13 DEF pvars, repositoryVars, Quiet, Kinds
  <1> QED
    BY <1>1, <1>6, <1>10, <1>11, <1>12, <1>13 DEF PNext, Kinds

----------------------------------------------------------------------------
(* Types.                                                                  *)

LEMMA RepositoryTypes ==
    ASSUME Inv, PTypeOK, Attributed, Detected, CountsMatchRows, [PNext]_pvars
    PROVE  PTypeOK' /\ Attributed' /\ Detected'
  <1>1. ASSUME NEW p \in Pubs, NEW row, Fresh(p, row) \/ Moved(p, row)
        PROVE  pub' \in [Pubs -> PubRows] /\ Attributed'
    <2>1. pub' = [pub EXCEPT ![p] = row] /\ row \in PubRows /\ row.author \in Sessions /\ row.commit # Root
      BY <1>1 DEF Fresh, Moved, Attributed, Exists
    <2> QED BY <2>1 DEF PTypeOK, Attributed, Exists
  <1>2. ASSUME NEW p \in Pubs, NEW row, Fresh(p, row) \/ Reviews(p, row)
        PROVE  PTypeOK' /\ Attributed' /\ Detected'
    BY <1>1, <1>2 DEF Fresh, Reviews, Moved, PTypeOK, Detected
  <1>3. ASSUME NEW p \in Pubs, NEW row, Applies(p, row)
        PROVE  PTypeOK' /\ Attributed' /\ Detected'
    <2>1. canonical' \in [commit : Commits, version : Nat]
      BY <1>3 DEF Applies, PTypeOK, PubRows
    <2> QED BY <1>1, <1>3, <2>1 DEF Applies, Moved, PTypeOK, Detected
  <1>4. ASSUME NEW c \in Conflicts, NEW n \in Nat, NEW row \in ConflictRows, row.version # 0,
               row.status # "absent", UNCHANGED <<pub, canonical>>,
               conflict' = [conflict EXCEPT ![c] = row], SetCount(TaskOf(c), n)
        PROVE  PTypeOK' /\ Attributed' /\ Detected'
    BY <1>4 DEF SetCount, PTypeOK, Attributed, Exists, Detected
  <1>5. ASSUME NEW c \in Conflicts, Detects(c)
        PROVE  PTypeOK' /\ Attributed' /\ Detected'
    <2>1. ConflictRow("unresolved", None, 1) \in ConflictRows
      BY DEF ConflictRow, ConflictRows
    <2>2. CountOf(TaskOf(c)) + 1 \in Nat
      BY <1>5 DEF CountOf, TaskOf, PTypeOK, PubRows, Conflicts
    <2>3. /\ ConflictRow("unresolved", None, 1).version # 0
          /\ ConflictRow("unresolved", None, 1).status # "absent"
      BY DEF ConflictRow
    <2> QED BY <1>4, <1>5, <2>1, <2>2, <2>3 DEF Detects
  <1>6. ASSUME NEW c \in Conflicts, NEW by \in Pubs \cup {None}, Resolves(c, by)
        PROVE  PTypeOK' /\ Attributed' /\ Detected'
    <2>1. conflict[c].version + 1 \in Nat \ {0}
      BY DEF PTypeOK, ConflictRows
    <2>2. ConflictRow("resolved", by, conflict[c].version + 1) \in ConflictRows
      BY <2>1 DEF ConflictRow, ConflictRows
    <2>3. UNCHANGED <<pub, canonical>> /\ Detected' /\ conflict' \in [Conflicts -> ConflictRows]
      BY <1>6, <2>1, <2>2 DEF Resolves, ConflictRow, Detected, PTypeOK
    <2>4. TaskOf(c) # None => count[TaskOf(c)] - 1 \in Nat
      <3> SUFFICES ASSUME TaskOf(c) # None PROVE count[TaskOf(c)] # 0 /\ count[TaskOf(c)] \in Nat
        OBVIOUS
      <3>1. TaskOf(c) \in Tasks
        BY DEF TaskOf, PTypeOK, PubRows, Conflicts
      <3>2. c \in {k \in UnresolvedConflicts : TaskOf(k) = TaskOf(c)}
        BY <1>6 DEF Resolves, UnresolvedConflicts
      <3>3. IsFiniteSet({k \in UnresolvedConflicts : TaskOf(k) = TaskOf(c)})
        BY RepositoryAssumption, FS_Product, FS_Subset DEF UnresolvedConflicts, Conflicts
      <3>4. count[TaskOf(c)] # 0
        BY <3>1, <3>2, <3>3, FS_EmptySet DEF CountsMatchRows, RebuiltCount
      <3> QED BY <3>1, <3>4 DEF PTypeOK
    <2>5. count' \in [Tasks -> Nat]
      <3>1. CASE TaskOf(c) = None
        BY <1>6, <3>1 DEF Resolves, SetCount, PTypeOK
      <3>2. CASE TaskOf(c) # None
        BY <1>6, <3>2, <2>4 DEF Resolves, SetCount, CountOf, PTypeOK
      <3> QED BY <3>1, <3>2
    <2> QED BY <2>3, <2>5 DEF PTypeOK, Attributed, Exists
  <1>7. CASE UNCHANGED <<pub, canonical, conflict, count>>
    BY <1>7 DEF PTypeOK, Attributed, Exists, Detected
  <1> QED
    BY <1>2, <1>3, <1>5, <1>6, <1>7, StepKinds DEF Quiet

----------------------------------------------------------------------------
(* The counts of unresolved conflicts.                                     *)

ConflictsOf(t) == {c \in UnresolvedConflicts : TaskOf(c) = t}

LEMMA FiniteConflicts == IsFiniteSet(UnresolvedConflicts) /\ \A t : IsFiniteSet(ConflictsOf(t))
  BY RepositoryAssumption, FS_Product, FS_Subset DEF UnresolvedConflicts, Conflicts, ConflictsOf

\* The count of a task follows its conflicts through a detection and a resolution.
LEMMA CountsStep ==
    ASSUME Inv, PTypeOK, Detected, RepositoryRowsLoad, CountsMatchRows, [PNext]_pvars
    PROVE  CountsMatchRows'
  <1>1. \A t \in Tasks : count[t] = Cardinality(ConflictsOf(t))
    BY DEF CountsMatchRows, RebuiltCount, ConflictsOf
  <1>2. ASSUME UNCHANGED <<count, unresolved>>, \A t \in Tasks : ConflictsOf(t)' = ConflictsOf(t)
        PROVE  CountsMatchRows'
    BY <1>2 DEF CountsMatchRows, RebuiltCount, ConflictsOf
  <1>3. ASSUME UNCHANGED <<count, unresolved, pub, conflict>>
        PROVE  CountsMatchRows'
    <2>1. \A t \in Tasks : ConflictsOf(t)' = ConflictsOf(t)
      BY <1>3 DEF ConflictsOf, UnresolvedConflicts, TaskOf
    <2> QED BY <1>2, <1>3, <2>1
  <1>4. ASSUME NEW p \in Pubs, NEW row, Fresh(p, row) \/ Moved(p, row)
        PROVE  CountsMatchRows'
    <2>1. UNCHANGED <<count, unresolved, conflict>> /\ pub' = [pub EXCEPT ![p] = row]
      BY <1>4 DEF Fresh, Moved, vars
    <2>2. \A c \in UnresolvedConflicts : c \in Conflicts /\ c[1] \in Pubs /\ Exists(c[1])
      <3>1. ASSUME NEW c \in UnresolvedConflicts PROVE conflict[c].version > 0 /\ c \in Conflicts
        BY DEF UnresolvedConflicts, Detected, PTypeOK, ConflictRows
      <3> QED BY <3>1 DEF Conflicts, RepositoryRowsLoad, ConflictReferencesHold
    <2>3. \A c \in UnresolvedConflicts : TaskOf(c)' = TaskOf(c)
      BY <1>4, <2>1, <2>2 DEF TaskOf, Exists, Fresh, Moved, PTypeOK
    <2>4. UnresolvedConflicts' = UnresolvedConflicts
      BY <2>1 DEF UnresolvedConflicts
    <2>5. \A t \in Tasks : ConflictsOf(t)' = ConflictsOf(t)
      BY <2>3, <2>4 DEF ConflictsOf
    <2> QED BY <1>2, <2>1, <2>5
  <1>5. ASSUME NEW c \in Conflicts, Detects(c)
        PROVE  CountsMatchRows'
    <2>1. UnresolvedConflicts' = UnresolvedConflicts \cup {c} /\ c \notin UnresolvedConflicts
      BY <1>5 DEF Detects, UnresolvedConflicts, ConflictRow, PTypeOK, Detected
    <2>2. \A k \in Conflicts : TaskOf(k)' = TaskOf(k)
      BY <1>5 DEF Detects, TaskOf
    <2>3. \A t \in Tasks : ConflictsOf(t)' = IF t = TaskOf(c) THEN ConflictsOf(t) \cup {c} ELSE ConflictsOf(t)
      BY <2>1, <2>2 DEF ConflictsOf, UnresolvedConflicts
    <2>4. \A t \in Tasks : Cardinality(ConflictsOf(t)') =
              IF t = TaskOf(c) THEN Cardinality(ConflictsOf(t)) + 1 ELSE Cardinality(ConflictsOf(t))
      <3> SUFFICES ASSUME NEW t \in Tasks
                   PROVE  Cardinality(ConflictsOf(t)') = IF t = TaskOf(c) THEN Cardinality(ConflictsOf(t)) + 1
                                                                          ELSE Cardinality(ConflictsOf(t))
        OBVIOUS
      <3>1. CASE t = TaskOf(c)
        <4>1. ConflictsOf(t)' = ConflictsOf(t) \cup {c} /\ c \notin ConflictsOf(t)
          BY <2>1, <2>3, <3>1 DEF ConflictsOf
        <4>2. Cardinality(ConflictsOf(t) \cup {c}) = Cardinality(ConflictsOf(t)) + 1
          BY <4>1, FiniteConflicts, FS_AddElement
        <4> QED BY <3>1, <4>1, <4>2
      <3>2. CASE t # TaskOf(c)
        BY <2>3, <3>2
      <3> QED BY <3>1, <3>2
    <2>5. \A t \in Tasks : count'[t] = IF t = TaskOf(c) THEN count[t] + 1 ELSE count[t]
      BY <1>5, ConstantsAssumption DEF Detects, SetCount, CountOf, PTypeOK
    <2>6. \A t \in Tasks : count'[t] = RebuiltCount(t)'
      BY <1>1, <2>4, <2>5 DEF RebuiltCount, ConflictsOf
    <2> QED BY <1>5, <2>6 DEF Detects, SetCount, CountsMatchRows
  <1>6. ASSUME NEW c \in Conflicts, NEW by, Resolves(c, by)
        PROVE  CountsMatchRows'
    <2>1. UnresolvedConflicts' = UnresolvedConflicts \ {c} /\ c \in UnresolvedConflicts
      BY <1>6 DEF Resolves, UnresolvedConflicts, ConflictRow, PTypeOK
    <2>2. \A k \in Conflicts : TaskOf(k)' = TaskOf(k)
      BY <1>6 DEF Resolves, TaskOf
    <2>3. \A t \in Tasks : ConflictsOf(t)' = IF t = TaskOf(c) THEN ConflictsOf(t) \ {c} ELSE ConflictsOf(t)
      BY <2>1, <2>2 DEF ConflictsOf, UnresolvedConflicts
    <2>4. \A t \in Tasks : Cardinality(ConflictsOf(t)') =
              IF t = TaskOf(c) THEN Cardinality(ConflictsOf(t)) - 1 ELSE Cardinality(ConflictsOf(t))
      <3> SUFFICES ASSUME NEW t \in Tasks
                   PROVE  Cardinality(ConflictsOf(t)') = IF t = TaskOf(c) THEN Cardinality(ConflictsOf(t)) - 1
                                                                          ELSE Cardinality(ConflictsOf(t))
        OBVIOUS
      <3>1. CASE t = TaskOf(c)
        <4>1. ConflictsOf(t)' = ConflictsOf(t) \ {c} /\ c \in ConflictsOf(t)
          BY <2>1, <2>3, <3>1 DEF ConflictsOf
        <4>2. Cardinality(ConflictsOf(t) \ {c}) = Cardinality(ConflictsOf(t)) - 1
          BY <4>1, FiniteConflicts, FS_RemoveElement
        <4> QED BY <3>1, <4>1, <4>2
      <3>2. CASE t # TaskOf(c)
        BY <2>3, <3>2
      <3> QED BY <3>1, <3>2
    <2>5. \A t \in Tasks : count'[t] = IF t = TaskOf(c) THEN count[t] - 1 ELSE count[t]
      BY <1>6, ConstantsAssumption DEF Resolves, SetCount, CountOf, PTypeOK
    <2>6. \A t \in Tasks : count'[t] = RebuiltCount(t)'
      BY <1>1, <2>4, <2>5 DEF RebuiltCount, ConflictsOf
    <2> QED BY <1>6, <2>6 DEF Resolves, SetCount, CountsMatchRows
  <1>7. ASSUME OwnNext, UNCHANGED <<pub, conflict, count>>
        PROVE  CountsMatchRows'
    BY <1>3, <1>7, RowsDoRemain
  <1> QED
    BY <1>3, <1>4, <1>5, <1>6, <1>7, StepKinds DEF Quiet, vars, Reviews, Applies

----------------------------------------------------------------------------
(* The repository reducers move coordination rows only as Coordination     *)
(* allows: its conflict projection is what they do.                        *)

LEMMA StepRefines ==
    ASSUME Inv, PTypeOK, Attributed, Detected, RepositoryRowsLoad, CountsMatchRows, [PNext]_pvars
    PROVE  [Next]_vars
  <1>1. OwnNext => Next
    BY DEF OwnNext, Next, TaskNext
  <1>2. ASSUME NEW c \in Conflicts, NEW n, SetCount(TaskOf(c), n), Exists(c[1]),
               TaskOf(c) # None => n = count[TaskOf(c)] + 1 \/ n = count[TaskOf(c)] - 1
        PROVE  [Next]_vars
    <2> DEFINE t == TaskOf(c)
    <2>1. CASE t = None
      BY <1>2, <2>1 DEF SetCount, vars, CountsMatchRows
    <2>2. CASE t # None
      <3>1. t \in Tasks /\ task[t].state # "absent"
        BY <1>2, <2>2 DEF TaskOf, Conflicts, PTypeOK, PubRows, RepositoryRowsLoad, PublicationReferencesHold
      <3>2. unresolved' = {u \in Tasks : count'[u] # 0} /\ unresolved = {u \in Tasks : count[u] # 0}
        BY <1>2 DEF SetCount, CountsMatchRows
      <3>3. count' = [count EXCEPT ![t] = n] /\ count \in [Tasks -> Nat]
        BY <1>2, <2>2 DEF SetCount, PTypeOK
      <3>4. UNCHANGED <<device, scopeDevice, session, task, lease, policy>>
        BY <1>2 DEF SetCount
      <3>5. CASE (n = 0) <=> (count[t] = 0)
        BY <3>2, <3>3, <3>4, <3>5 DEF vars
      <3>6. CASE ~((n = 0) <=> (count[t] = 0))
        <4>1. unresolved' = IF t \in unresolved THEN unresolved \ {t} ELSE unresolved \cup {t}
          BY <3>1, <3>2, <3>3, <3>6
        <4>2. ConflictStep(t)
          BY <3>1, <3>4, <4>1 DEF ConflictStep
        <4> QED BY <3>1, <4>2 DEF Next, TaskNext
      <3> QED BY <3>5, <3>6
    <2> QED BY <2>1, <2>2
  <1>3. ASSUME NEW c \in Conflicts, Detects(c) PROVE [Next]_vars
    BY <1>2, <1>3 DEF Detects, CountOf
  <1>4. ASSUME NEW c \in Conflicts, NEW by, Resolves(c, by) PROVE [Next]_vars
    <2>1. Exists(c[1])
      <3>1. conflict[c].version > 0
        BY <1>4 DEF Resolves, Detected, PTypeOK, ConflictRows
      <3> QED BY <3>1 DEF RepositoryRowsLoad, ConflictReferencesHold
    <2> QED BY <1>2, <1>4, <2>1 DEF Resolves, CountOf
  <1> QED
    BY <1>1, <1>3, <1>4, StepKinds DEF Quiet, vars, Fresh, Reviews, Applies, Moved

----------------------------------------------------------------------------
(* The references of publication and conflict rows.                        *)

\* Rows that are only read keep their references while others move on.
LEMMA ReferencesKept ==
    ASSUME Inv, PTypeOK, Attributed, RepositoryRowsLoad, RowsRemain,
           NEW p \in Pubs, Exists(p), pub'[p] = pub[p],
           \A q \in Pubs : pub[q].state \in {"rejected", "withdrawn"} => pub'[q] = pub[q],
           \A c \in Conflicts : conflict[c].version > 0 => conflict'[c].version > 0
    PROVE  PublicationReferencesHold(p)'
  <1>1. pub[p] \in PubRows /\ pub[p].author \in Sessions
    BY DEF PTypeOK, Attributed
  <1>2. PublicationReferencesHold(p)
    BY DEF RepositoryRowsLoad
  <1>3. session'[pub[p].author].state # "absent"
    BY <1>1, <1>2 DEF PublicationReferencesHold, RowsRemain
  <1>4. pub[p].task # None => task'[pub[p].task].state # "absent"
    BY <1>1, <1>2 DEF PublicationReferencesHold, RowsRemain, PubRows
  <1>5. \A d \in pub[p].signers : device'[d].status # "absent"
    BY <1>1, <1>2 DEF PublicationReferencesHold, RowsRemain, PubRows
  <1>6. \A c \in pub[p].resolves : conflict'[c].version > 0
    BY <1>1, <1>2 DEF PublicationReferencesHold, PubRows
  <1>7. pub[p].supersedes # None =>
          /\ pub'[pub[p].supersedes].state \in {"rejected", "withdrawn"}
          /\ pub'[pub[p].supersedes].author = pub[p].author
          /\ pub'[pub[p].supersedes].task = pub[p].task
    BY <1>1, <1>2 DEF PublicationReferencesHold, PubRows
  <1> QED
    BY <1>3, <1>4, <1>5, <1>6, <1>7 DEF PublicationReferencesHold

LEMMA SameSuperseded ==
    ASSUME \A p \in Pubs : /\ Exists(p)' <=> Exists(p)
                           /\ Exists(p) => pub'[p].supersedes = pub[p].supersedes
    PROVE  Superseded' = Superseded
  <1>1. Existing' = Existing
    BY DEF Existing
  <1>2. \A p \in Existing : pub'[p].supersedes = pub[p].supersedes
    BY DEF Existing
  <1> QED BY <1>1, <1>2 DEF Superseded

LEMMA RowsLoadParts ==
    RepositoryRowsLoad <=>
        /\ \A p \in Pubs : Exists(p) => PublicationReferencesHold(p)
        /\ Acyclic(Superseded)
        /\ \A c \in Conflicts : conflict[c].version > 0 => ConflictReferencesHold(c)
  BY DEF RepositoryRowsLoad, Superseded, Existing

LEMMA RowsStay ==
    ASSUME UNCHANGED vars
    PROVE  RowsRemain
  BY DEF vars, RowsRemain

LEMMA LoadsAfterFresh ==
    ASSUME Inv, PTypeOK, Attributed, Detected, RepositoryRowsLoad, NEW p \in Pubs, NEW row, Fresh(p, row)
    PROVE  RepositoryRowsLoad'
  <1>1. /\ pub' = [pub EXCEPT ![p] = row] /\ pub'[p] = row /\ row \in PubRows
        /\ \A q \in Pubs \ {p} : pub'[q] = pub[q]
        /\ pub[p].state = "absent" /\ UNCHANGED <<vars, conflict>>
    BY DEF Fresh, PTypeOK
  <1>2. ASSUME NEW q \in Pubs, Exists(q) PROVE PublicationReferencesHold(q)'
    <2>1. q # p
      BY <1>1, <1>2 DEF Exists
    <2> QED BY <1>1, <1>2, <2>1, RowsStay, ReferencesKept
  <1>3. row.supersedes # None =>
          /\ row.supersedes \in Pubs \ {p}
          /\ pub[row.supersedes].state \in {"rejected", "withdrawn"}
          /\ pub[row.supersedes].author = row.author /\ pub[row.supersedes].task = row.task
    BY <1>1 DEF Fresh, Supersedable, PubRows
  <1>4. PublicationReferencesHold(p)'
    <2>1. session'[row.author].state # "absent" /\ (row.task # None => task'[row.task].state # "absent")
      BY <1>1 DEF Fresh, vars
    <2>2. \A d \in row.signers : device'[d].status # "absent"
      BY <1>1 DEF Fresh, Active, vars
    <2>3. \A c \in row.resolves : conflict'[c].version > 0
      BY <1>1 DEF Fresh, UnresolvedConflicts, Detected, PTypeOK, ConflictRows
    <2> QED BY <1>1, <1>3, <2>1, <2>2, <2>3 DEF PublicationReferencesHold
  <1>5. Acyclic(Superseded')
    <2>1. DOMAIN Superseded = Existing /\ Acyclic(Superseded)
      BY RowsLoadParts DEF Superseded
    <2>2. Existing' = Existing \cup {p} /\ p \notin Existing
      BY <1>1 DEF Existing, Exists, Fresh
    <2>3. DOMAIN Superseded' = Existing \cup {p}
      BY <2>2 DEF Superseded
    <2>4. Superseded'[p] = row.supersedes /\ row.supersedes \in Existing \cup {None}
      <3>1. Superseded'[p] = row.supersedes
        BY <1>1, <2>2 DEF Superseded
      <3>2. row.supersedes \in Existing \cup {None}
        BY <1>3 DEF Existing, Exists
      <3> QED BY <3>1, <3>2
    <2>5. \A x \in Existing : Superseded'[x] = Superseded[x]
      BY <1>1, <2>2 DEF Superseded, Existing
    <2>6. \A x \in Existing : Superseded[x] \in Existing \cup {None}
      <3> SUFFICES ASSUME NEW x \in Existing, pub[x].supersedes # None
                   PROVE  pub[x].supersedes \in Pubs /\ Exists(pub[x].supersedes)
        BY DEF Superseded, Existing
      <3> QED BY DEF Existing, Exists, PTypeOK, PubRows, RepositoryRowsLoad, PublicationReferencesHold
    <2>7. p # None
      BY RepositoryAssumption
    <2> HIDE DEF Superseded
    <2> QED BY <2>1, <2>2, <2>3, <2>4, <2>5, <2>6, <2>7, FreshRowAcyclic
  <1>6. ASSUME NEW c \in Conflicts, conflict'[c].version > 0 PROVE ConflictReferencesHold(c)'
    <2>1. ConflictReferencesHold(c) /\ c[1] \in Pubs
      BY <1>1, <1>6 DEF RepositoryRowsLoad, Conflicts
    <2>2. conflict[c].by \in Pubs \cup {None}
      BY DEF PTypeOK, ConflictRows
    <2> QED BY <1>1, <2>1, <2>2 DEF ConflictReferencesHold, Exists
  <1>7. \A q \in Pubs : Exists(q)' => PublicationReferencesHold(q)'
    BY <1>1, <1>2, <1>4 DEF Exists
  <1> QED
    BY <1>5, <1>6, <1>7 DEF RepositoryRowsLoad, Superseded, Existing

LEMMA LoadsAfterMove ==
    ASSUME Inv, PTypeOK, Attributed, Detected, RepositoryRowsLoad, NEW p \in Pubs, NEW row, Moved(p, row)
    PROVE  RepositoryRowsLoad'
  <1>1. /\ pub' = [pub EXCEPT ![p] = row] /\ pub'[p] = row /\ row \in PubRows
        /\ \A q \in Pubs \ {p} : pub'[q] = pub[q]
        /\ pub[p].state \in {"proposed", "approved"} /\ row.state # "absent"
        /\ UNCHANGED <<vars, conflict>>
    BY DEF Moved, PTypeOK, Closed
  <1>2. ASSUME NEW q \in Pubs \ {p}, Exists(q) PROVE PublicationReferencesHold(q)'
    BY <1>1, <1>2, RowsStay, ReferencesKept
  <1>3. PublicationReferencesHold(p)'
    <2>1. PublicationReferencesHold(p) /\ pub[p] \in PubRows
      BY <1>1 DEF RepositoryRowsLoad, Exists, PTypeOK
    <2>2. session'[row.author].state # "absent" /\ (row.task # None => task'[row.task].state # "absent")
      BY <1>1, <2>1 DEF Moved, vars, PublicationReferencesHold
    <2>3. \A d \in row.signers : device'[d].status # "absent"
      BY <1>1, <2>1 DEF Moved, Active, vars, PublicationReferencesHold
    <2>4. \A c \in row.resolves : conflict'[c].version > 0
      BY <1>1, <2>1 DEF Moved, PublicationReferencesHold
    <2>5. row.supersedes # None =>
            /\ pub'[row.supersedes].state \in {"rejected", "withdrawn"}
            /\ pub'[row.supersedes].author = row.author
            /\ pub'[row.supersedes].task = row.task
      BY <1>1, <2>1 DEF Moved, PublicationReferencesHold, PubRows
    <2> QED BY <1>1, <2>2, <2>3, <2>4, <2>5 DEF PublicationReferencesHold
  <1>4. Superseded' = Superseded
    <2>1. \A q \in Pubs : /\ Exists(q)' <=> Exists(q)
                          /\ Exists(q) => pub'[q].supersedes = pub[q].supersedes
      BY <1>1 DEF Exists, Moved
    <2> QED BY <2>1, SameSuperseded
  <1>5. Acyclic(Superseded')
    BY <1>4, RowsLoadParts
  <1>6. ASSUME NEW c \in Conflicts, conflict'[c].version > 0 PROVE ConflictReferencesHold(c)'
    <2>1. ConflictReferencesHold(c) /\ c[1] \in Pubs
      BY <1>1, <1>6 DEF RepositoryRowsLoad, Conflicts
    <2>2. conflict[c].by \in Pubs \cup {None}
      BY DEF PTypeOK, ConflictRows
    <2> QED BY <1>1, <2>1, <2>2 DEF ConflictReferencesHold, Exists
  <1>7. \A q \in Pubs : Exists(q)' => PublicationReferencesHold(q)'
    BY <1>1, <1>2, <1>3 DEF Exists
  <1> QED
    BY <1>5, <1>6, <1>7 DEF RepositoryRowsLoad, Superseded, Existing

LEMMA LoadsAfterConflict ==
    ASSUME Inv, PTypeOK, Attributed, Detected, RepositoryRowsLoad, RowsRemain, UNCHANGED pub,
           \A c \in Conflicts : conflict[c].version > 0 => conflict'[c].version > 0,
           \A c \in Conflicts : conflict'[c] # conflict[c] =>
              /\ Exists(c[1])
              /\ conflict'[c].by # None =>
                    /\ conflict'[c].by \in Pubs /\ pub[conflict'[c].by].state = "applied"
                    /\ c \in pub[conflict'[c].by].resolves
    PROVE  RepositoryRowsLoad'
  <1>1. \A p \in Pubs : Exists(p)' => PublicationReferencesHold(p)'
    BY ReferencesKept DEF Exists
  <1>2. Superseded' = Superseded
    BY SameSuperseded DEF Exists
  <1>3. Acyclic(Superseded')
    BY <1>2, RowsLoadParts
  <1>4. ASSUME NEW c \in Conflicts, conflict'[c].version > 0 PROVE ConflictReferencesHold(c)'
    <2>1. CASE conflict'[c] = conflict[c]
      BY <1>4, <2>1 DEF RepositoryRowsLoad, ConflictReferencesHold, Exists
    <2>2. CASE conflict'[c] # conflict[c]
      BY <2>2 DEF ConflictReferencesHold, Exists
    <2> QED BY <2>1, <2>2
  <1> QED
    BY <1>1, <1>3, <1>4 DEF RepositoryRowsLoad, Superseded, Existing

\* After every step each row still passes the checks of NewState.
LEMMA LoadsStep ==
    ASSUME Inv, PTypeOK, Attributed, Detected, RepositoryRowsLoad, [PNext]_pvars
    PROVE  RepositoryRowsLoad'
  <1>1. ASSUME OwnNext, UNCHANGED <<pub, conflict>> PROVE RepositoryRowsLoad'
    BY <1>1, RowsDoRemain, LoadsAfterConflict
  <1>2. ASSUME Quiet PROVE RepositoryRowsLoad'
    BY <1>2, RowsStay, LoadsAfterConflict DEF Quiet
  <1>3. ASSUME NEW c \in Conflicts, Detects(c) PROVE RepositoryRowsLoad'
    <2>1. RowsRemain /\ UNCHANGED pub
      BY <1>3 DEF Detects, SetCount, RowsRemain
    <2>2. /\ conflict'[c].version = 1 /\ conflict'[c].by = None
          /\ \A k \in Conflicts \ {c} : conflict'[k] = conflict[k]
      BY <1>3 DEF Detects, ConflictRow, PTypeOK
    <2>3. Exists(c[1])
      BY <1>3 DEF Detects
    <2> QED BY <2>1, <2>2, <2>3, LoadsAfterConflict
  <1>4. ASSUME NEW c \in Conflicts, NEW by \in Pubs \cup {None}, Resolves(c, by) PROVE RepositoryRowsLoad'
    <2>1. RowsRemain /\ UNCHANGED pub
      BY <1>4 DEF Resolves, SetCount, RowsRemain
    <2>2. /\ conflict'[c].version = conflict[c].version + 1 /\ conflict'[c].by = by
          /\ \A k \in Conflicts \ {c} : conflict'[k] = conflict[k]
      BY <1>4 DEF Resolves, ConflictRow, PTypeOK
    <2>3. conflict[c].version \in Nat /\ conflict[c].version > 0
      BY <1>4 DEF Resolves, Detected, PTypeOK, ConflictRows
    <2>4. Exists(c[1])
      BY <2>3 DEF RepositoryRowsLoad, ConflictReferencesHold
    <2>5. by # None => by \in Pubs /\ pub[by].state = "applied" /\ c \in pub[by].resolves
      BY <1>4 DEF Resolves
    <2>6. conflict'[c].version > 0
      BY <2>2, <2>3
    <2>7. \A k \in Conflicts : conflict[k].version > 0 => conflict'[k].version > 0
      BY <2>2, <2>6
    <2> QED BY <2>1, <2>2, <2>4, <2>5, <2>7, LoadsAfterConflict
  <1> QED
    BY <1>1, <1>2, <1>3, <1>4, LoadsAfterFresh, LoadsAfterMove, StepKinds DEF Reviews, Applies

----------------------------------------------------------------------------
(* Applied publications.                                                   *)

LEMMA ReviewsStep ==
    ASSUME Inv, PTypeOK, Attributed, RepositoryRowsLoad, ReviewsStand, [PNext]_pvars
    PROVE  ReviewsStand'
  <1>1. ASSUME RowsRemain, UNCHANGED pub PROVE ReviewsStand'
    <2> SUFFICES ASSUME NEW p \in Pubs, pub[p].state \in {"approved", "applied"}, pub[p].reviewer \in Sessions
                 PROVE  /\ session'[pub[p].reviewer].state # "absent"
                        /\ session'[pub[p].reviewer].device # session'[pub[p].author].device
      BY <1>1 DEF ReviewsStand, AuthorDevice
    <2>1. pub[p].author \in Sessions /\ session[pub[p].author].state # "absent"
      BY DEF Attributed, Exists, RepositoryRowsLoad, PublicationReferencesHold
    <2> QED BY <1>1, <2>1 DEF ReviewsStand, AuthorDevice, RowsRemain
  <1>2. ASSUME NEW p \in Pubs, NEW row, UNCHANGED session, pub' = [pub EXCEPT ![p] = row],
               row.state \in {"approved", "applied"} =>
                  /\ row.reviewer # None
                  /\ row.reviewer \in Sessions =>
                        /\ session[row.reviewer].state # "absent"
                        /\ session[row.reviewer].device # session[row.author].device
        PROVE  ReviewsStand'
    BY <1>2 DEF ReviewsStand, AuthorDevice, PTypeOK
  <1>3. ASSUME NEW p \in Pubs, NEW row, Fresh(p, row) PROVE ReviewsStand'
    BY <1>2, <1>3 DEF Fresh, vars
  <1>4. ASSUME NEW p \in Pubs, NEW row, Reviews(p, row) PROVE ReviewsStand'
    BY <1>2, <1>4 DEF Reviews, Moved, vars
  <1>5. ASSUME NEW p \in Pubs, NEW row, Applies(p, row) PROVE ReviewsStand'
    BY <1>2, <1>5 DEF Applies, Moved, vars, ReviewsStand, AuthorDevice
  <1>6. ASSUME NEW c \in Conflicts, Detects(c) \/ \E by \in Pubs \cup {None} : Resolves(c, by)
        PROVE  ReviewsStand'
    BY <1>1, <1>6 DEF Detects, Resolves, SetCount, RowsRemain
  <1> QED
    BY <1>1, <1>3, <1>4, <1>5, <1>6, RowsDoRemain, RowsStay, StepKinds DEF Quiet

AppliedPubs == {p \in Pubs : pub[p].state = "applied"}
\* What AppliedAreKept says of the canonical history alone.
HistoryKept ==
    /\ canonical.version = Cardinality(AppliedPubs) + 1
    /\ \A p \in AppliedPubs : Ancestor(pub[p].commit, canonical.commit)
    /\ \A p, q \in AppliedPubs : p # q => pub[q].commit # pub[p].commit

LEMMA KeptParts == ReviewsStand => (HistoryKept <=> AppliedAreKept)
  BY DEF ReviewsStand, HistoryKept, AppliedAreKept, AppliedPubs, InCanonicalHistory, Ancestor

LEMMA HistoryStep ==
    ASSUME Inv, PTypeOK, Attributed, HistoryKept, [PNext]_pvars
    PROVE  HistoryKept'
  <1>1. ASSUME UNCHANGED canonical, AppliedPubs' = AppliedPubs,
               \A p \in AppliedPubs : pub'[p].commit = pub[p].commit
        PROVE  HistoryKept'
    BY <1>1 DEF HistoryKept, Ancestor
  <1>2. ASSUME UNCHANGED <<pub, canonical>> PROVE HistoryKept'
    BY <1>1, <1>2 DEF AppliedPubs
  <1>3. ASSUME NEW p \in Pubs, NEW row, Fresh(p, row) PROVE HistoryKept'
    <2>1. UNCHANGED canonical /\ AppliedPubs' = AppliedPubs
      BY <1>3 DEF Fresh, AppliedPubs, PTypeOK
    <2>2. \A q \in AppliedPubs : pub'[q].commit = pub[q].commit
      BY <1>3 DEF Fresh, AppliedPubs, PTypeOK
    <2> QED BY <1>1, <2>1, <2>2
  <1>4. ASSUME NEW p \in Pubs, NEW row, Reviews(p, row) PROVE HistoryKept'
    <2>1. UNCHANGED canonical /\ AppliedPubs' = AppliedPubs
      BY <1>4 DEF Reviews, Moved, AppliedPubs, PTypeOK
    <2>2. \A q \in AppliedPubs : pub'[q].commit = pub[q].commit
      BY <1>4 DEF Reviews, Moved, AppliedPubs, PTypeOK
    <2> QED BY <1>1, <2>1, <2>2
  <1>5. ASSUME NEW p \in Pubs, NEW row, Applies(p, row) PROVE HistoryKept'
    <2>1. /\ AppliedPubs' = AppliedPubs \cup {p} /\ p \notin AppliedPubs
          /\ \A q \in Pubs : pub'[q].commit = pub[q].commit
      BY <1>5 DEF Applies, Moved, AppliedPubs, PTypeOK
    <2> DEFINE c == pub[p].commit
    <2>2. c \in Commits \ {Root} /\ Parent[c] = canonical.commit
      BY <1>5 DEF Applies, Attributed, Exists, PTypeOK, PubRows
    <2>3. canonical'.commit = c /\ canonical'.version = canonical.version + 1
      BY <1>5 DEF Applies
    <2>4. Cardinality(AppliedPubs \cup {p}) = Cardinality(AppliedPubs) + 1
      BY <2>1, RepositoryAssumption, FS_Subset, FS_AddElement DEF AppliedPubs
    <2>5. \A q \in AppliedPubs : Ancestor(pub[q].commit, c) /\ pub[q].commit # c
      BY <2>2, ChildExtends, NoCommitPrecedesItself DEF HistoryKept
    <2>6. Ancestor(c, c)
      BY DEF Ancestor
    <2> HIDE DEF c
    <2>7. canonical'.version = Cardinality(AppliedPubs') + 1
      BY <2>1, <2>3, <2>4 DEF HistoryKept
    <2>8. \A q \in AppliedPubs' : Ancestor(pub'[q].commit, canonical'.commit)
      BY <2>1, <2>3, <2>5, <2>6 DEF c, AppliedPubs
    <2>9. \A q, r \in AppliedPubs' : q # r => pub'[r].commit # pub'[q].commit
      BY <2>1, <2>5 DEF c, HistoryKept, AppliedPubs
    <2> QED BY <2>7, <2>8, <2>9 DEF HistoryKept, Ancestor
  <1> QED
    BY <1>2, <1>3, <1>4, <1>5, StepKinds DEF Quiet, Detects, Resolves

----------------------------------------------------------------------------
(* The plan and the memory.                                                *)

LEMMA AlwaysRemain ==
    ASSUME Inv, PTypeOK, [PNext]_pvars
    PROVE  RowsRemain
  <1>1. ASSUME NEW c, Detects(c) \/ \E by : Resolves(c, by) PROVE RowsRemain
    BY <1>1 DEF Detects, Resolves, SetCount, RowsRemain
  <1> QED
    BY <1>1, RowsDoRemain, RowsStay, StepKinds DEF Quiet, Fresh, Reviews, Applies, Moved

Revisions == {r \in Plans : plan[r] # None}
Records == {m \in Memories : memory[m] # None}

\* Rows that are only read keep what they refer to.
LEMMA NotesKept ==
    ASSUME NotesTypeOK, NoteRowsLoad, RowsRemain, UNCHANGED notesVars
    PROVE  NotesTypeOK' /\ NoteRowsLoad'
  <1>1. NotesTypeOK'
    BY DEF NotesTypeOK, notesVars
  <1>2. \A r \in Plans : plan'[r] # None => PlanReferencesHold(r)'
    BY DEF NotesTypeOK, NoteRowsLoad, PlanReferencesHold, RowsRemain, notesVars
  <1>3. \A m \in Memories : memory'[m] # None => MemoryReferencesHold(m)'
    BY DEF NotesTypeOK, NoteRowsLoad, MemoryReferencesHold, RowsRemain, notesVars
  <1>4. /\ Acyclic([r \in {q \in Plans : plan[q] # None} |-> plan[r].supersedes])'
        /\ Acyclic([m \in {n \in Memories : memory[n] # None} |-> memory[m].supersedes])'
        /\ planCurrent'.revision # None => plan'[planCurrent'.revision] # None
    BY DEF NoteRowsLoad, notesVars
  <1> QED BY <1>1, <1>2, <1>3, <1>4 DEF NoteRowsLoad

LEMMA PlanProposed ==
    ASSUME NotesTypeOK, NoteRowsLoad, NEW r \in Plans, NEW d \in Devices, NEW tasks \in SUBSET Tasks,
           NEW old \in Plans \cup {None}, PlanRevisionProposed(r, d, tasks, old)
    PROVE  NotesTypeOK' /\ NoteRowsLoad'
  <1> DEFINE row == [by |-> d, tasks |-> tasks, supersedes |-> old]
  <1>1. /\ plan' = [plan EXCEPT ![r] = row] /\ DOMAIN plan' = Plans /\ plan'[r] = row
        /\ \A q \in Plans \ {r} : plan'[q] = plan[q]
        /\ plan[r] = None /\ (old # None => plan[old] # None /\ old \in Plans \ {r})
        /\ UNCHANGED <<device, session, task, planCurrent, memory, successor>>
    BY DEF PlanRevisionProposed, NotesTypeOK, vars
  <1>2. /\ row.by = d /\ row.tasks = tasks /\ row.supersedes = old
        /\ device[d].status # "absent" /\ \A t \in tasks : task[t].state # "absent"
    BY DEF PlanRevisionProposed, Active
  <1> HIDE DEF row
  <1>3. NotesTypeOK'
    BY <1>1, <1>2 DEF NotesTypeOK
  <1>4. ASSUME NEW q \in Plans, plan'[q] # None PROVE PlanReferencesHold(q)'
    <2>1. CASE q = r
      BY <1>1, <1>2, <2>1 DEF PlanReferencesHold
    <2>2. CASE q # r
      <3>1. PlanReferencesHold(q) /\ plan'[q] = plan[q] /\ plan[q].supersedes \in Plans \cup {None}
        BY <1>1, <1>4, <2>2 DEF NoteRowsLoad, NotesTypeOK
      <3> QED BY <1>1, <3>1 DEF PlanReferencesHold
    <2> QED BY <2>1, <2>2
  <1>5. Acyclic([q \in {k \in Plans : plan[k] # None} |-> plan[q].supersedes])'
    <2> DEFINE f == [q \in Revisions |-> plan[q].supersedes]
               g == [q \in {k \in Plans : plan'[k] # None} |-> plan'[q].supersedes]
    <2>1. Acyclic(f) /\ DOMAIN f = Revisions
      BY DEF NoteRowsLoad, Revisions
    <2>2. \A x \in Revisions : f[x] \in Revisions \cup {None}
      BY DEF Revisions, NotesTypeOK, NoteRowsLoad, PlanReferencesHold
    <2>3. r \notin Revisions /\ r # None /\ old \in Revisions \cup {None}
      BY <1>1, RepositoryAssumption DEF Revisions
    <2>4. \A x \in Revisions : x \in DOMAIN g /\ g[x] = f[x]
      BY <1>1 DEF Revisions
    <2>5. CASE plan'[r] # None
      <3>1. DOMAIN g = Revisions \cup {r} /\ g[r] = old
        BY <1>1, <1>2, <2>5 DEF Revisions
      <3> HIDE DEF f, g
      <3>2. Acyclic(g)
        BY <2>1, <2>2, <2>3, <2>4, <3>1, FreshRowAcyclic
      <3> QED BY <3>2 DEF g
    <2>6. CASE plan'[r] = None
      <3>1. DOMAIN g = Revisions
        BY <1>1, <2>6 DEF Revisions
      <3>2. g = f
        BY <1>1, <2>6, <3>1 DEF Revisions
      <3> HIDE DEF f, g
      <3>3. Acyclic(g)
        BY <2>1, <3>2
      <3> QED BY <3>3 DEF g
    <2> QED BY <2>5, <2>6
  <1>6. planCurrent'.revision # None => plan'[planCurrent'.revision] # None
    BY <1>1 DEF NoteRowsLoad, NotesTypeOK
  <1>7. \A m \in Memories : memory'[m] # None => MemoryReferencesHold(m)'
    BY <1>1 DEF NoteRowsLoad, MemoryReferencesHold
  <1>8. Acyclic([m \in {n \in Memories : memory[n] # None} |-> memory[m].supersedes])'
    BY <1>1 DEF NoteRowsLoad
  <1> QED BY <1>3, <1>4, <1>5, <1>6, <1>7, <1>8 DEF NoteRowsLoad

LEMMA PlanSelected ==
    ASSUME NotesTypeOK, NoteRowsLoad, NEW r \in Plans, NEW d, NEW v, PlanCurrentSelected(r, d, v)
    PROVE  NotesTypeOK' /\ NoteRowsLoad'
  <1>1. /\ planCurrent'.revision = r /\ plan[r] # None
        /\ UNCHANGED <<device, session, task, plan, memory, successor>>
    BY DEF PlanCurrentSelected, vars
  <1>2. NotesTypeOK'
    BY <1>1 DEF NotesTypeOK
  <1> QED
    BY <1>1, <1>2 DEF NoteRowsLoad, PlanReferencesHold, MemoryReferencesHold

LEMMA RecordAppended ==
    ASSUME NotesTypeOK, NoteRowsLoad, NEW m \in Memories, NEW d, NEW t \in Tasks \cup {None},
           NEW old \in Memories \cup {None}, MemoryAppended(m, d, t, old)
    PROVE  NotesTypeOK' /\ NoteRowsLoad'
  <1> DEFINE row == [task |-> t, supersedes |-> old]
  <1>1. /\ memory' = [memory EXCEPT ![m] = row] /\ DOMAIN memory' = Memories /\ memory'[m] = row
        /\ \A n \in Memories \ {m} : memory'[n] = memory[n]
        /\ memory[m] = None
        /\ UNCHANGED <<device, session, task, plan, planCurrent>>
    BY DEF MemoryAppended, NotesTypeOK, vars
  <1>2. /\ row.task = t /\ row.supersedes = old
        /\ t # None => task[t].state # "absent"
        /\ old # None => /\ memory[old] # None /\ memory[old].task = t /\ old \in Memories \ {m}
                         /\ successor[old] = None /\ successor'[old] = m
        /\ \A n \in Memories : n # old => successor'[n] = successor[n]
        /\ successor' \in [Memories -> Memories \cup {None}]
    BY DEF MemoryAppended, Supersedes, PredecessorMatches, NotesTypeOK
  <1> HIDE DEF row
  <1>3. NotesTypeOK'
    BY <1>1, <1>2 DEF NotesTypeOK
  <1>4. ASSUME NEW n \in Memories, memory'[n] # None PROVE MemoryReferencesHold(n)'
    <2>1. CASE n = m
      BY <1>1, <1>2, <2>1 DEF MemoryReferencesHold
    <2>2. CASE n # m
      <3>1. MemoryReferencesHold(n) /\ memory'[n] = memory[n] /\ memory[n].supersedes \in Memories \cup {None}
        BY <1>1, <1>4, <2>2 DEF NoteRowsLoad, NotesTypeOK
      <3>2. n # None
        BY RepositoryAssumption
      <3> QED BY <1>1, <1>2, <3>1, <3>2 DEF MemoryReferencesHold
    <2> QED BY <2>1, <2>2
  <1>5. Acyclic([n \in {k \in Memories : memory[k] # None} |-> memory[n].supersedes])'
    <2> DEFINE f == [n \in Records |-> memory[n].supersedes]
               g == [n \in {k \in Memories : memory'[k] # None} |-> memory'[n].supersedes]
    <2>1. Acyclic(f) /\ DOMAIN f = Records
      BY DEF NoteRowsLoad, Records
    <2>2. \A x \in Records : f[x] \in Records \cup {None}
      BY DEF Records, NotesTypeOK, NoteRowsLoad, MemoryReferencesHold
    <2>3. m \notin Records /\ m # None /\ old \in Records \cup {None}
      BY <1>1, <1>2, RepositoryAssumption DEF Records
    <2>4. \A x \in Records : x \in DOMAIN g /\ g[x] = f[x]
      BY <1>1 DEF Records
    <2>5. CASE memory'[m] # None
      <3>1. DOMAIN g = Records \cup {m} /\ g[m] = old
        BY <1>1, <1>2, <2>5 DEF Records
      <3> HIDE DEF f, g
      <3>2. Acyclic(g)
        BY <2>1, <2>2, <2>3, <2>4, <3>1, FreshRowAcyclic
      <3> QED BY <3>2 DEF g
    <2>6. CASE memory'[m] = None
      <3>1. DOMAIN g = Records
        BY <1>1, <2>6 DEF Records
      <3>2. g = f
        BY <1>1, <2>6, <3>1 DEF Records
      <3> HIDE DEF f, g
      <3>3. Acyclic(g)
        BY <2>1, <3>2
      <3> QED BY <3>3 DEF g
    <2> QED BY <2>5, <2>6
  <1>6. /\ \A r \in Plans : plan'[r] # None => PlanReferencesHold(r)'
        /\ planCurrent'.revision # None => plan'[planCurrent'.revision] # None
        /\ Acyclic([r \in {q \in Plans : plan[q] # None} |-> plan[r].supersedes])'
    BY <1>1 DEF NoteRowsLoad, PlanReferencesHold
  <1> QED BY <1>3, <1>4, <1>5, <1>6 DEF NoteRowsLoad

LEMMA NotesStep ==
    ASSUME Inv, PTypeOK, NotesTypeOK, NoteRowsLoad, [PNext]_pvars
    PROVE  NotesTypeOK' /\ NoteRowsLoad'
  <1>1. CASE NotesNext
    BY <1>1, PlanProposed, PlanSelected, RecordAppended DEF NotesNext
  <1>2. ASSUME PublicationNext PROVE UNCHANGED notesVars
    <2>1. ASSUME NEW p, NEW s, NEW commit, NEW t, NEW old, NEW resolves, NEW signers, NEW version,
                 PublicationProposed(p, s, commit, t, old, resolves, signers, version)
          PROVE  UNCHANGED notesVars
      BY <2>1 DEF PublicationProposed
    <2>2. ASSUME NEW p, NEW d, NEW refVersion, NEW signers, NEW version, NEW v,
                 PublicationApplied(p, d, refVersion, signers, version, v)
          PROVE  UNCHANGED notesVars
      BY <2>2 DEF PublicationApplied
    <2>3. ASSUME NEW p, NEW actor, NEW decision, NEW v, PublicationReviewed(p, actor, decision, v)
          PROVE  UNCHANGED notesVars
      BY <2>3 DEF PublicationReviewed
    <2>4. ASSUME NEW p, NEW actor, NEW v, PublicationWithdrawn(p, actor, v)
          PROVE  UNCHANGED notesVars
      BY <2>4 DEF PublicationWithdrawn
    <2> QED BY <1>2, <2>1, <2>2, <2>3, <2>4 DEF PublicationNext
  <1>3. ASSUME ConflictNext PROVE UNCHANGED notesVars
    BY <1>3 DEF ConflictNext, ConflictDetected, Redetected, ConflictResolved, ConflictForceResolved,
                Resolve, pvars
  <1>4. ASSUME NEW members, VoterSetStep(members) PROVE UNCHANGED notesVars
    BY <1>4 DEF VoterSetStep
  <1>5. CASE UNCHANGED notesVars
    BY <1>5, AlwaysRemain, NotesKept
  <1> QED
    BY <1>1, <1>2, <1>3, <1>4, <1>5 DEF PNext, CoordinationStep, pvars

----------------------------------------------------------------------------
(* The theorems.                                                           *)

LEMMA RepositoryInit == PInit => RepositoryInv /\ NotesInv
  <1> SUFFICES ASSUME PInit PROVE RepositoryInv /\ NotesInv
    OBVIOUS
  <1>1. Inv
    BY InvInit DEF PInit
  <1>2. /\ \A p \in Pubs : pub[p] = NoPub /\ ~Exists(p) /\ pub[p].state = "absent"
        /\ \A c \in Conflicts : conflict[c].status = "absent" /\ conflict[c].version = 0
    BY DEF PInit, NoPub, PubRow, Exists, ConflictRow
  <1>3. PTypeOK
    <2>1. PubRow("absent", Root, None, None, None, {}) \in PubRows
      BY RepositoryAssumption DEF PubRow, PubRows, PubStates
    <2>2. NoPub \in PubRows
      BY <2>1 DEF NoPub, PubRows
    <2>3. ConflictRow("absent", None, 0) \in ConflictRows
      BY DEF ConflictRow, ConflictRows
    <2> QED BY <2>2, <2>3, RepositoryAssumption DEF PInit, PTypeOK
  <1>4. Attributed /\ ReviewsStand /\ Detected
    BY <1>2 DEF Attributed, ReviewsStand, Detected
  <1>5. Acyclic(Superseded)
    <2>1. DOMAIN Superseded = {}
      BY <1>2 DEF Superseded, Existing
    <2> QED BY <2>1 DEF Acyclic
  <1>6. RepositoryRowsLoad
    BY <1>2, <1>5, RowsLoadParts
  <1>7. HistoryKept
    <2>1. AppliedPubs = {}
      BY <1>2 DEF AppliedPubs
    <2> QED BY <2>1, FS_EmptySet DEF HistoryKept, PInit
  <1>8. CountsMatchRows
    <2>1. UnresolvedConflicts = {}
      BY <1>2 DEF UnresolvedConflicts
    <2>2. \A t \in Tasks : RebuiltCount(t) = 0
      BY <2>1, FS_EmptySet DEF RebuiltCount
    <2> QED BY <2>2 DEF CountsMatchRows, PInit, Init
  <1>9. NotesTypeOK
    BY DEF PInit, NotesTypeOK
  <1>10. NoteRowsLoad
    <2>1. {r \in Plans : plan[r] # None} = {} /\ {m \in Memories : memory[m] # None} = {}
      BY DEF PInit
    <2>2. /\ Acyclic([r \in {q \in Plans : plan[q] # None} |-> plan[r].supersedes])
          /\ Acyclic([m \in {n \in Memories : memory[n] # None} |-> memory[m].supersedes])
      BY <2>1 DEF Acyclic
    <2> QED BY <2>1, <2>2 DEF NoteRowsLoad, PInit
  <1> QED
    BY <1>1, <1>3, <1>4, <1>6, <1>7, <1>8, <1>9, <1>10, KeptParts DEF RepositoryInv, NotesInv

LEMMA RepositoryStep ==
    RepositoryInv /\ NotesInv /\ [PNext]_pvars => (RepositoryInv /\ NotesInv)' /\ [Next]_vars
  <1> SUFFICES ASSUME RepositoryInv, NotesInv, [PNext]_pvars
               PROVE  (RepositoryInv /\ NotesInv)' /\ [Next]_vars
    OBVIOUS
  <1> USE DEF RepositoryInv, NotesInv
  <1>1. [Next]_vars
    BY StepRefines
  <1>2. Inv'
    BY <1>1, InvStep
  <1>3. PTypeOK' /\ Attributed' /\ Detected' /\ CountsMatchRows' /\ RepositoryRowsLoad'
    BY RepositoryTypes, CountsStep, LoadsStep
  <1>4. ReviewsStand' /\ HistoryKept'
    BY ReviewsStep, HistoryStep, KeptParts
  <1>5. AppliedAreKept'
    <2>1. (ReviewsStand => (HistoryKept <=> AppliedAreKept))'
      BY KeptParts, PTL
    <2> QED BY <1>4, <2>1
  <1>6. NotesTypeOK' /\ NoteRowsLoad'
    BY NotesStep
  <1> QED
    BY <1>1, <1>2, <1>3, <1>4, <1>5, <1>6

\* publication.applied: whatever the order in which publications, reviews, applies,
\* conflicts and changes of the voter target are committed, the canonical commit
\* descends from every publication that was applied, each exactly once, and each
\* passed a review that was not its own agent's.
THEOREM AppliedStayInHistory == PSpec => []AppliedAreKept
  <1>1. RepositoryInv => AppliedAreKept
    BY DEF RepositoryInv
  <1> QED
    BY <1>1, RepositoryInit, RepositoryStep, PTL DEF PSpec

\* NewState and loadPlanMemorySnapshot: after any history every publication,
\* conflict, plan and memory row refers to rows that exist, supersession has no
\* cycle, and the running counts of conflicts are those a restart rebuilds.
THEOREM RowsCanBeLoaded == PSpec => []ReferencesHold
  <1>1. RepositoryInv /\ NotesInv => ReferencesHold
    BY DEF RepositoryInv, NotesInv, ReferencesHold
  <1> QED
    BY <1>1, RepositoryInit, RepositoryStep, PTL DEF PSpec

\* The repository reducers implement the conflict projection of Coordination: every
\* behaviour of theirs is one of its behaviours, so what is proved of its rows
\* holds next to publications, conflicts, plans and memory too.
THEOREM RepositoryImplementsCoordination == PSpec => Spec
  <1>1. PInit => Init
    BY DEF PInit
  <1> QED
    BY <1>1, RepositoryInit, RepositoryStep, PTL DEF PSpec, Spec

\* So no row of theirs is taken back and no silent session acts.
THEOREM RepositoryRowsSafe == PSpec => []RowsConsistent /\ RowsAlwaysAdvance
  BY RepositoryImplementsCoordination, RowsAreConsistent, RowsOnlyAdvance, PTL
=============================================================================
