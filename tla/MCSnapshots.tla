----------------------------- MODULE MCSnapshots -----------------------------
(***************************************************************************)
(* How a daemon that fell behind catches up: the Raft snapshots of a       *)
(* leader that compacts ahead of it, the signed artifacts a publisher      *)
(* keeps for a receiver, and the connections and wake-ups with one content *)
(* peer.  A behaviour is about one of the three; the others stay as they   *)
(* began.                                                                  *)
(***************************************************************************)
EXTENDS RaftSnapshots, SnapshotArtifacts, PeerSync

VARIABLE subject

MCInit == /\ Init /\ ArtifactInit /\ SyncInit
          /\ subject \in {"raft", "artifacts", "peer"}
          /\ member = (subject = "peer")
MCNext == \/ subject = "raft" /\ Next /\ UNCHANGED <<artifactVars, syncVars, subject>>
          \/ subject = "artifacts" /\ ArtifactNext /\ UNCHANGED <<vars, syncVars, subject>>
          \/ subject = "peer" /\ SyncNext /\ UNCHANGED <<vars, artifactVars, subject>>

InRaft(A) == subject = "raft" /\ A
InArtifacts(A) == subject = "artifacts" /\ A
InPeer(A) == subject = "peer" /\ A

\* Fairness, ArtifactFairness and SyncFairness, each for its own subject.
MCFairness ==
    /\ WF_vars(InRaft(Replicate)) /\ WF_vars(InRaft(ApplyEntry))
    /\ WF_vars(InRaft(ReceiveSnapshot)) /\ WF_vars(InRaft(RestoreSnapshot \/ RejectSnapshot))
    /\ WF_vars(InRaft(FinishInstall)) /\ WF_vars(InRaft(OpenNode))
    /\ WF_artifactVars(InArtifacts(PublisherStep))
    /\ WF_artifactVars(InArtifacts(BeginClose /\ publisher.stage = "fatal"))
    /\ WF_artifactVars(InArtifacts(Closed \/ Open \/ Loaded))
    /\ \A i \in Ids : /\ WF_artifactVars(InArtifacts(StartRemoval(i) \/ FinishRemoval(i)))
                      /\ WF_artifactVars(InArtifacts(ExpireHandoff(i)))
    /\ \A r \in Receivers : /\ WF_artifactVars(InArtifacts(ReceiverStep(r)))
                            /\ WF_artifactVars(InArtifacts(CloseTransfer(r) /\ ~Working(r)))
    /\ WF_syncVars(InPeer(WorkerStep)) /\ SF_syncVars(InPeer(NoticeAdvance))
    /\ \A c \in Conns : /\ WF_syncVars(InPeer(ServerStep(c)))
                        /\ WF_syncVars(InPeer(ReceiveWatermark(c)))

MCSpec == MCInit /\ [][MCNext]_<<vars, artifactVars, syncVars, subject>> /\ MCFairness
=============================================================================
