---------------------------- MODULE MCAcceptance ----------------------------
(***************************************************************************)
(* What a daemon takes from others: the snapshot it installs, the          *)
(* checkpoints it commits and signs, the connections it serves and the     *)
(* streams of Raft on them.  A behaviour is about one of the four; the     *)
(* others stay as they began.                                              *)
(*                                                                         *)
(* The passes over an artifact do not read the destination: the longest    *)
(* histories are verified for an empty one, artifacts with a fault for an  *)
(* empty one and from shorter histories, and the installation into a store *)
(* that has a history of its own with sound artifacts of short histories.  *)
(* The peer's standing changes, the listener moves or the daemon begins to *)
(* stop: one of the three.  Of the streams, one change of standing or one  *)
(* outage; after a change the layer is not shut down and its feed does not *)
(* end.                                                                    *)
(***************************************************************************)
EXTENDS SnapshotStream, Checkpoints, Ingress, ConsensusStreams, TLC

CONSTANTS s0, s1, s2, FaultyHistory, MemberHistory, n1, n2, p1, c1, c2

VARIABLE subject

\* The authority moves from one daemon to the other.
MCAuthority == <<{n1}, {n2}>>
MCPlaneMax == [p \in Planes |-> 1]

MCInit == /\ Init /\ CheckpointInit /\ IngressInit /\ StreamInit
          /\ subject \in {"stream", "checkpoints", "ingress", "raft"}
          /\ subject # "stream" => ~Found(dest)
          /\ subject # "raft" => \A p \in Peers : standing[p].named
MCNext ==
    \/ /\ subject = "stream" /\ Next
       /\ UNCHANGED <<checkpointVars, ingressVars, streamVars, subject>>
    \/ /\ subject = "checkpoints" /\ CheckpointNext
       /\ UNCHANGED <<vars, ingressVars, streamVars, subject>>
    \/ /\ subject = "ingress" /\ IngressNext
       /\ UNCHANGED <<vars, checkpointVars, streamVars, subject>>
    \/ /\ subject = "raft" /\ StreamNext
       /\ UNCHANGED <<vars, checkpointVars, ingressVars, subject>>
MCSpec == MCInit /\ [][MCNext]_<<vars, checkpointVars, ingressVars, streamVars, subject>>

Symmetric == Permutations(LaterSessions) \cup Permutations(Calls)

HistoryWithin(n) == Len(source.results) + source.generation <=
                        n + (IF phase = "history" THEN 0 ELSE 1)

Focus == /\ fault # "none" => ~Found(dest) /\ HistoryWithin(FaultyHistory)
         /\ Found(dest) => HistoryWithin(MemberHistory)
         /\ turns + rebinds + (IF stopping THEN 1 ELSE 0) <= 1
         /\ shifts = 0 \/ (~layer.cancelled /\ signals # "closed")
         /\ shifts + outages <= 1
=============================================================================
