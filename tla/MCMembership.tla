---------------------------- MODULE MCMembership ----------------------------
(***************************************************************************)
(* Who becomes and stays a member: finite instances of Membership, and the *)
(* invites of Joining with a stranger who guesses.  A behaviour is about   *)
(* one of the two; the other stays as it began.                            *)
(***************************************************************************)
EXTENDS Membership, Joining, TLC

CONSTANTS d1, d2, d3, d4, k1, k2, k3, i1, i2, a1, b1

VARIABLE subject

Values(members, level, depth) ==
    [members |-> members, level |-> level, auditDepth |-> depth]
Roomy == Values(3, 1, 1)
MCPolicies == {Roomy, Values(2, 1, 1), Values(1, 1, 2), Values(2, 2, 1)}

Bounds(d, t, p, e, g) ==
    [k \in Kinds |-> CASE k = "device" -> d [] k = "target" -> t
                       [] k = "policy" -> p [] k = "epoch" -> e [] OTHER -> g]
MCBounds == Bounds(2, 2, 2, 2, 1)

\* The instance has room for two cases, explored side by side: voters among three
\* devices, and the credentials and limits of two.
Focus ==
    \/ /\ authorized = {} /\ policy = [values |-> Roomy, version |-> 1]
       /\ \A d \in Devices : device[d].level = 1
    \/ /\ Cardinality({d \in Devices : device[d].status # "absent"}) <= 2
       /\ policy.values # Roomy

\* All devices but the founder are interchangeable, and so are all keys.
Symmetry == Permutations(Devices \ {Founder}) \cup Permutations(Keys)

MCInit == /\ Init /\ JoiningInit
          /\ \/ subject = "members" /\ member.status = "absent"
             \/ subject = "invites" /\ policy.values = Roomy /\ device[Founder].level = 1
MCNext == \/ subject = "members" /\ Next /\ UNCHANGED <<joiningVars, subject>>
          \/ subject = "invites" /\ JoiningNext /\ UNCHANGED <<vars, subject>>
MCSpec == MCInit /\ [][MCNext]_<<vars, joiningVars, subject>>
=============================================================================
