------------------------------- MODULE PeerId -------------------------------
(***************************************************************************)
(* The lotus_peer_id processor, plugins/processors/lotus_peer_id: it asks  *)
(* the node for its peer ID when it first needs it, keeps the answer for   *)
(* good, backs off from a node that does not answer, and lets metrics pass *)
(* untagged meanwhile.                                                     *)
(*                                                                         *)
(* Another program may take the node's place under the same address, with  *)
(* another peer ID.                                                        *)
(***************************************************************************)
EXTENDS Integers, FiniteSets

CONSTANTS
    Identity,   \* peer IDs the node may have
    Throttle,   \* apiBackOffThrottle, 10 s in the code
    MaxTime     \* bound: the clock

ASSUME PeerIdConstants == Throttle \in Nat \ {0} /\ MaxTime \in Nat

\* No peer ID, and no tag.
NoPeer == "none"

ASSUME NoPeerIsNobody == NoPeer \notin Identity

VARIABLES
    clock,
    nodeId,         \* the node's peer ID, or none while it does not answer
    initialized,    \* initializedDefaults
    curAPIBackOff,  \* when the node last failed to answer; long ago at first
    peerID,
    answered,       \* peer IDs the node has given
    tags            \* the tags of the metrics that have passed

peerVars == <<clock, nodeId, initialized, curAPIBackOff, peerID, answered,
              tags>>

PeerInit ==
    /\ clock = 0
    /\ nodeId \in Identity \union {NoPeer}
    /\ initialized = FALSE
    /\ curAPIBackOff = 0
    /\ peerID = NoPeer
    /\ answered = {} /\ tags = {}

TimePasses ==
    /\ clock < MaxTime
    /\ clock' = clock + 1
    /\ UNCHANGED <<nodeId, initialized, curAPIBackOff, peerID, answered, tags>>

NodeChanges ==
    /\ nodeId' \in (Identity \union {NoPeer}) \ {nodeId}
    /\ UNCHANGED <<clock, initialized, curAPIBackOff, peerID, answered, tags>>

-----------------------------------------------------------------------------
\* setAPIConfigDefaults, on the first Apply, sets the back-off to the epoch.
LongAgo == -Throttle
backOff == IF initialized THEN curAPIBackOff ELSE LongAgo

Throttled == clock - backOff < Throttle

\* Apply returns the metrics as they are.
ApplyUntagged ==
    /\ tags' = tags \union {[tag |-> NoPeer, known |-> peerID # NoPeer]}
    /\ UNCHANGED <<clock, nodeId, answered>>

ApplyThrottled ==
    /\ Throttled
    /\ initialized' = TRUE /\ curAPIBackOff' = backOff
    /\ ApplyUntagged
    /\ UNCHANGED peerID

\* setPeerID fails.
ApplyFails ==
    /\ ~Throttled
    /\ peerID = NoPeer /\ nodeId = NoPeer
    /\ initialized' = TRUE /\ curAPIBackOff' = clock
    /\ ApplyUntagged
    /\ UNCHANGED peerID

\* Mutant: the back-off also starts when the node answers.
ApplyTagsAndBacksOff(excluded) ==
    /\ ~Throttled
    /\ initialized' = TRUE /\ curAPIBackOff' = clock
    /\ \/ peerID # NoPeer /\ UNCHANGED <<peerID, answered>>
       \/ /\ peerID = NoPeer /\ nodeId # NoPeer
          /\ peerID' = nodeId
          /\ answered' = answered \union {nodeId}
    /\ tags' = IF excluded THEN tags
               ELSE tags \union {[tag |-> peerID', known |-> TRUE]}
    /\ UNCHANGED <<clock, nodeId>>

\* The peer ID is known, or setPeerID gets it; metrics that are not excluded
\* are tagged.
ApplyTags(excluded) ==
    /\ ~Throttled
    /\ initialized' = TRUE /\ curAPIBackOff' = backOff
    /\ \/ peerID # NoPeer /\ UNCHANGED <<peerID, answered>>
       \/ /\ peerID = NoPeer /\ nodeId # NoPeer
          /\ peerID' = nodeId
          /\ answered' = answered \union {nodeId}
    /\ tags' = IF excluded THEN tags
               ELSE tags \union {[tag |-> peerID', known |-> TRUE]}
    /\ UNCHANGED <<clock, nodeId>>

PeerNext ==
    \/ TimePasses \/ NodeChanges \/ ApplyThrottled \/ ApplyFails
    \/ \E excluded \in BOOLEAN : ApplyTags(excluded)

PeerSpec == PeerInit /\ [][PeerNext]_peerVars

-----------------------------------------------------------------------------
\* Once the peer ID is known no metric passes without it, whether or not the
\* node still answers, unless it is excluded; and the metrics of one processor
\* carry one peer ID, one the node has given, even if the node is replaced.
TagsOnceKnown ==
    /\ \A x \in tags : x.known => x.tag # NoPeer
    /\ \A x, y \in {z \in tags : z.tag # NoPeer} :
          x.tag = y.tag /\ x.tag \in answered
=============================================================================
