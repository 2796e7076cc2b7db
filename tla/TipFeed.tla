------------------------------ MODULE TipFeed ------------------------------
(***************************************************************************)
(* What the tipset source of the Lotus input promises: once it follows the *)
(* node's chain, a cursor, settled, moves along it, never more than        *)
(* HeadLag tipsets behind the head, and every tipset it passes is sent.  A *)
(* reorganisation that goes below the cursor moves it back, and what the   *)
(* node builds there is sent as well.                                      *)
(*                                                                         *)
(* A chain is the sequence of the heights of its tipsets, genesis left     *)
(* out; heights may be skipped.  A tipset is the chain that ends in it.    *)
(***************************************************************************)
EXTENDS Integers, Sequences

CONSTANTS
    HeadLag,   \* headlag: how far the cursor stays behind
    MaxHeight  \* bound: the heights there are

VARIABLES
    feedPhase,  \* "before" it follows the node, "following", "closed"
    feedChain,  \* the node's chain
    feedFrom,   \* what is above this height is new
    settled,    \* how much of it the cursor has passed
    feedOut     \* the tipsets sent

feedVars == <<feedPhase, feedChain, feedFrom, settled, feedOut>>

Tip(c, k) == SubSeq(c, 1, k)

FeedInit ==
    /\ feedPhase = "before"
    /\ feedChain \in Seq(1 .. MaxHeight)
    /\ feedFrom = 0
    /\ settled = Len(feedChain)
    /\ feedOut = <<>>

FeedMoves ==
    /\ feedPhase = "before"
    /\ feedChain' \in Seq(1 .. MaxHeight)
    /\ settled' = Len(feedChain')
    /\ UNCHANGED <<feedPhase, feedFrom, feedOut>>

\* The node is asked for its head.
FeedAsks ==
    /\ feedPhase = "before"
    /\ feedFrom' = IF feedChain = <<>> THEN 0 ELSE feedChain[Len(feedChain)]
    /\ UNCHANGED <<feedPhase, feedChain, settled, feedOut>>

\* The end of the chain that is new since then is sent at once.
FeedLoads ==
    /\ feedPhase = "before"
    /\ feedPhase' = "following"
    /\ \E n \in 0 .. Len(feedChain) :
          /\ \A k \in 1 .. Len(feedChain) :
                feedChain[k] > feedFrom <=> k > Len(feedChain) - n
          /\ feedOut' = [i \in 1 .. n |-> Tip(feedChain, Len(feedChain) - n + i)]
    /\ UNCHANGED <<feedChain, feedFrom, settled>>

FeedFails ==
    /\ feedPhase = "before"
    /\ feedPhase' = "closed"
    /\ UNCHANGED <<feedChain, feedFrom, settled, feedOut>>

FeedApplies ==
    /\ feedPhase = "following"
    /\ \E h \in 1 .. MaxHeight : feedChain' = Append(feedChain, h)
    /\ IF Len(feedChain) - settled = HeadLag
       THEN /\ settled' = settled + 1
            /\ feedOut' = Append(feedOut, Tip(feedChain, settled + 1))
       ELSE UNCHANGED <<settled, feedOut>>
    /\ UNCHANGED <<feedPhase, feedFrom>>

FeedReverts ==
    /\ feedPhase = "following"
    /\ feedChain # <<>>
    /\ feedChain' = Tip(feedChain, Len(feedChain) - 1)
    /\ settled' = IF settled < Len(feedChain) THEN settled ELSE settled - 1
    /\ UNCHANGED <<feedPhase, feedFrom, feedOut>>

FeedNext ==
    FeedMoves \/ FeedAsks \/ FeedLoads \/ FeedFails \/ FeedApplies \/ FeedReverts

FeedSpec == FeedInit /\ [][FeedNext]_feedVars
=============================================================================
