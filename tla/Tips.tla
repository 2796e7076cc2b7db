-------------------------------- MODULE Tips --------------------------------
(***************************************************************************)
(* The tipsets the Lotus input records: GetTips of                         *)
(* plugins/inputs/lotus/rpc/rpc.go, which follows the node's head changes  *)
(* and holds each new tipset back in a head buffer (rpc/head_buffer.go)    *)
(* until HeadLag others are on top of it, so that a short reorganisation   *)
(* takes it out again.                                                     *)
(*                                                                         *)
(* A chain is the increasing sequence of the heights of its tipsets,       *)
(* genesis left out, and a tipset is the chain that ends in it: tipsets    *)
(* are immutable and know their parents.  Head changes arrive in order and *)
(* each is handled before the next, so the chain is the one the changes    *)
(* handled so far describe.                                                *)
(***************************************************************************)
EXTENDS Integers, Sequences, FiniteSets

CONSTANTS
    HeadLag,    \* headlag, 3 in the code
    MaxHeight,  \* bound: the heights there are
    MaxMoves    \* bound: head changes of a behaviour

ASSUME TipsConstants ==
    /\ HeadLag \in Nat \ {0}
    /\ MaxHeight \in Nat \ {0}
    /\ MaxMoves \in Nat

VARIABLES
    tipsPhase,   \* "head": run has yet to ask for the head; "subscribe"; "follow"
    chain,
    lastHeight,  \* the height of the head that run asked for
    hb,          \* the tipsets in the head buffer, oldest first
    sent,        \* the tipsets sent on chmain
    moves

tipsVars == <<tipsPhase, chain, lastHeight, hb, sent, moves>>

Height(c) == IF c = <<>> THEN 0 ELSE c[Len(c)]
Parent(c) == SubSeq(c, 1, Len(c) - 1)

TipsInit ==
    /\ tipsPhase = "head"
    /\ chain \in {<<>>, <<1>>}
    /\ lastHeight = 0
    /\ hb = <<>> /\ sent = <<>>
    /\ moves = 0

\* The node's chain moves before anybody follows it.
NodeMoves ==
    /\ tipsPhase \in {"head", "subscribe"}
    /\ moves < MaxMoves /\ moves' = moves + 1
    /\ \/ \E h \in 1 .. MaxHeight : h > Height(chain) /\ chain' = Append(chain, h)
       \/ chain # <<>> /\ chain' = Parent(chain)
    /\ UNCHANGED <<tipsPhase, lastHeight, hb, sent>>

\* chainHead.Height()
ChainHead ==
    /\ tipsPhase = "head"
    /\ tipsPhase' = "subscribe"
    /\ lastHeight' = Height(chain)
    /\ UNCHANGED <<chain, hb, sent, moves>>

\* How many tipsets loadTipsets walks back over: those above lastHeight.
\* Mutant: also the one the input started from.
walkBackToLast == Cardinality({k \in 1 .. Len(chain) : chain[k] >= lastHeight})

walkBack == Cardinality({k \in 1 .. Len(chain) : chain[k] > lastHeight})

\* Mutant: the walk is not reversed.
loadTipsetsNewestFirst ==
    [i \in 1 .. walkBack |-> SubSeq(chain, 1, Len(chain) - i + 1)]

\* The tipsets walked over, reversed.
loadTipsets ==
    [i \in 1 .. walkBack |-> SubSeq(chain, 1, Len(chain) - walkBack + i)]

\* ChainNotify and its first change, HCCurrent.
Current ==
    /\ tipsPhase = "subscribe"
    /\ tipsPhase' = "follow"
    /\ sent' = loadTipsets
    /\ UNCHANGED <<chain, lastHeight, hb, moves>>

CurrentFails ==
    /\ tipsPhase = "subscribe"
    /\ tipsPhase' = "closed"
    /\ UNCHANGED <<chain, lastHeight, hb, sent, moves>>

\* Push: a full buffer gives up its front.
Push(t) ==
    IF Len(hb) = HeadLag
    THEN /\ sent' = Append(sent, Head(hb))
         /\ hb' = Append(Tail(hb), t)
    ELSE /\ hb' = Append(hb, t)
         /\ UNCHANGED sent

\* Pop: the newest is taken out, if there is one.
Pop == hb' = IF hb = <<>> THEN hb ELSE SubSeq(hb, 1, Len(hb) - 1)

\* HCApply
Apply(h) ==
    /\ tipsPhase = "follow"
    /\ h > Height(chain)
    /\ moves < MaxMoves /\ moves' = moves + 1
    /\ chain' = Append(chain, h)
    /\ Push(chain')
    /\ UNCHANGED <<tipsPhase, lastHeight>>

\* HCRevert
Revert ==
    /\ tipsPhase = "follow"
    /\ chain # <<>>
    /\ moves < MaxMoves /\ moves' = moves + 1
    /\ chain' = Parent(chain)
    /\ Pop
    /\ UNCHANGED <<tipsPhase, lastHeight, sent>>

TipsNext ==
    \/ NodeMoves \/ ChainHead \/ Current \/ CurrentFails
    \/ \E h \in 1 .. MaxHeight : Apply(h)
    \/ Revert

TipsSpec == TipsInit /\ [][TipsNext]_tipsVars

-----------------------------------------------------------------------------
\* The type invariant.
TipsTypeOK ==
    /\ tipsPhase \in {"head", "subscribe", "follow", "closed"}
    /\ chain \in Seq(1 .. MaxHeight)
    /\ lastHeight \in 0 .. MaxHeight
    /\ hb \in Seq(Seq(1 .. MaxHeight)) /\ Len(hb) <= HeadLag
    /\ sent \in Seq(Seq(1 .. MaxHeight))
    /\ moves \in 0 .. MaxMoves

\* However applies and reverts alternate, and however deep a reorganisation
\* goes, the buffer holds the top of the node's chain and nothing else.
BufferIsTop ==
    /\ Len(hb) <= Len(chain)
    /\ \A i \in 1 .. Len(hb) :
          hb[i] = SubSeq(chain, 1, Len(chain) - Len(hb) + i)

\* A tipset is sent after its parent, unless that is at or below the height the
\* input started from.
ParentsFirst ==
    \A i \in 1 .. Len(sent) :
        LET p == Parent(sent[i])
        IN Height(p) > lastHeight => \E j \in 1 .. i - 1 : sent[j] = p

\* The head buffer is a cursor that stays HeadLag behind the head: GetTips
\* implements TipFeed.
Feed == INSTANCE TipFeed WITH
    feedPhase <- IF tipsPhase \in {"head", "subscribe"} THEN "before"
                 ELSE IF tipsPhase = "follow" THEN "following" ELSE "closed",
    feedChain <- chain,
    feedFrom <- lastHeight,
    settled <- Len(chain) - Len(hb),
    feedOut <- sent

FollowsFeed == Feed!FeedSpec
=============================================================================
