--------------------------- MODULE ServiceProofs ---------------------------
(***************************************************************************)
(* Theorems about modules Aggregator, Limiter, PeerId and Reload, for     *)
(* every value of their constants.                                         *)
(***************************************************************************)
EXTENDS Aggregator, Limiter, PeerId, Reload, SequenceTheorems, TLAPS

Pushed == [since : Int, until : Int, metrics : SUBSET Int]

AggTypeOK ==
    /\ startTime \in Int /\ now \in Int
    /\ periodStart \in Int /\ periodEnd \in Int
    /\ queue \in Seq(Int) /\ aggregate \in SUBSET Int
    /\ pushes \in Seq(Pushed)

\* The current window has begun for as long as metrics are added: it moves past
\* the clock only with the last push, after the adding goroutine has ended.
HasBegun ==
    /\ pushing => periodStart <= now
    /\ ~pushing => aggInput = "drained"
    /\ aggInput = "drained" => queue = <<>>

\* A window is a period long, and every earlier one ended before it began.
WindowsInOrder ==
    /\ periodEnd = periodStart + Period
    /\ \A i \in 1 .. Len(pushes) :
          pushes[i].since < pushes[i].until /\ pushes[i].until <= periodStart

Covered ==
    \A t \in startTime .. (periodEnd - 1) :
        \E w \in Windows : /\ w[1] <= t /\ t < w[2]
                           /\ \A v \in Windows : v[1] <= t /\ t < v[2] => v = w

\* What is in the aggregator belongs to the current window, and what was pushed
\* to the window it was pushed with.
InItsWindow ==
    /\ \A t \in aggregate : periodStart - Grace <= t /\ t <= periodEnd + Delay
    /\ \A i \in 1 .. Len(pushes) : \A t \in pushes[i].metrics :
          pushes[i].since - Grace <= t /\ t <= pushes[i].until + Delay

AggInv ==
    /\ AggTypeOK /\ HasBegun /\ WindowsInOrder /\ Covered /\ InItsWindow
    /\ FreshIsAggregated

-----------------------------------------------------------------------------
LEMMA AggFacts ==
    /\ Period \in Nat \ {0} /\ Delay \in Nat /\ Grace \in Nat
    /\ \A s \in Starts : s \in Nat
BY AggregatorConstants

\* The first window contains the start time, whether it is aligned or not.
LEMMA FirstWindow ==
    ASSUME NEW s \in Nat, NEW round \in BOOLEAN
    PROVE  /\ updateWindow(s, round).since \in Int
           /\ updateWindow(s, round).until \in Int
           /\ updateWindow(s, round).until = updateWindow(s, round).since + Period
           /\ updateWindow(s, round).since <= s
           /\ s < updateWindow(s, round).until
<1> DEFINE w == updateWindow(s, round)
<1>1. \A t \in Nat : /\ t % Period \in Nat /\ t % Period < Period
  BY AggFacts
<1>2. \A t \in Nat : /\ AlignTime(t) \in Int
                     /\ t <= AlignTime(t)
                     /\ AlignTime(t) < t + Period
  BY <1>1, AggFacts DEF AlignTime
<1>3. PICK until \in Int :
          /\ w = [since |-> until - Period, until |-> until]
          /\ s < until /\ until <= s + Period
  <2>1. CASE round /\ AlignTime(s) = s
    <3>1. s + 1 \in Nat
      OBVIOUS
    <3>2. w = [since |-> AlignTime(s + 1) - Period, until |-> AlignTime(s + 1)]
      BY <2>1 DEF updateWindow
    <3>3. s < AlignTime(s + 1) /\ AlignTime(s + 1) <= s + Period /\ AlignTime(s + 1) \in Int
      BY <3>1, <1>2, AggFacts
    <3> QED
      BY Zenon, <3>2, <3>3
  <2>2. CASE round /\ AlignTime(s) # s
    <3>1. w = [since |-> AlignTime(s) - Period, until |-> AlignTime(s)]
      BY <2>2 DEF updateWindow
    <3>2. s < AlignTime(s) /\ AlignTime(s) <= s + Period /\ AlignTime(s) \in Int
      BY <2>2, <1>2, AggFacts
    <3> QED
      BY Zenon, <3>1, <3>2
  <2>3. CASE ~round
    <3>1. w = [since |-> (s + Period) - Period, until |-> s + Period]
      BY <2>3 DEF updateWindow
    <3>2. s < s + Period /\ s + Period <= s + Period /\ s + Period \in Int
      BY AggFacts
    <3> QED
      BY Zenon, <3>1, <3>2
  <2> QED
    BY <2>1, <2>2, <2>3
<1> QED
  BY <1>3, AggFacts

LEMMA AggInitInv == AggInit => AggInv
<1> SUFFICES ASSUME AggInit PROVE AggInv
  OBVIOUS
<1>1. startTime \in Nat /\ now = startTime /\ queue = <<>> /\ aggregate = {}
        /\ pushes = <<>> /\ discarded = {} /\ aggInput = "open" /\ pushing = TRUE
  BY AggFacts DEF AggInit
<1>2. PICK round \in BOOLEAN : /\ periodStart = updateWindow(startTime, round).since
                               /\ periodEnd = updateWindow(startTime, round).until
  BY DEF AggInit
<1>3. /\ periodStart \in Int /\ periodEnd \in Int
      /\ periodEnd = periodStart + Period
      /\ periodStart <= startTime /\ startTime < periodEnd
  BY <1>1, <1>2, FirstWindow
<1>4. Len(pushes) = 0 /\ pushes \in Seq(Pushed) /\ queue \in Seq(Int)
  BY <1>1, EmptySeq
<1>5. AggTypeOK /\ HasBegun /\ InItsWindow /\ FreshIsAggregated
  BY <1>1, <1>3, <1>4 DEF AggTypeOK, HasBegun, InItsWindow, FreshIsAggregated
<1>6. WindowsInOrder
  BY <1>3, <1>4 DEF WindowsInOrder
<1>7. Covered
  <2>1. Windows = {<<periodStart, periodEnd>>}
    BY <1>4 DEF Windows
  <2> QED
    BY <2>1, <1>1, <1>3 DEF Covered
<1> QED
  BY <1>5, <1>6, <1>7 DEF AggInv

\* Steps that leave the windows alone.
LEMMA KeepsWindows ==
    ASSUME AggInv, UNCHANGED <<startTime, periodStart, periodEnd, pushes>>
    PROVE  /\ WindowsInOrder' /\ Covered'
           /\ (\A i \in 1 .. Len(pushes) : \A t \in pushes[i].metrics :
                 pushes[i].since - Grace <= t /\ t <= pushes[i].until + Delay)'
BY DEF AggInv, WindowsInOrder, Covered, Windows, InItsWindow

\* A metric is added, or discarded because it is outside the window; one that
\* carries the present time cannot be before it.
LEMMA AddStep == ASSUME AggInv, AddToWindow PROVE AggInv'
<1>0. /\ periodStart \in Int /\ periodEnd \in Int /\ now \in Int
      /\ queue \in Seq(Int) /\ queue # <<>>
  BY DEF AggInv, AggTypeOK, AddToWindow
<1>1. Head(queue) \in Int /\ queue' \in Seq(Int)
  BY <1>0, HeadTailProperties DEF AddToWindow
<1>2. WindowsInOrder' /\ Covered'
        /\ (\A i \in 1 .. Len(pushes) : \A t \in pushes[i].metrics :
              pushes[i].since - Grace <= t /\ t <= pushes[i].until + Delay)'
  BY KeepsWindows DEF AddToWindow
<1>3. pushing /\ aggInput # "drained" /\ periodStart <= now
  BY <1>0 DEF AggInv, HasBegun
<1>4. HasBegun'
  BY <1>3 DEF HasBegun, AddToWindow
<1>5. CASE Outside(Head(queue))
  <2>1. /\ discarded' = discarded \union
              {[time |-> Head(queue), at |-> now, end |-> periodEnd]}
        /\ aggregate' = aggregate
    BY <1>5 DEF AddToWindow
  <2>2. Head(queue) = now => now > periodEnd + Delay
    BY <1>0, <1>1, <1>3, <1>5, AggFacts DEF Outside
  <2>3. FreshIsAggregated'
    BY <2>1, <2>2 DEF FreshIsAggregated, AggInv
  <2> QED
    BY <1>1, <1>2, <1>4, <2>1, <2>3 DEF AggInv, AggTypeOK, AddToWindow, InItsWindow
<1>6. CASE ~Outside(Head(queue))
  <2>1. discarded' = discarded /\ aggregate' = aggregate \union {Head(queue)}
    BY <1>6 DEF AddToWindow
  <2>2. periodStart - Grace <= Head(queue) /\ Head(queue) <= periodEnd + Delay
    BY <1>0, <1>1, <1>6, AggFacts DEF Outside
  <2>3. FreshIsAggregated'
    BY <2>1 DEF FreshIsAggregated, AggInv
  <2> QED
    BY Zenon, <1>1, <1>2, <1>4, <2>1, <2>2, <2>3
      DEF AggInv, AggTypeOK, AddToWindow, InItsWindow
<1> QED
  BY <1>5, <1>6

\* A push begins the next window where the last one ended.
LEMMA PushStep ==
    ASSUME AggInv, Push, UNCHANGED <<startTime, now, queue, discarded, aggInput>>,
           (pushing' => pushing /\ now >= periodEnd), (~pushing' => aggInput = "drained")
    PROVE  AggInv'
<1> DEFINE p == [since |-> periodStart, until |-> periodEnd, metrics |-> aggregate]
<1>0. /\ periodStart \in Int /\ periodEnd \in Int /\ now \in Int /\ startTime \in Int
      /\ periodEnd = periodStart + Period /\ Period \in Nat \ {0}
      /\ pushes \in Seq(Pushed) /\ aggregate \in SUBSET Int
  BY AggFacts DEF AggInv, AggTypeOK, WindowsInOrder
<1>1. p \in Pushed
  BY <1>0 DEF Pushed
<1>2. /\ pushes' = Append(pushes, p) /\ aggregate' = {}
      /\ periodStart' = periodEnd /\ periodEnd' = periodEnd + Period
  BY DEF Push
<1>3. /\ pushes' \in Seq(Pushed) /\ Len(pushes) \in Nat /\ Len(pushes') = Len(pushes) + 1
      /\ \A i \in 1 .. Len(pushes) : pushes'[i] = pushes[i]
      /\ pushes'[Len(pushes) + 1] = p
  BY <1>0, <1>1, <1>2, AppendProperties, LenProperties
<1> HIDE DEF p
<1>4. p.since = periodStart /\ p.until = periodEnd /\ p.metrics = aggregate
  BY DEF p
<1>5. AggTypeOK'
  BY <1>0, <1>2, <1>3 DEF AggInv, AggTypeOK
<1>6. HasBegun'
  BY <1>0, <1>2 DEF AggInv, HasBegun
<1>7. \A i \in 1 .. Len(pushes') : i \in 1 .. Len(pushes) \/ i = Len(pushes) + 1
  BY <1>3
<1>8. WindowsInOrder'
  <2>1. periodEnd' = periodStart' + Period
    BY <1>0, <1>2
  <2>2. ASSUME NEW i \in 1 .. Len(pushes')
        PROVE  pushes'[i].since < pushes'[i].until /\ pushes'[i].until <= periodEnd
    <3>1. CASE i \in 1 .. Len(pushes)
      <4>0. pushes[i] \in Pushed
        BY <3>1, <1>0, ElementOfSeq
      <4>1. pushes[i].until \in Int
        BY <4>0 DEF Pushed
      <4>2. pushes[i].since < pushes[i].until /\ pushes[i].until <= periodStart
        BY <3>1 DEF AggInv, WindowsInOrder
      <4>3. pushes[i].until <= periodEnd
        BY <4>1, <4>2, <1>0
      <4> QED
        BY <4>2, <4>3, <3>1, <1>3
    <3>2. CASE i = Len(pushes) + 1
      BY <3>2, <1>0, <1>3, <1>4
    <3> QED
      BY <3>1, <3>2, <1>7
  <2> QED
    BY <2>1, <2>2, <1>2 DEF WindowsInOrder
<1>9. Windows' = Windows \union {<<periodEnd, periodEnd + Period>>}
  <2>1. {<<pushes'[i].since, pushes'[i].until>> : i \in 1 .. Len(pushes')}
          = {<<pushes[i].since, pushes[i].until>> : i \in 1 .. Len(pushes)}
              \union {<<periodStart, periodEnd>>}
    <3>1. \A i \in 1 .. Len(pushes) : i \in 1 .. Len(pushes')
      BY <1>3
    <3>2. Len(pushes) + 1 \in 1 .. Len(pushes')
      BY <1>3
    <3> QED
      BY <1>3, <1>4, <1>7, <3>1, <3>2
  <2> QED
    BY <2>1, <1>2 DEF Windows
<1>10. \A v \in Windows : v[1] \in Int /\ v[2] \in Int /\ v[2] <= periodEnd
  <2>1. ASSUME NEW i \in 1 .. Len(pushes)
        PROVE  pushes[i].since \in Int /\ pushes[i].until \in Int
                 /\ pushes[i].until <= periodEnd
    <3>1. pushes[i] \in Pushed
      BY <1>0, ElementOfSeq
    <3>2. pushes[i].since \in Int /\ pushes[i].until \in Int
      BY <3>1 DEF Pushed
    <3> QED
      BY <3>2, <1>0 DEF AggInv, WindowsInOrder
  <2> QED
    BY <2>1, <1>0 DEF Windows
<1>11. Covered'
  <2> SUFFICES ASSUME NEW t \in startTime .. (periodEnd + Period - 1)
               PROVE  \E w \in Windows' : /\ w[1] <= t /\ t < w[2]
                        /\ \A v \in Windows' : v[1] <= t /\ t < v[2] => v = w
    <3>0. startTime' = startTime
      OBVIOUS
    <3>1. periodEnd' - 1 = periodEnd + Period - 1
      BY <1>0, <1>2
    <3>2. startTime' .. (periodEnd' - 1) = startTime .. (periodEnd + Period - 1)
      BY <3>0, <3>1, Zenon
    <3> QED
      BY <3>2, Zenon DEF Covered
  <2> DEFINE new == <<periodEnd, periodEnd + Period>>
  <2>0. t \in Int /\ new[1] = periodEnd /\ new[2] = periodEnd + Period
    BY <1>0
  <2>1. CASE t < periodEnd
    <3>1. t \in startTime .. (periodEnd - 1)
      BY <2>1, <1>0
    <3>2. PICK w \in Windows : /\ w[1] <= t /\ t < w[2]
                     /\ \A v \in Windows : v[1] <= t /\ t < v[2] => v = w
      BY <3>1 DEF AggInv, Covered
    <3>3. ~(new[1] <= t)
      BY <2>0, <2>1, <1>0
    <3> QED
      BY <3>2, <3>3, <1>9
  <2>2. CASE ~(t < periodEnd)
    <3>1. \A v \in Windows : ~(t < v[2])
      BY <2>0, <2>2, <1>0, <1>10
    <3>2. new[1] <= t /\ t < new[2]
      BY <2>0, <2>2, <1>0
    <3> QED
      BY Zenon, <3>1, <3>2, <1>9
  <2> QED
    BY <2>1, <2>2
<1>12. InItsWindow'
  <2>1. ASSUME NEW i \in 1 .. Len(pushes'), NEW t \in pushes'[i].metrics
        PROVE  pushes'[i].since - Grace <= t /\ t <= pushes'[i].until + Delay
    <3>1. CASE i \in 1 .. Len(pushes)
      BY <3>1, <1>3 DEF AggInv, InItsWindow
    <3>2. CASE i = Len(pushes) + 1
      BY <3>2, <1>3, <1>4 DEF AggInv, InItsWindow
    <3> QED
      BY <3>1, <3>2, <1>7
  <2> QED
    BY <2>1, <1>2 DEF InItsWindow
<1>13. FreshIsAggregated'
  BY DEF AggInv, FreshIsAggregated
<1> QED
  BY <1>5, <1>6, <1>8, <1>11, <1>12, <1>13 DEF AggInv

LEMMA AggInductive == AggInit /\ [][AggNext]_aggVars => []AggInv
<1>1. AggInv /\ [AggNext]_aggVars => AggInv'
  <2> SUFFICES ASSUME AggInv, [AggNext]_aggVars PROVE AggInv'
    OBVIOUS
  <2>1. CASE TimeGoesOn \/ CloseSource \/ SourceDrained \/ UNCHANGED aggVars
    <3>1. WindowsInOrder' /\ Covered'
            /\ (\A i \in 1 .. Len(pushes) : \A t \in pushes[i].metrics :
                  pushes[i].since - Grace <= t /\ t <= pushes[i].until + Delay)'
      BY <2>1, KeepsWindows DEF TimeGoesOn, CloseSource, SourceDrained, aggVars
    <3>2. AggTypeOK'
      <4>1. now' \in Int /\ UNCHANGED <<startTime, periodStart, periodEnd, queue,
                                       aggregate, pushes>>
        BY <2>1 DEF AggInv, AggTypeOK, TimeGoesOn, CloseSource, SourceDrained, aggVars
      <4> QED
        BY <4>1 DEF AggInv, AggTypeOK
    <3>5. InItsWindow'
      BY <2>1, <3>1 DEF AggInv, InItsWindow, TimeGoesOn, CloseSource, SourceDrained,
                        aggVars
    <3>3. HasBegun'
      BY <2>1 DEF AggInv, AggTypeOK, HasBegun, TimeGoesOn, CloseSource,
                  SourceDrained, aggVars
    <3>4. FreshIsAggregated'
      BY <2>1 DEF AggInv, FreshIsAggregated, TimeGoesOn, CloseSource,
                  SourceDrained, aggVars
    <3> QED
      BY <3>1, <3>2, <3>3, <3>4, <3>5 DEF AggInv
  <2>2. CASE \E t \in {now - Period, now - 1, now, now + 1} : Create(t)
    <3>1. PICK t \in Int : Create(t)
      BY <2>2, AggFacts DEF AggInv, AggTypeOK
    <3>2. WindowsInOrder' /\ Covered'
            /\ (\A i \in 1 .. Len(pushes) : \A u \in pushes[i].metrics :
                  pushes[i].since - Grace <= u /\ u <= pushes[i].until + Delay)'
      BY <3>1, KeepsWindows DEF Create
    <3>3. queue' \in Seq(Int)
      BY <3>1, AppendProperties DEF Create, AggInv, AggTypeOK
    <3> QED
      BY <3>1, <3>2, <3>3 DEF AggInv, AggTypeOK, InItsWindow, HasBegun,
                              FreshIsAggregated, Create
  <2>3. CASE PushDue
    <3>1. pushing /\ pushing' = pushing
      BY <2>3 DEF PushDue
    <3> QED
      BY <2>3, <3>1, PushStep DEF PushDue
  <2>4. CASE PushFinally
    BY <2>4, PushStep DEF PushFinally
  <2> QED
    BY <2>1, <2>2, <2>3, <2>4, AddStep DEF AggNext
<1> QED
  BY <1>1, AggInitInv, PTL

\* The windows of a running aggregator partition time from its start on, and a
\* push sends what belongs to its window.
THEOREM WindowsPartitionTime == AggSpec => []WindowsCoverTime
<1>1. AggInv => WindowsCoverTime
  BY DEF AggInv, Covered, InItsWindow, WindowsCoverTime
<1> QED
  BY <1>1, AggInductive, PTL DEF AggSpec

\* Add of a running aggregator discards a metric that carries the present time
\* only when a push is overdue.
THEOREM FreshMetricsStay == AggSpec => []FreshIsAggregated
<1>1. AggInv => FreshIsAggregated
  BY DEF AggInv
<1> QED
  BY <1>1, AggInductive, PTL DEF AggSpec

-----------------------------------------------------------------------------
\* While a tick waits, at most the token offered before it has been taken.
LimiterInv ==
    /\ counter \in Nat /\ emitted \in Nat
    /\ counter <= Tokens
    /\ limiter = "send" => counter < Tokens
    /\ tick => emitted <= 1
    /\ tick /\ limiter = "send" => emitted = 0
    /\ ~tick => emitted <= counter + 1

\* The limiter hands out at most one token more than n between two ticks.
THEOREM AtMostOneTokenLate == LimiterSpec => []OneTokenLate
<1> USE LimiterConstants
<1>1. LimiterInit => LimiterInv
  BY DEF LimiterInit, LimiterInv
<1>2. LimiterInv /\ [LimiterNext]_limiterVars => LimiterInv'
  <2> SUFFICES ASSUME LimiterInv, [LimiterNext]_limiterVars PROVE LimiterInv'
    OBVIOUS
  <2> USE DEF LimiterInv
  <2>1. CASE Ticks
    BY <2>1 DEF Ticks
  <2>2. CASE SelectShutdown \/ SendShutdown
    BY <2>2 DEF SelectShutdown, SendShutdown
  <2>3. CASE SelectTick
    BY <2>3 DEF SelectTick
  <2>4. CASE SelectDefault
    BY <2>4 DEF SelectDefault
  <2>5. CASE TakeToken
    BY <2>5 DEF TakeToken
  <2>6. CASE StopLimiter \/ StopCloses \/ UNCHANGED limiterVars
    BY <2>6 DEF StopLimiter, StopCloses, limiterVars
  <2> QED
    BY <2>1, <2>2, <2>3, <2>4, <2>5, <2>6 DEF LimiterNext
<1>3. LimiterInv => OneTokenLate
  <2> SUFFICES ASSUME LimiterInv PROVE emitted <= Tokens + 1
    BY DEF OneTokenLate
  <2>1. emitted <= 1 \/ emitted <= counter + 1
    BY DEF LimiterInv
  <2> QED
    BY <2>1 DEF LimiterInv
<1> QED
  BY <1>1, <1>2, <1>3, PTL DEF LimiterSpec

-----------------------------------------------------------------------------
\* Once the peer ID is known the processor is never throttled again: only a
\* failure starts the back-off, and the peer ID was asked for after it.
PeerInv ==
    /\ clock \in Int /\ curAPIBackOff \in Int
    /\ peerID # NoPeer => initialized /\ ~Throttled /\ peerID \in answered
    /\ \A x \in tags : x.tag # NoPeer => x.tag = peerID
    /\ \A x \in tags : x.known => x.tag # NoPeer

\* No metric passes the lotus_peer_id processor untagged once it knows the peer
\* ID, and its tags are of one peer.
THEOREM PeerIsTagged == PeerSpec => []TagsOnceKnown
<1> USE PeerIdConstants
<1>1. PeerInit => PeerInv
  BY DEF PeerInit, PeerInv
<1>2. PeerInv /\ [PeerNext]_peerVars => PeerInv'
  <2> SUFFICES ASSUME PeerInv, [PeerNext]_peerVars PROVE PeerInv'
    OBVIOUS
  <2> USE DEF PeerInv, Throttled, backOff, LongAgo
  <2>1. CASE TimePasses
    BY <2>1 DEF TimePasses
  <2>2. CASE NodeChanges \/ UNCHANGED peerVars
    BY <2>2 DEF NodeChanges, peerVars
  <2>3. CASE ApplyThrottled \/ ApplyFails
    <3>1. peerID = NoPeer /\ peerID' = peerID /\ clock' = clock
      BY <2>3 DEF ApplyThrottled, ApplyFails, ApplyUntagged
    <3>2. curAPIBackOff' \in Int
      BY <2>3 DEF ApplyThrottled, ApplyFails
    <3>3. tags' = tags \union {[tag |-> NoPeer, known |-> FALSE]}
      <4>1. tags' = tags \union {[tag |-> NoPeer, known |-> peerID # NoPeer]}
        BY <2>3 DEF ApplyThrottled, ApplyFails, ApplyUntagged
      <4>2. (peerID # NoPeer) = FALSE
        BY <3>1
      <4> QED
        BY <4>1, <4>2, Zenon
    <3>4. \A x \in tags' : x \in tags \/ (x.tag = NoPeer /\ x.known = FALSE)
      BY <3>3
    <3> QED
      BY <3>1, <3>2, <3>4
  <2>4. ASSUME NEW excluded \in BOOLEAN, ApplyTags(excluded) PROVE PeerInv'
    <3>1. initialized' = TRUE /\ curAPIBackOff' = backOff /\ clock' = clock /\ ~Throttled
      BY <2>4 DEF ApplyTags
    <3>2. clock' \in Int /\ curAPIBackOff' \in Int /\ ~Throttled'
      BY <3>1
    <3>3. peerID' # NoPeer /\ peerID' \in answered' /\ (peerID # NoPeer => peerID' = peerID)
      BY <2>4 DEF ApplyTags
    <3>4. \A x \in tags' : x \in tags \/ (x.tag = peerID' /\ x.known = TRUE)
      BY <2>4 DEF ApplyTags
    <3>5. \A x \in tags' : x.tag # NoPeer => x.tag = peerID'
      BY <3>3, <3>4
    <3>6. \A x \in tags' : x.known => x.tag # NoPeer
      BY <3>3, <3>4
    <3> QED
      BY <3>1, <3>2, <3>3, <3>5, <3>6
  <2> QED
    BY <2>1, <2>2, <2>3, <2>4 DEF PeerNext
<1>3. PeerInv => TagsOnceKnown
  BY DEF PeerInv, TagsOnceKnown
<1> QED
  BY <1>1, <1>2, <1>3, PTL DEF PeerSpec

-----------------------------------------------------------------------------
\* There is one token: in the channel, with the loop that is about to fill it,
\* or with a goroutine that is about to put it back.
OneToken ==
    /\ reload \in {<<>>, <<TRUE>>, <<FALSE>>}
    /\ main = "fill" => reload = <<>>
    /\ \A i \in Iteration : handler[i] = "refill" => reload = <<>> /\ main # "fill"
    /\ main \notin {"ended", "fatal"} /\ reload = <<>> =>
          main = "fill" \/ \E i \in Iteration : handler[i] = "refill"

\* Of the goroutines only the last has its signal still before it; those of
\* earlier iterations are done with the channel.
OnlyLastWaits ==
    /\ iteration \in 0 .. MaxIterations /\ hups \in Nat
    /\ handler \in [Iteration -> {"none", "wait", "drain", "refill", "cancel", "done"}]
    /\ signals \in [Iteration -> {<<>>, <<"HUP">>, <<"TERM">>}]
    /\ \A i \in Iteration : i > iteration => signals[i] = <<>> /\ handler[i] = "none"
    /\ \A i \in Iteration : i < iteration => handler[i] \in {"cancel", "done"}
    /\ iteration > 0 /\ (reload = <<TRUE>> \/ main = "fill") =>
          handler[iteration] \in {"cancel", "done"}

\* A further iteration is on its way.
Earned ==
    \/ reload = <<TRUE>> \/ main = "fill"
    \/ handler[iteration] \in {"drain", "refill"}
    \/ handler[iteration] = "wait" /\ signals[iteration] = <<"HUP">>

ReloadInv ==
    /\ OneToken /\ OnlyLastWaits
    /\ iteration <= 1 + hups
    /\ iteration > 0 /\ Earned => iteration <= hups

LEMMA ReloadInitInv == ReloadInit => ReloadInv
<1> USE ReloadConstants DEF ReloadInit
<1>1. ReloadInit => OneToken
  BY DEF OneToken
<1>2. ReloadInit => OnlyLastWaits
  BY DEF OnlyLastWaits, Iteration
<1> QED
  BY <1>1, <1>2 DEF ReloadInv

LEMMA OneElement ==
    ASSUME NEW x
    PROVE  Tail(<<x>>) = <<>> /\ Head(<<x>>) = x /\ <<x>> # <<>> /\ Len(<<x>>) = 1
OBVIOUS

\* The loop's own steps.
LEMMA LoopTakes == ASSUME ReloadInv, TakeReload PROVE ReloadInv'
<1>1. /\ main = "take" /\ reload \in {<<TRUE>>, <<FALSE>>}
      /\ UNCHANGED <<iteration, signals, handler, hups>>
  BY Zenon DEF TakeReload, ReloadInv, OneToken
<1>2. reload' = <<>>
  BY <1>1, OneElement, Zenon DEF TakeReload
<1>3. \/ reload = <<TRUE>> /\ main' = "fill"
      \/ reload = <<FALSE>> /\ main' = "ended"
  <2>1. main' = IF Head(reload) THEN "fill" ELSE "ended"
    BY Zenon DEF TakeReload
  <2> QED
    BY <1>1, <2>1, OneElement, Zenon
<1>4. OneToken'
  <2>1. \A i \in Iteration : handler[i] # "refill"
    BY <1>1, OneElement, Zenon DEF ReloadInv, OneToken
  <2>2. main' \in {"fill", "ended"}
    BY Zenon, <1>3
  <2> QED
    BY <1>1, <1>2, <2>1, <2>2 DEF OneToken
<1>5. OnlyLastWaits'
  BY Zenon, <1>1, <1>2, <1>3 DEF ReloadInv, OnlyLastWaits
<1>6. Earned' => Earned
  BY Zenon, <1>1, <1>2, <1>3 DEF Earned
<1> QED
  BY <1>1, <1>4, <1>5, <1>6 DEF ReloadInv

LEMMA LoopBegins == ASSUME ReloadInv, BeginIteration PROVE ReloadInv'
<1>0. MaxIterations \in Nat /\ iteration \in Nat /\ hups \in Nat
  BY ReloadConstants DEF ReloadInv, OnlyLastWaits
<1>1. /\ main = "fill" /\ main' = "load" /\ reload = <<>>
      /\ iteration < MaxIterations /\ iteration' = iteration + 1
      /\ handler' = [handler EXCEPT ![iteration + 1] = "wait"]
      /\ UNCHANGED <<signals, hups>>
  BY DEF BeginIteration, ReloadInv, OneToken
<1>2. reload' = <<FALSE>>
  BY <1>1 DEF BeginIteration
<1>3. /\ iteration + 1 \in Iteration
      /\ \A i \in Iteration : i \in Nat /\ i > 0
  BY <1>0, <1>1 DEF Iteration
<1>4. \A i \in Iteration :
          handler'[i] = IF i = iteration + 1 THEN "wait" ELSE handler[i]
  BY <1>1 DEF ReloadInv, OnlyLastWaits
<1>5. iteration > 0 => iteration \in Iteration /\ handler[iteration] \in {"cancel", "done"}
  BY <1>0, <1>1 DEF ReloadInv, OnlyLastWaits, Iteration
<1>6. OneToken'
  <2>1. \A i \in Iteration : handler'[i] # "refill"
    BY <1>1, <1>4 DEF ReloadInv, OneToken
  <2>2. <<FALSE>> # <<>>
    OBVIOUS
  <2> QED
    BY <1>1, <1>2, <2>1, <2>2 DEF OneToken
<1>7. OnlyLastWaits'
  <2>1. iteration' \in 0 .. MaxIterations /\ hups' \in Nat
    BY <1>0, <1>1
  <2>2. /\ handler' \in [Iteration -> {"none", "wait", "drain", "refill", "cancel", "done"}]
        /\ signals' \in [Iteration -> {<<>>, <<"HUP">>, <<"TERM">>}]
    BY Zenon, <1>1 DEF ReloadInv, OnlyLastWaits
  <2>3. \A i \in Iteration :
            i > iteration' => signals'[i] = <<>> /\ handler'[i] = "none"
    BY <1>0, <1>1, <1>3, <1>4 DEF ReloadInv, OnlyLastWaits
  <2>4. \A i \in Iteration : i < iteration' => handler'[i] \in {"cancel", "done"}
    <3>1. \A i \in Iteration : i < iteration' => i # iteration + 1 /\ (i < iteration \/ i = iteration)
      BY <1>0, <1>1, <1>3
    <3> QED
      BY <1>3, <1>4, <1>5, <3>1 DEF ReloadInv, OnlyLastWaits
  <2>5. ~(reload' = <<TRUE>> \/ main' = "fill")
    BY <1>1, <1>2
  <2> QED
    BY Zenon, <2>1, <2>2, <2>3, <2>4, <2>5 DEF OnlyLastWaits
<1>8. iteration' <= 1 + hups'
  BY <1>0, <1>1 DEF ReloadInv, Earned
<1>9. ~Earned'
  <2>1. handler'[iteration'] = "wait"
    BY <1>1, <1>3, <1>4
  <2>2. signals'[iteration'] = <<>>
    BY <1>0, <1>1, <1>3 DEF ReloadInv, OnlyLastWaits
  <2>3. ~(reload' = <<TRUE>> \/ main' = "fill")
    BY <1>1, <1>2
  <2>4. <<"HUP">> # <<>>
    OBVIOUS
  <2> QED
    BY Zenon, <2>1, <2>2, <2>3, <2>4 DEF Earned
<1> QED
  BY <1>6, <1>7, <1>8, <1>9 DEF ReloadInv

\* Steps that touch neither the channel nor a goroutine.
LEMMA LoopRuns ==
    ASSUME ReloadInv, RunAgent \/ LoadFails \/ AgentDone \/ AgentFails \/ CloseStop
                        \/ UNCHANGED reloadVars
    PROVE  ReloadInv'
<1>1. UNCHANGED <<iteration, reload, signals, handler, hups>>
  BY DEF RunAgent, LoadFails, AgentDone, AgentFails, RunReturnsTo, CloseStop, reloadVars
<1>2. /\ main' = main \/ (main # "fill" /\ main' # "fill")
      /\ main' \notin {"ended", "fatal"} => main \notin {"ended", "fatal"}
  BY DEF RunAgent, LoadFails, AgentDone, AgentFails, RunReturnsTo, CloseStop, reloadVars
<1>3. OneToken'
  BY Zenon, <1>1, <1>2 DEF ReloadInv, OneToken
<1>4. OnlyLastWaits'
  BY Zenon, <1>1, <1>2 DEF ReloadInv, OnlyLastWaits
<1>5. Earned' => Earned
  BY Zenon, <1>1, <1>2 DEF Earned
<1> QED
  BY <1>1, <1>3, <1>4, <1>5 DEF ReloadInv

\* A signal is put into the channels that have room.
LEMMA SignalArrives ==
    ASSUME ReloadInv, NEW s \in {"HUP", "TERM"}, Raise(s)
    PROVE  ReloadInv'
<1>0. iteration \in Nat /\ hups \in Nat
  BY ReloadConstants DEF ReloadInv, OnlyLastWaits
<1>1. /\ UNCHANGED <<main, iteration, reload, handler>>
      /\ hups' = hups + (IF s = "HUP" THEN 1 ELSE 0)
      /\ signals' = [i \in Iteration |->
                        IF i <= iteration /\ signals[i] = <<>> THEN <<s>> ELSE signals[i]]
  BY DEF Raise
<1>2. hups' \in Nat /\ hups <= hups' /\ (s = "HUP" => hups' = hups + 1)
  BY <1>0, <1>1
<1>3. \A i \in Iteration : i \in Nat
  BY ReloadConstants DEF Iteration
<1>4. OneToken'
  BY Zenon, <1>1 DEF ReloadInv, OneToken
<1>5. OnlyLastWaits'
  <2>1. signals' \in [Iteration -> {<<>>, <<"HUP">>, <<"TERM">>}]
    BY <1>1 DEF ReloadInv, OnlyLastWaits
  <2>2. \A i \in Iteration : i > iteration => signals'[i] = <<>>
    BY <1>0, <1>1, <1>3 DEF ReloadInv, OnlyLastWaits
  <2> QED
    BY Zenon, <1>1, <1>2, <2>1, <2>2 DEF ReloadInv, OnlyLastWaits
<1>6. iteration' <= 1 + hups'
  BY <1>0, <1>1, <1>2 DEF ReloadInv
<1>7. iteration' > 0 /\ Earned' => iteration' <= hups'
  <2> SUFFICES ASSUME iteration > 0, Earned' PROVE iteration <= hups'
    BY <1>1
  <2>1. CASE Earned
    BY <2>1, <1>0, <1>2 DEF ReloadInv
  <2>2. CASE ~Earned
    <3>1. iteration \in Iteration
      BY <1>0, ReloadConstants DEF ReloadInv, OnlyLastWaits, Iteration
    <3>2. signals'[iteration] = <<"HUP">> /\ signals[iteration] # <<"HUP">>
      BY Zenon, <2>2, <1>1 DEF Earned
    <3>3. s = "HUP"
      <4>1. signals'[iteration] = <<s>>
        BY <1>1, <3>1, <3>2
      <4> QED
        BY <3>2, <4>1
    <3> QED
      BY <3>3, <1>0, <1>2 DEF ReloadInv
  <2> QED
    BY <2>1, <2>2
<1> QED
  BY <1>4, <1>5, <1>6, <1>7 DEF ReloadInv

\* The goroutine of an iteration takes its one signal, and puts true in the
\* place of what it has taken out of the channel.
LEMMA HandlerStep ==
    ASSUME ReloadInv, NEW i \in Iteration, main \notin {"ended", "fatal"}, Handler(i)
    PROVE  ReloadInv'
<1>0. iteration \in Nat /\ hups \in Nat /\ i \in Nat
  BY ReloadConstants DEF ReloadInv, OnlyLastWaits, Iteration
<1>1. UNCHANGED <<main, iteration, hups>>
  BY Zenon DEF Handler, Handle, HandleStop, Drain, Refill, Cancel
<1>2. PICK pc \in {"drain", "refill", "cancel", "done"} :
          handler' = [handler EXCEPT ![i] = pc]
  BY Zenon DEF Handler, Handle, HandleStop, Drain, Refill, Cancel
<1>3. /\ handler' \in [Iteration -> {"none", "wait", "drain", "refill", "cancel", "done"}]
      /\ \A j \in Iteration : handler'[j] = IF j = i THEN pc ELSE handler[j]
  BY <1>2 DEF ReloadInv, OnlyLastWaits
<1>4. handler[i] \in {"wait", "drain", "refill", "cancel"}
  BY Zenon DEF Handler, Handle, HandleStop, Drain, Refill, Cancel
<1>5. i <= iteration /\ (i # iteration => handler[i] = "cancel")
  BY <1>0, <1>4 DEF ReloadInv, OnlyLastWaits
<1>6. CASE Handle(i) \/ HandleStop(i)
  <2>1. handler[i] = "wait" /\ reload' = reload /\ i = iteration
    BY <1>5, <1>6 DEF Handle, HandleStop
  <2>2. pc \in {"drain", "cancel"} /\ (pc = "drain" => signals[i] = <<"HUP">>)
    <3>1. handler'[i] = pc
      BY <1>3
    <3>2. CASE HandleStop(i)
      BY <3>1, <3>2 DEF HandleStop, ReloadInv, OnlyLastWaits
    <3>3. CASE Handle(i)
      <4>1. signals[i] \in {<<"HUP">>, <<"TERM">>}
        BY <3>3 DEF Handle, ReloadInv, OnlyLastWaits
      <4>2. handler'[i] = IF Head(signals[i]) = "HUP" THEN "drain" ELSE "cancel"
        BY <3>3 DEF Handle, ReloadInv, OnlyLastWaits
      <4> QED
        BY <3>1, <4>1, <4>2
    <3> QED
      BY <1>6, <3>2, <3>3
  <2>3. /\ signals' \in [Iteration -> {<<>>, <<"HUP">>, <<"TERM">>}]
        /\ \A j \in Iteration : j # i => signals'[j] = signals[j]
    <3>1. CASE HandleStop(i)
      BY <3>1 DEF HandleStop, ReloadInv, OnlyLastWaits
    <3>2. CASE Handle(i)
      <4>0. signals[i] \in {<<"HUP">>, <<"TERM">>}
        BY <3>2 DEF Handle, ReloadInv, OnlyLastWaits
      <4>1. Tail(signals[i]) = <<>>
        BY <4>0, OneElement, Zenon
      <4>2. signals' = [signals EXCEPT ![i] = <<>>]
        BY Zenon, <3>2, <4>1 DEF Handle
      <4> QED
        BY <4>2 DEF ReloadInv, OnlyLastWaits
    <3> QED
      BY <1>6, <3>1, <3>2
  <2>4. OneToken'
    <3>1. \A j \in Iteration : handler'[j] = "refill" <=> handler[j] = "refill"
      BY <1>3, <2>1, <2>2
    <3> QED
      BY Zenon, <1>1, <2>1, <3>1 DEF ReloadInv, OneToken
  <2>5. OnlyLastWaits'
    BY Zenon, <1>0, <1>1, <1>3, <2>1, <2>3 DEF ReloadInv, OnlyLastWaits
  <2>6. Earned' => Earned
    BY Zenon, <1>1, <1>3, <2>1, <2>2 DEF Earned
  <2> QED
    BY <1>1, <2>4, <2>5, <2>6 DEF ReloadInv
<1>7. CASE Drain(i)
  <2>1. /\ handler[i] = "drain" /\ i = iteration /\ handler'[i] = "refill"
        /\ reload # <<>> /\ signals' = signals /\ pc = "refill"
    BY <1>3, <1>5, <1>7 DEF Drain, ReloadInv, OnlyLastWaits
  <2>2. reload' = <<>>
    BY <1>7, <2>1, OneElement, Zenon DEF Drain, ReloadInv, OneToken
  <2>3. main # "fill"
    BY <2>1 DEF ReloadInv, OneToken
  <2>4. OneToken'
    BY <1>1, <2>1, <2>2, <2>3 DEF OneToken
  <2>5. OnlyLastWaits'
    <3>1. ~(reload' = <<TRUE>> \/ main' = "fill")
      BY <1>1, <2>2, <2>3, OneElement, Zenon
    <3> QED
      BY Zenon, <1>0, <1>1, <1>3, <2>1, <3>1 DEF ReloadInv, OnlyLastWaits
  <2>6. Earned
    BY Zenon, <2>1 DEF Earned
  <2> QED
    BY <1>1, <2>4, <2>5, <2>6 DEF ReloadInv
<1>8. CASE Refill(i)
  <2>1. /\ handler[i] = "refill" /\ i = iteration /\ handler'[i] = "cancel"
        /\ signals' = signals /\ pc = "cancel"
    BY <1>3, <1>5, <1>8 DEF Refill, ReloadInv, OnlyLastWaits
  <2>2. reload = <<>> /\ main # "fill"
    BY <2>1 DEF ReloadInv, OneToken
  <2>3. reload' = <<TRUE>>
    BY <1>8, <2>2 DEF Refill
  <2>4. \A j \in Iteration : handler'[j] # "refill"
    <3>1. \A j \in Iteration : handler[j] = "refill" => j = i
      BY <1>0, <2>1 DEF ReloadInv, OnlyLastWaits, Iteration
    <3> QED
      BY <1>3, <2>1, <3>1
  <2>5. OneToken'
    BY <1>1, <2>2, <2>3, <2>4, OneElement, Zenon DEF OneToken
  <2>6. OnlyLastWaits'
    BY <1>0, <1>1, <1>3, <2>1 DEF ReloadInv, OnlyLastWaits
  <2>7. Earned
    BY Zenon, <2>1 DEF Earned
  <2> QED
    BY <1>1, <2>5, <2>6, <2>7 DEF ReloadInv
<1>9. CASE Cancel(i)
  <2>1. /\ handler[i] = "cancel" /\ handler'[i] = "done" /\ pc = "done"
        /\ signals' = signals /\ reload' = reload
    BY <1>3, <1>9 DEF Cancel, ReloadInv, OnlyLastWaits
  <2>2. \A j \in Iteration : handler'[j] = "refill" <=> handler[j] = "refill"
    BY <1>3, <2>1
  <2>3. OneToken'
    BY Zenon, <1>1, <2>1, <2>2 DEF ReloadInv, OneToken
  <2>4. OnlyLastWaits'
    <3>1. iteration > 0 => iteration \in Iteration
      BY <1>0 DEF ReloadInv, OnlyLastWaits, Iteration
    <3> QED
      BY Zenon, <1>0, <1>1, <1>3, <2>1, <3>1 DEF ReloadInv, OnlyLastWaits
  <2>5. iteration > 0 /\ Earned' => Earned
    <3>1. iteration > 0 => iteration \in Iteration
      BY <1>0 DEF ReloadInv, OnlyLastWaits, Iteration
    <3> QED
      BY Zenon, <1>1, <1>3, <2>1, <3>1 DEF Earned
  <2> QED
    BY <1>1, <2>3, <2>4, <2>5 DEF ReloadInv
<1> QED
  BY <1>6, <1>7, <1>8, <1>9 DEF Handler

\* reloadLoop never waits for a value of its channel that nobody will send, and
\* runs the agent again at most once for each SIGHUP.
THEOREM LoopGetsItsToken == ReloadSpec => []LoopNotStuck
<1>1. ReloadInv /\ [ReloadNext]_reloadVars => ReloadInv'
  BY LoopTakes, LoopBegins, LoopRuns, SignalArrives, HandlerStep DEF ReloadNext
<1>2. ReloadInv => LoopNotStuck
  BY DEF ReloadInv, OneToken, LoopNotStuck
<1> QED
  BY <1>1, <1>2, ReloadInitInv, PTL DEF ReloadSpec
=============================================================================
