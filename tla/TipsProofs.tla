----------------------------- MODULE TipsProofs -----------------------------
(***************************************************************************)
(* GetTips implements TipFeed, and sends parents first, for every lag,     *)
(* every chain and every sequence of applies and reverts.                  *)
(*                                                                         *)
(* The argument: the buffer is always the top of the node's chain, so its  *)
(* front is the tipset just above the cursor of TipFeed, and everything    *)
(* below the cursor that is new has been sent.  The walk back counts       *)
(* tipsets; because the heights of a chain increase, the ones it counts    *)
(* are its last ones.                                                      *)
(***************************************************************************)
EXTENDS Tips, FiniteSetTheorems, SequenceTheorems, TLAPS

Chain == Seq(1 .. MaxHeight)

Increasing(c) == \A j, k \in 1 .. Len(c) : j < k => c[j] < c[k]

\* Nothing is buffered before the node is followed, nor sent.
NothingYet ==
    /\ tipsPhase # "follow" => hb = <<>> /\ sent = <<>>
    /\ tipsPhase = "head" => lastHeight = 0

\* Every new tipset of the chain that has left the buffer has been sent.
NoGaps ==
    tipsPhase = "follow" =>
        \A k \in 1 .. (Len(chain) - Len(hb)) :
            chain[k] > lastHeight =>
                \E i \in 1 .. Len(sent) : sent[i] = SubSeq(chain, 1, k)

\* The inductive invariant.
TipsInv ==
    /\ TipsTypeOK /\ Increasing(chain) /\ NothingYet
    /\ BufferIsTop /\ NoGaps /\ ParentsFirst

-----------------------------------------------------------------------------
\* A tipset of a chain: what SubSeq(c, 1, k) is.
LEMMA Prefix ==
    ASSUME NEW c \in Chain, NEW k \in 0 .. Len(c)
    PROVE  /\ SubSeq(c, 1, k) \in Chain
           /\ Len(SubSeq(c, 1, k)) = k
           /\ \A i \in 1 .. k : SubSeq(c, 1, k)[i] = c[i]
<1>1. Len(c) \in Nat /\ \A i \in 1 .. Len(c) : c[i] \in 1 .. MaxHeight
  BY Zenon, ElementOfSeq, LenProperties DEF Chain
<1>2. k \in Nat /\ \A i \in 1 .. k : c[i] \in 1 .. MaxHeight
  BY <1>1
<1> QED
  BY <1>2, SubSeqProperties DEF Chain

\* A tipset of a tipset is one of the chain.
LEMMA PrefixOfPrefix ==
    ASSUME NEW c \in Chain, NEW k \in 0 .. Len(c), NEW j \in 0 .. k
    PROVE  SubSeq(SubSeq(c, 1, k), 1, j) = SubSeq(c, 1, j)
<1> DEFINE s == SubSeq(SubSeq(c, 1, k), 1, j)
           t == SubSeq(c, 1, j)
<1>0. Len(c) \in Nat
  BY LenProperties DEF Chain
<1>1. /\ s \in Chain /\ Len(s) = j
      /\ \A i \in 1 .. j : s[i] = c[i]
  <2> DEFINE p == SubSeq(c, 1, k)
  <2>1. p \in Chain /\ Len(p) = k /\ \A i \in 1 .. k : p[i] = c[i]
    BY <1>0, Prefix
  <2> HIDE DEF p
  <2>2. /\ SubSeq(p, 1, j) \in Chain /\ Len(SubSeq(p, 1, j)) = j
        /\ \A i \in 1 .. j : SubSeq(p, 1, j)[i] = p[i]
    BY <2>1, Prefix
  <2>3. \A i \in 1 .. j : p[i] = c[i]
    BY <2>1, <1>0
  <2> QED
    BY <2>2, <2>3 DEF p
<1>2. /\ t \in Chain /\ Len(t) = j
      /\ \A i \in 1 .. j : t[i] = c[i]
  BY <1>0, Prefix
<1> HIDE DEF s, t
<1>3. s = t
  BY <1>1, <1>2, SeqEqual DEF Chain
<1> QED
  BY <1>3 DEF s, t

\* A new tipset leaves the tipsets below it as they are.
LEMMA PrefixOfAppend ==
    ASSUME NEW c \in Chain, NEW h \in 1 .. MaxHeight, NEW k \in 0 .. Len(c)
    PROVE  /\ Append(c, h) \in Chain
           /\ Len(Append(c, h)) = Len(c) + 1
           /\ SubSeq(Append(c, h), 1, k) = SubSeq(c, 1, k)
           /\ SubSeq(Append(c, h), 1, Len(c) + 1) = Append(c, h)
<1> DEFINE a == Append(c, h)
           s == SubSeq(a, 1, k)
           t == SubSeq(c, 1, k)
<1>0. Len(c) \in Nat
  BY LenProperties DEF Chain
<1>1. /\ a \in Chain /\ Len(a) = Len(c) + 1
      /\ \A i \in 1 .. Len(c) : a[i] = c[i]
  BY AppendProperties DEF Chain
<1>2. SubSeq(a, 1, Len(c) + 1) = a
  BY <1>1, SubSeqFull DEF Chain
<1> HIDE DEF a
<1>3. /\ s \in Chain /\ Len(s) = k
      /\ \A i \in 1 .. k : s[i] = c[i]
  BY <1>0, <1>1, Prefix
<1>4. /\ t \in Chain /\ Len(t) = k
      /\ \A i \in 1 .. k : t[i] = c[i]
  BY <1>0, Prefix
<1> HIDE DEF s, t
<1>5. s = t
  BY <1>3, <1>4, SeqEqual DEF Chain
<1> QED
  BY <1>1, <1>2, <1>5 DEF a, s, t

\* The chain stays increasing, whichever way it goes.
LEMMA IncreasingAppend ==
    ASSUME NEW c \in Chain, Increasing(c), NEW h \in 1 .. MaxHeight, h > Height(c)
    PROVE  Increasing(Append(c, h))
<1>1. /\ Len(c) \in Nat
      /\ \A i \in 1 .. Len(c) : c[i] \in 1 .. MaxHeight
  BY Zenon, LenProperties, ElementOfSeq DEF Chain
<1>2. /\ Len(Append(c, h)) = Len(c) + 1
      /\ \A i \in 1 .. Len(c) : Append(c, h)[i] = c[i]
      /\ Append(c, h)[Len(c) + 1] = h
  BY AppendProperties DEF Chain
<1>3. \A i \in 1 .. Len(c) : c[i] < h
  <2> SUFFICES ASSUME NEW i \in 1 .. Len(c) PROVE c[i] < h
    OBVIOUS
  <2>1. c # <<>>
    BY <1>1, EmptySeq
  <2>2. c[Len(c)] < h
    BY <2>1, <1>1, TipsConstants DEF Height
  <2>3. i = Len(c) \/ c[i] < c[Len(c)]
    BY <1>1 DEF Increasing
  <2> QED
    BY <2>2, <2>3, <1>1, TipsConstants
<1> SUFFICES ASSUME NEW j \in 1 .. (Len(c) + 1), NEW k \in 1 .. (Len(c) + 1), j < k
             PROVE  Append(c, h)[j] < Append(c, h)[k]
  BY <1>2 DEF Increasing
<1>4. j \in 1 .. Len(c) /\ Append(c, h)[j] = c[j]
  BY <1>1, <1>2
<1>5. CASE k = Len(c) + 1
  BY <1>2, <1>3, <1>4, <1>5
<1>6. CASE k \in 1 .. Len(c)
  BY <1>2, <1>4, <1>6 DEF Increasing
<1>7. Len(c) \in Nat
  BY <1>1
<1>8. k = Len(c) + 1 \/ k \in 1 .. Len(c)
  BY <1>7
<1> QED
  BY <1>5, <1>6, <1>8

LEMMA IncreasingParent ==
    ASSUME NEW c \in Chain, Increasing(c), c # <<>>
    PROVE  Parent(c) \in Chain /\ Len(Parent(c)) = Len(c) - 1 /\ Increasing(Parent(c))
<1>1. Len(c) \in Nat \ {0}
  BY EmptySeq DEF Chain
<1>2. Len(c) - 1 \in 0 .. Len(c)
  BY <1>1
<1>3. /\ Parent(c) \in Chain /\ Len(Parent(c)) = Len(c) - 1
      /\ \A i \in 1 .. (Len(c) - 1) : Parent(c)[i] = c[i]
  BY Zenon, <1>2, Prefix DEF Parent
<1>4. Increasing(Parent(c))
  BY <1>1, <1>3 DEF Increasing
<1> QED
  BY <1>3, <1>4

-----------------------------------------------------------------------------
\* loadTipsets' walk ends at the tipsets that are not new: it counts the new
\* ones, and these are the last walkBack ones of the chain.
LEMMA WalkIsTop ==
    ASSUME chain \in Chain, Increasing(chain), lastHeight \in Nat
    PROVE  /\ walkBack \in 0 .. Len(chain)
           /\ \A k \in 1 .. Len(chain) :
                 chain[k] > lastHeight <=> k > Len(chain) - walkBack
<1> DEFINE L == Len(chain)
           S == {k \in 1 .. L : chain[k] > lastHeight}
           n == Cardinality(S)
           T == (L - n + 1) .. L
<1>1. /\ L \in Nat
      /\ \A i \in 1 .. L : chain[i] \in 1 .. MaxHeight
  BY Zenon, LenProperties, ElementOfSeq DEF Chain
<1>2. IsFiniteSet(1 .. L) /\ Cardinality(1 .. L) = L
  BY <1>1, FS_Interval
<1>3. IsFiniteSet(S) /\ n \in Nat /\ n <= L
  BY <1>1, <1>2, FS_Subset, FS_CardinalityType
<1>4. ASSUME NEW k \in S PROVE k \in T
  <2>1. \A j \in k .. L : j \in S
    BY <1>1, <1>4, TipsConstants DEF Increasing
  <2>2. k .. L \in SUBSET S
    BY <2>1
  <2>3. Cardinality(k .. L) = L - k + 1
    BY <1>1, FS_Interval
  <2>4. Cardinality(k .. L) <= n
    BY <2>2, <1>3, FS_Subset
  <2> HIDE DEF n
  <2> QED
    BY <2>3, <2>4, <1>1, <1>3
<1>5. IsFiniteSet(T) /\ Cardinality(T) = n
  <2> HIDE DEF n
  <2> QED
    BY <1>1, <1>3, FS_Interval
<1>6. S \in SUBSET T
  BY <1>4
<1>7. S = T
  BY Zenon, <1>5, <1>6, FS_Subset
<1>8. n = walkBack
  BY DEF walkBack
<1>9. \A k \in 1 .. L : chain[k] > lastHeight <=> k \in T
  BY <1>7
<1> HIDE DEF n, S
<1> QED
  BY <1>1, <1>3, <1>8, <1>9

\* The tipset below a tipset of a chain, and its height.
LEMMA ParentOfPrefix ==
    ASSUME NEW c \in Chain, NEW k \in 1 .. Len(c)
    PROVE  /\ Parent(SubSeq(c, 1, k)) = SubSeq(c, 1, k - 1)
           /\ Height(SubSeq(c, 1, k - 1)) = IF k = 1 THEN 0 ELSE c[k - 1]
<1>0. Len(c) \in Nat /\ k \in Nat /\ k - 1 \in 0 .. k /\ k \in 0 .. Len(c)
  BY LenProperties DEF Chain
<1>1. Len(SubSeq(c, 1, k)) = k
  BY <1>0, Prefix
<1>2. Parent(SubSeq(c, 1, k)) = SubSeq(c, 1, k - 1)
  BY <1>0, <1>1, PrefixOfPrefix DEF Parent
<1> DEFINE p == SubSeq(c, 1, k - 1)
<1>3. /\ p \in Chain /\ Len(p) = k - 1
      /\ \A i \in 1 .. (k - 1) : p[i] = c[i]
  BY <1>0, Prefix
<1> HIDE DEF p
<1>4. p = <<>> <=> k = 1
  BY <1>0, <1>3, EmptySeq DEF Chain
<1>5. Height(p) = IF k = 1 THEN 0 ELSE c[k - 1]
  BY <1>0, <1>3, <1>4 DEF Height
<1> QED
  BY <1>2, <1>5 DEF p

\* What loadTipsets returns.
LEMMA Loaded ==
    ASSUME chain \in Chain, Increasing(chain), lastHeight \in Nat
    PROVE  /\ loadTipsets \in Seq(Chain) /\ Len(loadTipsets) = walkBack
           /\ \A i \in 1 .. walkBack :
                 loadTipsets[i] = SubSeq(chain, 1, Len(chain) - walkBack + i)
<1>1. Len(chain) \in Nat /\ walkBack \in 0 .. Len(chain)
  BY WalkIsTop, LenProperties DEF Chain
<1>2. \A i \in 1 .. walkBack : SubSeq(chain, 1, Len(chain) - walkBack + i) \in Chain
  BY <1>1, Prefix
<1> QED
  BY <1>1, <1>2 DEF loadTipsets

-----------------------------------------------------------------------------
\* Push: the buffer is the top of the longer chain; a full one has given up its
\* front, the tipset above the cursor.
LEMMA Pushed ==
    ASSUME TipsInv, NEW h \in 1 .. MaxHeight, Apply(h)
    PROVE  /\ chain' \in Chain /\ Len(chain') = Len(chain) + 1
           /\ BufferIsTop'
           /\ hb' \in Seq(Chain) /\ Len(hb') <= HeadLag
           /\ Len(hb) = HeadLag =>
                 /\ Len(hb') = Len(hb)
                 /\ sent' = Append(sent, SubSeq(chain, 1, Len(chain) - Len(hb) + 1))
           /\ Len(hb) # HeadLag => Len(hb') = Len(hb) + 1 /\ sent' = sent
<1>0. /\ chain \in Chain /\ Len(chain) \in Nat
      /\ hb \in Seq(Chain) /\ Len(hb) \in Nat /\ Len(hb) <= HeadLag
      /\ Len(hb) <= Len(chain)
      /\ \A i \in 1 .. Len(hb) : hb[i] = SubSeq(chain, 1, Len(chain) - Len(hb) + i)
      /\ HeadLag \in Nat \ {0}
  BY LenProperties, TipsConstants DEF TipsInv, TipsTypeOK, Chain, BufferIsTop
<1>1. /\ chain' = Append(chain, h) /\ chain' \in Chain /\ Len(chain') = Len(chain) + 1
      /\ \A k \in 0 .. Len(chain) : SubSeq(chain', 1, k) = SubSeq(chain, 1, k)
      /\ SubSeq(chain', 1, Len(chain')) = chain'
  BY <1>0, PrefixOfAppend DEF Apply
<1>2. Push(chain')
  BY DEF Apply
<1>3. CASE Len(hb) = HeadLag
  <2>1. hb # <<>>
    BY <1>0, <1>3, EmptySeq
  <2>2. /\ Tail(hb) \in Seq(Chain) /\ Len(Tail(hb)) = Len(hb) - 1
        /\ \A i \in 1 .. (Len(hb) - 1) : Tail(hb)[i] = hb[i + 1]
        /\ Head(hb) = hb[1]
    BY <2>1, <1>0, HeadTailProperties
  <2>3. hb' = Append(Tail(hb), chain') /\ sent' = Append(sent, hb[1])
    BY <1>2, <1>3, <2>2 DEF Push
  <2>4. /\ hb' \in Seq(Chain) /\ Len(hb') = Len(hb)
        /\ \A i \in 1 .. (Len(hb) - 1) : hb'[i] = hb[i + 1]
        /\ hb'[Len(hb)] = chain'
    BY <1>0, <1>1, <2>2, <2>3, AppendProperties
  <2>5. ASSUME NEW i \in 1 .. Len(hb')
        PROVE  hb'[i] = SubSeq(chain', 1, Len(chain') - Len(hb') + i)
    <3>1. CASE i = Len(hb)
      BY <3>1, <1>0, <1>1, <2>4
    <3>2. CASE i \in 1 .. (Len(hb) - 1)
      <4>1. hb'[i] = SubSeq(chain, 1, Len(chain) - Len(hb) + i + 1)
        BY <3>2, <1>0, <2>4
      <4>2. Len(chain) - Len(hb) + i + 1 \in 0 .. Len(chain)
        BY <3>2, <1>0
      <4>3. Len(chain') - Len(hb') + i = Len(chain) - Len(hb) + i + 1
        BY <3>2, <1>0, <1>1, <2>4
      <4> QED
        BY Zenon, <4>1, <4>2, <4>3, <1>1
    <3> QED
      BY <3>1, <3>2, <1>0, <2>4
  <2>6. BufferIsTop'
    <3>1. Len(hb') <= Len(chain')
      BY <2>4, <1>0, <1>1
    <3> QED
      BY <3>1, <2>5 DEF BufferIsTop
  <2>7. hb[1] = SubSeq(chain, 1, Len(chain) - Len(hb) + 1)
    BY <1>0, <1>3
  <2> QED
    BY <1>0, <1>1, <1>3, <2>3, <2>4, <2>6, <2>7
<1>4. CASE Len(hb) # HeadLag
  <2>1. hb' = Append(hb, chain') /\ sent' = sent
    BY <1>2, <1>4 DEF Push
  <2>2. /\ hb' \in Seq(Chain) /\ Len(hb') = Len(hb) + 1
        /\ \A i \in 1 .. Len(hb) : hb'[i] = hb[i]
        /\ hb'[Len(hb) + 1] = chain'
    BY <1>0, <1>1, <2>1, AppendProperties
  <2>3. ASSUME NEW i \in 1 .. Len(hb')
        PROVE  hb'[i] = SubSeq(chain', 1, Len(chain') - Len(hb') + i)
    <3>1. CASE i = Len(hb) + 1
      BY <3>1, <1>0, <1>1, <2>2
    <3>2. CASE i \in 1 .. Len(hb)
      <4>1. Len(chain) - Len(hb) + i \in 0 .. Len(chain)
        BY <3>2, <1>0
      <4>2. Len(chain') - Len(hb') + i = Len(chain) - Len(hb) + i
        BY <3>2, <1>0, <1>1, <2>2
      <4> QED
        BY Zenon, <3>2, <4>1, <4>2, <1>0, <1>1, <2>2
    <3> QED
      BY <3>1, <3>2, <1>0, <2>2
  <2>4. BufferIsTop'
    <3>1. Len(hb') <= Len(chain')
      BY <2>2, <1>0, <1>1
    <3> QED
      BY <3>1, <2>3 DEF BufferIsTop
  <2> QED
    BY <1>0, <1>1, <1>4, <2>1, <2>2, <2>4
<1> QED
  BY <1>3, <1>4

\* Pop: the buffer is the top of the shorter chain.
LEMMA Popped ==
    ASSUME TipsInv, Revert
    PROVE  /\ chain' \in Chain /\ Len(chain) \in Nat \ {0} /\ Len(chain') = Len(chain) - 1
           /\ \A k \in 0 .. (Len(chain) - 1) : SubSeq(chain', 1, k) = SubSeq(chain, 1, k)
           /\ \A k \in 1 .. (Len(chain) - 1) : chain'[k] = chain[k]
           /\ BufferIsTop'
           /\ hb' \in Seq(Chain) /\ Len(hb') <= HeadLag
           /\ Len(hb) = 0 => Len(hb') = 0
           /\ Len(hb) # 0 => Len(hb') = Len(hb) - 1
<1>0. /\ chain \in Chain /\ Len(chain) \in Nat
      /\ hb \in Seq(Chain) /\ Len(hb) \in Nat /\ Len(hb) <= HeadLag
      /\ Len(hb) <= Len(chain)
      /\ \A i \in 1 .. Len(hb) : hb[i] = SubSeq(chain, 1, Len(chain) - Len(hb) + i)
      /\ HeadLag \in Nat \ {0}
  BY LenProperties, TipsConstants DEF TipsInv, TipsTypeOK, Chain, BufferIsTop
<1>1. Len(chain) \in Nat \ {0} /\ Len(chain) - 1 \in 0 .. Len(chain)
  BY <1>0, EmptySeq DEF Revert, Chain
<1>2. chain' = SubSeq(chain, 1, Len(chain) - 1)
  BY DEF Revert, Parent
<1>3. /\ chain' \in Chain /\ Len(chain') = Len(chain) - 1
      /\ \A k \in 1 .. (Len(chain) - 1) : chain'[k] = chain[k]
  BY Zenon, <1>0, <1>1, <1>2, Prefix
<1>4. \A k \in 0 .. (Len(chain) - 1) : SubSeq(chain', 1, k) = SubSeq(chain, 1, k)
  BY <1>0, <1>1, <1>2, PrefixOfPrefix
<1>5. CASE Len(hb) = 0
  <2>1. hb = <<>>
    BY <1>5, <1>0, EmptySeq
  <2>2. hb' = hb
    BY <2>1 DEF Revert, Pop
  <2>3. BufferIsTop'
    BY <2>2, <1>5, <1>1, <1>3 DEF BufferIsTop
  <2> QED
    BY <2>2, <2>3, <1>0, <1>1, <1>3, <1>4, <1>5
<1>6. CASE Len(hb) # 0
  <2>1. hb # <<>>
    BY <1>6, EmptySeq
  <2>2. hb' = SubSeq(hb, 1, Len(hb) - 1)
    BY <2>1 DEF Revert, Pop
  <2>3. \A i \in 1 .. (Len(hb) - 1) : hb[i] \in Chain
    BY <1>0, ElementOfSeq
  <2>4. /\ hb' \in Seq(Chain) /\ Len(hb') = Len(hb) - 1
        /\ \A i \in 1 .. (Len(hb) - 1) : hb'[i] = hb[i]
    <3> DEFINE n == Len(hb) - 1
    <3>1. n \in Nat /\ \A i \in 1 .. n : hb[i] \in Chain
      BY <1>0, <1>6, <2>3
    <3> HIDE DEF n
    <3>2. /\ SubSeq(hb, 1, n) \in Seq(Chain)
          /\ Len(SubSeq(hb, 1, n)) = n
          /\ \A i \in 1 .. n : SubSeq(hb, 1, n)[i] = hb[i]
      BY <3>1, SubSeqProperties
    <3> QED
      BY <2>2, <3>2 DEF n
  <2>5. ASSUME NEW i \in 1 .. Len(hb')
        PROVE  hb'[i] = SubSeq(chain', 1, Len(chain') - Len(hb') + i)
    <3>1. Len(chain) - Len(hb) + i \in 0 .. (Len(chain) - 1)
      BY <1>0, <2>4
    <3>2. Len(chain') - Len(hb') + i = Len(chain) - Len(hb) + i
      BY <1>0, <1>3, <2>4
    <3>3. hb'[i] = SubSeq(chain, 1, Len(chain) - Len(hb) + i)
      BY <1>0, <2>4
    <3> QED
      BY Zenon, <3>1, <3>2, <3>3, <1>4
  <2>6. BufferIsTop'
    <3>1. Len(hb') <= Len(chain')
      BY <2>4, <1>0, <1>3
    <3> QED
      BY <3>1, <2>5 DEF BufferIsTop
  <2> QED
    BY <2>4, <2>6, <1>0, <1>1, <1>3, <1>4, <1>6
<1> QED
  BY <1>5, <1>6

-----------------------------------------------------------------------------
\* The invariant is inductive.
LEMMA TipsInductive == TipsSpec => []TipsInv
<1>1. TipsInit => TipsInv
  <2> SUFFICES ASSUME TipsInit PROVE TipsInv
    OBVIOUS
  <2>1. <<>> \in Chain /\ <<1>> \in Chain /\ Len(<<1>>) = 1 /\ <<1>>[1] = 1
    BY TipsConstants DEF Chain
  <2>2. hb \in Seq(Chain) /\ sent \in Seq(Chain) /\ Len(hb) = 0 /\ Len(sent) = 0
    BY EmptySeq DEF TipsInit
  <2>3. TipsTypeOK
    <3>1. chain \in Chain
      BY <2>1 DEF TipsInit
    <3>2. /\ Len(hb) <= HeadLag /\ moves \in 0 .. MaxMoves
          /\ lastHeight \in 0 .. MaxHeight
      BY <2>2, TipsConstants DEF TipsInit
    <3> QED
      BY <2>2, <3>1, <3>2 DEF TipsInit, TipsTypeOK, Chain
  <2> QED
    BY <2>1, <2>2, <2>3 DEF TipsInit, TipsInv, Increasing, NothingYet, BufferIsTop,
                            NoGaps, ParentsFirst
<1>2. TipsInv /\ [TipsNext]_tipsVars => TipsInv'
  <2> SUFFICES ASSUME TipsInv, [TipsNext]_tipsVars PROVE TipsInv'
    OBVIOUS
  <2>0. /\ chain \in Chain /\ Len(chain) \in Nat
        /\ \A k \in 1 .. Len(chain) : chain[k] \in 1 .. MaxHeight
        /\ Increasing(chain)
        /\ sent \in Seq(Chain) /\ Len(sent) \in Nat
        /\ hb \in Seq(Chain) /\ Len(hb) \in Nat
        /\ lastHeight \in Nat /\ lastHeight \in 0 .. MaxHeight
        /\ MaxHeight \in Nat /\ HeadLag \in Nat \ {0} /\ MaxMoves \in Nat
        /\ moves \in 0 .. MaxMoves
    BY LenProperties, ElementOfSeq, TipsConstants DEF TipsInv, TipsTypeOK, Chain
  <2>1. CASE NodeMoves
    <3>1. hb = <<>> /\ sent = <<>> /\ hb' = <<>> /\ sent' = <<>>
      BY <2>1 DEF NodeMoves, TipsInv, NothingYet
    <3>2. chain' \in Chain /\ Increasing(chain')
      <4>1. CASE \E h \in 1 .. MaxHeight : h > Height(chain) /\ chain' = Append(chain, h)
        BY <4>1, <2>0, IncreasingAppend, PrefixOfAppend
      <4>2. CASE chain # <<>> /\ chain' = Parent(chain)
        BY <4>2, <2>0, IncreasingParent
      <4> QED
        BY <2>1, <4>1, <4>2 DEF NodeMoves
    <3>3. Len(chain') \in Nat
      BY <3>2, LenProperties DEF Chain
    <3>4. TipsTypeOK'
      BY <2>0, <2>1, <3>1, <3>2 DEF NodeMoves, TipsTypeOK, Chain
    <3> QED
      BY <2>1, <3>1, <3>2, <3>3, <3>4
        DEF NodeMoves, TipsInv, NothingYet, BufferIsTop, NoGaps, ParentsFirst
  <2>2. CASE ChainHead
    <3>1. hb = <<>> /\ sent = <<>> /\ hb' = <<>> /\ sent' = <<>> /\ chain' = chain
      BY <2>2 DEF ChainHead, TipsInv, NothingYet
    <3>2. Height(chain) \in 0 .. MaxHeight
      BY <2>0, EmptySeq DEF Height, Chain
    <3>3. TipsTypeOK'
      BY <2>0, <2>2, <3>1, <3>2 DEF ChainHead, TipsTypeOK, Chain
    <3> QED
      BY <2>0, <2>2, <3>1, <3>3
        DEF ChainHead, TipsInv, NothingYet, BufferIsTop, NoGaps, ParentsFirst
  <2>3. CASE Current
    <3> DEFINE n == walkBack
               L == Len(chain)
    <3>1. /\ hb = <<>> /\ hb' = <<>> /\ chain' = chain /\ lastHeight' = lastHeight
          /\ sent' = loadTipsets /\ tipsPhase' = "follow" /\ moves' = moves
      BY <2>3 DEF Current, TipsInv, NothingYet
    <3>2. /\ n \in 0 .. L
          /\ \A k \in 1 .. L : chain[k] > lastHeight <=> k > L - n
      BY <2>0, WalkIsTop
    <3>3. /\ sent' \in Seq(Chain) /\ Len(sent') = n
          /\ \A i \in 1 .. n : sent'[i] = SubSeq(chain, 1, L - n + i)
      BY <2>0, <3>1, Loaded
    <3> HIDE DEF n
    <3>4. NoGaps'
      <4> SUFFICES ASSUME NEW k \in 1 .. L, chain[k] > lastHeight
                   PROVE  \E i \in 1 .. n : sent'[i] = SubSeq(chain, 1, k)
        BY <2>0, <3>1, <3>3 DEF NoGaps
      <4>1. k - (L - n) \in 1 .. n /\ L - n + (k - (L - n)) = k
        BY <2>0, <3>2
      <4> QED
        BY <4>1, <3>3
    <3>5. ParentsFirst'
      <4> SUFFICES ASSUME NEW i \in 1 .. n, Height(Parent(sent'[i])) > lastHeight
                   PROVE  \E j \in 1 .. i - 1 : sent'[j] = Parent(sent'[i])
        BY Zenon, <3>1, <3>3 DEF ParentsFirst
      <4> DEFINE k == L - n + i
      <4>1. k \in 1 .. L /\ sent'[i] = SubSeq(chain, 1, k)
        BY <2>0, <3>2, <3>3
      <4>2. /\ Parent(sent'[i]) = SubSeq(chain, 1, k - 1)
            /\ Height(Parent(sent'[i])) = IF k = 1 THEN 0 ELSE chain[k - 1]
        BY Zenon, <4>1, <2>0, ParentOfPrefix
      <4>3. k # 1 /\ chain[k - 1] > lastHeight
        BY <4>2, <2>0
      <4>4. k - 1 \in 1 .. L /\ k - 1 > L - n
        BY <4>1, <4>3, <3>2, <2>0
      <4>5. i - 1 \in 1 .. n /\ L - n + (i - 1) = k - 1
        BY <4>4, <3>2, <2>0
      <4>6. sent'[i - 1] = SubSeq(chain, 1, L - n + (i - 1))
        BY <4>5, <3>3
      <4>7. sent'[i - 1] = Parent(sent'[i])
        BY Zenon, <4>2, <4>5, <4>6
      <4>8. i - 1 \in 1 .. i - 1
        BY <4>5
      <4> QED
        BY <4>7, <4>8
    <3>6. TipsTypeOK'
      BY <2>0, <3>1, <3>3 DEF TipsTypeOK, Chain
    <3> QED
      BY <2>0, <3>1, <3>4, <3>5, <3>6
        DEF TipsInv, NothingYet, BufferIsTop, Increasing
  <2>4. CASE CurrentFails
    BY <2>0, <2>4 DEF CurrentFails, TipsInv, TipsTypeOK, NothingYet, BufferIsTop,
                      NoGaps, ParentsFirst, Increasing
  <2>5. ASSUME NEW h \in 1 .. MaxHeight, Apply(h) PROVE TipsInv'
    <3> DEFINE q == Len(chain) - Len(hb)
    <3>1. /\ tipsPhase = "follow" /\ tipsPhase' = tipsPhase
          /\ lastHeight' = lastHeight /\ chain' = Append(chain, h)
          /\ h > Height(chain) /\ moves' \in 0 .. MaxMoves
      BY <2>0, <2>5 DEF Apply
    <3>2. /\ chain' \in Chain /\ Len(chain') = Len(chain) + 1
          /\ BufferIsTop'
          /\ hb' \in Seq(Chain) /\ Len(hb') <= HeadLag
          /\ Len(hb) = HeadLag =>
                /\ Len(hb') = Len(hb)
                /\ sent' = Append(sent, SubSeq(chain, 1, q + 1))
          /\ Len(hb) # HeadLag => Len(hb') = Len(hb) + 1 /\ sent' = sent
      BY <2>5, Pushed
    <3>3. Increasing(chain')
      BY <2>0, <3>1, IncreasingAppend
    <3>4. q \in 0 .. Len(chain)
      BY <2>0 DEF TipsInv, BufferIsTop
    <3>5. \A k \in 1 .. Len(chain) :
             chain'[k] = chain[k] /\ SubSeq(chain', 1, k) = SubSeq(chain, 1, k)
      <4>1. \A k \in 1 .. Len(chain) : chain'[k] = chain[k]
        BY <3>1, <2>0, AppendProperties DEF Chain
      <4>2. \A k \in 1 .. Len(chain) : SubSeq(chain', 1, k) = SubSeq(chain, 1, k)
        BY <3>1, <2>0, PrefixOfAppend
      <4> QED
        BY <4>1, <4>2
    <3>6. \A k \in 1 .. q : chain[k] > lastHeight =>
             \E i \in 1 .. Len(sent) : sent[i] = SubSeq(chain, 1, k)
      BY <3>1 DEF TipsInv, NoGaps
    <3> HIDE DEF q
    <3>7. CASE Len(hb) = HeadLag
      <4> DEFINE t == SubSeq(chain, 1, q + 1)
      <4>0. Len(chain') = Len(chain) + 1 /\ Len(hb') = Len(hb) /\ Len(hb) > 0
        BY <3>2, <3>7, <2>0
      <4>1. q + 1 \in 1 .. Len(chain) /\ Len(chain') - Len(hb') = q + 1
        BY <4>0, <3>4, <2>0 DEF q
      <4>2. t \in Chain
        BY <4>1, <2>0, Prefix
      <4>3. sent' = Append(sent, t)
        BY <3>2, <3>7
      <4> HIDE DEF t
      <4>4. /\ sent' \in Seq(Chain) /\ Len(sent') = Len(sent) + 1
            /\ \A i \in 1 .. Len(sent) : sent'[i] = sent[i]
            /\ sent'[Len(sent) + 1] = t
        BY <4>2, <4>3, <2>0, AppendProperties
      <4>5. NoGaps'
        <5> SUFFICES ASSUME NEW k \in 1 .. (q + 1), chain'[k] > lastHeight
                     PROVE  \E i \in 1 .. Len(sent') : sent'[i] = SubSeq(chain', 1, k)
          BY Zenon, <4>1, <3>1 DEF NoGaps
        <5>1. /\ k \in 1 .. Len(chain) /\ chain'[k] = chain[k]
              /\ SubSeq(chain', 1, k) = SubSeq(chain, 1, k)
          BY <4>1, <3>5, <2>0
        <5>2. CASE k = q + 1
          <6>1. Len(sent) + 1 \in 1 .. Len(sent')
            BY <4>4, <2>0
          <6> QED
            BY Zenon, <6>1, <5>1, <5>2, <4>4 DEF t
        <5>3. CASE k \in 1 .. q
          <6>1. PICK i \in 1 .. Len(sent) : sent[i] = SubSeq(chain, 1, k)
            BY <5>1, <5>3, <3>6
          <6>2. i \in 1 .. Len(sent') /\ sent'[i] = sent[i]
            BY <4>4, <2>0
          <6> QED
            BY <6>1, <6>2, <5>1
        <5> QED
          BY <5>2, <5>3, <3>4
      <4>6. ParentsFirst'
        <5> SUFFICES ASSUME NEW i \in 1 .. (Len(sent) + 1),
                            Height(Parent(sent'[i])) > lastHeight
                     PROVE  \E j \in 1 .. i - 1 : sent'[j] = Parent(sent'[i])
          BY <4>4, <3>1 DEF ParentsFirst
        <5>1. CASE i = Len(sent) + 1
          <6>1. sent'[i] = t
            BY <5>1, <4>4
          <6>2. /\ Parent(t) = SubSeq(chain, 1, q)
                /\ Height(Parent(t)) = IF q + 1 = 1 THEN 0 ELSE chain[q]
            <7>1. (q + 1) - 1 = q
              BY <3>4
            <7>2. /\ Parent(t) = SubSeq(chain, 1, (q + 1) - 1)
                  /\ Height(SubSeq(chain, 1, (q + 1) - 1)) =
                        IF q + 1 = 1 THEN 0 ELSE chain[(q + 1) - 1]
              BY <4>1, <2>0, ParentOfPrefix DEF t
            <7> QED
              BY Zenon, <7>1, <7>2
          <6>3. q \in 1 .. q /\ chain[q] > lastHeight
            BY <6>1, <6>2, <3>4, <2>0
          <6>4. PICK j \in 1 .. Len(sent) : sent[j] = SubSeq(chain, 1, q)
            BY <6>3, <3>6
          <6>5. j \in 1 .. i - 1
            BY <5>1, <2>0
          <6>6. sent'[j] = sent[j]
            BY <4>4
          <6> QED
            BY <6>1, <6>2, <6>4, <6>5, <6>6
        <5>2. CASE i \in 1 .. Len(sent)
          <6>1. PICK j \in 1 .. i - 1 : sent[j] = Parent(sent[i])
            BY <5>2, <4>4 DEF TipsInv, ParentsFirst
          <6>2. j \in 1 .. Len(sent)
            BY <5>2, <2>0
          <6> QED
            BY <6>1, <6>2, <5>2, <4>4
        <5> QED
          BY <5>1, <5>2, <2>0
      <4>7. TipsTypeOK'
        BY <2>0, <3>1, <3>2, <4>4 DEF TipsTypeOK, TipsInv, Chain
      <4> QED
        BY <3>1, <3>2, <3>3, <4>5, <4>6, <4>7 DEF TipsInv, NothingYet
    <3>8. CASE Len(hb) # HeadLag
      <4>0. Len(chain') = Len(chain) + 1 /\ Len(hb') = Len(hb) + 1 /\ sent' = sent
        BY <3>2, <3>8
      <4>1. sent' = sent /\ Len(chain') - Len(hb') = q
        BY <4>0, <2>0 DEF q
      <4>2. NoGaps'
        <5> SUFFICES ASSUME NEW k \in 1 .. q, chain'[k] > lastHeight
                     PROVE  \E i \in 1 .. Len(sent) : sent[i] = SubSeq(chain', 1, k)
          BY Zenon, <4>1, <3>1 DEF NoGaps
        <5>1. /\ k \in 1 .. Len(chain) /\ chain'[k] = chain[k]
              /\ SubSeq(chain', 1, k) = SubSeq(chain, 1, k)
          BY <3>4, <3>5, <2>0
        <5> QED
          BY <5>1, <3>6
      <4>3. ParentsFirst'
        BY <4>1, <3>1 DEF TipsInv, ParentsFirst
      <4>4. TipsTypeOK'
        BY <2>0, <3>1, <3>2, <4>1 DEF TipsTypeOK, TipsInv, Chain
      <4> QED
        BY <3>1, <3>2, <3>3, <4>2, <4>3, <4>4 DEF TipsInv, NothingYet
    <3> QED
      BY <3>7, <3>8
  <2>6. CASE Revert
    <3>1. /\ tipsPhase = "follow" /\ tipsPhase' = tipsPhase
          /\ lastHeight' = lastHeight /\ chain' = Parent(chain) /\ chain # <<>>
          /\ sent' = sent /\ moves' \in 0 .. MaxMoves
      BY <2>0, <2>6 DEF Revert
    <3>2. /\ chain' \in Chain /\ Len(chain') = Len(chain) - 1 /\ Len(chain) # 0
          /\ \A k \in 0 .. (Len(chain) - 1) : SubSeq(chain', 1, k) = SubSeq(chain, 1, k)
          /\ \A k \in 1 .. (Len(chain) - 1) : chain'[k] = chain[k]
          /\ BufferIsTop'
          /\ hb' \in Seq(Chain) /\ Len(hb') <= HeadLag
          /\ Len(hb) = 0 => Len(hb') = 0
          /\ Len(hb) # 0 => Len(hb') = Len(hb) - 1
      BY <2>6, Popped
    <3>3. Increasing(chain')
      BY <2>0, <3>1, IncreasingParent
    <3>4. NoGaps'
      <4> SUFFICES ASSUME NEW k \in 1 .. (Len(chain') - Len(hb')), chain'[k] > lastHeight
                   PROVE  \E i \in 1 .. Len(sent) : sent[i] = SubSeq(chain', 1, k)
        BY <3>1 DEF NoGaps
      <4>1. k \in 1 .. (Len(chain) - 1) /\ k \in 1 .. (Len(chain) - Len(hb))
        BY <2>0, <3>2 DEF TipsInv, BufferIsTop
      <4>2. chain'[k] = chain[k] /\ SubSeq(chain', 1, k) = SubSeq(chain, 1, k)
        BY <4>1, <3>2, <2>0
      <4> QED
        BY <4>1, <4>2, <3>1 DEF TipsInv, NoGaps
    <3>5. ParentsFirst'
      BY <3>1 DEF TipsInv, ParentsFirst
    <3>6. TipsTypeOK'
      BY <2>0, <3>1, <3>2 DEF TipsTypeOK, TipsInv, Chain
    <3> QED
      BY <3>1, <3>2, <3>3, <3>4, <3>5, <3>6 DEF TipsInv, NothingYet
  <2>7. CASE UNCHANGED tipsVars
    BY <2>7 DEF tipsVars, TipsInv, TipsTypeOK, Increasing, NothingYet, BufferIsTop,
                NoGaps, ParentsFirst
  <2> QED
    BY <2>1, <2>2, <2>3, <2>4, <2>5, <2>6, <2>7 DEF TipsNext
<1> QED
  BY <1>1, <1>2, PTL DEF TipsSpec

\* GetTips sends a tipset only after its parent, unless the parent is not above
\* the height the input started from: through reorganisations of any depth.
THEOREM SendsParentsFirst == TipsSpec => []ParentsFirst
BY TipsInductive, PTL DEF TipsInv

\* GetTips with its head buffer implements TipFeed: a cursor HeadLag tipsets
\* behind the head that sends each tipset it passes.
THEOREM ImplementsFeed == TipsSpec => FollowsFeed
<1>1. TipsInit => Feed!FeedInit
  <2> SUFFICES ASSUME TipsInit PROVE Feed!FeedInit
    OBVIOUS
  <2>1. <<>> \in Chain /\ <<1>> \in Chain /\ Len(<<1>>) = 1
    BY TipsConstants DEF Chain
  <2>2. chain \in Chain /\ Len(chain) \in Nat /\ Len(hb) = 0
    BY <2>1, EmptySeq DEF TipsInit
  <2> QED
    BY <2>2 DEF TipsInit, Feed!FeedInit, Chain
<1>2. TipsInv /\ TipsInv' /\ [TipsNext]_tipsVars => [Feed!FeedNext]_(Feed!feedVars)
  <2> SUFFICES ASSUME TipsInv, TipsInv', [TipsNext]_tipsVars
               PROVE  [Feed!FeedNext]_(Feed!feedVars)
    OBVIOUS
  <2>0. /\ chain \in Chain /\ Len(chain) \in Nat /\ chain' \in Chain
        /\ Len(hb) \in Nat /\ Len(hb) <= Len(chain)
        /\ lastHeight \in Nat /\ HeadLag \in Nat \ {0}
        /\ Increasing(chain)
    BY LenProperties, TipsConstants DEF TipsInv, TipsTypeOK, Chain, BufferIsTop
  <2>1. CASE NodeMoves
    <3>1. hb = <<>> /\ hb' = <<>> /\ Len(hb) = 0 /\ Len(chain') \in Nat
      BY <2>0, <2>1, LenProperties DEF NodeMoves, TipsInv, NothingYet, Chain
    <3>2. Feed!FeedMoves
      BY <2>0, <2>1, <3>1 DEF NodeMoves, Feed!FeedMoves, Chain
    <3> QED
      BY <3>2 DEF Feed!FeedNext
  <2>2. CASE ChainHead
    BY <2>2 DEF ChainHead, Height, Feed!FeedNext, Feed!FeedAsks
  <2>3. CASE Current
    <3>1. /\ walkBack \in 0 .. Len(chain)
          /\ \A k \in 1 .. Len(chain) :
                chain[k] > lastHeight <=> k > Len(chain) - walkBack
      BY <2>0, WalkIsTop
    <3>2. Feed!FeedLoads
      BY <2>3, <3>1 DEF Current, loadTipsets, Feed!FeedLoads, Feed!Tip
    <3> QED
      BY <3>2 DEF Feed!FeedNext
  <2>4. CASE CurrentFails
    BY <2>4 DEF CurrentFails, Feed!FeedNext, Feed!FeedFails
  <2>5. ASSUME NEW h \in 1 .. MaxHeight, Apply(h) PROVE Feed!FeedNext
    <3>1. /\ tipsPhase = "follow" /\ tipsPhase' = "follow"
          /\ lastHeight' = lastHeight /\ chain' = Append(chain, h)
      BY <2>5 DEF Apply
    <3>2. /\ Len(chain') = Len(chain) + 1
          /\ Len(hb) = HeadLag =>
                /\ Len(hb') = Len(hb)
                /\ sent' = Append(sent, SubSeq(chain, 1, Len(chain) - Len(hb) + 1))
          /\ Len(hb) # HeadLag => Len(hb') = Len(hb) + 1 /\ sent' = sent
      BY <2>5, Pushed
    <3> DEFINE l == Len(chain)
               b == Len(hb)
    <3>3. /\ l - (l - b) = b
          /\ b = HeadLag => Len(chain') - Len(hb') = (l - b) + 1
          /\ b # HeadLag => Len(chain') - Len(hb') = l - b
      <4>1. /\ Len(chain') = l + 1
            /\ b = HeadLag => Len(hb') = b
            /\ b # HeadLag => Len(hb') = b + 1
        BY <3>2
      <4>2. l \in Nat /\ b \in Nat
        BY <2>0
      <4> HIDE DEF l, b
      <4> QED
        BY <4>1, <4>2
    <3>4. Feed!FeedApplies
      BY <3>1, <3>2, <3>3 DEF Feed!FeedApplies, Feed!Tip
    <3> QED
      BY <3>4 DEF Feed!FeedNext
  <2>6. CASE Revert
    <3>1. /\ tipsPhase = "follow" /\ tipsPhase' = "follow" /\ chain # <<>>
          /\ lastHeight' = lastHeight /\ sent' = sent
          /\ chain' = SubSeq(chain, 1, Len(chain) - 1)
      BY <2>6 DEF Revert, Parent
    <3>2. /\ Len(chain') = Len(chain) - 1
          /\ Len(hb) = 0 => Len(hb') = 0
          /\ Len(hb) # 0 => Len(hb') = Len(hb) - 1
      BY <2>6, Popped
    <3>3. Len(chain') - Len(hb') = IF Len(chain) - Len(hb) < Len(chain)
                                   THEN Len(chain) - Len(hb)
                                   ELSE Len(chain) - Len(hb) - 1
      BY <2>0, <3>2
    <3>4. Feed!FeedReverts
      BY <3>1, <3>3 DEF Feed!FeedReverts, Feed!Tip
    <3> QED
      BY <3>4 DEF Feed!FeedNext
  <2>7. CASE UNCHANGED tipsVars
    BY <2>7 DEF tipsVars, Feed!feedVars
  <2> QED
    BY <2>1, <2>2, <2>3, <2>4, <2>5, <2>6, <2>7 DEF TipsNext
<1> QED
  BY <1>1, <1>2, TipsInductive, PTL DEF TipsSpec, FollowsFeed, Feed!FeedSpec
=============================================================================
