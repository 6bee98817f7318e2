------------------------ MODULE BTCLightClientProofs ------------------------
(***************************************************************************)
(* Machine-checked proofs about module BTCLightClient, for every tree of   *)
(* headers, every difficulty rule and messages of every length.            *)
(***************************************************************************)
EXTENDS BTCLightClient, Extrema, TLAPS

-----------------------------------------------------------------------------
\* The inductive invariant

\* What two stores with a tip at height n have to be. OneChain alone is not
\* inductive: it needs that the heights end at the tip, where a message goes
\* on, and that no header is stored at two heights.
Stored(H, HH, n) ==
    /\ n \in Nat /\ BaseHeight <= n
    /\ DOMAIN H = BaseHeight..n
    /\ H[BaseHeight].hash = Base
    /\ \A k \in BaseHeight..n : /\ H[k].height = k
                                /\ H[k].hash \in DOMAIN HH
                                /\ HH[H[k].hash] = k
    /\ \A k \in (BaseHeight + 1)..n : /\ H[k].hash # Base
                                      /\ Parent[H[k].hash] = H[k - 1].hash
    /\ \A h \in DOMAIN HH : HH[h] \in BaseHeight..n /\ H[HH[h]].hash = h

IInv == \E n \in Nat : Stored(headers, hashToHeight, n)

\* A chain of L headers on top of the header p.
OnTop(msg, L, p) ==
    /\ L \in Nat \ {0}
    /\ msg \in [1..L -> Headers]
    /\ Parent[msg[1]] = p
    /\ \A i \in 2..L : msg[i] # Base /\ Parent[msg[i]] = msg[i - 1]

\* The infos of the headers of a message on top of height n.
Infos(ext, msg, L, n) ==
    /\ DOMAIN ext = 1..L
    /\ \A i \in 1..L : ext[i].hash = msg[i] /\ ext[i].height = n + i

-----------------------------------------------------------------------------
\* Lemmas about the operators

\* processNewHeadersChain numbers the headers of a message from its parent on.
LEMMA ExtensionInfos ==
    ASSUME NEW parent, NEW n \in Nat, parent.height = n,
           NEW L \in Nat \ {0}, NEW msg \in [1..L -> Headers]
    PROVE  Len(msg) = L /\ Infos(ExtensionChain(parent, msg), msg, L, n)
<1>1. Len(msg) = L
  OBVIOUS
<1> QED BY <1>1 DEF ExtensionChain, HeaderInfo, Infos

\* If the first header of a chain on top of the tip is not stored, none of its
\* headers is, and no header is in it twice: the parents of a repeated header
\* would lead back to a stored one.
LEMMA NewHeaders ==
    ASSUME NEW H, NEW HH, NEW n \in Nat, Stored(H, HH, n),
           NEW msg, NEW L, OnTop(msg, L, H[n].hash), msg[1] \notin DOMAIN HH
    PROVE  /\ \A i \in 1..L : msg[i] \notin DOMAIN HH
           /\ \A i, j \in 1..L : msg[i] = msg[j] => i = j
<1> L \in Nat \ {0}
  BY DEF OnTop
<1>1. \A i \in 1..L : msg[i] \notin DOMAIN HH
  <2> DEFINE S == {i \in 1..L : msg[i] \in DOMAIN HH}
  <2>1. SUFFICES ASSUME S # {} PROVE FALSE
    OBVIOUS
  <2>2. PICK i \in S : \A j \in S : i <= j
    <3> S \in SUBSET Nat
      OBVIOUS
    <3> HIDE DEF S
    <3> QED BY <2>1, LeastNat
  <2>3. i \in 2..L /\ i - 1 \in 1..L /\ i - 1 \notin S
    BY <2>2
  <2>4. HH[msg[i]] \in (BaseHeight + 1)..n
    BY <2>2, <2>3, BaseAssumption DEF Stored, OnTop
  <2>5. Parent[msg[i]] = H[HH[msg[i]] - 1].hash
    BY <2>2, <2>4 DEF Stored
  <2>6. HH[msg[i]] - 1 \in BaseHeight..n
    BY <2>4, BaseAssumption
  <2>7. msg[i - 1] \in DOMAIN HH
    BY <2>3, <2>5, <2>6 DEF Stored, OnTop
  <2> QED BY <2>3, <2>7
<1>2. \A i, j \in 1..L : msg[i] = msg[j] => i = j
  <2> DEFINE S == {i \in 1..L : \E j \in 1..L : i < j /\ msg[i] = msg[j]}
  <2>1. SUFFICES ASSUME S # {} PROVE FALSE
    OBVIOUS
  <2>2. PICK i \in S : \A k \in S : i <= k
    <3> S \in SUBSET Nat
      OBVIOUS
    <3> HIDE DEF S
    <3> QED BY <2>1, LeastNat
  <2>3. PICK j \in 1..L : i < j /\ msg[i] = msg[j]
    BY <2>2
  <2>4. j \in 2..L /\ j - 1 \in 1..L /\ Parent[msg[j]] = msg[j - 1]
    BY <2>2, <2>3 DEF OnTop
  <2>5. CASE i = 1
    <3>1. msg[j - 1] = H[n].hash
      BY <2>3, <2>4, <2>5 DEF OnTop
    <3>2. H[n].hash \in DOMAIN HH
      BY BaseAssumption DEF Stored
    <3> QED BY <1>1, <2>4, <3>1, <3>2
  <2>6. CASE i # 1
    <3>1. i \in 2..L /\ i - 1 \in 1..L /\ Parent[msg[i]] = msg[i - 1]
      BY <2>2, <2>6 DEF OnTop
    <3>2. i - 1 < j - 1 /\ msg[i - 1] = msg[j - 1]
      BY <2>2, <2>3, <2>4, <3>1
    <3>3. i - 1 \in S
      BY <2>4, <3>1, <3>2
    <3> QED BY <2>2, <3>1, <3>3
  <2> QED BY <2>5, <2>6
<1> QED BY <1>1, <1>2

\* insertHeader for all headers of a message on top of the tip gives a store
\* whose tip is the last one of them.
LEMMA InsertedOnTop ==
    ASSUME NEW H, NEW HH, NEW n \in Nat, Stored(H, HH, n),
           NEW msg, NEW L, OnTop(msg, L, H[n].hash), msg[1] \notin DOMAIN HH,
           NEW ext, Infos(ext, msg, L, n)
    PROVE  /\ Stored(InsertedHeights(H, ext), InsertedHashes(HH, ext), n + L)
           /\ \A k \in BaseHeight..n : InsertedHeights(H, ext)[k] = H[k]
           /\ \A i \in 1..L : InsertedHeights(H, ext)[n + i] = ext[i]
<1> DEFINE IH == InsertedHeights(H, ext)
           IHH == InsertedHashes(HH, ext)
<1> USE BaseAssumption
<1>0. L \in Nat \ {0} /\ n + L \in Nat /\ BaseHeight <= n
  BY DEF OnTop, Stored
<1>1. /\ \A i \in 1..L : msg[i] \notin DOMAIN HH
      /\ \A i, j \in 1..L : msg[i] = msg[j] => i = j
  BY NewHeaders
<1>2. DOMAIN IH = BaseHeight..(n + L)
  <2>1. {ext[i].height : i \in DOMAIN ext} = (n + 1)..(n + L)
    <3>1. ASSUME NEW k \in (n + 1)..(n + L)
          PROVE  \E i \in DOMAIN ext : k = ext[i].height
      <4>1. k - n \in 1..L /\ n + (k - n) = k
        BY <1>0
      <4> QED BY <4>1 DEF Infos
    <3>2. ASSUME NEW i \in DOMAIN ext PROVE ext[i].height \in (n + 1)..(n + L)
      BY <1>0 DEF Infos
    <3> QED BY <3>1, <3>2
  <2>2. DOMAIN H \cup ((n + 1)..(n + L)) = BaseHeight..(n + L)
    BY <1>0 DEF Stored
  <2> QED BY <2>1, <2>2 DEF InsertedHeights
<1>3. \A k \in BaseHeight..n : IH[k] = H[k]
  <2>1. SUFFICES ASSUME NEW k \in BaseHeight..n PROVE IH[k] = H[k]
    OBVIOUS
  <2>2. ~(\E i \in DOMAIN ext : ext[i].height = k)
    BY <1>0 DEF Infos
  <2>3. k \in DOMAIN H
    BY DEF Stored
  <2> QED BY <2>2, <2>3 DEF InsertedHeights
<1>4. \A i \in 1..L : IH[n + i] = ext[i]
  <2>1. SUFFICES ASSUME NEW i \in 1..L PROVE IH[n + i] = ext[i]
    OBVIOUS
  <2>2. i \in DOMAIN ext /\ ext[i].height = n + i
    BY DEF Infos
  <2>3. \A j \in DOMAIN ext : ext[j].height = n + i => j = i
    BY <1>0 DEF Infos
  <2>4. (CHOOSE j \in DOMAIN ext : ext[j].height = n + i) = i
    BY <2>2, <2>3
  <2>5. IH[n + i] = IF \E j \in DOMAIN ext : ext[j].height = n + i
                    THEN ext[CHOOSE j \in DOMAIN ext : ext[j].height = n + i]
                    ELSE H[n + i]
    BY <2>2 DEF InsertedHeights
  <2> QED BY <2>2, <2>4, <2>5
<1>5. DOMAIN IHH = DOMAIN HH \cup {msg[i] : i \in 1..L}
  BY DEF InsertedHashes, Infos
<1>6. \A h \in DOMAIN HH : IHH[h] = HH[h]
  BY <1>1 DEF InsertedHashes, Infos
<1>7. \A i \in 1..L : IHH[msg[i]] = n + i
  <2>1. SUFFICES ASSUME NEW i \in 1..L PROVE IHH[msg[i]] = n + i
    OBVIOUS
  <2>2. i \in DOMAIN ext /\ ext[i].hash = msg[i] /\ ext[i].height = n + i
    BY DEF Infos
  <2>3. \A j \in DOMAIN ext : ext[j].hash = msg[i] => j = i
    BY <1>1 DEF Infos
  <2>4. (CHOOSE j \in DOMAIN ext : ext[j].hash = msg[i]) = i
    BY <2>2, <2>3
  <2>5. IHH[msg[i]] = IF \E j \in DOMAIN ext : ext[j].hash = msg[i]
                      THEN ext[CHOOSE j \in DOMAIN ext : ext[j].hash = msg[i]].height
                      ELSE HH[msg[i]]
    BY <2>2 DEF InsertedHashes
  <2> QED BY <2>2, <2>4, <2>5
<1> HIDE DEF IH, IHH
<1>8. \A k \in BaseHeight..(n + L) :
          k \in BaseHeight..n \/ \E i \in 1..L : k = n + i
  <2>1. SUFFICES ASSUME NEW k \in BaseHeight..(n + L), ~(k \in BaseHeight..n)
                 PROVE  \E i \in 1..L : k = n + i
    OBVIOUS
  <2>2. k - n \in 1..L /\ k = n + (k - n)
    BY <1>0, <2>1
  <2> QED BY <2>2
<1>9. Stored(IH, IHH, n + L)
  <2>1. IH[BaseHeight].hash = Base
    BY <1>0, <1>3 DEF Stored
  <2>2. ASSUME NEW k \in BaseHeight..(n + L)
        PROVE  IH[k].height = k /\ IH[k].hash \in DOMAIN IHH /\ IHH[IH[k].hash] = k
    <3>1. CASE k \in BaseHeight..n
      BY <1>3, <1>5, <1>6, <3>1 DEF Stored
    <3>2. CASE \E i \in 1..L : k = n + i
      BY <1>4, <1>5, <1>7, <3>2 DEF Infos
    <3> QED BY <1>8, <3>1, <3>2
  <2>3. ASSUME NEW k \in (BaseHeight + 1)..(n + L)
        PROVE  IH[k].hash # Base /\ Parent[IH[k].hash] = IH[k - 1].hash
    <3>1. CASE k \in BaseHeight..n
      <4>1. k \in (BaseHeight + 1)..n /\ k - 1 \in BaseHeight..n
        BY <1>0, <3>1
      <4>2. H[k].hash # Base /\ Parent[H[k].hash] = H[k - 1].hash
        BY <4>1 DEF Stored
      <4> QED BY <1>3, <3>1, <4>1, <4>2
    <3>2. ASSUME NEW i \in 1..L, k = n + i
          PROVE  IH[k].hash # Base /\ Parent[IH[k].hash] = IH[k - 1].hash
      <4>1. IH[k].hash = msg[i]
        BY <1>4, <3>2 DEF Infos
      <4>2. CASE i = 1
        <5>1. n \in BaseHeight..n /\ k - 1 = n
          BY <1>0, <3>2, <4>2
        <5>2. Parent[msg[1]] = H[n].hash /\ IH[n] = H[n]
          BY <1>3, <5>1 DEF OnTop
        <5>3. Base \in DOMAIN HH
          BY <1>0 DEF Stored
        <5> QED BY <4>1, <4>2, <5>1, <5>2, <5>3
      <4>3. CASE i # 1
        <5>1. i \in 2..L /\ i - 1 \in 1..L /\ k - 1 = n + (i - 1)
          BY <1>0, <3>2, <4>3
        <5>2. IH[k - 1].hash = msg[i - 1]
          BY <1>4, <5>1 DEF Infos
        <5> QED BY <4>1, <5>1, <5>2 DEF OnTop
      <4> QED BY <4>2, <4>3
    <3> QED BY <1>0, <1>8, <3>1, <3>2
  <2>4. ASSUME NEW h \in DOMAIN IHH
        PROVE  IHH[h] \in BaseHeight..(n + L) /\ IH[IHH[h]].hash = h
    <3>1. CASE h \in DOMAIN HH
      <4>1. IHH[h] = HH[h] /\ HH[h] \in BaseHeight..n /\ H[HH[h]].hash = h
        BY <1>6, <3>1 DEF Stored
      <4> QED BY <1>0, <1>3, <4>1
    <3>2. ASSUME NEW i \in 1..L, h = msg[i]
          PROVE  IHH[h] \in BaseHeight..(n + L) /\ IH[IHH[h]].hash = h
      <4>1. IHH[h] = n + i /\ IH[n + i].hash = h
        BY <1>4, <1>7, <3>2 DEF Infos
      <4>2. n + i \in BaseHeight..(n + L)
        BY <1>0
      <4> QED BY <4>1, <4>2
    <3> QED BY <1>5, <3>1, <3>2
  <2> QED BY <1>0, <1>2, <2>1, <2>2, <2>3, <2>4 DEF Stored
<1> QED BY <1>3, <1>4, <1>9 DEF IH, IHH

\* rollBackHeadersUpTo a stored height leaves a store with its tip there.
LEMMA RolledBackStore ==
    ASSUME NEW n \in Nat, Stored(headers, hashToHeight, n), NEW t \in BaseHeight..n
    PROVE  /\ Stored(RolledBackHeights(t), RolledBackHashes(t), t)
           /\ \A k \in BaseHeight..t : RolledBackHeights(t)[k] = headers[k]
           /\ DOMAIN RolledBackHashes(t) \subseteq DOMAIN hashToHeight
<1> USE BaseAssumption
<1> DEFINE RH == RolledBackHeights(t)
           RHH == RolledBackHashes(t)
<1>1. AboveHeight(t) = (t + 1)..n
  <2>1. DOMAIN headers = BaseHeight..n
    BY DEF Stored
  <2>2. {k \in BaseHeight..n : k > t} = (t + 1)..n
    OBVIOUS
  <2> QED BY <2>1, <2>2 DEF AboveHeight
<1>2. DOMAIN RH = BaseHeight..t /\ \A k \in BaseHeight..t : RH[k] = headers[k]
  <2>1. DOMAIN headers \ ((t + 1)..n) = BaseHeight..t
    BY DEF Stored
  <2> QED BY <1>1, <2>1 DEF RolledBackHeights, Removed
<1>3. \A h : h \in DOMAIN RHH <=> h \in DOMAIN hashToHeight /\ hashToHeight[h] <= t
  <2>1. \A h : h \in DOMAIN RHH <=> /\ h \in DOMAIN hashToHeight
                                    /\ \A k \in (t + 1)..n : headers[k].hash # h
    BY <1>1 DEF RolledBackHashes, Removed
  <2>2. ASSUME NEW h \in DOMAIN hashToHeight, hashToHeight[h] <= t,
               NEW k \in (t + 1)..n
        PROVE  headers[k].hash # h
    <3>1. k \in BaseHeight..n
      OBVIOUS
    <3>2. hashToHeight[headers[k].hash] = k
      BY <3>1 DEF Stored
    <3> QED BY <2>2, <3>2
  <2>3. ASSUME NEW h \in DOMAIN hashToHeight, ~(hashToHeight[h] <= t)
        PROVE  \E k \in (t + 1)..n : headers[k].hash = h
    <3>1. hashToHeight[h] \in (t + 1)..n /\ headers[hashToHeight[h]].hash = h
      BY <2>3 DEF Stored
    <3> QED BY <3>1
  <2> QED BY <2>1, <2>2, <2>3
<1>4. \A h \in DOMAIN RHH : RHH[h] = hashToHeight[h]
  BY DEF RolledBackHashes, Removed
<1> HIDE DEF RH, RHH
<1>5. Stored(RH, RHH, t)
  <2>1. t \in Nat /\ BaseHeight <= t
    OBVIOUS
  <2>2. RH[BaseHeight].hash = Base
    BY <1>2, <2>1 DEF Stored
  <2>3. ASSUME NEW k \in BaseHeight..t
        PROVE  RH[k].height = k /\ RH[k].hash \in DOMAIN RHH /\ RHH[RH[k].hash] = k
    <3>1. k \in BaseHeight..n
      OBVIOUS
    <3>2. /\ headers[k].height = k /\ headers[k].hash \in DOMAIN hashToHeight
          /\ hashToHeight[headers[k].hash] = k
      BY <3>1 DEF Stored
    <3> QED BY <1>2, <1>3, <1>4, <3>2
  <2>4. ASSUME NEW k \in (BaseHeight + 1)..t
        PROVE  RH[k].hash # Base /\ Parent[RH[k].hash] = RH[k - 1].hash
    <3>1. k \in (BaseHeight + 1)..n /\ k \in BaseHeight..t /\ k - 1 \in BaseHeight..t
      OBVIOUS
    <3> QED BY <1>2, <3>1 DEF Stored
  <2>5. ASSUME NEW h \in DOMAIN RHH
        PROVE  RHH[h] \in BaseHeight..t /\ RH[RHH[h]].hash = h
    <3>1. /\ h \in DOMAIN hashToHeight /\ hashToHeight[h] <= t
          /\ RHH[h] = hashToHeight[h]
      BY <1>3, <1>4
    <3>2. hashToHeight[h] \in BaseHeight..t /\ headers[hashToHeight[h]].hash = h
      BY <3>1 DEF Stored
    <3> QED BY <1>2, <3>1, <3>2
  <2> QED BY <1>2, <2>1, <2>2, <2>3, <2>4, <2>5 DEF Stored
<1> QED BY <1>2, <1>3, <1>5 DEF RH, RHH

\* GetTip is the header at the height the store ends with.
LEMMA TipOfStore ==
    ASSUME NEW n \in Nat, Stored(headers, hashToHeight, n)
    PROVE  GetTip(headers) = headers[n]
<1>1. n \in DOMAIN headers /\ \A j \in DOMAIN headers : j <= n
  BY BaseAssumption DEF Stored
<1>2. \A k \in DOMAIN headers : (\A j \in DOMAIN headers : j <= k) => k = n
  BY <1>1, BaseAssumption DEF Stored
<1>3. (CHOOSE k \in DOMAIN headers : \A j \in DOMAIN headers : j <= k) = n
  BY <1>1, <1>2
<1> QED BY <1>3 DEF GetTip

\* The hashes of a chain, which is what a listener knows.
Hashes(H) == [k \in DOMAIN H |-> H[k].hash]

\* A listener that knows a chain and is told of insertions knows the result.
LEMMA ListenerInserted ==
    ASSUME NEW H, NEW ext
    PROVE  MirrorInserted(Hashes(H), ext) = Hashes(InsertedHeights(H, ext))
BY DEF Hashes, MirrorInserted, InsertedHeights

\* A listener that knows the chain and is told of a roll back knows the rest.
LEMMA ListenerRolledBack ==
    ASSUME HooksTellTheChain, NEW to
    PROVE  MirrorRolledBack(to) = Hashes(RolledBackHeights(to.height))
BY DEF Hashes, HooksTellTheChain, MirrorRolledBack, RolledBackHeights, AboveHeight, Removed

\* A message that is accepted keeps the chain up to some height t, the tip or
\* the header it forks off, and puts its checked headers on top.
Accepted(t, L, msg, ext) ==
    /\ L \in Nat \ {0}
    /\ Infos(ext, msg, L, t)
    /\ checkHeaders(ext)
    /\ Stored(headers', hashToHeight', t + L)
    /\ \A k \in BaseHeight..t : headers'[k] = headers[k]
    /\ \A i \in 1..L : headers'[t + i] = ext[i]
    /\ HooksTellTheChain'

\* A message of the model is a chain of one header or more.
LEMMA MessageIsChain ==
    ASSUME NEW msg \in Messages
    PROVE  \E L \in Nat \ {0} :
              /\ msg \in [1..L -> Headers]
              /\ \A i \in 2..L : msg[i] # Base /\ Parent[msg[i]] = msg[i - 1]
<1>1. PICK L \in 1..MaxMsg : msg \in [1..L -> Headers]
  BY DEF Messages
<1>2. Len(msg) = L
  BY <1>1, BaseAssumption
<1>3. headersFormChain(msg)
  BY DEF Messages
<1> QED BY <1>1, <1>2, <1>3, BaseAssumption DEF headersFormChain

\* InsertHeaders on top of the tip.
LEMMA ExtendTipAccepted ==
    ASSUME NEW n \in Nat, Stored(headers, hashToHeight, n), HooksTellTheChain,
           NEW r, NEW msg \in Messages, ExtendTip(r, msg)
    PROVE  \E L, ext : Accepted(n, L, msg, ext)
<1> USE BaseAssumption
<1> DEFINE ext == ExtensionChain(headers[n], msg)
<1>1. PICK L \in Nat \ {0} :
          /\ msg \in [1..L -> Headers]
          /\ \A i \in 2..L : msg[i] # Base /\ Parent[msg[i]] = msg[i - 1]
  BY MessageIsChain
<1>2. GetTip(headers) = headers[n] /\ headers[n].height = n /\ n \in BaseHeight..n
  <2>1. n \in BaseHeight..n
    BY DEF Stored
  <2>2. headers[n].height = n
    BY <2>1 DEF Stored
  <2> QED BY <2>1, <2>2, TipOfStore
<1>3. Infos(ext, msg, L, n)
  BY <1>1, <1>2, ExtensionInfos
<1>4. /\ msg[1] # Base /\ Parent[msg[1]] = headers[n].hash
      /\ checkHeaders(ext)
      /\ headers' = InsertedHeights(headers, ext)
      /\ hashToHeight' = InsertedHashes(hashToHeight, ext)
      /\ mirror' = MirrorInserted(mirror, ext)
  BY <1>2 DEF ExtendTip
<1> HIDE DEF ext
<1>5. msg[1] \notin DOMAIN hashToHeight
  <2>1. SUFFICES ASSUME msg[1] \in DOMAIN hashToHeight PROVE FALSE
    OBVIOUS
  <2> DEFINE k == hashToHeight[msg[1]]
  <2>2. k \in BaseHeight..n /\ headers[k].hash = msg[1]
    BY <2>1 DEF Stored
  <2>3. k \in (BaseHeight + 1)..n /\ k - 1 \in BaseHeight..n
    <3>1. headers[BaseHeight].hash = Base
      BY DEF Stored
    <3>2. k # BaseHeight
      BY <1>4, <2>2, <3>1
    <3> QED BY <2>2, <3>2
  <2>4. headers[k - 1].hash = headers[n].hash
    <3>1. Parent[headers[k].hash] = headers[k - 1].hash
      BY <2>3 DEF Stored
    <3> QED BY <1>4, <2>2, <3>1
  <2>5. hashToHeight[headers[k - 1].hash] = k - 1 /\ hashToHeight[headers[n].hash] = n
    BY <1>2, <2>3 DEF Stored
  <2> QED BY <2>3, <2>4, <2>5
<1>6. OnTop(msg, L, headers[n].hash)
  BY <1>1, <1>4 DEF OnTop
<1>7. /\ Stored(headers', hashToHeight', n + L)
      /\ \A k \in BaseHeight..n : headers'[k] = headers[k]
      /\ \A i \in 1..L : headers'[n + i] = ext[i]
  <2> DEFINE H == headers
             HH == hashToHeight
  <2> HIDE DEF H, HH
  <2>1. Stored(H, HH, n) /\ msg[1] \notin DOMAIN HH /\ OnTop(msg, L, H[n].hash)
    BY <1>5, <1>6 DEF H, HH
  <2>2. /\ Stored(InsertedHeights(H, ext), InsertedHashes(HH, ext), n + L)
        /\ \A k \in BaseHeight..n : InsertedHeights(H, ext)[k] = H[k]
        /\ \A i \in 1..L : InsertedHeights(H, ext)[n + i] = ext[i]
    BY <1>3, <2>1, InsertedOnTop
  <2> QED BY <1>4, <2>2 DEF H, HH
<1>8. HooksTellTheChain'
  <2>1. mirror' = MirrorInserted(Hashes(headers), ext)
    BY <1>4 DEF HooksTellTheChain, Hashes
  <2>2. mirror' = Hashes(headers')
    BY <1>4, <2>1, ListenerInserted
  <2> QED BY <2>2 DEF HooksTellTheChain, Hashes
<1> QED BY <1>1, <1>3, <1>4, <1>7, <1>8 DEF Accepted

\* InsertHeaders of a fork.
LEMMA SwitchToForkAccepted ==
    ASSUME NEW n \in Nat, Stored(headers, hashToHeight, n), HooksTellTheChain,
           NEW r, NEW msg \in Messages, SwitchToFork(r, msg)
    PROVE  \E t \in BaseHeight..n : \E L, ext : Accepted(t, L, msg, ext)
<1> USE BaseAssumption
<1> DEFINE t == hashToHeight[Parent[msg[1]]]
           ext == ExtensionChain(headers[t], msg)
<1>1. PICK L \in Nat \ {0} :
          /\ msg \in [1..L -> Headers]
          /\ \A i \in 2..L : msg[i] # Base /\ Parent[msg[i]] = msg[i - 1]
  BY MessageIsChain
<1>2. /\ t \in BaseHeight..n /\ t \in Nat
      /\ headers[t].hash = Parent[msg[1]] /\ headers[t].height = t
  <2>1. Parent[msg[1]] \in DOMAIN hashToHeight
    BY DEF SwitchToFork, HeaderExists
  <2>2. t \in BaseHeight..n /\ headers[t].hash = Parent[msg[1]]
    BY <2>1 DEF Stored
  <2>3. headers[t].height = t
    BY <2>2 DEF Stored
  <2> QED BY <2>2, <2>3
<1>3. Infos(ext, msg, L, t)
  BY <1>1, <1>2, ExtensionInfos
<1>4. /\ msg[1] \notin DOMAIN hashToHeight
      /\ checkHeaders(ext)
      /\ headers' = InsertedHeights(RolledBackHeights(t), ext)
      /\ hashToHeight' = InsertedHashes(RolledBackHashes(t), ext)
      /\ mirror' = MirrorInserted(MirrorRolledBack(headers[t]), ext)
  BY <1>2 DEF SwitchToFork, HeaderExists, GetHeaderByHash
<1> HIDE DEF t, ext
<1>5. /\ Stored(RolledBackHeights(t), RolledBackHashes(t), t)
      /\ \A k \in BaseHeight..t : RolledBackHeights(t)[k] = headers[k]
      /\ msg[1] \notin DOMAIN RolledBackHashes(t)
  BY <1>2, <1>4, RolledBackStore
<1>6. OnTop(msg, L, RolledBackHeights(t)[t].hash)
  BY <1>1, <1>2, <1>5 DEF OnTop
<1>7. /\ Stored(headers', hashToHeight', t + L)
      /\ \A k \in BaseHeight..t : headers'[k] = RolledBackHeights(t)[k]
      /\ \A i \in 1..L : headers'[t + i] = ext[i]
  <2> DEFINE RH == RolledBackHeights(t)
             RHH == RolledBackHashes(t)
  <2> HIDE DEF RH, RHH
  <2>1. Stored(RH, RHH, t) /\ msg[1] \notin DOMAIN RHH /\ OnTop(msg, L, RH[t].hash)
    BY <1>5, <1>6 DEF RH, RHH
  <2>2. /\ Stored(InsertedHeights(RH, ext), InsertedHashes(RHH, ext), t + L)
        /\ \A k \in BaseHeight..t : InsertedHeights(RH, ext)[k] = RH[k]
        /\ \A i \in 1..L : InsertedHeights(RH, ext)[t + i] = ext[i]
    BY <1>2, <1>3, <2>1, InsertedOnTop
  <2> QED BY <1>4, <2>2 DEF RH, RHH
<1>8. HooksTellTheChain'
  <2>1. MirrorRolledBack(headers[t]) = Hashes(RolledBackHeights(t))
    BY <1>2, ListenerRolledBack
  <2>2. mirror' = Hashes(headers')
    BY <1>4, <2>1, ListenerInserted
  <2> QED BY <2>2 DEF HooksTellTheChain, Hashes
<1>9. Accepted(t, L, msg, ext)
  BY <1>1, <1>3, <1>4, <1>5, <1>7, <1>8 DEF Accepted
<1> QED BY <1>2, <1>9

-----------------------------------------------------------------------------
\* The theorems

\* The first block of a difficulty period is a whole period above the base
\* header or is the base header itself.
LEMMA PeriodAboveBase ==
    ASSUME NEW k \in Nat, BaseHeight < k, k % Interval = 0
    PROVE  BaseHeight <= k - Interval
<1>1. PICK a \in Nat : BaseHeight = Interval * a
  BY BaseAssumption
<1>2. PICK b \in Nat : k = Interval * b
  BY BaseAssumption
<1>3. a < b
  <2>1. SUFFICES ASSUME b <= a PROVE FALSE
    OBVIOUS
  <2>2. Interval * b <= Interval * a
    BY <2>1, BaseAssumption
  <2> QED BY <1>1, <1>2, <2>2, BaseAssumption
<1>4. Interval * b = Interval * (b - 1) + Interval
  BY BaseAssumption
<1>5. Interval * a <= Interval * (b - 1)
  BY <1>3, BaseAssumption
<1> QED BY <1>1, <1>2, <1>4, <1>5, BaseAssumption

\* The invariant the three theorems share.
Inv == IInv /\ HooksTellTheChain /\ DifficultyOfOwnChain

LEMMA InitInv == Init => Inv
<1> SUFFICES ASSUME Init PROVE Inv
  OBVIOUS
<1> USE BaseAssumption, HeadersAssumption
<1>1. Stored(headers, hashToHeight, BaseHeight)
  BY DEF Init, HeaderInfo, Stored
<1>2. HooksTellTheChain
  BY DEF Init, HeaderInfo, HooksTellTheChain
<1>3. DifficultyOfOwnChain
  BY DEF Init, DifficultyOfOwnChain
<1> QED BY <1>1, <1>2, <1>3 DEF Inv, IInv

\* An accepted message keeps every difficulty that of the header's own chain.
LEMMA AcceptedInv ==
    ASSUME NEW n \in Nat, Stored(headers, hashToHeight, n), DifficultyOfOwnChain,
           NEW t \in BaseHeight..n, NEW L, NEW msg, NEW ext, Accepted(t, L, msg, ext)
    PROVE  Inv'
<1> USE BaseAssumption
<1>1. /\ L \in Nat \ {0} /\ t \in Nat
      /\ DOMAIN headers' = BaseHeight..(t + L)
      /\ DOMAIN headers = BaseHeight..n
      /\ DOMAIN ext = 1..L
      /\ \A i \in 1..L : ext[i].height = t + i
  <2>1. L \in Nat \ {0} /\ Infos(ext, msg, L, t) /\ Stored(headers', hashToHeight', t + L)
    BY DEF Accepted
  <2>2. DOMAIN headers' = BaseHeight..(t + L)
    BY <2>1 DEF Stored
  <2>3. DOMAIN headers = BaseHeight..n
    BY DEF Stored
  <2>4. t \in Nat
    OBVIOUS
  <2> QED BY <2>1, <2>2, <2>3, <2>4 DEF Infos
<1>2. \A k \in BaseHeight..t : headers'[k] = headers[k]
  BY DEF Accepted
<1>3. \A i \in 1..L : headers'[t + i] = ext[i]
  BY DEF Accepted
<1>4. ASSUME NEW i \in 1..L, NEW k \in BaseHeight..(t + i - 1)
      PROVE  getHeaderAtHeight(ext, i, k) = headers'[k].hash
  <2>1. CASE k <= t
    <3>1. k \in BaseHeight..t /\ k < ext[1].height
      BY <1>1, <2>1
    <3> QED BY <1>2, <3>1 DEF getHeaderAtHeight
  <2>2. CASE k > t
    <3>1. /\ i # 1 /\ ~(k < ext[1].height) /\ k - ext[1].height + 1 = k - t
          /\ k - t \in 1..L /\ t + (k - t) = k
      BY <1>1, <2>2
    <3> QED BY <1>3, <3>1 DEF getHeaderAtHeight
  <2> QED BY <1>1, <2>1, <2>2
<1>5. DifficultyOfOwnChain'
  <2>1. SUFFICES ASSUME NEW k \in BaseHeight..(t + L), k # BaseHeight
                 PROVE  Bits[headers'[k].hash] = IF k % Interval = 0
                                                 THEN Retarget[headers'[k - Interval].hash]
                                                 ELSE Bits[headers'[k - 1].hash]
    BY <1>1 DEF DifficultyOfOwnChain
  <2>2. k - 1 \in BaseHeight..(k - 1) /\ k \in Nat /\ BaseHeight < k
    BY <1>1, <2>1
  <2>3. k % Interval = 0 => k - Interval \in BaseHeight..(k - 1)
    BY <2>2, PeriodAboveBase
  <2>4. CASE k <= t
    <3>1. k \in DOMAIN headers \ {BaseHeight}
      BY <1>1, <2>1, <2>4
    <3>2. Bits[headers[k].hash] = IF k % Interval = 0
                                  THEN Retarget[headers[k - Interval].hash]
                                  ELSE Bits[headers[k - 1].hash]
      BY <3>1 DEF DifficultyOfOwnChain
    <3>3. headers'[k] = headers[k] /\ headers'[k - 1] = headers[k - 1]
      BY <1>1, <1>2, <2>1, <2>2, <2>4
    <3>4. k % Interval = 0 => headers'[k - Interval] = headers[k - Interval]
      BY <1>1, <1>2, <2>1, <2>3, <2>4
    <3> QED BY <3>2, <3>3, <3>4
  <2>5. CASE k > t
    <3> DEFINE i == k - t
    <3>1. i \in 1..L /\ k = t + i /\ ext[i].height = k /\ headers'[k] = ext[i]
      BY <1>1, <1>3, <2>1, <2>5
    <3> HIDE DEF i
    <3>2. Bits[ext[i].hash] = RequiredBits(ext, i)
      BY <1>1, <3>1 DEF Accepted, checkHeaders
    <3>3. getHeaderAtHeight(ext, i, k - 1) = headers'[k - 1].hash
      <4>1. k - 1 \in BaseHeight..(t + i - 1)
        BY <1>1, <2>2, <3>1
      <4> QED BY <1>4, <3>1, <4>1
    <3>4. k % Interval = 0 =>
              getHeaderAtHeight(ext, i, k - Interval) = headers'[k - Interval].hash
      <4>1. k % Interval = 0 => k - Interval \in BaseHeight..(t + i - 1)
        BY <1>1, <2>3, <3>1
      <4> QED BY <1>4, <3>1, <4>1
    <3> QED BY <3>1, <3>2, <3>3, <3>4 DEF RequiredBits
  <2> QED BY <1>1, <2>4, <2>5
<1>6. IInv' /\ HooksTellTheChain'
  BY <1>1 DEF Accepted, IInv
<1> QED BY <1>5, <1>6 DEF Inv

\* Every message and every change of the parameters keeps the invariant.
LEMMA NextInv == Inv /\ [Next]_vars => Inv'
<1> SUFFICES ASSUME Inv, [Next]_vars PROVE Inv'
  OBVIOUS
<1>1. PICK n \in Nat : Stored(headers, hashToHeight, n)
  BY DEF Inv, IInv
<1>2. HooksTellTheChain /\ DifficultyOfOwnChain
  BY DEF Inv
<1>3. n \in BaseHeight..n
  BY <1>1, BaseAssumption DEF Stored
<1>4. ASSUME NEW r \in Reporters, NEW msg \in Messages, ExtendTip(r, msg) PROVE Inv'
  BY <1>1, <1>2, <1>3, <1>4, ExtendTipAccepted, AcceptedInv
<1>5. ASSUME NEW r \in Reporters, NEW msg \in Messages, SwitchToFork(r, msg) PROVE Inv'
  BY <1>1, <1>2, <1>5, SwitchToForkAccepted, AcceptedInv
<1>6. ASSUME UNCHANGED <<headers, hashToHeight, mirror>> PROVE Inv'
  BY <1>1, <1>2, <1>6 DEF Inv, IInv, Stored, HooksTellTheChain, DifficultyOfOwnChain
<1>7. CASE \E A \in SUBSET Reporters : UpdateParams(A)
  BY <1>6, <1>7 DEF UpdateParams
<1>8. CASE UNCHANGED vars
  BY <1>6, <1>8 DEF vars
<1> QED BY <1>4, <1>5, <1>7, <1>8 DEF Next

LEMMA SpecInv == Spec => []Inv
BY InitInv, NextInv, PTL DEF Spec

\* For every tree of headers and messages of every length, the store by height
\* and the index by hash describe one chain that starts at the base header,
\* whatever was rolled back and inserted.
THEOREM StoresDescribeOneChain == Spec => []OneChain
<1>1. Inv => OneChain
  <2> SUFFICES ASSUME NEW n \in Nat, Stored(headers, hashToHeight, n) PROVE OneChain
    BY DEF Inv, IInv
  <2> USE BaseAssumption
  <2>1. DOMAIN headers = BaseHeight..n /\ BaseHeight \in BaseHeight..n
    BY DEF Stored
  <2>2. ASSUME NEW k \in BaseHeight..n
        PROVE  /\ headers[k].height = k
               /\ k = BaseHeight => headers[k].hash = Base
               /\ headers[k].hash \in DOMAIN hashToHeight
    BY DEF Stored
  <2>3. ASSUME NEW k \in BaseHeight..n, k # BaseHeight
        PROVE  /\ k - 1 \in BaseHeight..n
               /\ headers[k].hash # Base
               /\ Parent[headers[k].hash] = headers[k - 1].hash
    <3>1. k \in (BaseHeight + 1)..n /\ k - 1 \in BaseHeight..n
      BY <2>3
    <3> QED BY <3>1 DEF Stored
  <2>4. \A h \in DOMAIN hashToHeight : /\ hashToHeight[h] \in BaseHeight..n
                                       /\ headers[hashToHeight[h]].hash = h
    BY DEF Stored
  <2> QED BY <2>1, <2>2, <2>3, <2>4 DEF OneChain
<1> QED BY <1>1, SpecInv, PTL

\* For every difficulty rule and length of the period, the difficulty of each
\* stored header is the one that follows from its own ancestors, also when
\* these were in the same message or the store held another chain above the
\* fork.
THEOREM DifficultyIsOfOwnChain == Spec => []DifficultyOfOwnChain
<1>1. Inv => DifficultyOfOwnChain
  BY DEF Inv
<1> QED BY <1>1, SpecInv, PTL

\* A listener that applies the calls of AfterBTCRollBack and
\* AfterBTCHeaderInserted in their order always knows the stored chain.
THEOREM ListenersKnowTheChain == Spec => []HooksTellTheChain
<1>1. Inv => HooksTellTheChain
  BY DEF Inv
<1> QED BY <1>1, SpecInv, PTL
=============================================================================
