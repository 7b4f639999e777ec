--------------------------- MODULE AnnMineProofs ---------------------------
(***************************************************************************)
(* That the announcement miner works on the block it should, whatever      *)
(* chains the pool follows, and that what it finds is in one place and in  *)
(* a batch of its height, for any tree of blocks, any lists of URLs and    *)
(* any sizes of the ring, the batches and the queues.                      *)
(***************************************************************************)
EXTENDS AnnMine, SequenceTheorems, FiniteSetTheorems, NaturalsInduction, TLAPS

\* Handlers are in use once they are made; the handlers of a URL are numbered,
\* and are no more than the configurations that cfg_loop has fetched.
MadeFor(url) == {h \in made : UrlOf(h) = url}
Pending == Len(chan) + (IF cpc = "discover" THEN 1 ELSE 0)
Latest == IF cpc = "discover" THEN conf ELSE mc
MadeInv ==
    /\ \A i \in DOMAIN handlers : handlers[i] \in made
    /\ \A url \in Urls :
         /\ \A k \in 1 .. MaxChanges + 1 : <<url, k>> \in made => k <= Cardinality(MadeFor(url))
         /\ Cardinality(MadeFor(url)) + Pending <= changes + 1
         /\ Latest /= Published =>
              Cardinality(MadeFor(url)) + Pending <= changes

\* The blocks of an update are those of the chain below its tip, and its
\* mine_old_anns is one that the pool has given.
UpdateInv ==
    /\ old \in olds
    /\ cpc = "discover" => conf \in Conf /\ conf.old \in olds
    /\ \A i \in DOMAIN chan :
         /\ chan[i].conf.old \in olds
         /\ Len(chan[i].blocks) <= Depth
         /\ \A j \in DOMAIN chan[i].blocks :
              chan[i].blocks[j] = Ancestor(chan[i].conf.tip, j - 1)
BaseInv == TypeOK /\ MadeInv /\ UpdateInv

\* A handler that is not made has nothing, and an uploader has what it posts.
EmptyInv ==
    /\ \A h \in Handlers : h \notin made => htip[h].anns = <<>> /\ queue[h] = <<>>
    /\ \A l \in Loops : loop[l].at /= "post" => loop[l].b.anns = <<>>

PlaceInv ==
    /\ \A a \in DOMAIN found : \E x : Places(a) = {x}
    /\ \A a \in Anns \ DOMAIN found : Places(a) = {}

-----------------------------------------------------------------------------
\* What recent_work has of the heights up to the highest one seen, and how far
\* below that one the miner is, while no update was missed.
TipHeight(u) == Height[u.conf.tip]
Low(u) == TipHeight(u) - Len(u.blocks)
SeenBefore(i, g) ==
    \/ job /= None /\ g <= peak
    \/ \E j \in 1 .. i - 1 : g <= TipHeight(chan[j])
RestInv ==
    IF job = None
    THEN mining = -1 /\ peak = 0 /\ \A s \in 0 .. Ring - 1 : work[s] = None
    ELSE /\ Height[job] = mining /\ mining \in peak - Depth + 1 .. peak
         /\ \A g \in peak - Depth + 1 .. peak :
              g \in Nat /\ work[Slot(g)] /= None /\ Height[work[Slot(g)]] = g
         /\ \A s \in 0 .. Ring - 1 : work[s] /= None => Height[work[s]] <= peak
HeightInv ==
    /\ RestInv
    /\ \A i \in DOMAIN chan :
         Len(chan[i].blocks) = Depth \/ SeenBefore(i, Low(chan[i]))
    /\ \A g \in Heights : chain[g] /= None => SeenBefore(Len(chan) + 1, g)
HeightsKept == ~missed => HeightInv

\* An update continues the chain of the one before it, while the tip never
\* moved down.
Linked(c, u) ==
    /\ Height[c.tip] <= TipHeight(u)
    /\ \/ Len(u.blocks) = Depth
       \/ \E d \in 0 .. Depth :
            /\ Height[c.tip] - d = Low(u)
            /\ Ancestor(c.tip, d) = Ancestor(u.conf.tip, Len(u.blocks))
Within(k) == \E lo, hi \in olds : lo <= k /\ k <= hi
Synced(c) ==
    /\ peak = Height[c.tip]
    /\ Within(Height[c.tip] - mining) /\ job = Ancestor(c.tip, Height[c.tip] - mining)
    /\ \A i \in 0 .. Depth - 1 : work[Slot(Height[c.tip] - i)] = Ancestor(c.tip, i)
    /\ {UrlOf(handlers[i]) : i \in DOMAIN handlers} = {c.urls[i] : i \in DOMAIN c.urls}
ChainInv ==
    IF mc = None THEN \A g \in Heights : chain[g] = None
    ELSE /\ \A i \in 0 .. Depth : chain[Height[mc.tip] - i] = Ancestor(mc.tip, i)
         /\ \A g \in Heights : g > Height[mc.tip] => chain[g] = None
         /\ Height[mc.tip] <= Height[tip]
         /\ cpc = "discover" => Height[mc.tip] <= Height[conf.tip]
LinkInv ==
    /\ cpc = "discover" => Height[conf.tip] <= Height[tip]
    /\ \A i \in DOMAIN chan : i > 1 => Linked(chan[i - 1].conf, chan[i])
    /\ chan /= <<>> => mc = chan[Len(chan)].conf
    /\ IF job = None
       THEN IF chan = <<>> THEN mc = None ELSE Len(chan[1].blocks) = Depth
       ELSE \E c \in Conf : /\ Synced(c)
                            /\ IF chan = <<>> THEN mc = c ELSE Linked(c, chan[1])
SyncInv == ~missed /\ ~down => ChainInv /\ LinkInv

-----------------------------------------------------------------------------
(* Numbers and chains.                                                     *)

\* Induction up to n, over a set of numbers.
LEMMA UpTo ==
    ASSUME NEW n \in Nat, NEW G, 0 \in G, \A k \in 1 .. n : k - 1 \in G => k \in G
    PROVE  0 .. n \subseteq G
<1> DEFINE Bad == {k \in 0 .. n : k \notin G}
           R == OpToRel(<, Nat)
<1> SUFFICES ASSUME Bad # {} PROVE FALSE
  OBVIOUS
<1>1. IsWellFoundedOn(R, Nat)
  BY NatLessThanWellFounded
<1> HIDE DEF R
<1>2. PICK k \in Bad : \A y \in Bad : ~(<<y, k>> \in R)
  <2>1. Bad \subseteq Nat
    OBVIOUS
  <2> HIDE DEF Bad
  <2> QED BY <1>1, <2>1, WFMin
<1>3. \A x, y \in Nat : x < y => <<x, y>> \in R
  BY DEF OpToRel, R
<1>4. k \in 1 .. n /\ k \notin G /\ k - 1 \in Nat /\ k \in Nat /\ k - 1 < k
  OBVIOUS
<1>5. k - 1 \notin Bad
  BY <1>2, <1>3, <1>4
<1> QED BY <1>4, <1>5

\* The first number of a set, or n if it has none below n.
LEMMA FirstIn ==
    ASSUME NEW n \in Nat, NEW G
    PROVE  \E m \in 0 .. n : (m = n \/ m \in G) /\ \A i \in 0 .. m - 1 : i \notin G
<1> DEFINE First(m) == (m = n \/ m \in G) /\ \A i \in 0 .. m - 1 : i \notin G
           H == {k \in 0 .. n : (\A i \in 0 .. k - 1 : i \notin G) \/ \E m \in 0 .. n : First(m)}
<1>1. 0 \in H
  OBVIOUS
<1>2. ASSUME NEW k \in 1 .. n, k - 1 \in H PROVE k \in H
  <2>1. CASE \E m \in 0 .. n : First(m)
    BY <2>1
  <2>2. CASE \A i \in 0 .. (k - 1) - 1 : i \notin G
    <3>1. CASE k - 1 \in G
      <4>1. First(k - 1) /\ k - 1 \in 0 .. n
        BY <2>2, <3>1
      <4> QED BY <4>1
    <3>2. CASE k - 1 \notin G
      <4>1. \A i \in 0 .. k - 1 : i \notin G
        BY <2>2, <3>2
      <4> QED BY <4>1
    <3> QED BY <3>1, <3>2
  <2> QED BY <1>2, <2>1, <2>2
<1>3. n \in H
  <2>1. 0 .. n \subseteq H
    <3> HIDE DEF H
    <3> QED BY <1>1, <1>2, UpTo
  <2> QED BY <2>1
<1>4. CASE \A i \in 0 .. n - 1 : i \notin G
  <2>1. First(n) /\ n \in 0 .. n
    BY <1>4
  <2> QED BY <2>1
<1> QED BY <1>3, <1>4

\* Ancestor steps along Prev.
LEMMA AncestorDef ==
    ASSUME NEW b
    PROVE  /\ Ancestor(b, 0) = b
           /\ \A i \in 1 .. Depth : Ancestor(b, i) = Prev[Ancestor(b, i - 1)]
<1> DEFINE n == Depth
           Body(g, i) == IF i = 0 THEN b ELSE Prev[g[i - 1]]
           Step(g, k) == \A i \in 0 .. k : g[i] = Body(g, i)
           G == {k \in 0 .. n : \E g : g = [i \in 0 .. k |-> g[i]] /\ Step(g, k)}
           F(f) == [i \in 0 .. n |-> Body(f, i)]
           anc == CHOOSE f : f = F(f)
<1>1. n \in Nat
  BY PoolClientAssumption
<1>2. \A g, h : \A i \in 0 .. n : (i # 0 => g[i - 1] = h[i - 1]) => Body(g, i) = Body(h, i)
  OBVIOUS
<1>3. \A i : Ancestor(b, i) = anc[i]
  BY DEF Ancestor
<1>4. /\ \A g : Body(g, 0) = b
      /\ \A g : \A i \in 1 .. n : Body(g, i) = Prev[g[i - 1]]
  OBVIOUS
<1> HIDE DEF n, Body, anc
<1>5. 0 \in G
  <2> DEFINE g == [i \in 0 .. 0 |-> b]
  <2>1. g = [i \in 0 .. 0 |-> g[i]] /\ Step(g, 0)
    BY <1>4
  <2>2. 0 \in 0 .. n
    BY <1>1
  <2> HIDE DEF g, Step
  <2> QED BY <2>1, <2>2
<1>6. ASSUME NEW k \in 1 .. n, k - 1 \in G PROVE k \in G
  <2>1. k \in 0 .. n /\ k - 1 \in 0 .. k - 1 /\ k # 0
    BY <1>1
  <2>2. PICK g : Step(g, k - 1)
    BY <1>6
  <2> DEFINE h == [i \in 0 .. k |-> IF i = k THEN Body(g, k) ELSE g[i]]
  <2>3. /\ h[k] = Body(g, k)
        /\ \A i \in 0 .. k - 1 : h[i] = g[i]
    BY <2>1
  <2>5. h = [i \in 0 .. k |-> h[i]]
    OBVIOUS
  <2> HIDE DEF h
  <2>4. ASSUME NEW i \in 0 .. k PROVE h[i] = Body(h, i)
    <3>1. i # 0 => h[i - 1] = g[i - 1]
      BY <2>1, <2>3
    <3>2. Body(h, i) = Body(g, i)
      BY <1>1, <1>2, <2>1, <3>1
    <3> QED BY <2>2, <2>3, <3>2
  <2> QED BY <2>1, <2>4, <2>5
<1>7. n \in G
  <2>1. 0 .. n \subseteq G
    <3> HIDE DEF G
    <3> QED BY <1>1, <1>5, <1>6, UpTo
  <2>2. n \in 0 .. n
    BY <1>1
  <2> QED BY <2>1, <2>2
<1>8. PICK g : g = [i \in 0 .. n |-> g[i]] /\ Step(g, n)
  BY <1>7
<1>9. anc = F(anc)
  <2>1. g = F(g)
    BY <1>8
  <2> QED BY <2>1 DEF anc
<1>10. \A i \in 0 .. n : anc[i] = Body(anc, i)
  BY <1>9
<1>11. anc[0] = b /\ \A i \in 1 .. n : anc[i] = Prev[anc[i - 1]]
  BY <1>1, <1>4, <1>10
<1> QED BY <1>3, <1>11 DEF n

\* The blocks below a tip, by their heights.
LEMMA AncestorHeight ==
    ASSUME NEW t \in Tips
    PROVE  /\ Height[t] \in Nat
           /\ \A i \in 0 .. Depth : /\ Ancestor(t, i) \in Blocks /\ i <= Height[t]
                                   /\ Height[Ancestor(t, i)] = Height[t] - i
                                   /\ Height[t] - i \in Heights
<1>1. /\ Height[t] \in Nat /\ Depth \in Nat /\ t \in Blocks
      /\ \A b \in Blocks : Height[b] \in Nat
      /\ \A b \in Blocks : Prev[b] # None => Height[Prev[b]] = Height[b] - 1
      /\ None \notin Blocks
  BY PoolClientAssumption
<1>2. \A i \in 0 .. Depth : Ancestor(t, i) \in Blocks
  BY TipsAreDeep
<1> DEFINE G == {i \in 0 .. Depth : Height[Ancestor(t, i)] = Height[t] - i}
<1>3. 0 \in G
  BY <1>1, AncestorDef
<1>4. ASSUME NEW i \in 1 .. Depth, i - 1 \in G PROVE i \in G
  <2>0. Ancestor(t, i) = Prev[Ancestor(t, i - 1)]
    BY AncestorDef
  <2>1. Ancestor(t, i) = Prev[Ancestor(t, i - 1)] /\ i \in 0 .. Depth /\ i - 1 \in 0 .. Depth
    BY <1>1, <2>0
  <2>2. Ancestor(t, i) \in Blocks /\ Ancestor(t, i - 1) \in Blocks
    BY <1>2, <2>1
  <2>3. Height[Ancestor(t, i)] = Height[Ancestor(t, i - 1)] - 1
    BY <1>1, <2>1, <2>2
  <2>4. Height[Ancestor(t, i)] = Height[t] - i
    BY <1>1, <1>4, <2>3
  <2> QED BY <2>1, <2>4
<1>5. 0 .. Depth \subseteq G
  <2> HIDE DEF G
  <2> QED BY <1>1, <1>3, <1>4, UpTo
<1>6. ASSUME NEW i \in 0 .. Depth
      PROVE  /\ Ancestor(t, i) \in Blocks /\ i <= Height[t]
             /\ Height[Ancestor(t, i)] = Height[t] - i
             /\ Height[t] - i \in Heights
  <2>1. Height[Ancestor(t, i)] = Height[t] - i
    BY <1>5
  <2>2. Height[Ancestor(t, i)] \in Nat /\ Ancestor(t, i) \in Blocks
    BY <1>1, <1>2
  <2>3. Height[t] - i \in Heights
    BY <2>1, <2>2 DEF Heights
  <2> QED BY <1>1, <2>1, <2>2, <2>3
<1> QED BY <1>1, <1>6

\* Quotient and remainder.
LEMMA DivMod ==
    ASSUME NEW R \in Nat \ {0}, NEW x \in Int
    PROVE  x = R * (x \div R) + (x % R) /\ x \div R \in Int /\ x % R \in 0 .. R - 1
OBVIOUS

\* Two heights of one slot of the ring are the same or a ring apart.
LEMMA SameSlot ==
    ASSUME NEW x \in Int, NEW y \in Int, Slot(x) = Slot(y), x < y, y < x + Ring
    PROVE  FALSE
<1>1. Ring \in Nat \ {0}
  BY AnnMineAssumption, PoolClientAssumption
<1>2. PICK p \in Int : p = x \div Ring
  BY <1>1, DivMod
<1>3. PICK q \in Int : q = y \div Ring
  BY <1>1, DivMod
<1>9. PICK r \in Int : r = x % Ring
  <2>1. x % Ring \in 0 .. Ring - 1
    BY <1>1, DivMod
  <2> QED BY <1>1, <2>1
<1>10. x = Ring * p + r /\ y = Ring * q + r
  BY <1>1, <1>2, <1>3, <1>9, DivMod DEF Slot
<1>4. PICK k \in Int : k = q - p
  OBVIOUS
<1>5. y - x = Ring * k
  BY <1>1, <1>4, <1>10
<1>6. 0 < Ring * k /\ Ring * k < Ring
  BY <1>1, <1>5
<1>7. CASE k <= 0
  <2>1. Ring * k <= 0
    BY <1>1, <1>7
  <2> QED BY <1>1, <1>6, <2>1
<1>8. CASE k >= 1
  <2>1. Ring * k >= Ring
    BY <1>1, <1>8
  <2> QED BY <1>1, <1>6, <2>1
<1> QED BY <1>7, <1>8

\* The blocks of an update are less than a ring apart.
LEMMA LessThanARing ==
    ASSUME NEW h \in Int, NEW R \in Int, NEW n \in Int, n < R,
           NEW i \in 1 .. n, NEW j \in 1 .. n
    PROVE  h - (i - 1) < (h - (j - 1)) + R
OBVIOUS

\* A height has a slot.
LEMMA SlotType == \A x \in Int : Slot(x) \in 0 .. Ring - 1
<1>1. Ring \in Nat \ {0}
  BY AnnMineAssumption, PoolClientAssumption
<1> QED BY <1>1, DivMod DEF Slot

\* How far discover_blocks goes.
LEMMA FetchedDef ==
    ASSUME NEW b
    PROVE  /\ Fetched(b) \in 0 .. Depth + 1
           /\ Fetched(b) = Depth + 1 \/ Known(Ancestor(b, Fetched(b)))
           /\ \A i \in 0 .. Fetched(b) - 1 : ~Known(Ancestor(b, i))
           /\ Returned(b) \in 0 .. Depth
           /\ Returned(b) = Depth \/ Returned(b) = Fetched(b)
<1>1. Depth \in Nat
  BY PoolClientAssumption
<1> DEFINE n == Depth + 1
           G == {i \in 0 .. n : Known(Ancestor(b, i))}
           First(m) == /\ m = n \/ Known(Ancestor(b, m))
                       /\ \A i \in 0 .. m - 1 : ~Known(Ancestor(b, i))
<1>2. \E m \in 0 .. n : (m = n \/ m \in G) /\ \A i \in 0 .. m - 1 : i \notin G
  <2>1. n \in Nat
    BY <1>1
  <2> HIDE DEF n, G
  <2> QED BY <2>1, FirstIn
<1>3. \E m \in 0 .. n : First(m)
  <2>1. PICK m \in 0 .. n : (m = n \/ m \in G) /\ \A i \in 0 .. m - 1 : i \notin G
    BY <1>2
  <2>2. \A i \in 0 .. m - 1 : i \in 0 .. n
    BY <1>1
  <2>3. First(m)
    BY <2>1, <2>2
  <2> QED BY <2>3
<1>4. Fetched(b) = CHOOSE m \in 0 .. n : First(m)
  BY DEF Fetched
<1>5. Fetched(b) \in 0 .. n /\ First(Fetched(b))
  <2> HIDE DEF First
  <2> QED BY <1>3, <1>4
<1> QED BY <1>1, <1>5 DEF Returned

\* The handlers of a URL can be counted.
LEMMA MadeCount ==
    ASSUME made \subseteq Handlers, NEW url
    PROVE  IsFiniteSet(MadeFor(url)) /\ Cardinality(MadeFor(url)) \in Nat
<1>1. MaxChanges + 1 \in Nat
  BY PoolClientAssumption
<1>2. IsFiniteSet(1 .. MaxChanges + 1)
  BY <1>1, FS_Interval
<1>3. IsFiniteSet({url}) /\ IsFiniteSet({url} \X (1 .. MaxChanges + 1))
  BY <1>2, FS_Singleton, FS_Product
<1>4. MadeFor(url) \subseteq {url} \X (1 .. MaxChanges + 1)
  BY DEF MadeFor, UrlOf, Handlers
<1>5. IsFiniteSet(MadeFor(url))
  BY <1>3, <1>4, FS_Subset
<1> QED BY <1>5, FS_CardinalityType

-----------------------------------------------------------------------------
(* Types and handlers: the pool client.                                    *)

\* The count of a URL's handlers against what cfg_loop has fetched.
Counted(n) ==
    /\ n + Pending <= changes + 1
    /\ Latest /= Published => n + Pending <= changes

\* MadeInv, for the handlers there are.
LEMMA MadeFrame ==
    ASSUME BaseInv, UNCHANGED <<handlers, made>>,
           \A n \in Nat : Counted(n) => Counted(n)'
    PROVE  MadeInv'
<1>1. \A url : MadeFor(url)' = MadeFor(url)
  BY DEF MadeFor
<1>2. ASSUME NEW url \in Urls
      PROVE  /\ \A k \in 1 .. MaxChanges + 1 : <<url, k>> \in made => k <= Cardinality(MadeFor(url))
             /\ Counted(Cardinality(MadeFor(url)))'
  <2>1. Cardinality(MadeFor(url)) \in Nat
    BY MadeCount DEF BaseInv, TypeOK
  <2>2. PICK n \in Nat : n = Cardinality(MadeFor(url))
    BY <2>1
  <2>3. Counted(n)
    BY <2>2 DEF BaseInv, MadeInv, Counted
  <2>4. Counted(n)'
    BY <2>3
  <2>5. Cardinality(MadeFor(url))' = n
    BY <1>1, <2>2
  <2> QED BY <2>2, <2>4, <2>5 DEF BaseInv, MadeInv
<1> QED BY <1>1, <1>2 DEF BaseInv, MadeInv, Counted

\* Whatever the client and the master do.
LEMMA PoolFrame ==
    ASSUME BaseInv, UNCHANGED annMineVars, PoolTypeOK', UpdateInv',
           \A n \in Nat : Counted(n) => Counted(n)'
    PROVE  BaseInv'
<1>1. UNCHANGED <<started, found, work, mining, handlers, toStop, job, peak, made, shutdown,
                  results, hand, htip, queue, loop, over>>
  BY DEF annMineVars, workVars, uploadVars
<1>2. TypeOK'
  BY <1>1 DEF BaseInv, TypeOK
<1>3. MadeInv'
  BY <1>1, MadeFrame
<1> QED BY <1>2, <1>3 DEF BaseInv

\* The parts of the types that the counts need.
LEMMA PendingType ==
    ASSUME PoolTypeOK
    PROVE  Len(chan) \in Nat /\ Pending \in Nat /\ changes \in Nat
BY PoolClientAssumption DEF PoolTypeOK, Pending

\* The master changes.
LEMMA MasterChangesBase ==
    ASSUME BaseInv, NEW c \in Confs, MasterChanges(c), UNCHANGED annMineVars
    PROVE  BaseInv'
<1>1. /\ changes < MaxChanges /\ changes' = changes + 1
      /\ tip' = c.tip /\ urls' = c.urls /\ old' = c.old /\ olds' = olds \cup {c.old}
      /\ down' = (down \/ Height[c.tip] < Height[tip])
      /\ UNCHANGED <<cpc, conf, mc, chain, subscribed, chan, lagged, missed>>
  BY DEF MasterChanges, clientVars, chanVars
<1>2. PoolTypeOK
  BY DEF BaseInv, TypeOK
<1>3. PoolTypeOK'
  <2>1. changes' \in 0 .. MaxChanges
    BY <1>1, <1>2, PoolClientAssumption DEF PoolTypeOK
  <2>2. tip' \in Tips /\ urls' \in UrlLists /\ old' \in Olds
    BY <1>1 DEF Tips, UrlLists, Olds
  <2>3. olds' \subseteq Olds /\ down' \in BOOLEAN
    BY <1>1, <1>2, <2>2 DEF PoolTypeOK
  <2> QED BY <1>1, <1>2, <2>1, <2>2, <2>3 DEF PoolTypeOK
<1>4. UpdateInv'
  BY <1>1 DEF BaseInv, UpdateInv
<1>5. ASSUME NEW n \in Nat, Counted(n) PROVE Counted(n)'
  <2>1. Pending' = Pending /\ Pending \in Nat /\ changes \in Nat
    BY <1>1, <1>2, PendingType DEF Pending
  <2> QED BY <1>1, <1>5, <2>1 DEF Counted
<1> QED BY <1>3, <1>4, <1>5, PoolFrame

\* cfg_loop fetches.
LEMMA FetchConfBase ==
    ASSUME BaseInv, FetchConf, UNCHANGED annMineVars PROVE BaseInv'
<1>1. /\ cpc = "poll" /\ mc /= Published
      /\ conf' = Published /\ cpc' = "discover"
      /\ UNCHANGED <<tip, urls, old, changes, olds, down, mc, chain, subscribed, chan, lagged, missed>>
  BY DEF FetchConf, masterVars, chanVars
<1>2. PoolTypeOK
  BY DEF BaseInv, TypeOK
<1>3. conf' \in Conf /\ conf'.old = old
  BY <1>1, <1>2 DEF PoolTypeOK, Conf, Published
<1>4. PoolTypeOK'
  BY <1>1, <1>2, <1>3 DEF PoolTypeOK
<1>5. UpdateInv'
  BY <1>1, <1>3 DEF BaseInv, UpdateInv
<1>6. ASSUME NEW n \in Nat, Counted(n) PROVE Counted(n)'
  <2>1. Pending' = Pending + 1 /\ Pending \in Nat /\ changes \in Nat
    BY <1>1, <1>2, PendingType DEF Pending
  <2>2. Latest # Published
    BY <1>1 DEF Latest
  <2>3. n + Pending <= changes
    BY <1>6, <2>2 DEF Counted
  <2>4. Latest' = Published'
    BY <1>1 DEF Latest, Published
  <2> QED BY <1>1, <2>1, <2>3, <2>4 DEF Counted
<1> QED BY <1>4, <1>5, <1>6, PoolFrame

\* The update that ends a cycle of cfg_loop.
NewUpdate ==
    [conf |-> conf, blocks |-> [i \in 1 .. Returned(conf.tip) |-> Ancestor(conf.tip, i - 1)]]
\* It is an update: the blocks below its tip, no more than Depth of them.
LEMMA NewUpdateType ==
    ASSUME conf \in Conf
    PROVE  /\ NewUpdate \in Update /\ NewUpdate.conf = conf /\ conf.tip \in Tips
           /\ Len(NewUpdate.blocks) = Returned(conf.tip)
           /\ Returned(conf.tip) \in 0 .. Depth
           /\ DOMAIN NewUpdate.blocks = 1 .. Returned(conf.tip)
           /\ \A j \in 1 .. Returned(conf.tip) : NewUpdate.blocks[j] = Ancestor(conf.tip, j - 1)
<1>1. conf.tip \in Tips
  BY DEF Conf
<1>2. Returned(conf.tip) \in 0 .. Depth /\ Depth \in Nat
  BY FetchedDef, PoolClientAssumption
<1>3. \A i \in 1 .. Returned(conf.tip) : Ancestor(conf.tip, i - 1) \in Blocks
  BY <1>1, <1>2, TipsAreDeep
<1> DEFINE B == [i \in 1 .. Returned(conf.tip) |-> Ancestor(conf.tip, i - 1)]
<1>4. B \in Seq(Blocks) /\ Len(B) = Returned(conf.tip) /\ DOMAIN B = 1 .. Returned(conf.tip)
  BY <1>2, <1>3
<1>5. \A j \in 1 .. Returned(conf.tip) : B[j] = Ancestor(conf.tip, j - 1)
  OBVIOUS
<1>6. NewUpdate = [conf |-> conf, blocks |-> B]
  BY DEF NewUpdate
<1> HIDE DEF B
<1> QED BY <1>1, <1>2, <1>4, <1>5, <1>6 DEF Update

\* What the channel has after the send.
LEMMA SendChan ==
    ASSUME BaseInv, conf \in Conf, Send(NewUpdate)
    PROVE  /\ chan' \in Seq(Update) /\ Len(chan') <= ChanCap /\ Len(chan') <= Len(chan) + 1
           /\ lagged' \in BOOLEAN /\ missed' \in BOOLEAN /\ UNCHANGED subscribed
           /\ ~missed' => ~missed /\ chan' = Append(chan, NewUpdate)
           /\ \A i \in DOMAIN chan' :
                chan'[i] = NewUpdate \/ \E j \in DOMAIN chan : chan'[i] = chan[j]
<1>1. /\ chan \in Seq(Update) /\ Len(chan) \in Nat /\ Len(chan) <= ChanCap
      /\ ChanCap \in Nat \ {0} /\ NewUpdate \in Update
      /\ lagged \in BOOLEAN /\ missed \in BOOLEAN
  BY NewUpdateType, PoolClientAssumption DEF BaseInv, TypeOK, PoolTypeOK
<1>2. PICK u \in Update : u = NewUpdate
  BY <1>1
<1>3. /\ chan' = IF ~subscribed THEN chan
                 ELSE IF Len(chan) = ChanCap THEN Append(Tail(chan), u) ELSE Append(chan, u)
      /\ lagged' = (lagged \/ (subscribed /\ Len(chan) = ChanCap))
      /\ missed' = (missed \/ ~subscribed \/ Len(chan) = ChanCap)
      /\ UNCHANGED subscribed
  BY <1>2 DEF Send
<1>4. /\ lagged' \in BOOLEAN /\ missed' \in BOOLEAN
      /\ ~missed' => ~missed /\ subscribed /\ Len(chan) # ChanCap
  BY <1>1, <1>3
<1>5. CASE ~subscribed
  <2>1. chan' = chan
    BY <1>3, <1>5
  <2>2. Len(chan') <= Len(chan) + 1
    BY <1>1, <2>1
  <2> QED BY <1>1, <1>3, <1>4, <1>5, <2>1, <2>2
<1>6. CASE subscribed /\ Len(chan) = ChanCap
  <2>1. chan # <<>>
    BY <1>1, <1>6
  <2>2. Tail(chan) \in Seq(Update) /\ Len(Tail(chan)) = Len(chan) - 1
    BY <1>1, <2>1
  <2>3. \A i \in 1 .. Len(chan) - 1 : Tail(chan)[i] = chan[i + 1] /\ i + 1 \in DOMAIN chan
    BY <1>1, <2>1
  <2>4. PICK q \in Seq(Update) : q = Tail(chan)
    BY <2>2
  <2>5. chan' = Append(q, u)
    BY <1>3, <1>6, <2>4
  <2>6. chan' \in Seq(Update) /\ Len(chan') = Len(q) + 1
    BY <1>2, <2>4, <2>5
  <2>7. \A i \in DOMAIN chan' : chan'[i] = u \/ (i \in 1 .. Len(q) /\ chan'[i] = q[i])
    BY <1>2, <2>4, <2>5
  <2>8. Len(chan') = Len(chan)
    BY <1>1, <2>2, <2>4, <2>6
  <2>9. \A i \in DOMAIN chan' :
          chan'[i] = NewUpdate \/ \E j \in DOMAIN chan : chan'[i] = chan[j]
    BY <1>2, <2>2, <2>3, <2>4, <2>7
  <2>10. Len(chan') <= ChanCap /\ Len(chan') <= Len(chan) + 1
    BY <1>1, <2>8
  <2> QED BY <1>3, <1>4, <1>6, <2>6, <2>9, <2>10
<1>7. CASE subscribed /\ Len(chan) # ChanCap
  <2>1. chan' = Append(chan, u)
    BY <1>3, <1>7
  <2>2. chan' \in Seq(Update) /\ Len(chan') = Len(chan) + 1
    BY <1>1, <1>2, <2>1
  <2>3. \A i \in DOMAIN chan' : chan'[i] = u \/ (i \in DOMAIN chan /\ chan'[i] = chan[i])
    BY <1>1, <1>2, <2>1
  <2> QED BY <1>1, <1>2, <1>3, <1>4, <1>7, <2>1, <2>2, <2>3
<1> QED BY <1>5, <1>6, <1>7

\* What the chain has after discover_blocks.
LEMMA DiscoverChain ==
    ASSUME BaseInv, conf \in Conf, DiscoverBlocks
    PROVE  /\ chain' \in [Heights -> Blocks \cup {None}]
           /\ \A h \in Heights : chain'[h] /= None => Height[chain'[h]] = h
           /\ \A i \in 0 .. Fetched(conf.tip) - 1 :
                i <= Depth => chain'[Height[conf.tip] - i] = Ancestor(conf.tip, i)
           /\ \A h \in Heights :
                \/ chain'[h] = chain[h]
                \/ \E i \in 0 .. Fetched(conf.tip) - 1 : i <= Depth /\ h = Height[conf.tip] - i
           /\ \A h \in Heights :
                (\A i \in 0 .. Fetched(conf.tip) - 1 : h # Height[conf.tip] - i)
                  => chain'[h] = chain[h]
<1>1. PICK b \in Tips : b = conf.tip
  BY DEF Conf
<1>2. PICK n \in 0 .. Depth + 1 : n = Fetched(b)
  BY FetchedDef
<1>3. Depth \in Nat /\ Height[b] \in Nat
  BY PoolClientAssumption, AncestorHeight
<1>4. \A i \in 0 .. n - 1 : i \in 0 .. Depth
  BY <1>3
<1>5. /\ chain \in [Heights -> Blocks \cup {None}]
      /\ \A h \in Heights : chain[h] /= None => Height[chain[h]] = h
  BY DEF BaseInv, TypeOK, PoolTypeOK
<1>6. chain' = [h \in Heights |-> IF Discovered(b, h) = {} THEN chain[h]
                                  ELSE CHOOSE x \in Discovered(b, h) : TRUE]
  BY <1>1 DEF DiscoverBlocks
<1>7. \A h : Discovered(b, h) = {Ancestor(b, i) : i \in {j \in 0 .. n - 1 : Height[b] - j = h}}
  BY <1>2 DEF Discovered
<1>8. ASSUME NEW h \in Heights, NEW i \in 0 .. n - 1, Height[b] - i = h
      PROVE  chain'[h] = Ancestor(b, i) /\ Ancestor(b, i) \in Blocks
             /\ Height[Ancestor(b, i)] = h
  <2>1. \A j \in 0 .. n - 1 : Height[b] - j = h => j = i
    BY <1>3, <1>8
  <2>2. Discovered(b, h) = {Ancestor(b, i)}
    BY <1>7, <1>8, <2>1
  <2>3. chain'[h] = Ancestor(b, i)
    BY <1>6, <2>2
  <2> QED BY <1>4, <1>8, <2>3, AncestorHeight
<1>9. ASSUME NEW h \in Heights, \A i \in 0 .. n - 1 : h # Height[b] - i
      PROVE  chain'[h] = chain[h]
  <2>1. Discovered(b, h) = {}
    BY <1>7, <1>9
  <2> QED BY <1>6, <2>1
<1>10. \A h \in Heights : /\ chain'[h] \in Blocks \cup {None}
                          /\ chain'[h] /= None => Height[chain'[h]] = h
  <2> SUFFICES ASSUME NEW h \in Heights
               PROVE  /\ chain'[h] \in Blocks \cup {None}
                      /\ chain'[h] /= None => Height[chain'[h]] = h
    OBVIOUS
  <2>1. CASE \E i \in 0 .. n - 1 : h = Height[b] - i
    BY <1>8, <2>1
  <2>2. CASE \A i \in 0 .. n - 1 : h # Height[b] - i
    BY <1>5, <1>9, <2>2
  <2> QED BY <2>1, <2>2
<1>11. chain' \in [Heights -> Blocks \cup {None}]
  BY <1>6, <1>10
<1>12. \A i \in 0 .. n - 1 : Height[b] - i \in Heights
  BY <1>4, AncestorHeight
<1>13. \A i \in 0 .. n - 1 : chain'[Height[b] - i] = Ancestor(b, i)
  BY <1>8, <1>12
<1>14. \A h \in Heights : \/ chain'[h] = chain[h]
                          \/ \E i \in 0 .. n - 1 : i <= Depth /\ h = Height[b] - i
  BY <1>3, <1>4, <1>9
<1> QED BY <1>1, <1>2, <1>9, <1>10, <1>11, <1>13, <1>14

\* cfg_loop discovers and sends.
LEMMA DiscoverBlocksBase ==
    ASSUME BaseInv, DiscoverBlocks, UNCHANGED annMineVars PROVE BaseInv'
<1>1. /\ cpc = "discover" /\ conf \in Conf
      /\ mc' = conf /\ conf' = None /\ cpc' = "poll" /\ UNCHANGED <<tip, urls, old, changes, olds, down>>
  BY DEF DiscoverBlocks, masterVars, BaseInv, UpdateInv
<1>2. Send(NewUpdate)
  BY DEF DiscoverBlocks, NewUpdate
<1>3. /\ chan' \in Seq(Update) /\ Len(chan') <= ChanCap /\ Len(chan') <= Len(chan) + 1
      /\ lagged' \in BOOLEAN /\ missed' \in BOOLEAN /\ UNCHANGED subscribed
      /\ \A i \in DOMAIN chan' :
           chan'[i] = NewUpdate \/ \E j \in DOMAIN chan : chan'[i] = chan[j]
  BY <1>1, <1>2, SendChan
<1>4. /\ chain' \in [Heights -> Blocks \cup {None}]
      /\ \A h \in Heights : chain'[h] /= None => Height[chain'[h]] = h
  BY <1>1, DiscoverChain
<1>5. PoolTypeOK
  BY DEF BaseInv, TypeOK
<1>6. PoolTypeOK'
  BY <1>1, <1>3, <1>4, <1>5 DEF PoolTypeOK
<1>7. UpdateInv'
  <2> DEFINE Good(u) == /\ u.conf.old \in olds /\ Len(u.blocks) <= Depth
                        /\ \A j \in DOMAIN u.blocks : u.blocks[j] = Ancestor(u.conf.tip, j - 1)
  <2>1. Good(NewUpdate)
    <3>1. NewUpdate.conf.old \in olds
      BY <1>1, NewUpdateType DEF BaseInv, UpdateInv
    <3>2. /\ Len(NewUpdate.blocks) <= Depth
          /\ \A j \in DOMAIN NewUpdate.blocks :
               NewUpdate.blocks[j] = Ancestor(NewUpdate.conf.tip, j - 1)
      BY <1>1, NewUpdateType, PoolClientAssumption
    <3> QED BY <3>1, <3>2
  <2>2. \A j \in DOMAIN chan : Good(chan[j])
    BY DEF BaseInv, UpdateInv
  <2>3. \A i \in DOMAIN chan' : Good(chan'[i])
    <3> HIDE DEF Good
    <3> QED BY <1>3, <2>1, <2>2
  <2>4. old' \in olds'
    BY <1>1 DEF BaseInv, UpdateInv
  <2> QED BY <1>1, <2>3, <2>4 DEF UpdateInv
<1>8. ASSUME NEW n \in Nat, Counted(n) PROVE Counted(n)'
  <2>1. /\ Pending = Len(chan) + 1 /\ Pending' = Len(chan') /\ changes \in Nat
        /\ Len(chan) \in Nat /\ Len(chan') \in Nat
    BY <1>1, <1>5, <1>6, PendingType DEF Pending, PoolTypeOK
  <2>2. Latest' = Latest
    BY <1>1 DEF Latest
  <2> QED BY <1>1, <1>3, <1>8, <2>1, <2>2 DEF Counted, Published
<1> QED BY <1>6, <1>7, <1>8, PoolFrame

\* The receiver subscribes or is told that it lags.
LEMMA ReceiverBase ==
    ASSUME BaseInv, Subscribe \/ Lag, UNCHANGED annMineVars PROVE BaseInv'
<1>1. /\ UNCHANGED <<tip, urls, old, changes, olds, down, cpc, conf, mc, chain, chan, missed>>
      /\ subscribed' \in BOOLEAN /\ lagged' \in BOOLEAN
  BY DEF Subscribe, Lag, masterVars, clientVars, BaseInv, TypeOK, PoolTypeOK
<1>2. PoolTypeOK'
  BY <1>1 DEF BaseInv, TypeOK, PoolTypeOK
<1>3. UpdateInv'
  BY <1>1 DEF BaseInv, UpdateInv
<1>4. ASSUME NEW n \in Nat, Counted(n) PROVE Counted(n)'
  BY <1>1, <1>4 DEF Counted, Pending, Latest, Published
<1> QED BY <1>2, <1>3, <1>4, PoolFrame

-----------------------------------------------------------------------------
(* Types and handlers: update_work_cycle.                                  *)

\* The update that is received.
LEMMA UpdateParts ==
    ASSUME BaseInv, chan # <<>>, NEW u, u = Head(chan)
    PROVE  /\ u \in Update /\ u.conf \in Conf /\ u.conf.tip \in Tips /\ u.conf.urls \in UrlLists
           /\ u.blocks \in Seq(Blocks) /\ Len(u.blocks) \in 0 .. Depth
           /\ DOMAIN u.blocks = 1 .. Len(u.blocks)
           /\ u = chan[1] /\ 1 \in DOMAIN chan
           /\ u.conf.old \in olds /\ u.conf.old \in 0 .. Depth - 1
           /\ \A j \in 1 .. Len(u.blocks) :
                /\ u.blocks[j] = Ancestor(u.conf.tip, j - 1)
                /\ u.blocks[j] \in Blocks /\ Height[u.blocks[j]] = Height[u.conf.tip] - (j - 1)
                /\ Height[u.blocks[j]] \in Nat
<1>1. chan \in Seq(Update) /\ Depth \in Nat
  BY PoolClientAssumption DEF BaseInv, TypeOK, PoolTypeOK
<1>2. u \in Update /\ u = chan[1] /\ 1 \in DOMAIN chan
  BY <1>1
<1>3. /\ u.conf \in Conf /\ u.conf.tip \in Tips /\ u.conf.urls \in UrlLists /\ u.blocks \in Seq(Blocks)
  BY <1>2 DEF Update, Conf
<1>4. /\ Len(u.blocks) <= Depth /\ u.conf.old \in olds
      /\ \A j \in DOMAIN u.blocks : u.blocks[j] = Ancestor(u.conf.tip, j - 1)
  BY <1>2 DEF BaseInv, UpdateInv
<1>5. Len(u.blocks) \in 0 .. Depth /\ DOMAIN u.blocks = 1 .. Len(u.blocks)
  BY <1>1, <1>3, <1>4
<1>6. ASSUME NEW j \in 1 .. Len(u.blocks)
      PROVE  /\ u.blocks[j] \in Blocks /\ Height[u.blocks[j]] = Height[u.conf.tip] - (j - 1)
             /\ Height[u.blocks[j]] \in Nat
  <2>1. j - 1 \in 0 .. Depth
    BY <1>1, <1>5
  <2>2. u.blocks[j] = Ancestor(u.conf.tip, j - 1)
    BY <1>4, <1>5
  <2>3. /\ Ancestor(u.conf.tip, j - 1) \in Blocks
        /\ Height[Ancestor(u.conf.tip, j - 1)] = Height[u.conf.tip] - (j - 1)
    BY <1>3, <2>1, AncestorHeight
  <2> QED BY <2>2, <2>3, PoolClientAssumption
<1>7. u.conf.old \in 0 .. Depth - 1
  BY <1>3, AnnMineAssumption DEF Conf
<1> QED BY <1>2, <1>3, <1>4, <1>5, <1>6, <1>7

\* What a receive does to the client.
LEMMA ReceiveBase ==
    ASSUME BaseInv, NEW u, Receive(u)
    PROVE  /\ missed' \in BOOLEAN => PoolTypeOK'
           /\ chan' \in Seq(Update) /\ UpdateInv' /\ chan # <<>> /\ u = Head(chan)
           /\ UNCHANGED <<tip, urls, old, changes, olds, down, cpc, conf, mc, chain, subscribed, lagged>>
           /\ Len(chan') = Len(chan) - 1 /\ Len(chan) \in Nat \ {0}
           /\ \A i \in 1 .. Len(chan) - 1 : chan'[i] = chan[i + 1]
           /\ \A n \in Nat : Counted(n) => Counted(n)' /\ Counted(n + 1)'
<1>1. /\ chan # <<>> /\ u = Head(chan) /\ chan' = Tail(chan)
      /\ UNCHANGED <<tip, urls, old, changes, olds, down, cpc, conf, mc, chain, subscribed, lagged>>
  BY DEF Receive, masterVars, clientVars
<1>2. PoolTypeOK /\ chan \in Seq(Update) /\ Len(chan) <= ChanCap /\ ChanCap \in Nat /\ changes \in Nat
  BY PoolClientAssumption DEF BaseInv, TypeOK, PoolTypeOK
<1>3. /\ Len(chan) \in Nat \ {0} /\ chan' \in Seq(Update) /\ Len(chan') = Len(chan) - 1
      /\ \A i \in 1 .. Len(chan) - 1 : chan'[i] = chan[i + 1] /\ i + 1 \in DOMAIN chan
      /\ DOMAIN chan' = 1 .. Len(chan) - 1
  BY <1>1, <1>2
<1>4. ASSUME missed' \in BOOLEAN PROVE PoolTypeOK'
  <2>1. Len(chan') <= ChanCap
    BY <1>2, <1>3
  <2> QED BY <1>4, <1>1, <1>2, <1>3, <2>1 DEF PoolTypeOK
<1>5. UpdateInv'
  <2> DEFINE Good(v) == /\ v.conf.old \in olds /\ Len(v.blocks) <= Depth
                        /\ \A j \in DOMAIN v.blocks : v.blocks[j] = Ancestor(v.conf.tip, j - 1)
  <2>1. \A j \in DOMAIN chan : Good(chan[j])
    BY DEF BaseInv, UpdateInv
  <2>2. \A i \in DOMAIN chan' : Good(chan'[i])
    <3> HIDE DEF Good
    <3> QED BY <1>3, <2>1
  <2>3. old' \in olds' /\ (cpc' = "discover" => conf' \in Conf /\ conf'.old \in olds')
    BY <1>1 DEF BaseInv, UpdateInv
  <2> QED BY <1>1, <2>2, <2>3 DEF UpdateInv
<1>6. ASSUME NEW n \in Nat, Counted(n) PROVE Counted(n)' /\ Counted(n + 1)'
  <2>1. Pending' = Pending - 1 /\ Pending \in Nat
    BY <1>1, <1>2, <1>3, PendingType DEF Pending
  <2>2. Latest' = Latest /\ Published' = Published /\ UNCHANGED changes
    BY <1>1 DEF Latest, Published
  <2> QED BY <1>2, <1>6, <2>1, <2>2 DEF Counted
<1> QED BY <1>1, <1>3, <1>4, <1>5, <1>6

\* The blocks that are entered.
LEMMA EnteredDef ==
    ASSUME BaseInv, chan # <<>>, NEW u, u = Head(chan)
    PROVE  /\ Entered(u) \in Seq(Blocks) /\ Len(Entered(u)) \in 0 .. Len(u.blocks)
           /\ Len(Entered(u)) < Len(u.blocks) => Old(u.blocks[Len(Entered(u)) + 1])
           /\ \A i \in 1 .. Len(Entered(u)) : ~Old(u.blocks[i]) /\ Entered(u)[i] = u.blocks[i]
<1>1. u.blocks \in Seq(Blocks) /\ Len(u.blocks) \in Nat
  BY UpdateParts, PoolClientAssumption
<1> DEFINE n == Len(u.blocks)
           G == {i \in 0 .. n : Old(u.blocks[i + 1])}
           First(m) == /\ m < Len(u.blocks) => Old(u.blocks[m + 1])
                       /\ \A i \in 1 .. m : ~Old(u.blocks[i])
<1>2. PICK m \in 0 .. n : (m = n \/ m \in G) /\ \A i \in 0 .. m - 1 : i \notin G
  <2> HIDE DEF n, G
  <2>1. n \in Nat
    BY <1>1 DEF n
  <2> QED BY <2>1, FirstIn
<1>3. First(m)
  <2>1. m < n => Old(u.blocks[m + 1])
    BY <1>1, <1>2
  <2>2. ASSUME NEW i \in 1 .. m PROVE ~Old(u.blocks[i])
    <3>1. i - 1 \in 0 .. m - 1 /\ i - 1 \in 0 .. n /\ (i - 1) + 1 = i
      BY <1>1
    <3>2. i - 1 \notin G
      BY <1>2, <3>1
    <3> QED BY <3>1, <3>2
  <2> QED BY <2>1, <2>2
<1>4. PICK k : k = CHOOSE j \in 0 .. Len(u.blocks) : First(j)
  OBVIOUS
<1>5. k \in 0 .. Len(u.blocks) /\ First(k)
  <2> HIDE DEF First
  <2> QED BY <1>3, <1>4
<1>6. Entered(u) = SubSeq(u.blocks, 1, k)
  BY <1>4 DEF Entered
<1>7. /\ Entered(u) \in Seq(Blocks) /\ Len(Entered(u)) = k
      /\ \A i \in 1 .. k : Entered(u)[i] = u.blocks[i]
  BY <1>1, <1>5, <1>6
<1> QED BY <1>5, <1>7

\* recent_work with the blocks that are entered.
LEMMA WorkDef ==
    ASSUME BaseInv, chan # <<>>, NEW u, u = Head(chan)
    PROVE  /\ WithWork(u) \in [0 .. Ring - 1 -> Blocks \cup {None}]
           /\ \A i \in 1 .. Len(Entered(u)) : WithWork(u)[Slot(Height[u.blocks[i]])] = u.blocks[i]
           /\ \A s \in 0 .. Ring - 1 :
                \/ WithWork(u)[s] = work[s]
                \/ \E i \in 1 .. Len(Entered(u)) :
                     Slot(Height[u.blocks[i]]) = s /\ WithWork(u)[s] = u.blocks[i]
<1>1. PICK m \in 0 .. Len(u.blocks) : m = Len(Entered(u))
  BY EnteredDef
<1>2. /\ Len(u.blocks) \in 0 .. Depth /\ Depth \in Nat /\ Ring \in Nat /\ Depth < Ring
      /\ Height[u.conf.tip] \in Nat
  BY UpdateParts, AncestorHeight, PoolClientAssumption, AnnMineAssumption
<1>3. /\ DOMAIN Entered(u) = 1 .. m
      /\ \A i \in 1 .. m : Entered(u)[i] = u.blocks[i]
  BY <1>1, EnteredDef
<1>4. \A i \in 1 .. m : /\ i \in 1 .. Len(u.blocks)
                       /\ u.blocks[i] \in Blocks /\ Height[u.blocks[i]] \in Nat
                       /\ Height[u.blocks[i]] = Height[u.conf.tip] - (i - 1)
                       /\ Slot(Height[u.blocks[i]]) \in 0 .. Ring - 1
  <2>1. \A i \in 1 .. m : i \in 1 .. Len(u.blocks)
    BY <1>1, <1>2
  <2>2. \A i \in 1 .. m : /\ u.blocks[i] \in Blocks /\ Height[u.blocks[i]] \in Nat
                         /\ Height[u.blocks[i]] = Height[u.conf.tip] - (i - 1)
    BY <2>1, UpdateParts
  <2>3. \A x \in Nat : Slot(x) \in 0 .. Ring - 1
    BY SlotType
  <2> QED BY <2>1, <2>2, <2>3
<1>5. ASSUME NEW i \in 1 .. m, NEW j \in 1 .. m,
             Slot(Height[u.blocks[i]]) = Slot(Height[u.blocks[j]])
      PROVE  i = j
  <2>1. PICK x \in Nat, y \in Nat : x = Height[u.blocks[i]] /\ y = Height[u.blocks[j]]
    BY <1>4
  <2>2. /\ x = Height[u.conf.tip] - (i - 1) /\ y = Height[u.conf.tip] - (j - 1)
        /\ i \in 1 .. Len(u.blocks) /\ j \in 1 .. Len(u.blocks)
    BY <1>4, <2>1
  <2>5. Height[u.conf.tip] \in Int /\ Len(u.blocks) \in Int /\ Ring \in Int /\ Len(u.blocks) < Ring
    BY <1>2
  <2>3. x < y + Ring /\ y < x + Ring
    BY <2>2, <2>5, LessThanARing
  <2>4. ~(x < y) /\ ~(y < x)
    BY <1>5, <2>1, <2>3, SameSlot
  <2> QED BY <1>2, <2>2, <2>4
<1> DEFINE Here(s) == {i \in DOMAIN Entered(u) : Slot(Height[Entered(u)[i]]) = s}
           One(s) == CHOOSE i \in Here(s) : TRUE
           Entry(s) == IF Here(s) = {} THEN work[s] ELSE Entered(u)[One(s)]
<1>6. WithWork(u) = [s \in 0 .. Ring - 1 |-> Entry(s)]
  BY DEF WithWork
<1>7. \A s : Here(s) # {} => One(s) \in Here(s)
  OBVIOUS
<1>8. \A i \in 1 .. m : i \in Here(Slot(Height[u.blocks[i]]))
  BY <1>3
<1>9. \A s : \A i \in Here(s) : i \in 1 .. m /\ Slot(Height[u.blocks[i]]) = s
  BY <1>3
<1> HIDE DEF Here, One
<1>10. ASSUME NEW i \in 1 .. m PROVE WithWork(u)[Slot(Height[u.blocks[i]])] = u.blocks[i]
  <2>1. PICK s \in 0 .. Ring - 1 : s = Slot(Height[u.blocks[i]])
    BY <1>4
  <2>2. Here(s) # {} /\ i \in Here(s)
    BY <1>8, <2>1
  <2>3. One(s) = i
    BY <1>5, <1>7, <1>9, <2>1, <2>2, ZenonT(40)
  <2>4. Entry(s) = u.blocks[i]
    BY <1>3, <2>2, <2>3
  <2> HIDE DEF Entry
  <2> QED BY <1>6, <2>1, <2>4
<1>11. ASSUME NEW s \in 0 .. Ring - 1
       PROVE  \/ WithWork(u)[s] = work[s]
              \/ \E i \in 1 .. m : Slot(Height[u.blocks[i]]) = s /\ WithWork(u)[s] = u.blocks[i]
  <2>1. WithWork(u)[s] = Entry(s)
    <3> HIDE DEF Entry
    <3> QED BY <1>6
  <2>2. CASE Here(s) = {}
    BY <2>1, <2>2
  <2>3. CASE Here(s) # {}
    <3>1. PICK i \in 1 .. m : i = One(s) /\ Slot(Height[u.blocks[i]]) = s
      BY <1>7, <1>9, <2>3
    <3>2. Entry(s) = u.blocks[i]
      BY <1>3, <2>3, <3>1
    <3> QED BY <2>1, <3>1, <3>2
  <2> QED BY <2>2, <2>3
<1>12. \A s \in 0 .. Ring - 1 : WithWork(u)[s] \in Blocks \cup {None}
  <2>1. \A s \in 0 .. Ring - 1 : work[s] \in Blocks \cup {None}
    BY DEF BaseInv, TypeOK
  <2> QED BY <1>4, <1>11, <2>1
<1>13. WithWork(u) \in [0 .. Ring - 1 -> Blocks \cup {None}]
  BY <1>6, <1>12
<1> QED BY <1>1, <1>10, <1>11, <1>13

\* The next height to mine on.
LEMMA MiningType ==
    ASSUME BaseInv, chan # <<>>, NEW u, u = Head(chan)
    PROVE  /\ CurrentlyMining(u) \in Int /\ Slot(CurrentlyMining(u)) \in 0 .. Ring - 1
           /\ CurrentlyMining(u) = Max2(mining, TopOf(u) - u.conf.old)
           /\ TopOf(u) \in Nat /\ Max2(peak, TopOf(u)) \in Nat
           /\ u.blocks = <<>> => TopOf(u) = 0
           /\ u.blocks # <<>> => TopOf(u) = Height[u.conf.tip]
<1>1. mining \in Int /\ peak \in Nat /\ u.conf.old \in Int
  BY UpdateParts, PoolClientAssumption DEF BaseInv, TypeOK
<1>2. u.blocks # <<>> => Height[u.blocks[1]] = Height[u.conf.tip] /\ Height[u.conf.tip] \in Nat
  <2>1. u.blocks \in Seq(Blocks) /\ u.conf.tip \in Tips
    BY UpdateParts
  <2>2. u.blocks # <<>> => 1 \in 1 .. Len(u.blocks)
    BY <2>1
  <2>3. Height[u.conf.tip] \in Nat
    BY <2>1, AncestorHeight
  <2> QED BY <2>2, <2>3, UpdateParts
<1>3. /\ TopOf(u) \in Nat
      /\ u.blocks = <<>> => TopOf(u) = 0
      /\ u.blocks # <<>> => TopOf(u) = Height[u.conf.tip]
  BY <1>2 DEF TopOf
<1>4. CurrentlyMining(u) \in Int /\ Max2(peak, TopOf(u)) \in Nat
  BY <1>1, <1>3 DEF CurrentlyMining, Max2
<1>5. CurrentlyMining(u) = Max2(mining, TopOf(u) - u.conf.old)
  BY DEF CurrentlyMining
<1> QED BY <1>3, <1>4, <1>5, SlotType

\* The handler for a URL: one that is in use, or one that never was.
LEMMA HandlerForDef ==
    ASSUME BaseInv, chan # <<>>, NEW url \in Urls
    PROVE  /\ HandlerFor(url) \in Handlers /\ UrlOf(HandlerFor(url)) = url
           /\ Current(url) \subseteq made
           /\ \A h \in Current(url) : \E i \in DOMAIN handlers : h = handlers[i] /\ UrlOf(h) = url
           /\ \/ Current(url) # {} /\ HandlerFor(url) \in Current(url)
              \/ /\ Current(url) = {} /\ HandlerFor(url) \notin made
                 /\ HandlerFor(url) = <<url, Cardinality(MadeFor(url)) + 1>>
<1>1. \A h \in Current(url) : \E i \in DOMAIN handlers : h = handlers[i] /\ UrlOf(h) = url
  BY DEF Current
<1>2. Current(url) \subseteq made /\ made \subseteq Handlers
  BY <1>1 DEF BaseInv, MadeInv, TypeOK
<1>3. CASE Current(url) # {}
  <2>1. HandlerFor(url) \in Current(url)
    BY <1>3 DEF HandlerFor
  <2> QED BY <1>1, <1>2, <1>3, <2>1
<1>4. CASE Current(url) = {}
  <2>1. PICK n \in Nat : n = Cardinality(MadeFor(url))
    BY <1>2, MadeCount
  <2>2. HandlerFor(url) = <<url, n + 1>>
    BY <1>4, <2>1 DEF HandlerFor, Fresh, MadeFor
  <2>3. n + 1 \in 1 .. MaxChanges + 1
    <3>1. n + Pending <= changes + 1
      BY <2>1 DEF BaseInv, MadeInv
    <3>2. Pending \in Nat /\ Pending >= 1 /\ changes \in 0 .. MaxChanges /\ MaxChanges \in Nat
      <4>1. chan \in Seq(Update) /\ Len(chan) \in Nat /\ Len(chan) # 0
        BY DEF BaseInv, TypeOK, PoolTypeOK
      <4> QED BY <4>1, PoolClientAssumption DEF Pending, BaseInv, TypeOK, PoolTypeOK
    <3> QED BY <3>1, <3>2
  <2>4. HandlerFor(url) \notin made
    <3> SUFFICES ASSUME <<url, n + 1>> \in made PROVE FALSE
      BY <2>2
    <3>1. n + 1 <= n
      BY <2>1, <2>3 DEF BaseInv, MadeInv
    <3> QED BY <3>1
  <2>5. HandlerFor(url) \in Handlers /\ UrlOf(HandlerFor(url)) = url
    BY <2>2, <2>3 DEF Handlers, UrlOf
  <2> QED BY <1>1, <1>2, <1>4, <2>1, <2>2, <2>4, <2>5
<1> QED BY <1>3, <1>4

\* The URLs of an update.
LEMMA UrlsOf ==
    ASSUME NEW x \in UrlLists
    PROVE  x \in Seq(Urls) /\ \A i \in DOMAIN x : x[i] \in Urls
BY AnnMineAssumption

\* The handlers after an update.
UrlsAre(hs, x) == {UrlOf(hs[i]) : i \in DOMAIN hs} = {x[i] : i \in DOMAIN x}
\* There is one for each URL of the update and for no other.
LEMMA NewHandlersDef ==
    ASSUME BaseInv, chan # <<>>, NEW u, u = Head(chan)
    PROVE  /\ NewHandlers(u) \in Seq(Handlers) /\ Dropped(u) \subseteq made
           /\ \A i \in DOMAIN NewHandlers(u) :
                \/ NewHandlers(u)[i] \in made
                \/ \E url \in Urls : NewHandlers(u)[i] = HandlerFor(url)
           /\ UrlsAre(NewHandlers(u), u.conf.urls)
<1>1. PICK x \in UrlLists : x = u.conf.urls
  BY UpdateParts
<1>2. x \in Seq(Urls) /\ \A i \in DOMAIN x : x[i] \in Urls
  BY UrlsOf
<1>3. PICK l : l = [i \in DOMAIN x |-> HandlerFor(x[i])]
  OBVIOUS
<1>4. \A i \in DOMAIN x : HandlerFor(x[i]) \in Handlers /\ UrlOf(HandlerFor(x[i])) = x[i]
  BY <1>2, HandlerForDef
<1>5. l \in Seq(Handlers) /\ DOMAIN l = DOMAIN x /\ \A i \in DOMAIN x : l[i] = HandlerFor(x[i])
  <2>1. DOMAIN x = 1 .. Len(x) /\ Len(x) \in Nat
    BY <1>2
  <2> QED BY <1>3, <1>4, <2>1
<1>6. NewHandlers(u) = IF Dropped(u) = {} /\ \A i \in DOMAIN l : l[i] \in made
                       THEN handlers ELSE l
  BY <1>1, <1>3 DEF NewHandlers
<1>7. handlers \in Seq(Handlers) /\ \A i \in DOMAIN handlers : handlers[i] \in made
  BY DEF BaseInv, MadeInv, TypeOK
<1>8. Dropped(u) \subseteq made
  BY <1>7 DEF Dropped
<1>9. CASE Dropped(u) = {} /\ \A i \in DOMAIN l : l[i] \in made
  <2>1. NewHandlers(u) = handlers
    BY <1>6, <1>9
  <2>2. ASSUME NEW i \in DOMAIN handlers PROVE \E j \in DOMAIN x : x[j] = UrlOf(handlers[i])
    <3>1. Listed(u, handlers[i])
      BY <1>9 DEF Dropped
    <3> QED BY <1>1, <3>1 DEF Listed
  <2>3. ASSUME NEW j \in DOMAIN x PROVE \E i \in DOMAIN handlers : UrlOf(handlers[i]) = x[j]
    <3>1. x[j] \in Urls /\ HandlerFor(x[j]) \in made
      BY <1>2, <1>5, <1>9
    <3>2. PICK h : h \in Current(x[j])
      BY <3>1, HandlerForDef
    <3>3. PICK i \in DOMAIN handlers : h = handlers[i] /\ UrlOf(h) = x[j]
      BY <3>1, <3>2, HandlerForDef
    <3> QED BY <3>3
  <2>4. {UrlOf(handlers[i]) : i \in DOMAIN handlers} = {x[i] : i \in DOMAIN x}
    BY <2>2, <2>3
  <2>5. \A i \in DOMAIN NewHandlers(u) : NewHandlers(u)[i] \in made
    BY <1>7, <2>1
  <2>6. UrlsAre(NewHandlers(u), x)
    BY <2>1, <2>4 DEF UrlsAre
  <2> QED BY <1>1, <1>7, <1>8, <2>1, <2>5, <2>6
<1>10. CASE ~(Dropped(u) = {} /\ \A i \in DOMAIN l : l[i] \in made)
  <2>1. NewHandlers(u) = l
    BY <1>6, <1>10
  <2>2. \A i \in DOMAIN x : UrlOf(l[i]) = x[i]
    BY <1>4, <1>5
  <2>3. UrlsAre(l, x)
    BY <1>5, <2>2 DEF UrlsAre
  <2> QED BY <1>1, <1>2, <1>5, <1>8, <2>1, <2>3
<1> QED BY <1>9, <1>10

\* An update that is not looked at any further.
LEMMA NotStartedBase ==
    ASSUME BaseInv, NEW u, UpdateIsOld(u) \/ NoWorkYet(u) PROVE BaseInv'
<1>1. /\ Receive(u) /\ work' = WithWork(u) /\ mining' \in {mining, CurrentlyMining(u)}
      /\ peak' \in {peak, Max2(peak, TopOf(u))} /\ missed' = missed
      /\ UNCHANGED <<started, found, handlers, toStop, job, made, shutdown, results, hand,
                     htip, queue, loop, over>>
  BY DEF UpdateIsOld, NoWorkYet, uploadVars
<1>2. /\ PoolTypeOK' /\ UpdateInv' /\ chan # <<>> /\ u = Head(chan)
      /\ \A n \in Nat : Counted(n) => Counted(n)'
  <2>1. missed' \in BOOLEAN
    BY <1>1 DEF BaseInv, TypeOK, PoolTypeOK
  <2> QED BY <1>1, <2>1, ReceiveBase
<1>3. work' \in [0 .. Ring - 1 -> Blocks \cup {None}] /\ mining' \in Int /\ peak' \in Nat
  <2>1. mining \in Int /\ peak \in Nat
    BY DEF BaseInv, TypeOK
  <2> QED BY <1>1, <1>2, <2>1, WorkDef, MiningType
<1>4. TypeOK'
  BY <1>1, <1>2, <1>3 DEF BaseInv, TypeOK
<1>5. MadeInv'
  BY <1>1, <1>2, MadeFrame
<1> QED BY <1>2, <1>4, <1>5 DEF BaseInv

\* An update that is taken, whether the miner is started or not.
LEMMA TakeUpdateBase ==
    ASSUME BaseInv, NEW u, StartMining(u) \/ NoTarget(u) PROVE BaseInv'
<1>1. PICK b, H : /\ b = JobOf(u)
                  /\ H = {NewHandlers(u)[i] : i \in DOMAIN NewHandlers(u)} \ made
  OBVIOUS
<1>2. /\ Receive(u) /\ b /= None /\ work' = WithWork(u) /\ mining' = CurrentlyMining(u)
      /\ handlers' = NewHandlers(u) /\ toStop' = Dropped(u) /\ made' = made \cup H
      /\ htip' = [h \in Handlers |-> IF h \in H THEN NewBatch(Height[b]) ELSE htip[h]]
      /\ loop' = [l \in Loops |-> IF l[1] \in H THEN At("pop") ELSE loop[l]]
      /\ peak' = Max2(peak, TopOf(u)) /\ job' \in {job, b} /\ found' = found
      /\ started' \in {started, started \cup {Height[b]}} /\ missed' \in {missed, TRUE}
      /\ UNCHANGED <<shutdown, results, hand, queue, over>>
  BY <1>1 DEF StartMining, NoTarget, TakeUpdate, SetHandlers, StartSource
<1>3. /\ PoolTypeOK' /\ UpdateInv' /\ chan # <<>> /\ u = Head(chan)
      /\ \A n \in Nat : Counted(n) => Counted(n)' /\ Counted(n + 1)'
  <2>1. missed' \in BOOLEAN
    BY <1>2 DEF BaseInv, TypeOK, PoolTypeOK
  <2> QED BY <1>2, <2>1, ReceiveBase
<1>4. /\ WithWork(u) \in [0 .. Ring - 1 -> Blocks \cup {None}] /\ CurrentlyMining(u) \in Int
      /\ Slot(CurrentlyMining(u)) \in 0 .. Ring - 1 /\ Max2(peak, TopOf(u)) \in Nat
  BY <1>3, WorkDef, MiningType
<1>5. b \in Blocks /\ Height[b] \in Nat /\ Height[b] \in Heights
  BY <1>1, <1>2, <1>4, PoolClientAssumption DEF Heights, JobOf
<1>6. /\ NewHandlers(u) \in Seq(Handlers) /\ Dropped(u) \subseteq made
      /\ \A i \in DOMAIN NewHandlers(u) :
           \/ NewHandlers(u)[i] \in made
           \/ \E url \in Urls : NewHandlers(u)[i] = HandlerFor(url)
  BY <1>3, NewHandlersDef
<1>7. H \subseteq Handlers /\ \A h \in H : h \notin made /\ \E url \in Urls : h = HandlerFor(url)
  BY <1>1, <1>6
<1>8. made \subseteq Handlers /\ made' \subseteq Handlers
  BY <1>2, <1>7 DEF BaseInv, TypeOK
<1>9. TypeOK'
  <2>1. started' \subseteq Heights /\ IsABag(found') /\ BagToSet(found)' \subseteq Anns
    BY <1>2, <1>5 DEF BaseInv, TypeOK, BagToSet
  <2>2. work' \in [0 .. Ring - 1 -> Blocks \cup {None}] /\ mining' \in Int /\ peak' \in Nat
    BY <1>2, <1>4
  <2>3. handlers' \in Seq(Handlers) /\ toStop' \subseteq made' /\ shutdown' \subseteq made'
    BY <1>2, <1>6 DEF BaseInv, TypeOK
  <2>4. job' \in Blocks \cup {None} /\ results' \in Seq(Anns) /\ over' \subseteq Ends \X Batch
    BY <1>2, <1>5 DEF BaseInv, TypeOK
  <2>5. hand' \in [ann : Anns, h : made'] \cup {None}
    <3>1. hand \in [ann : Anns, h : made] \cup {None}
      BY DEF BaseInv, TypeOK
    <3>2. [ann : Anns, h : made] \subseteq [ann : Anns, h : made']
      BY <1>2
    <3> QED BY <1>2, <3>1, <3>2
  <2>6. NewBatch(Height[b]) \in Batch
    BY <1>5 DEF NewBatch, Batch
  <2>7. htip' \in [Handlers -> Batch] /\ queue' \in [Handlers -> Seq(Batch)]
    BY <1>2, <2>6 DEF BaseInv, TypeOK
  <2>8. /\ loop' \in [Loops -> [at : {"none", "pop", "post", "exited"}, b : Batch]]
        /\ \A l \in Loops : loop'[l].at /= "none" <=> l[1] \in made'
    <3>1. At("pop") \in [at : {"none", "pop", "post", "exited"}, b : Batch] /\ At("pop").at = "pop"
      BY DEF At, NewBatch, Batch
    <3>2. /\ loop \in [Loops -> [at : {"none", "pop", "post", "exited"}, b : Batch]]
          /\ \A l \in Loops : loop[l].at /= "none" <=> l[1] \in made
      BY DEF BaseInv, TypeOK
    <3>3. \A l \in Loops : l[1] \in made' <=> l[1] \in made \/ l[1] \in H
      BY <1>2
    <3>4. \A l \in Loops : loop'[l] = IF l[1] \in H THEN At("pop") ELSE loop[l]
      BY <1>2
    <3>5. \A l \in Loops : loop'[l].at /= "none" <=> l[1] \in made'
      BY <3>1, <3>2, <3>3, <3>4
    <3>6. \A l \in Loops : loop'[l] \in [at : {"none", "pop", "post", "exited"}, b : Batch]
      BY <3>1, <3>2, <3>4
    <3> QED BY <1>2, <3>5, <3>6
  <2> QED BY <1>3, <1>8, <2>1, <2>2, <2>3, <2>4, <2>5, <2>7, <2>8 DEF TypeOK
<1>10. MadeInv'
  <2>1. \A i \in DOMAIN handlers' : handlers'[i] \in made'
    BY <1>1, <1>2
  <2>2. ASSUME NEW url \in Urls
        PROVE  /\ \A k \in 1 .. MaxChanges + 1 :
                    <<url, k>> \in made' => k <= Cardinality(MadeFor(url)')
               /\ Counted(Cardinality(MadeFor(url)))'
    <3>1. PICK n \in Nat : n = Cardinality(MadeFor(url))
      BY <1>8, MadeCount
    <3>2. Counted(n) /\ \A k \in 1 .. MaxChanges + 1 : <<url, k>> \in made => k <= n
      BY <3>1 DEF BaseInv, MadeInv, Counted
    <3>3. Counted(n)' /\ Counted(n + 1)'
      BY <1>3, <3>2
    <3>4. \A h \in H : UrlOf(h) = url => h = HandlerFor(url)
      BY <1>3, <1>7, HandlerForDef
    <3>5. CASE HandlerFor(url) \notin H
      <4>1. MadeFor(url)' = MadeFor(url)
        BY <1>2, <3>4, <3>5 DEF MadeFor
      <4>2. \A k : <<url, k>> \in made' => <<url, k>> \in made
        BY <1>2, <3>4, <3>5 DEF UrlOf
      <4>3. Cardinality(MadeFor(url)') = n /\ Cardinality(MadeFor(url))' = n
        BY <3>1, <4>1
      <4> QED BY <3>2, <3>3, <4>2, <4>3
    <3>6. CASE HandlerFor(url) \in H
      <4>1. HandlerFor(url) = <<url, n + 1>> /\ HandlerFor(url) \notin made /\ UrlOf(HandlerFor(url)) = url
        BY <1>3, <1>7, <3>1, <3>6, HandlerForDef
      <4>2. MadeFor(url)' = MadeFor(url) \cup {HandlerFor(url)} /\ HandlerFor(url) \notin MadeFor(url)
        BY <1>2, <3>4, <3>6, <4>1 DEF MadeFor
      <4>3. IsFiniteSet(MadeFor(url))
        BY <1>8, MadeCount
      <4>4. Cardinality(MadeFor(url) \cup {HandlerFor(url)}) = n + 1
        BY <3>1, <4>2, <4>3, FS_AddElement
      <4>5. Cardinality(MadeFor(url)') = n + 1 /\ Cardinality(MadeFor(url))' = n + 1
        BY <4>2, <4>4
      <4>6. \A k : <<url, k>> \in made' => <<url, k>> \in made \/ k = n + 1
        BY <1>2, <3>4, <4>1 DEF UrlOf
      <4>7. ASSUME NEW k \in 1 .. MaxChanges + 1, <<url, k>> \in made' PROVE k <= n + 1
        <5>1. CASE k = n + 1
          BY <5>1
        <5>2. CASE <<url, k>> \in made
          <6>1. k <= n /\ k \in Nat
            BY <3>2, <5>2, PoolClientAssumption
          <6> QED BY <6>1
        <5> QED BY <4>6, <4>7, <5>1, <5>2
      <4> QED BY <3>3, <4>5, <4>7
    <3> QED BY <3>5, <3>6
  <2> QED BY <2>1, <2>2 DEF MadeInv, Counted
<1> QED BY <1>3, <1>9, <1>10 DEF BaseInv

-----------------------------------------------------------------------------
(* Types: announcements and uploads.                                       *)

\* What the client and update_work_loop have stays as it is.
LEMMA RestFrame ==
    ASSUME BaseInv, UNCHANGED <<poolVars, handlers, made>>
    PROVE  PoolTypeOK' /\ MadeInv' /\ UpdateInv'
<1>1. UNCHANGED <<tip, urls, old, changes, olds, down, cpc, conf, mc, chain, subscribed, chan, lagged, missed>>
  BY DEF poolVars, masterVars, clientVars, chanVars
<1>2. PoolTypeOK'
  BY <1>1 DEF BaseInv, TypeOK, PoolTypeOK
<1>3. UpdateInv'
  BY <1>1 DEF BaseInv, UpdateInv
<1>4. \A n \in Nat : Counted(n) => Counted(n)'
  BY <1>1 DEF Counted, Pending, Latest, Published
<1>5. MadeInv'
  BY <1>4, MadeFrame
<1> QED BY <1>2, <1>3, <1>5

\* update_work_loop tells a handler.
LEMMA ShutDownBase == ASSUME BaseInv, NEW h \in toStop, ShutDown(h) PROVE BaseInv'
<1>1. /\ UNCHANGED <<poolVars, handlers, made>> /\ toStop' = toStop \ {h}
      /\ shutdown' = shutdown \cup {h}
      /\ UNCHANGED <<started, found, work, mining, job, peak, results, hand, htip, queue, loop, over>>
  BY DEF ShutDown, Tell, uploadVars
<1>2. PoolTypeOK' /\ MadeInv' /\ UpdateInv'
  BY <1>1, RestFrame
<1>3. TypeOK'
  BY <1>1, <1>2 DEF BaseInv, TypeOK
<1> QED BY <1>2, <1>3 DEF BaseInv

\* A bag with one more.
LEMMA BagAdd ==
    ASSUME NEW B, IsABag(B), NEW x
    PROVE  /\ IsABag(B (+) SetToBag({x}))
           /\ DOMAIN (B (+) SetToBag({x})) = DOMAIN B \cup {x}
<1>1. DOMAIN SetToBag({x}) = {x} /\ SetToBag({x})[x] = 1
  BY DEF SetToBag
<1>2. DOMAIN (B (+) SetToBag({x})) = DOMAIN B \cup {x}
  BY <1>1 DEF (+)
<1> QED BY <1>1, <1>2 DEF IsABag, (+)

\* on_ann_found, by its parts.
LEMMA FoundParts ==
    ASSUME BaseInv, NEW a \in Anns, OnAnnFound(a)
    PROVE  /\ IsABag(found') /\ DOMAIN found' = DOMAIN found \cup {a} /\ a \notin DOMAIN found
           /\ results' = Append(results, a) /\ results \in Seq(Anns)
           /\ UNCHANGED <<poolVars, handlers, made>>
           /\ UNCHANGED <<started, work, mining, toStop, job, peak, shutdown, hand, htip, queue, loop, over>>
<1>1. /\ found' = found (+) SetToBag({a}) /\ started' = started
      /\ \A b \in BagToSet(found) : b.id /= a.id
  BY DEF OnAnnFound, Find
<1>2. IsABag(found) /\ results \in Seq(Anns)
  BY DEF BaseInv, TypeOK
<1>3. IsABag(found') /\ DOMAIN found' = DOMAIN found \cup {a}
  BY <1>1, <1>2, BagAdd
<1>4. a \notin DOMAIN found
  BY <1>1 DEF BagToSet
<1> QED BY <1>1, <1>2, <1>3, <1>4 DEF OnAnnFound, workVars, uploadVars

\* on_ann_found
LEMMA OnAnnFoundBase == ASSUME BaseInv, NEW a \in Anns, OnAnnFound(a) PROVE BaseInv'
<1>1. /\ IsABag(found') /\ DOMAIN found' = DOMAIN found \cup {a}
      /\ results' = Append(results, a) /\ results \in Seq(Anns)
      /\ UNCHANGED <<poolVars, handlers, made>>
      /\ UNCHANGED <<started, work, mining, toStop, job, peak, shutdown, hand, htip, queue, loop, over>>
  BY FoundParts
<1>2. PoolTypeOK' /\ MadeInv' /\ UpdateInv'
  BY <1>1, RestFrame
<1>3. BagToSet(found)' \subseteq Anns /\ results' \in Seq(Anns)
  BY <1>1 DEF BaseInv, TypeOK, BagToSet
<1>4. TypeOK'
  BY <1>1, <1>2, <1>3 DEF BaseInv, TypeOK
<1> QED BY <1>2, <1>4 DEF BaseInv

\* submit_to_pool: the handler
LEMMA ChooseHandlerBase == ASSUME BaseInv, NEW h \in Handlers, ChooseHandler(h) PROVE BaseInv'
<1>1. /\ results /= <<>> /\ hand' = [ann |-> Head(results), h |-> h] /\ results' = Tail(results)
      /\ \E i \in DOMAIN handlers : handlers[i] = h
      /\ UNCHANGED <<poolVars, handlers, made>>
      /\ UNCHANGED <<started, found, work, mining, toStop, job, peak, shutdown, htip, queue, loop, over>>
  BY DEF ChooseHandler, workVars, uploadVars
<1>2. PoolTypeOK' /\ MadeInv' /\ UpdateInv'
  BY <1>1, RestFrame
<1>3. results \in Seq(Anns) /\ h \in made'
  BY <1>1 DEF BaseInv, TypeOK, MadeInv
<1>4. results' \in Seq(Anns) /\ Head(results) \in Anns
  BY <1>1, <1>3
<1>5. hand' \in [ann : Anns, h : made'] \cup {None}
  BY <1>1, <1>3, <1>4
<1>6. TypeOK'
  BY <1>1, <1>2, <1>4, <1>5 DEF BaseInv, TypeOK
<1> QED BY <1>2, <1>6 DEF BaseInv

\* An announcement that is done with, as a batch of its own.
Alone(a) == [h |-> a.hdr, anns |-> <<a>>]
\* An announcement by itself is a batch.
LEMMA AloneType == ASSUME NEW a \in Anns PROVE Alone(a) \in Batch /\ a.hdr \in Nat
<1>1. a.hdr \in Heights
  BY DEF Anns
<1>2. a.hdr \in Nat
  BY <1>1, PoolClientAssumption DEF Heights
<1> QED BY <1>2 DEF Alone, Batch

\* submit_to_pool: no handler
LEMMA NoHandlerBase == ASSUME BaseInv, NoHandler PROVE BaseInv'
<1>1. /\ results /= <<>> /\ results' = Tail(results)
      /\ over' = over \cup {<<"nohandler", Alone(Head(results))>>}
      /\ UNCHANGED <<poolVars, handlers, made>>
      /\ UNCHANGED <<started, found, work, mining, toStop, job, peak, shutdown, hand, htip, queue, loop>>
  BY DEF NoHandler, workVars, Alone
<1>2. PoolTypeOK' /\ MadeInv' /\ UpdateInv'
  BY <1>1, RestFrame
<1>3. results \in Seq(Anns)
  BY DEF BaseInv, TypeOK
<1>4. results' \in Seq(Anns) /\ Head(results) \in Anns
  BY <1>1, <1>3
<1>5. over' \subseteq Ends \X Batch
  BY <1>1, <1>4, AloneType DEF BaseInv, TypeOK, Ends
<1>6. TypeOK'
  BY <1>1, <1>2, <1>4, <1>5 DEF BaseInv, TypeOK
<1> QED BY <1>2, <1>6 DEF BaseInv

\* What is in hand.
LEMMA HandType ==
    ASSUME BaseInv, hand /= None
    PROVE  hand.ann \in Anns /\ hand.h \in made /\ hand.h \in Handlers /\ hand.ann.hdr \in Nat
<1>1. hand \in [ann : Anns, h : made] /\ made \subseteq Handlers
  BY DEF BaseInv, TypeOK
<1>2. hand.ann \in Anns
  BY <1>1
<1> QED BY <1>1, <1>2, AloneType

\* submit_to_pool: an announcement of an older block
LEMMA RefuseOldBase == ASSUME BaseInv, RefuseOld PROVE BaseInv'
<1>1. /\ hand /= None /\ hand' = None
      /\ over' = over \cup {<<"old", Alone(hand.ann)>>}
      /\ UNCHANGED <<poolVars, handlers, made>>
      /\ UNCHANGED <<started, found, work, mining, toStop, job, peak, shutdown, results, htip, queue, loop>>
  BY DEF RefuseOld, workVars, Alone
<1>2. PoolTypeOK' /\ MadeInv' /\ UpdateInv'
  BY <1>1, RestFrame
<1>3. over' \subseteq Ends \X Batch
  BY <1>1, HandType, AloneType DEF BaseInv, TypeOK, Ends
<1>4. TypeOK'
  BY <1>1, <1>2, <1>3 DEF BaseInv, TypeOK
<1> QED BY <1>2, <1>4 DEF BaseInv

\* submit_anns: a queue and what it gives up.
LEMMA QueuedType ==
    ASSUME NEW q \in Seq(Batch), NEW b \in Batch
    PROVE  Queued(q, b) \in Seq(Batch) /\ GivenUp(q, b) \subseteq Ends \X Batch
<1>1. QueueLen \in Nat \ {0}
  BY AnnMineAssumption
<1>2. CASE Len(q) >= QueueLen
  <2>1. q # <<>> /\ Tail(q) \in Seq(Batch) /\ Head(q) \in Batch
    BY <1>1, <1>2
  <2> QED BY <1>2, <2>1 DEF Queued, GivenUp, Ends
<1>3. CASE ~(Len(q) >= QueueLen)
  BY <1>3 DEF Queued, GivenUp
<1> QED BY <1>2, <1>3

\* submit_to_pool under the lock of the tip, by its parts: the tip t may go into
\* the queue q, then the announcement into the tip, and that into the queue again.
IntoTip(a, t, q, b, Q1, gone) ==
    \/ t.h < a.hdr /\ Q1 = Queued(q, t) /\ gone = GivenUp(q, t) /\ b = Alone(a)
    \/ t.h = a.hdr /\ Q1 = q /\ gone = {} /\ b = [h |-> t.h, anns |-> Append(t.anns, a)]
FromTip(b, Q1, t2, Q2, gone) ==
    \/ t2 = NewBatch(b.h) /\ Q2 = Queued(Q1, b) /\ gone = GivenUp(Q1, b)
    \/ t2 = b /\ Q2 = Q1 /\ gone = {}
Submitted(h, t2, Q2, gone, gone2) ==
    /\ htip' = [htip EXCEPT ![h] = t2]
    /\ queue' = [queue EXCEPT ![h] = Q2]
    /\ over' = over \cup gone \cup gone2
    /\ hand /= None /\ hand' = None
SubmitsBy(h, a, t, q, b, Q1, t2, Q2, gone, gone2) ==
    /\ h \in made /\ a \in Anns /\ t \in Batch /\ q \in Seq(Batch)
    /\ b \in Batch /\ Q1 \in Seq(Batch) /\ t2 \in Batch /\ Q2 \in Seq(Batch)
    /\ h = hand.h /\ a = hand.ann /\ t = htip[h] /\ q = queue[h]
    /\ IntoTip(a, t, q, b, Q1, gone) /\ FromTip(b, Q1, t2, Q2, gone2)
    /\ Submitted(h, t2, Q2, gone, gone2)
\* submit_to_pool is these two moves.
LEMMA SubmitParts ==
    ASSUME BaseInv, NEW late \in BOOLEAN, Submit(late)
    PROVE  \E h, a, t, q, b, Q1, t2, Q2, gone, gone2 :
             SubmitsBy(h, a, t, q, b, Q1, t2, Q2, gone, gone2)
<1>1. hand /= None /\ htip[hand.h].h <= hand.ann.hdr
  BY DEF Submit
<1>2. PICK h \in made, a \in Anns : h = hand.h /\ a = hand.ann
  BY <1>1, HandType
<1>3. PICK t \in Batch, q \in Seq(Batch) : t = htip[h] /\ q = queue[h]
  <2>1. h \in Handlers
    BY DEF BaseInv, TypeOK
  <2> QED BY <2>1 DEF BaseInv, TypeOK
<1>4. a.hdr \in Nat /\ t.h \in Int /\ t.anns \in Seq(Anns) /\ t.h <= a.hdr
  BY <1>1, <1>2, <1>3, AloneType DEF Batch
<1> DEFINE another == t.h < a.hdr
           b == [h |-> IF another THEN a.hdr ELSE t.h,
                 anns |-> IF another THEN <<a>> ELSE Append(t.anns, a)]
           Q1 == IF another THEN Queued(q, t) ELSE q
           gone == IF another THEN GivenUp(q, t) ELSE {}
           full == late \/ Len(b.anns) >= MaxBatch
           t2 == IF full THEN NewBatch(b.h) ELSE b
           Q2 == IF full THEN Queued(Q1, b) ELSE Q1
           gone2 == IF full THEN GivenUp(Q1, b) ELSE {}
<1>5. Submitted(h, t2, Q2, gone, gone2)
  BY <1>2, <1>3 DEF Submit, AnotherBlock, Submitted
<1>6. b \in Batch
  BY <1>4 DEF Batch
<1>7. IntoTip(a, t, q, b, Q1, gone)
  <2>1. CASE another
    BY <2>1 DEF Alone, IntoTip
  <2>2. CASE ~another
    <3>1. t.h = a.hdr
      BY <1>4, <2>2
    <3> QED BY <2>2, <3>1 DEF IntoTip
  <2> QED BY <2>1, <2>2
<1>8. Q1 \in Seq(Batch)
  BY QueuedType
<1>9. FromTip(b, Q1, t2, Q2, gone2)
  <2> HIDE DEF b, Q1
  <2> QED BY DEF FromTip
<1>10. t2 \in Batch /\ Q2 \in Seq(Batch)
  <2>1. NewBatch(b.h) \in Batch
    BY <1>6 DEF NewBatch, Batch
  <2> HIDE DEF b, Q1, full
  <2> QED BY <1>6, <1>8, <2>1, QueuedType
<1> HIDE DEF another, b, Q1, gone, full, t2, Q2, gone2
<1>11. SubmitsBy(h, a, t, q, b, Q1, t2, Q2, gone, gone2)
  BY <1>2, <1>3, <1>5, <1>6, <1>7, <1>8, <1>9, <1>10 DEF SubmitsBy
<1> QED BY <1>11

\* submit_to_pool: the announcement is taken
LEMMA SubmitBase == ASSUME BaseInv, NEW late \in BOOLEAN, Submit(late) PROVE BaseInv'
<1>1. /\ UNCHANGED <<poolVars, handlers, made>>
      /\ UNCHANGED <<started, found, work, mining, toStop, job, peak, shutdown, results, loop>>
  BY DEF Submit, workVars
<1>2. PoolTypeOK' /\ MadeInv' /\ UpdateInv'
  BY <1>1, RestFrame
<1>3. PICK h, a, t, q, b, Q1, t2, Q2, gone, gone2 :
        SubmitsBy(h, a, t, q, b, Q1, t2, Q2, gone, gone2)
  BY SubmitParts
<1>4. gone \subseteq Ends \X Batch /\ gone2 \subseteq Ends \X Batch
  BY <1>3, QueuedType DEF SubmitsBy, IntoTip, FromTip
<1>5. /\ htip' \in [Handlers -> Batch] /\ queue' \in [Handlers -> Seq(Batch)]
      /\ over' \subseteq Ends \X Batch
  BY <1>3, <1>4 DEF SubmitsBy, Submitted, BaseInv, TypeOK
<1>6. TypeOK'
  BY <1>1, <1>2, <1>3, <1>5 DEF SubmitsBy, Submitted, BaseInv, TypeOK
<1> QED BY <1>2, <1>6 DEF BaseInv

\* uploader_loop, by its parts
PopsBy(l, h, q, r, b) ==
    /\ h \in made /\ q \in Seq(Batch) /\ r \in Seq(Batch) /\ b \in Batch
    /\ h = l[1] /\ q = queue[h] /\ Len(q) \in Nat \ {0} /\ Len(r) = Len(q) - 1
    /\ \A i \in 1 .. Len(q) - 1 : r[i] = q[i]
    /\ b = q[Len(q)] /\ loop[l].at = "pop"
    /\ loop' = [loop EXCEPT ![l] = [at |-> "post", b |-> b]]
    /\ queue' = [queue EXCEPT ![h] = r]
\* uploader_loop takes the last batch of the queue.
LEMMA PopParts ==
    ASSUME BaseInv, NEW l \in Loops, PopBatch(l)
    PROVE  \E h, q, r, b : PopsBy(l, h, q, r, b)
<1>1. PICK h : h = l[1]
  OBVIOUS
<1>2. /\ loop[l].at = "pop" /\ queue[h] /= <<>>
      /\ loop' = [loop EXCEPT ![l] = [at |-> "post", b |-> queue[h][Len(queue[h])]]]
      /\ queue' = [queue EXCEPT ![h] = Popped(@)]
  BY <1>1 DEF PopBatch
<1>3. h \in made /\ h \in Handlers
  BY <1>1, <1>2 DEF BaseInv, TypeOK
<1>4. PICK q \in Seq(Batch) : q = queue[h]
  BY <1>3 DEF BaseInv, TypeOK
<1>5. Len(q) \in Nat \ {0} /\ q[Len(q)] \in Batch
  BY <1>2, <1>4
<1>6. PICK r : r = Popped(q)
  OBVIOUS
<1>7. /\ r \in Seq(Batch) /\ Len(r) = Len(q) - 1
      /\ \A i \in 1 .. Len(q) - 1 : r[i] = q[i]
  <2>1. PICK n \in Nat \ {0} : n = Len(q)
    BY <1>5
  <2>2. r = SubSeq(q, 1, n - 1) /\ 1 \in Nat /\ n - 1 \in Nat /\ n - 1 <= n
    BY <1>6, <2>1 DEF Popped
  <2>3. q \in Seq(Batch) /\ \A i \in 1 .. n : q[i] \in Batch
    BY <1>4, <2>1
  <2>4. r = [i \in 1 .. n - 1 |-> q[i]]
    BY <2>1, <2>2, <2>3
  <2>5. r \in Seq(Batch) /\ Len(r) = n - 1
    BY <2>2, <2>3, <2>4
  <2>6. \A i \in 1 .. n - 1 : r[i] = q[i]
    BY <2>4
  <2> QED BY <2>1, <2>5, <2>6
<1>8. queue' = [queue EXCEPT ![h] = r]
  BY <1>2, <1>4, <1>6
<1>9. PICK b : b = q[Len(q)]
  OBVIOUS
<1>10. loop' = [loop EXCEPT ![l] = [at |-> "post", b |-> b]]
  BY <1>2, <1>4, <1>9
<1>11. PopsBy(l, h, q, r, b)
  BY <1>1, <1>2, <1>3, <1>4, <1>5, <1>7, <1>8, <1>9, <1>10 DEF PopsBy
<1> QED BY <1>11

\* uploader_loop takes a batch
LEMMA PopBatchBase == ASSUME BaseInv, NEW l \in Loops, PopBatch(l) PROVE BaseInv'
<1>1. /\ UNCHANGED <<poolVars, handlers, made>>
      /\ UNCHANGED <<started, found, work, mining, toStop, job, peak, shutdown, results, hand, htip, over>>
  BY DEF PopBatch, workVars
<1>2. PoolTypeOK' /\ MadeInv' /\ UpdateInv'
  BY <1>1, RestFrame
<1>3. PICK h, q, r, b : PopsBy(l, h, q, r, b)
  BY PopParts
<1>4. queue' \in [Handlers -> Seq(Batch)]
  BY <1>3 DEF PopsBy, BaseInv, TypeOK
<1>5. /\ loop' \in [Loops -> [at : {"none", "pop", "post", "exited"}, b : Batch]]
      /\ \A k \in Loops : loop'[k].at /= "none" <=> k[1] \in made'
  BY <1>1, <1>3 DEF PopsBy, BaseInv, TypeOK
<1>6. TypeOK'
  BY <1>1, <1>2, <1>4, <1>5 DEF BaseInv, TypeOK
<1> QED BY <1>2, <1>6 DEF BaseInv

\* An upload ends, or an uploader does.
LEMMA UploadEndsBase ==
    ASSUME BaseInv, NEW l \in Loops, NEW end \in {"lost", "overload", "replied"},
           UploadEnds(l, end) \/ UploaderExits(l)
    PROVE  BaseInv'
<1>1. /\ UNCHANGED <<poolVars, handlers, made>>
      /\ UNCHANGED <<started, found, work, mining, toStop, job, peak, shutdown, results, hand, htip, queue>>
      /\ over' \in {over, over \cup {<<end, loop[l].b>>}} /\ loop[l].at \in {"pop", "post"}
      /\ loop' = [loop EXCEPT ![l] = At("pop")] \/ loop' = [loop EXCEPT ![l] = At("exited")]
  BY DEF UploadEnds, UploaderExits, workVars
<1>2. PoolTypeOK' /\ MadeInv' /\ UpdateInv'
  BY <1>1, RestFrame
<1>3. over' \subseteq Ends \X Batch
  BY <1>1 DEF BaseInv, TypeOK, Ends
<1>4. l[1] \in made
  BY <1>1 DEF BaseInv, TypeOK
<1>5. /\ At("pop") \in [at : {"none", "pop", "post", "exited"}, b : Batch] /\ At("pop").at = "pop"
      /\ At("exited") \in [at : {"none", "pop", "post", "exited"}, b : Batch]
      /\ At("exited").at = "exited"
  BY DEF At, NewBatch, Batch
<1>6. /\ loop' \in [Loops -> [at : {"none", "pop", "post", "exited"}, b : Batch]]
      /\ \A k \in Loops : loop'[k].at /= "none" <=> k[1] \in made'
  BY <1>1, <1>4, <1>5 DEF BaseInv, TypeOK
<1>7. TypeOK'
  BY <1>1, <1>2, <1>3, <1>6 DEF BaseInv, TypeOK
<1> QED BY <1>2, <1>7 DEF BaseInv

\* Nothing has been fetched and nothing made.
LEMMA BaseInit == Init => BaseInv
<1> SUFFICES ASSUME Init PROVE BaseInv
  OBVIOUS
<1>1. PoolTypeOK
  <2>0. tip \in Tips /\ urls \in UrlLists /\ old \in Olds /\ olds = {old}
    BY DEF Init, PoolInit, Tips, UrlLists, Olds
  <2>1. /\ changes \in 0 .. MaxChanges
        /\ cpc = "poll" /\ conf = None /\ mc = None /\ subscribed = FALSE /\ lagged = FALSE
        /\ down = FALSE /\ missed = FALSE
    BY PoolClientAssumption DEF Init, PoolInit
  <2>2. /\ chain \in [Heights -> Blocks \cup {None}]
        /\ \A h \in Heights : chain[h] = None
    BY DEF Init, PoolInit
  <2>3. chan \in Seq(Update) /\ Len(chan) <= ChanCap
    <3>1. chan = <<>> /\ Len(<<>>) = 0 /\ 0 <= ChanCap
      BY PoolClientAssumption DEF Init, PoolInit
    <3> QED BY <3>1
  <2> QED BY <2>0, <2>1, <2>2, <2>3 DEF PoolTypeOK
<1>2. started \subseteq Heights /\ IsABag(found) /\ BagToSet(found) \subseteq Anns
  BY DEF Init, SourceInit, EmptyBag, SetToBag, IsABag, BagToSet
<1>3. NewBatch(0) \in Batch /\ At("none") = [at |-> "none", b |-> NewBatch(0)]
  BY DEF NewBatch, Batch, At
<1>4. TypeOK
  BY <1>1, <1>2, <1>3 DEF Init, TypeOK
<1>5. UpdateInv
  BY DEF Init, PoolInit, UpdateInv
<1>6. MadeInv
  <2>1. made = {} /\ handlers = <<>> /\ chan = <<>> /\ cpc = "poll" /\ changes = 0
    BY DEF Init, PoolInit
  <2>2. \A url : MadeFor(url) = {}
    BY <2>1 DEF MadeFor
  <2>3. \A url : Cardinality(MadeFor(url)) = 0
    BY <2>2, FS_EmptySet
  <2>4. Pending = 0
    BY <2>1 DEF Pending
  <2> QED BY <2>1, <2>3, <2>4 DEF MadeInv
<1> QED BY <1>4, <1>5, <1>6 DEF BaseInv

\* Every step keeps the types and the handlers.
LEMMA BaseStep == BaseInv /\ [Next]_vars => BaseInv'
<1> SUFFICES ASSUME BaseInv, [Next]_vars PROVE BaseInv'
  OBVIOUS
<1>1. ASSUME NEW c \in Confs, MasterChanges(c), UNCHANGED annMineVars PROVE BaseInv'
  BY <1>1, MasterChangesBase
<1>2. ASSUME NEW a \in Anns, OnAnnFound(a) PROVE BaseInv'
  BY <1>2, OnAnnFoundBase
<1>3. CASE ClientStep
  BY <1>3, FetchConfBase, DiscoverBlocksBase DEF ClientStep
<1>4. CASE UpdateStep
  BY <1>4, ReceiverBase, NotStartedBase, TakeUpdateBase, ShutDownBase DEF UpdateStep
<1>5. CASE AnnStep
  BY <1>5, ChooseHandlerBase, NoHandlerBase, RefuseOldBase, SubmitBase DEF AnnStep
<1>6. ASSUME NEW l \in Loops, UploaderStep(l) PROVE BaseInv'
  <2>1. "lost" \in {"lost", "overload", "replied"}
    OBVIOUS
  <2> QED BY <1>6, <2>1, PopBatchBase, UploadEndsBase DEF UploaderStep
<1>7. CASE UNCHANGED vars
  <2>1. /\ UNCHANGED <<poolVars, handlers, made>>
        /\ UNCHANGED <<started, found, work, mining, toStop, job, peak, shutdown, results, hand,
                       htip, queue, loop, over>>
    BY <1>7 DEF vars, workVars, uploadVars
  <2>2. PoolTypeOK' /\ MadeInv' /\ UpdateInv'
    BY <2>1, RestFrame
  <2>3. TypeOK'
    BY <2>1, <2>2 DEF BaseInv, TypeOK
  <2> QED BY <2>2, <2>3 DEF BaseInv
<1> QED BY <1>1, <1>2, <1>3, <1>4, <1>5, <1>6, <1>7 DEF Next

\* The types and the handlers hold in every state.
LEMMA BaseInvariant == Spec => []BaseInv
BY BaseInit, BaseStep, PTL DEF Spec

\* The variables have their types: no handler is numbered past the bound, the
\* chain has every block at its height, and an uploader runs for every handler
\* that was made.
THEOREM TypeCorrect == Spec => []TypeOK
<1>1. BaseInv => TypeOK
  BY DEF BaseInv
<1> QED BY <1>1, BaseInvariant, PTL

-----------------------------------------------------------------------------
(* Batches.                                                                *)

\* The batches of a queue that goes before a batch of height t.
OneHeight(b) == \A i \in DOMAIN b.anns : b.anns[i].hdr = b.h
GoodQueue(q, t) ==
    /\ \A i \in DOMAIN q : OneHeight(q[i])
    /\ \A i, j \in DOMAIN q : i < j => q[i].h <= q[j].h
    /\ \A i \in DOMAIN q : q[i].h <= t
BatchInv ==
    /\ EmptyInv
    /\ \A h \in Handlers : OneHeight(htip[h]) /\ GoodQueue(queue[h], htip[h].h)
    /\ \A l \in Loops : OneHeight(loop[l].b)

\* A queue is in order after a batch has been added to it.
LEMMA QueuedGood ==
    ASSUME NEW q \in Seq(Batch), NEW b \in Batch, OneHeight(b), GoodQueue(q, b.h)
    PROVE  GoodQueue(Queued(q, b), b.h)
<1>1. b.h \in Int /\ \A i \in DOMAIN q : q[i].h \in Int
  <2>1. \A i \in DOMAIN q : q[i] \in Batch
    OBVIOUS
  <2>2. \A x \in Batch : x.h \in Int
    BY DEF Batch
  <2> QED BY <2>1, <2>2
<1>2. ASSUME NEW r \in Seq(Batch), GoodQueue(r, b.h) PROVE GoodQueue(Append(r, b), b.h)
  <2>1. PICK n \in Nat : n = Len(r)
    OBVIOUS
  <2>2. PICK s : s = Append(r, b)
    OBVIOUS
  <2>3. DOMAIN s = 1 .. n + 1 /\ s[n + 1] = b /\ DOMAIN r = 1 .. n /\ \A i \in 1 .. n : s[i] = r[i]
    BY <2>1, <2>2
  <2>4. \A i \in DOMAIN s : i \in 1 .. n \/ i = n + 1
    BY <2>3
  <2>5. \A i \in DOMAIN s : OneHeight(s[i])
    BY <1>2, <2>3, <2>4 DEF GoodQueue
  <2>6. \A i \in DOMAIN s : s[i].h <= b.h
    BY <1>1, <1>2, <2>3, <2>4 DEF GoodQueue
  <2>7. ASSUME NEW i \in DOMAIN s, NEW j \in DOMAIN s, i < j PROVE s[i].h <= s[j].h
    <3>1. i \in 1 .. n
      BY <2>3, <2>7
    <3>2. CASE j = n + 1
      BY <2>3, <2>6, <3>2
    <3>3. CASE j \in 1 .. n
      BY <1>2, <2>3, <2>7, <3>1, <3>3 DEF GoodQueue
    <3> QED BY <2>4, <3>2, <3>3
  <2> QED BY <2>2, <2>5, <2>6, <2>7 DEF GoodQueue
<1>3. ASSUME Len(q) >= QueueLen PROVE Tail(q) \in Seq(Batch) /\ GoodQueue(Tail(q), b.h)
  <2>1. PICK n \in Nat \ {0} : n = Len(q)
    BY <1>3, AnnMineAssumption
  <2>2. q # <<>>
    BY <2>1
  <2>3. PICK r \in Seq(Batch) : r = Tail(q)
    <3>1. Tail(q) \in Seq(Batch)
      BY <2>2
    <3> QED BY <3>1
  <2>4. DOMAIN r = 1 .. n - 1 /\ DOMAIN q = 1 .. n /\ \A i \in 1 .. n - 1 : r[i] = q[i + 1]
    BY <2>1, <2>2, <2>3
  <2>5. \A i \in 1 .. n - 1 : i + 1 \in 1 .. n
    OBVIOUS
  <2>6. \A i \in DOMAIN r : OneHeight(r[i]) /\ r[i].h <= b.h
    BY <2>4, <2>5 DEF GoodQueue
  <2>7. ASSUME NEW i \in DOMAIN r, NEW j \in DOMAIN r, i < j PROVE r[i].h <= r[j].h
    <3>1. i + 1 \in DOMAIN q /\ j + 1 \in DOMAIN q /\ i + 1 < j + 1
      BY <2>4, <2>5, <2>7
    <3>2. q[i + 1].h <= q[j + 1].h
      BY <3>1 DEF GoodQueue
    <3> QED BY <2>4, <3>2
  <2> QED BY <2>3, <2>6, <2>7 DEF GoodQueue
<1>4. CASE b.anns = <<>>
  BY <1>4 DEF Queued
<1>5. CASE b.anns # <<>> /\ Len(q) >= QueueLen
  <2>1. Queued(q, b) = Append(Tail(q), b)
    BY <1>5 DEF Queued
  <2> QED BY <1>2, <1>3, <1>5, <2>1
<1>6. CASE b.anns # <<>> /\ ~(Len(q) >= QueueLen)
  <2>1. Queued(q, b) = Append(q, b)
    BY <1>6 DEF Queued
  <2> QED BY <1>2, <2>1
<1> QED BY <1>4, <1>5, <1>6

\* A queue that is in order is so before a later batch.
LEMMA GoodLater ==
    ASSUME NEW q \in Seq(Batch), NEW t \in Int, NEW u \in Int, t <= u, GoodQueue(q, t)
    PROVE  GoodQueue(q, u)
<1>1. \A i \in DOMAIN q : q[i].h \in Int
  <2>1. \A i \in DOMAIN q : q[i] \in Batch
    OBVIOUS
  <2>2. \A x \in Batch : x.h \in Int
    BY DEF Batch
  <2> QED BY <2>1, <2>2
<1> QED BY <1>1 DEF GoodQueue

\* submit_to_pool: the tip and the queue of the handler.
LEMMA SubmitGood ==
    ASSUME NEW a \in Anns, NEW t \in Batch, NEW q \in Seq(Batch), NEW b \in Batch,
           NEW Q1 \in Seq(Batch), NEW t2 \in Batch, NEW Q2, NEW gone, NEW gone2,
           IntoTip(a, t, q, b, Q1, gone), FromTip(b, Q1, t2, Q2, gone2),
           OneHeight(t), GoodQueue(q, t.h)
    PROVE  OneHeight(t2) /\ GoodQueue(Q2, t2.h)
<1>1. t.h \in Int /\ t.anns \in Seq(Anns) /\ a.hdr \in Nat /\ b.h \in Int
  BY AloneType DEF Batch
<1>2. OneHeight(b) /\ GoodQueue(Q1, b.h)
  <2>1. CASE t.h < a.hdr /\ Q1 = Queued(q, t) /\ b = Alone(a)
    <3>1. OneHeight(b) /\ b.h = a.hdr
      BY <2>1 DEF OneHeight, Alone
    <3>2. GoodQueue(Q1, t.h)
      BY <2>1, QueuedGood
    <3> QED BY <1>1, <2>1, <3>1, <3>2, GoodLater
  <2>2. CASE t.h = a.hdr /\ Q1 = q /\ b = [h |-> t.h, anns |-> Append(t.anns, a)]
    <3>1. PICK x \in Seq(Anns) : x = t.anns
      BY <1>1
    <3>2. ASSUME NEW i \in DOMAIN Append(x, a) PROVE Append(x, a)[i].hdr = a.hdr
      <4>1. CASE i \in DOMAIN x
        <5>1. Append(x, a)[i] = x[i]
          BY <4>1
        <5> QED BY <2>2, <3>1, <4>1, <5>1 DEF OneHeight
      <4>2. CASE i = Len(x) + 1
        BY <4>2
      <4> QED BY <4>1, <4>2
    <3>3. b.h = a.hdr /\ b.anns = Append(x, a)
      BY <2>2, <3>1
    <3>4. OneHeight(b)
      BY <3>2, <3>3 DEF OneHeight
    <3> QED BY <2>2, <3>3, <3>4
  <2> QED BY <2>1, <2>2 DEF IntoTip
<1>3. CASE t2 = NewBatch(b.h) /\ Q2 = Queued(Q1, b)
  <2>1. t2.h = b.h /\ t2.anns = <<>>
    BY <1>3 DEF NewBatch
  <2>2. GoodQueue(Q2, b.h)
    BY <1>2, <1>3, QueuedGood
  <2> QED BY <2>1, <2>2 DEF OneHeight
<1>4. CASE t2 = b /\ Q2 = Q1
  BY <1>2, <1>4
<1> QED BY <1>3, <1>4 DEF FromTip

\* The steps that leave the batches alone.
LEMMA BatchFrame ==
    ASSUME BatchInv, UNCHANGED <<made, htip, queue, loop>> PROVE BatchInv'
BY DEF BatchInv, EmptyInv

\* submit_to_pool
LEMMA SubmitBatch == ASSUME BaseInv, BatchInv, NEW late \in BOOLEAN, Submit(late) PROVE BatchInv'
<1>1. UNCHANGED <<made, loop>>
  BY DEF Submit, workVars
<1>2. PICK h, a, t, q, b, Q1, t2, Q2, gone, gone2 :
        SubmitsBy(h, a, t, q, b, Q1, t2, Q2, gone, gone2)
  BY SubmitParts
<1>3. /\ htip' = [htip EXCEPT ![h] = t2] /\ queue' = [queue EXCEPT ![h] = Q2]
      /\ h \in made /\ h \in Handlers
  BY <1>2 DEF SubmitsBy, Submitted, BaseInv, TypeOK
<1>4. OneHeight(t2) /\ GoodQueue(Q2, t2.h)
  BY <1>2, <1>3, SubmitGood DEF SubmitsBy, BatchInv
<1>5. htip \in [Handlers -> Batch] /\ queue \in [Handlers -> Seq(Batch)]
  BY DEF BaseInv, TypeOK
<1>6. /\ htip'[h] = t2 /\ queue'[h] = Q2
      /\ \A g \in Handlers : g # h => htip'[g] = htip[g] /\ queue'[g] = queue[g]
  BY <1>3, <1>5
<1>7. ASSUME NEW g \in Handlers PROVE OneHeight(htip'[g]) /\ GoodQueue(queue'[g], htip'[g].h)
  BY <1>4, <1>6 DEF BatchInv
<1>8. EmptyInv'
  BY <1>1, <1>3, <1>6 DEF BatchInv, EmptyInv
<1>9. \A l \in Loops : OneHeight(loop'[l].b)
  BY <1>1 DEF BatchInv
<1> QED BY <1>7, <1>8, <1>9 DEF BatchInv, OneHeight, GoodQueue

\* uploader_loop
LEMMA PopBatchBatch == ASSUME BaseInv, BatchInv, NEW l \in Loops, PopBatch(l) PROVE BatchInv'
<1>1. UNCHANGED <<made, htip>>
  BY DEF PopBatch, workVars
<1>2. PICK h, q, r, b : PopsBy(l, h, q, r, b)
  BY PopParts
<1>3. PICK n \in Nat \ {0} : n = Len(q)
  BY <1>2 DEF PopsBy
<1>4. /\ h \in made /\ h \in Handlers /\ q = queue[h] /\ DOMAIN q = 1 .. n /\ DOMAIN r = 1 .. n - 1
      /\ \A i \in 1 .. n - 1 : r[i] = q[i]
      /\ b = q[n] /\ loop' = [loop EXCEPT ![l] = [at |-> "post", b |-> b]]
      /\ queue' = [queue EXCEPT ![h] = r]
  BY <1>2, <1>3 DEF PopsBy, BaseInv, TypeOK
<1>5. GoodQueue(q, htip[h].h)
  BY <1>4 DEF BatchInv
<1>6. OneHeight(b) /\ GoodQueue(r, htip[h].h)
  <2>1. n \in 1 .. n /\ 1 .. n - 1 \subseteq 1 .. n
    OBVIOUS
  <2> QED BY <1>4, <1>5, <2>1 DEF GoodQueue
<1>7. /\ queue \in [Handlers -> Seq(Batch)]
      /\ loop \in [Loops -> [at : {"none", "pop", "post", "exited"}, b : Batch]]
  BY DEF BaseInv, TypeOK
<1>8. /\ queue'[h] = r /\ \A g \in Handlers : g # h => queue'[g] = queue[g]
      /\ loop'[l].at = "post" /\ loop'[l].b = b /\ \A k \in Loops : k # l => loop'[k] = loop[k]
  BY <1>4, <1>7
<1>9. ASSUME NEW g \in Handlers PROVE OneHeight(htip'[g]) /\ GoodQueue(queue'[g], htip'[g].h)
  BY <1>1, <1>6, <1>8 DEF BatchInv
<1>10. \A k \in Loops : OneHeight(loop'[k].b)
  BY <1>6, <1>8 DEF BatchInv
<1>11. EmptyInv'
  BY <1>1, <1>4, <1>8 DEF BatchInv, EmptyInv
<1> QED BY <1>9, <1>10, <1>11 DEF BatchInv, OneHeight, GoodQueue

\* An upload ends, or an uploader does.
LEMMA UploadEndsBatch ==
    ASSUME BaseInv, BatchInv, NEW l \in Loops, NEW end,
           UploadEnds(l, end) \/ UploaderExits(l)
    PROVE  BatchInv'
<1>1. /\ UNCHANGED <<made, htip, queue>>
      /\ loop' = [loop EXCEPT ![l] = At("pop")] \/ loop' = [loop EXCEPT ![l] = At("exited")]
  BY DEF UploadEnds, UploaderExits, workVars
<1>2. At("pop").b.anns = <<>> /\ At("exited").b.anns = <<>>
  BY DEF At, NewBatch
<1>3. loop \in [Loops -> [at : {"none", "pop", "post", "exited"}, b : Batch]]
  BY DEF BaseInv, TypeOK
<1>4. loop'[l].b.anns = <<>> /\ \A k \in Loops : k # l => loop'[k] = loop[k]
  BY <1>1, <1>2, <1>3
<1>5. \A k \in Loops : OneHeight(loop'[k].b)
  BY <1>4 DEF BatchInv, OneHeight
<1>6. EmptyInv'
  BY <1>1, <1>4 DEF BatchInv, EmptyInv
<1> QED BY <1>1, <1>5, <1>6 DEF BatchInv, OneHeight, GoodQueue

\* A handler that is made has nothing yet.
LEMMA TakeUpdateBatch == ASSUME BaseInv, BatchInv, NEW u, TakeUpdate(u) PROVE BatchInv'
<1>1. PICK H, x : /\ made' = made \cup H /\ H \cap made = {}
                  /\ htip' = [h \in Handlers |-> IF h \in H THEN NewBatch(x) ELSE htip[h]]
                  /\ loop' = [l \in Loops |-> IF l[1] \in H THEN At("pop") ELSE loop[l]]
                  /\ queue' = queue
  BY DEF TakeUpdate, SetHandlers
<1>2. At("pop").b.anns = <<>> /\ NewBatch(x).anns = <<>>
  BY DEF At, NewBatch
<1>3. \A h \in Handlers : htip'[h] = IF h \in H THEN NewBatch(x) ELSE htip[h]
  BY <1>1
<1>4. \A l \in Loops : loop'[l] = IF l[1] \in H THEN At("pop") ELSE loop[l]
  BY <1>1
<1>5. EmptyInv'
  BY <1>1, <1>2, <1>3, <1>4 DEF BatchInv, EmptyInv
<1>6. \A l \in Loops : OneHeight(loop'[l].b)
  BY <1>2, <1>4 DEF BatchInv, OneHeight
<1>7. ASSUME NEW h \in Handlers PROVE OneHeight(htip'[h]) /\ GoodQueue(queue'[h], htip'[h].h)
  <2>1. CASE h \in H
    <3>1. queue'[h] = <<>> /\ htip'[h].anns = <<>>
      BY <1>1, <1>2, <1>3, <2>1 DEF BatchInv, EmptyInv
    <3> QED BY <3>1 DEF OneHeight, GoodQueue
  <2>2. CASE h \notin H
    BY <1>1, <1>3, <2>2 DEF BatchInv
  <2> QED BY <2>1, <2>2
<1> QED BY <1>5, <1>6, <1>7 DEF BatchInv, OneHeight, GoodQueue

\* There are no batches yet.
LEMMA BatchInit == Init => BatchInv
<1> SUFFICES ASSUME Init PROVE BatchInv
  OBVIOUS
<1>1. /\ \A h \in Handlers : htip[h].anns = <<>> /\ queue[h] = <<>>
      /\ \A l \in Loops : loop[l].b.anns = <<>>
  BY DEF Init, NewBatch, At
<1> QED BY <1>1 DEF BatchInv, EmptyInv, OneHeight, GoodQueue

\* Every step keeps the batches.
LEMMA BatchStep == BaseInv /\ BatchInv /\ [Next]_vars => BatchInv'
<1> SUFFICES ASSUME BaseInv, BatchInv, [Next]_vars PROVE BatchInv'
  OBVIOUS
<1>1. CASE UNCHANGED <<made, htip, queue, loop>>
  BY <1>1, BatchFrame
<1>2. ASSUME NEW u, UpdateIsOld(u) \/ NoWorkYet(u) PROVE UNCHANGED <<made, htip, queue, loop>>
  BY <1>2 DEF UpdateIsOld, NoWorkYet, uploadVars
<1>3. CASE UpdateStep
  BY <1>1, <1>2, <1>3, TakeUpdateBatch
  DEF UpdateStep, StartMining, NoTarget, ShutDown, annMineVars, workVars, uploadVars
<1>4. CASE AnnStep
  BY <1>1, <1>4, SubmitBatch DEF AnnStep, ChooseHandler, NoHandler, RefuseOld, workVars, uploadVars
<1>5. ASSUME NEW l \in Loops, UploaderStep(l) PROVE BatchInv'
  BY <1>5, PopBatchBatch, UploadEndsBatch DEF UploaderStep
<1>6. CASE ClientStep
  BY <1>1, <1>6 DEF ClientStep, annMineVars, workVars, uploadVars
<1>7. ASSUME NEW a \in Anns, OnAnnFound(a) PROVE BatchInv'
  BY <1>1, <1>7 DEF OnAnnFound, workVars, uploadVars
<1>8. ASSUME UNCHANGED annMineVars PROVE BatchInv'
  BY <1>1, <1>8 DEF annMineVars, workVars, uploadVars
<1>9. CASE UNCHANGED vars
  BY <1>1, <1>9 DEF vars, workVars, uploadVars
<1> QED BY <1>3, <1>4, <1>5, <1>6, <1>7, <1>8, <1>9 DEF Next

\* A handler is never posted an announcement of another height than that of the
\* batch, and the batches that wait for it are in the order of their heights, so
\* that the one a full queue gives up is of the oldest block.
THEOREM BatchesInOrder == Spec => []BatchHeights
<1>1. BaseInv /\ BatchInv => BatchHeights
  <2> SUFFICES ASSUME BaseInv, BatchInv, NEW h \in made
               PROVE  /\ \A b \in Batches(h) : OneHeight(b)
                      /\ GoodQueue(queue[h], htip[h].h)
    BY DEF BatchHeights, OneHeight, GoodQueue
  <2>1. h \in Handlers
    BY DEF BaseInv, TypeOK
  <2>2. ASSUME NEW b \in Batches(h) PROVE OneHeight(b)
    <3>1. \/ b = htip[h] \/ \E i \in DOMAIN queue[h] : b = queue[h][i]
          \/ \E l \in Loops : b = loop[l].b
      BY <2>2 DEF Batches
    <3> QED BY <2>1, <3>1 DEF BatchInv, GoodQueue
  <2> QED BY <2>1, <2>2 DEF BatchInv
<1> QED BY <1>1, BaseInvariant, BatchInit, BatchStep, PTL DEF Spec

-----------------------------------------------------------------------------
(* Places.                                                                 *)

\* The places of an announcement, from what the places have.
TipAt(z, a, M, T) == \E h \in M : z = <<"tip", h>> /\ Has(T[h], a)
QueueAt(z, a, M, Q) ==
    \E h \in M : \E n \in DOMAIN Q[h] : z = <<"queue", h, n>> /\ Has(Q[h][n], a)
PostAt(z, a, L) == \E l \in Loops : z = <<"post", l>> /\ Has(L[l].b, a)
EndAt(z, a, O) == z \in O /\ Has(z[2], a)
ResultAt(z, a, R) == \E i \in DOMAIN R : z = <<"result", i>> /\ R[i] = a
HandAt(z, a, H) == z = <<"hand">> /\ H /= None /\ H.ann = a
PlaceIn(z, a, M, T, Q, L, O, R, H) ==
    \/ TipAt(z, a, M, T) \/ QueueAt(z, a, M, Q) \/ PostAt(z, a, L)
    \/ EndAt(z, a, O) \/ ResultAt(z, a, R) \/ HandAt(z, a, H)
PlacesFact ==
    \A a, z : z \in Places(a) <=> PlaceIn(z, a, made, htip, queue, loop, over, results, hand)
\* Places, place by place.
LEMMA PlacesDef == PlacesFact
<1> SUFFICES ASSUME NEW a, NEW z
             PROVE  z \in Places(a) <=> PlaceIn(z, a, made, htip, queue, loop, over, results, hand)
  BY DEF PlacesFact
<1>1. z \in InTips(a) <=> TipAt(z, a, made, htip)
  BY DEF InTips, TipAt
<1>2. z \in InQueues(a) <=> QueueAt(z, a, made, queue)
  BY DEF InQueues, QueueAt
<1>3. z \in InPosts(a) <=> PostAt(z, a, loop)
  BY DEF InPosts, PostAt
<1>4. z \in Ended(a) <=> EndAt(z, a, over)
  BY DEF Ended, EndAt
<1>5. z \in InResults(a) <=> ResultAt(z, a, results)
  BY DEF InResults, ResultAt
<1>6. z \in InHand(a) <=> HandAt(z, a, hand)
  BY DEF InHand, HandAt
<1> QED BY <1>1, <1>2, <1>3, <1>4, <1>5, <1>6 DEF Places, PlaceIn

\* The same after a step.
LEMMA PlacesNext == PlacesFact'
BY PlacesDef, PTL

\* The places after a step are those that f gives for the places before it.
Moves(f, P, Q) == (\A z \in P : f[z] \in Q) /\ (\A w \in Q : \E z \in P : w = f[z])
\* A step that moves places keeps their number, none or one.
LEMMA MovesOne ==
    ASSUME NEW f, NEW P, NEW Q, Moves(f, P, Q)
    PROVE  (P = {} => Q = {}) /\ \A x : P = {x} => Q = {f[x]}
<1>1. P = {} => Q = {}
  BY DEF Moves
<1>2. ASSUME NEW x, P = {x} PROVE Q = {f[x]}
  BY <1>2 DEF Moves
<1> QED BY <1>1, <1>2

\* So it keeps the invariant, if it does so for every announcement.
LEMMA MovesKeep ==
    ASSUME PlaceInv, found' = found,
           \A a \in Anns : \E f : Moves(f, Places(a), Places(a)'), DOMAIN found \subseteq Anns
    PROVE  PlaceInv'
<1>1. ASSUME NEW a \in Anns
      PROVE  /\ Places(a) = {} => Places(a)' = {}
             /\ (\E x : Places(a) = {x}) => \E x : Places(a)' = {x}
  <2>1. PICK P, Q : P = Places(a) /\ Q = Places(a)'
    OBVIOUS
  <2>2. PICK f : Moves(f, P, Q)
    BY <2>1
  <2>3. P = {} => Q = {}
    BY <2>2, MovesOne
  <2>4. ASSUME NEW x, P = {x} PROVE \E y : Q = {y}
    <3>1. Q = {f[x]}
      BY <2>2, <2>4, MovesOne
    <3> QED BY <3>1
  <2> QED BY <2>1, <2>3, <2>4
<1>2. ASSUME NEW a \in DOMAIN found PROVE \E x : Places(a)' = {x}
  BY <1>1, <1>2 DEF PlaceInv
<1>3. ASSUME NEW a \in Anns \ DOMAIN found PROVE Places(a)' = {}
  BY <1>1, <1>3 DEF PlaceInv
<1> QED BY <1>2, <1>3 DEF PlaceInv

\* The steps that leave the places alone.
LEMMA PlaceFrame ==
    ASSUME PlaceInv, UNCHANGED <<found, made, htip, queue, loop, over, results, hand>>
    PROVE  PlaceInv'
<1>1. \A a : Places(a)' = Places(a)
  BY DEF Places, InTips, InQueues, InPosts, Ended, InResults, InHand
<1> QED BY <1>1 DEF PlaceInv

\* on_ann_found: the channel.
LEMMA OnAnnFoundPlace ==
    ASSUME BaseInv, PlaceInv, NEW a \in Anns, OnAnnFound(a) PROVE PlaceInv'
<1>1. /\ DOMAIN found' = DOMAIN found \cup {a} /\ a \notin DOMAIN found
      /\ results' = Append(results, a) /\ results \in Seq(Anns)
      /\ UNCHANGED <<made, hand, htip, queue, loop, over>>
  BY FoundParts
<1>2. PICK n \in Nat : n = Len(results)
  BY <1>1
<1>3. /\ DOMAIN results = 1 .. n /\ DOMAIN results' = 1 .. n + 1
      /\ results'[n + 1] = a /\ \A i \in 1 .. n : results'[i] = results[i]
  BY <1>1, <1>2
<1>5. \A b, z : ResultAt(z, b, results') <=> ResultAt(z, b, results) \/ (b = a /\ z = <<"result", n + 1>>)
  BY <1>3 DEF ResultAt
<1>6. \A b, z : z \in Places(b)' <=> z \in Places(b) \/ (b = a /\ z = <<"result", n + 1>>)
  <2> TAKE b, z
  <2>1. z \in Places(b) <=> PlaceIn(z, b, made, htip, queue, loop, over, results, hand)
    BY PlacesDef DEF PlacesFact
  <2>2. z \in Places(b)' <=> PlaceIn(z, b, made, htip, queue, loop, over, results', hand)
    BY <1>1, PlacesNext DEF PlacesFact
  <2> QED BY <1>5, <2>1, <2>2 DEF PlaceIn
<1>7. Places(a) = {}
  BY <1>1 DEF PlaceInv
<1>8. Places(a)' = {<<"result", n + 1>>}
  BY <1>6, <1>7
<1>9. \A b : b # a => Places(b)' = Places(b)
  BY <1>6
<1> QED BY <1>1, <1>8, <1>9 DEF PlaceInv

\* What the kinds of places look like.
LEMMA Kinds ==
    ASSUME NEW z, NEW a
    PROVE  /\ \A M, T : TipAt(z, a, M, T) => z[1] = "tip"
           /\ \A M, Q : QueueAt(z, a, M, Q) => z[1] = "queue"
           /\ \A L : PostAt(z, a, L) => z[1] = "post"
           /\ \A O : O \subseteq Ends \X Batch /\ EndAt(z, a, O) => z[1] \in Ends
           /\ \A R : ResultAt(z, a, R) => z[1] = "result"
           /\ \A H : HandAt(z, a, H) => z[1] = "hand"
<1>1. \A M, T : TipAt(z, a, M, T) => z[1] = "tip"
  BY DEF TipAt
<1>2. \A M, Q : QueueAt(z, a, M, Q) => z[1] = "queue"
  BY DEF QueueAt
<1>3. \A L : PostAt(z, a, L) => z[1] = "post"
  BY DEF PostAt
<1>4. \A O : O \subseteq Ends \X Batch /\ EndAt(z, a, O) => z[1] \in Ends
  BY DEF EndAt
<1>5. \A R : ResultAt(z, a, R) => z[1] = "result"
  BY DEF ResultAt
<1>6. \A H : HandAt(z, a, H) => z[1] = "hand"
  BY DEF HandAt
<1> QED BY <1>1, <1>2, <1>3, <1>4, <1>5, <1>6

\* The places as a set, of other values of the variables than those they have.
TipsOf(M) == {<<"tip", h>> : h \in M}
QueuesOf(M, Q) == UNION {{<<"queue", h, n>> : n \in DOMAIN Q[h]} : h \in M}
PostsOf == {<<"post", l>> : l \in Loops}
ResultsOf(R) == {<<"result", i>> : i \in DOMAIN R}
AllPlaces(M, Q, O, R) ==
    TipsOf(M) \cup QueuesOf(M, Q) \cup PostsOf \cup O \cup ResultsOf(R) \cup {<<"hand">>}
PlaceSet(a, M, T, Q, L, O, R, H) ==
    {z \in AllPlaces(M, Q, O, R) : PlaceIn(z, a, M, T, Q, L, O, R, H)}
\* They are the places of the announcement.
LEMMA PlaceSetDef ==
    ASSUME NEW a, NEW M, NEW T, NEW Q, NEW L, NEW O, NEW R, NEW H, NEW z
    PROVE  z \in PlaceSet(a, M, T, Q, L, O, R, H) <=> PlaceIn(z, a, M, T, Q, L, O, R, H)
<1>1. TipAt(z, a, M, T) => z \in TipsOf(M)
  BY DEF TipAt, TipsOf
<1>2. QueueAt(z, a, M, Q) => z \in QueuesOf(M, Q)
  BY DEF QueueAt, QueuesOf
<1>3. PostAt(z, a, L) => z \in PostsOf
  BY DEF PostAt, PostsOf
<1>4. EndAt(z, a, O) => z \in O
  BY DEF EndAt
<1>5. ResultAt(z, a, R) => z \in ResultsOf(R)
  BY DEF ResultAt, ResultsOf
<1>6. HandAt(z, a, H) => z \in {<<"hand">>}
  BY DEF HandAt
<1>7. PlaceIn(z, a, M, T, Q, L, O, R, H) => z \in AllPlaces(M, Q, O, R)
  BY <1>1, <1>2, <1>3, <1>4, <1>5, <1>6 DEF AllPlaces, PlaceIn
<1> QED BY <1>7 DEF PlaceSet

\* A function that moves the places, from what it does to each kind.
LEMMA MovesIf ==
    ASSUME NEW P, NEW Q, NEW f,
           \A z \in P : f[z] \in Q, \A w \in Q : \E z \in P : w = f[z]
    PROVE  \E g : Moves(g, P, Q)
<1>1. Moves(f, P, Q)
  BY DEF Moves
<1> QED BY <1>1

\* Two moves are one.
LEMMA MovesTwice ==
    ASSUME NEW P, NEW Q, NEW R, \E f : Moves(f, P, Q), \E f : Moves(f, Q, R)
    PROVE  \E f : Moves(f, P, R)
<1>1. PICK f : Moves(f, P, Q)
  OBVIOUS
<1>2. PICK g : Moves(g, Q, R)
  OBVIOUS
<1>3. PICK k : \A z \in P : k[z] = g[f[z]]
  <2>1. \A z \in P : [y \in P |-> g[f[y]]][z] = g[f[z]]
    OBVIOUS
  <2> QED BY <2>1
<1>4. \A z \in P : k[z] \in R
  BY <1>1, <1>2, <1>3 DEF Moves
<1>5. ASSUME NEW w \in R PROVE \E z \in P : w = k[z]
  <2>1. PICK y \in Q : w = g[y]
    BY <1>2 DEF Moves
  <2>2. PICK z \in P : y = f[z]
    BY <1>1 DEF Moves
  <2> QED BY <1>3, <2>1, <2>2
<1> QED BY <1>4, <1>5, MovesIf

\* The first announcement of the channel goes to the place y.
ResultTaken(a, P, Q, R, y) ==
    /\ \A z : ResultAt(z, a, R) <=> z \in P /\ z[1] = "result"
    /\ \A z : z \in Q <=> \/ z \in P /\ z[1] # "result"
                         \/ ResultAt(z, a, Tail(R)) \/ (a = Head(R) /\ z = y)
\* That is a move.
LEMMA TakeResult ==
    ASSUME NEW a, NEW P, NEW Q, NEW R \in Seq(Anns), R # <<>>, NEW y, ResultTaken(a, P, Q, R, y)
    PROVE  \E f : Moves(f, P, Q)
<1> USE DEF ResultTaken
<1>1. PICK n \in Nat \ {0} : n = Len(R)
  BY EmptySeq
<1>2. PICK S : S = Tail(R)
  OBVIOUS
<1>3. /\ DOMAIN R = 1 .. n /\ DOMAIN S = 1 .. n - 1 /\ Head(R) = R[1]
      /\ \A i \in 1 .. n - 1 : S[i] = R[i + 1]
  BY <1>1, <1>2
<1> DEFINE F(z) == IF z[1] = "result"
                   THEN IF z[2] = 1 THEN y ELSE <<"result", z[2] - 1>> ELSE z
<1>4. PICK f : \A z \in P : f[z] = F(z)
  <2>1. \A z \in P : [x \in P |-> F(x)][z] = F(z)
    OBVIOUS
  <2> HIDE DEF F
  <2> QED BY <2>1
<1>5. ASSUME NEW z \in P PROVE f[z] \in Q
  <2>1. CASE z[1] # "result"
    <3>1. f[z] = z
      BY <1>4, <2>1
    <3> QED BY <2>1, <3>1
  <2>2. CASE z[1] = "result"
    <3>1. ResultAt(z, a, R)
      BY <2>2
    <3>2. PICK i \in 1 .. n : z = <<"result", i>> /\ R[i] = a
      BY <1>3, <3>1 DEF ResultAt
    <3>3. CASE i = 1
      <4>1. f[z] = y
        BY <1>4, <3>2, <3>3
      <4> QED BY <1>3, <3>2, <3>3, <4>1
    <3>4. CASE i # 1
      <4>1. f[z] = <<"result", i - 1>>
        BY <1>4, <3>2, <3>4
      <4>2. i - 1 \in 1 .. n - 1 /\ (i - 1) + 1 = i
        BY <3>4
      <4>3. i - 1 \in DOMAIN S /\ S[i - 1] = a
        BY <1>3, <3>2, <4>2
      <4>4. ResultAt(f[z], a, S)
        BY <4>1, <4>3 DEF ResultAt
      <4> QED BY <1>2, <4>4
    <3> QED BY <3>3, <3>4
  <2> QED BY <2>1, <2>2
<1>6. ASSUME NEW w \in Q PROVE \E z \in P : w = f[z]
  <2>1. CASE w \in P /\ w[1] # "result"
    BY <1>4, <2>1
  <2>2. CASE ResultAt(w, a, S)
    <3>1. PICK i \in 1 .. n - 1 : w = <<"result", i>> /\ S[i] = a
      BY <1>3, <2>2 DEF ResultAt
    <3>2. i + 1 \in 1 .. n /\ R[i + 1] = a /\ i + 1 # 1 /\ (i + 1) - 1 = i
      BY <1>3, <3>1
    <3>3. ResultAt(<<"result", i + 1>>, a, R)
      BY <1>3, <3>2 DEF ResultAt
    <3>4. <<"result", i + 1>> \in P
      BY <3>3
    <3>5. f[<<"result", i + 1>>] = <<"result", i>>
      BY <1>4, <3>2, <3>4
    <3> QED BY <3>1, <3>4, <3>5
  <2>3. CASE a = Head(R) /\ w = y
    <3>1. ResultAt(<<"result", 1>>, a, R)
      BY <1>3, <2>3 DEF ResultAt
    <3>2. <<"result", 1>> \in P
      BY <3>1
    <3>3. f[<<"result", 1>>] = y
      BY <1>4, <3>2
    <3> QED BY <2>3, <3>2, <3>3
  <2> QED BY <1>2, <2>1, <2>2, <2>3
<1> QED BY <1>5, <1>6, MovesIf

\* What is in the place x goes to the place y.
Taken(P, Q, x, y) == \A z : z \in Q <=> (z \in P /\ z # x) \/ (x \in P /\ z = y)
\* That is a move too.
LEMMA TakeFrom ==
    ASSUME NEW P, NEW Q, NEW x, NEW y, Taken(P, Q, x, y)
    PROVE  \E f : Moves(f, P, Q)
<1>1. PICK f : \A z \in P : f[z] = IF z = x THEN y ELSE z
  <2>1. \A z \in P : [u \in P |-> IF u = x THEN y ELSE u][z] = IF z = x THEN y ELSE z
    OBVIOUS
  <2> QED BY <2>1
<1>2. \A z \in P : f[z] \in Q
  BY <1>1 DEF Taken
<1>3. \A w \in Q : \E z \in P : w = f[z]
  BY <1>1 DEF Taken
<1> QED BY <1>2, <1>3, MovesIf

\* The places of an announcement before and after a step.
LEMMA PlacesAre ==
    ASSUME NEW a
    PROVE  /\ Places(a) = PlaceSet(a, made, htip, queue, loop, over, results, hand)
           /\ Places(a)' = PlaceSet(a, made', htip', queue', loop', over', results', hand')
<1>1. \A z : z \in Places(a) <=> z \in PlaceSet(a, made, htip, queue, loop, over, results, hand)
  BY PlacesDef, PlaceSetDef DEF PlacesFact
<1>2. \A z : z \in Places(a)' <=> z \in PlaceSet(a, made', htip', queue', loop', over', results', hand')
  BY PlacesNext, PlaceSetDef DEF PlacesFact
<1> QED BY <1>1, <1>2

\* The tip of a handler is put at the back of its queue.
LEMMA TipAppended ==
    ASSUME NEW a, NEW M, M \subseteq Handlers, NEW T \in [Handlers -> Batch],
           NEW Q \in [Handlers -> Seq(Batch)], NEW L, NEW O, O \subseteq Ends \X Batch,
           NEW R, NEW H, NEW h \in M, NEW c \in Batch, c.anns = <<>>
    PROVE  \E f : Moves(f, PlaceSet(a, M, T, Q, L, O, R, H),
                       PlaceSet(a, M, [T EXCEPT ![h] = c], [Q EXCEPT ![h] = Append(Q[h], T[h])],
                                L, O, R, H))
<1>1. h \in Handlers
  OBVIOUS
<1>2. PICK b \in Batch, q \in Seq(Batch) : b = T[h] /\ q = Q[h]
  BY <1>1
<1>3. PICK n \in Nat : n = Len(q)
  OBVIOUS
<1>4. PICK r : r = Append(q, b)
  OBVIOUS
<1>5. DOMAIN q = 1 .. n /\ DOMAIN r = 1 .. n + 1 /\ r[n + 1] = b /\ \A i \in 1 .. n : r[i] = q[i]
  BY <1>3, <1>4
<1>6. PICK T1 : T1 = [T EXCEPT ![h] = c]
  OBVIOUS
<1>7. PICK Q1 : Q1 = [Q EXCEPT ![h] = r]
  OBVIOUS
<1>8. /\ T1[h] = c /\ \A g \in M : g # h => T1[g] = T[g]
      /\ Q1[h] = r /\ \A g \in M : g # h => Q1[g] = Q[g]
  BY <1>1, <1>6, <1>7
<1>9. \A z : TipAt(z, a, M, T1) <=> TipAt(z, a, M, T) /\ z # <<"tip", h>>
  <2>1. ~Has(c, a)
    BY DEF Has
  <2> QED BY <1>8, <2>1 DEF TipAt
<1>10. \A z : QueueAt(z, a, M, Q1) <=>
               QueueAt(z, a, M, Q) \/ (z = <<"queue", h, n + 1>> /\ Has(b, a))
  <2> TAKE z
  <2>1. ASSUME QueueAt(z, a, M, Q1)
        PROVE  QueueAt(z, a, M, Q) \/ (z = <<"queue", h, n + 1>> /\ Has(b, a))
    <3>1. PICK g \in M : \E i \in DOMAIN Q1[g] : z = <<"queue", g, i>> /\ Has(Q1[g][i], a)
      BY <2>1 DEF QueueAt
    <3>2. PICK i \in DOMAIN Q1[g] : z = <<"queue", g, i>> /\ Has(Q1[g][i], a)
      BY <3>1
    <3>3. CASE g # h
      BY <1>8, <3>2, <3>3 DEF QueueAt
    <3>4. CASE g = h
      <4>1. i \in 1 .. n + 1 /\ Has(r[i], a)
        BY <1>5, <1>8, <3>2, <3>4
      <4>2. CASE i = n + 1
        BY <1>5, <3>2, <3>4, <4>1, <4>2
      <4>3. CASE i \in 1 .. n
        <5>1. i \in DOMAIN Q[g] /\ Has(Q[g][i], a)
          BY <1>2, <1>5, <3>4, <4>1, <4>3
        <5> QED BY <3>2, <5>1 DEF QueueAt
      <4> QED BY <4>1, <4>2, <4>3
    <3> QED BY <3>3, <3>4
  <2>2. ASSUME QueueAt(z, a, M, Q) PROVE QueueAt(z, a, M, Q1)
    <3>1. PICK g \in M : \E i \in DOMAIN Q[g] : z = <<"queue", g, i>> /\ Has(Q[g][i], a)
      BY <2>2 DEF QueueAt
    <3>2. PICK i \in DOMAIN Q[g] : z = <<"queue", g, i>> /\ Has(Q[g][i], a)
      BY <3>1
    <3>3. i \in DOMAIN Q1[g] /\ Q1[g][i] = Q[g][i]
      <4>1. CASE g # h
        BY <1>8, <3>2, <4>1
      <4>2. CASE g = h
        <5>1. i \in 1 .. n /\ i \in 1 .. n + 1 /\ Q[g] = q /\ Q1[g] = r
          BY <1>2, <1>5, <1>8, <3>2, <4>2
        <5> QED BY <1>5, <5>1
      <4> QED BY <4>1, <4>2
    <3> QED BY <3>2, <3>3 DEF QueueAt
  <2>3. ASSUME z = <<"queue", h, n + 1>>, Has(b, a) PROVE QueueAt(z, a, M, Q1)
    <3>1. n + 1 \in DOMAIN Q1[h] /\ Has(Q1[h][n + 1], a)
      BY <1>5, <1>8, <2>3
    <3> QED BY <2>3, <3>1 DEF QueueAt
  <2> QED BY <2>1, <2>2, <2>3
<1> DEFINE P == PlaceSet(a, M, T, Q, L, O, R, H)
           S == PlaceSet(a, M, T1, Q1, L, O, R, H)
<1>11. /\ \A z : z \in P <=> PlaceIn(z, a, M, T, Q, L, O, R, H)
       /\ \A z : z \in S <=> PlaceIn(z, a, M, T1, Q1, L, O, R, H)
  BY PlaceSetDef
<1> HIDE DEF P, S
<1>12. <<"tip", h>> \in P <=> Has(b, a)
  <2>1. TipAt(<<"tip", h>>, a, M, T) <=> Has(b, a)
    BY <1>2 DEF TipAt
  <2>2. <<"tip", h>>[1] = "tip" /\ "tip" \notin Ends
    BY DEF Ends
  <2>3. PlaceIn(<<"tip", h>>, a, M, T, Q, L, O, R, H) <=> TipAt(<<"tip", h>>, a, M, T)
    BY <2>2, Kinds DEF PlaceIn
  <2> QED BY <1>11, <2>1, <2>3
<1>13. \A z : PostAt(z, a, L) \/ EndAt(z, a, O) \/ ResultAt(z, a, R) \/ HandAt(z, a, H)
               \/ QueueAt(z, a, M, Q) => z # <<"tip", h>>
  <2>1. <<"tip", h>>[1] = "tip" /\ "tip" \notin Ends
    BY DEF Ends
  <2> QED BY <2>1, Kinds
<1>14. Taken(P, S, <<"tip", h>>, <<"queue", h, n + 1>>)
  BY <1>9, <1>10, <1>11, <1>12, <1>13 DEF PlaceIn, Taken
<1>15. \E f : Moves(f, P, S)
  BY <1>14, TakeFrom
<1> QED BY <1>2, <1>4, <1>6, <1>7, <1>15 DEF P, S

\* The announcement in hand goes into the tip of a handler.
LEMMA HandIntoTip ==
    ASSUME NEW a, NEW M, M \subseteq Handlers, NEW T \in [Handlers -> Batch], NEW Q,
           NEW L, NEW O, O \subseteq Ends \X Batch,
           NEW R, NEW H, H # None, NEW h \in M, NEW d, Has(d, a) <=> Has(T[h], a) \/ a = H.ann
    PROVE  \E f : Moves(f, PlaceSet(a, M, T, Q, L, O, R, H),
                       PlaceSet(a, M, [T EXCEPT ![h] = d], Q, L, O, R, None))
<1>1. h \in Handlers
  OBVIOUS
<1>2. PICK T1 : T1 = [T EXCEPT ![h] = d]
  OBVIOUS
<1>3. T1[h] = d /\ \A g \in M : g # h => T1[g] = T[g]
  BY <1>1, <1>2
<1>4. \A z : TipAt(z, a, M, T1) <=> TipAt(z, a, M, T) \/ (z = <<"tip", h>> /\ a = H.ann)
  BY <1>3 DEF TipAt
<1> DEFINE P == PlaceSet(a, M, T, Q, L, O, R, H)
           S == PlaceSet(a, M, T1, Q, L, O, R, None)
<1>5. /\ \A z : z \in P <=> PlaceIn(z, a, M, T, Q, L, O, R, H)
      /\ \A z : z \in S <=> PlaceIn(z, a, M, T1, Q, L, O, R, None)
  BY PlaceSetDef
<1> HIDE DEF P, S
<1>6. <<"hand">>[1] = "hand" /\ "hand" \notin Ends
  BY DEF Ends
<1>7. <<"hand">> \in P <=> a = H.ann
  <2>1. HandAt(<<"hand">>, a, H) <=> a = H.ann
    BY DEF HandAt
  <2>2. PlaceIn(<<"hand">>, a, M, T, Q, L, O, R, H) <=> HandAt(<<"hand">>, a, H)
    BY <1>6, Kinds DEF PlaceIn
  <2> QED BY <1>5, <2>1, <2>2
<1>8. \A z : TipAt(z, a, M, T) \/ PostAt(z, a, L) \/ EndAt(z, a, O) \/ ResultAt(z, a, R)
              \/ QueueAt(z, a, M, Q) => z # <<"hand">>
  BY <1>6, Kinds
<1>9. \A z : ~HandAt(z, a, None) /\ (HandAt(z, a, H) => z = <<"hand">>)
  BY DEF HandAt
<1>10. Taken(P, S, <<"hand">>, <<"tip", h>>)
  BY <1>4, <1>5, <1>7, <1>8, <1>9 DEF PlaceIn, Taken
<1>11. \E f : Moves(f, P, S)
  BY <1>10, TakeFrom
<1> QED BY <1>2, <1>11 DEF P, S

\* The first batch of a queue is given up.
LEMMA HeadGivenUp ==
    ASSUME NEW a, NEW M, M \subseteq Handlers, NEW T,
           NEW Q \in [Handlers -> Seq(Batch)], NEW L, NEW O, O \subseteq Ends \X Batch,
           NEW R, NEW H, NEW h \in M, Q[h] # <<>>
    PROVE  \E f : Moves(f, PlaceSet(a, M, T, Q, L, O, R, H),
                       PlaceSet(a, M, T, [Q EXCEPT ![h] = Tail(Q[h])], L,
                                O \cup {<<"lost", Head(Q[h])>>}, R, H))
<1>1. h \in Handlers
  OBVIOUS
<1>2. PICK q \in Seq(Batch) : q = Q[h]
  BY <1>1
<1>3. PICK n \in Nat \ {0} : n = Len(q)
  BY <1>2, EmptySeq
<1>4. PICK r : r = Tail(q)
  OBVIOUS
<1>5. /\ DOMAIN q = 1 .. n /\ DOMAIN r = 1 .. n - 1 /\ Head(q) = q[1]
      /\ \A i \in 1 .. n - 1 : r[i] = q[i + 1]
  BY <1>3, <1>4
<1>6. PICK Q1 : Q1 = [Q EXCEPT ![h] = r]
  OBVIOUS
<1>7. PICK y : y = <<"lost", q[1]>>
  OBVIOUS
<1>8. Q1[h] = r /\ \A g \in M : g # h => Q1[g] = Q[g]
  BY <1>1, <1>6
<1> DEFINE P == PlaceSet(a, M, T, Q, L, O, R, H)
           S == PlaceSet(a, M, T, Q1, L, O \cup {y}, R, H)
           Mine(z) == z[1] = "queue" /\ z[2] = h
           F(z) == IF Mine(z) THEN IF z[3] = 1 THEN y ELSE <<"queue", h, z[3] - 1>> ELSE z
<1>9. /\ \A z : z \in P <=> PlaceIn(z, a, M, T, Q, L, O, R, H)
      /\ \A z : z \in S <=> PlaceIn(z, a, M, T, Q1, L, O \cup {y}, R, H)
  BY PlaceSetDef
<1> HIDE DEF P, S
<1>10. PICK f : \A z \in P : f[z] = F(z)
  <2>1. \A z \in P : [x \in P |-> F(x)][z] = F(z)
    OBVIOUS
  <2> HIDE DEF F
  <2> QED BY <2>1
<1>11. \A z : EndAt(z, a, O \cup {y}) <=> EndAt(z, a, O) \/ (z = y /\ Has(q[1], a))
  BY <1>7 DEF EndAt
<1>12. \A z : ~QueueAt(z, a, M, Q) /\ PlaceIn(z, a, M, T, Q, L, O, R, H) => z[1] # "queue"
  <2>1. "queue" \notin Ends
    BY DEF Ends
  <2> QED BY <2>1, Kinds DEF PlaceIn
<1>13. ASSUME NEW z \in P PROVE f[z] \in S
  <2>1. CASE ~QueueAt(z, a, M, Q)
    <3>1. f[z] = z
      BY <1>9, <1>10, <1>12, <2>1
    <3>2. PlaceIn(z, a, M, T, Q1, L, O \cup {y}, R, H)
      BY <1>9, <1>11, <2>1 DEF PlaceIn
    <3> QED BY <1>9, <3>1, <3>2
  <2>2. CASE QueueAt(z, a, M, Q)
    <3>1. PICK g \in M : \E i \in DOMAIN Q[g] : z = <<"queue", g, i>> /\ Has(Q[g][i], a)
      BY <2>2 DEF QueueAt
    <3>2. PICK i \in DOMAIN Q[g] : z = <<"queue", g, i>> /\ Has(Q[g][i], a)
      BY <3>1
    <3>3. CASE g # h
      <4>1. f[z] = z
        BY <1>10, <3>2, <3>3
      <4>2. QueueAt(z, a, M, Q1)
        BY <1>8, <3>2, <3>3 DEF QueueAt
      <4> QED BY <1>9, <4>1, <4>2 DEF PlaceIn
    <3>4. CASE g = h /\ i = 1
      <4>1. f[z] = y
        BY <1>10, <3>2, <3>4
      <4>2. EndAt(y, a, O \cup {y})
        BY <1>2, <1>11, <3>2, <3>4
      <4> QED BY <1>9, <4>1, <4>2 DEF PlaceIn
    <3>5. CASE g = h /\ i # 1
      <4>1. i \in 1 .. n /\ Has(q[i], a) /\ i - 1 \in 1 .. n - 1 /\ (i - 1) + 1 = i
        BY <1>2, <1>5, <3>2, <3>5
      <4>2. f[z] = <<"queue", h, i - 1>>
        BY <1>10, <3>2, <3>5
      <4>3. i - 1 \in DOMAIN Q1[h] /\ Has(Q1[h][i - 1], a)
        BY <1>5, <1>8, <4>1
      <4>4. QueueAt(f[z], a, M, Q1)
        BY <4>2, <4>3 DEF QueueAt
      <4> QED BY <1>9, <4>4 DEF PlaceIn
    <3> QED BY <3>3, <3>4, <3>5
  <2> QED BY <2>1, <2>2
<1>14. ASSUME NEW w \in S PROVE \E z \in P : w = f[z]
  <2>1. CASE EndAt(w, a, O \cup {y}) /\ ~EndAt(w, a, O)
    <3>1. w = y /\ Has(q[1], a) /\ 1 \in DOMAIN Q[h] /\ Q[h][1] = q[1]
      BY <1>2, <1>5, <1>11, <2>1
    <3>2. QueueAt(<<"queue", h, 1>>, a, M, Q)
      BY <3>1 DEF QueueAt
    <3>3. <<"queue", h, 1>> \in P
      BY <1>9, <3>2 DEF PlaceIn
    <3>4. f[<<"queue", h, 1>>] = y
      BY <1>10, <3>3
    <3> QED BY <3>1, <3>3, <3>4
  <2>2. CASE QueueAt(w, a, M, Q1)
    <3>1. PICK g \in M : \E i \in DOMAIN Q1[g] : w = <<"queue", g, i>> /\ Has(Q1[g][i], a)
      BY <2>2 DEF QueueAt
    <3>2. PICK i \in DOMAIN Q1[g] : w = <<"queue", g, i>> /\ Has(Q1[g][i], a)
      BY <3>1
    <3>3. CASE g # h
      <4>1. QueueAt(w, a, M, Q)
        BY <1>8, <3>2, <3>3 DEF QueueAt
      <4>2. w \in P
        BY <1>9, <4>1 DEF PlaceIn
      <4>3. f[w] = w
        BY <1>10, <3>2, <3>3, <4>2
      <4> QED BY <4>2, <4>3
    <3>4. CASE g = h
      <4>1. i \in 1 .. n - 1 /\ Has(r[i], a) /\ i + 1 \in 1 .. n /\ i + 1 # 1 /\ (i + 1) - 1 = i
        BY <1>5, <1>8, <3>2, <3>4
      <4>2. i + 1 \in DOMAIN Q[h] /\ Has(Q[h][i + 1], a)
        BY <1>2, <1>5, <4>1
      <4>3. QueueAt(<<"queue", h, i + 1>>, a, M, Q)
        BY <4>2 DEF QueueAt
      <4>4. <<"queue", h, i + 1>> \in P
        BY <1>9, <4>3 DEF PlaceIn
      <4>5. f[<<"queue", h, i + 1>>] = <<"queue", h, i>>
        BY <1>10, <4>1, <4>4
      <4> QED BY <3>2, <3>4, <4>4, <4>5
    <3> QED BY <3>3, <3>4
  <2>3. CASE ~QueueAt(w, a, M, Q1) /\ ~(EndAt(w, a, O \cup {y}) /\ ~EndAt(w, a, O))
    <3>1. \/ TipAt(w, a, M, T) \/ PostAt(w, a, L) \/ EndAt(w, a, O)
          \/ ResultAt(w, a, R) \/ HandAt(w, a, H)
      BY <1>9, <2>3 DEF PlaceIn
    <3>2. w \in P
      BY <1>9, <3>1 DEF PlaceIn
    <3>3. w[1] # "queue"
      <4>1. "queue" \notin Ends
        BY DEF Ends
      <4> QED BY <3>1, <4>1, Kinds
    <3>4. f[w] = w
      BY <1>10, <3>2, <3>3
    <3> QED BY <3>2, <3>4
  <2> QED BY <2>1, <2>2, <2>3
<1>15. \E k : Moves(k, P, S)
  BY <1>13, <1>14, MovesIf
<1> QED BY <1>2, <1>4, <1>5, <1>6, <1>7, <1>15 DEF P, S

\* submit_anns: the tip of a handler goes into its queue.
LEMMA TipQueued ==
    ASSUME NEW a, NEW M, M \subseteq Handlers, NEW T \in [Handlers -> Batch],
           NEW Q \in [Handlers -> Seq(Batch)], NEW L, NEW O, O \subseteq Ends \X Batch,
           NEW R, NEW H, NEW h \in M, NEW c \in Batch, c.anns = <<>>
    PROVE  \E f : Moves(f, PlaceSet(a, M, T, Q, L, O, R, H),
                       PlaceSet(a, M, [T EXCEPT ![h] = c], [Q EXCEPT ![h] = Queued(Q[h], T[h])],
                                L, O \cup GivenUp(Q[h], T[h]), R, H))
<1>1. h \in Handlers
  OBVIOUS
<1>2. PICK b \in Batch, q \in Seq(Batch) : b = T[h] /\ q = Q[h]
  BY <1>1
<1>3. PICK T1 : T1 = [T EXCEPT ![h] = c]
  OBVIOUS
<1>4. CASE b.anns = <<>>
  <2>1. Queued(q, b) = q /\ GivenUp(q, b) = {}
    BY <1>4 DEF Queued, GivenUp
  <2>2. [Q EXCEPT ![h] = q] = Q /\ O \cup {} = O
    BY <1>2
  <2>3. ~Has(b, a) /\ ~Has(c, a)
    BY <1>4 DEF Has
  <2>4. T1[h] = c /\ \A g \in M : g # h => T1[g] = T[g]
    BY <1>1, <1>3
  <2>5. \A z : TipAt(z, a, M, T1) <=> TipAt(z, a, M, T)
    BY <1>2, <2>3, <2>4 DEF TipAt
  <2> DEFINE P == PlaceSet(a, M, T, Q, L, O, R, H)
             S == PlaceSet(a, M, T1, Q, L, O, R, H)
  <2>6. \A z : z \in P <=> PlaceIn(z, a, M, T, Q, L, O, R, H)
    BY PlaceSetDef
  <2>7. \A z : z \in S <=> PlaceIn(z, a, M, T1, Q, L, O, R, H)
    BY PlaceSetDef
  <2> HIDE DEF P, S
  <2>8. Taken(P, S, c, c)
    BY <2>5, <2>6, <2>7 DEF Taken, PlaceIn
  <2>9. \E f : Moves(f, P, S)
    BY <2>8, TakeFrom
  <2> QED BY <1>2, <1>3, <2>1, <2>2, <2>9 DEF P, S
<1>5. CASE b.anns # <<>> /\ ~(Len(q) >= QueueLen)
  <2>1. Queued(q, b) = Append(q, b) /\ GivenUp(q, b) = {}
    BY <1>5 DEF Queued, GivenUp
  <2>2. O \cup {} = O
    OBVIOUS
  <2>3. \E f : Moves(f, PlaceSet(a, M, T, Q, L, O, R, H),
                    PlaceSet(a, M, T1, [Q EXCEPT ![h] = Append(q, b)], L, O, R, H))
    BY <1>2, <1>3, TipAppended
  <2> QED BY <1>2, <1>3, <2>1, <2>2, <2>3
<1>6. CASE b.anns # <<>> /\ Len(q) >= QueueLen
  <2>1. Queued(q, b) = Append(Tail(q), b) /\ GivenUp(q, b) = {<<"lost", Head(q)>>}
    BY <1>6 DEF Queued, GivenUp
  <2>2. q # <<>>
    BY <1>6, AnnMineAssumption
  <2>3. Tail(q) \in Seq(Batch) /\ Head(q) \in Batch
    BY <2>2
  <2>4. PICK O1 : O1 = O \cup {<<"lost", Head(q)>>}
    OBVIOUS
  <2>5. O1 \subseteq Ends \X Batch
    BY <2>3, <2>4 DEF Ends
  <2>6. PICK Q1 \in [Handlers -> Seq(Batch)] : Q1 = [Q EXCEPT ![h] = Tail(q)]
    <3>1. [Q EXCEPT ![h] = Tail(q)] \in [Handlers -> Seq(Batch)]
      BY <2>3
    <3> QED BY <3>1
  <2>7. Q1[h] = Tail(q) /\ [Q1 EXCEPT ![h] = Append(Tail(q), b)] = [Q EXCEPT ![h] = Append(Tail(q), b)]
    BY <1>1, <2>6
  <2>8. \E f : Moves(f, PlaceSet(a, M, T, Q, L, O, R, H), PlaceSet(a, M, T, Q1, L, O1, R, H))
    BY <1>2, <2>2, <2>4, <2>6, HeadGivenUp
  <2>9. \E f : Moves(f, PlaceSet(a, M, T, Q1, L, O1, R, H),
                    PlaceSet(a, M, T1, [Q1 EXCEPT ![h] = Append(Q1[h], T[h])], L, O1, R, H))
    BY <1>3, <2>5, TipAppended
  <2>10. PICK S : S = PlaceSet(a, M, T1, [Q EXCEPT ![h] = Append(Tail(q), b)], L, O1, R, H)
    OBVIOUS
  <2>11. \E f : Moves(f, PlaceSet(a, M, T, Q1, L, O1, R, H), S)
    BY <1>2, <2>7, <2>9, <2>10
  <2>12. \E f : Moves(f, PlaceSet(a, M, T, Q, L, O, R, H), S)
    BY <2>8, <2>11, MovesTwice
  <2> QED BY <1>2, <1>3, <2>1, <2>4, <2>10, <2>12
<1> QED BY <1>4, <1>5, <1>6

\* A step moves the places of an announcement.
MovesSet(a) ==
    \E f : Moves(f, PlaceSet(a, made, htip, queue, loop, over, results, hand),
                PlaceSet(a, made', htip', queue', loop', over', results', hand'))
\* It is enough to move the places of every announcement.
LEMMA PlaceKept ==
    ASSUME BaseInv, PlaceInv, found' = found, \A a \in Anns : MovesSet(a) PROVE PlaceInv'
<1>1. DOMAIN found \subseteq Anns
  BY DEF BaseInv, TypeOK, BagToSet
<1>2. ASSUME NEW a \in Anns PROVE \E f : Moves(f, Places(a), Places(a)')
  BY PlacesAre DEF MovesSet
<1> QED BY <1>1, <1>2, MovesKeep

\* submit_to_pool
LEMMA SubmitPlace ==
    ASSUME BaseInv, PlaceInv, NEW late \in BOOLEAN, Submit(late) PROVE PlaceInv'
<1>1. UNCHANGED <<found, made, results, loop>>
  BY DEF Submit, workVars
<1>2. PICK h, x, t, q, b, Q1, t2, Q2, gone, gone2 :
        SubmitsBy(h, x, t, q, b, Q1, t2, Q2, gone, gone2)
  BY SubmitParts
<1>3. /\ h \in made /\ x \in Anns /\ t \in Batch /\ q \in Seq(Batch)
      /\ b \in Batch /\ Q1 \in Seq(Batch) /\ t2 \in Batch /\ Q2 \in Seq(Batch)
      /\ x = hand.ann /\ t = htip[h] /\ q = queue[h]
      /\ IntoTip(x, t, q, b, Q1, gone) /\ FromTip(b, Q1, t2, Q2, gone2)
      /\ htip' = [htip EXCEPT ![h] = t2] /\ queue' = [queue EXCEPT ![h] = Q2]
      /\ over' = (over \cup gone) \cup gone2 /\ hand # None /\ hand' = None
  BY <1>2 DEF SubmitsBy, Submitted
<1>4. /\ made \subseteq Handlers /\ htip \in [Handlers -> Batch]
      /\ queue \in [Handlers -> Seq(Batch)] /\ over \subseteq Ends \X Batch /\ h \in Handlers
  BY <1>3 DEF BaseInv, TypeOK
<1>5. PICK O1 : O1 = over \cup gone /\ O1 \subseteq Ends \X Batch
  <2>1. gone \subseteq Ends \X Batch
    BY <1>3, QueuedType DEF IntoTip
  <2> QED BY <1>4, <2>1
<1>6. PICK T1 \in [Handlers -> Batch] : T1 = [htip EXCEPT ![h] = b]
  <2>1. [htip EXCEPT ![h] = b] \in [Handlers -> Batch]
    BY <1>3, <1>4
  <2> QED BY <2>1
<1>7. PICK W1 \in [Handlers -> Seq(Batch)] : W1 = [queue EXCEPT ![h] = Q1]
  <2>1. [queue EXCEPT ![h] = Q1] \in [Handlers -> Seq(Batch)]
    BY <1>3, <1>4
  <2> QED BY <2>1
<1>8. T1[h] = b /\ W1[h] = Q1
  BY <1>4, <1>6, <1>7
<1>9. ASSUME NEW a \in Anns PROVE MovesSet(a)
  <2>1. \E f : Moves(f, PlaceSet(a, made, htip, queue, loop, over, results, hand),
                    PlaceSet(a, made, T1, W1, loop, O1, results, None))
    <3>1. CASE t.h < x.hdr /\ Q1 = Queued(q, t) /\ gone = GivenUp(q, t) /\ b = Alone(x)
      <4>1. PICK c \in Batch : c.anns = <<>>
        <5>1. NewBatch(0) \in Batch /\ NewBatch(0).anns = <<>>
          BY DEF NewBatch, Batch
        <5> QED BY <5>1
      <4>2. PICK T0 \in [Handlers -> Batch] : T0 = [htip EXCEPT ![h] = c]
        <5>1. [htip EXCEPT ![h] = c] \in [Handlers -> Batch]
          BY <1>4
        <5> QED BY <5>1
      <4>3. \E f : Moves(f, PlaceSet(a, made, htip, queue, loop, over, results, hand),
                        PlaceSet(a, made, [htip EXCEPT ![h] = c],
                                 [queue EXCEPT ![h] = Queued(queue[h], htip[h])], loop,
                                 over \cup GivenUp(queue[h], htip[h]), results, hand))
        BY <1>3, <1>4, <4>1, TipQueued
      <4>4. \E f : Moves(f, PlaceSet(a, made, htip, queue, loop, over, results, hand),
                        PlaceSet(a, made, T0, W1, loop, O1, results, hand))
        BY <1>3, <1>5, <1>7, <3>1, <4>2, <4>3
      <4>5. T0[h] = c /\ [T0 EXCEPT ![h] = b] = T1
        BY <1>4, <1>6, <4>2
      <4>6. Has(b, a) <=> Has(T0[h], a) \/ a = hand.ann
        BY <1>3, <3>1, <4>1, <4>5 DEF Has, Alone
      <4>7. \E f : Moves(f, PlaceSet(a, made, T0, W1, loop, O1, results, hand),
                        PlaceSet(a, made, [T0 EXCEPT ![h] = b], W1, loop, O1, results, None))
        BY <1>3, <1>4, <1>5, <4>6, HandIntoTip
      <4>8. \E f : Moves(f, PlaceSet(a, made, T0, W1, loop, O1, results, hand),
                        PlaceSet(a, made, T1, W1, loop, O1, results, None))
        BY <4>5, <4>7
      <4> QED BY <4>4, <4>8, MovesTwice
    <3>2. CASE t.h = x.hdr /\ Q1 = q /\ gone = {} /\ b = [h |-> t.h, anns |-> Append(t.anns, x)]
      <4>1. W1 = queue /\ O1 = over
        BY <1>3, <1>4, <1>5, <1>7, <3>2
      <4>2. Has(b, a) <=> Has(t, a) \/ a = x
        <5>1. PICK y \in Seq(Anns) : y = t.anns
          BY <1>3 DEF Batch
        <5>2. PICK n \in Nat : n = Len(y)
          OBVIOUS
        <5>3. PICK w : w = Append(y, x)
          OBVIOUS
        <5>4. /\ DOMAIN y = 1 .. n /\ DOMAIN w = 1 .. n + 1 /\ w[n + 1] = x
              /\ \A i \in 1 .. n : w[i] = y[i]
          BY <5>2, <5>3
        <5>5. (\E i \in 1 .. n + 1 : w[i] = a) <=> (\E i \in 1 .. n : y[i] = a) \/ a = x
          BY <5>4
        <5>6. b.anns = w
          BY <3>2, <5>1, <5>3
        <5> QED BY <5>1, <5>4, <5>5, <5>6 DEF Has
      <4>3. \E f : Moves(f, PlaceSet(a, made, htip, queue, loop, over, results, hand),
                        PlaceSet(a, made, [htip EXCEPT ![h] = b], queue, loop, over, results, None))
        BY <1>3, <1>4, <4>2, HandIntoTip
      <4> QED BY <1>6, <4>1, <4>3
    <3> QED BY <1>3, <3>1, <3>2 DEF IntoTip
  <2>2. \E f : Moves(f, PlaceSet(a, made, T1, W1, loop, O1, results, None),
                    PlaceSet(a, made, htip', queue', loop, over', results, None))
    <3>1. [T1 EXCEPT ![h] = t2] = htip' /\ [W1 EXCEPT ![h] = Q2] = queue' /\ O1 \cup gone2 = over'
      BY <1>3, <1>4, <1>5, <1>6, <1>7
    <3>2. CASE t2 = NewBatch(b.h) /\ Q2 = Queued(Q1, b) /\ gone2 = GivenUp(Q1, b)
      <4>1. t2.anns = <<>>
        BY <3>2 DEF NewBatch
      <4>2. \E f : Moves(f, PlaceSet(a, made, T1, W1, loop, O1, results, None),
                        PlaceSet(a, made, [T1 EXCEPT ![h] = t2],
                                 [W1 EXCEPT ![h] = Queued(W1[h], T1[h])], loop,
                                 O1 \cup GivenUp(W1[h], T1[h]), results, None))
        BY <1>3, <1>4, <1>5, <4>1, TipQueued
      <4> QED BY <1>8, <3>1, <3>2, <4>2
    <3>3. CASE t2 = b /\ Q2 = Q1 /\ gone2 = {}
      <4>1. htip' = T1 /\ queue' = W1 /\ over' = O1
        BY <1>3, <1>5, <1>6, <1>7, <3>3
      <4> DEFINE S == PlaceSet(a, made, T1, W1, loop, O1, results, None)
      <4>2. Taken(S, S, h, h)
        BY DEF Taken
      <4> HIDE DEF S
      <4>3. \E f : Moves(f, S, S)
        BY <4>2, TakeFrom
      <4> QED BY <4>1, <4>3 DEF S
    <3> QED BY <1>3, <3>2, <3>3 DEF FromTip
  <2>3. \E f : Moves(f, PlaceSet(a, made, htip, queue, loop, over, results, hand),
                    PlaceSet(a, made, htip', queue', loop, over', results, None))
    BY <2>1, <2>2, MovesTwice
  <2> QED BY <1>1, <1>3, <2>3 DEF MovesSet
<1> QED BY <1>1, <1>9, PlaceKept

\* One place for another.
TakenNow(a, x, y) ==
    \A z : PlaceIn(z, a, made', htip', queue', loop', over', results', hand') <=>
          \/ PlaceIn(z, a, made, htip, queue, loop, over, results, hand) /\ z # x
          \/ PlaceIn(x, a, made, htip, queue, loop, over, results, hand) /\ z = y
\* An announcement that goes from one place to another has moved.
LEMMA TakenKept ==
    ASSUME NEW a, NEW x, NEW y, TakenNow(a, x, y)
    PROVE  MovesSet(a)
<1> DEFINE P == PlaceSet(a, made, htip, queue, loop, over, results, hand)
           S == PlaceSet(a, made', htip', queue', loop', over', results', hand')
<1>1. \A z : z \in P <=> PlaceIn(z, a, made, htip, queue, loop, over, results, hand)
  BY PlaceSetDef
<1>2. \A z : z \in S <=> PlaceIn(z, a, made', htip', queue', loop', over', results', hand')
  BY PlaceSetDef
<1> HIDE DEF P, S
<1>3. Taken(P, S, x, y)
  BY <1>1, <1>2 DEF Taken, TakenNow
<1>4. \E f : Moves(f, P, S)
  BY <1>3, TakeFrom
<1> QED BY <1>4 DEF MovesSet, P, S

\* submit_to_pool: the handler, or none
LEMMA FromResultsPlace ==
    ASSUME BaseInv, PlaceInv, (\E h \in Handlers : ChooseHandler(h)) \/ NoHandler PROVE PlaceInv'
<1>1. PICK R \in Seq(Anns) : R = results
  BY DEF BaseInv, TypeOK
<1>2. PICK h : (h \in Handlers /\ ChooseHandler(h)) \/ NoHandler
  OBVIOUS
<1>3. /\ R # <<>> /\ results' = Tail(R) /\ hand = None
      /\ UNCHANGED <<found, made, htip, queue, loop>>
      /\ \/ h \in Handlers /\ hand' = [ann |-> Head(R), h |-> h] /\ over' = over
         \/ hand' = None /\ over' = over \cup {<<"nohandler", Alone(Head(R))>>}
  BY <1>1, <1>2 DEF ChooseHandler, NoHandler, workVars, uploadVars, Alone
<1>4. Head(R) \in Anns
  BY <1>3
<1>5. PICK y : /\ y[1] # "result"
               /\ \A a, z : EndAt(z, a, over') \/ HandAt(z, a, hand')
                            <=> EndAt(z, a, over) \/ (a = Head(R) /\ z = y)
  <2>1. CASE h \in Handlers /\ hand' = [ann |-> Head(R), h |-> h] /\ over' = over
    <3>1. <<"hand">>[1] # "result"
      OBVIOUS
    <3>2. hand' # None
      <4>1. None \notin [ann : Anns, h : Handlers]
        BY AnnMineAssumption
      <4> QED BY <1>4, <2>1, <4>1
    <3>3. hand'.ann = Head(R)
      BY <2>1
    <3>4. \A a, z : HandAt(z, a, hand') <=> a = Head(R) /\ z = <<"hand">>
      BY <3>2, <3>3 DEF HandAt
    <3>5. \A a, z : EndAt(z, a, over') <=> EndAt(z, a, over)
      BY <2>1
    <3>6. PICK y : y = <<"hand">>
      OBVIOUS
    <3>7. \A a, z : EndAt(z, a, over') \/ HandAt(z, a, hand')
                     <=> EndAt(z, a, over) \/ (a = Head(R) /\ z = y)
      BY <3>4, <3>5, <3>6
    <3> QED BY <3>1, <3>6, <3>7
  <2>2. CASE hand' = None /\ over' = over \cup {<<"nohandler", Alone(Head(R))>>}
    <3>1. PICK w : w = <<"nohandler", Alone(Head(R))>>
      OBVIOUS
    <3>2. w[1] = "nohandler" /\ w[2] = Alone(Head(R)) /\ "nohandler" # "result"
      BY <3>1
    <3>3. \A a : Has(w[2], a) <=> a = Head(R)
      BY <3>2 DEF Has, Alone
    <3>4. \A a, z : EndAt(z, a, over') <=> EndAt(z, a, over) \/ (a = Head(R) /\ z = w)
      BY <2>2, <3>1, <3>3 DEF EndAt
    <3>5. \A a, z : ~HandAt(z, a, hand')
      BY <2>2 DEF HandAt
    <3> QED BY <3>2, <3>4, <3>5
  <2> QED BY <1>3, <2>1, <2>2
<1>6. over \subseteq Ends \X Batch
  BY DEF BaseInv, TypeOK
<1>7. ASSUME NEW a \in Anns PROVE MovesSet(a)
  <2> DEFINE P == PlaceSet(a, made, htip, queue, loop, over, results, hand)
             S == PlaceSet(a, made', htip', queue', loop', over', results', hand')
  <2>1. \A z : z \in P <=> PlaceIn(z, a, made, htip, queue, loop, over, R, None)
    BY <1>1, <1>3, PlaceSetDef
  <2>2. \A z : z \in S <=> PlaceIn(z, a, made, htip, queue, loop, over', Tail(R), hand')
    BY <1>3, PlaceSetDef
  <2> HIDE DEF P, S
  <2>3. \A z : ~HandAt(z, a, None)
    BY DEF HandAt
  <2>4. \A z : TipAt(z, a, made, htip) \/ QueueAt(z, a, made, queue) \/ PostAt(z, a, loop)
               \/ EndAt(z, a, over) => z[1] # "result"
    <3>1. "result" \notin Ends
      BY DEF Ends
    <3> QED BY <1>6, <3>1, Kinds
  <2>5. \A z : ResultAt(z, a, R) => z[1] = "result"
    BY Kinds
  <2>6. \A z : ResultAt(z, a, R) <=> z \in P /\ z[1] = "result"
    BY <2>1, <2>3, <2>4, <2>5 DEF PlaceIn
  <2>7. \A z : z \in S <=> \/ z \in P /\ z[1] # "result"
                           \/ ResultAt(z, a, Tail(R)) \/ (a = Head(R) /\ z = y)
    BY <1>5, <2>1, <2>2, <2>3, <2>4, <2>5 DEF PlaceIn
  <2>8. ResultTaken(a, P, S, R, y)
    BY <2>6, <2>7 DEF ResultTaken
  <2>9. \E f : Moves(f, P, S)
    BY <1>3, <2>8, TakeResult
  <2> QED BY <2>9 DEF MovesSet, P, S
<1> QED BY <1>3, <1>7, PlaceKept

\* submit_to_pool: an announcement of an older block
LEMMA RefuseOldPlace == ASSUME BaseInv, PlaceInv, RefuseOld PROVE PlaceInv'
<1>1. PICK w : w = <<"old", Alone(hand.ann)>>
  OBVIOUS
<1>2. /\ hand # None /\ hand' = None /\ over' = over \cup {w}
      /\ UNCHANGED <<found, made, htip, queue, loop, results>>
  BY <1>1 DEF RefuseOld, workVars, Alone
<1>3. \A a : Has(w[2], a) <=> a = hand.ann
  <2>1. w[2] = Alone(hand.ann)
    BY <1>1
  <2> QED BY <2>1 DEF Has, Alone
<1>4. over \subseteq Ends \X Batch
  BY DEF BaseInv, TypeOK
<1>5. ASSUME NEW a \in Anns PROVE MovesSet(a)
  <2>1. \A z : EndAt(z, a, over') <=> EndAt(z, a, over) \/ (a = hand.ann /\ z = w)
    BY <1>2, <1>3 DEF EndAt
  <2>2. \A z : ~HandAt(z, a, hand') /\ (HandAt(z, a, hand) <=> z = <<"hand">> /\ a = hand.ann)
    BY <1>2 DEF HandAt
  <2>3. \A z : TipAt(z, a, made, htip) \/ QueueAt(z, a, made, queue) \/ PostAt(z, a, loop)
               \/ EndAt(z, a, over) \/ ResultAt(z, a, results) => z # <<"hand">>
    <3>1. "hand" \notin Ends /\ <<"hand">>[1] = "hand"
      BY DEF Ends
    <3> QED BY <1>4, <3>1, Kinds
  <2>4. TakenNow(a, <<"hand">>, w)
    BY <1>2, <2>1, <2>2, <2>3 DEF PlaceIn, TakenNow
  <2> QED BY <2>4, TakenKept
<1> QED BY <1>2, <1>5, PlaceKept

\* uploader_loop
LEMMA PopBatchPlace ==
    ASSUME BaseInv, BatchInv, PlaceInv, NEW l \in Loops, PopBatch(l) PROVE PlaceInv'
<1>1. UNCHANGED <<found, made, htip, over, results, hand>>
  BY DEF PopBatch, workVars
<1>2. PICK h, q, r, b : PopsBy(l, h, q, r, b)
  BY PopParts
<1>3. PICK n \in Nat \ {0} : n = Len(q)
  BY <1>2 DEF PopsBy
<1>4. /\ h \in made /\ h \in Handlers /\ q = queue[h] /\ DOMAIN q = 1 .. n /\ DOMAIN r = 1 .. n - 1
      /\ \A i \in 1 .. n - 1 : r[i] = q[i]
      /\ b = q[n] /\ loop' = [loop EXCEPT ![l] = [at |-> "post", b |-> b]]
      /\ queue' = [queue EXCEPT ![h] = r] /\ loop[l].at = "pop"
  BY <1>2, <1>3 DEF PopsBy, BaseInv, TypeOK
<1>5. /\ queue \in [Handlers -> Seq(Batch)] /\ over \subseteq Ends \X Batch /\ made \subseteq Handlers
      /\ loop \in [Loops -> [at : {"none", "pop", "post", "exited"}, b : Batch]]
  BY DEF BaseInv, TypeOK
<1>6. /\ queue'[h] = r /\ \A g \in made : g # h => queue'[g] = queue[g]
      /\ loop'[l].b = b /\ \A k \in Loops : k # l => loop'[k] = loop[k]
  BY <1>4, <1>5
<1>7. loop[l].b.anns = <<>>
  BY <1>4 DEF BatchInv, EmptyInv
<1>8. ASSUME NEW a \in Anns PROVE MovesSet(a)
  <2>1. ~Has(loop[l].b, a)
    BY <1>7 DEF Has
  <2>2. \A z : PostAt(z, a, loop') <=> PostAt(z, a, loop) \/ (z = <<"post", l>> /\ Has(b, a))
    BY <1>6, <2>1 DEF PostAt
  <2>3. \A z : QueueAt(z, a, made, queue') <=> QueueAt(z, a, made, queue) /\ z # <<"queue", h, n>>
    <3> TAKE z
    <3>1. ASSUME QueueAt(z, a, made, queue')
          PROVE  QueueAt(z, a, made, queue) /\ z # <<"queue", h, n>>
      <4>1. PICK g \in made : \E i \in DOMAIN queue'[g] : z = <<"queue", g, i>> /\ Has(queue'[g][i], a)
        BY <3>1 DEF QueueAt
      <4>2. PICK i \in DOMAIN queue'[g] : z = <<"queue", g, i>> /\ Has(queue'[g][i], a)
        BY <4>1
      <4>3. CASE g # h
        BY <1>6, <4>2, <4>3 DEF QueueAt
      <4>4. CASE g = h
        <5>1. i \in 1 .. n - 1 /\ i \in 1 .. n /\ i # n /\ Has(q[i], a)
          BY <1>4, <1>6, <4>2, <4>4
        <5>2. i \in DOMAIN queue[g] /\ Has(queue[g][i], a)
          BY <1>4, <4>4, <5>1
        <5> QED BY <4>2, <5>1, <5>2 DEF QueueAt
      <4> QED BY <4>3, <4>4
    <3>2. ASSUME QueueAt(z, a, made, queue), z # <<"queue", h, n>>
          PROVE  QueueAt(z, a, made, queue')
      <4>1. PICK g \in made : \E i \in DOMAIN queue[g] : z = <<"queue", g, i>> /\ Has(queue[g][i], a)
        BY <3>2 DEF QueueAt
      <4>2. PICK i \in DOMAIN queue[g] : z = <<"queue", g, i>> /\ Has(queue[g][i], a)
        BY <4>1
      <4>3. CASE g # h
        BY <1>6, <4>2, <4>3 DEF QueueAt
      <4>4. CASE g = h
        <5>1. i \in 1 .. n - 1 /\ Has(r[i], a)
          <6>1. i \in 1 .. n /\ i # n /\ Has(q[i], a)
            BY <1>4, <3>2, <4>2, <4>4
          <6>2. i \in 1 .. n - 1
            BY <6>1
          <6> QED BY <1>4, <6>1, <6>2
        <5>2. i \in DOMAIN queue'[g] /\ Has(queue'[g][i], a)
          BY <1>4, <1>6, <4>4, <5>1
        <5> QED BY <4>2, <5>2 DEF QueueAt
      <4> QED BY <4>3, <4>4
    <3> QED BY <3>1, <3>2
  <2>4. QueueAt(<<"queue", h, n>>, a, made, queue) <=> Has(b, a)
    <3>1. n \in DOMAIN queue[h] /\ queue[h][n] = b
      BY <1>4
    <3> QED BY <1>4, <3>1 DEF QueueAt
  <2>5. \A z : TipAt(z, a, made, htip) \/ PostAt(z, a, loop) \/ HandAt(z, a, hand)
               \/ EndAt(z, a, over) \/ ResultAt(z, a, results) => z # <<"queue", h, n>>
    <3>1. "queue" \notin Ends /\ <<"queue", h, n>>[1] = "queue"
      BY DEF Ends
    <3> QED BY <1>5, <3>1, Kinds
  <2>6. TakenNow(a, <<"queue", h, n>>, <<"post", l>>)
    BY <1>1, <2>2, <2>3, <2>4, <2>5 DEF PlaceIn, TakenNow
  <2> QED BY <2>6, TakenKept
<1> QED BY <1>1, <1>8, PlaceKept

\* An upload ends.
LEMMA UploadEndsPlace ==
    ASSUME BaseInv, PlaceInv, NEW l \in Loops, NEW end \in Ends, UploadEnds(l, end) PROVE PlaceInv'
<1>1. PICK b : b = loop[l].b
  OBVIOUS
<1>2. PICK w : w = <<end, b>>
  OBVIOUS
<1>3. /\ over' = over \cup {w} /\ loop' = [loop EXCEPT ![l] = At("pop")]
      /\ UNCHANGED <<found, made, htip, queue, results, hand>>
  BY <1>1, <1>2 DEF UploadEnds, workVars
<1>4. /\ over \subseteq Ends \X Batch
      /\ loop \in [Loops -> [at : {"none", "pop", "post", "exited"}, b : Batch]]
  BY DEF BaseInv, TypeOK
<1>5. loop'[l].b.anns = <<>> /\ \A k \in Loops : k # l => loop'[k] = loop[k]
  BY <1>3, <1>4 DEF At, NewBatch
<1>6. ASSUME NEW a \in Anns PROVE MovesSet(a)
  <2>1. ~Has(loop'[l].b, a)
    BY <1>5 DEF Has
  <2>2. \A z : PostAt(z, a, loop') <=> PostAt(z, a, loop) /\ z # <<"post", l>>
    BY <1>5, <2>1 DEF PostAt
  <2>3. PostAt(<<"post", l>>, a, loop) <=> Has(b, a)
    BY <1>1 DEF PostAt
  <2>4. \A z : EndAt(z, a, over') <=> EndAt(z, a, over) \/ (z = w /\ Has(b, a))
    <3>1. w[2] = b
      BY <1>2
    <3> QED BY <1>3, <3>1 DEF EndAt
  <2>5. \A z : TipAt(z, a, made, htip) \/ QueueAt(z, a, made, queue) \/ HandAt(z, a, hand)
               \/ EndAt(z, a, over) \/ ResultAt(z, a, results) => z # <<"post", l>>
    <3>1. "post" \notin Ends /\ <<"post", l>>[1] = "post"
      BY DEF Ends
    <3> QED BY <1>4, <3>1, Kinds
  <2>6. TakenNow(a, <<"post", l>>, w)
    BY <1>3, <2>2, <2>3, <2>4, <2>5 DEF PlaceIn, TakenNow
  <2> QED BY <2>6, TakenKept
<1> QED BY <1>3, <1>6, PlaceKept

\* A step that changes no place keeps them.
LEMMA SamePlaces ==
    ASSUME BaseInv, PlaceInv, UNCHANGED <<found, over, results, hand>>,
           \A a \in Anns : \A z : /\ TipAt(z, a, made', htip') <=> TipAt(z, a, made, htip)
                                  /\ QueueAt(z, a, made', queue') <=> QueueAt(z, a, made, queue)
                                  /\ PostAt(z, a, loop') <=> PostAt(z, a, loop)
    PROVE  PlaceInv'
<1>1. ASSUME NEW a \in Anns PROVE MovesSet(a)
  <2>1. TakenNow(a, a, a)
    BY DEF PlaceIn, TakenNow
  <2> QED BY <2>1, TakenKept
<1> QED BY <1>1, PlaceKept

\* An uploader that exits has no batch.
LEMMA UploaderExitsPlace ==
    ASSUME BaseInv, BatchInv, PlaceInv, NEW l \in Loops, UploaderExits(l) PROVE PlaceInv'
<1>1. /\ loop' = [loop EXCEPT ![l] = At("exited")] /\ loop[l].at = "pop"
      /\ UNCHANGED <<found, over, made, htip, queue, results, hand>>
  BY DEF UploaderExits, workVars
<1>2. loop[l].b.anns = <<>> /\ At("exited").b.anns = <<>>
  BY <1>1 DEF BatchInv, EmptyInv, At, NewBatch
<1>3. loop \in [Loops -> [at : {"none", "pop", "post", "exited"}, b : Batch]]
  BY DEF BaseInv, TypeOK
<1>4. \A k \in Loops, a \in Anns : Has(loop'[k].b, a) <=> Has(loop[k].b, a)
  BY <1>1, <1>2, <1>3 DEF Has
<1>5. \A a \in Anns : \A z : PostAt(z, a, loop') <=> PostAt(z, a, loop)
  BY <1>4 DEF PostAt
<1> QED BY <1>1, <1>5, SamePlaces

\* A handler that is new has none.
LEMMA TakeUpdatePlace ==
    ASSUME BaseInv, BatchInv, PlaceInv, NEW u, StartMining(u) \/ NoTarget(u) PROVE PlaceInv'
<1>0. TakeUpdate(u)
  BY DEF StartMining, NoTarget
<1>1. PICK H, x : /\ made' = made \cup H /\ H \cap made = {}
                  /\ htip' = [h \in Handlers |-> IF h \in H THEN NewBatch(x) ELSE htip[h]]
                  /\ loop' = [l \in Loops |-> IF l[1] \in H THEN At("pop") ELSE loop[l]]
                  /\ queue' = queue
  BY <1>0 DEF TakeUpdate, SetHandlers
<1>2. UNCHANGED <<found, over, results, hand>>
  BY DEF StartMining, NoTarget, TakeUpdate, StartSource
<1>3. made' \subseteq Handlers
  BY TakeUpdateBase DEF BaseInv, TypeOK
<1>4. At("pop").b.anns = <<>> /\ NewBatch(x).anns = <<>>
  BY DEF At, NewBatch
<1>5. \A h \in made' : IF h \in H THEN htip'[h].anns = <<>> /\ queue[h] = <<>> /\ h \notin made
                       ELSE h \in made /\ htip'[h] = htip[h]
  <2> TAKE h \in made'
  <2>1. h \in Handlers
    BY <1>3
  <2>2. htip'[h] = IF h \in H THEN NewBatch(x) ELSE htip[h]
    BY <1>1, <2>1
  <2> QED BY <1>1, <1>4, <2>1, <2>2 DEF BatchInv, EmptyInv
<1>6. ASSUME NEW a, NEW h \in H PROVE ~Has(htip'[h], a)
  <2>1. h \in made'
    BY <1>1
  <2>2. htip'[h].anns = <<>>
    BY <1>5, <2>1
  <2> QED BY <2>2 DEF Has
<1>7. \A a \in Anns : \A z : TipAt(z, a, made', htip') <=> TipAt(z, a, made, htip)
  BY <1>1, <1>5, <1>6 DEF TipAt
<1>8. \A a \in Anns : \A z : QueueAt(z, a, made', queue') <=> QueueAt(z, a, made, queue)
  <2>1. \A h \in made' : h \notin made => queue[h] = <<>>
    BY <1>5
  <2>2. made \subseteq made' /\ queue' = queue
    BY <1>1
  <2> QED BY <2>1, <2>2 DEF QueueAt
<1>9. ASSUME NEW l \in Loops, NEW a PROVE Has(loop'[l].b, a) <=> Has(loop[l].b, a)
  <2>1. loop'[l] = IF l[1] \in H THEN At("pop") ELSE loop[l]
    BY <1>1
  <2>2. CASE l[1] \in H
    <3>1. loop[l].at = "none"
      BY <1>1, <2>2 DEF BaseInv, TypeOK
    <3>2. loop[l].b.anns = <<>>
      BY <3>1 DEF BatchInv, EmptyInv
    <3> QED BY <1>4, <2>1, <2>2, <3>2 DEF Has
  <2> QED BY <2>1, <2>2
<1>10. \A a \in Anns : \A z : PostAt(z, a, loop') <=> PostAt(z, a, loop)
  BY <1>9 DEF PostAt
<1> QED BY <1>2, <1>7, <1>8, <1>10, SamePlaces

\* Nothing has been found.
LEMMA PlaceInit == Init => PlaceInv
<1> SUFFICES ASSUME Init PROVE PlaceInv
  OBVIOUS
<1>1. /\ made = {} /\ over = {} /\ results = <<>> /\ hand = None /\ DOMAIN found = {}
      /\ \A l \in Loops : loop[l].b.anns = <<>>
  BY DEF Init, SourceInit, EmptyBag, SetToBag, At, NewBatch
<1>2. ASSUME NEW a, NEW z PROVE z \notin Places(a)
  <2>1. z \in Places(a) <=> PlaceIn(z, a, made, htip, queue, loop, over, results, hand)
    BY PlacesDef DEF PlacesFact
  <2>2. ~PostAt(z, a, loop)
    BY <1>1 DEF PostAt, Has
  <2>3. ~TipAt(z, a, made, htip) /\ ~QueueAt(z, a, made, queue)
    BY <1>1 DEF TipAt, QueueAt
  <2>4. ~EndAt(z, a, over) /\ ~ResultAt(z, a, results) /\ ~HandAt(z, a, hand)
    BY <1>1 DEF EndAt, ResultAt, HandAt
  <2> QED BY <2>1, <2>2, <2>3, <2>4 DEF PlaceIn
<1>3. \A a : Places(a) = {}
  BY <1>2
<1> QED BY <1>1, <1>3 DEF PlaceInv

\* Every step moves announcements from one place to another.
LEMMA PlaceStep == BaseInv /\ BatchInv /\ PlaceInv /\ [Next]_vars => PlaceInv'
<1> SUFFICES ASSUME BaseInv, BatchInv, PlaceInv, [Next]_vars PROVE PlaceInv'
  OBVIOUS
<1>1. CASE UNCHANGED <<found, made, htip, queue, loop, over, results, hand>>
  BY <1>1, PlaceFrame
<1>2. ASSUME NEW u, UpdateIsOld(u) \/ NoWorkYet(u)
      PROVE  UNCHANGED <<found, made, htip, queue, loop, over, results, hand>>
  BY <1>2 DEF UpdateIsOld, NoWorkYet, uploadVars
<1>3. CASE UpdateStep
  BY <1>1, <1>2, <1>3, TakeUpdatePlace
  DEF UpdateStep, ShutDown, annMineVars, workVars, uploadVars
<1>4. CASE AnnStep
  BY <1>4, FromResultsPlace, RefuseOldPlace, SubmitPlace DEF AnnStep
<1>5. ASSUME NEW l \in Loops, UploaderStep(l) PROVE PlaceInv'
  <2>1. {"lost", "overload", "replied"} \subseteq Ends
    BY DEF Ends
  <2> QED BY <1>5, <2>1, PopBatchPlace, UploadEndsPlace, UploaderExitsPlace DEF UploaderStep
<1>6. CASE ClientStep
  BY <1>1, <1>6 DEF ClientStep, annMineVars, workVars, uploadVars
<1>7. ASSUME NEW a \in Anns, OnAnnFound(a) PROVE PlaceInv'
  BY <1>7, OnAnnFoundPlace
<1>8. ASSUME UNCHANGED annMineVars PROVE PlaceInv'
  BY <1>1, <1>8 DEF annMineVars, workVars, uploadVars
<1>9. CASE UNCHANGED vars
  BY <1>1, <1>9 DEF vars, workVars, uploadVars
<1> QED BY <1>3, <1>4, <1>5, <1>6, <1>7, <1>8, <1>9 DEF Next

\* An announcement the miner has found is never lost without a record of it and
\* never in two batches, so that none is posted twice, however the handlers change
\* and whatever the queues give up.
THEOREM InOnePlace == Spec => []OnePlace
<1>1. PlaceInv => OnePlace
  <2> SUFFICES ASSUME PlaceInv, NEW a \in DOMAIN found PROVE Cardinality(Places(a)) = 1
    BY DEF OnePlace, BagToSet
  <2>1. PICK x : Places(a) = {x}
    BY DEF PlaceInv
  <2> QED BY <2>1, FS_Singleton
<1>2. BaseInv /\ BatchInv /\ PlaceInv /\ [Next]_vars => BaseInv' /\ BatchInv' /\ PlaceInv'
  BY BaseStep, BatchStep, PlaceStep
<1> QED BY <1>1, <1>2, BaseInit, BatchInit, PlaceInit, PTL DEF Spec

-----------------------------------------------------------------------------
(* recent_work and the block that is mined on.                             *)

\* Heights less than a turn of the ring apart have slots of their own.
LEMMA OwnSlot ==
    ASSUME NEW x \in Int, NEW y \in Int, Slot(x) = Slot(y), x < y + Ring, y < x + Ring
    PROVE  x = y
BY SameSlot

\* The numbers of an update.
LEMMA UpdateNumbers ==
    ASSUME BaseInv, chan # <<>>, NEW u, u = Head(chan)
    PROVE  \E T \in Nat, n \in 0 .. Depth, m \in 0 .. Depth :
             /\ T = TipHeight(u) /\ n = Len(u.blocks) /\ m = Len(Entered(u)) /\ m <= n /\ Depth <= T
             /\ \A i \in 1 .. n : /\ u.blocks[i] \in Blocks /\ u.blocks[i] # None
                                 /\ Height[u.blocks[i]] = T - i + 1
             /\ m < n => Old(u.blocks[m + 1])
             /\ \A i \in 1 .. m : ~Old(u.blocks[i])
<1>1. Depth \in Nat /\ None \notin Blocks
  BY PoolClientAssumption
<1>2. PICK t \in Tips : t = u.conf.tip
  BY UpdateParts
<1>3. PICK T \in Nat : T = Height[t] /\ Depth <= T
  <2>1. Depth \in 0 .. Depth
    BY <1>1
  <2> QED BY <2>1, AncestorHeight
<1>4. PICK n \in 0 .. Depth : n = Len(u.blocks)
  BY UpdateParts
<1>5. PICK m \in 0 .. n : m = Len(Entered(u))
  BY <1>4, EnteredDef
<1>6. ASSUME NEW i \in 1 .. n
      PROVE  u.blocks[i] \in Blocks /\ u.blocks[i] # None /\ Height[u.blocks[i]] = T - i + 1
  <2>1. u.blocks[i] \in Blocks /\ Height[u.blocks[i]] = T - (i - 1)
    BY <1>2, <1>3, <1>4, UpdateParts
  <2> QED BY <1>1, <2>1
<1>7. (m < n => Old(u.blocks[m + 1])) /\ \A i \in 1 .. m : ~Old(u.blocks[i])
  BY <1>4, <1>5, EnteredDef
<1>8. m \in 0 .. Depth /\ m <= n
  BY <1>1
<1> QED BY <1>2, <1>3, <1>4, <1>5, <1>6, <1>7, <1>8 DEF TipHeight

\* What recent_work has after an update.
NewTop(u) == IF job = None \/ TipHeight(u) > peak THEN TipHeight(u) ELSE peak
HasHeight(w, g) == g \in Nat /\ w[Slot(g)] # None /\ Height[w[Slot(g)]] = g
\* The window moves up to the tip of the update or stays where it is, and no block
\* of a higher update is old.
LEMMA ReceivedWork ==
    ASSUME BaseInv, HeightInv, chan # <<>>, NEW u, u = Head(chan)
    PROVE  /\ NewTop(u) \in Int
           /\ \A g \in NewTop(u) - Depth + 1 .. NewTop(u) : HasHeight(WithWork(u), g)
           /\ \A s \in 0 .. Ring - 1 :
                WithWork(u)[s] # None => Height[WithWork(u)[s]] <= NewTop(u)
           /\ CurrentlyMining(u) \in NewTop(u) - Depth + 1 .. NewTop(u)
           /\ Max2(peak, TopOf(u)) = NewTop(u)
           /\ job = None \/ TipHeight(u) > peak => Len(Entered(u)) = Len(u.blocks)
<1>1. /\ Depth \in Nat \ {0} /\ Ring \in Nat /\ Depth < Ring
      /\ None \notin Blocks /\ mining \in Int /\ peak \in Nat
  BY PoolClientAssumption, AnnMineAssumption DEF BaseInv, TypeOK
<1>2. PICK T \in Nat, n \in 0 .. Depth, m \in 0 .. Depth :
        /\ T = TipHeight(u) /\ n = Len(u.blocks) /\ m = Len(Entered(u)) /\ m <= n /\ Depth <= T
        /\ \A i \in 1 .. n : /\ u.blocks[i] \in Blocks /\ u.blocks[i] # None
                            /\ Height[u.blocks[i]] = T - i + 1
        /\ m < n => Old(u.blocks[m + 1])
        /\ \A i \in 1 .. m : ~Old(u.blocks[i])
  BY UpdateNumbers
<1>3. PICK top \in Nat : top = peak
  BY <1>1
<1>4. n = Depth \/ (job # None /\ T - n <= top)
  <2>1. Len(u.blocks) = Depth \/ SeenBefore(1, Low(u))
    BY UpdateParts DEF HeightInv
  <2>2. ~\E j \in 1 .. 1 - 1 : Low(u) <= TipHeight(chan[j])
    OBVIOUS
  <2> QED BY <1>2, <1>3, <2>1, <2>2 DEF SeenBefore, Low
<1>5. PICK W : W = WithWork(u)
  OBVIOUS
<1>6. /\ W \in [0 .. Ring - 1 -> Blocks \cup {None}]
      /\ \A i \in 1 .. m : W[Slot(Height[u.blocks[i]])] = u.blocks[i]
      /\ \A s \in 0 .. Ring - 1 :
           \/ W[s] = work[s]
           \/ \E i \in 1 .. m : Slot(Height[u.blocks[i]]) = s /\ W[s] = u.blocks[i]
  BY <1>2, <1>5, WorkDef, ZenonT(40)
<1>7. \A i \in 1 .. m : i \in 1 .. n
  BY <1>1, <1>2
<1>8. \A i \in 1 .. m : HasHeight(W, T - i + 1)
  <2> SUFFICES ASSUME NEW i \in 1 .. m PROVE HasHeight(W, T - i + 1)
    OBVIOUS
  <2>1. T - i + 1 \in Nat
    BY <1>1, <1>2
  <2>2. Height[u.blocks[i]] = T - i + 1 /\ u.blocks[i] # None
    BY <1>2, <1>7
  <2>3. W[Slot(T - i + 1)] = u.blocks[i]
    BY <1>6, <2>2
  <2> QED BY <2>1, <2>2, <2>3 DEF HasHeight
<1>9. u.blocks = <<>> <=> n = 0
  BY <1>2, UpdateParts, EmptySeq
<1>10. \A s \in 0 .. Ring - 1 : work[s] \in Blocks \cup {None} /\ (work[s] # None => Height[work[s]] \in Nat)
  BY PoolClientAssumption DEF BaseInv, TypeOK
<1>11. \A x \in Int : Slot(x) \in 0 .. Ring - 1
  BY SlotType
<1>15. PICK back \in 0 .. Depth - 1, high \in Nat :
         /\ high = TopOf(u) /\ CurrentlyMining(u) = Max2(mining, high - back)
         /\ (n = 0 => high = 0) /\ (n # 0 => high = T)
  BY <1>2, <1>9, UpdateParts, MiningType DEF TipHeight
<1>12. CASE job = None
  <2>1. NewTop(u) = T /\ n = Depth
    BY <1>2, <1>4, <1>12 DEF NewTop
  <2>2. mining = -1 /\ top = 0 /\ \A s \in 0 .. Ring - 1 : work[s] = None
    BY <1>3, <1>12 DEF HeightInv, RestInv
  <2>3. m = n
    <3> SUFFICES ASSUME m < n PROVE FALSE
      BY <1>2
    <3>1. m + 1 \in 1 .. n
      BY <1>1
    <3>2. Height[u.blocks[m + 1]] \in Int
      BY <1>2, <3>1
    <3>3. work[Slot(Height[u.blocks[m + 1]])] = None
      BY <1>11, <2>2, <3>2
    <3> QED BY <1>2, <3>3 DEF Old
  <2>4. ASSUME NEW g \in T - Depth + 1 .. T PROVE HasHeight(W, g)
    <3>1. PICK i \in 1 .. m : g = T - i + 1
      <4>1. T - g + 1 \in 1 .. m /\ g = T - (T - g + 1) + 1
        BY <1>1, <2>1, <2>3
      <4> QED BY <4>1
    <3> QED BY <1>8, <3>1
  <2>5. ASSUME NEW s \in 0 .. Ring - 1, W[s] # None PROVE Height[W[s]] <= T
    <3>1. PICK i \in 1 .. m : W[s] = u.blocks[i]
      BY <1>6, <2>2, <2>5
    <3>2. Height[W[s]] = T - i + 1
      BY <1>2, <1>7, <3>1
    <3> QED BY <3>2
  <2>6. CurrentlyMining(u) \in T - Depth + 1 .. T /\ Max2(peak, TopOf(u)) = T
    BY <1>1, <1>2, <1>3, <1>15, <2>1, <2>2 DEF Max2
  <2> QED BY <1>2, <1>5, <2>1, <2>3, <2>4, <2>5, <2>6
<1>13. CASE job # None /\ T > top
  <2>1. NewTop(u) = T /\ n # 0 /\ (n = Depth \/ T - n <= top)
    BY <1>1, <1>2, <1>3, <1>4, <1>13 DEF NewTop
  <2>2. /\ mining \in top - Depth + 1 .. top
        /\ \A g \in top - Depth + 1 .. top : HasHeight(work, g)
        /\ \A s \in 0 .. Ring - 1 : work[s] # None => Height[work[s]] <= top
    BY <1>3, <1>13 DEF HeightInv, RestInv, HasHeight
  <2>3. m = n
    <3> SUFFICES ASSUME m < n PROVE FALSE
      BY <1>2
    <3>1. PICK x \in Int : x = Height[u.blocks[m + 1]] /\ x = T - m /\ T - Depth < x
      <4>1. m + 1 \in 1 .. n
        BY <1>1
      <4>2. Height[u.blocks[m + 1]] = T - (m + 1) + 1
        BY <1>2, <4>1
      <4>3. T - (m + 1) + 1 = T - m /\ T - m \in Int /\ T - Depth < T - m
        BY <1>1
      <4> QED BY <4>2, <4>3
    <3>2. Slot(x) \in 0 .. Ring - 1 /\ work[Slot(x)] # None /\ Height[work[Slot(x)]] > x
      BY <1>2, <1>11, <3>1 DEF Old
    <3>3. PICK y \in Nat : y = Height[work[Slot(x)]] /\ y > x /\ y <= top
      BY <1>10, <2>2, <3>2
    <3>4. Slot(y) = Slot(x)
      <4>1. y \in top - Depth + 1 .. top
        BY <1>1, <1>13, <3>1, <3>3
      <4>2. Slot(y) \in 0 .. Ring - 1 /\ Height[work[Slot(y)]] = y
        BY <1>11, <2>2, <4>1 DEF HasHeight
      <4>3. x \in top - Depth + 1 .. top
        BY <1>1, <1>13, <3>1, <3>3
      <4>4. Height[work[Slot(x)]] = x
        BY <2>2, <4>3 DEF HasHeight
      <4> QED BY <3>3, <4>4
    <3> QED BY <1>1, <1>13, <3>1, <3>3, <3>4, SameSlot
  <2>4. ASSUME NEW g \in T - Depth + 1 .. T PROVE HasHeight(W, g)
    <3>1. CASE g > T - n
      <4>1. PICK i \in 1 .. m : g = T - i + 1
        <5>1. T - g + 1 \in 1 .. m /\ g = T - (T - g + 1) + 1
          BY <1>1, <2>3, <3>1
        <5> QED BY <5>1
      <4> QED BY <1>8, <4>1
    <3>2. CASE g <= T - n
      <4>1. g \in top - Depth + 1 .. top
        BY <1>1, <1>13, <2>1, <3>2
      <4>2. HasHeight(work, g) /\ Slot(g) \in 0 .. Ring - 1
        BY <1>11, <2>2, <4>1
      <4>3. ASSUME NEW i \in 1 .. m, Slot(Height[u.blocks[i]]) = Slot(g) PROVE FALSE
        <5>1. Height[u.blocks[i]] = T - i + 1
          BY <1>2, <1>7
        <5>2. g < T - i + 1 /\ T - i + 1 < g + Ring /\ T - i + 1 \in Int
          BY <1>1, <2>3, <3>2
        <5> QED BY <4>3, <5>1, <5>2, SameSlot
      <4>4. W[Slot(g)] = work[Slot(g)]
        BY <1>6, <4>2, <4>3
      <4> QED BY <4>2, <4>4 DEF HasHeight
    <3> QED BY <1>1, <3>1, <3>2
  <2>5. ASSUME NEW s \in 0 .. Ring - 1, W[s] # None PROVE Height[W[s]] <= T
    <3>1. CASE W[s] = work[s]
      <4>1. Height[W[s]] \in Nat /\ Height[W[s]] <= top
        BY <1>10, <2>2, <2>5, <3>1
      <4> QED BY <1>13, <4>1
    <3>2. ASSUME NEW i \in 1 .. m, W[s] = u.blocks[i] PROVE Height[W[s]] <= T
      <4>1. Height[W[s]] = T - i + 1
        BY <1>2, <1>7, <3>2
      <4> QED BY <4>1
    <3> QED BY <1>6, <3>1, <3>2
  <2>6. CurrentlyMining(u) \in T - Depth + 1 .. T /\ Max2(peak, TopOf(u)) = T
    BY <1>1, <1>3, <1>13, <1>15, <2>1, <2>2 DEF Max2
  <2> QED BY <1>2, <1>5, <2>1, <2>3, <2>4, <2>5, <2>6
<1>14. CASE job # None /\ T <= top
  <2>1. NewTop(u) = top
    BY <1>2, <1>3, <1>14 DEF NewTop
  <2>2. /\ mining \in top - Depth + 1 .. top
        /\ \A g \in top - Depth + 1 .. top : HasHeight(work, g)
        /\ \A s \in 0 .. Ring - 1 : work[s] # None => Height[work[s]] <= top
    BY <1>3, <1>14 DEF HeightInv, RestInv, HasHeight
  <2>3. ASSUME NEW g \in top - Depth + 1 .. top PROVE HasHeight(W, g)
    <3>1. HasHeight(work, g) /\ Slot(g) \in 0 .. Ring - 1
      BY <1>11, <2>2
    <3>2. CASE W[Slot(g)] = work[Slot(g)]
      BY <3>1, <3>2 DEF HasHeight
    <3>3. ASSUME NEW i \in 1 .. m, Slot(Height[u.blocks[i]]) = Slot(g) PROVE HasHeight(W, g)
      <4>1. PICK x \in Int : x = Height[u.blocks[i]] /\ x = T - i + 1 /\ x <= top
        <5>1. Height[u.blocks[i]] = T - i + 1
          BY <1>2, <1>7
        <5>2. T - i + 1 \in Int /\ T - i + 1 <= top
          BY <1>14
        <5> QED BY <5>1, <5>2
      <4>2. ~(g > x)
        <5>1. ~Old(u.blocks[i])
          BY <1>2
        <5> QED BY <3>1, <3>3, <4>1, <5>1 DEF Old, HasHeight
      <4>3. x = g
        <5>1. g < x + Ring /\ x < g + Ring
          BY <1>1, <4>1, <4>2
        <5> QED BY <3>3, <4>1, <5>1, OwnSlot
      <4> QED BY <1>8, <4>1, <4>3
    <3> QED BY <1>6, <3>1, <3>2, <3>3
  <2>4. ASSUME NEW s \in 0 .. Ring - 1, W[s] # None PROVE Height[W[s]] <= top
    <3>1. CASE W[s] = work[s]
      BY <2>2, <2>4, <3>1
    <3>2. ASSUME NEW i \in 1 .. m, W[s] = u.blocks[i] PROVE Height[W[s]] <= top
      <4>1. Height[W[s]] = T - i + 1
        BY <1>2, <1>7, <3>2
      <4> QED BY <1>14, <4>1
    <3> QED BY <1>6, <3>1, <3>2
  <2>5. CurrentlyMining(u) \in top - Depth + 1 .. top /\ Max2(peak, TopOf(u)) = top
    <3>1. mining \in Nat
      <4>1. Height[job] = mining /\ job \in Blocks
        BY <1>14 DEF HeightInv, RestInv, BaseInv, TypeOK
      <4> QED BY <4>1, PoolClientAssumption
    <3>2. high <= top
      BY <1>14, <1>15
    <3> QED BY <1>1, <1>3, <1>15, <2>2, <3>1, <3>2 DEF Max2
  <2> QED BY <1>2, <1>3, <1>5, <1>14, <2>1, <2>3, <2>4, <2>5
<1> QED BY <1>12, <1>13, <1>14

\* The first update of the channel is taken.  The window goes up to its tip, so
\* that what it said of the heights stays true.
LEMMA ReceiveHeights ==
    ASSUME BaseInv, HeightInv, NEW u, Receive(u), RestInv',
           job' # None, peak' \in Int, TipHeight(u) <= peak', job # None => peak <= peak'
    PROVE  HeightInv'
<1>1. /\ chan # <<>> /\ u = Head(chan) /\ chain' = chain
      /\ Len(chan') = Len(chan) - 1 /\ Len(chan) \in Nat \ {0}
      /\ \A i \in 1 .. Len(chan) - 1 : chan'[i] = chan[i + 1]
  BY ReceiveBase
<1>2. PICK n \in Nat \ {0} : n = Len(chan)
  BY <1>1
<1>3. /\ DOMAIN chan = 1 .. n /\ DOMAIN chan' = 1 .. n - 1 /\ Len(chan') + 1 = n
      /\ \A i \in 1 .. n - 1 : chan'[i] = chan[i + 1] /\ i + 1 \in 1 .. n
  <2>1. chan \in Seq(Update) /\ chan' \in Seq(Update)
    BY ReceiveBase DEF BaseInv, TypeOK, PoolTypeOK
  <2> QED BY <1>1, <1>2, <2>1
<1>4. u = chan[1] /\ TipHeight(u) \in Int
  <2>1. u = chan[1] /\ u.conf.tip \in Tips
    BY <1>1, UpdateParts
  <2> QED BY <2>1, AncestorHeight DEF TipHeight
<1>5. ASSUME NEW i \in 1 .. n, NEW g \in Int, SeenBefore(i + 1, g) PROVE SeenBefore(i, g)'
  <2>1. CASE job # None /\ g <= peak
    <3>1. peak \in Int
      BY DEF BaseInv, TypeOK
    <3> QED BY <2>1, <3>1 DEF SeenBefore
  <2>2. CASE \E j \in 1 .. (i + 1) - 1 : g <= TipHeight(chan[j])
    <3>1. PICK j \in 1 .. i : g <= TipHeight(chan[j])
      BY <2>2
    <3>2. CASE j = 1
      BY <1>4, <3>1, <3>2 DEF SeenBefore
    <3>3. CASE j # 1
      <4>1. PICK k \in 1 .. i - 1 : k = j - 1
        BY <3>3
      <4>2. k \in 1 .. n - 1 /\ k + 1 = j
        BY <4>1
      <4>3. chan'[k] = chan[j]
        BY <1>3, <4>2
      <4>4. g <= TipHeight(chan'[k])
        BY <3>1, <4>3
      <4> QED BY <4>4 DEF SeenBefore, TipHeight
    <3> QED BY <3>2, <3>3
  <2> QED BY <1>5, <2>1, <2>2 DEF SeenBefore
<1>6. ASSUME NEW i \in 1 .. n - 1
      PROVE  Len(chan'[i].blocks) = Depth \/ SeenBefore(i, Low(chan[i]))'
  <2>1. PICK v : v = chan[i + 1]
    OBVIOUS
  <2>2. v \in Update /\ i + 1 \in 1 .. n /\ chan'[i] = v
    <3>1. chan \in Seq(Update)
      BY DEF BaseInv, TypeOK, PoolTypeOK
    <3>2. i + 1 \in DOMAIN chan /\ i + 1 \in 1 .. n
      BY <1>3
    <3>3. chan[i + 1] \in Update
      BY <3>1, <3>2
    <3> QED BY <1>3, <2>1, <3>2, <3>3
  <2>3. v.conf.tip \in Tips /\ Len(v.blocks) \in Nat
    BY <2>2 DEF Update, Conf
  <2>4. Low(v) \in Int
    BY <2>3, AncestorHeight DEF Low, TipHeight
  <2>5. Len(v.blocks) = Depth \/ SeenBefore(i + 1, Low(v))
    BY <1>3, <2>1, <2>2 DEF HeightInv
  <2>6. CASE SeenBefore(i + 1, Low(v))
    <3>1. PICK g \in Int : g = Low(v)
      BY <2>4
    <3>2. i \in 1 .. n /\ SeenBefore(i + 1, g)
      BY <2>6, <3>1
    <3>3. SeenBefore(i, g)'
      BY <1>5, <3>2
    <3>4. Low(chan'[i]) = g
      BY <2>2, <3>1
    <3> QED BY <3>3, <3>4 DEF Low, TipHeight, SeenBefore
  <2> QED BY <2>2, <2>5, <2>6
<1>7. ASSUME NEW g \in Heights, chain'[g] # None PROVE SeenBefore(Len(chan) + 1, g)'
  <2>1. SeenBefore(n + 1, g) /\ g \in Int /\ n \in 1 .. n
    BY <1>1, <1>2, <1>7, PoolClientAssumption DEF HeightInv, Heights
  <2>2. SeenBefore(n, g)'
    BY <1>5, <2>1
  <2> QED BY <1>3, <2>2 DEF SeenBefore
<1> QED BY <1>3, <1>6, <1>7 DEF HeightInv

\* An update is taken.
LEMMA ReceivedHeights ==
    ASSUME BaseInv, HeightsKept, NEW u, UpdateIsOld(u) \/ NoWorkYet(u) \/ StartMining(u)
    PROVE  HeightsKept'
<1>1. Receive(u) /\ work' = WithWork(u) /\ missed' = missed
  BY DEF UpdateIsOld, NoWorkYet, StartMining, TakeUpdate
<1>2. chan # <<>> /\ u = Head(chan)
  BY <1>1, ReceiveBase
<1> SUFFICES ASSUME ~missed PROVE HeightInv'
  BY <1>1 DEF HeightsKept
<1>3. HeightInv
  BY DEF HeightsKept
<1>4. PICK top \in Int :
        /\ top = NewTop(u)
        /\ \A g \in top - Depth + 1 .. top : HasHeight(WithWork(u), g)
        /\ \A s \in 0 .. Ring - 1 : WithWork(u)[s] # None => Height[WithWork(u)[s]] <= top
        /\ CurrentlyMining(u) \in top - Depth + 1 .. top
        /\ Max2(peak, TopOf(u)) = top
        /\ job = None \/ TipHeight(u) > peak => Len(Entered(u)) = Len(u.blocks)
  BY <1>2, <1>3, ReceivedWork
<1>5. TipHeight(u) \in Int /\ peak \in Int
  BY <1>2, UpdateParts, AncestorHeight DEF TipHeight, BaseInv, TypeOK
<1>6. TipHeight(u) <= top /\ (job # None => peak <= top)
  BY <1>4, <1>5 DEF NewTop
<1>7. JobOf(u) # None /\ Height[JobOf(u)] = CurrentlyMining(u)
  BY <1>4 DEF HasHeight, JobOf
<1>8. CASE StartMining(u)
  <2>1. job' = JobOf(u) /\ mining' = CurrentlyMining(u) /\ peak' = top
    BY <1>4, <1>8 DEF StartMining, TakeUpdate
  <2>2. job' # None /\ Height[job'] = mining' /\ mining' \in top - Depth + 1 .. top
    BY <1>4, <1>7, <2>1
  <2>3. RestInv'
    BY <1>1, <1>4, <2>1, <2>2 DEF RestInv, HasHeight
  <2> QED BY <1>1, <1>3, <1>6, <2>1, <2>2, <2>3, ReceiveHeights
<1>9. CASE UpdateIsOld(u)
  <2>1. Len(Entered(u)) < Len(u.blocks) /\ job' = job /\ mining' = mining /\ peak' = peak
    BY <1>9 DEF UpdateIsOld
  <2>2. job # None /\ ~(TipHeight(u) > peak)
    <3>1. Len(Entered(u)) \in Int /\ Len(u.blocks) \in Int
      BY <1>2, UpdateNumbers
    <3> QED BY <1>4, <2>1, <3>1
  <2>3. top = peak /\ peak' = top /\ job' # None
    BY <1>4, <2>1, <2>2 DEF NewTop
  <2>4. Height[job'] = mining' /\ mining' \in top - Depth + 1 .. top
    BY <1>3, <2>1, <2>2, <2>3 DEF HeightInv, RestInv
  <2>5. RestInv'
    BY <1>1, <1>4, <2>3, <2>4 DEF RestInv, HasHeight
  <2> QED BY <1>1, <1>3, <1>6, <2>3, <2>5, ReceiveHeights
<1>10. CASE NoWorkYet(u)
  BY <1>7, <1>10 DEF NoWorkYet
<1> QED BY <1>8, <1>9, <1>10

\* discover_blocks: it stops at a block it has told about.
LEMMA DiscoverHeights ==
    ASSUME BaseInv, HeightsKept, DiscoverBlocks, UNCHANGED annMineVars PROVE HeightsKept'
<1>1. conf \in Conf /\ Send(NewUpdate) /\ UNCHANGED <<work, mining, job, peak>>
  BY DEF BaseInv, UpdateInv, DiscoverBlocks, NewUpdate, annMineVars, workVars
<1> SUFFICES ASSUME ~missed' PROVE HeightInv'
  BY DEF HeightsKept
<1>2. ~missed /\ chan' = Append(chan, NewUpdate) /\ HeightInv
  BY <1>1, SendChan DEF HeightsKept
<1>3. PICK b \in Tips : b = conf.tip /\ Height[b] \in Nat
  BY <1>1, AncestorHeight DEF Conf
<1>4. PICK n \in Nat : n = Len(chan) /\ chan \in Seq(Update)
  BY DEF BaseInv, TypeOK, PoolTypeOK
<1>5. /\ DOMAIN chan = 1 .. n /\ DOMAIN chan' = 1 .. n + 1 /\ Len(chan') = n + 1
      /\ chan'[n + 1] = NewUpdate /\ \A i \in 1 .. n : chan'[i] = chan[i]
  BY <1>2, <1>4
<1>6. PICK r \in 0 .. Depth : r = Returned(b)
  BY FetchedDef
<1>7. Len(NewUpdate.blocks) = r /\ NewUpdate.conf = conf
  BY <1>3, <1>6, PoolClientAssumption DEF NewUpdate
<1>8. \A i, g : i \in 1 .. n + 1 /\ SeenBefore(i, g) => SeenBefore(i, g)'
  <2> SUFFICES ASSUME NEW i \in 1 .. n + 1, NEW g, SeenBefore(i, g) PROVE SeenBefore(i, g)'
    OBVIOUS
  <2>1. CASE job # None /\ g <= peak
    BY <1>1, <2>1 DEF SeenBefore
  <2>2. ASSUME NEW j \in 1 .. i - 1, g <= TipHeight(chan[j]) PROVE SeenBefore(i, g)'
    <3>1. j \in 1 .. n
      OBVIOUS
    <3>2. g <= TipHeight(chan'[j])
      BY <1>5, <2>2, <3>1
    <3> QED BY <3>2 DEF SeenBefore, TipHeight
  <2> QED BY <2>1, <2>2 DEF SeenBefore
<1>9. RestInv'
  BY <1>1, <1>2 DEF HeightInv, RestInv
<1>10. ASSUME NEW i \in 1 .. n + 1
       PROVE  Len(chan'[i].blocks) = Depth \/ SeenBefore(i, Low(chan[i]))'
  <2>1. CASE i \in 1 .. n
    <3>1. chan'[i] = chan[i]
      BY <1>5, <2>1
    <3>2. Len(chan[i].blocks) = Depth \/ SeenBefore(i, Low(chan[i]))
      BY <1>2, <1>5, <2>1 DEF HeightInv
    <3>3. PICK g : g = Low(chan[i])
      OBVIOUS
    <3>4. Low(chan'[i]) = g
      BY <3>1, <3>3
    <3>5. SeenBefore(i, g) => SeenBefore(i, g)'
      BY <1>8
    <3> QED BY <3>1, <3>2, <3>3, <3>4, <3>5 DEF SeenBefore, Low, TipHeight
  <2>2. CASE i = n + 1 /\ r # Depth
    <3>1. r = Fetched(b) /\ Fetched(b) # Depth + 1 /\ r \in 0 .. Depth
      BY <1>6, <2>2, FetchedDef, PoolClientAssumption
    <3>2. Known(Ancestor(b, r))
      BY <3>1, FetchedDef
    <3>3. PICK g : g = Height[b] - r
      OBVIOUS
    <3>4. Height[Ancestor(b, r)] = g /\ g \in Heights /\ Ancestor(b, r) \in Blocks
      BY <3>3, AncestorHeight
    <3>5. chain[g] # None
      BY <3>2, <3>4, PoolClientAssumption DEF Known
    <3>6. SeenBefore(n + 1, g)
      BY <1>2, <1>4, <3>4, <3>5 DEF HeightInv
    <3>7. SeenBefore(n + 1, g)'
      BY <1>8, <3>6
    <3>8. chan'[i] = NewUpdate
      BY <1>5, <2>2
    <3>9. Low(chan'[i]) = g
      BY <1>3, <1>7, <3>3, <3>8 DEF Low, TipHeight
    <3> QED BY <2>2, <3>7, <3>9 DEF SeenBefore, Low, TipHeight
  <2>3. CASE i = n + 1 /\ r = Depth
    BY <1>5, <1>7, <2>3
  <2> QED BY <2>1, <2>2, <2>3
<1>11. ASSUME NEW g \in Heights, chain'[g] # None PROVE SeenBefore(Len(chan) + 1, g)'
  <2>1. CASE chain'[g] = chain[g]
    <3>1. SeenBefore(n + 1, g)
      BY <1>2, <1>4, <1>11, <2>1 DEF HeightInv
    <3>2. SeenBefore(n + 1, g)'
      BY <1>8, <3>1
    <3>3. \A j \in 1 .. (n + 1) - 1 : j \in 1 .. ((n + 1) + 1) - 1
      OBVIOUS
    <3> QED BY <1>5, <3>2, <3>3 DEF SeenBefore
  <2>2. ASSUME NEW i \in 0 .. Fetched(b) - 1, g = Height[b] - i
        PROVE  SeenBefore(Len(chan) + 1, g)'
    <3>1. g <= Height[b]
      BY <1>3, <2>2, FetchedDef
    <3>2. n + 1 \in 1 .. ((n + 1) + 1) - 1
      OBVIOUS
    <3>3. TipHeight(chan'[n + 1]) = Height[b]
      BY <1>3, <1>5, <1>7 DEF TipHeight
    <3> QED BY <1>5, <3>1, <3>2, <3>3 DEF SeenBefore, TipHeight
  <2> QED BY <1>1, <1>3, <2>1, <2>2, DiscoverChain
<1> QED BY <1>5, <1>9, <1>10, <1>11 DEF HeightInv

\* The steps of others.
LEMMA HeightsFrame ==
    ASSUME HeightsKept, UNCHANGED <<work, mining, job, peak, chan, chain, missed>> PROVE HeightsKept'
<1>1. RestInv => RestInv'
  BY DEF RestInv
<1>2. \A i, g : SeenBefore(i, g)' <=> SeenBefore(i, g)
  BY DEF SeenBefore, TipHeight
<1>3. HeightInv => HeightInv'
  <2> SUFFICES ASSUME HeightInv PROVE HeightInv'
    OBVIOUS
  <2>1. \A g \in Heights : chain'[g] # None => SeenBefore(Len(chan) + 1, g)'
    BY <1>2 DEF HeightInv
  <2>2. \A i \in DOMAIN chan' : Len(chan'[i].blocks) = Depth \/ SeenBefore(i, Low(chan[i]))'
    <3>1. \A i : Low(chan[i])' = Low(chan[i])
      BY DEF Low, TipHeight
    <3> QED BY <1>2, <3>1 DEF HeightInv
  <2> QED BY <1>1, <2>1, <2>2 DEF HeightInv
<1> QED BY <1>3 DEF HeightsKept

\* There is no work yet.
LEMMA HeightsInit == Init => HeightsKept
<1> SUFFICES ASSUME Init PROVE HeightInv
  BY DEF HeightsKept
<1>1. RestInv
  BY DEF Init, RestInv
<1>2. chan = <<>> /\ \A g \in Heights : chain[g] = None
  BY DEF Init, PoolInit
<1> QED BY <1>1, <1>2 DEF HeightInv

\* Every step keeps the heights of recent_work.
LEMMA HeightsStep == BaseInv /\ HeightsKept /\ [Next]_vars => HeightsKept'
<1> SUFFICES ASSUME BaseInv, HeightsKept, [Next]_vars PROVE HeightsKept'
  OBVIOUS
<1>1. CASE UNCHANGED <<work, mining, job, peak, chan, chain, missed>>
  BY <1>1, HeightsFrame
<1>9. ASSUME NEW u, NoTarget(u) PROVE HeightsKept'
  BY <1>9 DEF NoTarget, HeightsKept
<1>2. CASE UpdateStep
  BY <1>1, <1>2, <1>9, ReceivedHeights
  DEF UpdateStep, Subscribe, Lag, ShutDown, annMineVars, workVars, poolVars, clientVars, chanVars
<1>3. CASE ClientStep
  BY <1>1, <1>3, DiscoverHeights DEF ClientStep, FetchConf, annMineVars, workVars, chanVars
<1>4. CASE AnnStep
  BY <1>1, <1>4
  DEF AnnStep, ChooseHandler, NoHandler, RefuseOld, Submit, workVars, poolVars, clientVars, chanVars
<1>5. ASSUME NEW l \in Loops, UploaderStep(l) PROVE HeightsKept'
  BY <1>1, <1>5
  DEF UploaderStep, PopBatch, UploadEnds, UploaderExits, workVars, poolVars, clientVars, chanVars
<1>6. ASSUME NEW a \in Anns, OnAnnFound(a) PROVE HeightsKept'
  BY <1>1, <1>6 DEF OnAnnFound, workVars, poolVars, clientVars, chanVars
<1>7. ASSUME NEW c, MasterChanges(c), UNCHANGED annMineVars PROVE HeightsKept'
  BY <1>1, <1>7 DEF MasterChanges, annMineVars, workVars, clientVars, chanVars
<1>8. CASE UNCHANGED vars
  BY <1>1, <1>8 DEF vars, workVars, poolVars, clientVars, chanVars
<1> QED BY <1>2, <1>3, <1>4, <1>5, <1>6, <1>7, <1>8 DEF Next

\* Whatever the forks and rollbacks, and whatever mine_old_anns comes with an
\* update, the miner works on a block of the height currently_mining while no
\* update was missed: recent_work, a ring, has a block
\* of its own height in every slot that is looked at.
THEOREM JobHeight == Spec => []JobAtHeight
<1>1. HeightsKept => JobAtHeight
  BY DEF HeightsKept, HeightInv, RestInv, JobAtHeight
<1>2. BaseInv /\ HeightsKept /\ [Next]_vars => BaseInv' /\ HeightsKept'
  BY BaseStep, HeightsStep
<1> QED BY <1>1, <1>2, BaseInit, HeightsInit, PTL DEF Spec

-----------------------------------------------------------------------------
(* The chain and the pool's configuration.                                 *)

\* The ancestor of t, k back, is that of c, d back.
Meet(t, k, c, d) == Ancestor(t, k) = Ancestor(c, d)
\* Chains that meet stay together.
LEMMA AncestorSum ==
    ASSUME NEW t, NEW c, NEW k \in 0 .. Depth, NEW d \in 0 .. Depth,
           Meet(t, k, c, d),
           NEW e \in Nat, k + e <= Depth, d + e <= Depth
    PROVE  Meet(t, k + e, c, d + e)
<1> DEFINE G == {x \in 0 .. e : Ancestor(t, k + x) = Ancestor(c, d + x)}
<1>1. Depth \in Nat
  BY PoolClientAssumption
<1>2. 0 \in G
  <2>1. k + 0 = k /\ d + 0 = d /\ 0 \in 0 .. e
    BY <1>1
  <2> QED BY <2>1 DEF Meet
<1>3. ASSUME NEW x \in 1 .. e, x - 1 \in G PROVE x \in G
  <2>1. /\ x \in 0 .. e /\ k + x \in 1 .. Depth /\ d + x \in 1 .. Depth
        /\ (k + x) - 1 = k + (x - 1) /\ (d + x) - 1 = d + (x - 1)
    BY <1>1
  <2>2. /\ Ancestor(t, k + x) = Prev[Ancestor(t, (k + x) - 1)]
        /\ Ancestor(c, d + x) = Prev[Ancestor(c, (d + x) - 1)]
    BY <2>1, AncestorDef
  <2>3. Ancestor(t, k + (x - 1)) = Ancestor(c, d + (x - 1))
    BY <1>3
  <2>4. Ancestor(t, k + x) = Ancestor(c, d + x)
    BY <2>1, <2>2, <2>3
  <2> QED BY <2>1, <2>4
<1>4. 0 .. e \subseteq G
  <2> HIDE DEF G
  <2> QED BY <1>2, <1>3, UpTo
<1>5. e \in G
  <2>1. e \in 0 .. e
    OBVIOUS
  <2> QED BY <1>4, <2>1
<1> QED BY <1>5 DEF Meet

\* What discover_blocks finds when it stops: the chain it knew.
LEMMA FetchStops ==
    ASSUME BaseInv, ChainInv, cpc = "discover", conf \in Conf,
           NEW b \in Tips, b = conf.tip, Fetched(b) # Depth + 1
    PROVE  /\ mc \in Conf /\ Fetched(b) \in 0 .. Depth
           /\ \E d \in 0 .. Depth : /\ Height[mc.tip] - d = Height[b] - Fetched(b)
                                   /\ d <= Fetched(b)
                                   /\ Ancestor(mc.tip, d) = Ancestor(b, Fetched(b))
<1>1. Depth \in Nat /\ None \notin Blocks
  BY PoolClientAssumption
<1>2. PICK f \in 0 .. Depth : f = Fetched(b)
  BY <1>1, FetchedDef
<1>3. Known(Ancestor(b, f))
  BY <1>2, FetchedDef
<1>4. PICK H \in Nat : H = Height[b]
  BY AncestorHeight
<1>5. /\ Ancestor(b, f) \in Blocks /\ Height[Ancestor(b, f)] = H - f /\ H - f \in Heights /\ H - f \in Int
  BY <1>4, AncestorHeight
<1>6. chain[H - f] = Ancestor(b, f)
  BY <1>3, <1>5 DEF Known
<1>7. mc # None
  BY <1>1, <1>5, <1>6 DEF ChainInv
<1>8. mc \in Conf /\ mc.tip \in Tips
  BY <1>7 DEF BaseInv, TypeOK, PoolTypeOK, Conf
<1>9. PICK M \in Nat : M = Height[mc.tip]
  BY <1>8, AncestorHeight
<1>10. /\ \A i \in 0 .. Depth : chain[M - i] = Ancestor(mc.tip, i)
       /\ \A g \in Heights : g > M => chain[g] = None
       /\ M <= H
  BY <1>4, <1>7, <1>9 DEF ChainInv
<1>11. ~(H - f > M)
  BY <1>1, <1>5, <1>6, <1>10
<1>12. PICK d \in 0 .. Depth : d = M - (H - f) /\ d <= f
  <2>1. M - (H - f) \in 0 .. Depth /\ M - (H - f) <= f
    BY <1>1, <1>10, <1>11
  <2> QED BY <2>1
<1>13. M - d = H - f
  BY <1>1, <1>12
<1>14. Ancestor(mc.tip, d) = Ancestor(b, f)
  BY <1>6, <1>10, <1>13
<1> QED BY <1>2, <1>4, <1>8, <1>9, <1>12, <1>13, <1>14

\* The chain after discover_blocks.
LEMMA DiscoverChainInv ==
    ASSUME BaseInv, ChainInv, LinkInv, DiscoverBlocks PROVE ChainInv'
<1>1. /\ cpc = "discover" /\ conf \in Conf /\ mc' = conf /\ cpc' = "poll" /\ tip' = tip
  BY DEF BaseInv, UpdateInv, DiscoverBlocks, masterVars
<1>2. PICK b \in Tips : b = conf.tip
  BY <1>1 DEF Conf
<1>3. PICK H \in Nat : H = Height[b]
  BY AncestorHeight
<1>4. Depth \in Nat /\ None \notin Conf
  BY PoolClientAssumption
<1>5. mc' # None
  BY <1>1, <1>4 DEF Conf
<1>6. PICK f \in 0 .. Depth + 1 : f = Fetched(b)
  BY FetchedDef
<1>7. /\ \A i \in 0 .. f - 1 : i <= Depth => chain'[H - i] = Ancestor(b, i)
      /\ \A h \in Heights : \/ chain'[h] = chain[h]
                           \/ \E i \in 0 .. f - 1 : i <= Depth /\ h = H - i
      /\ \A h \in Heights : (\A i \in 0 .. f - 1 : h # H - i) => chain'[h] = chain[h]
  BY <1>1, <1>2, <1>3, <1>6, DiscoverChain
<1>8. ASSUME NEW i \in 0 .. Depth PROVE chain'[H - i] = Ancestor(b, i)
  <2>1. CASE i < f
    BY <1>4, <1>7, <2>1
  <2>2. CASE ~(i < f)
    <3>1. f \in 0 .. Depth /\ Fetched(b) # Depth + 1
      BY <1>4, <1>6, <2>2
    <3>2. PICK d \in 0 .. Depth : /\ Height[mc.tip] - d = H - f /\ d <= f
                                  /\ Ancestor(mc.tip, d) = Ancestor(b, f)
      BY <1>1, <1>2, <1>3, <1>6, <3>1, FetchStops
    <3>3. mc \in Conf /\ mc # None
      BY <1>1, <1>2, <1>4, <3>1, FetchStops DEF Conf
    <3>4. PICK M \in Nat : M = Height[mc.tip]
      BY <3>3, AncestorHeight DEF Conf
    <3>5. PICK e \in Nat : e = i - f
      BY <1>4, <2>2, <3>1
    <3>6. f + e = i /\ d + e \in 0 .. Depth /\ f + e <= Depth /\ d + e <= Depth /\ M - (d + e) = H - i
      BY <1>4, <3>1, <3>2, <3>4, <3>5
    <3>7. Ancestor(mc.tip, d + e) = Ancestor(b, f + e)
      <4>1. Meet(mc.tip, d, b, f)
        BY <3>2 DEF Meet
      <4>2. Meet(mc.tip, d + e, b, f + e)
        BY <3>1, <3>6, <4>1, AncestorSum
      <4> QED BY <4>2 DEF Meet
    <3>8. chain[M - (d + e)] = Ancestor(mc.tip, d + e)
      BY <3>3, <3>4, <3>6 DEF ChainInv
    <3>9. H - i \in Heights
      BY <1>3, AncestorHeight
    <3>10. chain'[H - i] = chain[H - i]
      BY <1>4, <1>7, <2>2, <3>1, <3>9
    <3> QED BY <3>6, <3>7, <3>8, <3>10
  <2> QED BY <2>1, <2>2
<1>9. ASSUME NEW g \in Heights, g > H PROVE chain'[g] = None
  <2>1. g \in Nat
    BY PoolClientAssumption DEF Heights
  <2>2. chain'[g] = chain[g]
    BY <1>4, <1>7, <1>9, <2>1
  <2>3. CASE mc = None
    BY <2>2, <2>3 DEF ChainInv
  <2>4. CASE mc # None
    <3>1. PICK M \in Nat : M = Height[mc.tip]
      BY <2>4, AncestorHeight DEF Conf, BaseInv, TypeOK, PoolTypeOK
    <3>2. M <= H
      BY <1>1, <1>2, <1>3, <2>4, <3>1 DEF ChainInv
    <3>3. g > M
      BY <1>9, <2>1, <3>2
    <3> QED BY <2>2, <2>4, <3>1, <3>3 DEF ChainInv
  <2> QED BY <2>3, <2>4
<1>10. H <= Height[tip]
  BY <1>1, <1>2, <1>3 DEF LinkInv
<1>11. mc'.tip = b /\ Height[mc'.tip] = H
  BY <1>1, <1>2, <1>3
<1> QED BY <1>1, <1>5, <1>8, <1>9, <1>10, <1>11 DEF ChainInv

\* The update that is sent continues the chain of the one before it.
LEMMA DiscoverLinked ==
    ASSUME BaseInv, ChainInv, cpc = "discover", conf \in Conf
    PROVE  IF mc = None THEN Len(NewUpdate.blocks) = Depth ELSE Linked(mc, NewUpdate)
<1>1. PICK b \in Tips : b = conf.tip
  BY DEF Conf
<1>2. Len(NewUpdate.blocks) = Returned(b) /\ NewUpdate.conf = conf
  BY <1>1, NewUpdateType
<1>3. Depth \in Nat /\ None \notin Conf
  BY PoolClientAssumption
<1>4. CASE Fetched(b) = Depth + 1
  <2>1. Returned(b) = Depth
    BY <1>3, <1>4, FetchedDef
  <2>2. mc # None => Height[mc.tip] <= TipHeight(NewUpdate)
    BY <1>2 DEF ChainInv, TipHeight
  <2> QED BY <1>2, <2>1, <2>2 DEF Linked
<1>5. CASE Fetched(b) # Depth + 1
  <2>1. mc \in Conf /\ mc # None
    BY <1>1, <1>3, <1>5, FetchStops DEF Conf
  <2>2. Returned(b) = Depth \/ Returned(b) = Fetched(b)
    BY FetchedDef
  <2>3. Height[mc.tip] <= TipHeight(NewUpdate)
    BY <1>2, <2>1 DEF ChainInv, TipHeight
  <2>4. CASE Returned(b) = Depth
    BY <1>2, <2>1, <2>3, <2>4 DEF Linked
  <2>5. CASE Returned(b) = Fetched(b)
    <3>1. PICK d \in 0 .. Depth : /\ Height[mc.tip] - d = Height[b] - Fetched(b)
                                  /\ Ancestor(mc.tip, d) = Ancestor(b, Fetched(b))
      BY <1>1, <1>5, FetchStops
    <3>2. Low(NewUpdate) = Height[b] - Fetched(b)
      BY <1>1, <1>2, <2>5 DEF Low, TipHeight
    <3>3. Ancestor(NewUpdate.conf.tip, Len(NewUpdate.blocks)) = Ancestor(b, Fetched(b))
      BY <1>1, <1>2, <2>5
    <3> QED BY <2>1, <2>3, <3>1, <3>2, <3>3 DEF Linked
  <2> QED BY <2>2, <2>4, <2>5
<1> QED BY <1>4, <1>5

-----------------------------------------------------------------------------
(* The work and the handlers follow the pool.                              *)

\* What recent_work has of a chain that joins the one it has.
LEMMA JoinedWork ==
    ASSUME BaseInv, chan # <<>>, NEW u, u = Head(chan), Len(Entered(u)) = Len(u.blocks),
           NEW c \in Conf, Linked(c, u),
           \A i \in 0 .. Depth - 1 : work[Slot(Height[c.tip] - i)] = Ancestor(c.tip, i),
           NEW i \in 0 .. Depth - 1
    PROVE  WithWork(u)[Slot(TipHeight(u) - i)] = Ancestor(u.conf.tip, i)
<1>1. /\ Depth \in Nat \ {0} /\ Ring \in Nat /\ Depth < Ring
  BY PoolClientAssumption, AnnMineAssumption
<1>2. PICK T \in Nat, n \in 0 .. Depth :
        /\ T = TipHeight(u) /\ n = Len(u.blocks)
        /\ \A j \in 1 .. n : Height[u.blocks[j]] = T - j + 1
  BY UpdateNumbers
<1>3. PICK t \in Tips : t = u.conf.tip /\ T = Height[t]
  BY <1>2, UpdateParts DEF TipHeight
<1>4. CASE i < n
  <2>1. i + 1 \in 1 .. n /\ T - (i + 1) + 1 = T - i /\ (i + 1) - 1 = i
    BY <1>1, <1>4
  <2>2. Height[u.blocks[i + 1]] = T - i
    BY <1>2, <2>1
  <2>3. WithWork(u)[Slot(T - i)] = u.blocks[i + 1]
    <3>1. PICK k \in 1 .. Len(Entered(u)) : k = i + 1
      BY <1>2, <2>1
    <3>2. WithWork(u)[Slot(Height[u.blocks[k]])] = u.blocks[k]
      BY WorkDef
    <3> QED BY <2>2, <3>1, <3>2
  <2>4. u.blocks[i + 1] = Ancestor(t, i)
    BY <1>2, <1>3, <2>1, UpdateParts, ZenonT(40)
  <2> QED BY <1>2, <1>3, <2>3, <2>4
<1>5. CASE ~(i < n)
  <2>1. PICK M \in Nat : M = Height[c.tip]
    BY AncestorHeight DEF Conf
  <2>2. M <= T /\ n # Depth
    BY <1>1, <1>2, <1>5, <2>1 DEF Linked
  <2>3. PICK d \in 0 .. Depth : M - d = T - n /\ Ancestor(c.tip, d) = Ancestor(t, n)
    BY <1>2, <1>3, <2>1, <2>2 DEF Linked, Low
  <2>4. PICK e \in Nat : e = i - n
    BY <1>1, <1>5
  <2>5. /\ n + e = i /\ d + e \in 0 .. Depth - 1 /\ n + e <= Depth /\ d + e <= Depth
        /\ M - (d + e) = T - i
    BY <1>1, <2>2, <2>3, <2>4
  <2>6. Ancestor(c.tip, d + e) = Ancestor(t, i)
    <3>1. Meet(c.tip, d, t, n)
      BY <2>3 DEF Meet
    <3>2. Meet(c.tip, d + e, t, n + e)
      BY <2>5, <3>1, AncestorSum
    <3> QED BY <2>5, <3>2 DEF Meet
  <2>7. work[Slot(T - i)] = Ancestor(t, i)
    <3>1. work[Slot(M - (d + e))] = Ancestor(c.tip, d + e)
      BY <2>1, <2>5
    <3> QED BY <2>5, <2>6, <3>1
  <2>8. PICK s \in 0 .. Ring - 1 : s = Slot(T - i)
    BY <1>1, SlotType
  <2>9. ASSUME NEW j \in 1 .. n, Slot(Height[u.blocks[j]]) = s PROVE FALSE
    <3>1. PICK x \in Int, y \in Int : x = T - j + 1 /\ y = T - i
      BY <1>1
    <3>2. Slot(x) = Slot(y) /\ x < y + Ring /\ y < x + Ring
      <4>1. Height[u.blocks[j]] = x
        BY <1>2, <3>1
      <4>2. x < y + Ring /\ y < x + Ring
        BY <1>1, <1>5, <3>1
      <4> QED BY <2>8, <2>9, <3>1, <4>1, <4>2
    <3>3. x = y
      BY <3>2, OwnSlot
    <3> QED BY <1>1, <1>5, <3>1, <3>3
  <2>10. WithWork(u)[s] = work[s]
    BY <1>2, <2>8, <2>9, WorkDef
  <2> QED BY <1>2, <1>3, <2>7, <2>8, <2>10
<1> QED BY <1>4, <1>5

\* An update of the same height has no block that is old.
LEMMA NoneOld ==
    ASSUME BaseInv, chan # <<>>, NEW u, u = Head(chan), NEW c \in Conf, Height[c.tip] = TipHeight(u),
           \A i \in 0 .. Depth - 1 : work[Slot(Height[c.tip] - i)] = Ancestor(c.tip, i)
    PROVE  Len(Entered(u)) = Len(u.blocks)
<1>1. Depth \in Nat
  BY PoolClientAssumption
<1>2. PICK T \in Nat, n \in 0 .. Depth, m \in 0 .. Depth :
        /\ T = TipHeight(u) /\ n = Len(u.blocks) /\ m = Len(Entered(u)) /\ m <= n
        /\ \A i \in 1 .. n : Height[u.blocks[i]] = T - i + 1
        /\ m < n => Old(u.blocks[m + 1])
  BY UpdateNumbers
<1> SUFFICES ASSUME m < n PROVE FALSE
  BY <1>1, <1>2
<1>3. /\ m + 1 \in 1 .. n /\ m \in 0 .. Depth - 1 /\ m \in 0 .. Depth
      /\ T - (m + 1) + 1 = T - m
  BY <1>1
<1>4. Height[u.blocks[m + 1]] = T - m
  BY <1>2, <1>3
<1>5. work[Slot(T - m)] = Ancestor(c.tip, m)
  BY <1>2, <1>3
<1>6. Height[Ancestor(c.tip, m)] = T - m
  <2>1. PICK t \in Tips : t = c.tip /\ Height[t] = T
    BY <1>2 DEF Conf
  <2> QED BY <1>3, <2>1, AncestorHeight
<1>7. Old(u.blocks[m + 1])
  BY <1>2
<1>8. T - m > T - m
  BY <1>4, <1>5, <1>6, <1>7 DEF Old
<1> QED BY <1>8

\* The chain up to the tip of an update is entered whole, and the miner stays at a
\* distance below the tip that the pool has asked for.
LEMMA SyncedWork ==
    ASSUME BaseInv, HeightInv, LinkInv, chan # <<>>, NEW u, u = Head(chan)
    PROVE  /\ Len(Entered(u)) = Len(u.blocks)
           /\ NewTop(u) = TipHeight(u)
           /\ Within(TipHeight(u) - CurrentlyMining(u))
           /\ \A i \in 0 .. Depth - 1 :
                WithWork(u)[Slot(TipHeight(u) - i)] = Ancestor(u.conf.tip, i)
<1>1. Depth \in Nat \ {0} /\ mining \in Int /\ olds \subseteq Int
  BY PoolClientAssumption, AnnMineAssumption DEF BaseInv, TypeOK, PoolTypeOK
<1>2. PICK T \in Nat, n \in 0 .. Depth, m \in 0 .. Depth :
        /\ T = TipHeight(u) /\ n = Len(u.blocks) /\ m = Len(Entered(u)) /\ m <= n /\ Depth <= T
        /\ \A i \in 1 .. n : /\ u.blocks[i] \in Blocks /\ u.blocks[i] # None
                            /\ Height[u.blocks[i]] = T - i + 1
        /\ m < n => Old(u.blocks[m + 1])
        /\ \A i \in 1 .. m : ~Old(u.blocks[i])
  BY UpdateNumbers
<1>3. job = None \/ TipHeight(u) > peak => Len(Entered(u)) = Len(u.blocks)
  BY ReceivedWork
<1>4. u = chan[1]
  BY UpdateParts
<1>5. u.blocks = <<>> <=> n = 0
  BY <1>2, UpdateParts, EmptySeq
<1>6. PICK back \in 0 .. Depth - 1, high \in Nat :
        /\ back \in olds /\ CurrentlyMining(u) = Max2(mining, high - back)
        /\ (n = 0 => high = 0) /\ (n # 0 => high = T)
  <2>1. u.conf.old \in olds /\ u.conf.old \in 0 .. Depth - 1
    BY UpdateParts
  <2>2. /\ TopOf(u) \in Nat /\ CurrentlyMining(u) = Max2(mining, TopOf(u) - u.conf.old)
        /\ (u.blocks = <<>> => TopOf(u) = 0) /\ (u.blocks # <<>> => TopOf(u) = Height[u.conf.tip])
    BY MiningType
  <2> QED BY <1>2, <1>5, <2>1, <2>2 DEF TipHeight
<1>7. CASE job = None
  <2>1. n = Depth /\ NewTop(u) = T
    BY <1>2, <1>4, <1>7 DEF LinkInv, NewTop
  <2>2. Len(Entered(u)) = n
    BY <1>2, <1>3, <1>7
  <2>3. T - CurrentlyMining(u) = back
    <3>1. mining = -1
      BY <1>7 DEF HeightInv, RestInv
    <3>2. n # 0 /\ ~(-1 > T - back) /\ T - (T - back) = back
      <4>1. Depth <= T /\ n = Depth
        BY <1>2, <2>1
      <4> QED BY <1>1, <4>1
    <3>3. CurrentlyMining(u) = Max2(-1, T - back)
      BY <1>6, <3>1, <3>2
    <3> QED BY <3>2, <3>3 DEF Max2
  <2>4. Within(T - CurrentlyMining(u))
    BY <1>6, <2>3 DEF Within
  <2>5. ASSUME NEW i \in 0 .. Depth - 1 PROVE WithWork(u)[Slot(T - i)] = Ancestor(u.conf.tip, i)
    <3>1. i + 1 \in 1 .. n /\ T - (i + 1) + 1 = T - i /\ (i + 1) - 1 = i
      BY <1>1, <2>1
    <3>2. Height[u.blocks[i + 1]] = T - i
      BY <1>2, <3>1
    <3>3. WithWork(u)[Slot(T - i)] = u.blocks[i + 1]
      BY <2>2, <3>1, <3>2, WorkDef
    <3>4. u.blocks[i + 1] = Ancestor(u.conf.tip, i)
      <4>1. PICK j \in 1 .. Len(u.blocks) : j = i + 1 /\ j - 1 = i
        BY <1>2, <3>1
      <4>2. u.blocks[j] = Ancestor(u.conf.tip, j - 1)
        BY UpdateParts
      <4> QED BY <4>1, <4>2
    <3> QED BY <3>3, <3>4
  <2> QED BY <1>2, <2>1, <2>2, <2>4, <2>5
<1>8. CASE job # None
  <2>1. PICK c \in Conf : Synced(c) /\ Linked(c, u)
    BY <1>4, <1>8 DEF LinkInv
  <2>2. PICK M \in Nat : M = Height[c.tip] /\ peak = M
    BY <2>1, AncestorHeight DEF Conf, Synced
  <2>3. M <= T /\ NewTop(u) = T
    BY <1>2, <1>8, <2>1, <2>2 DEF Linked, NewTop
  <2>4. \A i \in 0 .. Depth - 1 : work[Slot(Height[c.tip] - i)] = Ancestor(c.tip, i)
    BY <2>1 DEF Synced
  <2>5. Len(Entered(u)) = Len(u.blocks)
    <3>1. CASE T > M
      BY <1>2, <1>3, <2>2, <3>1
    <3>2. CASE T = M
      BY <1>2, <2>2, <2>4, <3>2, NoneOld
    <3> QED BY <2>3, <3>1, <3>2
  <2>6. PICK lo \in olds, hi \in olds : lo <= M - mining /\ M - mining <= hi
    BY <2>1, <2>2 DEF Synced, Within
  <2>7. lo \in Int /\ hi \in Int
    BY <1>1
  <2>8. Within(T - CurrentlyMining(u))
    <3>1. CASE n = 0
      <4>1. M = T
        <5>1. PICK d \in 0 .. Depth : M - d = T - 0
          BY <1>1, <1>2, <2>1, <2>2, <3>1 DEF Linked, Low
        <5> QED BY <2>3, <5>1
      <4>2. mining \in Nat
        <5>1. Height[job] = mining /\ job \in Blocks
          BY <1>8 DEF HeightInv, RestInv, BaseInv, TypeOK
        <5> QED BY <5>1, PoolClientAssumption
      <4>3. CurrentlyMining(u) = mining
        BY <1>6, <3>1, <4>2 DEF Max2
      <4> QED BY <2>6, <4>1, <4>3 DEF Within
    <3>2. CASE n # 0 /\ mining > T - back
      <4>1. CurrentlyMining(u) = mining
        BY <1>6, <3>2 DEF Max2
      <4>2. lo <= T - mining /\ T - mining <= back
        BY <1>1, <2>3, <2>6, <2>7, <3>2
      <4> QED BY <1>6, <4>1, <4>2 DEF Within
    <3>3. CASE n # 0 /\ ~(mining > T - back)
      <4>1. CurrentlyMining(u) = T - back
        BY <1>6, <3>3 DEF Max2
      <4>2. back <= T - (T - back) /\ T - (T - back) <= back
        BY <1>1
      <4> QED BY <1>6, <4>1, <4>2 DEF Within
    <3> QED BY <3>1, <3>2, <3>3
  <2> QED BY <1>2, <2>1, <2>3, <2>4, <2>5, <2>8, JoinedWork
<1> QED BY <1>7, <1>8

\* An update is taken: the work is that of its tip, and the handlers are those it
\* lists.
LEMMA ReceivedSync ==
    ASSUME BaseInv, HeightsKept, SyncInv, NEW u, UpdateIsOld(u) \/ NoWorkYet(u) \/ StartMining(u)
    PROVE  SyncInv'
<1>1. Receive(u) /\ work' = WithWork(u) /\ missed' = missed
  BY DEF UpdateIsOld, NoWorkYet, StartMining, TakeUpdate
<1>2. /\ chan # <<>> /\ u = Head(chan)
      /\ UNCHANGED <<tip, olds, down, cpc, conf, mc, chain, missed>>
      /\ Len(chan') = Len(chan) - 1 /\ Len(chan) \in Nat \ {0}
      /\ \A i \in 1 .. Len(chan) - 1 : chan'[i] = chan[i + 1]
      /\ chan \in Seq(Update) /\ chan' \in Seq(Update)
  BY <1>1, ReceiveBase DEF BaseInv, TypeOK, PoolTypeOK
<1> SUFFICES ASSUME ~missed, ~down PROVE ChainInv' /\ LinkInv'
  BY <1>2 DEF SyncInv
<1>3. HeightInv /\ ChainInv /\ LinkInv
  BY DEF HeightsKept, SyncInv
<1>4. ChainInv'
  BY <1>2, <1>3 DEF ChainInv
<1>5. /\ Len(Entered(u)) = Len(u.blocks) /\ NewTop(u) = TipHeight(u)
      /\ Within(TipHeight(u) - CurrentlyMining(u))
      /\ \A i \in 0 .. Depth - 1 : WithWork(u)[Slot(TipHeight(u) - i)] = Ancestor(u.conf.tip, i)
  BY <1>2, <1>3, SyncedWork
<1>6. /\ u = chan[1] /\ u.conf \in Conf /\ u.conf.tip \in Tips /\ None \notin Blocks
      /\ Len(Entered(u)) \in Int
  BY <1>2, UpdateParts, UpdateNumbers, PoolClientAssumption
<1>7. PICK k \in 0 .. Depth - 1 :
        /\ k = TipHeight(u) - CurrentlyMining(u) /\ TipHeight(u) - k = CurrentlyMining(u)
        /\ Max2(peak, TopOf(u)) = TipHeight(u)
  <2>1. /\ CurrentlyMining(u) \in TipHeight(u) - Depth + 1 .. TipHeight(u)
        /\ Max2(peak, TopOf(u)) = TipHeight(u)
    BY <1>2, <1>3, <1>5, ReceivedWork
  <2>2. Depth \in Nat /\ TipHeight(u) \in Int
    BY <1>6, AncestorHeight, PoolClientAssumption DEF TipHeight
  <2> QED BY <2>1, <2>2
<1>17. PICK b \in Blocks : b = Ancestor(u.conf.tip, k) /\ b # None /\ JobOf(u) = b
  <2>1. k \in 0 .. Depth /\ JobOf(u) = Ancestor(u.conf.tip, k)
    BY <1>5, <1>7, PoolClientAssumption DEF JobOf
  <2> QED BY <1>6, <2>1, AncestorHeight
<1>8. StartMining(u)
  BY <1>5, <1>6, <1>17 DEF UpdateIsOld, NoWorkYet
<1>9. Synced(u.conf)'
  <2>1. /\ job' = b /\ mining' = CurrentlyMining(u) /\ handlers' = NewHandlers(u)
        /\ peak' = TipHeight(u)
    BY <1>7, <1>8, <1>17 DEF StartMining, TakeUpdate, SetHandlers
  <2>2. {UrlOf(NewHandlers(u)[i]) : i \in DOMAIN NewHandlers(u)}
          = {u.conf.urls[i] : i \in DOMAIN u.conf.urls}
    <3>1. chan # <<>> /\ u = Head(chan)
      BY <1>2
    <3>2. UrlsAre(NewHandlers(u), u.conf.urls)
      BY <3>1, NewHandlersDef
    <3> QED BY <3>2 DEF UrlsAre
  <2>3. /\ peak' = Height[u.conf.tip] /\ job' = Ancestor(u.conf.tip, Height[u.conf.tip] - mining')
        /\ Within(k)' /\ Height[u.conf.tip] - mining' = k
    BY <1>2, <1>5, <1>7, <1>17, <2>1 DEF TipHeight, Within
  <2>4. \A i \in 0 .. Depth - 1 :
          work'[Slot(Height[u.conf.tip] - i)] = Ancestor(u.conf.tip, i)
    BY <1>1, <1>5 DEF TipHeight
  <2> QED BY <2>1, <2>2, <2>3, <2>4 DEF Synced, Within
<1>10. job' # None
  BY <1>8, <1>17 DEF StartMining
<1>11. PICK n \in Nat \ {0} : n = Len(chan)
  BY <1>2
<1>12. /\ DOMAIN chan = 1 .. n /\ DOMAIN chan' = 1 .. n - 1 /\ Len(chan') = n - 1
       /\ \A i \in 1 .. n - 1 : chan'[i] = chan[i + 1]
  BY <1>2, <1>11
<1>13. \A i \in DOMAIN chan' : i > 1 => Linked(chan'[i - 1].conf, chan'[i])
  <2> SUFFICES ASSUME NEW i \in 2 .. n - 1 PROVE Linked(chan'[i - 1].conf, chan'[i])
    BY <1>12
  <2>1. i \in 1 .. n - 1 /\ i - 1 \in 1 .. n - 1 /\ (i - 1) + 1 = i /\ i + 1 \in 1 .. n /\ (i + 1) - 1 = i
        /\ i + 1 > 1
    OBVIOUS
  <2>2. chan'[i] = chan[i + 1] /\ chan'[i - 1] = chan[i]
    BY <1>12, <2>1
  <2>3. Linked(chan[(i + 1) - 1].conf, chan[i + 1])
    BY <1>3, <1>12, <2>1 DEF LinkInv
  <2> QED BY <2>1, <2>2, <2>3
<1>14. chan' # <<>> => mc' = chan'[Len(chan')].conf
  <2> SUFFICES ASSUME chan' # <<>> PROVE mc' = chan'[Len(chan')].conf
    OBVIOUS
  <2>1. n - 1 \in 1 .. n - 1 /\ (n - 1) + 1 = n
    BY <1>2, <1>12
  <2>2. chan'[n - 1] = chan[n]
    BY <1>12, <2>1
  <2> QED BY <1>2, <1>3, <1>11, <1>12, <2>2 DEF LinkInv
<1>15. IF chan' = <<>> THEN mc' = u.conf ELSE Linked(u.conf, chan'[1])
  <2>1. CASE chan' = <<>>
    <3>1. n = 1
      BY <1>12, <2>1
    <3> QED BY <1>2, <1>3, <1>6, <1>11, <2>1, <3>1 DEF LinkInv
  <2>2. CASE chan' # <<>>
    <3>1. 1 \in 1 .. n - 1 /\ 2 \in 1 .. n /\ 1 + 1 = 2 /\ 2 - 1 = 1 /\ 2 > 1
      BY <1>2, <1>12, <2>2
    <3>2. chan'[1] = chan[2]
      BY <1>12, <3>1
    <3>3. Linked(chan[2 - 1].conf, chan[2])
      BY <1>3, <1>12, <3>1 DEF LinkInv
    <3> QED BY <1>6, <2>2, <3>1, <3>2, <3>3
  <2> QED BY <2>1, <2>2
<1>16. cpc' = "discover" => Height[conf'.tip] <= Height[tip']
  BY <1>2, <1>3 DEF LinkInv
<1>18. \E c \in Conf : Synced(c)' /\ IF chan' = <<>> THEN mc' = c ELSE Linked(c, chan'[1])
  BY <1>6, <1>9, <1>15
<1> QED BY <1>4, <1>10, <1>13, <1>14, <1>16, <1>18 DEF LinkInv

\* cfg_loop sends what joins the update before it.
LEMMA DiscoverSync ==
    ASSUME BaseInv, SyncInv, DiscoverBlocks, UNCHANGED annMineVars PROVE SyncInv'
<1>1. /\ cpc = "discover" /\ conf \in Conf /\ Send(NewUpdate)
      /\ mc' = conf /\ cpc' = "poll" /\ UNCHANGED <<tip, olds, down>>
      /\ UNCHANGED <<work, mining, handlers, job, peak>>
  BY DEF BaseInv, UpdateInv, DiscoverBlocks, NewUpdate, annMineVars, workVars, masterVars
<1>2. ~missed' => ~missed /\ chan' = Append(chan, NewUpdate)
  BY <1>1, SendChan
<1> SUFFICES ASSUME ~missed', ~down' PROVE ChainInv' /\ LinkInv'
  BY DEF SyncInv
<1>3. ~missed /\ ~down /\ ChainInv /\ LinkInv /\ chan' = Append(chan, NewUpdate)
  BY <1>1, <1>2 DEF SyncInv
<1>4. ChainInv'
  BY <1>3, DiscoverChainInv
<1>5. IF mc = None THEN Len(NewUpdate.blocks) = Depth ELSE Linked(mc, NewUpdate)
  BY <1>1, <1>3, DiscoverLinked
<1>6. PICK v \in Update : v = NewUpdate /\ v.conf = conf
  BY <1>1, NewUpdateType
<1>7. chan \in Seq(Update) /\ None \notin Conf
  BY PoolClientAssumption DEF BaseInv, TypeOK, PoolTypeOK, Conf
<1>8. PICK n \in Nat : n = Len(chan)
  BY <1>7
<1>9. /\ DOMAIN chan = 1 .. n /\ DOMAIN chan' = 1 .. n + 1 /\ Len(chan') = n + 1
      /\ chan'[n + 1] = v /\ \A i \in 1 .. n : chan'[i] = chan[i]
      /\ chan' # <<>> /\ (chan = <<>> <=> n = 0)
  BY <1>3, <1>6, <1>7, <1>8
<1>10. chan # <<>> => mc = chan[n].conf /\ mc # None
  <2> SUFFICES ASSUME chan # <<>> PROVE mc = chan[n].conf /\ mc # None
    OBVIOUS
  <2>1. mc = chan[n].conf
    BY <1>3, <1>8 DEF LinkInv
  <2>2. n \in DOMAIN chan
    BY <1>9
  <2>3. chan[n] \in Update
    BY <1>7, <2>2
  <2> QED BY <1>7, <2>1, <2>3 DEF Update
<1>11. \A i \in DOMAIN chan' : i > 1 => Linked(chan'[i - 1].conf, chan'[i])
  <2> SUFFICES ASSUME NEW i \in 2 .. n + 1 PROVE Linked(chan'[i - 1].conf, chan'[i])
    BY <1>9
  <2>1. CASE i = n + 1
    <3>1. i - 1 = n /\ n \in 1 .. n
      BY <2>1
    <3>2. chan'[i - 1] = chan[n] /\ chan # <<>> /\ chan'[i] = v
      BY <1>9, <2>1, <3>1
    <3> QED BY <1>5, <1>6, <1>10, <3>2
  <2>2. CASE i # n + 1
    <3>1. i \in 1 .. n /\ i - 1 \in 1 .. n /\ i > 1
      BY <2>2
    <3>2. chan'[i - 1] = chan[i - 1] /\ chan'[i] = chan[i]
      BY <1>9, <3>1
    <3> QED BY <1>3, <1>9, <3>1, <3>2 DEF LinkInv
  <2> QED BY <2>1, <2>2
<1>12. mc' = chan'[Len(chan')].conf
  BY <1>1, <1>6, <1>9
<1>13. chan # <<>> => chan'[1] = chan[1]
  BY <1>9
<1>14. chan = <<>> => chan'[1] = v
  BY <1>9
<1>15. CASE job = None
  <2>1. Len(chan'[1].blocks) = Depth
    <3>1. CASE chan = <<>>
      BY <1>3, <1>5, <1>6, <1>14, <1>15, <3>1 DEF LinkInv
    <3>2. CASE chan # <<>>
      BY <1>3, <1>13, <1>15, <3>2 DEF LinkInv
    <3> QED BY <3>1, <3>2
  <2> QED BY <1>1, <1>4, <1>9, <1>11, <1>12, <1>15, <2>1 DEF LinkInv
<1>16. CASE job # None
  <2>1. PICK c \in Conf : Synced(c) /\ IF chan = <<>> THEN mc = c ELSE Linked(c, chan[1])
    BY <1>3, <1>16 DEF LinkInv
  <2>2. Synced(c)'
    BY <1>1, <2>1 DEF Synced, Within
  <2>3. Linked(c, chan'[1])
    <3>1. CASE chan = <<>>
      BY <1>5, <1>6, <1>7, <1>14, <2>1, <3>1
    <3>2. CASE chan # <<>>
      BY <1>13, <2>1, <3>2
    <3> QED BY <3>1, <3>2
  <2>4. \E x \in Conf : Synced(x)' /\ IF chan' = <<>> THEN mc' = x ELSE Linked(x, chan'[1])
    BY <1>9, <2>2, <2>3
  <2> QED BY <1>1, <1>4, <1>9, <1>11, <1>12, <1>16, <2>4 DEF LinkInv
<1> QED BY <1>15, <1>16

\* The master follows another chain.
LEMMA MasterChangesSync ==
    ASSUME BaseInv, SyncInv, NEW x \in Confs, MasterChanges(x), UNCHANGED annMineVars
    PROVE  SyncInv'
<1>0. PICK t \in Tips : t = x.tip
  BY DEF Tips
<1>1. /\ tip' = t /\ down' = (down \/ Height[t] < Height[tip]) /\ olds \subseteq olds'
      /\ UNCHANGED <<cpc, conf, mc, chain, chan, missed, work, mining, handlers, job, peak>>
  BY <1>0 DEF MasterChanges, clientVars, chanVars, annMineVars, workVars
<1> SUFFICES ASSUME ~missed, ~down' PROVE ChainInv' /\ LinkInv'
  BY <1>1 DEF SyncInv
<1>2. tip \in Tips
  BY DEF BaseInv, TypeOK, PoolTypeOK
<1>3. PICK H \in Nat, H1 \in Nat : H = Height[tip] /\ H1 = Height[t]
  BY <1>2, AncestorHeight
<1>4. ~down /\ H <= H1 /\ ChainInv /\ LinkInv
  <2>1. ~down /\ ~(Height[t] < Height[tip])
    BY <1>1
  <2>2. H <= H1
    BY <1>3, <2>1
  <2> QED BY <2>1, <2>2 DEF SyncInv
<1>5. ChainInv'
  <2>1. CASE mc = None
    BY <1>1, <1>4, <2>1 DEF ChainInv
  <2>2. CASE mc # None
    <3>1. PICK M \in Nat : M = Height[mc.tip]
      BY <2>2, AncestorHeight DEF BaseInv, TypeOK, PoolTypeOK, Conf
    <3>2. M <= H1
      <4>1. M <= H
        BY <1>3, <1>4, <2>2, <3>1 DEF ChainInv
      <4> QED BY <1>4, <4>1
    <3>3. Height[mc'.tip] <= Height[tip']
      BY <1>1, <1>3, <3>1, <3>2
    <3> QED BY <1>1, <1>4, <2>2, <3>3 DEF ChainInv
  <2> QED BY <2>1, <2>2
<1>6. cpc' = "discover" => Height[conf'.tip] <= Height[tip']
  <2> SUFFICES ASSUME cpc = "discover" PROVE Height[conf.tip] <= H1
    BY <1>1, <1>3
  <2>1. PICK C \in Nat : C = Height[conf.tip]
    BY AncestorHeight DEF BaseInv, UpdateInv, Conf
  <2>2. C <= H
    BY <1>3, <1>4, <2>1 DEF LinkInv
  <2> QED BY <1>4, <2>1, <2>2
<1>7. \A c : Synced(c) => Synced(c)'
  BY <1>1 DEF Synced, Within
<1> QED BY <1>1, <1>4, <1>5, <1>6, <1>7 DEF LinkInv

\* cfg_loop fetches it.
LEMMA FetchConfSync ==
    ASSUME BaseInv, SyncInv, FetchConf, UNCHANGED annMineVars PROVE SyncInv'
<1>1. /\ cpc' = "discover" /\ conf' = Published
      /\ UNCHANGED <<tip, olds, down, mc, chain, chan, missed, work, mining, handlers, job, peak>>
  BY DEF FetchConf, masterVars, chanVars, annMineVars, workVars
<1> SUFFICES ASSUME ~missed, ~down PROVE ChainInv' /\ LinkInv'
  BY <1>1 DEF SyncInv
<1>2. ChainInv /\ LinkInv
  BY DEF SyncInv
<1>3. conf'.tip = tip /\ Height[tip] \in Nat
  <2>1. tip \in Tips
    BY DEF BaseInv, TypeOK, PoolTypeOK
  <2> QED BY <1>1, <2>1, AncestorHeight DEF Published
<1>4. ChainInv'
  BY <1>1, <1>2, <1>3 DEF ChainInv
<1>5. Height[conf'.tip] <= Height[tip']
  BY <1>1, <1>3
<1>6. \A c : Synced(c)' <=> Synced(c)
  BY <1>1 DEF Synced, Within
<1> QED BY <1>1, <1>2, <1>4, <1>5, <1>6 DEF LinkInv

\* The steps of others.
SyncVars == <<tip, olds, down, cpc, conf, mc, chain, chan, missed, work, mining, handlers, job,
              peak>>
\* They keep the work and the handlers in step.
LEMMA SyncFrame == ASSUME SyncInv, UNCHANGED SyncVars PROVE SyncInv'
<1>1. UNCHANGED <<tip, olds, down, cpc, conf, mc, chain, chan, missed, work, mining, handlers, job,
              peak>>
  BY DEF SyncVars
<1>2. ChainInv => ChainInv'
  BY <1>1 DEF ChainInv
<1>3. \A c : Synced(c)' <=> Synced(c)
  BY <1>1 DEF Synced, Within
<1>4. LinkInv => LinkInv'
  BY <1>1, <1>3 DEF LinkInv
<1> QED BY <1>1, <1>2, <1>4 DEF SyncInv

\* Nothing is known and nothing is mined.
LEMMA SyncInit == Init => SyncInv
BY DEF Init, PoolInit, SyncInv, ChainInv, LinkInv

\* Every step keeps the work and the handlers in step with the pool.
LEMMA SyncStep == BaseInv /\ HeightsKept /\ SyncInv /\ [Next]_vars => SyncInv'
<1> SUFFICES ASSUME BaseInv, HeightsKept, SyncInv, [Next]_vars PROVE SyncInv'
  OBVIOUS
<1>1. CASE UNCHANGED <<tip, olds, down, cpc, conf, mc, chain, chan, missed, work, mining, handlers, job,
              peak>>
  BY <1>1, SyncFrame DEF SyncVars
<1>9. ASSUME NEW u, NoTarget(u) PROVE SyncInv'
  BY <1>9 DEF NoTarget, SyncInv
<1>2. CASE UpdateStep
  BY <1>1, <1>2, <1>9, ReceivedSync
  DEF UpdateStep, Subscribe, Lag, ShutDown, annMineVars, workVars, poolVars, masterVars, clientVars,
      chanVars
<1>3. CASE ClientStep
  BY <1>3, DiscoverSync, FetchConfSync DEF ClientStep
<1>4. CASE AnnStep
  BY <1>1, <1>4
  DEF AnnStep, ChooseHandler, NoHandler, RefuseOld, Submit, workVars, poolVars, masterVars,
      clientVars, chanVars
<1>5. ASSUME NEW l \in Loops, UploaderStep(l) PROVE SyncInv'
  BY <1>1, <1>5
  DEF UploaderStep, PopBatch, UploadEnds, UploaderExits, workVars, poolVars, masterVars, clientVars,
      chanVars
<1>6. ASSUME NEW a \in Anns, OnAnnFound(a) PROVE SyncInv'
  BY <1>1, <1>6 DEF OnAnnFound, workVars, poolVars, masterVars, clientVars, chanVars
<1>7. ASSUME NEW c \in Confs, MasterChanges(c), UNCHANGED annMineVars PROVE SyncInv'
  BY <1>7, MasterChangesSync
<1>8. CASE UNCHANGED vars
  BY <1>1, <1>8 DEF vars, workVars, poolVars, masterVars, clientVars, chanVars
<1> QED BY <1>2, <1>3, <1>4, <1>5, <1>6, <1>7, <1>8 DEF Next

\* Once nothing is on its way, the miner works on a block of the chain of the pool's
\* tip, no less and no more below it than the pool has ever said (on the one
\* mine_old_anns below it if the pool never changed that number), and the handlers
\* are those of the pool's URLs, whatever forks the pool went through, unless an
\* update was missed or had no ann_target, or the tip moved down.
THEOREM FollowsThePool == Spec => []InSync
<1>1. BaseInv /\ SyncInv => InSync
  <2> SUFFICES ASSUME BaseInv, SyncInv, Quiet, ~missed, ~down
               PROVE  /\ OnTip
                      /\ {UrlOf(handlers[i]) : i \in DOMAIN handlers} = {urls[i] : i \in DOMAIN urls}
    BY DEF InSync
  <2>1. /\ mc = Published /\ chan = <<>> /\ mc \in Conf \cup {None} /\ LinkInv
        /\ tip \in Tips /\ urls \in UrlLists /\ old \in Olds
    BY DEF Quiet, SyncInv, BaseInv, TypeOK, PoolTypeOK
  <2>2. mc # None /\ mc.tip = tip /\ mc.urls = urls
    BY <2>1, PoolClientAssumption DEF Published, Conf
  <2>3. Synced(mc)
    BY <2>1, <2>2 DEF LinkInv
  <2>4. PICK k : k = Height[tip] - mining
    OBVIOUS
  <2>7. Within(k) /\ job = Ancestor(tip, k)
    BY <2>2, <2>3, <2>4 DEF Synced
  <2>8. PICK lo \in olds, hi \in olds : lo <= k /\ k <= hi
    BY <2>7 DEF Within
  <2>5. k \in 0 .. Depth - 1
    <3>1. lo \in 0 .. Depth - 1 /\ hi \in 0 .. Depth - 1
      BY AnnMineAssumption DEF BaseInv, TypeOK, PoolTypeOK
    <3>2. k \in Int /\ Depth \in Nat
      BY <2>1, <2>4, AncestorHeight, PoolClientAssumption DEF BaseInv, TypeOK
    <3> QED BY <2>8, <3>1, <3>2
  <2>6. OnTip
    BY <2>5, <2>7, <2>8 DEF OnTip
  <2> QED BY <2>2, <2>3, <2>6 DEF Synced
<1>2. BaseInv /\ HeightsKept /\ SyncInv /\ [Next]_vars => BaseInv' /\ HeightsKept' /\ SyncInv'
  BY BaseStep, HeightsStep, SyncStep
<1> QED BY <1>1, <1>2, BaseInit, HeightsInit, SyncInit, PTL DEF Spec

=============================================================================
