--------------------------- MODULE AnnStoreProofs ---------------------------
(***************************************************************************)
(* AnnStore's invariants hold for every number of threads, trees, buffers  *)
(* and classes.  IInv is shown inductive, one lemma per action, one step   *)
(* per conjunct the action can disturb; the Frame lemmas carry the         *)
(* conjuncts it cannot.                                                    *)
(***************************************************************************)
EXTENDS AnnStore, TLAPS

\* ThreadInv depends on these variables only.
LEMMA ThreadInvFrame ==
  ASSUME ThreadInv, UNCHANGED <<live, topbuf, pc, hw, n, held, spare>>
  PROVE  ThreadInv'
BY DEF ThreadInv, InClass, Claiming

\* TreeInv depends on these variables only.
LEMMA TreeInvFrame ==
  ASSUME TreeInv, UNCHANGED <<live, bufs, topbuf, cpc, best, scan, taken>>
  PROVE  TreeInv'
BY DEF TreeInv, FirstKey

\* ClassesApart depends on these variables only.
LEMMA ClassesApartFrame ==
  ASSUME ClassesApart, UNCHANGED <<bufs, topbuf>>
  PROVE  ClassesApart'
BY DEF ClassesApart

\* ThreadsApart depends on these variables only.
LEMMA ThreadsApartFrame ==
  ASSUME ThreadsApart, UNCHANGED <<held, spare>>
  PROVE  ThreadsApart'
BY DEF ThreadsApart

\* ThreadsApartFromClasses depends on these variables only.
LEMMA ThreadsApartFromClassesFrame ==
  ASSUME ThreadsApartFromClasses, UNCHANGED <<bufs, topbuf, held, spare>>
  PROVE  ThreadsApartFromClasses'
BY DEF ThreadsApartFromClasses

\* TakenApart depends on these variables only.
LEMMA TakenApartFrame ==
  ASSUME TakenApart, UNCHANGED <<bufs, topbuf, held, spare, taken>>
  PROVE  TakenApart'
BY DEF TakenApart

\* NoBufLost depends on these variables only.
LEMMA NoBufLostFrame ==
  ASSUME NoBufLost, UNCHANGED <<bufs, topbuf, held, spare, taken>>
  PROVE  NoBufLost'
BY DEF NoBufLost

\* HeldInv depends on these variables only.
LEMMA HeldInvFrame ==
  ASSUME HeldInv, UNCHANGED <<next, locked, data, pc, hw, held, spare>>
  PROVE  HeldInv'
BY DEF HeldInv

\* ClaimInv depends on these variables only.
LEMMA ClaimInvFrame ==
  ASSUME ClaimInv, UNCHANGED <<topbuf, next, pc, hw, n, from>>
  PROVE  ClaimInv'
BY DEF ClaimInv, Claiming

\* TopInv depends on these variables only.
LEMMA TopInvFrame ==
  ASSUME TopInv, UNCHANGED <<topbuf, next, locked, data, pc, hw, n, from>>
  PROVE  TopInv'
BY DEF TopInv, Claiming

\* ClaimsDisjoint depends on these variables only.
LEMMA ClaimsDisjointFrame ==
  ASSUME ClaimsDisjoint, UNCHANGED <<pc, hw, n, from>>
  PROVE  ClaimsDisjoint'
BY DEF ClaimsDisjoint, Claiming

\* SealedBufsPure depends on these variables only.
LEMMA SealedBufsPureFrame ==
  ASSUME SealedBufsPure, UNCHANGED <<bufs, next, locked, data, taken>>
  PROVE  SealedBufsPure'
BY DEF SealedBufsPure, Sealed

\* A step that neither begins nor ends a claim and leaves the topbufs alone keeps
\* what is said of claims.
LEMMA ClaimFrame ==
  ASSUME ClaimInv, TopInv, ClaimsDisjoint,
         UNCHANGED <<topbuf, next, locked, data>>,
         \A u \in Threads :
            /\ pc'[u] = "store" <=> pc[u] = "store"
            /\ pc'[u] = "write" <=> pc[u] = "write"
            /\ Claiming(u) => /\ hw'[u] = hw[u]
                              /\ n'[u] = n[u]
                              /\ from'[u] = from[u]
  PROVE  ClaimInv' /\ TopInv' /\ ClaimsDisjoint'
<1>1. \A u \in Threads : Claiming(u)' <=> Claiming(u)
  BY DEF Claiming
<1>2. ClaimInv'
  BY <1>1 DEF ClaimInv, Claiming
<1>3. TopInv'
  BY <1>1 DEF TopInv, Claiming
<1>4. ClaimsDisjoint'
  BY <1>1 DEF ClaimsDisjoint, Claiming
<1>. QED
  BY <1>2, <1>3, <1>4

\* What AnnBuf::push_anns consumes fits in the buffer, and is everything unless
\* the buffer is full afterwards.
LEMMA FitsBound ==
  ASSUME NEW start \in Nat, NEW len \in Nat
  PROVE  /\ Fits(start, len) \in Nat
         /\ Fits(start, len) <= len
         /\ start <= SZ => start + Fits(start, len) <= SZ
         /\ start <= SZ /\ Fits(start, len) # len => start + Fits(start, len) = SZ
BY ConstantsAssumption DEF Fits

\* The BTreeMap has one first key.
LEMMA FirstKeyUnique ==
  ASSUME NEW S \in SUBSET HW, NEW g \in FirstKey(S), NEW h \in FirstKey(S)
  PROVE  g = h
<1>1. /\ g \in [block_height : Nat, work : Nat]
      /\ h \in [block_height : Nat, work : Nat]
      /\ g \in S /\ h \in S
  BY ConstantsAssumption DEF FirstKey
<1>2. g.block_height = h.block_height /\ g.work = h.work
  BY <1>1 DEF FirstKey
<1>. QED
  BY <1>1, <1>2


\* BeginPush keeps the invariant.
LEMMA BeginPushStep ==
  ASSUME IInv, NEW t \in Threads, BeginPush(t)
  PROVE  IInv'
<1>1. TypeOK'
  <2>1. MaxBatch \in Nat /\ PushHW \subseteq HW
    BY ConstantsAssumption DEF PushHW
  <2>2. hw' \in [Threads -> HW] /\ n' \in [Threads -> 0 .. MaxBatch]
    BY <2>1 DEF IInv, TypeOK, BeginPush
  <2>3. pc' \in [Threads -> PushPC]
    BY DEF IInv, TypeOK, BeginPush, PushPC
  <2>. QED
    BY <2>2, <2>3 DEF IInv, TypeOK, BeginPush, stealVars, storeVars,
         classVars, bufVars, treeVars
<1>2. ThreadInv'
  BY DEF IInv, TypeOK, ThreadInv, InClass, Claiming, PushHW, BeginPush,
       stealVars, storeVars, classVars, bufVars, treeVars
<1>3. HeldInv'
  BY DEF IInv, TypeOK, HeldInv, ThreadInv, Slots, BeginPush, stealVars,
       storeVars, classVars, bufVars, treeVars
<1>4. ClaimInv' /\ TopInv' /\ ClaimsDisjoint'
  BY ClaimFrame DEF IInv, TypeOK, Claiming, ThreadInv, PushPC, BeginPush,
       stealVars, storeVars, classVars, bufVars, treeVars
<1>5. TreeInv' /\ ClassesApart' /\ ThreadsApart' /\
      ThreadsApartFromClasses' /\ TakenApart' /\ NoBufLost' /\
      SealedBufsPure'
  BY TreeInvFrame, ClassesApartFrame, ThreadsApartFrame,
       ThreadsApartFromClassesFrame, TakenApartFrame, NoBufLostFrame,
       SealedBufsPureFrame DEF IInv, BeginPush, stealVars, storeVars,
       classVars, bufVars, treeVars
<1>. QED
  BY <1>1, <1>2, <1>3, <1>4, <1>5 DEF IInv

\* TakeSpare keeps the invariant.
LEMMA TakeSpareStep ==
  ASSUME IInv, NEW t \in Threads, TakeSpare(t)
  PROVE  IInv'
<1>1. TypeOK'
  BY DEF IInv, TypeOK, PushPC, TreePC, Slots, TakeSpare, stealVars,
       storeVars, classVars, bufVars, treeVars
<1>2. ThreadInv'
  BY DEF IInv, TypeOK, ThreadInv, InClass, Claiming, PushHW, TakeSpare,
       stealVars, storeVars, classVars, bufVars, treeVars
<1>3. ThreadsApart'
  BY DEF IInv, TypeOK, ThreadsApart, ThreadInv, TakeSpare, stealVars,
       storeVars, classVars, bufVars, treeVars
<1>4. ThreadsApartFromClasses'
  BY DEF IInv, TypeOK, ThreadsApartFromClasses, ThreadInv, TakeSpare,
       stealVars, storeVars, classVars, bufVars, treeVars
<1>5. TakenApart'
  <2>1. \A u \in Threads : \A c \in Bufs : c = held'[u] \/ c = spare'[u] => c = held[u] \/ c = spare[u]
    BY ConstantsAssumption DEF IInv, TypeOK, TakeSpare
  <2>2. taken \in [Trees -> [HW -> SUBSET Bufs]] /\ UNCHANGED <<bufs, topbuf, taken>>
    BY DEF IInv, TypeOK, TakeSpare, classVars, treeVars
  <2>. QED
    BY <2>1, <2>2 DEF IInv, TakenApart
<1>6. NoBufLost'
  BY DEF IInv, TypeOK, NoBufLost, ThreadInv, TakeSpare, stealVars,
       storeVars, classVars, bufVars, treeVars
<1>7. HeldInv'
  BY DEF IInv, TypeOK, HeldInv, ThreadInv, Slots, TakeSpare, stealVars,
       storeVars, classVars, bufVars, treeVars
<1>8. ClaimInv' /\ TopInv' /\ ClaimsDisjoint'
  BY ClaimFrame DEF IInv, TypeOK, Claiming, ThreadInv, PushPC, TakeSpare,
       stealVars, storeVars, classVars, bufVars, treeVars
<1>9. TreeInv' /\ ClassesApart' /\ SealedBufsPure'
  BY TreeInvFrame, ClassesApartFrame, SealedBufsPureFrame DEF IInv,
       TakeSpare, stealVars, storeVars, classVars, bufVars, treeVars
<1>. QED
  BY <1>1, <1>2, <1>3, <1>4, <1>5, <1>6, <1>7, <1>8, <1>9 DEF IInv

\* StealStart keeps the invariant.
LEMMA StealStartStep ==
  ASSUME IInv, NEW t \in Threads, StealStart(t)
  PROVE  IInv'
<1>1. TypeOK'
  BY DEF IInv, TypeOK, PushPC, TreePC, Slots, StealStart, Stealable,
       storeVars, classVars, bufVars, treeVars
<1>2. ThreadInv'
  BY DEF IInv, TypeOK, ThreadInv, InClass, Claiming, PushHW, StealStart,
       Stealable, storeVars, classVars, bufVars, treeVars
<1>3. HeldInv'
  BY DEF IInv, TypeOK, HeldInv, ThreadInv, Slots, StealStart, Stealable,
       storeVars, classVars, bufVars, treeVars
<1>4. ClaimInv' /\ TopInv' /\ ClaimsDisjoint'
  BY ClaimFrame DEF IInv, TypeOK, Claiming, ThreadInv, PushPC, StealStart,
       Stealable, storeVars, classVars, bufVars, treeVars
<1>5. TreeInv' /\ ClassesApart' /\ ThreadsApart' /\
      ThreadsApartFromClasses' /\ TakenApart' /\ NoBufLost' /\
      SealedBufsPure'
  BY TreeInvFrame, ClassesApartFrame, ThreadsApartFrame,
       ThreadsApartFromClassesFrame, TakenApartFrame, NoBufLostFrame,
       SealedBufsPureFrame DEF IInv, StealStart, storeVars, classVars,
       bufVars, treeVars
<1>. QED
  BY <1>1, <1>2, <1>3, <1>4, <1>5 DEF IInv

\* Steal keeps the invariant.
LEMMA StealStep ==
  ASSUME IInv, NEW t \in Threads, Steal(t)
  PROVE  IInv'
<1>1. PICK h \in HW, b \in Bufs :
          /\ NoClassReader(h)
          /\ \/ /\ b \in bufs[h]
                /\ bufs' = [bufs EXCEPT ![h] = @ \ {b}]
                /\ topbuf' = topbuf
             \/ /\ b = topbuf[h]
                /\ topbuf' = [topbuf EXCEPT ![h] = None]
                /\ bufs' = bufs
          /\ next' = [next EXCEPT ![b] = 0]
          /\ locked' = [locked EXCEPT ![b] = FALSE]
          /\ held' = [held EXCEPT ![t] = b]
  <2>1. PICK h \in NextVictim(t) : \E b \in StealableBufs(h) :
          /\ NoClassReader(h)
          /\ IF b \in bufs[h]
             THEN /\ bufs' = [bufs EXCEPT ![h] = @ \ {b}]
                  /\ UNCHANGED topbuf
             ELSE /\ topbuf' = [topbuf EXCEPT ![h] = None]
                  /\ UNCHANGED bufs
          /\ next' = [next EXCEPT ![b] = 0]
          /\ locked' = [locked EXCEPT ![b] = FALSE]
          /\ held' = [held EXCEPT ![t] = b]
    BY DEF Steal
  <2>2. h \in HW
    BY ConstantsAssumption DEF NextVictim, LeastValuable, IInv, TypeOK
  <2>3. \A b \in StealableBufs(h) :
            /\ b \in Bufs
            /\ b \in bufs[h] \/ b = topbuf[h]
    BY <2>2 DEF StealableBufs, IInv, TypeOK
  <2>. QED
    BY <2>1, <2>2, <2>3
<1>2. /\ pc[t] = "steal"
      /\ pc' = [pc EXCEPT ![t] = "find"]
      /\ todo' = [todo EXCEPT ![t] = {}]
      /\ cand' = [cand EXCEPT ![t] = None]
      /\ UNCHANGED <<hw, n, spare, from, mining, data, live, tip, cpc, best,
                     scan, taken, index, solo>>
  BY DEF Steal, storeVars, treeVars
<1>3. b # None /\ spare[t] = None /\ held[t] = None
  BY <1>2, ConstantsAssumption DEF IInv, ThreadInv
<1>t. /\ bufs \in [HW -> SUBSET Bufs]
      /\ topbuf \in [HW -> Bufs \cup {None}]
      /\ next \in [Bufs -> Nat]
      /\ locked \in [Bufs -> BOOLEAN]
      /\ held \in [Threads -> Bufs \cup {None}]
      /\ pc \in [Threads -> PushPC]
      /\ hw \in [Threads -> HW]
      /\ taken \in [Trees -> [HW -> SUBSET Bufs]]
  BY DEF IInv, TypeOK
<1>4. \A g \in HW : /\ bufs'[g] \subseteq bufs[g]
                    /\ topbuf'[g] # None => topbuf'[g] = topbuf[g]
                    /\ b \notin bufs'[g]
                    /\ b # topbuf'[g]
                    /\ g # h => bufs'[g] = bufs[g] /\ topbuf'[g] = topbuf[g]
  BY <1>1, <1>3, <1>t DEF IInv, ClassesApart
<1>5. \A g \in HW : \A c \in Bufs : c # b =>
          /\ c \in bufs'[g] <=> c \in bufs[g]
          /\ c = topbuf'[g] <=> c = topbuf[g]
  BY <1>1, <1>3, <1>t, ConstantsAssumption DEF IInv, ClassesApart
<1>6. \A c \in Bufs : c # b => next'[c] = next[c] /\ locked'[c] = locked[c]
  BY <1>1, <1>t
<1>7. TypeOK'
  <2>1. /\ bufs' \in [HW -> SUBSET Bufs]
        /\ topbuf' \in [HW -> Bufs \cup {None}]
    BY <1>1, <1>t
  <2>2. /\ next' \in [Bufs -> Nat]
        /\ locked' \in [Bufs -> BOOLEAN]
        /\ held' \in [Threads -> Bufs \cup {None}]
    BY <1>1, <1>t
  <2>3. /\ pc' \in [Threads -> PushPC]
        /\ todo' \in [Threads -> SUBSET HW]
        /\ cand' \in [Threads -> HW \cup {None}]
    BY <1>2 DEF IInv, TypeOK, PushPC
  <2>. QED
    BY <2>1, <2>2, <2>3, <1>2 DEF IInv, TypeOK
<1>8. ThreadInv'
  <2>1. \A u \in Threads : Claiming(u) => topbuf'[hw[u]] # None
    BY <1>1, <1>3, <1>t DEF NoClassReader, IInv, ThreadInv
  <2>. QED
    BY <2>1, <1>1, <1>2, <1>3, <1>t DEF IInv, ThreadInv, InClass, Claiming
<1>9. TreeInv'
  BY <1>2, <1>4, <1>t DEF IInv, TreeInv, FirstKey
<1>10. ClassesApart'
  <2>1. \A g \in HW : None \notin bufs'[g]
    BY <1>4, <1>t, ConstantsAssumption
  <2>. QED
    BY <2>1, <1>4 DEF IInv, ClassesApart
<1>11. ThreadsApart'
  <2>1. \A u \in Threads : b # spare[u] /\ b # held[u]
    BY <1>1, <1>3 DEF IInv, ThreadsApartFromClasses
  <2>. QED
    BY <2>1, <1>1, <1>2, <1>3, <1>t DEF IInv, ThreadsApart
<1>12. ThreadsApartFromClasses'
  BY <1>1, <1>2, <1>3, <1>4, <1>t DEF IInv, ThreadsApartFromClasses
<1>13. TakenApart'
  <2>1. \A k \in Trees, g \in HW : b \notin taken[k][g]
    BY <1>1 DEF IInv, TakenApart
  <2>2. \A k \in Trees, g \in HW : \A c \in taken[k][g] : c \in Bufs
    BY <1>t
  <2>. QED
    BY <2>1, <2>2, <1>1, <1>2, <1>5, <1>t DEF IInv, TakenApart
<1>14. NoBufLost'
  <2>1. ASSUME NEW c \in Bufs, c # b
        PROVE  \/ \E g \in HW : c \in bufs'[g] \/ c = topbuf'[g]
               \/ \E u \in Threads : c = spare'[u] \/ c = held'[u]
               \/ \E k \in Trees, g \in HW : c \in taken'[k][g]
    <3>1. CASE \E g \in HW : c \in bufs[g] \/ c = topbuf[g]
      BY <2>1, <3>1, <1>5
    <3>2. CASE \E u \in Threads : c = spare[u] \/ c = held[u]
      BY <2>1, <3>2, <1>1, <1>2, <1>3, <1>t, ConstantsAssumption
    <3>3. CASE \E k \in Trees, g \in HW : c \in taken[k][g]
      BY <3>3, <1>2
    <3>. QED
      BY <3>1, <3>2, <3>3 DEF IInv, NoBufLost
  <2>2. b = held'[t]
    BY <1>1, <1>t
  <2>. QED
    BY <2>1, <2>2 DEF NoBufLost
<1>15. HeldInv'
  <2>1. \A u \in Threads : b # spare[u] /\ b # held[u]
    BY <1>1, <1>3 DEF IInv, ThreadsApartFromClasses
  <2>2. spare \in [Threads -> Bufs \cup {None}]
    BY DEF IInv, TypeOK
  <2>. QED
    BY <2>1, <2>2, <1>1, <1>2, <1>6, <1>t DEF IInv, HeldInv
<1>16. \A u \in Threads : Claiming(u) => topbuf'[hw[u]] = topbuf[hw[u]] /\ topbuf[hw[u]] # b
  BY <1>1, <1>3, <1>4, <1>5, <1>t DEF NoClassReader, IInv, ThreadInv,
       ClassesApart
<1>17. ClaimInv'
  <2>1. \A u \in Threads : Claiming(u)' <=> Claiming(u)
    BY <1>2, <1>t DEF Claiming
  <2>2. \A u \in Threads : Claiming(u) => next'[topbuf'[hw[u]]] = next[topbuf[hw[u]]]
    BY <1>16, <1>6, <1>t DEF IInv, ThreadInv
  <2>. QED
    BY <2>1, <2>2, <1>2, <1>t DEF IInv, ClaimInv, Claiming
<1>18. TopInv'
  <2>1. ASSUME NEW g \in HW, topbuf'[g] # None
        PROVE  /\ topbuf'[g] = topbuf[g]
               /\ next'[topbuf'[g]] = next[topbuf[g]]
               /\ locked'[topbuf'[g]] = locked[topbuf[g]]
    BY <2>1, <1>4, <1>6, <1>t
  <2>2. \A u \in Threads : /\ Claiming(u)' <=> Claiming(u)
                           /\ pc'[u] = "store" <=> pc[u] = "store"
    BY <1>2, <1>t DEF Claiming
  <2>. QED
    BY <2>1, <2>2, <1>2 DEF IInv, TopInv
<1>19. ClaimsDisjoint'
  BY <1>2, <1>t DEF IInv, ClaimsDisjoint, Claiming
<1>20. SealedBufsPure'
  <2>1. \A k \in Trees, g \in HW : b \notin taken[k][g]
    BY <1>1 DEF IInv, TakenApart
  <2>. QED
    BY <2>1, <1>2, <1>4, <1>6, <1>t DEF IInv, SealedBufsPure, Sealed, PushHW
<1>. QED
  BY <1>7, <1>8, <1>9, <1>10, <1>11, <1>12, <1>13, <1>14, <1>15, <1>17, <1>18,
     <1>19, <1>20 DEF IInv

\* StealNothing keeps the invariant.
LEMMA StealNothingStep ==
  ASSUME IInv, NEW t \in Threads, StealNothing(t)
  PROVE  IInv'
<1>1. TypeOK'
  BY DEF IInv, TypeOK, PushPC, TreePC, Slots, StealNothing, NextVictim,
       LeastValuable, storeVars, classVars, bufVars, treeVars
<1>2. ThreadInv' /\ TreeInv' /\ ClassesApart' /\ ThreadsApart' /\
      ThreadsApartFromClasses' /\ TakenApart' /\ NoBufLost' /\ HeldInv' /\
      ClaimInv' /\ TopInv' /\ ClaimsDisjoint' /\ SealedBufsPure'
  BY ThreadInvFrame, TreeInvFrame, ClassesApartFrame, ThreadsApartFrame,
       ThreadsApartFromClassesFrame, TakenApartFrame, NoBufLostFrame,
       HeldInvFrame, ClaimInvFrame, TopInvFrame, ClaimsDisjointFrame,
       SealedBufsPureFrame DEF IInv, StealNothing, storeVars, classVars,
       bufVars, treeVars
<1>. QED
  BY <1>1, <1>2 DEF IInv

\* StealFailed keeps the invariant.
LEMMA StealFailedStep ==
  ASSUME IInv, NEW t \in Threads, StealFailed(t)
  PROVE  IInv'
<1>1. TypeOK'
  <2>1. n' \in [Threads -> 0 .. MaxBatch]
    BY ConstantsAssumption DEF IInv, TypeOK, StealFailed
  <2>2. pc' \in [Threads -> PushPC]
    BY DEF IInv, TypeOK, StealFailed, PushPC
  <2>. QED
    BY <2>1, <2>2 DEF IInv, TypeOK, StealFailed, stealVars, storeVars,
         classVars, bufVars, treeVars
<1>2. ThreadInv'
  BY DEF IInv, TypeOK, ThreadInv, InClass, Claiming, PushHW, StealFailed,
       stealVars, storeVars, classVars, bufVars, treeVars
<1>3. HeldInv'
  BY DEF IInv, TypeOK, HeldInv, ThreadInv, Slots, StealFailed, stealVars,
       storeVars, classVars, bufVars, treeVars
<1>4. ClaimInv' /\ TopInv' /\ ClaimsDisjoint'
  BY ClaimFrame DEF IInv, TypeOK, Claiming, ThreadInv, PushPC,
       StealFailed, stealVars, storeVars, classVars, bufVars, treeVars
<1>5. TreeInv' /\ ClassesApart' /\ ThreadsApart' /\
      ThreadsApartFromClasses' /\ TakenApart' /\ NoBufLost' /\
      SealedBufsPure'
  BY TreeInvFrame, ClassesApartFrame, ThreadsApartFrame,
       ThreadsApartFromClassesFrame, TakenApartFrame, NoBufLostFrame,
       SealedBufsPureFrame DEF IInv, StealFailed, stealVars, storeVars,
       classVars, bufVars, treeVars
<1>. QED
  BY <1>1, <1>2, <1>3, <1>4, <1>5 DEF IInv

\* FindClass keeps the invariant.
LEMMA FindClassStep ==
  ASSUME IInv, NEW t \in Threads, FindClass(t)
  PROVE  IInv'
<1>1. TypeOK'
  BY DEF IInv, TypeOK, PushPC, TreePC, Slots, FindClass, stealVars,
       storeVars, classVars, bufVars, treeVars
<1>2. ThreadInv'
  BY DEF IInv, TypeOK, ThreadInv, InClass, Claiming, PushHW, FindClass,
       stealVars, storeVars, classVars, bufVars, treeVars
<1>3. HeldInv'
  BY DEF IInv, TypeOK, HeldInv, ThreadInv, Slots, FindClass, stealVars,
       storeVars, classVars, bufVars, treeVars
<1>4. ClaimInv' /\ TopInv' /\ ClaimsDisjoint'
  BY ClaimFrame DEF IInv, TypeOK, Claiming, ThreadInv, PushPC, FindClass,
       stealVars, storeVars, classVars, bufVars, treeVars
<1>5. TreeInv' /\ ClassesApart' /\ ThreadsApart' /\
      ThreadsApartFromClasses' /\ TakenApart' /\ NoBufLost' /\
      SealedBufsPure'
  BY TreeInvFrame, ClassesApartFrame, ThreadsApartFrame,
       ThreadsApartFromClassesFrame, TakenApartFrame, NoBufLostFrame,
       SealedBufsPureFrame DEF IInv, FindClass, stealVars, storeVars,
       classVars, bufVars, treeVars
<1>. QED
  BY <1>1, <1>2, <1>3, <1>4, <1>5 DEF IInv

\* CreateClass keeps the invariant.
LEMMA CreateClassStep ==
  ASSUME IInv, NEW t \in Threads, CreateClass(t)
  PROVE  IInv'
<1>1. TypeOK'
  BY DEF IInv, TypeOK, PushPC, TreePC, Slots, CreateClass, IsDead,
       stealVars, bufVars, treeVars
<1>2. ThreadInv'
  <2>1. \A u \in Threads : ~InClass(u) /\ ~InClass(u)' /\ ~Claiming(u)'
    BY DEF IInv, TypeOK, CreateClass, NoStoreReader, InClass, Claiming
  <2>2. UNCHANGED <<hw, n, held, spare>>
    BY DEF CreateClass
  <2>3. /\ pc[t] = "create" /\ pc'[t] = "find"
        /\ \A u \in Threads : u # t => pc'[u] = pc[u]
    BY DEF IInv, TypeOK, CreateClass
  <2>. QED
    BY <2>1, <2>2, <2>3 DEF IInv, ThreadInv
<1>3. TreeInv'
  <2>1. \A h \in HW : h \notin live' => bufs[h] = {} /\ topbuf[h] = None
    BY DEF IInv, TypeOK, TreeInv, CreateClass, IsDead
  <2>2. \A k \in Trees : cpc[k] = "idle"
    BY DEF CreateClass, NoStoreReader
  <2>3. UNCHANGED <<bufs, topbuf, cpc, best, scan, taken>>
    BY DEF CreateClass, treeVars
  <2>. QED
    BY <2>1, <2>2, <2>3 DEF IInv, TreeInv
<1>4. HeldInv'
  BY DEF IInv, TypeOK, HeldInv, ThreadInv, Slots, CreateClass, IsDead,
       stealVars, bufVars, treeVars
<1>5. ClaimInv' /\ TopInv' /\ ClaimsDisjoint'
  BY ClaimFrame DEF IInv, TypeOK, Claiming, ThreadInv, PushPC,
       CreateClass, IsDead, stealVars, bufVars, treeVars
<1>6. ClassesApart' /\ ThreadsApart' /\ ThreadsApartFromClasses' /\
      TakenApart' /\ NoBufLost' /\ SealedBufsPure'
  BY ClassesApartFrame, ThreadsApartFrame, ThreadsApartFromClassesFrame,
       TakenApartFrame, NoBufLostFrame, SealedBufsPureFrame DEF IInv,
       CreateClass, stealVars, bufVars, treeVars
<1>. QED
  BY <1>1, <1>2, <1>3, <1>4, <1>5, <1>6 DEF IInv

\* Claim keeps the invariant.
LEMMA ClaimStep ==
  ASSUME IInv, NEW t \in Threads, Claim(t)
  PROVE  IInv'
<1> DEFINE h == hw[t]
           b == topbuf[h]
<1>1. /\ pc[t] = "read" /\ b # None
      /\ from' = [from EXCEPT ![t] = next[b]]
      /\ next' = [next EXCEPT ![b] = @ + n[t]]
      /\ pc' = [pc EXCEPT ![t] = IF next[b] + n[t] > SZ THEN "store" ELSE "write"]
      /\ UNCHANGED <<hw, n, held, spare, todo, cand, locked, data, live, tip,
                     bufs, topbuf, mining, cpc, best, scan, taken, index, solo>>
  BY DEF Claim, stealVars, storeVars, classVars, treeVars
<1>t. /\ topbuf \in [HW -> Bufs \cup {None}]
      /\ next \in [Bufs -> Nat]
      /\ held \in [Threads -> Bufs \cup {None}]
      /\ spare \in [Threads -> Bufs \cup {None}]
      /\ pc \in [Threads -> PushPC]
      /\ hw \in [Threads -> HW]
      /\ n \in [Threads -> 0 .. MaxBatch]
      /\ from \in [Threads -> Nat]
      /\ SZ \in Nat \ {0} /\ MaxBatch \in Nat
  BY ConstantsAssumption DEF IInv, TypeOK
<1>2. /\ h \in PushHW /\ h \in HW /\ b \in Bufs
      /\ n[t] \in Nat /\ n[t] > 0
      /\ next[b] \in Nat
  BY <1>1, <1>t DEF IInv, ThreadInv
<1>3. \A c \in Bufs : c # b => next'[c] = next[c]
  BY <1>1, <1>2, <1>t
<1>4. next'[b] = next[b] + n[t]
  BY <1>1, <1>2, <1>t
<1>5. \A u \in Threads : u # t => /\ pc'[u] = pc[u]
                                  /\ from'[u] = from[u]
                                  /\ Claiming(u)' <=> Claiming(u)
  BY <1>1, <1>t DEF Claiming
<1>6. /\ from'[t] = next[b]
      /\ Claiming(t)' /\ ~Claiming(t)
      /\ pc'[t] = "store" <=> next[b] + n[t] > SZ
      /\ pc'[t] \in {"store", "write"}
  BY <1>1, <1>2, <1>t DEF Claiming
<1>7. TypeOK'
  <2>1. next' \in [Bufs -> Nat] /\ from' \in [Threads -> Nat]
    BY <1>1, <1>2, <1>t
  <2>2. pc' \in [Threads -> PushPC]
    BY <1>1, <1>t DEF PushPC
  <2>. QED
    BY <2>1, <2>2, <1>1 DEF IInv, TypeOK
<1>8. ThreadInv'
  BY <1>1, <1>2, <1>5, <1>6, <1>t DEF IInv, ThreadInv, InClass, Claiming
<1>9. TreeInv' /\ ClassesApart' /\ ThreadsApart' /\ ThreadsApartFromClasses'
      /\ TakenApart' /\ NoBufLost'
  BY <1>1, TreeInvFrame, ClassesApartFrame, ThreadsApartFrame,
     ThreadsApartFromClassesFrame, TakenApartFrame, NoBufLostFrame DEF IInv
<1>10. HeldInv'
  <2>1. \A u \in Threads : b # spare[u] /\ b # held[u]
    BY <1>1, <1>2 DEF IInv, ThreadsApartFromClasses
  <2>2. \A u \in Threads : pc'[u] = "seal" <=> pc[u] = "seal"
    BY <1>1, <1>5, <1>6
  <2>. QED
    BY <2>1, <2>2, <1>1, <1>3, <1>t DEF IInv, HeldInv
<1>11. \A u \in Threads : (u # t /\ Claiming(u)) =>
          \/ hw[u] = h
          \/ next'[topbuf[hw[u]]] = next[topbuf[hw[u]]]
  BY <1>2, <1>3, <1>t DEF IInv, ThreadInv, ClassesApart
<1>12. ClaimInv'
  <2>1. ASSUME NEW u \in Threads, u # t, Claiming(u)
        PROVE  /\ pc'[u] = "write" => from'[u] < SZ
               /\ pc'[u] = "store" => SZ <= next'[topbuf'[hw'[u]]]
               /\ \/ from'[u] + n'[u] <= next'[topbuf'[hw'[u]]]
                  \/ SZ <= next'[topbuf'[hw'[u]]]
    <3>1. next[topbuf[hw[u]]] \in Nat /\ from[u] \in Nat /\ n[u] \in Nat
      BY <2>1, <1>t DEF IInv, ThreadInv
    <3>2. next'[topbuf[hw[u]]] >= next[topbuf[hw[u]]] /\ next'[topbuf[hw[u]]] \in Nat
      BY <2>1, <3>1, <1>2, <1>4, <1>11
    <3>. QED
      BY <2>1, <3>1, <3>2, <1>1, <1>5, <1>t DEF IInv, ClaimInv
  <2>2. /\ pc'[t] = "write" => from'[t] < SZ
        /\ pc'[t] = "store" => SZ <= next'[topbuf'[hw'[t]]]
        /\ from'[t] + n'[t] <= next'[topbuf'[hw'[t]]]
    BY <1>1, <1>2, <1>4, <1>6, <1>t
  <2>. QED
    BY <2>1, <2>2, <1>5 DEF ClaimInv
<1>13. TopInv'
  <2>1. ASSUME NEW g \in HW, topbuf'[g] # None, g # h
        PROVE  /\ topbuf'[g] = topbuf[g]
               /\ next'[topbuf'[g]] = next[topbuf[g]]
               /\ locked'[topbuf'[g]] = locked[topbuf[g]]
    BY <2>1, <1>1, <1>2, <1>3, <1>t DEF IInv, ClassesApart
  <2>2. \A u \in Threads : hw[u] # h => /\ Claiming(u)' <=> Claiming(u)
                                        /\ pc'[u] = "store" <=> pc[u] = "store"
                                        /\ from'[u] = from[u]
    BY <1>5
  <2>3. ASSUME NEW g \in HW, topbuf'[g] # None, g # h, g \in PushHW
        PROVE  /\ \A i \in Slots : i < next'[topbuf'[g]] =>
                    \/ data'[topbuf'[g]][i] = g
                    \/ \E u \in Threads : /\ Claiming(u)' /\ hw'[u] = g
                                          /\ from'[u] <= i
                                          /\ i < from'[u] + n'[u]
               /\ next'[topbuf'[g]] > SZ =>
                    \E u \in Threads : pc'[u] = "store" /\ hw'[u] = g
    BY <2>1, <2>2, <2>3, <1>1 DEF IInv, TopInv
  <2>4. ASSUME NEW i \in Slots, i < next'[b]
        PROVE  \/ data'[b][i] = h
               \/ \E u \in Threads : /\ Claiming(u)' /\ hw'[u] = h
                                     /\ from'[u] <= i
                                     /\ i < from'[u] + n'[u]
    <3>1. CASE i < next[b]
      <4>1. \/ data[b][i] = h
            \/ \E u \in Threads : /\ Claiming(u) /\ hw[u] = h
                                  /\ from[u] <= i
                                  /\ i < from[u] + n[u]
        BY <3>1, <1>1, <1>2 DEF IInv, TopInv
      <4>. QED
        BY <4>1, <1>1, <1>5, <1>6
    <3>2. CASE i >= next[b]
      BY <3>2, <2>4, <1>1, <1>2, <1>4, <1>6, <1>t
    <3>. QED
      BY <3>1, <3>2, <1>2 DEF Slots
  <2>5. next'[b] > SZ => pc'[t] = "store"
    BY <1>1, <1>4, <1>6
  <2>6. ~locked[b]
    BY <1>1, <1>2 DEF IInv, TopInv
  <2>. QED
    BY <2>1, <2>3, <2>4, <2>5, <2>6, <1>1 DEF IInv, TopInv
<1>14. ClaimsDisjoint'
  <2>1. ASSUME NEW u \in Threads, u # t, Claiming(u), hw[u] = h, NEW i \in Slots
        PROVE  ~ (/\ from'[t] <= i /\ i < from'[t] + n'[t]
                  /\ from'[u] <= i /\ i < from'[u] + n'[u])
    <3>1. from[u] + n[u] <= next[b] \/ SZ <= next[b]
      BY <2>1 DEF IInv, ClaimInv
    <3>. QED
      BY <3>1, <2>1, <1>1, <1>2, <1>5, <1>6, <1>t DEF Slots
  <2>. QED
    BY <2>1, <1>1, <1>5, <1>6 DEF IInv, ClaimsDisjoint
<1>15. SealedBufsPure'
  <2>1. \A g \in HW : b \notin bufs[g] /\ \A k \in Trees : b \notin taken[k][g]
    BY <1>1, <1>2 DEF IInv, ClassesApart, TakenApart
  <2>2. bufs \in [HW -> SUBSET Bufs] /\ taken \in [Trees -> [HW -> SUBSET Bufs]]
    BY DEF IInv, TypeOK
  <2>. QED
    BY <2>1, <2>2, <1>1, <1>3 DEF IInv, SealedBufsPure, Sealed, PushHW
<1>. QED
  BY <1>7, <1>8, <1>9, <1>10, <1>12, <1>13, <1>14, <1>15 DEF IInv

\* NoTopbuf keeps the invariant.
LEMMA NoTopbufStep ==
  ASSUME IInv, NEW t \in Threads, NoTopbuf(t)
  PROVE  IInv'
<1>1. TypeOK'
  BY DEF IInv, TypeOK, PushPC, TreePC, Slots, NoTopbuf, stealVars,
       storeVars, classVars, bufVars, treeVars
<1>2. ThreadInv'
  BY DEF IInv, TypeOK, ThreadInv, InClass, Claiming, PushHW, NoTopbuf,
       stealVars, storeVars, classVars, bufVars, treeVars
<1>3. HeldInv'
  BY DEF IInv, TypeOK, HeldInv, ThreadInv, Slots, NoTopbuf, stealVars,
       storeVars, classVars, bufVars, treeVars
<1>4. ClaimInv' /\ TopInv' /\ ClaimsDisjoint'
  BY ClaimFrame DEF IInv, TypeOK, Claiming, ThreadInv, PushPC, NoTopbuf,
       stealVars, storeVars, classVars, bufVars, treeVars
<1>5. TreeInv' /\ ClassesApart' /\ ThreadsApart' /\
      ThreadsApartFromClasses' /\ TakenApart' /\ NoBufLost' /\
      SealedBufsPure'
  BY TreeInvFrame, ClassesApartFrame, ThreadsApartFrame,
       ThreadsApartFromClassesFrame, TakenApartFrame, NoBufLostFrame,
       SealedBufsPureFrame DEF IInv, NoTopbuf, stealVars, storeVars,
       classVars, bufVars, treeVars
<1>. QED
  BY <1>1, <1>2, <1>3, <1>4, <1>5 DEF IInv

\* StoreSz keeps the invariant.
LEMMA StoreSzStep ==
  ASSUME IInv, NEW t \in Threads, StoreSz(t)
  PROVE  IInv'
<1> DEFINE h == hw[t]
           b == topbuf[h]
<1>1. /\ pc[t] = "store"
      /\ next' = [next EXCEPT ![b] = SZ]
      /\ \/ /\ from[t] >= SZ
            /\ pc' = [pc EXCEPT ![t] = "top"]
            /\ from' = [from EXCEPT ![t] = 0]
         \/ /\ ~(from[t] >= SZ)
            /\ pc' = [pc EXCEPT ![t] = "write"]
            /\ from' = from
      /\ UNCHANGED <<hw, n, held, spare, todo, cand, locked, data, live, tip,
                     bufs, topbuf, mining, cpc, best, scan, taken, index, solo>>
  BY DEF StoreSz, stealVars, storeVars, classVars, treeVars
<1>t. /\ topbuf \in [HW -> Bufs \cup {None}]
      /\ next \in [Bufs -> Nat]
      /\ held \in [Threads -> Bufs \cup {None}]
      /\ spare \in [Threads -> Bufs \cup {None}]
      /\ pc \in [Threads -> PushPC]
      /\ hw \in [Threads -> HW]
      /\ n \in [Threads -> 0 .. MaxBatch]
      /\ from \in [Threads -> Nat]
      /\ SZ \in Nat \ {0} /\ MaxBatch \in Nat
  BY ConstantsAssumption DEF IInv, TypeOK
<1>2. /\ h \in PushHW /\ h \in HW /\ b \in Bufs /\ b # None
      /\ next[b] \in Nat /\ next[b] >= SZ
      /\ from[t] \in Nat
  BY <1>1, <1>t, ConstantsAssumption DEF IInv, ThreadInv, ClaimInv, Claiming
<1>3. /\ \A c \in Bufs : c # b => next'[c] = next[c]
      /\ next'[b] = SZ
  BY <1>1, <1>2, <1>t
<1>4. \A u \in Threads : u # t => /\ pc'[u] = pc[u]
                                  /\ from'[u] = from[u]
                                  /\ Claiming(u)' <=> Claiming(u)
  BY <1>1, <1>t DEF Claiming
<1>5. /\ Claiming(t)
      /\ Claiming(t)' <=> from[t] < SZ
      /\ Claiming(t)' => from'[t] = from[t] /\ pc'[t] = "write"
      /\ pc'[t] \in {"top", "write"}
  BY <1>1, <1>2, <1>t DEF Claiming
<1>6. TypeOK'
  <2>1. next' \in [Bufs -> Nat] /\ from' \in [Threads -> Nat]
    BY <1>1, <1>2, <1>t
  <2>2. pc' \in [Threads -> PushPC]
    BY <1>1, <1>t DEF PushPC
  <2>. QED
    BY <2>1, <2>2, <1>1 DEF IInv, TypeOK
<1>7. ThreadInv'
  BY <1>1, <1>2, <1>4, <1>5, <1>t DEF IInv, ThreadInv, InClass, Claiming
<1>8. TreeInv' /\ ClassesApart' /\ ThreadsApart' /\ ThreadsApartFromClasses'
      /\ TakenApart' /\ NoBufLost'
  BY <1>1, TreeInvFrame, ClassesApartFrame, ThreadsApartFrame,
     ThreadsApartFromClassesFrame, TakenApartFrame, NoBufLostFrame DEF IInv
<1>9. HeldInv'
  <2>1. \A u \in Threads : b # spare[u] /\ b # held[u]
    BY <1>2 DEF IInv, ThreadsApartFromClasses
  <2>2. \A u \in Threads : pc'[u] = "seal" <=> pc[u] = "seal"
    BY <1>1, <1>4, <1>5
  <2>. QED
    BY <2>1, <2>2, <1>1, <1>3, <1>t DEF IInv, HeldInv
<1>10. \A u \in Threads : Claiming(u)' =>
          /\ Claiming(u)
          /\ from'[u] = from[u]
          /\ hw[u] # h => next'[topbuf[hw[u]]] = next[topbuf[hw[u]]]
  BY <1>2, <1>3, <1>4, <1>5, <1>t DEF IInv, ThreadInv, ClassesApart
<1>11. ClaimInv'
  <2>1. ASSUME NEW u \in Threads, Claiming(u)'
        PROVE  /\ pc'[u] = "write" => from'[u] < SZ
               /\ pc'[u] = "store" => SZ <= next'[topbuf'[hw'[u]]]
               /\ \/ from'[u] + n'[u] <= next'[topbuf'[hw'[u]]]
                  \/ SZ <= next'[topbuf'[hw'[u]]]
    <3>1. CASE hw[u] = h
      <4>1. SZ <= next'[topbuf'[hw'[u]]]
        BY <3>1, <1>1, <1>3, <1>t
      <4>2. pc'[u] = "write" => from'[u] < SZ
        BY <2>1, <1>4, <1>5, <1>10 DEF IInv, ClaimInv
      <4>. QED
        BY <4>1, <4>2
    <3>2. CASE hw[u] # h
      <4>1. u # t
        BY <3>2
      <4>. QED
        BY <4>1, <2>1, <3>2, <1>1, <1>4, <1>10 DEF IInv, ClaimInv
    <3>. QED
      BY <3>1, <3>2
  <2>. QED
    BY <2>1 DEF ClaimInv
<1>12. TopInv'
  <2>1. ASSUME NEW g \in HW, topbuf'[g] # None, g # h
        PROVE  /\ topbuf'[g] = topbuf[g]
               /\ next'[topbuf'[g]] = next[topbuf[g]]
               /\ locked'[topbuf'[g]] = locked[topbuf[g]]
    BY <2>1, <1>1, <1>2, <1>3, <1>t DEF IInv, ClassesApart
  <2>2. \A u \in Threads : hw[u] # h => /\ Claiming(u)' <=> Claiming(u)
                                        /\ pc'[u] = "store" <=> pc[u] = "store"
                                        /\ from'[u] = from[u]
    BY <1>4
  <2>3. ASSUME NEW g \in HW, topbuf'[g] # None, g # h, g \in PushHW
        PROVE  /\ \A i \in Slots : i < next'[topbuf'[g]] =>
                    \/ data'[topbuf'[g]][i] = g
                    \/ \E u \in Threads : /\ Claiming(u)' /\ hw'[u] = g
                                          /\ from'[u] <= i
                                          /\ i < from'[u] + n'[u]
               /\ next'[topbuf'[g]] > SZ =>
                    \E u \in Threads : pc'[u] = "store" /\ hw'[u] = g
    BY <2>1, <2>2, <2>3, <1>1 DEF IInv, TopInv
  <2>4. ASSUME NEW i \in Slots
        PROVE  \/ data'[b][i] = h
               \/ \E u \in Threads : /\ Claiming(u)' /\ hw'[u] = h
                                     /\ from'[u] <= i
                                     /\ i < from'[u] + n'[u]
    <3>1. i < next[b] /\ i < SZ /\ i \in Nat
      BY <1>2, <1>t DEF Slots
    <3>2. \/ data[b][i] = h
          \/ \E u \in Threads : /\ Claiming(u) /\ hw[u] = h
                                /\ from[u] <= i
                                /\ i < from[u] + n[u]
      BY <3>1, <1>1, <1>2 DEF IInv, TopInv
    <3>3. ASSUME NEW u \in Threads, Claiming(u), from[u] <= i
          PROVE  Claiming(u)' /\ from'[u] = from[u]
      BY <3>1, <3>3, <1>4, <1>5, <1>2, <1>t
    <3>. QED
      BY <3>2, <3>3, <1>1
  <2>5. ~(next'[b] > SZ)
    BY <1>3, <1>t
  <2>6. ~locked[b]
    BY <1>2 DEF IInv, TopInv
  <2>. QED
    BY <2>1, <2>3, <2>4, <2>5, <2>6, <1>1 DEF IInv, TopInv
<1>13. ClaimsDisjoint'
  BY <1>1, <1>10 DEF IInv, ClaimsDisjoint
<1>14. SealedBufsPure'
  <2>1. \A g \in HW : b \notin bufs[g] /\ \A k \in Trees : b \notin taken[k][g]
    BY <1>2 DEF IInv, ClassesApart, TakenApart
  <2>2. bufs \in [HW -> SUBSET Bufs] /\ taken \in [Trees -> [HW -> SUBSET Bufs]]
    BY DEF IInv, TypeOK
  <2>. QED
    BY <2>1, <2>2, <1>1, <1>3 DEF IInv, SealedBufsPure, Sealed, PushHW
<1>. QED
  BY <1>6, <1>7, <1>8, <1>9, <1>11, <1>12, <1>13, <1>14 DEF IInv

\* WriteAnns keeps the invariant.
LEMMA WriteAnnsStep ==
  ASSUME IInv, NEW t \in Threads, WriteAnns(t)
  PROVE  IInv'
<1> DEFINE h == hw[t]
           b == topbuf[h]
           consumed == Fits(from[t], n[t])
           left == n[t] - consumed
<1>1. /\ pc[t] = "write"
      /\ data' = [data EXCEPT ![b] = [i \in Slots |->
            IF from[t] <= i /\ i < from[t] + consumed THEN h ELSE @[i]]]
      /\ \/ /\ left = 0
            /\ pc' = [pc EXCEPT ![t] = "idle"]
            /\ spare' = [spare EXCEPT ![t] = IF held[t] # None THEN held[t] ELSE @]
            /\ held' = [held EXCEPT ![t] = None]
         \/ /\ left # 0
            /\ pc' = [pc EXCEPT ![t] = "top"]
            /\ spare' = spare
            /\ held' = held
      /\ n' = [n EXCEPT ![t] = left]
      /\ from' = [from EXCEPT ![t] = 0]
      /\ UNCHANGED <<hw, todo, cand, next, locked, live, tip,
                     bufs, topbuf, mining, cpc, best, scan, taken, index, solo>>
  BY DEF WriteAnns, Return, Fill, stealVars, storeVars, classVars, treeVars
<1>t. /\ topbuf \in [HW -> Bufs \cup {None}]
      /\ next \in [Bufs -> Nat]
      /\ data \in [Bufs -> [Slots -> HW \cup {None}]]
      /\ held \in [Threads -> Bufs \cup {None}]
      /\ spare \in [Threads -> Bufs \cup {None}]
      /\ pc \in [Threads -> PushPC]
      /\ hw \in [Threads -> HW]
      /\ n \in [Threads -> 0 .. MaxBatch]
      /\ from \in [Threads -> Nat]
      /\ SZ \in Nat \ {0} /\ MaxBatch \in Nat
  BY ConstantsAssumption DEF IInv, TypeOK
<1>2. /\ h \in PushHW /\ h \in HW /\ b \in Bufs /\ b # None
      /\ from[t] \in Nat /\ n[t] \in Nat /\ n[t] > 0 /\ from[t] < SZ
      /\ spare[t] = None
  BY <1>1, <1>t DEF IInv, ThreadInv, ClaimInv, Claiming
<1>3. /\ consumed \in Nat /\ consumed <= n[t] /\ left \in 0 .. MaxBatch
      /\ \A i \in Slots : i < from[t] + n[t] => i < from[t] + consumed
  BY <1>2, <1>t DEF Fits, Slots
<1>4. /\ \A c \in Bufs : c # b => data'[c] = data[c]
      /\ \A i \in Slots : \/ data'[b][i] = h
                          \/ /\ data'[b][i] = data[b][i]
                             /\ ~(from[t] <= i /\ i < from[t] + n[t])
  BY <1>1, <1>2, <1>3, <1>t
<1>5. \A u \in Threads : u # t => /\ pc'[u] = pc[u]
                                  /\ from'[u] = from[u]
                                  /\ n'[u] = n[u]
                                  /\ held'[u] = held[u]
                                  /\ spare'[u] = spare[u]
                                  /\ Claiming(u)' <=> Claiming(u)
  BY <1>1, <1>t DEF Claiming
<1>6. /\ Claiming(t) /\ ~Claiming(t)'
      /\ \/ left = 0 /\ pc'[t] = "idle" /\ held'[t] = None /\ spare'[t] = held[t]
         \/ left # 0 /\ pc'[t] = "top" /\ held'[t] = held[t] /\ spare'[t] = None
      /\ n'[t] = left
  BY <1>1, <1>2, <1>t DEF Claiming
<1>7. TypeOK'
  <2>1. data' \in [Bufs -> [Slots -> HW \cup {None}]]
    BY <1>1, <1>2, <1>t
  <2>2. /\ n' \in [Threads -> 0 .. MaxBatch]
        /\ from' \in [Threads -> Nat]
        /\ held' \in [Threads -> Bufs \cup {None}]
        /\ spare' \in [Threads -> Bufs \cup {None}]
    BY <1>1, <1>3, <1>t
  <2>3. pc' \in [Threads -> PushPC]
    BY <1>1, <1>t DEF PushPC
  <2>. QED
    BY <2>1, <2>2, <2>3, <1>1 DEF IInv, TypeOK
<1>8. ThreadInv'
  <2>1. ASSUME NEW u \in Threads, u # t
        PROVE  /\ pc'[u] \in {"find", "create", "recheck", "seal"} => held'[u] # None
               /\ pc'[u] \in {"idle", "loop", "steal"} => held'[u] = None
               /\ pc'[u] \notin {"idle", "loop"} => spare'[u] = None
               /\ pc'[u] # "idle" => hw'[u] \in PushHW /\ n'[u] > 0
               /\ InClass(u)' => hw'[u] \in live'
               /\ Claiming(u)' => topbuf'[hw'[u]] # None
    BY <2>1, <1>1, <1>5 DEF IInv, ThreadInv, InClass
  <2>2. InClass(t) => hw[t] \in live
    BY DEF IInv, ThreadInv
  <2>3. n'[t] # 0 => n'[t] > 0
    BY <1>3, <1>6
  <2>. QED
    BY <2>1, <2>2, <2>3, <1>1, <1>2, <1>6 DEF ThreadInv, InClass
<1>9. TreeInv' /\ ClassesApart'
  BY <1>1, TreeInvFrame, ClassesApartFrame DEF IInv
<1>10. ThreadsApart' /\ ThreadsApartFromClasses' /\ TakenApart'
  <2>1. \A u \in Threads :
          /\ held'[u] # None => held'[u] = held[u] /\ spare'[u] = spare[u]
          /\ spare'[u] # None =>
                \/ spare'[u] = spare[u]
                \/ spare'[u] = held[u] /\ held'[u] = None
    BY <1>2, <1>5, <1>6
  <2>2. ThreadsApart'
    BY <2>1, <1>5 DEF IInv, ThreadsApart
  <2>3. ThreadsApartFromClasses'
    BY <2>1, <1>1 DEF IInv, ThreadsApartFromClasses
  <2>4. taken \in [Trees -> [HW -> SUBSET Bufs]]
    BY DEF IInv, TypeOK
  <2>5. TakenApart'
    BY <2>1, <2>4, <1>1, ConstantsAssumption DEF IInv, TakenApart
  <2>. QED
    BY <2>2, <2>3, <2>5
<1>11. NoBufLost'
  <2>1. \A c \in Bufs : (\E u \in Threads : c = spare[u] \/ c = held[u]) =>
                        (\E u \in Threads : c = spare'[u] \/ c = held'[u])
    BY <1>2, <1>5, <1>6, ConstantsAssumption
  <2>. QED
    BY <2>1, <1>1 DEF IInv, NoBufLost
<1>12. HeldInv'
  <2>1. \A u \in Threads : held[u] # None => b # held[u]
    BY <1>2 DEF IInv, ThreadsApartFromClasses
  <2>2. ASSUME NEW u \in Threads, u # t
        PROVE  /\ spare'[u] # None => ~locked'[spare'[u]] /\ next'[spare'[u]] = 0
               /\ held'[u] # None =>
                    /\ ~locked'[held'[u]]
                    /\ pc'[u] # "seal" => next'[held'[u]] = 0
                    /\ pc'[u] = "seal" =>
                          /\ next'[held'[u]] = SZ
                          /\ \A i \in Slots : data'[held'[u]][i] = hw'[u]
    BY <2>1, <2>2, <1>1, <1>4, <1>5, <1>t DEF IInv, HeldInv
  <2>3. held[t] # None => ~locked[held[t]] /\ next[held[t]] = 0
    BY <1>1 DEF IInv, HeldInv
  <2>. QED
    BY <2>2, <2>3, <1>1, <1>6 DEF HeldInv
<1>13. ClaimInv'
  BY <1>1, <1>5, <1>6 DEF IInv, ClaimInv
<1>14. TopInv'
  <2>1. ASSUME NEW g \in HW, topbuf[g] # None, g # h
        PROVE  data'[topbuf[g]] = data[topbuf[g]]
    BY <2>1, <1>2, <1>4, <1>t DEF IInv, ClassesApart
  <2>2. ASSUME NEW g \in PushHW, topbuf[g] # None, NEW i \in Slots,
               i < next[topbuf[g]]
        PROVE  \/ data'[topbuf[g]][i] = g
               \/ \E u \in Threads : /\ Claiming(u)' /\ hw[u] = g
                                     /\ from'[u] <= i
                                     /\ i < from'[u] + n'[u]
    <3>1. CASE data[topbuf[g]][i] = g
      BY <3>1, <2>1, <2>2, <1>4 DEF PushHW
    <3>2. ASSUME NEW u \in Threads, Claiming(u), hw[u] = g, from[u] <= i,
                 i < from[u] + n[u]
          PROVE  \/ data'[topbuf[g]][i] = g
                 \/ /\ Claiming(u)'
                    /\ from'[u] <= i
                    /\ i < from'[u] + n'[u]
      BY <3>2, <1>4, <1>5
    <3>3. g \in HW
      BY DEF PushHW
    <3>. QED
      BY <3>1, <3>2, <3>3, <2>2 DEF IInv, TopInv
  <2>3. \A u \in Threads : pc'[u] = "store" <=> pc[u] = "store"
    BY <1>1, <1>5, <1>6
  <2>. QED
    BY <2>2, <2>3, <1>1 DEF IInv, TopInv
<1>15. ClaimsDisjoint'
  BY <1>1, <1>5, <1>6 DEF IInv, ClaimsDisjoint
<1>16. SealedBufsPure'
  <2>1. \A g \in HW : b \notin bufs[g] /\ \A k \in Trees : b \notin taken[k][g]
    BY <1>2 DEF IInv, ClassesApart, TakenApart
  <2>2. bufs \in [HW -> SUBSET Bufs] /\ taken \in [Trees -> [HW -> SUBSET Bufs]]
    BY DEF IInv, TypeOK
  <2>. QED
    BY <2>1, <2>2, <1>1, <1>4 DEF IInv, SealedBufsPure, Sealed, PushHW
<1>. QED
  BY <1>7, <1>8, <1>9, <1>10, <1>11, <1>12, <1>13, <1>14, <1>15, <1>16
     DEF IInv

\* NeedTopbuf keeps the invariant.
LEMMA NeedTopbufStep ==
  ASSUME IInv, NEW t \in Threads, NeedTopbuf(t)
  PROVE  IInv'
<1>1. TypeOK'
  BY ZenonT(40) DEF IInv, TypeOK, PushPC, TreePC, Slots, NeedTopbuf, Return,
       stealVars, storeVars, classVars, bufVars, treeVars
<1>2. ThreadInv'
  BY DEF IInv, TypeOK, ThreadInv, InClass, Claiming, PushHW, NeedTopbuf,
       Return, stealVars, storeVars, classVars, bufVars, treeVars
<1>3. ThreadsApart'
  BY DEF IInv, TypeOK, ThreadsApart, ThreadInv, NeedTopbuf, Return,
       stealVars, storeVars, classVars, bufVars, treeVars
<1>4. ThreadsApartFromClasses'
  BY DEF IInv, TypeOK, ThreadsApartFromClasses, ThreadInv, NeedTopbuf,
       Return, stealVars, storeVars, classVars, bufVars, treeVars
<1>5. TakenApart'
  BY DEF IInv, TypeOK, TakenApart, NeedTopbuf, Return, stealVars,
       storeVars, classVars, bufVars, treeVars
<1>6. NoBufLost'
  BY ZenonT(40) DEF IInv, TypeOK, NoBufLost, ThreadInv, NeedTopbuf, Return,
       stealVars, storeVars, classVars, bufVars, treeVars
<1>7. HeldInv'
  BY DEF IInv, TypeOK, HeldInv, ThreadInv, Slots, NeedTopbuf, Return,
       stealVars, storeVars, classVars, bufVars, treeVars
<1>8. ClaimInv' /\ TopInv' /\ ClaimsDisjoint'
  BY ClaimFrame DEF IInv, TypeOK, Claiming, ThreadInv, PushPC, NeedTopbuf,
       Return, stealVars, storeVars, classVars, bufVars, treeVars
<1>9. TreeInv' /\ ClassesApart' /\ SealedBufsPure'
  BY TreeInvFrame, ClassesApartFrame, SealedBufsPureFrame DEF IInv,
       NeedTopbuf, stealVars, storeVars, classVars, bufVars, treeVars
<1>. QED
  BY <1>1, <1>2, <1>3, <1>4, <1>5, <1>6, <1>7, <1>8, <1>9 DEF IInv

\* Recheck keeps the invariant.
LEMMA RecheckStep ==
  ASSUME IInv, NEW t \in Threads, Recheck(t)
  PROVE  IInv'
<1> DEFINE h == hw[t]
           b == topbuf[h]
           consumed == IF b = None THEN 0 ELSE Fits(next[b], n[t])
           left == n[t] - consumed
<1>1. /\ pc[t] = "recheck"
      /\ NoClassReader(h)
      /\ UNCHANGED <<hw, from, todo, cand, bufs, mining, locked, live, tip,
                     cpc, best, scan, taken, index, solo>>
  BY DEF Recheck, stealVars, storeVars, treeVars
<1>2. /\ b = None => UNCHANGED <<next, data>>
      /\ b # None =>
            /\ next' = [next EXCEPT
                          ![b] = IF @ + n[t] > SZ THEN SZ ELSE @ + n[t]]
            /\ data' = [data EXCEPT ![b] = [i \in Slots |->
                 IF next[b] <= i /\ i < next[b] + consumed THEN h ELSE @[i]]]
  BY DEF Recheck, Fill
<1>3. \/ /\ left = 0
         /\ topbuf' = topbuf
         /\ pc' = [pc EXCEPT ![t] = "idle"]
         /\ spare' = [spare EXCEPT ![t] = IF held[t] # None THEN held[t] ELSE @]
         /\ held' = [held EXCEPT ![t] = None]
      \/ /\ left # 0
         /\ topbuf' = [topbuf EXCEPT ![h] = held[t]]
         /\ held' = [held EXCEPT ![t] = b]
         /\ pc' = [pc EXCEPT ![t] = IF b = None THEN "read" ELSE "seal"]
         /\ spare' = spare
  BY DEF Recheck, Return
<1>4. n' = [n EXCEPT ![t] = left]
  BY DEF Recheck, Return
<1>t. /\ topbuf \in [HW -> Bufs \cup {None}]
      /\ bufs \in [HW -> SUBSET Bufs]
      /\ next \in [Bufs -> Nat]
      /\ data \in [Bufs -> [Slots -> HW \cup {None}]]
      /\ held \in [Threads -> Bufs \cup {None}]
      /\ spare \in [Threads -> Bufs \cup {None}]
      /\ pc \in [Threads -> PushPC]
      /\ hw \in [Threads -> HW]
      /\ n \in [Threads -> 0 .. MaxBatch]
      /\ from \in [Threads -> Nat]
      /\ taken \in [Trees -> [HW -> SUBSET Bufs]]
      /\ SZ \in Nat \ {0} /\ MaxBatch \in Nat
      /\ None \notin Bufs
  BY ConstantsAssumption DEF IInv, TypeOK
<1>5. /\ h \in PushHW /\ h \in HW /\ h \in live
      /\ held[t] \in Bufs /\ held[t] # None
      /\ b # None => b \in Bufs
      /\ n[t] \in Nat /\ n[t] > 0
      /\ spare[t] = None
      /\ b # held[t]
  BY <1>1, <1>t DEF IInv, ThreadInv, InClass, ThreadsApartFromClasses
<1>6. ASSUME b # None
      PROVE  /\ next[b] \in Nat /\ next[b] <= SZ
             /\ \A i \in Slots : i < next[b] => data[b][i] = h
             /\ ~locked[b]
  BY <1>6, <1>1, <1>5, <1>t DEF IInv, TopInv, NoClassReader, Claiming
<1>7. /\ consumed \in Nat /\ consumed <= n[t] /\ left \in 0 .. MaxBatch
      /\ b # None => next[b] + consumed <= SZ
      /\ b # None /\ left # 0 => next[b] + consumed = SZ
  <2>1. CASE b = None
    BY <2>1, <1>5, <1>t
  <2>2. CASE b # None
    <3>1. consumed = Fits(next[b], n[t]) /\ next[b] \in Nat /\ next[b] <= SZ
      BY <2>2, <1>6
    <3>2. n[t] \in 0 .. MaxBatch
      BY <1>t
    <3>. HIDE DEF b, consumed
    <3>3. /\ consumed \in Nat /\ consumed <= n[t]
          /\ next[b] + consumed <= SZ
          /\ n[t] - consumed # 0 => next[b] + consumed = SZ
      <4>1. /\ Fits(next[b], n[t]) \in Nat
            /\ Fits(next[b], n[t]) <= n[t]
            /\ next[b] + Fits(next[b], n[t]) <= SZ
            /\ Fits(next[b], n[t]) # n[t] => next[b] + Fits(next[b], n[t]) = SZ
        BY <3>1, <1>5, FitsBound
      <4>. QED
        BY <4>1, <3>1, <1>5
    <3>. QED
      BY <3>2, <3>3, <1>5, <1>t
  <2>. QED
    BY <2>1, <2>2
<1>8. ASSUME b # None
      PROVE  /\ next'[b] = next[b] + consumed
             /\ \A i \in Slots : i < next'[b] => data'[b][i] = h
             /\ \A c \in Bufs : c # b => next'[c] = next[c] /\ data'[c] = data[c]
  <2>1. next'[b] = next[b] + consumed
    BY <1>8, <1>2, <1>5, <1>6, <1>7, <1>t DEF Fits
  <2>2. ASSUME NEW i \in Slots, i < next'[b]
        PROVE  data'[b][i] = h
    <3>1. data'[b][i] = IF next[b] <= i /\ i < next[b] + consumed THEN h
                        ELSE data[b][i]
      BY <1>8, <1>2, <1>5, <1>t
    <3>2. i \in Nat
      BY DEF Slots
    <3>. HIDE DEF b, consumed
    <3>. QED
      BY <3>1, <3>2, <2>1, <2>2, <1>8, <1>6, <1>7
  <2>. QED
    BY <2>1, <2>2, <1>8, <1>2, <1>5, <1>t
<1>9. \A c \in Bufs : c # b => next'[c] = next[c] /\ data'[c] = data[c]
  BY <1>2, <1>8
<1>10. \A u \in Threads : u # t => /\ pc'[u] = pc[u]
                                   /\ n'[u] = n[u]
                                   /\ held'[u] = held[u]
                                   /\ spare'[u] = spare[u]
                                   /\ Claiming(u)' <=> Claiming(u)
  BY <1>3, <1>4, <1>t DEF Claiming
<1>11. /\ ~Claiming(t) /\ ~Claiming(t)'
       /\ \/ left = 0 /\ pc'[t] = "idle" /\ held'[t] = None /\ spare'[t] = held[t]
             /\ topbuf'[h] = b
          \/ left # 0 /\ b # None /\ pc'[t] = "seal" /\ held'[t] = b
             /\ spare'[t] = None /\ topbuf'[h] = held[t]
          \/ left # 0 /\ b = None /\ pc'[t] = "read" /\ held'[t] = b
             /\ spare'[t] = None /\ topbuf'[h] = held[t]
       /\ n'[t] = left
       /\ topbuf'[h] # None \/ left = 0
  BY <1>1, <1>3, <1>4, <1>5, <1>t DEF Claiming
<1>12. \A g \in HW : g # h => topbuf'[g] = topbuf[g]
  BY <1>3, <1>5, <1>t
<1>13. TypeOK'
  <2>1. /\ next' \in [Bufs -> Nat]
        /\ data' \in [Bufs -> [Slots -> HW \cup {None}]]
    <3>1. CASE b = None
      BY <3>1, <1>2, <1>t
    <3>2. CASE b # None
      <4>1. next' \in [Bufs -> Nat]
        BY <3>2, <1>2, <1>5, <1>6, <1>t
      <4>. DEFINE f == [i \in Slots |->
             IF next[b] <= i /\ i < next[b] + consumed THEN h ELSE data[b][i]]
      <4>2. data' = [data EXCEPT ![b] = f]
        BY <3>2, <1>2
      <4>3. f \in [Slots -> HW \cup {None}]
        BY <3>2, <1>5, <1>t
      <4>. HIDE DEF f, b
      <4>4. data' \in [Bufs -> [Slots -> HW \cup {None}]]
        BY <4>2, <4>3, <1>t
      <4>. QED
        BY <4>1, <4>4
    <3>. QED
      BY <3>1, <3>2
  <2>2. /\ n' \in [Threads -> 0 .. MaxBatch]
        /\ held' \in [Threads -> Bufs \cup {None}]
        /\ spare' \in [Threads -> Bufs \cup {None}]
        /\ topbuf' \in [HW -> Bufs \cup {None}]
    BY <1>3, <1>4, <1>5, <1>7, <1>t
  <2>3. pc' \in [Threads -> PushPC]
    BY <1>3, <1>t DEF PushPC
  <2>. QED
    BY <2>1, <2>2, <2>3, <1>1 DEF IInv, TypeOK
<1>14. ThreadInv'
  <2>1. ASSUME NEW u \in Threads, u # t
        PROVE  /\ pc'[u] \in {"find", "create", "recheck", "seal"} => held'[u] # None
               /\ pc'[u] \in {"idle", "loop", "steal"} => held'[u] = None
               /\ pc'[u] \notin {"idle", "loop"} => spare'[u] = None
               /\ pc'[u] # "idle" => hw'[u] \in PushHW /\ n'[u] > 0
               /\ InClass(u)' => hw'[u] \in live'
               /\ Claiming(u)' => topbuf'[hw'[u]] # None
    BY <2>1, <1>1, <1>5, <1>10, <1>12, <1>t
       DEF IInv, ThreadInv, InClass, NoClassReader
  <2>2. n'[t] # 0 => n'[t] > 0
    BY <1>7, <1>11
  <2>. QED
    BY <2>1, <2>2, <1>1, <1>5, <1>7, <1>11 DEF ThreadInv, InClass
<1>15. TreeInv'
  BY <1>1, <1>5, <1>12 DEF IInv, TreeInv, FirstKey
<1>16. ClassesApart'
  <2>1. \A g \in HW : held[t] \notin bufs[g] /\ held[t] # topbuf[g]
    BY <1>5 DEF IInv, ThreadsApartFromClasses
  <2>. QED
    BY <2>1, <1>1, <1>5, <1>11, <1>12 DEF IInv, ClassesApart
<1>17. ThreadsApart'
  <2>1. \A u \in Threads : b # None => b # held[u] /\ b # spare[u]
    BY <1>5 DEF IInv, ThreadsApartFromClasses
  <2>. QED
    BY <2>1, <1>5, <1>10, <1>11 DEF IInv, ThreadsApart
<1>18. ThreadsApartFromClasses'
  <2>1. \A g \in HW : b # None => b \notin bufs[g] /\ (g # h => b # topbuf[g])
    BY <1>5 DEF IInv, ClassesApart
  <2>2. \A u \in Threads : u # t => held[t] # held[u] /\ held[t] # spare[u]
    BY <1>5 DEF IInv, ThreadsApart
  <2>. QED
    BY <2>1, <2>2, <1>1, <1>5, <1>10, <1>11, <1>12
       DEF IInv, ThreadsApartFromClasses
<1>19. TakenApart'
  BY <1>1, <1>5, <1>10, <1>11, <1>12, <1>t DEF IInv, TakenApart
<1>20. NoBufLost'
  <2>1. ASSUME NEW c \in Bufs
        PROVE  \/ \E g \in HW : c \in bufs'[g] \/ c = topbuf'[g]
               \/ \E u \in Threads : c = spare'[u] \/ c = held'[u]
               \/ \E k \in Trees, g \in HW : c \in taken'[k][g]
    <3>1. CASE \E g \in HW : c \in bufs[g]
      BY <3>1, <1>1
    <3>2. CASE \E g \in HW : c = topbuf[g]
      <4>1. PICK g \in HW : c = topbuf[g]
        BY <3>2
      <4>2. g = h => c = topbuf'[h] \/ c = held'[t]
        BY <4>1, <1>5, <1>11
      <4>. QED
        BY <4>1, <4>2, <1>5, <1>12
    <3>3. CASE \E u \in Threads : c = spare[u] \/ c = held[u]
      <4>1. PICK u \in Threads : c = spare[u] \/ c = held[u]
        BY <3>3
      <4>2. u = t => c = spare'[t] \/ c = topbuf'[h]
        BY <4>1, <1>5, <1>11, <1>t
      <4>. QED
        BY <4>1, <4>2, <1>5, <1>10
    <3>4. CASE \E k \in Trees, g \in HW : c \in taken[k][g]
      BY <3>4, <1>1
    <3>. QED
      BY <3>1, <3>2, <3>3, <3>4 DEF IInv, NoBufLost
  <2>. QED
    BY <2>1 DEF NoBufLost
<1>21. HeldInv'
  <2>1. \A u \in Threads : /\ held[u] # None => b # held[u]
                           /\ spare[u] # None => b # spare[u]
    BY <1>5 DEF IInv, ThreadsApartFromClasses
  <2>2. ASSUME NEW u \in Threads, u # t
        PROVE  /\ spare'[u] # None => ~locked'[spare'[u]] /\ next'[spare'[u]] = 0
               /\ held'[u] # None =>
                    /\ ~locked'[held'[u]]
                    /\ pc'[u] # "seal" => next'[held'[u]] = 0
                    /\ pc'[u] = "seal" =>
                          /\ next'[held'[u]] = SZ
                          /\ \A i \in Slots : data'[held'[u]][i] = hw'[u]
    BY <2>1, <2>2, <1>1, <1>9, <1>10, <1>t DEF IInv, HeldInv
  <2>3. ~locked[held[t]] /\ next'[held[t]] = 0
    BY <1>1, <1>5, <1>9 DEF IInv, HeldInv
  <2>4. b # None /\ left # 0 =>
           ~locked[b] /\ next'[b] = SZ /\ \A i \in Slots : data'[b][i] = h
    BY <1>6, <1>7, <1>8, <1>t DEF Slots
  <2>. QED
    BY <2>2, <2>3, <2>4, <1>1, <1>5, <1>11 DEF HeldInv
<1>22. \A u \in Threads : Claiming(u) =>
          /\ u # t /\ hw[u] # h
          /\ topbuf[hw[u]] # b /\ topbuf[hw[u]] \in Bufs
          /\ topbuf'[hw[u]] = topbuf[hw[u]]
          /\ next'[topbuf[hw[u]]] = next[topbuf[hw[u]]]
  BY <1>1, <1>5, <1>9, <1>11, <1>12, <1>t
     DEF NoClassReader, IInv, ThreadInv, ClassesApart
<1>23. ClaimInv'
  BY <1>1, <1>10, <1>11, <1>22 DEF IInv, ClaimInv
<1>24. TopInv'
  <2>1. ASSUME NEW g \in HW, topbuf'[g] # None, g # h
        PROVE  /\ topbuf'[g] = topbuf[g]
               /\ next'[topbuf'[g]] = next[topbuf[g]]
               /\ data'[topbuf'[g]] = data[topbuf[g]]
    BY <2>1, <1>5, <1>9, <1>12, <1>t DEF IInv, ClassesApart
  <2>2. \A u \in Threads : hw[u] # h => /\ Claiming(u)' <=> Claiming(u)
                                        /\ pc'[u] = "store" <=> pc[u] = "store"
                                        /\ n'[u] = n[u]
    BY <1>10
  <2>3. ASSUME NEW g \in HW, topbuf'[g] # None, g # h, g \in PushHW
        PROVE  /\ \A i \in Slots : i < next'[topbuf'[g]] =>
                    \/ data'[topbuf'[g]][i] = g
                    \/ \E u \in Threads : /\ Claiming(u)' /\ hw'[u] = g
                                          /\ from'[u] <= i
                                          /\ i < from'[u] + n'[u]
               /\ next'[topbuf'[g]] > SZ =>
                    \E u \in Threads : pc'[u] = "store" /\ hw'[u] = g
    BY <2>1, <2>2, <2>3, <1>1 DEF IInv, TopInv
  <2>4. ASSUME topbuf'[h] # None
        PROVE  /\ ~locked[topbuf'[h]]
               /\ next'[topbuf'[h]] <= SZ
               /\ \A i \in Slots : i < next'[topbuf'[h]] => data'[topbuf'[h]][i] = h
    <3>1. ~locked[held[t]] /\ next'[held[t]] = 0
      BY <1>1, <1>5, <1>9 DEF IInv, HeldInv
    <3>2. CASE topbuf'[h] = held[t]
      BY <3>1, <3>2, <1>t DEF Slots
    <3>3. CASE topbuf'[h] = b
      BY <3>3, <2>4, <1>6, <1>7, <1>8
    <3>. QED
      BY <3>2, <3>3, <1>11
  <2>5. \A g \in HW : next'[topbuf'[h]] <= SZ /\ topbuf'[h] # None => ~(next'[topbuf'[h]] > SZ)
    <3>1. topbuf'[h] # None => topbuf'[h] \in Bufs
      BY <1>11, <1>5
    <3>2. next' \in [Bufs -> Nat]
      BY <1>13 DEF TypeOK
    <3>. QED
      BY <3>1, <3>2, <1>t
  <2>6. ASSUME NEW g \in HW, topbuf'[g] # None, g # h
        PROVE  ~locked'[topbuf'[g]]
    BY <2>1, <2>6, <1>1 DEF IInv, TopInv
  <2>. QED
    BY <2>3, <2>4, <2>5, <2>6, <1>1 DEF TopInv
<1>25. ClaimsDisjoint'
  BY <1>1, <1>10, <1>11 DEF IInv, ClaimsDisjoint
<1>26. SealedBufsPure'
  <2>1. b # None => \A g \in HW : b \notin bufs[g] /\ \A k \in Trees : b \notin taken[k][g]
    BY <1>5 DEF IInv, ClassesApart, TakenApart
  <2>2. \A g \in HW : /\ \A c \in bufs[g] : c \in Bufs /\ c # b
                     /\ \A k \in Trees : \A c \in taken[k][g] : c \in Bufs /\ c # b
    BY <2>1, <1>t
  <2>. HIDE DEF b
  <2>. QED
    BY <2>2, <1>1, <1>9 DEF IInv, SealedBufsPure, Sealed, PushHW
<1>. QED
  BY <1>13, <1>14, <1>15, <1>16, <1>17, <1>18, <1>19, <1>20, <1>21, <1>23,
     <1>24, <1>25, <1>26 DEF IInv

\* Seal keeps the invariant.
LEMMA SealStep ==
  ASSUME IInv, NEW t \in Threads, Seal(t)
  PROVE  IInv'
<1> DEFINE h == hw[t]
           b == held[t]
<1>1. /\ pc[t] = "seal"
      /\ locked' = [locked EXCEPT ![b] = TRUE]
      /\ bufs' = [bufs EXCEPT ![h] = @ \cup {b}]
      /\ held' = [held EXCEPT ![t] = None]
      /\ pc' = [pc EXCEPT ![t] = "read"]
      /\ UNCHANGED <<hw, n, spare, from, todo, cand, topbuf, mining, next,
                     data, live, tip, cpc, best, scan, taken, index, solo>>
  BY DEF Seal, stealVars, storeVars, treeVars
<1>t. /\ topbuf \in [HW -> Bufs \cup {None}]
      /\ bufs \in [HW -> SUBSET Bufs]
      /\ locked \in [Bufs -> BOOLEAN]
      /\ held \in [Threads -> Bufs \cup {None}]
      /\ spare \in [Threads -> Bufs \cup {None}]
      /\ pc \in [Threads -> PushPC]
      /\ hw \in [Threads -> HW]
      /\ taken \in [Trees -> [HW -> SUBSET Bufs]]
      /\ None \notin Bufs
  BY ConstantsAssumption DEF IInv, TypeOK
<1>2. /\ h \in PushHW /\ h \in HW /\ h \in live /\ b \in Bufs /\ b # None
      /\ spare[t] = None
      /\ next[b] = SZ /\ \A i \in Slots : data[b][i] = h
  BY <1>1, <1>t DEF IInv, ThreadInv, InClass, HeldInv
<1>3. /\ \A g \in HW : g # h => bufs'[g] = bufs[g]
      /\ bufs'[h] = bufs[h] \cup {b}
      /\ \A c \in Bufs : c # b => locked'[c] = locked[c]
      /\ locked'[b] = TRUE
  BY <1>1, <1>2, <1>t
<1>4. /\ \A u \in Threads : u # t => pc'[u] = pc[u] /\ held'[u] = held[u]
      /\ pc'[t] = "read" /\ held'[t] = None
      /\ \A u \in Threads : Claiming(u)' <=> Claiming(u)
  BY <1>1, <1>t DEF Claiming
<1>5. /\ \A g \in HW : b \notin bufs[g] /\ b # topbuf[g]
      /\ \A u \in Threads : b # spare[u] /\ (u # t => b # held[u])
      /\ \A k \in Trees, g \in HW : b \notin taken[k][g]
  BY <1>2 DEF IInv, ThreadsApart, ThreadsApartFromClasses, TakenApart
<1>6. TypeOK'
  <2>1. /\ bufs' \in [HW -> SUBSET Bufs]
        /\ locked' \in [Bufs -> BOOLEAN]
        /\ held' \in [Threads -> Bufs \cup {None}]
    BY <1>1, <1>2, <1>t
  <2>2. pc' \in [Threads -> PushPC]
    BY <1>1, <1>t DEF PushPC
  <2>. QED
    BY <2>1, <2>2, <1>1 DEF IInv, TypeOK
<1>7. ThreadInv'
  BY <1>1, <1>2, <1>4 DEF IInv, ThreadInv, InClass
<1>8. TreeInv'
  BY <1>1, <1>2, <1>3 DEF IInv, TreeInv, FirstKey
<1>9. ClassesApart'
  BY <1>1, <1>2, <1>3, <1>5 DEF IInv, ClassesApart
<1>10. ThreadsApart'
  BY <1>1, <1>4, <1>5 DEF IInv, ThreadsApart
<1>11. ThreadsApartFromClasses'
  BY <1>1, <1>3, <1>4, <1>5 DEF IInv, ThreadsApartFromClasses
<1>12. TakenApart'
  BY <1>1, <1>3, <1>4, <1>5, <1>t DEF IInv, TakenApart
<1>13. NoBufLost'
  BY <1>1, <1>2, <1>3, <1>4 DEF IInv, NoBufLost
<1>14. HeldInv'
  BY <1>1, <1>3, <1>4, <1>5, <1>t DEF IInv, HeldInv
<1>15. ClaimInv' /\ TopInv' /\ ClaimsDisjoint'
  <2>1. \A g \in HW : topbuf[g] # None => locked'[topbuf[g]] = locked[topbuf[g]]
    BY <1>3, <1>5, <1>t
  <2>2. \A u \in Threads : /\ pc'[u] = "store" <=> pc[u] = "store"
                           /\ pc'[u] = "write" <=> pc[u] = "write"
    BY <1>1, <1>4
  <2>3. ClaimInv' /\ ClaimsDisjoint'
    BY <2>2, <1>1, <1>4 DEF IInv, ClaimInv, ClaimsDisjoint
  <2>4. TopInv'
    <3>1. \A g \in HW : topbuf'[g] # None => ~locked'[topbuf'[g]]
      <4>1. \A g \in HW : topbuf[g] # None => ~locked[topbuf[g]]
        BY DEF IInv, TopInv
      <4>2. topbuf' = topbuf
        BY <1>1
      <4>. QED
        BY <4>1, <4>2, <2>1
    <3>2. ASSUME NEW g \in PushHW, topbuf[g] # None
          PROVE  /\ \A i \in Slots : i < next'[topbuf'[g]] =>
                    \/ data'[topbuf'[g]][i] = g
                    \/ \E u \in Threads : /\ Claiming(u)' /\ hw'[u] = g
                                          /\ from'[u] <= i
                                          /\ i < from'[u] + n'[u]
                 /\ next'[topbuf'[g]] > SZ =>
                    \E u \in Threads : pc'[u] = "store" /\ hw'[u] = g
      <4>1. g \in HW
        BY DEF PushHW
      <4>. QED
        BY <4>1, <3>2, <2>2, <1>1, <1>4 DEF IInv, TopInv
    <3>. QED
      BY <3>1, <3>2, <1>1 DEF TopInv
  <2>. QED
    BY <2>3, <2>4
<1>16. SealedBufsPure'
  <2>1. locked'[b] /\ next'[b] = SZ /\ \A i \in Slots : data'[b][i] = h
    BY <1>1, <1>2, <1>3
  <2>2. \A g \in PushHW : /\ \A c \in bufs[g] : Sealed(c, g) => Sealed(c, g)'
                          /\ \A k \in Trees : \A c \in taken[k][g] :
                                Sealed(c, g) => Sealed(c, g)'
    BY <1>1, <1>3, <1>5, <1>t DEF Sealed, PushHW
  <2>3. ASSUME NEW g \in PushHW, NEW c \in bufs'[g]
        PROVE  Sealed(c, g)'
    <3>1. CASE c \in bufs[g]
      BY <3>1, <2>2 DEF IInv, SealedBufsPure
    <3>2. CASE c \notin bufs[g]
      <4>1. g = h /\ c = b
        BY <3>2, <2>3, <1>3 DEF PushHW
      <4>. QED
        BY <4>1, <2>1 DEF Sealed
    <3>. QED
      BY <3>1, <3>2
  <2>. QED
    BY <2>2, <2>3, <1>1 DEF IInv, SealedBufsPure
<1>. QED
  BY <1>6, <1>7, <1>8, <1>9, <1>10, <1>11, <1>12, <1>13, <1>14, <1>15, <1>16
     DEF IInv

\* Block keeps the invariant.
LEMMA BlockStep ==
  ASSUME IInv, NEW height \in Blocks, Block(height)
  PROVE  IInv'
<1>1. TypeOK'
  BY DEF IInv, TypeOK, PushPC, TreePC, Slots, Block, classVars, bufVars,
       pushVars, treeVars
<1>2. ThreadInv' /\ TreeInv' /\ ClassesApart' /\ ThreadsApart' /\
      ThreadsApartFromClasses' /\ TakenApart' /\ NoBufLost' /\ HeldInv' /\
      ClaimInv' /\ TopInv' /\ ClaimsDisjoint' /\ SealedBufsPure'
  BY ThreadInvFrame, TreeInvFrame, ClassesApartFrame, ThreadsApartFrame,
       ThreadsApartFromClassesFrame, TakenApartFrame, NoBufLostFrame,
       HeldInvFrame, ClaimInvFrame, TopInvFrame, ClaimsDisjointFrame,
       SealedBufsPureFrame DEF IInv, Block, classVars, bufVars, pushVars,
       treeVars
<1>. QED
  BY <1>1, <1>2 DEF IInv

\* ComputeTree keeps the invariant.
LEMMA ComputeTreeStep ==
  ASSUME IInv, NEW k \in Trees, NEW set \in SUBSET PushHW, ComputeTree(k, set)
  PROVE  IInv'
<1>1. TypeOK'
  <2>1. PushHW \subseteq HW
    BY DEF PushHW
  <2>2. best' \in [Trees -> SUBSET HW] /\ scan' \in [Trees -> SUBSET HW]
    BY <2>1 DEF IInv, TypeOK, ComputeTree
  <2>3. cpc' \in [Trees -> TreePC]
    BY DEF IInv, TypeOK, ComputeTree, TreePC
  <2>. QED
    BY <2>2, <2>3 DEF IInv, TypeOK, ComputeTree, storeVars, classVars,
         bufVars, pushVars
<1>2. TreeInv'
  BY DEF IInv, TypeOK, TreeInv, PushHW, ComputeTree, storeVars, classVars,
       bufVars, pushVars
<1>3. ThreadInv' /\ ClassesApart' /\ ThreadsApart' /\
      ThreadsApartFromClasses' /\ TakenApart' /\ NoBufLost' /\ HeldInv' /\
      ClaimInv' /\ TopInv' /\ ClaimsDisjoint' /\ SealedBufsPure'
  BY ThreadInvFrame, ClassesApartFrame, ThreadsApartFrame,
       ThreadsApartFromClassesFrame, TakenApartFrame, NoBufLostFrame,
       HeldInvFrame, ClaimInvFrame, TopInvFrame, ClaimsDisjointFrame,
       SealedBufsPureFrame DEF IInv, ComputeTree, storeVars, classVars,
       bufVars, pushVars
<1>. QED
  BY <1>1, <1>2, <1>3 DEF IInv

\* VisitClass keeps the invariant.
LEMMA VisitClassStep ==
  ASSUME IInv, NEW k \in Trees, VisitClass(k)
  PROVE  IInv'
<1>1. PICK h \in FirstKey(scan[k]) :
         /\ mining' = [mining EXCEPT ![h] = h \in best[k]]
         /\ \/ /\ h \in best[k]
               /\ cpc' = [cpc EXCEPT ![k] = "take"]
               /\ scan' = scan
            \/ /\ h \notin best[k]
               /\ cpc' = cpc
               /\ scan' = [scan EXCEPT ![k] = @ \ {h}]
  BY DEF VisitClass
<1>2. /\ cpc[k] = "scan"
      /\ UNCHANGED <<best, taken, index, solo, bufs, topbuf, live, tip, next,
                     locked, data, pc, hw, n, held, spare, from, todo, cand>>
  BY DEF VisitClass, storeVars, bufVars, pushVars
<1>t. /\ mining \in [HW -> BOOLEAN]
      /\ cpc \in [Trees -> TreePC]
      /\ scan \in [Trees -> SUBSET HW]
      /\ best \in [Trees -> SUBSET HW]
  BY DEF IInv, TypeOK
<1>3. h \in scan[k] /\ h \in HW
  BY <1>t DEF FirstKey
<1>4. \A g \in FirstKey(scan[k]) : g = h
  BY <1>3, <1>t, ConstantsAssumption, FirstKeyUnique
<1>5. TypeOK'
  <2>1. /\ mining' \in [HW -> BOOLEAN]
        /\ scan' \in [Trees -> SUBSET HW]
    BY <1>1, <1>3, <1>t
  <2>2. cpc' \in [Trees -> TreePC]
    BY <1>1, <1>t DEF TreePC
  <2>. QED
    BY <2>1, <2>2, <1>2 DEF IInv, TypeOK
<1>6. TreeInv'
  <2>1. \A j \in Trees : j # k => cpc'[j] = cpc[j] /\ scan'[j] = scan[j]
    BY <1>1, <1>t
  <2>2. /\ cpc'[k] \in {"take", "scan"}
        /\ scan'[k] \subseteq scan[k]
        /\ cpc'[k] = "take" => FirstKey(scan'[k]) \subseteq best[k]
    BY <1>1, <1>2, <1>4, <1>t
  <2>3. \A g \in HW : taken[k][g] # {} => g \notin scan[k]
    BY <1>2 DEF IInv, TreeInv
  <2>4. scan[k] \subseteq live
    BY <1>2 DEF IInv, TreeInv
  <2>5. ASSUME NEW j \in Trees
        PROVE  /\ best'[j] \subseteq PushHW
               /\ cpc'[j] # "idle" => scan'[j] \subseteq live'
               /\ cpc'[j] = "take" => FirstKey(scan'[j]) \subseteq best'[j]
               /\ \A g \in HW : taken'[j][g] # {} =>
                     /\ cpc'[j] # "idle"
                     /\ g \in live'
                     /\ g \in best'[j]
                     /\ cpc'[j] = "return" <=> g \in scan'[j]
    <3>1. CASE j = k
      BY <3>1, <2>2, <2>3, <2>4, <1>2 DEF IInv, TreeInv
    <3>2. CASE j # k
      BY <3>2, <2>1, <1>2 DEF IInv, TreeInv
    <3>. QED
      BY <3>1, <3>2
  <2>6. FirstKey(scan[k])' = FirstKey(scan'[k])
    BY DEF FirstKey
  <2>7. \A j \in Trees : FirstKey(scan[j])' = FirstKey(scan'[j])
    BY DEF FirstKey
  <2>. QED
    BY <2>5, <2>7, <1>2 DEF IInv, TreeInv
<1>7. /\ ThreadInv' /\ ClassesApart' /\ ThreadsApart'
      /\ ThreadsApartFromClasses' /\ TakenApart' /\ NoBufLost'
  BY <1>2, ThreadInvFrame, ClassesApartFrame, ThreadsApartFrame,
     ThreadsApartFromClassesFrame, TakenApartFrame, NoBufLostFrame DEF IInv
<1>8. HeldInv' /\ ClaimInv' /\ TopInv' /\ ClaimsDisjoint' /\ SealedBufsPure'
  BY <1>2, HeldInvFrame, ClaimInvFrame, TopInvFrame, ClaimsDisjointFrame,
     SealedBufsPureFrame DEF IInv
<1>. QED
  BY <1>5, <1>6, <1>7, <1>8 DEF IInv

\* TakeBufs keeps the invariant.
LEMMA TakeBufsStep ==
  ASSUME IInv, NEW k \in Trees, TakeBufs(k)
  PROVE  IInv'
<1>1. PICK h \in FirstKey(scan[k]) :
         /\ taken' = [taken EXCEPT ![k][h] = bufs[h]]
         /\ bufs' = [bufs EXCEPT ![h] = {}]
         /\ scan' = [scan EXCEPT ![k] = @ \ {h}]
  BY DEF TakeBufs
<1>2. /\ cpc[k] = "take"
      /\ cpc' = [cpc EXCEPT ![k] = "scan"]
      /\ UNCHANGED <<best, index, solo, topbuf, mining, live, tip, next,
                     locked, data, pc, hw, n, held, spare, from, todo, cand>>
  BY DEF TakeBufs, storeVars, bufVars, pushVars
<1>t. /\ bufs \in [HW -> SUBSET Bufs]
      /\ cpc \in [Trees -> TreePC]
      /\ scan \in [Trees -> SUBSET HW]
      /\ best \in [Trees -> SUBSET HW]
      /\ taken \in [Trees -> [HW -> SUBSET Bufs]]
  BY DEF IInv, TypeOK
<1>3. /\ h \in scan[k] /\ h \in HW /\ h \in live /\ h \in best[k]
      /\ h \in PushHW /\ taken[k][h] = {}
  <2>1. h \in scan[k] /\ h \in HW
    BY <1>t DEF FirstKey
  <2>. QED
    BY <2>1, <1>2 DEF IInv, TreeInv
<1>4. /\ \A g \in HW : g # h => bufs'[g] = bufs[g]
      /\ bufs'[h] = {}
      /\ \A j \in Trees, g \in HW : j # k \/ g # h => taken'[j][g] = taken[j][g]
      /\ taken'[k][h] = bufs[h]
  BY <1>1, <1>3, <1>t
<1>5. TypeOK'
  <2>1. /\ bufs' \in [HW -> SUBSET Bufs]
        /\ scan' \in [Trees -> SUBSET HW]
    BY <1>1, <1>3, <1>t
  <2>2. taken' \in [Trees -> [HW -> SUBSET Bufs]]
    BY <1>1, <1>3, <1>t
  <2>3. cpc' \in [Trees -> TreePC]
    BY <1>2, <1>t DEF TreePC
  <2>. QED
    BY <2>1, <2>2, <2>3, <1>2 DEF IInv, TypeOK
<1>6. TreeInv'
  <2>1. /\ \A j \in Trees : j # k => cpc'[j] = cpc[j] /\ scan'[j] = scan[j]
        /\ cpc'[k] = "scan" /\ scan'[k] = scan[k] \ {h}
    BY <1>1, <1>2, <1>t
  <2>2. ASSUME NEW j \in Trees
        PROVE  /\ best[j] \subseteq PushHW
               /\ cpc'[j] # "idle" => scan'[j] \subseteq live
               /\ cpc'[j] = "take" => FirstKey(scan'[j]) \subseteq best[j]
               /\ \A g \in HW : taken'[j][g] # {} =>
                     /\ cpc'[j] # "idle"
                     /\ g \in live
                     /\ g \in best[j]
                     /\ cpc'[j] = "return" <=> g \in scan'[j]
    <3>1. CASE j = k
      BY <3>1, <2>1, <1>2, <1>3, <1>4 DEF IInv, TreeInv
    <3>2. CASE j # k
      BY <3>2, <2>1, <1>4 DEF IInv, TreeInv
    <3>. QED
      BY <3>1, <3>2
  <2>3. \A j \in Trees : FirstKey(scan[j])' = FirstKey(scan'[j])
    BY DEF FirstKey
  <2>4. \A g \in HW : g \notin live' => bufs'[g] = {} /\ topbuf'[g] = None
    BY <1>2, <1>4 DEF IInv, TreeInv
  <2>. QED
    BY <2>2, <2>3, <2>4, <1>2 DEF TreeInv
<1>7. ThreadInv' /\ ThreadsApart'
  BY <1>2, ThreadInvFrame, ThreadsApartFrame DEF IInv
<1>8. ClassesApart'
  BY <1>2, <1>4 DEF IInv, ClassesApart
<1>9. ThreadsApartFromClasses'
  BY <1>2, <1>4 DEF IInv, ThreadsApartFromClasses
<1>10. TakenApart'
  <2>1. ASSUME NEW j \in Trees, NEW g \in HW, NEW b \in taken'[j][g]
        PROVE  /\ \A f \in HW : b \notin bufs'[f] /\ b # topbuf'[f]
               /\ \A t \in Threads : b # spare'[t] /\ b # held'[t]
               /\ \A i \in Trees, f \in HW : b \in taken'[i][f] => i = j /\ f = g
    <3>1. CASE j = k /\ g = h
      <4>1. b \in bufs[h] /\ b \in Bufs /\ b # None
        BY <3>1, <2>1, <1>3, <1>4, <1>t, ConstantsAssumption
      <4>2. \A f \in HW : b \notin bufs'[f] /\ b # topbuf'[f]
        BY <4>1, <1>2, <1>3, <1>4 DEF IInv, ClassesApart
      <4>3. \A t \in Threads : b # spare'[t] /\ b # held'[t]
        BY <4>1, <1>2, <1>3 DEF IInv, ThreadsApartFromClasses
      <4>4. \A i \in Trees, f \in HW : b \notin taken[i][f]
        BY <4>1, <1>3 DEF IInv, TakenApart
      <4>. QED
        BY <3>1, <4>2, <4>3, <4>4, <1>4
    <3>2. CASE ~(j = k /\ g = h)
      <4>1. b \in taken[j][g]
        BY <3>2, <2>1, <1>4
      <4>2. b \notin bufs[h]
        BY <4>1, <1>3 DEF IInv, TakenApart
      <4>. QED
        BY <4>1, <4>2, <1>2, <1>4 DEF IInv, TakenApart
    <3>. QED
      BY <3>1, <3>2
  <2>. QED
    BY <2>1 DEF TakenApart
<1>11. NoBufLost'
  <2>1. \A c \in Bufs : \A g \in HW : c \in bufs[g] =>
           c \in bufs'[g] \/ c \in taken'[k][h]
    BY <1>4
  <2>2. \A c \in Bufs : \A j \in Trees, g \in HW : c \in taken[j][g] =>
           c \in taken'[j][g]
    BY <1>3, <1>4
  <2>. QED
    BY <2>1, <2>2, <1>2, <1>3 DEF IInv, NoBufLost
<1>12. HeldInv' /\ ClaimInv' /\ TopInv' /\ ClaimsDisjoint'
  BY <1>2, HeldInvFrame, ClaimInvFrame, TopInvFrame, ClaimsDisjointFrame
     DEF IInv
<1>13. SealedBufsPure'
  BY <1>2, <1>3, <1>4 DEF IInv, SealedBufsPure, Sealed, PushHW
<1>. QED
  BY <1>5, <1>6, <1>7, <1>8, <1>9, <1>10, <1>11, <1>12, <1>13 DEF IInv

\* BuildIndex keeps the invariant.
LEMMA BuildIndexStep ==
  ASSUME IInv, NEW k \in Trees, BuildIndex(k)
  PROVE  IInv'
<1>1. TypeOK'
  BY DEF IInv, TypeOK, PushPC, TreePC, Slots, BuildIndex, storeVars,
       classVars, bufVars, pushVars
<1>2. TreeInv'
  BY DEF IInv, TypeOK, TreeInv, PushHW, BuildIndex, storeVars, classVars,
       bufVars, pushVars
<1>3. ThreadInv' /\ ClassesApart' /\ ThreadsApart' /\
      ThreadsApartFromClasses' /\ TakenApart' /\ NoBufLost' /\ HeldInv' /\
      ClaimInv' /\ TopInv' /\ ClaimsDisjoint' /\ SealedBufsPure'
  BY ThreadInvFrame, ClassesApartFrame, ThreadsApartFrame,
       ThreadsApartFromClassesFrame, TakenApartFrame, NoBufLostFrame,
       HeldInvFrame, ClaimInvFrame, TopInvFrame, ClaimsDisjointFrame,
       SealedBufsPureFrame DEF IInv, BuildIndex, storeVars, classVars,
       bufVars, pushVars
<1>. QED
  BY <1>1, <1>2, <1>3 DEF IInv

\* ReturnBufs keeps the invariant.
LEMMA ReturnBufsStep ==
  ASSUME IInv, NEW k \in Trees, ReturnBufs(k)
  PROVE  IInv'
<1>1. PICK h \in FirstKey(scan[k]) :
         /\ bufs' = [bufs EXCEPT ![h] = @ \cup taken[k][h]]
         /\ taken' = [taken EXCEPT ![k][h] = {}]
         /\ scan' = [scan EXCEPT ![k] = @ \ {h}]
  BY DEF ReturnBufs
<1>2. /\ cpc[k] = "return"
      /\ UNCHANGED <<cpc, best, index, solo, topbuf, mining, live, tip, next,
                     locked, data, pc, hw, n, held, spare, from, todo, cand>>
  BY DEF ReturnBufs, storeVars, bufVars, pushVars
<1>t. /\ bufs \in [HW -> SUBSET Bufs]
      /\ scan \in [Trees -> SUBSET HW]
      /\ taken \in [Trees -> [HW -> SUBSET Bufs]]
  BY DEF IInv, TypeOK
<1>3. h \in scan[k] /\ h \in HW /\ h \in live
  <2>1. h \in scan[k] /\ h \in HW
    BY <1>t DEF FirstKey
  <2>. QED
    BY <2>1, <1>2 DEF IInv, TreeInv
<1>4. /\ \A g \in HW : g # h => bufs'[g] = bufs[g]
      /\ bufs'[h] = bufs[h] \cup taken[k][h]
      /\ \A j \in Trees, g \in HW : j # k \/ g # h => taken'[j][g] = taken[j][g]
      /\ taken'[k][h] = {}
  BY <1>1, <1>3, <1>t
<1>5. TypeOK'
  <2>1. /\ bufs' \in [HW -> SUBSET Bufs]
        /\ scan' \in [Trees -> SUBSET HW]
    BY <1>1, <1>3, <1>t
  <2>2. taken' \in [Trees -> [HW -> SUBSET Bufs]]
    BY <1>1, <1>3, <1>t
  <2>. QED
    BY <2>1, <2>2, <1>2 DEF IInv, TypeOK
<1>6. TreeInv'
  <2>1. /\ \A j \in Trees : j # k => scan'[j] = scan[j]
        /\ scan'[k] = scan[k] \ {h}
    BY <1>1, <1>t
  <2>2. ASSUME NEW j \in Trees
        PROVE  /\ best[j] \subseteq PushHW
               /\ cpc[j] # "idle" => scan'[j] \subseteq live
               /\ cpc[j] = "take" => FirstKey(scan'[j]) \subseteq best[j]
               /\ \A g \in HW : taken'[j][g] # {} =>
                     /\ cpc[j] # "idle"
                     /\ g \in live
                     /\ g \in best[j]
                     /\ cpc[j] = "return" <=> g \in scan'[j]
    <3>1. CASE j = k
      BY <3>1, <2>1, <1>2, <1>3, <1>4 DEF IInv, TreeInv
    <3>2. CASE j # k
      BY <3>2, <2>1, <1>4 DEF IInv, TreeInv
    <3>. QED
      BY <3>1, <3>2
  <2>3. \A j \in Trees : FirstKey(scan[j])' = FirstKey(scan'[j])
    BY DEF FirstKey
  <2>4. \A g \in HW : g \notin live' => bufs'[g] = {} /\ topbuf'[g] = None
    BY <1>2, <1>3, <1>4 DEF IInv, TreeInv
  <2>. QED
    BY <2>2, <2>3, <2>4, <1>2 DEF TreeInv
<1>7. ThreadInv' /\ ThreadsApart'
  BY <1>2, ThreadInvFrame, ThreadsApartFrame DEF IInv
<1>8. \A b \in taken[k][h] : /\ b \in Bufs /\ b # None
                             /\ \A g \in HW : b \notin bufs[g] /\ b # topbuf[g]
                             /\ \A t \in Threads : b # spare[t] /\ b # held[t]
  BY <1>3, <1>t, ConstantsAssumption DEF IInv, TakenApart
<1>9. ClassesApart'
  BY <1>2, <1>3, <1>4, <1>8 DEF IInv, ClassesApart
<1>10. ThreadsApartFromClasses'
  BY <1>2, <1>3, <1>4, <1>8 DEF IInv, ThreadsApartFromClasses
<1>11. TakenApart'
  <2>1. ASSUME NEW j \in Trees, NEW g \in HW, NEW b \in taken'[j][g]
        PROVE  /\ \A f \in HW : b \notin bufs'[f] /\ b # topbuf'[f]
               /\ \A t \in Threads : b # spare'[t] /\ b # held'[t]
               /\ \A i \in Trees, f \in HW : b \in taken'[i][f] => i = j /\ f = g
    <3>1. ~(j = k /\ g = h) /\ b \in taken[j][g]
      BY <2>1, <1>4
    <3>2. b \notin taken[k][h]
      BY <3>1, <1>3 DEF IInv, TakenApart
    <3>. QED
      BY <3>1, <3>2, <1>2, <1>3, <1>4 DEF IInv, TakenApart
  <2>. QED
    BY <2>1 DEF TakenApart
<1>12. NoBufLost'
  <2>1. \A c \in Bufs : \A g \in HW : c \in bufs[g] => c \in bufs'[g]
    BY <1>4
  <2>2. \A c \in Bufs : \A j \in Trees, g \in HW : c \in taken[j][g] =>
           c \in taken'[j][g] \/ c \in bufs'[h]
    BY <1>3, <1>4
  <2>. QED
    BY <2>1, <2>2, <1>2, <1>3 DEF IInv, NoBufLost
<1>13. HeldInv' /\ ClaimInv' /\ TopInv' /\ ClaimsDisjoint'
  BY <1>2, HeldInvFrame, ClaimInvFrame, TopInvFrame, ClaimsDisjointFrame
     DEF IInv
<1>14. SealedBufsPure'
  BY <1>2, <1>3, <1>4 DEF IInv, SealedBufsPure, Sealed, PushHW
<1>. QED
  BY <1>5, <1>6, <1>7, <1>9, <1>10, <1>11, <1>12, <1>13, <1>14 DEF IInv

\* FinishTree keeps the invariant.
LEMMA FinishTreeStep ==
  ASSUME IInv, NEW k \in Trees, FinishTree(k)
  PROVE  IInv'
<1>1. TypeOK'
  BY DEF IInv, TypeOK, PushPC, TreePC, Slots, FinishTree, storeVars,
       classVars, bufVars, pushVars
<1>2. TreeInv'
  BY DEF IInv, TypeOK, TreeInv, PushHW, FinishTree, storeVars, classVars,
       bufVars, pushVars
<1>3. ThreadInv' /\ ClassesApart' /\ ThreadsApart' /\
      ThreadsApartFromClasses' /\ TakenApart' /\ NoBufLost' /\ HeldInv' /\
      ClaimInv' /\ TopInv' /\ ClaimsDisjoint' /\ SealedBufsPure'
  BY ThreadInvFrame, ClassesApartFrame, ThreadsApartFrame,
       ThreadsApartFromClassesFrame, TakenApartFrame, NoBufLostFrame,
       HeldInvFrame, ClaimInvFrame, TopInvFrame, ClaimsDisjointFrame,
       SealedBufsPureFrame DEF IInv, FinishTree, storeVars, classVars,
       bufVars, pushVars
<1>. QED
  BY <1>1, <1>2, <1>3 DEF IInv

-----------------------------------------------------------------------------
\* The invariant holds of the store AnnStore::new builds.
LEMMA InitIInv == Init => IInv
<1> SUFFICES ASSUME Init PROVE IInv
  OBVIOUS
<1>1. PICK b \in Bufs :
         /\ topbuf = [h \in HW |-> IF h = StoreHW THEN b ELSE None]
         /\ bufs = [h \in HW |-> IF h = StoreHW THEN Bufs \ {b} ELSE {}]
  BY DEF Init
<1>2. StoreHW \in HW /\ StoreHW \notin PushHW /\ None \notin Bufs
  BY ConstantsAssumption DEF PushHW
<1>3. TypeOK
  <2>1. bufs \in [HW -> SUBSET Bufs] /\ topbuf \in [HW -> Bufs \cup {None}]
    BY <1>1
  <2>2. /\ tip \in Blocks \cup {NoBlock} /\ live \subseteq HW
        /\ pc \in [Threads -> PushPC] /\ cpc \in [Trees -> TreePC]
    BY <1>2 DEF Init, PushPC, TreePC
  <2>3. /\ n \in [Threads -> 0 .. MaxBatch] /\ hw \in [Threads -> HW]
        /\ next \in [Bufs -> Nat] /\ locked \in [Bufs -> BOOLEAN]
        /\ data \in [Bufs -> [Slots -> HW \cup {None}]]
        /\ from \in [Threads -> Nat] /\ mining \in [HW -> BOOLEAN]
    BY <1>2, ConstantsAssumption DEF Init
  <2>4. /\ held \in [Threads -> Bufs \cup {None}]
        /\ spare \in [Threads -> Bufs \cup {None}]
        /\ todo \in [Threads -> SUBSET HW] /\ cand \in [Threads -> HW \cup {None}]
        /\ best \in [Trees -> SUBSET HW] /\ scan \in [Trees -> SUBSET HW]
        /\ taken \in [Trees -> [HW -> SUBSET Bufs]]
        /\ index \in [Trees -> SUBSET Bufs] /\ solo \in Trees \cup {None}
    BY DEF Init
  <2>. QED
    BY <2>1, <2>2, <2>3, <2>4 DEF TypeOK
<1>4. ThreadInv /\ HeldInv /\ ClaimInv /\ ClaimsDisjoint
  BY DEF Init, ThreadInv, HeldInv, ClaimInv, ClaimsDisjoint, InClass, Claiming
<1>5. TreeInv
  BY <1>1 DEF Init, TreeInv
<1>6. ClassesApart /\ ThreadsApart /\ ThreadsApartFromClasses /\ TakenApart
  BY <1>1, <1>2
     DEF Init, ClassesApart, ThreadsApart, ThreadsApartFromClasses, TakenApart
<1>7. NoBufLost
  BY <1>1, <1>2 DEF NoBufLost
<1>8. TopInv /\ SealedBufsPure
  BY <1>1, <1>2, <1>3 DEF Init, TopInv, SealedBufsPure, PushHW, TypeOK
<1>. QED
  BY <1>3, <1>4, <1>5, <1>6, <1>7, <1>8 DEF IInv

\* A step of something else keeps the invariant.
LEMMA StutterIInv == ASSUME IInv, UNCHANGED vars PROVE IInv'
<1>1. TypeOK'
  BY DEF IInv, TypeOK, vars
<1>2. /\ ThreadInv' /\ TreeInv' /\ ClassesApart' /\ ThreadsApart'
      /\ ThreadsApartFromClasses' /\ TakenApart' /\ NoBufLost'
  BY ThreadInvFrame, TreeInvFrame, ClassesApartFrame, ThreadsApartFrame,
     ThreadsApartFromClassesFrame, TakenApartFrame, NoBufLostFrame
     DEF IInv, vars
<1>3. HeldInv' /\ ClaimInv' /\ TopInv' /\ ClaimsDisjoint' /\ SealedBufsPure'
  BY HeldInvFrame, ClaimInvFrame, TopInvFrame, ClaimsDisjointFrame,
     SealedBufsPureFrame DEF IInv, vars
<1>. QED
  BY <1>1, <1>2, <1>3 DEF IInv

\* The invariant is inductive.
LEMMA NextIInv == IInv /\ [Next]_vars => IInv'
<1> SUFFICES ASSUME IInv, [Next]_vars PROVE IInv'
  OBVIOUS
<1>1. ASSUME NEW t \in Threads, PushStep(t) PROVE IInv'
  BY <1>1, BeginPushStep, TakeSpareStep, StealStartStep, StealStep,
     StealNothingStep, StealFailedStep, FindClassStep, CreateClassStep,
     ClaimStep, NoTopbufStep, StoreSzStep, WriteAnnsStep, NeedTopbufStep,
     RecheckStep, SealStep DEF PushStep
<1>2. ASSUME NEW k \in Trees, ComputeStep(k) PROVE IInv'
  BY <1>2, VisitClassStep, TakeBufsStep, BuildIndexStep, ReturnBufsStep,
     FinishTreeStep DEF ComputeStep
<1>3. ASSUME NEW k \in Trees, NEW set \in SUBSET PushHW, ComputeTree(k, set)
      PROVE IInv'
  BY <1>3, ComputeTreeStep
<1>4. ASSUME NEW height \in Blocks, Block(height) PROVE IInv'
  BY <1>4, BlockStep
<1>5. CASE UNCHANGED vars
  BY <1>5, StutterIInv
<1>. QED
  BY <1>1, <1>2, <1>3, <1>4, <1>5 DEF Next

(***************************************************************************)
(* The inductive invariant holds in every reachable state, for any number  *)
(* of threads, trees, buffers, classes and any ANNBUF_SZ.                  *)
(***************************************************************************)
THEOREM Inductive == Spec => []IInv
  BY InitIInv, NextIInv, PTL DEF Spec

(***************************************************************************)
(* The state of the store keeps its type.                                  *)
(***************************************************************************)
THEOREM TypeCorrect == Spec => []TypeOK
<1>1. IInv => TypeOK
  BY DEF IInv
<1>. QED
  BY <1>1, Inductive, PTL

(***************************************************************************)
(* No AnnBuf is ever lost or owned twice, however pushes, steals and       *)
(* compute_trees interleave.                                               *)
(***************************************************************************)
THEOREM Ownership == Spec => []BufOwnership
<1>1. IInv => BufOwnership
  BY DEF IInv, BufOwnership, NoBufShared
<1>. QED
  BY <1>1, Inductive, PTL

(***************************************************************************)
(* Concurrent AnnBuf::push_anns never claim the same slot.                 *)
(***************************************************************************)
THEOREM DisjointClaims == Spec => []ClaimsDisjoint
<1>1. IInv => ClaimsDisjoint
  BY DEF IInv
<1>. QED
  BY <1>1, Inductive, PTL

(***************************************************************************)
(* A sealed buffer is full of announcements of its own class.              *)
(***************************************************************************)
THEOREM PureBufs == Spec => []SealedBufsPure
<1>1. IInv => SealedBufsPure
  BY DEF IInv
<1>. QED
  BY <1>1, Inductive, PTL

(***************************************************************************)
(* The assertions of AnnBuf::push_anns and AnnBuf::lock never fail.        *)
(***************************************************************************)
THEOREM NoAssertFails == Spec => []AssertsHold
<1>1. IInv => AssertsHold
  <2> SUFFICES ASSUME IInv PROVE AssertsHold
    OBVIOUS
  <2>1. \A h \in live : topbuf[h] # None => ~locked[topbuf[h]]
    BY DEF IInv, TopInv, TypeOK
  <2>2. \A t \in Threads :
           pc[t] = "seal" => ~locked[held[t]] /\ next[held[t]] <= SZ
    BY ConstantsAssumption DEF IInv, HeldInv, ThreadInv
  <2>. QED
    BY <2>1, <2>2 DEF AssertsHold
<1>. QED
  BY <1>1, Inductive, PTL

(***************************************************************************)
(* retain never drops a class that a push or a compute_tree is using.      *)
(***************************************************************************)
THEOREM ClassesStay == Spec => []ClassInUseIsLive
<1>1. IInv => ClassInUseIsLive
  BY DEF IInv, ClassInUseIsLive, ThreadInv, TreeInv
<1>. QED
  BY <1>1, Inductive, PTL

-----------------------------------------------------------------------------
(* The tree computed last.                                                 *)

\* A step of no tree that takes no buffer and no mark from a class that is mined
\* keeps MinedInv.
LEMMA MinedFrame ==
  ASSUME MinedInv, TypeOK, TreeInv,
         UNCHANGED <<cpc, best, scan, taken, index, solo>>,
         \A h \in live : mining[h] /\ bufs[h] # {} =>
            h \in live' /\ mining'[h] /\ bufs[h] \subseteq bufs'[h],
         \A h \in live : (mining[h] /\ \E k \in Trees : cpc[k] # "idle") =>
            h \in live' /\ mining'[h]
  PROVE  MinedInv'
<1>1. /\ taken \in [Trees -> [HW -> SUBSET Bufs]]
      /\ bufs \in [HW -> SUBSET Bufs]
      /\ best \in [Trees -> SUBSET HW]
  BY DEF TypeOK
<1>2. ASSUME NEW k \in Trees, solo = k
      PROVE  /\ \A j \in Trees : j # k => cpc'[j] = "idle"
             /\ \A h \in HW : taken'[k][h] # {} => mining'[h]
             /\ cpc'[k] = "take" => \A h \in FirstKey(scan'[k]) : mining'[h]
  <2>1. \A h \in HW : taken[k][h] # {} => h \in live /\ cpc[k] # "idle" /\ mining[h]
    BY <1>2 DEF MinedInv, TreeInv
  <2>2. cpc[k] = "take" => \A h \in FirstKey(scan[k]) : h \in live /\ mining[h]
    BY <1>2 DEF MinedInv, TreeInv, FirstKey
  <2>. QED
    BY <1>2, <2>1, <2>2 DEF MinedInv
<1>3. ASSUME NEW k \in Trees, solo = k, TreeDone(k)', NEW b \in index'[k]
      PROVE  \E h \in best'[k] :
                h \in live' /\ mining'[h] /\ b \in bufs'[h] \cup taken'[k][h]
  <2>1. PICK h \in best[k] : h \in live /\ mining[h] /\ b \in bufs[h] \cup taken[k][h]
    BY <1>3 DEF MinedInv, TreeDone
  <2>2. h \in HW
    BY <1>1
  <2>3. CASE b \in bufs[h]
    BY <2>1, <2>3
  <2>4. CASE b \in taken[k][h]
    <3>1. cpc[k] # "idle"
      BY <2>2, <2>4 DEF TreeInv
    <3>. QED
      BY <2>1, <2>4, <3>1
  <2>. QED
    BY <2>1, <2>3, <2>4
<1>4. \A k \in Trees : FirstKey(scan[k])' = FirstKey(scan'[k])
  BY DEF FirstKey
<1>. QED
  BY <1>2, <1>3, <1>4 DEF MinedInv

\* No step of a pushing thread disturbs the last tree: steal_buf refuses a class
\* that is mined.
LEMMA MinedPush ==
  ASSUME IInv, MinedInv, NEW t \in Threads, PushStep(t)
  PROVE  MinedInv'
<1>0. TypeOK /\ TreeInv
  BY DEF IInv
<1>1. ASSUME UNCHANGED <<live, bufs, mining, cpc, best, scan, taken, index, solo>>
      PROVE  MinedInv'
  BY <1>0, <1>1, MinedFrame
<1>2. CASE BeginPush(t) \/ TakeSpare(t) \/ StealStart(t) \/ StealNothing(t)
           \/ StealFailed(t) \/ FindClass(t) \/ Claim(t) \/ NoTopbuf(t)
  BY <1>1, <1>2 DEF BeginPush, TakeSpare, StealStart, StealNothing,
     StealFailed, FindClass, Claim, NoTopbuf, storeVars, classVars, treeVars
<1>3. CASE StoreSz(t) \/ WriteAnns(t) \/ NeedTopbuf(t) \/ Recheck(t)
  BY <1>1, <1>3 DEF StoreSz, WriteAnns, NeedTopbuf, Recheck, storeVars,
     classVars, treeVars
<1>4. CASE Steal(t)
  <2>1. PICK h \in NextVictim(t) : \E b \in StealableBufs(h) :
           \/ bufs' = [bufs EXCEPT ![h] = @ \ {b}]
           \/ bufs' = bufs
    BY <1>4 DEF Steal
  <2>2. ~mining[h]
    BY <2>1 DEF StealableBufs
  <2>3. \A g \in HW : mining[g] => bufs'[g] = bufs[g]
    BY <2>1, <2>2, <1>0 DEF TypeOK
  <2>4. UNCHANGED <<live, mining, cpc, best, scan, taken, index, solo>>
    BY <1>4 DEF Steal, storeVars, treeVars
  <2>5. live \subseteq HW
    BY <1>0 DEF TypeOK
  <2>. QED
    BY <1>0, <2>3, <2>4, <2>5, MinedFrame
<1>5. CASE CreateClass(t)
  <2>1. \A h \in live : mining[h] /\ bufs[h] # {} => h \in live' /\ mining'[h]
    BY <1>0, <1>5 DEF CreateClass, IsDead, TypeOK
  <2>2. \A k \in Trees : cpc[k] = "idle"
    BY <1>5 DEF CreateClass, NoStoreReader
  <2>3. UNCHANGED <<bufs, cpc, best, scan, taken, index, solo>>
    BY <1>5 DEF CreateClass, treeVars
  <2>. QED
    BY <1>0, <2>1, <2>2, <2>3, MinedFrame
<1>6. CASE Seal(t)
  <2>1. \A h \in HW : bufs[h] \subseteq bufs'[h]
    BY <1>0, <1>6 DEF Seal, TypeOK
  <2>2. UNCHANGED <<live, mining, cpc, best, scan, taken, index, solo>>
    BY <1>6 DEF Seal, storeVars, treeVars
  <2>3. live \subseteq HW
    BY <1>0 DEF TypeOK
  <2>. QED
    BY <1>0, <2>1, <2>2, <2>3, MinedFrame
<1>. QED
  BY <1>2, <1>3, <1>4, <1>5, <1>6 DEF PushStep

\* compute_tree marks a class before it takes its buffers.
LEMMA MinedCompute ==
  ASSUME IInv, MinedInv, NEW k \in Trees,
         ComputeStep(k) \/ \E set \in SUBSET PushHW : ComputeTree(k, set)
  PROVE  MinedInv'
<1>0. TypeOK /\ TreeInv
  BY DEF IInv
<1>t. /\ mining \in [HW -> BOOLEAN]
      /\ bufs \in [HW -> SUBSET Bufs]
      /\ cpc \in [Trees -> TreePC]
      /\ best \in [Trees -> SUBSET HW]
      /\ scan \in [Trees -> SUBSET HW]
      /\ taken \in [Trees -> [HW -> SUBSET Bufs]]
      /\ index \in [Trees -> SUBSET Bufs]
      /\ live \subseteq HW
  BY <1>0 DEF TypeOK
<1>f. FirstKey(scan[k])' = FirstKey(scan'[k])
  BY DEF FirstKey
<1>i. \A j \in Trees : j # k => cpc'[j] = cpc[j]
  BY <1>t DEF ComputeStep, VisitClass, TakeBufs, BuildIndex, ReturnBufs, FinishTree, ComputeTree
<1>s. SUFFICES ASSUME solo' = k
               PROVE  /\ \A j \in Trees : j # k => cpc[j] = "idle"
                      /\ \A h \in HW : taken'[k][h] # {} => mining'[h]
                      /\ cpc'[k] \in {"return", "idle"} =>
                           \A b \in index'[k] : \E h \in best'[k] :
                             h \in live' /\ mining'[h] /\ b \in bufs'[h] \cup taken'[k][h]
                      /\ cpc'[k] = "take" => \A h \in FirstKey(scan'[k]) : mining'[h]
  <2>1. ASSUME NEW j \in Trees, j # k, solo' = j PROVE FALSE
    <3>1. CASE \E set \in SUBSET PushHW : ComputeTree(k, set)
      BY <2>1, <3>1, ConstantsAssumption DEF ComputeTree
    <3>2. CASE ComputeStep(k)
      <4>1. solo = j /\ cpc[k] # "idle"
        BY <2>1, <3>2
        DEF ComputeStep, VisitClass, TakeBufs, BuildIndex, ReturnBufs, FinishTree
      <4>. QED
        BY <2>1, <4>1 DEF MinedInv
    <3>. QED
      BY <3>1, <3>2
  <2>. QED
    BY <1>f, <1>i, <2>1 DEF MinedInv, TreeDone
<1>2. CASE \E set \in SUBSET PushHW : ComputeTree(k, set)
  <2>1. cpc'[k] = "scan" /\ taken' = taken /\ mining' = mining
    BY <1>2, <1>t DEF ComputeTree, classVars
  <2>2. \A j \in Trees : cpc[j] = "idle"
    BY <1>2, <1>s, ConstantsAssumption DEF ComputeTree
  <2>3. \A h \in HW : taken[k][h] = {}
    BY <1>0, <2>2 DEF TreeInv
  <2>. QED
    BY <2>1, <2>2, <2>3
<1>u. ASSUME ComputeStep(k)
      PROVE  /\ solo = k
             /\ \A j \in Trees : j # k => cpc[j] = "idle"
             /\ \A h \in HW : taken[k][h] # {} => mining[h]
             /\ TreeDone(k) => \A b \in index[k] : \E h \in best[k] :
                   h \in live /\ mining[h] /\ b \in bufs[h] \cup taken[k][h]
             /\ cpc[k] = "take" => \A h \in FirstKey(scan[k]) : mining[h]
  <2>1. solo = k
    BY <1>s, <1>u DEF ComputeStep, VisitClass, TakeBufs, BuildIndex, ReturnBufs, FinishTree
  <2>. QED
    BY <2>1 DEF MinedInv
<1>1. ASSUME ComputeStep(k)
      PROVE  /\ \A j \in Trees : j # k => cpc[j] = "idle"
             /\ \A h \in HW : taken[k][h] # {} => mining[h]
  BY <1>1, <1>u
<1>3. CASE VisitClass(k)
  <2>1. PICK h \in FirstKey(scan[k]) :
         /\ mining' = [mining EXCEPT ![h] = h \in best[k]]
         /\ \/ /\ h \in best[k]
               /\ cpc' = [cpc EXCEPT ![k] = "take"]
               /\ scan' = scan
            \/ /\ h \notin best[k]
               /\ cpc' = cpc
    BY <1>3 DEF VisitClass
  <2>2. cpc[k] = "scan" /\ taken' = taken
    BY <1>3 DEF VisitClass
  <2>3. h \in scan[k] /\ h \in HW
    BY <1>t DEF FirstKey
  <2>4. \A g \in HW : taken[k][g] # {} => g # h
    BY <2>2, <2>3, <1>0 DEF TreeInv
  <2>5. \A g \in FirstKey(scan[k]) : g = h
    BY <1>t, FirstKeyUnique
  <2>. QED
    BY <2>1, <2>2, <2>3, <2>4, <2>5, <1>1, <1>3, <1>t DEF ComputeStep
<1>4. CASE TakeBufs(k)
  <2>1. PICK h \in FirstKey(scan[k]) : taken' = [taken EXCEPT ![k][h] = bufs[h]]
    BY <1>4 DEF TakeBufs
  <2>2. cpc[k] = "take" /\ cpc'[k] = "scan" /\ mining' = mining
    BY <1>4, <1>t DEF TakeBufs
  <2>3. mining[h] /\ h \in HW
    BY <2>2, <1>4, <1>t, <1>u DEF FirstKey, ComputeStep
  <2>. QED
    BY <2>1, <2>2, <2>3, <1>1, <1>4, <1>t DEF ComputeStep
<1>5. CASE BuildIndex(k)
  <2>1. /\ cpc[k] = "scan" /\ cpc'[k] = "return"
        /\ index'[k] = UNION {taken[k][h] : h \in HW}
        /\ UNCHANGED <<best, taken, live, bufs, mining>>
    BY <1>5, <1>t DEF BuildIndex, storeVars, classVars
  <2>2. \A h \in HW : taken[k][h] # {} => h \in best[k] /\ h \in live
    BY <1>0 DEF TreeInv
  <2>3. ASSUME NEW b \in index'[k]
        PROVE  \E h \in best'[k] :
                  h \in live' /\ mining'[h] /\ b \in bufs'[h] \cup taken'[k][h]
    <3>1. PICK h \in HW : b \in taken[k][h]
      BY <2>1
    <3>. QED
      BY <3>1, <2>1, <2>2, <1>1, <1>5 DEF ComputeStep
  <2>. QED
    BY <2>1, <2>3, <1>1, <1>5 DEF ComputeStep
<1>6. CASE ReturnBufs(k)
  <2>1. PICK h \in FirstKey(scan[k]) :
           /\ bufs' = [bufs EXCEPT ![h] = @ \cup taken[k][h]]
           /\ taken' = [taken EXCEPT ![k][h] = {}]
    BY <1>6 DEF ReturnBufs
  <2>2. cpc[k] = "return" /\ UNCHANGED <<cpc, best, index, mining, live>>
    BY <1>6 DEF ReturnBufs, storeVars
  <2>3. h \in HW
    BY <1>t DEF FirstKey
  <2>4. \A g \in HW : /\ bufs[g] \cup taken[k][g] \subseteq bufs'[g] \cup taken'[k][g]
                      /\ taken'[k][g] # {} => taken[k][g] # {}
    BY <2>1, <2>3, <1>t
  <2>5. \A b \in index[k] : \E g \in best[k] :
           g \in live /\ mining[g] /\ b \in bufs[g] \cup taken[k][g]
    BY <2>2, <1>6, <1>u DEF TreeDone, ComputeStep
  <2>6. best[k] \subseteq HW
    BY <1>t
  <2>. QED
    BY <2>2, <2>4, <2>5, <2>6, <1>1, <1>6 DEF ComputeStep
<1>7. CASE FinishTree(k)
  <2>1. /\ cpc[k] = "return" /\ cpc'[k] = "idle"
        /\ UNCHANGED <<best, taken, index, live, bufs, mining>>
    BY <1>7, <1>t DEF FinishTree, storeVars, classVars
  <2>. QED
    BY <2>1, <1>1, <1>7, <1>u DEF TreeDone, ComputeStep
<1>. QED
  BY <1>2, <1>3, <1>4, <1>5, <1>6, <1>7 DEF ComputeStep

(***************************************************************************)
(* However many trees there are: what the tree that was computed last, and *)
(* by itself, mines is neither stolen nor overwritten before the next      *)
(* compute_tree begins.                                                    *)
(***************************************************************************)
THEOREM LastTree == Spec => []LastTreeIntact
<1>1. Init => MinedInv
  BY ConstantsAssumption DEF Init, MinedInv
<1>2. IInv /\ MinedInv /\ [Next]_vars => MinedInv'
  <2> SUFFICES ASSUME IInv, MinedInv, [Next]_vars PROVE MinedInv'
    OBVIOUS
  <2>1. TypeOK /\ TreeInv
    BY DEF IInv
  <2>2. ASSUME UNCHANGED <<live, bufs, mining, cpc, best, scan, taken, index, solo>>
        PROVE  MinedInv'
    BY <2>1, <2>2, MinedFrame
  <2>3. ASSUME NEW height \in Blocks, Block(height) PROVE MinedInv'
    BY <2>2, <2>3 DEF Block, classVars, treeVars
  <2>4. CASE UNCHANGED vars
    BY <2>2, <2>4 DEF vars
  <2>. QED
    BY <2>3, <2>4, MinedPush, MinedCompute DEF Next
<1>3. IInv /\ MinedInv => LastTreeIntact
  <2> SUFFICES ASSUME IInv, MinedInv PROVE LastTreeIntact
    OBVIOUS
  <2>1. \A k \in Trees : best[k] \subseteq PushHW
    BY DEF IInv, TreeInv
  <2>. QED
    BY <2>1 DEF MinedInv, LastTreeIntact, IInv, SealedBufsPure
<1>. QED
  BY <1>1, <1>2, <1>3, Inductive, PTL DEF Spec

=============================================================================
