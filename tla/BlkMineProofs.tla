--------------------------- MODULE BlkMineProofs ---------------------------
(***************************************************************************)
(* That the block miner uses its announcement store as the store allows,   *)
(* whatever its two tasks and its workers do, and that mine() is given a   *)
(* header and an index table which belong together.                        *)
(***************************************************************************)
EXTENDS BlkMine, AnnStoreProofs, FiniteSetTheorems

\* The class that owns the buffers at first has no announcements.
StoreEmpty == \A b \in bufs[StoreHW] : next[b] = 0

\* What on_work2 knows at each of its points, and build_off_tree within it.
TaskInv ==
    \A w \in Tasks :
        /\ wpc[w] # "idle" => height[w] \in Heights
        /\ off[w] => wpc[w] \in {"tree", "lock", "compute", "computing", "reload", "dead"}
        /\ wpc[w] = "reload" => off[w]
        /\ set[w] \subseteq PushHW
        /\ wpc[w] = "compute" \/ (off[w] /\ wpc[w] \in {"tree", "lock"}) => set[w] # {}

BlkInv == IInv /\ StoreEmpty /\ MineTypeOK /\ TaskInv

\* Where a task has a tree locked, and what is known of the trees: the root hash
\* is that of the index table, and there is none while the table is made.
Holds(w) == wpc[w] \in {"check", "compute", "computing", "await", "mine", "wait", "set", "drop"}
LockInv == \A w \in Tasks : Holds(w) => owner[tree[w]] = w
CommitInv ==
    /\ \A k \in Trees : commit[k] # {} => commit[k] = index[k]
    /\ \A k \in Trees : cpc[k] # "idle" => \E w \in Tasks : wpc[w] = "computing" /\ tree[w] = k
    /\ \A w \in Tasks : wpc[w] \in {"compute", "computing"} => commit[tree[w]] = {}
    /\ \A w \in Tasks : wpc[w] \in {"await", "mine", "wait", "set"} => commit[tree[w]] # {}

-----------------------------------------------------------------------------
(* The classes that are mined.                                             *)

\* No step puts an announcement into the class that owns the buffers at first.
LEMMA StoreEmptyStep == IInv /\ StoreEmpty /\ [Next]_vars => StoreEmpty'
<1> SUFFICES ASSUME IInv, StoreEmpty, [Next]_vars PROVE StoreEmpty'
  OBVIOUS
<1>1. /\ bufs \in [HW -> SUBSET Bufs] /\ next \in [Bufs -> Nat] /\ StoreHW \in HW
      /\ StoreHW \notin PushHW /\ None \notin Bufs /\ topbuf \in [HW -> Bufs \cup {None}]
  BY ConstantsAssumption DEF IInv, TypeOK, PushHW
<1>2. /\ \A g \in HW : topbuf[g] \notin bufs[StoreHW]
      /\ \A t \in Threads : pc[t] # "idle" => hw[t] \in PushHW /\ hw[t] \in HW
      /\ \A t \in Threads : Claiming(t) => topbuf[hw[t]] # None
  BY <1>1 DEF IInv, ClassesApart, ThreadInv, PushHW
<1>3. CASE UNCHANGED <<bufs, next>>
  BY <1>3 DEF StoreEmpty
<1>4. ASSUME NEW t \in Threads, PushStep(t) PROVE StoreEmpty'
  <2>1. CASE Steal(t)
    <3>1. PICK h \in NextVictim(t) : \E b \in StealableBufs(h) :
            /\ IF b \in bufs[h]
               THEN bufs' = [bufs EXCEPT ![h] = @ \ {b}]
               ELSE UNCHANGED bufs
            /\ next' = [next EXCEPT ![b] = 0]
      BY <2>1 DEF Steal
    <3>2. PICK b : /\ bufs' = bufs \/ bufs' = [bufs EXCEPT ![h] = @ \ {b}]
                   /\ next' = [next EXCEPT ![b] = 0]
      BY <3>1
    <3>3. bufs'[StoreHW] \subseteq bufs[StoreHW] /\ bufs[StoreHW] \subseteq Bufs
      BY <1>1, <3>2
    <3>4. \A x \in bufs[StoreHW] : next'[x] = next[x] \/ next'[x] = 0
      BY <1>1, <3>2, <3>3
    <3> QED BY <3>3, <3>4 DEF StoreEmpty
  <2>2. ASSUME NEW b, b \notin bufs[StoreHW], NEW x, next' = [next EXCEPT ![b] = x], bufs' = bufs
        PROVE  StoreEmpty'
    BY <1>1, <2>2 DEF StoreEmpty
  <2>3. CASE Claim(t) \/ StoreSz(t) \/ Recheck(t)
    <3>1. hw[t] \in HW
      BY <1>2, <2>3 DEF Claim, StoreSz, Recheck
    <3>2. bufs' = bufs
      BY <2>3 DEF Claim, StoreSz, Recheck, classVars
    <3>3. next' = next \/ \E x : next' = [next EXCEPT ![topbuf[hw[t]]] = x]
      BY <2>3 DEF Claim, StoreSz, Recheck
    <3> QED BY <1>2, <1>3, <2>2, <3>1, <3>2, <3>3
  <2>4. CASE Seal(t)
    <3>1. /\ hw[t] \in PushHW /\ next' = next
          /\ bufs' = [bufs EXCEPT ![hw[t]] = @ \cup {held[t]}]
      BY <1>2, <2>4 DEF Seal
    <3>2. bufs'[StoreHW] = bufs[StoreHW]
      BY <1>1, <3>1
    <3> QED BY <3>1, <3>2 DEF StoreEmpty
  <2>5. CASE BeginPush(t) \/ TakeSpare(t) \/ StealStart(t) \/ StealNothing(t) \/ StealFailed(t)
    BY <1>3, <2>5 DEF BeginPush, TakeSpare, StealStart, StealNothing, StealFailed, classVars, bufVars
  <2>6. CASE FindClass(t) \/ CreateClass(t) \/ NoTopbuf(t) \/ WriteAnns(t) \/ NeedTopbuf(t)
    BY <1>3, <2>6 DEF FindClass, CreateClass, NoTopbuf, WriteAnns, NeedTopbuf, classVars, bufVars
  <2> QED BY <1>4, <2>1, <2>3, <2>4, <2>5, <2>6 DEF PushStep
<1>5. ASSUME NEW k \in Trees, ComputeStep(k) PROVE StoreEmpty'
  <2>1. CASE TakeBufs(k)
    <3>1. PICK h : bufs' = [bufs EXCEPT ![h] = {}]
      BY <2>1 DEF TakeBufs
    <3>2. bufs'[StoreHW] \subseteq bufs[StoreHW] /\ next' = next
      BY <1>1, <2>1, <3>1 DEF TakeBufs, bufVars
    <3> QED BY <3>2 DEF StoreEmpty
  <2>2. CASE ReturnBufs(k)
    <3>1. PICK h : bufs' = [bufs EXCEPT ![h] = @ \cup taken[k][h]]
      BY <2>2 DEF ReturnBufs
    <3>2. taken[k][StoreHW] = {}
      BY <1>1 DEF IInv, TreeInv
    <3>3. bufs'[StoreHW] = bufs[StoreHW] /\ next' = next
      BY <1>1, <2>2, <3>1, <3>2 DEF ReturnBufs, bufVars
    <3> QED BY <3>3 DEF StoreEmpty
  <2>3. CASE VisitClass(k) \/ BuildIndex(k) \/ FinishTree(k)
    BY <1>3, <2>3 DEF VisitClass, BuildIndex, FinishTree, classVars, bufVars
  <2> QED BY <1>5, <2>1, <2>2, <2>3 DEF ComputeStep
<1>6. ASSUME NEW k, NEW s, ComputeTree(k, s) PROVE StoreEmpty'
  BY <1>3, <1>6 DEF ComputeTree, classVars, bufVars
<1>7. ASSUME NEW x, Block(x) PROVE StoreEmpty'
  BY <1>3, <1>7 DEF Block, classVars, bufVars
<1>8. CASE UNCHANGED vars
  BY <1>3, <1>8 DEF vars
<1> QED BY <1>4, <1>5, <1>6, <1>7, <1>8 DEF Next

\* reload_classes never chooses the class that owns the buffers at first.
LEMMA ReloadedClasses ==
    ASSUME IInv, StoreEmpty, NEW x
    PROVE  ReloadClasses(x) \subseteq PushHW
<1>1. /\ live \subseteq HW /\ next \in [Bufs -> Nat] /\ SZ \in Nat
  BY ConstantsAssumption DEF IInv, TypeOK
<1>2. AnnCount({StoreHW}) = 0
  <2> DEFINE S == {a \in {StoreHW} \X Bufs \X Slots : a[2] \in bufs[a[1]] /\ a[3] < next[a[2]]}
  <2>1. S = {}
    <3> SUFFICES ASSUME NEW b \in Bufs, NEW i \in Slots, b \in bufs[StoreHW], i < next[b]
                 PROVE  FALSE
      OBVIOUS
    <3> QED BY <1>1 DEF StoreEmpty, Slots
  <2>2. Cardinality({}) = 0
    BY FS_EmptySet
  <2> QED BY <2>1, <2>2 DEF AnnCount
<1>3. ~CanMine(StoreHW, x)
  BY <1>2 DEF CanMine
<1>4. Ready(x) \subseteq PushHW
  BY <1>1, <1>3 DEF Ready, PushHW
<1>5. \A h : UpTo(h, x) \subseteq Ready(x)
  BY DEF UpTo
<1> QED BY <1>4, <1>5 DEF ReloadClasses

-----------------------------------------------------------------------------
(* The store below the block miner.                                        *)

\* What a task does to the store, the store allows.
LEMMA TaskImplements ==
    ASSUME BlkInv, NEW w \in Tasks, TaskStep(w) PROVE [Next]_vars
<1>1. MineTypeOK /\ TaskInv
  BY DEF BlkInv
<1>2. CASE TellStore(w)
  <2>1. Block(height[w] - 1) /\ height[w] \in Heights
    BY <1>1, <1>2 DEF TellStore, TaskInv
  <2>2. height[w] - 1 \in Blocks
    BY <2>1, MineAssumption
  <2> QED BY <2>1, <2>2 DEF Next
<1>3. CASE StartCompute(w)
  <2>1. ComputeTree(tree[w], set[w]) /\ tree[w] \in Trees /\ set[w] \in (SUBSET PushHW) \ {{}}
    <3>1. ComputeTree(tree[w], set[w]) /\ wpc[w] = "compute"
      BY <1>3 DEF StartCompute
    <3>2. set[w] \subseteq PushHW /\ set[w] # {} /\ tree[w] \in Trees
      BY <1>1, <3>1 DEF TaskInv, MineTypeOK
    <3> QED BY <3>1, <3>2
  <2> QED BY <2>1 DEF Next
<1>4. CASE FinishCompute(w)
  <2>1. FinishTree(tree[w]) /\ tree[w] \in Trees
    BY <1>1, <1>4 DEF FinishCompute, MineTypeOK
  <2> QED BY <2>1 DEF Next, ComputeStep
<1>5. CASE UNCHANGED vars
  BY <1>5
<1> QED BY <1>2, <1>3, <1>4, <1>5
  DEF TaskStep, RequestStop, GetOffTree, LockTree, ReuseTree, RebuildTree, NothingToMine,
      AwaitStop, MineStop, MineWait, MineSet, DropTree, ReplaceMining, DryRun, DryProof, OffReload

\* Every step of the block miner is one of the store, or leaves it alone.
LEMMA StepImplements == BlkInv /\ [BlkNext]_blkVars => [Next]_vars
<1> SUFFICES ASSUME BlkInv, [BlkNext]_blkVars PROVE [Next]_vars
  OBVIOUS
<1>1. CASE StoreStep
  BY <1>1 DEF StoreStep, FillTree, Next, ComputeStep
<1>2. ASSUME StatsRestart \/ \E h \in Heights : UpdateWork(h) PROVE [Next]_vars
  BY <1>2 DEF StatsRestart, UpdateWork
<1>3. ASSUME NEW v, WorkerStep(v) PROVE [Next]_vars
  BY <1>3 DEF WorkerStep, WorkerStart, WorkerStop, FindShare, MakeShare, ShareTree, MakeProof
<1>4. CASE UNCHANGED blkVars
  BY <1>4 DEF blkVars
<1> QED BY <1>1, <1>2, <1>3, <1>4, TaskImplements DEF BlkNext

-----------------------------------------------------------------------------
(* Types and tasks.                                                        *)

\* What a task is given to mine.
LEMMA NewMiningType ==
    ASSUME MineTypeOK, NEW w \in Tasks PROVE NewMining(w) \in Mining
BY DEF MineTypeOK, NewMining, Mining

\* The other tree is one of the two.
LEMMA OffTreeType == ASSUME MineTypeOK PROVE OffTree \in Trees
<1>1. cur.tree \in {0, 1} /\ Trees = {0, 1}
  BY MineAssumption DEF MineTypeOK, Mining
<1> QED BY <1>1 DEF OffTree

\* The types, step by step.
LEMMA TaskTypes == ASSUME BlkInv, NEW w \in Tasks, TaskStep(w) PROVE MineTypeOK'
<1> USE DEF GoTo, treeLockVars, minerVars
<1>1. /\ MineTypeOK /\ TaskInv /\ index \in [Trees -> SUBSET Bufs]
      /\ tree[w] \in Trees /\ off[w] \in BOOLEAN /\ cur \in Mining /\ new[w] \in Mining
      /\ OffTree \in Trees /\ NewMining(w) \in Mining
  BY OffTreeType, NewMiningType DEF BlkInv, IInv, TypeOK, MineTypeOK
<1>2. \A x : ReloadClasses(x) \in SUBSET HW
  BY ReloadedClasses DEF BlkInv, PushHW
<1>3. /\ None \in Tasks \cup {None} /\ w \in Tasks \cup {None}
      /\ {"idle", "stop", "block", "tree", "lock", "check", "compute", "computing", "await", "mine",
          "wait", "set", "drop", "replace", "dry", "drylock", "reload", "dead"} = TaskPC
  BY DEF TaskPC
<1>4. CASE RequestStop(w) \/ TellStore(w)
  BY <1>1, <1>4 DEF RequestStop, TellStore, MineTypeOK, TaskPC
<1>5. CASE GetOffTree(w) \/ ReuseTree(w) \/ AwaitStop(w) \/ MineStop(w) \/ MineWait(w)
  BY <1>1, <1>5 DEF GetOffTree, ReuseTree, AwaitStop, MineStop, MineWait, MineTypeOK, TaskPC
<1>6. CASE LockTree(w)
  BY <1>1, <1>6 DEF LockTree, Reset, MineTypeOK, TaskPC
<1>7. CASE RebuildTree(w)
  BY <1>1, <1>2, <1>7 DEF RebuildTree, Reset, MineTypeOK, TaskPC
<1>8. CASE NothingToMine(w) \/ DropTree(w)
  BY <1>1, <1>8 DEF NothingToMine, DropTree, MineTypeOK, TaskPC
<1>9. CASE StartCompute(w)
  BY <1>1, <1>9 DEF StartCompute, MineTypeOK, TaskPC
<1>10. CASE FinishCompute(w)
  <2>1. /\ UNCHANGED <<work, cur, req, job, vpc, vtree, height, tree, set, new>>
        /\ owner' = [owner EXCEPT ![tree[w]] = IF KeepsTree(w) THEN @ ELSE None]
    BY <1>10 DEF FinishCompute
  <2>2. owner' \in [Trees -> Tasks \cup {None}]
    BY <1>1, <2>1 DEF MineTypeOK
  <2>3. CASE index[tree[w]] = {}
    BY <1>1, <1>10, <2>1, <2>2, <2>3 DEF FinishCompute, MineTypeOK, TaskPC
  <2>4. CASE index[tree[w]] # {}
    <3>1. /\ commit' = [commit EXCEPT ![tree[w]] = index[tree[w]]] /\ UNCHANGED poisoned
          /\ wpc' = [wpc EXCEPT ![w] = IF off[w] THEN "idle" ELSE "await"]
          /\ off' = [off EXCEPT ![w] = FALSE]
      BY <1>10, <2>4 DEF FinishCompute
    <3>2. commit' \in [Trees -> SUBSET Bufs] /\ off' \in [Tasks -> BOOLEAN]
      BY <1>1, <3>1 DEF MineTypeOK
    <3>3. wpc' \in [Tasks -> TaskPC]
      BY <1>1, <3>1 DEF MineTypeOK, TaskPC
    <3> QED BY <1>1, <2>1, <2>2, <3>1, <3>2, <3>3 DEF MineTypeOK
  <2> QED BY <2>3, <2>4
<1>11. CASE MineSet(w)
  BY <1>1, <1>11 DEF MineSet, MineTypeOK, TaskPC
<1>12. CASE ReplaceMining(w) \/ DryRun(w) \/ DryProof(w)
  <2>1. NoMining \in Mining /\ cur.tree \in Trees
    BY <1>1, MineAssumption DEF NoMining, Mining
  <2>2. CASE ReplaceMining(w) \/ DryRun(w)
    BY <1>1, <2>1, <2>2 DEF ReplaceMining, DryRun, MineTypeOK, TaskPC
  <2>3. CASE DryProof(w)
    <3>1. /\ UNCHANGED <<work, cur, owner, poisoned, commit, req, job, vpc, vtree>>
          /\ UNCHANGED <<height, tree, set, new>>
          /\ wpc' \in {[wpc EXCEPT ![w] = "dead"], [wpc EXCEPT ![w] = "reload"]}
          /\ off' \in {off, [off EXCEPT ![w] = TRUE]}
      BY <2>3 DEF DryProof
    <3>2. wpc' \in [Tasks -> TaskPC] /\ off' \in [Tasks -> BOOLEAN]
      BY <1>1, <3>1 DEF MineTypeOK, TaskPC
    <3> QED BY <1>1, <3>1, <3>2 DEF MineTypeOK
  <2> QED BY <1>12, <2>2, <2>3
<1>13. CASE OffReload(w)
  BY <1>1, <1>2, <1>13, ZenonT(40) DEF OffReload, MineTypeOK, TaskPC
<1> QED BY <1>4, <1>5, <1>6, <1>7, <1>8, <1>9, <1>10, <1>11, <1>12, <1>13
  DEF TaskStep

\* What a task knows, step by step.
LEMMA TaskKnows == ASSUME BlkInv, NEW w \in Tasks, TaskStep(w) PROVE TaskInv'
<1> USE DEF GoTo, treeLockVars, minerVars
<1>1. /\ MineTypeOK /\ TaskInv
  BY DEF BlkInv
<1>2. \A x : ReloadClasses(x) \in SUBSET PushHW
  BY ReloadedClasses DEF BlkInv
<1>4. CASE RequestStop(w) \/ TellStore(w)
  BY <1>1, <1>4 DEF RequestStop, TellStore, MineTypeOK, TaskInv
<1>5. CASE GetOffTree(w) \/ ReuseTree(w) \/ AwaitStop(w) \/ MineStop(w) \/ MineWait(w)
  BY <1>1, <1>5 DEF GetOffTree, ReuseTree, AwaitStop, MineStop, MineWait, MineTypeOK, TaskInv
<1>6. CASE LockTree(w)
  BY <1>1, <1>6 DEF LockTree, MineTypeOK, TaskInv
<1>7. CASE RebuildTree(w)
  BY <1>1, <1>2, <1>7 DEF RebuildTree, MineTypeOK, TaskInv
<1>8. CASE NothingToMine(w) \/ DropTree(w)
  BY <1>1, <1>8 DEF NothingToMine, DropTree, MineTypeOK, TaskInv
<1>9. CASE StartCompute(w)
  BY <1>1, <1>9 DEF StartCompute, MineTypeOK, TaskInv
<1>10. CASE FinishCompute(w)
  BY <1>1, <1>10 DEF FinishCompute, MineTypeOK, TaskInv
<1>11. CASE MineSet(w)
  BY <1>1, <1>11 DEF MineSet, MineTypeOK, TaskInv
<1>12. CASE ReplaceMining(w) \/ DryRun(w) \/ DryProof(w)
  BY <1>1, <1>12 DEF ReplaceMining, DryRun, DryProof, MineTypeOK, TaskInv
<1>13. CASE OffReload(w)
  BY <1>1, <1>2, <1>13 DEF OffReload, MineTypeOK, TaskInv
<1> QED BY <1>4, <1>5, <1>6, <1>7, <1>8, <1>9, <1>10, <1>11, <1>12, <1>13 DEF TaskStep

\* New work, and old work once more.
LEMMA UpdateWorkTypes ==
    ASSUME BlkInv, StatsRestart \/ \E h \in Heights : UpdateWork(h) PROVE MineTypeOK' /\ TaskInv'
<1>1. /\ MineTypeOK /\ TaskInv /\ Updater \in Tasks /\ Stats \in Tasks
      /\ work # NoBlock => work \in Heights
  BY DEF BlkInv, Tasks, MineTypeOK
<1>2. MineTypeOK'
  BY <1>1 DEF UpdateWork, StatsRestart, MineTypeOK, TaskPC, GoTo, treeLockVars, minerVars
<1>3. TaskInv'
  BY <1>1 DEF UpdateWork, StatsRestart, MineTypeOK, TaskInv, GoTo
<1> QED BY <1>2, <1>3

\* The workers only move themselves.
LEMMA WorkerTypes ==
    ASSUME BlkInv, NEW v \in Workers, WorkerStep(v) PROVE MineTypeOK' /\ TaskInv'
<1>1. /\ MineTypeOK /\ TaskInv /\ cur.tree \in Trees
  BY DEF BlkInv, MineTypeOK, Mining
<1>2. UNCHANGED <<work, cur, owner, poisoned, commit, wpc, height, off, tree, set, new, req, job>>
  BY DEF WorkerStep, WorkerStart, WorkerStop, FindShare, MakeShare, ShareTree, MakeProof, treeLockVars, taskVars
<1>3. vpc' \in [Workers -> WorkerPC]
  BY <1>1
  DEF WorkerStep, WorkerStart, WorkerStop, FindShare, MakeShare, ShareTree, MakeProof, WorkerGoes, MineTypeOK,
      WorkerPC
<1>4. vtree' \in [Workers -> Trees]
  BY <1>1, MineAssumption
  DEF WorkerStep, WorkerStart, WorkerStop, FindShare, MakeShare, ShareTree, MakeProof, MineTypeOK
<1>5. MineTypeOK'
  BY <1>1, <1>2, <1>3, <1>4 DEF MineTypeOK
<1>6. TaskInv'
  BY <1>1, <1>2 DEF TaskInv
<1> QED BY <1>5, <1>6

\* Nothing is mined at first.
LEMMA BlkInvInit == BlkInit => BlkInv
<1> SUFFICES ASSUME Init, MineInit PROVE BlkInv
  BY DEF BlkInit
<1>1. IInv
  BY InitIInv
<1>2. StoreEmpty
  BY <1>1 DEF Init, StoreEmpty, IInv, TypeOK
<1>3. NoMining \in Mining /\ 0 \in Trees
  BY MineAssumption DEF NoMining, Mining
<1>4. MineTypeOK
  BY <1>3 DEF MineInit, MineTypeOK, TaskPC, WorkerPC
<1>5. TaskInv
  BY DEF MineInit, TaskInv
<1> QED BY <1>1, <1>2, <1>4, <1>5 DEF BlkInv

\* Every step keeps the types and what the tasks know.
LEMMA BlkInvStep == BlkInv /\ [BlkNext]_blkVars => BlkInv'
<1> SUFFICES ASSUME BlkInv, [BlkNext]_blkVars PROVE BlkInv'
  OBVIOUS
<1>1. [Next]_vars
  BY StepImplements
<1>2. IInv' /\ StoreEmpty'
  BY <1>1, NextIInv, StoreEmptyStep DEF BlkInv
<1>3. ASSUME UNCHANGED mineVars PROVE MineTypeOK' /\ TaskInv'
  BY <1>3 DEF mineVars, BlkInv, MineTypeOK, TaskInv
<1>4. MineTypeOK' /\ TaskInv'
  BY <1>3, UpdateWorkTypes, WorkerTypes, TaskTypes, TaskKnows DEF BlkNext, StoreStep, blkVars, BlkInv
<1> QED BY <1>2, <1>4 DEF BlkInv

\* The state of the block miner keeps its type: get_tree gives one of the two
\* trees, whoever asks.
THEOREM MineTypeCorrect == BlkSpec => []MineTypeOK
<1>1. BlkInv => MineTypeOK
  BY DEF BlkInv
<1> QED BY <1>1, BlkInvInit, BlkInvStep, PTL DEF BlkSpec

\* The block miner implements the store's specification: it tells it of blocks
\* it knows, and computes trees of classes that announcements were pushed into.
THEOREM StoreImplemented == BlkSpec => ImplementsStore
<1>1. BlkInit => Init
  BY DEF BlkInit
<1> QED BY <1>1, BlkInvInit, BlkInvStep, StepImplements, PTL DEF BlkSpec, ImplementsStore, Spec

\* So no AnnBuf is lost or in two places while blocks are mined, however many
\* tasks run on_work2.
THEOREM OwnershipWhileMining == BlkSpec => []BufOwnership
BY StoreImplemented, Ownership, PTL DEF ImplementsStore

\* And what the workers are given is sealed and of one class.
THEOREM PureWhileMining == BlkSpec => []SealedBufsPure
BY StoreImplemented, PureBufs, PTL DEF ImplementsStore

-----------------------------------------------------------------------------
(* The header and the index table.                                         *)

\* Steps after which every task is where it was, or has no tree locked, and no
\* tree has changed.
LEMMA HeaderFrame ==
    ASSUME LockInv, CommitInv, UNCHANGED <<owner, commit, index, cpc>>,
           \A w \in Tasks : \/ wpc'[w] = wpc[w] /\ tree'[w] = tree[w]
                            \/ ~Holds(w) /\ ~Holds(w)'
    PROVE  LockInv' /\ CommitInv'
<1>1. LockInv'
  BY DEF LockInv, Holds
<1>2. ASSUME NEW k \in Trees, cpc[k] # "idle"
      PROVE  \E w \in Tasks : wpc'[w] = "computing" /\ tree'[w] = k
  <2>1. PICK w \in Tasks : wpc[w] = "computing" /\ tree[w] = k
    BY <1>2 DEF CommitInv
  <2> QED BY <2>1 DEF Holds
<1>3. CommitInv'
  BY <1>2 DEF CommitInv, Holds
<1> QED BY <1>1, <1>3

\* The steps of a task that have to do with the trees.
LEMMA TaskHeader ==
    ASSUME BlkInv, LockInv, CommitInv, NEW w \in Tasks, TaskStep(w) PROVE LockInv' /\ CommitInv'
<1> USE DEF GoTo, treeLockVars
<1>1. /\ MineTypeOK /\ TaskInv /\ None \notin Tasks /\ tree[w] \in Trees
      /\ cpc \in [Trees -> TreePC] /\ index \in [Trees -> SUBSET Bufs]
  BY MineAssumption DEF BlkInv, IInv, TypeOK, MineTypeOK
<1>2. CASE RequestStop(w) \/ GetOffTree(w) \/ ReplaceMining(w) \/ DryRun(w)
  <2>1. /\ UNCHANGED <<owner, commit, index, cpc>> /\ ~Holds(w)
        /\ \A u \in Tasks : u # w => wpc'[u] = wpc[u] /\ tree'[u] = tree[u]
        /\ wpc'[w] \in {"block", "lock", "dry", "drylock"}
    BY <1>1, <1>2 DEF RequestStop, GetOffTree, ReplaceMining, DryRun, MineTypeOK, Holds, vars
  <2> QED BY <2>1, HeaderFrame DEF Holds
<1>3. CASE TellStore(w)
  <2>1. /\ UNCHANGED <<owner, commit, index, cpc, tree>> /\ wpc' = [wpc EXCEPT ![w] = "tree"]
        /\ wpc[w] = "block"
    BY <1>3 DEF TellStore, Block, treeVars
  <2> QED BY <1>1, <2>1, HeaderFrame DEF Holds, MineTypeOK
<1>4. CASE DryProof(w) \/ OffReload(w)
  <2>1. /\ UNCHANGED <<owner, commit, index, cpc, tree>> /\ wpc[w] \in {"drylock", "reload"}
        /\ \E x \in {"dead", "reload", "idle", "tree"} : wpc' = [wpc EXCEPT ![w] = x]
    BY <1>4 DEF DryProof, OffReload, vars
  <2> QED BY <1>1, <2>1, HeaderFrame DEF Holds, MineTypeOK
<1>5. CASE LockTree(w)
  <2>1. wpc[w] = "lock" /\ UNCHANGED <<tree, index, cpc>>
    BY <1>5 DEF LockTree, vars
  <2>2. CASE tree[w] \in poisoned
    BY <1>1, <1>5, <2>1, <2>2, HeaderFrame DEF LockTree, Holds, MineTypeOK
  <2>3. CASE tree[w] \notin poisoned
    <3>1. /\ owner[tree[w]] = None /\ owner' = [owner EXCEPT ![tree[w]] = w]
          /\ \/ commit' = [commit EXCEPT ![tree[w]] = {}] /\ wpc' = [wpc EXCEPT ![w] = "compute"]
             \/ commit' = commit /\ wpc' = [wpc EXCEPT ![w] = "check"]
      BY <1>5, <2>3 DEF LockTree, Reset
    <3>2. \A u \in Tasks : Holds(u) => u # w /\ tree[u] # tree[w]
      BY <1>1, <2>1, <3>1 DEF LockInv, Holds
    <3>3. LockInv'
      BY <1>1, <2>1, <3>1, <3>2 DEF LockInv, Holds, MineTypeOK
    <3>4. CommitInv'
      BY <1>1, <2>1, <3>1, <3>2 DEF CommitInv, Holds, MineTypeOK
    <3> QED BY <3>3, <3>4
  <2> QED BY <2>2, <2>3
<1>6. ASSUME Holds(w) PROVE \A u \in Tasks : Holds(u) /\ u # w => tree[u] # tree[w]
  BY <1>6 DEF LockInv
<1>7. CASE ReuseTree(w) \/ AwaitStop(w) \/ MineStop(w) \/ MineWait(w)
  <2>1. /\ UNCHANGED <<owner, commit, index, cpc, tree>> /\ Holds(w)
        /\ wpc[w] \notin {"compute", "computing"} /\ commit[tree[w]] # {}
        /\ \E x \in {"await", "mine", "wait", "set"} : wpc' = [wpc EXCEPT ![w] = x]
    BY <1>7
    DEF ReuseTree, Usable, AwaitStop, MineStop, MineWait, Holds, CommitInv, vars
  <2> QED BY <1>1, <2>1 DEF LockInv, CommitInv, Holds, MineTypeOK
<1>8. CASE RebuildTree(w)
  <2>1. /\ UNCHANGED <<owner, index, cpc, tree>> /\ wpc[w] = "check"
        /\ commit' = [commit EXCEPT ![tree[w]] = {}] /\ wpc' = [wpc EXCEPT ![w] = "compute"]
    BY <1>8 DEF RebuildTree, Reset, vars
  <2>2. LockInv'
    BY <1>1, <2>1 DEF LockInv, Holds, MineTypeOK
  <2>3. \A u \in Tasks : Holds(u) /\ u # w => tree[u] # tree[w]
    BY <1>6, <2>1 DEF Holds
  <2>4. CommitInv'
    BY <1>1, <2>1, <2>3 DEF CommitInv, Holds, MineTypeOK
  <2> QED BY <2>2, <2>4
<1>9. CASE NothingToMine(w) \/ DropTree(w)
  <2>1. /\ UNCHANGED <<commit, index, cpc, tree>> /\ wpc[w] \in {"check", "drop"}
        /\ owner' = [owner EXCEPT ![tree[w]] = None]
        /\ \E x \in {"idle", "replace"} : wpc' = [wpc EXCEPT ![w] = x]
    BY <1>9 DEF NothingToMine, DropTree, vars
  <2>2. \A u \in Tasks : Holds(u) /\ u # w => tree[u] # tree[w]
    BY <1>6, <2>1 DEF Holds
  <2>3. LockInv'
    BY <1>1, <2>1, <2>2 DEF LockInv, Holds, MineTypeOK
  <2>4. CommitInv'
    BY <1>1, <2>1 DEF CommitInv, MineTypeOK
  <2> QED BY <2>3, <2>4
<1>10. CASE StartCompute(w)
  <2>1. /\ UNCHANGED <<owner, commit, index, tree>> /\ wpc[w] = "compute"
        /\ wpc' = [wpc EXCEPT ![w] = "computing"] /\ cpc' = [cpc EXCEPT ![tree[w]] = "scan"]
    BY <1>10 DEF StartCompute, ComputeTree
  <2>2. LockInv'
    BY <1>1, <2>1 DEF LockInv, Holds, MineTypeOK
  <2>3. CommitInv'
    BY <1>1, <2>1 DEF CommitInv, MineTypeOK
  <2> QED BY <2>2, <2>3
<1>11. CASE FinishCompute(w)
  <2>1. /\ UNCHANGED <<index, tree>> /\ wpc[w] = "computing"
        /\ cpc' = [cpc EXCEPT ![tree[w]] = "idle"]
        /\ owner' = [owner EXCEPT ![tree[w]] = IF KeepsTree(w) THEN @ ELSE None]
    BY <1>11 DEF FinishCompute, FinishTree
  <2>2. \A u \in Tasks : Holds(u) /\ u # w => tree[u] # tree[w]
    BY <1>6, <2>1 DEF Holds
  <2>3. \/ /\ index[tree[w]] = {} /\ commit' = commit /\ ~KeepsTree(w)
           /\ wpc' = [wpc EXCEPT ![w] = "dead"]
        \/ /\ index[tree[w]] # {} /\ off[w] /\ ~KeepsTree(w)
           /\ commit' = [commit EXCEPT ![tree[w]] = index[tree[w]]]
           /\ wpc' = [wpc EXCEPT ![w] = "idle"]
        \/ /\ index[tree[w]] # {} /\ KeepsTree(w)
           /\ commit' = [commit EXCEPT ![tree[w]] = index[tree[w]]]
           /\ wpc' = [wpc EXCEPT ![w] = "await"]
    BY <1>11 DEF FinishCompute, KeepsTree
  <2>4. LockInv'
    BY <1>1, <2>1, <2>2, <2>3 DEF LockInv, Holds, MineTypeOK
  <2>5. CommitInv'
    BY <1>1, <2>1, <2>2, <2>3 DEF CommitInv, Holds, MineTypeOK
  <2> QED BY <2>4, <2>5
<1>12. CASE MineSet(w)
  <2>1. /\ UNCHANGED <<owner, commit, index, cpc, tree>> /\ wpc[w] = "set"
        /\ wpc' = [wpc EXCEPT ![w] = "drop"]
    BY <1>12 DEF MineSet, vars
  <2> QED BY <1>1, <2>1 DEF LockInv, CommitInv, Holds, MineTypeOK
<1> QED BY <1>2, <1>3, <1>4, <1>5, <1>7, <1>8, <1>9, <1>10, <1>11, <1>12 DEF TaskStep

\* The steps of the others: only compute_tree makes an index table, and only of
\* a tree that a task has locked.
LEMMA OthersHeader ==
    ASSUME BlkInv, LockInv, CommitInv,
           \/ StoreStep \/ UNCHANGED blkVars \/ StatsRestart
           \/ (\E h \in Heights : UpdateWork(h)) \/ (\E v \in Workers : WorkerStep(v))
    PROVE  LockInv' /\ CommitInv'
<1>1. /\ MineTypeOK /\ Updater \in Tasks /\ Stats \in Tasks /\ cpc \in [Trees -> TreePC]
      /\ index \in [Trees -> SUBSET Bufs]
  BY DEF BlkInv, Tasks, IInv, TypeOK
<1>2. CASE UNCHANGED <<wpc, tree, owner, commit, index, cpc>>
  BY <1>2, HeaderFrame
<1>3. CASE StoreStep
  <2>1. UNCHANGED <<wpc, tree, owner, commit>>
    BY <1>3 DEF StoreStep, mineVars
  <2>2. ASSUME NEW k \in Trees, FillTree(k)
        PROVE  /\ cpc[k] # "idle"
               /\ \A j \in Trees : cpc'[j] # "idle" => cpc[j] # "idle"
               /\ \A j \in Trees : j # k => index'[j] = index[j]
    BY <1>1, <2>2 DEF FillTree, VisitClass, TakeBufs, BuildIndex, ReturnBufs
  <2>3. ASSUME NEW t \in Threads, PushStep(t) PROVE cpc' = cpc /\ index' = index
    BY <2>3
    DEF PushStep, BeginPush, TakeSpare, StealStart, Steal, StealNothing, StealFailed, FindClass,
        CreateClass, Claim, NoTopbuf, StoreSz, WriteAnns, NeedTopbuf, Recheck, Seal, treeVars
  <2>4. ASSUME NEW k \in Trees, FillTree(k) PROVE LockInv' /\ CommitInv'
    <3>1. PICK w \in Tasks : wpc[w] = "computing" /\ tree[w] = k
      BY <2>2, <2>4 DEF CommitInv
    <3>2. commit[k] = {}
      BY <3>1 DEF CommitInv
    <3>3. LockInv'
      BY <2>1 DEF LockInv, Holds
    <3> QED BY <2>1, <2>2, <2>4, <3>2, <3>3 DEF CommitInv
  <2> QED BY <1>2, <1>3, <2>1, <2>3, <2>4 DEF StoreStep
<1>4. CASE StatsRestart \/ \E h \in Heights : UpdateWork(h)
  <2>1. PICK w \in Tasks : wpc[w] = "idle" /\ wpc' = [wpc EXCEPT ![w] = "stop"]
    BY <1>1, <1>4 DEF StatsRestart, UpdateWork, GoTo
  <2>2. UNCHANGED <<owner, commit, index, cpc, tree>>
    BY <1>4 DEF StatsRestart, UpdateWork, treeLockVars, vars
  <2> QED BY <1>1, <2>1, <2>2, HeaderFrame DEF Holds, MineTypeOK
<1>5. ASSUME NEW v, WorkerStep(v) PROVE LockInv' /\ CommitInv'
  BY <1>2, <1>5
  DEF WorkerStep, WorkerStart, WorkerStop, FindShare, MakeShare, ShareTree, MakeProof, vars, taskVars,
      treeLockVars
<1> QED BY <1>2, <1>3, <1>4, <1>5 DEF blkVars, vars, mineVars

\* mine() is given a header and an index table that belong together, although
\* two tasks compute trees and get_tree lets go of its lock before the tree is
\* locked.
THEOREM HeaderFits == BlkSpec => []HeaderFitsIndex
<1>1. BlkInit => LockInv /\ CommitInv
  BY DEF BlkInit, Init, MineInit, LockInv, CommitInv, Holds
<1>2. BlkInv /\ LockInv /\ CommitInv /\ [BlkNext]_blkVars => LockInv' /\ CommitInv'
  BY TaskHeader, OthersHeader DEF BlkNext
<1>3. BlkInv /\ CommitInv => HeaderFitsIndex
  BY DEF CommitInv, HeaderFitsIndex, BlkInv, MineTypeOK
<1> QED BY <1>1, <1>2, <1>3, BlkInvInit, BlkInvStep, PTL DEF BlkSpec

\* The tree that was computed last, and by itself, is intact while it is mined,
\* until the next compute_tree.
THEOREM LastTreeWhileMining == BlkSpec => []LastTreeIntact
BY StoreImplemented, LastTree, PTL DEF ImplementsStore

=============================================================================
