--------------------------- MODULE AnnMinerProofs ---------------------------
(***************************************************************************)
(* That the threads of AnnMiner.c are an AnnSource, for any number of      *)
(* workers, requests and nonces: every nonce searched is of a height they  *)
(* were started with, and none is searched twice.  The argument: the hard  *)
(* nonces of two workers never meet (they differ modulo NumWorkers); those *)
(* of one worker only grow as long as the header stays, and begin anew     *)
(* with a header the worker has not searched since ctx->hah was written,   *)
(* though the worker may compare and copy it while it is written.          *)
(***************************************************************************)
EXTENDS AnnMiner, TLAPS

\* The hard nonces of a worker.
Own(w) == {k * NumWorkers + w : k \in Nat}

Nonces == [hdr : Hdrs, key : Keys \cup {None}, tag : Nat, hard : Nat, soft : 0 .. MaxSoft]

\* Where the caller is, and which header the workers find.
CallInv ==
    /\ mpc \in {"stop", "wait", "hdr", "key", "softmax", "run", "broadcast"} => req # None
    /\ req # None => req.hdr \in begun
    /\ hdr \in begun \cup {None}
    /\ mpc \in {"key", "softmax", "run", "broadcast"} => hdr # None

\* No worker runs without a header, none searches without a job, and the
\* soft nonces of a job are not used up when it searches.
RunInv ==
    \A w \in Workers :
        /\ \/ reqState[w] = "RUNNING" \/ rts[w] = "RUNNING"
           \/ pc[w] \in {"top", "job", "cmpkey", "same", "copyhdr", "copykey", "table",
                         "search"}
           => hdr # None
        /\ \/ softMax[w] > 0 \/ next[w] = "search"
           \/ pc[w] \in {"cmpkey", "same", "table", "search"}
           => job[w].hdr # None
        /\ pc[w] = "copykey" => half[w] # None
        /\ pc[w] = "search" \/ next[w] = "search" => soft[w] < MaxSoft

\* The job of a worker: a height of a start, a nonce of its own.
JobInv ==
    \A w \in Workers :
        /\ job[w].hdr \in begun \cup {None} /\ half[w] \in begun \cup {None}
        /\ job[w].hdr # None => job[w].nonce \in Own(w)

\* A job copied since ctx->hah was written last: the worker replaces it only if
\* it is not what ctx->hah has now, and then by what it has now.  While the signing
\* key is still to be written, no such job has the new one.
CopyInv ==
    \A w \in Workers :
        /\ job[w].tag <= gen
        /\ job[w].tag = gen =>
              /\ pc[w] \in {"copyhdr", "copykey"} => ~(job[w].hdr = hdr /\ job[w].key = key)
              /\ pc[w] = "copykey" => half[w] = hdr
              /\ mpc = "key" => job[w].key = key

\* What a worker has searched lies behind it, and what it has searched of what
\* ctx->hah has now it still has as its job.
SearchedInv ==
    /\ DOMAIN searched \subseteq Nonces
    /\ \A w \in Workers, x \in DOMAIN searched : x.hard \in Own(w) =>
          /\ x.tag <= job[w].tag
          /\ x.tag = job[w].tag /\ x.hdr = job[w].hdr /\ x.key = job[w].key =>
                \/ x.hard < job[w].nonce
                \/ x.hard = job[w].nonce /\ x.soft < soft[w] /\ pc[w] # "table"
          /\ x.tag = gen /\ x.hdr = hdr /\ x.key = key =>
                job[w].hdr = hdr /\ job[w].key = key
          /\ x.tag = gen /\ mpc = "key" => x.key = key

IInv == TypeOK /\ CallInv /\ RunInv /\ JobInv /\ CopyInv /\ SearchedInv

-----------------------------------------------------------------------------
(* Bags and nonces.                                                        *)

\* Adding to a bag adds to its elements.
LEMMA BagAdd ==
    ASSUME NEW B, IsABag(B), NEW x
    PROVE  /\ IsABag(B (+) SetToBag({x}))
           /\ DOMAIN (B (+) SetToBag({x})) = DOMAIN B \cup {x}
<1>1. DOMAIN SetToBag({x}) = {x} /\ SetToBag({x})[x] = 1
    BY DEF SetToBag
<1>2. DOMAIN (B (+) SetToBag({x})) = DOMAIN B \cup {x}
    BY <1>1 DEF (+)
<1> QED BY <1>1, <1>2 DEF IsABag, (+)

\* A positive multiple of a number is not below it.
LEMMA Multiple ==
    ASSUME NEW d \in Nat, d # 0, NEW n \in Nat PROVE d * n >= n
<1>1. PICK e \in Nat : d = e + 1
    <2>1. d - 1 \in Nat /\ d = (d - 1) + 1
        OBVIOUS
    <2> QED BY <2>1
<1>2. d * n = e * n + n
    BY <1>1
<1>3. e * n \in Nat
    OBVIOUS
<1> QED BY <1>2, <1>3

\* The nonces of a worker: the first, the next one, and none of another's.
LEMMA OwnNonces ==
    ASSUME NEW w \in Workers
    PROVE  /\ w \in Nat /\ w \in Own(w)
           /\ \A n \in Own(w) : n \in Nat /\ n + NumWorkers \in Own(w)
           /\ \A v \in Workers : v # w => Own(v) \cap Own(w) = {}
<1> USE CountsAssumption DEF Workers
<1>1. w \in Nat
    OBVIOUS
<1>2. w \in Own(w)
    <2>1. w = 0 * NumWorkers + w
        OBVIOUS
    <2> QED BY <2>1 DEF Own
<1>3. ASSUME NEW n \in Own(w) PROVE n \in Nat /\ n + NumWorkers \in Own(w)
    <2>1. PICK k \in Nat : n = k * NumWorkers + w
        BY DEF Own
    <2>2. n + NumWorkers = (k + 1) * NumWorkers + w /\ k + 1 \in Nat
        BY <2>1
    <2>3. n \in Nat
        BY <2>1
    <2> QED BY <2>2, <2>3 DEF Own
<1>4. ASSUME NEW v \in Workers, v # w, NEW n \in Own(v) \cap Own(w) PROVE FALSE
    <2>1. PICK j \in Nat : n = j * NumWorkers + v
        BY DEF Own
    <2>2. PICK k \in Nat : n = k * NumWorkers + w
        BY DEF Own
    <2>3. (j - k) * NumWorkers = w - v
        BY <2>1, <2>2
    <2>4. CASE j > k
        <3>1. (j - k) * NumWorkers >= NumWorkers
            BY <2>4, Multiple
        <3>2. w - v >= NumWorkers
            BY ONLY <2>3, <3>1
        <3> QED BY <3>2
    <2>5. CASE j < k
        <3>1. (k - j) * NumWorkers = v - w
            BY <2>1, <2>2
        <3>2. (k - j) * NumWorkers >= NumWorkers
            BY <2>5, Multiple
        <3>3. v - w >= NumWorkers
            BY ONLY <3>1, <3>2
        <3> QED BY <3>3
    <2>6. CASE j = k
        BY <1>4, <2>3, <2>6
    <2> QED BY <2>4, <2>5, <2>6
<1> QED BY <1>1, <1>2, <1>3, <1>4

-----------------------------------------------------------------------------
(* The worker threads.                                                     *)

\* The part of RunInv that the place of a worker in its code decides.
Placed ==
    \A w \in Workers :
        /\ \/ rts[w] = "RUNNING"
           \/ pc[w] \in {"top", "job", "cmpkey", "same", "copyhdr", "copykey", "table",
                         "search"}
           => hdr # None
        /\ pc[w] \in {"cmpkey", "same", "table", "search"} \/ next[w] = "search"
           => job[w].hdr # None
        /\ pc[w] = "copykey" => half[w] # None
        /\ pc[w] = "search" \/ next[w] = "search" => soft[w] < MaxSoft

\* A step that leaves the jobs, the header and the history alone.
LEMMA Frame ==
    ASSUME IInv, Placed',
           UNCHANGED <<reqState, hdr, key, softMax, job, half, soft, mpc, req, begun, gen,
                       searched>>,
           \A w \in Workers :
               pc'[w] \in {"copyhdr", "copykey", "table"} =>
                  \/ pc'[w] = pc[w]
                  \/ pc'[w] = "copyhdr" /\ ~(job[w].hdr = hdr /\ job[w].key = key)
    PROVE  CallInv' /\ RunInv' /\ JobInv' /\ CopyInv' /\ SearchedInv'
<1>1. CallInv'
    BY DEF IInv, CallInv
<1>2. RunInv'
    BY DEF IInv, RunInv, Placed
<1>3. JobInv'
    BY DEF IInv, JobInv
<1>4. CopyInv'
    BY DEF IInv, CopyInv
<1>5. SearchedInv'
    BY DEF IInv, SearchedInv
<1> QED BY <1>1, <1>2, <1>3, <1>4, <1>5

\* checkStop without the lock.
LEMMA CheckStopStep == ASSUME IInv, NEW w \in Workers, CheckStop(w) PROVE IInv'
<1> USE DEF CheckStop, Goes, GoesOn, shared, mainVars, history
<1>1. TypeOK'
    <2>1. CASE reqState[w] = "RUNNING"
        <3>1. pc' = [pc EXCEPT ![w] = next[w]] /\ next' = [next EXCEPT ![w] = "top"]
            BY <2>1
        <3>2. next[w] \in {"top", "job", "search"}
            BY DEF IInv, TypeOK
        <3> QED BY <3>1, <3>2 DEF IInv, TypeOK
    <2>2. CASE reqState[w] # "RUNNING"
        BY <2>2 DEF IInv, TypeOK
    <2> QED BY <2>1, <2>2
<1>2. Placed'
    BY DEF IInv, TypeOK, RunInv, Placed
<1>3. CallInv' /\ RunInv' /\ JobInv' /\ CopyInv' /\ SearchedInv'
    BY <1>2, Frame DEF IInv, TypeOK
<1> QED BY <1>1, <1>3 DEF IInv

\* The request is read under the lock.
LEMMA ReadReqStep == ASSUME IInv, NEW w \in Workers, ReadReq(w) PROVE IInv'
<1> USE DEF ReadReq, Goes, shared, mainVars, history
<1>1. TypeOK'
    BY CountsAssumption DEF IInv, TypeOK, Workers, States
<1>2. Placed'
    BY DEF IInv, TypeOK, RunInv, Placed
<1>3. CallInv' /\ RunInv' /\ JobInv' /\ CopyInv' /\ SearchedInv'
    BY <1>2, Frame DEF IInv, TypeOK
<1> QED BY <1>1, <1>3 DEF IInv

\* workerState is told and the worker sleeps, exits or goes on.
LEMMA SetStateStep == ASSUME IInv, NEW w \in Workers, SetState(w) PROVE IInv'
<1> USE DEF SetState, Goes, GoesOn, shared, mainVars, history
<1>1. TypeOK'
    <2>0. /\ rts[w] \in States /\ next[w] \in {"top", "job", "search"}
          /\ lock = w /\ w # None
        BY CountsAssumption DEF IInv, TypeOK, Workers
    <2>1. /\ workerState' \in [Workers -> States] /\ rts' \in [Workers -> States]
          /\ lock' \in Workers \cup {None}
        BY <2>0 DEF IInv, TypeOK, States
    <2>2. /\ pc' = [pc EXCEPT ![w] = pc'[w]]
          /\ pc'[w] \in {"towait", "exited", "top", "job", "search"}
          /\ next' \in [Workers -> {"top", "job", "search"}]
        BY <2>0 DEF IInv, TypeOK
    <2>3. lock' = w <=> pc'[w] = "towait"
        BY <2>0 DEF IInv, TypeOK, States
    <2>4. \A v \in Workers : lock' = v <=> pc'[v] \in {"set", "towait"}
        BY <2>0, <2>2, <2>3, CountsAssumption DEF IInv, TypeOK, Workers
    <2> HIDE DEF SetState, Goes, GoesOn
    <2>5. pc' \in [Workers -> {"check", "lock", "set", "towait", "asleep", "top",
                               "job", "cmpkey", "same", "copyhdr", "copykey", "table",
                               "search", "exited"}]
        BY <2>2 DEF IInv, TypeOK
    <2>6. UNCHANGED <<reqState, shared, softMax, job, half, soft, mainVars, history>>
        BY DEF SetState
    <2> QED BY <2>1, <2>2, <2>4, <2>5, <2>6 DEF IInv, TypeOK
<1>2. Placed'
    BY DEF IInv, TypeOK, RunInv, Placed
<1>3. CallInv' /\ RunInv' /\ JobInv' /\ CopyInv' /\ SearchedInv'
    BY <1>2, Frame DEF IInv, TypeOK
<1> QED BY <1>1, <1>3 DEF IInv

\* The worker falls asleep.
LEMMA CondWaitStep == ASSUME IInv, NEW w \in Workers, CondWait(w) PROVE IInv'
<1> USE DEF CondWait, Goes, shared, mainVars, history
<1>1. TypeOK'
    BY CountsAssumption DEF IInv, TypeOK, Workers, States
<1>2. Placed'
    BY DEF IInv, TypeOK, RunInv, Placed
<1>3. CallInv' /\ RunInv' /\ JobInv' /\ CopyInv' /\ SearchedInv'
    BY <1>2, Frame DEF IInv, TypeOK
<1> QED BY <1>1, <1>3 DEF IInv

\* It wakes up of itself.
LEMMA SpuriousWakeupStep == ASSUME IInv, NEW w \in Workers, SpuriousWakeup(w) PROVE IInv'
<1> USE DEF SpuriousWakeup, Goes, shared, mainVars, history
<1>1. TypeOK'
    BY CountsAssumption DEF IInv, TypeOK, Workers, States
<1>2. Placed'
    BY DEF IInv, TypeOK, RunInv, Placed
<1>3. CallInv' /\ RunInv' /\ JobInv' /\ CopyInv' /\ SearchedInv'
    BY <1>2, Frame DEF IInv, TypeOK
<1> QED BY <1>1, <1>3 DEF IInv

\* Are there nonces left in the job?
LEMMA TopStep == ASSUME IInv, NEW w \in Workers, Top(w) PROVE IInv'
<1> USE DEF Top, Goes, shared, mainVars, history
<1>1. TypeOK'
    BY CountsAssumption DEF IInv, TypeOK, Workers, States
<1>2. Placed'
    <2>1. pc'[w] \in {"job", "search"} /\ \A v \in Workers \ {w} : pc'[v] = pc[v]
        BY DEF IInv, TypeOK
    <2>2. pc'[w] = "search" => softMax[w] > 0 /\ soft[w] < MaxSoft
        BY CountsAssumption DEF IInv, TypeOK
    <2> QED BY <2>1, <2>2 DEF IInv, TypeOK, RunInv, Placed
<1>3. CallInv' /\ RunInv' /\ JobInv' /\ CopyInv' /\ SearchedInv'
    BY <1>2, Frame DEF IInv, TypeOK
<1> QED BY <1>1, <1>3 DEF IInv

\* getNextJob fails.
LEMMA NoMoreJobsStep == ASSUME IInv, NEW w \in Workers, NoMoreJobs(w) PROVE IInv'
<1> USE DEF NoMoreJobs, Goes, AfterCheck, shared, mainVars, history
<1>1. TypeOK'
    BY CountsAssumption DEF IInv, TypeOK, Workers, States
<1>2. Placed'
    BY DEF IInv, TypeOK, RunInv, Placed
<1>3. CallInv' /\ RunInv' /\ JobInv' /\ CopyInv' /\ SearchedInv'
    BY <1>2, Frame DEF IInv, TypeOK
<1> QED BY <1>1, <1>3 DEF IInv

\* The table cannot be built.
LEMMA TableFailsStep == ASSUME IInv, NEW w \in Workers, TableFails(w) PROVE IInv'
<1> USE DEF TableFails, Goes, AfterCheck, shared, mainVars, history
<1>1. TypeOK'
    BY CountsAssumption DEF IInv, TypeOK, Workers, States
<1>2. Placed'
    BY DEF IInv, TypeOK, RunInv, Placed
<1>3. CallInv' /\ RunInv' /\ JobInv' /\ CopyInv' /\ SearchedInv'
    BY <1>2, Frame DEF IInv, TypeOK
<1> QED BY <1>1, <1>3 DEF IInv

\* The header is compared, up to the signing key,
LEMMA CompareHdrStep == ASSUME IInv, NEW w \in Workers, CompareHdr(w) PROVE IInv'
<1> USE DEF CompareHdr, Goes, shared, mainVars, history
<1>1. TypeOK'
    BY CountsAssumption DEF IInv, TypeOK, Workers, States
<1>2. Placed'
    BY DEF IInv, TypeOK, RunInv, Placed
<1>3. CallInv' /\ RunInv' /\ JobInv' /\ CopyInv' /\ SearchedInv'
    BY <1>2, Frame DEF IInv, TypeOK
<1> QED BY <1>1, <1>3 DEF IInv

\* and the signing key.
LEMMA CompareKeyStep == ASSUME IInv, NEW w \in Workers, CompareKey(w) PROVE IInv'
<1> USE DEF CompareKey, Goes, shared, mainVars, history
<1>1. TypeOK'
    BY CountsAssumption, SMTT(30) DEF IInv, TypeOK, Workers, States
<1>2. Placed'
    BY DEF IInv, TypeOK, RunInv, Placed
<1>3. CallInv' /\ RunInv' /\ JobInv' /\ CopyInv' /\ SearchedInv'
    BY <1>2, Frame DEF IInv, TypeOK
<1> QED BY <1>1, <1>3 DEF IInv

\* The header is copied, up to the signing key: from what ctx->hah has now.
LEMMA CopyHdrStep == ASSUME IInv, NEW w \in Workers, CopyHdr(w) PROVE IInv'
<1>1. /\ UNCHANGED <<reqState, workerState, lock, hdr, key, hash, softMax, rts, next, job>>
      /\ UNCHANGED <<soft, mpc, req, calls, scan, begun, gen, searched>>
    BY DEF CopyHdr, shared, mainVars, history
<1>2. /\ pc[w] = "copyhdr" /\ pc' = [pc EXCEPT ![w] = "copykey"]
      /\ half' = [half EXCEPT ![w] = hdr]
    BY DEF CopyHdr, Goes
<1>3. hdr # None /\ hdr \in Hdrs /\ hdr \in begun
    BY <1>2 DEF IInv, TypeOK, RunInv, CallInv
<1>4. TypeOK'
    BY <1>1, <1>2, <1>3 DEF IInv, TypeOK
<1>5. CallInv'
    BY <1>1 DEF IInv, CallInv
<1>6. RunInv'
    BY <1>1, <1>2, <1>3 DEF IInv, TypeOK, RunInv
<1>7. JobInv'
    BY <1>1, <1>2, <1>3 DEF IInv, TypeOK, JobInv
<1>8. CopyInv'
    BY <1>1, <1>2 DEF IInv, TypeOK, CopyInv
<1>9. SearchedInv'
    BY <1>1, <1>2 DEF IInv, TypeOK, SearchedInv
<1> QED BY <1>4, <1>5, <1>6, <1>7, <1>8, <1>9 DEF IInv

\* The rest is copied, and the worker has a job of which it has searched nothing.
LEMMA CopyKeyStep == ASSUME IInv, NEW w \in Workers, CopyKey(w) PROVE IInv'
<1>1. /\ UNCHANGED <<reqState, workerState, lock, hdr, key, hash, softMax, rts, next, soft>>
      /\ UNCHANGED <<mpc, req, calls, scan, begun, gen, searched>>
    BY DEF CopyKey, shared, mainVars, history
<1>2. /\ pc[w] = "copykey" /\ pc' = [pc EXCEPT ![w] = "table"]
      /\ half' = [half EXCEPT ![w] = None]
    BY DEF CopyKey, Goes
<1>3. /\ half[w] # None /\ half[w] \in Hdrs /\ half[w] \in begun
      /\ gen \in Nat /\ job[w].tag \in Nat
    BY <1>2 DEF IInv, TypeOK, RunInv, JobInv, Job
<1>4. w \in Nat /\ w \in Own(w)
    BY OwnNonces
<1>5. /\ job' \in [Workers -> Job]
      /\ job'[w].hdr = half[w] /\ job'[w].key = key /\ job'[w].nonce = w
      /\ job'[w].tag = gen
      /\ \A v \in Workers \ {w} : job'[v] = job[v]
    BY <1>3, <1>4, ZenonT(40) DEF CopyKey, IInv, TypeOK, Job
<1>6. TypeOK'
    <2>1. /\ pc' \in [Workers -> {"check", "lock", "set", "towait", "asleep", "top",
                                  "job", "cmpkey", "same", "copyhdr", "copykey",
                                  "table", "search", "exited"}]
          /\ half' \in [Workers -> Hdrs \cup {None}]
          /\ \A v \in Workers : lock = v <=> pc'[v] \in {"set", "towait"}
        BY <1>2 DEF IInv, TypeOK
    <2> QED BY <1>1, <1>5, <2>1 DEF IInv, TypeOK
<1>7. CallInv'
    BY <1>1 DEF IInv, CallInv
<1>8. RunInv'
    BY <1>1, <1>2, <1>3, <1>5 DEF IInv, TypeOK, RunInv
<1>9. JobInv'
    BY <1>1, <1>2, <1>3, <1>4, <1>5 DEF IInv, TypeOK, JobInv
<1>10. CopyInv'
    BY <1>1, <1>2, <1>3, <1>5 DEF IInv, TypeOK, CopyInv
<1>11. ASSUME NEW x \in DOMAIN searched, x.hard \in Own(w), x.tag = gen
       PROVE  job[w].tag = gen /\ half[w] = hdr /\ ~(x.hdr = hdr /\ x.key = key)
    <2>1. x.tag <= job[w].tag /\ job[w].tag <= gen
        BY <1>11 DEF IInv, SearchedInv, CopyInv
    <2>2. job[w].tag = gen
        BY <1>3, <1>11, <2>1
    <2>3. half[w] = hdr /\ ~(job[w].hdr = hdr /\ job[w].key = key)
        BY <1>2, <2>2 DEF IInv, CopyInv
    <2> QED BY <1>11, <2>2, <2>3 DEF IInv, SearchedInv
<1>12. SearchedInv'
    <2> SUFFICES ASSUME NEW v \in Workers, NEW x \in DOMAIN searched, x.hard \in Own(v)
                 PROVE  /\ x.tag <= job'[v].tag
                        /\ x.tag = job'[v].tag /\ x.hdr = job'[v].hdr /\ x.key = job'[v].key =>
                              \/ x.hard < job'[v].nonce
                              \/ /\ x.hard = job'[v].nonce /\ x.soft < soft[v]
                                 /\ pc'[v] # "table"
                        /\ x.tag = gen /\ x.hdr = hdr /\ x.key = key =>
                              job'[v].hdr = hdr /\ job'[v].key = key
                        /\ x.tag = gen /\ mpc = "key" => x.key = key
        BY <1>1 DEF IInv, SearchedInv
    <2>1. CASE v = w
        <3>1. x.tag \in Nat /\ x.tag <= job[w].tag /\ job[w].tag <= gen
            BY <2>1 DEF IInv, SearchedInv, CopyInv, Nonces
        <3>2. x.tag <= gen
            BY <1>3, <3>1
        <3>3. x.tag = gen => half[w] = hdr /\ ~(x.hdr = hdr /\ x.key = key)
            BY <1>11, <2>1
        <3>4. x.tag = gen /\ mpc = "key" => x.key = key
            BY <2>1 DEF IInv, SearchedInv
        <3> QED BY <1>5, <2>1, <3>2, <3>3, <3>4
    <2>2. CASE v # w
        BY <1>2, <1>5, <2>2 DEF IInv, TypeOK, SearchedInv
    <2> QED BY <2>1, <2>2
<1> QED BY <1>6, <1>7, <1>8, <1>9, <1>10, <1>12 DEF IInv

\* The worker goes on to its next hard nonce, beyond all that were searched.
LEMMA NextNonceStep == ASSUME IInv, NEW w \in Workers, NextNonce(w) PROVE IInv'
<1>1. /\ UNCHANGED <<reqState, workerState, lock, hdr, key, hash, softMax, rts, next, half>>
      /\ UNCHANGED <<soft, mpc, req, calls, scan, begun, gen, searched>>
    BY DEF NextNonce, shared, mainVars, history
<1>2. pc[w] = "same" /\ pc' = [pc EXCEPT ![w] = "table"]
    BY DEF NextNonce, Goes
<1>3. job[w].hdr # None /\ job[w].nonce \in Nat
    BY <1>2 DEF IInv, TypeOK, RunInv, Job
<1>4. HardNonce(w) \in Own(w) /\ HardNonce(w) \in Nat /\ HardNonce(w) > job[w].nonce
    <2>1. job[w].nonce \in Own(w)
        BY <1>3 DEF IInv, JobInv
    <2> QED BY <1>3, <2>1, OwnNonces, CountsAssumption DEF HardNonce
<1>5. /\ job' \in [Workers -> Job]
      /\ job'[w].hdr = job[w].hdr /\ job'[w].key = job[w].key
      /\ job'[w].tag = job[w].tag /\ job'[w].nonce = HardNonce(w)
      /\ \A v \in Workers \ {w} : job'[v] = job[v]
    <2>1. job[w] \in Job /\ job \in [Workers -> Job] /\ hash \in Hashes \cup {None}
        BY DEF IInv, TypeOK
    <2>2. job' = [job EXCEPT ![w] = [@ EXCEPT !.parent = hash, !.nonce = HardNonce(w)]]
        BY DEF NextNonce
    <2>3. [job[w] EXCEPT !.parent = hash, !.nonce = HardNonce(w)] \in Job
        BY <1>4, <2>1 DEF Job
    <2>4. job'[w] = [job[w] EXCEPT !.parent = hash, !.nonce = HardNonce(w)]
        BY <2>1, <2>2
    <2>5. /\ job'[w].hdr = job[w].hdr /\ job'[w].key = job[w].key
          /\ job'[w].tag = job[w].tag /\ job'[w].nonce = HardNonce(w)
        BY <2>1, <2>4 DEF Job
    <2> QED BY <2>1, <2>2, <2>3, <2>5
<1>6. TypeOK'
    <2>1. /\ pc' \in [Workers -> {"check", "lock", "set", "towait", "asleep", "top",
                                  "job", "cmpkey", "same", "copyhdr", "copykey",
                                  "table", "search", "exited"}]
          /\ \A v \in Workers : lock = v <=> pc'[v] \in {"set", "towait"}
        BY <1>2 DEF IInv, TypeOK
    <2> QED BY <1>1, <1>5, <2>1 DEF IInv, TypeOK
<1>7. CallInv'
    BY <1>1 DEF IInv, CallInv
<1>8. RunInv'
    BY <1>1, <1>2, <1>3, <1>5 DEF IInv, TypeOK, RunInv
<1>9. JobInv'
    BY <1>1, <1>4, <1>5 DEF IInv, JobInv
<1>10. CopyInv'
    BY <1>1, <1>2, <1>5 DEF IInv, TypeOK, CopyInv
<1>11. SearchedInv'
    <2> SUFFICES ASSUME NEW v \in Workers, NEW x \in DOMAIN searched, x.hard \in Own(v),
                        x.tag = job[v].tag, x.hdr = job[v].hdr, x.key = job[v].key
                 PROVE  \/ x.hard < job'[v].nonce
                        \/ /\ x.hard = job'[v].nonce /\ x.soft < soft[v]
                           /\ pc'[v] # "table"
        BY <1>1, <1>5 DEF IInv, SearchedInv
    <2>1. CASE v = w
        <3>1. x.hard \in Nat /\ x.hard <= job[w].nonce
            BY <1>3, <2>1 DEF IInv, SearchedInv, Nonces
        <3>2. x.hard < HardNonce(w)
            BY <1>3, <1>4, <3>1
        <3> QED BY <1>5, <2>1, <3>2
    <2>2. CASE v # w
        BY <1>2, <1>5, <2>2 DEF IInv, TypeOK, SearchedInv
    <2> QED BY <2>1, <2>2
<1> QED BY <1>6, <1>7, <1>8, <1>9, <1>10, <1>11 DEF IInv

\* The soft nonces start anew; nothing of the job was searched.
LEMMA TableStep == ASSUME IInv, NEW w \in Workers, Table(w) PROVE IInv'
<1>1. /\ UNCHANGED <<reqState, workerState, lock, hdr, key, hash, rts, job, half>>
      /\ UNCHANGED <<mpc, req, calls, scan, begun, gen, searched>>
    BY DEF Table, shared, mainVars, history
<1>2. /\ pc[w] = "table" /\ pc' = [pc EXCEPT ![w] = "check"]
      /\ softMax' = [softMax EXCEPT ![w] = MaxSoft]
      /\ soft' = [soft EXCEPT ![w] = 0]
      /\ \E label \in {"search", "job"} : next' = [next EXCEPT ![w] = label]
    BY DEF Table, AfterCheck, Goes
<1>3. 0 \in 0 .. MaxSoft /\ MaxSoft \in 0 .. MaxSoft /\ 0 < MaxSoft
    BY CountsAssumption
<1>4. TypeOK'
    BY <1>1, <1>2, <1>3 DEF IInv, TypeOK
<1>5. CallInv'
    BY <1>1 DEF IInv, CallInv
<1>6. RunInv'
    BY <1>1, <1>2, <1>3 DEF IInv, TypeOK, RunInv
<1>7. JobInv' /\ CopyInv'
    BY <1>1, <1>2 DEF IInv, TypeOK, JobInv, CopyInv
<1>8. SearchedInv'
    BY <1>1, <1>2 DEF IInv, TypeOK, SearchedInv
<1> QED BY <1>4, <1>5, <1>6, <1>7, <1>8 DEF IInv

\* What a worker is about to search.
Cycle(w) == [hdr |-> job[w].hdr, key |-> job[w].key, tag |-> job[w].tag,
             hard |-> job[w].nonce, soft |-> soft[w]]

\* searchOpt finds what was not found before, with a height of a start.
LEMMA SearchFinds ==
    ASSUME IInv, NEW w \in Workers, Search(w)
    PROVE  /\ Cycle(w) \in Nonces /\ Cycle(w).hard \in Own(w)
           /\ Cycle(w).hdr \in begun
           /\ Cycle(w) \notin DOMAIN searched
           /\ searched' = searched (+) SetToBag({Cycle(w)})
<1>1. pc[w] = "search" /\ searched' = searched (+) SetToBag({Cycle(w)})
    BY DEF Search, Cycle
<1>2. job[w].hdr # None
    BY <1>1 DEF IInv, RunInv
<1>3. Cycle(w) \in Nonces
    BY <1>2 DEF Cycle, Nonces, IInv, TypeOK, Job
<1>4. Cycle(w).hard \in Own(w) /\ Cycle(w).hdr \in begun
    BY <1>2 DEF Cycle, IInv, JobInv
<1>5. Cycle(w) \notin DOMAIN searched
    <2> SUFFICES ASSUME NEW x \in DOMAIN searched, x = Cycle(w) PROVE FALSE
        OBVIOUS
    <2>1. /\ x.hdr = job[w].hdr /\ x.key = job[w].key /\ x.tag = job[w].tag
          /\ x.hard = job[w].nonce /\ x.soft = soft[w]
          /\ x.hard \in Own(w) /\ x.hard \in Nat /\ x.soft \in Nat
        BY <1>3, <1>4 DEF Cycle, Nonces
    <2> QED BY <2>1 DEF IInv, SearchedInv
<1> QED BY <1>1, <1>3, <1>4, <1>5

\* One cycle is searched and lies behind the worker.
LEMMA SearchStep == ASSUME IInv, NEW w \in Workers, Search(w) PROVE IInv'
<1>1. /\ UNCHANGED <<reqState, workerState, lock, hdr, key, hash, softMax, rts, job>>
      /\ UNCHANGED <<half, mpc, req, calls, scan, begun, gen>>
    BY DEF Search, shared, mainVars
<1>2. /\ pc[w] = "search" /\ pc' = [pc EXCEPT ![w] = "check"]
      /\ soft' = [soft EXCEPT ![w] = @ + 1]
      /\ next' = [next EXCEPT ![w] = "top"]
    BY DEF Search, AfterCheck, Goes
<1>3. soft[w] \in Nat /\ soft[w] + 1 \in 0 .. MaxSoft
    BY <1>2, CountsAssumption DEF IInv, TypeOK, RunInv
<1>4. IsABag(searched') /\ DOMAIN searched' = DOMAIN searched \cup {Cycle(w)}
    <2>1. IsABag(searched) /\ searched' = searched (+) SetToBag({Cycle(w)})
        BY SearchFinds DEF IInv, TypeOK
    <2> QED BY <2>1, BagAdd
<1>5. TypeOK'
    BY <1>1, <1>2, <1>3, <1>4 DEF IInv, TypeOK
<1>6. CallInv'
    BY <1>1 DEF IInv, CallInv
<1>7. RunInv'
    BY <1>1, <1>2, <1>3 DEF IInv, TypeOK, RunInv
<1>8. JobInv' /\ CopyInv'
    BY <1>1, <1>2 DEF IInv, TypeOK, JobInv, CopyInv
<1>9. SearchedInv'
    <2>1. DOMAIN searched' \subseteq Nonces
        BY <1>4, SearchFinds DEF IInv, SearchedInv
    <2>2. ASSUME NEW v \in Workers, NEW x \in DOMAIN searched', x.hard \in Own(v)
          PROVE  /\ x.tag <= job[v].tag
                 /\ x.tag = job[v].tag /\ x.hdr = job[v].hdr /\ x.key = job[v].key =>
                       \/ x.hard < job[v].nonce
                       \/ /\ x.hard = job[v].nonce /\ x.soft < soft'[v]
                          /\ pc'[v] # "table"
                 /\ x.tag = gen /\ x.hdr = hdr /\ x.key = key =>
                       job[v].hdr = hdr /\ job[v].key = key
                 /\ x.tag = gen /\ mpc = "key" => x.key = key
        <3>1. CASE x = Cycle(w)
            <4>1. v = w
                BY <2>2, <3>1, SearchFinds, OwnNonces
            <4>2. /\ x.hdr = job[v].hdr /\ x.key = job[v].key /\ x.tag = job[v].tag
                  /\ x.hard = job[v].nonce /\ x.soft = soft[v]
                BY <3>1, <4>1 DEF Cycle
            <4>3. x.tag \in Nat /\ soft'[v] = soft[v] + 1 /\ pc'[v] = "check"
                BY <1>2, <4>1, <4>2 DEF IInv, TypeOK, Job
            <4>4. x.tag <= job[v].tag /\ x.soft < soft'[v]
                BY <1>3, <4>1, <4>2, <4>3
            <4> QED BY <4>2, <4>3, <4>4 DEF IInv, CopyInv
        <3>2. CASE x \in DOMAIN searched
            <4>1. x.soft \in Nat
                BY <3>2 DEF IInv, SearchedInv, Nonces
            <4>2. /\ soft'[v] = IF v = w THEN soft[v] + 1 ELSE soft[v]
                  /\ pc'[v] = IF v = w THEN "check" ELSE pc[v]
                BY <1>2 DEF IInv, TypeOK
            <4> QED BY <1>3, <2>2, <3>2, <4>1, <4>2 DEF IInv, SearchedInv
        <3> QED BY <1>4, <3>1, <3>2
    <2> QED BY <1>1, <2>1, <2>2 DEF SearchedInv
<1> QED BY <1>5, <1>6, <1>7, <1>8, <1>9 DEF IInv

-----------------------------------------------------------------------------
(* The caller.                                                             *)

\* A request has a height, a signing key and a hash.
LEMMA Requests ==
    ASSUME NEW r \in Reqs
    PROVE  /\ r # None /\ r.hdr \in Hdrs /\ r.hdr # None
           /\ r.key \in Keys /\ r.hash \in Hashes
BY RequestsAssumption DEF Hdrs, Keys, Hashes

\* AnnMiner_start begins.
LEMMA CallStartStep ==
    ASSUME IInv, NEW r \in Reqs, CallStart(r) PROVE IInv'
<1>1. /\ UNCHANGED <<reqState, workerState, lock, hdr, key, hash, softMax>>
      /\ UNCHANGED <<pc, rts, next, job, half, soft, scan, gen, searched>>
      /\ req' = r /\ calls < MaxCalls /\ calls' = calls + 1
      /\ begun' = begun \cup {r.hdr} /\ mpc' = "stop"
    BY DEF CallStart, shared, workerVars
<1>2. TypeOK'
    <2>1. calls' \in 0 .. MaxCalls
        BY <1>1, CountsAssumption DEF IInv, TypeOK
    <2>2. begun' \subseteq Hdrs /\ req' \in Reqs \cup {None}
        BY <1>1, Requests DEF IInv, TypeOK
    <2> QED BY <1>1, <2>1, <2>2 DEF IInv, TypeOK
<1>3. CallInv'
    BY <1>1, Requests DEF IInv, CallInv
<1>4. RunInv'
    BY <1>1 DEF IInv, RunInv
<1>5. JobInv'
    BY <1>1 DEF IInv, JobInv
<1>6. CopyInv'
    BY <1>1 DEF IInv, CopyInv
<1>7. SearchedInv'
    BY <1>1 DEF IInv, SearchedInv
<1> QED BY <1>2, <1>3, <1>4, <1>5, <1>6, <1>7 DEF IInv

\* A step of the caller that leaves the workers and the header alone, and
\* lets them run only with a header.
LEMMA CallerFrame ==
    ASSUME IInv, mpc' # "key",
           UNCHANGED <<hdr, key, rts, pc, next, job, half, soft, begun, gen, searched>>,
           \A w \in Workers : reqState'[w] = "RUNNING" => hdr # None,
           \A w \in Workers : softMax'[w] > 0 => softMax[w] > 0
    PROVE  RunInv' /\ JobInv' /\ CopyInv' /\ SearchedInv'
<1>1. RunInv'
    BY DEF IInv, RunInv
<1>2. JobInv'
    BY DEF IInv, JobInv
<1>3. CopyInv'
    BY DEF IInv, CopyInv
<1>4. SearchedInv'
    BY DEF IInv, SearchedInv
<1> QED BY <1>1, <1>2, <1>3, <1>4

\* The workers are asked to stop.
LEMMA StopThreadsStep == ASSUME IInv, StopThreads PROVE IInv'
<1> USE DEF StopThreads, MainGoes, AllReq, shared, workerVars, history
<1>1. TypeOK'
    BY CountsAssumption DEF IInv, TypeOK, States
<1>2. CallInv'
    BY DEF IInv, CallInv
<1>3. RunInv' /\ JobInv' /\ CopyInv' /\ SearchedInv'
    BY CallerFrame DEF IInv, RunInv, CallInv
<1> QED BY <1>1, <1>2, <1>3 DEF IInv

\* One of them is looked at.
LEMMA ThreadsStoppedStep == ASSUME IInv, ThreadsStopped PROVE IInv'
<1> USE DEF ThreadsStopped, shared, workerVars, history
<1>1. TypeOK'
    BY CountsAssumption DEF IInv, TypeOK, States
<1>2. CallInv'
    BY DEF IInv, CallInv
<1>3. RunInv' /\ JobInv' /\ CopyInv' /\ SearchedInv'
    BY CallerFrame DEF IInv, RunInv, CallInv
<1> QED BY <1>1, <1>2, <1>3 DEF IInv

\* Are the data what the workers have already?
LEMMA CompareStep == ASSUME IInv, Compare PROVE IInv'
<1> USE DEF Compare, MainGoes, shared, workerVars, history
<1>1. TypeOK'
    BY CountsAssumption DEF IInv, TypeOK, States
<1>2. CallInv'
    <2>1. req \in Reqs /\ req.hdr # None
        BY Requests DEF IInv, TypeOK, CallInv
    <2>2. [hdr |-> hdr, key |-> key, hash |-> hash].hdr = hdr
        OBVIOUS
    <2>3. mpc' = "run" => [hdr |-> hdr, key |-> key, hash |-> hash] = req
        OBVIOUS
    <2>4. mpc' = "run" => hdr # None
        BY ONLY <2>1, <2>2, <2>3
    <2> QED BY <2>1, <2>4 DEF IInv, CallInv
<1>3. RunInv' /\ JobInv' /\ CopyInv' /\ SearchedInv'
    BY CallerFrame DEF IInv, RunInv, CallInv
<1> QED BY <1>1, <1>2, <1>3 DEF IInv

\* The header is written, up to the signing key: no job is of this writing yet.
LEMMA WriteHdrStep == ASSUME IInv, WriteHdr PROVE IInv'
<1>1. /\ UNCHANGED <<reqState, workerState, lock, key, hash, softMax, scan>>
      /\ UNCHANGED <<pc, rts, next, job, half, soft, req, calls, begun, searched>>
      /\ mpc = "hdr" /\ mpc' = "key" /\ hdr' = req.hdr /\ gen' = gen + 1
    BY DEF WriteHdr, MainGoes, workerVars
<1>2. hdr' \in Hdrs /\ hdr' # None /\ hdr' \in begun
    BY <1>1, Requests DEF IInv, TypeOK, CallInv
<1>3. /\ gen \in Nat /\ gen' \in Nat
      /\ \A w \in Workers : job[w].tag <= gen' /\ job[w].tag # gen'
    <2>1. \A w \in Workers : job[w].tag \in Nat /\ job[w].tag <= gen
        BY DEF IInv, TypeOK, Job, CopyInv
    <2>2. gen \in Nat
        BY DEF IInv, TypeOK
    <2> QED BY <1>1, <2>1, <2>2
<1>4. TypeOK'
    BY <1>1, <1>2, <1>3 DEF IInv, TypeOK
<1>5. CallInv'
    BY <1>1, <1>2 DEF IInv, CallInv
<1>6. RunInv'
    BY <1>1, <1>2 DEF IInv, RunInv
<1>7. JobInv'
    BY <1>1 DEF IInv, JobInv
<1>8. CopyInv'
    BY <1>1, <1>3 DEF CopyInv
<1>9. SearchedInv'
    <2>1. ASSUME NEW w \in Workers, NEW x \in DOMAIN searched, x.hard \in Own(w)
          PROVE  x.tag # gen'
        <3>1. x.tag \in Nat /\ job[w].tag \in Nat /\ x.tag <= job[w].tag
            BY <2>1 DEF IInv, TypeOK, Job, SearchedInv, Nonces
        <3> QED BY <1>3, <3>1
    <2> QED BY <1>1, <2>1 DEF IInv, SearchedInv
<1> QED BY <1>4, <1>5, <1>6, <1>7, <1>8, <1>9 DEF IInv

\* The signing key and the hash are written: what was copied of this writing has
\* the signing key that was there before.
LEMMA WriteKeyStep == ASSUME IInv, WriteKey PROVE IInv'
<1>1. /\ UNCHANGED <<reqState, workerState, lock, hdr, softMax, scan, gen>>
      /\ UNCHANGED <<pc, rts, next, job, half, soft, req, calls, begun, searched>>
      /\ mpc = "key" /\ mpc' = "softmax" /\ key' = req.key /\ hash' = req.hash
    BY DEF WriteKey, MainGoes, workerVars, history
<1>2. key' \in Keys /\ hash' \in Hashes
    BY <1>1, Requests DEF IInv, TypeOK, CallInv
<1>3. TypeOK'
    BY <1>1, <1>2 DEF IInv, TypeOK
<1>4. CallInv'
    BY <1>1 DEF IInv, CallInv
<1>5. RunInv'
    BY <1>1 DEF IInv, RunInv
<1>6. JobInv'
    BY <1>1 DEF IInv, JobInv
<1>7. CopyInv'
    BY <1>1 DEF IInv, CopyInv
<1>8. SearchedInv'
    BY <1>1 DEF IInv, SearchedInv, CopyInv
<1> QED BY <1>3, <1>4, <1>5, <1>6, <1>7, <1>8 DEF IInv

\* The jobs are declared used up.
LEMMA ResetSoftMaxStep == ASSUME IInv, ResetSoftMax PROVE IInv'
<1> USE DEF ResetSoftMax, MainGoes, shared, workerVars, history
<1>1. TypeOK'
    BY CountsAssumption DEF IInv, TypeOK, States
<1>2. CallInv'
    BY DEF IInv, CallInv
<1>3. RunInv' /\ JobInv' /\ CopyInv' /\ SearchedInv'
    BY CallerFrame DEF IInv, RunInv, CallInv
<1> QED BY <1>1, <1>2, <1>3 DEF IInv

\* The workers are asked to run, with a header.
LEMMA RunStep == ASSUME IInv, Run PROVE IInv'
<1> USE DEF Run, MainGoes, AllReq, shared, workerVars, history
<1>1. TypeOK'
    BY CountsAssumption DEF IInv, TypeOK, States
<1>2. CallInv'
    BY DEF IInv, CallInv
<1>3. RunInv' /\ JobInv' /\ CopyInv' /\ SearchedInv'
    BY CallerFrame DEF IInv, RunInv, CallInv
<1> QED BY <1>1, <1>2, <1>3 DEF IInv

\* AnnMiner_free begins.
LEMMA CallFreeStep == ASSUME IInv, CallFree PROVE IInv'
<1> USE DEF CallFree, MainGoes, AllReq, shared, workerVars, history
<1>1. TypeOK'
    BY CountsAssumption DEF IInv, TypeOK, States
<1>2. CallInv'
    BY DEF IInv, CallInv
<1>3. RunInv' /\ JobInv' /\ CopyInv' /\ SearchedInv'
    BY CallerFrame DEF IInv, RunInv, CallInv
<1> QED BY <1>1, <1>2, <1>3 DEF IInv

\* Everything is released.
LEMMA FreeCtxStep == ASSUME IInv, FreeCtx PROVE IInv'
<1> USE DEF FreeCtx, MainGoes, shared, workerVars, history
<1>1. TypeOK'
    BY CountsAssumption DEF IInv, TypeOK, States
<1>2. CallInv'
    BY DEF IInv, CallInv
<1>3. RunInv' /\ JobInv' /\ CopyInv' /\ SearchedInv'
    BY CallerFrame DEF IInv, RunInv, CallInv
<1> QED BY <1>1, <1>2, <1>3 DEF IInv

\* The sleeping workers are woken.
LEMMA BroadcastStep == ASSUME IInv, Broadcast PROVE IInv'
<1> USE DEF Broadcast, MainGoes, shared, history
<1>1. TypeOK'
    BY CountsAssumption DEF IInv, TypeOK
<1>2. CallInv'
    BY DEF IInv, CallInv
<1>3. RunInv'
    BY DEF IInv, RunInv
<1>4. JobInv'
    BY DEF IInv, JobInv
<1>5. CopyInv'
    BY DEF IInv, CopyInv
<1>6. SearchedInv'
    BY DEF IInv, SearchedInv
<1> QED BY <1>1, <1>2, <1>3, <1>4, <1>5, <1>6 DEF IInv

-----------------------------------------------------------------------------
\* IInv holds when AnnMiner_create returns.
LEMMA InitInv == Init => IInv
<1> SUFFICES ASSUME Init PROVE IInv
    OBVIOUS
<1>1. searched = [x \in {} |-> 1]
    BY DEF Init, EmptyBag, SetToBag
<1>2. TypeOK
    <2>1. IsABag(searched)
        BY <1>1 DEF IsABag
    <2>2. /\ 0 \in 0 .. MaxSoft /\ 0 \in 0 .. MaxCalls
          /\ 0 \in 0 .. NumWorkers
        BY CountsAssumption
    <2>3. \A w \in Workers : lock # w
        BY CountsAssumption DEF Init, Workers
    <2> QED BY <2>1, <2>2, <2>3 DEF Init, TypeOK, States, Job
<1>3. CallInv
    BY DEF Init, CallInv
<1>4. RunInv /\ JobInv /\ CopyInv
    BY DEF Init, RunInv, JobInv, CopyInv
<1>5. SearchedInv
    BY <1>1 DEF SearchedInv
<1> QED BY <1>2, <1>3, <1>4, <1>5 DEF IInv

\* Every step of every thread keeps IInv.
LEMMA StepInv == ASSUME IInv, [Next]_vars PROVE IInv'
<1>1. CASE \E w \in Workers : WorkerStep(w) \/ SpuriousWakeup(w)
    BY <1>1, CheckStopStep, ReadReqStep, SetStateStep, CondWaitStep,
       SpuriousWakeupStep, TopStep, CompareHdrStep, CompareKeyStep, CopyHdrStep,
       CopyKeyStep, NextNonceStep, NoMoreJobsStep, TableFailsStep, TableStep,
       SearchStep DEF WorkerStep
<1>2. CASE \E r \in Reqs : CallStart(r)
    BY <1>2, CallStartStep
<1>3. CASE CallFree
    BY <1>3, CallFreeStep
<1>4. CASE MainStep
    BY <1>4, StopThreadsStep, ThreadsStoppedStep, CompareStep, WriteHdrStep,
       WriteKeyStep, ResetSoftMaxStep, RunStep, BroadcastStep, FreeCtxStep
       DEF MainStep
<1>5. CASE UNCHANGED vars
    BY <1>5 DEF vars, shared, workerVars, mainVars, history, IInv, TypeOK, CallInv, RunInv,
                JobInv, CopyInv, SearchedInv
<1> QED BY <1>1, <1>2, <1>3, <1>4, <1>5 DEF Next

\* The inductive invariant holds in every reachable state.
LEMMA Invariant == Spec => []IInv
BY InitInv, StepInv, PTL DEF Spec

\* The variables of AnnMiner.c have their types, and ctx->lock is held by the
\* one worker that is between taking it and giving it back.
THEOREM TypeCorrect == Spec => []TypeOK
<1>1. IInv => TypeOK
    BY DEF IInv
<1> QED BY <1>1, Invariant, PTL

\* A step of the threads, seen from outside.
LEMMA StepRefines ==
    ASSUME IInv, [Next]_vars PROVE [Source!SourceNext]_<<begun, searched>>
<1>1. ASSUME NEW w \in Workers, Search(w) PROVE Source!SourceNext
    <2>1. /\ Cycle(w) \in DOMAIN searched' /\ UNCHANGED begun
        <3>1. IsABag(searched) /\ searched' = searched (+) SetToBag({Cycle(w)})
            BY <1>1, SearchFinds DEF IInv, TypeOK
        <3>2. Cycle(w) \in DOMAIN searched'
            BY <3>1, BagAdd
        <3> QED BY <1>1, <3>2 DEF Search
    <2>2. Source!Find(DOMAIN searched')
        BY <1>1, <2>1, SearchFinds
           DEF Source!Find, Source!BagIn, Source!BagToSet, Source!SetToBag,
               Source!(+), SetToBag, (+)
    <2> QED BY <2>2 DEF Source!SourceNext
<1>2. ASSUME NEW r \in Reqs, CallStart(r) PROVE Source!SourceNext
    BY <1>2 DEF CallStart, Source!SourceNext
<1>3. ASSUME NEW w \in Workers,
             \/ CheckStop(w) \/ ReadReq(w) \/ SetState(w) \/ CondWait(w)
             \/ SpuriousWakeup(w) \/ Top(w) \/ CompareHdr(w) \/ CompareKey(w)
             \/ CopyHdr(w) \/ CopyKey(w) \/ NextNonce(w) \/ NoMoreJobs(w)
             \/ TableFails(w) \/ Table(w)
      PROVE  UNCHANGED <<begun, searched>>
    BY <1>3 DEF CheckStop, ReadReq, SetState, CondWait, SpuriousWakeup, Top,
                CompareHdr, CompareKey, CopyHdr, CopyKey, NextNonce, NoMoreJobs,
                TableFails, Table, history
<1>4. ASSUME CallFree \/ MainStep PROVE UNCHANGED <<begun, searched>>
    BY <1>4 DEF CallFree, MainStep, StopThreads, ThreadsStopped, Compare, WriteHdr,
                WriteKey, ResetSoftMax, Run, Broadcast, FreeCtx, history
<1>5. ASSUME UNCHANGED vars PROVE UNCHANGED <<begun, searched>>
    BY <1>5 DEF vars, history
<1> QED BY <1>1, <1>2, <1>3, <1>4, <1>5 DEF Next, WorkerStep

\* AnnMiner.c implements AnnSource: whatever is interrupted, however often
\* AnnMiner_start is called with the same data and however its unlocked writes of
\* ctx->hah meet the workers' reads, every nonce handed to the callback has the
\* height of a start, and none is searched twice, by one worker or by two, unless
\* ctx->hah was written in between.
THEOREM SourceImplemented == Spec => ImplementsSource
<1>1. Init => Source!SourceInit
    BY DEF Init, Source!SourceInit, EmptyBag, Source!EmptyBag, SetToBag,
           Source!SetToBag
<1>2. IInv /\ [Next]_vars => [Source!SourceNext]_<<begun, searched>>
    BY StepRefines
<1> QED BY <1>1, <1>2, Invariant, PTL DEF Spec, ImplementsSource, Source!SourceSpec
=============================================================================
