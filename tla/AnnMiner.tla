------------------------------ MODULE AnnMiner ------------------------------
(***************************************************************************)
(* The threads of AnnMiner.c.  The caller (annminer.rs makes one call at a *)
(* time, under its Mutex) stops the workers, waits until none says that it *)
(* runs, writes the new header and hash and lets them go on.  It never     *)
(* takes the lock that goes with the condition variable.                   *)
(*                                                                         *)
(* What the caller writes to all workers in a row is one step, as each     *)
(* worker looks at its own fields only; what it reads of them is a step    *)
(* per worker.  ctx->hah is written, compared and copied without a lock,   *)
(* in two pieces in the order of their addresses: the header up to the     *)
(* signing key, and the signing key and the parent hash.                   *)
(***************************************************************************)
EXTENDS Integers, Sequences, Bags

CONSTANTS
    NumWorkers,  \* numWorkers
    Reqs,        \* what AnnMiner_start may be called with: records of the height
                 \* and the rest of the header, the signing key and the parent hash
    MaxCalls,    \* bound on the calls
    MaxHard,     \* bound on the hard nonces
    MaxSoft,     \* cycles of searchOpt in a job, softNonceMax / HASHES_PER_CYCLE
    None

ASSUME CountsAssumption ==
    /\ NumWorkers \in Nat \ {0}
    /\ MaxCalls \in Nat /\ MaxHard \in Nat /\ MaxSoft \in Nat \ {0}
    /\ None \notin 0 .. NumWorkers - 1

ASSUME RequestsAssumption ==
    /\ None \notin Reqs
    /\ \A r \in Reqs : None \notin {r.hdr, r.key, r.hash}

Workers == 0 .. NumWorkers - 1
States == {"STOPPED", "RUNNING", "SHUTDOWN"}
Hdrs == {r.hdr : r \in Reqs}
Keys == {r.key : r \in Reqs}
Hashes == {r.hash : r \in Reqs}

VARIABLES
    reqState, workerState,   \* Worker_t
    lock,                    \* who holds ctx->lock
    hdr, key, hash,          \* ctx->hah
    softMax,                 \* Worker_t.softNonceMax, which both sides write
    \* the workers
    pc,
    rts,                     \* the reqState checkStop has read, until it has used it
    next,                    \* where the worker goes on after checkStop
    job,                     \* Worker_t.job: header, signing key, hard nonce, hash
    half,                    \* the first piece of the next job's header
    soft,                    \* softNonce, in cycles
    \* the caller
    mpc,
    req,                     \* the request made last
    calls,
    scan,                    \* the worker threadsStopped looks at
    \* history
    begun,                   \* the first pieces AnnMiner_start was called with
    gen,                     \* how often ctx->hah was written
    searched                 \* the bag of the nonces searched

shared == <<hdr, key, hash>>
workerVars == <<pc, rts, next, job, half, soft>>
mainVars == <<mpc, req, calls, scan>>
history == <<begun, gen, searched>>
vars == <<reqState, workerState, lock, shared, softMax, workerVars, mainVars, history>>

\* tag says how often ctx->hah had been written when the header was copied.
Job == [hdr : Hdrs \cup {None}, key : Keys \cup {None}, parent : Hashes \cup {None},
        nonce : Nat, tag : Nat]

\* The variables have their types; a worker that holds the lock knows it.
TypeOK ==
    /\ reqState \in [Workers -> States] /\ workerState \in [Workers -> States]
    /\ lock \in Workers \cup {None}
    /\ \A w \in Workers : lock = w <=> pc[w] \in {"set", "towait"}
    /\ hdr \in Hdrs \cup {None} /\ key \in Keys \cup {None} /\ hash \in Hashes \cup {None}
    /\ softMax \in [Workers -> 0 .. MaxSoft]
    /\ pc \in [Workers -> {"check", "lock", "set", "towait", "asleep", "top",
                           "job", "cmpkey", "same", "copyhdr", "copykey", "table",
                           "search", "exited"}]
    /\ rts \in [Workers -> States]
    /\ next \in [Workers -> {"top", "job", "search"}]
    /\ job \in [Workers -> Job] /\ half \in [Workers -> Hdrs \cup {None}]
    /\ soft \in [Workers -> 0 .. MaxSoft]
    /\ mpc \in {"idle", "stop", "wait", "hdr", "key", "softmax", "run",
                "broadcast", "shutdown", "wake", "waitfree", "join", "freed"}
    /\ req \in Reqs \cup {None} /\ calls \in 0 .. MaxCalls
    /\ scan \in 0 .. NumWorkers
    /\ begun \subseteq Hdrs /\ gen \in Nat /\ IsABag(searched)

\* AnnMiner_create: everything is zero and the threads are started.
Init ==
    /\ reqState = [w \in Workers |-> "STOPPED"]
    /\ workerState = [w \in Workers |-> "STOPPED"]
    /\ lock = None
    /\ hdr = None /\ key = None /\ hash = None
    /\ softMax = [w \in Workers |-> 0]
    /\ pc = [w \in Workers |-> "check"]
    /\ rts = [w \in Workers |-> "STOPPED"]
    /\ next = [w \in Workers |-> "top"]
    /\ job = [w \in Workers |->
                [hdr |-> None, key |-> None, parent |-> None, nonce |-> 0, tag |-> 0]]
    /\ half = [w \in Workers |-> None]
    /\ soft = [w \in Workers |-> 0]
    /\ mpc = "idle" /\ req = None /\ calls = 0 /\ scan = 0
    /\ begun = {} /\ gen = 0 /\ searched = EmptyBag

-----------------------------------------------------------------------------
(* checkStop.                                                              *)

Goes(w, label) == pc' = [pc EXCEPT ![w] = label]

\* It goes on, and forgets where it was to go.
GoesOn(w) == Goes(w, next[w]) /\ next' = [next EXCEPT ![w] = "top"]

\* The look at reqState without the lock.  A worker that goes on here leaves
\* workerState as it is.
CheckStop(w) ==
    /\ pc[w] = "check"
    /\ IF reqState[w] = "RUNNING" THEN GoesOn(w) ELSE Goes(w, "lock") /\ UNCHANGED next
    /\ UNCHANGED <<reqState, workerState, lock, shared, softMax, rts,
                   job, half, soft, mainVars, history>>

\* The lock is taken, also on the way out of pthread_cond_wait, and reqState
\* is read.
ReadReq(w) ==
    /\ pc[w] = "lock"
    /\ lock = None
    /\ lock' = w
    /\ rts' = [rts EXCEPT ![w] = reqState[w]]
    /\ Goes(w, "set")
    /\ UNCHANGED <<reqState, workerState, shared, softMax, next, job, half, soft,
                   mainVars, history>>

SetState(w) ==
    /\ pc[w] = "set"
    /\ workerState' = [workerState EXCEPT ![w] = rts[w]]
    /\ lock' = IF rts[w] = "STOPPED" THEN w ELSE None
    /\ rts' = [rts EXCEPT ![w] = "STOPPED"]
    /\ \/ rts[w] = "STOPPED" /\ Goes(w, "towait") /\ UNCHANGED next
       \/ rts[w] = "SHUTDOWN" /\ Goes(w, "exited") /\ UNCHANGED next
       \/ rts[w] = "RUNNING" /\ GoesOn(w)
    /\ UNCHANGED <<reqState, shared, softMax, job, half, soft, mainVars, history>>

\* Mutant: it sleeps with the lock.
CondWaitMutant(w) ==
    /\ pc[w] = "towait"
    /\ Goes(w, "asleep")
    /\ UNCHANGED <<reqState, workerState, lock, shared, softMax, rts, next, job,
                   half, soft, mainVars, history>>

\* pthread_cond_wait lets go of the lock and sleeps in one step.
CondWait(w) ==
    /\ pc[w] = "towait"
    /\ lock' = None
    /\ Goes(w, "asleep")
    /\ UNCHANGED <<reqState, workerState, shared, softMax, rts, next, job,
                   half, soft, mainVars, history>>

SpuriousWakeup(w) ==
    /\ pc[w] = "asleep"
    /\ Goes(w, "lock")
    /\ UNCHANGED <<reqState, workerState, lock, shared, softMax, rts, next,
                   job, half, soft, mainVars, history>>

-----------------------------------------------------------------------------
(* thread, getNextJob and searchOpt.                                       *)

Top(w) ==
    /\ pc[w] = "top"
    /\ Goes(w, IF soft[w] + 1 > softMax[w] THEN "job" ELSE "search")
    /\ UNCHANGED <<reqState, workerState, lock, shared, softMax, rts, next,
                   job, half, soft, mainVars, history>>

\* getNextJob: is the header the one the worker has?  memcmp ends at the first
\* piece that differs.
CompareHdr(w) ==
    /\ pc[w] = "job"
    /\ Goes(w, IF job[w].hdr = hdr THEN "cmpkey" ELSE "copyhdr")
    /\ UNCHANGED <<reqState, workerState, lock, shared, softMax, rts, next, job, half,
                   soft, mainVars, history>>

CompareKey(w) ==
    /\ pc[w] = "cmpkey"
    /\ Goes(w, IF job[w].key = key THEN "same" ELSE "copyhdr")
    /\ UNCHANGED <<reqState, workerState, lock, shared, softMax, rts, next, job, half,
                   soft, mainVars, history>>

\* It is not: the header is copied,
CopyHdr(w) ==
    /\ pc[w] = "copyhdr"
    /\ half' = [half EXCEPT ![w] = hdr]
    /\ Goes(w, "copykey")
    /\ UNCHANGED <<reqState, workerState, lock, shared, softMax, rts, next, job, soft,
                   mainVars, history>>

\* and the worker starts at its own number (minerId is left out).
CopyKey(w) ==
    /\ pc[w] = "copykey"
    /\ job' = [job EXCEPT ![w] = [hdr |-> half[w], key |-> key, parent |-> hash,
                                  nonce |-> w, tag |-> gen]]
    /\ half' = [half EXCEPT ![w] = None]
    /\ Goes(w, "table")
    /\ UNCHANGED <<reqState, workerState, lock, shared, softMax, rts, next, soft,
                   mainVars, history>>

\* Mutant: the next worker's nonces are taken.
HardNonceMutant(w) == job[w].nonce + 1
\* It is: the worker goes on to its next hard nonce.
HardNonce(w) == job[w].nonce + NumWorkers

Exhausted(w) == HardNonce(w) > MaxHard

\* The hash is copied in this case too.
NextNonce(w) ==
    /\ pc[w] = "same"
    /\ ~Exhausted(w)
    /\ job' = [job EXCEPT ![w].parent = hash, ![w].nonce = HardNonce(w)]
    /\ Goes(w, "table")
    /\ UNCHANGED <<reqState, workerState, lock, shared, softMax, rts, next, half, soft,
                   mainVars, history>>

AfterCheck(w, label) == Goes(w, "check") /\ next' = [next EXCEPT ![w] = label]

\* The bound MaxHard: from there on getNextJob only fails.
NoMoreJobs(w) ==
    /\ pc[w] = "same"
    /\ Exhausted(w)
    /\ AfterCheck(w, "job")
    /\ UNCHANGED <<reqState, workerState, lock, shared, softMax, rts, job, half, soft,
                   mainVars, history>>

\* The first populateTable2 gives up: the program cannot be made, or the worker
\* is to stop.  getNextJob is called again after checkStop.
TableFails(w) ==
    /\ pc[w] = "table"
    /\ AfterCheck(w, "job")
    /\ UNCHANGED <<reqState, workerState, lock, shared, softMax, rts, job,
                   half, soft, mainVars, history>>

\* It succeeds, and the job has its nonces, whether or not the second
\* populateTable2 succeeds.
Table(w) ==
    /\ pc[w] = "table"
    /\ reqState[w] = "RUNNING"
    /\ softMax' = [softMax EXCEPT ![w] = MaxSoft]
    /\ soft' = [soft EXCEPT ![w] = 0]
    /\ \E label \in {"search", "job"} : AfterCheck(w, label)
    /\ UNCHANGED <<reqState, workerState, lock, shared, rts, job, half, mainVars,
                   history>>

\* searchOpt: one cycle of nonces; any of them may be an announcement.
Search(w) ==
    LET nonces == [hdr |-> job[w].hdr, key |-> job[w].key, tag |-> job[w].tag,
                   hard |-> job[w].nonce, soft |-> soft[w]]
    IN  /\ pc[w] = "search"
        /\ searched' = searched (+) SetToBag({nonces})
        /\ soft' = [soft EXCEPT ![w] = @ + 1]
        /\ AfterCheck(w, "top")
        /\ UNCHANGED <<reqState, workerState, lock, shared, softMax, rts, job,
                       half, mainVars, begun, gen>>

-----------------------------------------------------------------------------
(* The calls.                                                              *)

MainGoes(label) == mpc' = label /\ UNCHANGED <<req, calls>>
AllReq(state) == reqState' = [w \in Workers |-> state]

\* AnnMiner_start.  AnnMiner_stop is its beginning.
CallStart(r) ==
    /\ mpc = "idle"
    /\ calls < MaxCalls
    /\ req' = r /\ calls' = calls + 1
    /\ begun' = begun \cup {r.hdr}
    /\ mpc' = "stop"
    /\ UNCHANGED <<reqState, workerState, lock, shared, softMax, workerVars, scan,
                   gen, searched>>

StopThreads ==
    /\ mpc = "stop"
    /\ AllReq("STOPPED")
    /\ scan' = 0
    /\ MainGoes("wait")
    /\ UNCHANGED <<workerState, lock, shared, softMax, workerVars, history>>

\* threadsStopped, worker by worker; one that runs makes it start over.
ThreadsStopped ==
    /\ mpc \in {"wait", "waitfree"} /\ scan < NumWorkers
    /\ scan' = IF workerState[scan] = "RUNNING" THEN 0 ELSE scan + 1
    /\ UNCHANGED <<reqState, workerState, lock, shared, softMax, workerVars,
                   mpc, req, calls, history>>

\* Identical data leave the workers alone.
Compare ==
    /\ mpc = "wait" /\ scan = NumWorkers
    /\ MainGoes(IF [hdr |-> hdr, key |-> key, hash |-> hash] = req THEN "run" ELSE "hdr")
    /\ UNCHANGED <<reqState, workerState, lock, shared, softMax, workerVars,
                   scan, history>>

WriteHdr ==
    /\ mpc = "hdr"
    /\ hdr' = req.hdr
    /\ gen' = gen + 1
    /\ MainGoes("key")
    /\ UNCHANGED <<reqState, workerState, lock, key, hash, softMax, workerVars, scan,
                   begun, searched>>

WriteKey ==
    /\ mpc = "key"
    /\ key' = req.key /\ hash' = req.hash
    /\ MainGoes("softmax")
    /\ UNCHANGED <<reqState, workerState, lock, hdr, softMax, workerVars, scan,
                   history>>

ResetSoftMax ==
    /\ mpc = "softmax"
    /\ softMax' = [w \in Workers |-> 0]
    /\ MainGoes("run")
    /\ UNCHANGED <<reqState, workerState, lock, shared, workerVars, scan,
                   history>>

Run ==
    /\ mpc = "run"
    /\ AllReq("RUNNING")
    /\ MainGoes("broadcast")
    /\ UNCHANGED <<workerState, lock, shared, softMax, workerVars, scan,
                   history>>

\* pthread_cond_broadcast, at the end of AnnMiner_start and in AnnMiner_free.
Broadcast ==
    /\ mpc \in {"broadcast", "wake"}
    /\ pc' = [w \in Workers |-> IF pc[w] = "asleep" THEN "lock" ELSE pc[w]]
    /\ scan' = 0
    /\ MainGoes(IF mpc = "wake" THEN "waitfree" ELSE "idle")
    /\ UNCHANGED <<reqState, workerState, lock, shared, softMax, rts, next,
                   job, half, soft, history>>

\* AnnMiner_free.
CallFree ==
    /\ mpc = "idle"
    /\ AllReq("SHUTDOWN")
    /\ MainGoes("wake")
    /\ UNCHANGED <<workerState, lock, shared, softMax, workerVars, scan,
                   history>>

\* pthread_join of every thread, and freeCtx.
FreeCtx ==
    /\ mpc = "waitfree" /\ scan = NumWorkers
    /\ \A w \in Workers : pc[w] = "exited"
    /\ MainGoes("freed")
    /\ UNCHANGED <<reqState, workerState, lock, shared, softMax, workerVars,
                   scan, history>>

-----------------------------------------------------------------------------
WorkerStep(w) ==
    \/ CheckStop(w) \/ ReadReq(w) \/ SetState(w) \/ CondWait(w) \/ Top(w)
    \/ CompareHdr(w) \/ CompareKey(w) \/ CopyHdr(w) \/ CopyKey(w)
    \/ NextNonce(w) \/ NoMoreJobs(w) \/ TableFails(w) \/ Table(w) \/ Search(w)

MainStep ==
    \/ StopThreads \/ ThreadsStopped \/ Compare \/ WriteHdr \/ WriteKey
    \/ ResetSoftMax \/ Run \/ Broadcast \/ FreeCtx

Next ==
    \/ \E w \in Workers : WorkerStep(w) \/ SpuriousWakeup(w)
    \/ \E r \in Reqs : CallStart(r)
    \/ CallFree
    \/ MainStep

Spec == Init /\ [][Next]_vars

\* The threads run, and one that waits for a lock that is free again and again
\* obtains it; no call is assumed, nor that a table can be built.
FairSpec ==
    /\ Spec
    /\ WF_vars(MainStep)
    /\ \A w \in Workers : SF_vars(WorkerStep(w))

-----------------------------------------------------------------------------
(* Properties.                                                             *)

\* Seen from outside, the threads are an AnnSource: a header they search with has
\* the height, and whatever else is before the signing key, of a call; and no
\* nonce is searched twice, by two workers or by one, whatever is interrupted and
\* though AnnMiner_start may be called again with the same data ("that will cause
\* multiple searches of the same nonce space"), unless ctx->hah was written in
\* between (the tag of a nonce).
Source == INSTANCE AnnSource WITH started <- begun, found <- searched
ImplementsSource == Source!SourceSpec

\* Once AnnMiner_start has returned no worker begins to search for an earlier
\* request ("Trigger the workers to rebuild the work immediately").
RebuiltAtOnce ==
    mpc = "idle" /\ req # None =>
        \A w \in Workers : pc[w] = "search" =>
            job[w].hdr = req.hdr /\ job[w].key = req.key /\ job[w].parent = req.hash

\* The header of a job is the header of one request.
HeaderWhole ==
    \A w \in Workers : pc[w] = "search" =>
        \E r \in Reqs : job[w].hdr = r.hdr /\ job[w].key = r.key

\* The header and the parent hash of a job are of one request.
JobWhole ==
    \A w \in Workers : pc[w] = "search" =>
        \E r \in Reqs : job[w].hdr = r.hdr /\ job[w].parent = r.hash

\* A worker that is to run is not left asleep once the call has returned.
NotLeftAsleep ==
    mpc = "idle" => \A w \in Workers : reqState[w] = "RUNNING" => pc[w] /= "asleep"

\* AnnMiner_free comes to its end.
FreeEnds == mpc = "wake" ~> mpc = "freed"
=============================================================================
