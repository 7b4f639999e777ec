----------------------------- MODULE BlockMine -----------------------------
(***************************************************************************)
(* The mining threads of BlockMine.c.  The main thread steers them through *)
(* reqState, which it writes without the lock, and learns about them from  *)
(* workerState, which it reads with it; sleeping workers are woken through *)
(* a condition variable.  mineOpt copies the header of the job once and    *)
(* reads the rest of Global_t as it goes.                                  *)
(*                                                                         *)
(* The calls are made by one thread at a time, as the comments "Main       *)
(* thread" ask (BlkMine is about what happens when two tasks make them).   *)
(***************************************************************************)
EXTENDS Integers, FiniteSets

CONSTANTS
    NumWorkers,     \* numWorkers
    MaxJobs,        \* calls of BlockMine_mine
    HashesPerCycle, \* HASHES_PER_CYCLE
    ParStates,      \* CryptoCycle_PAR_STATES
    None

ASSUME BlockMineAssumption ==
    /\ NumWorkers \in Nat \ {0}
    /\ MaxJobs \in Nat
    /\ ParStates \in Nat \ {0}
    /\ HashesPerCycle \in Nat \ {0}
    /\ None \notin 0 .. NumWorkers - 1

Workers == 0 .. NumWorkers - 1
Main == NumWorkers
States == {"STOPPED", "RUNNING", "SHUTDOWN"}
Jobs == 0 .. MaxJobs

VARIABLES
    reqState,    \* Worker_t
    workerState,
    lock,        \* who holds Global_t.lock
    hai,         \* Global_t.hai, the header and the index: the job they are of
    count,       \* annCount, effectiveTarget and jobNum: likewise
    freed,       \* BlockMine_destroy has released Global_t
    \* the worker threads
    pc,
    hdr,         \* mineOpt's copy of the header
    i,           \* the next nonce to try, counted from lowNonce
    share,       \* the last share: the nonce it was found with, and told
    \* the main thread
    mpc,
    call,        \* the call being made
    upto         \* the workers whose reqState is still to be written

workerVars == <<pc, hdr, i, share>>
mainVars == <<mpc, call, upto>>
vars == <<reqState, workerState, lock, hai, count, freed, pc, hdr, i, share,
          mpc, call, upto>>

WorkerPC == {"lock", "top", "towait", "asleep", "mining", "exited"}
MainPC == {"idle", "req", "wait", "count", "hai", "broadcast", "free"}
Calls == {"none", "requestStop", "awaitStop", "mine", "run", "destroy"}
NoShare == [found |-> 0, told |-> 0]

\* The variables have their types; the counters of mineOpt stay within a cycle.
TypeOK ==
    /\ reqState \in [Workers -> States]
    /\ workerState \in [Workers -> States]
    /\ lock \in Workers \cup {None}
    /\ hai \in Jobs /\ count \in Jobs
    /\ freed \in BOOLEAN
    /\ pc \in [Workers -> WorkerPC]
    /\ hdr \in [Workers -> Jobs]
    /\ i \in [Workers -> 0 .. HashesPerCycle + ParStates]
    /\ share \in [Workers -> [found : Nat, told : Nat]]
    /\ mpc \in MainPC
    /\ call \in Calls
    /\ upto \subseteq Workers

\* BlockMine_create: everything is zeroed and the threads are started.
Init ==
    /\ reqState = [w \in Workers |-> "STOPPED"]
    /\ workerState = [w \in Workers |-> "STOPPED"]
    /\ lock = None
    /\ hai = 0 /\ count = 0
    /\ freed = FALSE
    /\ pc = [w \in Workers |-> "lock"]
    /\ hdr = [w \in Workers |-> 0]
    /\ i = [w \in Workers |-> 0]
    /\ share = [w \in Workers |-> NoShare]
    /\ mpc = "idle"
    /\ call = "none"
    /\ upto = {}

-----------------------------------------------------------------------------
(* thread and mineOpt.                                                     *)

WorkerGoes(w, label) == pc' = [pc EXCEPT ![w] = label]

Lock(w) ==
    /\ pc[w] = "lock"
    /\ lock = None
    /\ lock' = w
    /\ WorkerGoes(w, "top")
    /\ UNCHANGED <<reqState, workerState, hai, count, freed, hdr, i, share,
                   mainVars>>

\* reqState is read once; what follows depends on that value only.
Top(w) ==
    /\ pc[w] = "top"
    /\ workerState' = [workerState EXCEPT ![w] = reqState[w]]
    /\ CASE reqState[w] = "RUNNING" ->
              /\ lock' = None
              /\ WorkerGoes(w, "mining")
              /\ hdr' = [hdr EXCEPT ![w] = hai]
              /\ i' = [i EXCEPT ![w] = 0]
         [] reqState[w] = "STOPPED" ->
              WorkerGoes(w, "towait") /\ UNCHANGED <<lock, hdr, i>>
         [] reqState[w] = "SHUTDOWN" ->
              lock' = None /\ WorkerGoes(w, "exited") /\ UNCHANGED <<hdr, i>>
    /\ UNCHANGED <<reqState, hai, count, freed, share, mainVars>>

\* pthread_cond_wait lets go of the lock and sleeps in one step.
CondWait(w) ==
    /\ pc[w] = "towait"
    /\ lock' = None
    /\ WorkerGoes(w, "asleep")
    /\ UNCHANGED <<reqState, workerState, hai, count, freed, hdr, i, share,
                   mainVars>>

\* pthread_cond_wait may also return when no one has woken the thread.
SpuriousWakeup(w) ==
    /\ pc[w] = "asleep"
    /\ WorkerGoes(w, "lock")
    /\ UNCHANGED <<reqState, workerState, lock, hai, count, freed, hdr, i,
                   share, mainVars>>

\* Mutant of Hash: the end of the cycle is not seen.
HashPastEnd(w) ==
    /\ pc[w] = "mining"
    /\ i' = [i EXCEPT ![w] = @ + ParStates]
    /\ UNCHANGED <<reqState, workerState, lock, hai, count, freed, pc, hdr,
                   share, mainVars>>

\* One round of CryptoCycle_blockMineMulti: ParStates nonces from lowNonce + i
\* on (lowNonce is 0 and is never advanced).  The callback is given lowNonce.
Hash(w) ==
    /\ pc[w] = "mining"
    /\ i[w] < HashesPerCycle
    /\ i' = [i EXCEPT ![w] = @ + ParStates]
    /\ \/ UNCHANGED share
       \/ \E j \in 0 .. ParStates - 1 :
             share' = [share EXCEPT ![w] = [found |-> i[w] + j, told |-> 0]]
    /\ UNCHANGED <<reqState, workerState, lock, hai, count, freed, pc, hdr,
                   mainVars>>

EndOfCycle(w) ==
    /\ pc[w] = "mining"
    /\ i[w] >= HashesPerCycle
    /\ i' = [i EXCEPT ![w] = 0]
    /\ WorkerGoes(w, IF reqState[w] = "RUNNING" THEN "mining" ELSE "lock")
    /\ UNCHANGED <<reqState, workerState, lock, hai, count, freed, hdr,
                   share, mainVars>>

WorkerStep(w) ==
    Lock(w) \/ Top(w) \/ CondWait(w) \/ Hash(w) \/ EndOfCycle(w)

-----------------------------------------------------------------------------
(* The calls of the main thread.                                           *)

MainGoes(label) == mpc' = label

Call(name) ==
    /\ mpc = "idle"
    /\ ~freed
    /\ name = "mine" => hai < MaxJobs
    /\ call' = name
    /\ upto' = IF name = "awaitStop" THEN {} ELSE Workers
    /\ MainGoes(IF name = "awaitStop" THEN "wait" ELSE "req")
    /\ UNCHANGED <<reqState, workerState, lock, hai, count, freed,
                   workerVars>>

\* What the call asks of the workers.
Desired == CASE call = "run" -> "RUNNING"
             [] call = "destroy" -> "SHUTDOWN"
             [] OTHER -> "STOPPED"

\* Mutant of ReqState: destroy writes reqState without the lock.
ReqStateUnlocked ==
    /\ mpc = "req"
    /\ upto # {}
    /\ LET w == CHOOSE x \in upto : \A y \in upto : x <= y IN
          /\ reqState' = [reqState EXCEPT ![w] = Desired]
          /\ upto' = upto \ {w}
    /\ UNCHANGED <<workerState, lock, hai, count, freed, workerVars, mpc,
                   call>>

\* The reqState loop, worker by worker; BlockMine_destroy runs it under the
\* lock and all at once.
ReqState ==
    /\ mpc = "req"
    /\ upto # {}
    /\ IF call = "destroy"
       THEN /\ lock = None
            /\ reqState' = [w \in Workers |-> "SHUTDOWN"]
            /\ upto' = {}
       ELSE LET w == CHOOSE x \in upto : \A y \in upto : x <= y IN
               /\ reqState' = [reqState EXCEPT ![w] = Desired]
               /\ upto' = upto \ {w}
    /\ UNCHANGED <<workerState, lock, hai, count, freed, workerVars, mpc,
                   call>>

ReqDone ==
    /\ mpc = "req"
    /\ upto = {}
    /\ MainGoes(CASE call = "requestStop" -> "idle"
                  [] call = "mine" -> "wait"
                  [] OTHER -> "broadcast")
    /\ UNCHANGED <<reqState, workerState, lock, hai, count, freed,
                   workerVars, call, upto>>

\* Mutant of WaitState: only the first worker is looked at.
WaitStateFirst ==
    /\ mpc = "wait"
    /\ lock = None
    /\ workerState[0] = Desired
    /\ MainGoes(CASE call = "mine" -> "count"
                  [] call = "destroy" -> "free"
                  [] OTHER -> "idle")
    /\ UNCHANGED <<reqState, workerState, lock, hai, count, freed,
                   workerVars, call, upto>>

\* waitState polls under the lock until all workers are there.
WaitState ==
    /\ mpc = "wait"
    /\ lock = None
    /\ \A w \in Workers : workerState[w] = Desired
    /\ MainGoes(CASE call = "mine" -> "count"
                  [] call = "destroy" -> "free"
                  [] OTHER -> "idle")
    /\ UNCHANGED <<reqState, workerState, lock, hai, count, freed,
                   workerVars, call, upto>>

SetCount ==
    /\ mpc = "count"
    /\ count' = count + 1
    /\ MainGoes("hai")
    /\ UNCHANGED <<reqState, workerState, lock, hai, freed, workerVars,
                   call, upto>>

SetHai ==
    /\ mpc = "hai"
    /\ hai' = hai + 1
    /\ call' = "run"
    /\ upto' = Workers
    /\ MainGoes("req")
    /\ UNCHANGED <<reqState, workerState, lock, count, freed, workerVars>>

\* pthread_cond_broadcast, by mine and by destroy, after the lock if any.
Broadcast ==
    /\ mpc = "broadcast"
    /\ pc' = [w \in Workers |-> IF pc[w] = "asleep" THEN "lock" ELSE pc[w]]
    /\ MainGoes(IF call = "destroy" THEN "wait" ELSE "idle")
    /\ UNCHANGED <<reqState, workerState, lock, hai, count, freed, hdr, i,
                   share, call, upto>>

Free ==
    /\ mpc = "free"
    /\ freed' = TRUE
    /\ MainGoes("idle")
    /\ UNCHANGED <<reqState, workerState, lock, hai, count, workerVars,
                   call, upto>>

MainStep ==
    \/ ReqState \/ ReqDone \/ WaitState \/ SetCount \/ SetHai \/ Broadcast
    \/ Free

-----------------------------------------------------------------------------
Next ==
    \/ MainStep
    \/ \E name \in {"requestStop", "awaitStop", "mine", "destroy"} : Call(name)
    \/ \E w \in Workers : WorkerStep(w) \/ SpuriousWakeup(w)

Spec == Init /\ [][Next]_vars

\* Threads are scheduled; a thread that waits for the lock gets it some time.
Fairness ==
    /\ SF_vars(MainStep)
    /\ \A w \in Workers : SF_vars(WorkerStep(w))

FairSpec == Spec /\ Fairness

-----------------------------------------------------------------------------
(* What must hold.                                                         *)

\* The job is "Altered only when workers are stopped" (Global_t): a worker inside
\* mineOpt, which copied the header when it began and reads the index pointer
\* and annCount with every hash, sees all of it of one job.
JobNotTorn ==
    \A w \in Workers : pc[w] = "mining" => hdr[w] = hai /\ hai = count

\* After BlockMine_destroy has freed the workers and the lock no thread is left
\* to use them; the threads are not joined.
NoUseAfterFree == freed => \A w \in Workers : pc[w] = "exited"

\* awaitStop after requestStop, the wait inside mine and the one inside destroy
\* come to an end: "threads did not stop in 10 secs" is about time only.
WaitStateEnds ==
    (mpc = "wait" /\ \A w \in Workers : reqState[w] = Desired) ~> mpc # "wait"

\* A share is reported with the nonce it was found with: the validator starts
\* from it (Validate.c, nonce2), as make_share does before a share is sent.
ShareToldAsFound == \A w \in Workers : share[w].told = share[w].found
=============================================================================
