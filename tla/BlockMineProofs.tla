-------------------------- MODULE BlockMineProofs --------------------------
(***************************************************************************)
(* That the mining threads never see a torn job and are gone when their    *)
(* memory is, for any number of workers, jobs and hashes.  The argument:   *)
(* reqState is written before workerState is awaited, so that when the     *)
(* wait of BlockMine_mine is over every worker has both STOPPED and can    *)
(* only go to sleep again; and a worker says SHUTDOWN in the step in which *)
(* it leaves for good.                                                     *)
(***************************************************************************)
EXTENDS BlockMine, TLAPS

\* What workerState says of a worker: it mines only while RUNNING, and
\* SHUTDOWN is the last thing it ever says.
WorkerInv ==
    \A w \in Workers :
        /\ pc[w] = "mining" => workerState[w] = "RUNNING"
        /\ workerState[w] = "SHUTDOWN" => pc[w] = "exited"

\* How far the call being made has come with the requests.
RequestInv ==
    /\ mpc = "req" => \A w \in Workers \ upto : reqState[w] = Desired
    /\ mpc = "wait" /\ call = "mine" =>
          \A w \in Workers : reqState[w] = "STOPPED"
    /\ mpc \in {"count", "hai"} =>
          \A w \in Workers : reqState[w] = "STOPPED" /\ workerState[w] = "STOPPED"
    /\ mpc = "free" \/ freed => \A w \in Workers : workerState[w] = "SHUTDOWN"

\* The two halves of a job are apart only between the two writes, and only
\* a call of BlockMine_mine, which is still to add a job, makes them.
JobInv ==
    /\ count = IF mpc = "hai" THEN hai + 1 ELSE hai
    /\ mpc \in {"count", "hai"} => call = "mine"
    /\ call = "mine" => hai < MaxJobs
    /\ \A w \in Workers : pc[w] = "mining" => hdr[w] = hai

IInv == TypeOK /\ WorkerInv /\ RequestInv /\ JobInv

-----------------------------------------------------------------------------
(* The worker threads.                                                     *)

\* What the workers' steps leave to the main thread.
LEMMA WorkerFrame ==
    ASSUME IInv, UNCHANGED <<reqState, hai, count, freed, mpc, call, upto>>,
           WorkerInv',
           \A w \in Workers :
               workerState'[w] # workerState[w] =>
                   /\ workerState'[w] = reqState[w]
                   /\ pc[w] # "exited",
           \A w \in Workers : pc'[w] = "mining" => hdr'[w] = hai
    PROVE  RequestInv' /\ JobInv'
<1>1. RequestInv'
    BY DEF IInv, WorkerInv, RequestInv, Desired
<1>2. JobInv'
    BY DEF IInv, JobInv
<1> QED BY <1>1, <1>2

\* A worker takes the lock.
LEMMA LockStep == ASSUME IInv, NEW w \in Workers, Lock(w) PROVE IInv'
<1> USE DEF Lock, WorkerGoes, mainVars
<1>1. TypeOK'
    BY DEF IInv, TypeOK, WorkerPC
<1>2. WorkerInv'
    BY DEF IInv, TypeOK, WorkerInv
<1>3. RequestInv' /\ JobInv'
    BY <1>2, WorkerFrame DEF IInv, TypeOK, JobInv
<1> QED BY <1>1, <1>2, <1>3 DEF IInv

\* A worker reads its request: it begins to mine, goes to sleep or exits.
LEMMA TopStep == ASSUME IInv, NEW w \in Workers, Top(w) PROVE IInv'
<1> USE DEF WorkerGoes, mainVars
<1>0. reqState[w] \in States
    BY DEF IInv, TypeOK
<1>1. TypeOK'
    <2>1. 0 \in 0 .. HashesPerCycle + ParStates
        BY BlockMineAssumption
    <2>2. CASE reqState[w] = "RUNNING"
        <3>1. /\ lock' = None /\ pc' = [pc EXCEPT ![w] = "mining"]
              /\ hdr' = [hdr EXCEPT ![w] = hai] /\ i' = [i EXCEPT ![w] = 0]
            BY <2>2 DEF Top
        <3>2. i' \in [Workers -> 0 .. HashesPerCycle + ParStates]
            BY <2>1, <3>1 DEF IInv, TypeOK
        <3>3. hdr' \in [Workers -> Jobs] /\ pc' \in [Workers -> WorkerPC]
            BY <3>1 DEF IInv, TypeOK, WorkerPC
        <3> QED BY <1>0, <3>1, <3>2, <3>3 DEF IInv, TypeOK, Top
    <2>3. CASE reqState[w] = "STOPPED"
        BY <2>3 DEF IInv, TypeOK, WorkerPC, States, Top
    <2>4. CASE reqState[w] = "SHUTDOWN"
        BY <2>4 DEF IInv, TypeOK, WorkerPC, States, Top
    <2> QED BY <1>0, <2>2, <2>3, <2>4 DEF States
<1>2. WorkerInv'
    BY <1>0 DEF IInv, TypeOK, WorkerInv, States, Top
<1>3. \A v \in Workers : pc'[v] = "mining" => hdr'[v] = hai
    BY <1>0 DEF IInv, TypeOK, JobInv, States, Top
<1>4. \A v \in Workers : workerState'[v] # workerState[v] =>
          workerState'[v] = reqState[v] /\ pc[v] # "exited"
    BY DEF IInv, TypeOK, Top
<1>5. UNCHANGED <<reqState, hai, count, freed, mpc, call, upto>>
    BY DEF Top
<1>6. RequestInv' /\ JobInv'
    BY <1>2, <1>3, <1>4, <1>5, WorkerFrame
<1> QED BY <1>1, <1>2, <1>6 DEF IInv

\* A worker lets go of the lock and sleeps.
LEMMA CondWaitStep == ASSUME IInv, NEW w \in Workers, CondWait(w) PROVE IInv'
<1> USE DEF CondWait, WorkerGoes, mainVars
<1>1. TypeOK'
    BY DEF IInv, TypeOK, WorkerPC
<1>2. WorkerInv'
    BY DEF IInv, TypeOK, WorkerInv
<1>3. RequestInv' /\ JobInv'
    BY <1>2, WorkerFrame DEF IInv, TypeOK, JobInv
<1> QED BY <1>1, <1>2, <1>3 DEF IInv

\* A worker wakes up of itself.
LEMMA SpuriousWakeupStep ==
    ASSUME IInv, NEW w \in Workers, SpuriousWakeup(w) PROVE IInv'
<1> USE DEF SpuriousWakeup, WorkerGoes, mainVars
<1>1. TypeOK'
    BY DEF IInv, TypeOK, WorkerPC
<1>2. WorkerInv'
    BY DEF IInv, TypeOK, WorkerInv
<1>3. RequestInv' /\ JobInv'
    BY <1>2, WorkerFrame DEF IInv, TypeOK, JobInv
<1> QED BY <1>1, <1>2, <1>3 DEF IInv

\* A worker tries the next nonces.
LEMMA HashStep == ASSUME IInv, NEW w \in Workers, Hash(w) PROVE IInv'
<1> USE DEF mainVars
<1>1. TypeOK'
    <2>1. i' \in [Workers -> 0 .. HashesPerCycle + ParStates]
        BY BlockMineAssumption DEF IInv, TypeOK, Hash
    <2>2. share' \in [Workers -> [found : Nat, told : Nat]]
        <3>1. CASE UNCHANGED share
            BY <3>1 DEF IInv, TypeOK
        <3>2. CASE \E j \in 0 .. ParStates - 1 :
                  share' = [share EXCEPT ![w] = [found |-> i[w] + j, told |-> 0]]
            <4>1. PICK j \in 0 .. ParStates - 1 :
                      share' = [share EXCEPT ![w] = [found |-> i[w] + j, told |-> 0]]
                BY <3>2
            <4>2. i[w] + j \in Nat
                BY BlockMineAssumption DEF IInv, TypeOK
            <4> QED BY <4>1, <4>2 DEF IInv, TypeOK
        <3> QED BY <3>1, <3>2 DEF Hash
    <2> QED BY <2>1, <2>2 DEF IInv, TypeOK, Hash
<1>2. WorkerInv'
    BY DEF IInv, WorkerInv, Hash
<1>3. RequestInv' /\ JobInv'
    BY <1>2, WorkerFrame DEF IInv, JobInv, Hash
<1> QED BY <1>1, <1>2, <1>3 DEF IInv

\* A worker has come to the end of a cycle and looks at its request.
LEMMA EndOfCycleStep ==
    ASSUME IInv, NEW w \in Workers, EndOfCycle(w) PROVE IInv'
<1> USE DEF EndOfCycle, WorkerGoes, mainVars
<1>1. TypeOK'
    BY BlockMineAssumption DEF IInv, TypeOK, WorkerPC
<1>2. WorkerInv'
    BY DEF IInv, TypeOK, WorkerInv
<1>3. RequestInv' /\ JobInv'
    BY <1>2, WorkerFrame DEF IInv, TypeOK, JobInv
<1> QED BY <1>1, <1>2, <1>3 DEF IInv

-----------------------------------------------------------------------------
(* The main thread.                                                        *)

\* A call begins.
LEMMA CallStep ==
    ASSUME IInv,
           NEW name \in {"requestStop", "awaitStop", "mine", "destroy"},
           Call(name)
    PROVE  IInv'
<1> USE DEF Call, MainGoes, workerVars
<1>1. TypeOK'
    BY DEF IInv, TypeOK, MainPC, Calls
<1>2. WorkerInv'
    BY DEF IInv, WorkerInv
<1>3. RequestInv'
    BY DEF IInv, RequestInv
<1>4. JobInv'
    BY DEF IInv, JobInv
<1> QED BY <1>1, <1>2, <1>3, <1>4 DEF IInv

\* The next request is written, or all of them by BlockMine_destroy.
LEMMA ReqStateStep == ASSUME IInv, ReqState PROVE IInv'
<1> USE DEF workerVars
<1>1. Desired \in States /\ Desired' = Desired
    BY DEF Desired, States, ReqState
<1>2. TypeOK'
    BY <1>1 DEF IInv, TypeOK, ReqState, States
<1>3. WorkerInv'
    BY DEF IInv, WorkerInv, ReqState
<1>4. RequestInv'
    <2>1. \A v \in Workers \ upto' : reqState'[v] = Desired'
        <3>1. CASE call = "destroy"
            BY <1>1, <3>1 DEF ReqState, Desired
        <3>2. CASE call # "destroy"
            BY <1>1, <3>2 DEF IInv, TypeOK, RequestInv, ReqState
        <3> QED BY <3>1, <3>2
    <2> QED BY <2>1 DEF IInv, RequestInv, ReqState
<1>5. JobInv'
    BY DEF IInv, JobInv, ReqState
<1> QED BY <1>2, <1>3, <1>4, <1>5 DEF IInv

\* All requests are written.
LEMMA ReqDoneStep == ASSUME IInv, ReqDone PROVE IInv'
<1> USE DEF ReqDone, MainGoes, workerVars
<1>1. TypeOK'
    BY DEF IInv, TypeOK, MainPC
<1>2. WorkerInv'
    BY DEF IInv, WorkerInv
<1>3. RequestInv'
    BY DEF IInv, RequestInv, Desired
<1>4. JobInv'
    BY DEF IInv, JobInv
<1> QED BY <1>1, <1>2, <1>3, <1>4 DEF IInv

\* The wait is over: this is where a request STOPPED and an answer STOPPED
\* come together.
LEMMA WaitStateStep == ASSUME IInv, WaitState PROVE IInv'
<1> USE DEF WaitState, MainGoes, workerVars
<1>1. TypeOK'
    BY DEF IInv, TypeOK, MainPC
<1>2. WorkerInv'
    BY DEF IInv, WorkerInv
<1>3. RequestInv'
    BY DEF IInv, RequestInv, Desired
<1>4. JobInv'
    BY DEF IInv, JobInv
<1> QED BY <1>1, <1>2, <1>3, <1>4 DEF IInv

\* The first half of the job is written.
LEMMA SetCountStep == ASSUME IInv, SetCount PROVE IInv'
<1> USE DEF SetCount, MainGoes, workerVars
<1>1. TypeOK'
    BY BlockMineAssumption DEF IInv, TypeOK, MainPC, JobInv, Jobs
<1>2. WorkerInv'
    BY DEF IInv, WorkerInv
<1>3. RequestInv'
    BY DEF IInv, RequestInv
<1>4. JobInv'
    BY DEF IInv, JobInv
<1> QED BY <1>1, <1>2, <1>3, <1>4 DEF IInv

\* The second half of the job is written: no worker is in mineOpt.
LEMMA SetHaiStep == ASSUME IInv, SetHai PROVE IInv'
<1> USE DEF SetHai, MainGoes, workerVars
<1>1. TypeOK'
    BY BlockMineAssumption DEF IInv, TypeOK, MainPC, Calls, JobInv, Jobs
<1>2. WorkerInv'
    BY DEF IInv, WorkerInv
<1>3. RequestInv'
    BY DEF IInv, RequestInv
<1>4. \A w \in Workers : pc[w] # "mining"
    BY DEF IInv, WorkerInv, RequestInv
<1>5. JobInv'
    BY <1>4 DEF IInv, TypeOK, JobInv
<1> QED BY <1>1, <1>2, <1>3, <1>5 DEF IInv

\* The sleeping workers are woken.
LEMMA BroadcastStep == ASSUME IInv, Broadcast PROVE IInv'
<1> USE DEF Broadcast, MainGoes
<1>1. TypeOK'
    BY DEF IInv, TypeOK, MainPC, WorkerPC
<1>2. WorkerInv'
    BY DEF IInv, WorkerInv
<1>3. RequestInv'
    BY DEF IInv, RequestInv
<1>4. JobInv'
    BY DEF IInv, JobInv
<1> QED BY <1>1, <1>2, <1>3, <1>4 DEF IInv

\* The memory of the workers is released.
LEMMA FreeStep == ASSUME IInv, Free PROVE IInv'
<1> USE DEF Free, MainGoes, workerVars
<1>1. TypeOK'
    BY DEF IInv, TypeOK, MainPC
<1>2. WorkerInv'
    BY DEF IInv, WorkerInv
<1>3. RequestInv'
    BY DEF IInv, RequestInv
<1>4. JobInv'
    BY DEF IInv, JobInv
<1> QED BY <1>1, <1>2, <1>3, <1>4 DEF IInv

-----------------------------------------------------------------------------
\* IInv holds when BlockMine_create returns.
LEMMA InitInv == Init => IInv
<1> SUFFICES ASSUME Init PROVE IInv
    OBVIOUS
<1>1. 0 \in Jobs /\ 0 \in 0 .. HashesPerCycle + ParStates
    BY BlockMineAssumption DEF Jobs
<1>2. TypeOK
    BY <1>1 DEF Init, TypeOK, States, WorkerPC, MainPC, Calls, NoShare
<1>3. WorkerInv /\ RequestInv /\ JobInv
    BY DEF Init, WorkerInv, RequestInv, JobInv
<1> QED BY <1>2, <1>3 DEF IInv

\* Every step of every thread keeps IInv.
LEMMA StepInv == ASSUME IInv, [Next]_vars PROVE IInv'
<1>1. CASE \E w \in Workers : WorkerStep(w) \/ SpuriousWakeup(w)
    BY <1>1, LockStep, TopStep, CondWaitStep, HashStep, EndOfCycleStep,
       SpuriousWakeupStep DEF WorkerStep
<1>2. CASE \E name \in {"requestStop", "awaitStop", "mine", "destroy"} : Call(name)
    BY <1>2, CallStep
<1>3. CASE MainStep
    BY <1>3, ReqStateStep, ReqDoneStep, WaitStateStep, SetCountStep,
       SetHaiStep, BroadcastStep, FreeStep DEF MainStep
<1>4. CASE UNCHANGED vars
    BY <1>4 DEF vars, IInv, TypeOK, WorkerInv, RequestInv, JobInv, Desired
<1> QED BY <1>1, <1>2, <1>3, <1>4 DEF Next

\* The inductive invariant holds in every reachable state.
LEMMA Invariant == Spec => []IInv
BY InitInv, StepInv, PTL DEF Spec

\* The variables of BlockMine.c have their types; in particular the counter of
\* mineOpt never runs past the end of a cycle by more than one round, and no
\* job is counted that BlockMine_mine was not called for.
THEOREM TypeCorrect == Spec => []TypeOK
<1>1. IInv => TypeOK
    BY DEF IInv
<1> QED BY <1>1, Invariant, PTL

\* A worker inside mineOpt sees the header, the index and annCount of one
\* job: BlockMine_mine alters them only while all workers are stopped.
THEOREM JobIsWhole == Spec => []JobNotTorn
<1>1. IInv => JobNotTorn
    BY DEF IInv, WorkerInv, RequestInv, JobInv, JobNotTorn
<1> QED BY <1>1, Invariant, PTL

\* Once BlockMine_destroy has released the memory no worker is left to use
\* it, although the threads are never joined.
THEOREM FreedAfterExit == Spec => []NoUseAfterFree
<1>1. IInv => NoUseAfterFree
    BY DEF IInv, WorkerInv, RequestInv, NoUseAfterFree
<1> QED BY <1>1, Invariant, PTL
=============================================================================
