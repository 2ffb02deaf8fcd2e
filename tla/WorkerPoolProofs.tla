-------------------------- MODULE WorkerPoolProofs --------------------------
(***************************************************************************)
(* Proofs about WorkerPool, for every set of clients, every pool size and  *)
(* every number of reloads.                                                *)
(***************************************************************************)
EXTENDS WorkerPool, FiniteSetTheorems, TLAPS

(* The workers a build hands out are n consecutive workers. *)
LEMMA IdsSeq ==
    ASSUME NEW first \in Nat, NEW n \in Nat, first >= 1,
           first + n - 1 <= MaxWorkers
    PROVE  /\ Ids(first, n) \in Seq(Worker)
           /\ Len(Ids(first, n)) = n
           /\ Members(Ids(first, n)) = first..(first + n - 1)
<1> USE PoolAssumption DEF Worker
<1>1. Ids(first, n) \in [1..n -> Worker]
  BY DEF Ids
<1>2. Ids(first, n) \in Seq(Worker)
  BY <1>1
<1>3. Len(Ids(first, n)) = n
  BY <1>1, <1>2
<1>4. ASSUME NEW w \in first..(first + n - 1)
      PROVE  w \in Members(Ids(first, n))
  <2>1. w - first + 1 \in 1..n /\ Ids(first, n)[w - first + 1] = w
    BY DEF Ids
  <2> QED BY <2>1, <1>3 DEF Members
<1>5. Members(Ids(first, n)) \subseteq first..(first + n - 1)
  BY <1>3 DEF Members, Ids
<1> QED BY <1>2, <1>3, <1>4, <1>5

LEMMA MembersType == ASSUME NEW s \in Seq(Worker) PROVE Members(s) \subseteq Worker
  BY DEF Members

(* The round robin picks a worker of the pool. *)
LEMMA LeasePick ==
    ASSUME TypeOK, workers # <<>>
    PROVE  /\ (cursor + 1) % Len(workers) \in 0..(PoolSize - 1)
           /\ workers[((cursor + 1) % Len(workers)) + 1] \in Worker
           /\ workers[((cursor + 1) % Len(workers)) + 1] \in Members(workers)
<1> USE PoolAssumption
<1>1. Len(workers) = PoolSize
  BY DEF TypeOK
<1>2. (cursor + 1) % Len(workers) \in 0..(PoolSize - 1)
  BY <1>1 DEF TypeOK
<1> QED BY <1>1, <1>2 DEF TypeOK, Members

(* Every variable keeps its type, on every step of every goroutine. *)
THEOREM TypeCorrect == Spec => []TypeOK
<1> USE PoolAssumption
<1>1. Init => TypeOK
  <2> SUFFICES ASSUME Init PROVE TypeOK
    OBVIOUS
  <2> USE DEF Init
  <2>1. <<>> \in Seq(Worker) /\ Len(<<>>) = 0
    OBVIOUS
  <2>2. /\ cursor \in 0..(PoolSize - 1)
        /\ nBuilt \in 0..MaxWorkers
        /\ refs \in [Worker -> Int]
    OBVIOUS
  <2>3. /\ pc \in [Client -> ClientPC]
        /\ lease \in [Client -> Worker \cup {NoWorker}]
        /\ answer \in [Client -> Answer]
    BY DEF ClientPC, Answer
  <2>4. mpc \in RunPC /\ rpc \in ReloadPC
    BY DEF RunPC, BootPC, ReloadPC
  <2> QED BY <2>1, <2>2, <2>3, <2>4 DEF TypeOK
<1>2. TypeOK /\ [Next]_vars => TypeOK'
  <2> SUFFICES ASSUME TypeOK, [Next]_vars PROVE TypeOK'
    OBVIOUS
  <2> USE DEF TypeOK, poolVars, workerVars, clientVars, reloadVars, runVars,
              stopVars
  <2>1. ASSUME NEW c \in Client, ClientStep(c) PROVE TypeOK'
    <3> USE DEF ClientPC
    <3>1. CASE LeaseWorker(c)
      <4>1. workers # <<>>
        BY <3>1 DEF LeaseWorker
      <4>2. (cursor + 1) % Len(workers) \in 0..(PoolSize - 1)
        BY <4>1, LeasePick
      <4>3. workers[((cursor + 1) % Len(workers)) + 1] \in Worker
        BY <4>1, LeasePick
      <4>4. refs' \in [Worker -> Int]
        <5>1. refs \in [Worker -> Int] OBVIOUS
        <5> HIDE DEF TypeOK
        <5> QED BY <3>1, <4>3, <5>1 DEF LeaseWorker
      <4>5. lease' \in [Client -> Worker \cup {NoWorker}]
        BY <3>1, <4>3 DEF LeaseWorker
      <4> QED BY <3>1, <4>2, <4>4, <4>5 DEF LeaseWorker
    <3>2. CASE NoWorkers(c)
      BY <3>2 DEF NoWorkers, Answer, Cause
    <3>3. CASE BadBody(c)
      BY <3>3 DEF BadBody, Answer, Cause
    <3>4. CASE BeginCall(c)
      BY <3>4 DEF BeginCall
    <3>5. ASSUME NEW last \in BOOLEAN, WSEvent(c, last) PROVE TypeOK'
      BY <3>5 DEF WSEvent
    <3>6. CASE AcquireSlot(c)
      BY <3>6 DEF AcquireSlot
    <3>7. CASE BusyTimeout(c)
      BY <3>7 DEF BusyTimeout, Answer, Cause, StatusWritten
    <3>8. CASE Quit(c)
      BY <3>8 DEF Quit
    <3>9. ASSUME NEW ok \in BOOLEAN, Return(c, ok) PROVE TypeOK'
      <4>1. slot' \in [Worker -> BOOLEAN] /\ pc' \in [Client -> ClientPC]
        BY <3>9 DEF Return
      <4>2. answer' \in [Client -> Answer]
        BY <3>9 DEF Return, Answer, Cause, StatusWritten
      <4> QED BY <3>9, <4>1, <4>2 DEF Return
    <3>10. CASE ReleaseDec(c)
      <4>1. refs' \in [Worker -> Int]
        <5>1. refs \in [Worker -> Int] OBVIOUS
        <5> HIDE DEF TypeOK
        <5>2. \A w \in Worker : refs[w] - 1 \in Int
          BY <5>1
        <5> QED BY <3>10, <5>1, <5>2 DEF ReleaseDec
      <4>2. pc' \in [Client -> ClientPC] /\ lease' \in [Client -> Worker \cup {NoWorker}]
        BY <3>10 DEF ReleaseDec, AfterRelease
      <4> QED BY <3>10, <4>1, <4>2 DEF ReleaseDec
    <3>11. CASE ReleaseCheck(c)
      <4>1. closed' \in [Worker -> BOOLEAN]
        BY <3>11 DEF ReleaseCheck
      <4>2. pc' \in [Client -> ClientPC] /\ lease' \in [Client -> Worker \cup {NoWorker}]
        BY <3>11 DEF ReleaseCheck, AfterRelease
      <4> QED BY <3>11, <4>1, <4>2 DEF ReleaseCheck
    <3> QED
      BY <2>1, <3>1, <3>2, <3>3, <3>4, <3>5, <3>6, <3>7, <3>8, <3>9, <3>10,
         <3>11 DEF ClientStep
  <2>2. CASE ReloadStep
    <3> USE DEF ReloadPC
    <3>1. CASE ReloadBuild
      <4>1. fresh' \in Seq(Worker) /\ Len(fresh') = PoolSize
        BY <3>1, IdsSeq DEF ReloadBuild, BuildSucceeds
      <4>2. nBuilt' \in 0..MaxWorkers
        BY <3>1 DEF ReloadBuild, BuildSucceeds
      <4>3. stop' \in BOOLEAN
        BY <3>1 DEF ReloadBuild, BuildSucceeds
      <4> QED BY <3>1, <4>1, <4>2, <4>3 DEF ReloadBuild
    <3>2. ASSUME NEW k \in 0..PoolSize, ReloadFail(k) PROVE TypeOK'
      <4>1. nBuilt' \in 0..MaxWorkers
        BY <3>2 DEF ReloadFail, BuildFails
      <4>3. stop' \in BOOLEAN
        BY <3>2 DEF ReloadFail, BuildFails
      <4>2. closed' \in [Worker -> BOOLEAN]
        BY <3>2 DEF ReloadFail, BuildFails
      <4> QED BY <3>2, <4>1, <4>2, <4>3 DEF ReloadFail
    <3>3. CASE ReloadSwap
      <4>1. Members(workers) \subseteq Worker
        BY DEF Members
      <4>2. <<>> \in Seq(Worker) /\ Len(<<>>) = 0
        OBVIOUS
      <4>3. cursor' \in 0..(PoolSize - 1)
        BY <3>3 DEF ReloadSwap
      <4> QED BY <3>3, <4>1, <4>2, <4>3 DEF ReloadSwap
    <3>4. CASE RetireStore
      BY <3>4 DEF RetireStore
    <3>5. CASE RetireCheck
      BY <3>5 DEF RetireCheck
    <3>6. CASE ReloadDone
      BY <3>6 DEF ReloadDone
    <3> QED
      BY <2>2, <3>1, <3>2, <3>3, <3>4, <3>5, <3>6 DEF ReloadStep
  <2>3. CASE BootStep
    <3> USE DEF RunPC, BootPC, ServePC
    <3>1. CASE BootBuild
      <4>1. boot' \in Seq(Worker) /\ Len(boot') = PoolSize
        BY <3>1, IdsSeq DEF BootBuild, BuildSucceeds
      <4>2. nBuilt' \in 0..MaxWorkers
        BY <3>1 DEF BootBuild, BuildSucceeds
      <4>3. stop' \in BOOLEAN
        BY <3>1 DEF BootBuild, BuildSucceeds
      <4> QED BY <3>1, <4>1, <4>2, <4>3 DEF BootBuild
    <3>2. ASSUME NEW k \in 0..PoolSize, BootFail(k) PROVE TypeOK'
      <4>1. nBuilt' \in 0..MaxWorkers
        BY <3>2 DEF BootFail, BuildFails
      <4>3. stop' \in BOOLEAN
        BY <3>2 DEF BootFail, BuildFails
      <4>2. closed' \in [Worker -> BOOLEAN]
        BY <3>2 DEF BootFail, BuildFails
      <4> QED BY <3>2, <4>1, <4>2, <4>3 DEF BootFail
    <3>3. ASSUME NEW ok \in BOOLEAN, BootInstall(ok) PROVE TypeOK'
      BY <3>3 DEF BootInstall
    <3>4. CASE BootInit
      BY <3>4 DEF BootInit
    <3>5. CASE InitAcquire
      <4>1. boot[1] \in Worker
        BY <3>5 DEF InitAcquire
      <4> QED BY <3>5, <4>1 DEF InitAcquire
    <3>6. ASSUME NEW ok \in BOOLEAN, InitReturn(ok) PROVE TypeOK'
      BY <3>6 DEF InitReturn
    <3>7. ASSUME NEW ok \in BOOLEAN, BootListen(ok) PROVE TypeOK'
      BY <3>7 DEF BootListen
    <3> QED
      BY <2>3, <3>1, <3>2, <3>3, <3>4, <3>5, <3>6, <3>7 DEF BootStep
  <2>4. CASE RunStep
    <3> USE DEF RunPC, ServePC, DrainPC
    <3>1. CASE RunWake
      BY <3>1 DEF RunWake
    <3>2. CASE PickShutdownWorker
      BY <3>2 DEF PickShutdownWorker
    <3>3. CASE ShutdownAcquire
      BY <3>3 DEF ShutdownAcquire
    <3>4. CASE ShutdownReturn
      BY <3>4 DEF ShutdownReturn
    <3>5. CASE CloseListeners
      BY <3>5 DEF CloseListeners
    <3>6. CASE Collect
      BY <3>6 DEF Collect, Members
    <3>7. CASE WaitIdleTake
      BY <3>7 DEF WaitIdleTake
    <3>8. CASE WaitIdleReseed
      BY <3>8 DEF WaitIdleReseed
    <3>9. CASE WaitIdleTimeout
      BY <3>9 DEF WaitIdleTimeout
    <3>10. CASE DrainClose
      BY <3>10 DEF DrainClose
    <3>11. CASE RunReturn
      BY <3>11 DEF RunReturn
    <3> QED
      BY <2>4, <3>1, <3>2, <3>3, <3>4, <3>5, <3>6, <3>7, <3>8, <3>9, <3>10,
         <3>11 DEF RunStep
  <2>5. CASE Signal
    BY <2>5 DEF Signal
  <2>6. CASE UNCHANGED vars
    BY <2>6 DEF vars
  <2> QED
    BY <2>1, <2>2, <2>3, <2>4, <2>5, <2>6 DEF Next
<1> QED
  BY <1>1, <1>2, PTL DEF Spec

-----------------------------------------------------------------------------
(* A goroutine past leaseWorker and before release holds a worker, and so  *)
(* does Run while it calls or closes one.                                  *)
LeaseOK == \A c \in Client : pc[c] \notin {"start", "done"} => lease[c] \in Worker
RunOK == mpc \in RunTakes \cup {"callWait", "close"} => target \in Worker
SlotInv == LeaseOK /\ RunOK /\ SlotMutex

(* "exactly one handler (HTTP/WS/TCP/init/shutdown) runs at a time per     *)
(* worker": the token of worker.go's slot is never lost or doubled, in any *)
(* interleaving of clients, reloads, start and shutdown.                   *)
LEMMA SlotCorrectInv == Spec => []SlotInv
<1> USE PoolAssumption
<1>1. Init => SlotInv
  BY DEF Init, SlotInv, LeaseOK, RunOK, SlotMutex, RunsLua, RunTakes
<1>2. TypeOK /\ SlotInv /\ [Next]_vars => SlotInv'
  <2> SUFFICES ASSUME TypeOK, SlotInv, [Next]_vars PROVE SlotInv'
    OBVIOUS
  <2> USE DEF SlotInv, LeaseOK, RunOK, SlotMutex, RunsLua, RunTakes,
              poolVars, workerVars, clientVars, reloadVars, runVars, stopVars
  <2>0. /\ pc \in [Client -> ClientPC] /\ slot \in [Worker -> BOOLEAN]
        /\ lease \in [Client -> Worker \cup {NoWorker}]
    BY DEF TypeOK
  <2>1. ASSUME NEW c \in Client, ClientStep(c) PROVE SlotInv'
    <3>1. CASE LeaseWorker(c)
      BY <2>0, <3>1, LeasePick DEF LeaseWorker
    <3>2. CASE NoWorkers(c)
      BY <2>0, <3>2 DEF NoWorkers
    <3>3. CASE BadBody(c)
      BY <2>0, <3>3 DEF BadBody
    <3>4. CASE BeginCall(c)
      BY <2>0, <3>4 DEF BeginCall
    <3>5. ASSUME NEW last \in BOOLEAN, WSEvent(c, last) PROVE SlotInv'
      BY <2>0, <3>5 DEF WSEvent
    <3>6. CASE AcquireSlot(c)
      BY <2>0, <3>6 DEF AcquireSlot
    <3>7. CASE BusyTimeout(c)
      BY <2>0, <3>7 DEF BusyTimeout
    <3>8. CASE Quit(c)
      BY <2>0, <3>8 DEF Quit
    <3>9. ASSUME NEW ok \in BOOLEAN, Return(c, ok) PROVE SlotInv'
      BY <2>0, <3>9 DEF Return
    <3>10. CASE ReleaseDec(c)
      BY <2>0, <3>10 DEF ReleaseDec, AfterRelease
    <3>11. CASE ReleaseCheck(c)
      BY <2>0, <3>11 DEF ReleaseCheck, AfterRelease
    <3> QED
      BY <2>1, <3>1, <3>2, <3>3, <3>4, <3>5, <3>6, <3>7, <3>8, <3>9, <3>10,
         <3>11 DEF ClientStep
  <2>2. CASE ReloadStep
    <3>1. CASE ReloadBuild
      BY <2>0, <3>1 DEF ReloadBuild, BuildSucceeds
    <3>2. ASSUME NEW k \in 0..PoolSize, ReloadFail(k) PROVE SlotInv'
      BY <2>0, <3>2 DEF ReloadFail, BuildFails
    <3>3. CASE ReloadSwap
      BY <2>0, <3>3 DEF ReloadSwap
    <3>4. CASE RetireStore
      BY <2>0, <3>4 DEF RetireStore
    <3>5. CASE RetireCheck
      BY <2>0, <3>5 DEF RetireCheck
    <3>6. CASE ReloadDone
      BY <2>0, <3>6 DEF ReloadDone
    <3> QED
      BY <2>2, <3>1, <3>2, <3>3, <3>4, <3>5, <3>6 DEF ReloadStep
  <2>3. CASE BootStep
    <3>1. CASE BootBuild
      BY <2>0, <3>1 DEF BootBuild, BuildSucceeds
    <3>2. ASSUME NEW k \in 0..PoolSize, BootFail(k) PROVE SlotInv'
      BY <2>0, <3>2 DEF BootFail, BuildFails
    <3>3. ASSUME NEW ok \in BOOLEAN, BootInstall(ok) PROVE SlotInv'
      BY <2>0, <3>3 DEF BootInstall
    <3>4. CASE BootInit
      BY <2>0, <3>4 DEF BootInit
    <3>5. CASE InitAcquire
      BY <2>0, <3>5 DEF InitAcquire, TypeOK
    <3>6. ASSUME NEW ok \in BOOLEAN, InitReturn(ok) PROVE SlotInv'
      BY <2>0, <3>6 DEF InitReturn
    <3>7. ASSUME NEW ok \in BOOLEAN, BootListen(ok) PROVE SlotInv'
      BY <2>0, <3>7 DEF BootListen
    <3> QED
      BY <2>3, <3>1, <3>2, <3>3, <3>4, <3>5, <3>6, <3>7 DEF BootStep
  <2>4. CASE RunStep
    <3>1. CASE RunWake
      BY <2>0, <3>1 DEF RunWake
    <3>2. CASE PickShutdownWorker
      BY <2>0, <3>2 DEF PickShutdownWorker, TypeOK
    <3>3. CASE ShutdownAcquire
      BY <2>0, <3>3 DEF ShutdownAcquire
    <3>4. CASE ShutdownReturn
      BY <2>0, <3>4 DEF ShutdownReturn
    <3>5. CASE CloseListeners
      BY <2>0, <3>5 DEF CloseListeners
    <3>6. CASE Collect
      BY <2>0, <3>6 DEF Collect
    <3>7. CASE WaitIdleTake
      BY <2>0, <3>7 DEF WaitIdleTake, TypeOK
    <3>8. CASE WaitIdleReseed
      BY <2>0, <3>8 DEF WaitIdleReseed
    <3>9. CASE WaitIdleTimeout
      BY <2>0, <3>9 DEF WaitIdleTimeout, TypeOK
    <3>10. CASE DrainClose
      BY <2>0, <3>10 DEF DrainClose
    <3>11. CASE RunReturn
      BY <2>0, <3>11 DEF RunReturn
    <3> QED
      BY <2>4, <3>1, <3>2, <3>3, <3>4, <3>5, <3>6, <3>7, <3>8, <3>9, <3>10,
         <3>11 DEF RunStep
  <2>5. CASE Signal
    BY <2>5 DEF Signal
  <2>6. CASE UNCHANGED vars
    BY <2>6 DEF vars
  <2> QED
    BY <2>1, <2>2, <2>3, <2>4, <2>5, <2>6 DEF Next
<1> QED
  BY <1>1, <1>2, TypeCorrect, PTL DEF Spec

(* The slot is a mutual exclusion on the worker's Lua state. *)
THEOREM SlotCorrect == Spec => []SlotMutex
<1>1. SlotInv => SlotMutex
  BY DEF SlotInv
<1> QED
  BY <1>1, SlotCorrectInv, PTL

-----------------------------------------------------------------------------
(* Why the pool stays open: the pool, the workers of a reload or of the    *)
(* start not yet published, and the workers being retired are disjoint     *)
(* sets of workers already built, and only the last are marked.            *)
Live(w) == w <= nBuilt /\ ~closed[w] /\ ~retired[w]
PoolParts ==
    /\ \A w \in Members(workers) : Live(w)
    /\ \A w \in Members(fresh) : Live(w) /\ w \notin Members(workers)
    /\ \A w \in old : /\ w <= nBuilt
                      /\ w \notin Members(workers) /\ w \notin Members(fresh)
    /\ mpc = "install" =>
          \A w \in Members(boot) :
              /\ Live(w) /\ w \notin old
              /\ w \notin Members(workers) /\ w \notin Members(fresh)
    /\ \A w \in Worker : w > nBuilt => ~closed[w] /\ ~retired[w]
    /\ rpc = "check" => retiring \in Worker /\ retired[retiring]
    /\ rpc \in {"idle", "swap"} => old = {}
PoolInv == mpc \in BootPC \cup ServePC => PoolParts

(* The pool a request can be leased from contains no closed and no retired *)
(* worker, through any number of reloads, failed reloads and releases.     *)
THEOREM PoolCorrect == Spec => []PoolOpen
<1> USE PoolAssumption
<1>1. Init => PoolInv
  BY DEF Init, PoolInv, PoolParts, Live, Members
<1>2. TypeOK /\ TypeOK' /\ SlotInv /\ PoolInv /\ [Next]_vars => PoolInv'
  <2> SUFFICES ASSUME TypeOK, TypeOK', SlotInv, PoolInv, [Next]_vars,
                      mpc' \in BootPC \cup ServePC
               PROVE  PoolInv'
    BY DEF PoolInv
  <2> USE DEF PoolInv, PoolParts, Live,
              poolVars, workerVars, clientVars, reloadVars, runVars, stopVars
  <2>a. /\ closed \in [Worker -> BOOLEAN] /\ retired \in [Worker -> BOOLEAN]
        /\ old \subseteq Worker
    BY DEF TypeOK
  <2>b. nBuilt \in Nat /\ nBuilt <= MaxWorkers /\ Worker \subseteq Nat
    BY DEF TypeOK, Worker
  <2>c. /\ Members(workers) \subseteq Worker
        /\ Members(fresh) \subseteq Worker
        /\ Members(boot) \subseteq Worker
    BY MembersType DEF TypeOK
  <2>d. Members(<<>>) = {}
    BY DEF Members
  <2>0. /\ closed \in [Worker -> BOOLEAN] /\ retired \in [Worker -> BOOLEAN]
        /\ nBuilt \in Nat /\ nBuilt <= MaxWorkers
        /\ old \subseteq Worker
        /\ Members(workers) \subseteq Worker
        /\ Members(fresh) \subseteq Worker
        /\ Members(boot) \subseteq Worker
        /\ Worker \subseteq Nat
        /\ Members(<<>>) = {}
    BY <2>a, <2>b, <2>c, <2>d
  <2>1. ASSUME NEW c \in Client, ClientStep(c) PROVE PoolInv'
    <3>1. CASE LeaseWorker(c)
      BY <2>0, <3>1 DEF LeaseWorker, Members
    <3>2. CASE NoWorkers(c)
      BY <2>0, <3>2 DEF NoWorkers, Members
    <3>3. CASE BadBody(c)
      BY <2>0, <3>3 DEF BadBody, Members
    <3>4. CASE BeginCall(c)
      BY <2>0, <3>4 DEF BeginCall, Members
    <3>5. ASSUME NEW last \in BOOLEAN, WSEvent(c, last) PROVE PoolInv'
      BY <2>0, <3>5 DEF WSEvent, Members
    <3>6. CASE AcquireSlot(c)
      BY <2>0, <3>6 DEF AcquireSlot, Members
    <3>7. CASE BusyTimeout(c)
      BY <2>0, <3>7 DEF BusyTimeout, Members
    <3>8. CASE Quit(c)
      BY <2>0, <3>8 DEF Quit, Members
    <3>9. ASSUME NEW ok \in BOOLEAN, Return(c, ok) PROVE PoolInv'
      BY <2>0, <3>9 DEF Return, Members
    <3>10. CASE ReleaseDec(c)
      BY <2>0, <3>10 DEF ReleaseDec, AfterRelease, Members
    <3>11. CASE ReleaseCheck(c)
      <4>1. lease[c] \in Worker
        BY <3>11 DEF ReleaseCheck, SlotInv, LeaseOK
      <4>2. \A w \in Worker : closed'[w] /\ ~closed[w] => retired[w]
        BY <2>0, <3>11, <4>1 DEF ReleaseCheck
      <4>3. UNCHANGED <<workers, nBuilt, retired, reloadVars, mpc, boot>>
        BY <3>11 DEF ReleaseCheck
      <4>4. UNCHANGED <<Members(workers), Members(boot), Members(fresh)>>
        BY <4>3 DEF Members, reloadVars
      <4>5. mpc \in BootPC \cup ServePC /\ PoolParts
        BY <4>3
      <4> QED BY <2>0, <4>2, <4>3, <4>4, <4>5
    <3> QED
      BY <2>1, <3>1, <3>2, <3>3, <3>4, <3>5, <3>6, <3>7, <3>8, <3>9, <3>10,
         <3>11 DEF ClientStep
  <2>2. CASE ReloadStep
    <3>1. CASE ReloadBuild
      <4>1. Members(fresh)' = (nBuilt + 1)..(nBuilt + PoolSize)
        BY <2>0, <3>1, IdsSeq DEF ReloadBuild, BuildSucceeds
      <4>2. /\ nBuilt' = nBuilt + PoolSize /\ old = {} /\ rpc' = "swap"
            /\ UNCHANGED <<workers, retired, closed, old, retiring, mpc, boot>>
        BY <3>1 DEF ReloadBuild, BuildSucceeds
      <4>3. UNCHANGED <<Members(workers), Members(boot)>>
        BY <4>2 DEF Members
      <4>4. \A w \in Members(fresh)' : w \in Worker /\ w > nBuilt
        BY <2>0, <3>1, <4>1 DEF ReloadBuild, BuildSucceeds, Worker
      <4>5. PoolParts
        BY <4>2
      <4>6. \A w \in Members(fresh)' : Live(w)' /\ w \notin Members(workers)'
        BY <2>0, <4>1, <4>2, <4>3, <4>4, <4>5
      <4>7. \A w \in Worker : Live(w) => Live(w)'
        BY <2>0, <4>2
      <4>8. mpc = "install" => \A w \in Members(boot) : w \notin Members(fresh)'
        BY <2>0, <4>4, <4>5
      <4>9. \A w \in Worker : w > nBuilt' => ~closed[w] /\ ~retired[w]
        BY <2>0, <4>2, <4>5
      <4> QED BY <2>0, <4>2, <4>3, <4>5, <4>6, <4>7, <4>8, <4>9
    <3>2. ASSUME NEW k \in 0..PoolSize, ReloadFail(k) PROVE PoolInv'
      <4>1. /\ nBuilt' = nBuilt + k
            /\ \A w \in Worker : closed'[w] /\ ~closed[w] =>
                                  w > nBuilt /\ w <= nBuilt + k
        BY <2>0, <3>2 DEF ReloadFail, BuildFails
      <4>2. UNCHANGED <<workers, retired, reloadVars, mpc, boot>>
        BY <3>2 DEF ReloadFail
      <4>3. UNCHANGED <<Members(workers), Members(boot), Members(fresh)>>
        BY <4>2 DEF Members
      <4> QED BY <2>0, <4>1, <4>2, <4>3
    <3>3. CASE ReloadSwap
      BY <2>0, <3>3 DEF ReloadSwap, Members
    <3>4. CASE RetireStore
      <4>1. PICK w \in old : /\ retired' = [retired EXCEPT ![w] = TRUE]
                             /\ old' = old \ {w} /\ retiring' = w
        BY <3>4 DEF RetireStore
      <4>2. /\ rpc' = "check"
            /\ UNCHANGED <<workers, nBuilt, closed, fresh, mpc, boot>>
        BY <3>4 DEF RetireStore
      <4>3. UNCHANGED <<Members(workers), Members(boot), Members(fresh)>>
        BY <4>2 DEF Members
      <4> QED BY <2>0, <4>1, <4>2, <4>3
    <3>5. CASE RetireCheck
      BY <2>0, <3>5 DEF RetireCheck, Members
    <3>6. CASE ReloadDone
      BY <2>0, <3>6 DEF ReloadDone, Members
    <3> QED
      BY <2>2, <3>1, <3>2, <3>3, <3>4, <3>5, <3>6 DEF ReloadStep
  <2>3. CASE BootStep
    <3> USE DEF BootPC, ServePC
    <3>1. CASE BootBuild
      <4>1. Members(boot)' = (nBuilt + 1)..(nBuilt + PoolSize)
        BY <2>0, <3>1, IdsSeq DEF BootBuild, BuildSucceeds
      <4>2. /\ nBuilt' = nBuilt + PoolSize /\ mpc = "build"
            /\ UNCHANGED <<workers, retired, closed, reloadVars>>
        BY <3>1 DEF BootBuild, BuildSucceeds
      <4>3. UNCHANGED <<Members(workers), Members(fresh)>>
        BY <4>2 DEF Members
      <4>4. \A w \in Members(boot)' : w \in Worker /\ w > nBuilt
        BY <2>0, <3>1, <4>1 DEF BootBuild, BuildSucceeds, Worker
      <4>5. PoolParts
        BY <4>2 DEF BootPC
      <4>6. \A w \in Members(boot)' :
              /\ Live(w)' /\ w \notin old
              /\ w \notin Members(workers) /\ w \notin Members(fresh)
        BY <2>0, <4>1, <4>2, <4>4, <4>5
      <4>7. \A w \in Worker : Live(w) => Live(w)'
        BY <2>0, <4>2
      <4>8. \A w \in old : w <= nBuilt'
        BY <2>0, <4>2, <4>5
      <4>9. \A w \in Worker : w > nBuilt' => ~closed[w] /\ ~retired[w]
        BY <2>0, <4>2, <4>5
      <4> QED BY <2>0, <4>2, <4>3, <4>5, <4>6, <4>7, <4>8, <4>9
    <3>2. ASSUME NEW k \in 0..PoolSize, BootFail(k) PROVE PoolInv'
      BY <2>0, <3>2 DEF BootFail, BuildFails
    <3>3. ASSUME NEW ok \in BOOLEAN, BootInstall(ok) PROVE PoolInv'
      BY <2>0, <3>3 DEF BootInstall
    <3>4. CASE BootInit
      BY <2>0, <3>4 DEF BootInit
    <3>5. CASE InitAcquire
      BY <2>0, <3>5 DEF InitAcquire
    <3>6. ASSUME NEW ok \in BOOLEAN, InitReturn(ok) PROVE PoolInv'
      BY <2>0, <3>6 DEF InitReturn
    <3>7. ASSUME NEW ok \in BOOLEAN, BootListen(ok) PROVE PoolInv'
      BY <2>0, <3>7 DEF BootListen
    <3> QED
      BY <2>3, <3>1, <3>2, <3>3, <3>4, <3>5, <3>6, <3>7 DEF BootStep
  <2>4. CASE RunStep
    <3> USE DEF BootPC, ServePC, DrainPC
    <3>1. CASE RunWake
      BY <2>0, <3>1 DEF RunWake
    <3>2. CASE PickShutdownWorker
      BY <2>0, <3>2 DEF PickShutdownWorker
    <3>3. CASE ShutdownAcquire
      BY <2>0, <3>3 DEF ShutdownAcquire
    <3>4. CASE ShutdownReturn
      BY <2>0, <3>4 DEF ShutdownReturn
    <3>5. CASE CloseListeners
      BY <2>0, <3>5 DEF CloseListeners
    <3>6. CASE Collect
      BY <2>0, <3>6 DEF Collect
    <3>7. CASE WaitIdleTake
      BY <2>0, <3>7 DEF WaitIdleTake
    <3>8. CASE WaitIdleReseed
      BY <2>0, <3>8 DEF WaitIdleReseed
    <3>9. CASE WaitIdleTimeout
      BY <2>0, <3>9 DEF WaitIdleTimeout
    <3>10. CASE DrainClose
      BY <2>0, <3>10 DEF DrainClose
    <3>11. CASE RunReturn
      BY <2>0, <3>11 DEF RunReturn
    <3> QED
      BY <2>4, <3>1, <3>2, <3>3, <3>4, <3>5, <3>6, <3>7, <3>8, <3>9, <3>10,
         <3>11 DEF RunStep
  <2>5. CASE Signal
    BY <2>0, <2>5 DEF Signal
  <2>6. CASE UNCHANGED vars
    BY <2>0, <2>6 DEF vars
  <2> QED
    BY <2>1, <2>2, <2>3, <2>4, <2>5, <2>6 DEF Next
<1>3. PoolInv => PoolOpen
  BY DEF PoolInv, PoolParts, Live, PoolOpen
<1> QED
  BY <1>1, <1>2, <1>3, TypeCorrect, SlotCorrectInv, PTL DEF Spec

-----------------------------------------------------------------------------
(* The reference count is exact, and retiring names the worker retire() is *)
(* about to look at, if any.                                               *)
RefsExact == \A w \in Worker : refs[w] = Cardinality(Holders(w))
RetiringOK == IF rpc = "check" THEN retiring \in Worker ELSE retiring = NoWorker
CloseInv == RefsExact /\ RetiringOK /\ NoLostClose

LEMMA HoldersFinite == ASSUME NEW w PROVE IsFiniteSet(Holders(w))
<1>1. IsFiniteSet(Client)
  BY PoolAssumption, FS_Union DEF Client
<1> QED BY <1>1, FS_Subset DEF Holders

(* A step that moves no goroutine into or out of a lease and marks no      *)
(* worker retired keeps the count and keeps every retired, unleased worker *)
(* closed.                                                                 *)
LEMMA CloseFrame ==
    ASSUME CloseInv, TypeOK, TypeOK',
           UNCHANGED <<refs, retired, rpc, retiring>>,
           \A w \in Worker : closed[w] => closed'[w],
           \A c \in Client : /\ pc'[c] \in Leasing <=> pc[c] \in Leasing
                             /\ pc'[c] = "dropped" <=> pc[c] = "dropped",
           \A c \in Client : pc[c] \in Leasing \cup {"dropped"} => lease'[c] = lease[c]
    PROVE  CloseInv'
<1>1. \A w \in Worker : Holders(w)' = Holders(w)
  BY DEF Holders
<1>2. \A w \in Worker : \A c \in Client :
        pc'[c] = "dropped" /\ lease'[c] = w <=> pc[c] = "dropped" /\ lease[c] = w
  OBVIOUS
<1>3. RefsExact'
  BY <1>1 DEF CloseInv, RefsExact
<1>4. RetiringOK'
  BY DEF CloseInv, RetiringOK
<1>5. NoLostClose'
  BY <1>1, <1>2 DEF CloseInv, NoLostClose
<1> QED BY <1>3, <1>4, <1>5 DEF CloseInv

(* retire() and release() never both leave a retired worker to the other:  *)
(* when its last lease is gone it is closed, in every interleaving of the  *)
(* two unlocked flag-and-counter checks.                                   *)
THEOREM CloseCorrect == Spec => []NoLostClose
<1> USE PoolAssumption
<1>1. Init => CloseInv
  <2> SUFFICES ASSUME Init PROVE CloseInv
    OBVIOUS
  <2>1. \A w \in Worker : Holders(w) = {}
    BY DEF Init, Holders, Leasing
  <2>2. RefsExact
    BY <2>1, FS_EmptySet DEF RefsExact, Init
  <2>3. RetiringOK /\ NoLostClose
    BY DEF Init, RetiringOK, NoLostClose
  <2> QED BY <2>2, <2>3 DEF CloseInv
<1>2. TypeOK /\ TypeOK' /\ SlotInv /\ CloseInv /\ [Next]_vars => CloseInv'
  <2> SUFFICES ASSUME TypeOK, TypeOK', SlotInv, CloseInv, [Next]_vars
               PROVE  CloseInv'
    OBVIOUS
  <2> USE DEF poolVars, workerVars, clientVars, reloadVars, runVars, stopVars
  <2>0. /\ closed \in [Worker -> BOOLEAN] /\ retired \in [Worker -> BOOLEAN]
        /\ pc \in [Client -> ClientPC] /\ refs \in [Worker -> Int]
        /\ lease \in [Client -> Worker \cup {NoWorker}]
    BY DEF TypeOK
  <2>1. ASSUME NEW c \in Client, ClientStep(c) PROVE CloseInv'
    <3> USE DEF Leasing
    <3>1. CASE LeaseWorker(c)
      <4>0. workers[((cursor + 1) % Len(workers)) + 1] \in Worker
        BY <3>1, LeasePick DEF LeaseWorker
      <4>a. PICK v \in Worker : /\ refs' = [refs EXCEPT ![v] = refs[v] + 1]
                                /\ lease' = [lease EXCEPT ![c] = v]
        BY <3>1, <4>0 DEF LeaseWorker
      <4>1. /\ pc[c] = "start" /\ pc' = [pc EXCEPT ![c] = "leased"]
            /\ UNCHANGED <<retired, closed, rpc, retiring>>
        BY <3>1 DEF LeaseWorker
      <4>2. c \notin Holders(v) /\ Holders(v)' = Holders(v) \cup {c}
        BY <2>0, <4>a, <4>1 DEF Holders
      <4>3. \A w \in Worker \ {v} : Holders(w)' = Holders(w)
        BY <2>0, <4>a, <4>1 DEF Holders
      <4>4. Cardinality(Holders(v)') = Cardinality(Holders(v)) + 1
        BY <4>2, HoldersFinite, FS_AddElement
      <4>5. RefsExact'
        BY <2>0, <4>a, <4>3, <4>4 DEF RefsExact, CloseInv
      <4>6. RetiringOK'
        BY <4>1 DEF CloseInv, RetiringOK
      <4>7. NoLostClose'
        BY <2>0, <4>a, <4>1, <4>2, <4>3 DEF CloseInv, NoLostClose
      <4> QED BY <4>5, <4>6, <4>7 DEF CloseInv
    <3>2. CASE NoWorkers(c)
      BY <2>0, CloseFrame, <3>2 DEF NoWorkers
    <3>3. CASE BadBody(c)
      BY <2>0, CloseFrame, <3>3 DEF BadBody
    <3>4. CASE BeginCall(c)
      BY <2>0, CloseFrame, <3>4 DEF BeginCall
    <3>5. ASSUME NEW last \in BOOLEAN, WSEvent(c, last) PROVE CloseInv'
      BY <2>0, CloseFrame, <3>5 DEF WSEvent
    <3>6. CASE AcquireSlot(c)
      BY <2>0, CloseFrame, <3>6 DEF AcquireSlot
    <3>7. CASE BusyTimeout(c)
      BY <2>0, CloseFrame, <3>7 DEF BusyTimeout
    <3>8. CASE Quit(c)
      BY <2>0, CloseFrame, <3>8 DEF Quit
    <3>9. ASSUME NEW ok \in BOOLEAN, Return(c, ok) PROVE CloseInv'
      BY <2>0, CloseFrame, <3>9 DEF Return
    <3>10. CASE ReleaseDec(c)
      <4>a. PICK v \in Worker : v = lease[c]
        BY <3>10 DEF ReleaseDec, SlotInv, LeaseOK
      <4>1. /\ v = lease[c] /\ pc[c] = "finished"
            /\ refs' = [refs EXCEPT ![v] = refs[v] - 1]
            /\ UNCHANGED <<retired, closed, rpc, retiring>>
        BY <3>10, <4>a DEF ReleaseDec
      <4>2. /\ \A d \in Client \ {c} : pc'[d] = pc[d] /\ lease'[d] = lease[d]
            /\ pc'[c] \notin Leasing
            /\ refs[v] = 1 => pc'[c] = "dropped" /\ lease'[c] = v
        BY <2>0, <3>10, <4>a DEF ReleaseDec, AfterRelease
      <4>3. c \in Holders(v) /\ Holders(v)' = Holders(v) \ {c}
        BY <2>0, <4>1, <4>2 DEF Holders
      <4>4. \A w \in Worker \ {v} : Holders(w)' = Holders(w)
        BY <2>0, <4>1, <4>2 DEF Holders
      <4>5. Cardinality(Holders(v)') = Cardinality(Holders(v)) - 1
        BY <4>3, HoldersFinite, FS_RemoveElement
      <4>6. RefsExact'
        BY <2>0, <4>1, <4>4, <4>5 DEF RefsExact, CloseInv
      <4>7. RetiringOK'
        BY <4>1 DEF CloseInv, RetiringOK
      <4>8. refs[v] # 1 => Holders(v)' # {}
        <5>1. refs[v] = Cardinality(Holders(v))
          BY DEF RefsExact, CloseInv
        <5>2. Cardinality(Holders(v)) \in Nat
          BY HoldersFinite, FS_CardinalityType
        <5>3. Holders(v)' = {} => Cardinality(Holders(v)') = 0
          BY FS_EmptySet
        <5> QED BY <4>5, <5>1, <5>2, <5>3
      <4>9. NoLostClose'
        BY <2>0, <4>1, <4>2, <4>4, <4>8 DEF CloseInv, NoLostClose
      <4> QED BY <4>6, <4>7, <4>9 DEF CloseInv
    <3>11. CASE ReleaseCheck(c)
      <4>1. /\ lease[c] \in Worker /\ pc[c] = "dropped"
            /\ UNCHANGED <<refs, retired, rpc, retiring>>
        BY <3>11 DEF ReleaseCheck, SlotInv, LeaseOK
      <4>2. /\ \A d \in Client \ {c} : pc'[d] = pc[d] /\ lease'[d] = lease[d]
            /\ pc'[c] \notin Leasing
        BY <2>0, <3>11 DEF ReleaseCheck, AfterRelease
      <4>3. \A w \in Worker : Holders(w)' = Holders(w)
        BY <2>0, <4>1, <4>2 DEF Holders
      <4>4. \A w \in Worker : closed[w] => closed'[w]
        BY <2>0, <3>11 DEF ReleaseCheck
      <4>5. retired[lease[c]] => closed'[lease[c]]
        BY <2>0, <4>1, <3>11 DEF ReleaseCheck
      <4>6. RefsExact'
        BY <4>1, <4>3 DEF RefsExact, CloseInv
      <4>7. RetiringOK'
        BY <4>1 DEF CloseInv, RetiringOK
      <4>8. NoLostClose'
        BY <2>0, <4>1, <4>2, <4>3, <4>4, <4>5 DEF CloseInv, NoLostClose
      <4> QED BY <4>6, <4>7, <4>8 DEF CloseInv
    <3> QED
      BY <2>1, <3>1, <3>2, <3>3, <3>4, <3>5, <3>6, <3>7, <3>8, <3>9, <3>10,
         <3>11 DEF ClientStep
  <2>2. CASE ReloadStep
    <3>1. CASE ReloadBuild
      <4>1. UNCHANGED <<refs, retired, closed, pc, lease, retiring>>
        BY <3>1 DEF ReloadBuild
      <4>2. \A w \in Worker : Holders(w)' = Holders(w)
        BY <4>1 DEF Holders
      <4>3. RefsExact'
        BY <4>1, <4>2 DEF RefsExact, CloseInv
      <4>4. RetiringOK'
        BY <3>1, <4>1 DEF ReloadBuild, CloseInv, RetiringOK
      <4>5. NoLostClose'
        BY <4>1, <4>2 DEF CloseInv, NoLostClose
      <4> QED BY <4>3, <4>4, <4>5 DEF CloseInv
    <3>2. ASSUME NEW k \in 0..PoolSize, ReloadFail(k) PROVE CloseInv'
      <4>1. \A w \in Worker : closed[w] => closed'[w]
        BY <2>0, <3>2 DEF ReloadFail, BuildFails
      <4> QED BY <2>0, <4>1, <3>2, CloseFrame DEF ReloadFail
    <3>3. CASE ReloadSwap
      <4>1. UNCHANGED <<refs, retired, closed, pc, lease, retiring>>
        BY <3>3 DEF ReloadSwap
      <4>2. \A w \in Worker : Holders(w)' = Holders(w)
        BY <4>1 DEF Holders
      <4>3. RefsExact'
        BY <4>1, <4>2 DEF RefsExact, CloseInv
      <4>4. RetiringOK'
        BY <3>3, <4>1 DEF ReloadSwap, CloseInv, RetiringOK
      <4>5. NoLostClose'
        BY <4>1, <4>2 DEF CloseInv, NoLostClose
      <4> QED BY <4>3, <4>4, <4>5 DEF CloseInv
    <3>4. CASE RetireStore
      <4>1. PICK w \in old : /\ retired' = [retired EXCEPT ![w] = TRUE]
                             /\ retiring' = w /\ rpc' = "check"
        BY <3>4 DEF RetireStore
      <4>2. UNCHANGED <<refs, closed, pc, lease>> /\ rpc = "retire"
        BY <3>4 DEF RetireStore
      <4>3. \A x \in Worker : Holders(x)' = Holders(x)
        BY <4>2 DEF Holders
      <4>4. RefsExact'
        BY <4>2, <4>3 DEF RefsExact, CloseInv
      <4>5. w \in Worker /\ RetiringOK'
        BY <4>1 DEF RetiringOK, TypeOK
      <4>6. NoLostClose'
        <5> SUFFICES ASSUME NEW x \in Worker, retired'[x], Holders(x) = {},
                            ~(\E d \in Client : pc[d] = "dropped" /\ lease[d] = x),
                            retiring' # x
                     PROVE  closed[x]
          BY <4>2, <4>3 DEF NoLostClose
        <5>1. retired[x] /\ retiring # x
          BY <2>0, <4>1, <4>2 DEF CloseInv, RetiringOK, NoWorker, Worker
        <5> QED BY <5>1 DEF CloseInv, NoLostClose
      <4> QED BY <4>4, <4>5, <4>6 DEF CloseInv
    <3>5. CASE RetireCheck
      <4>1. /\ retiring' = NoWorker /\ rpc' = "retire" /\ rpc = "check"
            /\ UNCHANGED <<refs, retired, pc, lease>>
        BY <3>5 DEF RetireCheck
      <4>2. \A w \in Worker : Holders(w)' = Holders(w)
        BY <4>1 DEF Holders
      <4>3. RefsExact' /\ RetiringOK' /\ retiring \in Worker
        BY <4>1, <4>2 DEF RefsExact, CloseInv, RetiringOK
      <4>4. Holders(retiring) = {} => closed'[retiring]
        <5>1. Holders(retiring) = {} => refs[retiring] = 0
          BY <4>3, FS_EmptySet DEF RefsExact, CloseInv
        <5> QED BY <2>0, <3>5, <4>3, <5>1 DEF RetireCheck
      <4>5. \A w \in Worker : closed[w] => closed'[w]
        BY <2>0, <3>5 DEF RetireCheck
      <4>6. NoLostClose'
        BY <4>1, <4>2, <4>4, <4>5 DEF CloseInv, NoLostClose
      <4> QED BY <4>3, <4>6 DEF CloseInv
    <3>6. CASE ReloadDone
      <4>1. UNCHANGED <<refs, retired, closed, pc, lease, retiring>>
        BY <3>6 DEF ReloadDone
      <4>2. \A w \in Worker : Holders(w)' = Holders(w)
        BY <4>1 DEF Holders
      <4>3. RefsExact'
        BY <4>1, <4>2 DEF RefsExact, CloseInv
      <4>4. RetiringOK'
        BY <3>6, <4>1 DEF ReloadDone, CloseInv, RetiringOK
      <4>5. NoLostClose'
        BY <4>1, <4>2 DEF CloseInv, NoLostClose
      <4> QED BY <4>3, <4>4, <4>5 DEF CloseInv
    <3> QED
      BY <2>2, <3>1, <3>2, <3>3, <3>4, <3>5, <3>6 DEF ReloadStep
  <2>3. CASE BootStep
    <3>1. CASE BootBuild
      BY <2>0, CloseFrame, <3>1 DEF BootBuild
    <3>2. ASSUME NEW k \in 0..PoolSize, BootFail(k) PROVE CloseInv'
      <4>1. \A w \in Worker : closed[w] => closed'[w]
        BY <2>0, <3>2 DEF BootFail, BuildFails
      <4> QED BY <2>0, <4>1, <3>2, CloseFrame DEF BootFail
    <3>3. ASSUME NEW ok \in BOOLEAN, BootInstall(ok) PROVE CloseInv'
      BY <2>0, CloseFrame, <3>3 DEF BootInstall
    <3>4. CASE BootInit
      BY <2>0, CloseFrame, <3>4 DEF BootInit
    <3>5. CASE InitAcquire
      BY <2>0, CloseFrame, <3>5 DEF InitAcquire
    <3>6. ASSUME NEW ok \in BOOLEAN, InitReturn(ok) PROVE CloseInv'
      <4>1. \A w \in Worker : closed[w] => closed'[w]
        BY <2>0, <3>6 DEF InitReturn
      <4> QED BY <2>0, <4>1, <3>6, CloseFrame DEF InitReturn
    <3>7. ASSUME NEW ok \in BOOLEAN, BootListen(ok) PROVE CloseInv'
      BY <2>0, CloseFrame, <3>7 DEF BootListen
    <3> QED
      BY <2>3, <3>1, <3>2, <3>3, <3>4, <3>5, <3>6, <3>7 DEF BootStep
  <2>4. CASE RunStep
    <3>1. CASE RunWake
      BY <2>0, CloseFrame, <3>1 DEF RunWake
    <3>2. CASE PickShutdownWorker
      BY <2>0, CloseFrame, <3>2 DEF PickShutdownWorker
    <3>3. CASE ShutdownAcquire
      BY <2>0, CloseFrame, <3>3 DEF ShutdownAcquire
    <3>4. CASE ShutdownReturn
      BY <2>0, CloseFrame, <3>4 DEF ShutdownReturn
    <3>5. CASE CloseListeners
      BY <2>0, CloseFrame, <3>5 DEF CloseListeners
    <3>6. CASE Collect
      BY <2>0, CloseFrame, <3>6 DEF Collect
    <3>7. CASE WaitIdleTake
      BY <2>0, CloseFrame, <3>7 DEF WaitIdleTake
    <3>8. CASE WaitIdleReseed
      BY <2>0, CloseFrame, <3>8 DEF WaitIdleReseed
    <3>9. CASE WaitIdleTimeout
      BY <2>0, CloseFrame, <3>9 DEF WaitIdleTimeout
    <3>10. CASE DrainClose
      <4>1. \A w \in Worker : closed[w] => closed'[w]
        BY <2>0, <3>10 DEF DrainClose
      <4> QED BY <2>0, <4>1, <3>10, CloseFrame DEF DrainClose
    <3>11. CASE RunReturn
      BY <2>0, CloseFrame, <3>11 DEF RunReturn
    <3> QED
      BY <2>4, <3>1, <3>2, <3>3, <3>4, <3>5, <3>6, <3>7, <3>8, <3>9, <3>10,
         <3>11 DEF RunStep
  <2>5. CASE Signal
    BY <2>0, CloseFrame, <2>5 DEF Signal
  <2>6. CASE UNCHANGED vars
    BY <2>0, CloseFrame, <2>6 DEF vars
  <2> QED
    BY <2>1, <2>2, <2>3, <2>4, <2>5, <2>6 DEF Next
<1>3. CloseInv => NoLostClose
  BY DEF CloseInv
<1> QED
  BY <1>1, <1>2, <1>3, TypeCorrect, SlotCorrectInv, PTL DEF Spec

-----------------------------------------------------------------------------
(* Where the workers of a server are that is not reloaded before it is     *)
(* ready: until then only start-up has built any; the worker Run calls is  *)
(* in the pool or among the retired ones, and between its calls it has     *)
(* none.                                                                   *)
RunCalls == {"initLua", "callWait", "callLua"}
TrackInv ==
    /\ mpc \in BootPC => rpc = "idle" /\ retiredQ = {}
    /\ rpc # "swap" => fresh = <<>>
    /\ mpc = "build" => nBuilt = 0
    /\ mpc \in {"build", "install"} => workers = <<>>
    /\ mpc \in BootPC \ {"build", "install"} => workers = boot
    /\ mpc \in RunCalls => target \in Members(workers) \cup retiredQ
    /\ mpc \notin RunCalls \cup {"idleTaken", "close", "failed"} => target = NoWorker
    /\ mpc \in BootPC \cup ServePC => drain = {}
    /\ NoLostWorker

(* A step that moves no worker between the places and closes none but for  *)
(* good.                                                                   *)
LEMMA TrackFrame ==
    ASSUME TrackInv, UNCHANGED <<workers, retiredQ, nBuilt, rpc, fresh, mpc, boot, target, drain>>,
           \A w \in 1..nBuilt : closed[w] => closed'[w]
    PROVE  TrackInv'
<1>1. UNCHANGED <<Members(workers), Members(fresh), Members(boot)>>
  BY DEF Members
<1>2. NoLostWorker'
  BY <1>1 DEF TrackInv, NoLostWorker
<1> QED BY <1>1, <1>2 DEF TrackInv

(* No Lua state is leaked: as long as no reload comes before the server is *)
(* ready, every worker that NewWorker made is closed, in the pool, in      *)
(* s.retired, in a reload or a start-up under way, or in the drain list,   *)
(* through every order of reloads, releases, k.quit and shutdown.          *)
THEOREM WorkersCorrect == ASSUME ~EarlyHUP PROVE Spec => []NoLostWorker
<1> USE PoolAssumption
<1>1. Init => TrackInv
  BY DEF Init, TrackInv, NoLostWorker, BootPC, ServePC, RunCalls
<1>2. TypeOK /\ TypeOK' /\ SlotInv /\ TrackInv /\ [Next]_vars => TrackInv'
  <2> SUFFICES ASSUME TypeOK, TypeOK', SlotInv, TrackInv, [Next]_vars
               PROVE  TrackInv'
    OBVIOUS
  <2> USE DEF poolVars, workerVars, clientVars, reloadVars, runVars, stopVars
  <2>0. /\ closed \in [Worker -> BOOLEAN] /\ retired \in [Worker -> BOOLEAN]
        /\ nBuilt \in Nat /\ nBuilt <= MaxWorkers /\ 1..nBuilt \subseteq Worker
        /\ Worker \subseteq Nat /\ Members(<<>>) = {}
    <3>1. closed \in [Worker -> BOOLEAN] /\ retired \in [Worker -> BOOLEAN]
      BY DEF TypeOK
    <3>2. nBuilt \in 0..MaxWorkers
      BY DEF TypeOK
    <3>3. nBuilt \in Nat /\ nBuilt <= MaxWorkers /\ 1..nBuilt \subseteq Worker /\ Worker \subseteq Nat
      BY <3>2 DEF Worker
    <3>4. Members(<<>>) = {}
      BY DEF Members
    <3> QED BY <3>1, <3>3, <3>4
  <2>1. ASSUME NEW c \in Client, ClientStep(c) PROVE TrackInv'
    <3>1. /\ UNCHANGED <<workers, retiredQ, nBuilt, rpc, fresh, mpc, boot, target, drain>>
          /\ UNCHANGED closed \/ ReleaseCheck(c)
      BY <2>1 DEF ClientStep, LeaseWorker, NoWorkers, BadBody, BeginCall, WSEvent, AcquireSlot, BusyTimeout,
                  Quit, Return, ReleaseDec, ReleaseCheck
    <3>2. \A w \in Worker : closed[w] => closed'[w]
      BY <2>0, <3>1 DEF ReleaseCheck
    <3> QED BY <2>0, <3>1, <3>2, TrackFrame
  <2>2. CASE ReloadStep
    <3>1. CASE ReloadBuild
      <4>1. Members(fresh)' = (nBuilt + 1)..(nBuilt + PoolSize)
        BY <2>0, <3>1, IdsSeq DEF ReloadBuild, BuildSucceeds
      <4>2. /\ nBuilt' = nBuilt + PoolSize /\ mpc \notin BootPC /\ rpc' = "swap" /\ rpc = "idle"
            /\ UNCHANGED <<workers, retiredQ, closed, mpc, boot, target, drain>>
        BY <3>1 DEF ReloadBuild, BuildSucceeds
      <4>3. UNCHANGED <<Members(workers), Members(boot)>> /\ Members(fresh) = {}
        BY <2>0, <4>2 DEF Members, TrackInv
      <4>4. \A w \in 1..nBuilt' : w \in 1..nBuilt \/ w \in Members(fresh)'
        BY <2>0, <4>1, <4>2
      <4>5. NoLostWorker'
        BY <4>2, <4>3, <4>4 DEF TrackInv, NoLostWorker
      <4> QED BY <4>2, <4>3, <4>5 DEF TrackInv, BootPC
    <3>2. ASSUME NEW k \in 0..PoolSize, ReloadFail(k) PROVE TrackInv'
      <4>1. /\ nBuilt' = nBuilt + k /\ mpc \notin BootPC
            /\ UNCHANGED <<workers, retiredQ, rpc, fresh, mpc, boot, target, drain>>
        BY <3>2 DEF ReloadFail, BuildFails
      <4>2. UNCHANGED <<Members(workers), Members(boot), Members(fresh)>>
        BY <4>1 DEF Members
      <4>3. nBuilt + k <= MaxWorkers /\ \A w \in Worker : closed'[w] <=> closed[w] \/ w \in (nBuilt + 1)..(nBuilt + k)
        BY <2>0, <3>2 DEF ReloadFail, BuildFails
      <4>4. \A w \in 1..nBuilt' : w \in 1..nBuilt \/ closed'[w]
        BY <2>0, <4>1, <4>3 DEF Worker
      <4>5. \A w \in 1..nBuilt : closed[w] => closed'[w]
        BY <2>0, <4>3
      <4>6. NoLostWorker'
        BY <4>1, <4>2, <4>4, <4>5 DEF TrackInv, NoLostWorker
      <4> QED BY <4>1, <4>2, <4>6 DEF TrackInv, BootPC
    <3>3. CASE ReloadSwap
      <4>1. /\ retiredQ' = retiredQ \cup Members(workers) /\ workers' = fresh /\ fresh' = <<>> /\ rpc' = "retire"
            /\ UNCHANGED <<nBuilt, closed, mpc, boot, target, drain>> /\ rpc = "swap"
        BY <3>3 DEF ReloadSwap
      <4>2. Members(workers)' = Members(fresh) /\ Members(fresh)' = {} /\ UNCHANGED Members(boot)
        BY <2>0, <4>1 DEF Members
      <4>3. mpc \notin BootPC
        BY <4>1 DEF TrackInv
      <4>4. NoLostWorker'
        BY <4>1, <4>2 DEF TrackInv, NoLostWorker
      <4> QED BY <4>1, <4>2, <4>3, <4>4 DEF TrackInv, BootPC
    <3>4. ASSUME RetireStore \/ RetireCheck \/ ReloadDone PROVE TrackInv'
      <4>1. /\ UNCHANGED <<workers, retiredQ, nBuilt, fresh, mpc, boot, target, drain>>
            /\ rpc # "idle" /\ rpc # "swap" /\ rpc' # "swap"
        BY <3>4 DEF RetireStore, RetireCheck, ReloadDone
      <4>2. \A w \in Worker : closed[w] => closed'[w]
        BY <2>0, <3>4 DEF RetireStore, RetireCheck, ReloadDone
      <4>3. UNCHANGED <<Members(workers), Members(boot), Members(fresh)>>
        BY <4>1 DEF Members
      <4>4. NoLostWorker'
        BY <2>0, <4>1, <4>2, <4>3 DEF TrackInv, NoLostWorker
      <4> QED BY <4>1, <4>3, <4>4 DEF TrackInv
    <3> QED
      BY <2>2, <3>1, <3>2, <3>3, <3>4 DEF ReloadStep
  <2>3. CASE BootStep
    <3> USE DEF BootPC, ServePC, RunCalls
    <3>1. CASE BootBuild
      <4>1. Members(boot)' = (nBuilt + 1)..(nBuilt + PoolSize)
        BY <2>0, <3>1, IdsSeq DEF BootBuild, BuildSucceeds
      <4>2. /\ nBuilt' = nBuilt + PoolSize /\ mpc = "build" /\ mpc' = "install"
            /\ UNCHANGED <<workers, retiredQ, rpc, fresh, closed, target, drain>>
        BY <3>1 DEF BootBuild, BuildSucceeds
      <4>3. \A w \in 1..nBuilt' : w \in Members(boot)'
        <5>1. nBuilt = 0
          BY <4>2 DEF TrackInv
        <5>2. Members(boot)' = 1..PoolSize /\ nBuilt' = PoolSize
          BY <4>1, <4>2, <5>1
        <5> QED BY <5>2
      <4>4. NoLostWorker'
        BY <4>2, <4>3 DEF NoLostWorker
      <4> QED BY <4>2, <4>4 DEF TrackInv
    <3>2. ASSUME NEW k \in 0..PoolSize, BootFail(k) PROVE TrackInv'
      BY <2>0, <3>2 DEF BootFail, TrackInv, NoLostWorker
    <3>3. ASSUME NEW ok \in BOOLEAN, BootInstall(ok) PROVE TrackInv'
      <4>1. /\ mpc = "install" /\ workers' = boot /\ mpc' \in {"init", "failed"}
            /\ UNCHANGED <<retiredQ, nBuilt, rpc, fresh, closed, boot, target, drain>>
        BY <3>3 DEF BootInstall
      <4>2. workers = <<>> /\ target = NoWorker
        BY <4>1 DEF TrackInv
      <4>3. Members(workers)' = Members(boot) /\ Members(workers) = {} /\ UNCHANGED <<Members(boot), Members(fresh)>>
        BY <2>0, <4>1, <4>2 DEF Members
      <4>4. NoLostWorker'
        BY <4>1, <4>2, <4>3 DEF TrackInv, NoLostWorker
      <4> QED BY <4>1, <4>3, <4>4 DEF TrackInv
    <3>4. CASE BootInit
      <4>1. /\ mpc = "init" /\ mpc' \in {"initWait", "listen"}
            /\ UNCHANGED <<workers, retiredQ, nBuilt, rpc, fresh, closed, boot, target, drain>>
        BY <3>4 DEF BootInit
      <4>2. UNCHANGED <<Members(workers), Members(boot), Members(fresh)>>
        BY <4>1 DEF Members
      <4>3. NoLostWorker'
        BY <4>1, <4>2 DEF TrackInv, NoLostWorker
      <4> QED BY <4>1, <4>2, <4>3 DEF TrackInv
    <3>5. CASE InitAcquire
      <4>1. /\ mpc = "initWait" /\ mpc' = "initLua" /\ target' = boot[1]
            /\ UNCHANGED <<workers, retiredQ, nBuilt, rpc, fresh, closed, boot, drain>>
        BY <3>5 DEF InitAcquire
      <4>2. workers = boot /\ target = NoWorker
        BY <4>1 DEF TrackInv
      <4>3. UNCHANGED <<Members(workers), Members(boot), Members(fresh)>>
        BY <4>1 DEF Members
      <4>4. boot[1] \in Members(boot)
        BY <4>1 DEF TypeOK, Members
      <4>5. NoLostWorker'
        BY <2>0, <4>1, <4>2, <4>3 DEF TrackInv, NoLostWorker, NoWorker
      <4> QED BY <4>1, <4>2, <4>3, <4>4, <4>5 DEF TrackInv
    <3>6. ASSUME NEW ok \in BOOLEAN, InitReturn(ok) PROVE TrackInv'
      <4>1. /\ mpc = "initLua" /\ mpc' \in {"listen", "failed"} /\ target' = NoWorker
            /\ UNCHANGED <<workers, retiredQ, nBuilt, rpc, fresh, boot, drain>>
        BY <3>6 DEF InitReturn
      <4>2. target \in Members(workers) \cup retiredQ
        BY <4>1 DEF TrackInv
      <4>3. UNCHANGED <<Members(workers), Members(boot), Members(fresh)>>
        BY <4>1 DEF Members
      <4>4. \A w \in Worker : closed[w] => closed'[w]
        BY <2>0, <3>6 DEF InitReturn
      <4>5. NoLostWorker'
        BY <2>0, <4>1, <4>2, <4>3, <4>4 DEF TrackInv, NoLostWorker
      <4> QED BY <4>1, <4>3, <4>5 DEF TrackInv
    <3>7. ASSUME NEW ok \in BOOLEAN, BootListen(ok) PROVE TrackInv'
      <4>1. /\ mpc = "listen" /\ mpc' \in {"running", "failed"}
            /\ UNCHANGED <<workers, retiredQ, nBuilt, rpc, fresh, closed, boot, target, drain>>
        BY <3>7 DEF BootListen
      <4>2. UNCHANGED <<Members(workers), Members(boot), Members(fresh)>> /\ workers = boot
        BY <4>1 DEF Members, TrackInv
      <4>3. NoLostWorker'
        BY <4>1, <4>2 DEF TrackInv, NoLostWorker
      <4> QED BY <4>1, <4>2, <4>3 DEF TrackInv
    <3> QED
      BY <2>3, <3>1, <3>2, <3>3, <3>4, <3>5, <3>6, <3>7 DEF BootStep
  <2>4. CASE RunStep
    <3> USE DEF BootPC, ServePC, RunCalls
    <3>1. ASSUME RunWake \/ CloseListeners \/ RunReturn \/ ShutdownAcquire \/ WaitIdleReseed PROVE TrackInv'
      <4>1. /\ UNCHANGED <<workers, retiredQ, nBuilt, rpc, fresh, closed, boot, target, drain>>
            /\ \/ mpc = "running" /\ mpc' = "pick"
               \/ mpc = "listeners" /\ mpc' = "collect"
               \/ mpc = "drain" /\ mpc' = "stopped"
               \/ mpc = "callWait" /\ mpc' = "callLua"
               \/ mpc = "idleTaken" /\ mpc' = "close"
        BY <3>1 DEF RunWake, CloseListeners, RunReturn, ShutdownAcquire, WaitIdleReseed
      <4>2. UNCHANGED <<Members(workers), Members(boot), Members(fresh)>>
        BY <4>1 DEF Members
      <4>3. NoLostWorker'
        BY <4>1, <4>2 DEF TrackInv, NoLostWorker
      <4> QED BY <4>1, <4>2, <4>3 DEF TrackInv
    <3>2. CASE PickShutdownWorker
      <4>1. /\ UNCHANGED <<workers, retiredQ, nBuilt, rpc, fresh, closed, boot, drain>> /\ mpc = "pick"
            /\ \/ workers # <<>> /\ target' = workers[1] /\ mpc' = "callWait"
               \/ UNCHANGED target /\ mpc' = "listeners"
        BY <3>2 DEF PickShutdownWorker
      <4>2. UNCHANGED <<Members(workers), Members(boot), Members(fresh)>> /\ target = NoWorker
        BY <4>1 DEF Members, TrackInv
      <4>3. workers # <<>> => workers[1] \in Members(workers)
        <5>1. workers \in Seq(Worker)
          BY DEF TypeOK
        <5>2. workers # <<>> => 1 \in 1..Len(workers)
          BY <5>1
        <5> QED BY <5>2 DEF Members
      <4>4. NoLostWorker'
        BY <2>0, <4>1, <4>2 DEF TrackInv, NoLostWorker, NoWorker
      <4> QED BY <4>1, <4>2, <4>3, <4>4 DEF TrackInv
    <3>3. CASE ShutdownReturn
      <4>1. /\ UNCHANGED <<workers, retiredQ, nBuilt, rpc, fresh, closed, boot, drain>>
            /\ mpc = "callLua" /\ mpc' = "listeners" /\ target' = NoWorker
        BY <3>3 DEF ShutdownReturn
      <4>2. UNCHANGED <<Members(workers), Members(boot), Members(fresh)>>
            /\ target \in Members(workers) \cup retiredQ
        BY <4>1 DEF Members, TrackInv
      <4>3. NoLostWorker'
        BY <4>1, <4>2 DEF TrackInv, NoLostWorker
      <4> QED BY <4>1, <4>2, <4>3 DEF TrackInv
    <3>4. CASE Collect
      <4>1. /\ UNCHANGED <<nBuilt, rpc, fresh, closed, boot, target>> /\ mpc = "collect" /\ mpc' = "drain"
            /\ drain' = Members(workers) \cup retiredQ /\ workers' = <<>> /\ retiredQ' = {}
        BY <3>4 DEF Collect
      <4>2. UNCHANGED <<Members(boot), Members(fresh)>> /\ Members(workers)' = {}
        BY <2>0, <4>1 DEF Members
      <4>3. drain = {}
        BY <4>1 DEF TrackInv
      <4>4. NoLostWorker'
        BY <4>1, <4>2, <4>3 DEF TrackInv, NoLostWorker
      <4> QED BY <4>1, <4>2, <4>4 DEF TrackInv
    <3>5. ASSUME WaitIdleTake \/ WaitIdleTimeout PROVE TrackInv'
      <4>1. /\ UNCHANGED <<workers, retiredQ, nBuilt, rpc, fresh, closed, boot>>
            /\ mpc = "drain" /\ mpc' \in {"idleTaken", "close"} /\ drain' = drain \ {target'}
        BY <3>5 DEF WaitIdleTake, WaitIdleTimeout
      <4>2. UNCHANGED <<Members(workers), Members(boot), Members(fresh)>> /\ target = NoWorker
        BY <4>1 DEF Members, TrackInv
      <4>3. NoLostWorker'
        BY <2>0, <4>1, <4>2 DEF TrackInv, NoLostWorker, NoWorker
      <4> QED BY <4>1, <4>2, <4>3 DEF TrackInv
    <3>6. CASE DrainClose
      <4>1. /\ UNCHANGED <<workers, retiredQ, nBuilt, rpc, fresh, boot, drain>>
            /\ mpc = "close" /\ mpc' = "drain" /\ target' = NoWorker /\ closed' = [closed EXCEPT ![target] = TRUE]
        BY <3>6 DEF DrainClose
      <4>2. UNCHANGED <<Members(workers), Members(boot), Members(fresh)>> /\ target \in Worker
        BY <4>1 DEF Members, SlotInv, RunOK
      <4>3. closed'[target] /\ \A w \in Worker : closed[w] => closed'[w]
        BY <2>0, <4>1, <4>2
      <4>4. NoLostWorker'
        BY <2>0, <4>1, <4>2, <4>3 DEF TrackInv, NoLostWorker
      <4> QED BY <4>1, <4>2, <4>4 DEF TrackInv
    <3> QED
      BY <2>4, <3>1, <3>2, <3>3, <3>4, <3>5, <3>6 DEF RunStep
  <2>5. CASE Signal
    BY <2>0, <2>5, TrackFrame DEF Signal
  <2>6. CASE UNCHANGED vars
    BY <2>0, <2>6, TrackFrame DEF vars
  <2> QED
    BY <2>1, <2>2, <2>3, <2>4, <2>5, <2>6 DEF Next
<1>3. TrackInv => NoLostWorker
  BY DEF TrackInv
<1> QED
  BY <1>1, <1>2, <1>3, TypeCorrect, SlotCorrectInv, PTL DEF Spec
=============================================================================
