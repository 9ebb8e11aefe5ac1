--------------------------- MODULE BackendProofs -------------------------
(***************************************************************************)
(* Theorems about the backends of a request. LayaWorker, for any calls, any *)
(* number of slots and of cancellations: no order of them loses a slot, a   *)
(* function keeps its slot through one cancellation of its call, and the    *)
(* worker implements DrainedShutdown, deserted functions included.          *)
(* AutoPlan, for any requests, sizes, backends and policies: what is        *)
(* planned is admitted, what must stay on the machine does, a cascade keeps *)
(* what was asked for, and the routes follow the policy.                    *)
(***************************************************************************)
EXTENDS AutoPlan, LayaWorker, FiniteSetTheorems, SequenceTheorems, WellFoundedInduction,
        TLAPS

Pooled == {j \in Job : InPool(j)}
Holding == {j \in Job : pc[j] \in {"running", "held"}}

Balance == slots + Cardinality(Holding) = Slots

\* What a call has seen of its cancellations: one to be held, two to desert.
CancelsSeen ==
    \A j \in Job :
        /\ j \in asked => cancels[j] >= 1
        /\ pc[j] = "held" => cancels[j] >= 1
        /\ pc[j] = "held" /\ j \in asked => cancels[j] >= 2

\* A call that has not been given a slot has handed over no function.
Fresh == \A j \in Job : pc[j] \in {"new", "waiting"} => thread[j] = "none"

\* Functions are in a pool that exists, and a call that waits found or made it.
PoolThere ==
    /\ Pooled # {} => executor
    /\ ~closed => \A j \in Job : pc[j] = "waiting" => executor

\* When the close has gone past the pool, the pool is empty.
CloseWaits ==
    /\ closed <=> closing # "no"
    /\ closing \in {"unload", "done", "failed"} => Pooled = {}

IInv == TypeOK /\ Balance /\ CancelsSeen /\ Fresh /\ SlotHeldOnce /\ PoolThere /\ CloseWaits

LEMMA HoldingFinite ==
    /\ IsFiniteSet(Holding) /\ Cardinality(Holding) \in Nat
    /\ IsFiniteSet(Holding') /\ Cardinality(Holding') \in Nat
<1>1. Holding \subseteq Job /\ Holding' \subseteq Job
  BY DEF Holding
<1>2. IsFiniteSet(Holding) /\ IsFiniteSet(Holding')
  BY <1>1, JobFinite, FS_Subset
<1>3. QED
  BY <1>2, FS_CardinalityType

LEMMA InitIInv == Init => IInv
<1> SUFFICES ASSUME Init PROVE IInv
  OBVIOUS
<1>1. Holding = {} /\ Pooled = {}
  BY DEF Init, Holding, Pooled, InPool
<1>2. Balance
  BY <1>1, FS_EmptySet, SlotsPositive DEF Init, Balance
<1>3. TypeOK
  <2>1. slots \in 0..Slots /\ cancels \in [Job -> 0..MaxCancels]
    BY SlotsPositive, CancelsBounded DEF Init
  <2>2. QED
    BY <2>1 DEF Init, TypeOK, Pc
<1>4. CancelsSeen /\ Fresh /\ SlotHeldOnce
  BY DEF Init, CancelsSeen, Fresh, SlotHeldOnce, SlotHeldFor, InPool
<1>5. PoolThere /\ CloseWaits
  BY <1>1 DEF Init, PoolThere, CloseWaits
<1>6. QED
  BY <1>2, <1>3, <1>4, <1>5 DEF IInv

(***************************************************************************)
(* The count of slots under the three ways a call and its slot part or meet.*)
(***************************************************************************)

LEMMA SlotKept ==
    ASSUME IInv, Holding' = Holding, slots' = slots
    PROVE  Balance' /\ slots' \in 0..Slots
BY DEF IInv, TypeOK, Balance

LEMMA SlotTaken ==
    ASSUME IInv, NEW j \in Job, j \notin Holding, Holding' = Holding \cup {j},
           slots > 0, slots' = slots - 1
    PROVE  Balance' /\ slots' \in 0..Slots
<1>1. Cardinality(Holding') = Cardinality(Holding) + 1
  BY HoldingFinite, FS_AddElement
<1>2. QED
  BY <1>1, HoldingFinite, SlotsPositive DEF IInv, TypeOK, Balance

LEMMA SlotFreed ==
    ASSUME IInv, NEW j \in Job, j \in Holding, Holding' = Holding \ {j},
           slots' = slots + 1
    PROVE  Balance' /\ slots' \in 0..Slots
<1>1. Cardinality(Holding') = Cardinality(Holding) - 1
  BY HoldingFinite, FS_RemoveElement
<1>2. QED
  BY <1>1, HoldingFinite, SlotsPositive DEF IInv, TypeOK, Balance

(***************************************************************************)
(* A step of a call. Leaving the slot free or taken is one step each.       *)
(***************************************************************************)

\* What a step of call j leaves of the rest of the invariant, once the count of
\* slots is settled: it touches no other call, and puts a function in the pool
\* only with the slot in hand.
LEMMA EndsPreserves ==
    ASSUME IInv, NEW j \in Job, NEW how \in Pc \ {"new", "waiting", "running"}, Ends(j, how),
           slots' \in 0..Slots, Balance', UNCHANGED <<cancels, pool, close>>,
           how = "held" => j \in asked /\ pc[j] = "running",
           how # "held" => ~InPool(j) \/ cancels[j] >= 2
    PROVE  IInv'
<1>1. TypeOK'
  BY DEF IInv, TypeOK, Ends, pool, close
<1>2. CancelsSeen'
  BY DEF IInv, TypeOK, CancelsSeen, Ends
<1>3. Fresh'
  BY DEF IInv, TypeOK, Fresh, Ends, pool
<1>4. SlotHeldOnce'
  <2> SUFFICES ASSUME NEW i \in Job, cancels[i] <= 1, InPool(i)
               PROVE  pc'[i] \in {"running", "held"}
    BY DEF SlotHeldOnce, SlotHeldFor, InPool, pool
  <2>1. CASE i = j
    BY <2>1 DEF IInv, TypeOK, Ends
  <2>2. CASE i # j
    BY <2>2 DEF IInv, TypeOK, Ends, SlotHeldOnce, SlotHeldFor
  <2>3. QED
    BY <2>1, <2>2
<1>5. PoolThere' /\ CloseWaits'
  BY DEF IInv, TypeOK, PoolThere, CloseWaits, Pooled, InPool, Ends, pool, close
<1>6. QED
  BY <1>1, <1>2, <1>3, <1>4, <1>5 DEF IInv

LEMMA FinalHolding ==
    ASSUME IInv, NEW j \in Job, NEW how \in Finals, Ends(j, how)
    PROVE  Holding' = Holding \ {j}
BY DEF Ends, Holding, IInv, TypeOK, Finals

LEMMA EnterPreserves == ASSUME IInv, NEW j \in Job, Enter(j) PROVE IInv'
<1>1. CASE closed
  <2>1. Ends(j, "failed") /\ UNCHANGED <<cancels, slots, pool, close>> /\ thread[j] = "none"
    BY <1>1 DEF Enter, pool, IInv, Fresh
  <2>2. Holding' = Holding
    BY <2>1, FinalHolding DEF Enter, Holding, Finals
  <2>3. Balance' /\ slots' \in 0..Slots
    BY <2>1, <2>2, SlotKept
  <2>4. QED
    BY <2>1, <2>3, EndsPreserves DEF Pc, Finals, InPool
<1>2. CASE ~closed
  <2>1. /\ pc[j] = "new" /\ pc' = [pc EXCEPT ![j] = "waiting"] /\ executor'
        /\ UNCHANGED <<asked, cancels, slots, thread, router, closed, closing, closer>>
        /\ executor' \in BOOLEAN
    BY <1>2 DEF Enter, close
  <2>2. Holding' = Holding /\ Pooled' = Pooled
    BY <2>1 DEF Holding, Pooled, InPool, IInv, TypeOK
  <2>3. Balance' /\ slots' \in 0..Slots
    BY <2>1, <2>2, SlotKept
  <2>4. TypeOK'
    BY <2>1, <2>3 DEF IInv, TypeOK, Pc
  <2>5. CancelsSeen' /\ Fresh' /\ SlotHeldOnce'
    BY <2>1 DEF IInv, TypeOK, CancelsSeen, Fresh, SlotHeldOnce, SlotHeldFor, InPool
  <2>6. PoolThere' /\ CloseWaits'
    BY <2>1, <2>2 DEF IInv, PoolThere, CloseWaits
  <2>7. QED
    BY <2>3, <2>4, <2>5, <2>6 DEF IInv
<1>3. QED
  BY <1>1, <1>2

LEMMA AcquirePreserves == ASSUME IInv, NEW j \in Job, Acquire(j) PROVE IInv'
<1>1. CASE closed
  <2>1. /\ Ends(j, "failed") /\ UNCHANGED <<cancels, slots, pool, close>>
        /\ thread[j] = "none" /\ pc[j] = "waiting"
    BY <1>1 DEF Acquire, RefusedAfterWait, pool, IInv, Fresh
  <2>2. Holding' = Holding
    BY <2>1, FinalHolding DEF Holding, Finals
  <2>3. Balance' /\ slots' \in 0..Slots
    BY <2>1, <2>2, SlotKept
  <2>4. QED
    BY <2>1, <2>3, EndsPreserves DEF Pc, Finals, InPool
<1>2. CASE ~closed
  <2>1. /\ pc[j] = "waiting" /\ pc' = [pc EXCEPT ![j] = "running"]
        /\ slots > 0 /\ slots' = slots - 1 /\ thread' = [thread EXCEPT ![j] = "queued"]
        /\ UNCHANGED <<asked, cancels, executor, router, closed, closing, closer>>
    BY <1>2 DEF Acquire, RefusedAfterWait, close
  <2>2. j \notin Holding /\ Holding' = Holding \cup {j}
    BY <2>1 DEF Holding, IInv, TypeOK
  <2>3. Balance' /\ slots' \in 0..Slots
    BY <2>1, <2>2, SlotTaken
  <2>4. TypeOK'
    BY <2>1, <2>3 DEF IInv, TypeOK, Pc
  <2>5. CancelsSeen' /\ Fresh' /\ SlotHeldOnce'
    BY <2>1 DEF IInv, TypeOK, CancelsSeen, Fresh, SlotHeldOnce, SlotHeldFor, InPool
  <2>6. PoolThere'
    BY <1>2, <2>1 DEF IInv, TypeOK, PoolThere
  <2>7. CloseWaits'
    BY <1>2, <2>1 DEF IInv, CloseWaits
  <2>8. QED
    BY <2>3, <2>4, <2>5, <2>6, <2>7 DEF IInv
<1>3. QED
  BY <1>1, <1>2

LEMMA LeavePreserves ==
    ASSUME IInv, NEW j \in Job, Return(j) \/ Unhold(j) \/ Desert(j)
    PROVE  IInv'
<1>1. PICK how \in Finals : Ends(j, how)
  BY DEF Return, Unhold, Desert, Finals
<1>2. j \in Holding /\ slots' = slots + 1 /\ UNCHANGED <<cancels, pool, close>>
  BY DEF Return, Unhold, Desert, Holding
<1>3. ~InPool(j) \/ cancels[j] >= 2
  BY DEF Return, Unhold, Desert, InPool, IInv, CancelsSeen
<1>4. Balance' /\ slots' \in 0..Slots
  BY <1>1, <1>2, FinalHolding, SlotFreed
<1>5. QED
  BY <1>1, <1>2, <1>3, <1>4, EndsPreserves DEF Pc, Finals

LEMMA HoldPreserves == ASSUME IInv, NEW j \in Job, Hold(j) PROVE IInv'
<1>1. Holding' = Holding /\ slots' = slots
  BY DEF Hold, Ends, Holding, IInv, TypeOK
<1>2. Balance' /\ slots' \in 0..Slots
  BY <1>1, SlotKept
<1>3. QED
  BY <1>2, EndsPreserves DEF Hold, Pc

LEMMA UnwindPreserves == ASSUME IInv, NEW j \in Job, Unwind(j) PROVE IInv'
<1>1. Holding' = Holding /\ slots' = slots /\ thread[j] = "none"
  BY FinalHolding DEF Unwind, Holding, Finals, IInv, Fresh
<1>2. Balance' /\ slots' \in 0..Slots
  BY <1>1, SlotKept
<1>3. QED
  BY <1>1, <1>2, EndsPreserves DEF Unwind, Pc, Finals, InPool

LEMMA CancelPreserves == ASSUME IInv, NEW j \in Job, Cancel(j) PROVE IInv'
<1>1. /\ asked' = asked \cup {j} /\ cancels' = [cancels EXCEPT ![j] = @ + 1]
      /\ cancels[j] < MaxCancels /\ j \notin asked
      /\ UNCHANGED <<pc, slots, thread, executor, router, closed, closing, closer>>
  BY DEF Cancel, pool, close
<1>2. Holding' = Holding /\ Pooled' = Pooled
  BY <1>1 DEF Holding, Pooled, InPool
<1>3. Balance' /\ slots' \in 0..Slots
  BY <1>1, <1>2, SlotKept
<1>4. TypeOK'
  BY <1>1, <1>3, CancelsBounded DEF IInv, TypeOK
<1>5. CancelsSeen'
  BY <1>1, CancelsBounded DEF IInv, TypeOK, CancelsSeen
<1>6. Fresh' /\ PoolThere' /\ CloseWaits'
  BY <1>1, <1>2 DEF IInv, Fresh, PoolThere, CloseWaits
<1>7. SlotHeldOnce'
  BY <1>1, CancelsBounded DEF IInv, TypeOK, SlotHeldOnce, SlotHeldFor, InPool
<1>8. QED
  BY <1>3, <1>4, <1>5, <1>6, <1>7 DEF IInv

LEMMA ThreadPreserves == ASSUME IInv, NEW j \in Job, ThreadStep(j) PROVE IInv'
<1>1. /\ UNCHANGED <<pc, asked, cancels, slots, executor, closed, closing, closer>>
      /\ router' \in BOOLEAN /\ thread' \in [Job -> {"none", "queued", "busy", "done"}]
      /\ InPool(j)
      /\ \A i \in Job : i # j => thread'[i] = thread[i]
  BY DEF ThreadStep, ThreadStart, LoadRouter, ThreadEnd, calls, close, InPool, IInv, TypeOK
<1>2. Holding' = Holding /\ Pooled' \subseteq Pooled
  BY <1>1 DEF Holding, Pooled, InPool
<1>3. Balance' /\ slots' \in 0..Slots
  BY <1>1, <1>2, SlotKept
<1>4. TypeOK' /\ CancelsSeen'
  BY <1>1 DEF IInv, TypeOK, CancelsSeen
<1>5. Fresh'
  BY <1>1 DEF IInv, Fresh, InPool
<1>6. SlotHeldOnce'
  BY <1>1 DEF IInv, SlotHeldOnce, SlotHeldFor, InPool
<1>7. PoolThere' /\ CloseWaits'
  BY <1>1, <1>2 DEF IInv, PoolThere, CloseWaits
<1>8. QED
  BY <1>3, <1>4, <1>5, <1>6, <1>7 DEF IInv

LEMMA ClosePreserves ==
    ASSUME IInv,
           \/ \E k \in Closer : Close(k) \/ CloserReturns(k) \/ CancelCloser(k)
           \/ CloseStep
    PROVE  IInv'
<1>1. UNCHANGED <<pc, asked, cancels, slots, thread>>
  BY DEF Close, CloserReturns, CancelCloser, CloseStep, Shutdown, Unload, calls, pool
<1>2. Holding' = Holding /\ Pooled' = Pooled
  BY <1>1 DEF Holding, Pooled, InPool
<1>3. Balance' /\ slots' \in 0..Slots
  BY <1>1, <1>2, SlotKept
<1>4. CancelsSeen' /\ Fresh' /\ SlotHeldOnce'
  BY <1>1 DEF IInv, CancelsSeen, Fresh, SlotHeldOnce, SlotHeldFor, InPool
<1>5. CASE \E k \in Closer : Close(k) \/ CloserReturns(k) \/ CancelCloser(k)
  <2>1. PICK k \in Closer : Close(k) \/ CloserReturns(k) \/ CancelCloser(k)
    BY <1>5
  <2>2. UNCHANGED <<executor, router>>
    BY <2>1 DEF Close, CloserReturns, CancelCloser, pool
  <2>3. TypeOK'
    BY <1>1, <2>1, <2>2 DEF IInv, TypeOK, Close, CloserReturns, CancelCloser
  <2>4. PoolThere' /\ CloseWaits'
    BY <1>1, <1>2, <2>1, <2>2
       DEF IInv, TypeOK, PoolThere, CloseWaits, Close, CloserReturns, CancelCloser
  <2>5. QED
    BY <1>3, <1>4, <2>3, <2>4 DEF IInv
<1>6. CASE CloseStep
  <2>1. TypeOK'
    BY <1>1, <1>6 DEF IInv, TypeOK, CloseStep, Shutdown, Unload
  <2>2. closed' = closed /\ closing # "no" /\ closing' # "no" /\ Pooled' = {}
    BY <1>2, <1>6 DEF IInv, CloseWaits, CloseStep, Shutdown, Unload, PoolDrained, Pooled
  <2>3. PoolThere' /\ CloseWaits'
    BY <2>2 DEF IInv, PoolThere, CloseWaits
  <2>4. QED
    BY <1>3, <1>4, <2>1, <2>3 DEF IInv
<1>7. QED
  BY <1>5, <1>6

\* The inductive invariant behind the theorems: the slots counted, the cancellations
\* each call has seen, and the pool that the close waits to be empty.
THEOREM Inductive == Spec => []IInv
<1>1. IInv /\ [Next]_vars => IInv'
  <2> SUFFICES ASSUME IInv, [Next]_vars PROVE IInv'
    OBVIOUS
  <2>1. CASE UNCHANGED vars
    BY <2>1 DEF vars, calls, pool, close, IInv, TypeOK, Balance, Holding, CancelsSeen, Fresh,
                SlotHeldOnce, SlotHeldFor, InPool, PoolThere, Pooled, CloseWaits
  <2>2. ASSUME NEW j \in Job, CallStep(j) PROVE IInv'
    BY <2>2, EnterPreserves, AcquirePreserves, LeavePreserves, HoldPreserves, UnwindPreserves
       DEF CallStep
  <2>3. QED
    BY <2>1, <2>2, CancelPreserves, ThreadPreserves, ClosePreserves DEF Next
<1>2. QED
  BY InitIInv, <1>1, PTL DEF Spec

\* A slot is neither lost nor given back twice, and kept through one cancellation of
\* its call, for any calls, slots and cancellations of LayaBackend._worker.
THEOREM SlotsBalanced == Spec => []SlotsBalance
<1>1. IInv => SlotsBalance
  BY DEF IInv, Balance, Holding, SlotsBalance
<1>2. QED
  BY <1>1, Inductive, PTL

(***************************************************************************)
(* The refinement.                                                          *)
(***************************************************************************)

LEMMA InitDrains == Init => Drain!Init
BY DEF Init, Drain!Init, InPool

\* What DrainedShutdown does not see.
LEMMA Stutters ==
    ASSUME Pooled' = Pooled, UNCHANGED <<router, closed>>,
           closing' = "done" <=> closing = "done"
    PROVE  UNCHANGED Drain!vars
BY DEF Drain!vars, Pooled

LEMMA CallDrains ==
    ASSUME IInv, NEW j \in Job, CallStep(j) \/ Cancel(j)
    PROVE  Drain!Next \/ UNCHANGED Drain!vars
<1>1. UNCHANGED <<router, closed, closing>>
  BY DEF CallStep, Enter, Acquire, Return, Hold, Unhold, Desert, Unwind, Cancel, pool, close
<1>2. CASE thread' = thread
  BY <1>1, <1>2, Stutters DEF Pooled, InPool
<1>3. CASE thread' # thread
  <2>1. Acquire(j) /\ ~closed /\ thread' = [thread EXCEPT ![j] = "queued"] /\ pc[j] = "waiting"
    BY <1>3 DEF CallStep, Enter, Acquire, RefusedAfterWait, Return, Hold, Unhold, Desert,
                Unwind, Cancel, pool
  <2>2. thread[j] = "none" /\ closing = "no"
    BY <2>1 DEF IInv, Fresh, CloseWaits
  <2>3. j \notin Pooled /\ Pooled' = Pooled \cup {j}
    BY <2>1, <2>2 DEF Pooled, InPool, IInv, TypeOK
  <2>4. Drain!Start(j)
    BY <1>1, <2>1, <2>2, <2>3 DEF Drain!Start, Pooled
  <2>5. QED
    BY <2>4 DEF Drain!Next
<1>4. QED
  BY <1>2, <1>3

LEMMA ThreadDrains ==
    ASSUME IInv, NEW j \in Job, ThreadStep(j)
    PROVE  Drain!Next \/ UNCHANGED Drain!vars
<1>1. UNCHANGED <<closed, closing>> /\ j \in Pooled
  BY DEF ThreadStep, ThreadStart, LoadRouter, ThreadEnd, close, Pooled, InPool
<1>2. CASE ThreadStart(j)
  <2>1. Pooled' = Pooled /\ router' = router
    BY <1>2 DEF ThreadStart, Pooled, InPool, IInv, TypeOK
  <2>2. QED
    BY <1>1, <2>1, Stutters
<1>3. CASE LoadRouter(j)
  <2>1. Pooled' = Pooled /\ router'= TRUE
    BY <1>3 DEF LoadRouter, Pooled, InPool
  <2>2. Drain!Load
    BY <1>1, <2>1 DEF Drain!Load, Pooled
  <2>3. QED
    BY <2>2 DEF Drain!Next
<1>4. CASE ThreadEnd(j)
  <2>1. Pooled' = Pooled \ {j} /\ router' = router
    BY <1>4 DEF ThreadEnd, Pooled, InPool, IInv, TypeOK
  <2>2. Drain!Finish(j)
    BY <1>1, <2>1 DEF Drain!Finish, Pooled
  <2>3. QED
    BY <2>2 DEF Drain!Next
<1>5. QED
  BY <1>2, <1>3, <1>4 DEF ThreadStep

LEMMA CloseDrains ==
    ASSUME IInv,
           \/ \E k \in Closer : Close(k) \/ CloserReturns(k) \/ CancelCloser(k)
           \/ CloseStep
    PROVE  Drain!Next \/ UNCHANGED Drain!vars
<1>1. Pooled' = Pooled
  BY DEF Close, CloserReturns, CancelCloser, CloseStep, Shutdown, Unload, calls, pool,
         Pooled, InPool
<1>2. ASSUME NEW k \in Closer, Close(k) PROVE Drain!Next \/ UNCHANGED Drain!vars
  <2>1. CASE closed
    <3>1. UNCHANGED <<router, closed, closing>>
      BY <1>2, <2>1 DEF Close, IInv, CloseWaits, TypeOK, pool
    <3>2. QED
      BY <1>1, <3>1, Stutters
  <2>2. CASE ~closed
    <3>1. closing = "no" /\ closing' \in {"shutdown", "unload"} /\ closed' /\ router' = router
      BY <1>2, <2>2 DEF Close, IInv, CloseWaits, pool
    <3>2. Drain!Close
      BY <1>1, <2>2, <3>1 DEF Drain!Close, Pooled
    <3>3. QED
      BY <3>2 DEF Drain!Next
  <2>3. QED
    BY <2>1, <2>2
<1>3. ASSUME NEW k \in Closer, CloserReturns(k) \/ CancelCloser(k) PROVE UNCHANGED Drain!vars
  <2>1. UNCHANGED <<router, closed, closing>>
    BY <1>3 DEF CloserReturns, CancelCloser, pool
  <2>2. QED
    BY <1>1, <2>1, Stutters
<1>4. CASE Shutdown
  <2>1. UNCHANGED <<router, closed>> /\ closing = "shutdown" /\ closing' = "unload"
    BY <1>4 DEF Shutdown
  <2>2. QED
    BY <1>1, <2>1, Stutters
<1>5. CASE Unload
  <2>1. closing = "unload" /\ closed /\ closed' = closed /\ Pooled = {}
    BY <1>5 DEF Unload, IInv, CloseWaits
  <2>2. CASE closing' = "done"
    <3>1. router' = FALSE
      BY <1>5, <2>2 DEF Unload
    <3>2. Drain!Closed
      BY <1>1, <2>1, <2>2, <3>1 DEF Drain!Closed, Pooled
    <3>3. QED
      BY <3>2 DEF Drain!Next
  <2>3. CASE closing' # "done"
    <3>1. router' = router
      BY <1>5, <2>3 DEF Unload
    <3>2. QED
      BY <1>1, <2>1, <2>3, <3>1, Stutters
  <2>4. QED
    BY <2>2, <2>3
<1>6. QED
  BY <1>2, <1>3, <1>4, <1>5 DEF CloseStep

LEMMA StepDrains == IInv /\ [Next]_vars => [Drain!Next]_(Drain!vars)
<1> SUFFICES ASSUME IInv, [Next]_vars PROVE Drain!Next \/ UNCHANGED Drain!vars
  OBVIOUS
<1>1. CASE UNCHANGED vars
  BY <1>1, Stutters DEF vars, pool, close, Pooled, InPool
<1>2. QED
  BY <1>1, CallDrains, ThreadDrains, CloseDrains DEF Next

\* LayaBackend implements DrainedShutdown: no function is handed over once aclose was
\* called, and the Router is dropped with no function in the pool, deserted ones included.
THEOREM ShutdownDrains == Spec => DrainSpec
<1>1. QED
  BY InitDrains, StepDrains, Inductive, PTL DEF Spec, DrainSpec, Drain!Spec

(***************************************************************************)
(* AutoPlan: the routes of a router.                                        *)
(***************************************************************************)

\* The routes are the eligible ones of the two backends, in one order or the other.
LEMMA RoutesAre ==
    ASSUME NEW r, NEW mode, NEW ctx, NEW available
    PROVE  LET p == r.primary # None /\ Eligible(r.primary, mode, ctx, available)
               f == r.fallback # None /\ Eligible(r.fallback, mode, ctx, available)
               both == <<r.primary, r.fallback>>
           IN  Routes(r, mode, ctx, available) =
                  IF p /\ f THEN IF Swapped(r, ctx, both) THEN <<r.fallback, r.primary>> ELSE both
                  ELSE IF p THEN <<r.primary>> ELSE IF f THEN <<r.fallback>> ELSE <<>>
<1> DEFINE p == r.primary # None /\ Eligible(r.primary, mode, ctx, available)
           f == r.fallback # None /\ Eligible(r.fallback, mode, ctx, available)
           both == <<r.primary, r.fallback>>
<1>1. /\ Kept(r.primary, mode, ctx, available) = IF p THEN <<r.primary>> ELSE <<>>
      /\ Kept(r.fallback, mode, ctx, available) = IF f THEN <<r.fallback>> ELSE <<>>
  BY DEF Kept
<1>2. EligibleOf(r, mode, ctx, available) =
        IF p /\ f THEN both ELSE IF p THEN <<r.primary>> ELSE IF f THEN <<r.fallback>> ELSE <<>>
  <2>1. ASSUME NEW x, NEW y
        PROVE  /\ <<x>> \o <<y>> = <<x, y>> /\ <<x>> \o <<>> = <<x>>
               /\ <<>> \o <<x>> = <<x>> /\ <<>> \o <<>> = <<>>
    <3> DEFINE S == {x, y}
    <3>1. <<x>> \in Seq(S) /\ <<y>> \in Seq(S) /\ <<>> \in Seq(S)
      OBVIOUS
    <3>2. /\ <<x>> \o <<>> = <<x>> /\ <<>> \o <<x>> = <<x>> /\ <<>> \o <<>> = <<>>
      BY <3>1, ConcatEmptySeq
    <3>3. <<x>> \o <<y>> = <<x, y>>
      <4> DEFINE s == <<x>>
                 t == <<y>>
                 u == <<x, y>>
      <4>1. /\ s \in Seq(S) /\ Len(s) = 1 /\ s[1] = x
            /\ t \in Seq(S) /\ Len(t) = 1 /\ t[1] = y
            /\ u \in Seq(S) /\ Len(u) = 2 /\ u[1] = x /\ u[2] = y
        OBVIOUS
      <4> HIDE DEF s, t, u, S
      <4>2. /\ s \o t \in Seq(S) /\ Len(s \o t) = 2
            /\ \A i \in 1..2 : (s \o t)[i] = IF i <= 1 THEN s[i] ELSE t[i - 1]
        <5>1. s \in Seq(S) /\ t \in Seq(S)
          BY <4>1
        <5>2. /\ s \o t \in Seq(S) /\ Len(s \o t) = Len(s) + Len(t)
              /\ \A i \in 1..(Len(s) + Len(t)) :
                    (s \o t)[i] = IF i <= Len(s) THEN s[i] ELSE t[i - Len(s)]
          BY <5>1, ConcatProperties
        <5>3. QED
          BY <4>1, <5>2
      <4>3. \A i \in 1..2 : (s \o t)[i] = u[i]
        BY <4>1, <4>2
      <4>4. s \o t = u
        BY <4>1, <4>2, <4>3, SeqEqual
      <4>5. QED
        BY <4>4 DEF s, t, u
    <3>4. QED
      BY <3>2, <3>3
  <2>2. QED
    BY <1>1, <2>1 DEF EligibleOf
<1>3. ~(p /\ f) => ~Swapped(r, ctx, EligibleOf(r, mode, ctx, available))
  BY <1>2 DEF Swapped
<1>4. QED
  BY <1>2, <1>3 DEF Routes

\* Both, with the better one of the two in front, and the first one if none is.
LEMMA RoutesFollow ==
    ASSUME NEW r, IsRouter(r), NEW mode, NEW ctx, NEW available
    PROVE  RoutesFollowPolicy(Routes(r, mode, ctx, available), r, mode, ctx, available)
<1> DEFINE p == r.primary # None /\ Eligible(r.primary, mode, ctx, available)
           f == r.fallback # None /\ Eligible(r.fallback, mode, ctx, available)
           both == <<r.primary, r.fallback>>
           all == {b \in {r.primary, r.fallback} \ {None} : Eligible(b, mode, ctx, available)}
           routed == Routes(r, mode, ctx, available)
<1>1. routed = IF p /\ f THEN IF Swapped(r, ctx, both) THEN <<r.fallback, r.primary>> ELSE both
               ELSE IF p THEN <<r.primary>> ELSE IF f THEN <<r.fallback>> ELSE <<>>
  BY RoutesAre
<1>3. Cardinality({}) = 0 /\ \A x : Cardinality({x}) = 1 /\ IsFiniteSet({x})
  BY FS_EmptySet, FS_Singleton
<1>4. p /\ f => r.fallback # r.primary /\ r.primary \notin {r.fallback}
  BY DEF IsRouter
<1>5. ASSUME p, f PROVE Cardinality({r.fallback} \cup {r.primary}) = 2
  <2>1. IsFiniteSet({r.fallback}) /\ Cardinality({r.fallback}) = 1
    BY <1>3
  <2>2. PICK S : S = {r.fallback}
    OBVIOUS
  <2>3. Cardinality(S \cup {r.primary}) = 2
    BY <1>4, <1>5, <2>1, <2>2, FS_AddElement
  <2>4. QED
    BY <2>2, <2>3
<1>6. ASSUME p, f PROVE all = {r.primary, r.fallback} /\ all = {r.fallback} \cup {r.primary}
  BY <1>6
<1>7. ASSUME p, f PROVE Swapped(r, ctx, both) <=> Better(r, ctx, all, r.fallback, r.primary)
  <2>1. Len(both) = 2 /\ DOMAIN both = {1, 2} /\ both[1] = r.primary /\ both[2] = r.fallback
    OBVIOUS
  <2>2. (\A i \in DOMAIN both : r.measured[both[i].id] # None)
           <=> (\A c \in all : r.measured[c.id] # None)
    BY <1>6, <1>7, <2>1
  <2> HIDE DEF both, all
  <2>3. Swapped(r, ctx, both) <=> Key(r, ctx, both, r.fallback) < Key(r, ctx, both, r.primary)
    BY <2>1 DEF Swapped
  <2>4. CASE r.policy = "local_first"
    BY <2>3, <2>4 DEF Key, Better
  <2>5. CASE r.policy = "remote_first"
    BY <2>3, <2>5 DEF Key, Better
  <2>6. CASE r.policy = "language_aware"
    BY <2>3, <2>6 DEF Key, Better
  <2>7. CASE r.policy \in {"cost_aware", "latency_aware"}
    <3> DEFINE M == \A c \in all : r.measured[c.id] # None
    <3>1. \A b : Key(r, ctx, both, b) = IF M THEN r.measured[b.id] ELSE 0
      BY <2>2, <2>7 DEF Key
    <3>2. Better(r, ctx, all, r.fallback, r.primary)
             <=> M /\ r.measured[r.fallback.id] < r.measured[r.primary.id]
      BY <2>7 DEF Better
    <3> HIDE DEF M
    <3>3. CASE M
      <4>1. /\ Key(r, ctx, both, r.fallback) = r.measured[r.fallback.id]
            /\ Key(r, ctx, both, r.primary) = r.measured[r.primary.id]
        BY <3>1, <3>3
      <4>2. QED
        BY <2>3, <3>2, <3>3, <4>1
    <3>4. CASE ~M
      <4>1. Key(r, ctx, both, r.fallback) = 0 /\ Key(r, ctx, both, r.primary) = 0
        BY <3>1, <3>4
      <4>2. QED
        BY <2>3, <3>2, <3>4, <4>1
    <3>5. QED
      BY <3>3, <3>4
  <2>8. CASE r.policy = "availability"
    BY <2>3, <2>8 DEF Key, Better
  <2>9. QED
    BY <2>4, <2>5, <2>6, <2>7, <2>8 DEF IsRouter, Policies
<1>8. CASE p /\ f
  <2> DEFINE one == <<r.fallback, r.primary>>
  <2>1. /\ Len(one) = 2 /\ one[1] = r.fallback /\ ToSet(one) = {r.fallback, r.primary}
        /\ Len(both) = 2 /\ both[1] = r.primary /\ ToSet(both) = {r.fallback, r.primary}
    BY DEF ToSet
  <2>2. routed = IF Better(r, ctx, all, r.fallback, r.primary) THEN one ELSE both
    BY <1>1, <1>7, <1>8
  <2>3. Cardinality(all) = 2 /\ all = {r.fallback, r.primary}
    BY <1>5, <1>6, <1>8
  <2> HIDE DEF one, both, routed, p, f
  <2>4. /\ ToSet(routed) = all /\ Len(routed) = Cardinality(all)
        /\ routed[1] = IF Better(r, ctx, all, r.fallback, r.primary)
                       THEN r.fallback ELSE r.primary
    BY <2>1, <2>2, <2>3
  <2>5. QED
    BY <2>4 DEF RoutesFollowPolicy, routed
<1>9. CASE ~(p /\ f)
  <2>1. CASE p
    <3>1. all = {r.primary} /\ Cardinality(all) = 1
      BY <1>3, <1>9, <2>1
    <3>2. routed = <<r.primary>> /\ Len(routed) = 1 /\ ToSet(routed) = {r.primary}
      BY <1>1, <1>9, <2>1 DEF ToSet
    <3>3. QED
      BY <3>1, <3>2 DEF RoutesFollowPolicy
  <2>2. CASE f
    <3>1. all = {r.fallback} /\ Cardinality(all) = 1
      BY <1>3, <1>9, <2>2
    <3>2. routed = <<r.fallback>> /\ Len(routed) = 1 /\ ToSet(routed) = {r.fallback}
      BY <1>1, <1>9, <2>2 DEF ToSet
    <3>3. QED
      BY <3>1, <3>2 DEF RoutesFollowPolicy
  <2>3. CASE ~p /\ ~f
    <3>1. all = {} /\ Cardinality(all) = 0
      BY <1>3, <2>3
    <3>2. routed = <<>> /\ Len(routed) = 0 /\ ToSet(routed) = {}
      BY <1>1, <2>3 DEF ToSet
    <3>3. QED
      BY <3>1, <3>2 DEF RoutesFollowPolicy
  <2>4. QED
    BY <1>9, <2>1, <2>2, <2>3
<1>10. QED
  BY <1>8, <1>9

(***************************************************************************)
(* The plan.                                                                *)
(***************************************************************************)

\* A plan with a mode is one for the backend it was asked for.
LEMMA PlanIsFor ==
    ASSUME NEW a, NEW b
    PROVE  LET p == PlanFor(a, b)
           IN  p.backend \in {None, b} /\ (p.mode # None => p.backend = b /\ b # None)
<1>1. LexicalPlan.backend = None /\ LexicalPlan.mode = None
  BY DEF LexicalPlan, Plan
<1>2. \A batch : ListwisePlan(a, b, batch).backend = b
  BY DEF ListwisePlan, Plan
<1>3. MediumPlan(a, b).backend = b \/ MediumPlan(a, b) = LexicalPlan
  BY <1>2 DEF MediumPlan, Plan
<1>4. CascadePlan(a, b).backend = b \/ CascadePlan(a, b) = LexicalPlan
  BY DEF CascadePlan, Plan
<1>5. CASE NoModel(a, b)
  BY <1>1, <1>5 DEF PlanFor
<1>6. CASE ~NoModel(a, b)
  <2>1. b # None
    BY <1>6 DEF NoModel
  <2>2. PlanFor(a, b) = LexicalPlan \/ PlanFor(a, b).backend = b
    BY <1>2, <1>3, <1>4, <1>6 DEF PlanFor
  <2>3. QED
    BY <1>1, <2>1, <2>2
<1>7. QED
  BY <1>5, <1>6

\* The backend of a plan is local when it must be.
Local(a, b) == b # None /\ NoNetwork(a) => b.location = "local"

LEMMA VettedIsLocal == \A a, b : Local(a, Vetted(a, b))
BY DEF Local, Vetted

LEMMA DecisionIsLocal ==
    ASSUME NEW a, NEW available
    PROVE  LET p == AutoDecision(a, available)
           IN  Local(a, p.backend) /\ (p.mode # None => p.backend # None)
<1>1. PICK b : AutoDecision(a, available) = PlanFor(a, Vetted(a, b))
  BY DEF AutoDecision
<1>2. Local(a, Vetted(a, b)) /\ Local(a, None)
  BY VettedIsLocal DEF Local
<1>3. PICK v : v = Vetted(a, b)
  OBVIOUS
<1>4. /\ PlanFor(a, v).backend \in {None, v}
      /\ PlanFor(a, v).mode # None => PlanFor(a, v).backend = v /\ v # None
  BY PlanIsFor
<1>5. QED
  BY <1>1, <1>2, <1>3, <1>4

LEMMA RoutesAreLocal ==
    ASSUME NEW r, NEW mode, NEW ctx, NEW available, NoNetwork(ctx)
    PROVE  LET routed == Routes(r, mode, ctx, available)
           IN  \A i \in DOMAIN routed : routed[i].location = "local"
<1> DEFINE p == r.primary # None /\ Eligible(r.primary, mode, ctx, available)
           f == r.fallback # None /\ Eligible(r.fallback, mode, ctx, available)
<1>1. (p => r.primary.location = "local") /\ (f => r.fallback.location = "local")
  BY DEF Eligible
<1>2. \/ /\ Routes(r, mode, ctx, available) \in
               {<<r.fallback, r.primary>>, <<r.primary, r.fallback>>}
         /\ p /\ f
      \/ Routes(r, mode, ctx, available) = <<r.primary>> /\ p
      \/ Routes(r, mode, ctx, available) = <<r.fallback>> /\ f
      \/ Routes(r, mode, ctx, available) = <<>>
  BY RoutesAre
<1>3. QED
  BY <1>1, <1>2

(***************************************************************************)
(* The limits of a cascade.                                                 *)
(***************************************************************************)

\* What is wanted survives every cut, and each cut is no wider than the one before.
LEMMA CutsNarrow ==
    ASSUME NEW a, a.sizes \in Seq(Nat), a.topK \in Nat, a.topK # None
    PROVE  /\ Wanted(a) \in Nat /\ Bm25Limit(a) \in Nat /\ EmbeddingLimit(a) \in Nat
           /\ Wanted(a) <= EmbeddingLimit(a) /\ EmbeddingLimit(a) <= Bm25Limit(a)
           /\ Bm25Limit(a) <= Len(a.sizes)
<1>0. /\ Bm25Min \in Nat /\ Bm25Multiplier \in Nat \ {0}
      /\ EmbeddingMin \in Nat /\ EmbeddingMultiplier \in Nat \ {0}
  BY PlanSizes
<1>n. PICK n : n = Len(a.sizes)
  OBVIOUS
<1>t. PICK t : t = a.topK
  OBVIOUS
<1>w. PICK w : w = Min({t, n})
  OBVIOUS
<1>k. PICK k : k = Keep(a)
  OBVIOUS
<1>1. k \in {1, 2} /\ n \in Nat /\ t \in Nat
  BY <1>n, <1>t, <1>k DEF Keep
<1>2. w \in Nat /\ w <= n
  <2>1. w = IF t <= n THEN t ELSE n
    BY <1>1, <1>w DEF Min
  <2>2. QED
    BY <1>1, <2>1
<1>3. Wanted(a) = w
  BY <1>n, <1>t, <1>w DEF Wanted
<1>4. \A m \in Nat \ {0} : w * m * k \in Nat /\ w <= w * m * k
  <2> SUFFICES ASSUME NEW m \in Nat \ {0} PROVE w * m * k \in Nat /\ w <= w * m * k
    OBVIOUS
  <2>1. w * m \in Nat /\ w <= w * m
    BY <1>2
  <2>p. PICK p : p = w * m
    OBVIOUS
  <2>2. CASE k = 1
    BY <1>2, <2>1, <2>p, <2>2
  <2>3. CASE k = 2
    BY <1>2, <2>1, <2>p, <2>3
  <2>4. QED
    BY <1>1, <2>2, <2>3
<1>x. PICK x : x = w * Bm25Multiplier * k
  OBVIOUS
<1>y. PICK y : y = w * EmbeddingMultiplier * k
  OBVIOUS
<1>5. x \in Nat /\ w <= x /\ y \in Nat /\ w <= y
  BY <1>0, <1>4, <1>x, <1>y
<1>c. PICK c : c = Max({Bm25Min, x})
  OBVIOUS
<1>d. PICK d : d = Max({EmbeddingMin, y})
  OBVIOUS
<1>6. c \in Nat /\ w <= c
  <2>1. c = IF Bm25Min <= x THEN x ELSE Bm25Min
    BY <1>0, <1>5, <1>c DEF Max
  <2>2. QED
    BY <1>0, <1>2, <1>5, <2>1
<1>7. d \in Nat /\ w <= d
  <2>1. d = IF EmbeddingMin <= y THEN y ELSE EmbeddingMin
    BY <1>0, <1>5, <1>d DEF Max
  <2>2. QED
    BY <1>0, <1>2, <1>5, <2>1
<1>e. PICK e : e = Min({n, c})
  OBVIOUS
<1>8. e \in Nat /\ w <= e /\ e <= n
  <2>1. e = IF n <= c THEN n ELSE c
    BY <1>1, <1>6, <1>e DEF Min
  <2>2. QED
    BY <1>1, <1>2, <1>6, <2>1
<1>f. PICK f : f = Min({e, d})
  OBVIOUS
<1>9. f \in Nat /\ w <= f /\ f <= e
  <2>1. f = IF e <= d THEN e ELSE d
    BY <1>7, <1>8, <1>f DEF Min
  <2>2. QED
    BY <1>2, <1>7, <1>8, <2>1
<1>10. Bm25Limit(a) = e
  BY <1>3, <1>n, <1>k, <1>x, <1>c, <1>e DEF Bm25Limit
<1>11. EmbeddingLimit(a) = f
  BY <1>3, <1>10, <1>k, <1>y, <1>d, <1>f DEF EmbeddingLimit
<1>12. QED
  BY <1>2, <1>3, <1>8, <1>9, <1>10, <1>11, <1>n

\* Only a cascade is a plan of strategy "auto".
LEMMA CascadeIsAuto ==
    ASSUME NEW a, NEW b, PlanFor(a, b).strategy = "auto"
    PROVE  a.topK # None /\ PlanFor(a, b).limits = CascadeLimits(a)
<1>1. LexicalPlan.strategy = "lexical" /\ \A batch : ListwisePlan(a, b, batch).strategy = "listwise"
  BY DEF LexicalPlan, ListwisePlan, Plan
<1>2. MediumPlan(a, b).strategy \in {"lexical", "listwise", "pointwise"}
  BY <1>1 DEF MediumPlan, Plan
<1>3. CascadePlan(a, b).strategy = "auto" => CascadePlan(a, b).limits = CascadeLimits(a)
  BY <1>1 DEF CascadePlan, Plan
<1>4. PlanFor(a, b) = CascadePlan(a, b) /\ a.topK # None
  <2>1. \/ PlanFor(a, b) = LexicalPlan
        \/ PlanFor(a, b) = ListwisePlan(a, b, SmallLimit)
        \/ PlanFor(a, b) = MediumPlan(a, b)
        \/ PlanFor(a, b) = CascadePlan(a, b) /\ a.topK # None
    BY DEF PlanFor
  <2>2. QED
    BY <1>1, <1>2, <2>1
<1>5. QED
  BY <1>3, <1>4

\* The cuts of a cascade, with all candidates before the first.
LEMMA CascadeCuts ==
    ASSUME NEW a, NEW n \in Nat, Bm25Limit(a) \in Nat, EmbeddingLimit(a) \in Nat, Wanted(a) \in Nat
    PROVE  LET cuts == <<n>> \o CascadeLimits(a)
           IN  \/ /\ Len(cuts) = 4 /\ cuts[1] = n /\ cuts[2] = Bm25Limit(a)
                  /\ cuts[3] = EmbeddingLimit(a) /\ cuts[4] = Wanted(a)
               \/ /\ Len(cuts) = 3 /\ cuts[1] = n /\ cuts[2] = Bm25Limit(a)
                  /\ cuts[3] = Wanted(a)
<1>b. PICK b \in Nat : b = Bm25Limit(a)
  OBVIOUS
<1>e. PICK e \in Nat : e = EmbeddingLimit(a)
  OBVIOUS
<1>w. PICK w \in Nat : w = Wanted(a)
  OBVIOUS
<1>m. PICK m : m = IF a.embedder THEN <<e>> ELSE <<>>
  OBVIOUS
<1>0. /\ <<n>> \in Seq(Nat) /\ <<b>> \in Seq(Nat) /\ <<w>> \in Seq(Nat) /\ m \in Seq(Nat)
      /\ Len(<<n>>) = 1 /\ Len(<<b>>) = 1 /\ Len(<<w>>) = 1
      /\ <<n>>[1] = n /\ <<b>>[1] = b /\ <<w>>[1] = w
      /\ (Len(m) = 1 /\ m[1] = e) \/ Len(m) = 0
  BY <1>m
<1>x. PICK x : x = <<n>>
  OBVIOUS
<1>y. PICK y : y = <<b>>
  OBVIOUS
<1>z. PICK z : z = <<w>>
  OBVIOUS
<1>1. CascadeLimits(a) = y \o m \o z
  BY <1>b, <1>e, <1>w, <1>m, <1>y, <1>z DEF CascadeLimits
<1>c. PICK c : c = y \o m
  OBVIOUS
<1>d. PICK d : d = c \o z
  OBVIOUS
<1>f. PICK f : f = x \o d
  OBVIOUS
<1>2. /\ x \in Seq(Nat) /\ y \in Seq(Nat) /\ z \in Seq(Nat) /\ m \in Seq(Nat)
      /\ Len(x) = 1 /\ Len(y) = 1 /\ Len(z) = 1 /\ x[1] = n /\ y[1] = b /\ z[1] = w
      /\ (Len(m) = 1 /\ m[1] = e) \/ Len(m) = 0
  BY <1>0, <1>x, <1>y, <1>z
<1>3. /\ c \in Seq(Nat) /\ Len(c) = 1 + Len(m)
      /\ \A i \in 1..(1 + Len(m)) : c[i] = IF i <= 1 THEN y[i] ELSE m[i - 1]
  <2>1. y \in Seq(Nat) /\ m \in Seq(Nat)
    BY <1>2
  <2>2. /\ y \o m \in Seq(Nat) /\ Len(y \o m) = Len(y) + Len(m)
        /\ \A i \in 1..(Len(y) + Len(m)) :
              (y \o m)[i] = IF i <= Len(y) THEN y[i] ELSE m[i - Len(y)]
    BY <2>1, ConcatProperties
  <2>3. QED
    BY <1>2, <2>2, <1>c
<1>4. /\ d \in Seq(Nat) /\ Len(d) = Len(c) + 1
      /\ \A i \in 1..(Len(c) + 1) : d[i] = IF i <= Len(c) THEN c[i] ELSE z[i - Len(c)]
  <2>1. c \in Seq(Nat) /\ z \in Seq(Nat)
    BY <1>2, <1>3
  <2>2. /\ c \o z \in Seq(Nat) /\ Len(c \o z) = Len(c) + Len(z)
        /\ \A i \in 1..(Len(c) + Len(z)) :
              (c \o z)[i] = IF i <= Len(c) THEN c[i] ELSE z[i - Len(c)]
    BY <2>1, ConcatProperties
  <2>3. QED
    BY <1>2, <1>3, <2>2, <1>d
<1>5. /\ f \in Seq(Nat) /\ Len(f) = 1 + Len(d)
      /\ \A i \in 1..(1 + Len(d)) : f[i] = IF i <= 1 THEN x[i] ELSE d[i - 1]
  <2>1. x \in Seq(Nat) /\ d \in Seq(Nat)
    BY <1>2, <1>4
  <2>2. /\ x \o d \in Seq(Nat) /\ Len(x \o d) = Len(x) + Len(d)
        /\ \A i \in 1..(Len(x) + Len(d)) :
              (x \o d)[i] = IF i <= Len(x) THEN x[i] ELSE d[i - Len(x)]
    BY <2>1, ConcatProperties
  <2>3. QED
    BY <1>2, <1>4, <2>2, <1>f
<1>6. f = <<n>> \o CascadeLimits(a)
  BY <1>1, <1>c, <1>d, <1>f, <1>x
<1>7. CASE Len(m) = 1 /\ m[1] = e
  <2>1. Len(c) = 2 /\ c[1] = b /\ c[2] = e
    BY <1>2, <1>3, <1>7
  <2>2. Len(d) = 3 /\ d[1] = b /\ d[2] = e /\ d[3] = w
    BY <1>2, <1>4, <2>1
  <2>3. Len(f) = 4 /\ f[1] = n /\ f[2] = b /\ f[3] = e /\ f[4] = w
    BY <1>2, <1>5, <2>2
  <2>4. QED
    BY <1>6, <2>3, <1>b, <1>e, <1>w
<1>8. CASE Len(m) = 0
  <2>1. Len(c) = 1 /\ c[1] = b
    BY <1>2, <1>3, <1>8
  <2>2. Len(d) = 2 /\ d[1] = b /\ d[2] = w
    BY <1>2, <1>4, <2>1
  <2>3. Len(f) = 3 /\ f[1] = n /\ f[2] = b /\ f[3] = w
    BY <1>2, <1>5, <2>2
  <2>4. QED
    BY <1>6, <2>3, <1>b, <1>w
<1>9. QED
  BY <1>2, <1>7, <1>8

\* A cascade is planned for a number of candidates, and cuts down to it step by step.
Narrow(a, p) ==
    p.strategy = "auto" =>
        /\ a.topK # None
        /\ LET cuts == <<Len(a.sizes)>> \o p.limits
           IN  /\ \A i \in 1..(Len(cuts) - 1) : cuts[i + 1] <= cuts[i]
               /\ cuts[Len(cuts)] = Wanted(a)

LEMMA DecisionNarrows ==
    ASSUME NEW a \in Asks, NEW available
    PROVE  Narrow(a, AutoDecision(a, available))
<1>p. PICK p : p = AutoDecision(a, available)
  OBVIOUS
<1> SUFFICES ASSUME p.strategy = "auto" PROVE Narrow(a, p)
  BY <1>p DEF Narrow
<1>1. PICK b : p = PlanFor(a, b)
  BY <1>p DEF AutoDecision
<1>2. a.topK # None /\ p.limits = CascadeLimits(a)
  BY <1>1, CascadeIsAuto
<1>3. a.sizes \in Seq(Nat) /\ a.topK \in Nat
  BY <1>2, AsksAreAsks DEF Limit
<1>n. PICK n \in Nat : n = Len(a.sizes)
  BY <1>3
<1>4. /\ Wanted(a) \in Nat /\ Bm25Limit(a) \in Nat /\ EmbeddingLimit(a) \in Nat
      /\ Wanted(a) <= EmbeddingLimit(a) /\ EmbeddingLimit(a) <= Bm25Limit(a)
      /\ Bm25Limit(a) <= n
  BY <1>2, <1>3, <1>n, CutsNarrow
<1>c. PICK cuts : cuts = <<n>> \o CascadeLimits(a)
  OBVIOUS
<1>5. \/ /\ Len(cuts) = 4 /\ cuts[1] = n /\ cuts[2] = Bm25Limit(a)
         /\ cuts[3] = EmbeddingLimit(a) /\ cuts[4] = Wanted(a)
      \/ /\ Len(cuts) = 3 /\ cuts[1] = n /\ cuts[2] = Bm25Limit(a)
         /\ cuts[3] = Wanted(a)
  BY <1>4, <1>c, CascadeCuts
<1>6. \A i \in 1..(Len(cuts) - 1) : cuts[i + 1] <= cuts[i]
  <2>1. CASE /\ Len(cuts) = 4 /\ cuts[1] = n /\ cuts[2] = Bm25Limit(a)
             /\ cuts[3] = EmbeddingLimit(a) /\ cuts[4] = Wanted(a)
    BY <1>4, <2>1
  <2>2. CASE /\ Len(cuts) = 3 /\ cuts[1] = n /\ cuts[2] = Bm25Limit(a)
             /\ cuts[3] = Wanted(a)
    <3>1. Wanted(a) <= Bm25Limit(a)
      BY <1>4
    <3>2. QED
      BY <1>4, <2>2, <3>1
  <2>3. QED
    BY <1>5, <2>1, <2>2
<1>7. cuts[Len(cuts)] = Wanted(a)
  BY <1>5
<1>8. cuts = <<Len(a.sizes)>> \o p.limits
  BY <1>2, <1>c, <1>n
<1>9. QED
  BY <1>2, <1>6, <1>7, <1>8 DEF Narrow

\* What holds of a plan from the decision on, and of the routes from the start.
PlanInv ==
    /\ ask \in Asks
    /\ phase \in {"asked", "planned", "started"}
    /\ phase = "asked" => plan = None
    /\ phase # "asked" =>
        /\ Local(ask, plan.backend)
        /\ plan.mode # None => plan.backend # None
        /\ Narrow(ask, plan)
    /\ phase # "started" => routes = <<>>
    /\ NoNetwork(ask) => \A i \in DOMAIN routes : routes[i].location = "local"
    /\ RoutesOrdered

LEMMA PlanInvKept ==
    /\ PlanInit => PlanInv
    /\ PlanInv /\ [PlanNext]_(planVars) => PlanInv'
<1>1. ASSUME PlanInit PROVE PlanInv
  BY <1>1 DEF PlanInit, PlanInv, RoutesOrdered
<1>2. ASSUME PlanInv, Decide PROVE PlanInv'
  <2>1. /\ ask' = ask /\ ask \in Asks /\ phase' = "planned"
        /\ routes' = <<>> /\ plan' = AutoDecision(ask, up)
    BY <1>2 DEF PlanInv, Decide
  <2>a. PICK a : a = ask
    OBVIOUS
  <2>p. PICK p : p = AutoDecision(a, up)
    OBVIOUS
  <2>2. Local(a, p.backend) /\ (p.mode # None => p.backend # None) /\ Narrow(a, p)
    BY <2>1, <2>a, <2>p, DecisionIsLocal, DecisionNarrows
  <2>3. RoutesOrdered'
    BY <2>1 DEF RoutesOrdered
  <2>c. ask' = a /\ plan' = p
    BY <2>1, <2>a, <2>p
  <2>4. /\ Narrow(ask, plan)' /\ Local(ask, plan.backend)'
        /\ plan'.mode # None => plan'.backend # None
    <3>1. Narrow(ask, plan)' <=> Narrow(a, p)
      BY <2>c DEF Narrow, Wanted
    <3>2. Local(ask, plan.backend)' <=> Local(a, p.backend)
      BY <2>c DEF Local, NoNetwork
    <3>3. QED
      BY <2>2, <2>c, <3>1, <3>2
  <2>5. QED
    BY <2>1, <2>2, <2>3, <2>4 DEF PlanInv
<1>q. ASSUME ask' = ask, plan' = plan
      PROVE  /\ Narrow(ask, plan)' <=> Narrow(ask, plan)
             /\ Local(ask, plan.backend)' <=> Local(ask, plan.backend)
             /\ NoNetwork(ask)' <=> NoNetwork(ask)
  BY <1>q DEF Narrow, Local, NoNetwork, Wanted
<1>3. ASSUME PlanInv, Start PROVE PlanInv'
  <2>1. /\ ask' = ask /\ up' = up /\ plan' = plan /\ ask \in Asks
        /\ phase = "planned" /\ phase' = "started" /\ plan.mode # None /\ plan.backend # None
        /\ routes' = IF ask.router = None THEN <<plan.backend>>
                     ELSE Routes(ask.router, plan.mode, ask, up)
    BY <1>3 DEF PlanInv, Start
  <2>2. NoNetwork(ask) => \A i \in DOMAIN routes' : routes'[i].location = "local"
    <3>1. CASE ask.router = None
      BY <1>3, <2>1, <3>1 DEF PlanInv, Local
    <3>2. CASE ask.router # None
      BY <2>1, <3>2, RoutesAreLocal
    <3>3. QED
      BY <3>1, <3>2
  <2>3. RoutesOrdered'
    <3>1. ask.router # None => IsRouter(ask.router)
      BY <2>1, AsksAreAsks
    <3>2. ask.router # None => RoutesFollowPolicy(routes', ask.router, plan.mode, ask, up)
      BY <2>1, <3>1, RoutesFollow
    <3>3. QED
      BY <2>1, <3>2 DEF RoutesOrdered
  <2>4. QED
    BY <1>3, <1>q, <2>1, <2>2, <2>3 DEF PlanInv
<1>4. ASSUME PlanInv, NoRoute PROVE PlanInv'
  <2>1. /\ ask' = ask /\ up' = up /\ plan' = plan /\ routes' = <<>> /\ routes = <<>> /\ ask \in Asks
        /\ phase = "planned" /\ phase' = "started" /\ ask.router # None
        /\ Routes(ask.router, plan.mode, ask, up) = <<>>
    BY <1>4 DEF PlanInv, NoRoute
  <2>2. RoutesOrdered'
    <3>1. IsRouter(ask.router)
      BY <2>1, AsksAreAsks
    <3>2. RoutesFollowPolicy(routes', ask.router, plan.mode, ask, up)
      BY <2>1, <3>1, RoutesFollow
    <3>3. QED
      BY <2>1, <3>2 DEF RoutesOrdered
  <2>3. QED
    BY <1>4, <1>q, <2>1, <2>2 DEF PlanInv
<1>5. ASSUME PlanInv, NEW b, Turn(b) PROVE PlanInv'
  <2>1. ask' = ask /\ plan' = plan /\ phase' = phase /\ phase = "planned" /\ routes' = routes
    BY <1>5 DEF Turn
  <2>2. RoutesOrdered'
    BY <2>1 DEF RoutesOrdered
  <2>3. QED
    BY <1>5, <1>q, <2>1, <2>2 DEF PlanInv
<1>6. ASSUME PlanInv, UNCHANGED planVars PROVE PlanInv'
  BY <1>6, <1>q DEF planVars, PlanInv, RoutesOrdered
<1>7. QED
  BY <1>1, <1>2, <1>3, <1>4, <1>5, <1>6 DEF PlanNext

\* OfflineStaysLocal of AutoPlan: a request that must stay on the machine is planned for,
\* and tried on, local backends only (Vetted in decide, the location check of the router).
THEOREM OfflineIsLocal == PlanSpec => []OfflineStaysLocal
<1>1. PlanInv => OfflineStaysLocal
  BY DEF PlanInv, OfflineStaysLocal, Local
<1>2. QED
  BY <1>1, PlanInvKept, PTL DEF PlanSpec

\* CascadeKeepsEnough of AutoPlan: the stages of a cascade narrow, and the last hands back
\* all the caller asked for (the limits AutoStrategy.decide computes).
THEOREM CascadesKeepEnough == PlanSpec => []CascadeKeepsEnough
<1>1. PlanInv => CascadeKeepsEnough
  BY DEF PlanInv, CascadeKeepsEnough, Narrow
<1>2. QED
  BY <1>1, PlanInvKept, PTL DEF PlanSpec

\* RoutesOrdered of AutoPlan: the stage tries the eligible backends in the order of the
\* policy, the declared primary first where the policy does not tell them apart.
THEOREM RoutesAreOrdered == PlanSpec => []RoutesOrdered
<1>1. PlanInv => RoutesOrdered
  BY DEF PlanInv
<1>2. QED
  BY <1>1, PlanInvKept, PTL DEF PlanSpec

\* A set of natural numbers that is not empty has a least element.
LEMMA LeastNumber ==
    ASSUME NEW T \in SUBSET Nat, T # {}
    PROVE  \E n \in T : \A m \in T : n <= m
<1> DEFINE R == OpToRel(<, Nat)
<1>1. IsWellFoundedOn(R, Nat)
  BY NatLessThanWellFounded
<1>2. \E n \in T : \A m \in T : <<m, n>> \notin R
  <2> HIDE DEF R
  <2> QED
    BY <1>1, WFMin
<1>3. PICK n \in T : \A m \in T : <<m, n>> \notin R
  BY <1>2
<1>4. \A m \in T : ~ (m < n)
  BY <1>3 DEF OpToRel
<1>5. QED
  BY <1>4

\* Induction over the subsets of a finite set, by a smallest counterexample.
LEMMA SmallestSubset ==
    ASSUME NEW S, IsFiniteSet(S), NEW B \in SUBSET (SUBSET S), B # {}
    PROVE  \E s \in B : \A x \in s : s \ {x} \notin B
<1> DEFINE T == {Cardinality(s) : s \in B}
<1>1. \A s \in SUBSET S : IsFiniteSet(s) /\ Cardinality(s) \in Nat
  BY FS_Subset, FS_CardinalityType
<1>2. T \in SUBSET Nat /\ T # {}
  BY <1>1
<1>3. PICK n \in T : \A m \in T : n <= m
  <2> HIDE DEF T
  <2> QED
    BY <1>2, LeastNumber
<1>4. PICK s \in B : \A t \in B : Cardinality(s) <= Cardinality(t)
  BY <1>3
<1>5. \A x \in s : Cardinality(s \ {x}) = Cardinality(s) - 1 /\ s \ {x} \in SUBSET S
  BY <1>1, FS_RemoveElement
<1>6. QED
  BY <1>1, <1>4, <1>5

\* c comes before d by value, and by position where the values are equal.
LEMMA FirstNumbers ==
    ASSUME NEW n \in Nat
    PROVE  IsFiniteSet(1..n) /\ Cardinality(1..n) = n
<1>1. PICK k \in Int : k = 1
  OBVIOUS
<1>2. IsFiniteSet(k..n) /\ Cardinality(k..n) = IF k > n THEN 0 ELSE n - k + 1
  <2>1. n \in Int
    OBVIOUS
  <2> QED
    BY <2>1, FS_Interval
<1>3. (IF k > n THEN 0 ELSE n - k + 1) = n
  BY <1>1
<1> QED
  BY <1>1, <1>2, <1>3

(***************************************************************************)
(* Sums over finite sets, element by element.                               *)
(***************************************************************************)

Pick(s) == CHOOSE x \in s : TRUE
Unfolds(F, f, s) == F[s] = IF s = {} THEN 0 ELSE f[Pick(s)] + F[s \ {Pick(s)}]
SumOf(f, S) == CHOOSE F : F = [s \in SUBSET S |-> IF s = {} THEN 0
                                                 ELSE f[Pick(s)] + F[s \ {Pick(s)}]]

LEMMA SumsExist ==
    ASSUME NEW S, IsFiniteSet(S), NEW f
    PROVE  \A s \in SUBSET S : Unfolds(SumOf(f, S), f, s)
<1> DEFINE Upto(n) == \E F : \A s \in SUBSET S : Cardinality(s) <= n => Unfolds(F, f, s)
           T == {n \in Nat : ~ Upto(n)}
<1>0. \A s \in SUBSET S : /\ IsFiniteSet(s) /\ Cardinality(s) \in Nat
                          /\ Cardinality(s) <= Cardinality(S)
  BY FS_Subset, FS_CardinalityType
<1>1. T = {}
  <2>1. SUFFICES ASSUME T # {} PROVE FALSE
    OBVIOUS
  <2>2. PICK n \in T : \A m \in T : n <= m
    <3> HIDE DEF Upto
    <3> QED BY <2>1, LeastNumber
  <2>3. n # 0
    <3>1. SUFFICES ASSUME n = 0 PROVE Upto(n)
      BY <2>2
    <3>2. \A s \in SUBSET S : Cardinality(s) <= 0 => s = {}
      BY <1>0, FS_EmptySet
    <3>3. \A s \in SUBSET S : Cardinality(s) <= 0 => Unfolds([t \in SUBSET S |-> 0], f, s)
      BY <3>2 DEF Unfolds
    <3>4. QED
      BY <3>1, <3>3
  <2>4. Upto(n - 1)
    <3>1. n - 1 \in Nat /\ ~(n <= n - 1)
      BY <2>3
    <3> HIDE DEF Upto
    <3>2. n - 1 \notin T
      BY <2>2, <3>1
    <3> QED BY <3>1, <3>2
  <2>5. PICK F : \A s \in SUBSET S : Cardinality(s) <= n - 1 => Unfolds(F, f, s)
    BY <2>4
  <2> DEFINE G == [s \in SUBSET S |-> IF Cardinality(s) <= n - 1 THEN F[s]
                                      ELSE f[Pick(s)] + F[s \ {Pick(s)}]]
  <2>6. ASSUME NEW s \in SUBSET S, Cardinality(s) <= n PROVE Unfolds(G, f, s)
    <3>1. n \in Nat /\ n >= 1 /\ Cardinality(s) \in Nat
      BY <1>0, <2>3
    <3>2. CASE s = {}
      <4>1. Cardinality(s) <= n - 1
        BY <3>1, <3>2, FS_EmptySet
      <4>2. G[s] = F[s]
        BY <4>1
      <4>3. QED
        BY <2>5, <3>2, <4>1, <4>2 DEF Unfolds
    <3>3. CASE s # {}
      <4>1. Pick(s) \in s
        BY <3>3 DEF Pick
      <4>2. /\ Cardinality(s \ {Pick(s)}) = Cardinality(s) - 1 /\ s \ {Pick(s)} \in SUBSET S
        BY <1>0, <4>1, FS_RemoveElement
      <4>3. G[s \ {Pick(s)}] = F[s \ {Pick(s)}]
        BY <2>6, <3>1, <4>2
      <4>4. G[s] = f[Pick(s)] + F[s \ {Pick(s)}]
        BY <2>5, <3>3 DEF Unfolds
      <4>5. QED
        BY <3>3, <4>3, <4>4 DEF Unfolds
    <3>4. QED
      BY <3>2, <3>3
  <2> HIDE DEF G
  <2>7. Upto(n)
    BY <2>6
  <2>8. QED
    BY <2>2, <2>7
<1>2. Upto(Cardinality(S))
  <2>1. Cardinality(S) \in Nat
    BY <1>0
  <2> HIDE DEF Upto
  <2> QED BY <1>1, <2>1
<1>3. PICK F : \A s \in SUBSET S : Unfolds(F, f, s)
  BY <1>0, <1>2
<1> DEFINE G == [s \in SUBSET S |-> F[s]]
<1>4. G = [s \in SUBSET S |-> IF s = {} THEN 0 ELSE f[Pick(s)] + G[s \ {Pick(s)}]]
  BY <1>3 DEF Unfolds
<1> HIDE DEF G
<1> DEFINE H == SumOf(f, S)
<1>5. H = [s \in SUBSET S |-> IF s = {} THEN 0 ELSE f[Pick(s)] + H[s \ {Pick(s)}]]
  BY <1>4 DEF SumOf
<1> HIDE DEF H
<1>6. \A s \in SUBSET S : Unfolds(H, f, s)
  BY <1>5 DEF Unfolds
<1> QED
  BY <1>6 DEF H

\* The sums of f over the subsets of S, each element by element.
Adds(F, f, S) ==
    \A s \in SUBSET S : /\ F[s] \in Nat
                        /\ s = {} => F[s] = 0
                        /\ \A x \in s : F[s] = f[x] + F[s \ {x}]

LEMMA SumsType ==
    ASSUME NEW S, IsFiniteSet(S), NEW f, \A x \in S : f[x] \in Nat
    PROVE  \A s \in SUBSET S : SumOf(f, S)[s] \in Nat
<1> DEFINE F == SumOf(f, S)
           B == {s \in SUBSET S : F[s] \notin Nat}
<1>1. SUFFICES ASSUME B # {} PROVE FALSE
  OBVIOUS
<1>2. PICK s \in B : \A x \in s : s \ {x} \notin B
  <2> HIDE DEF B
  <2>1. B \in SUBSET (SUBSET S)
    BY DEF B
  <2> QED
    BY <1>1, <2>1, SmallestSubset
<1>3. Unfolds(F, f, s)
  BY SumsExist
<1> HIDE DEF F
<1>4. s # {}
  BY <1>3 DEF Unfolds
<1>5. Pick(s) \in s
  BY <1>4 DEF Pick
<1>6. F[s \ {Pick(s)}] \in Nat /\ f[Pick(s)] \in Nat
  BY <1>2, <1>5
<1> QED
  BY <1>3, <1>4, <1>6 DEF Unfolds

\* A sum does not depend on the order: any element may come first.
LEMMA SumFacts ==
    ASSUME NEW S, IsFiniteSet(S), NEW f, \A x \in S : f[x] \in Nat
    PROVE  Adds(SumOf(f, S), f, S)
<1> DEFINE F == SumOf(f, S)
           Good(s) == \A x \in s : F[s] = f[x] + F[s \ {x}]
           B == {s \in SUBSET S : ~ Good(s)}
<1>0. \A s \in SUBSET S : Unfolds(F, f, s) /\ F[s] \in Nat
  BY SumsExist, SumsType
<1> HIDE DEF F
<1>1. B = {}
  <2>1. SUFFICES ASSUME B # {} PROVE FALSE
    OBVIOUS
  <2>2. PICK s \in B : \A x \in s : s \ {x} \notin B
    <3>1. B \in SUBSET (SUBSET S)
      OBVIOUS
    <3> HIDE DEF B
    <3> QED
      BY <2>1, <3>1, SmallestSubset
  <2>3. s \in SUBSET S /\ ~ Good(s) /\ \A x \in s : Good(s \ {x})
    BY <2>2
  <2>4. PICK x \in s : F[s] # f[x] + F[s \ {x}]
    BY <2>3
  <2> DEFINE c == Pick(s)
  <2>5. c \in s
    BY <2>4 DEF Pick
  <2>6. F[s] = f[c] + F[s \ {c}]
    BY <1>0, <2>4 DEF Unfolds
  <2> HIDE DEF c
  <2>7. c # x
    BY <2>4, <2>6
  <2>8. F[s \ {c}] = f[x] + F[(s \ {c}) \ {x}]
    BY <2>3, <2>4, <2>5, <2>7
  <2>9. F[s \ {x}] = f[c] + F[(s \ {x}) \ {c}]
    BY <2>3, <2>4, <2>5, <2>7
  <2>10. (s \ {c}) \ {x} = (s \ {x}) \ {c}
    OBVIOUS
  <2>11. F[(s \ {x}) \ {c}] \in Nat /\ f[x] \in Nat /\ f[c] \in Nat
    BY <1>0, <2>4, <2>5
  <2>12. F[s \ {c}] = f[x] + F[(s \ {x}) \ {c}]
    BY <2>8, <2>10
  <2>13. f[c] + F[s \ {c}] = f[x] + F[s \ {x}]
    BY <2>9, <2>11, <2>12
  <2> QED
    BY <2>4, <2>6, <2>13
<1>2. \A s \in SUBSET S : s = {} => F[s] = 0
  BY <1>0 DEF Unfolds
<1>3. \A s \in SUBSET S : Good(s)
  BY <1>1
<1> QED
  BY <1>0, <1>2, <1>3 DEF Adds, F

\* Functions that are equal on a set have equal sums over it, whatever sets they are summed in.
LEMMA SumsAgree ==
    ASSUME NEW S, IsFiniteSet(S), NEW f, NEW T, IsFiniteSet(T), NEW g,
           NEW r \in SUBSET (S \cap T), \A x \in r : f[x] = g[x]
    PROVE  SumOf(f, S)[r] = SumOf(g, T)[r]
<1> DEFINE F == SumOf(f, S)
           G == SumOf(g, T)
           B == {s \in SUBSET (S \cap T) : (\A x \in s : f[x] = g[x]) /\ F[s] # G[s]}
<1>0. \A s \in SUBSET (S \cap T) : Unfolds(F, f, s) /\ Unfolds(G, g, s)
  BY SumsExist
<1> HIDE DEF F, G
<1>1. SUFFICES ASSUME B # {} PROVE FALSE
  BY DEF F, G
<1>2. PICK s \in B : \A x \in s : s \ {x} \notin B
  <2> HIDE DEF B
  <2>1. B \in SUBSET (SUBSET (S \cap T)) /\ IsFiniteSet(S \cap T)
    BY FS_Intersection DEF B
  <2> QED
    BY <1>1, <2>1, SmallestSubset
<1>3. s \in SUBSET (S \cap T) /\ (\A x \in s : f[x] = g[x]) /\ F[s] # G[s]
  OBVIOUS
<1>4. s # {}
  BY <1>0, <1>3 DEF Unfolds
<1>5. Pick(s) \in s
  BY <1>4 DEF Pick
<1>6. F[s \ {Pick(s)}] = G[s \ {Pick(s)}] /\ f[Pick(s)] = g[Pick(s)]
  BY <1>2, <1>3, <1>5
<1> QED
  BY <1>0, <1>3, <1>4, <1>6 DEF Unfolds

\* Sum of the model, of a function on a finite set.
LEMMA SumIs ==
    ASSUME NEW f, IsFiniteSet(DOMAIN f)
    PROVE  Sum(f) = SumOf(f, DOMAIN f)[DOMAIN f]
BY DEF Sum, FoldSeq, FoldFunction, FoldFunctionOnSet, MapThenFoldSet, SumOf, Pick

\* The sum over two sets with nothing in common.
LEMMA SumsSplit ==
    ASSUME NEW S, IsFiniteSet(S), NEW f, \A x \in S : f[x] \in Nat,
           NEW s \in SUBSET S, NEW t \in SUBSET S, s \cap t = {}
    PROVE  SumOf(f, S)[s \cup t] = SumOf(f, S)[s] + SumOf(f, S)[t]
<1> DEFINE F == SumOf(f, S)
           B == {r \in SUBSET S : s \cap r = {} /\ F[s \cup r] # F[s] + F[r]}
<1>0. \A r \in SUBSET S : /\ F[r] \in Nat /\ (r = {} => F[r] = 0)
                          /\ \A x \in r : F[r] = f[x] + F[r \ {x}]
  BY SumFacts DEF Adds
<1> HIDE DEF F
<1>1. SUFFICES ASSUME B # {} PROVE FALSE
  BY DEF F
<1>2. PICK r \in B : \A x \in r : r \ {x} \notin B
  <2>1. B \in SUBSET (SUBSET S)
    OBVIOUS
  <2> HIDE DEF B
  <2> QED
    BY <1>1, <2>1, SmallestSubset
<1>3. r # {}
  <2>1. SUFFICES ASSUME r = {} PROVE FALSE
    OBVIOUS
  <2>2. s \cup r = s /\ F[r] = 0 /\ F[s] \in Nat
    BY <1>0, <2>1
  <2>3. F[s \cup r] # F[s] + F[r]
    BY <1>2
  <2>4. F[s \cup r] = F[s] /\ F[s] + F[r] = F[s]
    <3>1. F[s \cup r] = F[s]
      BY <2>2, Zenon
    <3> QED
      BY <2>2, <3>1
  <2> QED
    BY <2>3, <2>4, Zenon
<1>4. PICK x \in r : TRUE
  BY <1>3
<1>5. F[s \cup (r \ {x})] = F[s] + F[r \ {x}]
  BY <1>2, <1>4
<1>6. (s \cup r) \ {x} = s \cup (r \ {x})
  BY <1>2
<1>7. s \cup r \in SUBSET S /\ x \in s \cup r /\ r \in SUBSET S /\ r \ {x} \in SUBSET S
  OBVIOUS
<1>8. F[s \cup r] = f[x] + F[s \cup (r \ {x})] /\ F[r] = f[x] + F[r \ {x}]
  BY <1>0, <1>6, <1>7
<1>9. F[s] \in Nat /\ F[r \ {x}] \in Nat /\ f[x] \in Nat
  BY <1>0, <1>7
<1> QED
  BY <1>5, <1>8, <1>9

\* The same terms under other names have the same sum.
Renamed(o, r) == {o[y] : y \in r}

LEMMA SumRenamed ==
    ASSUME NEW S, IsFiniteSet(S), NEW T, IsFiniteSet(T), NEW o \in [T -> S], IsInjective(o),
           NEW f, \A x \in S : f[x] \in Nat, NEW g, \A y \in T : g[y] = f[o[y]],
           NEW r \in SUBSET T
    PROVE  SumOf(g, T)[r] = SumOf(f, S)[Renamed(o, r)]
<1> DEFINE F == SumOf(f, S)
           G == SumOf(g, T)
           To(s) == {o[y] : y \in s}
           B == {s \in SUBSET T : G[s] # F[To(s)]}
<1>0. /\ \A s \in SUBSET S : /\ s = {} => F[s] = 0
                             /\ \A x \in s : F[s] = f[x] + F[s \ {x}]
      /\ \A s \in SUBSET T : /\ s = {} => G[s] = 0
                             /\ \A y \in s : G[s] = g[y] + G[s \ {y}]
  <2>1. \A y \in T : g[y] \in Nat
    OBVIOUS
  <2>2. \A s \in SUBSET S : /\ s = {} => F[s] = 0
                            /\ \A x \in s : F[s] = f[x] + F[s \ {x}]
    BY SumFacts DEF Adds
  <2>3. \A s \in SUBSET T : /\ s = {} => G[s] = 0
                            /\ \A y \in s : G[s] = g[y] + G[s \ {y}]
    <3>1. PICK h, U : h = g /\ U = T
      OBVIOUS
    <3>2. IsFiniteSet(U) /\ \A x \in U : h[x] \in Nat
      BY <2>1, <3>1
    <3>3. Adds(SumOf(h, U), h, U)
      BY <3>2, SumFacts
    <3> QED
      BY <3>1, <3>3 DEF Adds
  <2> HIDE DEF F, G
  <2> QED
    BY <2>2, <2>3
<1> HIDE DEF F, G
<1>1. SUFFICES ASSUME B # {} PROVE FALSE
  BY DEF F, G, Renamed
<1>2. PICK s \in B : \A y \in s : s \ {y} \notin B
  <2>1. B \in SUBSET (SUBSET T)
    OBVIOUS
  <2> HIDE DEF B
  <2> QED
    BY <1>1, <2>1, SmallestSubset
<1>3. s # {}
  BY <1>0
<1>4. PICK y \in s : TRUE
  BY <1>3
<1>5. G[s \ {y}] = F[To(s \ {y})]
  BY <1>2, <1>4
<1>6. To(s \ {y}) = To(s) \ {o[y]}
  BY DEF IsInjective
<1>7. To(s) \in SUBSET S /\ o[y] \in To(s)
  OBVIOUS
<1> HIDE DEF To
<1>8. F[To(s)] = f[o[y]] + F[To(s) \ {o[y]}]
  BY <1>0, <1>7
<1>9. G[s] = g[y] + G[s \ {y}]
  BY <1>0
<1> QED
  BY <1>5, <1>6, <1>8, <1>9
(***************************************************************************)
(* Rounding.                                                                *)
(***************************************************************************)

LEMMA DivIs ==
    ASSUME NEW x \in Nat, NEW y \in Nat \ {0}
    PROVE  x \div y \in Nat /\ (x \div y) * y <= x /\ x < (x \div y) * y + y
OBVIOUS

LEMMA TimesLess ==
    ASSUME NEW m \in Nat, NEW n \in Nat, NEW y \in Nat \ {0}, m * y < n * y + y
    PROVE  m <= n
OBVIOUS

LEMMA TimesMore ==
    ASSUME NEW m \in Nat, NEW n \in Nat, NEW y \in Nat, m <= n
    PROVE  m * y <= n * y /\ m * y \in Nat
OBVIOUS

\* The least number of parts of size y that hold x.
LEMMA CeilIs ==
    ASSUME NEW x \in Nat, NEW y \in Nat \ {0}
    PROVE  /\ Ceil(x, y) \in Nat /\ x <= Ceil(x, y) * y
           /\ \A m \in Nat : x <= m * y => Ceil(x, y) <= m
<1> DEFINE c == Ceil(x, y)
<1>1. c \in Nat /\ c * y <= x + y - 1 /\ x + y - 1 < c * y + y
  <2>1. x + y - 1 \in Nat
    OBVIOUS
  <2> QED
    BY <2>1, DivIs DEF Ceil
<1> HIDE DEF c
<1>2. c * y \in Nat
  BY <1>1
<1>3. x <= c * y
  BY <1>1, <1>2
<1>4. ASSUME NEW m \in Nat, x <= m * y PROVE c <= m
  <2>1. m * y \in Nat
    OBVIOUS
  <2>2. c * y < m * y + y
    BY <1>1, <1>2, <1>4, <2>1
  <2> QED
    BY <1>1, <2>2, TimesLess
<1> QED
  BY <1>1, <1>3, <1>4 DEF c

\* Attempts that fit in the calls that are left.
LEMMA CallsSuffice ==
    ASSUME NEW m \in Nat, NEW limit \in Nat, NEW attempts \in Nat \ {0}, m <= limit \div attempts
    PROVE  m * attempts <= limit
<1>1. PICK q : q = limit \div attempts
  OBVIOUS
<1>2. q \in Nat /\ q * attempts <= limit
  BY <1>1, DivIs
<1>3. m * attempts <= q * attempts /\ m * attempts \in Nat
  BY <1>1, <1>2, TimesMore
<1>4. q * attempts \in Nat
  BY <1>2
<1> QED
  BY <1>2, <1>3, <1>4

(***************************************************************************)
(* The largest of a number of terms have the largest sum.                   *)
(***************************************************************************)

\* No term of A that is not in T is larger than one of T.
Leads(f, T, A) == \A x \in T, y \in A \ T : f[y] <= f[x]

LEMMA LeadersExist ==
    ASSUME NEW S, IsFiniteSet(S), NEW f, \A x \in S : f[x] \in Nat, NEW k \in 0..Cardinality(S)
    PROVE  \E t \in kSubset(k, S) : Leads(f, t, S)
<1> DEFINE Led(s, n) == \E t \in SUBSET s : Cardinality(t) = n /\ Leads(f, t, s)
           B == {s \in SUBSET S : \E n \in 0..Cardinality(s) : ~ Led(s, n)}
<1>1. B = {}
  <2>1. SUFFICES ASSUME B # {} PROVE FALSE
    OBVIOUS
  <2>2. PICK s \in B : \A x \in s : s \ {x} \notin B
    <3>1. B \in SUBSET (SUBSET S)
      OBVIOUS
    <3> HIDE DEF B
    <3> QED
      BY <2>1, <3>1, SmallestSubset
  <2>3. PICK n \in 0..Cardinality(s) : ~ Led(s, n)
    OBVIOUS
  <2>4. IsFiniteSet(s) /\ Cardinality(s) \in Nat
    BY FS_Subset, FS_CardinalityType
  <2>5. n # Cardinality(s)
    <3>1. Leads(f, s, s)
      BY DEF Leads
    <3> QED
      BY <2>3, <3>1
  <2>6. s # {}
    BY <2>4, <2>5, FS_EmptySet
  <2>7. PICK x \in s : \A y \in s : f[x] <= f[y]
    <3> DEFINE V == {f[y] : y \in s}
    <3>1. V \in SUBSET Nat /\ V # {}
      BY <2>6
    <3>2. PICK v \in V : \A w \in V : v <= w
      <4> HIDE DEF V
      <4> QED
        BY <3>1, LeastNumber
    <3> QED
      BY <3>2
  <2>8. Cardinality(s \ {x}) = Cardinality(s) - 1
    BY <2>4, FS_RemoveElement
  <2>9. PICK t \in SUBSET (s \ {x}) : Cardinality(t) = n /\ Leads(f, t, s \ {x})
    <3>1. n \in 0..Cardinality(s \ {x})
      BY <2>4, <2>5, <2>8
    <3>2. s \ {x} \in SUBSET S /\ s \ {x} \notin B
      BY <2>2
    <3> QED
      BY <3>1, <3>2
  <2>10. Leads(f, t, s)
    BY <2>7, <2>9 DEF Leads
  <2> QED
    BY <2>3, <2>9, <2>10
<1>2. Led(S, k)
  BY <1>1
<1> QED
  BY <1>2 DEF kSubset

LEMMA LeadersSum ==
    ASSUME NEW S, IsFiniteSet(S), NEW f, \A x \in S : f[x] \in Nat,
           NEW T \in SUBSET S, Leads(f, T, S),
           NEW A \in SUBSET S, Cardinality(A) <= Cardinality(T)
    PROVE  SumOf(f, S)[A] <= SumOf(f, S)[T]
<1> DEFINE F == SumOf(f, S)
           Worse(s, t) == /\ Cardinality(s) <= Cardinality(t) /\ Leads(f, t, s)
                          /\ ~ (F[s] <= F[t])
           B == {s \in SUBSET S : \E t \in SUBSET S : Worse(s, t)}
<1>0. \A s \in SUBSET S : /\ F[s] \in Nat /\ (s = {} => F[s] = 0)
                          /\ \A x \in s : F[s] = f[x] + F[s \ {x}]
  BY SumFacts DEF Adds
<1> HIDE DEF F
<1>c. ASSUME NEW s \in SUBSET S
      PROVE  /\ IsFiniteSet(s) /\ Cardinality(s) \in Nat
             /\ \A x \in s : Cardinality(s \ {x}) = Cardinality(s) - 1
             /\ s = {} <=> Cardinality(s) = 0
  BY FS_Subset, FS_CardinalityType, FS_RemoveElement, FS_EmptySet
<1>1. B = {}
  <2>1. SUFFICES ASSUME B # {} PROVE FALSE
    OBVIOUS
  <2>2. PICK s \in B : \A x \in s : s \ {x} \notin B
    <3>1. B \in SUBSET (SUBSET S)
      OBVIOUS
    <3> HIDE DEF B
    <3> QED
      BY <2>1, <3>1, SmallestSubset
  <2>3. PICK t \in SUBSET S : Worse(s, t)
    OBVIOUS
  <2>4. s # {} /\ t # {}
    BY <1>0, <1>c, <2>3
  <2>5. PICK y \in s, x \in t : /\ f[y] <= f[x] /\ Leads(f, t \ {x}, s \ {y})
    <3>1. CASE s \cap t # {}
      <4>1. PICK z \in s \cap t : TRUE
        BY <3>1
      <4>2. Leads(f, t \ {z}, s \ {z}) /\ f[z] <= f[z]
        BY <2>3 DEF Leads
      <4> QED
        BY <4>2
    <3>2. CASE s \cap t = {}
      <4>1. PICK y \in s, x \in t : TRUE
        BY <2>4
      <4>2. Leads(f, t \ {x}, s \ {y}) /\ f[y] <= f[x]
        BY <2>3, <3>2 DEF Leads
      <4> QED
        BY <4>2
    <3> QED
      BY <3>1, <3>2
  <2>6. Cardinality(s \ {y}) <= Cardinality(t \ {x})
    BY <1>c, <2>3
  <2>7. F[s \ {y}] <= F[t \ {x}]
    <3>1. s \ {y} \in SUBSET S /\ t \ {x} \in SUBSET S /\ s \ {y} \notin B
      BY <2>2
    <3> QED
      BY <2>5, <2>6, <3>1
  <2>8. F[s] = f[y] + F[s \ {y}] /\ F[t] = f[x] + F[t \ {x}]
    BY <1>0
  <2>9. F[s \ {y}] \in Nat /\ F[t \ {x}] \in Nat /\ f[x] \in Nat /\ f[y] \in Nat
    BY <1>0
  <2> QED
    BY <2>3, <2>5, <2>7, <2>8, <2>9
<1>2. Leads(f, T, A)
  BY DEF Leads
<1>3. ~ Worse(A, T)
  BY <1>1
<1> QED
  BY <1>2, <1>3 DEF F

(***************************************************************************)
(* The tokens of a request, as estimated, and of a group of candidates.     *)
(***************************************************************************)

\* The tokens of one request with some overhead and candidates of that many characters.
Estimate(overhead, chars) == Max({1, Ceil(overhead + chars, Unit)})

\* The estimate of each candidate by itself.
Alone(overhead, picked) == [i \in DOMAIN picked |-> Estimate(overhead, picked[i])]

LEMMA MaxIs ==
    ASSUME NEW x \in Nat
    PROVE  Max({1, x}) \in Nat /\ Max({1, x}) = IF 1 <= x THEN x ELSE 1
<1>1. PICK m : m = Max({1, x})
  OBVIOUS
<1>2. m = IF 1 <= x THEN x ELSE 1
  BY <1>1 DEF Max
<1> QED
  BY <1>1, <1>2

LEMMA EstimateIs ==
    ASSUME NEW h \in Nat, NEW x \in Nat
    PROVE  /\ Estimate(h, x) \in Nat /\ h + x <= Estimate(h, x) * Unit /\ 1 <= Estimate(h, x)
           /\ \A m \in Nat \ {0} : h + x <= m * Unit => Estimate(h, x) <= m
<1>1. Unit \in Nat \ {0} /\ h + x \in Nat
  BY PlanSizes
<1>2. PICK c : c = Ceil(h + x, Unit)
  OBVIOUS
<1>3. c \in Nat /\ h + x <= c * Unit /\ \A m \in Nat : h + x <= m * Unit => c <= m
  BY <1>1, <1>2, CeilIs
<1>4. PICK e : e = Estimate(h, x)
  OBVIOUS
<1>5. e = IF 1 <= c THEN c ELSE 1
  BY <1>2, <1>3, <1>4, MaxIs DEF Estimate
<1>6. e \in Nat /\ c <= e /\ 1 <= e
  BY <1>3, <1>5
<1>7. c * Unit <= e * Unit /\ c * Unit \in Nat /\ e * Unit \in Nat
  BY <1>1, <1>3, <1>6, TimesMore
<1>8. h + x <= e * Unit
  BY <1>1, <1>3, <1>7
<1>9. ASSUME NEW m \in Nat \ {0}, h + x <= m * Unit PROVE e <= m
  BY <1>3, <1>5, <1>9
<1> QED
  BY <1>4, <1>6, <1>8, <1>9

\* More characters take no fewer tokens, and one request no more than two with the same.
LEMMA EstimatesGrow ==
    ASSUME NEW h \in Nat, NEW x \in Nat, NEW y \in Nat
    PROVE  /\ x <= y => Estimate(h, x) <= Estimate(h, y)
           /\ Estimate(h, x + y) <= Estimate(h, x) + Estimate(h, y)
<1>1. PICK e, f, g : e = Estimate(h, x) /\ f = Estimate(h, y) /\ g = Estimate(h, x + y)
  OBVIOUS
<1>2. /\ e \in Nat \ {0} /\ h + x <= e * Unit
      /\ \A m \in Nat \ {0} : h + x <= m * Unit => e <= m
  <2>1. /\ e \in Nat /\ 1 <= e /\ h + x <= e * Unit
        /\ \A m \in Nat \ {0} : h + x <= m * Unit => e <= m
    BY <1>1, EstimateIs
  <2> QED
    BY <2>1
<1>3. f \in Nat \ {0} /\ h + y <= f * Unit
  <2>1. f \in Nat /\ 1 <= f /\ h + y <= f * Unit
    BY <1>1, EstimateIs
  <2> QED
    BY <2>1
<1>4. /\ \A m \in Nat \ {0} : h + (x + y) <= m * Unit => g <= m
  <2>1. x + y \in Nat
    OBVIOUS
  <2> QED
    BY <1>1, <2>1, EstimateIs
<1>5. Unit \in Nat
  BY PlanSizes
<1>6. e * Unit \in Nat /\ f * Unit \in Nat /\ (e + f) * Unit = e * Unit + f * Unit
  BY <1>2, <1>3, <1>5
<1>7. x <= y => e <= f
  <2>1. x <= y => h + x <= f * Unit
    BY <1>3, <1>6
  <2> QED
    BY <1>2, <1>3, <2>1
<1>8. g <= e + f
  <2>1. h + (x + y) <= (e + f) * Unit
    BY <1>2, <1>3, <1>6
  <2>2. e + f \in Nat \ {0}
    BY <1>2, <1>3
  <2> QED
    BY <1>4, <2>1, <2>2
<1> QED
  BY <1>1, <1>7, <1>8

\* A group of candidates takes no more tokens than its members one by one.
LEMMA GroupsAreCheaper ==
    ASSUME NEW h \in Nat, NEW D, IsFiniteSet(D), NEW p \in [D -> Nat],
           NEW s \in SUBSET D, s # {}
    PROVE  Estimate(h, SumOf(p, D)[s]) <= SumOf(Alone(h, p), D)[s]
<1> DEFINE F == SumOf(p, D)
           G == SumOf(Alone(h, p), D)
           B == {r \in SUBSET D : r # {} /\ ~ (Estimate(h, F[r]) <= G[r])}
<1>0. \A r \in SUBSET D : /\ F[r] \in Nat /\ (r = {} => F[r] = 0)
                          /\ \A x \in r : F[r] = p[x] + F[r \ {x}]
  BY SumFacts DEF Adds
<1>1. \A x \in D : Alone(h, p)[x] = Estimate(h, p[x]) /\ Alone(h, p)[x] \in Nat
  BY EstimateIs DEF Alone
<1>2. \A r \in SUBSET D : /\ G[r] \in Nat /\ (r = {} => G[r] = 0)
                          /\ \A x \in r : G[r] = Estimate(h, p[x]) + G[r \ {x}]
  <2>1. PICK g : g = Alone(h, p)
    OBVIOUS
  <2>2. Adds(SumOf(g, D), g, D)
    BY <1>1, <2>1, SumFacts
  <2> QED
    BY <1>1, <2>1, <2>2 DEF Adds
<1> HIDE DEF F, G
<1>3. SUFFICES ASSUME B # {} PROVE FALSE
  BY DEF F, G
<1>4. PICK r \in B : \A x \in r : r \ {x} \notin B
  <2>1. B \in SUBSET (SUBSET D)
    OBVIOUS
  <2> HIDE DEF B
  <2> QED
    BY <1>3, <2>1, SmallestSubset
<1>5. PICK x \in r : TRUE
  OBVIOUS
<1>6. PICK q, u, v, w : /\ q = r \ {x} /\ u = p[x] /\ v = F[q] /\ w = G[q]
  OBVIOUS
<1>7. F[r] = u + v /\ G[r] = Estimate(h, u) + w
  BY <1>0, <1>2, <1>6
<1>8. u \in Nat /\ v \in Nat /\ w \in Nat
  BY <1>0, <1>2, <1>6
<1>9. Estimate(h, u) \in Nat /\ Estimate(h, v) \in Nat /\ Estimate(h, u + v) \in Nat
  <2>1. u + v \in Nat
    BY <1>8
  <2> QED
    BY <1>8, <2>1, EstimateIs
<1>10. CASE q = {}
  <2>1. v = 0 /\ w = 0
    BY <1>0, <1>2, <1>6, <1>10
  <2>2. F[r] = u /\ G[r] = Estimate(h, u)
    BY <1>7, <1>8, <1>9, <2>1
  <2> QED
    BY <1>4, <1>9, <2>2
<1>11. CASE q # {}
  <2>1. Estimate(h, v) <= w
    BY <1>4, <1>5, <1>6, <1>11
  <2>2. Estimate(h, u + v) <= Estimate(h, u) + Estimate(h, v)
    BY <1>8, EstimatesGrow
  <2>3. Estimate(h, u + v) <= Estimate(h, u) + w
    BY <1>8, <1>9, <2>1, <2>2
  <2> QED
    BY <1>4, <1>7, <2>3
<1> QED
  BY <1>10, <1>11

LEMMA SumOfOne ==
    ASSUME NEW x \in Nat, NEW f \in [1..1 -> Nat], f[1] = x
    PROVE  Sum(f) = x
<1>1. DOMAIN f = {1} /\ IsFiniteSet({1})
  <2>1. 1..1 = {1}
    OBVIOUS
  <2> QED
    BY <2>1, FS_Singleton
<1>2. Sum(f) = SumOf(f, {1})[{1}]
  BY <1>1, SumIs
<1>3. PICK S : S = {1}
  OBVIOUS
<1>4. Adds(SumOf(f, S), f, S)
  BY <1>1, <1>3, SumFacts
<1>5. SumOf(f, S)[S] = f[1] + SumOf(f, S)[S \ {1}] /\ SumOf(f, S)[S \ {1}] = 0
  BY <1>3, <1>4 DEF Adds
<1> QED
  BY <1>2, <1>3, <1>5

LEMMA ShownIs ==
    ASSUME NEW b, b.question \in Nat, NEW D, NEW picked \in [D -> Nat]
    PROVE  /\ Shown(b, picked) \in [D -> Nat]
           /\ \A i \in D : Shown(b, picked)[i] = picked[i] + b.question
<1>1. PICK q \in Nat : q = b.question
  OBVIOUS
<1>2. Shown(b, picked) = [i \in D |-> picked[i] + q]
  BY <1>1 DEF Shown
<1>3. \A i \in D : picked[i] + q \in Nat
  BY <1>1
<1> QED
  BY <1>1, <1>2, <1>3

LEMMA TokensIs ==
    ASSUME NEW b, b.overhead \in Nat, b.question \in Nat,
           NEW D, IsFiniteSet(D), NEW picked \in [D -> Nat]
    PROVE  /\ Tokens(b, picked) = Estimate(b.overhead, SumOf(Shown(b, picked), D)[D])
           /\ SumOf(Shown(b, picked), D)[D] \in Nat /\ Tokens(b, picked) \in Nat
<1>0. PICK shown \in [D -> Nat] : shown = Shown(b, picked)
  BY ShownIs
<1>1. Sum(shown) = SumOf(shown, D)[D]
  BY SumIs
<1>2. SumOf(shown, D)[D] \in Nat
  BY SumFacts DEF Adds
<1>3. Tokens(b, picked) = Estimate(b.overhead, SumOf(shown, D)[D])
  BY <1>0, <1>1 DEF Tokens, Estimate
<1> QED
  BY <1>0, <1>2, <1>3, EstimateIs

LEMMA TokensOfOne ==
    ASSUME NEW b, b.question \in Nat, NEW x \in Nat
    PROVE  Tokens(b, <<x>>) = Estimate(b.overhead, x + b.question)
<1>1. PICK f : f = <<x>>
  OBVIOUS
<1>2. f \in [1..1 -> Nat] /\ f[1] = x
  BY <1>1
<1>3. PICK g \in [1..1 -> Nat] : g = Shown(b, f) /\ g[1] = f[1] + b.question
  <2>1. 1 \in 1..1
    OBVIOUS
  <2> QED
    BY <1>2, <2>1, ShownIs
<1>4. PICK y \in Nat : y = x + b.question
  OBVIOUS
<1>5. Sum(g) = y
  BY <1>2, <1>3, <1>4, SumOfOne
<1> QED
  BY <1>1, <1>3, <1>4, <1>5 DEF Tokens, Estimate

LEMMA SinglesTokens ==
    ASSUME NEW b, b.overhead \in Nat, b.question \in Nat,
           NEW D, IsFiniteSet(D), NEW picked \in [D -> Nat]
    PROVE  /\ TokensOfAll(b, Singles(picked)) = SumOf(Alone(b.overhead, Shown(b, picked)), D)[D]
           /\ \A i \in D : Alone(b.overhead, Shown(b, picked))[i] \in Nat
           /\ TokensOfAll(b, Singles(picked)) \in Nat
<1>0. PICK shown \in [D -> Nat] : /\ shown = Shown(b, picked)
                                 /\ \A i \in D : shown[i] = picked[i] + b.question
  BY ShownIs
<1>1. DOMAIN Singles(picked) = D /\ \A i \in D : Singles(picked)[i] = <<picked[i]>>
  BY DEF Singles
<1>2. PICK g : g = Alone(b.overhead, shown)
  OBVIOUS
<1>3. DOMAIN g = D /\ g = [i \in D |-> Estimate(b.overhead, shown[i])]
  BY <1>2 DEF Alone
<1>4. ASSUME NEW i \in D PROVE Tokens(b, <<picked[i]>>) = Estimate(b.overhead, shown[i])
  <2>1. PICK x \in Nat : x = picked[i]
    OBVIOUS
  <2>2. Tokens(b, <<x>>) = Estimate(b.overhead, x + b.question)
    BY TokensOfOne
  <2> QED
    BY <1>0, <2>1, <2>2
<1>5. g = [i \in DOMAIN Singles(picked) |-> Tokens(b, Singles(picked)[i])]
  BY <1>1, <1>3, <1>4
<1>6. ASSUME NEW i \in D PROVE g[i] \in Nat
  <2>1. shown[i] \in Nat /\ g[i] = Estimate(b.overhead, shown[i])
    BY <1>3
  <2> QED
    BY <2>1, EstimateIs
<1>7. TokensOfAll(b, Singles(picked)) = SumOf(g, D)[D]
  BY <1>3, <1>5, SumIs DEF TokensOfAll
<1>8. SumOf(g, D)[D] \in Nat
  BY <1>6, SumFacts DEF Adds
<1> QED
  BY <1>0, <1>2, <1>6, <1>7, <1>8

LEMMA TokensOfOneRequest ==
    ASSUME NEW b, b.overhead \in Nat, b.question \in Nat,
           NEW D, IsFiniteSet(D), NEW picked \in [D -> Nat]
    PROVE  TokensOfAll(b, <<picked>>) = Tokens(b, picked) /\ Tokens(b, picked) \in Nat
<1>1. PICK f : f = [i \in DOMAIN <<picked>> |-> Tokens(b, <<picked>>[i])]
  OBVIOUS
<1>2. Tokens(b, picked) \in Nat
  BY TokensIs
<1>3. f \in [1..1 -> Nat] /\ f[1] = Tokens(b, picked)
  BY <1>1, <1>2
<1>4. Sum(f) = Tokens(b, picked)
  BY <1>2, <1>3, SumOfOne
<1> QED
  BY <1>1, <1>2, <1>4 DEF TokensOfAll

\* The candidates of a number of groups of a size, and those of one more.
Upto(n, size, i) == {j \in 1..n : j <= i * size}
Block(n, size, i) == {j \in 1..n : (i - 1) * size < j /\ j <= i * size}

LEMMA ChunkIs ==
    ASSUME NEW picked \in Seq(Nat), NEW size \in Nat \ {0}
    PROVE  LET n == Len(picked)
               m == Ceil(n, size)
               chunks == Chunks(picked, size)
           IN  /\ m \in Nat /\ DOMAIN chunks = 1..m /\ Len(chunks) = m
               /\ Upto(n, size, m) = 1..n
               /\ \A i \in 1..m :
                     /\ chunks[i] \in Seq(Nat) /\ 1 <= Len(chunks[i]) /\ Len(chunks[i]) <= size
                     /\ \A j \in 1..Len(chunks[i]) :
                           /\ (i - 1) * size + j \in Block(n, size, i)
                           /\ chunks[i][j] = picked[(i - 1) * size + j]
                     /\ \A k \in Block(n, size, i) :
                           \E j \in 1..Len(chunks[i]) : k = (i - 1) * size + j
<1>n. PICK n \in Nat : n = Len(picked)
  OBVIOUS
<1>m. PICK m : m = Ceil(n, size)
  OBVIOUS
<1>1. m \in Nat /\ n <= m * size /\ \A k \in Nat : n <= k * size => m <= k
  BY <1>m, CeilIs
<1>c. PICK chunks : chunks = Chunks(picked, size)
  OBVIOUS
<1>2. /\ DOMAIN chunks = 1..m /\ Len(chunks) = m
      /\ \A i \in 1..m : chunks[i] = SubSeq(picked, (i - 1) * size + 1, Min({i * size, n}))
  <2>1. chunks = [i \in 1..m |-> SubSeq(picked, (i - 1) * size + 1, Min({i * size, n}))]
    BY <1>n, <1>m, <1>c DEF Chunks
  <2>2. DOMAIN chunks = 1..m
    BY <2>1
  <2>3. Len(chunks) = m
    BY <1>1, <2>2
  <2>4. \A i \in 1..m : chunks[i] = SubSeq(picked, (i - 1) * size + 1, Min({i * size, n}))
    BY <2>1
  <2> QED
    BY <2>2, <2>3, <2>4
<1>3. Upto(n, size, m) = 1..n
  BY <1>1 DEF Upto
<1>4. ASSUME NEW i \in 1..m
      PROVE  /\ chunks[i] \in Seq(Nat) /\ 1 <= Len(chunks[i]) /\ Len(chunks[i]) <= size
             /\ \A j \in 1..Len(chunks[i]) :
                   /\ (i - 1) * size + j \in Block(n, size, i)
                   /\ chunks[i][j] = picked[(i - 1) * size + j]
             /\ \A k \in Block(n, size, i) :
                   \E j \in 1..Len(chunks[i]) : k = (i - 1) * size + j
  <2>1. PICK before, after : before = (i - 1) * size /\ after = i * size
    OBVIOUS
  <2>2. before \in Nat /\ after \in Nat /\ after = before + size
    <3>1. i - 1 \in Nat /\ i \in Nat /\ size \in Nat
      OBVIOUS
    <3> QED
      BY <2>1, <3>1
  <2>3. before < n
    <3>1. i - 1 \in Nat /\ ~ (m <= i - 1)
      BY <1>1
    <3>2. ~ (n <= before)
      BY <1>1, <2>1, <3>1
    <3> QED
      BY <2>2, <3>2
  <2>4. PICK last : last = Min({after, n})
    OBVIOUS
  <2>5. last = (IF after <= n THEN after ELSE n) /\ last \in Nat
    <3>1. last = IF after <= n THEN after ELSE n
      BY <2>2, <2>4 DEF Min
    <3> QED
      BY <2>2, <3>1
  <2>6. before < last /\ last <= n /\ last <= after /\ last \in Nat
    BY <2>2, <2>3, <2>5
  <2>7. chunks[i] = SubSeq(picked, before + 1, last)
    BY <1>2, <2>1, <2>4
  <2>8. /\ chunks[i] \in Seq(Nat) /\ Len(chunks[i]) = last - before
        /\ \A j \in 1..(last - before) : chunks[i][j] = picked[before + j]
    <3>1. before + 1 \in 1..(Len(picked) + 1) /\ last \in before..Len(picked)
      BY <1>n, <2>2, <2>6
    <3>2. chunks[i] = [j \in 1..(last - before) |-> picked[before + j]]
      <4>1. PICK first : first = before + 1
        OBVIOUS
      <4>2. first \in Int /\ last \in Int /\ last - first + 1 = last - before
        BY <2>2, <2>6, <4>1
      <4>3. SubSeq(picked, first, last) =
               [j \in 1..(last - first + 1) |-> picked[first + j - 1]]
        BY <4>2
      <4>4. \A j \in 1..(last - before) : first + j - 1 = before + j
        BY <2>2, <2>6, <4>1
      <4> QED
        BY <2>7, <4>1, <4>2, <4>3, <4>4
    <3>3. ASSUME NEW j \in 1..(last - before)
          PROVE  before + j \in 1..Len(picked) /\ picked[before + j] \in Nat
      <4>1. j \in Nat /\ 1 <= j /\ before + j <= last /\ last <= Len(picked)
        BY <1>n, <2>2, <2>6
      <4>2. before + j \in 1..Len(picked)
        <5>w. PICK w \in Nat : w = before
          BY <2>2
        <5>1. PICK k : w = before /\ k = w + j
          BY <5>w
        <5>2. w + j <= last /\ last <= n
          BY <1>n, <4>1, <5>1
        <5>3. k \in Nat /\ 1 <= k /\ k <= n
          BY <2>6, <4>1, <5>1, <5>2
        <5> QED
          BY <1>n, <5>1, <5>3
      <4> QED
        BY <4>2
    <3>4. last - before \in Nat
      BY <2>2, <2>6
    <3> QED
      BY <3>2, <3>3, <3>4
  <2>9. 1 <= Len(chunks[i]) /\ Len(chunks[i]) <= size
    BY <2>2, <2>6, <2>8
  <2>10. \A j \in 1..(last - before) : before + j \in Block(n, size, i)
    <3>1. \A k \in 1..n : k \in Block(n, size, i) <=> before < k /\ k <= after
      BY <2>1 DEF Block
    <3> QED
      BY <2>2, <2>6, <3>1
  <2>11. \A k \in Block(n, size, i) : \E j \in 1..(last - before) : k = before + j
    <3> SUFFICES ASSUME NEW k \in Block(n, size, i)
                 PROVE  k - before \in 1..(last - before) /\ k = before + (k - before)
      OBVIOUS
    <3>1. k \in 1..n /\ before < k /\ k <= after
      BY <2>1 DEF Block
    <3> QED
      BY <2>2, <2>5, <2>6, <3>1
  <2> QED
    BY <2>1, <2>8, <2>9, <2>10, <2>11
<1> QED
  BY <1>n, <1>m, <1>c, <1>1, <1>2, <1>3, <1>4

LEMMA ChunkTokens ==
    ASSUME NEW b, b.overhead \in Nat, b.question \in Nat,
           NEW picked \in Seq(Nat), NEW size \in Nat \ {0},
           NEW i \in 1..Ceil(Len(picked), size)
    PROVE  LET c == Chunks(picked, size)[i]
               group == Block(Len(picked), size, i)
           IN  /\ Tokens(b, c) \in Nat
               /\ Tokens(b, c) <= SumOf(Alone(b.overhead, Shown(b, picked)), 1..Len(picked))[group]
<1>n. PICK n \in Nat : n = Len(picked)
  OBVIOUS
<1>D. PICK D : D = 1..n
  OBVIOUS
<1>c. PICK c, r : c = Chunks(picked, size)[i] /\ r = Block(n, size, i)
  OBVIOUS
<1>T. PICK T : T = 1..Len(c)
  OBVIOUS
<1>s. PICK before : before = (i - 1) * size
  OBVIOUS
<1>1. /\ c \in Seq(Nat) /\ 1 <= Len(c)
      /\ \A j \in T : before + j \in r /\ c[j] = picked[before + j]
      /\ \A k \in r : \E j \in T : k = before + j
  <2>1. /\ Chunks(picked, size)[i] \in Seq(Nat) /\ 1 <= Len(Chunks(picked, size)[i])
        /\ \A j \in 1..Len(Chunks(picked, size)[i]) :
              /\ (i - 1) * size + j \in Block(Len(picked), size, i)
              /\ Chunks(picked, size)[i][j] = picked[(i - 1) * size + j]
        /\ \A k \in Block(Len(picked), size, i) :
              \E j \in 1..Len(Chunks(picked, size)[i]) : k = (i - 1) * size + j
    BY ChunkIs
  <2>2. /\ c \in Seq(Nat) /\ 1 <= Len(c)
        /\ \A j \in 1..Len(c) : before + j \in r /\ c[j] = picked[before + j]
        /\ \A k \in r : \E j \in 1..Len(c) : k = before + j
    BY <1>n, <1>c, <1>s, <2>1, Zenon
  <2> QED
    BY <1>T, <2>2, Zenon
<1>2. /\ IsFiniteSet(D) /\ picked \in [D -> Nat] /\ r \in SUBSET D
      /\ IsFiniteSet(T) /\ c \in [T -> Nat] /\ T # {}
  <2>1. IsFiniteSet(1..n) /\ IsFiniteSet(1..Len(c))
    BY <1>1, FirstNumbers
  <2>2. picked \in [1..n -> Nat] /\ c \in [1..Len(c) -> Nat] /\ 1 \in 1..Len(c)
    BY <1>1, <1>n
  <2> QED
    BY <1>D, <1>T, <1>c, <2>1, <2>2 DEF Block
<1>3. before \in Nat
  <2>1. i \in Nat /\ 1 <= i
    <3>1. Ceil(n, size) \in Nat
      BY CeilIs
    <3> QED
      BY <1>n, <3>1
  <2> QED
    BY <1>s, <2>1
<1>o. PICK o : o = [j \in T |-> before + j]
  OBVIOUS
<1>4. /\ o \in [T -> D] /\ IsInjective(o) /\ \A j \in T : c[j] = picked[o[j]]
      /\ Renamed(o, T) = r
  <2>1. \A j \in T : o[j] = before + j /\ o[j] \in r /\ o[j] \in D /\ j \in Nat
    BY <1>1, <1>2, <1>T, <1>o
  <2>2. o \in [T -> D]
    BY <1>o, <2>1
  <2>3. \A j, k \in T : o[j] = o[k] => j = k
    BY <1>3, <2>1
  <2>4. Renamed(o, T) = r
    BY <1>1, <2>1 DEF Renamed
  <2> QED
    BY <1>1, <2>1, <2>2, <2>3, <2>4 DEF IsInjective
<1>a. ASSUME NEW f, \A x \in D : f[x] \in Nat, NEW g, \A y \in T : g[y] = f[o[y]]
      PROVE  SumOf(g, T)[T] = SumOf(f, D)[Renamed(o, T)]
  <2>1. PICK t \in SUBSET T : t = T
    OBVIOUS
  <2>2. IsFiniteSet(D) /\ IsFiniteSet(T) /\ o \in [T -> D] /\ IsInjective(o)
    BY <1>2, <1>4
  <2>3. SumOf(g, T)[t] = SumOf(f, D)[Renamed(o, t)]
    BY <1>a, <2>2, SumRenamed
  <2> QED
    BY <2>1, <2>3
<1>p. PICK shown \in [D -> Nat], mine \in [T -> Nat] :
            /\ shown = Shown(b, picked) /\ mine = Shown(b, c)
            /\ \A j \in T : mine[j] = shown[o[j]]
  <2>1. /\ Shown(b, picked) \in [D -> Nat]
        /\ \A x \in D : Shown(b, picked)[x] = picked[x] + b.question
    BY <1>2, ShownIs
  <2>2. Shown(b, c) \in [T -> Nat] /\ \A j \in T : Shown(b, c)[j] = c[j] + b.question
    BY <1>2, ShownIs
  <2>3. \A j \in T : o[j] \in D
    BY <1>4
  <2> QED
    BY <1>4, <2>1, <2>2, <2>3
<1>5. SumOf(mine, T)[T] = SumOf(shown, D)[Renamed(o, T)]
  BY <1>a, <1>p
<1>6. Tokens(b, c) = Estimate(b.overhead, SumOf(shown, D)[r]) /\ Tokens(b, c) \in Nat
  <2>1. Tokens(b, c) = Estimate(b.overhead, SumOf(mine, T)[T]) /\ Tokens(b, c) \in Nat
    BY <1>2, <1>p, TokensIs
  <2> QED
    BY <1>4, <1>5, <2>1
<1>7. r # {}
  BY <1>1, <1>2
<1>h. PICK h \in Nat : h = b.overhead
  OBVIOUS
<1>8. Estimate(h, SumOf(shown, D)[r]) <= SumOf(Alone(h, shown), D)[r]
  BY <1>2, <1>7, GroupsAreCheaper
<1> QED
  BY <1>6, <1>8, <1>h, <1>n, <1>p, <1>D, <1>c

\* Scored in groups, the candidates take no more tokens than one by one.
LEMMA ChunksAreCheaper ==
    ASSUME NEW b, b.overhead \in Nat, b.question \in Nat,
           NEW picked \in Seq(Nat), NEW size \in Nat \ {0}
    PROVE  /\ TokensOfAll(b, Chunks(picked, size)) <= TokensOfAll(b, Singles(picked))
           /\ TokensOfAll(b, Chunks(picked, size)) \in Nat
<1>n. PICK n \in Nat : n = Len(picked)
  OBVIOUS
<1>m. PICK m : m = Ceil(n, size)
  OBVIOUS
<1>D. PICK D : D = 1..n
  OBVIOUS
<1>c. PICK chunks : chunks = Chunks(picked, size)
  OBVIOUS
<1>1. m \in Nat /\ DOMAIN chunks = 1..m /\ Upto(n, size, m) = D
  BY <1>n, <1>m, <1>D, <1>c, ChunkIs
<1>M. PICK M : M = 1..m
  OBVIOUS
<1>t. PICK t : t = [i \in DOMAIN chunks |-> Tokens(b, chunks[i])]
  OBVIOUS
<1>g. PICK g : g = Alone(b.overhead, Shown(b, picked))
  OBVIOUS
<1>2. IsFiniteSet(D) /\ IsFiniteSet(M) /\ picked \in [D -> Nat]
  <2>1. IsFiniteSet(1..n) /\ IsFiniteSet(1..m)
    BY <1>1, FirstNumbers
  <2> QED
    BY <1>n, <1>D, <1>M, <2>1
<1>3. /\ TokensOfAll(b, Singles(picked)) = SumOf(g, D)[D]
      /\ \A i \in D : g[i] \in Nat
  BY <1>2, <1>g, SinglesTokens
<1>4. DOMAIN t = M /\ \A i \in M : t[i] = Tokens(b, chunks[i])
  BY <1>1, <1>M, <1>t
<1>5. ASSUME NEW i \in M
      PROVE  t[i] \in Nat /\ t[i] <= SumOf(g, D)[Block(n, size, i)]
  BY <1>4, <1>m, <1>M, <1>n, <1>D, <1>c, <1>g, ChunkTokens
<1>6. TokensOfAll(b, chunks) = SumOf(t, M)[M]
  BY <1>2, <1>4, <1>t, SumIs DEF TokensOfAll
<1>G. PICK G : G = SumOf(g, D)
  OBVIOUS
<1>K. PICK K : K = SumOf(t, M)
  OBVIOUS
<1>7. Adds(G, g, D) /\ Adds(K, t, M)
  <2>1. \A i \in M : t[i] \in Nat
    BY <1>5
  <2> QED
    BY <1>2, <1>3, <1>G, <1>K, <2>1, SumFacts
<1> DEFINE T == {i \in 0..m : ~ (K[1..i] <= G[Upto(n, size, i)])}
<1>8. T = {}
  <2>1. SUFFICES ASSUME T # {} PROVE FALSE
    OBVIOUS
  <2>2. PICK i \in T : \A j \in T : i <= j
    <3>1. T \in SUBSET Nat
      BY <1>1
    <3> HIDE DEF T
    <3> QED
      BY <2>1, <3>1, LeastNumber
  <2>3. i \in 0..m /\ ~ (K[1..i] <= G[Upto(n, size, i)])
    BY <2>2
  <2>4. i # 0
    <3>1. SUFFICES ASSUME i = 0 PROVE FALSE
      OBVIOUS
    <3>2. 1..i = {} /\ {} \in SUBSET M
      BY <3>1
    <3>3. K[1..i] = 0
      BY <1>7, <3>2 DEF Adds
    <3>4. G[Upto(n, size, i)] \in Nat
      BY <1>7, <1>D DEF Adds, Upto
    <3> QED
      BY <2>3, <3>3, <3>4
  <2>5. i \in M /\ i - 1 \in 0..m /\ i - 1 \notin T
    BY <1>1, <1>M, <2>2, <2>3, <2>4
  <2>6. K[1..(i - 1)] <= G[Upto(n, size, i - 1)]
    BY <2>5
  <2>7. K[1..i] = t[i] + K[1..(i - 1)] /\ K[1..(i - 1)] \in Nat
    <3>1. (1..i) \ {i} = 1..(i - 1) /\ 1..i \in SUBSET M /\ i \in 1..i /\ 1..(i - 1) \in SUBSET M
      BY <1>1, <1>M, <2>5
    <3>2. PICK s, r : s = 1..i /\ r = 1..(i - 1)
      OBVIOUS
    <3>3. s \in SUBSET M /\ i \in s /\ s \ {i} = r /\ r \in SUBSET M
      BY <3>1, <3>2
    <3>4. K[s] = t[i] + K[s \ {i}] /\ K[r] \in Nat
      BY <1>7, <3>3 DEF Adds
    <3> QED
      BY <3>2, <3>3, <3>4
  <2>8. PICK u, v : u = Upto(n, size, i - 1) /\ v = Block(n, size, i)
    OBVIOUS
  <2>9. /\ Upto(n, size, i) = u \cup v /\ u \cap v = {}
        /\ u \in SUBSET D /\ v \in SUBSET D
    <3>1. PICK before, after : before = (i - 1) * size /\ after = i * size
      OBVIOUS
    <3>2. before \in Nat /\ after \in Nat /\ before <= after
      BY <1>1, <1>M, <2>5, <3>1
    <3>3. /\ u = {j \in 1..n : j <= before}
          /\ v = {j \in 1..n : before < j /\ j <= after}
          /\ Upto(n, size, i) = {j \in 1..n : j <= after}
      BY <2>8, <3>1 DEF Upto, Block
    <3> QED
      BY <1>D, <3>2, <3>3
  <2>10. G[u \cup v] = G[u] + G[v]
    <3>1. u \in SUBSET D /\ v \in SUBSET D /\ u \cap v = {}
      BY <2>9
    <3>2. IsFiniteSet(D) /\ \A x \in D : g[x] \in Nat
      BY <1>2, <1>3
    <3>3. SumOf(g, D)[u \cup v] = SumOf(g, D)[u] + SumOf(g, D)[v]
      BY <3>1, <3>2, SumsSplit
    <3> QED
      BY <1>G, <3>3
  <2>11. t[i] \in Nat /\ t[i] <= G[v] /\ G[u] \in Nat /\ G[v] \in Nat
    BY <1>5, <1>7, <1>G, <2>5, <2>8, <2>9 DEF Adds
  <2>12. G[Upto(n, size, i)] = G[u] + G[v]
    BY <2>9, <2>10
  <2> QED
    BY <2>3, <2>6, <2>7, <2>8, <2>11, <2>12
<1>9. K[1..m] <= G[Upto(n, size, m)]
  <2>1. m \in 0..m
    BY <1>1
  <2> QED
    BY <1>8, <2>1
<1>10. K[M] \in Nat
  BY <1>7 DEF Adds
<1> QED
  BY <1>1, <1>3, <1>6, <1>9, <1>10, <1>c, <1>G, <1>K, <1>M

(***************************************************************************)
(* The longest candidates, and any shortlist.                               *)
(***************************************************************************)

LEMMA LongestIs ==
    ASSUME NEW a, NEW D, IsFiniteSet(D), a.sizes \in [D -> Nat],
           Shortlist(a) \in 0..Cardinality(D)
    PROVE  /\ Longest(a) \in SUBSET D /\ Cardinality(Longest(a)) = Shortlist(a)
           /\ Leads(a.sizes, Longest(a), D)
           /\ IsFiniteSet(Longest(a)) /\ WorstPool(a) \in [Longest(a) -> Nat]
           /\ \A i \in Longest(a) : WorstPool(a)[i] = a.sizes[i]
<1>1. PICK f : f = a.sizes
  OBVIOUS
<1>2. \E t \in kSubset(Shortlist(a), D) : Leads(f, t, D)
  BY <1>1, LeadersExist
<1>3. Longest(a) \in kSubset(Shortlist(a), D) /\ Leads(f, Longest(a), D)
  <2>1. Longest(a) = CHOOSE t \in kSubset(Shortlist(a), D) : Leads(f, t, D)
    BY <1>1 DEF Longest, Leads
  <2> QED
    BY <1>2, <2>1
<1>4. Longest(a) \in SUBSET D /\ Cardinality(Longest(a)) = Shortlist(a)
  BY <1>3 DEF kSubset
<1>5. IsFiniteSet(Longest(a))
  BY <1>4, FS_Subset
<1> QED
  BY <1>1, <1>3, <1>4, <1>5 DEF WorstPool, Restrict

\* Terms picked one by one sum up to no more than as many of the largest.
LEMMA PickedSum ==
    ASSUME NEW D, IsFiniteSet(D), NEW f, \A x \in D : f[x] \in Nat, NEW L \in SUBSET D,
           Leads(f, L, D), NEW T, IsFiniteSet(T), Cardinality(T) <= Cardinality(L),
           NEW o \in [T -> D], IsInjective(o), NEW g, \A y \in T : g[y] = f[o[y]]
    PROVE  SumOf(g, T)[T] <= SumOf(f, D)[L]
<1>1. PICK t \in SUBSET T : t = T
  OBVIOUS
<1>2. SumOf(g, T)[t] = SumOf(f, D)[Renamed(o, t)]
  BY SumRenamed
<1>3. PICK A : A = Renamed(o, T)
  OBVIOUS
<1>4. A \in SUBSET D /\ Cardinality(A) <= Cardinality(T) /\ Cardinality(A) \in Nat
  <2>1. A = {o[y] : y \in T}
    BY <1>3 DEF Renamed
  <2>2. o \in Surjection(T, A)
    BY <2>1 DEF Surjection
  <2>3. Cardinality(A) <= Cardinality(T) /\ IsFiniteSet(A)
    BY <2>2, FS_Surjection
  <2> QED
    BY <2>1, <2>3, FS_CardinalityType
<1>5. Cardinality(T) \in Nat /\ Cardinality(L) \in Nat
  BY FS_CardinalityType, FS_Subset
<1>6. Cardinality(A) <= Cardinality(L)
  BY <1>4, <1>5
<1>7. SumOf(f, D)[A] <= SumOf(f, D)[L]
  BY <1>4, <1>6, LeadersSum
<1> QED
  BY <1>1, <1>2, <1>3, <1>7

LEMMA ShortlistFits ==
    ASSUME NEW a \in Asks, a.topK # None
    PROVE  Shortlist(a) \in 1..Len(a.sizes) /\ Len(a.sizes) \in Nat /\ a.sizes \in Seq(Nat)
<1>1. a.sizes \in Seq(Nat) /\ a.sizes # <<>> /\ a.topK \in Nat \ {0}
  BY AsksAreAsks DEF Limit
<1>2. PICK n : n = Len(a.sizes)
  OBVIOUS
<1>3. n \in Nat /\ 1 <= n
  BY <1>1, <1>2, EmptySeq
<1>4. /\ Wanted(a) \in Nat /\ Bm25Limit(a) \in Nat /\ EmbeddingLimit(a) \in Nat
      /\ Wanted(a) <= EmbeddingLimit(a) /\ EmbeddingLimit(a) <= Bm25Limit(a)
      /\ Bm25Limit(a) <= n
  <2>1. a.topK \in Nat
    BY <1>1
  <2> QED
    BY <1>1, <1>2, <2>1, CutsNarrow
<1>5. 1 <= Wanted(a)
  <2>1. PICK t, w : t = a.topK /\ w = Min({t, n})
    OBVIOUS
  <2>2. w = IF t <= n THEN t ELSE n
    BY <1>1, <1>3, <2>1 DEF Min
  <2>3. Wanted(a) = w
    BY <1>2, <2>1 DEF Wanted
  <2> QED
    BY <1>1, <1>3, <2>1, <2>2, <2>3
<1>6. Shortlist(a) \in {Bm25Limit(a), EmbeddingLimit(a)}
  BY DEF Shortlist
<1>7. PICK w, x, y : w = Wanted(a) /\ x = Bm25Limit(a) /\ y = EmbeddingLimit(a)
  OBVIOUS
<1>8. x \in 1..n /\ y \in 1..n
  BY <1>3, <1>4, <1>5, <1>7
<1> QED
  BY <1>1, <1>2, <1>3, <1>6, <1>7, <1>8

LEMMA ContextIs ==
    ASSUME NEW b, b.overhead \in Nat, b.question \in Nat,
           NEW D, IsFiniteSet(D), NEW picked \in [D -> Nat]
    PROVE  /\ Context(b, picked) = IF b.perQuestion
                                  THEN Estimate(b.overhead + b.question, SumOf(picked, D)[D])
                                  ELSE Tokens(b, picked)
           /\ Context(b, picked) \in Nat /\ SumOf(picked, D)[D] \in Nat
<1>1. Sum(picked) = SumOf(picked, D)[D]
  BY SumIs
<1>2. PICK x \in Nat : x = SumOf(picked, D)[D]
  BY SumFacts DEF Adds
<1>3. PICK h \in Nat : h = b.overhead + b.question
  OBVIOUS
<1>4. Estimate(h, x) \in Nat
  BY EstimateIs
<1>5. Tokens(b, picked) \in Nat
  BY TokensIs
<1> QED
  BY <1>1, <1>2, <1>3, <1>4, <1>5 DEF Context, Estimate

LEMMA ContextOfOne ==
    ASSUME NEW b, b.overhead \in Nat, b.question \in Nat, NEW x \in Nat
    PROVE  /\ Context(b, <<x>>) = Estimate(b.overhead + b.question, x)
           /\ Estimate(b.overhead + b.question, x) \in Nat
<1>1. PICK f : f = <<x>>
  OBVIOUS
<1>2. f \in [1..1 -> Nat] /\ f[1] = x
  BY <1>1
<1>3. Sum(f) = x
  BY <1>2, SumOfOne
<1>4. PICK g, q : g = b.overhead /\ q = b.question /\ g \in Nat /\ q \in Nat
  OBVIOUS
<1>5. Tokens(b, <<x>>) = Estimate(g, x + q)
  BY <1>4, TokensOfOne
<1>6. g + (x + q) = (g + q) + x /\ g + q \in Nat
  BY <1>4
<1>7. Estimate(g, x + q) = Estimate(g + q, x)
  BY <1>6 DEF Estimate
<1>8. Estimate(g + q, x) \in Nat
  BY <1>6, EstimateIs
<1>9. Context(b, f) = Estimate(g + q, x)
  BY <1>1, <1>3, <1>4, <1>5, <1>7 DEF Context, Estimate
<1> QED
  BY <1>1, <1>4, <1>8, <1>9

\* Each candidate of the one is no longer than some of the other.
Within(picked, worst) == \A i \in DOMAIN picked : \E j \in DOMAIN worst : picked[i] <= worst[j]

\* What the backend estimates of the longest is enough for any shortlist.
LEMMA LongestIsWorst ==
    ASSUME NEW a, NEW n \in Nat, a.sizes \in [1..n -> Nat], Shortlist(a) \in 1..n,
           NEW o \in [1..Shortlist(a) -> 1..n], IsInjective(o),
           NEW b, b.overhead \in Nat, b.question \in Nat,
           NEW picked, picked = [i \in 1..Shortlist(a) |-> a.sizes[o[i]]]
    PROVE  /\ Tokens(b, picked) <= Tokens(b, WorstPool(a))
           /\ TokensOfAll(b, Singles(picked)) <= TokensOfAll(b, Singles(WorstPool(a)))
           /\ Context(b, picked) <= Context(b, WorstPool(a)) /\ Context(b, picked) \in Nat
           /\ Within(picked, WorstPool(a))
<1>D. PICK D : D = 1..n
  OBVIOUS
<1>T. PICK T : T = 1..Shortlist(a)
  OBVIOUS
<1>f. PICK f : f = a.sizes
  OBVIOUS
<1>h. PICK h, q : h = b.overhead /\ q = b.question /\ h \in Nat /\ q \in Nat
  OBVIOUS
<1>1. /\ IsFiniteSet(D) /\ Cardinality(D) = n
      /\ IsFiniteSet(T) /\ Cardinality(T) = Shortlist(a)
  <2>1. PICK k \in Nat : k = Shortlist(a)
    OBVIOUS
  <2>2. IsFiniteSet(1..n) /\ Cardinality(1..n) = n
    BY FirstNumbers
  <2>3. IsFiniteSet(1..k) /\ Cardinality(1..k) = k
    BY FirstNumbers
  <2> QED
    BY <1>D, <1>T, <2>1, <2>2, <2>3
<1>L. PICK L, W : L = Longest(a) /\ W = WorstPool(a)
  OBVIOUS
<1>2. /\ L \in SUBSET D /\ Cardinality(L) = Shortlist(a) /\ Leads(f, L, D)
      /\ IsFiniteSet(L) /\ W \in [L -> Nat] /\ \A i \in L : W[i] = f[i]
  <2>1. Shortlist(a) \in 0..Cardinality(D)
    BY <1>1
  <2>2. a.sizes \in [D -> Nat]
    BY <1>D
  <2> QED
    BY <1>1, <1>f, <1>L, <2>1, <2>2, LongestIs
<1>3. PICK p : /\ p = picked /\ p \in [T -> Nat] /\ \A i \in T : p[i] = f[o[i]]
               /\ o \in [T -> D] /\ f \in [D -> Nat]
  <2>1. o \in [T -> D] /\ f \in [D -> Nat]
    BY <1>D, <1>T, <1>f
  <2>2. PICK p : p = picked
    OBVIOUS
  <2>3. p = [i \in T |-> f[o[i]]]
    BY <1>T, <1>f, <2>2
  <2>4. \A i \in T : f[o[i]] \in Nat
    BY <2>1
  <2> QED
    BY <2>1, <2>2, <2>3, <2>4
<1>p. IsFiniteSet(T) /\ p \in [T -> Nat]
  BY <1>1, <1>3
<1>w. IsFiniteSet(L) /\ W \in [L -> Nat]
  BY <1>2
<1>4. Cardinality(T) <= Cardinality(L)
  BY <1>1, <1>2
\* Any measure that grows with the length sums up to no more than that of the longest.
<1>5. ASSUME NEW g, \A x \in D : g[x] \in Nat,
             \A x, y \in D : f[y] <= f[x] => g[y] <= g[x],
             NEW u, \A x \in T : u[x] = g[o[x]], NEW v, \A x \in L : v[x] = g[x]
      PROVE  SumOf(u, T)[T] <= SumOf(v, L)[L]
  <2>1. Leads(g, L, D)
    BY <1>2, <1>5 DEF Leads
  <2>2. SumOf(u, T)[T] <= SumOf(g, D)[L]
    BY <1>1, <1>2, <1>3, <1>4, <1>5, <2>1, PickedSum
  <2>3. SumOf(v, L)[L] = SumOf(g, D)[L]
    <3>1. L \in SUBSET (L \cap D)
      BY <1>2
    <3> QED
      BY <1>1, <1>2, <1>5, <3>1, SumsAgree
  <2> QED
    BY <2>2, <2>3
<1>6. PICK F, P, V : /\ F = Shown(b, f) /\ F \in [D -> Nat] /\ \A x \in D : F[x] = f[x] + q
                     /\ P = Shown(b, p) /\ P \in [T -> Nat] /\ \A x \in T : P[x] = p[x] + q
                     /\ V = Shown(b, W) /\ V \in [L -> Nat] /\ \A x \in L : V[x] = W[x] + q
  <2>1. Shown(b, f) \in [D -> Nat] /\ \A x \in D : Shown(b, f)[x] = f[x] + q
    BY <1>3, <1>h, ShownIs
  <2>2. Shown(b, p) \in [T -> Nat] /\ \A x \in T : Shown(b, p)[x] = p[x] + q
    BY <1>h, <1>p, ShownIs
  <2>3. Shown(b, W) \in [L -> Nat] /\ \A x \in L : Shown(b, W)[x] = W[x] + q
    BY <1>2, <1>h, ShownIs
  <2> QED
    BY <2>1, <2>2, <2>3
<1>7. /\ \A x \in D : F[x] \in Nat
      /\ \A x, y \in D : f[y] <= f[x] => F[y] <= F[x]
      /\ \A x \in T : P[x] = F[o[x]]
      /\ \A x \in L : V[x] = F[x]
  <2>1. \A x \in D : f[x] \in Nat
    BY <1>3
  <2>2. \A x, y \in D : f[y] <= f[x] => F[y] <= F[x]
    BY <1>6, <1>h, <2>1
  <2>3. ASSUME NEW x \in T PROVE P[x] = F[o[x]]
    <3>1. o[x] \in D /\ p[x] = f[o[x]]
      BY <1>3
    <3>2. P[x] = p[x] + q /\ F[o[x]] = f[o[x]] + q
      BY <1>6, <3>1
    <3> QED
      BY <3>1, <3>2
  <2>4. ASSUME NEW x \in L PROVE V[x] = F[x]
    <3>1. x \in D /\ W[x] = f[x]
      BY <1>2
    <3>2. V[x] = W[x] + q /\ F[x] = f[x] + q
      BY <1>6, <3>1
    <3> QED
      BY <3>1, <3>2
  <2> QED
    BY <1>6, <2>2, <2>3, <2>4
<1>8. Tokens(b, p) <= Tokens(b, W)
  <2>1. SumOf(P, T)[T] <= SumOf(V, L)[L]
    BY <1>5, <1>7
  <2>2. PICK u, v : u = SumOf(P, T)[T] /\ v = SumOf(V, L)[L]
    OBVIOUS
  <2>3. Tokens(b, p) = Estimate(h, u) /\ u \in Nat
    BY <1>6, <1>h, <1>p, <2>2, TokensIs
  <2>4. Tokens(b, W) = Estimate(h, v) /\ v \in Nat
    BY <1>6, <1>h, <1>w, <2>2, TokensIs
  <2> QED
    BY <1>h, <2>1, <2>2, <2>3, <2>4, EstimatesGrow
<1>9. TokensOfAll(b, Singles(p)) <= TokensOfAll(b, Singles(W))
  <2>1. PICK g, u, v : g = Alone(h, F) /\ u = Alone(h, P) /\ v = Alone(h, V)
    OBVIOUS
  <2>2. TokensOfAll(b, Singles(p)) = SumOf(u, T)[T]
    BY <1>6, <1>h, <1>p, <2>1, SinglesTokens
  <2>3. TokensOfAll(b, Singles(W)) = SumOf(v, L)[L]
    BY <1>6, <1>h, <1>w, <2>1, SinglesTokens
  <2>4. /\ \A x \in D : g[x] = Estimate(h, F[x])
        /\ \A x \in T : u[x] = Estimate(h, P[x])
        /\ \A x \in L : v[x] = Estimate(h, V[x])
    BY <1>6, <2>1 DEF Alone
  <2>5. ASSUME NEW x \in D PROVE g[x] \in Nat
    <3>1. PICK y \in Nat : y = F[x]
      BY <1>7
    <3>2. Estimate(h, y) \in Nat
      <4>1. h \in Nat
        BY <1>h
      <4> QED
        BY <4>1, EstimateIs
    <3>3. g[x] = Estimate(h, y)
      BY <2>4, <3>1
    <3> QED
      BY <3>2, <3>3
  <2>6. ASSUME NEW x \in D, NEW y \in D, f[y] <= f[x] PROVE g[y] <= g[x]
    <3>1. PICK k \in Nat, l \in Nat : k = F[y] /\ l = F[x] /\ k <= l
      BY <1>7, <2>6
    <3>2. Estimate(h, k) <= Estimate(h, l)
      BY <1>h, <3>1, EstimatesGrow
    <3> QED
      BY <2>4, <3>1, <3>2
  <2>7. (\A x \in T : u[x] = g[o[x]]) /\ \A x \in L : v[x] = g[x]
    <3>1. ASSUME NEW x \in T PROVE u[x] = g[o[x]]
      <4>1. o[x] \in D /\ P[x] = F[o[x]]
        BY <1>3, <1>7
      <4>2. u[x] = Estimate(h, P[x]) /\ g[o[x]] = Estimate(h, F[o[x]])
        BY <2>4, <4>1
      <4> QED
        BY <4>1, <4>2, Zenon
    <3>2. ASSUME NEW x \in L PROVE v[x] = g[x]
      <4>1. x \in D /\ V[x] = F[x]
        BY <1>2, <1>7
      <4>2. v[x] = Estimate(h, V[x]) /\ g[x] = Estimate(h, F[x])
        BY <2>4, <4>1
      <4> QED
        BY <4>1, <4>2, Zenon
    <3> QED
      BY <3>1, <3>2
  <2>8. SumOf(u, T)[T] <= SumOf(v, L)[L]
    BY <1>5, <2>5, <2>6, <2>7
  <2> QED
    BY <2>2, <2>3, <2>8
<1>10. Context(b, p) <= Context(b, W) /\ Context(b, p) \in Nat
  <2>1. SumOf(p, T)[T] <= SumOf(W, L)[L]
    <3>1. (\A x \in D : f[x] \in Nat) /\ \A x, y \in D : f[y] <= f[x] => f[y] <= f[x]
      BY <1>3
    <3>2. (\A x \in T : p[x] = f[o[x]]) /\ \A x \in L : W[x] = f[x]
      BY <1>2, <1>3
    <3> QED
      BY <1>5, <3>1, <3>2
  <2>2. PICK k, u, v : /\ k = b.overhead + b.question
                       /\ u = SumOf(p, T)[T] /\ v = SumOf(W, L)[L]
    OBVIOUS
  <2>3. /\ Context(b, p) = IF b.perQuestion THEN Estimate(k, u) ELSE Tokens(b, p)
        /\ Context(b, p) \in Nat /\ u \in Nat
    BY <1>p, <2>2, ContextIs
  <2>4. /\ Context(b, W) = IF b.perQuestion THEN Estimate(k, v) ELSE Tokens(b, W)
        /\ Context(b, W) \in Nat /\ v \in Nat
    BY <1>w, <2>2, ContextIs
  <2>5. k \in Nat
    BY <1>h, <2>2
  <2>6. Estimate(k, u) <= Estimate(k, v)
    BY <2>1, <2>2, <2>3, <2>4, <2>5, EstimatesGrow
  <2> QED
    BY <1>8, <2>3, <2>4, <2>6
<1>11. ASSUME NEW i \in DOMAIN p PROVE \E j \in DOMAIN W : p[i] <= W[j]
  <2>1. i \in T /\ DOMAIN W = L /\ p[i] = f[o[i]] /\ o[i] \in D /\ f[o[i]] \in Nat
    BY <1>2, <1>3
  <2>2. CASE o[i] \in L
    BY <1>2, <2>1, <2>2
  <2>3. CASE o[i] \notin L
    <3>1. L # {}
      BY <1>2, FS_EmptySet
    <3>2. PICK j \in L : TRUE
      BY <3>1
    <3>3. f[o[i]] <= f[j]
      BY <1>2, <2>1, <2>3, <3>2 DEF Leads
    <3> QED
      BY <1>2, <2>1, <3>2, <3>3
  <2> QED
    BY <2>2, <2>3
<1> QED
  BY <1>3, <1>8, <1>9, <1>10, <1>11, <1>L DEF Within

(***************************************************************************)
(* From what the plan checked to what the stage asks.                       *)
(***************************************************************************)

LEMMA StricterIs ==
    ASSUME NEW x \in Limit, NEW y \in Limit
    PROVE  Stricter(x, y) \in Limit
<1>1. CASE x = None \/ y = None
  BY <1>1 DEF Stricter
<1>2. CASE x # None /\ y # None
  <2>1. x \in Nat /\ y \in Nat
    BY <1>2 DEF Limit
  <2>2. PICK m : m = Min({x, y})
    OBVIOUS
  <2>3. m = IF x <= y THEN x ELSE y
    BY <2>1, <2>2 DEF Min
  <2>4. m \in Nat
    BY <2>1, <2>3
  <2> QED
    BY <1>2, <2>2, <2>4 DEF Stricter, Limit
<1> QED
  BY <1>1, <1>2

LEMMA BudgetIs ==
    ASSUME NEW a \in Asks
    PROVE  EffectiveBudget(a).calls \in Limit /\ EffectiveBudget(a).tokens \in Limit
<1>1. a.configured \in Budget /\ a.requested \in Budget
  BY AsksAreAsks
<1>2. /\ a.configured.calls \in Limit /\ a.requested.calls \in Limit
      /\ a.configured.tokens \in Limit /\ a.requested.tokens \in Limit
  BY <1>1 DEF Budget
<1> QED
  BY <1>2, StricterIs DEF EffectiveBudget

LEMMA BatchIs ==
    ASSUME NEW b \in Backend
    PROVE  /\ Batch(b) \in Nat \ {0} /\ PointwiseBatch(b) \in Nat \ {0}
           /\ b.maxBatch \notin {None, 0} => Batch(b) <= b.maxBatch /\ b.maxBatch \in Nat
<1>1. ConfigBatch \in Nat \ {0} /\ b.maxBatch \in Nat \cup {None}
  BY PlanSizes DEF Backend
<1>2. CASE b.maxBatch \in {None, 0}
  <2>1. Batch(b) = ConfigBatch
    BY <1>2 DEF Batch
  <2> QED
    BY <1>1, <1>2, <2>1 DEF PointwiseBatch
<1>3. CASE b.maxBatch \notin {None, 0}
  <2>1. b.maxBatch \in Nat \ {0}
    BY <1>1, <1>3
  <2>2. PICK x, m : x = b.maxBatch /\ m = Min({ConfigBatch, x})
    OBVIOUS
  <2>3. m = IF ConfigBatch <= x THEN ConfigBatch ELSE x
    BY <1>1, <2>1, <2>2 DEF Min
  <2>4. Batch(b) = m
    BY <1>3, <2>1, <2>2 DEF Batch
  <2> QED
    BY <1>1, <2>1, <2>2, <2>3, <2>4 DEF PointwiseBatch
<1> QED
  BY <1>2, <1>3

\* A limit that holds holds for less.
LEMMA AtMostLess ==
    ASSUME NEW x \in Nat, NEW y \in Nat, x <= y, NEW limit \in Limit, AtMost(y, limit)
    PROVE  AtMost(x, limit)
<1>1. CASE limit = None
  BY <1>1 DEF AtMost
<1>2. CASE limit # None
  <2>1. limit \in Nat /\ y <= limit
    BY <1>2 DEF AtMost, Limit
  <2> QED
    BY <2>1 DEF AtMost
<1> QED
  BY <1>1, <1>2

LEMMA AttemptsFit ==
    ASSUME NEW x \in Nat, NEW y \in Nat, x <= y, NEW b \in Backend, NEW limit \in Limit,
           AtMost(y * b.attempts, limit)
    PROVE  AtMost(x * b.attempts, limit)
<1>1. PICK k \in Nat : k = b.attempts
  BY DEF Backend
<1>2. x * k <= y * k /\ x * k \in Nat /\ y * k \in Nat
  BY <1>1, TimesMore
<1>3. AtMost(x * k, limit)
  BY <1>1, <1>2, AtMostLess
<1> QED
  BY <1>1, <1>3

LEMMA CallsFit ==
    ASSUME NEW m \in Nat, NEW b \in Backend, NEW limit \in Limit,
           AtMost(m, AvailableCalls(b, limit))
    PROVE  AtMost(m * b.attempts, limit)
<1>1. PICK k \in Nat \ {0} : k = b.attempts
  BY DEF Backend
<1>2. CASE limit = None
  BY <1>2 DEF AtMost
<1>3. CASE limit # None
  <2>1. limit \in Nat /\ AvailableCalls(b, limit) = limit \div k
    BY <1>1, <1>3 DEF AvailableCalls, Limit
  <2>2. limit \div k # None
    <3>1. limit \div k \in Nat
      BY <2>1, DivIs
    <3> QED
      BY <3>1, NoneNotANumber
  <2>3. m <= limit \div k
    BY <2>1, <2>2 DEF AtMost
  <2>4. m * k <= limit
    BY <2>1, <2>3, CallsSuffice
  <2> QED
    BY <1>1, <2>4 DEF AtMost
<1> QED
  BY <1>2, <1>3

\* What the stage reserves is what the plan counted, where the plan knew it.
LEMMA ReservedIs ==
    ASSUME NEW b, ~ b.auto, b.tokenBound = None, NEW requests
    PROVE  ReservedForAll(b, requests) = TokensOfAll(b, requests)
<1>1. \A r : Reserved(b, r) = Tokens(b, r)
  BY DEF Reserved, Pinned
<1> QED
  BY <1>1 DEF ReservedForAll, TokensOfAll

LEMMA FitsIs ==
    ASSUME NEW b, b.perQuestion \/ ~ b.auto, NEW r, AtMost(Context(b, r), b.maxContext)
    PROVE  Fits(b, r)
<1>1. CASE b.perQuestion
  BY <1>1 DEF Fits
<1>2. CASE ~ b.perQuestion
  <2>1. Pinned(b) = b
    BY <1>2 DEF Pinned
  <2> QED
    BY <1>2, <2>1 DEF Fits
<1> QED
  BY <1>1, <1>2

\* What Admitted says without the numbers of the plan.
Passes(a, b, mode, requests) ==
    LET budget == EffectiveBudget(a)
    IN  /\ Supports(b, mode)
        /\ NoNetwork(a) => b.location = "local"
        /\ ~UnverifiableCost(b, budget)
        /\ AtMost(Len(requests) * b.attempts, budget.calls)
        /\ ~b.auto /\ b.tokenBound = None =>
              AtMost(ReservedForAll(b, requests) * b.attempts, budget.tokens)
        /\ mode = "listwise" /\ b.maxBatch # 0 => AtMost(Len(requests[1]), b.maxBatch)
        /\ b.perQuestion \/ ~b.auto =>
              \A i \in DOMAIN requests :
                 mode = "listwise" \/ Len(requests[i]) = 1 => Fits(b, requests[i])

LEMMA PassesIs ==
    ASSUME NEW a, NEW b, NEW p, NEW requests, Passes(a, b, p.mode, requests),
           Len(requests) = p.calls, TokensOfAll(b, requests) <= p.tokens,
           p.batch # None => \A i \in DOMAIN requests : Len(requests[i]) <= p.batch
    PROVE  Admitted(a, b, p, requests)
BY DEF Passes, Admitted

\* What holds of a group of the stage, once the plan's checks of the worst case hold.
LEMMA ListIsAdmitted ==
    ASSUME NEW a \in Asks, NEW b \in Backend, b # None, Local(a, b),
           ~ UnverifiableCost(b, EffectiveBudget(a)), b.listwise,
           NEW picked \in Seq(Nat), picked # <<>>, Len(picked) <= Batch(b),
           NEW S, IsFiniteSet(S), NEW worst \in [S -> Nat],
           Tokens(b, picked) <= Tokens(b, worst),
           Context(b, picked) <= Context(b, worst),
           AtMost(Context(b, worst), b.maxContext),
           AtMost(1, AvailableCalls(b, EffectiveBudget(a).calls)),
           AtMost(Tokens(b, worst) * b.attempts, EffectiveBudget(a).tokens)
    PROVE  /\ Passes(a, b, "listwise", <<picked>>)
           /\ Len(<<picked>>) = 1
           /\ TokensOfAll(b, <<picked>>) <= Tokens(b, worst)
<1>0. /\ b.overhead \in Nat /\ b.question \in Nat
      /\ b.maxContext \in Limit /\ b.maxBatch \in Limit
  BY DEF Backend, Limit
<1>D. PICK D : D = 1..Len(picked)
  OBVIOUS
<1>1. IsFiniteSet(D) /\ picked \in [D -> Nat] /\ Len(picked) \in Nat
  <2>1. IsFiniteSet(1..Len(picked))
    BY FirstNumbers
  <2> QED
    BY <1>D, <2>1
<1>2. TokensOfAll(b, <<picked>>) = Tokens(b, picked) /\ Tokens(b, picked) \in Nat
  BY <1>0, <1>1, TokensOfOneRequest
<1>3. Tokens(b, worst) \in Nat
  BY <1>0, TokensIs
<1>4. AtMost(Context(b, picked), b.maxContext)
  <2>1. Context(b, picked) \in Nat
    BY <1>0, <1>1, ContextIs
  <2>2. Context(b, worst) \in Nat
    BY <1>0, ContextIs
  <2> QED
    BY <1>0, <2>1, <2>2, AtMostLess
<1>5. b.maxBatch # 0 => AtMost(Len(picked), b.maxBatch)
  <2>1. CASE b.maxBatch = None
    BY <2>1 DEF AtMost
  <2>2. CASE b.maxBatch # None /\ b.maxBatch # 0
    <3>1. Batch(b) <= b.maxBatch /\ b.maxBatch \in Nat /\ Batch(b) \in Nat
      BY <2>2, BatchIs
    <3> QED
      BY <1>1, <3>1 DEF AtMost
  <2> QED
    BY <2>1, <2>2
<1>6. EffectiveBudget(a).calls \in Limit /\ EffectiveBudget(a).tokens \in Limit
  BY BudgetIs
<1>7. AtMost(1 * b.attempts, EffectiveBudget(a).calls)
  BY <1>6, CallsFit
<1>8. AtMost(Tokens(b, picked) * b.attempts, EffectiveBudget(a).tokens)
  BY <1>2, <1>3, <1>6, AttemptsFit
<1>9. Supports(b, "listwise") /\ (NoNetwork(a) => b.location = "local")
  BY DEF Supports, Local
<1>10. PICK requests : requests = <<picked>>
  OBVIOUS
<1>11. Len(requests) = 1 /\ requests[1] = picked /\ DOMAIN requests = {1}
  BY <1>10
<1>12. ~ b.auto /\ b.tokenBound = None =>
          AtMost(ReservedForAll(b, requests) * b.attempts, EffectiveBudget(a).tokens)
  <2> SUFFICES ASSUME ~ b.auto, b.tokenBound = None
               PROVE  AtMost(ReservedForAll(b, requests) * b.attempts, EffectiveBudget(a).tokens)
    OBVIOUS
  <2>1. ReservedForAll(b, requests) = Tokens(b, picked)
    BY <1>2, <1>10, ReservedIs
  <2> QED
    BY <1>8, <2>1
<1>13. b.perQuestion \/ ~ b.auto => \A i \in DOMAIN requests : Fits(b, requests[i])
  BY <1>4, <1>11, FitsIs
<1>14. Passes(a, b, "listwise", requests)
  BY <1>5, <1>7, <1>9, <1>11, <1>12, <1>13 DEF Passes
<1> QED
  BY <1>2, <1>10, <1>11, <1>14

LEMMA OneFits ==
    ASSUME NEW b, b.overhead \in Nat, b.question \in Nat, b.maxContext \in Limit,
           NEW c \in Seq(Nat), Len(c) = 1, NEW y \in Nat, c[1] <= y,
           AtMost(Context(b, <<y>>), b.maxContext)
    PROVE  AtMost(Context(b, c), b.maxContext)
<1>1. PICK x \in Nat : x = c[1]
  OBVIOUS
<1>2. c = <<x>>
  BY <1>1
<1>3. PICK h \in Nat : h = b.overhead + b.question
  OBVIOUS
<1>4. Context(b, <<x>>) = Estimate(h, x) /\ Estimate(h, x) \in Nat
  BY <1>3, ContextOfOne
<1>5. Context(b, <<y>>) = Estimate(h, y) /\ Estimate(h, y) \in Nat
  BY <1>3, ContextOfOne
<1>6. Estimate(h, x) <= Estimate(h, y)
  BY <1>1, EstimatesGrow
<1> QED
  BY <1>2, <1>4, <1>5, <1>6, AtMostLess

LEMMA GroupsAreAdmitted ==
    ASSUME NEW a \in Asks, NEW b \in Backend, b # None, Local(a, b),
           ~ UnverifiableCost(b, EffectiveBudget(a)), b.pointwise,
           NEW picked \in Seq(Nat), picked # <<>>,
           NEW S, IsFiniteSet(S), NEW worst \in [S -> Nat],
           Within(picked, worst),
           TokensOfAll(b, Singles(picked)) <= TokensOfAll(b, Singles(worst)),
           \A i \in S : AtMost(Context(b, <<worst[i]>>), b.maxContext),
           AtMost(Ceil(Len(picked), PointwiseBatch(b)),
                  AvailableCalls(b, EffectiveBudget(a).calls)),
           AtMost(TokensOfAll(b, Singles(worst)) * b.attempts, EffectiveBudget(a).tokens)
    PROVE  LET chunks == Chunks(picked, PointwiseBatch(b))
           IN  /\ Passes(a, b, "pointwise", chunks)
               /\ Len(chunks) = Ceil(Len(picked), PointwiseBatch(b))
               /\ TokensOfAll(b, chunks) <= TokensOfAll(b, Singles(worst))
<1>0. b.overhead \in Nat /\ b.question \in Nat /\ b.maxContext \in Limit
  BY DEF Backend, Limit
<1>z. PICK size \in Nat \ {0} : size = PointwiseBatch(b)
  BY <1>0, BatchIs
<1>g. PICK chunks : chunks = Chunks(picked, size)
  OBVIOUS
<1>m. PICK m : m = Ceil(Len(picked), size)
  OBVIOUS
<1>1. /\ m \in Nat /\ DOMAIN chunks = 1..m /\ Len(chunks) = m
      /\ \A i \in 1..m :
            /\ chunks[i] \in Seq(Nat) /\ 1 <= Len(chunks[i]) /\ Len(chunks[i]) <= size
            /\ \A j \in 1..Len(chunks[i]) :
                  /\ (i - 1) * size + j \in Block(Len(picked), size, i)
                  /\ chunks[i][j] = picked[(i - 1) * size + j]
  <2>1. /\ Ceil(Len(picked), size) \in Nat
        /\ DOMAIN Chunks(picked, size) = 1..Ceil(Len(picked), size)
        /\ Len(Chunks(picked, size)) = Ceil(Len(picked), size)
        /\ \A i \in 1..Ceil(Len(picked), size) :
              /\ Chunks(picked, size)[i] \in Seq(Nat)
              /\ 1 <= Len(Chunks(picked, size)[i]) /\ Len(Chunks(picked, size)[i]) <= size
              /\ \A j \in 1..Len(Chunks(picked, size)[i]) :
                    /\ (i - 1) * size + j \in Block(Len(picked), size, i)
                    /\ Chunks(picked, size)[i][j] = picked[(i - 1) * size + j]
    BY ChunkIs
  <2> QED
    BY <1>g, <1>m, <2>1, Zenon
<1>2. TokensOfAll(b, chunks) <= TokensOfAll(b, Singles(picked)) /\ TokensOfAll(b, chunks) \in Nat
  BY <1>0, <1>g, ChunksAreCheaper
<1>3. TokensOfAll(b, Singles(worst)) \in Nat /\ TokensOfAll(b, Singles(picked)) \in Nat
  <2>1. TokensOfAll(b, Singles(worst)) \in Nat
    BY <1>0, SinglesTokens
  <2>2. PICK D : D = 1..Len(picked)
    OBVIOUS
  <2>3. IsFiniteSet(D) /\ picked \in [D -> Nat]
    <3>1. Len(picked) \in Nat
      OBVIOUS
    <3>2. IsFiniteSet(1..Len(picked))
      BY <3>1, FirstNumbers
    <3> QED
      BY <2>2, <3>2
  <2>4. TokensOfAll(b, Singles(picked)) \in Nat
    BY <1>0, <2>3, SinglesTokens
  <2> QED
    BY <2>1, <2>4
<1>4. TokensOfAll(b, chunks) <= TokensOfAll(b, Singles(worst))
  BY <1>2, <1>3
<1>5. EffectiveBudget(a).calls \in Limit /\ EffectiveBudget(a).tokens \in Limit
  BY BudgetIs
<1>6. AtMost(Len(chunks) * b.attempts, EffectiveBudget(a).calls)
  BY <1>1, <1>5, <1>m, <1>z, CallsFit
<1>7. ~ b.auto /\ b.tokenBound = None =>
         AtMost(ReservedForAll(b, chunks) * b.attempts, EffectiveBudget(a).tokens)
  <2> SUFFICES ASSUME ~ b.auto, b.tokenBound = None
               PROVE  AtMost(ReservedForAll(b, chunks) * b.attempts, EffectiveBudget(a).tokens)
    OBVIOUS
  <2>1. AtMost(TokensOfAll(b, chunks) * b.attempts, EffectiveBudget(a).tokens)
    BY <1>2, <1>3, <1>4, <1>5, AttemptsFit
  <2>2. ReservedForAll(b, chunks) = TokensOfAll(b, chunks)
    BY ReservedIs
  <2> QED
    BY <2>1, <2>2
\* A group of one is no longer than a candidate of the worst case.
<1>8. ASSUME NEW i \in 1..m, Len(chunks[i]) = 1, b.perQuestion \/ ~ b.auto
      PROVE  Fits(b, chunks[i])
  <2>1. PICK c : c = chunks[i]
    OBVIOUS
  <2>2. c \in Seq(Nat) /\ Len(c) = 1
    BY <1>1, <1>8, <2>1
  <2>3. PICK k \in S : c[1] <= worst[k]
    <3>1. PICK l : l = (i - 1) * size + 1
      OBVIOUS
    <3>2. l \in Block(Len(picked), size, i) /\ c[1] = picked[l]
      <4>1. 1 \in 1..Len(chunks[i])
        BY <1>8
      <4> QED
        BY <1>1, <2>1, <3>1, <4>1
    <3>3. l \in DOMAIN picked
      BY <3>2 DEF Block
    <3>4. PICK k \in DOMAIN worst : picked[l] <= worst[k]
      BY <3>3 DEF Within
    <3> QED
      BY <3>2, <3>4
  <2>4. AtMost(Context(b, <<worst[k]>>), b.maxContext) /\ worst[k] \in Nat
    OBVIOUS
  <2>5. AtMost(Context(b, c), b.maxContext)
    BY <1>0, <2>2, <2>3, <2>4, OneFits
  <2> QED
    BY <1>8, <2>1, <2>5, FitsIs
<1>9. Supports(b, "pointwise") /\ (NoNetwork(a) => b.location = "local")
  BY DEF Supports, Local
<1>10. Passes(a, b, "pointwise", chunks)
  <2>1. "pointwise" # "listwise"
    OBVIOUS
  <2> QED
    BY <1>1, <1>6, <1>7, <1>8, <1>9, <2>1 DEF Passes
<1> QED
  BY <1>1, <1>4, <1>10, <1>g, <1>m, <1>z

LEMMA SizesAre ==
    ASSUME NEW a \in Asks
    PROVE  /\ a.sizes \in Seq(Nat) /\ a.sizes # <<>> /\ Len(a.sizes) \in Nat
           /\ IsFiniteSet(1..Len(a.sizes)) /\ 1..Len(a.sizes) # {}
           /\ a.sizes \in [1..Len(a.sizes) -> Nat] /\ Within(a.sizes, a.sizes)
<1>1. PICK s : s = a.sizes
  OBVIOUS
<1>2. s \in Seq(Nat) /\ s # <<>>
  BY <1>1, AsksAreAsks
<1>3. Len(s) \in Nat /\ 1 <= Len(s)
  BY <1>2, EmptySeq
<1>4. IsFiniteSet(1..Len(s))
  BY <1>3, FirstNumbers
<1>5. 1 \in 1..Len(s)
  BY <1>3
<1>6. \A i \in DOMAIN s : s[i] \in Nat /\ s[i] <= s[i]
  BY <1>2
<1> QED
  BY <1>1, <1>2, <1>3, <1>4, <1>5, <1>6 DEF Within

LEMMA SomeCall ==
    ASSUME NEW a \in Asks, NEW b \in Backend, AvailableCalls(b, EffectiveBudget(a).calls) # 0
    PROVE  AtMost(1, AvailableCalls(b, EffectiveBudget(a).calls))
<1>1. PICK c \in Limit : c = EffectiveBudget(a).calls
  BY BudgetIs
<1>2. PICK k \in Nat \ {0} : k = b.attempts
  BY DEF Backend
<1>3. AvailableCalls(b, c) = IF c = None THEN None ELSE c \div k
  BY <1>2 DEF AvailableCalls
<1>4. CASE c = None
  BY <1>1, <1>3, <1>4 DEF AtMost
<1>5. CASE c # None
  <2>1. c \in Nat
    BY <1>5 DEF Limit
  <2>2. c \div k \in Nat
    BY <2>1, DivIs
  <2> QED
    BY <1>1, <1>3, <1>5, <2>2 DEF AtMost
<1> QED
  BY <1>4, <1>5

LEMMA ListwiseKeeps ==
    ASSUME NEW a \in Asks, NEW b \in Backend, b # None, Local(a, b),
           ~ UnverifiableCost(b, EffectiveBudget(a)), ListwiseFits(a, b),
           NEW batch, Len(a.sizes) <= batch
    PROVE  Admitted(a, b, ListwisePlan(a, b, batch), <<a.sizes>>)
<1>1. PICK s, D : s = a.sizes /\ D = 1..Len(a.sizes)
  OBVIOUS
<1>2. /\ s \in Seq(Nat) /\ s # <<>>
      /\ IsFiniteSet(D) /\ D # {} /\ s \in [D -> Nat] /\ Within(s, s)
  BY <1>1, SizesAre
<1>3. b.overhead \in Nat /\ b.question \in Nat
  BY DEF Backend
<1>4. Tokens(b, s) <= Tokens(b, s) /\ Context(b, s) <= Context(b, s)
  <2>1. Tokens(b, s) \in Nat
    BY <1>2, <1>3, TokensIs
  <2>2. Context(b, s) \in Nat
    BY <1>2, <1>3, ContextIs
  <2> QED
    BY <2>1, <2>2
<1>5. /\ b.listwise /\ Len(s) <= Batch(b) /\ AtMost(Context(b, s), b.maxContext)
      /\ AtMost(Tokens(b, s) * b.attempts, EffectiveBudget(a).tokens)
      /\ AvailableCalls(b, EffectiveBudget(a).calls) # 0
  BY <1>1 DEF ListwiseFits
<1>6. AtMost(1, AvailableCalls(b, EffectiveBudget(a).calls))
  BY <1>5, SomeCall
<1>7. /\ Passes(a, b, "listwise", <<s>>) /\ Len(<<s>>) = 1
      /\ TokensOfAll(b, <<s>>) <= Tokens(b, s)
  BY <1>2, <1>3, <1>4, <1>5, <1>6, ListIsAdmitted
<1>8. PICK p : p = ListwisePlan(a, b, batch)
  OBVIOUS
<1>9. p.mode = "listwise" /\ p.calls = 1 /\ p.tokens = Tokens(b, s) /\ p.batch = batch
  BY <1>1, <1>8 DEF ListwisePlan, Plan
<1>10. \A i \in DOMAIN <<s>> : Len(<<s>>[i]) <= batch
  BY <1>1
<1>11. Admitted(a, b, p, <<s>>)
  BY <1>7, <1>9, <1>10, PassesIs
<1> QED
  BY <1>1, <1>8, <1>11

LEMMA PointwiseKeeps ==
    ASSUME NEW a \in Asks, NEW b \in Backend, b # None, Local(a, b),
           ~ UnverifiableCost(b, EffectiveBudget(a)), PointwiseFits(a, b)
    PROVE  LET p == Plan("pointwise", b, "pointwise", None, <<>>,
                         Ceil(Len(a.sizes), PointwiseBatch(b)), TokensOfAll(b, Singles(a.sizes)))
           IN  Admitted(a, b, p, Chunks(a.sizes, PointwiseBatch(b)))
<1>1. PICK s, D : s = a.sizes /\ D = 1..Len(a.sizes)
  OBVIOUS
<1>2. /\ s \in Seq(Nat) /\ s # <<>>
      /\ IsFiniteSet(D) /\ D # {} /\ s \in [D -> Nat] /\ Within(s, s)
  BY <1>1, SizesAre
<1>3. b.overhead \in Nat /\ b.question \in Nat
  BY DEF Backend
<1>4. PICK t : t = TokensOfAll(b, Singles(s))
  OBVIOUS
<1>5. t \in Nat /\ t <= t
  <2>1. t \in Nat
    BY <1>2, <1>3, <1>4, SinglesTokens
  <2> QED
    BY <2>1
<1>6. TokensOfAll(b, Singles(s)) <= TokensOfAll(b, Singles(s))
  BY <1>4, <1>5
<1>7. /\ b.pointwise
      /\ AtMost(Ceil(Len(s), PointwiseBatch(b)), AvailableCalls(b, EffectiveBudget(a).calls))
      /\ AtMost(TokensOfAll(b, Singles(s)) * b.attempts, EffectiveBudget(a).tokens)
      /\ \A i \in DOMAIN Singles(s) : AtMost(Context(b, Singles(s)[i]), b.maxContext)
  BY <1>1 DEF PointwiseFits
<1>8. \A i \in D : AtMost(Context(b, <<s[i]>>), b.maxContext)
  <2>1. DOMAIN Singles(s) = D /\ \A i \in D : Singles(s)[i] = <<s[i]>>
    BY <1>2 DEF Singles
  <2> QED
    BY <1>7, <2>1
<1>c. PICK chunks, m : chunks = Chunks(s, PointwiseBatch(b)) /\ m = Ceil(Len(s), PointwiseBatch(b))
  OBVIOUS
<1>9. Passes(a, b, "pointwise", chunks) /\ Len(chunks) = m /\ TokensOfAll(b, chunks) <= t
  BY <1>2, <1>4, <1>6, <1>7, <1>8, <1>c, GroupsAreAdmitted
<1>10. PICK p : p = Plan("pointwise", b, "pointwise", None, <<>>, m, t)
  OBVIOUS
<1>11. p.mode = "pointwise" /\ p.calls = m /\ p.tokens = t /\ p.batch = None
  BY <1>10 DEF Plan
<1>12. Admitted(a, b, p, chunks)
  BY <1>9, <1>11, PassesIs
<1> QED
  BY <1>1, <1>4, <1>10, <1>12, <1>c

\* A cascade keeps its promise for any shortlist.
LEMMA CascadeKeeps ==
    ASSUME NEW a \in Asks, NEW b \in Backend, b # None, Local(a, b),
           ~ UnverifiableCost(b, EffectiveBudget(a)), a.topK # None,
           CascadePlan(a, b).mode # None,
           NEW o \in [1..Shortlist(a) -> DOMAIN a.sizes], IsInjective(o),
           NEW picked, picked = [i \in DOMAIN o |-> a.sizes[o[i]]]
    PROVE  /\ CascadePlan(a, b).strategy = "auto"
           /\ Admitted(a, b, CascadePlan(a, b), GroupsOf(b, CascadePlan(a, b).mode, picked))
<1>1. PICK n, k : n = Len(a.sizes) /\ k = Shortlist(a) /\ n \in Nat /\ k \in 1..n
  BY ShortlistFits
<1>2. PICK s, D : s = a.sizes /\ D = 1..n
  OBVIOUS
<1>3. s \in [D -> Nat] /\ IsFiniteSet(D) /\ DOMAIN a.sizes = D
  BY <1>1, <1>2, SizesAre
<1>4. b.overhead \in Nat /\ b.question \in Nat
  BY DEF Backend
<1>5. PICK L, W : L = Longest(a) /\ W = WorstPool(a)
  OBVIOUS
<1>6. IsFiniteSet(L) /\ L # {} /\ W \in [L -> Nat]
  <2>1. Cardinality(D) = n
    <3>1. n \in Nat
      BY <1>1
    <3> QED
      BY <1>2, <3>1, FirstNumbers
  <2>2. Shortlist(a) \in 0..Cardinality(D) /\ a.sizes \in [D -> Nat]
    BY <1>1, <1>2, <1>3, <2>1
  <2>3. Cardinality(L) = k /\ IsFiniteSet(L) /\ W \in [L -> Nat]
    BY <1>1, <1>3, <1>5, <2>2, LongestIs
  <2> QED
    BY <1>1, <2>3, FS_EmptySet
<1>7. PICK q : q = picked
  OBVIOUS
<1>8. o \in [1..k -> D] /\ q = [i \in 1..k |-> s[o[i]]]
  BY <1>1, <1>2, <1>3, <1>7
<1>9. q \in Seq(Nat) /\ Len(q) = k /\ q # <<>>
  <2>1. \A i \in 1..k : q[i] \in Nat
    BY <1>3, <1>8
  <2>2. q \in [1..k -> Nat] /\ k \in Nat /\ k # 0
    BY <1>1, <1>8, <2>1
  <2>3. q \in Seq(Nat)
    BY <2>2, SeqDef
  <2>4. Len(q) = k
    BY <2>2, <2>3
  <2> QED
    BY <2>2, <2>3, <2>4
<1>10. /\ Tokens(b, q) <= Tokens(b, W)
       /\ TokensOfAll(b, Singles(q)) <= TokensOfAll(b, Singles(W))
       /\ Context(b, q) <= Context(b, W)
       /\ Within(q, W)
  <2>1. a.sizes \in [1..n -> Nat] /\ Shortlist(a) \in 1..n /\ o \in [1..Shortlist(a) -> 1..n]
    BY <1>1, <1>2, <1>3, <1>8
  <2>2. q = [i \in 1..Shortlist(a) |-> a.sizes[o[i]]]
    BY <1>1, <1>2, <1>8
  <2>3. /\ Tokens(b, q) <= Tokens(b, WorstPool(a))
        /\ TokensOfAll(b, Singles(q)) <= TokensOfAll(b, Singles(WorstPool(a)))
        /\ Context(b, q) <= Context(b, WorstPool(a))
        /\ Within(q, WorstPool(a))
    <3>1. n \in Nat /\ IsInjective(o) /\ b.overhead \in Nat /\ b.question \in Nat
      BY <1>1, <1>4
    <3> QED
      BY <2>1, <2>2, <3>1, LongestIsWorst
  <2> QED
    BY <1>5, <2>3, Zenon
<1>p. PICK p : p = CascadePlan(a, b)
  OBVIOUS
<1>l. LexicalPlan.mode = None
  BY DEF LexicalPlan, Plan
<1>11. CASE b.listwise /\ k <= Batch(b)
  <2>1. PICK t : t = TokensOfAll(b, <<W>>)
    OBVIOUS
  <2>2. /\ p = Plan("auto", b, "listwise", Batch(b), CascadeLimits(a), 1, t)
        /\ AtMost(1, AvailableCalls(b, EffectiveBudget(a).calls))
        /\ \A i \in DOMAIN <<W>> : AtMost(Context(b, <<W>>[i]), b.maxContext)
        /\ AtMost(t * b.attempts, EffectiveBudget(a).tokens)
    BY <1>1, <1>5, <1>11, <1>p, <1>l, <2>1 DEF CascadePlan
  <2>3. t = Tokens(b, W)
    BY <1>4, <1>6, <2>1, TokensOfOneRequest
  <2>4. AtMost(Context(b, W), b.maxContext)
    BY <2>2
  <2>5. AtMost(Tokens(b, W) * b.attempts, EffectiveBudget(a).tokens) /\ Len(q) <= Batch(b)
    BY <1>9, <1>11, <2>2, <2>3
  <2>6. /\ Passes(a, b, "listwise", <<q>>) /\ Len(<<q>>) = 1
        /\ TokensOfAll(b, <<q>>) <= Tokens(b, W)
    BY <1>4, <1>6, <1>9, <1>10, <1>11, <2>2, <2>4, <2>5, ListIsAdmitted
  <2>7. /\ p.mode = "listwise" /\ p.calls = 1 /\ p.tokens = t /\ p.batch = Batch(b)
        /\ p.strategy = "auto"
    BY <2>2 DEF Plan
  <2>8. \A i \in DOMAIN <<q>> : Len(<<q>>[i]) <= Batch(b)
    BY <1>9, <1>11
  <2>9. Admitted(a, b, p, <<q>>)
    BY <2>3, <2>6, <2>7, <2>8, PassesIs
  <2>10. GroupsOf(b, p.mode, q) = <<q>>
    BY <2>7 DEF GroupsOf
  <2> QED
    BY <1>7, <1>p, <2>7, <2>9, <2>10
<1>12. CASE ~ (b.listwise /\ k <= Batch(b))
  <2>1. PICK t, m : t = TokensOfAll(b, Singles(W)) /\ m = Ceil(k, PointwiseBatch(b))
    OBVIOUS
  <2>2. /\ p = Plan("auto", b, "pointwise", None, CascadeLimits(a), m, t)
        /\ b.pointwise
        /\ AtMost(m, AvailableCalls(b, EffectiveBudget(a).calls))
        /\ \A i \in DOMAIN Singles(W) : AtMost(Context(b, Singles(W)[i]), b.maxContext)
        /\ AtMost(t * b.attempts, EffectiveBudget(a).tokens)
    BY <1>1, <1>5, <1>12, <1>p, <1>l, <2>1 DEF CascadePlan
  <2>3. \A i \in L : AtMost(Context(b, <<W[i]>>), b.maxContext)
    <3>1. DOMAIN Singles(W) = L /\ \A i \in L : Singles(W)[i] = <<W[i]>>
      BY <1>6 DEF Singles
    <3> QED
      BY <2>2, <3>1
  <2>4. PICK chunks : chunks = Chunks(q, PointwiseBatch(b))
    OBVIOUS
  <2>5. /\ AtMost(Ceil(Len(q), PointwiseBatch(b)), AvailableCalls(b, EffectiveBudget(a).calls))
        /\ AtMost(TokensOfAll(b, Singles(W)) * b.attempts, EffectiveBudget(a).tokens)
    BY <1>9, <2>1, <2>2
  <2>6. /\ Passes(a, b, "pointwise", chunks) /\ Len(chunks) = m
        /\ TokensOfAll(b, chunks) <= t
    <3>1. LET groupsOf == Chunks(q, PointwiseBatch(b))
          IN  /\ Passes(a, b, "pointwise", groupsOf)
              /\ Len(groupsOf) = Ceil(Len(q), PointwiseBatch(b))
              /\ TokensOfAll(b, groupsOf) <= TokensOfAll(b, Singles(W))
      BY <1>6, <1>9, <1>10, <2>2, <2>3, <2>5, GroupsAreAdmitted
    <3> QED
      BY <1>9, <2>1, <2>4, <3>1
  <2>7. /\ p.mode = "pointwise" /\ p.calls = m /\ p.tokens = t /\ p.batch = None
        /\ p.strategy = "auto"
    BY <2>2 DEF Plan
  <2>8. Admitted(a, b, p, chunks)
    BY <2>6, <2>7, PassesIs
  <2>9. GroupsOf(b, p.mode, q) = chunks
    BY <2>4, <2>7 DEF GroupsOf
  <2> QED
    BY <1>7, <1>p, <2>7, <2>8, <2>9
<1> QED
  BY <1>11, <1>12

\* Whatever plan is made for a backend, it keeps its promise for every shortlist.
LEMMA PlanKeeps ==
    ASSUME NEW a \in Asks, NEW b \in Backend, b # None, Local(a, b),
           PlanFor(a, b).mode # None, NEW picked \in Survivors(a, PlanFor(a, b))
    PROVE  Admitted(a, b, PlanFor(a, b), GroupsOf(b, PlanFor(a, b).mode, picked))
<1>p. PICK p : p = PlanFor(a, b)
  OBVIOUS
<1>l. LexicalPlan.mode = None
  BY DEF LexicalPlan, Plan
<1>1. ~ NoModel(a, b) /\ ~ UnverifiableCost(b, EffectiveBudget(a))
  <2>1. ~ NoModel(a, b)
    BY <1>l DEF PlanFor
  <2> QED
    BY <2>1 DEF NoModel
<1>2. ASSUME NEW batch, Len(a.sizes) <= batch, ListwiseFits(a, b), p = ListwisePlan(a, b, batch)
      PROVE  Admitted(a, b, p, GroupsOf(b, p.mode, picked))
  <2>1. p.mode = "listwise" /\ p.strategy = "listwise"
    BY <1>2 DEF ListwisePlan, Plan
  <2>2. picked = a.sizes
    BY <1>p, <2>1 DEF Survivors
  <2>3. GroupsOf(b, p.mode, picked) = <<a.sizes>>
    BY <2>1, <2>2 DEF GroupsOf
  <2>4. Admitted(a, b, ListwisePlan(a, b, batch), <<a.sizes>>)
    BY <1>1, <1>2, ListwiseKeeps
  <2> QED
    BY <1>2, <2>3, <2>4
<1>3. ASSUME PointwiseFits(a, b),
             p = Plan("pointwise", b, "pointwise", None, <<>>,
                      Ceil(Len(a.sizes), PointwiseBatch(b)), TokensOfAll(b, Singles(a.sizes)))
      PROVE  Admitted(a, b, p, GroupsOf(b, p.mode, picked))
  <2>1. p.mode = "pointwise" /\ p.strategy = "pointwise"
    BY <1>3 DEF Plan
  <2>2. picked = a.sizes
    BY <1>p, <2>1 DEF Survivors
  <2>3. GroupsOf(b, p.mode, picked) = Chunks(a.sizes, PointwiseBatch(b))
    BY <2>1, <2>2 DEF GroupsOf
  <2>4. Admitted(a, b, p, Chunks(a.sizes, PointwiseBatch(b)))
    BY <1>1, <1>3, PointwiseKeeps
  <2> QED
    BY <2>3, <2>4
<1>4. ASSUME a.topK # None, p = CascadePlan(a, b)
      PROVE  Admitted(a, b, p, GroupsOf(b, p.mode, picked))
  <2>1. CascadePlan(a, b).mode # None
    BY <1>4, <1>p
  <2>2. CascadePlan(a, b).strategy = "auto"
    BY <2>1, <1>l DEF CascadePlan, Plan
  <2>3. PICK o \in [1..Shortlist(a) -> DOMAIN a.sizes] :
               IsInjective(o) /\ picked = [i \in DOMAIN o |-> a.sizes[o[i]]]
    BY <1>4, <1>p, <2>2 DEF Survivors
  <2> QED
    BY <1>1, <1>4, <2>1, <2>3, CascadeKeeps
<1>5. Len(a.sizes) <= Len(a.sizes)
  BY SizesAre
<1>6. CASE Len(a.sizes) <= SmallLimit /\ ListwiseFits(a, b)
  <2>1. p = ListwisePlan(a, b, SmallLimit)
    BY <1>1, <1>6, <1>p DEF PlanFor
  <2> QED
    BY <1>2, <1>6, <1>p, <2>1
<1>7. CASE ~ (Len(a.sizes) <= SmallLimit /\ ListwiseFits(a, b)) /\ Len(a.sizes) <= MediumLimit
  <2>1. p = MediumPlan(a, b)
    BY <1>1, <1>7, <1>p DEF PlanFor
  <2>2. \/ ListwiseFits(a, b) /\ p = ListwisePlan(a, b, Len(a.sizes))
        \/ /\ PointwiseFits(a, b)
           /\ p = Plan("pointwise", b, "pointwise", None, <<>>,
                       Ceil(Len(a.sizes), PointwiseBatch(b)), TokensOfAll(b, Singles(a.sizes)))
    BY <1>l, <1>p, <2>1 DEF MediumPlan
  <2> QED
    BY <1>2, <1>3, <1>5, <1>p, <2>2
<1>8. CASE ~ (Len(a.sizes) <= SmallLimit /\ ListwiseFits(a, b)) /\ ~ (Len(a.sizes) <= MediumLimit)
  <2>1. a.topK # None /\ p = CascadePlan(a, b)
    BY <1>1, <1>8, <1>l, <1>p DEF PlanFor
  <2> QED
    BY <1>4, <1>p, <2>1
<1> QED
  BY <1>6, <1>7, <1>8

LEMMA RoutesAreBackends ==
    ASSUME NEW r, IsRouter(r), NEW mode, NEW ctx, NEW available,
           Routes(r, mode, ctx, available) # <<>>
    PROVE  Routes(r, mode, ctx, available)[1] \in Backend
<1>1. r.primary \in Backend /\ (r.fallback # None => r.fallback \in Backend)
  BY DEF IsRouter
<1>2. \/ Routes(r, mode, ctx, available) = <<r.fallback, r.primary>> /\ r.fallback # None
      \/ Routes(r, mode, ctx, available) = <<r.primary, r.fallback>>
      \/ Routes(r, mode, ctx, available) = <<r.primary>>
      \/ Routes(r, mode, ctx, available) = <<r.fallback>> /\ r.fallback # None
  BY RoutesAre
<1> QED
  BY <1>1, <1>2

\* A decision with a mode is the plan for the backend it names.
LEMMA DecisionIsFor ==
    ASSUME NEW a \in Asks, NEW available, NEW p, p = AutoDecision(a, available), p.mode # None
    PROVE  p.backend \in Backend /\ p.backend # None /\ p = PlanFor(a, p.backend)
<1>1. /\ a.router # None => IsRouter(a.router)
      /\ a.backend # None => a.backend \in Backend
  BY AsksAreAsks
<1>2. \A b : b \in Backend \cup {None} => Vetted(a, b) \in Backend \cup {None}
  BY DEF Vetted
<1>3. PICK b : b = IF a.router = None THEN a.backend ELSE RoutedBackend(a, available)
  OBVIOUS
<1>4. b \in Backend \cup {None}
  <2>1. ASSUME a.router # None PROVE RoutedBackend(a, available) \in Backend \cup {None}
    <3>1. \A mode : Routes(a.router, mode, a, available) # <<>> =>
                       Routes(a.router, mode, a, available)[1] \in Backend
      BY <1>1, <2>1, RoutesAreBackends
    <3> QED
      BY <3>1 DEF RoutedBackend
  <2> QED
    BY <1>1, <1>3, <2>1
<1>5. PICK s : s = IF a.router = None THEN <<>>
                   ELSE Routes(a.router, "pointwise", a, available)
  OBVIOUS
<1>6. s # <<>> => s[1] \in Backend
  BY <1>1, <1>5, RoutesAreBackends
<1>7. PICK c \in Backend \cup {None} : p = PlanFor(a, c)
  <2>1. p = PlanFor(a, Vetted(a, b)) \/ (s # <<>> /\ p = PlanFor(a, Vetted(a, s[1])))
    BY <1>3, <1>5 DEF AutoDecision
  <2> QED
    BY <1>2, <1>4, <1>6, <2>1
<1>8. p.backend = c /\ c # None
  BY <1>7, PlanIsFor
<1> QED
  BY <1>7, <1>8

\* The plan is one that PlanFor makes, and the groups are cut from what it leaves.
PlannedInv ==
    /\ ask \in Asks
    /\ phase \in {"asked", "planned", "started"}
    /\ phase # "started" => routes = <<>>
    /\ phase # "asked" /\ plan.mode # None =>
        /\ plan.backend \in Backend /\ plan.backend # None
        /\ Local(ask, plan.backend)
        /\ plan = PlanFor(ask, plan.backend)
    /\ phase = "started" /\ routes # <<>> =>
        /\ plan.mode # None
        /\ \E picked \in Survivors(ask, plan) : groups = GroupsOf(Head(routes), plan.mode, picked)

LEMMA PlannedInvKept ==
    /\ PlanInit => PlannedInv
    /\ PlannedInv /\ [PlanNext]_(planVars) => PlannedInv'
<1>1. ASSUME PlanInit PROVE PlannedInv
  BY <1>1 DEF PlanInit, PlannedInv
<1>l. ASSUME NEW a, NEW p, ask' = a, plan' = p
      PROVE  /\ Local(ask, plan.backend)' <=> Local(a, p.backend)
             /\ PlanFor(ask, plan.backend)' = PlanFor(a, p.backend)
             /\ Survivors(ask, plan)' = Survivors(a, p)
  BY <1>l DEF Local, NoNetwork, Survivors, Shortlist, EmbeddingLimit, Bm25Limit, Wanted, Keep,
     PlanFor, NoModel, NoModelBudget, UnverifiableCost, ListwiseFits, MediumPlan, PointwiseFits,
     CascadePlan, EffectiveBudget, ListwisePlan, WorstPool, Longest, CascadeLimits
<1>2. ASSUME PlannedInv, Decide PROVE PlannedInv'
  <2>1. /\ ask' = ask /\ ask \in Asks /\ phase' = "planned" /\ phase = "asked"
        /\ routes' = <<>> /\ plan' = AutoDecision(ask, up)
    BY <1>2 DEF PlannedInv, Decide
  <2>2. PICK a, p : a = ask /\ p = AutoDecision(ask, up)
    OBVIOUS
  <2>3. ask' = a /\ plan' = p
    BY <2>1, <2>2
  <2>4. p.mode # None =>
          p.backend \in Backend /\ p.backend # None /\ p = PlanFor(a, p.backend)
    BY <2>1, <2>2, DecisionIsFor
  <2>5. Local(a, p.backend)
    BY <2>2, DecisionIsLocal
  <2>6. /\ Local(ask, plan.backend)' <=> Local(a, p.backend)
        /\ PlanFor(ask, plan.backend)' = PlanFor(a, p.backend)
    BY <1>l, <2>3
  <2> QED
    BY <2>1, <2>3, <2>4, <2>5, <2>6 DEF PlannedInv
<1>q. ASSUME ask' = ask, plan' = plan
      PROVE  /\ Local(ask, plan.backend)' <=> Local(ask, plan.backend)
             /\ PlanFor(ask, plan.backend)' = PlanFor(ask, plan.backend)
             /\ Survivors(ask, plan)' = Survivors(ask, plan)
  BY <1>l, <1>q
<1>3. ASSUME PlannedInv, Start PROVE PlannedInv'
  <2>1. /\ ask' = ask /\ plan' = plan /\ phase = "planned" /\ phase' = "started"
        /\ plan.mode # None
    BY <1>3 DEF Start
  <2>2. \E picked \in Survivors(ask, plan) : groups' = GroupsOf(Head(routes'), plan.mode, picked)
    BY <1>3 DEF Start
  <2>3. \E picked \in Survivors(ask, plan) :
           groups' = GroupsOf(Head(routes), plan.mode, picked)'
    BY <2>1, <2>2 DEF GroupsOf, Chunks, PointwiseBatch, Batch
  <2> QED
    BY <1>3, <1>q, <2>1, <2>2, <2>3 DEF PlannedInv
<1>4. ASSUME PlannedInv, NoRoute PROVE PlannedInv'
  <2>1. /\ ask' = ask /\ plan' = plan /\ routes' = routes /\ phase = "planned"
        /\ phase' = "started" /\ routes = <<>>
    BY <1>4 DEF PlannedInv, NoRoute
  <2> QED
    BY <1>4, <1>q, <2>1 DEF PlannedInv
<1>5. ASSUME PlannedInv, NEW b, Turn(b) PROVE PlannedInv'
  <2>1. ask' = ask /\ plan' = plan /\ phase' = phase /\ phase = "planned" /\ routes' = routes
    BY <1>5 DEF Turn
  <2> QED
    BY <1>5, <1>q, <2>1 DEF PlannedInv
<1>6. ASSUME PlannedInv, UNCHANGED planVars PROVE PlannedInv'
  <2>1. /\ ask' = ask /\ plan' = plan /\ phase' = phase /\ routes' = routes /\ groups' = groups
    BY <1>6 DEF planVars
  <2>2. ASSUME NEW picked
        PROVE  GroupsOf(Head(routes), plan.mode, picked)' =
                  GroupsOf(Head(routes), plan.mode, picked)
    BY <2>1 DEF GroupsOf, Chunks, PointwiseBatch, Batch
  <2> QED
    BY <1>6, <1>q, <2>1, <2>2 DEF PlannedInv
<1> QED
  BY <1>1, <1>2, <1>3, <1>4, <1>5, <1>6 DEF PlanNext

\* PlanAdmitted of AutoPlan: a plan for a model is one the executor lets through as far as
\* the plan has looked, for every shortlist the earlier stages may leave (the estimates and
\* limits of AutoStrategy.decide against _model_scores_selected, _execute_model and the
\* ledger's reserve).
THEOREM PlansAreAdmitted == PlanSpec => []PlanAdmitted
<1>1. ASSUME PlannedInv PROVE PlanAdmitted
  <2>1. SUFFICES ASSUME AsPlanned PROVE Admitted(ask, plan.backend, plan, groups)
    BY DEF PlanAdmitted
  <2>2. PICK a, b, p : a = ask /\ b = plan.backend /\ p = plan
    OBVIOUS
  <2>3. /\ a \in Asks /\ p.mode # None /\ b \in Backend /\ b # None /\ Local(a, b)
        /\ p = PlanFor(a, b)
    BY <1>1, <2>1, <2>2 DEF PlannedInv, AsPlanned
  <2>4. PICK picked \in Survivors(a, p) : groups = GroupsOf(b, p.mode, picked)
    BY <1>1, <2>1, <2>2 DEF PlannedInv, AsPlanned
  <2>5. Admitted(a, b, p, groups)
    BY <2>3, <2>4, PlanKeeps
  <2> QED
    BY <2>2, <2>5
<1> QED
  BY <1>1, PlannedInvKept, PTL DEF PlanSpec
=============================================================================
