------------------------ MODULE MetricScoringProofs ------------------------
(***************************************************************************)
(* Theorems about MetricScoring for any requests, candidates, metrics,      *)
(* permits, cache sizes and cancellations: no order of failures and         *)
(* cancellations loses a permit or leaves a task of a request running after *)
(* it, every score is the request's own and not stale, and the cache drops  *)
(* the entries used longest ago.                                            *)
(***************************************************************************)
EXTENDS MetricScoring, FiniteSetTheorems, SequenceTheorems, WellFoundedInduction, TLAPS

Pair == Request \X Candidate
Scoring == {x \in Pair : task[x[1]][x[2]] = "scoring"}
Batching == {r \in Request : stage[r] = "batch"}
Busy == Cardinality(Scoring) + Cardinality(Batching)

Owning == {"window", "failing", "draining"}
Broken == {"failing", "draining", "failed", "cancelled"}
Stages == Ended \cup Owning \cup {"between", "queued", "batch", "model"}

Permits == free + Busy = MaxConcurrency

Counters ==
    /\ pos \in [Request -> Nat] /\ first \in [Request -> Int]
    /\ \A r \in Request : stage[r] = "window" =>
           \A c \in Candidate : task[r][c] \in Unfinished => c \in InWindow(r)

\* Tasks run under a request that waits for them.
Settled ==
    \A r \in Request : stage[r] \notin Owning => \A c \in Candidate : task[r][c] \notin Unfinished

\* A callback is that of the score its task waits for, unless the request has failed.
Threads ==
    \A x \in thread : \/ task[x[1]][x[2]] = "scoring" /\ x[3] = pos[x[1]]
                      \/ stage[x[1]] \in Broken

IInv == TypeOK /\ Counters /\ Settled /\ Threads /\ Permits

USE DEF Ended, Unfinished, Task, Owning, Broken, Stages

(***************************************************************************)
(* Who holds the permits.                                                   *)
(***************************************************************************)

LEMMA BusyFinite ==
    /\ IsFiniteSet(Scoring) /\ IsFiniteSet(Batching)
    /\ IsFiniteSet(Scoring') /\ IsFiniteSet(Batching')
    /\ Cardinality(Scoring) \in Nat /\ Cardinality(Batching) \in Nat
    /\ Cardinality(Scoring') \in Nat /\ Cardinality(Batching') \in Nat
<1>1. IsFiniteSet(Request) /\ IsFiniteSet(Candidate)
  BY ScoringSizes, FS_Interval DEF Candidate
<1>2. IsFiniteSet(Pair)
  BY <1>1, FS_Product DEF Pair
<1>3. Scoring \subseteq Pair /\ Scoring' \subseteq Pair
  BY DEF Scoring
<1>4. Batching \subseteq Request /\ Batching' \subseteq Request
  BY DEF Batching
<1>5. /\ IsFiniteSet(Scoring) /\ IsFiniteSet(Batching)
      /\ IsFiniteSet(Scoring') /\ IsFiniteSet(Batching')
  BY <1>1, <1>2, <1>3, <1>4, FS_Subset
<1>6. QED
  BY <1>5, FS_CardinalityType

LEMMA PermitTaken ==
    ASSUME IInv, free > 0, free' = free - 1, Busy' = Busy + 1
    PROVE  Permits' /\ free' \in 0..MaxConcurrency
BY BusyFinite, ScoringSizes DEF IInv, TypeOK, Permits, Busy

LEMMA PermitReturned ==
    ASSUME IInv, free' = free + 1, Busy' = Busy - 1
    PROVE  Permits' /\ free' \in 0..MaxConcurrency
BY BusyFinite, ScoringSizes DEF IInv, TypeOK, Permits, Busy

\* A request enters or leaves its batch call.
LEMMA BatchCounted ==
    ASSUME NEW r \in Request, NEW to \in Stages, TypeOK, stage' = [stage EXCEPT ![r] = to],
           Scoring' = Scoring
    PROVE  /\ stage[r] = "batch" <=> to = "batch" => Busy' = Busy
           /\ stage[r] # "batch" /\ to = "batch" => Busy' = Busy + 1
           /\ stage[r] = "batch" /\ to # "batch" => Busy' = Busy - 1
<1>1. CASE stage[r] = "batch" <=> to = "batch"
  <2>1. Batching' = Batching
    BY <1>1 DEF Batching, TypeOK
  <2>2. QED
    BY <1>1, <2>1 DEF Busy
<1>2. CASE stage[r] # "batch" /\ to = "batch"
  <2>1. Batching' = Batching \cup {r} /\ r \notin Batching
    BY <1>2 DEF Batching, TypeOK
  <2>2. Cardinality(Batching') = Cardinality(Batching) + 1
    BY <2>1, BusyFinite, FS_AddElement
  <2>3. QED
    BY <1>2, <2>2, BusyFinite DEF Busy
<1>3. CASE stage[r] = "batch" /\ to # "batch"
  <2>1. Batching' = Batching \ {r} /\ r \in Batching
    BY <1>3 DEF Batching, TypeOK
  <2>2. Cardinality(Batching') = Cardinality(Batching) - 1
    BY <2>1, BusyFinite, FS_RemoveElement
  <2>3. QED
    BY <1>3, <2>2, BusyFinite DEF Busy
<1>4. QED
  BY <1>1, <1>2, <1>3

\* A task begins or ends its score.
LEMMA ScoringCounted ==
    ASSUME NEW r \in Request, NEW c \in Candidate, NEW to \in Task, TypeOK,
           task' = [task EXCEPT ![r][c] = to], stage' = stage
    PROVE  /\ task[r][c] # "scoring" /\ to # "scoring" => Busy' = Busy
           /\ task[r][c] # "scoring" /\ to = "scoring" => Busy' = Busy + 1
           /\ task[r][c] = "scoring" /\ to # "scoring" => Busy' = Busy - 1
<1>1. /\ \A x \in Pair : x # <<r, c>> => task'[x[1]][x[2]] = task[x[1]][x[2]]
      /\ task'[r][c] = to /\ <<r, c>> \in Pair
      /\ Batching' = Batching
  BY DEF TypeOK, Pair, Batching
<1>2. CASE task[r][c] # "scoring" /\ to # "scoring"
  <2>1. Scoring' = Scoring
    BY <1>1, <1>2 DEF Scoring
  <2>2. QED
    BY <1>1, <1>2, <2>1 DEF Busy
<1>3. CASE task[r][c] # "scoring" /\ to = "scoring"
  <2>1. Scoring' = Scoring \cup {<<r, c>>} /\ <<r, c>> \notin Scoring
    BY <1>1, <1>3 DEF Scoring
  <2>2. Cardinality(Scoring') = Cardinality(Scoring) + 1
    BY <2>1, BusyFinite, FS_AddElement
  <2>3. QED
    BY <1>1, <1>3, <2>2, BusyFinite DEF Busy
<1>4. CASE task[r][c] = "scoring" /\ to # "scoring"
  <2>1. Scoring' = Scoring \ {<<r, c>>} /\ <<r, c>> \in Scoring
    BY <1>1, <1>4 DEF Scoring
  <2>2. Cardinality(Scoring') = Cardinality(Scoring) - 1
    BY <2>1, BusyFinite, FS_RemoveElement
  <2>3. QED
    BY <1>1, <1>4, <2>2, BusyFinite DEF Busy
<1>5. QED
  BY <1>2, <1>3, <1>4

(***************************************************************************)
(* Steps of a request, with its tasks as they are.                          *)
(***************************************************************************)

LEMMA NoThreads ==
    ASSUME IInv, NEW r \in Request, stage[r] \notin Owning \cup Broken
    PROVE  \A x \in thread : x[1] # r
<1> SUFFICES ASSUME NEW x \in thread, x[1] = r PROVE FALSE
  OBVIOUS
<1>1. x[2] \in Candidate /\ task[r][x[2]] = "scoring"
  BY DEF IInv, TypeOK, Threads
<1>2. QED
  BY <1>1 DEF IInv, Settled

LEMMA RequestMoves ==
    ASSUME IInv, NEW r \in Request, NEW to \in Stages \ {"window"},
           stage' = [stage EXCEPT ![r] = to],
           UNCHANGED <<metrics, first, task, thread, now>>,
           pos' \in [Request -> Nat], \A q \in Request \ {r} : pos'[q] = pos[q],
           to \in Owning \/ \A c \in Candidate : task[r][c] \notin Unfinished,
           to \in Broken \/ \A x \in thread : x[1] # r,
           Permits', free' \in 0..MaxConcurrency
    PROVE  IInv'
<1>1. /\ stage' \in [Request -> Stages] /\ stage'[r] = to
      /\ \A q \in Request \ {r} : stage'[q] = stage[q]
  BY DEF IInv, TypeOK
<1>2. TypeOK'
  BY <1>1 DEF IInv, TypeOK
<1>3. Counters'
  <2>1. SUFFICES ASSUME NEW q \in Request, stage'[q] = "window"
                 PROVE  \A c \in Candidate : task[q][c] \in Unfinished => c \in InWindow(q)
    BY DEF IInv, Counters, InWindow
  <2>2. q # r /\ stage[q] = "window"
    BY <1>1, <2>1
  <2>3. QED
    BY <2>2 DEF IInv, Counters
<1>4. Settled'
  BY <1>1 DEF IInv, Settled
<1>5. Threads'
  <2>1. SUFFICES ASSUME NEW x \in thread
                 PROVE  \/ task[x[1]][x[2]] = "scoring" /\ x[3] = pos'[x[1]]
                        \/ stage'[x[1]] \in Broken
    BY DEF Threads
  <2>2. x[1] \in Request
    BY DEF IInv, TypeOK
  <2>3. QED
    BY <1>1, <2>2 DEF IInv, Threads
<1>6. QED
  BY <1>2, <1>3, <1>4, <1>5 DEF IInv

\* Steps that leave the permits alone.
LEMMA PlainMoves ==
    ASSUME IInv, NEW r \in Request, NEW to \in Stages \ {"window", "batch"},
           stage[r] # "batch", stage' = [stage EXCEPT ![r] = to],
           UNCHANGED <<task, free>>
    PROVE  Permits' /\ free' \in 0..MaxConcurrency
<1>1. Scoring' = Scoring
  BY DEF Scoring
<1>2. Busy' = Busy
  BY <1>1, BatchCounted DEF IInv
<1>3. QED
  BY <1>2 DEF IInv, TypeOK, Permits

LEMMA Advances ==
    ASSUME IInv, NEW r \in Request, NEW taken, Advance(r, taken)
    PROVE  /\ stage' = [stage EXCEPT ![r] = "between"]
           /\ pos' \in [Request -> Nat] /\ \A q \in Request \ {r} : pos'[q] = pos[q]
BY DEF Advance, Go, IInv, Counters

LEMMA AdvanceKeeps ==
    ASSUME IInv, NEW r \in Request, NEW taken, Advance(r, taken),
           stage[r] # "batch", UNCHANGED <<metrics, first, task, thread, now, free>>,
           \A c \in Candidate : task[r][c] \notin Unfinished,
           \A x \in thread : x[1] # r
    PROVE  IInv'
<1>1. /\ stage' = [stage EXCEPT ![r] = "between"] /\ "between" \in Stages \ {"window", "batch"}
      /\ pos' \in [Request -> Nat] /\ \A q \in Request \ {r} : pos'[q] = pos[q]
  BY Advances
<1>2. Permits' /\ free' \in 0..MaxConcurrency
  BY <1>1, PlainMoves
<1>3. QED
  BY <1>1, <1>2, RequestMoves

LEMMA GoKeeps ==
    ASSUME IInv, NEW r \in Request, NEW to \in Stages \ {"window", "batch"}, Go(r, to),
           stage[r] # "batch", UNCHANGED <<metrics, pos, first, task, thread, now, free>>,
           to \in Owning \/ \A c \in Candidate : task[r][c] \notin Unfinished,
           to \in Broken \/ \A x \in thread : x[1] # r
    PROVE  IInv'
<1>1. /\ stage' = [stage EXCEPT ![r] = to]
      /\ pos' \in [Request -> Nat] /\ \A q \in Request \ {r} : pos'[q] = pos[q]
  BY DEF Go, IInv, Counters
<1>2. Permits' /\ free' \in 0..MaxConcurrency
  BY <1>1, PlainMoves
<1>3. QED
  BY <1>1, <1>2, RequestMoves

\* A batch call takes a permit when it begins and gives it back however it ends.
LEMMA BatchKeeps ==
    ASSUME IInv, NEW r \in Request, NEW to \in {"batch", "between", "failed", "cancelled"},
           stage' = [stage EXCEPT ![r] = to],
           \/ stage[r] = "queued" /\ to = "batch" /\ free > 0 /\ free' = free - 1
           \/ stage[r] = "batch" /\ to # "batch" /\ free' = free + 1,
           UNCHANGED <<metrics, first, task, thread, now>>,
           pos' \in [Request -> Nat], \A q \in Request \ {r} : pos'[q] = pos[q]
    PROVE  IInv'
<1>1. Scoring' = Scoring
  BY DEF Scoring
<1>2. \/ free > 0 /\ free' = free - 1 /\ Busy' = Busy + 1
      \/ free' = free + 1 /\ Busy' = Busy - 1
  BY <1>1, BatchCounted DEF IInv
<1>3. Permits' /\ free' \in 0..MaxConcurrency
  BY <1>2, PermitTaken, PermitReturned
<1>4. \A c \in Candidate : task[r][c] \notin Unfinished
  BY DEF IInv, Settled
<1>5. \A x \in thread : x[1] # r
  BY NoThreads
<1>6. QED
  BY <1>3, <1>4, <1>5, RequestMoves

(***************************************************************************)
(* A window opens, and the steps of its tasks.                              *)
(***************************************************************************)

LEMMA WindowOpens ==
    ASSUME IInv, NEW r \in Request, NEW from \in Int, OpenWindow(r, from),
           stage[r] # "batch", stage' = [stage EXCEPT ![r] = "window"],
           \A c \in Candidate : task[r][c] # "scoring",
           \A x \in thread : x[1] # r,
           UNCHANGED <<metrics, pos, thread, now, free>>
    PROVE  IInv'
<1>1. /\ stage' \in [Request -> Stages] /\ stage'[r] = "window"
      /\ \A q \in Request \ {r} : stage'[q] = stage[q]
  BY DEF IInv, TypeOK
<1>2. /\ first' \in [Request -> Int]
      /\ first'[r] = from /\ \A q \in Request \ {r} : first'[q] = first[q]
  BY DEF OpenWindow, IInv, Counters
<1> DEFINE opened == from..Min({from + Window - 1, N})
<1>3. /\ \A c \in Candidate : task'[r][c] = IF c \in opened THEN "ready" ELSE "none"
      /\ \A q \in Request \ {r} : task'[q] = task[q]
      /\ task' \in [Request -> [Candidate -> Task]]
  BY DEF OpenWindow, IInv, TypeOK
<1> HIDE DEF opened
<1>4. TypeOK'
  BY <1>1, <1>3 DEF IInv, TypeOK
<1>5. Counters'
  <2>1. SUFFICES ASSUME NEW q \in Request, stage'[q] = "window",
                        NEW c \in Candidate, task'[q][c] \in Unfinished
                 PROVE  c \in first'[q]..Min({first'[q] + Window - 1, N})
    BY <1>2 DEF IInv, Counters, InWindow
  <2>2. CASE q = r
    <3>1. c \in opened
      BY <1>3, <2>1, <2>2
    <3>2. QED
      BY <1>2, <2>2, <3>1 DEF opened
  <2>3. CASE q # r
    BY <1>1, <1>2, <1>3, <2>1, <2>3 DEF IInv, Counters, InWindow
  <2>4. QED
    BY <2>2, <2>3
<1>6. Settled'
  BY <1>1, <1>3 DEF IInv, Settled
<1>7. Threads'
  <2>1. SUFFICES ASSUME NEW x \in thread
                 PROVE  \/ task'[x[1]][x[2]] = "scoring" /\ x[3] = pos[x[1]]
                        \/ stage'[x[1]] \in Broken
    BY DEF Threads
  <2>2. x[1] \in Request \ {r}
    BY DEF IInv, TypeOK
  <2>3. QED
    BY <1>1, <1>3, <2>2 DEF IInv, Threads
<1>8. Scoring' = Scoring
  <2>1. \A q \in Request, c \in Candidate : task'[q][c] = "scoring" <=> task[q][c] = "scoring"
    <3>1. \A c \in Candidate : task'[r][c] # "scoring" /\ task[r][c] # "scoring"
      BY <1>3
    <3>2. QED
      BY <1>3, <3>1
  <2>2. \A x \in Pair : x[1] \in Request /\ x[2] \in Candidate
    BY DEF Pair
  <2>3. QED
    BY <2>1, <2>2 DEF Scoring
<1>9. Busy' = Busy
  <2>1. TypeOK /\ "window" \in Stages
    BY DEF IInv
  <2>2. stage[r] = "batch" <=> "window" = "batch"
    OBVIOUS
  <2>3. QED
    BY <1>8, <2>1, <2>2, BatchCounted
<1>10. QED
  BY <1>4, <1>5, <1>6, <1>7, <1>9 DEF IInv, Permits

\* What a task's step needs of the request and of the threads.
LEMMA TaskMoves ==
    ASSUME IInv, NEW r \in Request, NEW c \in Candidate, NEW to \in Task \ {"none"},
           task[r][c] \in Unfinished, Become(r, c, to),
           stage[r] = "window" \/ (stage[r] \in {"failing", "draining"} /\ to \notin Unfinished),
           UNCHANGED <<metrics, stage, pos, first, now>>,
           thread' \subseteq Request \X Candidate \X Nat,
           \A x \in thread' : x \in thread \/ x = <<r, c, pos[r]>>,
           stage[r] = "window" /\ to # "scoring" => <<r, c, pos[r]>> \notin thread',
           Permits', free' \in 0..MaxConcurrency
    PROVE  IInv'
<1>1. /\ task' \in [Request -> [Candidate -> Task]] /\ task'[r][c] = to
      /\ \A q \in Request, d \in Candidate :
            <<q, d>> # <<r, c>> => task'[q][d] = task[q][d]
  BY DEF Become, IInv, TypeOK
<1>2. TypeOK'
  BY <1>1 DEF IInv, TypeOK
<1>3. Counters'
  <2>1. SUFFICES ASSUME NEW q \in Request, stage[q] = "window",
                        NEW d \in Candidate, task'[q][d] \in Unfinished
                 PROVE  d \in InWindow(q)
    BY DEF IInv, Counters, InWindow
  <2>2. task[q][d] \in Unfinished
    BY <1>1, <2>1
  <2>3. QED
    BY <2>1, <2>2 DEF IInv, Counters
<1>4. Settled'
  <2>1. SUFFICES ASSUME NEW q \in Request, stage[q] \notin Owning, NEW d \in Candidate
                 PROVE  task'[q][d] \notin Unfinished
    BY DEF Settled
  <2>2. <<q, d>> # <<r, c>>
    BY <2>1
  <2>3. QED
    BY <1>1, <2>1, <2>2 DEF IInv, Settled
<1>5. Threads'
  <2>1. SUFFICES ASSUME NEW x \in thread', stage[x[1]] \notin Broken
                 PROVE  task'[x[1]][x[2]] = "scoring" /\ x[3] = pos[x[1]]
    BY DEF Threads
  <2>2. /\ x[1] \in Request /\ x[2] \in Candidate /\ x = <<x[1], x[2], x[3]>>
    BY <2>1
  <2>3. CASE <<x[1], x[2]>> = <<r, c>>
    <3>1. stage[r] = "window" /\ x[1] = r /\ x[2] = c
      BY <2>1, <2>3
    <3>2. x[3] = pos[r]
      BY <2>1, <3>1 DEF IInv, Threads
    <3>3. x = <<r, c, pos[r]>>
      BY <2>2, <3>1, <3>2
    <3>4. to = "scoring"
      BY <2>1, <3>1, <3>3
    <3>5. QED
      BY <1>1, <3>1, <3>2, <3>4
  <2>4. CASE <<x[1], x[2]>> # <<r, c>>
    <3>1. x \in thread
      BY <2>1, <2>2, <2>4
    <3>2. QED
      BY <1>1, <2>1, <2>2, <2>4, <3>1 DEF IInv, Threads
  <2>5. QED
    BY <2>3, <2>4
<1>6. QED
  BY <1>2, <1>3, <1>4, <1>5 DEF IInv

LEMMA LookupKeeps ==
    ASSUME IInv, NEW r \in Request, NEW c \in Candidate,
           KeyFails(r, c) \/ Lookup(r, c) \/ StoreScore(r, c)
    PROVE  IInv'
<1>1. PICK to \in {"waiting", "done", "failed"} : Become(r, c, to)
  BY DEF KeyFails, Lookup, StoreScore
<1>2. /\ stage[r] = "window" /\ task[r][c] \in {"ready", "storing"}
      /\ UNCHANGED <<metrics, stage, pos, first, now, thread, free>>
  BY DEF KeyFails, Lookup, StoreScore, Runs
<1>3. \A x \in thread : x # <<r, c, pos[r]>>
  BY <1>2 DEF IInv, Threads
<1>4. Busy' = Busy
  BY <1>1, <1>2, ScoringCounted DEF Become, IInv
<1>5. Permits' /\ free' \in 0..MaxConcurrency
  BY <1>2, <1>4 DEF IInv, TypeOK, Permits
<1>6. thread' \subseteq Request \X Candidate \X Nat
  BY <1>2 DEF IInv, TypeOK
<1>7. QED
  BY <1>1, <1>2, <1>3, <1>5, <1>6, TaskMoves

LEMMA AcquireKeeps ==
    ASSUME IInv, NEW r \in Request, NEW c \in Candidate, Acquire(r, c)
    PROVE  IInv'
<1>1. /\ stage[r] = "window" /\ task[r][c] = "waiting" /\ Become(r, c, "scoring")
      /\ free > 0 /\ free' = free - 1
      /\ UNCHANGED <<metrics, stage, pos, first, now>>
      /\ thread' \subseteq thread \cup {<<r, c, pos[r]>>}
  BY DEF Acquire, Runs
<1>2. Busy' = Busy + 1
  BY <1>1, ScoringCounted DEF Become, IInv
<1>3. Permits' /\ free' \in 0..MaxConcurrency
  BY <1>1, <1>2, PermitTaken
<1>4. thread' \subseteq Request \X Candidate \X Nat
  <2>1. pos[r] \in Nat
    BY DEF IInv, Counters
  <2>2. QED
    BY <1>1, <2>1 DEF IInv, TypeOK
<1>5. QED
  BY <1>1, <1>3, <1>4, TaskMoves

LEMMA ScoreKeeps ==
    ASSUME IInv, NEW r \in Request, NEW c \in Candidate, ScoreReturns(r, c) \/ ScoreRaises(r, c)
    PROVE  IInv'
<1>1. PICK to \in {"storing", "done", "failed"} : Become(r, c, to)
  BY DEF ScoreReturns, ScoreRaises
<1>2. /\ stage[r] = "window" /\ task[r][c] = "scoring" /\ free' = free + 1
      /\ UNCHANGED <<metrics, stage, pos, first, now>>
      /\ thread' = thread \ {<<r, c, pos[r]>>}
  BY DEF ScoreReturns, ScoreRaises, Runs
<1>3. Busy' = Busy - 1
  BY <1>1, <1>2, ScoringCounted DEF Become, IInv
<1>4. Permits' /\ free' \in 0..MaxConcurrency
  BY <1>2, <1>3, PermitReturned
<1>5. thread' \subseteq Request \X Candidate \X Nat
  BY <1>2 DEF IInv, TypeOK
<1>6. QED
  BY <1>1, <1>2, <1>4, <1>5, TaskMoves

LEMMA CancelKeeps ==
    ASSUME IInv, NEW r \in Request, NEW c \in Candidate, CancelTask(r, c)
    PROVE  IInv'
<1>1. /\ stage[r] \in {"failing", "draining"} /\ task[r][c] \in Unfinished
      /\ Become(r, c, "cancelled")
      /\ UNCHANGED <<metrics, stage, pos, first, now, thread>>
  BY DEF CancelTask
<1>2. Permits' /\ free' \in 0..MaxConcurrency
  <2> DEFINE to == "cancelled"
  <2>1. /\ task' = [task EXCEPT ![r][c] = to] /\ stage' = stage
        /\ to \in Task /\ to # "scoring" /\ TypeOK
    BY <1>1 DEF Become, IInv
  <2> HIDE DEF to
  <2>2. CASE task[r][c] = "scoring"
    <3>1. Busy' = Busy - 1
      BY <2>1, <2>2, ScoringCounted
    <3>2. free' = free + 1
      BY <2>2 DEF CancelTask
    <3>3. QED
      BY <3>1, <3>2, PermitReturned
  <2>3. CASE task[r][c] # "scoring"
    <3>1. Busy' = Busy
      BY <2>1, <2>3, ScoringCounted
    <3>2. free' = free
      BY <2>3 DEF CancelTask
    <3>3. QED
      BY <3>1, <3>2 DEF IInv, TypeOK, Permits
  <2>4. QED
    BY <2>2, <2>3
<1>3. thread' \subseteq Request \X Candidate \X Nat
  BY <1>1 DEF IInv, TypeOK
<1>4. QED
  BY <1>1, <1>2, <1>3, TaskMoves

\* The end of a callback that nobody waits for, the clock, and the cache.
LEMMA OtherKeeps ==
    ASSUME IInv, UNCHANGED <<metrics, stage, pos, first, task, free>>,
           thread' \subseteq thread, now' \in 0..MaxTime
    PROVE  IInv'
<1>1. TypeOK'
  BY DEF IInv, TypeOK
<1>2. Counters'
  BY DEF IInv, Counters, InWindow
<1>3. Settled' /\ Threads'
  BY DEF IInv, Settled, Threads
<1>4. Scoring' = Scoring /\ Batching' = Batching
  BY DEF Scoring, Batching
<1>5. Permits'
  BY <1>4 DEF IInv, Permits, Busy
<1>6. QED
  BY <1>1, <1>2, <1>3, <1>5 DEF IInv

(***************************************************************************)
(* The actions.                                                             *)
(***************************************************************************)

LEMMA InitIInv == Init => IInv
<1> SUFFICES ASSUME Init PROVE IInv
  OBVIOUS
<1>1. TypeOK /\ Counters /\ Settled /\ Threads
  BY ScoringSizes DEF Init, TypeOK, Counters, Settled, Threads
<1>2. Scoring = {} /\ Batching = {}
  BY DEF Init, Scoring, Batching, Pair
<1>3. Permits
  BY <1>2, ScoringSizes, FS_EmptySet DEF Init, Permits, Busy
<1>4. QED
  BY <1>1, <1>3 DEF IInv

LEMMA BetweenKeeps ==
    ASSUME IInv, NEW r \in Request, Skip(r) \/ BeginMetric(r) \/ Combine(r)
    PROVE  IInv'
<1>1. /\ stage[r] = "between" /\ UNCHANGED <<metrics, thread, now, free>>
  BY DEF Skip, BeginMetric, Combine
<1>2. /\ \A c \in Candidate : task[r][c] \notin Unfinished
      /\ \A x \in thread : x[1] # r
  BY <1>1, NoThreads DEF IInv, Settled
<1>3. CASE Skip(r)
  <2>1. Advance(r, Nobody) /\ UNCHANGED <<first, task>>
    BY <1>3 DEF Skip
  <2>2. QED
    BY <1>1, <1>2, <2>1, AdvanceKeeps
<1>4. CASE BeginMetric(r) /\ Go(r, "window") /\ OpenWindow(r, 1)
  <2>1. stage' = [stage EXCEPT ![r] = "window"] /\ pos' = pos
    BY <1>4 DEF Go, BeginMetric
  <2>2. /\ \A c \in Candidate : task[r][c] # "scoring"
        /\ stage[r] # "batch" /\ 1 \in Int /\ OpenWindow(r, 1)
    BY <1>1, <1>2, <1>4
  <2>3. QED
    BY <1>1, <1>2, <2>1, <2>2, WindowOpens
<1>5. CASE BeginMetric(r) /\ (Go(r, "queued") \/ Go(r, "model")) /\ UNCHANGED <<first, task>>
  <2>1. pos' = pos
    BY <1>5 DEF BeginMetric
  <2>2. QED
    BY <1>1, <1>2, <1>5, <2>1, GoKeeps
<1>6. CASE Combine(r)
  <2>1. PICK to \in {"scored", "failed"} : Go(r, to)
    BY <1>6 DEF Combine
  <2>2. UNCHANGED <<pos, first, task>>
    BY <1>6 DEF Combine
  <2>3. QED
    BY <1>1, <1>2, <2>1, <2>2, GoKeeps
<1>7. QED
  BY <1>3, <1>4, <1>5, <1>6 DEF BeginMetric

LEMMA ModelKeeps ==
    ASSUME IInv, NEW r \in Request, ModelScored(r) \/ ModelFailed(r)
    PROVE  IInv'
<1>1. stage[r] = "model" /\ UNCHANGED <<metrics, first, task, thread, now, free>>
  BY DEF ModelScored, ModelFailed, AllScored, NotAllScored
<1>2. /\ \A c \in Candidate : task[r][c] \notin Unfinished
      /\ \A x \in thread : x[1] # r
  BY <1>1, NoThreads DEF IInv, Settled
<1>3. CASE ModelScored(r)
  BY <1>1, <1>2, <1>3, AdvanceKeeps DEF ModelScored, AllScored
<1>4. CASE ModelFailed(r)
  BY <1>1, <1>2, <1>4, GoKeeps DEF ModelFailed, NotAllScored
<1>5. QED
  BY <1>3, <1>4

LEMMA BatchStepKeeps ==
    ASSUME IInv, NEW r \in Request, EnterBatch(r) \/ BatchScored(r) \/ BatchFailed(r)
    PROVE  IInv'
<1>1. UNCHANGED <<metrics, first, task, thread, now>>
  BY DEF EnterBatch, BatchScored, BatchFailed, AllScored, NotAllScored
<1>2. CASE EnterBatch(r)
  <2>1. /\ stage[r] = "queued" /\ free > 0 /\ free' = free - 1
        /\ stage' = [stage EXCEPT ![r] = "batch"] /\ pos' = pos
    BY <1>2 DEF EnterBatch, Go
  <2>2. pos' \in [Request -> Nat] /\ \A q \in Request \ {r} : pos'[q] = pos[q]
    BY <2>1 DEF IInv, Counters
  <2>3. QED
    BY <1>1, <2>1, <2>2, BatchKeeps
<1>3. CASE BatchScored(r)
  <2>1. /\ stage[r] = "batch" /\ free' = free + 1
        /\ Advance(r, [c \in Candidate |-> Fresh(r, c)])
    BY <1>3 DEF BatchScored, AllScored
  <2>2. /\ stage' = [stage EXCEPT ![r] = "between"]
        /\ pos' \in [Request -> Nat] /\ \A q \in Request \ {r} : pos'[q] = pos[q]
    BY <2>1, Advances
  <2>3. QED
    BY <1>1, <2>1, <2>2, BatchKeeps
<1>4. CASE BatchFailed(r)
  <2>1. /\ stage[r] = "batch" /\ free' = free + 1
        /\ stage' = [stage EXCEPT ![r] = "failed"] /\ pos' = pos
    BY <1>4 DEF BatchFailed, NotAllScored, Go
  <2>2. pos' \in [Request -> Nat] /\ \A q \in Request \ {r} : pos'[q] = pos[q]
    BY <2>1 DEF IInv, Counters
  <2>3. QED
    BY <1>1, <2>1, <2>2, BatchKeeps
<1>5. QED
  BY <1>2, <1>3, <1>4

LEMMA WindowDoneKeeps ==
    ASSUME IInv, NEW r \in Request, WindowDone(r)
    PROVE  IInv'
<1>1. /\ stage[r] = "window" /\ \A c \in InWindow(r) : task[r][c] = "done"
      /\ UNCHANGED <<metrics, free, thread, now>>
  BY DEF WindowDone
<1>2. \A c \in Candidate : task[r][c] \notin Unfinished
  BY <1>1 DEF IInv, Counters
<1>3. \A x \in thread : x[1] # r
  BY <1>1, <1>2 DEF IInv, TypeOK, Threads
<1>4. CASE /\ OpenWindow(r, first[r] + Window) /\ UNCHANGED <<stage, pos>>
  <2>1. first[r] + Window \in Int
    BY ScoringSizes DEF Window, IInv, Counters
  <2>2. stage' = [stage EXCEPT ![r] = "window"]
    BY <1>1, <1>4 DEF IInv, TypeOK
  <2>3. QED
    BY <1>1, <1>2, <1>3, <1>4, <2>1, <2>2, WindowOpens
<1>5. CASE Advance(r, got[r]) /\ UNCHANGED <<first, task>>
  BY <1>1, <1>2, <1>3, <1>5, AdvanceKeeps
<1>6. QED
  BY <1>4, <1>5 DEF WindowDone

LEMMA NoticeKeeps == ASSUME IInv, NEW r \in Request, Notice(r) PROVE IInv'
BY GoKeeps DEF Notice

LEMMA DrainedKeeps == ASSUME IInv, NEW r \in Request, Drained(r) PROVE IInv'
<1>1. /\ stage[r] \in {"failing", "draining"}
      /\ \A c \in Candidate : task[r][c] \notin Unfinished
      /\ UNCHANGED <<metrics, pos, first, task, thread, now, free>>
  BY DEF Drained
<1>2. PICK to \in {"failed", "cancelled"} : Go(r, to)
  BY DEF Drained
<1>3. QED
  BY <1>1, <1>2, GoKeeps

LEMMA InterruptKeeps == ASSUME IInv, NEW r \in Request, Interrupt(r) PROVE IInv'
<1>1. UNCHANGED <<metrics, pos, first, task, thread, now>>
  BY DEF Interrupt
<1>2. CASE stage[r] \in Owning /\ Go(r, "draining") /\ UNCHANGED free
  BY <1>1, <1>2, GoKeeps
<1>3. CASE stage[r] \in {"queued", "model"} /\ Go(r, "cancelled") /\ UNCHANGED free
  <2>1. \A c \in Candidate : task[r][c] \notin Unfinished
    BY <1>3 DEF IInv, Settled
  <2>2. QED
    BY <1>1, <1>3, <2>1, GoKeeps
<1>4. CASE stage[r] = "batch" /\ Go(r, "cancelled") /\ free' = free + 1
  <2>1. stage' = [stage EXCEPT ![r] = "cancelled"]
    BY <1>4 DEF Go
  <2>2. pos' \in [Request -> Nat] /\ \A q \in Request \ {r} : pos'[q] = pos[q]
    BY <1>1 DEF IInv, Counters
  <2>3. QED
    BY <1>1, <1>4, <2>1, <2>2, BatchKeeps
<1>5. QED
  BY <1>2, <1>3, <1>4 DEF Interrupt

LEMMA Inductive == IInv /\ [Next]_vars => IInv'
<1> SUFFICES ASSUME IInv, [Next]_vars PROVE IInv'
  OBVIOUS
<1>1. ASSUME NEW r \in Request, RequestStep(r) \/ Interrupt(r) PROVE IInv'
  BY <1>1, BetweenKeeps, ModelKeeps, BatchStepKeeps, WindowDoneKeeps, NoticeKeeps, DrainedKeeps,
     InterruptKeeps DEF RequestStep
<1>2. ASSUME NEW r \in Request, NEW c \in Candidate, TaskStep(r, c) PROVE IInv'
  BY <1>2, LookupKeeps, AcquireKeeps, ScoreKeeps, CancelKeeps DEF TaskStep
<1>3. now \in 0..MaxTime
  BY DEF IInv, TypeOK
<1>4. ASSUME NEW x \in thread, ThreadEnds(x) PROVE IInv'
  BY <1>3, <1>4, OtherKeeps DEF ThreadEnds
<1>5. CASE Tick
  <2>1. now' \in 0..MaxTime
    BY <1>3, <1>5, ScoringSizes DEF Tick
  <2>2. QED
    BY <1>5, <2>1, OtherKeeps DEF Tick
<1>6. ASSUME NEW namespace, Clear(namespace) PROVE IInv'
  BY <1>3, <1>6, OtherKeeps DEF Clear
<1>7. CASE UNCHANGED vars
  BY <1>3, <1>7, OtherKeeps DEF vars
<1>8. QED
  BY <1>1, <1>2, <1>4, <1>5, <1>6, <1>7 DEF Next

(***************************************************************************)
(* Theorem.                                                                 *)
(***************************************************************************)

\* For any requests, windows and permits, whoever leaves metric_scores leaves no task of
\* its own behind, every permit not in use is back, and only the thread of a callback
\* whose request failed or was cancelled may outlive its task.
THEOREM NothingIsLeftRunning == Spec => []NothingLeftRunning
<1>1. IInv => NothingLeftRunning
  <2> SUFFICES ASSUME IInv PROVE NothingLeftRunning
    OBVIOUS
  <2>1. TypeOK
    BY DEF IInv
  <2>2. \A r \in Request : stage[r] \in Ended => \A c \in Candidate : task[r][c] \notin Unfinished
    BY DEF IInv, Settled
  <2>3. free + Cardinality(Scoring) + Cardinality(Batching) = MaxConcurrency
    BY BusyFinite DEF IInv, TypeOK, Permits, Busy
  <2>4. \A x \in thread : \/ task[x[1]][x[2]] = "scoring"
                          \/ stage[x[1]] \in {"failing", "draining", "failed", "cancelled"}
    BY DEF IInv, Threads
  <2>5. QED
    BY <2>1, <2>2, <2>3, <2>4 DEF NothingLeftRunning, Scoring, Batching, Pair
<1>2. QED
  BY <1>1, InitIInv, Inductive, PTL DEF Spec

(***************************************************************************)
(* What is left of a sequence of entries when keys are taken out of it.     *)
(***************************************************************************)

\* A set of natural numbers that is not empty has a least element.
LEMMA LeastNumber ==
    ASSUME NEW T \in SUBSET Nat, T # {}
    PROVE  \E n \in T : \A m \in T : n <= m
<1> DEFINE R == OpToRel(<, Nat)
<1>1. IsWellFoundedOn(R, Nat)
  BY NatLessThanWellFounded
<1>2. \E n \in T : \A m \in T : <<m, n>> \notin R
  <2> HIDE DEF R
  <2> QED
    BY <1>1, WFMin
<1>3. PICK n \in T : \A m \in T : <<m, n>> \notin R
  BY <1>2
<1>4. \A m \in T : ~ (m < n)
  BY <1>3 DEF OpToRel
<1>5. QED
  BY <1>4

\* The recursive function of Without, over the first m entries.
Step(F, s, gone, n) ==
    IF n = 0 THEN <<>> ELSE IF s[n].key \in gone THEN F[n - 1] ELSE Append(F[n - 1], s[n])
IsKept(F, s, gone, m) == F = [n \in 0..m |-> Step(F, s, gone, n)]

LEMMA KeptExists == ASSUME NEW s, NEW gone, NEW m \in Nat PROVE \E F : IsKept(F, s, gone, m)
<1> DEFINE B == {n \in Nat : ~ \E F : IsKept(F, s, gone, n)}
<1> SUFFICES ASSUME B # {} PROVE FALSE
  OBVIOUS
<1>1. PICK n \in B : \A k \in B : n <= k
  <2>1. B \in SUBSET Nat
    OBVIOUS
  <2> HIDE DEF B
  <2>2. QED
    BY <2>1, LeastNumber
<1>2. CASE n = 0
  <2> DEFINE F == [k \in 0..0 |-> <<>>]
  <2>1. IsKept(F, s, gone, 0)
    BY DEF IsKept, Step
  <2>2. QED
    BY <1>2, <2>1
<1>3. CASE n # 0
  <2>1. n - 1 \in Nat /\ n - 1 \notin B
    BY <1>1, <1>3
  <2>2. PICK F : IsKept(F, s, gone, n - 1)
    BY <2>1
  <2> DEFINE G == [k \in 0..n |-> IF k = n THEN Step(F, s, gone, n) ELSE F[k]]
  <2>3. ASSUME NEW k \in 0..n PROVE G[k] = Step(G, s, gone, k)
    <3>1. CASE k = 0
      BY <1>3, <2>1, <2>2, <3>1 DEF IsKept, Step
    <3>2. CASE k # 0
      <4>1. k - 1 \in 0..n /\ k - 1 # n /\ G[k - 1] = F[k - 1]
        BY <3>2
      <4>2. CASE k = n
        BY <3>2, <4>1, <4>2 DEF Step
      <4>3. CASE k # n
        <5>1. k \in 0..(n - 1) /\ G[k] = F[k]
          BY <4>3
        <5>2. F[k] = Step(F, s, gone, k)
          BY <2>2, <5>1 DEF IsKept
        <5>3. QED
          BY <3>2, <4>1, <5>1, <5>2 DEF Step
      <4>4. QED
        BY <4>2, <4>3
    <3>3. QED
      BY <3>1, <3>2
  <2>4. IsKept(G, s, gone, n)
    <3>1. G = [k \in 0..n |-> G[k]]
      OBVIOUS
    <3> HIDE DEF G
    <3>2. QED
      BY <2>3, <3>1 DEF IsKept
  <2>5. QED
    BY <2>4
<1>4. QED
  BY <1>2, <1>3

\* t is what of s has a key that is not gone, in the order of s: h says where it was.
Thinned(t, s, gone, n, h) ==
    /\ h \in [DOMAIN t -> 1..n]
    /\ \A i, j \in DOMAIN t : i < j => h[i] < h[j]
    /\ \A i \in DOMAIN t : t[i] = s[h[i]] /\ s[h[i]].key \notin gone
    /\ \A k \in 1..n : s[k].key \notin gone => \E i \in DOMAIN t : h[i] = k

LEMMA WithoutThins ==
    ASSUME NEW E, NEW s \in Seq(E), NEW gone
    PROVE  /\ Without(s, gone) \in Seq(E)
           /\ \E h : Thinned(Without(s, gone), s, gone, Len(s), h)
<1> DEFINE F == CHOOSE F : IsKept(F, s, gone, Len(s))
<1>1. IsKept(F, s, gone, Len(s)) /\ Len(s) \in Nat
  BY KeptExists
<1>2. Without(s, gone) = F[Len(s)]
  BY DEF Without, IsKept, Step
<1> HIDE DEF F
<1> DEFINE P(n) == F[n] \in Seq(E) /\ \E h : Thinned(F[n], s, gone, n, h)
           B == {n \in 0..Len(s) : ~ P(n)}
<1>3. SUFFICES ASSUME B # {} PROVE FALSE
  BY <1>1, <1>2
<1>4. PICK n \in B : \A k \in B : n <= k
  <2>1. B \in SUBSET Nat
    BY <1>1
  <2> HIDE DEF B
  <2>2. QED
    BY <1>3, <2>1, LeastNumber
<1>5. F[n] = Step(F, s, gone, n) /\ n \in 0..Len(s)
  BY <1>1 DEF IsKept
<1>6. CASE n = 0
  <2>1. F[n] = <<>>
    BY <1>5, <1>6 DEF Step
  <2>2. Thinned(<<>>, s, gone, 0, [i \in {} |-> 0])
    BY DEF Thinned
  <2>3. \E h : Thinned(F[n], s, gone, n, h)
    BY <1>6, <2>1, <2>2
  <2>4. F[n] \in Seq(E)
    BY <2>1
  <2>5. QED
    BY <2>3, <2>4
<1>7. CASE n # 0
  <2>1. n - 1 \in 0..Len(s) /\ n - 1 \notin B /\ n \in 1..Len(s)
    BY <1>1, <1>4, <1>7
  <2> DEFINE t == F[n - 1]
  <2>2. t \in Seq(E)
    BY <2>1
  <2>3. PICK h : Thinned(t, s, gone, n - 1, h)
    BY <2>1
  <2> HIDE DEF t
  <2>4. /\ \A i \in DOMAIN t : h[i] \in 1..(n - 1)
        /\ DOMAIN t = 1..Len(t) /\ Len(t) \in Nat /\ DOMAIN h = DOMAIN t
    BY <2>2, <2>3 DEF Thinned
  <2>5. CASE s[n].key \in gone
    <3>1. F[n] = t
      BY <1>5, <1>7, <2>5 DEF Step, t
    <3>2. Thinned(t, s, gone, n, h)
      BY <2>1, <2>3, <2>4, <2>5 DEF Thinned
    <3>3. QED
      BY <2>2, <3>1, <3>2
  <2>6. CASE s[n].key \notin gone
    <3> DEFINE u == Append(t, s[n])
               g == [i \in 1..(Len(t) + 1) |-> IF i = Len(t) + 1 THEN n ELSE h[i]]
    <3>1. F[n] = u
      BY <1>5, <1>7, <2>6 DEF Step, t
    <3>2. /\ u \in Seq(E) /\ DOMAIN u = 1..(Len(t) + 1) /\ u[Len(t) + 1] = s[n]
          /\ \A i \in DOMAIN t : u[i] = t[i]
      BY <2>1, <2>2, <2>4
    <3>3. /\ \A i \in DOMAIN t : g[i] = h[i] /\ i \in 1..(Len(t) + 1)
          /\ g[Len(t) + 1] = n /\ Len(t) + 1 \in 1..(Len(t) + 1)
          /\ \A i \in 1..(Len(t) + 1) : i \in DOMAIN t \/ i = Len(t) + 1
      BY <2>4
    <3>4. g \in [DOMAIN u -> 1..n]
      BY <2>1, <2>4, <3>2
    <3> HIDE DEF u, g
    <3>5. ASSUME NEW i \in DOMAIN u, NEW j \in DOMAIN u, i < j PROVE g[i] < g[j]
      <4>1. i \in DOMAIN t
        BY <2>4, <3>2, <3>5
      <4>2. CASE j \in DOMAIN t
        BY <2>3, <3>3, <3>5, <4>1, <4>2 DEF Thinned
      <4>3. CASE j = Len(t) + 1
        BY <2>1, <2>4, <3>3, <4>1, <4>3
      <4>4. QED
        BY <3>2, <3>3, <4>2, <4>3
    <3>6. ASSUME NEW i \in DOMAIN u PROVE u[i] = s[g[i]] /\ s[g[i]].key \notin gone
      BY <2>3, <2>6, <3>2, <3>3 DEF Thinned
    <3>7. ASSUME NEW k \in 1..n, s[k].key \notin gone PROVE \E i \in DOMAIN u : g[i] = k
      <4>1. CASE k = n
        BY <3>2, <3>3, <4>1
      <4>2. CASE k # n
        <5>1. k \in 1..(n - 1)
          BY <2>1, <4>2
        <5>2. PICK i \in DOMAIN t : h[i] = k
          BY <2>3, <3>7, <5>1 DEF Thinned
        <5>3. QED
          BY <3>2, <3>3, <5>2
      <4>3. QED
        BY <4>1, <4>2
    <3>8. Thinned(u, s, gone, n, g)
      BY <3>4, <3>5, <3>6, <3>7 DEF Thinned
    <3>9. QED
      BY <3>1, <3>2, <3>8
  <2>7. QED
    BY <2>5, <2>6
<1>8. QED
  BY <1>6, <1>7

(***************************************************************************)
(* The cache.                                                               *)
(***************************************************************************)

\* The score of metric i for candidate c of request r, and the results there may be.
Own(r, c, i) == [about |-> About(r, c, i), late |-> FALSE]
Subject == Range(TenantOf) \X Range(Query) \X Range(ContentOf) \X Nat
Result == {None} \cup [about : Subject, late : BOOLEAN]

\* An entry of the cache holds what its key says, and expires in its time.
Entry == {e \in [key : Keys, value : [about : Subject, at : Nat], expires : Nat \cup {None}] :
             /\ e.value.about = <<e.key.tenant, e.key.query, e.key.content, e.key.metric>>
             /\ e.expires = IF Ttl = None THEN None ELSE e.value.at + Ttl}

\* The cache: entries as their keys say, each key once; what comes after an entry has been
\* used since its last use; and a key that is missing has seen that many others used.
Unique(s) == \A i, j \in DOMAIN s : s[i].key = s[j].key => i = j
InOrderOfUse(s, used) ==
    \A i, j \in DOMAIN s : i < j /\ used[s[i].key] # None => s[j].key \in used[s[i].key]
Kept(s, used) ==
    \A k \in Keys : used[k] # None =>
        /\ IsFiniteSet(used[k])
        /\ k \notin KeysOf(s) => Cardinality(used[k]) >= MaxEntries

CacheInv ==
    /\ items \in Seq(Entry) /\ Len(items) <= MaxEntries /\ Unique(items)
    /\ recent \in [Keys -> {None} \cup SUBSET Keys]
    /\ InOrderOfUse(items, recent) /\ Kept(items, recent)

LEMMA EntryFacts ==
    ASSUME NEW s \in Seq(Entry)
    PROVE  /\ \A i \in DOMAIN s : s[i] \in Entry /\ s[i].key \in Keys
           /\ KeysOf(s) \subseteq Keys /\ DOMAIN s = 1..Len(s) /\ Len(s) \in Nat
<1>1. \A e \in Entry : e.key \in Keys
  BY DEF Entry
<1>2. \A i \in DOMAIN s : s[i] \in Entry
  OBVIOUS
<1>3. QED
  BY <1>1, <1>2 DEF KeysOf

LEMMA KeysCounted ==
    ASSUME NEW s \in Seq(Entry), Unique(s)
    PROVE  IsFiniteSet(KeysOf(s)) /\ Cardinality(KeysOf(s)) = Len(s)
<1> DEFINE n == Len(s)
           f == [i \in 1..n |-> s[i].key]
<1>1. n \in Nat /\ DOMAIN s = 1..n
  BY EntryFacts
<1>2. f \in Surjection(1..n, KeysOf(s)) /\ f \in Injection(1..n, KeysOf(s))
  BY <1>1 DEF Surjection, Injection, IsInjective, KeysOf, Unique
<1>3. IsFiniteSet(1..n) /\ Cardinality(1..n) = n
  BY <1>1, FS_Interval
<1> HIDE DEF f
<1>4. QED
  BY <1>1, <1>2, <1>3, FS_Surjection

\* Taking keys out keeps the order.
LEMMA WithoutKeeps ==
    ASSUME CacheInv, NEW gone
    PROVE  /\ Without(items, gone) \in Seq(Entry)
           /\ Unique(Without(items, gone)) /\ InOrderOfUse(Without(items, gone), recent)
           /\ KeysOf(Without(items, gone)) = KeysOf(items) \ gone
           /\ Len(Without(items, gone)) <= Len(items)
<1> DEFINE o == Without(items, gone)
<1>1. o \in Seq(Entry) /\ items \in Seq(Entry)
  BY WithoutThins DEF CacheInv
<1>2. PICK h : Thinned(o, items, gone, Len(items), h)
  BY WithoutThins DEF CacheInv
<1> HIDE DEF o
<1>3. /\ DOMAIN o = 1..Len(o) /\ Len(o) \in Nat /\ DOMAIN items = 1..Len(items) /\ Len(items) \in Nat
      /\ \A i \in DOMAIN o : h[i] \in DOMAIN items /\ o[i] = items[h[i]] /\ items[h[i]].key \notin gone
      /\ \A i, j \in DOMAIN o : i < j => h[i] < h[j]
  BY <1>1, <1>2, EntryFacts DEF Thinned
<1>4. Unique(o)
  <2> SUFFICES ASSUME NEW i \in DOMAIN o, NEW j \in DOMAIN o, o[i].key = o[j].key PROVE i = j
    BY DEF Unique
  <2>1. h[i] = h[j]
    BY <1>3 DEF CacheInv, Unique
  <2>2. ~(i < j) /\ ~(j < i)
    BY <1>3, <2>1
  <2>3. QED
    BY <1>3, <2>2
<1>5. InOrderOfUse(o, recent)
  <2> SUFFICES ASSUME NEW i \in DOMAIN o, NEW j \in DOMAIN o, i < j, recent[o[i].key] # None
               PROVE  o[j].key \in recent[o[i].key]
    BY DEF InOrderOfUse
  <2>1. /\ h[i] \in DOMAIN items /\ h[j] \in DOMAIN items /\ h[i] < h[j]
        /\ o[i] = items[h[i]] /\ o[j] = items[h[j]]
    BY <1>3
  <2>2. QED
    BY <2>1 DEF CacheInv, InOrderOfUse
<1>6. KeysOf(o) = KeysOf(items) \ gone
  <2>1. ASSUME NEW k \in KeysOf(o) PROVE k \in KeysOf(items) \ gone
    BY <1>3 DEF KeysOf
  <2>2. ASSUME NEW k \in KeysOf(items) \ gone PROVE k \in KeysOf(o)
    <3>1. PICK j \in DOMAIN items : items[j].key = k
      BY DEF KeysOf
    <3>2. PICK i \in DOMAIN o : h[i] = j
      BY <1>2, <1>3, <3>1 DEF Thinned
    <3>3. QED
      BY <1>3, <3>1, <3>2 DEF KeysOf
  <2>3. QED
    BY <2>1, <2>2
<1>7. Len(o) <= Len(items)
  <2>1. KeysOf(o) \in SUBSET KeysOf(items)
    BY <1>6
  <2>2. Cardinality(KeysOf(o)) <= Cardinality(KeysOf(items))
    BY <1>1, <2>1, KeysCounted, FS_Subset DEF CacheInv
  <2>3. QED
    BY <1>1, <1>4, <2>2, KeysCounted DEF CacheInv
<1>8. QED
  BY <1>1, <1>4, <1>5, <1>6, <1>7 DEF o

\* An entry is put at the end, in the place of what its key had.
LEMMA AppendedKeeps ==
    ASSUME CacheInv, NEW k \in Keys, NEW e \in Entry, e.key = k,
           NEW new, new = Append(Others(items, k), e)
    PROVE  /\ new \in Seq(Entry) /\ Unique(new) /\ KeysOf(new) = KeysOf(items) \cup {k}
           /\ Use(k) \in [Keys -> {None} \cup SUBSET Keys]
           /\ InOrderOfUse(new, Use(k)) /\ Kept(new, Use(k))
           /\ Len(new) <= MaxEntries + 1
<1> DEFINE o == Others(items, k)
           n == Len(o)
<1>1. /\ o \in Seq(Entry) /\ Unique(o) /\ InOrderOfUse(o, recent)
      /\ KeysOf(o) = KeysOf(items) \ {k} /\ n <= Len(items)
  BY WithoutKeeps DEF Others
<1> HIDE DEF o
<1>2. DOMAIN o = 1..n /\ n \in Nat /\ \A i \in DOMAIN o : o[i].key # k /\ o[i].key \in Keys
  BY <1>1, EntryFacts DEF KeysOf
<1>3. /\ new \in Seq(Entry) /\ Len(new) = n + 1 /\ DOMAIN new = 1..(n + 1)
      /\ \A i \in DOMAIN o : new[i] = o[i] /\ i \in DOMAIN new /\ i < n + 1
      /\ new[n + 1] = e /\ n + 1 \in DOMAIN new
      /\ \A i \in DOMAIN new : i \in DOMAIN o \/ i = n + 1
  BY <1>1, <1>2, AppendProperties DEF o
<1>4. Unique(new)
  <2> SUFFICES ASSUME NEW i \in DOMAIN new, NEW j \in DOMAIN new, new[i].key = new[j].key PROVE i = j
    BY DEF Unique
  <2>1. CASE i \in DOMAIN o /\ j \in DOMAIN o
    BY <1>1, <1>3, <2>1 DEF Unique
  <2>2. CASE ~(i \in DOMAIN o /\ j \in DOMAIN o)
    BY <1>2, <1>3, <2>2
  <2>3. QED
    BY <2>1, <2>2
<1>5. KeysOf(new) = KeysOf(items) \cup {k}
  <2>1. KeysOf(new) = KeysOf(o) \cup {k}
    BY <1>3 DEF KeysOf
  <2>2. QED
    BY <1>1, <2>1
<1>6. /\ Use(k) \in [Keys -> {None} \cup SUBSET Keys]
      /\ \A j \in Keys : j # k => Use(k)[j] = IF recent[j] = None THEN None ELSE recent[j] \cup {k}
      /\ Use(k)[k] = {}
  BY DEF Use, CacheInv
<1>7. InOrderOfUse(new, Use(k))
  <2> SUFFICES ASSUME NEW i \in DOMAIN new, NEW j \in DOMAIN new, i < j, Use(k)[new[i].key] # None
               PROVE  new[j].key \in Use(k)[new[i].key]
    BY DEF InOrderOfUse
  <2>1. i \in DOMAIN o
    BY <1>2, <1>3
  <2>2. new[i] = o[i] /\ o[i].key # k /\ o[i].key \in Keys
    BY <1>2, <1>3, <2>1
  <2>3. recent[o[i].key] # None /\ Use(k)[new[i].key] = recent[o[i].key] \cup {k}
    BY <1>6, <2>2
  <2>4. CASE j \in DOMAIN o
    BY <1>1, <1>3, <2>1, <2>3, <2>4 DEF InOrderOfUse
  <2>5. CASE j = n + 1
    BY <1>3, <2>3, <2>5
  <2>6. QED
    BY <1>3, <2>4, <2>5
<1>8. Kept(new, Use(k))
  <2> SUFFICES ASSUME NEW j \in Keys, Use(k)[j] # None
               PROVE  /\ IsFiniteSet(Use(k)[j])
                      /\ j \notin KeysOf(new) => Cardinality(Use(k)[j]) >= MaxEntries
    BY DEF Kept
  <2>1. CASE j = k
    BY <1>5, <1>6, <2>1, FS_EmptySet
  <2>2. CASE j # k
    <3>1. recent[j] # None /\ Use(k)[j] = recent[j] \cup {k} /\ IsFiniteSet(recent[j])
      BY <1>6, <2>2 DEF CacheInv, Kept
    <3> DEFINE more == recent[j] \cup {k}
    <3>2. /\ IsFiniteSet(more) /\ recent[j] \in SUBSET more
          /\ Use(k)[j] = more
      BY <3>1, FS_AddElement
    <3> HIDE DEF more
    <3>3. /\ Cardinality(recent[j]) <= Cardinality(more)
          /\ Cardinality(recent[j]) \in Nat /\ Cardinality(more) \in Nat
      BY <3>1, <3>2, FS_Subset, FS_CardinalityType
    <3>4. j \notin KeysOf(new) => Cardinality(recent[j]) >= MaxEntries
      BY <1>5, <3>1 DEF CacheInv, Kept
    <3>5. QED
      BY <3>2, <3>3, <3>4, CacheSizes
  <2>3. QED
    BY <2>1, <2>2
<1>9. Len(new) <= MaxEntries + 1
  BY <1>1, <1>2, <1>3, EntryFacts, CacheSizes DEF CacheInv
<1>10. QED
  BY <1>3, <1>4, <1>5, <1>6, <1>7, <1>8, <1>9

LEMMA FoundEntry ==
    ASSUME CacheInv, NEW k, Live(items, k, now)
    PROVE  /\ EntryOf(items, k) \in Entry /\ EntryOf(items, k).key = k /\ k \in KeysOf(items)
           /\ EntryOf(items, k).expires = None \/ EntryOf(items, k).expires > now
<1>1. PICK e \in ToSet(items) : e.key = k /\ (e.expires = None \/ e.expires > now)
  BY DEF Live
<1>2. EntryOf(items, k) \in ToSet(items) /\ EntryOf(items, k).key = k
  BY <1>1 DEF EntryOf
<1>3. PICK i \in DOMAIN items : e = items[i]
  BY <1>1 DEF ToSet
<1>4. PICK j \in DOMAIN items : EntryOf(items, k) = items[j]
  BY <1>2 DEF ToSet
<1>5. i = j
  BY <1>1, <1>2, <1>3, <1>4 DEF CacheInv, Unique
<1>6. items[i] \in Entry
  BY EntryFacts DEF CacheInv
<1>7. QED
  BY <1>1, <1>2, <1>3, <1>4, <1>5, <1>6 DEF KeysOf

\* Keys are lost: an entry that has expired, or what is cleared.
LEMMA LossKeeps ==
    ASSUME CacheInv, NEW gone, recent' = Lose(gone),
           items' \in Seq(Entry), Len(items') <= MaxEntries, Unique(items'),
           InOrderOfUse(items', recent), KeysOf(items) \ KeysOf(items') \subseteq gone
    PROVE  CacheInv'
<1>1. \A j \in Keys : recent'[j] # None => recent'[j] = recent[j] /\ j \notin gone
  BY DEF Lose, CacheInv
<1>2. recent' \in [Keys -> {None} \cup SUBSET Keys]
  BY DEF Lose, CacheInv
<1>3. InOrderOfUse(items', recent')
  <2>1. \A i \in DOMAIN items' : items'[i].key \in Keys
    BY EntryFacts
  <2>2. QED
    BY <1>1, <2>1 DEF InOrderOfUse
<1>4. Kept(items', recent')
  BY <1>1 DEF Kept, CacheInv
<1>5. QED
  BY <1>2, <1>3, <1>4 DEF CacheInv

LEMMA LookUpKeepsCache == ASSUME CacheInv, NEW k \in Keys, LookUp(k) PROVE CacheInv'
<1>1. CASE Live(items, k, now)
  <2> DEFINE e == EntryOf(items, k)
             new == Append(Others(items, k), e)
  <2>1. items' = new /\ recent' = Use(k)
    BY <1>1 DEF LookUp, AfterGet
  <2>2. e \in Entry /\ e.key = k /\ k \in KeysOf(items)
    BY <1>1, FoundEntry
  <2>3. /\ new \in Seq(Entry) /\ Unique(new) /\ KeysOf(new) = KeysOf(items) \cup {k}
        /\ Use(k) \in [Keys -> {None} \cup SUBSET Keys]
        /\ InOrderOfUse(new, Use(k)) /\ Kept(new, Use(k))
    <3> HIDE DEF e
    <3>1. QED
      BY <2>2, AppendedKeeps
  <2> HIDE DEF new
  <2>4. Len(new) <= MaxEntries
    <3>1. KeysOf(new) = KeysOf(items)
      BY <2>2, <2>3
    <3>2. Len(new) = Len(items)
      BY <2>3, <3>1, KeysCounted DEF CacheInv
    <3>3. QED
      BY <3>2 DEF CacheInv
  <2>5. QED
    BY <2>1, <2>3, <2>4 DEF CacheInv
<1>2. CASE ~Live(items, k, now)
  <2>1. items' = Without(items, {k}) /\ recent' = Lose({k})
    BY <1>2 DEF LookUp, AfterGet, Others
  <2>2. Len(items') <= MaxEntries
    BY <2>1, WithoutKeeps, EntryFacts, CacheSizes DEF CacheInv
  <2>3. KeysOf(items) \ KeysOf(items') \subseteq {k}
    BY <2>1, WithoutKeeps
  <2>4. QED
    BY <2>1, <2>2, <2>3, WithoutKeeps, LossKeeps
<1>3. QED
  BY <1>1, <1>2

LEMMA ClearKeepsCache == ASSUME CacheInv, NEW namespace, Clear(namespace) PROVE CacheInv'
<1>1. items' = AfterClear(items, namespace) /\ recent' = Lose(KeysOf(items) \ KeysOf(items'))
  BY DEF Clear
<1>2. CASE items' = <<>>
  <2>1. /\ items' \in Seq(Entry) /\ Len(items') <= MaxEntries /\ Unique(items')
        /\ InOrderOfUse(items', recent)
    BY <1>2, CacheSizes DEF Unique, InOrderOfUse
  <2>2. QED
    BY <1>1, <2>1, LossKeeps
<1>3. ASSUME NEW gone, items' = Without(items, gone) PROVE CacheInv'
  <2>1. Len(items') <= MaxEntries
    BY <1>3, WithoutKeeps, EntryFacts, CacheSizes DEF CacheInv
  <2>2. QED
    BY <1>1, <1>3, <2>1, WithoutKeeps, LossKeeps
<1>4. QED
  BY <1>1, <1>2, <1>3 DEF AfterClear

\* The newest MaxEntries of one more: the oldest is dropped, after which as many others
\* have been used.
LEMMA DroppedKeeps ==
    ASSUME NEW s \in Seq(Entry), Len(s) <= MaxEntries + 1, Unique(s), NEW used,
           InOrderOfUse(s, used), Kept(s, used)
    PROVE  /\ Newest(s) \in Seq(Entry) /\ Len(Newest(s)) <= MaxEntries /\ Unique(Newest(s))
           /\ InOrderOfUse(Newest(s), used) /\ Kept(Newest(s), used)
<1>1. DOMAIN s = 1..Len(s) /\ Len(s) \in Nat /\ \A i \in DOMAIN s : s[i] \in Entry /\ s[i].key \in Keys
  BY EntryFacts
<1>2. CASE Len(s) <= MaxEntries
  <2>1. Max({1, Len(s) - MaxEntries + 1}) = 1
    BY <1>1, <1>2, CacheSizes DEF Max
  <2>2. Newest(s) = s
    BY <2>1, SubSeqFull DEF Newest
  <2>3. QED
    BY <1>2, <2>2
<1>3. CASE Len(s) = MaxEntries + 1
  <2> DEFINE t == SubSeq(s, 2, MaxEntries + 1)
  <2>1. Max({1, Len(s) - MaxEntries + 1}) = 2
    BY <1>3, CacheSizes DEF Max
  <2>2. Newest(s) = t
    BY <1>3, <2>1 DEF Newest
  <2>3. /\ t \in Seq(Entry) /\ Len(t) = MaxEntries /\ DOMAIN t = 1..MaxEntries
        /\ \A i \in 1..MaxEntries : t[i] = s[i + 1] /\ i + 1 \in DOMAIN s
    <3>1. \A i \in 2..(MaxEntries + 1) : s[i] \in Entry
      BY <1>1, <1>3
    <3>2. /\ t \in Seq(Entry) /\ Len(t) = MaxEntries
          /\ \A i \in 1..MaxEntries : t[i] = s[i + 1]
      BY <3>1, CacheSizes, SubSeqProperties
    <3> HIDE DEF t
    <3>3. QED
      BY <1>1, <1>3, <3>2, CacheSizes
  <2> HIDE DEF t
  <2>4. Unique(t)
    <3> SUFFICES ASSUME NEW i \in 1..MaxEntries, NEW j \in 1..MaxEntries, t[i].key = t[j].key PROVE i = j
      BY <2>3 DEF Unique
    <3>1. i + 1 = j + 1
      BY <2>3 DEF Unique
    <3>2. QED
      BY <3>1, CacheSizes
  <2>5. InOrderOfUse(t, used)
    <3> SUFFICES ASSUME NEW i \in 1..MaxEntries, NEW j \in 1..MaxEntries, i < j,
                        used[t[i].key] # None
                 PROVE  t[j].key \in used[t[i].key]
      BY <2>3 DEF InOrderOfUse
    <3>1. i + 1 < j + 1
      BY CacheSizes
    <3>2. QED
      BY <2>3, <3>1 DEF InOrderOfUse
  <2>6. Kept(t, used)
    <3> SUFFICES ASSUME NEW k \in Keys, used[k] # None, k \notin KeysOf(t)
                 PROVE  Cardinality(used[k]) >= MaxEntries
      BY DEF Kept
    <3>1. CASE k \notin KeysOf(s)
      BY <3>1 DEF Kept
    <3>2. CASE k \in KeysOf(s)
      <4>1. PICK i \in DOMAIN s : s[i].key = k
        BY <3>2 DEF KeysOf
      <4>2. i = 1
        <5>1. ASSUME i # 1 PROVE FALSE
          <6>1. i - 1 \in 1..MaxEntries /\ (i - 1) + 1 = i
            BY <1>1, <1>3, <5>1, CacheSizes
          <6>2. t[i - 1].key = k /\ i - 1 \in DOMAIN t
            BY <2>3, <4>1, <6>1
          <6>3. QED
            BY <6>2 DEF KeysOf
        <5>2. QED
          BY <5>1
      <4>3. ASSUME NEW j \in 1..MaxEntries PROVE t[j].key \in used[k]
        <5>1. 1 < j + 1
          OBVIOUS
        <5>2. QED
          BY <2>3, <4>1, <4>2, <5>1 DEF InOrderOfUse
      <4>4. KeysOf(t) \in SUBSET used[k]
        BY <2>3, <4>3 DEF KeysOf
      <4>5. IsFiniteSet(used[k]) /\ Cardinality(KeysOf(t)) = MaxEntries
        BY <2>3, <2>4, KeysCounted DEF Kept
      <4>6. Cardinality(KeysOf(t)) <= Cardinality(used[k])
        BY <4>4, <4>5, FS_Subset
      <4>7. Cardinality(used[k]) \in Nat
        BY <4>5, FS_CardinalityType
      <4>8. QED
        BY <4>5, <4>6, <4>7, CacheSizes
    <3>3. QED
      BY <3>1, <3>2
  <2>7. Len(t) <= MaxEntries
    BY <2>3, CacheSizes
  <2>8. QED
    BY <2>2, <2>3, <2>4, <2>5, <2>6, <2>7
<1>4. Len(s) \in Nat /\ MaxEntries \in Nat /\ Len(s) <= MaxEntries + 1
  BY CacheSizes
<1>5. Len(s) <= MaxEntries \/ Len(s) = MaxEntries + 1
  BY <1>4
<1>6. QED
  BY <1>2, <1>3, <1>5

LEMMA StoreKeepsCache ==
    ASSUME CacheInv, NEW k \in Keys, NEW value, Store(k, value),
           [key |-> k, value |-> value, expires |-> IF Ttl = None THEN None ELSE now + Ttl] \in Entry
    PROVE  CacheInv'
<1> DEFINE e == [key |-> k, value |-> value, expires |-> IF Ttl = None THEN None ELSE now + Ttl]
           new == Append(Others(items, k), e)
<1>1. items' = Newest(new) /\ recent' = Use(k)
  BY DEF Store, AfterSet
<1>2. e \in Entry /\ e.key = k
  OBVIOUS
<1>3. /\ new \in Seq(Entry) /\ Unique(new) /\ Use(k) \in [Keys -> {None} \cup SUBSET Keys]
      /\ InOrderOfUse(new, Use(k)) /\ Kept(new, Use(k)) /\ Len(new) <= MaxEntries + 1
  <2> HIDE DEF e
  <2>1. QED
    BY <1>2, AppendedKeeps
<1> HIDE DEF new
<1>4. QED
  BY <1>1, <1>3, DroppedKeeps DEF CacheInv

(***************************************************************************)
(* Whose scores the requests have.                                          *)
(***************************************************************************)

AtMetric == Owning \cup {"queued", "batch", "model"}

Typed ==
    /\ got \in [Request -> [Candidate -> Result]]
    /\ score \in [Request -> [Candidate -> Seq(Result)]]

Placed == \A r \in Request : /\ pos[r] >= 1
                             /\ stage[r] \in AtMetric =>
                                   pos[r] \in DOMAIN metrics[r] /\ Metric(r).active

\* What a task has got is its own, and what it stores it has.
GotOwn ==
    \A r \in Request, c \in Candidate :
        /\ got[r][c] \in {None, Own(r, c, pos[r])}
        /\ task[r][c] = "storing" => got[r][c] = Own(r, c, pos[r])

\* The metrics passed have their scores, or None.
ScoresOwn ==
    \A r \in Request, c \in Candidate :
        /\ Len(score[r][c]) = pos[r] - 1
        /\ \A i \in DOMAIN metrics[r] : i < pos[r] =>
              score[r][c][i] \in {None} \cup (IF metrics[r][i].active THEN {Own(r, c, i)} ELSE {})

Combined ==
    \A r \in Request : stage[r] = "scored" =>
        /\ pos[r] > Len(metrics[r])
        /\ \A c \in Candidate, i \in DOMAIN metrics[r] : metrics[r][i].active => score[r][c][i] # None

OwnInv == Typed /\ Placed /\ GotOwn /\ ScoresOwn /\ Combined

LEMMA MetricTypes ==
    ASSUME IInv, NEW r \in Request
    PROVE  /\ metrics[r] \in Seq(MetricDef) /\ DOMAIN metrics[r] = 1..Len(metrics[r])
           /\ Len(metrics[r]) \in Nat /\ pos[r] \in Nat
           /\ pos[r] \in DOMAIN metrics[r] => Metric(r) \in MetricDef
<1>1. metrics \in [Request -> Seq(MetricDef)]
  BY ScoringSizes DEF IInv, TypeOK
<1>2. metrics[r] \in Seq(MetricDef) /\ pos[r] \in Nat
  BY <1>1 DEF IInv, Counters
<1>3. QED
  BY <1>2 DEF Metric

LEMMA OwnType ==
    ASSUME NEW r \in Request, NEW c \in Candidate, NEW i \in Nat
    PROVE  About(r, c, i) \in Subject /\ Own(r, c, i) \in Result
BY ScoringSizes DEF About, Own, Subject, Result, Range

LEMMA KeyOwn ==
    ASSUME IInv, NEW r \in Request, NEW c \in Candidate,
           pos[r] \in DOMAIN metrics[r], Metric(r).cacheable
    PROVE  /\ Key(r, c) \in Keys
           /\ About(r, c, pos[r]) =
                 <<Key(r, c).tenant, Key(r, c).query, Key(r, c).content, Key(r, c).metric>>
<1>1. pos[r] \in CachedAt
  <2>1. metrics \in Metrics /\ pos[r] \in {i \in DOMAIN metrics[r] : metrics[r][i].cacheable}
    BY DEF Metric, IInv, TypeOK
  <2> DEFINE A == {i \in DOMAIN metrics[r] : metrics[r][i].cacheable}
  <2>2. A \in {{i \in DOMAIN m[q] : m[q][i].cacheable} : m \in Metrics, q \in Request}
    BY <2>1
  <2>3. pos[r] \in A
    BY <2>1
  <2> HIDE DEF A
  <2>4. QED
    BY <2>2, <2>3 DEF CachedAt
<1>2. TenantOf[r] \in Range(TenantOf) /\ Query[r] \in Range(Query) /\ ContentOf[c] \in Range(ContentOf)
  BY ScoringSizes DEF Range
<1>3. QED
  BY <1>1, <1>2 DEF Key, Keys, About

\* A step that scores no metric for good.
LEMMA HeldOwn ==
    ASSUME IInv, OwnInv, UNCHANGED <<metrics, pos, score>>,
           got' \in [Request -> [Candidate -> Result]],
           \A q \in Request, d \in Candidate :
              /\ got'[q][d] \in {None, Own(q, d, pos[q])}
              /\ task'[q][d] = "storing" => got'[q][d] = Own(q, d, pos[q]),
           \A q \in Request :
              /\ stage'[q] \in AtMetric =>
                    stage[q] \in AtMetric \/ (pos[q] \in DOMAIN metrics[q] /\ Metric(q).active)
              /\ stage'[q] = "scored" => stage[q] = "scored"
    PROVE  OwnInv'
<1>1. Typed' /\ Placed' /\ Combined'
  BY DEF OwnInv, Typed, Placed, Combined, Metric
<1>2. \A q \in Request, d \in Candidate : \A i : Own(q, d, i)' = Own(q, d, i)
  BY DEF Own, About
<1>3. GotOwn'
  BY <1>2 DEF GotOwn
<1>4. ScoresOwn'
  BY <1>2 DEF OwnInv, ScoresOwn
<1>5. QED
  BY <1>1, <1>3, <1>4 DEF OwnInv

\* A step of a request at a metric, or that of a task which has nothing new to store.
LEMMA StillOwn ==
    ASSUME IInv, OwnInv, UNCHANGED <<metrics, pos, score, got>>,
           \A q \in Request, d \in Candidate :
              task'[q][d] = "storing" => task[q][d] = "storing",
           \A q \in Request :
              /\ stage'[q] \in AtMetric =>
                    stage[q] \in AtMetric \/ (pos[q] \in DOMAIN metrics[q] /\ Metric(q).active)
              /\ stage'[q] = "scored" => stage[q] = "scored"
    PROVE  OwnInv'
<1>1. \A q \in Request, d \in Candidate :
         /\ got'[q][d] \in {None, Own(q, d, pos[q])}
         /\ task'[q][d] = "storing" => got'[q][d] = Own(q, d, pos[q])
  BY DEF OwnInv, GotOwn
<1>2. got' \in [Request -> [Candidate -> Result]]
  BY DEF OwnInv, Typed
<1>3. QED
  BY <1>1, <1>2, HeldOwn

LEMMA AdvanceOwn ==
    ASSUME IInv, OwnInv, NEW r \in Request, pos[r] \in DOMAIN metrics[r],
           NEW taken \in [Candidate -> Result], Advance(r, taken), UNCHANGED <<metrics, task>>,
           \A c \in Candidate :
              /\ taken[c] \in {None} \cup (IF Metric(r).active THEN {Own(r, c, pos[r])} ELSE {})
              /\ task[r][c] # "storing"
    PROVE  OwnInv'
<1>1. /\ pos' = [pos EXCEPT ![r] = @ + 1] /\ got' = [got EXCEPT ![r] = Nobody]
      /\ stage' = [stage EXCEPT ![r] = "between"]
      /\ score' = [score EXCEPT ![r] = [c \in Candidate |-> Append(score[r][c], taken[c])]]
  BY DEF Advance, Go
<1>2. /\ pos'[r] = pos[r] + 1 /\ got'[r] = Nobody /\ stage'[r] = "between"
      /\ \A q \in Request \ {r} : pos'[q] = pos[q] /\ got'[q] = got[q] /\ stage'[q] = stage[q]
                                  /\ score'[q] = score[q]
      /\ \A c \in Candidate : score'[r][c] = Append(score[r][c], taken[c])
  BY <1>1 DEF IInv, TypeOK, Counters, OwnInv, Typed
<1>3. \A c \in Candidate : score[r][c] \in Seq(Result) /\ Len(score[r][c]) = pos[r] - 1
  BY DEF OwnInv, Typed, ScoresOwn
<1>4. Typed'
  <2>1. got' \in [Request -> [Candidate -> Result]]
    BY <1>1 DEF OwnInv, Typed, Nobody, Result
  <2>2. \A c \in Candidate : Append(score[r][c], taken[c]) \in Seq(Result)
    BY <1>3, AppendProperties
  <2>3. [c \in Candidate |-> Append(score[r][c], taken[c])] \in [Candidate -> Seq(Result)]
    BY <2>2
  <2>4. score' \in [Request -> [Candidate -> Seq(Result)]]
    BY <1>1, <2>3 DEF OwnInv, Typed
  <2>5. QED
    BY <2>1, <2>4 DEF Typed
<1>5. Placed'
  <2> SUFFICES ASSUME NEW q \in Request
               PROVE  /\ pos'[q] >= 1
                      /\ stage'[q] \in AtMetric =>
                            pos'[q] \in DOMAIN metrics[q] /\ metrics[q][pos'[q]].active
    BY DEF Placed, Metric
  <2>1. CASE q = r
    BY <1>2, <2>1, MetricTypes DEF AtMetric
  <2>2. CASE q # r
    BY <1>2, <2>2 DEF OwnInv, Placed, Metric
  <2>3. QED
    BY <2>1, <2>2
<1>6. \A q \in Request, d \in Candidate : \A i : Own(q, d, i)' = Own(q, d, i)
  BY DEF Own, About
<1>7. GotOwn'
  <2> SUFFICES ASSUME NEW q \in Request, NEW d \in Candidate
               PROVE  /\ got'[q][d] \in {None, Own(q, d, pos'[q])}
                      /\ task[q][d] = "storing" => got'[q][d] = Own(q, d, pos'[q])
    BY <1>6 DEF GotOwn
  <2>1. CASE q = r
    BY <1>2, <2>1 DEF Nobody
  <2>2. CASE q # r
    BY <1>2, <2>2 DEF OwnInv, GotOwn
  <2>3. QED
    BY <2>1, <2>2
<1>8. ScoresOwn'
  <2> SUFFICES ASSUME NEW q \in Request, NEW d \in Candidate
               PROVE  /\ Len(score'[q][d]) = pos'[q] - 1
                      /\ \A i \in DOMAIN metrics[q] : i < pos'[q] =>
                            score'[q][d][i] \in {None} \cup
                               (IF metrics[q][i].active THEN {Own(q, d, i)} ELSE {})
    BY <1>6 DEF ScoresOwn
  <2>1. CASE q # r
    BY <1>2, <2>1 DEF OwnInv, ScoresOwn
  <2>2. CASE q = r
    <3>1. /\ Len(score'[r][d]) = pos[r] /\ pos[r] \in Nat
          /\ score'[r][d][pos[r]] = taken[d]
          /\ \A i \in 1..(pos[r] - 1) : score'[r][d][i] = score[r][d][i]
      <4> DEFINE s == score[r][d]
      <4>1. s \in Seq(Result) /\ Len(s) = pos[r] - 1 /\ pos[r] \in Nat /\ taken[d] \in Result
        BY <1>3, MetricTypes
      <4>2. score'[r][d] = Append(s, taken[d])
        BY <1>2
      <4> HIDE DEF s
      <4>3. /\ Len(Append(s, taken[d])) = Len(s) + 1
            /\ \A i \in 1..Len(s) : Append(s, taken[d])[i] = s[i]
            /\ Append(s, taken[d])[Len(s) + 1] = taken[d]
        BY <4>1, AppendProperties
      <4>4. Len(s) + 1 = pos[r] /\ 1..Len(s) = 1..(pos[r] - 1)
        BY <4>1
      <4>5. QED
        BY <4>1, <4>2, <4>3, <4>4 DEF s
    <3>2. ASSUME NEW i \in DOMAIN metrics[r], i < pos[r] + 1
          PROVE  score'[r][d][i] \in {None} \cup
                    (IF metrics[r][i].active THEN {Own(r, d, i)} ELSE {})
      <4>1. CASE i = pos[r]
        BY <3>1, <4>1 DEF Metric
      <4>2. CASE i # pos[r]
        <5>1. i \in 1..(pos[r] - 1) /\ i < pos[r]
          BY <3>1, <3>2, <4>2, MetricTypes
        <5>2. QED
          BY <3>1, <5>1 DEF OwnInv, ScoresOwn
      <4>3. QED
        BY <4>1, <4>2
    <3>3. QED
      BY <1>2, <2>2, <3>1, <3>2
  <2>3. QED
    BY <2>1, <2>2
<1>9. Combined'
  <2> SUFFICES ASSUME NEW q \in Request, stage'[q] = "scored"
               PROVE  /\ pos'[q] > Len(metrics[q])
                      /\ \A c \in Candidate, i \in DOMAIN metrics[q] :
                            metrics[q][i].active => score'[q][c][i] # None
    BY DEF Combined
  <2>1. q # r
    BY <1>2
  <2>2. QED
    BY <1>2, <2>1 DEF OwnInv, Combined
<1>10. QED
  BY <1>4, <1>5, <1>7, <1>8, <1>9 DEF OwnInv

\* combine lets through only what has every score.
LEMMA CombineOwn == ASSUME IInv, OwnInv, NEW r \in Request, Combine(r) PROVE OwnInv'
<1>1. /\ UNCHANGED <<metrics, pos, task, got, score>> /\ pos[r] > Len(metrics[r])
      /\ \A q \in Request \ {r} : stage'[q] = stage[q]
      /\ stage'[r] \in {"scored", "failed"}
      /\ stage'[r] = "scored" => \A c \in Candidate : \A i \in DOMAIN metrics[r] :
                                    metrics[r][i].active => score[r][c][i] # None
  BY DEF Combine, Go, IInv, TypeOK
<1>2. Typed' /\ Placed'
  BY <1>1 DEF OwnInv, Typed, Placed, AtMetric, Metric
<1>3. \A q \in Request, d \in Candidate : \A i : Own(q, d, i)' = Own(q, d, i)
  BY <1>1 DEF Own, About
<1>4. GotOwn' /\ ScoresOwn'
  BY <1>1, <1>3 DEF OwnInv, GotOwn, ScoresOwn
<1>5. Combined'
  BY <1>1 DEF OwnInv, Combined
<1>6. QED
  BY <1>2, <1>4, <1>5 DEF OwnInv

\* The stage of one request moves, with its tasks and scores as they are.
LEMMA GoOwn ==
    ASSUME IInv, OwnInv, NEW r \in Request, NEW to, Go(r, to), to # "scored",
           to \in AtMetric => stage[r] \in AtMetric \/ (pos[r] \in DOMAIN metrics[r] /\ Metric(r).active),
           UNCHANGED <<metrics, pos, score, got>>,
           \A q \in Request, d \in Candidate :
              task'[q][d] = "storing" => task[q][d] = "storing"
    PROVE  OwnInv'
<1>1. stage'[r] = to /\ \A q \in Request \ {r} : stage'[q] = stage[q]
  BY DEF Go, IInv, TypeOK
<1>2. \A q \in Request :
         /\ stage'[q] \in AtMetric =>
               stage[q] \in AtMetric \/ (pos[q] \in DOMAIN metrics[q] /\ Metric(q).active)
         /\ stage'[q] = "scored" => stage[q] = "scored"
  BY <1>1
<1>3. QED
  BY <1>2, StillOwn

\* A window of tasks that are ready opens, and none of them has anything to store.
LEMMA NothingToStore ==
    ASSUME IInv, NEW r \in Request, NEW from, OpenWindow(r, from)
    PROVE  \A q \in Request, d \in Candidate : task'[q][d] = "storing" => task[q][d] = "storing"
BY DEF OpenWindow, IInv, TypeOK

LEMMA BetweenOwn ==
    ASSUME IInv, OwnInv, NEW r \in Request, Skip(r) \/ BeginMetric(r) \/ Combine(r)
    PROVE  OwnInv'
<1>1. /\ stage[r] = "between" /\ UNCHANGED metrics
      /\ \A c \in Candidate : task[r][c] # "storing"
  BY DEF Skip, BeginMetric, Combine, IInv, Settled
<1>2. pos[r] <= Len(metrics[r]) => pos[r] \in DOMAIN metrics[r]
  BY MetricTypes DEF OwnInv, Placed
<1>3. CASE Skip(r)
  <2>1. Advance(r, Nobody) /\ task' = task /\ ~Metric(r).active /\ pos[r] \in DOMAIN metrics[r]
    BY <1>2, <1>3 DEF Skip
  <2>2. Nobody \in [Candidate -> Result] /\ \A c \in Candidate : Nobody[c] = None
    BY DEF Nobody, Result
  <2> DEFINE taken == Nobody
  <2> HIDE DEF taken
  <2>3. QED
    BY <1>1, <2>1, <2>2, AdvanceOwn
<1>4. CASE BeginMetric(r)
  <2>1. pos[r] \in DOMAIN metrics[r] /\ Metric(r).active /\ UNCHANGED <<pos, got, score>>
    BY <1>2, <1>4 DEF BeginMetric
  <2>2. PICK to \in {"window", "queued", "model"} : Go(r, to)
    BY <1>4 DEF BeginMetric
  <2>3. task' = task \/ OpenWindow(r, 1)
    BY <1>4 DEF BeginMetric
  <2>4. \A q \in Request, d \in Candidate : task'[q][d] = "storing" => task[q][d] = "storing"
    BY <2>3, NothingToStore
  <2>5. QED
    BY <1>1, <2>1, <2>2, <2>4, GoOwn
<1>5. QED
  BY <1>3, <1>4, CombineOwn

LEMMA CallOwn ==
    ASSUME IInv, OwnInv, NEW r \in Request,
           \/ ModelScored(r) \/ ModelFailed(r) \/ EnterBatch(r) \/ BatchScored(r) \/ BatchFailed(r)
    PROVE  OwnInv'
<1>1. /\ stage[r] \in {"model", "queued", "batch"} /\ UNCHANGED <<metrics, task>>
  BY DEF ModelScored, ModelFailed, EnterBatch, BatchScored, BatchFailed, AllScored, NotAllScored
<1>2. /\ pos[r] \in DOMAIN metrics[r] /\ pos[r] \in Nat /\ Metric(r).active
      /\ \A c \in Candidate : task[r][c] # "storing"
  BY <1>1, MetricTypes DEF IInv, Settled, OwnInv, Placed, AtMetric
<1>3. ASSUME NEW where \in {"model", "batch"}, AllScored(r, where) PROVE OwnInv'
  <2> DEFINE taken == [c \in Candidate |-> Fresh(r, c)]
  <2>1. Advance(r, taken)
    BY <1>3 DEF AllScored
  <2>2. \A c \in Candidate : taken[c] = Own(r, c, pos[r])
    BY DEF Fresh, Own
  <2>3. taken \in [Candidate -> Result]
    BY <1>2, <2>2, OwnType
  <2> HIDE DEF taken
  <2>4. QED
    BY <1>1, <1>2, <2>1, <2>2, <2>3, AdvanceOwn
<1>4. ASSUME NEW to \in {"failed", "batch"}, Go(r, to), UNCHANGED <<pos, got, score>> PROVE OwnInv'
  BY <1>1, <1>2, <1>4, GoOwn
<1>5. CASE ModelScored(r) \/ BatchScored(r)
  <2>1. AllScored(r, "model") \/ AllScored(r, "batch")
    BY <1>5 DEF ModelScored, BatchScored
  <2>2. QED
    BY <1>3, <2>1
<1>6. CASE ModelFailed(r) \/ EnterBatch(r) \/ BatchFailed(r)
  <2>1. (Go(r, "failed") \/ Go(r, "batch")) /\ UNCHANGED <<pos, got, score>>
    BY <1>6 DEF ModelFailed, EnterBatch, BatchFailed, NotAllScored
  <2>2. QED
    BY <1>4, <2>1
<1>7. QED
  BY <1>5, <1>6

LEMMA WindowDoneOwn == ASSUME IInv, OwnInv, NEW r \in Request, WindowDone(r) PROVE OwnInv'
<1>1. /\ stage[r] = "window" /\ UNCHANGED metrics
      /\ \A c \in InWindow(r) : task[r][c] = "done"
  BY DEF WindowDone
<1>2. CASE OpenWindow(r, first[r] + Window) /\ UNCHANGED <<stage, pos, got, score>>
  <2>1. \A q \in Request, d \in Candidate : task'[q][d] = "storing" => task[q][d] = "storing"
    BY <1>2, NothingToStore
  <2>2. UNCHANGED <<metrics, pos, score, got>> /\ stage' = stage
    BY <1>1, <1>2
  <2>3. QED
    BY <2>1, <2>2, StillOwn
<1>3. CASE Advance(r, got[r]) /\ UNCHANGED task
  <2>1. pos[r] \in DOMAIN metrics[r] /\ pos[r] \in Nat /\ Metric(r).active
    BY <1>1, MetricTypes DEF OwnInv, Placed, AtMetric
  <2>2. \A c \in Candidate : task[r][c] # "storing"
    BY <1>1 DEF IInv, Counters
  <2>3. got[r] \in [Candidate -> Result] /\ \A c \in Candidate : got[r][c] \in {None, Own(r, c, pos[r])}
    BY DEF OwnInv, Typed, GotOwn
  <2> DEFINE taken == got[r]
  <2>4. /\ taken \in [Candidate -> Result] /\ Advance(r, taken)
        /\ \A c \in Candidate : taken[c] \in {None, Own(r, c, pos[r])}
    BY <1>3, <2>3
  <2> HIDE DEF taken
  <2>5. QED
    BY <1>1, <1>3, <2>1, <2>2, <2>4, AdvanceOwn
<1>4. QED
  BY <1>2, <1>3 DEF WindowDone

LEMMA EndsOwn ==
    ASSUME IInv, OwnInv, NEW r \in Request, Notice(r) \/ Interrupt(r) \/ Drained(r)
    PROVE  OwnInv'
<1>1. UNCHANGED <<metrics, pos, task, score>>
  BY DEF Notice, Interrupt, Drained
<1>2. ASSUME NEW to \in {"failing", "draining", "cancelled"}, Go(r, to), UNCHANGED got,
             to = "cancelled" \/ stage[r] \in AtMetric
      PROVE  OwnInv'
  BY <1>1, <1>2, GoOwn DEF AtMetric
<1>3. CASE Notice(r)
  BY <1>2, <1>3 DEF Notice, AtMetric
<1>4. CASE Interrupt(r)
  BY <1>2, <1>4 DEF Interrupt, AtMetric
<1>5. CASE Drained(r)
  <2>1. /\ got' = [got EXCEPT ![r] = Nobody] /\ \A c \in Candidate : task[r][c] # "storing"
        /\ \E to \in {"failed", "cancelled"} : Go(r, to)
    BY <1>5 DEF Drained
  <2>2. got' \in [Request -> [Candidate -> Result]]
    BY <2>1 DEF OwnInv, Typed, Nobody, Result
  <2>3. ASSUME NEW q \in Request, NEW d \in Candidate
        PROVE  /\ got'[q][d] \in {None, Own(q, d, pos[q])}
               /\ task'[q][d] = "storing" => got'[q][d] = Own(q, d, pos[q])
    <3>1. CASE q = r
      BY <1>1, <2>1, <3>1 DEF OwnInv, Typed, Nobody
    <3>2. CASE q # r
      BY <1>1, <2>1, <3>2 DEF OwnInv, Typed, GotOwn
    <3>3. QED
      BY <3>1, <3>2
  <2>4. \A q \in Request : /\ stage'[q] \in AtMetric => stage[q] \in AtMetric
                           /\ stage'[q] = "scored" => stage[q] = "scored"
    BY <2>1 DEF Go, IInv, TypeOK, AtMetric
  <2>5. QED
    BY <1>1, <2>2, <2>3, <2>4, HeldOwn
<1>6. QED
  BY <1>3, <1>4, <1>5

\* A task gets a result of its own.
LEMMA GotOneOwn ==
    ASSUME IInv, OwnInv, NEW r \in Request, NEW c \in Candidate, NEW to, Become(r, c, to),
           UNCHANGED <<metrics, stage, pos, score>>, stage[r] = "window",
           got' = [got EXCEPT ![r][c] = Own(r, c, pos[r])]
    PROVE  OwnInv'
<1>1. Own(r, c, pos[r]) \in Result
  BY MetricTypes, OwnType
<1>2. got' \in [Request -> [Candidate -> Result]]
  BY <1>1 DEF OwnInv, Typed
<1>3. ASSUME NEW q \in Request, NEW d \in Candidate
      PROVE  /\ got'[q][d] \in {None, Own(q, d, pos[q])}
             /\ task'[q][d] = "storing" => got'[q][d] = Own(q, d, pos[q])
  <2>1. CASE q = r /\ d = c
    BY <2>1 DEF OwnInv, Typed
  <2>2. CASE ~ (q = r /\ d = c)
    <3>1. got'[q][d] = got[q][d] /\ task'[q][d] = task[q][d]
      BY <2>2 DEF OwnInv, Typed, Become, IInv, TypeOK
    <3>2. QED
      BY <3>1 DEF OwnInv, GotOwn
  <2>3. QED
    BY <2>1, <2>2
<1>4. QED
  BY <1>2, <1>3, HeldOwn

\* A task that gets nothing new goes on, and has nothing to store yet, or no more.
LEMMA BecomeOwn ==
    ASSUME IInv, OwnInv, NEW r \in Request, NEW c \in Candidate, NEW to, Become(r, c, to),
           to # "storing", UNCHANGED <<metrics, stage, pos, score, got>>
    PROVE  OwnInv'
<1>1. \A q \in Request, d \in Candidate : task'[q][d] = "storing" => task[q][d] = "storing"
  BY DEF Become, IInv, TypeOK
<1>2. QED
  BY <1>1, StillOwn

\* What a hit returns is the task's own, and has not expired.
LEMMA HitOwn ==
    ASSUME IInv, CacheInv, NEW r \in Request, NEW c \in Candidate,
           pos[r] \in DOMAIN metrics[r], Metric(r).cacheable, Live(items, Key(r, c), now)
    PROVE  LET value == EntryOf(items, Key(r, c)).value
           IN  [about |-> value.about, late |-> Ttl # None /\ now >= value.at + Ttl]
                  = Own(r, c, pos[r])
<1> DEFINE k == Key(r, c)
           e == EntryOf(items, k)
<1>1. e \in Entry /\ e.key = k /\ (e.expires = None \/ e.expires > now)
  BY FoundEntry
<1>2. About(r, c, pos[r]) = <<k.tenant, k.query, k.content, k.metric>>
  BY KeyOwn
<1> HIDE DEF k, e
<1>3. e.value.about = About(r, c, pos[r])
  BY <1>1, <1>2 DEF Entry
<1>4. (Ttl # None /\ now >= e.value.at + Ttl) = FALSE
  <2>1. CASE Ttl = None
    BY <2>1
  <2>2. CASE Ttl # None
    <3>1. /\ e.expires = e.value.at + Ttl /\ e.value.at \in Nat /\ Ttl \in Nat /\ now \in Nat
      BY <1>1, <2>2, CacheSizes, ScoringSizes DEF Entry, IInv, TypeOK
    <3>2. e.expires # None
      BY <3>1, NoneNotATime
    <3>3. QED
      BY <1>1, <3>1, <3>2
  <2>3. QED
    BY <2>1, <2>2
<1>5. QED
  BY <1>3, <1>4 DEF Own, e, k

LEMMA TaskOwn ==
    ASSUME IInv, CacheInv, OwnInv, NEW r \in Request, NEW c \in Candidate, TaskStep(r, c)
    PROVE  OwnInv'
<1>1. UNCHANGED <<metrics, stage, pos, score>>
  BY DEF TaskStep, KeyFails, Lookup, Acquire, ScoreReturns, ScoreRaises, StoreScore, CancelTask
<1>2. stage[r] = "window" => pos[r] \in DOMAIN metrics[r]
  BY DEF OwnInv, Placed, AtMetric
<1>3. CASE Lookup(r, c)
  <2>1. stage[r] = "window"
    BY <1>3 DEF Lookup, Runs
  <2>2. CASE Metric(r).cacheable /\ Live(items, Key(r, c), now)
    <3>1. Become(r, c, "done") /\ got' = [got EXCEPT ![r][c] = Own(r, c, pos[r])]
      BY <1>2, <1>3, <2>1, <2>2, HitOwn DEF Lookup
    <3>2. QED
      BY <1>1, <2>1, <3>1, GotOneOwn
  <2>3. CASE ~ (Metric(r).cacheable /\ Live(items, Key(r, c), now))
    <3>1. Become(r, c, "waiting") /\ UNCHANGED got
      BY <1>3, <2>3 DEF Lookup, cache
    <3>2. QED
      BY <1>1, <3>1, BecomeOwn
  <2>4. QED
    BY <2>2, <2>3
<1>4. CASE ScoreReturns(r, c)
  <2>1. PICK to : Become(r, c, to)
    BY <1>4 DEF ScoreReturns
  <2>2. got' = [got EXCEPT ![r][c] = Own(r, c, pos[r])] /\ stage[r] = "window"
    BY <1>4 DEF ScoreReturns, Runs, Fresh, Own
  <2>3. QED
    BY <1>1, <2>1, <2>2, GotOneOwn
<1>5. CASE \/ KeyFails(r, c) \/ Acquire(r, c) \/ ScoreRaises(r, c)
           \/ StoreScore(r, c) \/ CancelTask(r, c)
  <2>1. \E to \in {"scoring", "failed", "done", "cancelled"} : Become(r, c, to)
    BY <1>5 DEF KeyFails, Acquire, ScoreRaises, StoreScore, CancelTask
  <2>2. UNCHANGED got
    BY <1>5 DEF KeyFails, Acquire, ScoreRaises, StoreScore, CancelTask
  <2>3. QED
    BY <1>1, <2>1, <2>2, BecomeOwn
<1>6. QED
  BY <1>3, <1>4, <1>5 DEF TaskStep
(***************************************************************************)
(* The strengthened invariant is inductive.                                 *)
(***************************************************************************)

\* A step that leaves the requests alone.
LEMMA OthersOwn ==
    ASSUME IInv, OwnInv, UNCHANGED <<metrics, stage, pos, task, score, got>>
    PROVE  OwnInv'
BY StillOwn

LEMMA SameCache == ASSUME CacheInv, UNCHANGED cache PROVE CacheInv'
<1>1. items' = items /\ recent' = recent
  BY DEF cache
<1>2. QED
  BY <1>1 DEF CacheInv

\* What a task stores is an entry as its key says, with the time of its storing.
LEMMA StoresEntry ==
    ASSUME IInv, OwnInv, NEW r \in Request, NEW c \in Candidate, StoreScore(r, c),
           Metric(r).cacheable
    PROVE  [key |-> Key(r, c), value |-> [about |-> got[r][c].about, at |-> now],
            expires |-> IF Ttl = None THEN None ELSE now + Ttl] \in Entry
<1>1. /\ pos[r] \in DOMAIN metrics[r] /\ pos[r] \in Nat
      /\ got[r][c].about = About(r, c, pos[r])
  <2>1. stage[r] = "window" /\ task[r][c] = "storing"
    BY DEF StoreScore, Runs
  <2>2. pos[r] \in DOMAIN metrics[r] /\ pos[r] \in Nat
    BY <2>1, MetricTypes DEF OwnInv, Placed, AtMetric
  <2>3. got[r][c] = Own(r, c, pos[r])
    BY <2>1 DEF OwnInv, GotOwn
  <2>4. QED
    BY <2>2, <2>3 DEF Own
<1>2. /\ Key(r, c) \in Keys /\ About(r, c, pos[r]) \in Subject
      /\ About(r, c, pos[r]) =
            <<Key(r, c).tenant, Key(r, c).query, Key(r, c).content, Key(r, c).metric>>
  BY <1>1, KeyOwn, OwnType
<1>3. now \in Nat /\ (Ttl # None => Ttl \in Nat)
  BY ScoringSizes, CacheSizes DEF IInv, TypeOK
<1>4. QED
  BY <1>1, <1>2, <1>3 DEF Entry

\* Only a score with a cache identity is stored.
Storing == \A r \in Request, c \in Candidate : task[r][c] = "storing" => Metric(r).cacheable

LEMMA TaskKeepsCache ==
    ASSUME IInv, CacheInv, OwnInv, Storing, NEW r \in Request, NEW c \in Candidate, TaskStep(r, c)
    PROVE  CacheInv'
<1>1. CASE Lookup(r, c) /\ ~Metric(r).cacheable
  BY <1>1, SameCache DEF Lookup
<1>2. CASE Lookup(r, c) /\ Metric(r).cacheable
  <2>1. LookUp(Key(r, c)) /\ pos[r] \in DOMAIN metrics[r]
    BY <1>2 DEF Lookup, Runs, OwnInv, Placed, AtMetric
  <2>2. Key(r, c) \in Keys
    BY <1>2, <2>1, KeyOwn
  <2>3. QED
    BY <2>1, <2>2, LookUpKeepsCache
<1>3. CASE StoreScore(r, c)
  <2> DEFINE k == Key(r, c)
             value == [about |-> got[r][c].about, at |-> now]
  <2>1. Metric(r).cacheable /\ pos[r] \in DOMAIN metrics[r]
    BY <1>3 DEF StoreScore, Runs, Storing, OwnInv, Placed, AtMetric
  <2>2. k \in Keys /\ Store(k, value)
    BY <1>3, <2>1, KeyOwn DEF StoreScore
  <2>3. [key |-> k, value |-> value, expires |-> IF Ttl = None THEN None ELSE now + Ttl] \in Entry
    BY <1>3, <2>1, StoresEntry
  <2> HIDE DEF k, value
  <2>4. QED
    BY <2>2, <2>3, StoreKeepsCache
<1>4. CASE \/ KeyFails(r, c) \/ Acquire(r, c) \/ ScoreReturns(r, c)
           \/ ScoreRaises(r, c) \/ CancelTask(r, c)
  BY <1>4, SameCache DEF KeyFails, Acquire, ScoreReturns, ScoreRaises, CancelTask
<1>5. QED
  BY <1>1, <1>2, <1>3, <1>4 DEF TaskStep
LEMMA StoringKept ==
    ASSUME Storing, UNCHANGED metrics,
           \A r \in Request, c \in Candidate : task'[r][c] = "storing" =>
              /\ pos'[r] = pos[r]
              /\ task[r][c] = "storing" \/ Metric(r).cacheable
    PROVE  Storing'
BY DEF Storing, Metric

LEMMA RequestStoring ==
    ASSUME IInv, Storing, NEW r \in Request, RequestStep(r) \/ Interrupt(r)
    PROVE  Storing'
<1>1. UNCHANGED metrics
  BY DEF RequestStep, Interrupt, Skip, BeginMetric, Combine, ModelScored, ModelFailed, EnterBatch,
         BatchScored, BatchFailed, AllScored, NotAllScored, WindowDone, Notice, Drained
<1>2. CASE UNCHANGED <<pos, task>>
  BY <1>1, <1>2, StoringKept
<1>3. ASSUME NEW from, OpenWindow(r, from), UNCHANGED pos PROVE Storing'
  BY <1>1, <1>3, NothingToStore, StoringKept
<1>4. ASSUME NEW taken, Advance(r, taken), UNCHANGED task,
             \A c \in Candidate : task[r][c] # "storing"
      PROVE  Storing'
  <2>1. \A q \in Request \ {r} : pos'[q] = pos[q]
    BY <1>4, Advances
  <2>2. QED
    BY <1>1, <1>4, <2>1, StoringKept
<1>5. stage[r] \notin Owning => \A c \in Candidate : task[r][c] # "storing"
  BY DEF IInv, Settled
<1>6. CASE Skip(r)
  BY <1>4, <1>5, <1>6 DEF Skip
<1>7. CASE BeginMetric(r)
  BY <1>2, <1>3, <1>7 DEF BeginMetric
<1>8. CASE ModelScored(r) \/ BatchScored(r)
  <2>1. /\ Advance(r, [c \in Candidate |-> Fresh(r, c)]) /\ UNCHANGED task
        /\ stage[r] \in {"model", "batch"}
    BY <1>8 DEF ModelScored, BatchScored, AllScored
  <2>2. QED
    BY <1>4, <1>5, <2>1
<1>9. CASE WindowDone(r)
  <2>1. \A c \in Candidate : task[r][c] # "storing"
    BY <1>9 DEF WindowDone, IInv, Counters
  <2>2. QED
    BY <1>3, <1>4, <1>9, <2>1 DEF WindowDone
<1>10. CASE \/ Combine(r) \/ ModelFailed(r) \/ EnterBatch(r) \/ BatchFailed(r)
            \/ Notice(r) \/ Drained(r) \/ Interrupt(r)
  BY <1>2, <1>10 DEF Combine, ModelFailed, EnterBatch, BatchFailed, NotAllScored, Notice, Drained, Interrupt
<1>11. QED
  BY <1>6, <1>7, <1>8, <1>9, <1>10 DEF RequestStep

LEMMA TaskStoring ==
    ASSUME IInv, Storing, NEW r \in Request, NEW c \in Candidate, TaskStep(r, c)
    PROVE  Storing'
<1>1. UNCHANGED <<metrics, pos>>
  BY DEF TaskStep, KeyFails, Lookup, Acquire, ScoreReturns, ScoreRaises, StoreScore, CancelTask
<1>2. PICK to : Become(r, c, to) /\ (to = "storing" => Metric(r).cacheable)
  BY DEF TaskStep, KeyFails, Lookup, Acquire, ScoreReturns, ScoreRaises, StoreScore, CancelTask
<1>3. \A q \in Request, d \in Candidate :
         task'[q][d] = "storing" => task[q][d] = "storing" \/ Metric(q).cacheable
  BY <1>2 DEF Become, IInv, TypeOK
<1>4. QED
  BY <1>1, <1>3, StoringKept

UseInv == CacheInv /\ OwnInv /\ Storing

LEMMA InitUse == Init => UseInv
<1> SUFFICES ASSUME Init PROVE UseInv
  OBVIOUS
<1>1. CacheInv
  BY CacheSizes DEF Init, CacheInv, Unique, InOrderOfUse, Kept
<1>2. Typed /\ Placed /\ GotOwn /\ Combined /\ Storing
  BY DEF Init, Typed, Placed, GotOwn, Combined, Storing, AtMetric, Nobody, Result
<1>3. ScoresOwn
  <2>1. metrics \in [Request -> Seq(MetricDef)]
    BY ScoringSizes DEF Init
  <2>2. \A r \in Request : DOMAIN metrics[r] \subseteq Nat \ {0}
    BY <2>1
  <2>3. QED
    BY <2>2 DEF Init, ScoresOwn
<1>4. QED
  BY <1>1, <1>2, <1>3 DEF UseInv, OwnInv

LEMMA UseInductive == IInv /\ UseInv /\ [Next]_vars => UseInv'
<1> SUFFICES ASSUME IInv, UseInv, [Next]_vars PROVE UseInv'
  OBVIOUS
<1>1. CacheInv /\ OwnInv /\ Storing
  BY DEF UseInv
<1>2. ASSUME NEW r \in Request, RequestStep(r) \/ Interrupt(r) PROVE UseInv'
  <2>1. UNCHANGED cache
    BY <1>2 DEF RequestStep, Interrupt, Skip, BeginMetric, Combine, ModelScored, ModelFailed,
       EnterBatch, BatchScored, BatchFailed, AllScored, NotAllScored, WindowDone, Notice, Drained, cache
  <2>2. OwnInv'
    BY <1>1, <1>2, BetweenOwn, CallOwn, WindowDoneOwn, EndsOwn DEF RequestStep
  <2>3. QED
    BY <1>1, <1>2, <2>1, <2>2, SameCache, RequestStoring DEF UseInv
<1>3. ASSUME NEW r \in Request, NEW c \in Candidate, TaskStep(r, c) PROVE UseInv'
  BY <1>1, <1>3, TaskOwn, TaskKeepsCache, TaskStoring DEF UseInv
<1>4. CASE UNCHANGED <<metrics, stage, pos, task, score, got>> /\ CacheInv'
  BY <1>1, <1>4, OthersOwn, StoringKept DEF UseInv
<1>5. ASSUME NEW x \in thread, ThreadEnds(x) PROVE UseInv'
  BY <1>1, <1>4, <1>5, SameCache DEF ThreadEnds
<1>6. CASE Tick
  BY <1>1, <1>4, <1>6, SameCache DEF Tick
<1>7. ASSUME NEW namespace, Clear(namespace) PROVE UseInv'
  BY <1>1, <1>4, <1>7, ClearKeepsCache DEF Clear
<1>8. CASE UNCHANGED vars
  BY <1>1, <1>4, <1>8, SameCache DEF vars, cache
<1>9. QED
  BY <1>2, <1>3, <1>5, <1>6, <1>7, <1>8 DEF Next

LEMMA Used == Spec => [](IInv /\ UseInv)
<1>1. Init => IInv /\ UseInv
  BY InitIInv, InitUse
<1>2. IInv /\ UseInv /\ [Next]_vars => (IInv /\ UseInv)'
  BY Inductive, UseInductive
<1>3. QED
  BY <1>1, <1>2, PTL DEF Spec

(***************************************************************************)
(* Theorems.                                                                *)
(***************************************************************************)

\* Whatever the requests, their metrics and the interleaving of their windows, the cache
\* and the clock: a request that is scored has for every candidate and every metric with a
\* weight the score of its own tenant, query and content, and none past its time.
THEOREM ScoresAreOwnAndFresh == Spec => []OwnFreshScores
<1>1. IInv /\ UseInv => OwnFreshScores
  <2> SUFFICES ASSUME IInv, UseInv, NEW r \in Request, stage[r] = "scored",
                      NEW c \in Candidate, NEW i \in DOMAIN metrics[r]
               PROVE  IF metrics[r][i].active
                      THEN score[r][c][i] = [about |-> About(r, c, i), late |-> FALSE]
                      ELSE score[r][c][i] = None
    BY DEF OwnFreshScores
  <2>1. i < pos[r] /\ (metrics[r][i].active => score[r][c][i] # None)
    <3>1. pos[r] > Len(metrics[r]) /\ (metrics[r][i].active => score[r][c][i] # None)
      BY DEF UseInv, OwnInv, Combined
    <3>2. QED
      BY <3>1, MetricTypes
  <2>2. score[r][c][i] \in {None} \cup (IF metrics[r][i].active THEN {Own(r, c, i)} ELSE {})
    BY <2>1 DEF UseInv, OwnInv, ScoresOwn
  <2>3. QED
    BY <2>1, <2>2 DEF Own
<1>2. QED
  BY <1>1, Used, PTL

\* However many entries the cache may hold: it holds no more, no key twice, and what it
\* has given up neither expired nor cleared is older than MaxEntries other keys.
THEOREM RecentKeysAreKept == Spec => []RecentlyUsedKept
<1>1. UseInv => RecentlyUsedKept
  BY KeysCounted DEF UseInv, CacheInv, Kept, RecentlyUsedKept
<1>2. QED
  BY <1>1, Used, PTL
=============================================================================
