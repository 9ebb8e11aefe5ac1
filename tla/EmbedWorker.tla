----------------------------- MODULE EmbedWorker -----------------------------
(***************************************************************************)
(* SentenceTransformerBackend of backends/sentence_transformers.py: every    *)
(* call of _embed makes a job, a task that encodes in a thread under a lock, *)
(* and waits for it behind a shield; aclose waits for the jobs and drops the *)
(* model. The jobs outlive callers that are cancelled.                       *)
(***************************************************************************)

CONSTANTS
    Job,     \* the calls of _embed, each with at most one job
    Closer   \* the calls of aclose

VARIABLES
    pc,       \* where each call of _embed is
    job,      \* its job: none, at the lock, encoding in a thread, done
    jobs,     \* self._jobs
    lock,     \* the jobs that hold self._lock
    model,    \* self._model is there
    closed,   \* self._closed
    closing,  \* what self._close_task is at
    awaited,  \* the jobs its gather waits for
    closer    \* where each call of aclose is

work == <<pc, job, jobs, lock, model>>
close == <<closed, closing, awaited, closer>>
embedVars == <<work, close>>

Finals == {"returned", "failed", "cancelled"}

\* A job is never cancelled: it would leave its thread in the model.
TypeOK ==
    /\ pc \in [Job -> {"new", "waiting"} \cup Finals]
    /\ job \in [Job -> {"none", "ready", "encoding", "done"}]
    /\ jobs \subseteq Job /\ lock \subseteq Job
    /\ model \in BOOLEAN /\ closed \in BOOLEAN
    /\ closing \in {"no", "begun", "gather", "done"}
    /\ awaited \subseteq Job
    /\ closer \in [Closer -> {"new", "waiting", "returned", "cancelled"}]

EmbedInit ==
    /\ pc = [j \in Job |-> "new"] /\ job = [j \in Job |-> "none"]
    /\ jobs = {} /\ lock = {} /\ model = FALSE
    /\ closed = FALSE /\ closing = "no" /\ awaited = {}
    /\ closer = [k \in Closer |-> "new"]

(***************************************************************************)
(* A call of _embed and its job.                                            *)
(***************************************************************************)

\* Faulty: the job is not kept in _jobs.
EmbedUntracked(j) ==
    /\ pc[j] = "new"
    /\ IF closed
       THEN pc' = [pc EXCEPT ![j] = "failed"] /\ UNCHANGED <<job, jobs>>
       ELSE /\ pc' = [pc EXCEPT ![j] = "waiting"]
            /\ job' = [job EXCEPT ![j] = "ready"]
            /\ UNCHANGED jobs
    /\ UNCHANGED <<lock, model, close>>

\* A closed backend refuses, and no texts need no job.
Embed(j) ==
    /\ pc[j] = "new"
    /\ \/ closed /\ pc' = [pc EXCEPT ![j] = "failed"] /\ UNCHANGED <<job, jobs>>
       \/ ~closed /\ pc' = [pc EXCEPT ![j] = "returned"] /\ UNCHANGED <<job, jobs>>
       \/ /\ ~closed
          /\ pc' = [pc EXCEPT ![j] = "waiting"]
          /\ job' = [job EXCEPT ![j] = "ready"]
          /\ jobs' = jobs \cup {j}
    /\ UNCHANGED <<lock, model, close>>

\* The job is over: the done callback drops it from _jobs.
Leaves(j) ==
    /\ job' = [job EXCEPT ![j] = "done"]
    /\ jobs' = jobs \ {j}

\* The job looks at _closed again, under the lock.
RefusedAtLock == closed

\* Faulty: the work is not under the lock.
LockIgnored(j) ==
    /\ job[j] = "ready"
    /\ IF RefusedAtLock
       THEN Leaves(j) /\ UNCHANGED lock
       ELSE /\ job' = [job EXCEPT ![j] = "encoding"]
            /\ lock' = lock \cup {j}
            /\ UNCHANGED jobs
    /\ UNCHANGED <<pc, model, close>>

\* The job gets the lock, looks at _closed, and has _encode run in a thread.
TakeLock(j) ==
    /\ job[j] = "ready" /\ lock = {}
    /\ IF RefusedAtLock
       THEN Leaves(j) /\ UNCHANGED lock
       ELSE /\ job' = [job EXCEPT ![j] = "encoding"]
            /\ lock' = {j}
            /\ UNCHANGED jobs
    /\ UNCHANGED <<pc, model, close>>

\* _encode loads the model on first use.
LoadModel(j) ==
    /\ job[j] = "encoding" /\ ~model
    /\ model' = TRUE
    /\ UNCHANGED <<pc, job, jobs, lock, close>>

\* Faulty: the lock is not given back, as after an acquire() with no `async with`.
EncodeKeepsLock(j) ==
    /\ job[j] = "encoding"
    /\ Leaves(j)
    /\ UNCHANGED <<pc, lock, model, close>>

\* The thread returns or raises.
Encoded(j) ==
    /\ job[j] = "encoding"
    /\ Leaves(j)
    /\ lock' = lock \ {j}
    /\ UNCHANGED <<pc, model, close>>

\* The caller has the outcome of its job.
Answer(j) ==
    /\ pc[j] = "waiting" /\ job[j] = "done"
    /\ \E how \in {"returned", "failed"} : pc' = [pc EXCEPT ![j] = how]
    /\ UNCHANGED <<job, jobs, lock, model, close>>

\* Faulty: no shield, so that the job is cancelled with its caller.
CancelCallerAndJob(j) ==
    /\ pc[j] = "waiting" /\ job[j] # "done"
    /\ pc' = [pc EXCEPT ![j] = "cancelled"]
    /\ job' = [job EXCEPT ![j] = "cancelled"]
    /\ jobs' = jobs \ {j} /\ lock' = lock \ {j}
    /\ UNCHANGED <<model, close>>

\* A cancelled caller leaves its job to run.
CancelCaller(j) ==
    /\ pc[j] \in {"new", "waiting"}
    /\ pc' = [pc EXCEPT ![j] = "cancelled"]
    /\ UNCHANGED <<job, jobs, lock, model, close>>

(***************************************************************************)
(* aclose.                                                                  *)
(***************************************************************************)

\* The first call makes the close task; every call waits behind a shield.
Close(k) ==
    /\ closer[k] = "new"
    /\ closer' = [closer EXCEPT ![k] = "waiting"]
    /\ closed' = TRUE
    /\ closing' = IF closing = "no" THEN "begun" ELSE closing
    /\ UNCHANGED <<work, awaited>>

\* The close task runs and waits for the jobs it finds.
Gather ==
    /\ closing = "begun"
    /\ closing' = "gather"
    /\ awaited' = jobs
    /\ UNCHANGED <<work, closed, closer>>

\* All of them are over, with whatever outcome, and the model is dropped.
Drop ==
    /\ closing = "gather" /\ \A j \in awaited : job[j] = "done"
    /\ closing' = "done"
    /\ model' = FALSE
    /\ UNCHANGED <<pc, job, jobs, lock, closed, awaited, closer>>

CloserReturns(k) ==
    /\ closer[k] = "waiting" /\ closing = "done"
    /\ closer' = [closer EXCEPT ![k] = "returned"]
    /\ UNCHANGED <<work, closed, closing, awaited>>

CancelCloser(k) ==
    /\ closer[k] = "waiting"
    /\ closer' = [closer EXCEPT ![k] = "cancelled"]
    /\ UNCHANGED <<work, closed, closing, awaited>>

JobStep(j) == TakeLock(j) \/ LoadModel(j) \/ Encoded(j)

EmbedNext ==
    \/ \E j \in Job : Embed(j) \/ Answer(j) \/ CancelCaller(j) \/ JobStep(j)
    \/ \E k \in Closer : Close(k) \/ CloserReturns(k) \/ CancelCloser(k)
    \/ Gather \/ Drop

EmbedSpec == EmbedInit /\ [][EmbedNext]_embedVars

\* The loop runs what is ready, an asyncio.Lock is handed on in the order it was
\* asked for (strong fairness on taking it), and every encoding ends.
Fairness ==
    /\ \A j \in Job : SF_embedVars(TakeLock(j)) /\ WF_embedVars(Encoded(j)) /\ WF_embedVars(Answer(j))
    /\ \A k \in Closer : WF_embedVars(CloserReturns(k))
    /\ WF_embedVars(Gather) /\ WF_embedVars(Drop)

FairSpec == EmbedSpec /\ Fairness

(***************************************************************************)
(* Properties.                                                              *)
(***************************************************************************)

\* One thread at a time is in the model, whatever callers are cancelled: neither
\* its load nor its use is safe for two.
OneEncoder ==
    TypeOK /\ \A i, j \in Job : job[i] = "encoding" /\ job[j] = "encoding" => i = j

\* Every job ends, also those whose callers have gone, and so does a close that
\* was begun, also when whoever called aclose has gone.
WorkEnds ==
    /\ \A j \in Job : (job[j] = "ready") ~> (job[j] = "done")
    /\ closed ~> closing = "done"

\* The backend keeps the promise of DrainedShutdown.
Drain == INSTANCE DrainedShutdown WITH
    door <- IF closing = "done" THEN "closed" ELSE IF closed THEN "closing" ELSE "open",
    busy <- {j \in Job : job[j] = "encoding"},
    loaded <- model

DrainSpec == Drain!Spec
=============================================================================
