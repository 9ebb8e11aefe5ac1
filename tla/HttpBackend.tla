---------------------------- MODULE HttpBackend ----------------------------
(***************************************************************************)
(* One JevBackend (backends/jev.py), or its subclass LayaHTTPBackend, over  *)
(* the System One wire format (backends/systemone.py): calls of score that  *)
(* retry with a backoff, calls of aclose, and the transport they share,     *)
(* which is made by the first call that needs it. The service and the clock *)
(* are the environment. A call knows nothing of the other calls but the     *)
(* reference to the transport.                                              *)
(***************************************************************************)
EXTENDS Integers, FiniteSets, FiniteSetsExt

CONSTANTS
    Call,            \* the calls of score
    Closer,          \* the calls of aclose
    Id,              \* the candidates, the same in every call
    Stranger,        \* an id nobody asked for
    Provider,        \* "jev" or "laya"
    MaxAttempts, InitialBackoff, MaxBackoff,
    JitterPercent,
    RetryAfters,     \* what a Retry-After header may say, None without one
    AllowPartial,    \* call -> request.allow_partial
    None

Awaiting == {"posting", "turned_away"}       \* in the post; turned away: the client was closed
Posted == Awaiting \cup {"sleeping"}
Ended == {"returned", "raised", "cancelled"}
Transport == 0..Cardinality(Closer) + 1      \* 0 is the one given to the constructor

ASSUME HttpSizes ==
    /\ IsFiniteSet(Call) /\ IsFiniteSet(Closer) /\ IsFiniteSet(Id) /\ Id # {} /\ Stranger \notin Id
    /\ MaxAttempts \in Nat \ {0} /\ InitialBackoff \in Nat /\ MaxBackoff \in Nat
    /\ JitterPercent \in 0..100 /\ RetryAfters \subseteq Nat \cup {None} /\ None \notin Nat
    /\ Provider \in {"jev", "laya"} /\ AllowPartial \in [Call -> BOOLEAN]

ASSUME BackoffsAreDelays == \A n \in 1..MaxAttempts : InitialBackoff * 2^(n - 1) \in Nat

VARIABLES
    owns,       \* _owns_transport: none was given
    current,    \* self.transport
    used,       \* the transports that exist
    closed,     \* those of them whose aclose has begun
    pc,         \* call -> where score is
    on,         \* call -> its local transport
    attempts,   \* call -> its local count
    sleep,      \* call -> what is left of its sleep
    result,     \* call -> what it returned or told in its error
    closing,    \* aclose -> the transport it waits for, None outside
    closers,    \* those that have not been called
    posts, doubt, hold, disturbed, lost, overlapped, broken
        \* history: posts made, per call; the calls of which an earlier
        \* request may have been served; what is left of the time the service
        \* asked to wait, per call; the calls that ran while aclose did;
        \* transports forgotten while open; whether two calls of aclose ever
        \* overlapped, and whether one was interrupted

local == <<pc, on, attempts, sleep, result>>
shared == <<owns, current, used, closed>>
acloses == <<closing, closers>>
history == <<posts, doubt, hold, disturbed, lost, overlapped, broken>>
vars == <<local, shared, acloses, history>>

Nothing == [scores |-> {}, missing |-> {}, reported |-> FALSE, told |-> None]

TypeOK ==
    /\ current \in used \cup {None} /\ used \subseteq Transport /\ closed \subseteq used
    /\ pc \in [Call -> {"idle"} \cup Posted \cup Ended]
    /\ attempts \in [Call -> 0..MaxAttempts]
    /\ sleep \in [Call -> 0..2 * MaxBackoff]
    /\ closing \in [Closer -> used \cup {None}]

Init ==
    /\ owns \in BOOLEAN
    /\ current = IF owns THEN None ELSE 0
    /\ used = IF owns THEN {} ELSE {0}
    /\ closed = {}
    /\ pc = [c \in Call |-> "idle"]
    /\ on = [c \in Call |-> None]
    /\ attempts = [c \in Call |-> 0]
    /\ sleep = [c \in Call |-> 0]
    /\ result = [c \in Call |-> Nothing]
    /\ closing = [k \in Closer |-> None]
    /\ closers = Closer
    /\ posts = [c \in Call |-> 0]
    /\ hold = [c \in Call |-> 0]
    /\ doubt = {} /\ disturbed = {} /\ lost = {} /\ overlapped = FALSE /\ broken = FALSE

\* The locals go, and what the history says of a running call.
End(c, how, with) ==
    /\ pc' = [pc EXCEPT ![c] = how]
    /\ result' = [result EXCEPT ![c] = with]
    /\ on' = [on EXCEPT ![c] = None]
    /\ sleep' = [sleep EXCEPT ![c] = 0]
    /\ hold' = [hold EXCEPT ![c] = 0]
    /\ disturbed' = disturbed \ {c}
    /\ UNCHANGED attempts

\* An error that says how many attempts were made, and one that does not.
RaiseWithAttempts(c) == End(c, "raised", [Nothing EXCEPT !.told = attempts[c]])
RaisePlainly(c) == End(c, "raised", Nothing)

-----------------------------------------------------------------------------
(* score, up to its first post.                                              *)

\* Duplicate ids, no key, a payload that cannot be built or is too large, no
\* httpx; for Laya also the limits of the deployment and its validator.
Refuse(c) ==
    /\ pc[c] = "idle"
    /\ RaisePlainly(c)
    /\ UNCHANGED <<shared, acloses, posts, doubt, lost, overlapped, broken>>

Closing == {k \in Closer : closing[k] # None}
Unused == CHOOSE t \in Transport \ {0} : t \notin used

\* A client whose close has begun takes no more requests.
Post(t) == IF t \in closed THEN "turned_away" ELSE "posting"

FirstPost(c, t) ==
    /\ pc' = [pc EXCEPT ![c] = Post(t)]
    /\ on' = [on EXCEPT ![c] = t]
    /\ used' = used \cup {t}
    /\ attempts' = [attempts EXCEPT ![c] = 1]
    /\ posts' = [posts EXCEPT ![c] = 1]
    /\ disturbed' = IF Closing # {} THEN disturbed \cup {c} ELSE disturbed
    /\ UNCHANGED <<owns, closed, acloses, sleep, result, doubt, hold,
                   lost, overlapped, broken>>

\* Faulty: the new transport is not kept.
StartAlone(c) ==
    /\ pc[c] = "idle"
    /\ FirstPost(c, IF current = None THEN Unused ELSE current)
    /\ UNCHANGED current

Start(c) ==
    /\ pc[c] = "idle"
    /\ LET t == IF current = None THEN Unused ELSE current
       IN  current' = t /\ FirstPost(c, t)

-----------------------------------------------------------------------------
(* What a post comes to.                                                     *)

\* The exponential backoff after attempt n.
Backoff(n) == Min({MaxBackoff, InitialBackoff * 2^(n - 1)})

\* Faulty: the Retry-After is not read.
DelayOfBackoff(n, wait) == Backoff(n)

Delay(n, wait) == Max({Backoff(n), IF wait = None THEN 0 ELSE wait})

\* A retryable error. `wait` is the Retry-After of a 429.
Retry(c, wait) ==
    \/ /\ attempts[c] >= MaxAttempts \/ (wait # None /\ wait > MaxBackoff)
       /\ RaiseWithAttempts(c)
    \/ /\ attempts[c] < MaxAttempts /\ (wait # None => wait <= MaxBackoff)
       /\ LET d == Delay(attempts[c], wait)
          IN  \E jitter \in 0..(d * JitterPercent) \div 100 :
                  sleep' = [sleep EXCEPT ![c] = d + jitter]
       /\ pc' = [pc EXCEPT ![c] = "sleeping"]
       /\ hold' = [hold EXCEPT ![c] = IF wait = None THEN 0 ELSE wait]
       /\ UNCHANGED <<on, attempts, result, disturbed>>

Outcome(c, served) ==
    /\ pc[c] = "posting"
    /\ doubt' = doubt \cup served
    /\ UNCHANGED <<shared, acloses, posts, lost, overlapped, broken>>

\* A timeout, a broken connection, a 5xx: the request may have been served.
Unavailable(c) == Outcome(c, {c}) /\ Retry(c, None)

\* The error of a closed client: the request was not sent.
TurnedAway(c) ==
    /\ pc[c] = "turned_away"
    /\ Retry(c, None)
    /\ UNCHANGED <<shared, acloses, posts, doubt, lost, overlapped, broken>>

RateLimited(c) ==
    /\ Outcome(c, {})
    /\ \E wait \in RetryAfters : Retry(c, wait)

\* 401, 403 and the other 4xx; an answer larger than the limit.
Rejected(c) == Outcome(c, {}) /\ RaiseWithAttempts(c)

\* 413 and, from Jev, 422: ContextLimitError is no BackendError, and passes.
TooLarge(c) == Outcome(c, {}) /\ RaisePlainly(c)

Answer == [ids : SUBSET (Id \cup {Stranger}), usage : {"none", "half", "both"},
           sound : BOOLEAN, routing : BOOLEAN]

\* Faulty: the usage of the last attempt is taken for that of all.
ReportedOfLast(c, a) == a.usage = "both"

Reported(c, a) == a.usage = "both" /\ attempts[c] = 1

\* decode_relevance: whether the answer is one to this call's question. `sound`
\* stands for the JSON, the types and the ranges.
Decodes(c, a) ==
    /\ a.sound /\ a.ids \subseteq Id
    /\ AllowPartial[c] \/ a.ids = Id

Answered(c, a) ==
    /\ Outcome(c, {})
    /\ \/ ~Decodes(c, a) /\ RaiseWithAttempts(c)
       \* Laya's own check comes after the call, and its error says nothing.
       \/ Decodes(c, a) /\ Provider = "laya" /\ ~a.routing /\ RaisePlainly(c)
       \/ /\ Decodes(c, a) /\ (Provider = "laya" => a.routing)
          /\ End(c, "returned", [scores |-> a.ids, missing |-> Id \ a.ids,
                                 reported |-> Reported(c, a), told |-> attempts[c]])

\* The sleep is over: the next attempt, on the transport of the first.
PostAgain(c) ==
    /\ pc[c] = "sleeping" /\ sleep[c] = 0
    /\ pc' = [pc EXCEPT ![c] = Post(on[c])]
    /\ attempts' = [attempts EXCEPT ![c] = @ + 1]
    /\ posts' = [posts EXCEPT ![c] = @ + 1]
    /\ UNCHANGED <<shared, acloses, on, sleep, result, doubt, hold, disturbed,
                   lost, overlapped, broken>>

\* A cancellation passes through, counting nothing.
Cancel(c) ==
    /\ pc[c] \in Posted
    /\ End(c, "cancelled", Nothing)
    /\ UNCHANGED <<shared, acloses, posts, doubt, lost, overlapped, broken>>

-----------------------------------------------------------------------------
(* aclose, which waits for the transport's.                                  *)

Running == {c \in Call : pc[c] \in Posted}

BeginClose(k) ==
    /\ k \in closers
    /\ closers' = closers \ {k}
    /\ IF owns /\ current # None
       THEN /\ closing' = [closing EXCEPT ![k] = current]
            /\ closed' = closed \cup {current}
            /\ disturbed' = disturbed \cup Running
            /\ overlapped' = (overlapped \/ Closing # {})
       ELSE UNCHANGED <<closing, closed, disturbed, overlapped>>
    /\ UNCHANGED <<local, owns, current, used, posts, doubt, hold, lost, broken>>

\* Faulty: the reference to the closed transport stays.
FinishCloseKeeping(k) ==
    /\ closing[k] # None
    /\ closing' = [closing EXCEPT ![k] = None]
    /\ UNCHANGED <<local, shared, closers, history>>

FinishClose(k) ==
    /\ closing[k] # None
    /\ closing' = [closing EXCEPT ![k] = None]
    /\ current' = None
    /\ lost' = IF current # None /\ current \notin closed THEN lost \cup {current} ELSE lost
    /\ UNCHANGED <<local, owns, used, closed, closers, posts, doubt, hold, disturbed,
                   overlapped, broken>>

\* The transport's aclose raises, or the caller is cancelled in it.
InterruptClose(k) ==
    /\ closing[k] # None
    /\ closing' = [closing EXCEPT ![k] = None]
    /\ broken' = TRUE
    /\ UNCHANGED <<local, shared, closers, posts, doubt, hold, disturbed, lost, overlapped>>

Tick ==
    /\ \E c \in Call : pc[c] = "sleeping" /\ sleep[c] > 0
    /\ sleep' = [c \in Call |-> Max({sleep[c] - 1, 0})]
    /\ hold' = [c \in Call |-> Max({hold[c] - 1, 0})]
    /\ UNCHANGED <<pc, on, attempts, result, shared, acloses, posts, doubt, disturbed,
                   lost, overlapped, broken>>

-----------------------------------------------------------------------------
CallStep(c) ==
    \/ Unavailable(c) \/ TurnedAway(c) \/ RateLimited(c) \/ Rejected(c) \/ TooLarge(c)
    \/ \E a \in Answer : Answered(c, a)
    \/ PostAgain(c)

Next ==
    \/ \E c \in Call : Refuse(c) \/ Start(c) \/ CallStep(c) \/ Cancel(c)
    \/ \E k \in Closer : BeginClose(k) \/ FinishClose(k) \/ InterruptClose(k)
    \/ Tick

Spec == Init /\ [][Next]_vars

-----------------------------------------------------------------------------
(* What settles the budget is exact. A call that ends tells how many posts it *)
(* made, and usage it reports as exact is that of its only post, no earlier  *)
(* request having been served. Three ends tell nothing, whatever was sent before:        *)
(* TooLarge, a Laya checkpoint not confirmed, and a cancellation; the ledger *)
(* then counts one (executor.py:691).                                        *)
AttemptsTold ==
    /\ TypeOK
    /\ \A c \in Call :
        /\ posts[c] = attempts[c] /\ posts[c] <= MaxAttempts
        /\ pc[c] = "returned" => result[c].told = posts[c]
        /\ pc[c] = "raised" => result[c].told \in {posts[c], None}
        /\ result[c].reported => posts[c] = 1 /\ c \notin doubt
        /\ pc[c] = "returned" => /\ result[c].scores \cup result[c].missing = Id
                                 /\ result[c].missing # {} => AllowPartial[c]

(* A call does not post again before the time a rate limit asked for has     *)
(* passed, and no sleep is longer than the cap and its jitter. A Retry-After *)
(* that comes with a 5xx is not read.                                        *)
RetryAfterRespected ==
    \A c \in Call :
        /\ pc[c] \in Awaiting => hold[c] = 0
        /\ sleep[c] * 100 <= MaxBackoff * (100 + JitterPercent)

(* A transport the backend made stays within its reach until it is closed,   *)
(* unless two calls of aclose overlap; one it was given is never closed; and *)
(* a call posts on a closed transport only if aclose ran during the call or  *)
(* an aclose was interrupted before it dropped the reference.                *)
TransportsClosed ==
    /\ \A t \in used \ closed : t = current \/ (t \in lost /\ overlapped)
    /\ 0 \notin closed
    /\ \A c \in Call : pc[c] \in Awaiting /\ on[c] \in closed => c \in disturbed \/ broken
=============================================================================
