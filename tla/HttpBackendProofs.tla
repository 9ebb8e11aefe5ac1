------------------------- MODULE HttpBackendProofs -------------------------
(***************************************************************************)
(* Theorems about HttpBackend for any calls, limits, backoffs and headers:   *)
(* what a call tells of its attempts, how long it waits, and what becomes of *)
(* the transports that calls of aclose and of score share.                   *)
(***************************************************************************)
EXTENDS HttpBackend, FiniteSetTheorems, TLAPS

Outcomes == [scores : SUBSET Id, missing : SUBSET Id, reported : BOOLEAN,
             told : Nat \cup {None}]

Typed ==
    /\ TypeOK
    /\ owns \in BOOLEAN /\ closers \subseteq Closer
    /\ hold \in [Call -> Nat] /\ posts \in [Call -> Nat]
    /\ result \in [Call -> Outcomes]
    /\ on \in [Call -> Transport \cup {None}]

\* A call counts its posts, waits as told, and has nothing to tell before its end.
CallSound(c) ==
    /\ posts[c] = attempts[c]
    /\ pc[c] = "idle" => attempts[c] = 0 /\ hold[c] = 0 /\ c \notin doubt
    /\ pc[c] \in {"idle"} \cup Posted => ~result[c].reported
    /\ pc[c] \in Posted => attempts[c] >= 1
    /\ pc[c] \in Awaiting => hold[c] = 0 /\ (attempts[c] = 1 => c \notin doubt)
    /\ pc[c] = "sleeping" => attempts[c] < MaxAttempts /\ hold[c] <= sleep[c]
    /\ sleep[c] * 100 <= MaxBackoff * (100 + JitterPercent)
    /\ pc[c] = "returned" => result[c].told = posts[c]
    /\ pc[c] = "raised" => result[c].told \in {posts[c], None}
    /\ result[c].reported => posts[c] = 1 /\ c \notin doubt
    /\ pc[c] = "returned" => /\ result[c].scores \cup result[c].missing = Id
                             /\ result[c].missing # {} => AllowPartial[c]

CallsSound == \A c \in Call : CallSound(c)

\* A transport that was given is the only one, and nobody closes it.
GivenIsKept ==
    /\ ~owns => current = 0 /\ used = {0} /\ closed = {} /\ Closing = {}
    /\ owns => 0 \notin used

\* What a call of aclose closes: the current transport, unless two overlap.
ClosesCurrent ==
    /\ \A k \in closers : closing[k] = None
    /\ \A k \in Closing : closing[k] \in closed
    /\ ~overlapped => /\ \A k \in Closing : closing[k] = current
                      /\ \A k, l \in Closing : k = l
    /\ current \in closed => Closing # {} \/ broken

Reachable == \A t \in used \ closed : t = current \/ (t \in lost /\ overlapped)

DisturbedKnown ==
    \A c \in Call : pc[c] \in Posted /\ on[c] \in closed => c \in disturbed \/ broken

\* A new transport takes the place of one that a call of aclose has dropped.
Done == Closer \ (closers \cup Closing)
Gone == IF current = None THEN 1 ELSE 0
Budgeted == owns => Cardinality(used) + Gone <= 1 + Cardinality(Done)

TransportsSound == GivenIsKept /\ ClosesCurrent /\ Reachable /\ DisturbedKnown /\ Budgeted

IInv == Typed /\ CallsSound /\ TransportsSound

(***************************************************************************)
(* Arithmetic of the delays.                                                *)
(***************************************************************************)

LEMMA MinPair == \A a, b \in Int : Min({a, b}) = IF a <= b THEN a ELSE b
BY DEF Min

LEMMA MaxPair == \A a, b \in Int : Max({a, b}) = IF a >= b THEN a ELSE b
BY DEF Max

\* A delay is no longer than the cap and no shorter than a Retry-After under the cap.
LEMMA DelayBounds ==
    ASSUME NEW n \in 1..MaxAttempts, NEW wait \in Nat \cup {None},
           wait # None => wait <= MaxBackoff
    PROVE  Delay(n, wait) \in 0..MaxBackoff /\ (wait # None => wait <= Delay(n, wait))
<1>1. Backoff(n) \in 0..MaxBackoff
  BY MinPair, HttpSizes, BackoffsAreDelays DEF Backoff
<1>2. CASE wait = None
  BY <1>1, <1>2, MaxPair DEF Delay
<1>3. CASE wait # None
  BY <1>1, <1>3, MaxPair DEF Delay
<1>4. QED
  BY <1>2, <1>3

LEMMA JitterBound ==
    ASSUME NEW d \in Nat, NEW J \in 0..100, NEW j \in 0..(d * J) \div 100
    PROVE  j * 100 <= d * J /\ j <= d
<1>1. j * 100 <= d * J
  OBVIOUS
<1>2. d * J <= d * 100
  OBVIOUS
<1>3. QED
  BY <1>1, <1>2

\* A sleep stays under the cap and its jitter.
LEMMA SleepBound ==
    ASSUME NEW d \in 0..MaxBackoff, NEW j \in 0..(d * JitterPercent) \div 100
    PROVE  /\ d + j \in 0..2 * MaxBackoff
           /\ (d + j) * 100 <= MaxBackoff * (100 + JitterPercent)
<1>1. j * 100 <= d * JitterPercent /\ j <= d /\ j \in Nat /\ MaxBackoff \in Nat
  BY JitterBound, HttpSizes
<1>2. d * JitterPercent <= MaxBackoff * JitterPercent
  BY HttpSizes
<1>3. QED
  BY <1>1, <1>2, HttpSizes

LEMMA CapPositive == 0 <= MaxBackoff * (100 + JitterPercent)
BY HttpSizes

(***************************************************************************)
(* Initial states.                                                          *)
(***************************************************************************)

LEMMA TransportSizes ==
    /\ IsFiniteSet(Closer) /\ Cardinality(Closer) \in Nat
    /\ Transport = 0..Cardinality(Closer) + 1 /\ None \notin Transport
    /\ IsFiniteSet(Transport)
<1>1. IsFiniteSet(Closer) /\ Cardinality(Closer) \in Nat
  BY HttpSizes, FS_CardinalityType
<1>2. IsFiniteSet(0..Cardinality(Closer) + 1)
  BY <1>1, FS_Interval
<1>3. QED
  BY <1>1, <1>2, HttpSizes DEF Transport

LEMMA InitIInv == Init => IInv
<1> SUFFICES ASSUME Init PROVE IInv
  OBVIOUS
<1>0. Closing = {} /\ Done = {}
  BY DEF Init, Closing, Done
<1>1. Typed
  <2>1. 0 \in Transport /\ 0 \in 0..MaxAttempts /\ 0 \in 0..2 * MaxBackoff
    BY HttpSizes, TransportSizes
  <2>2. Nothing \in Outcomes
    BY DEF Nothing, Outcomes
  <2>3. TypeOK
    BY <2>1 DEF Init, TypeOK
  <2>4. QED
    BY <2>2, <2>3 DEF Init, Typed
<1>2. CallsSound
  BY CapPositive DEF Init, CallsSound, CallSound, Nothing, Posted, Awaiting
<1>3. GivenIsKept /\ ClosesCurrent /\ Reachable /\ DisturbedKnown
  BY <1>0 DEF Init, GivenIsKept, ClosesCurrent, Reachable, DisturbedKnown, Posted, Awaiting
<1>4. Budgeted
  BY <1>0, FS_EmptySet DEF Init, Budgeted, Gone
<1>5. QED
  BY <1>1, <1>2, <1>3, <1>4 DEF IInv, TransportsSound

(***************************************************************************)
(* Steps of score. They leave the transports alone, but for the first post. *)
(***************************************************************************)

\* What such a step leaves alone, and how it may move call c.
Alone(c) ==
    /\ UNCHANGED <<shared, acloses, lost, overlapped, broken>>
    /\ pc[c] \in Posted \/ pc'[c] \notin Posted
    /\ pc'[c] \in Posted => on'[c] = on[c] /\ (c \in disturbed => c \in disturbed')
    /\ \A d \in Call : d # c => /\ pc'[d] = pc[d] /\ on'[d] = on[d]
                                /\ d \in disturbed => d \in disturbed'

LEMMA TransportsKept ==
    ASSUME IInv, NEW c \in Call, Alone(c)
    PROVE  TransportsSound'
<1>1. UNCHANGED <<owns, current, used, closed, closing, closers, lost, overlapped, broken>>
  BY DEF Alone, shared, acloses
<1>2. Closing' = Closing /\ Done' = Done /\ Gone' = Gone
  BY <1>1 DEF Closing, Done, Gone
<1>3. DisturbedKnown'
  BY <1>1 DEF Alone, IInv, TransportsSound, DisturbedKnown
<1>4. QED
  BY <1>1, <1>2, <1>3
     DEF IInv, TransportsSound, GivenIsKept, ClosesCurrent, Reachable, Budgeted

\* The other calls do not see what call c does to its own locals and history.
LEMMA OthersSound ==
    ASSUME IInv, NEW c \in Call, NEW d \in Call, d # c,
           pc'[d] = pc[d], attempts'[d] = attempts[d], sleep'[d] = sleep[d],
           result'[d] = result[d], posts'[d] = posts[d], hold'[d] = hold[d],
           d \in doubt' <=> d \in doubt
    PROVE  CallSound(d)'
<1>1. CallSound(d)
  BY DEF IInv, CallsSound
<1>2. QED
  BY <1>1 DEF CallSound

\* A call ends and tells either all its posts or nothing.
LEMMA EndPreserves ==
    ASSUME IInv, NEW c \in Call, pc[c] \in {"idle"} \cup Posted,
           NEW how \in Ended, NEW with \in Outcomes, End(c, how, with),
           posts' = posts, UNCHANGED <<shared, acloses, lost, overlapped, broken>>,
           \A d \in Call : d # c => (d \in doubt' <=> d \in doubt),
           how = "returned" => with.told = posts[c],
           how = "raised" => with.told \in {posts[c], None},
           with.reported => posts[c] = 1 /\ c \notin doubt',
           how = "returned" => /\ with.scores \cup with.missing = Id
                               /\ with.missing # {} => AllowPartial[c]
    PROVE  IInv'
<1>0. /\ pc' = [pc EXCEPT ![c] = how] /\ result' = [result EXCEPT ![c] = with]
      /\ on' = [on EXCEPT ![c] = None] /\ sleep' = [sleep EXCEPT ![c] = 0]
      /\ hold' = [hold EXCEPT ![c] = 0] /\ attempts' = attempts
      /\ disturbed' = disturbed \ {c}
  BY DEF End
<1>1. Typed'
  <2>1. 0 \in 0..2 * MaxBackoff
    BY HttpSizes
  <2>2. UNCHANGED <<owns, current, used, closed, closing, closers>>
    BY DEF shared, acloses
  <2>3. TypeOK'
    BY <1>0, <2>1, <2>2 DEF IInv, Typed, TypeOK
  <2>4. QED
    BY <1>0, <2>2, <2>3 DEF IInv, Typed
<1>2. CallsSound'
  <2>1. CallSound(c)'
    <3>1. /\ pc'[c] = how /\ result'[c] = with /\ sleep'[c] = 0 /\ attempts'[c] = attempts[c]
          /\ posts'[c] = posts[c] /\ how \notin {"idle"} \cup Posted
      BY <1>0 DEF IInv, Typed, TypeOK, Ended, Posted, Awaiting
    <3>2. posts[c] = attempts[c]
      BY DEF IInv, CallsSound, CallSound
    <3>3. QED
      BY <3>1, <3>2, CapPositive DEF CallSound, Posted, Awaiting
  <2>2. ASSUME NEW d \in Call, d # c PROVE CallSound(d)'
    BY <1>0, <2>2, OthersSound DEF IInv, Typed, TypeOK
  <2>3. QED
    BY <2>1, <2>2 DEF CallsSound
<1>3. Alone(c)
  BY <1>0 DEF Alone, IInv, Typed, TypeOK, Posted, Awaiting, Ended
<1>4. QED
  BY <1>1, <1>2, <1>3, TransportsKept DEF IInv

LEMMA NothingTold ==
    /\ Nothing \in Outcomes /\ ~Nothing.reported /\ Nothing.told = None
    /\ \A n \in Nat : LET r == [Nothing EXCEPT !.told = n] IN
                      r \in Outcomes /\ ~r.reported /\ r.told = n
BY DEF Nothing, Outcomes

\* An end with an error or by a cancellation.
LEMMA RaisePreserves ==
    ASSUME IInv, NEW c \in Call, pc[c] \in {"idle"} \cup Posted,
           \/ RaiseWithAttempts(c) \/ RaisePlainly(c) \/ End(c, "cancelled", Nothing),
           posts' = posts, UNCHANGED <<shared, acloses, lost, overlapped, broken>>,
           \A d \in Call : d # c => (d \in doubt' <=> d \in doubt)
    PROVE  IInv'
<1>1. posts[c] = attempts[c] /\ attempts[c] \in Nat
  BY HttpSizes DEF IInv, CallsSound, CallSound, Typed, TypeOK
<1>2. CASE RaiseWithAttempts(c)
  <2>1. PICK with \in Outcomes :
          End(c, "raised", with) /\ ~with.reported /\ with.told = attempts[c]
    BY <1>1, <1>2, NothingTold DEF RaiseWithAttempts
  <2>2. QED
    BY <1>1, <2>1, EndPreserves DEF Ended
<1>3. CASE RaisePlainly(c) \/ End(c, "cancelled", Nothing)
  <2>1. PICK how \in {"raised", "cancelled"} : End(c, how, Nothing)
    BY <1>3 DEF RaisePlainly
  <2>2. QED
    BY <2>1, NothingTold, EndPreserves DEF Ended
<1>4. QED
  BY <1>2, <1>3

\* A post that is to be repeated, after a sleep that honours what the service asked.
LEMMA RetryPreserves ==
    ASSUME IInv, NEW c \in Call, pc[c] \in Awaiting, NEW wait \in Nat \cup {None}, Retry(c, wait),
           posts' = posts, UNCHANGED <<shared, acloses, lost, overlapped, broken>>,
           \A d \in Call : d # c => (d \in doubt' <=> d \in doubt)
    PROVE  IInv'
<1>1. CASE RaiseWithAttempts(c)
  BY <1>1, RaisePreserves DEF Posted, Awaiting
<1>2. CASE ~RaiseWithAttempts(c)
  <2> DEFINE d0 == Delay(attempts[c], wait)
             told == IF wait = None THEN 0 ELSE wait
  <2>1. /\ attempts[c] < MaxAttempts /\ (wait # None => wait <= MaxBackoff)
        /\ pc' = [pc EXCEPT ![c] = "sleeping"]
        /\ hold' = [hold EXCEPT ![c] = told]
        /\ UNCHANGED <<on, attempts, result, disturbed>>
    BY <1>2 DEF Retry
  <2>2. PICK jitter \in 0..(d0 * JitterPercent) \div 100 :
             sleep' = [sleep EXCEPT ![c] = d0 + jitter]
    BY <1>2 DEF Retry
  <2>3. CallSound(c)
    BY DEF IInv, CallsSound
  <2>4. attempts[c] \in 1..MaxAttempts
    BY <2>3, HttpSizes DEF CallSound, IInv, Typed, TypeOK, Posted, Awaiting
  <2>5. d0 \in 0..MaxBackoff /\ told \in Nat /\ told <= d0
    BY <2>1, <2>4, DelayBounds, HttpSizes
  <2>6. /\ d0 + jitter \in 0..2 * MaxBackoff /\ told <= d0 + jitter
        /\ (d0 + jitter) * 100 <= MaxBackoff * (100 + JitterPercent)
    <3> HIDE DEF d0, told
    <3>1. jitter \in Nat
      BY <2>2, <2>5, HttpSizes
    <3>2. QED
      BY <2>5, <3>1, SleepBound, HttpSizes
  <2> HIDE DEF d0, told
  <2>7. Typed'
    <3>1. UNCHANGED <<owns, current, used, closed, closing, closers>>
      BY DEF shared, acloses
    <3>2. TypeOK'
      BY <2>1, <2>2, <2>6, <3>1 DEF IInv, Typed, TypeOK, Posted, Awaiting
    <3>3. QED
      BY <2>1, <2>5, <3>1, <3>2 DEF IInv, Typed
  <2>8. CallsSound'
    <3>1. CallSound(c)'
      <4>1. /\ pc'[c] = "sleeping" /\ sleep'[c] = d0 + jitter /\ hold'[c] = told
            /\ result'[c] = result[c] /\ attempts'[c] = attempts[c] /\ posts'[c] = posts[c]
        BY <2>1, <2>2 DEF IInv, Typed, TypeOK
      <4>2. QED
        BY <2>1, <2>3, <2>4, <2>6, <4>1 DEF CallSound, Posted, Awaiting
    <3>2. ASSUME NEW d \in Call, d # c PROVE CallSound(d)'
      BY <2>1, <2>2, <3>2, OthersSound DEF IInv, Typed, TypeOK
    <3>3. QED
      BY <3>1, <3>2 DEF CallsSound
  <2>9. Alone(c)
    BY <2>1 DEF Alone, IInv, Typed, TypeOK, Posted, Awaiting
  <2>10. QED
    BY <2>7, <2>8, <2>9, TransportsKept DEF IInv
<1>3. QED
  BY <1>1, <1>2

LEMMA AnsweredPreserves ==
    ASSUME IInv, NEW c \in Call, NEW a \in Answer, Answered(c, a)
    PROVE  IInv'
<1>1. /\ pc[c] = "posting" /\ posts' = posts /\ doubt' = doubt
      /\ UNCHANGED <<shared, acloses, lost, overlapped, broken>>
  BY DEF Answered, Outcome
<1>2. CASE RaiseWithAttempts(c) \/ RaisePlainly(c)
  BY <1>1, <1>2, RaisePreserves DEF Posted, Awaiting
<1>3. CASE ~(RaiseWithAttempts(c) \/ RaisePlainly(c))
  <2> DEFINE with == [scores |-> a.ids, missing |-> Id \ a.ids,
                      reported |-> Reported(c, a), told |-> attempts[c]]
  <2>1. Decodes(c, a) /\ End(c, "returned", with)
    BY <1>3 DEF Answered
  <2>2. CallSound(c) /\ attempts[c] \in Nat
    BY HttpSizes DEF IInv, CallsSound, Typed, TypeOK
  <2>3. a.ids \subseteq Id /\ (a.ids # Id => AllowPartial[c])
    BY <2>1, HttpSizes DEF Decodes
  <2>4. with \in Outcomes
    BY <2>2, <2>3 DEF Outcomes, Reported
  <2>5. /\ with.told = posts[c] /\ with.scores \cup with.missing = Id
        /\ with.missing # {} => AllowPartial[c]
        /\ with.reported => posts[c] = 1 /\ c \notin doubt
    BY <1>1, <2>2, <2>3 DEF CallSound, Reported, Awaiting
  <2>6. QED
    <3> HIDE DEF with
    <3>1. QED
      BY <1>1, <2>1, <2>4, <2>5, EndPreserves DEF Ended, Posted, Awaiting
<1>4. QED
  BY <1>2, <1>3

LEMMA PostAgainPreserves == ASSUME IInv, NEW c \in Call, PostAgain(c) PROVE IInv'
<1>1. /\ pc[c] = "sleeping" /\ sleep[c] = 0 /\ pc' = [pc EXCEPT ![c] = Post(on[c])]
      /\ attempts' = [attempts EXCEPT ![c] = @ + 1] /\ posts' = [posts EXCEPT ![c] = @ + 1]
      /\ UNCHANGED <<on, sleep, result, doubt, hold, disturbed>>
      /\ UNCHANGED <<shared, acloses, lost, overlapped, broken>>
  BY DEF PostAgain
<1>2. CallSound(c) /\ attempts[c] \in 0..MaxAttempts /\ hold[c] \in Nat
  BY DEF IInv, CallsSound, Typed, TypeOK
<1>3. attempts[c] + 1 \in 0..MaxAttempts /\ attempts[c] + 1 > 1 /\ hold[c] = 0
  BY <1>1, <1>2, HttpSizes DEF CallSound, Posted, Awaiting
<1>4. Typed'
  <2>1. UNCHANGED <<owns, current, used, closed, closing, closers>>
    BY <1>1 DEF shared, acloses
  <2>2. TypeOK'
    BY <1>1, <1>3, <2>1 DEF IInv, Typed, TypeOK, Posted, Awaiting, Post
  <2>3. QED
    BY <1>1, <2>1, <2>2 DEF IInv, Typed
<1>5. CallsSound'
  <2>1. CallSound(c)'
    <3>1. /\ pc'[c] \in Awaiting /\ attempts'[c] = attempts[c] + 1 /\ posts'[c] = posts[c] + 1
          /\ sleep'[c] = sleep[c] /\ result'[c] = result[c] /\ hold'[c] = hold[c]
      BY <1>1 DEF IInv, Typed, TypeOK, Post, Awaiting
    <3>2. QED
      BY <1>1, <1>2, <1>3, <3>1 DEF CallSound, Posted, Awaiting
  <2>2. ASSUME NEW d \in Call, d # c PROVE CallSound(d)'
    BY <1>1, <2>2, OthersSound DEF IInv, Typed, TypeOK
  <2>3. QED
    BY <2>1, <2>2 DEF CallsSound
<1>6. Alone(c)
  BY <1>1 DEF Alone, IInv, Typed, TypeOK, Posted, Awaiting
<1>7. QED
  BY <1>4, <1>5, <1>6, TransportsKept DEF IInv

LEMMA CallStepPreserves == ASSUME IInv, NEW c \in Call, CallStep(c) PROVE IInv'
<1>1. CASE Unavailable(c)
  <2>1. /\ pc[c] = "posting" /\ posts' = posts /\ Retry(c, None)
        /\ UNCHANGED <<shared, acloses, lost, overlapped, broken>>
        /\ \A d \in Call : d # c => (d \in doubt' <=> d \in doubt)
    BY <1>1 DEF Unavailable, Outcome
  <2>2. QED
    BY <2>1, RetryPreserves DEF Awaiting
<1>2. CASE TurnedAway(c)
  BY <1>2, RetryPreserves DEF TurnedAway, Awaiting
<1>3. CASE RateLimited(c)
  <2>1. PICK wait \in Nat \cup {None} : Retry(c, wait)
    BY <1>3, HttpSizes DEF RateLimited
  <2>2. QED
    BY <1>3, <2>1, RetryPreserves DEF RateLimited, Outcome, Awaiting
<1>4. CASE Rejected(c) \/ TooLarge(c)
  BY <1>4, RaisePreserves DEF Rejected, TooLarge, Outcome, Posted, Awaiting
<1>5. QED
  BY <1>1, <1>2, <1>3, <1>4, AnsweredPreserves, PostAgainPreserves DEF CallStep

LEMMA EndlessPreserves == ASSUME IInv, NEW c \in Call, Refuse(c) \/ Cancel(c) PROVE IInv'
BY RaisePreserves DEF Refuse, Cancel

\* There is a number left for a new transport: as many were made as were dropped.
LEMMA UnusedIsNew ==
    ASSUME IInv, current = None
    PROVE  Unused \in Transport \ {0} /\ Unused \notin used
<1> DEFINE n == Cardinality(Closer)
<1>1. n \in Nat /\ IsFiniteSet(Done) /\ Cardinality(Done) <= n
  BY TransportSizes, FS_Subset DEF Done
<1>2. IsFiniteSet(used)
  BY TransportSizes, FS_Subset DEF IInv, Typed, TypeOK
<1>3. owns /\ Cardinality(used) + 1 <= 1 + Cardinality(Done)
  BY HttpSizes DEF IInv, Typed, TransportsSound, GivenIsKept, Budgeted, Gone
<1>4. Cardinality(used) \in Nat /\ Cardinality(Done) \in Nat
  BY <1>1, <1>2, FS_CardinalityType
<1>5. Transport \ {0} = 1..n + 1 /\ Cardinality(1..n + 1) = n + 1
  <2>1. Transport = 0..n + 1
    BY TransportSizes
  <2> HIDE DEF n
  <2>2. Transport \ {0} = 1..n + 1
    BY <1>1, <2>1
  <2>3. Cardinality(1..n + 1) = n + 1
    <3>1. \A a, b \in Int : a <= b => Cardinality(a..b) = b - a + 1
      BY FS_Interval
    <3>2. QED
      BY <1>1, <3>1
  <2>4. QED
    BY <2>2, <2>3
<1>6. ~(Transport \ {0} \subseteq used)
  <2> HIDE DEF n
  <2>1. ASSUME 1..n + 1 \subseteq used PROVE n + 1 <= Cardinality(used)
    <3>1. Cardinality(1..n + 1) <= Cardinality(used)
      BY <1>2, <2>1, FS_Subset
    <3>2. QED
      BY <1>5, <3>1
  <2>2. QED
    BY <1>1, <1>3, <1>4, <1>5, <2>1
<1>7. QED
  BY <1>6 DEF Unused

LEMMA StartPreserves == ASSUME IInv, NEW c \in Call, Start(c) PROVE IInv'
<1> DEFINE t == IF current = None THEN Unused ELSE current
<1>1. /\ pc[c] = "idle" /\ current' = t
      /\ pc' = [pc EXCEPT ![c] = Post(t)] /\ on' = [on EXCEPT ![c] = t]
      /\ used' = used \cup {t}
      /\ attempts' = [attempts EXCEPT ![c] = 1] /\ posts' = [posts EXCEPT ![c] = 1]
      /\ disturbed' = IF Closing # {} THEN disturbed \cup {c} ELSE disturbed
      /\ UNCHANGED <<owns, closed, acloses, sleep, result, doubt, hold, lost, overlapped, broken>>
  BY DEF Start, FirstPost
<1>2. t \in Transport /\ t # None
  BY UnusedIsNew, TransportSizes DEF IInv, Typed, TypeOK
<1>4. current = None => t \notin used /\ t # 0 /\ t \notin closed
  BY UnusedIsNew DEF IInv, Typed, TypeOK
<1>5. current # None => t = current /\ used' = used
  BY <1>1 DEF IInv, Typed, TypeOK
<1> HIDE DEF t
<1>6. Typed'
  <2>1. 1 \in 0..MaxAttempts
    BY HttpSizes
  <2>2. UNCHANGED <<closing, closers>>
    BY <1>1 DEF acloses
  <2>3. TypeOK'
    BY <1>1, <1>2, <2>1, <2>2 DEF IInv, Typed, TypeOK, Posted, Awaiting, Post
  <2>4. QED
    BY <1>1, <1>2, <2>2, <2>3 DEF IInv, Typed
<1>7. CallsSound'
  <2>1. CallSound(c)'
    <3>1. /\ pc'[c] \in Awaiting /\ attempts'[c] = 1 /\ posts'[c] = 1 /\ sleep'[c] = sleep[c]
          /\ result'[c] = result[c] /\ hold'[c] = hold[c]
      BY <1>1 DEF IInv, Typed, TypeOK, Post, Awaiting
    <3>2. CallSound(c) /\ hold[c] = 0
      BY <1>1 DEF IInv, CallsSound, CallSound
    <3>3. QED
      BY <1>1, <3>1, <3>2 DEF CallSound, Posted, Awaiting
  <2>2. ASSUME NEW d \in Call, d # c PROVE CallSound(d)'
    BY <1>1, <2>2, OthersSound DEF IInv, Typed, TypeOK
  <2>3. QED
    BY <2>1, <2>2 DEF CallsSound
<1>8. TransportsSound'
  <2>1. UNCHANGED <<closing, closers, Closing, Done>>
    BY <1>1 DEF acloses, Closing, Done
  <2>2. current = None => Closing = {} \/ overlapped
    BY DEF IInv, TransportsSound, ClosesCurrent, Closing
  <2>3. GivenIsKept'
    BY <1>1, <1>4, <1>5, <2>1, HttpSizes DEF IInv, Typed, TransportsSound, GivenIsKept
  <2>4. ClosesCurrent'
    BY <1>1, <1>4, <1>5, <2>1, <2>2 DEF IInv, TransportsSound, ClosesCurrent
  <2>5. Reachable'
    BY <1>1, <1>4, <1>5, <2>2, TransportSizes DEF IInv, Typed, TypeOK, TransportsSound, Reachable
  <2>6. DisturbedKnown'
    <3> SUFFICES ASSUME NEW d \in Call, pc'[d] \in Posted, on'[d] \in closed'
                 PROVE  d \in disturbed' \/ broken'
      BY DEF DisturbedKnown
    <3>1. CASE d = c
      <4>1. t \in closed
        BY <1>1, <3>1 DEF IInv, Typed
      <4>2. Closing # {} \/ broken
        BY <1>4, <1>5, <4>1 DEF IInv, TransportsSound, ClosesCurrent
      <4>3. QED
        BY <1>1, <3>1, <4>2
    <3>2. CASE d # c
      BY <1>1, <3>2 DEF IInv, Typed, TypeOK, TransportsSound, DisturbedKnown
    <3>3. QED
      BY <3>1, <3>2
  <2>7. Budgeted'
    <3>1. CASE current = None
      <4>1. IsFiniteSet(used) /\ Cardinality(used) \in Nat
        BY TransportSizes, FS_Subset, FS_CardinalityType DEF IInv, Typed, TypeOK
      <4>2. Cardinality(used') = Cardinality(used) + 1
        BY <1>1, <1>4, <3>1, <4>1, FS_AddElement
      <4>3. Gone = 1 /\ Gone' = 0
        BY <1>1, <1>2, <3>1 DEF Gone
      <4>4. QED
        BY <1>1, <2>1, <4>1, <4>2, <4>3 DEF IInv, TransportsSound, Budgeted
    <3>2. CASE current # None
      BY <1>1, <1>5, <2>1, <3>2 DEF IInv, TransportsSound, Budgeted, Gone
    <3>3. QED
      BY <3>1, <3>2
  <2>8. QED
    BY <2>3, <2>4, <2>5, <2>6, <2>7 DEF TransportsSound
<1>9. QED
  BY <1>6, <1>7, <1>8 DEF IInv

(***************************************************************************)
(* Steps of aclose, and the clock.                                          *)
(***************************************************************************)

\* What they leave to the calls of score.
LEMMA CallsKept ==
    ASSUME IInv, UNCHANGED <<local, posts, doubt, hold>>
    PROVE  CallsSound'
BY DEF IInv, CallsSound, CallSound, local

LEMMA DoneFinite == IsFiniteSet(Done) /\ Cardinality(Done) \in Nat
BY TransportSizes, FS_Subset, FS_CardinalityType DEF Done

\* A call of aclose that is done makes room for one transport.
LEMMA OneMoreDone ==
    ASSUME NEW k \in Closer, k \notin Done, Done' = Done \cup {k}
    PROVE  Cardinality(Done') = Cardinality(Done) + 1
BY DoneFinite, FS_AddElement

LEMMA BeginClosePreserves == ASSUME IInv, NEW k \in Closer, BeginClose(k) PROVE IInv'
<1>1. /\ k \in closers /\ closers' = closers \ {k} /\ closing[k] = None
      /\ UNCHANGED <<local, owns, current, used, posts, doubt, hold, lost, broken>>
  BY DEF BeginClose, IInv, TransportsSound, ClosesCurrent
<1>2. CallsSound'
  BY <1>1, CallsKept
<1>3. CASE owns /\ current # None
  <2>1. /\ closing' = [closing EXCEPT ![k] = current] /\ closed' = closed \cup {current}
        /\ disturbed' = disturbed \cup Running /\ overlapped' = (overlapped \/ Closing # {})
    BY <1>3 DEF BeginClose
  <2>2. Closing' = Closing \cup {k} /\ k \notin Closing /\ Done' = Done
    BY <1>1, <1>3, <2>1 DEF Closing, Done, IInv, Typed, TypeOK
  <2>3. Typed'
    BY <1>1, <1>3, <2>1 DEF IInv, Typed, TypeOK, local
  <2>4. GivenIsKept'
    BY <1>1, <1>3, <2>1 DEF IInv, TransportsSound, GivenIsKept
  <2>5. ClosesCurrent'
    BY <1>1, <1>3, <2>1, <2>2 DEF IInv, Typed, TypeOK, TransportsSound, ClosesCurrent, Closing
  <2>6. Reachable'
    BY <1>1, <2>1 DEF IInv, TransportsSound, Reachable
  <2>7. DisturbedKnown'
    BY <1>1, <2>1 DEF IInv, TransportsSound, DisturbedKnown, Running, local
  <2>8. Budgeted'
    BY <1>1, <2>2 DEF IInv, TransportsSound, Budgeted, Gone
  <2>9. QED
    BY <1>2, <2>3, <2>4, <2>5, <2>6, <2>7, <2>8 DEF IInv, TransportsSound
<1>4. CASE ~(owns /\ current # None)
  <2>1. UNCHANGED <<closing, closed, disturbed, overlapped>>
    BY <1>4 DEF BeginClose
  <2>2. Closing' = Closing /\ k \notin Closing /\ k \notin Done /\ Done' = Done \cup {k}
    BY <1>1, <2>1 DEF Closing, Done
  <2>3. Typed'
    BY <1>1, <2>1 DEF IInv, Typed, TypeOK, local
  <2>4. GivenIsKept' /\ ClosesCurrent' /\ Reachable'
    BY <1>1, <2>1, <2>2 DEF IInv, TransportsSound, GivenIsKept, ClosesCurrent, Reachable
  <2>5. DisturbedKnown'
    BY <1>1, <2>1 DEF IInv, TransportsSound, DisturbedKnown, local
  <2>6. Budgeted'
    <3>1. Cardinality(Done') = Cardinality(Done) + 1
      BY <2>2, OneMoreDone
    <3>2. ASSUME owns PROVE Cardinality(used) + Gone <= 1 + Cardinality(Done) + 1
      <4>1. Cardinality(used) \in Nat /\ Gone \in Nat
        BY TransportSizes, FS_Subset, FS_CardinalityType DEF IInv, Typed, TypeOK, Gone
      <4>2. QED
        BY <3>2, <4>1, DoneFinite DEF IInv, TransportsSound, Budgeted
    <3>3. QED
      BY <1>1, <3>1, <3>2, DoneFinite DEF Budgeted, Gone
  <2>7. QED
    BY <1>2, <2>3, <2>4, <2>5, <2>6 DEF IInv, TransportsSound
<1>5. QED
  BY <1>3, <1>4

LEMMA EndClosePreserves ==
    ASSUME IInv, NEW k \in Closer, FinishClose(k) \/ InterruptClose(k)
    PROVE  IInv'
<1>1. /\ k \in Closing /\ closing[k] # None /\ closing' = [closing EXCEPT ![k] = None]
      /\ UNCHANGED <<local, owns, used, closed, closers, posts, doubt, hold, disturbed, overlapped>>
  BY DEF FinishClose, InterruptClose, Closing, shared
<1>2. CallsSound'
  BY <1>1, CallsKept
<1>3. Closing' = Closing \ {k} /\ k \notin closers /\ k \notin Done /\ Done' = Done \cup {k}
  BY <1>1 DEF Closing, Done, IInv, Typed, TypeOK, TransportsSound, ClosesCurrent
<1>4. owns
  BY <1>1 DEF IInv, TransportsSound, GivenIsKept
<1>5. /\ Cardinality(Done') = Cardinality(Done) + 1 /\ Cardinality(Done) \in Nat
      /\ Cardinality(used) \in Nat /\ Gone \in 0..1 /\ Gone' \in 0..1
      /\ Cardinality(used) + Gone <= 1 + Cardinality(Done)
  <2>1. Cardinality(used) \in Nat
    BY TransportSizes, FS_Subset, FS_CardinalityType DEF IInv, Typed, TypeOK
  <2>2. QED
    BY <1>3, <1>4, <2>1, OneMoreDone, DoneFinite DEF IInv, TransportsSound, Budgeted, Gone
<1>6. Budgeted'
  BY <1>1, <1>5 DEF Budgeted
<1>7. CASE FinishClose(k)
  <2>1. /\ current' = None /\ broken' = broken
        /\ lost' = IF current # None /\ current \notin closed THEN lost \cup {current} ELSE lost
    BY <1>7 DEF FinishClose
  <2>2. Typed'
    BY <1>1, <2>1 DEF IInv, Typed, TypeOK, local
  <2>3. GivenIsKept'
    BY <1>1, <1>3, <1>4, <2>1 DEF IInv, TransportsSound, GivenIsKept
  <2>4. ClosesCurrent'
    <3>1. None \notin closed
      BY TransportSizes DEF IInv, Typed, TypeOK
    <3>2. ~overlapped => Closing = {k}
      BY <1>1 DEF IInv, TransportsSound, ClosesCurrent
    <3>3. QED
      BY <1>1, <1>3, <2>1, <3>1, <3>2
         DEF IInv, Typed, TypeOK, TransportsSound, ClosesCurrent, Closing
  <2>5. Reachable'
    <3>1. overlapped \/ current \in closed
      BY <1>1 DEF IInv, TransportsSound, ClosesCurrent
    <3>2. None \notin used
      BY TransportSizes DEF IInv, Typed, TypeOK
    <3>3. QED
      BY <1>1, <2>1, <3>1, <3>2 DEF IInv, TransportsSound, Reachable
  <2>6. DisturbedKnown'
    BY <1>1, <2>1 DEF IInv, TransportsSound, DisturbedKnown, local
  <2>7. QED
    BY <1>2, <1>6, <2>2, <2>3, <2>4, <2>5, <2>6 DEF IInv, TransportsSound
<1>8. CASE InterruptClose(k)
  <2>1. broken' /\ UNCHANGED <<current, lost>>
    BY <1>8 DEF InterruptClose, shared
  <2>2. Typed'
    BY <1>1, <2>1 DEF IInv, Typed, TypeOK, local
  <2>3. GivenIsKept' /\ Reachable' /\ DisturbedKnown'
    BY <1>1, <1>4, <2>1 DEF IInv, TransportsSound, GivenIsKept, Reachable, DisturbedKnown
  <2>4. ClosesCurrent'
    BY <1>1, <1>3, <2>1 DEF IInv, Typed, TypeOK, TransportsSound, ClosesCurrent, Closing
  <2>5. QED
    BY <1>2, <1>6, <2>2, <2>3, <2>4 DEF IInv, TransportsSound
<1>9. QED
  BY <1>7, <1>8

LEMMA TickPreserves == ASSUME IInv, Tick PROVE IInv'
<1>1. /\ sleep' = [c \in Call |-> Max({sleep[c] - 1, 0})]
      /\ hold' = [c \in Call |-> Max({hold[c] - 1, 0})]
      /\ UNCHANGED <<pc, on, attempts, result, shared, acloses, posts, doubt, disturbed,
                     lost, overlapped, broken>>
  BY DEF Tick
<1>2. \A c \in Call : sleep[c] \in 0..2 * MaxBackoff /\ hold[c] \in Nat
  BY DEF IInv, Typed, TypeOK
<1>3. \A c \in Call : /\ sleep'[c] \in 0..2 * MaxBackoff /\ sleep'[c] <= sleep[c]
                      /\ hold'[c] \in Nat /\ (hold[c] = 0 => hold'[c] = 0)
                      /\ hold[c] <= sleep[c] => hold'[c] <= sleep'[c]
  <2> TAKE c \in Call
  <2>1. /\ sleep'[c] = IF sleep[c] - 1 >= 0 THEN sleep[c] - 1 ELSE 0
        /\ hold'[c] = IF hold[c] - 1 >= 0 THEN hold[c] - 1 ELSE 0
    BY <1>1, <1>2, MaxPair, HttpSizes
  <2>2. QED
    BY <1>2, <2>1, HttpSizes
<1>4. Typed'
  <2>1. UNCHANGED <<owns, current, used, closed, closing, closers>>
    BY <1>1 DEF shared, acloses
  <2>2. sleep' \in [Call -> 0..2 * MaxBackoff] /\ hold' \in [Call -> Nat]
    BY <1>1, <1>3
  <2>3. TypeOK'
    BY <1>1, <2>1, <2>2 DEF IInv, Typed, TypeOK
  <2>4. QED
    BY <1>1, <2>1, <2>2, <2>3 DEF IInv, Typed
<1>5. CallsSound'
  <2> SUFFICES ASSUME NEW c \in Call PROVE CallSound(c)'
    BY DEF CallsSound
  <2>1. CallSound(c)
    BY DEF IInv, CallsSound
  <2>2. sleep'[c] * 100 <= MaxBackoff * (100 + JitterPercent)
    BY <1>2, <1>3, <2>1, HttpSizes DEF CallSound
  <2>3. QED
    BY <1>1, <1>3, <2>1, <2>2 DEF CallSound
<1>6. TransportsSound'
  <2>1. UNCHANGED <<owns, current, used, closed, closing, closers, Closing, Done, Gone>>
    BY <1>1 DEF shared, acloses, Closing, Done, Gone
  <2>2. QED
    BY <1>1, <2>1 DEF IInv, TransportsSound, GivenIsKept, ClosesCurrent, Reachable,
                      DisturbedKnown, Budgeted
<1>7. QED
  BY <1>4, <1>5, <1>6 DEF IInv

(***************************************************************************)
(* Theorems.                                                                *)
(***************************************************************************)

LEMMA IdlePreserves == ASSUME IInv, UNCHANGED vars PROVE IInv'
<1>1. UNCHANGED <<local, owns, current, used, closed, closing, closers, pc, on, attempts,
                  sleep, result, posts, doubt, hold, disturbed, lost, overlapped, broken>>
  BY DEF vars, local, shared, acloses, history
<1>2. UNCHANGED <<Closing, Done, Gone>>
  BY <1>1 DEF Closing, Done, Gone
<1>3. Typed'
  BY <1>1 DEF IInv, Typed, TypeOK
<1>4. TransportsSound'
  BY <1>1, <1>2 DEF IInv, TransportsSound, GivenIsKept, ClosesCurrent, Reachable,
                    DisturbedKnown, Budgeted
<1>5. QED
  BY <1>1, <1>3, <1>4, CallsKept DEF IInv

\* The inductive invariant behind the theorems: each call's count, delay and error,
\* and what the transports, the calls of aclose and the history say of each other.
THEOREM Inductive == Spec => []IInv
<1>1. IInv /\ [Next]_vars => IInv'
  BY CallStepPreserves, EndlessPreserves, StartPreserves, BeginClosePreserves,
     EndClosePreserves, TickPreserves, IdlePreserves DEF Next
<1>2. QED
  BY InitIInv, <1>1, PTL DEF Spec

\* For any attempts, backoffs and answers of the service: a call of JevBackend that
\* tells its attempts tells the requests it sent, and usage it reports as exact is
\* that of its only request.
THEOREM AttemptsAreTold == Spec => []AttemptsTold
<1>1. IInv => AttemptsTold
  <2> SUFFICES ASSUME IInv PROVE AttemptsTold
    OBVIOUS
  <2>1. TypeOK
    BY DEF IInv, Typed
  <2>2. ASSUME NEW c \in Call PROVE CallSound(c) /\ attempts[c] <= MaxAttempts
    BY <2>1, HttpSizes DEF IInv, CallsSound, TypeOK
  <2>3. QED
    BY <2>1, <2>2 DEF AttemptsTold, CallSound
<1>2. QED
  BY <1>1, Inductive, PTL

\* For any Retry-After, backoff and jitter: no call posts again before the time that a
\* rate limit asked for has passed, nor sleeps longer than the cap and its jitter.
THEOREM RetryAfterIsRespected == Spec => []RetryAfterRespected
<1>1. IInv => RetryAfterRespected
  BY DEF IInv, CallsSound, CallSound, RetryAfterRespected
<1>2. QED
  BY <1>1, Inductive, PTL

\* For any calls of score and aclose: a transport is forgotten while open only by calls
\* of aclose that overlap, a given one is never closed, and a post on a closed one is
\* in a call that an aclose ran into or after one that was interrupted.
THEOREM TransportsAreClosed == Spec => []TransportsClosed
<1>1. IInv => TransportsClosed
  BY DEF IInv, Typed, TransportsSound, GivenIsKept, Reachable, DisturbedKnown,
         TransportsClosed, TypeOK, Posted, Awaiting
<1>2. QED
  BY <1>1, Inductive, PTL
=============================================================================
