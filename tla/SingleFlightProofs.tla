------------------------ MODULE SingleFlightProofs ------------------------
(***************************************************************************)
(* Theorems about SingleFlight for any number of callers and any keys: the  *)
(* waiter count is exact, no task runs unwanted, no caller loses the task   *)
(* it waits for, and a shared response always fits.                         *)
(***************************************************************************)
EXTENDS SingleFlight, FiniteSetTheorems, TLAPS

Before == {"new", "lookup", "purging"}
Unfinished == {"created", "running"}

\* A caller that has not reached the table has created no task.
Fresh == \A c \in Caller : pc[c] \in Before => status[c] = "none"

\* Every caller at a shield is listed under its own key.
WaitersListed ==
    \A c \in Caller : pc[c] = "waiting" => task[c] \in Caller /\ Listed(c)

\* An entry lists a task of its own key that has not been cancelled.
EntriesSound ==
    \A k \in Key : inflight[k] # None =>
        LET t == inflight[k].task IN
        /\ InflightKey(t) = k
        /\ status[t] # "none"
        /\ t \notin doomed

\* A task that runs on is listed.
LiveListed ==
    \A t \in Caller : status[t] \in Unfinished /\ t \notin doomed =>
        /\ inflight[InflightKey(t)] # None
        /\ inflight[InflightKey(t)].task = t

\* Only a task that exists has been cancelled.
DoomedCreated == \A t \in doomed : status[t] # "none"

\* What is about to be stored is whole, and partial results are tolerated.
ResultsSound ==
    /\ \A c \in Caller : pc[c] = "storing" => task[c] \in Caller /\ status[task[c]] = "full"
    /\ \A t \in Caller : status[t] = "partial" => t \in AllowPartial

IInv ==
    /\ TypeOK
    /\ Fresh
    /\ WaitersListed
    /\ EntriesSound
    /\ WaitersCounted
    /\ LiveListed
    /\ DoomedCreated
    /\ CancelledTaskAwaited
    /\ ResultsSound

\* Who waits for t after the step.
NextWaiting(t) == {c \in Caller : pc'[c] = "waiting" /\ task'[c] = t}

LEMMA KeyType == \A c \in Caller : InflightKey(c) \in Key
BY DEF Key

LEMMA WaitingFinite == \A t \in Caller : IsFiniteSet(Waiting(t)) /\ Cardinality(Waiting(t)) \in Nat
<1> TAKE t \in Caller
<1>1. Waiting(t) \subseteq Caller
  BY DEF Waiting, NextWaiting
<1>2. IsFiniteSet(Waiting(t))
  BY <1>1, CallerFinite, FS_Subset
<1>3. QED
  BY <1>2, FS_CardinalityType

LEMMA SingletonCount == \A c : Cardinality({c}) = 1
BY FS_Singleton

LEMMA InitIInv == Init => IInv
<1> SUFFICES ASSUME Init PROVE IInv
  OBVIOUS
<1>1. TypeOK
  BY DEF Init, TypeOK, Pc, Status, Record
<1>2. Fresh /\ WaitersListed /\ EntriesSound /\ WaitersCounted /\ LiveListed
  BY KeyType DEF Init, Fresh, Before, WaitersListed, EntriesSound, WaitersCounted,
                 LiveListed, Unfinished
<1>3. DoomedCreated /\ CancelledTaskAwaited /\ ResultsSound
  BY DEF Init, DoomedCreated, CancelledTaskAwaited, ResultsSound
<1>4. QED
  BY <1>1, <1>2, <1>3 DEF IInv

\* A step that touches neither the table nor the tasks, and moves no caller to
\* or from the shield or the finally block.
LEMMA QuietStep ==
    ASSUME IInv, TypeOK', UNCHANGED <<task, inflight, status, doomed>>,
           \A c \in Caller : /\ pc'[c] = "waiting" <=> pc[c] = "waiting"
                             /\ pc[c] = "leaving" => pc'[c] = "leaving"
                             /\ pc'[c] \in Before => pc[c] \in Before
                             /\ pc'[c] = "storing" => pc[c] = "storing"
    PROVE  IInv'
<1>1. \A t \in Caller : NextWaiting(t) = Waiting(t)
  BY DEF Waiting, NextWaiting
<1>2. Fresh'
  BY DEF IInv, Fresh
<1>3. WaitersListed'
  BY DEF IInv, WaitersListed, Listed, InflightKey
<1>4. EntriesSound'
  BY DEF IInv, EntriesSound, InflightKey
<1>5. WaitersCounted'
  BY <1>1 DEF IInv, WaitersCounted, TypeOK, Entry, Waiting, NextWaiting
<1>6. LiveListed'
  BY DEF IInv, LiveListed, InflightKey
<1>7. CancelledTaskAwaited'
  BY DEF IInv, CancelledTaskAwaited, Finished
<1>8. ResultsSound'
  BY DEF IInv, ResultsSound
<1>9. DoomedCreated'
  BY DEF IInv, DoomedCreated
<1>10. QED
  BY <1>2, <1>3, <1>4, <1>5, <1>6, <1>7, <1>8, <1>9 DEF IInv

LEMMA JoinStep ==
    ASSUME IInv, NEW c \in Caller, pc[c] \in Before, JoinFlight(c),
           asked' = asked, got' = got, cache' \in [Content -> Record \cup {None}]
    PROVE  IInv'
<1> DEFINE k == InflightKey(c)
<1>0. /\ TypeOK /\ k \in Key /\ status[c] = "none"
      /\ pc' = [pc EXCEPT ![c] = "waiting"] /\ doomed' = doomed
      /\ task \in [Caller -> Caller \cup {None}]
      /\ pc \in [Caller -> Pc] /\ pc[c] # "waiting"
      /\ inflight \in [Key -> Entry \cup {None}]
      /\ status \in [Caller -> Status]
  BY KeyType DEF IInv, Fresh, TypeOK, JoinFlight, Before
<1>c. \A t \in Caller : status[t] # "none" => t # c
  BY <1>0
<1>1. CASE inflight[k] = None
  <2>1. /\ inflight' = [inflight EXCEPT ![k] = [task |-> c, waiters |-> 1]]
        /\ task' = [task EXCEPT ![c] = c]
        /\ status' = [status EXCEPT ![c] = "created"]
    BY <1>1 DEF JoinFlight
  <2>2. inflight'[k] = [task |-> c, waiters |-> 1] /\ inflight'[k] # None
    BY <1>0, <2>1, NoneIsNew
  <2>3. TypeOK'
    BY <1>0, <2>1 DEF TypeOK, Pc, Status, Entry
  <2>4. \A d \in Caller : pc[d] = "waiting" => InflightKey(d) # k /\ task[d] # c
    BY <1>0, <1>1, KeyType DEF IInv, WaitersListed, Listed, EntriesSound
  <2>5. NextWaiting(c) = {c}
    BY <1>0, <2>1, <2>4 DEF Waiting, NextWaiting
  <2>6. \A t \in Caller : t # c => NextWaiting(t) = Waiting(t)
    BY <1>0, <2>1 DEF Waiting, NextWaiting
  <2>7. Fresh'
    BY <1>0, <2>1 DEF IInv, Fresh, Before
  <2>8. WaitersListed'
    <3> SUFFICES ASSUME NEW d \in Caller, pc'[d] = "waiting"
                 PROVE  task'[d] \in Caller /\ Listed(d)'
      BY DEF WaitersListed
    <3>1. CASE d = c
      BY <1>0, <2>1, <2>2, <3>1 DEF Listed, InflightKey
    <3>2. CASE d # c
      <4>1. pc[d] = "waiting" /\ task'[d] = task[d] /\ InflightKey(d) # k
        BY <1>0, <2>1, <2>4, <3>2
      <4>2. inflight'[InflightKey(d)] = inflight[InflightKey(d)]
        BY <1>0, <2>1, <4>1, KeyType
      <4>3. QED
        BY <4>1, <4>2 DEF IInv, WaitersListed, Listed, InflightKey
    <3>3. QED
      BY <3>1, <3>2
  <2>9. EntriesSound'
    <3> SUFFICES ASSUME NEW l \in Key, inflight'[l] # None
                 PROVE  /\ InflightKey(inflight'[l].task) = l
                        /\ status'[inflight'[l].task] # "none"
                        /\ inflight'[l].task \notin doomed'
      BY DEF EntriesSound, InflightKey
    <3>1. CASE l = k
      <4>1. c \notin doomed
        BY <1>0 DEF IInv, DoomedCreated
      <4>2. QED
        BY <1>0, <2>1, <2>2, <3>1, <4>1
    <3>2. CASE l # k
      <4>1. inflight'[l] = inflight[l] /\ inflight[l] # None
        BY <1>0, <2>1, <3>2
      <4>2. inflight[l].task \in Caller
        BY <1>0, <4>1 DEF Entry
      <4>3. QED
        BY <1>0, <2>1, <4>1, <4>2 DEF IInv, EntriesSound
    <3>3. QED
      BY <3>1, <3>2
  <2>10. WaitersCounted'
    <3> SUFFICES ASSUME NEW l \in Key, inflight'[l] # None
                 PROVE  /\ inflight'[l].waiters = Cardinality(NextWaiting(inflight'[l].task))
                        /\ inflight'[l].waiters > 0
      BY DEF WaitersCounted, Waiting, NextWaiting
    <3>1. CASE l = k
      <4>1. inflight'[l].task = c /\ inflight'[l].waiters = 1
        BY <2>2, <3>1
      <4>2. NextWaiting(inflight'[l].task) = {c}
        BY <2>5, <4>1
      <4>3. QED
        BY <4>1, <4>2, SingletonCount
    <3>2. CASE l # k
      <4>1. inflight'[l] = inflight[l] /\ inflight[l] # None
        BY <1>0, <2>1, <3>2
      <4>2. inflight[l].task \in Caller /\ inflight[l].task # c
        BY <1>0, <4>1 DEF Entry, IInv, EntriesSound
      <4>3. QED
        BY <2>6, <4>1, <4>2 DEF IInv, WaitersCounted
    <3>3. QED
      BY <3>1, <3>2
  <2>11. LiveListed'
    <3> SUFFICES ASSUME NEW t \in Caller, status'[t] \in Unfinished, t \notin doomed'
                 PROVE  /\ inflight'[InflightKey(t)] # None
                        /\ inflight'[InflightKey(t)].task = t
      BY DEF LiveListed, InflightKey
    <3>1. CASE t = c
      BY <2>2, <3>1
    <3>2. CASE t # c
      <4>1. /\ inflight[InflightKey(t)] # None
            /\ inflight[InflightKey(t)].task = t
        BY <1>0, <2>1, <3>2 DEF IInv, LiveListed
      <4>2. InflightKey(t) # k
        BY <1>1, <4>1
      <4>3. QED
        BY <1>0, <2>1, <4>1, <4>2, KeyType
    <3>3. QED
      BY <3>1, <3>2
  <2>12. CancelledTaskAwaited'
    <3> SUFFICES ASSUME NEW t \in doomed, ~Finished(t)'
                 PROVE  \E d \in Caller : pc'[d] = "leaving" /\ task'[d] = t
      BY <1>0 DEF CancelledTaskAwaited
    <3>1. t \in Caller /\ t # c
      BY <1>0 DEF TypeOK, IInv, DoomedCreated
    <3>2. ~Finished(t)
      BY <1>0, <2>1, <3>1 DEF Finished
    <3>3. PICK d \in Caller : pc[d] = "leaving" /\ task[d] = t
      BY <3>2 DEF IInv, CancelledTaskAwaited
    <3>4. pc'[d] = "leaving" /\ task'[d] = t
      BY <1>0, <2>1, <3>3 DEF Before
    <3>5. QED
      BY <3>4
  <2>13. ResultsSound'
    BY <1>0, <2>1 DEF IInv, ResultsSound
  <2>14. DoomedCreated'
    BY <1>0, <2>1 DEF IInv, DoomedCreated, TypeOK
  <2>15. QED
    BY <2>3, <2>7, <2>8, <2>9, <2>10, <2>11, <2>12, <2>13, <2>14 DEF IInv
<1>2. CASE inflight[k] # None
  <2> DEFINE u == inflight[k].task
  <2>1. /\ inflight' = [inflight EXCEPT ![k].waiters = @ + 1]
        /\ task' = [task EXCEPT ![c] = u]
        /\ status' = status
    BY <1>2 DEF JoinFlight
  <2>2. inflight[k] \in Entry /\ u \in Caller /\ inflight[k].waiters \in Nat
    BY <1>0, <1>2 DEF Entry
  <2>3. inflight'[k] = [task |-> u, waiters |-> inflight[k].waiters + 1]
    BY <1>0, <2>1, <2>2 DEF Entry
  <2>4. inflight'[k] \in Entry /\ inflight'[k] # None
    BY <2>2, <2>3, NoneIsNew DEF Entry
  <2>5. \A l \in Key : l # k => inflight'[l] = inflight[l]
    BY <1>0, <2>1
  <2>6. \A l \in Key : /\ inflight'[l] # None <=> inflight[l] # None
                       /\ inflight'[l] # None => inflight'[l].task = inflight[l].task
    BY <1>2, <2>3, <2>4, <2>5
  <2>7. TypeOK'
    <3>1. inflight' \in [Key -> Entry \cup {None}]
      BY <1>0, <2>1, <2>4, <2>5
    <3>2. QED
      BY <1>0, <2>1, <2>2, <3>1 DEF TypeOK, Pc
  <2>8. NextWaiting(u) = Waiting(u) \cup {c} /\ c \notin Waiting(u)
    BY <1>0, <2>1, <2>2 DEF Waiting, NextWaiting
  <2>9. \A t \in Caller : t # u => NextWaiting(t) = Waiting(t)
    BY <1>0, <2>1, <2>2 DEF Waiting, NextWaiting
  <2>10. Fresh'
    BY <1>0, <2>1 DEF IInv, Fresh, Before
  <2>11. WaitersListed'
    <3> SUFFICES ASSUME NEW d \in Caller, pc'[d] = "waiting"
                 PROVE  /\ task'[d] \in Caller
                        /\ inflight'[InflightKey(d)] # None
                        /\ inflight'[InflightKey(d)].task = task'[d]
      BY DEF WaitersListed, Listed, InflightKey
    <3>1. CASE d = c
      BY <1>0, <2>1, <2>2, <2>3, <2>4, <3>1
    <3>2. CASE d # c
      BY <1>0, <2>1, <2>6, <3>2, KeyType DEF IInv, WaitersListed, Listed
    <3>3. QED
      BY <3>1, <3>2
  <2>12. EntriesSound'
    <3> SUFFICES ASSUME NEW l \in Key, inflight'[l] # None
                 PROVE  /\ InflightKey(inflight'[l].task) = l
                        /\ status'[inflight'[l].task] # "none"
                        /\ inflight'[l].task \notin doomed'
      BY DEF EntriesSound, InflightKey
    <3>1. inflight[l] # None /\ inflight'[l].task = inflight[l].task
      BY <2>6
    <3>2. /\ InflightKey(inflight[l].task) = l
          /\ status[inflight[l].task] # "none"
          /\ inflight[l].task \notin doomed
      BY <3>1 DEF IInv, EntriesSound
    <3>3. QED
      BY <1>0, <2>1, <3>1, <3>2
  <2>13. WaitersCounted'
    <3> SUFFICES ASSUME NEW l \in Key, inflight'[l] # None
                 PROVE  /\ inflight'[l].waiters = Cardinality(NextWaiting(inflight'[l].task))
                        /\ inflight'[l].waiters > 0
      BY DEF WaitersCounted, Waiting, NextWaiting
    <3>1. CASE l = k
      <4>1. Cardinality(Waiting(u) \cup {c}) = Cardinality(Waiting(u)) + 1
        BY <2>2, <2>8, WaitingFinite, FS_AddElement
      <4>2. inflight[k].waiters = Cardinality(Waiting(u))
        BY <1>0, <1>2 DEF IInv, WaitersCounted
      <4>3. inflight'[l].task = u /\ inflight'[l].waiters = inflight[k].waiters + 1
        BY <2>3, <3>1
      <4>4. NextWaiting(inflight'[l].task) = Waiting(u) \cup {c}
        BY <2>8, <4>3
      <4>5. QED
        BY <2>2, <4>1, <4>2, <4>3, <4>4
    <3>2. CASE l # k
      <4>1. inflight'[l] = inflight[l] /\ inflight[l] # None
        BY <2>5, <3>2
      <4>2. inflight[l].task \in Caller /\ inflight[l].task # u
        BY <1>0, <1>2, <3>2, <4>1 DEF Entry, IInv, EntriesSound
      <4>3. QED
        BY <2>9, <4>1, <4>2 DEF IInv, WaitersCounted
    <3>3. QED
      BY <3>1, <3>2
  <2>14. LiveListed'
    BY <1>0, <2>1, <2>6, KeyType DEF IInv, LiveListed, InflightKey
  <2>15. CancelledTaskAwaited'
    <3> SUFFICES ASSUME NEW t \in doomed, ~Finished(t)
                 PROVE  \E d \in Caller : pc'[d] = "leaving" /\ task'[d] = t
      BY <1>0, <2>1 DEF CancelledTaskAwaited, Finished
    <3>1. PICK d \in Caller : pc[d] = "leaving" /\ task[d] = t
      BY DEF IInv, CancelledTaskAwaited
    <3>2. pc'[d] = "leaving" /\ task'[d] = t
      BY <1>0, <2>1, <3>1 DEF Before
    <3>3. QED
      BY <3>2
  <2>16. ResultsSound'
    BY <1>0, <2>1 DEF IInv, ResultsSound
  <2>17. DoomedCreated'
    BY <1>0, <2>1 DEF IInv, DoomedCreated
  <2>18. QED
    BY <2>7, <2>10, <2>11, <2>12, <2>13, <2>14, <2>15, <2>16, <2>17 DEF IInv
<1>3. QED
  BY <1>1, <1>2

\* A caller leaves the shield, whatever it does next.
LEMMA DropStep ==
    ASSUME IInv, TypeOK', NEW c \in Caller, pc[c] = "waiting", DropWaiter(c),
           NEW next, pc' = [pc EXCEPT ![c] = next],
           next \notin Before \cup {"waiting"},
           next = "storing" => status[task[c]] = "full",
           IsLastWaiter(c) /\ ~Finished(task[c]) => next = "leaving",
           UNCHANGED <<task, status>>
    PROVE  IInv'
<1> DEFINE k == InflightKey(c)
           t == task[c]
<1>0. /\ k \in Key
      /\ task' = task /\ status' = status
      /\ pc \in [Caller -> Pc]
      /\ inflight \in [Key -> Entry \cup {None}]
      /\ doomed \subseteq Caller
  BY KeyType DEF IInv, TypeOK
<1>1. /\ t \in Caller /\ inflight[k] # None /\ inflight[k].task = t
      /\ inflight[k] \in Entry /\ inflight[k].waiters \in Nat
      /\ InflightKey(t) = k /\ status[t] # "none" /\ Listed(c)
  BY <1>0 DEF IInv, WaitersListed, Listed, EntriesSound, Entry
<1>2. inflight[k].waiters = Cardinality(Waiting(t)) /\ inflight[k].waiters > 0
  BY <1>0, <1>1 DEF IInv, WaitersCounted
<1>3. c \in Waiting(t) /\ NextWaiting(t) = Waiting(t) \ {c}
  BY <1>0, <1>1 DEF Waiting, NextWaiting
<1>4. \A u \in Caller : u # t => NextWaiting(u) = Waiting(u)
  BY <1>0, <1>1 DEF Waiting, NextWaiting
<1>5. \A d \in Caller : d # c => pc'[d] = pc[d]
  BY <1>0
<1>6. \A l \in Key : l # k => inflight'[l] = inflight[l]
  BY <1>0 DEF DropWaiter
<1>7. \A l \in Key : inflight[l] # None /\ l # k => inflight[l].task \in Caller /\ inflight[l].task # t
  BY <1>0, <1>1 DEF IInv, EntriesSound, Entry
<1>8. pc'[c] = next
  BY <1>0
<1>a. Fresh'
  BY <1>0, <1>5, <1>8 DEF IInv, Fresh
<1>b. ResultsSound'
  BY <1>0, <1>1, <1>5, <1>8 DEF IInv, ResultsSound
<1>c. \A d \in Caller : pc[d] = "leaving" => pc'[d] = "leaving" /\ d # c
  BY <1>5
<1>d. DoomedCreated'
  BY <1>0, <1>1 DEF IInv, DoomedCreated, DropWaiter
<1>e. CASE IsLastWaiter(c)
  <2>1. inflight' = [inflight EXCEPT ![k] = None]
    BY <1>e DEF DropWaiter
  <2>2. doomed' = IF Finished(t) THEN doomed ELSE doomed \cup {t}
    BY <1>e DEF DropWaiter
  <2>3. Waiting(t) = {c}
    <3>1. Cardinality(Waiting(t)) = 1
      BY <1>2, <1>e DEF IsLastWaiter
    <3>2. PICK x : Waiting(t) = {x}
      BY <1>1, <3>1, WaitingFinite, FS_Singleton
    <3>3. QED
      BY <1>3, <3>2
  <2>4. \A d \in Caller : pc'[d] = "waiting" => pc[d] = "waiting" /\ InflightKey(d) # k
    <3> SUFFICES ASSUME NEW d \in Caller, pc'[d] = "waiting"
                 PROVE  pc[d] = "waiting" /\ InflightKey(d) # k
      OBVIOUS
    <3>1. d # c /\ pc[d] = "waiting"
      BY <1>5, <1>8
    <3>2. task[d] # t
      BY <2>3, <3>1 DEF Waiting
    <3>3. QED
      BY <1>1, <3>1, <3>2 DEF IInv, WaitersListed, Listed
  <2>5. WaitersListed'
    BY <1>0, <1>6, <2>4, KeyType DEF IInv, WaitersListed, Listed, InflightKey
  <2>6. \A l \in Key : inflight'[l] # None => l # k
    BY <1>0, <2>1
  <2>7. EntriesSound'
    <3> SUFFICES ASSUME NEW l \in Key, inflight'[l] # None
                 PROVE  /\ InflightKey(inflight'[l].task) = l
                        /\ status'[inflight'[l].task] # "none"
                        /\ inflight'[l].task \notin doomed'
      BY DEF EntriesSound, InflightKey
    <3>1. l # k /\ inflight'[l] = inflight[l] /\ inflight[l] # None
      BY <1>6, <2>6
    <3>2. inflight[l].task # t
      BY <1>7, <3>1
    <3>3. QED
      BY <1>0, <2>2, <3>1, <3>2 DEF IInv, EntriesSound
  <2>8. WaitersCounted'
    <3> SUFFICES ASSUME NEW l \in Key, inflight'[l] # None
                 PROVE  /\ inflight'[l].waiters = Cardinality(NextWaiting(inflight'[l].task))
                        /\ inflight'[l].waiters > 0
      BY DEF WaitersCounted, Waiting, NextWaiting
    <3>1. l # k /\ inflight'[l] = inflight[l] /\ inflight[l] # None
      BY <1>6, <2>6
    <3>2. NextWaiting(inflight[l].task) = Waiting(inflight[l].task)
      BY <1>4, <1>7, <3>1
    <3>3. QED
      BY <3>1, <3>2 DEF IInv, WaitersCounted
  <2>9. LiveListed'
    <3> SUFFICES ASSUME NEW u \in Caller, status[u] \in Unfinished, u \notin doomed'
                 PROVE  /\ inflight'[InflightKey(u)] # None
                        /\ inflight'[InflightKey(u)].task = u
      BY <1>0 DEF LiveListed, InflightKey
    <3>1. u \notin doomed /\ u # t
      BY <2>2 DEF Finished, Unfinished, Results
    <3>2. inflight[InflightKey(u)] # None /\ inflight[InflightKey(u)].task = u
      BY <3>1 DEF IInv, LiveListed
    <3>3. InflightKey(u) # k
      BY <1>1, <3>1, <3>2
    <3>4. QED
      BY <1>6, <3>2, <3>3, KeyType
  <2>10. CancelledTaskAwaited'
    <3> SUFFICES ASSUME NEW u \in doomed', ~Finished(u)
                 PROVE  \E d \in Caller : pc'[d] = "leaving" /\ task[d] = u
      BY <1>0 DEF CancelledTaskAwaited, Finished
    <3>1. CASE u = t
      BY <1>8, <1>e, <3>1
    <3>2. CASE u # t
      <4>1. u \in doomed
        BY <2>2, <3>2
      <4>2. QED
        BY <1>c, <4>1 DEF IInv, CancelledTaskAwaited
    <3>3. QED
      BY <3>1, <3>2
  <2>11. QED
    BY <1>a, <1>b, <1>d, <2>5, <2>7, <2>8, <2>9, <2>10 DEF IInv
<1>f. CASE ~IsLastWaiter(c)
  <2>1. /\ inflight' = [inflight EXCEPT ![k].waiters = @ - 1]
        /\ doomed' = doomed
    BY <1>1, <1>f DEF DropWaiter
  <2>2. inflight'[k] = [task |-> t, waiters |-> inflight[k].waiters - 1]
    BY <1>0, <1>1, <2>1 DEF Entry
  <2>3. inflight[k].waiters - 1 \in Nat /\ inflight[k].waiters - 1 > 0
    BY <1>1, <1>2, <1>f DEF IsLastWaiter
  <2>4. inflight'[k] # None
    BY <1>1, <2>2, <2>3, NoneIsNew
  <2>5. \A l \in Key : /\ inflight'[l] # None <=> inflight[l] # None
                       /\ inflight'[l] # None => inflight'[l].task = inflight[l].task
    BY <1>1, <1>6, <2>2, <2>4
  <2>6. WaitersListed'
    <3> SUFFICES ASSUME NEW d \in Caller, pc'[d] = "waiting"
                 PROVE  /\ task[d] \in Caller
                        /\ inflight'[InflightKey(d)] # None
                        /\ inflight'[InflightKey(d)].task = task[d]
      BY <1>0 DEF WaitersListed, Listed, InflightKey
    <3>1. pc[d] = "waiting"
      BY <1>5, <1>8
    <3>2. QED
      BY <2>5, <3>1, KeyType DEF IInv, WaitersListed, Listed
  <2>7. EntriesSound'
    BY <1>0, <2>1, <2>5 DEF IInv, EntriesSound, InflightKey
  <2>8. WaitersCounted'
    <3> SUFFICES ASSUME NEW l \in Key, inflight'[l] # None
                 PROVE  /\ inflight'[l].waiters = Cardinality(NextWaiting(inflight'[l].task))
                        /\ inflight'[l].waiters > 0
      BY DEF WaitersCounted, Waiting, NextWaiting
    <3>1. CASE l = k
      <4>1. Cardinality(Waiting(t) \ {c}) = Cardinality(Waiting(t)) - 1
        BY <1>1, <1>3, WaitingFinite, FS_RemoveElement
      <4>2. inflight'[l].task = t /\ inflight'[l].waiters = inflight[k].waiters - 1
        BY <2>2, <3>1
      <4>3. NextWaiting(inflight'[l].task) = Waiting(t) \ {c}
        BY <1>3, <4>2
      <4>4. QED
        BY <1>2, <2>3, <4>1, <4>2, <4>3
    <3>2. CASE l # k
      <4>1. inflight'[l] = inflight[l] /\ inflight[l] # None
        BY <1>6, <3>2
      <4>2. NextWaiting(inflight[l].task) = Waiting(inflight[l].task)
        BY <1>4, <1>7, <3>2, <4>1
      <4>3. QED
        BY <4>1, <4>2 DEF IInv, WaitersCounted
    <3>3. QED
      BY <3>1, <3>2
  <2>9. LiveListed'
    BY <1>0, <2>1, <2>5, KeyType DEF IInv, LiveListed, InflightKey
  <2>10. CancelledTaskAwaited'
    BY <1>0, <1>c, <2>1 DEF IInv, CancelledTaskAwaited, Finished
  <2>11. QED
    BY <1>a, <1>b, <1>d, <2>6, <2>7, <2>8, <2>9, <2>10 DEF IInv
<1>g. QED
  BY <1>e, <1>f

\* A task that exists and is not done changes its state.
LEMMA TaskStepIInv ==
    ASSUME IInv, NEW t \in Caller, TaskStep(t)
    PROVE  IInv'
<1>0. /\ UNCHANGED <<pc, asked, task, inflight, doomed, cache, got>>
      /\ status[t] \in Unfinished
      /\ status' = [status EXCEPT ![t] = status'[t]]
      /\ status'[t] \in Status /\ status'[t] # "none" /\ status'[t] # "created"
      /\ status'[t] = "partial" => t \in AllowPartial
      /\ status \in [Caller -> Status]
  BY DEF IInv, TypeOK, TaskStep, StartTask, EndTask, EndDoomedTask, Unfinished, Status, Results
<1>1. TypeOK'
  BY <1>0 DEF IInv, TypeOK
<1>2. \A u \in Caller : NextWaiting(u) = Waiting(u)
  BY <1>0 DEF Waiting, NextWaiting
<1>3. \A u \in Caller : /\ status[u] = "none" <=> status'[u] = "none"
                        /\ status'[u] \in Unfinished => status[u] \in Unfinished
                        /\ status[u] = "full" => status'[u] = "full"
                        /\ Finished(u) => Finished(u)'
                        /\ status'[u] = "partial" => u \in AllowPartial
  BY <1>0 DEF Unfinished, Finished, Results, IInv, ResultsSound
<1>4. Fresh' /\ ResultsSound'
  BY <1>0, <1>3 DEF IInv, Fresh, ResultsSound
<1>5. WaitersListed'
  BY <1>0 DEF IInv, WaitersListed, Listed, InflightKey
<1>6. EntriesSound'
  BY <1>0, <1>3 DEF IInv, EntriesSound, InflightKey, TypeOK, Entry
<1>7. WaitersCounted'
  BY <1>0 DEF IInv, WaitersCounted, Waiting
<1>8. LiveListed'
  BY <1>0, <1>3 DEF IInv, LiveListed, InflightKey
<1>9. DoomedCreated'
  BY <1>0, <1>3 DEF IInv, DoomedCreated, TypeOK
<1>10. CancelledTaskAwaited'
  BY <1>0, <1>3 DEF IInv, CancelledTaskAwaited, TypeOK
<1>11. QED
  BY <1>1, <1>4, <1>5, <1>6, <1>7, <1>8, <1>9, <1>10 DEF IInv

\* The caller that cancelled a task leaves when the task has ended.
LEMMA LeaveStep ==
    ASSUME IInv, NEW c \in Caller, Leave(c)
    PROVE  IInv'
<1>0. /\ UNCHANGED <<task, inflight, status, doomed, cache, got>>
      /\ pc' = [pc EXCEPT ![c] = "cancelled"] /\ pc[c] = "leaving"
      /\ pc \in [Caller -> Pc] /\ asked' = asked \ {c} /\ Finished(task[c])
  BY DEF IInv, TypeOK, Leave
<1>1. TypeOK'
  BY <1>0 DEF IInv, TypeOK, Pc, Finals
<1>2. \A u \in Caller : NextWaiting(u) = Waiting(u)
  BY <1>0 DEF Waiting, NextWaiting
<1>3. Fresh' /\ ResultsSound' /\ WaitersListed'
  BY <1>0 DEF IInv, Fresh, ResultsSound, Before, WaitersListed, Listed, InflightKey
<1>4. EntriesSound' /\ LiveListed' /\ DoomedCreated'
  BY <1>0 DEF IInv, EntriesSound, LiveListed, DoomedCreated, InflightKey
<1>5. WaitersCounted'
  <2> SUFFICES ASSUME NEW l \in Key, inflight[l] # None
               PROVE  /\ inflight[l].waiters = Cardinality(NextWaiting(inflight[l].task))
                      /\ inflight[l].waiters > 0
    BY <1>0 DEF WaitersCounted, Waiting, NextWaiting
  <2>1. inflight[l].task \in Caller
    BY DEF IInv, TypeOK, Entry
  <2>2. NextWaiting(inflight[l].task) = Waiting(inflight[l].task)
    BY <1>2, <2>1
  <2>3. QED
    BY <2>2 DEF IInv, WaitersCounted
<1>6. CancelledTaskAwaited'
  <2> SUFFICES ASSUME NEW u \in doomed, ~Finished(u)
               PROVE  \E d \in Caller : pc'[d] = "leaving" /\ task[d] = u
    BY <1>0 DEF CancelledTaskAwaited, Finished
  <2>1. PICK d \in Caller : pc[d] = "leaving" /\ task[d] = u
    BY DEF IInv, CancelledTaskAwaited
  <2>2. d # c
    BY <1>0, <2>1
  <2>3. QED
    BY <1>0, <2>1, <2>2
<1>7. QED
  BY <1>1, <1>3, <1>4, <1>5, <1>6 DEF IInv

LEMMA NextIInv == IInv /\ [Next]_vars => IInv'
<1> SUFFICES ASSUME IInv, [Next]_vars PROVE IInv'
  OBVIOUS
<1>0. /\ pc \in [Caller -> Pc] /\ got \in [Caller -> {"nothing", "response", "failure", "abandoned", "cached"}]
      /\ cache \in [Content -> Record \cup {None}] /\ asked \subseteq Caller
      /\ TypeOK
  BY DEF IInv, TypeOK
<1>1. ASSUME NEW c \in Caller, Begin(c) PROVE IInv'
  <2>1. CASE c \in Cacheable
    <3>1. UNCHANGED <<asked, task, inflight, status, doomed, cache, got>>
          /\ pc' = [pc EXCEPT ![c] = "lookup"] /\ pc[c] = "new"
      BY <1>1, <2>1 DEF Begin
    <3>2. TypeOK'
      BY <1>0, <3>1 DEF TypeOK, Pc
    <3>3. QED
      BY <1>0, <3>1, <3>2, QuietStep DEF Before
  <2>2. CASE c \notin Cacheable
    BY <1>0, <1>1, <2>2, JoinStep DEF Begin, Before
  <2>3. QED
    BY <2>1, <2>2
<1>2. ASSUME NEW c \in Caller, Hit(c) \/ Reject(c) PROVE IInv'
  <2>1. TypeOK'
    BY <1>0, <1>2 DEF TypeOK, Hit, Reject, Pc, Finals
  <2>2. QED
    BY <1>0, <1>2, <2>1, QuietStep DEF Hit, Reject, Before
<1>3. ASSUME NEW c \in Caller, Miss(c) \/ Purged(c) PROVE IInv'
  <2>1. cache' \in [Content -> Record \cup {None}]
    BY <1>0, <1>3 DEF Miss, Purged
  <2>2. QED
    BY <1>3, <2>1, JoinStep DEF Miss, Purged, Before
<1>4. ASSUME NEW c \in Caller, Stored(c) PROVE IInv'
  <2>1. status[task[c]] \in Record
    BY <1>4 DEF Stored, IInv, ResultsSound, Record
  <2>2. TypeOK'
    BY <1>0, <1>4, <2>1 DEF TypeOK, Stored, Pc, Finals
  <2>3. QED
    BY <1>0, <1>4, <2>2, QuietStep DEF Stored, Before
<1>5. ASSUME NEW k \in Content, Evict(k) PROVE IInv'
  <2>1. TypeOK'
    BY <1>0, <1>5 DEF TypeOK, Evict
  <2>2. QED
    BY <1>0, <1>5, <2>1, QuietStep DEF Evict
<1>6. ASSUME NEW c \in Caller, Cancel(c) PROVE IInv'
  <2>1. TypeOK'
    BY <1>0, <1>6 DEF TypeOK, Cancel
  <2>2. QED
    BY <1>0, <1>6, <2>1, QuietStep DEF Cancel
<1>7. ASSUME NEW c \in Caller, Unwind(c) PROVE IInv'
  <2>1. TypeOK'
    BY <1>0, <1>7 DEF TypeOK, Unwind, Pc, Finals
  <2>2. QED
    BY <1>0, <1>7, <2>1, QuietStep DEF Unwind, Before
<1>8. ASSUME NEW c \in Caller, Receive(c) \/ Reraise(c) \/ Interrupt(c) PROVE IInv'
  <2>1. PICK next \in {"invalid", "storing", "returned", "failed", "leaving", "cancelled"} :
          /\ pc' = [pc EXCEPT ![c] = next]
          /\ next = "storing" => status[task[c]] = "full"
          /\ IsLastWaiter(c) /\ ~Finished(task[c]) => next = "leaving"
    <3>1. CASE Receive(c)
      BY <3>1 DEF Receive, MayStore, Finished, Results
    <3>2. CASE Reraise(c)
      BY <3>2 DEF Reraise, Finished, Results
    <3>3. CASE Interrupt(c)
      BY <3>3 DEF Interrupt
    <3>4. QED
      BY <1>8, <3>1, <3>2, <3>3
  <2>2. pc[c] = "waiting" /\ DropWaiter(c) /\ UNCHANGED <<task, status, cache>>
    BY <1>8 DEF Receive, Reraise, Interrupt
  <2>3. TypeOK'
    <3>1. inflight' \in [Key -> Entry \cup {None}] /\ doomed' \subseteq Caller
      <4>1. /\ task[c] \in Caller /\ InflightKey(c) \in Key
            /\ inflight[InflightKey(c)] \in Entry /\ inflight[InflightKey(c)].waiters > 0
            /\ inflight \in [Key -> Entry \cup {None}] /\ doomed \subseteq Caller
        BY <1>0, <2>2, KeyType DEF IInv, WaitersListed, WaitersCounted, Listed, TypeOK
      <4>2. [inflight EXCEPT ![InflightKey(c)].waiters = @ - 1] \in [Key -> Entry \cup {None}]
        BY <4>1 DEF Entry
      <4>3. QED
        BY <2>2, <4>1, <4>2 DEF DropWaiter
    <3>2. pc' \in [Caller -> Pc]
      BY <1>0, <2>1 DEF Pc, Finals
    <3>3. asked' \subseteq Caller
          /\ got' \in [Caller -> {"nothing", "response", "failure", "abandoned", "cached"}]
      BY <1>0, <1>8 DEF Receive, Reraise, Interrupt
    <3>4. QED
      BY <1>0, <2>2, <3>1, <3>2, <3>3 DEF TypeOK
  <2>4. QED
    BY <2>1, <2>2, <2>3, DropStep DEF Before
<1>9. ASSUME NEW c \in Caller, Leave(c) PROVE IInv'
  BY <1>9, LeaveStep
<1>10. ASSUME NEW c \in Caller, TaskStep(c) PROVE IInv'
  BY <1>10, TaskStepIInv
<1>11. CASE UNCHANGED vars
  <2>1. TypeOK'
    BY <1>0, <1>11 DEF TypeOK, vars
  <2>2. QED
    BY <1>11, <2>1, QuietStep DEF vars
<1>12. QED
  BY <1>1, <1>2, <1>3, <1>4, <1>5, <1>6, <1>7, <1>8, <1>9, <1>10, <1>11
     DEF Next, CallerStep

THEOREM Inductive == Spec => []IInv
BY InitIInv, NextIInv, PTL DEF Spec

----------------------------------------------------------------------------

\* The state is well typed.
THEOREM TypeCorrect == Spec => []TypeOK
<1>1. IInv => TypeOK
  BY DEF IInv
<1>2. QED
  BY <1>1, Inductive, PTL

\* The waiter count in the table is exact, and never zero.
THEOREM WaitersAreCounted == Spec => []WaitersCounted
<1>1. IInv => WaitersCounted
  BY DEF IInv
<1>2. QED
  BY <1>1, Inductive, PTL

\* A task cancelled by its last waiter is awaited by that waiter.
THEOREM CancelledTasksAreAwaited == Spec => []CancelledTaskAwaited
<1>1. IInv => CancelledTaskAwaited
  BY DEF IInv
<1>2. QED
  BY <1>1, Inductive, PTL

\* No task runs on without a waiter, and a key has one such task at most.
THEOREM NoOrphans == Spec => []NoOrphanTask
<1>1. IInv => NoOrphanTask
  <2> SUFFICES ASSUME IInv, NEW t \in Caller, status[t] \in Unfinished, t \notin doomed
               PROVE  /\ Waiting(t) # {}
                      /\ \A u \in Caller \ {t} :
                            InflightKey(u) = InflightKey(t) /\ status[u] \in Unfinished
                                => u \in doomed
    BY DEF NoOrphanTask, Unfinished
  <2>1. inflight[InflightKey(t)] # None /\ inflight[InflightKey(t)].task = t
    BY DEF IInv, LiveListed
  <2>2. Waiting(t) # {}
    <3>1. Cardinality(Waiting(t)) > 0
      BY <2>1, KeyType DEF IInv, WaitersCounted
    <3>2. QED
      BY <3>1, FS_EmptySet
  <2>3. ASSUME NEW u \in Caller \ {t}, InflightKey(u) = InflightKey(t), status[u] \in Unfinished
        PROVE  u \in doomed
    BY <2>1, <2>3 DEF IInv, LiveListed
  <2>4. QED
    BY <2>2, <2>3
<1>2. QED
  BY <1>1, Inductive, PTL

\* The task a caller waits for is never cancelled by another caller.
THEOREM NeighboursSurvive == Spec => []NeighbourSurvives
<1>1. IInv => NeighbourSurvives
  BY KeyType DEF IInv, NeighbourSurvives, WaitersListed, Listed, EntriesSound
<1>2. QED
  BY <1>1, Inductive, PTL

----------------------------------------------------------------------------

LEMMA WaiterFits == IInv => \A c \in Caller : pc[c] = "waiting" => Fits(c)
<1> SUFFICES ASSUME IInv, NEW c \in Caller, pc[c] = "waiting" PROVE Fits(c)
  OBVIOUS
<1>1. task[c] \in Caller /\ InflightKey(task[c]) = InflightKey(c)
  BY KeyType DEF IInv, WaitersListed, Listed, EntriesSound
<1>2. /\ IdsOf[task[c]] = IdsOf[c]
      /\ (task[c] \in AllowPartial) = (c \in AllowPartial)
  BY <1>1 DEF InflightKey
<1>3. QED
  BY <1>1, <1>2 DEF Fits, IInv, ResultsSound

\* No caller is handed a shared response that its own validation refuses.
THEOREM SharedResponsesFit == Spec => []SharingFits
<1>1. Init => SharingFits
  BY DEF Init, SharingFits
<1>2. IInv /\ SharingFits /\ [Next]_vars => SharingFits'
  <2> SUFFICES ASSUME IInv, SharingFits, [Next]_vars, NEW d \in Caller
               PROVE  pc'[d] # "invalid"
    BY DEF SharingFits
  <2>0. pc \in [Caller -> Pc] /\ pc[d] # "invalid"
    BY DEF IInv, TypeOK, SharingFits
  <2>1. ASSUME NEW c \in Caller, Receive(c) PROVE pc'[d] # "invalid"
    BY <2>0, <2>1, WaiterFits DEF Receive
  <2>2. ASSUME NEW c \in Caller,
               \/ Begin(c) \/ Hit(c) \/ Reject(c) \/ Miss(c) \/ Purged(c) \/ Stored(c)
               \/ Reraise(c) \/ Interrupt(c) \/ Leave(c) \/ Unwind(c)
               \/ Cancel(c) \/ TaskStep(c)
        PROVE  pc'[d] # "invalid"
    BY <2>0, <2>2 DEF Begin, JoinFlight, Hit, Reject, Miss, Purged, Stored, Reraise,
                      Interrupt, Leave, Unwind, Cancel, TaskStep, StartTask, EndTask,
                      EndDoomedTask
  <2>3. CASE (\E k \in Content : Evict(k)) \/ UNCHANGED vars
    BY <2>0, <2>3 DEF Evict, vars
  <2>4. QED
    BY <2>1, <2>2, <2>3 DEF Next, CallerStep
<1>3. QED
  BY <1>1, <1>2, Inductive, PTL DEF Spec

CacheNeverPartial == \A k \in Content : cache[k] # "partial"

\* A lookup never throws away a record this library stored.
THEOREM RejectsAreForeign == Spec => []RejectsOnlyForeign
<1>1. Init => CacheNeverPartial
  BY NoneIsNew DEF Init, CacheNeverPartial
<1>2. IInv /\ CacheNeverPartial /\ [Next]_vars => CacheNeverPartial'
  <2> SUFFICES ASSUME IInv, CacheNeverPartial, [Next]_vars, NEW k \in Content
               PROVE  cache'[k] # "partial"
    BY DEF CacheNeverPartial
  <2>0. cache \in [Content -> Record \cup {None}] /\ cache[k] # "partial"
    BY DEF IInv, TypeOK, CacheNeverPartial
  <2>1. ASSUME NEW c \in Caller, Stored(c) PROVE cache'[k] # "partial"
    <3>1. status[task[c]] = "full"
      BY <2>1 DEF Stored, IInv, ResultsSound
    <3>2. QED
      BY <2>0, <2>1, <3>1 DEF Stored
  <2>2. ASSUME NEW c \in Caller, Purged(c) PROVE cache'[k] # "partial"
    BY <2>0, <2>2, NoneIsNew DEF Purged
  <2>3. ASSUME NEW c \in Caller,
               \/ Begin(c) \/ Hit(c) \/ Reject(c) \/ Miss(c) \/ Receive(c)
               \/ Reraise(c) \/ Interrupt(c) \/ Leave(c) \/ Unwind(c)
               \/ Cancel(c) \/ TaskStep(c)
        PROVE  cache'[k] # "partial"
    BY <2>0, <2>3 DEF Begin, Hit, Reject, Miss, Receive, Reraise,
                      Interrupt, Leave, Unwind, Cancel, TaskStep, StartTask, EndTask,
                      EndDoomedTask
  <2>4. ASSUME NEW l \in Content, Evict(l) PROVE cache'[k] # "partial"
    BY <2>0, <2>4, NoneIsNew DEF Evict
  <2>5. CASE UNCHANGED vars
    BY <2>0, <2>5 DEF vars
  <2>6. QED
    BY <2>1, <2>2, <2>3, <2>4, <2>5 DEF Next, CallerStep
<1>3. IInv /\ CacheNeverPartial => RejectsOnlyForeign
  BY ContentTyped DEF CacheNeverPartial, RejectsOnlyForeign
<1>4. QED
  BY <1>1, <1>2, <1>3, Inductive, PTL DEF Spec

\* Every task has a caller that answers for it.
THEOREM TasksAreOwned == Spec => []TasksOwned
BY NoOrphans, CancelledTasksAreAwaited, NeighboursSurvive, PTL DEF TasksOwned

\* What a caller gets from others it can use.
THEOREM AllResponsesFit == Spec => []ResponsesFit
BY SharedResponsesFit, RejectsAreForeign, PTL DEF ResponsesFit

(***************************************************************************)
(* SingleFlight implements SharedWork.                                      *)
(***************************************************************************)

Members == [k \in Key |-> {c \in Caller : pc[c] = "waiting" /\ InflightKey(c) = k}]

WorkOf == [k \in Key |-> IF inflight[k] = None THEN "idle"
                         ELSE Told(status[inflight[k].task])]

\* A caller is told nothing before it has left the table.
ToldLate == \A c \in Caller : pc[c] \in Before \cup {"waiting"} => got[c] = "nothing"

LEMMA InitToldLate == Init => ToldLate
BY DEF Init, ToldLate

LEMMA ToldLatePreserved == IInv /\ ToldLate /\ [Next]_vars => ToldLate'
<1> SUFFICES ASSUME IInv, ToldLate, [Next]_vars, NEW d \in Caller,
                    pc'[d] \in Before \cup {"waiting"}
             PROVE  got'[d] = "nothing"
  BY DEF ToldLate
<1>0. pc \in [Caller -> Pc] /\ got \in [Caller -> Shared!Told]
  BY DEF IInv, TypeOK, Shared!Told
<1>1. ASSUME NEW c \in Caller, Begin(c) \/ Miss(c) \/ Purged(c) \/ Reject(c)
      PROVE  got' = got /\ pc[d] \in Before \cup {"waiting"}
  BY <1>0, <1>1 DEF Begin, Miss, Purged, Reject, JoinFlight, Before
<1>2. ASSUME NEW c \in Caller, Hit(c) \/ Receive(c) \/ Reraise(c) \/ Interrupt(c) \/ Unwind(c)
      PROVE  d # c /\ pc[d] = pc'[d] /\ got'[d] = got[d]
  BY <1>0, <1>2 DEF Hit, Receive, Reraise, Interrupt, Unwind, Before
<1>3. ASSUME NEW c \in Caller, Stored(c) \/ Leave(c) \/ Cancel(c) \/ TaskStep(c)
      PROVE  got' = got /\ pc[d] = pc'[d]
  BY <1>0, <1>3 DEF Stored, Leave, Cancel, TaskStep, StartTask, EndTask, EndDoomedTask, Before
<1>4. ASSUME NEW k \in Content, Evict(k) PROVE got' = got /\ pc[d] = pc'[d]
  BY <1>4 DEF Evict
<1>5. QED
  BY <1>1, <1>2, <1>3, <1>4 DEF Next, CallerStep, ToldLate, vars

\* What SharedWork sees of the table: the callers at the shield of a listed task are
\* those that want the answer for its key.
LEMMA TableSeen ==
    ASSUME IInv, NEW c \in Caller, pc[c] = "waiting"
    PROVE  /\ InflightKey(c) \in Key /\ task[c] \in Caller
           /\ inflight[InflightKey(c)] # None /\ inflight[InflightKey(c)].task = task[c]
           /\ Listed(c)
           /\ Members[InflightKey(c)] = Waiting(task[c])
           /\ WorkOf[InflightKey(c)] = Told(status[task[c]])
           /\ IsLastWaiter(c) <=> Members[InflightKey(c)] = {c}
<1> DEFINE k == InflightKey(c)
           t == task[c]
<1>1. k \in Key /\ t \in Caller /\ Listed(c)
  BY KeyType DEF IInv, WaitersListed
<1>2. inflight[k] # None /\ inflight[k].task = t /\ InflightKey(t) = k
  BY <1>1 DEF Listed, IInv, EntriesSound
<1>3. Members[k] = Waiting(t)
  <2>1. \A d \in Caller : pc[d] = "waiting" /\ InflightKey(d) = k => task[d] = t
    BY <1>2 DEF IInv, WaitersListed, Listed
  <2>2. \A d \in Caller : pc[d] = "waiting" /\ task[d] = t => InflightKey(d) = k
    BY <1>2, KeyType DEF IInv, WaitersListed, Listed, EntriesSound
  <2>3. QED
    BY <1>1, <2>1, <2>2 DEF Members, Waiting
<1>4. WorkOf[k] = Told(status[t])
  BY <1>1, <1>2 DEF WorkOf
<1>5. IsLastWaiter(c) <=> Waiting(t) = {c}
  <2>1. c \in Waiting(t) /\ inflight[k].waiters = Cardinality(Waiting(t))
    BY <1>1, <1>2 DEF Waiting, IInv, WaitersCounted
  <2>2. CASE Cardinality(Waiting(t)) = 1
    <3>1. PICK x : Waiting(t) = {x}
      BY <1>1, <2>2, WaitingFinite, FS_Singleton
    <3>2. QED
      BY <1>1, <2>1, <2>2, <3>1 DEF IsLastWaiter
  <2>3. CASE Cardinality(Waiting(t)) # 1
    BY <2>1, <2>3, SingletonCount DEF IsLastWaiter
  <2>4. QED
    BY <2>2, <2>3
<1>6. QED
  BY <1>1, <1>2, <1>3, <1>4, <1>5

\* A caller joins: the work begins with the first, and is shared by the others.
LEMMA JoinShared ==
    ASSUME IInv, ToldLate, NEW c \in Caller, pc[c] \in Before, JoinFlight(c), got' = got
    PROVE  Shared!Next
<1> DEFINE k == InflightKey(c)
<1>0. /\ k \in Key /\ status[c] = "none" /\ pc[c] # "waiting" /\ got[c] = "nothing"
      /\ pc' = [pc EXCEPT ![c] = "waiting"] /\ pc \in [Caller -> Pc]
      /\ inflight \in [Key -> Entry \cup {None}] /\ status \in [Caller -> Status]
  BY KeyType DEF IInv, TypeOK, Fresh, ToldLate, JoinFlight, Before
<1>1. Members' = [Members EXCEPT ![k] = @ \cup {c}] /\ c \notin Members[k]
  <2>1. \A l \in Key : Members'[l] = IF l = k THEN Members[l] \cup {c} ELSE Members[l]
    BY <1>0 DEF Members
  <2>2. QED
    BY <1>0, <2>1 DEF Members
<1>2. WorkOf' = [WorkOf EXCEPT ![k] = IF @ = "idle" THEN "busy" ELSE @]
  <2>1. CASE inflight[k] = None
    <3>1. /\ inflight' = [inflight EXCEPT ![k] = [task |-> c, waiters |-> 1]]
          /\ status' = [status EXCEPT ![c] = "created"]
      BY <2>1 DEF JoinFlight
    <3>2. inflight'[k] # None /\ inflight'[k].task = c /\ status'[c] = "created"
      BY <1>0, <3>1, NoneIsNew
    <3>3. WorkOf'[k] = "busy" /\ WorkOf[k] = "idle"
      BY <1>0, <2>1, <3>2 DEF WorkOf, Told
    <3>4. \A l \in Key : l # k => WorkOf'[l] = WorkOf[l]
      <4> SUFFICES ASSUME NEW l \in Key, l # k PROVE WorkOf'[l] = WorkOf[l]
        OBVIOUS
      <4>1. inflight'[l] = inflight[l]
        BY <1>0, <3>1
      <4>2. inflight[l] # None => status'[inflight[l].task] = status[inflight[l].task]
        BY <1>0, <3>1 DEF IInv, EntriesSound, Entry
      <4>3. QED
        BY <4>1, <4>2 DEF WorkOf
    <3>5. QED
      BY <3>3, <3>4 DEF WorkOf
  <2>2. CASE inflight[k] # None
    <3>1. inflight' = [inflight EXCEPT ![k].waiters = @ + 1] /\ status' = status
      BY <2>2 DEF JoinFlight
    <3>2. /\ inflight[k] \in Entry /\ inflight'[k] # None /\ inflight'[k].task = inflight[k].task
          /\ \A l \in Key : l # k => inflight'[l] = inflight[l]
      BY <1>0, <2>2, <3>1, NoneIsNew DEF Entry
    <3>3. \A l \in Key : WorkOf'[l] = WorkOf[l]
      BY <2>2, <3>1, <3>2 DEF WorkOf
    <3>4. WorkOf[k] # "idle"
      BY <1>0, <2>2 DEF WorkOf, Told
    <3>5. QED
      BY <3>3, <3>4 DEF WorkOf
  <2>3. QED
    BY <2>1, <2>2
<1>3. Shared!Join(c)
  BY <1>0, <1>1, <1>2 DEF Shared!Join, Members, WorkOf
<1>4. QED
  BY <1>3 DEF Shared!Next

\* A caller leaves the shield: with the last one the work goes.
LEMMA DropShared ==
    ASSUME IInv, NEW c \in Caller, pc[c] = "waiting", DropWaiter(c), status' = status,
           NEW next, next # "waiting", pc' = [pc EXCEPT ![c] = next]
    PROVE  Shared!Without(c)
<1> DEFINE k == InflightKey(c)
<1>0. /\ k \in Key /\ inflight[k] # None /\ Listed(c)
      /\ IsLastWaiter(c) <=> Members[k] = {c}
      /\ pc \in [Caller -> Pc] /\ inflight \in [Key -> Entry \cup {None}]
  BY TableSeen DEF IInv, TypeOK
<1>1. Members' = [Members EXCEPT ![k] = @ \ {c}] /\ c \in Members[k]
  <2>1. \A l \in Key : Members'[l] = IF l = k THEN Members[l] \ {c} ELSE Members[l]
    BY <1>0 DEF Members
  <2>2. QED
    BY <1>0, <2>1 DEF Members
<1>2. \A l \in Key : l # k => inflight'[l] = inflight[l]
  BY <1>0 DEF DropWaiter
<1>3. WorkOf'[k] = IF Members[k] = {c} THEN "idle" ELSE WorkOf[k]
  <2>1. CASE IsLastWaiter(c)
    <3>1. inflight'[k] = None
      BY <1>0, <2>1 DEF DropWaiter
    <3>2. QED
      BY <1>0, <2>1, <3>1 DEF WorkOf
  <2>2. CASE ~IsLastWaiter(c)
    <3>1. inflight' = [inflight EXCEPT ![k].waiters = @ - 1]
      BY <1>0, <2>2 DEF DropWaiter
    <3>2. inflight'[k] # None /\ inflight'[k].task = inflight[k].task
      <4>1. inflight[k] \in Entry /\ inflight[k].waiters - 1 \in Nat
        BY <1>0 DEF IInv, WaitersCounted, Entry
      <4>2. inflight'[k] \in Entry /\ inflight'[k].task = inflight[k].task
        BY <1>0, <3>1, <4>1 DEF Entry
      <4>3. QED
        BY <4>2, NoneIsNew DEF Entry
    <3>3. QED
      BY <1>0, <2>2, <3>2 DEF WorkOf
  <2>3. QED
    BY <2>1, <2>2
<1>4. WorkOf' = [WorkOf EXCEPT ![k] = IF Members[k] = {c} THEN "idle" ELSE @]
  <2>1. \A l \in Key : l # k => WorkOf'[l] = WorkOf[l]
    BY <1>2 DEF WorkOf
  <2>2. QED
    BY <1>3, <2>1 DEF WorkOf
<1>5. QED
  BY <1>0, <1>1, <1>4 DEF Shared!Without, Members, WorkOf

\* The task of an entry ends for all who share it.
LEMMA EndShared == ASSUME IInv, NEW t \in Caller, EndTask(t) PROVE Shared!Next
<1> DEFINE k == InflightKey(t)
<1>0. /\ UNCHANGED <<pc, inflight, got>> /\ status[t] = "running" /\ t \notin doomed
      /\ status' = [status EXCEPT ![t] = status'[t]] /\ status'[t] \in {"full", "partial", "error"}
      /\ status \in [Caller -> Status]
  BY DEF EndTask, IInv, TypeOK
<1>1. k \in Key /\ inflight[k] # None /\ inflight[k].task = t
  BY <1>0, KeyType DEF IInv, LiveListed, Unfinished
<1>2. WorkOf[k] = "busy" /\ WorkOf'[k] \in {"answered", "failed"}
  BY <1>0, <1>1 DEF WorkOf, Told
<1>3. \A l \in Key : l # k => WorkOf'[l] = WorkOf[l]
  <2> SUFFICES ASSUME NEW l \in Key, l # k PROVE WorkOf'[l] = WorkOf[l]
    OBVIOUS
  <2>1. CASE inflight[l] = None
    BY <1>0, <2>1 DEF WorkOf
  <2>2. CASE inflight[l] # None
    <3>1. inflight[l].task \in Caller /\ inflight[l].task # t
      BY <2>2 DEF IInv, TypeOK, Entry, EntriesSound
    <3>2. status'[inflight[l].task] = status[inflight[l].task]
      BY <1>0, <3>1
    <3>3. QED
      BY <1>0, <2>2, <3>2 DEF WorkOf
  <2>3. QED
    BY <2>1, <2>2
<1>4. WorkOf' = [WorkOf EXCEPT ![k] = WorkOf'[k]]
  BY <1>1, <1>3 DEF WorkOf
<1>5. Shared!Finish(k)
  BY <1>0, <1>1, <1>2, <1>4 DEF Shared!Finish, Members, WorkOf
<1>6. QED
  BY <1>1, <1>5 DEF Shared!Next

\* A step at no entry and no shield is not seen.
LEMMA Unseen ==
    ASSUME IInv, UNCHANGED <<inflight, got>>,
           \A c \in Caller : pc'[c] = "waiting" <=> pc[c] = "waiting",
           \A k \in Key : inflight[k] # None =>
              Told(status'[inflight[k].task]) = Told(status[inflight[k].task])
    PROVE  UNCHANGED Shared!vars
<1>1. Members' = Members /\ WorkOf' = WorkOf
  BY DEF Members, WorkOf
<1>2. QED
  BY <1>1 DEF Shared!vars, Members, WorkOf

LEMMA StepShared == IInv /\ ToldLate /\ [Next]_vars => [Shared!Next]_(Shared!vars)
<1> SUFFICES ASSUME IInv, ToldLate, [Next]_vars PROVE Shared!Next \/ UNCHANGED Shared!vars
  OBVIOUS
<1>0. pc \in [Caller -> Pc] /\ got \in [Caller -> Shared!Told] /\ status \in [Caller -> Status]
  BY DEF IInv, TypeOK, Shared!Told
<1>1. ASSUME NEW c \in Caller, Begin(c) \/ Miss(c) \/ Purged(c)
      PROVE  Shared!Next \/ UNCHANGED Shared!vars
  <2>1. CASE JoinFlight(c)
    BY <1>1, <2>1, JoinShared DEF Begin, Miss, Purged, Before
  <2>2. CASE ~JoinFlight(c)
    BY <1>0, <1>1, <2>2, Unseen DEF Begin, Miss, Purged
  <2>3. QED
    BY <2>1, <2>2
<1>2. ASSUME NEW c \in Caller, pc[c] \in {"new", "lookup", "purging"},
             pc' \in {[pc EXCEPT ![c] = "returned"], [pc EXCEPT ![c] = "cancelled"]},
             UNCHANGED <<inflight, status>>,
             got' \in {[got EXCEPT ![c] = "cached"], [got EXCEPT ![c] = "abandoned"]}
      PROVE  Shared!Next
  <2>1. Members' = Members /\ WorkOf' = WorkOf /\ c \notin Members[InflightKey(c)]
    BY <1>0, <1>2, KeyType DEF Members, WorkOf
  <2>2. got[c] = "nothing"
    BY <1>2 DEF ToldLate, Before
  <2>3. Shared!Bypass(c)
    BY <1>2, <2>1, <2>2 DEF Shared!Bypass, Members, WorkOf
  <2>4. QED
    BY <2>3 DEF Shared!Next
<1>3. ASSUME NEW c \in Caller, Hit(c) PROVE Shared!Next
  BY <1>2, <1>3 DEF Hit
<1>4. ASSUME NEW c \in Caller, Unwind(c) PROVE Shared!Next \/ UNCHANGED Shared!vars
  <2>1. CASE pc[c] = "storing" /\ got[c] # "nothing"
    BY <1>0, <1>4, <2>1, Unseen DEF Unwind
  <2>2. CASE pc[c] = "storing" /\ got[c] = "nothing"
    <3>1. Members' = Members /\ WorkOf' = WorkOf /\ c \notin Members[InflightKey(c)]
      BY <1>0, <1>4, <2>2, KeyType DEF Unwind, Members, WorkOf
    <3>2. Shared!Bypass(c)
      BY <1>4, <2>2, <3>1 DEF Unwind, Shared!Bypass, Members, WorkOf
    <3>3. QED
      BY <3>2 DEF Shared!Next
  <2>3. CASE pc[c] \in {"new", "lookup", "purging"}
    <3>1. got[c] = "nothing"
      BY <2>3 DEF ToldLate, Before
    <3>2. QED
      BY <1>2, <1>4, <2>3, <3>1 DEF Unwind
  <2>4. QED
    BY <1>4, <2>1, <2>2, <2>3 DEF Unwind
<1>5. ASSUME NEW c \in Caller, Receive(c) \/ Reraise(c) \/ Interrupt(c) PROVE Shared!Next
  <2>1. /\ pc[c] = "waiting" /\ DropWaiter(c) /\ status' = status
        /\ \E next \in {"invalid", "storing", "returned", "failed", "leaving", "cancelled"} :
              pc' = [pc EXCEPT ![c] = next]
    BY <1>5 DEF Receive, Reraise, Interrupt
  <2>2. Shared!Without(c)
    BY <2>1, DropShared
  <2>3. InflightKey(c) \in Key /\ WorkOf[InflightKey(c)] = Told(status[task[c]])
    BY <2>1, TableSeen
  <2>4. Shared!Deliver(c) \/ Shared!Abandon(c)
    <3>1. CASE Receive(c)
      <4>1. WorkOf[InflightKey(c)] = "answered" /\ got' = [got EXCEPT ![c] = "response"]
        BY <2>3, <3>1 DEF Receive, Told
      <4>2. QED
        BY <2>2, <4>1 DEF Shared!Deliver, WorkOf
    <3>2. CASE Reraise(c)
      <4>1. WorkOf[InflightKey(c)] = "failed" /\ got' = [got EXCEPT ![c] = "failure"]
        BY <2>3, <3>2 DEF Reraise, Told
      <4>2. QED
        BY <2>2, <4>1 DEF Shared!Deliver, WorkOf
    <3>3. CASE Interrupt(c)
      BY <2>2, <3>3 DEF Interrupt, Shared!Abandon
    <3>4. QED
      BY <1>5, <3>1, <3>2, <3>3
  <2>5. QED
    BY <2>4 DEF Shared!Next
<1>6. ASSUME NEW c \in Caller, Reject(c) \/ Stored(c) \/ Leave(c) \/ Cancel(c)
      PROVE  UNCHANGED Shared!vars
  BY <1>0, <1>6, Unseen DEF Reject, Stored, Leave, Cancel
<1>7. ASSUME NEW k \in Content, Evict(k) PROVE UNCHANGED Shared!vars
  BY <1>7, Unseen DEF Evict
<1>8. ASSUME NEW t \in Caller, TaskStep(t) PROVE Shared!Next \/ UNCHANGED Shared!vars
  <2>1. CASE EndTask(t)
    BY <2>1, EndShared
  <2>2. CASE StartTask(t)
    <3>1. \A u \in Caller : Told(status'[u]) = Told(status[u])
      BY <1>0, <2>2 DEF StartTask, Told
    <3>2. \A k \in Key : inflight[k] # None => inflight[k].task \in Caller
      BY DEF IInv, TypeOK, Entry
    <3>3. QED
      BY <2>2, <3>1, <3>2, Unseen DEF StartTask
  <2>3. CASE EndDoomedTask(t)
    <3>1. \A u \in Caller : u # t => status'[u] = status[u]
      BY <1>0, <2>3 DEF EndDoomedTask
    <3>2. \A k \in Key : inflight[k] # None => inflight[k].task \in Caller /\ inflight[k].task # t
      BY <2>3 DEF EndDoomedTask, IInv, TypeOK, Entry, EntriesSound
    <3>3. QED
      BY <2>3, <3>1, <3>2, Unseen DEF EndDoomedTask
  <2>4. QED
    BY <1>8, <2>1, <2>2, <2>3 DEF TaskStep
<1>9. CASE UNCHANGED vars
  BY <1>9, Unseen DEF vars
<1>10. QED
  BY <1>1, <1>3, <1>4, <1>5, <1>6, <1>7, <1>8, <1>9 DEF Next, CallerStep

LEMMA InitShared == Init => Shared!Init
<1> SUFFICES ASSUME Init PROVE Shared!Init
  OBVIOUS
<1>1. Members = [k \in Key |-> {}] /\ WorkOf = [k \in Key |-> "idle"]
  BY DEF Init, Members, WorkOf
<1>2. QED
  BY <1>1 DEF Init, Shared!Init, Members, WorkOf

\* ExecutionServices keeps the promise of SharedWork for any callers and keys: callers
\* that ask for the same share one piece of work, as long as somebody wants it.
THEOREM WorkIsShared == Spec => SharedSpec
<1>1. Spec => []ToldLate
  BY InitToldLate, ToldLatePreserved, Inductive, PTL DEF Spec
<1>2. QED
  BY InitShared, StepShared, Inductive, <1>1, PTL DEF Spec, SharedSpec, Shared!Spec
=============================================================================
