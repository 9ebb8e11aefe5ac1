---------------------------- MODULE FacadeProofs ---------------------------
(***************************************************************************)
(* Theorems about the facade of a ranking. Ranking, for any number of       *)
(* candidates and routes, any pipelines, fallback chains, limits and batch  *)
(* sizes: what a response says of its plan, its status and its counts.      *)
(* RerankerLifecycle, for any tasks and calls of aclose, any nesting of     *)
(* reranks and any observer queue: the backend is closed idle, the          *)
(* observer's worker is gone for good, and the events are accounted for.    *)
(* They are two specifications, each with variables of its own.             *)
(***************************************************************************)
EXTENDS Ranking, RerankerLifecycle, FiniteSetTheorems, SequenceTheorems, TLAPS

\* Every stage has what the one before it left, the first one all candidates, and what it
\* leaves or omits it had. Only listwise stages that allow it omit.
Sizes(s) ==
    /\ s # <<>> => s[1].in = N
    /\ \A i \in 2..Len(s) : s[i].in = s[i - 1].out
    /\ \A i \in 1..Len(s) : /\ s[i].out + s[i].omitted <= s[i].in /\ s[i].in <= N
                            /\ s[i].omitted # 0 => s[i].kind = "partial"

\* A stage that was scored by a later route has been counted as so many fallbacks.
Told(s, fell) == \A i \in 1..Len(s) : s[i].by = None \/ s[i].by <= fell + 1

\* The stages are the first ones of the plan.
Prefix(s) ==
    /\ Len(s) <= Len(request.plan)
    /\ \A i \in 1..Len(s) : s[i].kind = request.plan[i].kind

\* What an outcome has left, and what it says is missing.
AccountedFor(o) ==
    IF o.stages = <<>> THEN o.missing = 0
    ELSE /\ Cardinality(o.entries) <= Last(o.stages).out
         /\ OmitsLastOnly => o.missing = Last(o.stages).omitted

\* When the full order is asked for, what is not missing is there.
Whole(o) ==
    request.topK = None /\ OmitsLastOnly => Cardinality(o.entries) + o.missing = N

Sound(o) ==
    o \in Outcome /\ Sizes(o.stages) /\ Told(o.stages, fallbacks) /\ AccountedFor(o) /\ Whole(o)

\* The outcome of some stages of a pipeline, not of all.
Partway(o) ==
    /\ Sound(o) /\ Prefix(o.stages) /\ o.stages # <<>> /\ Len(o.stages) < Len(request.plan)
    /\ Cardinality(o.entries) = Last(o.stages).out
    /\ OmitsLastOnly => o.missing = 0

Ranking == phase \in {"start", "ranking"}
Planned == Prefix(outcome.stages) /\ Len(outcome.stages) = Len(request.plan)

\* What is at hand in each phase.
AtHand ==
    /\ Ranking => /\ status = "ok" /\ checkpoint = None
                  /\ outcome = None \/ (Partway(outcome) /\ request.piped)
    /\ phase = "start" => outcome = None
    /\ phase = "falling" => checkpoint = None \/ Partway(checkpoint)
    /\ phase = "assembling" => Sound(outcome) /\ (status = "ok" => Planned)

IInv ==
    /\ TypeOK /\ request \in Requests
    /\ AtHand /\ PlanIsChain /\ OkMeansAsPlanned /\ NothingLostSilently

(***************************************************************************)
(* Sizes of sets of candidates.                                             *)
(***************************************************************************)

LEMMA Counting ==
    ASSUME NEW S \in SUBSET Candidate
    PROVE  /\ IsFiniteSet(S) /\ Cardinality(S) \in Nat /\ Cardinality(S) <= N
           /\ Cardinality(Candidate) = N /\ N \in Nat
<1>1. IsFiniteSet(Candidate) /\ Cardinality(Candidate) = N /\ N \in Nat
  BY RankingSizes, FS_Interval DEF Candidate
<1>2. QED
  BY <1>1, FS_Subset, FS_CardinalityType

\* A part of a set is no larger, and what is outside it makes up the rest.
LEMMA Parts ==
    ASSUME NEW S \in SUBSET Candidate, NEW T \in SUBSET S
    PROVE  /\ T \in SUBSET Candidate /\ Cardinality(T) \in Nat
           /\ Cardinality(T) <= Cardinality(S)
           /\ Cardinality(S \ T) \in Nat /\ Cardinality(S) \in Nat
           /\ Cardinality(T) + Cardinality(S \ T) = Cardinality(S)
<1>1. IsFiniteSet(S) /\ Cardinality(S) \in Nat
  BY Counting
<1>2. IsFiniteSet(T) /\ Cardinality(T) <= Cardinality(S)
  BY <1>1, FS_Subset
<1>3. S \cap T = T
  OBVIOUS
<1>4. IsFiniteSet(S \ T) /\ Cardinality(S \ T) = Cardinality(S) - Cardinality(T)
  BY <1>1, <1>3, FS_Difference
<1>5. Cardinality(T) \in Nat /\ Cardinality(S \ T) \in Nat
  BY <1>2, <1>4, FS_CardinalityType
<1>6. QED
  BY <1>1, <1>2, <1>4, <1>5

LEMMA CutsAreParts ==
    ASSUME NEW S \in SUBSET Candidate, NEW limit \in Nat \cup {None}, NEW T \in Cuts(S, limit)
    PROVE  /\ T \in SUBSET S
           /\ limit = None \/ Cardinality(S) <= limit => T = S
BY DEF Cuts, kSubset

(***************************************************************************)
(* One scoring.                                                             *)
(***************************************************************************)

Stats == fallbacks \in Nat /\ selected \in Route \cup {None} /\ modelRoutes \in Seq(Route)

LEMMA Charged ==
    ASSUME Stats, NEW call \in Scored \cup Unscored \cup {NoCall}, NEW adopted \in {0, 1},
           Charge(call, adopted)
    PROVE  /\ Stats' /\ fallbacks' >= fallbacks + adopted
           /\ call.scoredBy = None \/ (call.scoredBy \in Route /\ call.scoredBy <= fallbacks' + 1)
<1>1. Route \subseteq Nat \ {0}
  BY DEF Route
<1>2. /\ call.fell \in Nat /\ call.on \in Route \cup {None} /\ call.scoredBy \in Route \cup {None}
      /\ call.scoredBy = None \/ call.scoredBy <= call.fell + 1
  BY <1>1 DEF Scored, Unscored, NoCall
<1>3. fallbacks' = fallbacks + call.fell + adopted
  BY DEF Charge
<1>4. fallbacks' \in Nat /\ fallbacks' >= fallbacks + adopted /\ fallbacks' >= call.fell
  BY <1>2, <1>3 DEF Stats
<1>5. selected' \in Route \cup {None} /\ modelRoutes' \in Seq(Route)
  BY <1>2, AppendProperties DEF Charge, Recorded, Stats
<1>6. ASSUME call.scoredBy # None PROVE call.scoredBy \in Route /\ call.scoredBy <= fallbacks' + 1
  <2>1. call.scoredBy \in Route /\ call.scoredBy \in Nat
    BY <1>1, <1>2, <1>6
  <2>2. QED
    BY <1>2, <1>4, <1>6, <2>1
<1>7. QED
  BY <1>4, <1>5, <1>6 DEF Stats

\* A step that scores pool with s leaves an outcome with one more stage, e.
Adds(e, s, pool, done, limit, topK) ==
    /\ outcome' \in Outcome /\ outcome'.stages = Append(done, e)
    /\ outcome'.entries \subseteq pool
    /\ e.kind = s.kind /\ e.in = Cardinality(pool) /\ e.out + e.omitted <= e.in
    /\ e.omitted # 0 => s.kind = "partial"
    /\ e.by = None \/ e.by <= fallbacks' + 1
    /\ Cardinality(outcome'.entries) <= e.out
    /\ topK = None => Cardinality(outcome'.entries) = e.out
    /\ topK = None /\ (limit = None \/ Cardinality(pool) <= limit)
          => Cardinality(outcome'.entries) + e.omitted = Cardinality(pool)
    /\ outcome'.missing = IF s.kind = "diversity" THEN outcome.missing ELSE e.omitted

LEMMA OneRanking ==
    ASSUME NEW s \in StageDef, NEW pool \in SUBSET Candidate, NEW done \in Seq(Stage),
           NEW limit \in Nat \cup {None}, NEW topK \in Nat \cup {None}, NEW adopted \in {0, 1},
           Stats, s.kind = "diversity" => outcome \in Outcome,
           Ranks(s, pool, done, limit, topK, adopted)
    PROVE  /\ Stats' /\ fallbacks' >= fallbacks + adopted
           /\ \E e \in Stage : Adds(e, s, pool, done, limit, topK)
<1> DEFINE Left(call, scored, ranked) ==
             [kind |-> s.kind, in |-> Cardinality(pool), out |-> Cardinality(ranked),
              by |-> call.scoredBy, omitted |-> Cardinality(pool \ scored)]
           Out(call, scored, ranked, entries) ==
             [entries |-> entries, missing |-> Missing(s, pool, scored),
              stages |-> Append(done, Left(call, scored, ranked)), rankOnly |-> FALSE]
<1>1. PICK call \in Scored \cup {NoCall}, scored \in ScoredOf(s, pool) :
         /\ Charge(call, adopted)
         /\ \E ranked \in Cuts(scored, limit) : \E entries \in Cuts(ranked, topK) :
               outcome' = Out(call, scored, ranked, entries)
  BY DEF Ranks
<1>2. PICK ranked \in Cuts(scored, limit) : \E entries \in Cuts(ranked, topK) :
         outcome' = Out(call, scored, ranked, entries)
  BY <1>1
<1>3. PICK entries \in Cuts(ranked, topK) : outcome' = Out(call, scored, ranked, entries)
  BY <1>2
<1> DEFINE e == Left(call, scored, ranked)
<1>4. /\ Stats' /\ fallbacks' >= fallbacks + adopted
      /\ call.scoredBy = None \/ (call.scoredBy \in Route /\ call.scoredBy <= fallbacks' + 1)
  BY <1>1, Charged
<1>5. scored \in SUBSET pool /\ scored \in SUBSET Candidate /\ (s.kind # "partial" => scored = pool)
  BY DEF ScoredOf
<1>6. ranked \in SUBSET scored /\ ranked \in SUBSET Candidate
      /\ (limit = None \/ Cardinality(scored) <= limit => ranked = scored)
  BY <1>5, CutsAreParts
<1>7. entries \in SUBSET ranked /\ entries \in SUBSET Candidate /\ (topK = None => entries = ranked)
  BY <1>6, CutsAreParts
<1>8. /\ Cardinality(pool) \in Nat /\ Cardinality(scored) \in Nat /\ Cardinality(pool \ scored) \in Nat
      /\ Cardinality(scored) + Cardinality(pool \ scored) = Cardinality(pool)
  BY <1>5, Parts
<1>9. Cardinality(ranked) \in Nat /\ Cardinality(ranked) <= Cardinality(scored)
  BY <1>5, <1>6, Parts
<1>10. Cardinality(entries) \in Nat /\ Cardinality(entries) <= Cardinality(ranked)
  BY <1>6, <1>7, Parts
<1>11. s.kind # "partial" => Cardinality(pool \ scored) = 0
  BY <1>5, <1>8
<1>12. e \in Stage /\ s.kind \in Kind
  BY <1>4, <1>8, <1>9 DEF Stage, StageDef
<1>13. Missing(s, pool, scored) = IF s.kind = "diversity" THEN outcome.missing
                                  ELSE Cardinality(pool \ scored)
  BY <1>11 DEF Missing
<1>14. Missing(s, pool, scored) \in Nat
  BY <1>8, <1>13 DEF Outcome
<1>15. /\ outcome'.entries = entries /\ outcome'.stages = Append(done, e)
       /\ outcome'.missing = Missing(s, pool, scored) /\ outcome'.rankOnly = FALSE
  BY <1>3
<1>16. outcome' \in Outcome
  <2>1. Append(done, e) \in Seq(Stage)
    BY <1>12, AppendProperties
  <2>2. QED
    BY <1>3, <1>7, <1>14, <2>1 DEF Outcome
<1>17. topK = None /\ (limit = None \/ Cardinality(pool) <= limit)
          => Cardinality(entries) + Cardinality(pool \ scored) = Cardinality(pool)
  <2> SUFFICES ASSUME topK = None, limit = None \/ Cardinality(pool) <= limit
               PROVE  Cardinality(entries) + Cardinality(pool \ scored) = Cardinality(pool)
    OBVIOUS
  <2>1. limit = None \/ Cardinality(scored) <= limit
    BY <1>8
  <2>2. entries = scored
    BY <1>6, <1>7, <2>1
  <2>3. QED
    BY <1>8, <2>2
<1>18. /\ e.kind = s.kind /\ e.in = Cardinality(pool) /\ e.out = Cardinality(ranked)
       /\ e.by = call.scoredBy /\ e.omitted = Cardinality(pool \ scored)
  OBVIOUS
<1>19. e.out + e.omitted <= e.in
  BY <1>8, <1>9
<1> HIDE DEF e
<1>20. /\ outcome' \in Outcome /\ outcome'.stages = Append(done, e)
       /\ outcome'.rankOnly = FALSE /\ outcome'.entries \subseteq pool
       /\ outcome'.missing = IF s.kind = "diversity" THEN outcome.missing ELSE e.omitted
  BY <1>5, <1>6, <1>7, <1>13, <1>15, <1>16, <1>18
<1>21. /\ Cardinality(outcome'.entries) <= e.out
       /\ topK = None => Cardinality(outcome'.entries) = e.out
       /\ topK = None /\ (limit = None \/ Cardinality(pool) <= limit)
             => Cardinality(outcome'.entries) + e.omitted = Cardinality(pool)
  BY <1>7, <1>10, <1>15, <1>17, <1>18
<1>22. /\ e \in Stage /\ (e.omitted # 0 => s.kind = "partial")
       /\ e.by = None \/ e.by <= fallbacks' + 1
  BY <1>4, <1>11, <1>12, <1>18
<1>23. QED
  BY <1>4, <1>18, <1>19, <1>20, <1>21, <1>22 DEF Adds

\* A stage is added.
LEMMA OneMoreStage ==
    ASSUME NEW done \in Seq(Stage), Sizes(done), NEW n \in Nat, NEW m \in Nat, n <= m,
           Told(done, n), NEW e \in Stage,
           e.in = IF done = <<>> THEN N ELSE Last(done).out, e.in <= N,
           e.out + e.omitted <= e.in, e.omitted # 0 => e.kind = "partial",
           e.by = None \/ e.by <= m + 1
    PROVE  /\ Sizes(Append(done, e)) /\ Told(Append(done, e), m)
           /\ Len(Append(done, e)) = Len(done) + 1 /\ Last(Append(done, e)) = e
           /\ Append(done, e) # <<>>
<1> DEFINE s == Append(done, e)
           k == Len(done)
<1>1. /\ k \in Nat /\ Len(s) = k + 1 /\ s[k + 1] = e
      /\ \A i \in 1..k : s[i] = done[i] /\ done[i] \in Stage
      /\ s # <<>>
  BY AppendProperties
<1>2. done = <<>> <=> k = 0
  BY EmptySeq
<1> HIDE DEF s, k
<1>3. \A i \in 1..(k + 1) : i \in 1..k \/ i = k + 1
  BY <1>1
<1>4. s[1].in = N
  BY <1>1, <1>2 DEF Sizes
<1>5. \A i \in 2..(k + 1) : s[i].in = s[i - 1].out
  <2> SUFFICES ASSUME NEW i \in 2..(k + 1) PROVE s[i].in = s[i - 1].out
    OBVIOUS
  <2>1. i - 1 \in 1..k
    BY <1>1
  <2>2. CASE i \in 1..k
    BY <1>1, <2>1, <2>2 DEF Sizes, k
  <2>3. CASE i = k + 1
    BY <1>1, <1>2, <2>1, <2>3 DEF Last, k
  <2>4. QED
    BY <1>3, <2>2, <2>3
<1>6. \A i \in 1..(k + 1) : /\ s[i].out + s[i].omitted <= s[i].in /\ s[i].in <= N
                            /\ s[i].omitted # 0 => s[i].kind = "partial"
  BY <1>1, <1>3 DEF Sizes, k
<1>7. \A i \in 1..(k + 1) : s[i].by = None \/ s[i].by <= m + 1
  <2> SUFFICES ASSUME NEW i \in 1..(k + 1) PROVE s[i].by = None \/ s[i].by <= m + 1
    OBVIOUS
  <2>1. CASE i \in 1..k
    <3>1. done[i].by = None \/ done[i].by <= n + 1
      BY <2>1 DEF Told, k
    <3>2. done[i].by = None \/ done[i].by \in Nat
      BY <1>1, <2>1 DEF Stage, Route
    <3>3. QED
      BY <1>1, <2>1, <3>1, <3>2
  <2>2. QED
    BY <1>1, <1>3, <2>1
<1>8. QED
  BY <1>1, <1>4, <1>5, <1>6, <1>7 DEF Sizes, Told, Last, s, k

(***************************************************************************)
(* Before a stage, and after it.                                            *)
(***************************************************************************)

LEMMA RequestFacts ==
    ASSUME request \in Requests
    PROVE  /\ request.topK \in Nat \cup {None} /\ request.chain \in Seq(Policy)
           /\ Len(request.plan) \in Nat \ {0} /\ DOMAIN request.plan = 1..Len(request.plan)
           /\ \A i \in 1..Len(request.plan) : request.plan[i] \in StageDef
           /\ request.piped \in BOOLEAN /\ (~request.piped => Len(request.plan) = 1)
<1>1. /\ request \in Request /\ request.plan # <<>> /\ (~request.piped => Len(request.plan) = 1)
  BY RequestsAreRequests
<1>2. request.plan \in Seq(StageDef)
  BY <1>1 DEF Request
<1>3. Len(request.plan) \in Nat \ {0}
  BY <1>1, <1>2, EmptySeq
<1>4. QED
  BY <1>1, <1>2, <1>3 DEF Request

LEMMA BeforeStage ==
    ASSUME IInv, phase = "ranking"
    PROVE  /\ Done \in Seq(Stage) /\ Survivors \in SUBSET Candidate
           /\ Sizes(Done) /\ Told(Done, fallbacks) /\ Prefix(Done)
           /\ Len(Done) \in Nat /\ Len(Done) < Len(request.plan) /\ Current \in StageDef
           /\ Cardinality(Survivors) = IF Done = <<>> THEN N ELSE Last(Done).out
           /\ request.topK = None /\ OmitsLastOnly => Cardinality(Survivors) = N
           /\ ~request.piped => Done = <<>> /\ Survivors = Candidate
           /\ outcome # None => outcome \in Outcome /\ (OmitsLastOnly => outcome.missing = 0)
<1>1. request \in Requests /\ (outcome = None \/ (Partway(outcome) /\ request.piped))
  BY DEF IInv, AtHand, Ranking
<1>2. CASE outcome = None
  <2>1. Done = <<>> /\ Survivors = Candidate
    BY <1>2 DEF Done, Survivors
  <2>2. Current = request.plan[1] /\ Current \in StageDef /\ 0 < Len(request.plan)
    BY <1>1, <2>1, RequestFacts DEF Current
  <2>3. Sizes(<<>>) /\ Told(<<>>, fallbacks) /\ Prefix(<<>>)
    BY <2>2 DEF Sizes, Told, Prefix
  <2>4. QED
    BY <1>2, <2>1, <2>2, <2>3, Counting
<1>3. CASE outcome # None
  <2>1. Done = outcome.stages /\ Survivors = outcome.entries /\ Partway(outcome) /\ request.piped
    BY <1>1, <1>3 DEF Done, Survivors
  <2>2. /\ outcome \in Outcome /\ Done \in Seq(Stage) /\ Survivors \in SUBSET Candidate
        /\ Done # <<>> /\ Len(Done) < Len(request.plan) /\ Prefix(Done)
        /\ Sizes(Done) /\ Told(Done, fallbacks)
        /\ Cardinality(Survivors) = Last(Done).out /\ (OmitsLastOnly => outcome.missing = 0)
    BY <2>1 DEF Partway, Sound, Outcome
  <2>3. Len(Done) \in Nat /\ Current \in StageDef
    BY <1>1, <2>2, RequestFacts DEF Current
  <2>4. request.topK = None /\ OmitsLastOnly => Cardinality(Survivors) = N
    <3>1. Cardinality(Survivors) \in Nat
      BY <2>2, Counting
    <3>2. request.topK = None /\ OmitsLastOnly => Cardinality(Survivors) + outcome.missing = N
      BY <2>1 DEF Partway, Sound, Whole
    <3>3. QED
      BY <2>2, <3>1, <3>2
  <2>5. QED
    BY <2>1, <2>2, <2>3, <2>4
<1>4. QED
  BY <1>2, <1>3

\* Nothing has been returned yet.
LEMMA NotAnswered ==
    ASSUME TypeOK', phase' # "returned"
    PROVE  PlanIsChain' /\ OkMeansAsPlanned' /\ NothingLostSilently'
BY DEF PlanIsChain, OkMeansAsPlanned, NothingLostSilently, Answered

LEMMA RunStageKeeps == ASSUME IInv, RunStage PROVE IInv'
<1> DEFINE pool == Survivors
           done == Done
           s == Current
           limit == IF request.piped THEN Current.limit ELSE request.topK
           topK == IF request.piped /\ IsLast THEN request.topK ELSE None
<1>1. /\ phase = "ranking" /\ ~Prunes /\ ~Unfounded
      /\ phase' = IF IsLast THEN "assembling" ELSE "ranking"
      /\ UNCHANGED <<request, checkpoint, tried, lastError, status, error, response>>
  BY DEF RunStage, result
<1>2. /\ request \in Requests /\ status = "ok" /\ checkpoint = None /\ Stats
  BY <1>1 DEF IInv, AtHand, Ranking, TypeOK, Stats
<1>3. /\ done \in Seq(Stage) /\ pool \in SUBSET Candidate
      /\ Sizes(done) /\ Told(done, fallbacks) /\ Prefix(done)
      /\ Len(done) \in Nat /\ Len(done) < Len(request.plan) /\ s \in StageDef
      /\ Cardinality(pool) = IF done = <<>> THEN N ELSE Last(done).out
      /\ request.topK = None /\ OmitsLastOnly => Cardinality(pool) = N
      /\ ~request.piped => done = <<>> /\ pool = Candidate
      /\ outcome # None => outcome \in Outcome /\ (OmitsLastOnly => outcome.missing = 0)
  BY <1>1, BeforeStage
<1>4. Ranks(s, pool, done, limit, topK, 0)
  BY <1>3 DEF RunStage
<1>5. limit \in Nat \cup {None} /\ topK \in Nat \cup {None}
  BY <1>2, <1>3, RequestFacts DEF StageDef
<1>6. Cardinality(pool) \in Nat /\ Cardinality(pool) <= N /\ N \in Nat
  BY <1>3, Counting
<1>7. request.topK = None => topK = None /\ (limit = None \/ Cardinality(pool) <= limit)
  BY <1>1, <1>5, <1>6 DEF Prunes
<1>8. s.kind = "diversity" => outcome \in Outcome /\ (OmitsLastOnly => outcome.missing = 0)
  BY <1>1, <1>3 DEF Unfounded
<1>9. /\ IsLast <=> Len(done) + 1 = Len(request.plan)
      /\ s = request.plan[Len(done) + 1]
      /\ ~IsLast => topK = None /\ request.piped
  <2>1. IsLast <=> Len(done) + 1 = Len(request.plan)
    BY DEF IsLast
  <2>2. s = request.plan[Len(done) + 1]
    BY DEF Current
  <2>3. ASSUME ~request.piped PROVE IsLast
    <3>1. done = <<>> /\ Len(request.plan) = 1
      BY <1>2, <1>3, <2>3, RequestFacts
    <3>2. QED
      BY <2>1, <3>1
  <2>4. ~IsLast => topK = None /\ request.piped
    BY <2>3
  <2>5. QED
    BY <2>1, <2>2, <2>4
<1> HIDE DEF pool, done, s, limit, topK
<1>10. /\ Stats' /\ fallbacks' >= fallbacks + 0
       /\ \E e \in Stage : Adds(e, s, pool, done, limit, topK)
  BY <1>2, <1>3, <1>4, <1>5, <1>8, OneRanking
<1>11. PICK e \in Stage : Adds(e, s, pool, done, limit, topK)
  BY <1>10
<1>12. /\ outcome' \in Outcome /\ outcome'.stages = Append(done, e)
       /\ e.kind = s.kind /\ e.in = Cardinality(pool) /\ e.out + e.omitted <= e.in
       /\ e.omitted # 0 => s.kind = "partial"
       /\ e.by = None \/ e.by <= fallbacks' + 1
       /\ Cardinality(outcome'.entries) <= e.out
       /\ topK = None => Cardinality(outcome'.entries) = e.out
       /\ topK = None /\ (limit = None \/ Cardinality(pool) <= limit)
             => Cardinality(outcome'.entries) + e.omitted = Cardinality(pool)
       /\ outcome'.missing = IF s.kind = "diversity" THEN outcome.missing ELSE e.omitted
  BY <1>11 DEF Adds
<1> DEFINE stages == Append(done, e)
<1>13. fallbacks \in Nat /\ fallbacks' \in Nat /\ fallbacks <= fallbacks'
  BY <1>2, <1>10 DEF Stats
<1>14. /\ Sizes(stages) /\ Told(stages, fallbacks') /\ Len(stages) = Len(done) + 1
       /\ Last(stages) = e /\ stages # <<>>
  BY <1>3, <1>6, <1>12, <1>13, OneMoreStage
<1>15. \A i \in 1..Len(done) : stages[i] = done[i]
  BY <1>3, AppendProperties
<1>16. stages[Len(done) + 1] = e
  BY <1>3, AppendProperties
<1> HIDE DEF stages
<1>17. /\ Len(stages) <= Len(request.plan)
       /\ \A i \in 1..Len(stages) : stages[i].kind = request.plan[i].kind
  <2>1. Len(stages) <= Len(request.plan)
    BY <1>2, <1>3, <1>14, RequestFacts
  <2>2. ASSUME NEW i \in 1..Len(stages) PROVE stages[i].kind = request.plan[i].kind
    <3>1. i \in 1..Len(done) \/ i = Len(done) + 1
      BY <1>3, <1>14
    <3>2. QED
      BY <1>3, <1>9, <1>12, <1>15, <1>16, <3>1 DEF Prefix
  <2>3. QED
    BY <2>1, <2>2
<1>18. outcome'.stages = stages
  BY <1>12 DEF stages
<1>19. OmitsLastOnly => outcome'.missing = e.omitted
  BY <1>8, <1>12
<1>20. request.topK = None /\ OmitsLastOnly => Cardinality(outcome'.entries) + outcome'.missing = N
  BY <1>3, <1>7, <1>12, <1>19
<1>21. OmitsLastOnly' <=> OmitsLastOnly
  BY <1>1 DEF OmitsLastOnly
<1>22. Sound(outcome)'
  <2>1. AccountedFor(outcome)'
    BY <1>12, <1>14, <1>18, <1>19, <1>21 DEF AccountedFor
  <2>2. Whole(outcome)'
    BY <1>1, <1>20, <1>21 DEF Whole
  <2>3. Sizes(outcome.stages)' /\ Told(outcome.stages, fallbacks)' /\ (outcome \in Outcome)'
    BY <1>12, <1>14, <1>18 DEF Sizes, Told, Outcome, Stage
  <2>4. QED
    BY <2>1, <2>2, <2>3 DEF Sound
<1>23. Prefix(outcome.stages)'
  BY <1>1, <1>17, <1>18 DEF Prefix
<1>24. TypeOK'
  BY <1>1, <1>10, <1>12 DEF IInv, TypeOK, Stats
<1>25. AtHand'
  <2>1. CASE IsLast
    <3>1. phase' = "assembling" /\ Planned'
      BY <1>1, <1>9, <1>14, <1>18, <1>23, <2>1 DEF Planned
    <3>2. QED
      BY <1>22, <3>1 DEF AtHand, Ranking
  <2>2. CASE ~IsLast
    <3>1. phase' = "ranking" /\ Len(stages) < Len(request.plan) /\ topK = None /\ request.piped
      BY <1>1, <1>2, <1>3, <1>9, <1>14, <2>2, RequestFacts
    <3>2. OmitsLastOnly => e.omitted = 0
      <4>1. Len(done) + 1 \in 1..(Len(request.plan) - 1)
        BY <1>2, <1>3, <1>14, <3>1, RequestFacts
      <4>2. QED
        BY <1>9, <1>12, <4>1 DEF OmitsLastOnly
    <3>3. Partway(outcome)'
      BY <1>1, <1>12, <1>14, <1>18, <1>19, <1>21, <1>22, <1>23, <3>1, <3>2 DEF Partway
    <3>4. QED
      BY <1>1, <1>2, <3>1, <3>3 DEF AtHand, Ranking
  <2>3. QED
    BY <2>1, <2>2
<1>26. phase' # "returned"
  BY <1>1
<1>27. QED
  BY <1>1, <1>2, <1>24, <1>25, <1>26, NotAnswered DEF IInv

(***************************************************************************)
(* A failure, and the fallbacks.                                            *)
(***************************************************************************)

\* What an outcome says stays true when more falls back.
LEMMA StillSound ==
    ASSUME NEW o, Sound(o), fallbacks \in Nat, fallbacks' \in Nat, fallbacks <= fallbacks',
           request' = request
    PROVE  Sound(o)'
<1>1. o \in Outcome /\ Sizes(o.stages) /\ Told(o.stages, fallbacks) /\ AccountedFor(o) /\ Whole(o)
  BY DEF Sound
<1>2. o.stages \in Seq(Stage) /\ Len(o.stages) \in Nat
  BY <1>1 DEF Outcome
<1>3. Told(o.stages, fallbacks')
  <2> SUFFICES ASSUME NEW i \in 1..Len(o.stages), o.stages[i].by # None
               PROVE  o.stages[i].by <= fallbacks' + 1
    BY DEF Told
  <2>1. o.stages[i].by <= fallbacks + 1
    BY <1>1 DEF Told
  <2>2. o.stages[i] \in Stage
    BY <1>2
  <2>3. o.stages[i].by \in Route
    BY <2>2 DEF Stage
  <2>4. QED
    BY <2>1, <2>3 DEF Route
<1>4. AccountedFor(o)' /\ Whole(o)'
  BY <1>1 DEF AccountedFor, Whole, OmitsLastOnly
<1>5. QED
  BY <1>1, <1>3, <1>4 DEF Sound, Told

LEMMA StillPartway ==
    ASSUME NEW o, Partway(o), fallbacks \in Nat, fallbacks' \in Nat, fallbacks <= fallbacks',
           request' = request
    PROVE  Partway(o)'
<1>1. Sound(o)'
  BY StillSound DEF Partway
<1>2. QED
  BY <1>1 DEF Partway, Prefix, OmitsLastOnly

LEMMA StageFailsKeeps == ASSUME IInv, StageFails PROVE IInv'
<1>1. /\ phase = "ranking" /\ Fails(Current, Survivors) /\ phase' = "falling"
      /\ checkpoint' = outcome
      /\ UNCHANGED <<request, outcome, tried, lastError, status, error, response>>
  BY DEF StageFails, result
<1>2. /\ request \in Requests /\ status = "ok" /\ Stats /\ TypeOK
      /\ outcome = None \/ Partway(outcome)
  BY <1>1 DEF IInv, AtHand, Ranking, TypeOK, Stats
<1>3. PICK call \in Unscored \cup {NoCall} : Charge(call, 0)
  BY <1>1 DEF Fails
<1>4. Stats' /\ fallbacks' >= fallbacks + 0
  BY <1>2, <1>3, Charged
<1>5. fallbacks \in Nat /\ fallbacks' \in Nat /\ fallbacks <= fallbacks'
  BY <1>2, <1>4 DEF Stats
<1>6. PICK o : o = outcome
  OBVIOUS
<1>7. o = None \/ Partway(o)'
  BY <1>1, <1>2, <1>5, <1>6, StillPartway
<1>8. checkpoint' = None \/ Partway(checkpoint)'
  <2>1. checkpoint' = o
    BY <1>1, <1>6
  <2>2. QED
    BY <1>7, <2>1 DEF Partway, Sound, AccountedFor, Whole
<1>9. TypeOK'
  BY <1>1, <1>2, <1>4 DEF TypeOK, Stats
<1>10. AtHand'
  BY <1>1, <1>8 DEF AtHand, Ranking
<1>11. QED
  BY <1>1, <1>2, <1>9, <1>10, NotAnswered DEF IInv

\* A step after which nothing is at hand: the request has been refused or has failed.
LEMMA RaiseKeeps ==
    ASSUME IInv, NEW what \in {"primary", "last", "refused", "value"}, Raise(what)
    PROVE  IInv'
<1>1. TypeOK' /\ phase' = "raised" /\ request' = request
  BY DEF IInv, TypeOK, Raise, statistics
<1>2. AtHand'
  BY <1>1 DEF AtHand, Ranking
<1>3. QED
  BY <1>1, <1>2, NotAnswered DEF IInv

LEMMA FallbackCheckpointKeeps == ASSUME IInv, FallbackCheckpoint PROVE IInv'
<1>1. /\ phase = "falling" /\ checkpoint # None /\ outcome' = checkpoint /\ Charge(NoCall, 1)
      /\ phase' = "assembling" /\ status' \in {"partial", "fallback"}
      /\ UNCHANGED <<request, checkpoint, tried, lastError, error, response>>
  BY DEF FallbackCheckpoint, Trying, Adopt, result
<1>2. /\ request \in Requests /\ Stats /\ TypeOK /\ Partway(checkpoint)
  BY <1>1 DEF IInv, AtHand, TypeOK, Stats
<1>3. Stats' /\ fallbacks' >= fallbacks + 1
  BY <1>1, <1>2, Charged
<1>4. fallbacks \in Nat /\ fallbacks' \in Nat /\ fallbacks <= fallbacks'
  BY <1>2, <1>3 DEF Stats
<1>5. PICK o : o = checkpoint
  OBVIOUS
<1>6. Sound(o)'
  BY <1>1, <1>2, <1>4, <1>5, StillSound DEF Partway
<1>7. Sound(outcome)'
  <2>1. outcome' = o
    BY <1>1, <1>5
  <2>2. QED
    BY <1>6, <2>1 DEF Sound, AccountedFor, Whole
<1>8. outcome' \in Outcome
  BY <1>7 DEF Sound
<1>9. TypeOK'
  BY <1>1, <1>2, <1>3, <1>8 DEF TypeOK, Stats
<1>10. AtHand'
  BY <1>1, <1>7 DEF AtHand, Ranking
<1>11. QED
  BY <1>1, <1>2, <1>9, <1>10, NotAnswered DEF IInv

\* The strategy a policy ranks with ranks every candidate, and its outcome has one stage.
LEMMA FallbackRanksKeeps == ASSUME IInv, FallbackRanks PROVE IInv'
<1> DEFINE s == StrategyOf(request.chain[tried])
<1>1. /\ phase = "falling" /\ request.chain[tried] \in {"pointwise", "lexical", "smaller_batches"}
      /\ Ranks(s, Candidate, <<>>, request.topK, None, 1)
      /\ phase' = "assembling" /\ status' = "fallback"
      /\ UNCHANGED <<request, checkpoint, tried, lastError, error, response>>
  BY DEF FallbackRanks, Trying, Adopt, FallbackPool, result
<1>2. /\ request \in Requests /\ Stats /\ TypeOK
  BY DEF IInv, TypeOK, Stats
<1>3. request.topK \in Nat \cup {None} /\ request.plan[1] \in StageDef
  BY <1>2, RequestFacts
<1>4. HalfBatch \in Nat
  BY <1>3, RankingSizes DEF HalfBatch, StageDef
<1>5. s \in StageDef /\ s.kind \in {"pointwise", "lexical", "listwise"}
  BY <1>1, <1>4 DEF StrategyOf, StageDef, Kind, ShownAsModel, Listwise
<1>6. Candidate \in SUBSET Candidate /\ <<>> \in Seq(Stage) /\ Cardinality(Candidate) = N /\ N \in Nat
  BY Counting
<1> HIDE DEF s
<1>7. /\ Stats' /\ fallbacks' >= fallbacks + 1
      /\ \E e \in Stage : Adds(e, s, Candidate, <<>>, request.topK, None)
  BY <1>1, <1>2, <1>3, <1>5, <1>6, OneRanking
<1>8. PICK e \in Stage : Adds(e, s, Candidate, <<>>, request.topK, None)
  BY <1>7
<1> DEFINE stages == Append(<<>>, e)
<1>9. /\ outcome' \in Outcome /\ outcome'.stages = stages
      /\ e.in = N /\ e.out + e.omitted <= e.in /\ e.omitted = 0
      /\ e.by = None \/ e.by <= fallbacks' + 1
      /\ Cardinality(outcome'.entries) <= e.out /\ outcome'.missing = e.omitted
      /\ request.topK = None => Cardinality(outcome'.entries) + e.omitted = N
  BY <1>5, <1>6, <1>8 DEF Adds
<1>10. fallbacks \in Nat /\ fallbacks' \in Nat /\ fallbacks <= fallbacks'
  BY <1>2, <1>7 DEF Stats
<1>11. Sizes(<<>>) /\ Told(<<>>, fallbacks)
  BY DEF Sizes, Told
<1>12. /\ Sizes(stages) /\ Told(stages, fallbacks') /\ Last(stages) = e /\ stages # <<>>
  <2>1. PICK none : none = <<>>
    OBVIOUS
  <2>2. /\ none \in Seq(Stage) /\ Sizes(none) /\ Told(none, fallbacks) /\ stages = Append(none, e)
        /\ e.in = IF none = <<>> THEN N ELSE Last(none).out
    BY <1>6, <1>9, <1>11, <2>1
  <2>3. e.in <= N /\ (e.omitted # 0 => e.kind = "partial")
    BY <1>6, <1>9
  <2>4. /\ Sizes(Append(none, e)) /\ Told(Append(none, e), fallbacks') /\ Last(Append(none, e)) = e
        /\ Append(none, e) # <<>>
    BY <1>9, <1>10, <2>2, <2>3, OneMoreStage
  <2>5. QED
    BY <2>2, <2>4
<1> HIDE DEF stages
<1>13. AccountedFor(outcome)' /\ Whole(outcome)'
  BY <1>1, <1>9, <1>12 DEF AccountedFor, Whole
<1>14. Sound(outcome)'
  BY <1>9, <1>12, <1>13 DEF Sound, Sizes, Told, Outcome, Stage
<1>15. TypeOK'
  BY <1>1, <1>2, <1>7, <1>9 DEF TypeOK, Stats
<1>16. AtHand'
  BY <1>1, <1>14 DEF AtHand, Ranking
<1>17. QED
  BY <1>1, <1>2, <1>15, <1>16, NotAnswered DEF IInv

LEMMA FallbackInputOrderKeeps == ASSUME IInv, FallbackInputOrder PROVE IInv'
<1>1. PICK entries \in Cuts(Candidate, request.topK) :
         outcome' = [entries |-> entries, missing |-> 0, stages |-> <<>>, rankOnly |-> TRUE]
  BY DEF FallbackInputOrder
<1>2. /\ phase = "falling" /\ Charge(NoCall, 1) /\ phase' = "assembling" /\ status' = "fallback"
      /\ UNCHANGED <<request, checkpoint, tried, lastError, error, response>>
  BY DEF FallbackInputOrder, Trying, Adopt, result
<1>3. /\ request \in Requests /\ Stats /\ TypeOK
  BY DEF IInv, TypeOK, Stats
<1>4. request.topK \in Nat \cup {None}
  BY <1>3, RequestFacts
<1>5. entries \in SUBSET Candidate /\ (request.topK = None => Cardinality(entries) = N)
  BY <1>4, CutsAreParts, Counting
<1>6. Stats'
  BY <1>2, <1>3, Charged
<1>7. /\ outcome'.stages = <<>> /\ outcome'.missing = 0 /\ outcome'.entries = entries
      /\ outcome' \in Outcome
  BY <1>1, <1>5 DEF Outcome
<1>8. Cardinality(entries) \in Nat /\ N \in Nat
  BY <1>5, Counting
<1>9. Sizes(outcome.stages)' /\ Told(outcome.stages, fallbacks)' /\ AccountedFor(outcome)'
  BY <1>7 DEF Sizes, Told, AccountedFor
<1>10. Whole(outcome)'
  BY <1>2, <1>5, <1>7, <1>8 DEF Whole
<1>11. Sound(outcome)'
  BY <1>7, <1>9, <1>10 DEF Sound, Outcome
<1>12. TypeOK'
  BY <1>2, <1>3, <1>6, <1>7 DEF TypeOK, Stats
<1>13. AtHand'
  BY <1>2, <1>11 DEF AtHand, Ranking
<1>14. QED
  BY <1>2, <1>3, <1>12, <1>13, NotAnswered DEF IInv

\* The next policy is tried.
LEMMA NextPolicyKeeps ==
    ASSUME IInv, FallbackNotApplicable \/ FallbackFails
    PROVE  IInv'
<1>1. /\ phase = "falling" /\ phase' = "falling" /\ tried <= Len(request.chain) /\ tried' = tried + 1
      /\ lastError' \in BOOLEAN /\ UNCHANGED <<request, outcome, checkpoint, status, error, response>>
      /\ UNCHANGED statistics \/ \E call \in Unscored \cup {NoCall} : Charge(call, 0)
  BY DEF FallbackNotApplicable, FallbackFails, Trying, Fails, result, IInv, TypeOK
<1>2. /\ request \in Requests /\ Stats /\ TypeOK
      /\ checkpoint = None \/ Partway(checkpoint)
  BY <1>1 DEF IInv, AtHand, TypeOK, Stats
<1>3. Stats' /\ fallbacks' >= fallbacks
  <2>1. CASE UNCHANGED statistics
    BY <1>2, <2>1 DEF Stats, statistics
  <2>2. CASE \E call \in Unscored \cup {NoCall} : Charge(call, 0)
    <3>1. PICK call \in Unscored \cup {NoCall} : Charge(call, 0)
      BY <2>2
    <3>2. Stats' /\ fallbacks' >= fallbacks + 0
      BY <1>2, <3>1, Charged
    <3>3. QED
      BY <1>2, <3>2 DEF Stats
  <2>3. QED
    BY <1>1, <2>1, <2>2
<1>4. fallbacks \in Nat /\ fallbacks' \in Nat /\ fallbacks <= fallbacks'
  BY <1>2, <1>3 DEF Stats
<1>5. PICK o : o = checkpoint
  OBVIOUS
<1>6. o = None \/ Partway(o)'
  BY <1>1, <1>2, <1>4, <1>5, StillPartway
<1>7. checkpoint' = None \/ Partway(checkpoint)'
  <2>1. checkpoint' = o
    BY <1>1, <1>5
  <2>2. QED
    BY <1>6, <2>1 DEF Partway, Sound, AccountedFor, Whole
<1>8. tried' \in 1..(Len(request.chain) + 1)
  <2>1. Len(request.chain) \in Nat
    BY <1>2, RequestFacts
  <2>2. QED
    BY <1>1, <1>2, <2>1 DEF TypeOK
<1>9. TypeOK'
  BY <1>1, <1>2, <1>3, <1>8 DEF TypeOK, Stats
<1>10. AtHand'
  BY <1>1, <1>7 DEF AtHand, Ranking
<1>11. QED
  BY <1>1, <1>2, <1>9, <1>10, NotAnswered DEF IInv

(***************************************************************************)
(* The response.                                                            *)
(***************************************************************************)

LEMMA AssembleKeeps == ASSUME IInv, Assemble PROVE IInv'
<1>1. /\ phase = "assembling" /\ phase' = "returned"
      /\ UNCHANGED <<request, outcome, checkpoint, tried, lastError, status, statistics, error>>
  BY DEF Assemble
<1>2. /\ request \in Requests /\ TypeOK /\ Sound(outcome) /\ (status = "ok" => Planned)
  BY <1>1 DEF IInv, AtHand
<1>3. /\ request.topK \in Nat \cup {None} /\ Len(request.plan) \in Nat \ {0}
      /\ DOMAIN request.plan = 1..Len(request.plan)
  BY <1>2, RequestFacts
<1>4. PICK kept \in IF request.threshold THEN SUBSET outcome.entries ELSE {outcome.entries} :
      \E results \in Cuts(kept, request.topK) :
        response' = [status |-> FinalStatus, results |-> results, stages |-> PlanStages(results),
                     shown |-> [i \in DOMAIN PlanStages(results) |-> Shown(PlanStages(results), i)],
                     scored |-> Last(PlanStages(results)).in - outcome.missing,
                     missing |-> outcome.missing,
                     pruned |-> N - Last(PlanStages(results)).in]
  BY DEF Assemble
<1>5. PICK results \in Cuts(kept, request.topK) :
        response' = [status |-> FinalStatus, results |-> results, stages |-> PlanStages(results),
                     shown |-> [i \in DOMAIN PlanStages(results) |-> Shown(PlanStages(results), i)],
                     scored |-> Last(PlanStages(results)).in - outcome.missing,
                     missing |-> outcome.missing,
                     pruned |-> N - Last(PlanStages(results)).in]
  BY <1>4
<1> DEFINE stages == PlanStages(results)
           last == Last(stages)
<1>6. /\ response'.status = FinalStatus /\ response'.results = results
      /\ response'.stages = stages /\ response'.scored = last.in - outcome.missing
      /\ response'.missing = outcome.missing /\ response'.pruned = N - last.in
  BY <1>5
\* The results are among the entries.
<1>7. /\ outcome.entries \in SUBSET Candidate /\ outcome.missing \in Nat /\ outcome.stages \in Seq(Stage)
      /\ Sizes(outcome.stages) /\ Told(outcome.stages, fallbacks) /\ AccountedFor(outcome)
      /\ Whole(outcome) /\ fallbacks \in Nat /\ N \in Nat
  BY <1>2, RankingSizes DEF Sound, Outcome, TypeOK
<1>8. kept \in SUBSET outcome.entries /\ (~request.threshold => kept = outcome.entries)
  OBVIOUS
<1>9. results \in SUBSET kept /\ (request.topK = None => results = kept)
  BY <1>3, <1>7, <1>8, CutsAreParts
<1>10. /\ Cardinality(results) \in Nat /\ Cardinality(outcome.entries) \in Nat
       /\ Cardinality(results) <= Cardinality(outcome.entries) /\ Cardinality(outcome.entries) <= N
  BY <1>7, <1>8, <1>9, Parts, Counting
\* The last stage it shows.
<1>11. CASE outcome.stages = <<>>
  <2>1. /\ Len(stages) = 1 /\ DOMAIN stages = 1..1 /\ last = stages[1] /\ stages # <<>>
        /\ stages[1] = [kind |-> "fabricated", in |-> N, out |-> Cardinality(results),
                        by |-> None, omitted |-> 0]
    BY <1>11 DEF PlanStages, Last
  <2>2. outcome.missing = 0 /\ status # "ok"
    <3>1. Len(outcome.stages) = 0
      BY <1>11
    <3>2. QED
      BY <1>2, <1>3, <1>7, <1>11, <3>1 DEF AccountedFor, Planned
  <2>3. PlanIsChain'
    <3>1. TypeOK'
      BY <1>1, <1>2, <1>6, <1>7, <1>8, <1>9, <2>1, <2>2 DEF TypeOK, statistics
    <3>2. /\ response'.stages[1].in = N /\ Len(response'.stages) = 1
          /\ Cardinality(response'.results) <= Last(response'.stages).out
      BY <1>6, <1>10, <2>1
    <3>3. Head(response'.stages).in = N
      BY <1>6, <2>1, <3>2
    <3>4. QED
      BY <3>1, <3>2, <3>3 DEF PlanIsChain
  <2>4. OkMeansAsPlanned'
    <3>1. response'.status # "ok"
      BY <1>2, <1>6, <2>2 DEF FinalStatus, TypeOK
    <3>2. QED
      BY <3>1 DEF OkMeansAsPlanned
  <2>5. NothingLostSilently'
    <3>1. /\ response'.missing = 0 /\ Last(response'.stages).omitted = 0
          /\ response'.scored = N
      BY <1>6, <1>7, <2>1, <2>2
    <3>2. request.topK = None /\ ~request.threshold /\ OmitsLastOnly => Cardinality(results) = N
      BY <1>7, <1>8, <1>9, <1>10, <2>2 DEF Whole
    <3>3. QED
      BY <1>1, <1>6, <1>7, <1>10, <3>1, <3>2 DEF NothingLostSilently, OmitsLastOnly
  <2>6. QED
    BY <1>1, <1>2, <2>3, <2>4, <2>5 DEF IInv, AtHand, Ranking, PlanIsChain
<1>12. CASE outcome.stages # <<>>
  <2>1. stages = outcome.stages /\ stages \in Seq(Stage) /\ stages # <<>>
    BY <1>7, <1>12 DEF PlanStages
  <2>2. /\ Len(stages) \in Nat \ {0} /\ DOMAIN stages = 1..Len(stages) /\ last = stages[Len(stages)]
        /\ \A i \in 1..Len(stages) : stages[i] \in Stage
    BY <2>1, EmptySeq DEF Last
  <2>3. Len(stages) \in 1..Len(stages) /\ last \in Stage
    BY <2>2
  <2>4. /\ last.in \in Nat /\ last.out \in Nat /\ last.omitted \in Nat
        /\ last.out + last.omitted <= last.in /\ last.in <= N
    BY <1>7, <2>1, <2>2, <2>3 DEF Sizes, Stage
  <2>5. Cardinality(outcome.entries) <= last.out /\ (OmitsLastOnly => outcome.missing = last.omitted)
    BY <1>7, <1>12, <2>1 DEF AccountedFor
  <2> HIDE DEF stages, last
  <2>6. PlanIsChain'
    <3>1. N - last.in \in Nat
      BY <1>7, <2>4
    <3>2. TypeOK'
      BY <1>1, <1>2, <1>6, <1>7, <1>8, <1>9, <3>1 DEF TypeOK, statistics
    <3>3. stages[1].in = N /\ \A i \in 2..Len(stages) : stages[i].in = stages[i - 1].out
      BY <1>7, <2>1 DEF Sizes
    <3>4. Head(response'.stages).in = N
      BY <1>6, <2>1, <3>3
    <3>5. Cardinality(response'.results) <= Last(response'.stages).out
      BY <1>6, <1>10, <2>4, <2>5 DEF last
    <3>6. QED
      BY <1>6, <3>2, <3>3, <3>4, <3>5 DEF PlanIsChain
  <2>7. OkMeansAsPlanned'
    <3> SUFFICES ASSUME response'.status = "ok"
                 PROVE  /\ [i \in DOMAIN stages |-> stages[i].kind]
                              = [i \in DOMAIN request.plan |-> request.plan[i].kind]
                        /\ \A i \in DOMAIN stages :
                              /\ stages[i].by \in {None, 1}
                              /\ OmitsLastOnly => stages[i].omitted = 0
      BY <1>1, <1>6 DEF OkMeansAsPlanned, OmitsLastOnly
    <3>1. outcome.missing = 0 /\ fallbacks = 0 /\ status = "ok"
      BY <1>2, <1>6, <1>7 DEF FinalStatus, TypeOK
    <3>2. /\ Len(stages) = Len(request.plan)
          /\ \A i \in 1..Len(stages) : stages[i].kind = request.plan[i].kind
      BY <1>2, <2>1, <3>1 DEF Planned, Prefix
    <3>3. ASSUME NEW i \in 1..Len(stages) PROVE stages[i].by \in {None, 1}
      <4>1. stages[i].by \in Route \cup {None}
        BY <2>2 DEF Stage
      <4>2. stages[i].by = None \/ stages[i].by <= 1
        BY <1>7, <2>1, <3>1 DEF Told
      <4>3. QED
        BY <4>1, <4>2 DEF Route
    <3>4. ASSUME OmitsLastOnly, NEW i \in 1..Len(stages) PROVE stages[i].omitted = 0
      <4>1. CASE i = Len(stages)
        BY <2>2, <2>5, <3>1, <3>4, <4>1
      <4>2. CASE i # Len(stages)
        <5>1. i \in 1..(Len(request.plan) - 1)
          BY <2>2, <3>2, <4>2
        <5>2. stages[i].kind # "partial"
          BY <3>2, <3>4, <5>1 DEF OmitsLastOnly
        <5>3. QED
          BY <1>7, <2>1, <5>2 DEF Sizes
      <4>3. QED
        BY <4>1, <4>2
    <3>5. QED
      BY <1>3, <2>2, <3>2, <3>3, <3>4
  <2>8. NothingLostSilently'
    <3> SUFFICES ASSUME OmitsLastOnly
                 PROVE  /\ outcome.missing = last.omitted
                        /\ outcome.missing > 0 => FinalStatus = "partial"
                        /\ Cardinality(results) <= last.in - outcome.missing
                        /\ request.topK = None /\ ~request.threshold /\ FinalStatus # "partial"
                              => Cardinality(results) = N
      BY <1>1, <1>6 DEF NothingLostSilently, OmitsLastOnly, last
    <3>1. outcome.missing = last.omitted
      BY <2>5
    <3>2. outcome.missing > 0 => FinalStatus = "partial"
      BY DEF FinalStatus
    <3>3. Cardinality(results) <= last.in - outcome.missing
      BY <1>10, <2>4, <2>5, <3>1
    <3>4. ASSUME request.topK = None, ~request.threshold, FinalStatus # "partial"
          PROVE  Cardinality(results) = N
      <4>1. outcome.missing = 0
        BY <1>7, <3>2, <3>4
      <4>2. results = outcome.entries
        BY <1>8, <1>9, <3>4
      <4>3. QED
        BY <1>7, <1>10, <3>4, <4>1, <4>2 DEF Whole
    <3>5. QED
      BY <3>1, <3>2, <3>3, <3>4
  <2>9. QED
    BY <1>1, <1>2, <2>6, <2>7, <2>8 DEF IInv, AtHand, Ranking, PlanIsChain
<1>13. QED
  BY <1>11, <1>12

(***************************************************************************)
(* The specification.                                                       *)
(***************************************************************************)

LEMMA InitIInv == ASSUME Init PROVE IInv
<1>1. request \in Requests /\ phase = "start"
  BY DEF Init
<1>2. Len(request.chain) \in Nat
  BY <1>1, RequestFacts
<1>3. TypeOK
  <2>1. tried = 1 /\ tried \in 1..(Len(request.chain) + 1)
    BY <1>2 DEF Init
  <2>2. modelRoutes = <<>> /\ modelRoutes \in Seq(Route)
    BY DEF Init
  <2>3. QED
    BY <2>1, <2>2 DEF Init, TypeOK
<1>4. AtHand
  BY DEF Init, AtHand, Ranking
<1>5. PlanIsChain /\ OkMeansAsPlanned /\ NothingLostSilently
  BY <1>1, <1>3 DEF PlanIsChain, OkMeansAsPlanned, NothingLostSilently, Answered
<1>6. QED
  BY <1>1, <1>3, <1>4, <1>5 DEF IInv

LEMMA StartKeeps == ASSUME IInv, Start PROVE IInv'
<1>1. /\ phase = "start" /\ phase' \in {"ranking", "returned"}
      /\ phase' = "returned" => request.topK = 0
      /\ UNCHANGED <<request, outcome, checkpoint, tried, lastError, fallbacks, selected,
                     modelRoutes, error>>
      /\ phase' = "ranking" => UNCHANGED <<status, response>>
      /\ phase' = "returned" => /\ status' = "noop" /\ response'.results = {}
                                /\ response'.missing = 0 /\ response'.pruned = 0
  BY DEF Start, statistics
<1>2. TypeOK'
  BY <1>1 DEF IInv, TypeOK
<1>3. AtHand'
  <2>1. outcome = None /\ status = "ok" /\ checkpoint = None
    BY <1>1 DEF IInv, AtHand, Ranking
  <2>2. QED
    BY <1>1, <2>1 DEF AtHand, Ranking
<1>4. PlanIsChain' /\ OkMeansAsPlanned' /\ NothingLostSilently'
  BY <1>1, <1>2 DEF PlanIsChain, OkMeansAsPlanned, NothingLostSilently, Answered
<1>5. QED
  BY <1>1, <1>2, <1>3, <1>4 DEF IInv

LEMMA RefusePruningKeeps == ASSUME IInv, RefusePruning PROVE IInv'
<1>1. /\ phase = "ranking" /\ phase' = "falling" /\ checkpoint = None
      /\ UNCHANGED <<request, outcome, checkpoint, tried, lastError, status, fallbacks, selected,
                     modelRoutes, error, response>>
  BY DEF RefusePruning, statistics, result, IInv, AtHand, Ranking
<1>2. TypeOK'
  BY <1>1 DEF IInv, TypeOK
<1>3. AtHand'
  BY <1>1 DEF AtHand, Ranking
<1>4. QED
  BY <1>1, <1>2, <1>3, NotAnswered DEF IInv

LEMMA UnchangedKeeps == ASSUME IInv, UNCHANGED vars PROVE IInv'
BY DEF IInv, vars, statistics, result, TypeOK, AtHand, Ranking, Planned, Partway, Sound, AccountedFor,
       Whole, Prefix, Told, Sizes, OmitsLastOnly, PlanIsChain, OkMeansAsPlanned,
       NothingLostSilently, Answered

LEMMA NextKeeps == ASSUME IInv, [Next]_vars PROVE IInv'
<1>1. CASE Start
  BY <1>1, StartKeeps
<1>2. CASE RunStage
  BY <1>2, RunStageKeeps
<1>3. CASE StageFails
  BY <1>3, StageFailsKeeps
<1>4. CASE RefusePruning
  BY <1>4, RefusePruningKeeps
<1>5. CASE RaiseValueError
  BY <1>5, RaiseKeeps DEF RaiseValueError, Raise
<1>6. CASE FallbackStrict
  BY <1>6, RaiseKeeps DEF FallbackStrict
<1>7. CASE FallbackCheckpoint
  BY <1>7, FallbackCheckpointKeeps
<1>8. CASE FallbackNotApplicable \/ FallbackFails
  BY <1>8, NextPolicyKeeps
<1>9. CASE FallbackRanks
  BY <1>9, FallbackRanksKeeps
<1>10. CASE FallbackInputOrder
  BY <1>10, FallbackInputOrderKeeps
<1>11. CASE ChainExhausted
  BY <1>11, RaiseKeeps DEF ChainExhausted
<1>12. CASE Refuse
  BY <1>12, RaiseKeeps DEF Refuse
<1>13. CASE Assemble
  BY <1>13, AssembleKeeps
<1>14. CASE UNCHANGED vars
  BY <1>14, UnchangedKeeps
<1>15. QED
  BY <1>1, <1>2, <1>3, <1>4, <1>5, <1>6, <1>7, <1>8, <1>9, <1>10, <1>11, <1>12, <1>13, <1>14 DEF Next

LEMMA Inductive == Spec => []IInv
BY InitIInv, NextKeeps, PTL DEF Spec

\* The plan of a response is a chain of stages from all eligible candidates to the results,
\* also after a strategy fallback: a checkpoint holds no stage that failed, and a policy
\* that ranks ranks every candidate (_fallback and RerankPipeline.rank).
THEOREM PlansAreChains == Spec => []PlanIsChain
BY Inductive, PTL DEF IInv

\* "ok" is said only of a ranking in which every planned stage ran on the first route and
\* the model answered for every candidate it was asked about (_rerank_impl's final status).
THEOREM OkIsAsPlanned == Spec => []OkMeansAsPlanned
BY Inductive, PTL DEF IInv

\* The missing count of a response is what the model omitted, it makes the response
\* partial, and a response to a request for the full order that is not partial holds every
\* eligible candidate (the counts _assemble makes of the outcome).
THEOREM NothingIsLostSilently == Spec => []NothingLostSilently
BY Inductive, PTL DEF IInv

(***************************************************************************)
(* The lifecycle of a reranker.                                             *)
(***************************************************************************)

\* A task in _active_tasks is in a rerank.
ActiveInside == \A t \in active : depth[t] > 0

\* One call of aclose acts, and it is the one that set _closed.
Acting(k) == closer[k] \notin {"new", "noop"}

OneActs ==
    /\ closed <=> \E k \in Closer : Acting(k)
    /\ \A k, l \in Closer : Acting(k) /\ Acting(l) => k = l

\* That call knows every task in a rerank, but for those it missed.
TasksKnown ==
    /\ ~closed => missed = {}
    /\ closed => \A t \in Task : depth[t] > 0 => t \in pending \cup missed

\* It goes on when the tasks it waits for have ended.
PastDrain == \E k \in Closer : Acting(k) /\ closer[k] # "draining"

Drained ==
    /\ PastDrain => \A t \in pending : Ended(t)
    /\ backend = "closed" => PastDrain

\* It alone stops the worker, and goes on when the worker is gone.
WorkerStops ==
    /\ worker = "stopped" <=> \E k \in Closer : closer[k] = "stopping"
    /\ missed = {} => \A k \in Closer : closer[k] \in {"backend", "returned"} => worker = "none"

\* While the worker runs every event is counted, in the queue or in its hand; once it
\* was stopped, the one in its hand may be lost.
InHand == IF worker = "busy" THEN 1 ELSE 0

Tally ==
    /\ worker \in {"idle", "busy"} => emitted = Accounted + queue + InHand
    /\ worker \in {"none", "stopped"} => emitted - Accounted \in 0..1
    /\ worker = "none" /\ ~PastDrain => emitted = 0 /\ Accounted = 0 /\ queue = 0

LifecycleInv ==
    /\ LifecycleTypeOK /\ ActiveInside /\ OneActs /\ TasksKnown /\ Drained /\ WorkerStops
    /\ missed = {} => Tally

LEMMA InitLifecycle == LifecycleInit => LifecycleInv
<1> SUFFICES ASSUME LifecycleInit PROVE LifecycleInv
  OBVIOUS
<1>1. LifecycleTypeOK
  <2>1. 0 \in 0..MaxNest /\ 0 \in 0..Capacity /\ 0 \in 0..MaxEvents
    BY NestPositive, CapacityPositive, EventsBounded
  <2>2. ObserverTypeOK
    BY <2>1 DEF LifecycleInit, ObserverInit, ObserverTypeOK
  <2>3. \A t \in Task : depth[t] > 0 <=> pc[t] \in {"inside", "calling"}
    BY DEF LifecycleInit
  <2>4. QED
    BY <2>1, <2>2, <2>3 DEF LifecycleInit, LifecycleTypeOK, CloserEnds
<1>2. ActiveInside /\ OneActs /\ TasksKnown /\ Drained
  BY DEF LifecycleInit, ActiveInside, OneActs, Acting, TasksKnown, Drained, PastDrain
<1>3. WorkerStops /\ Tally
  BY DEF LifecycleInit, ObserverInit, WorkerStops, Tally, Accounted, InHand
<1>4. QED
  BY <1>1, <1>2, <1>3 DEF LifecycleInv

(***************************************************************************)
(* The observer's counts.                                                   *)
(***************************************************************************)

\* Accounted reads five of the six counts.
LEMMA TallyKept ==
    ASSUME Tally, UNCHANGED observerVars, PastDrain => PastDrain'
    PROVE  Tally'
BY DEF Tally, Accounted, InHand, observerVars

LEMMA CountsNat ==
    ASSUME ObserverTypeOK
    PROVE  /\ delivered \in Nat /\ errors \in Nat /\ dropped \in Nat /\ Accounted \in Nat
           /\ queue \in Nat /\ emitted \in Nat /\ InHand \in 0..1
BY CapacityPositive, EventsBounded DEF ObserverTypeOK, Accounted, InHand

LEMMA EmitCounts ==
    ASSUME ObserverTypeOK, Tally, Emit, ~PastDrain, worker # "stopped", PastDrain' = PastDrain
    PROVE  Tally'
BY CountsNat, CapacityPositive DEF ObserverTypeOK, Tally, Emit, Accounted, InHand

LEMMA WorkCounts ==
    ASSUME ObserverTypeOK, Tally, Take \/ Handled, PastDrain' = PastDrain
    PROVE  Tally'
BY CountsNat DEF ObserverTypeOK, Tally, Take, Handled, Accounted, InHand

LEMMA StopCounts ==
    ASSUME ObserverTypeOK, Tally, Joined \/ GiveUp
    PROVE  Tally'
BY CountsNat DEF ObserverTypeOK, Tally, Joined, GiveUp, Accounted, InHand

LEMMA StoppedCounts ==
    ASSUME ObserverTypeOK, Tally, Stopped, PastDrain'
    PROVE  Tally'
BY CountsNat DEF ObserverTypeOK, Tally, Stopped, Accounted, InHand

LEMMA ObserverTyped ==
    ASSUME ObserverTypeOK, ObserverNext \/ UNCHANGED observerVars
    PROVE  ObserverTypeOK'
<1>1. CASE Emit
  BY <1>1, CountsNat, CapacityPositive, EventsBounded DEF Emit, ObserverTypeOK
<1>2. CASE Take \/ Handled
  BY <1>2, CountsNat, CapacityPositive DEF Take, Handled, ObserverTypeOK
<1>3. CASE Joined \/ GiveUp \/ Stopped
  BY <1>3, CountsNat DEF Joined, GiveUp, Stopped, ObserverTypeOK
<1>4. CASE UNCHANGED observerVars
  BY <1>4 DEF observerVars, ObserverTypeOK
<1>5. QED
  BY <1>1, <1>2, <1>3, <1>4 DEF ObserverNext

(***************************************************************************)
(* A task's step in rerank, events apart: it may only enter while open, and  *)
(* only a task in a rerank is in active.                                     *)
(***************************************************************************)

LEMMA TaskMoves ==
    ASSUME LifecycleInv, LifecycleTypeOK', NEW t \in Task,
           UNCHANGED <<closed, closer, pending, missed, backend>>, UNCHANGED observerVars,
           \A s \in active' : depth'[s] > 0,
           \A s \in Task : depth'[s] > 0 => depth[s] > 0 \/ ~closed,
           \A s \in Task : Ended(s) => Ended(s)'
    PROVE  LifecycleInv'
<1>1. \A k \in Closer : Acting(k)' = Acting(k)
  BY DEF Acting
<1>2. PastDrain' = PastDrain
  BY <1>1 DEF PastDrain
<1>3. ActiveInside' /\ OneActs'
  BY <1>1 DEF ActiveInside, LifecycleInv, OneActs
<1>4. TasksKnown'
  BY DEF LifecycleInv, TasksKnown
<1>5. Drained'
  BY <1>2 DEF LifecycleInv, Drained, LifecycleTypeOK
<1>6. WorkerStops' /\ (missed' = {} => Tally')
  BY <1>2, TallyKept DEF LifecycleInv, WorkerStops, observerVars
<1>7. QED
  BY <1>3, <1>4, <1>5, <1>6 DEF LifecycleInv

LEMMA TaskPreserves ==
    ASSUME LifecycleInv, NEW t \in Task,
           \/ Call(t) \/ CallBackend(t) \/ BackendReturns(t)
           \/ Leave(t) \/ Abort(t) \/ Survive(t) \/ Cancel(t)
    PROVE  LifecycleInv'
<1>0. /\ UNCHANGED <<closed, closer, pending, missed, backend>> /\ UNCHANGED observerVars
      /\ UNCHANGED <<queue, worker, dropped, errors, delivered, emitted>>
  BY DEF Call, CallBackend, BackendReturns, Leave, Abort, Survive, Cancel, observerVars
<1>1. LifecycleTypeOK'
  <2>1. ObserverTypeOK'
    BY <1>0, ObserverTyped DEF LifecycleInv, LifecycleTypeOK
  <2>2. CASE Call(t)
    BY <1>0, <2>1, <2>2, NestPositive DEF Call, LifecycleInv, LifecycleTypeOK, TaskEnds
  <2>3. CASE CallBackend(t) \/ BackendReturns(t)
    BY <1>0, <2>1, <2>3 DEF CallBackend, BackendReturns, LifecycleInv, LifecycleTypeOK, TaskEnds
  <2>4. CASE Leave(t)
    BY <1>0, <2>1, <2>4, NestPositive DEF Leave, LifecycleInv, LifecycleTypeOK, TaskEnds
  <2>5. CASE Abort(t) \/ Survive(t)
    BY <1>0, <2>1, <2>5, NestPositive DEF Abort, Survive, LifecycleInv, LifecycleTypeOK, TaskEnds
  <2>6. CASE Cancel(t)
    BY <1>0, <2>1, <2>6 DEF Cancel, LifecycleInv, LifecycleTypeOK
  <2>7. QED
    BY <2>2, <2>3, <2>4, <2>5, <2>6
<1>2. ActiveInside'
  BY NestPositive DEF Call, CallBackend, BackendReturns, Leave, Abort, Survive, Cancel,
                      LifecycleInv, LifecycleTypeOK, ActiveInside
<1>3. \A s \in Task : depth'[s] > 0 => depth[s] > 0 \/ ~closed
  BY NestPositive DEF Call, CallBackend, BackendReturns, Leave, Abort, Survive, Cancel,
                      LifecycleInv, LifecycleTypeOK
<1>4. \A s \in Task : Ended(s) => Ended(s)'
  <2>1. pc' = pc \/ \E where \in {"inside", "calling"} \cup TaskEnds :
                        pc' = [pc EXCEPT ![t] = where]
    BY DEF Call, CallBackend, BackendReturns, Leave, Abort, Survive, Cancel, TaskEnds
  <2>2. pc' # pc => pc[t] \in {"new", "inside", "calling"}
    BY DEF Call, CallBackend, BackendReturns, Leave, Abort, Survive, Cancel, LifecycleInv, LifecycleTypeOK
  <2>3. QED
    BY <2>1, <2>2 DEF Ended, LifecycleInv, LifecycleTypeOK, TaskEnds
<1>5. QED
  BY <1>0, <1>1, <1>2, <1>3, <1>4, TaskMoves DEF ActiveInside

LEMMA TracePreserves == ASSUME LifecycleInv, NEW t \in Task, Trace(t) PROVE LifecycleInv'
<1>1. /\ depth[t] > 0 /\ Emit
      /\ UNCHANGED <<pc, depth, active, asked, closed, closer, pending, backend, missed>>
  BY DEF Trace, facadeVars, LifecycleInv, LifecycleTypeOK
<1>2. LifecycleTypeOK'
  BY <1>1, ObserverTyped DEF ObserverNext, LifecycleInv, LifecycleTypeOK
<1>3. PastDrain' = PastDrain
  BY <1>1 DEF PastDrain, Acting
<1>4. ActiveInside' /\ OneActs' /\ TasksKnown'
  BY <1>1 DEF LifecycleInv, ActiveInside, OneActs, Acting, TasksKnown
<1>5. Drained'
  BY <1>1, <1>3 DEF LifecycleInv, Drained, Ended
<1>6. missed = {} => ~PastDrain
  <2> SUFFICES ASSUME missed = {}, PastDrain PROVE FALSE
    OBVIOUS
  <2>1. t \in pending /\ Ended(t)
    BY <1>1 DEF LifecycleInv, PastDrain, OneActs, TasksKnown, Drained
  <2>2. QED
    BY <1>1, <2>1 DEF Ended, LifecycleInv, LifecycleTypeOK, TaskEnds
<1>7. ~PastDrain => worker # "stopped"
  BY DEF LifecycleInv, WorkerStops, PastDrain, Acting
<1>8. WorkerStops'
  <2>1. worker' = "stopped" <=> worker = "stopped"
    BY <1>1 DEF Emit
  <2>2. ASSUME missed = {}, NEW k \in Closer PROVE closer[k] \notin {"backend", "returned"}
    BY <1>6, <2>2 DEF PastDrain, Acting
  <2>3. QED
    BY <1>1, <2>1, <2>2 DEF LifecycleInv, WorkerStops
<1>9. missed' = {} => Tally'
  BY <1>1, <1>3, <1>6, <1>7, EmitCounts DEF LifecycleInv, LifecycleTypeOK
<1>10. QED
  BY <1>2, <1>4, <1>5, <1>8, <1>9 DEF LifecycleInv

(***************************************************************************)
(* aclose.                                                                  *)
(***************************************************************************)

\* The step of the acting call k from one place to a later one.
LEMMA ActingMoves ==
    ASSUME LifecycleInv, NEW k \in Closer, Acting(k), NEW where, where \notin {"new", "noop", "draining"},
           closer' = [closer EXCEPT ![k] = where], closed' = closed
    PROVE  /\ OneActs' /\ PastDrain'
           /\ \A l \in Closer : l # k => closer'[l] \in {"new", "noop"}
           /\ closer'[k] = where
<1>1. \A l \in Closer : l # k => closer[l] \in {"new", "noop"}
  BY DEF LifecycleInv, OneActs, Acting
<1>2. closer'[k] = where /\ \A l \in Closer : l # k => closer'[l] = closer[l]
  BY DEF LifecycleInv, LifecycleTypeOK
<1>3. \A l \in Closer : Acting(l)' = Acting(l)
  BY <1>1, <1>2 DEF Acting
<1>4. QED
  BY <1>1, <1>2, <1>3 DEF LifecycleInv, OneActs, PastDrain, Acting

LEMMA ClosePreserves == ASSUME LifecycleInv, NEW k \in Closer, Close(k) PROVE LifecycleInv'
<1>1. /\ closer[k] = "new" /\ UNCHANGED <<pc, depth, active, backend>>
      /\ UNCHANGED observerVars
      /\ UNCHANGED <<queue, worker, dropped, errors, delivered, emitted>>
  BY DEF Close, observerVars
<1>2. CASE closed
  <2>1. closer' = [closer EXCEPT ![k] = "noop"] /\ UNCHANGED <<asked, closed, pending, missed>>
    BY <1>2 DEF Close
  <2>2. \A l \in Closer : closer'[l] = closer[l] \/ (closer[l] = "new" /\ closer'[l] = "noop")
    BY <1>1, <2>1 DEF LifecycleInv, LifecycleTypeOK
  <2>3. (\A l \in Closer : Acting(l)' = Acting(l)) /\ PastDrain' = PastDrain
    BY <2>2 DEF Acting, PastDrain
  <2>4. LifecycleTypeOK'
    BY <1>1, <2>1 DEF LifecycleInv, LifecycleTypeOK, ObserverTypeOK, CloserEnds
  <2>5. ActiveInside' /\ OneActs' /\ TasksKnown'
    BY <1>1, <2>1, <2>3 DEF LifecycleInv, ActiveInside, OneActs, TasksKnown
  <2>6. Drained'
    BY <1>1, <2>1, <2>3 DEF LifecycleInv, Drained, Ended
  <2>7. WorkerStops'
    BY <1>1, <2>1, <2>2 DEF LifecycleInv, WorkerStops
  <2>8. missed' = {} => Tally'
    BY <1>1, <2>1, <2>3, TallyKept DEF LifecycleInv
  <2>9. QED
    BY <2>4, <2>5, <2>6, <2>7, <2>8 DEF LifecycleInv
<1>3. CASE ~closed
  <2>1. /\ closer' = [closer EXCEPT ![k] = "draining"] /\ closed' = TRUE
        /\ asked' = asked \cup active
        /\ missed' = {t \in Task : depth[t] > 0} \ active /\ pending' = active
    BY <1>3 DEF Close, PendingTasks
  <2>2. /\ \A l \in Closer : ~Acting(l)
        /\ closer'[k] = "draining" /\ \A l \in Closer : l # k => closer'[l] = closer[l]
    BY <1>3, <2>1 DEF LifecycleInv, LifecycleTypeOK, OneActs
  <2>3. ~PastDrain /\ ~PastDrain'
    BY <2>2 DEF PastDrain, Acting
  <2>4. LifecycleTypeOK'
    BY <1>1, <2>1 DEF LifecycleInv, LifecycleTypeOK, ObserverTypeOK
  <2>5. ActiveInside' /\ OneActs' /\ TasksKnown'
    BY <1>1, <2>1, <2>2 DEF LifecycleInv, LifecycleTypeOK, ActiveInside, OneActs, Acting, TasksKnown
  <2>6. Drained'
    BY <1>1, <2>3 DEF LifecycleInv, Drained
  <2>7. WorkerStops'
    BY <1>1, <2>2 DEF LifecycleInv, WorkerStops, Acting
  <2>8. missed' = {} => Tally'
    BY <1>1, <1>3, <2>3, TallyKept DEF LifecycleInv, TasksKnown
  <2>9. QED
    BY <2>4, <2>5, <2>6, <2>7, <2>8 DEF LifecycleInv
<1>4. QED
  BY <1>2, <1>3

\* The acting call goes on past the wait for the tasks, while the tasks stay as they are.
LEMMA CloseMoves ==
    ASSUME LifecycleInv, NEW k \in Closer, Acting(k),
           NEW where \in {"observer", "stopping", "backend", "returned", "cancelled"},
           closer' = [closer EXCEPT ![k] = where],
           UNCHANGED <<pc, depth, active, closed, pending, missed>>,
           asked' \subseteq asked, backend' \in {"open", "closed"},
           ObserverTypeOK', \A t \in pending : Ended(t),
           worker' = "stopped" <=> where = "stopping",
           missed = {} /\ where \in {"backend", "returned"} => worker' = "none",
           missed = {} => Tally'
    PROVE  LifecycleInv'
<1>1. /\ OneActs' /\ PastDrain' /\ closer'[k] = where
      /\ \A l \in Closer : l # k => closer'[l] \in {"new", "noop"}
  BY ActingMoves
<1>2. LifecycleTypeOK'
  BY DEF LifecycleInv, LifecycleTypeOK, CloserEnds
<1>3. ActiveInside' /\ TasksKnown'
  BY DEF LifecycleInv, ActiveInside, TasksKnown
<1>4. Drained'
  BY <1>1 DEF Drained, Ended
<1>5. WorkerStops'
  BY <1>1 DEF WorkerStops
<1>6. QED
  BY <1>1, <1>2, <1>3, <1>4, <1>5 DEF LifecycleInv

LEMMA CloseStepPreserves == ASSUME LifecycleInv, NEW k \in Closer, CloseStep(k) PROVE LifecycleInv'
<1>0. /\ Acting(k) /\ UNCHANGED <<pc, depth, active, closed, pending, missed>>
      /\ asked' \subseteq asked /\ backend' \in {"open", "closed"}
      /\ \A t \in pending : Ended(t)
      /\ closer[k] # "draining" => PastDrain
  <2>1. Acting(k) /\ UNCHANGED <<pc, depth, active, closed, pending, missed>>
    BY DEF CloseStep, DrainDone, StopObserver, ObserverStopped, CloseBackend, AbortClose, Acting
  <2>2. asked' \subseteq asked /\ backend' \in {"open", "closed"}
    BY DEF CloseStep, DrainDone, StopObserver, ObserverStopped, CloseBackend, AbortClose,
           LifecycleInv, LifecycleTypeOK
  <2>3. closer[k] # "draining" => PastDrain
    BY <2>1 DEF PastDrain
  <2>4. \A t \in pending : Ended(t)
    BY <2>3 DEF CloseStep, DrainDone, StopObserver, ObserverStopped, CloseBackend, AbortClose,
                LifecycleInv, Drained
  <2>5. QED
    BY <2>1, <2>2, <2>3, <2>4
<1>1. /\ ObserverTypeOK /\ (missed = {} => Tally)
      /\ closer[k] # "stopping" => worker # "stopped"
  BY <1>0 DEF LifecycleInv, LifecycleTypeOK, WorkerStops, OneActs, Acting
<1>2. PastDrain'
  <2>1. closer'[k] \notin {"new", "noop", "draining"}
    BY DEF CloseStep, DrainDone, StopObserver, ObserverStopped, CloseBackend, AbortClose,
           LifecycleInv, LifecycleTypeOK
  <2>2. QED
    BY <2>1 DEF PastDrain, Acting
<1>3. CASE DrainDone(k)
  <2>1. UNCHANGED observerVars /\ worker' = worker
    BY <1>3 DEF DrainDone, observerVars
  <2>2. PICK where \in {"cancelled", "backend", "observer"} :
           /\ closer' = [closer EXCEPT ![k] = where]
           /\ where = "backend" => worker = "none"
    BY <1>3 DEF DrainDone
  <2>3. worker # "stopped"
    BY <1>1, <1>3 DEF DrainDone
  <2>4. ObserverTypeOK' /\ (missed = {} => Tally')
    BY <1>1, <1>2, <2>1, ObserverTyped, TallyKept
  <2>5. QED
    BY <1>0, <2>1, <2>2, <2>3, <2>4, CloseMoves
<1>4. CASE StopObserver(k)
  <2>1. /\ closer' = [closer EXCEPT ![k] = "stopping"] /\ worker' = "stopped"
        /\ Joined \/ GiveUp
    BY <1>4 DEF StopObserver, Joined, GiveUp
  <2>2. ObserverTypeOK' /\ (missed = {} => Tally')
    BY <1>1, <2>1, ObserverTyped, StopCounts DEF ObserverNext
  <2>3. QED
    BY <1>0, <2>1, <2>2, CloseMoves
<1>5. CASE ObserverStopped(k)
  <2>1. closer' = [closer EXCEPT ![k] = "backend"] /\ worker' = "none" /\ Stopped
    BY <1>5 DEF ObserverStopped, Stopped
  <2>2. ObserverTypeOK' /\ (missed = {} => Tally')
    BY <1>1, <1>2, <2>1, ObserverTyped, StoppedCounts DEF ObserverNext
  <2>3. QED
    BY <1>0, <2>1, <2>2, CloseMoves
<1>6. CASE CloseBackend(k) \/ AbortClose(k)
  <2>1. UNCHANGED observerVars /\ worker' = worker
    BY <1>6 DEF CloseBackend, AbortClose, observerVars
  <2>2. PICK where \in {"returned", "cancelled"} :
           /\ closer' = [closer EXCEPT ![k] = where]
           /\ where = "returned" => closer[k] = "backend"
    BY <1>6 DEF CloseBackend, AbortClose
  <2>3. worker # "stopped" /\ (missed = {} /\ where = "returned" => worker = "none")
    BY <1>1, <1>6, <2>2 DEF CloseBackend, AbortClose, LifecycleInv, WorkerStops
  <2>4. ObserverTypeOK' /\ (missed = {} => Tally')
    BY <1>1, <1>2, <2>1, ObserverTyped, TallyKept
  <2>5. QED
    BY <1>0, <2>1, <2>2, <2>3, <2>4, CloseMoves
<1>7. QED
  BY <1>3, <1>4, <1>5, <1>6 DEF CloseStep

\* Steps that leave the tasks, aclose and the backend where they are.
LEMMA OthersKept ==
    ASSUME LifecycleInv, UNCHANGED <<pc, depth, active, closed, closer, pending, missed, backend>>
    PROVE  ActiveInside' /\ OneActs' /\ TasksKnown' /\ Drained' /\ PastDrain' = PastDrain
<1>1. (\A k \in Closer : Acting(k)' = Acting(k)) /\ PastDrain' = PastDrain
  BY DEF Acting, PastDrain
<1>2. QED
  BY <1>1 DEF LifecycleInv, ActiveInside, OneActs, TasksKnown, Drained, Ended

LEMMA WorkPreserves == ASSUME LifecycleInv, ObserverWorks PROVE LifecycleInv'
<1>1. /\ UNCHANGED <<pc, depth, active, asked, closed, closer, pending, backend, missed>>
      /\ Take \/ Handled
  BY DEF ObserverWorks, facadeVars
<1>2. ObserverTypeOK'
  BY <1>1, ObserverTyped DEF ObserverNext, LifecycleInv, LifecycleTypeOK
<1>3. LifecycleTypeOK'
  BY <1>1, <1>2 DEF LifecycleInv, LifecycleTypeOK
<1>4. WorkerStops'
  <2>1. worker \in {"idle", "busy"} /\ worker' \in {"idle", "busy"}
    BY <1>1 DEF Take, Handled
  <2>2. QED
    BY <1>1, <2>1 DEF LifecycleInv, WorkerStops
<1>5. missed' = {} => Tally'
  BY <1>1, OthersKept, WorkCounts DEF LifecycleInv, LifecycleTypeOK
<1>6. QED
  BY <1>1, <1>3, <1>4, <1>5, OthersKept DEF LifecycleInv

LEMMA AskPreserves ==
    ASSUME LifecycleInv, UNCHANGED lifecycleVars \/ \E k \in Closer : CancelClose(k)
    PROVE  LifecycleInv'
<1>1. /\ UNCHANGED <<pc, depth, active, closed, closer, pending, missed, backend>>
      /\ UNCHANGED observerVars
      /\ UNCHANGED <<queue, worker, dropped, errors, delivered, emitted>>
      /\ asked' \subseteq Task \cup Closer
  BY DEF lifecycleVars, facadeVars, CancelClose, observerVars, LifecycleInv, LifecycleTypeOK
<1>2. LifecycleTypeOK'
  BY <1>1 DEF LifecycleInv, LifecycleTypeOK, ObserverTypeOK
<1>3. WorkerStops'
  BY <1>1 DEF LifecycleInv, WorkerStops
<1>4. missed' = {} => Tally'
  BY <1>1, OthersKept, TallyKept DEF LifecycleInv
<1>5. QED
  BY <1>1, <1>2, <1>3, <1>4, OthersKept DEF LifecycleInv

(***************************************************************************)
(* Theorems.                                                                *)
(***************************************************************************)

\* The inductive invariant behind the theorems: one call of aclose acts, it knows the
\* tasks in a rerank or missed them, and the worker and its counts follow it.
THEOREM LifecycleInductive == LifecycleSpec => []LifecycleInv
<1>1. LifecycleInv /\ [LifecycleNext]_lifecycleVars => LifecycleInv'
  BY TaskPreserves, TracePreserves, ClosePreserves, CloseStepPreserves, WorkPreserves,
     AskPreserves DEF LifecycleNext, TaskStep
<1>2. QED
  BY InitLifecycle, <1>1, PTL DEF LifecycleSpec

\* For any tasks, calls of aclose and nesting: the owned backend is closed only when no
\* task is left in a rerank but one that a nested rerank took out of _active_tasks.
THEOREM BackendIsClosedIdle == LifecycleSpec => []BackendClosedIdle
<1>1. LifecycleInv => BackendClosedIdle
  <2> SUFFICES ASSUME LifecycleInv, backend = "closed", NEW t \in Task, depth[t] > 0, t \notin missed
               PROVE  FALSE
    BY DEF BackendClosedIdle, LifecycleInv, LifecycleTypeOK
  <2>1. t \in pending /\ Ended(t)
    BY DEF LifecycleInv, Drained, PastDrain, OneActs, TasksKnown
  <2>2. QED
    BY <2>1 DEF LifecycleInv, LifecycleTypeOK, Ended, TaskEnds
<1>2. QED
  BY <1>1, LifecycleInductive, PTL

\* When aclose has run to its end knowing every task, no observer worker is left.
THEOREM ObserverIsClosedForGood == LifecycleSpec => []ObserverClosedForGood
<1>1. LifecycleInv => ObserverClosedForGood
  BY DEF LifecycleInv, WorkerStops, ObserverClosedForGood, ClosedAll
<1>2. QED
  BY <1>1, LifecycleInductive, PTL

\* For any queue size: no event is counted twice, and after an aclose that knew every
\* task at most one, which the observer had in hand, is not counted.
THEOREM EventsAreAccounted == LifecycleSpec => []EventsAccounted
<1>1. LifecycleInv => EventsAccounted
  <2> SUFFICES ASSUME LifecycleInv, missed = {}
               PROVE  /\ Accounted <= emitted
                      /\ (\E k \in Closer : closer[k] = "returned") => emitted - Accounted <= 1
    BY DEF EventsAccounted, ClosedAll
  <2>1. /\ worker \in {"idle", "busy"} => emitted = Accounted + queue + InHand
        /\ worker \in {"none", "stopped"} => emitted - Accounted \in 0..1
        /\ worker \in {"none", "idle", "busy", "stopped"}
        /\ (\E k \in Closer : closer[k] = "returned") => worker = "none"
    BY DEF LifecycleInv, Tally, WorkerStops, LifecycleTypeOK, ObserverTypeOK
  <2>2. Accounted \in Nat /\ queue \in Nat /\ emitted \in Nat /\ InHand \in 0..1
    BY CountsNat DEF LifecycleInv, LifecycleTypeOK
  <2>3. QED
    BY <2>1, <2>2
<1>2. QED
  BY <1>1, LifecycleInductive, PTL
=============================================================================
