-------------------------- MODULE ModelStageProofs --------------------------
(***************************************************************************)
(* Theorems about ModelStage for any routes, groups, windows, permits,       *)
(* attempts and cancellations: a route that is left leaves nothing behind,   *)
(* the scores of a stage are of one model, a cancelled stage has none, and   *)
(* the books agree with what the stage did. The stage implements the ledger. *)
(***************************************************************************)
EXTENDS ModelStage, FiniteSetTheorems, TLAPS

Held == {g \in Group : w[g] \in Holding}

PermitsCounted == permits + Cardinality(Held) = MaxConcurrency

\* A reservation is held by an execution of this route that has not ended.
ReservedHeld ==
    \A e \in Exec : phase[e] = "reserved" => e[1] = route /\ w[e[2]] \in {"queued"} \cup Holding

RetriesLeft == \A g \in Group : w[g] = "backoff" => tries[<<route, g>>] < MaxAttempts

UnseenEnded == \A i \in DOMAIN unseen : unseen[i] \in Group /\ w[unseen[i]] \in Ended

\* When the stage may go on, nothing runs.
Settles ==
    /\ gather = "ok" => Undone = {}
    /\ stage \in {"preparing", "ended"} => Undone = {}
    /\ stage = "draining" => gather \in Errors
    /\ outcome # None => stage = "ended"

\* A group that ended well has its response, from this route.
Scored ==
    stage \in {"running", "draining"} =>
        \A g \in Group : w[g] = "ok" => responses[g] \in {route} \X Checkpoint

\* The groups of earlier windows are scored; a group of this window is at work, scored,
\* or has still to be noticed; and when the gather returns it is scored.
WindowsScored ==
    stage = "running" =>
        /\ \A g \in Group : g <= base => w[g] = "ok"
        /\ gather = "open" =>
              \A g \in WindowFrom(base) :
                 w[g] \in Live \cup {"ok"} \/ \E i \in DOMAIN unseen : unseen[i] = g
        /\ gather = "ok" => \A g \in WindowFrom(base) : w[g] = "ok"

\* Where a plain cancellation leaves the stage: over, or with a gather that has raised
\* CancelledError, or with one that will, since all that runs is cancelled.
Stopping ==
    \/ stage = "ended" /\ outcome = "cancelled"
    \/ stage \in {"running", "draining"} /\ gather = "cancelled"
    \/ /\ stage = "running" /\ gather = "open" /\ gatherAsked
       /\ Undone \subseteq asked
       /\ \A i \in DOMAIN unseen : w[unseen[i]] \in {"ok", "cancelled"}

PlainStops == interrupted = "plain" => Stopping

IInv ==
    /\ TypeOK /\ PermitsCounted /\ ReservedHeld /\ RetriesLeft /\ UnseenEnded
    /\ Settles /\ Scored /\ WindowsScored /\ OneModelScores /\ PlainStops

USE DEF Failures, Errors, Ended, Holding, Live

(***************************************************************************)
(* The ledger of the stage.                                                 *)
(***************************************************************************)

LEMMA Sizes ==
    /\ NRoutes \in Nat \ {0} /\ NGroups \in Nat \ {0} /\ Window \in Nat \ {0}
    /\ MaxConcurrency \in Nat \ {0} /\ MaxAttempts \in Nat \ {0}
    /\ Group \subseteq Nat /\ Route \subseteq Nat
BY StageSizes DEF Group, Route

LEMMA AllowanceType ==
    ASSUME NEW est \in Estimates, NEW n \in Nat
    PROVE  L!Allowance(est, n) \in L!Totals
<1>1. est.tokens \in Int /\ L!Priced(est.cost) \in Int
  BY LedgerInputs, NoneIsNew DEF L!Limit, L!Priced
<1>2. est.tokens * n \in Int /\ L!Priced(est.cost) * n \in Int /\ n \in Int
  BY <1>1
<1>3. QED
  BY <1>2 DEF L!Allowance, L!Totals

LEMMA UsageType ==
    ASSUME NEW est \in Estimates, NEW n \in Nat, NEW report \in Reports
    PROVE  L!Usage(est, n, report) \in L!Totals
<1>1. L!Allowance(est, n) \in L!Totals
  BY AllowanceType
<1>2. report.tokens \in Int \cup {None} /\ report.cost \in Int \cup {None}
  BY LedgerInputs DEF L!Limit
<1>3. QED
  BY <1>1, <1>2 DEF L!Allowance, L!Usage, L!Totals

LEMMA TotalsType ==
    ASSUME NEW l \in L!Totals, NEW d \in L!Totals
    PROVE  L!Plus(l, d) \in L!Totals /\ L!Minus(l, d) \in L!Totals
BY DEF L!Totals, L!Plus, L!Minus

\* What a step of one execution does to the phases.
LEMMA LedgerStep ==
    ASSUME L!TypeOK, NEW e \in Exec,
           \/ L!Reserve(e) \/ L!Refuse(e)
           \/ \E n \in Nat : L!SettleFailure(e, n)
           \/ \E n \in Nat, report \in Reports : L!Reconcile(e, n, report)
    PROVE  /\ L!TypeOK'
           /\ \A f \in Exec : f # e => phase'[f] = phase[f]
           /\ L!Reserve(e) \/ phase'[e] # "reserved"
<1> USE DEF L!TypeOK, L!Phase
<1>1. CASE L!Reserve(e)
  <2>1. PICK est \in Estimates :
           /\ ledger' = L!Plus(ledger, L!Allowance(est, MaxAttempts))
           /\ estimate' = [estimate EXCEPT ![e] = est]
           /\ booked' = [booked EXCEPT ![e] = L!Allowance(est, MaxAttempts)]
    BY <1>1 DEF L!Reserve, L!Reserved
  <2>2. L!Allowance(est, MaxAttempts) \in L!Totals
    BY Sizes, AllowanceType
  <2>3. ledger' \in L!Totals
    BY <2>1, <2>2, TotalsType
  <2>4. phase' = [phase EXCEPT ![e] = "reserved"] /\ expired' = expired
    BY <1>1 DEF L!Reserve
  <2>5. QED
    BY <1>1, <2>1, <2>2, <2>3, <2>4
<1>2. CASE L!Refuse(e)
  BY <1>2 DEF L!Refuse
<1>3. CASE \E n \in Nat : L!SettleFailure(e, n)
  <2>1. PICK n \in Nat : L!SettleFailure(e, n)
    BY <1>3
  <2>2. estimate[e] \in Estimates
    BY <2>1 DEF L!SettleFailure
  <2>3. /\ L!Allowance(estimate[e], n) \in L!Totals
        /\ L!Allowance(estimate[e], MaxAttempts) \in L!Totals
    BY <2>2, Sizes, AllowanceType
  <2>4. ledger' \in L!Totals
    BY <2>1, <2>3, TotalsType DEF L!SettleFailure, L!Settled
  <2>5. QED
    BY <2>1, <2>3, <2>4 DEF L!SettleFailure
<1>4. CASE \E n \in Nat, report \in Reports : L!Reconcile(e, n, report)
  <2>1. PICK n \in Nat, report \in Reports : L!Reconcile(e, n, report)
    BY <1>4
  <2>2. estimate[e] \in Estimates
    BY <2>1 DEF L!Reconcile
  <2>3. /\ L!Usage(estimate[e], n, report) \in L!Totals
        /\ L!Allowance(estimate[e], MaxAttempts) \in L!Totals
    BY <2>2, Sizes, AllowanceType, UsageType
  <2>4. ledger' \in L!Totals
    BY <2>1, <2>3, TotalsType DEF L!Reconcile, L!Reconciled
  <2>5. phase' \in [Exec -> L!Phase] /\ phase'[e] # "reserved"
        /\ \A f \in Exec : f # e => phase'[f] = phase[f]
    BY <2>1 DEF L!Reconcile
  <2>6. UNCHANGED <<estimate, expired>>
        /\ booked' = [booked EXCEPT ![e] = L!Usage(estimate[e], n, report)]
    BY <2>1 DEF L!Reconcile
  <2>7. QED
    BY <2>3, <2>4, <2>5, <2>6
<1>5. QED
  BY <1>1, <1>2, <1>3, <1>4

LEMMA HeldFinite ==
    /\ IsFiniteSet(Held) /\ Cardinality(Held) \in Nat
    /\ IsFiniteSet(Held') /\ Cardinality(Held') \in Nat
<1>1. IsFiniteSet(Group)
  BY Sizes, FS_Interval DEF Group
<1>2. Held \subseteq Group /\ Held' \subseteq Group
  BY DEF Held
<1>3. QED
  BY <1>1, <1>2, FS_Subset, FS_CardinalityType

LEMMA InitIInv == Init => IInv
<1> SUFFICES ASSUME Init PROVE IInv
  OBVIOUS
<1>1. L!TypeOK
  <2>1. L!Nothing \in L!Totals
    BY DEF L!Nothing, L!Totals
  <2>2. phase \in [Exec -> L!Phase] /\ \A e \in Exec : phase[e] # "reserved"
    BY DEF Init, L!Init, L!Phase
  <2>3. QED
    BY <2>1, <2>2 DEF Init, L!Init, L!TypeOK
<1>2. TypeOK
  <2>1. 1 \in Route /\ 0 \in 0..(NGroups - 1) /\ 0 \in 0..MaxAttempts
        /\ 0 \in 0..MaxInterrupts /\ MaxConcurrency \in 0..MaxConcurrency /\ 0 \in Nat
    BY Sizes, InterruptsBounded DEF Route
  <2>2. unseen \in Seq(Group)
    BY DEF Init
  <2>3. QED
    BY <1>1, <2>1, <2>2 DEF Init, TypeOK
<1>3. Held = {} /\ Undone = {}
  BY DEF Init, Held, Undone
<1>4. PermitsCounted
  BY <1>3, FS_EmptySet, Sizes DEF Init, PermitsCounted
<1>5. ReservedHeld /\ RetriesLeft /\ UnseenEnded
  BY DEF Init, L!Init, ReservedHeld, RetriesLeft, UnseenEnded
<1>6. Settles /\ Scored /\ WindowsScored /\ OneModelScores /\ PlainStops
  BY <1>3, NoneIsNew DEF Init, Settles, Scored, WindowsScored, OneModelScores, PlainStops
<1>7. QED
  BY <1>2, <1>4, <1>5, <1>6 DEF IInv

(***************************************************************************)
(* One group. Its task goes from one place to another; the permits and the   *)
(* ledger are the action's, the rest is the same for all of them.           *)
(***************************************************************************)

LEMMA GroupMoves ==
    ASSUME IInv, NEW g \in Group, w[g] \in Live, NEW to \in Live \cup Ended,
           w' = [w EXCEPT ![g] = to], UNCHANGED <<parent, future, asked>>,
           TypeOK', PermitsCounted', ReservedHeld', RetriesLeft',
           unseen' = IF to \in Ended /\ gather = "open" THEN Append(unseen, g) ELSE unseen,
           \A h \in Group : h # g => responses'[h] = responses[h],
           to = "ok" => responses'[g] \in {route} \X Checkpoint,
           g \in asked /\ to \in Ended => to = "cancelled"
    PROVE  IInv'
<1>0. /\ UNCHANGED <<stage, route, base, interrupts, interrupted, outcome, gather, gatherAsked>>
      /\ w'[g] = to /\ \A h \in Group : h # g => w'[h] = w[h]
  BY DEF parent, future, IInv, TypeOK
<1>1. g \in Undone /\ gather # "ok" /\ stage \in {"running", "draining"} /\ outcome = None
  BY DEF Undone, IInv, Settles, TypeOK
<1>2. /\ \A i \in DOMAIN unseen : unseen[i] # g
      /\ \A i \in DOMAIN unseen' : \/ i \in DOMAIN unseen /\ unseen'[i] = unseen[i]
                                   \/ unseen'[i] = g /\ to \in Ended
      /\ \A i \in DOMAIN unseen : i \in DOMAIN unseen' /\ unseen'[i] = unseen[i]
      /\ to \in Ended /\ gather = "open" => \E i \in DOMAIN unseen' : unseen'[i] = g
  <2>1. \A i \in DOMAIN unseen : unseen[i] # g
    BY DEF IInv, UnseenEnded
  <2>2. unseen \in Seq(Group)
    BY DEF IInv, TypeOK
  <2>3. CASE to \in Ended /\ gather = "open"
    <3>1. unseen' = Append(unseen, g)
      BY <2>3
    <3>2. /\ DOMAIN unseen = 1..Len(unseen) /\ Len(unseen) \in Nat
          /\ DOMAIN unseen' = 1..Len(unseen) + 1 /\ unseen'[Len(unseen) + 1] = g
          /\ \A i \in 1..Len(unseen) : unseen'[i] = unseen[i]
      BY <2>2, <3>1
    <3>3. QED
      BY <2>1, <2>3, <3>2
  <2>4. CASE ~(to \in Ended /\ gather = "open")
    BY <2>1, <2>4
  <2>5. QED
    BY <2>3, <2>4
<1>3. UnseenEnded'
  BY <1>0, <1>2 DEF IInv, UnseenEnded
<1>4. Settles'
  BY <1>0, <1>1 DEF IInv, Settles
<1>5. Scored'
  BY <1>0 DEF IInv, Scored
<1>6. WindowsScored'
  <2> SUFFICES ASSUME stage = "running" PROVE WindowsScored'
    BY <1>0 DEF WindowsScored
  <2>1. \A h \in Group : h <= base => w'[h] = "ok"
    BY <1>0 DEF IInv, WindowsScored
  <2>2. ASSUME gather = "open", NEW h \in WindowFrom(base)
        PROVE  w'[h] \in Live \cup {"ok"} \/ \E i \in DOMAIN unseen' : unseen'[i] = h
    <3>1. CASE h = g
      BY <1>0, <1>2, <2>2, <3>1
    <3>2. CASE h # g
      <4>1. h \in Group /\ w'[h] = w[h]
        BY <1>0, <3>2 DEF WindowFrom
      <4>2. w[h] \in Live \cup {"ok"} \/ \E i \in DOMAIN unseen : unseen[i] = h
        BY <2>2 DEF IInv, WindowsScored
      <4>3. QED
        BY <1>2, <4>1, <4>2
    <3>3. QED
      BY <3>1, <3>2
  <2>3. WindowFrom(base)' = WindowFrom(base)
    BY <1>0 DEF WindowFrom
  <2>4. QED
    BY <1>0, <1>1, <2>1, <2>2, <2>3 DEF WindowsScored
<1>7. OneModelScores'
  BY <1>0, <1>1, NoneIsNew DEF OneModelScores
<1>8. PlainStops'
  <2>1. CASE gather = "cancelled" \/ interrupted # "plain"
    BY <1>0, <1>1, <2>1 DEF PlainStops, Stopping
  <2>2. CASE gather # "cancelled" /\ interrupted = "plain"
    <3>1. /\ stage = "running" /\ gather = "open" /\ gatherAsked /\ Undone \subseteq asked
          /\ \A i \in DOMAIN unseen : w[unseen[i]] \in {"ok", "cancelled"}
      BY <1>1, <2>2 DEF IInv, PlainStops, Stopping
    <3>2. Undone' \subseteq Undone
      BY <1>0, <1>1 DEF Undone
    <3>3. \A i \in DOMAIN unseen' : w'[unseen'[i]] \in {"ok", "cancelled"}
      BY <1>0, <1>1, <1>2, <3>1 DEF IInv, UnseenEnded
    <3>4. QED
      BY <1>0, <3>1, <3>2, <3>3 DEF PlainStops, Stopping
  <2>3. QED
    BY <2>1, <2>2
<1>9. QED
  BY <1>3, <1>4, <1>5, <1>6, <1>7, <1>8 DEF IInv

(***************************************************************************)
(* The permits under the three ways of a group's move.                      *)
(***************************************************************************)

LEMMA PermitFacts ==
    ASSUME IInv
    PROVE  permits \in Nat /\ permits + Cardinality(Held) = MaxConcurrency
BY Sizes DEF IInv, TypeOK, PermitsCounted

LEMMA PermitKept ==
    ASSUME IInv, Held' = Held, permits' = permits
    PROVE  PermitsCounted' /\ permits' \in 0..MaxConcurrency
BY DEF IInv, TypeOK, PermitsCounted

LEMMA PermitTaken ==
    ASSUME IInv, NEW g \in Group, g \notin Held, Held' = Held \cup {g},
           permits > 0, permits' = permits - 1
    PROVE  PermitsCounted' /\ permits' \in 0..MaxConcurrency
<1>1. Cardinality(Held') = Cardinality(Held) + 1
  BY HeldFinite, FS_AddElement
<1>2. QED
  BY <1>1, HeldFinite, PermitFacts, Sizes DEF PermitsCounted

\* A group that ends gives back the permit it holds, if it holds one.
LEMMA PermitReleased ==
    ASSUME IInv, NEW g \in Group, NEW to \in Ended, w' = [w EXCEPT ![g] = to],
           permits' = Released(g)
    PROVE  PermitsCounted' /\ permits' \in 0..MaxConcurrency
<1>1. Held' = Held \ {g}
  BY DEF Held, IInv, TypeOK
<1>2. CASE w[g] \in Holding
  <2>1. g \in Held /\ permits' = permits + 1
    BY <1>2 DEF Held, Released, IInv, TypeOK
  <2>2. Cardinality(Held') = Cardinality(Held) - 1
    BY <1>1, <2>1, HeldFinite, FS_RemoveElement
  <2>3. QED
    BY <2>1, <2>2, HeldFinite, PermitFacts, Sizes DEF PermitsCounted
<1>3. CASE w[g] \notin Holding
  <2>1. Held' = Held /\ permits' = permits
    BY <1>1, <1>3 DEF Held, Released, IInv, TypeOK
  <2>2. QED
    BY <2>1, PermitKept
<1>4. QED
  BY <1>2, <1>3

(***************************************************************************)
(* The actions of a group.                                                  *)
(***************************************************************************)

LEMMA ExecOf == ASSUME TypeOK, NEW g \in Group PROVE <<route, g>> \in Exec
BY DEF TypeOK, Exec

\* The task of g ends, by whatever action, and its execution with it.
LEMMA EndMoves ==
    ASSUME IInv, NEW g \in Group, w[g] \in Live, NEW how \in Ended, Ends(g, how),
           permits' = Released(g), UNCHANGED <<parent, future, asked, tries>>,
           modelCalls' \in Nat, L!TypeOK',
           \A f \in Exec : f # <<route, g>> => phase'[f] = phase[f],
           phase'[<<route, g>>] # "reserved",
           responses' \in [Group -> {None} \cup (Route \X Checkpoint)],
           \A h \in Group : h # g => responses'[h] = responses[h],
           how = "ok" => responses'[g] \in {route} \X Checkpoint
    PROVE  IInv'
<1> DEFINE to == IF g \in asked THEN "cancelled" ELSE how
<1>1. /\ w' = [w EXCEPT ![g] = to] /\ to \in Ended
      /\ g \in asked => to = "cancelled"
      /\ to = "ok" => how = "ok"
      /\ unseen' = IF to \in Ended /\ gather = "open" THEN Append(unseen, g) ELSE unseen
  BY DEF Ends
<1> HIDE DEF to
<1>2. PermitsCounted' /\ permits' \in 0..MaxConcurrency
  BY <1>1, PermitReleased
<1>3. /\ UNCHANGED <<stage, route, base, interrupts, interrupted, outcome, gather, gatherAsked>>
      /\ w'[g] = to /\ \A h \in Group : h # g => w'[h] = w[h]
  BY <1>1 DEF parent, future, IInv, TypeOK
<1>4. TypeOK'
  <2>1. unseen' \in Seq(Group)
    BY <1>1 DEF IInv, TypeOK
  <2>2. w' \in [Group -> {"idle"} \cup Live \cup Ended]
    BY <1>1 DEF IInv, TypeOK
  <2>3. QED
    BY <1>2, <1>3, <2>1, <2>2 DEF IInv, TypeOK
<1>5. ReservedHeld'
  <2> SUFFICES ASSUME NEW e \in Exec, phase'[e] = "reserved"
               PROVE  e[1] = route /\ w'[e[2]] \in {"queued"} \cup Holding
    BY <1>3 DEF ReservedHeld
  <2>1. e # <<route, g>> /\ phase[e] = "reserved"
    OBVIOUS
  <2>2. e[1] = route /\ w[e[2]] \in {"queued"} \cup Holding
    BY <2>1 DEF IInv, ReservedHeld
  <2>3. e[2] \in Group /\ e = <<e[1], e[2]>>
    BY DEF Exec
  <2>4. QED
    BY <1>3, <2>1, <2>2, <2>3
<1>6. RetriesLeft'
  BY <1>1, <1>3 DEF IInv, RetriesLeft
<1>7. QED
  BY <1>1, <1>2, <1>4, <1>5, <1>6, GroupMoves

\* A failure that settles the reservation with n attempts.
LEMMA FailsPreserves ==
    ASSUME IInv, NEW g \in Group, w[g] \in Live, NEW how \in Ended \ {"ok"}, NEW n \in Nat,
           Fails(g, how, n)
    PROVE  IInv'
<1>1. L!SettleFailure(<<route, g>>, n) /\ L!TypeOK /\ <<route, g>> \in Exec
  BY ExecOf DEF Fails, IInv, TypeOK
<1>2. /\ L!TypeOK'
      /\ \A f \in Exec : f # <<route, g>> => phase'[f] = phase[f]
      /\ phase'[<<route, g>>] # "reserved"
  <2>1. phase[<<route, g>>] = "reserved"
    BY <1>1 DEF L!SettleFailure
  <2>2. ~L!Reserve(<<route, g>>)
    BY <2>1 DEF L!Reserve
  <2>3. QED
    BY <1>1, <2>2, LedgerStep
<1>3. modelCalls' \in Nat
  BY DEF Fails, Counted, IInv, TypeOK
<1>4. responses \in [Group -> {None} \cup (Route \X Checkpoint)]
  BY DEF IInv, TypeOK
<1>5. QED
  BY <1>2, <1>3, <1>4, EndMoves DEF Fails

LEMMA FailingPreserves ==
    ASSUME IInv, NEW g \in Group, CallFails(g) \/ Timeout(g) \/ CallTooLate(g)
    PROVE  IInv'
<1>1. CASE CallFails(g)
  <2>1. PICK n \in {1, tries[<<route, g>>]} : Fails(g, "failed", n)
    BY <1>1 DEF CallFails
  <2>2. n \in Nat
    BY ExecOf, Sizes DEF IInv, TypeOK
  <2>3. QED
    BY <1>1, <2>1, <2>2, FailsPreserves DEF CallFails
<1>2. CASE Timeout(g)
  BY <1>2, FailsPreserves DEF Timeout, Charged
<1>3. CASE CallTooLate(g)
  <2>1. L!SettleFailure(<<route, g>>, 0) /\ L!TypeOK /\ <<route, g>> \in Exec
    BY <1>3, ExecOf DEF CallTooLate, IInv, TypeOK
  <2>2. Fails(g, "stopped", 0)
    <3>1. Released(g) = permits /\ Counted(0) = modelCalls
      BY <1>3, PermitFacts DEF CallTooLate, Released, Counted
    <3>2. QED
      BY <1>3, <3>1 DEF CallTooLate, Fails
  <2>3. QED
    BY <1>3, <2>2, FailsPreserves DEF CallTooLate
<1>4. QED
  BY <1>1, <1>2, <1>3

\* The task ends before anything was reserved for it.
LEMMA UnreservedPreserves ==
    ASSUME IInv, NEW g \in Group, w[g] = "ready", NEW how \in Ended \ {"ok"}, Ends(g, how),
           UNCHANGED <<parent, future, asked, permits, tries, responses, modelCalls>>,
           L!Refuse(<<route, g>>) \/ UNCHANGED budget
    PROVE  IInv'
<1>1. <<route, g>> \in Exec /\ L!TypeOK /\ phase[<<route, g>>] # "reserved"
  <2>1. <<route, g>>[2] = g
    OBVIOUS
  <2>2. QED
    BY <2>1, ExecOf DEF IInv, TypeOK, ReservedHeld
<1>2. /\ L!TypeOK'
      /\ \A f \in Exec : f # <<route, g>> => phase'[f] = phase[f]
      /\ phase'[<<route, g>>] # "reserved"
  <2>1. CASE L!Refuse(<<route, g>>)
    <3>1. phase'[<<route, g>>] = "refused"
      BY <1>1, <2>1 DEF L!Refuse, L!TypeOK
    <3>2. QED
      BY <1>1, <2>1, <3>1, LedgerStep
  <2>2. CASE UNCHANGED budget
    BY <1>1, <2>2 DEF budget, L!TypeOK
  <2>3. QED
    BY <2>1, <2>2
<1>3. permits' = Released(g) /\ modelCalls' \in Nat
  BY DEF Released, IInv, TypeOK
<1>4. responses' \in [Group -> {None} \cup (Route \X Checkpoint)]
  BY DEF IInv, TypeOK
<1>5. QED
  BY <1>2, <1>3, <1>4, EndMoves

LEMMA CancelledPreserves == ASSUME IInv, NEW g \in Group, Cancelled(g) PROVE IInv'
<1>1. CASE w[g] = "ready"
  BY <1>1, UnreservedPreserves DEF Cancelled
<1>2. CASE w[g] # "ready"
  BY <1>2, FailsPreserves DEF Cancelled, Charged
<1>3. QED
  BY <1>1, <1>2

LEMMA RefusedPreserves == ASSUME IInv, NEW g \in Group, Refuse(g) \/ Unfit(g) PROVE IInv'
<1>1. CASE Refuse(g)
  BY <1>1, UnreservedPreserves DEF Refuse
<1>2. CASE Unfit(g)
  BY <1>2, UnreservedPreserves DEF Unfit
<1>3. QED
  BY <1>1, <1>2

LEMMA RespondPreserves == ASSUME IInv, NEW g \in Group, Respond(g) PROVE IInv'
<1> DEFINE e == <<route, g>>
<1>1. /\ w[g] = "calling" /\ permits' = Released(g) /\ UNCHANGED <<parent, future, asked, tries>>
      /\ \E report \in Reports : L!Reconcile(e, tries[e], report)
  BY DEF Respond
<1>2. e \in Exec /\ L!TypeOK /\ tries[e] \in Nat /\ route \in Route
  BY ExecOf DEF IInv, TypeOK
<1>3. /\ L!TypeOK' /\ \A f \in Exec : f # e => phase'[f] = phase[f]
      /\ phase'[e] # "reserved"
  <2>1. phase[e] = "reserved"
    BY <1>1 DEF L!Reconcile
  <2>2. ~L!Reserve(e)
    BY <2>1 DEF L!Reserve
  <2>3. QED
    BY <1>1, <1>2, <2>2, LedgerStep
<1>4. /\ modelCalls' \in Nat
      /\ \E how \in Ended : Ends(g, how) /\ (how = "ok" => responses'[g] \in {route} \X Checkpoint)
      /\ responses' \in [Group -> {None} \cup (Route \X Checkpoint)]
      /\ \A h \in Group : h # g => responses'[h] = responses[h]
  <2>1. modelCalls \in Nat /\ Counted(tries[e]) \in Nat
    BY <1>2 DEF IInv, TypeOK, Counted
  <2>2. responses \in [Group -> {None} \cup (Route \X Checkpoint)]
    BY DEF IInv, TypeOK
  <2>3. CASE Ends(g, "ok")
    <3>1. CASE \E c \in Checkpoint : responses' = [responses EXCEPT ![g] = <<route, c>>]
      <4>1. PICK c \in Checkpoint : responses' = [responses EXCEPT ![g] = <<route, c>>]
        BY <3>1
      <4>2. modelCalls' \in Nat
        BY <2>1 DEF Respond
      <4>3. QED
        BY <1>2, <2>2, <2>3, <4>1, <4>2
    <3>2. CASE ~\E c \in Checkpoint : responses' = [responses EXCEPT ![g] = <<route, c>>]
      BY <2>1, <2>2, <3>2 DEF Respond
    <3>3. QED
      BY <3>1, <3>2
  <2>4. CASE ~Ends(g, "ok")
    BY <2>1, <2>2, <2>4 DEF Respond
  <2>5. QED
    BY <2>3, <2>4
<1> HIDE DEF e
<1>5. QED
  BY <1>1, <1>3, <1>4, EndMoves DEF e

\* A task goes on, and nothing of the stage changes but its own execution.
LEMMA GoesOn ==
    ASSUME IInv, NEW g \in Group, w[g] \in Live, NEW to \in Live, w' = [w EXCEPT ![g] = to],
           UNCHANGED <<parent, future, asked, unseen, responses>>,
           PermitsCounted', permits' \in 0..MaxConcurrency,
           tries' \in [Exec -> 0..MaxAttempts], modelCalls' \in Nat, L!TypeOK',
           ReservedHeld', RetriesLeft'
    PROVE  IInv'
<1>1. TypeOK'
  <2>1. w' \in [Group -> {"idle"} \cup Live \cup Ended]
    BY DEF IInv, TypeOK
  <2>2. QED
    BY <2>1 DEF IInv, TypeOK, parent, future
<1>2. QED
  BY <1>1, GroupMoves

LEMMA AdmitPreserves == ASSUME IInv, NEW g \in Group, Admit(g) PROVE IInv'
<1>1. /\ w[g] = "ready" /\ w' = [w EXCEPT ![g] = "queued"] /\ L!Reserve(<<route, g>>)
      /\ UNCHANGED <<parent, future, asked, unseen, permits, tries, responses, modelCalls>>
      /\ route' = route
  BY DEF Admit, parent
<1>2. L!TypeOK' /\ \A f \in Exec : f # <<route, g>> => phase'[f] = phase[f]
  BY <1>1, ExecOf, LedgerStep DEF IInv, TypeOK
<1>3. w'[g] = "queued" /\ \A h \in Group : h # g => w'[h] = w[h]
  BY <1>1 DEF IInv, TypeOK
<1>4. Held' = Held
  BY <1>1, <1>3 DEF Held
<1>5. ReservedHeld'
  <2> SUFFICES ASSUME NEW e \in Exec, phase'[e] = "reserved"
               PROVE  e[1] = route /\ w'[e[2]] \in {"queued"} \cup Holding
    BY <1>1 DEF ReservedHeld
  <2>1. CASE e = <<route, g>>
    BY <1>3, <2>1
  <2>2. CASE e # <<route, g>>
    BY <1>1, <1>2, <1>3, <2>2 DEF IInv, ReservedHeld, Exec
  <2>3. QED
    BY <2>1, <2>2
<1>6. RetriesLeft'
  BY <1>1, <1>3 DEF IInv, RetriesLeft
<1>7. QED
  BY <1>1, <1>2, <1>4, <1>5, <1>6, PermitKept, GoesOn DEF IInv, TypeOK

LEMMA CallPreserves == ASSUME IInv, NEW g \in Group, Call(g) PROVE IInv'
<1>1. /\ w[g] = "queued" /\ w' = [w EXCEPT ![g] = "calling"]
      /\ permits > 0 /\ permits' = permits - 1 /\ modelCalls' = modelCalls + 1
      /\ tries' = [tries EXCEPT ![<<route, g>>] = 1]
      /\ UNCHANGED <<parent, future, asked, unseen, responses>> /\ UNCHANGED budget
      /\ route' = route /\ phase' = phase
  BY DEF Call, parent, budget
<1>2. w'[g] = "calling" /\ \A h \in Group : h # g => w'[h] = w[h]
  BY <1>1 DEF IInv, TypeOK
<1>3. Held' = Held \cup {g} /\ g \notin Held
  BY <1>1, <1>2 DEF Held
<1>4. PermitsCounted' /\ permits' \in 0..MaxConcurrency
  BY <1>1, <1>3, PermitTaken
<1>5. tries' \in [Exec -> 0..MaxAttempts] /\ modelCalls' \in Nat /\ L!TypeOK'
  <2>1. 1 \in 0..MaxAttempts /\ tries \in [Exec -> 0..MaxAttempts] /\ modelCalls \in Nat
    BY Sizes DEF IInv, TypeOK
  <2>2. tries' \in [Exec -> 0..MaxAttempts]
    BY <1>1, <2>1
  <2>3. L!TypeOK'
    BY <1>1 DEF IInv, TypeOK, budget, L!TypeOK
  <2>4. QED
    BY <1>1, <2>1, <2>2, <2>3
<1>6. ReservedHeld'
  BY <1>1, <1>2 DEF IInv, ReservedHeld, Exec
<1>7. RetriesLeft'
  <2> SUFFICES ASSUME NEW h \in Group, w'[h] = "backoff" PROVE tries'[<<route, h>>] < MaxAttempts
    BY <1>1 DEF RetriesLeft
  <2>1. h # g /\ w[h] = "backoff" /\ <<route, h>> # <<route, g>>
    BY <1>2
  <2>2. tries'[<<route, h>>] = tries[<<route, h>>]
    BY <1>1, <2>1, ExecOf DEF IInv, TypeOK
  <2>3. QED
    BY <2>1, <2>2 DEF IInv, RetriesLeft
<1>8. QED
  BY <1>1, <1>4, <1>5, <1>6, <1>7, GoesOn

LEMMA AttemptPreserves == ASSUME IInv, NEW g \in Group, BackOff(g) \/ Retry(g) PROVE IInv'
<1>1. PICK to \in Holding :
        /\ w[g] \in Holding /\ w' = [w EXCEPT ![g] = to]
        /\ UNCHANGED <<parent, future, asked, unseen, permits, responses, modelCalls>>
        /\ UNCHANGED budget /\ route' = route /\ phase' = phase
        /\ to = "backoff" => tries[<<route, g>>] < MaxAttempts /\ tries' = tries
        /\ to = "calling" => /\ w[g] = "backoff"
                             /\ tries' = [tries EXCEPT ![<<route, g>>] = @ + 1]
  BY DEF BackOff, Retry, parent, budget
<1>2. w'[g] = to /\ \A h \in Group : h # g => w'[h] = w[h]
  BY <1>1 DEF IInv, TypeOK
<1>3. PermitsCounted' /\ permits' \in 0..MaxConcurrency
  <2>1. Held' = Held
    BY <1>1, <1>2 DEF Held
  <2>2. QED
    BY <1>1, <2>1, PermitKept
<1>4. tries' \in [Exec -> 0..MaxAttempts]
  <2>1. w[g] = "backoff" => tries[<<route, g>>] < MaxAttempts
    BY DEF IInv, RetriesLeft
  <2>2. <<route, g>> \in Exec /\ tries \in [Exec -> 0..MaxAttempts]
    BY ExecOf DEF IInv, TypeOK
  <2>3. tries[<<route, g>>] < MaxAttempts => tries[<<route, g>>] + 1 \in 0..MaxAttempts
    BY <2>2, Sizes
  <2>4. QED
    BY <1>1, <2>1, <2>2, <2>3
<1>5. modelCalls' \in Nat /\ L!TypeOK'
  BY <1>1 DEF IInv, TypeOK, budget, L!TypeOK
<1>6. ReservedHeld'
  BY <1>1, <1>2 DEF IInv, ReservedHeld, Exec
<1>7. RetriesLeft'
  <2> SUFFICES ASSUME NEW h \in Group, w'[h] = "backoff" PROVE tries'[<<route, h>>] < MaxAttempts
    BY <1>1 DEF RetriesLeft
  <2>1. CASE h = g
    BY <1>1, <1>2, <2>1
  <2>2. CASE h # g
    <3>1. w[h] = "backoff" /\ <<route, h>> # <<route, g>>
      BY <1>2, <2>2
    <3>2. tries'[<<route, h>>] = tries[<<route, h>>]
      BY <1>1, <3>1, ExecOf DEF IInv, TypeOK
    <3>3. QED
      BY <3>1, <3>2 DEF IInv, RetriesLeft
  <2>3. QED
    BY <2>1, <2>2
<1>8. QED
  BY <1>1, <1>3, <1>4, <1>5, <1>6, <1>7, GoesOn

LEMMA GroupPreserves == ASSUME IInv, NEW g \in Group, GroupStep(g) PROVE IInv'
BY AdmitPreserves, RefusedPreserves, CallPreserves, FailingPreserves, AttemptPreserves,
   CancelledPreserves, RespondPreserves DEF GroupStep

(***************************************************************************)
(* The request's own task. While nothing runs, nothing is held or reserved. *)
(***************************************************************************)

LEMMA NothingRuns ==
    ASSUME IInv, Undone = {}
    PROVE  /\ Held = {} /\ permits = MaxConcurrency
           /\ \A e \in Exec : phase[e] # "reserved"
           /\ \A g \in Group : w[g] \notin Live
<1>1. \A g \in Group : w[g] \notin Live
  BY DEF Undone
<1>2. Held = {}
  BY <1>1 DEF Held
<1>3. permits = MaxConcurrency
  BY <1>2, PermitFacts, FS_EmptySet
<1>4. ASSUME NEW e \in Exec PROVE phase[e] # "reserved"
  <2>1. e[2] \in Group
    BY DEF Exec
  <2>2. QED
    BY <1>1, <2>1 DEF IInv, ReservedHeld
<1>5. QED
  BY <1>1, <1>2, <1>3, <1>4

\* An exception leaves the route while nothing runs.
LEMMA RaisePreserves ==
    ASSUME IInv, Undone = {}, stage # "ended", NEW how \in Errors, Raise(how),
           UNCHANGED <<base, future, workers, budget>>,
           interrupts' \in 0..MaxInterrupts, interrupted' \in {"no", "raced", "plain"},
           interrupted' = "plain" => how = "cancelled"
    PROVE  IInv'
<1>1. /\ UNCHANGED <<gather, gatherAsked, w, asked, unseen, permits, tries, responses, modelCalls,
                     ledger, phase, estimate, booked, expired>>
      /\ outcome = None /\ Undone' = {}
  BY DEF future, workers, budget, Undone, IInv, Settles
<1>2. \/ stage' = "preparing" /\ route' = route + 1 /\ route < NRoutes /\ outcome' = None
         /\ how # "cancelled"
      \/ stage' = "ended" /\ outcome' = how /\ route' = route
  BY <1>1 DEF Raise, Eligible
<1>3. TypeOK'
  <2>1. route' \in Route
    BY <1>2, Sizes DEF Route, IInv, TypeOK
  <2>2. L!TypeOK'
    BY <1>1 DEF IInv, TypeOK, L!TypeOK
  <2>3. QED
    BY <1>1, <1>2, <2>1, <2>2 DEF IInv, TypeOK
<1>4. PermitsCounted' /\ UnseenEnded'
  BY <1>1 DEF IInv, PermitsCounted, Held, UnseenEnded
<1>5. ReservedHeld' /\ RetriesLeft'
  BY <1>1, NothingRuns DEF ReservedHeld, RetriesLeft
<1>6. Settles' /\ Scored' /\ WindowsScored'
  BY <1>1, <1>2, NoneIsNew DEF IInv, Settles, Scored, WindowsScored
<1>7. OneModelScores' /\ PlainStops'
  BY <1>2, NoneIsNew DEF OneModelScores, PlainStops, Stopping
<1>8. QED
  BY <1>3, <1>4, <1>5, <1>6, <1>7 DEF IInv

\* A window is opened while nothing runs.
LEMMA OpenPreserves ==
    ASSUME IInv, Undone = {}, outcome = None, interrupted # "plain",
           NEW first \in 0..(NGroups - 1), Open(first), stage' = "running",
           UNCHANGED <<route, interrupts, interrupted, outcome, permits, tries, modelCalls, budget>>,
           responses' \in [Group -> {None} \cup (Route \X Checkpoint)],
           \A g \in Group : g <= first => w[g] = "ok" /\ responses'[g] \in {route} \X Checkpoint
    PROVE  IInv'
<1>1. /\ base' = first /\ asked' = {} /\ unseen' = <<>> /\ gather' = "open" /\ gatherAsked' = FALSE
      /\ w' = [g \in Group |-> IF g \in WindowFrom(first) THEN "ready"
                               ELSE IF g <= first THEN w[g] ELSE "idle"]
      /\ UNCHANGED <<ledger, phase, estimate, booked, expired>>
  BY DEF Open, budget
<1>2. \A g \in Group : /\ w'[g] \in {"ready", "ok", "idle"}
                       /\ g <= first => w'[g] = "ok"
                       /\ w'[g] = "ok" => g <= first
                       /\ g \in WindowFrom(first) => w'[g] = "ready"
  BY <1>1 DEF WindowFrom
<1>3. TypeOK'
  <2>1. w' \in [Group -> {"idle"} \cup Live \cup Ended] /\ unseen' \in Seq(Group)
    BY <1>1, <1>2
  <2>2. L!TypeOK'
    BY <1>1 DEF IInv, TypeOK, L!TypeOK
  <2>3. QED
    BY <1>1, <2>1, <2>2 DEF IInv, TypeOK
<1>4. PermitsCounted'
  <2>1. Held' = {} /\ Held = {}
    BY <1>2, NothingRuns DEF Held
  <2>2. QED
    BY <2>1 DEF IInv, PermitsCounted
<1>5. ReservedHeld' /\ RetriesLeft' /\ UnseenEnded'
  BY <1>1, <1>2, NothingRuns DEF ReservedHeld, RetriesLeft, UnseenEnded
<1>6. Settles' /\ Scored'
  BY <1>1, <1>2 DEF Settles, Scored
<1>7. WindowsScored'
  BY <1>1, <1>2 DEF WindowsScored, WindowFrom
<1>8. OneModelScores' /\ PlainStops'
  BY NoneIsNew DEF OneModelScores, PlainStops
<1>9. QED
  BY <1>3, <1>4, <1>5, <1>6, <1>7, <1>8 DEF IInv

\* A step of the stage's own control: no group, permit, reservation or response moves.
LEMMA ControlMoves ==
    ASSUME IInv, TypeOK', UNCHANGED <<route, w, permits, tries, responses, phase>>,
           UnseenEnded', Settles', Scored', WindowsScored', OneModelScores', PlainStops'
    PROVE  IInv'
<1>1. PermitsCounted' /\ ReservedHeld' /\ RetriesLeft'
  BY DEF IInv, PermitsCounted, Held, ReservedHeld, RetriesLeft
<1>2. QED
  BY <1>1 DEF IInv

LEMMA BeginPreserves == ASSUME IInv, Begin \/ PrepareFails PROVE IInv'
<1>1. stage = "preparing" /\ Undone = {} /\ outcome = None /\ interrupted # "plain"
  BY DEF Begin, PrepareFails, IInv, Settles, PlainStops, Stopping
<1>2. CASE Begin
  <2>1. 0 \in 0..(NGroups - 1) /\ \A g \in Group : ~(g <= 0)
    BY Sizes DEF Group
  <2>2. responses' \in [Group -> {None} \cup (Route \X Checkpoint)]
    BY <1>2 DEF Begin
  <2>3. QED
    BY <1>1, <1>2, <2>1, <2>2, OpenPreserves DEF Begin
<1>3. CASE PrepareFails
  BY <1>1, <1>3, RaisePreserves DEF PrepareFails, IInv, TypeOK
<1>4. QED
  BY <1>2, <1>3

LEMMA NoticePreserves == ASSUME IInv, Notice PROVE IInv'
<1> DEFINE how == w[Head(unseen)]
           last == Undone = {} /\ Len(unseen) = 1
<1>1. /\ stage = "running" /\ gather = "open" /\ unseen # <<>> /\ unseen' = Tail(unseen)
      /\ gather' = IF how = "ok" /\ ~last THEN "open"
                   ELSE IF how = "ok" /\ gatherAsked THEN "cancelled" ELSE how
      /\ UNCHANGED <<stage, route, base, interrupts, interrupted, outcome, gatherAsked, w, asked,
                     permits, tries, responses, modelCalls, ledger, phase, estimate, booked, expired>>
  BY DEF Notice, parent, budget
<1>2. /\ Len(unseen) \in Nat \ {0} /\ DOMAIN unseen = 1..Len(unseen) /\ Head(unseen) = unseen[1]
      /\ unseen' \in Seq(Group) /\ DOMAIN unseen' = 1..Len(unseen) - 1
      /\ \A i \in 1..Len(unseen) - 1 : unseen'[i] = unseen[i + 1]
  <2>1. unseen \in Seq(Group) /\ unseen # <<>>
    BY <1>1 DEF IInv, TypeOK
  <2>2. QED
    BY <1>1, <2>1
<1>3. how \in Ended
  BY <1>2 DEF IInv, UnseenEnded
<1>4. \A i \in DOMAIN unseen' : \E j \in DOMAIN unseen : unseen'[i] = unseen[j]
  BY <1>2
<1>5. \A j \in DOMAIN unseen : j = 1 \/ \E i \in DOMAIN unseen' : unseen'[i] = unseen[j]
  <2> TAKE j \in DOMAIN unseen
  <2>1. CASE j # 1
    <3>1. j - 1 \in 1..Len(unseen) - 1 /\ unseen'[j - 1] = unseen[j]
      BY <1>2, <2>1
    <3>2. QED
      BY <1>2, <3>1
  <2>2. QED
    BY <2>1
<1>6. gather' \in {"open"} \cup Ended
  BY <1>1, <1>3
<1>7. TypeOK'
  <2>1. L!TypeOK'
    BY <1>1 DEF IInv, TypeOK, L!TypeOK
  <2>2. QED
    BY <1>1, <1>2, <1>6, <2>1 DEF IInv, TypeOK
<1>8. UnseenEnded'
  BY <1>1, <1>4 DEF IInv, UnseenEnded
<1>9. Settles' /\ Scored' /\ OneModelScores'
  <2>1. gather' = "ok" => Undone = {} /\ Undone' = {}
    BY <1>1 DEF Undone
  <2>2. QED
    BY <1>1, <2>1 DEF IInv, Settles, Scored, OneModelScores
<1>10. WindowsScored'
  <2>1. WindowFrom(base)' = WindowFrom(base)
    BY <1>1 DEF WindowFrom
  <2>2. \A g \in WindowFrom(base) : g \in Group
    BY DEF WindowFrom
  <2>3. ASSUME NEW g \in WindowFrom(base)
        PROVE  w[g] \in Live \cup {"ok"} \/ \E j \in DOMAIN unseen : unseen[j] = g
    BY <1>1 DEF IInv, WindowsScored
  <2>4. ASSUME gather' = "open", NEW g \in WindowFrom(base)
        PROVE  w[g] \in Live \cup {"ok"} \/ \E i \in DOMAIN unseen' : unseen'[i] = g
    <3>1. how = "ok"
      BY <1>1, <1>3, <2>4
    <3>2. QED
      BY <1>2, <1>5, <2>3, <3>1
  <2>5. ASSUME gather' = "ok", NEW g \in WindowFrom(base) PROVE w[g] = "ok"
    <3>1. how = "ok" /\ last
      BY <1>1, <2>5
    <3>2. w[g] \notin Live
      BY <2>2, <3>1 DEF Undone
    <3>3. QED
      BY <1>2, <2>3, <3>1, <3>2
  <2>6. \A g \in Group : g <= base => w[g] = "ok"
    BY <1>1 DEF IInv, WindowsScored
  <2>7. QED
    BY <1>1, <2>1, <2>4, <2>5, <2>6 DEF WindowsScored
<1>11. PlainStops'
  <2> SUFFICES ASSUME interrupted = "plain" PROVE Stopping'
    BY <1>1 DEF PlainStops
  <2>1. /\ gatherAsked /\ Undone \subseteq asked
        /\ \A i \in DOMAIN unseen : w[unseen[i]] \in {"ok", "cancelled"}
    BY <1>1 DEF IInv, PlainStops, Stopping
  <2>2. gather' \in {"open", "cancelled"}
    BY <1>1, <1>2, <2>1
  <2>3. \A i \in DOMAIN unseen' : w[unseen'[i]] \in {"ok", "cancelled"}
    BY <1>4, <2>1
  <2>4. Undone' = Undone
    BY <1>1 DEF Undone
  <2>5. QED
    BY <1>1, <2>1, <2>2, <2>3, <2>4 DEF Stopping
<1>12. QED
  BY <1>1, <1>7, <1>8, <1>9, <1>10, <1>11, ControlMoves

LEMMA DrainPreserves == ASSUME IInv, Drain \/ EndDrain PROVE IInv'
<1>1. CASE Drain
  <2>1. /\ stage = "running" /\ gather \in Errors /\ stage' = "draining" /\ asked' = asked \cup Undone
        /\ UNCHANGED <<route, base, interrupts, interrupted, outcome, gather, gatherAsked, w, unseen,
                       permits, tries, responses, modelCalls, ledger, phase, estimate, booked, expired>>
        /\ Undone' = Undone /\ Undone \subseteq Group
    BY <1>1 DEF Drain, future, budget, Undone
  <2>2. TypeOK'
    <3>1. L!TypeOK'
      BY <2>1 DEF IInv, TypeOK, L!TypeOK
    <3>2. QED
      BY <2>1, <3>1 DEF IInv, TypeOK
  <2>3. UnseenEnded' /\ Settles' /\ Scored' /\ WindowsScored' /\ OneModelScores'
    BY <2>1 DEF IInv, UnseenEnded, Settles, Scored, WindowsScored, OneModelScores
  <2>4. PlainStops'
    BY <2>1 DEF IInv, PlainStops, Stopping
  <2>5. QED
    BY <2>1, <2>2, <2>3, <2>4, ControlMoves
<1>2. CASE EndDrain
  <2>1. stage = "draining" /\ Undone = {} /\ gather \in Errors /\ Raise(gather)
    BY <1>2 DEF EndDrain, Drained, IInv, Settles
  <2>2. interrupted = "plain" => gather = "cancelled"
    BY <2>1 DEF IInv, PlainStops, Stopping
  <2>3. QED
    BY <1>2, <2>1, <2>2, RaisePreserves DEF EndDrain, IInv, TypeOK
<1>3. QED
  BY <1>1, <1>2

\* The gather returned: all groups up to the end of the window are scored.
LEMMA WindowDone ==
    ASSUME IInv, stage = "running", gather = "ok"
    PROVE  /\ Undone = {} /\ outcome = None /\ interrupted # "plain"
           /\ \A g \in Group : g <= base + Window =>
                 w[g] = "ok" /\ responses[g] \in {route} \X Checkpoint
<1>1. Undone = {} /\ outcome = None /\ interrupted # "plain"
  BY DEF IInv, Settles, PlainStops, Stopping
<1>2. \A g \in Group : g <= base + Window => g <= base \/ g \in WindowFrom(base)
  BY Sizes DEF WindowFrom, IInv, TypeOK
<1>3. \A g \in Group : g <= base + Window => w[g] = "ok"
  BY <1>2 DEF IInv, WindowsScored
<1>4. QED
  BY <1>1, <1>3 DEF IInv, Scored

LEMMA NextWindowPreserves == ASSUME IInv, NextWindow PROVE IInv'
<1>1. stage = "running" /\ gather = "ok" /\ Open(base + Window) /\ base + Window < NGroups
      /\ UNCHANGED <<stage, route, interrupts, interrupted, outcome,
                     permits, tries, responses, modelCalls, budget>>
  BY DEF NextWindow
<1>2. base + Window \in 0..(NGroups - 1)
  BY <1>1, Sizes DEF IInv, TypeOK
<1>3. responses \in [Group -> {None} \cup (Route \X Checkpoint)]
  BY DEF IInv, TypeOK
<1>4. QED
  BY <1>1, <1>2, <1>3, WindowDone, OpenPreserves

LEMMA CompletePreserves == ASSUME IInv, Complete PROVE IInv'
<1>1. /\ stage = "running" /\ gather = "ok" /\ base + Window >= NGroups
      /\ UNCHANGED <<base, interrupts, interrupted, future, workers, budget>>
  BY DEF Complete
<1>2. CASE ~SameCheckpoint
  BY <1>1, <1>2, WindowDone, RaisePreserves DEF Complete, IInv, TypeOK
<1>3. CASE SameCheckpoint
  <2>1. /\ stage' = "ended" /\ outcome' = "ok" /\ route' = route
        /\ UNCHANGED <<gather, gatherAsked, w, asked, unseen, permits, tries, responses, modelCalls,
                       ledger, phase, estimate, booked, expired, Undone>>
    BY <1>1, <1>3 DEF Complete, future, workers, budget, Undone
  <2>2. \A g \in Group : g <= base + Window
    BY <1>1, Sizes DEF Group, IInv, TypeOK
  <2>3. \A g \in Group : responses[g] \in {route} \X Checkpoint
    BY <1>1, <2>2, WindowDone
  <2>4. OneModelScores'
    <3>1. 1 \in Group
      BY Sizes DEF Group
    <3>2. \A g \in Group : responses[g] = <<route, responses[1][2]>>
      BY <1>3, <2>3, <3>1 DEF SameCheckpoint
    <3>3. responses[1][2] \in Checkpoint
      BY <2>3, <3>1
    <3>4. QED
      BY <2>1, <3>2, <3>3 DEF OneModelScores
  <2>5. TypeOK'
    <3>1. L!TypeOK'
      BY <2>1 DEF IInv, TypeOK, L!TypeOK
    <3>2. QED
      BY <1>1, <2>1, <3>1 DEF IInv, TypeOK
  <2>6. UnseenEnded' /\ Settles' /\ Scored' /\ WindowsScored'
    BY <1>1, <2>1, WindowDone DEF IInv, UnseenEnded, Settles, Scored, WindowsScored
  <2>7. PlainStops'
    BY <1>1, WindowDone DEF PlainStops
  <2>8. QED
    BY <2>1, <2>4, <2>5, <2>6, <2>7, ControlMoves
<1>4. QED
  BY <1>2, <1>3

(***************************************************************************)
(* Cancellations of the request's task, and the clock.                      *)
(***************************************************************************)

LEMMA InterruptPreserves == ASSUME IInv, Interrupt PROVE IInv'
<1>1. /\ Interrupted /\ interrupts' \in 0..MaxInterrupts
      /\ interrupted' \in {"no", "raced", "plain"} /\ stage # "ended"
  BY InterruptsBounded DEF Interrupt, InterruptPreparing, InterruptGather, InterruptResolved,
                           Interrupted, IInv, TypeOK
<1>2. CASE InterruptPreparing
  <2>1. Undone = {}
    BY <1>2 DEF InterruptPreparing, IInv, Settles
  <2>2. QED
    BY <1>1, <1>2, <2>1, RaisePreserves DEF InterruptPreparing
<1>3. CASE InterruptGather
  <2>1. /\ stage = "running" /\ gather = "open" /\ asked' = asked \cup Undone /\ gatherAsked' = TRUE
        /\ UNCHANGED <<stage, route, base, outcome, gather, w, unseen, permits, tries, responses,
                       modelCalls, ledger, phase, estimate, booked, expired, Undone>>
        /\ Undone \subseteq Group
    BY <1>3 DEF InterruptGather, budget, Undone
  <2>2. TypeOK'
    <3>1. L!TypeOK'
      BY <2>1 DEF IInv, TypeOK, L!TypeOK
    <3>2. QED
      BY <1>1, <2>1, <3>1 DEF IInv, TypeOK
  <2>3. UnseenEnded' /\ Settles' /\ Scored' /\ WindowsScored' /\ OneModelScores'
    BY <2>1 DEF IInv, UnseenEnded, Settles, Scored, WindowsScored, WindowFrom, OneModelScores
  <2>4. PlainStops'
    <3> SUFFICES ASSUME interrupted' = "plain" PROVE Stopping'
      BY DEF PlainStops
    <3>1. \A i \in DOMAIN unseen : w[unseen[i]] \in {"ok", "cancelled"}
      <4>1. CASE FailureUnseen
        BY <1>1, <2>1, <4>1 DEF Interrupted, IInv, PlainStops, Stopping
      <4>2. CASE ~FailureUnseen
        BY <2>1, <4>2 DEF FailureUnseen, IInv, UnseenEnded
      <4>3. QED
        BY <4>1, <4>2
    <3>2. QED
      BY <2>1, <3>1 DEF Stopping
  <2>5. QED
    BY <2>1, <2>2, <2>3, <2>4, ControlMoves
<1>4. CASE InterruptResolved
  <2>1. /\ gather' = "cancelled" /\ stage \in {"running", "draining"}
        /\ UNCHANGED <<stage, route, base, outcome, gatherAsked, w, asked, unseen, permits, tries,
                       responses, modelCalls, ledger, phase, estimate, booked, expired, Undone>>
    BY <1>4 DEF InterruptResolved, workers, budget, Undone
  <2>2. TypeOK'
    <3>1. L!TypeOK'
      BY <2>1 DEF IInv, TypeOK, L!TypeOK
    <3>2. QED
      BY <1>1, <2>1, <3>1 DEF IInv, TypeOK
  <2>3. UnseenEnded' /\ Settles' /\ Scored' /\ WindowsScored' /\ OneModelScores'
    BY <2>1 DEF IInv, UnseenEnded, Settles, Scored, WindowsScored, OneModelScores
  <2>4. PlainStops'
    BY <2>1 DEF PlainStops, Stopping
  <2>5. QED
    BY <2>1, <2>2, <2>3, <2>4, ControlMoves
<1>5. QED
  BY <1>2, <1>3, <1>4 DEF Interrupt

LEMMA ClockPreserves == ASSUME IInv, Expire \/ UNCHANGED vars PROVE IInv'
<1>1. /\ UNCHANGED <<stage, route, base, interrupts, interrupted, outcome, gather, gatherAsked, w,
                     asked, unseen, permits, tries, responses, modelCalls, phase, Undone>>
      /\ L!TypeOK'
  <2>1. CASE Expire
    <3>1. /\ UNCHANGED <<stage, route, base, interrupts, interrupted, outcome, gather, gatherAsked,
                         w, asked, unseen, permits, tries, responses, modelCalls>>
          /\ UNCHANGED <<ledger, phase, estimate, booked>> /\ HasDeadline /\ expired' = TRUE
      BY <2>1 DEF Expire, L!Expire, parent, future, workers
    <3>2. Undone' = Undone
      BY <3>1 DEF Undone
    <3>3. L!TypeOK'
      BY <3>1 DEF IInv, TypeOK, L!TypeOK
    <3>4. QED
      BY <3>1, <3>2, <3>3
  <2>2. CASE UNCHANGED vars
    <3>1. UNCHANGED <<stage, route, base, interrupts, interrupted, outcome, gather, gatherAsked,
                      w, asked, unseen, permits, tries, responses, modelCalls,
                      ledger, phase, estimate, booked, expired>>
      BY <2>2 DEF vars, parent, future, workers, budget
    <3>2. Undone' = Undone
      BY <3>1 DEF Undone
    <3>3. L!TypeOK'
      BY <3>1 DEF IInv, TypeOK, L!TypeOK
    <3>4. QED
      BY <3>1, <3>2, <3>3
  <2>3. QED
    BY <2>1, <2>2
<1>2. TypeOK'
  BY <1>1 DEF IInv, TypeOK
<1>3. UnseenEnded' /\ Settles' /\ Scored' /\ WindowsScored' /\ OneModelScores'
  BY <1>1 DEF IInv, UnseenEnded, Settles, Scored, WindowsScored, WindowFrom, OneModelScores
<1>4. PlainStops'
  BY <1>1 DEF IInv, PlainStops, Stopping
<1>5. QED
  BY <1>1, <1>2, <1>3, <1>4, ControlMoves

(***************************************************************************)
(* Theorems.                                                                *)
(***************************************************************************)

\* The inductive invariant behind the theorems: permits and reservations are those of the
\* groups at work, windows are scored in turn, and a plain cancellation stops the stage.
THEOREM Inductive == Spec => []IInv
<1>1. IInv /\ [Next]_vars => IInv'
  BY GroupPreserves, BeginPreserves, NoticePreserves, DrainPreserves, NextWindowPreserves,
     CompletePreserves, InterruptPreserves, ClockPreserves DEF Next, StageStep
<1>2. QED
  BY InitIInv, <1>1, PTL DEF Spec

\* When a route is left, by whatever way and for any sizes, none of its tasks runs, every
\* permit is back and the ledger holds no reservation of it.
THEOREM LeavesNothingBehind == Spec => []NothingLeftBehind
<1>1. IInv => NothingLeftBehind
  BY NothingRuns DEF IInv, Settles, NothingLeftBehind
<1>2. QED
  BY <1>1, Inductive, PTL

\* The scores of a stage come from one route and one model, whatever other routes scored.
THEOREM ScoresOfOneModel == Spec => []OneModelScores
<1>1. IInv => OneModelScores
  BY DEF IInv
<1>2. QED
  BY <1>1, Inductive, PTL

\* A request whose cancellation met no unseen failure returns no scores.
THEOREM PlainInterruptsStop == Spec => []PlainInterruptStops
<1>1. IInv => PlainInterruptStops
  <2> SUFFICES ASSUME IInv, interrupted = "plain" PROVE outcome # "ok"
    BY DEF PlainInterruptStops
  <2>1. CASE stage = "ended" /\ outcome = "cancelled"
    BY <2>1
  <2>2. CASE stage \in {"running", "draining"}
    BY <2>2, NoneIsNew DEF IInv, Settles
  <2>3. QED
    BY <2>1, <2>2 DEF IInv, PlainStops, Stopping
<1>2. QED
  BY <1>1, Inductive, PTL

(***************************************************************************)
(* The books of the stage: what the ledger and the statistics hold for each  *)
(* execution, from its reservation to its settlement.                       *)
(***************************************************************************)

\* The theorems about the ledger, for the ledger of this stage.
Ledger == INSTANCE BudgetLedgerProofs WITH MaxCost <- None, StrictCost <- FALSE

\* A reservation covers all the attempts; what is settled was tried.
Account(e) ==
    /\ booked[e].calls \in Nat
    /\ tries[e] > 0 => booked[e].calls >= 1
    /\ phase[e] = "reserved" => booked[e].calls = MaxAttempts
    /\ phase[e] # "reserved" => booked[e].calls <= tries[e]
    /\ phase[e] = "new" => tries[e] = 0

\* Where the task of a group is says where its execution stands with the ledger.
Place(g) ==
    /\ w[g] \in {"idle", "ready"} => phase[<<route, g>>] = "new"
    /\ w[g] = "queued" => phase[<<route, g>>] = "reserved" /\ tries[<<route, g>>] = 0
    /\ w[g] \in Holding => phase[<<route, g>>] = "reserved" /\ tries[<<route, g>>] >= 1

\* Executions of later routes, and groups of later windows, have not begun.
Ahead ==
    \A e \in Exec : e[1] > route \/ (e[1] = route /\ stage = "preparing") => phase[e] = "new"
Unopened == stage = "running" => \A g \in Group : g > base + Window => w[g] = "idle"

Answered ==
    \A g \in Group : responses[g] # None =>
        LET e == <<responses[g][1], g>>
        IN  phase[e] = "settled" /\ booked[e].calls = tries[e]

\* What the statistics have counted of an execution: its first call when it begins, its
\* retries when it is settled.
Counts == [e \in Exec |-> IF phase[e] = "reserved" THEN (IF tries[e] > 0 THEN 1 ELSE 0)
                          ELSE booked[e].calls]

NoOverrun == \A e \in Exec : phase[e] # "overrun"
StatsCounted == NoOverrun => modelCalls = Ledger!Total(Counts, Exec)

Accounts ==
    /\ \A e \in Exec : Account(e)
    /\ stage \in {"running", "draining"} => \A g \in Group : Place(g)
    /\ Ahead /\ Unopened /\ Answered

Books == Accounts /\ StatsCounted

LEMMA LedgerAssumptions ==
    /\ Ledger!IsFiniteSet(Exec)
    /\ None \notin Int
    /\ MaxAttempts \in Nat \ {0}
    /\ MaxCalls \in Ledger!Limit /\ MaxTokens \in Ledger!Limit /\ None \in Ledger!Limit
    /\ FALSE \in BOOLEAN /\ HasDeadline \in BOOLEAN
    /\ Estimates \subseteq [tokens : Nat \ {0}, cost : Ledger!Limit]
    /\ Reports \subseteq [tokens : Ledger!Limit, cost : Ledger!Limit]
<1>1. IsFiniteSet(Route) /\ IsFiniteSet(Group)
  BY Sizes, FS_Interval DEF Route, Group
<1>2. IsFiniteSet(Exec)
  BY <1>1, FS_Product DEF Exec
<1>3. Ledger!IsFiniteSet(Exec)
  BY <1>2 DEF IsFiniteSet, Ledger!IsFiniteSet
<1>4. QED
  BY <1>3, Sizes, NoneIsNew, LedgerInputs DEF L!Limit, Ledger!Limit

LEMMA Types ==
    ASSUME IInv
    PROVE  /\ tries \in [Exec -> 0..MaxAttempts] /\ modelCalls \in Nat
           /\ phase \in [Exec -> L!Phase] /\ booked \in [Exec -> L!Totals]
           /\ w \in [Group -> {"idle"} \cup Live \cup Ended]
           /\ route \in Route /\ base \in Nat
           /\ responses \in [Group -> {None} \cup (Route \X Checkpoint)]
           /\ \A g \in Group : <<route, g>> \in Exec
BY ExecOf, Sizes DEF IInv, TypeOK, L!TypeOK

\* The calls of an allowance and of a usage are the attempts they are for.
LEMMA AttemptsBooked ==
    ASSUME NEW est, NEW n, NEW report
    PROVE  L!Allowance(est, n).calls = n /\ L!Usage(est, n, report).calls = n
BY DEF L!Allowance, L!Usage

\* A step of one execution, whose task is at work.
LEMMA ExecMoves ==
    ASSUME IInv, Accounts, NEW g \in Group, w[g] \in Live, UNCHANGED <<stage, route, base>>,
           NEW to \in Live \cup Ended, w' = [w EXCEPT ![g] = to],
           \A h \in Group : h # g => responses'[h] = responses[h],
           \A f \in Exec : f # <<route, g>> =>
              phase'[f] = phase[f] /\ booked'[f] = booked[f] /\ tries'[f] = tries[f],
           Account(<<route, g>>)', Place(g)',
           responses'[g] # responses[g] =>
              /\ responses'[g][1] = route /\ phase'[<<route, g>>] = "settled"
              /\ booked'[<<route, g>>].calls = tries'[<<route, g>>]
    PROVE  Accounts'
<1> DEFINE e == <<route, g>>
<1>1. /\ stage \in {"running", "draining"} /\ phase[e] \in {"new", "reserved"} /\ e \in Exec
      /\ w'[g] = to /\ \A h \in Group : h # g => w'[h] = w[h] /\ <<route, h>> # e
  <2>1. g \in Undone
    BY DEF Undone
  <2>2. stage \in {"running", "draining"}
    BY <2>1 DEF IInv, Settles, TypeOK
  <2>3. Place(g)
    BY <2>2 DEF Accounts
  <2>4. QED
    BY <2>2, <2>3, Types DEF Place
<1>2. \A f \in Exec : Account(f)'
  BY DEF Accounts, Account
<1>3. \A h \in Group : Place(h)'
  <2> SUFFICES ASSUME NEW h \in Group, h # g PROVE Place(h)'
    OBVIOUS
  <2>1. Place(h) /\ w'[h] = w[h] /\ <<route, h>> \in Exec /\ <<route, h>> # e
    BY <1>1, Types DEF Accounts
  <2>2. QED
    BY <2>1 DEF Place
<1>4. Ahead'
  <2> SUFFICES ASSUME NEW f \in Exec, f[1] > route PROVE phase'[f] = "new"
    BY <1>1 DEF Ahead
  <2>1. f # e
    <3>1. route \in Nat
      BY Types, Sizes
    <3>2. QED
      BY <3>1
  <2>2. QED
    BY <2>1 DEF Accounts, Ahead
<1>5. Unopened'
  <2> SUFFICES ASSUME stage = "running", NEW h \in Group, h > base + Window PROVE w'[h] = "idle"
    BY DEF Unopened
  <2>1. w[h] = "idle"
    BY DEF Accounts, Unopened
  <2>2. QED
    BY <1>1, <2>1
<1>6. Answered'
  <2> SUFFICES ASSUME NEW h \in Group, responses'[h] # None
               PROVE  /\ phase'[<<responses'[h][1], h>>] = "settled"
                      /\ booked'[<<responses'[h][1], h>>].calls = tries'[<<responses'[h][1], h>>]
    BY DEF Answered
  <2>1. CASE responses'[h] = responses[h]
    <3>1. /\ phase[<<responses[h][1], h>>] = "settled"
          /\ booked[<<responses[h][1], h>>].calls = tries[<<responses[h][1], h>>]
      BY <2>1 DEF Accounts, Answered
    <3>2. <<responses[h][1], h>> \in Exec
      BY <2>1, Types DEF Exec
    <3>3. <<responses[h][1], h>> # e
      BY <1>1, <3>1
    <3>4. QED
      BY <2>1, <3>1, <3>2, <3>3
  <2>2. CASE responses'[h] # responses[h]
    <3>1. h = g
      BY <2>2
    <3>2. QED
      BY <2>2, <3>1
  <2>3. QED
    BY <2>1, <2>2
<1>7. QED
  BY <1>2, <1>3, <1>4, <1>5, <1>6 DEF Accounts

LEMMA CountsType == ASSUME IInv, Accounts PROVE Counts \in [Exec -> Int]
BY Types DEF Accounts, Account, Counts

\* The statistics after a step of one execution.
LEMMA ExecCounted ==
    ASSUME IInv, Accounts, Accounts', StatsCounted, NEW e \in Exec,
           phase[e] # "overrun",
           \A f \in Exec : f # e =>
              phase'[f] = phase[f] /\ booked'[f] = booked[f] /\ tries'[f] = tries[f],
           phase'[e] # "overrun" => modelCalls' = modelCalls - Counts[e] + Counts'[e]
    PROVE  StatsCounted'
<1> SUFFICES ASSUME NoOverrun' PROVE modelCalls' = Ledger!Total(Counts', Exec)
  BY DEF StatsCounted
<1>1. NoOverrun
  BY DEF NoOverrun
<1>2. Counts \in [Exec -> Int]
  BY CountsType
<1>3. Counts' \in [Exec -> Int]
  BY DEF Accounts, Account, Counts
<1>4. \A f \in Exec \ {e} : Counts'[f] = Counts[f]
  BY DEF Counts
<1>5. Ledger!Total(Counts', Exec) = Ledger!Total(Counts, Exec) - Counts[e] + Counts'[e]
  BY <1>2, <1>3, <1>4, LedgerAssumptions, Ledger!TotalUpdated
<1>6. QED
  BY <1>1, <1>5 DEF StatsCounted, NoOverrun

LEMMA AdmitBooks == ASSUME IInv, Books, NEW g \in Group, Admit(g) PROVE Books'
<1> DEFINE e == <<route, g>>
<1>1. /\ w[g] = "ready" /\ w' = [w EXCEPT ![g] = "queued"] /\ L!Reserve(e)
      /\ UNCHANGED <<stage, route, base, responses, tries, modelCalls>>
  BY DEF Admit, parent
<1>2. PICK est \in Estimates : booked' = [booked EXCEPT ![e] = L!Allowance(est, MaxAttempts)]
  BY <1>1 DEF L!Reserve
<1>3. /\ e \in Exec /\ phase[e] = "new" /\ phase'[e] = "reserved" /\ w'[g] = "queued"
      /\ booked'[e] = L!Allowance(est, MaxAttempts)
      /\ \A f \in Exec : f # e => phase'[f] = phase[f] /\ booked'[f] = booked[f]
  BY <1>1, <1>2, Types DEF L!Reserve
<1>4. booked'[e].calls = MaxAttempts /\ tries[e] = 0 /\ booked[e].calls = 0
  BY <1>3, AttemptsBooked DEF Books, Accounts, Account
<1>5. Account(e)' /\ Place(g)'
  BY <1>1, <1>3, <1>4, Sizes DEF Account, Place
<1>6. Accounts'
  BY <1>1, <1>3, <1>5, ExecMoves DEF Books
<1>7. Counts[e] = 0 /\ Counts'[e] = 0
  BY <1>1, <1>3, <1>4 DEF Counts
<1>8. modelCalls' = modelCalls - Counts[e] + Counts'[e]
  BY <1>1, <1>7, Types
<1>9. QED
  BY <1>1, <1>3, <1>6, <1>8, ExecCounted DEF Books

\* The task ends before anything was reserved for it.
LEMMA UnreservedBooks ==
    ASSUME IInv, Books, NEW g \in Group, w[g] = "ready", NEW how \in Ended \ {"ok"}, Ends(g, how),
           UNCHANGED <<parent, future, asked, permits, tries, responses, modelCalls>>,
           L!Refuse(<<route, g>>) \/ UNCHANGED budget
    PROVE  Books'
<1> DEFINE e == <<route, g>>
           to == IF g \in asked THEN "cancelled" ELSE how
<1>1. /\ w' = [w EXCEPT ![g] = to] /\ to \in Ended /\ w'[g] = to
      /\ UNCHANGED <<stage, route, base, booked>>
  BY Types DEF Ends, parent, budget, L!Refuse
<1>2. e \in Exec /\ phase[e] = "new" /\ tries[e] = 0 /\ booked[e].calls = 0
  <2>1. g \in Undone
    BY DEF Undone
  <2>2. stage \in {"running", "draining"}
    BY <2>1 DEF IInv, Settles, TypeOK
  <2>3. phase[e] = "new" /\ e \in Exec
    BY <2>2, Types DEF Books, Accounts, Place
  <2>4. QED
    BY <2>3 DEF Books, Accounts, Account
<1>3. phase'[e] \in {"new", "refused"} /\ \A f \in Exec : f # e => phase'[f] = phase[f]
  BY <1>2, Types DEF L!Refuse, budget
<1> HIDE DEF to
<1>4. Account(e)' /\ Place(g)'
  BY <1>1, <1>2, <1>3 DEF Account, Place
<1>5. Accounts'
  BY <1>1, <1>3, <1>4, ExecMoves DEF Books
<1>6. Counts[e] = 0 /\ Counts'[e] = 0
  BY <1>1, <1>2, <1>3 DEF Counts
<1>7. modelCalls' = modelCalls - Counts[e] + Counts'[e]
  BY <1>6, Types
<1>8. QED
  BY <1>1, <1>2, <1>3, <1>5, <1>7, ExecCounted DEF Books

LEMMA CallBooks == ASSUME IInv, Books, NEW g \in Group, Call(g) PROVE Books'
<1> DEFINE e == <<route, g>>
<1>1. /\ w[g] = "queued" /\ w' = [w EXCEPT ![g] = "calling"] /\ modelCalls' = modelCalls + 1
      /\ tries' = [tries EXCEPT ![e] = 1]
      /\ UNCHANGED <<stage, route, base, responses, phase, booked>>
  BY DEF Call, parent, budget
<1>2. e \in Exec /\ phase[e] = "reserved" /\ tries[e] = 0 /\ booked[e].calls = MaxAttempts
  <2>1. g \in Undone
    BY <1>1 DEF Undone
  <2>2. stage \in {"running", "draining"}
    BY <2>1 DEF IInv, Settles, TypeOK
  <2>3. phase[e] = "reserved" /\ tries[e] = 0 /\ e \in Exec
    BY <1>1, <2>2, Types DEF Books, Accounts, Place
  <2>4. QED
    BY <2>3 DEF Books, Accounts, Account
<1>3. w'[g] = "calling" /\ tries'[e] = 1 /\ \A f \in Exec : f # e => tries'[f] = tries[f]
  BY <1>1, <1>2, Types
<1>4. Account(e)' /\ Place(g)'
  BY <1>1, <1>2, <1>3, Sizes DEF Account, Place
<1>5. Accounts'
  BY <1>1, <1>3, <1>4, ExecMoves DEF Books
<1>6. Counts[e] = 0 /\ Counts'[e] = 1
  BY <1>1, <1>2, <1>3 DEF Counts
<1>7. modelCalls' = modelCalls - Counts[e] + Counts'[e]
  BY <1>1, <1>6, Types
<1>8. QED
  BY <1>1, <1>2, <1>3, <1>5, <1>7, ExecCounted DEF Books

LEMMA AttemptBooks == ASSUME IInv, Books, NEW g \in Group, BackOff(g) \/ Retry(g) PROVE Books'
<1> DEFINE e == <<route, g>>
<1>1. PICK to \in Holding :
        /\ w[g] \in Holding /\ w' = [w EXCEPT ![g] = to]
        /\ UNCHANGED <<stage, route, base, responses, phase, booked, modelCalls>>
        /\ tries' = tries \/ tries' = [tries EXCEPT ![e] = @ + 1]
  BY DEF BackOff, Retry, parent, budget
<1>2. e \in Exec /\ phase[e] = "reserved" /\ tries[e] >= 1 /\ booked[e].calls = MaxAttempts
  <2>1. g \in Undone
    BY <1>1 DEF Undone
  <2>2. stage \in {"running", "draining"}
    BY <2>1 DEF IInv, Settles, TypeOK
  <2>3. phase[e] = "reserved" /\ tries[e] >= 1 /\ e \in Exec
    BY <1>1, <2>2, Types DEF Books, Accounts, Place
  <2>4. QED
    BY <2>3 DEF Books, Accounts, Account
<1>3. /\ w'[g] = to /\ tries[e] \in Nat /\ tries'[e] >= 1
      /\ \A f \in Exec : f # e => tries'[f] = tries[f]
  BY <1>1, <1>2, Types
<1>4. Account(e)' /\ Place(g)'
  BY <1>1, <1>2, <1>3, Sizes DEF Account, Place
<1>5. Accounts'
  BY <1>1, <1>3, <1>4, ExecMoves DEF Books
<1>6. tries'[e] \in Int
  BY <1>1, <1>2, <1>3, Types
<1>7. Counts[e] = 1 /\ Counts'[e] = 1
  BY <1>1, <1>2, <1>3, <1>6 DEF Counts
<1>8. modelCalls' = modelCalls - Counts[e] + Counts'[e]
  BY <1>1, <1>7, Types
<1>9. QED
  BY <1>1, <1>2, <1>3, <1>5, <1>8, ExecCounted DEF Books

\* An execution is settled, or overruns the budget, with n of the attempts it has made.
LEMMA SettleBooks ==
    ASSUME IInv, Books, NEW g \in Group, w[g] \in {"queued"} \cup Holding,
           NEW how \in Ended, Ends(g, how), UNCHANGED <<parent, tries>>,
           NEW n \in Nat, n <= tries[<<route, g>>], w[g] \in Holding => n >= 1,
           NEW done \in {"settled", "overrun"}, phase' = [phase EXCEPT ![<<route, g>>] = done],
           NEW usage, usage.calls = n, booked' = [booked EXCEPT ![<<route, g>>] = usage],
           done = "settled" => modelCalls' = Counted(n),
           \A h \in Group : h # g => responses'[h] = responses[h],
           responses'[g] # responses[g] =>
              responses'[g][1] = route /\ done = "settled" /\ n = tries[<<route, g>>]
    PROVE  Books'
<1> DEFINE e == <<route, g>>
           to == IF g \in asked THEN "cancelled" ELSE how
<1>1. /\ w' = [w EXCEPT ![g] = to] /\ to \in Ended /\ w'[g] = to
      /\ UNCHANGED <<stage, route, base>>
  BY Types DEF Ends, parent
<1> HIDE DEF to
<1>2. /\ e \in Exec /\ phase[e] = "reserved" /\ tries[e] \in Nat
      /\ w[g] = "queued" => tries[e] = 0
      /\ w[g] \in Holding => tries[e] >= 1
  <2>1. g \in Undone
    BY DEF Undone
  <2>2. stage \in {"running", "draining"}
    BY <2>1 DEF IInv, Settles, TypeOK
  <2>3. QED
    BY <2>2, Types DEF Books, Accounts, Place
<1>3. /\ phase'[e] = done /\ booked'[e].calls = n
      /\ \A f \in Exec : f # e => phase'[f] = phase[f] /\ booked'[f] = booked[f]
  BY <1>2, Types
<1>4. Account(e)'
  <2>1. tries'[e] = tries[e]
    OBVIOUS
  <2>2. tries[e] > 0 => n >= 1
    BY <1>2
  <2>3. booked'[e].calls <= tries'[e] /\ (tries'[e] > 0 => booked'[e].calls >= 1)
    BY <1>3, <2>1, <2>2
  <2>4. QED
    BY <1>1, <1>3, <2>3 DEF Account
<1>5. Place(g)'
  BY <1>1 DEF Place
<1>6. Accounts'
  BY <1>1, <1>3, <1>4, <1>5, ExecMoves DEF Books
<1>7. /\ Counts[e] = IF w[g] \in Holding THEN 1 ELSE 0
      /\ Counts'[e] = n
  BY <1>2, <1>3 DEF Counts
<1>8. done = "settled" => modelCalls' = modelCalls - Counts[e] + Counts'[e]
  BY <1>2, <1>7, Types DEF Counted
<1>9. QED
  BY <1>2, <1>3, <1>6, <1>8, ExecCounted DEF Books

\* The task of a group is at work: its execution is this route's, and where Place says.
LEMMA AtWork ==
    ASSUME IInv, Books, NEW g \in Group, w[g] \in Live
    PROVE  /\ stage \in {"running", "draining"} /\ <<route, g>> \in Exec
           /\ tries[<<route, g>>] \in 0..MaxAttempts
           /\ w[g] \in {"queued"} \cup Holding => phase[<<route, g>>] = "reserved"
           /\ w[g] \in Holding => tries[<<route, g>>] >= 1
<1>1. g \in Undone
  BY DEF Undone
<1>2. stage \in {"running", "draining"}
  BY <1>1 DEF IInv, Settles, TypeOK
<1>3. QED
  BY <1>2, Types DEF Books, Accounts, Place

LEMMA FailureBooks ==
    ASSUME IInv, Books, NEW g \in Group, w[g] \in {"queued"} \cup Holding,
           NEW how \in Ended, Ends(g, how), UNCHANGED <<parent, tries, responses>>,
           NEW n \in Nat, n <= tries[<<route, g>>], w[g] \in Holding => n >= 1,
           L!SettleFailure(<<route, g>>, n), modelCalls' = Counted(n)
    PROVE  Books'
<1> DEFINE usage == L!Allowance(estimate[<<route, g>>], n)
<1>1. /\ phase' = [phase EXCEPT ![<<route, g>>] = "settled"]
      /\ booked' = [booked EXCEPT ![<<route, g>>] = usage]
  BY DEF L!SettleFailure
<1>2. usage.calls = n
  BY AttemptsBooked
<1> HIDE DEF usage
<1>3. QED
  BY <1>1, <1>2, SettleBooks

LEMMA FailingBooks ==
    ASSUME IInv, Books, NEW g \in Group, CallFails(g) \/ Timeout(g) \/ CallTooLate(g)
    PROVE  Books'
<1>1. CASE CallFails(g)
  <2>1. PICK n \in {1, tries[<<route, g>>]} : Fails(g, "failed", n)
    BY <1>1 DEF CallFails
  <2>2. n \in Nat /\ n >= 1 /\ n <= tries[<<route, g>>]
    BY <1>1, AtWork DEF CallFails
  <2>3. QED
    BY <1>1, <2>1, <2>2, FailureBooks DEF CallFails, Fails
<1>2. CASE Timeout(g)
  <2>1. w[g] \in Holding /\ Fails(g, "failed", 1) /\ 1 <= tries[<<route, g>>]
    BY <1>2, AtWork DEF Timeout, Charged
  <2>2. QED
    BY <2>1, FailureBooks DEF Fails
<1>3. CASE CallTooLate(g)
  <2>1. w[g] = "queued" /\ 0 <= tries[<<route, g>>] /\ modelCalls' = Counted(0)
    BY <1>3, AtWork DEF CallTooLate, Counted
  <2>2. QED
    BY <1>3, <2>1, FailureBooks DEF CallTooLate
<1>4. QED
  BY <1>1, <1>2, <1>3

LEMMA RefusedBooks == ASSUME IInv, Books, NEW g \in Group, Refuse(g) \/ Unfit(g) PROVE Books'
<1>1. CASE Refuse(g)
  BY <1>1, UnreservedBooks DEF Refuse
<1>2. CASE Unfit(g)
  BY <1>2, UnreservedBooks DEF Unfit
<1>3. QED
  BY <1>1, <1>2

LEMMA CancelledBooks == ASSUME IInv, Books, NEW g \in Group, Cancelled(g) PROVE Books'
<1>1. CASE w[g] = "ready"
  BY <1>1, UnreservedBooks DEF Cancelled
<1>2. CASE w[g] \in {"queued"} \cup Holding
  <2>1. Fails(g, "cancelled", Charged(g))
    BY <1>2 DEF Cancelled
  <2>2. Charged(g) \in Nat /\ Charged(g) <= tries[<<route, g>>] /\ (w[g] \in Holding => Charged(g) >= 1)
    BY <1>2, AtWork DEF Charged
  <2>3. QED
    BY <1>2, <2>1, <2>2, FailureBooks DEF Fails
<1>3. QED
  BY <1>1, <1>2 DEF Cancelled

LEMMA RespondBooks == ASSUME IInv, Books, NEW g \in Group, Respond(g) PROVE Books'
<1> DEFINE e == <<route, g>>
<1>1. w[g] = "calling" /\ e \in Exec /\ tries[e] \in Nat /\ tries[e] >= 1
  BY AtWork DEF Respond
<1>2. PICK report \in Reports : L!Reconcile(e, tries[e], report)
  BY DEF Respond
<1> DEFINE usage == L!Usage(estimate[e], tries[e], report)
           done == IF L!Raises(ledger', estimate[e], report) THEN "overrun" ELSE "settled"
<1>3. /\ phase' = [phase EXCEPT ![e] = done] /\ booked' = [booked EXCEPT ![e] = usage]
      /\ done \in {"settled", "overrun"} /\ usage.calls = tries[e]
  BY <1>2, AttemptsBooked DEF L!Reconcile
<1> HIDE DEF usage, done
<1>4. phase'[e] = done
  BY <1>1, <1>3, Types
<1>5. UNCHANGED <<parent, tries>>
  BY DEF Respond
<1>6. CASE done = "overrun"
  <2>1. Ends(g, "stopped") /\ responses' = responses
    BY <1>4, <1>6 DEF Respond
  <2>2. phase' = [phase EXCEPT ![e] = "overrun"] /\ tries[e] <= tries[e]
    BY <1>1, <1>3, <1>6
  <2>3. QED
    BY <1>1, <1>3, <1>5, <2>1, <2>2, SettleBooks
<1>7. CASE done = "settled"
  <2>1. modelCalls' = Counted(tries[e])
    BY <1>4, <1>7 DEF Respond
  <2>2. PICK how \in {"ok", "failed"} :
           /\ Ends(g, how)
           /\ \/ responses' = responses
              \/ \E c \in Checkpoint : responses' = [responses EXCEPT ![g] = <<route, c>>]
    BY <1>4, <1>7 DEF Respond
  <2>3. /\ \A h \in Group : h # g => responses'[h] = responses[h]
        /\ responses'[g] # responses[g] => responses'[g][1] = route
    BY <2>2, Types
  <2>4. phase' = [phase EXCEPT ![e] = "settled"] /\ tries[e] <= tries[e]
    BY <1>1, <1>3, <1>7
  <2>5. QED
    BY <1>1, <1>3, <1>5, <2>1, <2>2, <2>3, <2>4, SettleBooks
<1>8. QED
  BY <1>3, <1>6, <1>7

LEMMA GroupBooks == ASSUME IInv, Books, NEW g \in Group, GroupStep(g) PROVE Books'
BY AdmitBooks, RefusedBooks, CallBooks, FailingBooks, AttemptBooks, CancelledBooks,
   RespondBooks DEF GroupStep

\* The request's own task leaves the books alone.
LEMMA ControlBooks ==
    ASSUME IInv, Books, Accounts', UNCHANGED <<phase, booked, tries, modelCalls>>
    PROVE  Books'
<1>1. Counts' = Counts
  BY DEF Counts
<1>2. QED
  BY <1>1 DEF Books, StatsCounted, NoOverrun

\* A step of the request's own task that stays on the route and opens no window.
LEMMA StillBooks ==
    ASSUME IInv, Books, UNCHANGED <<route, base, w, tries, responses, modelCalls, phase, booked>>,
           stage' = stage \/ (stage = "running" /\ stage' \in {"draining", "ended"})
    PROVE  Books'
<1>1. (\A e \in Exec : Account(e))' /\ Answered'
  BY DEF Books, Accounts, Account, Answered
<1>2. (stage \in {"running", "draining"} => \A g \in Group : Place(g))'
  BY DEF Books, Accounts, Place
<1>3. Ahead' /\ Unopened'
  BY DEF Books, Accounts, Ahead, Unopened
<1>4. QED
  BY <1>1, <1>2, <1>3, ControlBooks DEF Accounts

\* An exception leaves the route.
LEMMA RaiseBooks ==
    ASSUME IInv, Books, NEW how \in Errors, Raise(how), UNCHANGED <<base, workers, budget>>
    PROVE  Books'
<1>1. /\ UNCHANGED <<w, tries, responses, modelCalls, phase, booked>>
      /\ \/ stage' = "preparing" /\ route' = route + 1
         \/ stage' = "ended" /\ route' = route
  BY DEF Raise, workers, budget
<1>2. (\A e \in Exec : Account(e))' /\ Answered'
  BY <1>1 DEF Books, Accounts, Account, Answered
<1>3. ASSUME NEW e \in Exec, e[1] > route' \/ (e[1] = route' /\ stage' = "preparing")
      PROVE  phase'[e] = "new"
  <2>1. e[1] \in Nat /\ route \in Nat
    BY Types, Sizes DEF Exec
  <2>2. e[1] > route
    BY <1>1, <1>3, <2>1
  <2>3. QED
    BY <1>1, <2>2 DEF Books, Accounts, Ahead
<1>4. Ahead' /\ Unopened'
  BY <1>1, <1>3 DEF Ahead, Unopened
<1>5. QED
  BY <1>1, <1>2, <1>4, ControlBooks DEF Accounts

\* A window is opened for groups whose executions have not begun.
LEMMA OpenBooks ==
    ASSUME IInv, Books, NEW first \in Nat, Open(first), stage' = "running",
           UNCHANGED <<route, tries, modelCalls, budget>>,
           \A g \in Group : IF g <= first THEN w[g] = "ok" ELSE phase[<<route, g>>] = "new",
           Answered'
    PROVE  Books'
<1>1. /\ UNCHANGED <<phase, booked>> /\ base' = first
      /\ \A g \in Group : /\ g <= first => w'[g] = "ok"
                          /\ g > first => phase'[<<route, g>>] = "new"
                          /\ g > first => w'[g] \in {"ready", "idle"}
                          /\ g > first + Window => w'[g] = "idle"
  BY Sizes DEF Open, WindowFrom, budget
<1>2. (\A e \in Exec : Account(e))'
  BY <1>1 DEF Books, Accounts, Account
<1>3. \A g \in Group : Place(g)'
  <2> SUFFICES ASSUME NEW g \in Group PROVE Place(g)'
    OBVIOUS
  <2>1. CASE g <= first
    BY <1>1, <2>1 DEF Place
  <2>2. CASE g > first
    BY <1>1, <2>2 DEF Place
  <2>3. QED
    BY <2>1, <2>2, Sizes
<1>4. Ahead'
  BY <1>1 DEF Books, Accounts, Ahead
<1>5. Unopened'
  BY <1>1 DEF Unopened
<1>6. QED
  BY <1>1, <1>2, <1>3, <1>4, <1>5, ControlBooks DEF Accounts

LEMMA WindowBooks == ASSUME IInv, Books, Begin \/ NextWindow PROVE Books'
<1>1. CASE Begin
  <2>1. ASSUME NEW g \in Group PROVE ~(g <= 0) /\ phase[<<route, g>>] = "new"
    <3>1. <<route, g>> \in Exec /\ stage = "preparing" /\ g \in 1..NGroups
      BY <1>1, Types DEF Begin, Group
    <3>2. QED
      BY <3>1 DEF Books, Accounts, Ahead
  <2>2. Answered'
    BY <1>1 DEF Begin, Answered
  <2>3. Open(0) /\ stage' = "running" /\ UNCHANGED <<route, tries, modelCalls, budget>>
    BY <1>1 DEF Begin
  <2>4. QED
    BY <2>1, <2>2, <2>3, OpenBooks
<1>2. CASE NextWindow
  <2>1. /\ stage = "running" /\ gather = "ok" /\ Open(base + Window)
        /\ UNCHANGED <<stage, route, responses, tries, modelCalls, budget, phase, booked>>
    BY <1>2 DEF NextWindow, budget
  <2>2. base + Window \in Nat
    BY Types, Sizes
  <2>3. ASSUME NEW g \in Group
        PROVE  IF g <= base + Window THEN w[g] = "ok" ELSE phase[<<route, g>>] = "new"
    <3>1. CASE g <= base + Window
      BY <2>1, <3>1, WindowDone
    <3>2. CASE g > base + Window
      <4>1. w[g] = "idle" /\ Place(g)
        BY <2>1, <3>2 DEF Books, Accounts, Unopened
      <4>2. ~(g <= base + Window)
        BY <2>2, <3>2, Sizes
      <4>3. QED
        BY <4>1, <4>2 DEF Place
    <3>3. QED
      BY <2>2, <3>1, <3>2, Sizes
  <2>4. Answered'
    BY <2>1 DEF Books, Accounts, Answered
  <2>5. QED
    BY <2>1, <2>2, <2>3, <2>4, OpenBooks
<1>3. QED
  BY <1>1, <1>2

LEMMA StageBooks == ASSUME IInv, Books, StageStep \/ Interrupt PROVE Books'
<1>1. CASE PrepareFails
  BY <1>1, RaiseBooks DEF PrepareFails
<1>2. CASE EndDrain
  <2>1. gather \in Errors /\ Raise(gather)
    BY <1>2 DEF EndDrain, IInv, Settles
  <2>2. QED
    BY <1>2, <2>1, RaiseBooks DEF EndDrain
<1>3. CASE Complete
  <2>1. CASE SameCheckpoint
    <3>1. /\ stage = "running" /\ stage' = "ended"
          /\ UNCHANGED <<route, base, w, tries, responses, modelCalls, phase, booked>>
      BY <1>3, <2>1 DEF Complete, workers, budget
    <3>2. QED
      BY <3>1, StillBooks
  <2>2. CASE ~SameCheckpoint
    BY <1>3, <2>2, RaiseBooks DEF Complete
  <2>3. QED
    BY <2>1, <2>2
<1>4. CASE Notice \/ Drain
  <2>1. /\ UNCHANGED <<route, base, w, tries, responses, modelCalls, phase, booked>>
        /\ stage' = stage \/ (stage = "running" /\ stage' = "draining")
    BY <1>4 DEF Notice, Drain, parent, budget
  <2>2. QED
    BY <2>1, StillBooks
<1>5. CASE InterruptPreparing
  BY <1>5, RaiseBooks DEF InterruptPreparing
<1>6. CASE InterruptGather \/ InterruptResolved
  <2>1. UNCHANGED <<stage, route, base, w, tries, responses, modelCalls, phase, booked>>
    BY <1>6 DEF InterruptGather, InterruptResolved, workers, budget
  <2>2. QED
    BY <2>1, StillBooks
<1>7. QED
  BY <1>1, <1>2, <1>3, <1>4, <1>5, <1>6, WindowBooks DEF StageStep, Interrupt

LEMMA ClockBooks == ASSUME IInv, Books, Expire \/ UNCHANGED vars PROVE Books'
<1>1. UNCHANGED <<stage, route, base, w, tries, responses, modelCalls, phase, booked>>
  BY DEF Expire, L!Expire, vars, parent, workers, budget
<1>2. QED
  BY <1>1, StillBooks

LEMMA InitBooks == Init => Books
<1> SUFFICES ASSUME Init PROVE Books
  OBVIOUS
<1>1. /\ \A e \in Exec : phase[e] = "new" /\ tries[e] = 0 /\ booked[e].calls = 0
      /\ stage = "preparing" /\ modelCalls = 0 /\ \A g \in Group : responses[g] = None
  BY DEF Init, L!Init, L!Nothing
<1>2. Accounts
  BY <1>1 DEF Accounts, Account, Ahead, Unopened, Answered
<1>3. Counts \in [Exec -> Int] /\ \A e \in Exec : Counts[e] = 0
  BY <1>1 DEF Counts
<1>4. Ledger!Total(Counts, Exec) = 0
  BY <1>3, LedgerAssumptions, Ledger!TotalOfZeros
<1>5. QED
  BY <1>1, <1>2, <1>4 DEF Books, StatsCounted

\* The inductive invariant of the books, over that of the stage.
LEMMA BooksHold == Spec => [](IInv /\ Books)
<1>1. IInv /\ Books /\ [Next]_vars => IInv' /\ Books'
  BY GroupBooks, StageBooks, ClockBooks, GroupPreserves, BeginPreserves, NoticePreserves,
     DrainPreserves, NextWindowPreserves, CompletePreserves, InterruptPreserves, ClockPreserves
     DEF Next, StageStep
<1>2. QED
  BY InitIInv, InitBooks, <1>1, PTL DEF Spec

(***************************************************************************)
(* The stage uses the ledger as its specification allows: what is proved of  *)
(* the ledger holds of the stage's.                                         *)
(***************************************************************************)

\* Every step of the stage is one step of the ledger, or leaves it alone.
LEMMA LedgerSteps == ASSUME IInv, Books, [Next]_vars PROVE [L!Next]_L!vars
<1>1. ASSUME NEW g \in Group, Admit(g) \/ L!Refuse(<<route, g>>) PROVE L!Next
  BY <1>1, Types DEF Admit, L!Next
<1>2. ASSUME NEW g \in Group, w[g] \in Live, NEW n \in Nat, n <= MaxAttempts,
             L!SettleFailure(<<route, g>>, n)
      PROVE  L!Next
  <2>1. n \in 0..MaxAttempts
    BY <1>2, Sizes
  <2>2. QED
    BY <1>2, <2>1, Types DEF L!Next
<1>3. ASSUME NEW g \in Group, Respond(g) PROVE L!Next
  <2>1. PICK report \in Reports : L!Reconcile(<<route, g>>, tries[<<route, g>>], report)
    BY <1>3 DEF Respond
  <2>2. tries[<<route, g>>] \in 1..MaxAttempts
    BY <1>3, AtWork, Sizes DEF Respond
  <2>3. QED
    BY <2>1, <2>2, Types DEF L!Next
<1>4. ASSUME NEW g \in Group, CallFails(g) \/ Timeout(g) \/ CallTooLate(g) PROVE L!Next
  <2>1. w[g] \in Live /\ tries[<<route, g>>] \in 0..MaxAttempts
    BY <1>4, AtWork DEF CallFails, Timeout, CallTooLate
  <2>2. \E n \in {0, 1, tries[<<route, g>>]} : L!SettleFailure(<<route, g>>, n)
    BY <1>4 DEF CallFails, Timeout, CallTooLate, Fails, Charged
  <2>3. QED
    BY <1>2, <2>1, <2>2, Sizes
<1>5. ASSUME NEW g \in Group, Cancelled(g) PROVE [L!Next]_L!vars
  <2>1. CASE w[g] = "ready"
    BY <1>5, <2>1 DEF Cancelled, budget, L!vars
  <2>2. CASE w[g] \in {"queued"} \cup Holding
    <3>1. \E n \in {0, 1} : L!SettleFailure(<<route, g>>, n)
      BY <1>5, <2>2 DEF Cancelled, Fails, Charged
    <3>2. QED
      BY <1>2, <2>2, <3>1, Sizes
  <2>3. QED
    BY <1>5, <2>1, <2>2 DEF Cancelled
<1>6. ASSUME NEW g \in Group, GroupStep(g) PROVE [L!Next]_L!vars
  <2>1. CASE Unfit(g) \/ Call(g) \/ BackOff(g) \/ Retry(g)
    BY <2>1 DEF Unfit, Call, BackOff, Retry, budget, L!vars
  <2>2. QED
    BY <1>1, <1>3, <1>4, <1>5, <1>6, <2>1 DEF GroupStep, Refuse
<1>7. CASE StageStep \/ Interrupt \/ UNCHANGED vars
  <2>1. UNCHANGED budget
    BY <1>7 DEF StageStep, Interrupt, vars, Begin, PrepareFails, Notice, Drain, EndDrain, NextWindow,
                Complete, InterruptPreparing, InterruptGather, InterruptResolved
  <2>2. QED
    BY <2>1 DEF budget, L!vars
<1>8. CASE Expire
  BY <1>8 DEF Expire, L!Next
<1>9. QED
  BY <1>6, <1>7, <1>8 DEF Next

\* A stage, with its routes, windows, cancellations and late answers, implements the ledger
\* of one request: it reserves an execution once and settles it once, with a number of
\* attempts the reservation covers.
THEOREM ImplementsLedger == Spec => L!Spec
<1>1. Init => L!Init
  BY DEF Init
<1>2. IInv /\ Books /\ [Next]_vars => [L!Next]_L!vars
  BY LedgerSteps
<1>3. QED
  BY <1>1, <1>2, BooksHold, PTL DEF Spec, L!Spec

LEMMA SameLedger ==
    /\ L!Init <=> Ledger!Init
    /\ [L!Next]_L!vars <=> [Ledger!Next]_Ledger!vars
    /\ L!Balanced <=> Ledger!Balanced
<1>1. L!Init <=> Ledger!Init
  BY DEF L!Init, Ledger!Init, L!Nothing, Ledger!Nothing
<1>2. /\ \A est, n : L!Allowance(est, n) = Ledger!Allowance(est, n)
      /\ \A est, n, report : L!Usage(est, n, report) = Ledger!Usage(est, n, report)
      /\ \A l, d : L!Plus(l, d) = Ledger!Plus(l, d) /\ L!Minus(l, d) = Ledger!Minus(l, d)
      /\ \A n, limit : L!Within(n, limit) <=> Ledger!Within(n, limit)
  BY DEF L!Allowance, Ledger!Allowance, L!Priced, Ledger!Priced, L!Usage, Ledger!Usage,
         L!Plus, Ledger!Plus, L!Minus, Ledger!Minus, L!Within, Ledger!Within
<1>3. /\ \A l, est : L!Admits(l, est) <=> Ledger!Admits(l, est)
      /\ \A l, est, report : L!Raises(l, est, report) <=> Ledger!Raises(l, est, report)
  BY <1>2 DEF L!Admits, Ledger!Admits, L!Raises, Ledger!Raises
<1>4. ASSUME NEW e \in Exec PROVE L!Reserve(e) <=> Ledger!Reserve(e)
  BY <1>2, <1>3 DEF L!Reserve, Ledger!Reserve, L!Reserved, Ledger!Reserved
<1>5. ASSUME NEW e \in Exec PROVE L!Refuse(e) <=> Ledger!Refuse(e)
  BY <1>3 DEF L!Refuse, Ledger!Refuse
<1>6. ASSUME NEW e \in Exec, NEW n, NEW report
      PROVE  L!Reconcile(e, n, report) <=> Ledger!Reconcile(e, n, report)
  BY <1>2, <1>3 DEF L!Reconcile, Ledger!Reconcile, L!Reconciled, Ledger!Reconciled
<1>7. ASSUME NEW e \in Exec, NEW n PROVE L!SettleFailure(e, n) <=> Ledger!SettleFailure(e, n)
  BY <1>2 DEF L!SettleFailure, Ledger!SettleFailure, L!Settled, Ledger!Settled
<1>8. L!Next <=> Ledger!Next
  BY <1>4, <1>5, <1>6, <1>7 DEF L!Next, Ledger!Next, L!Expire, Ledger!Expire
<1>9. UNCHANGED L!vars <=> UNCHANGED Ledger!vars
  BY DEF L!vars, Ledger!vars
<1>10. L!Balanced <=> Ledger!Balanced
  BY DEF L!Balanced, Ledger!Balanced, L!MapThenSumSet, Ledger!MapThenSumSet,
         L!MapThenFoldSet, Ledger!MapThenFoldSet
<1>11. QED
  BY <1>1, <1>8, <1>9, <1>10

\* However the routes, windows, attempts and cancellations of a stage interleave, its ledger
\* stays balanced, counts no call over the budget, and is over a token budget only when some
\* execution has raised it.
THEOREM StageLedgerKept ==
    Spec => [](L!Balanced /\ L!CallsWithinBudget /\ L!OverrunIsRaised)
<1>1. Ledger!Spec => []Ledger!Balanced
  BY Ledger!LedgerBalanced, LedgerAssumptions
<1>2. Ledger!Spec => []Ledger!CallsWithinBudget
  BY Ledger!CallsStayWithinBudget, LedgerAssumptions
<1>3. Ledger!Spec => []Ledger!OverrunIsRaised
  BY Ledger!OverrunsAreRaised, LedgerAssumptions
<1>4. L!Spec => Ledger!Spec
  BY SameLedger, PTL DEF L!Spec, Ledger!Spec
<1>5. Ledger!Balanced /\ Ledger!CallsWithinBudget /\ Ledger!OverrunIsRaised =>
         L!Balanced /\ L!CallsWithinBudget /\ L!OverrunIsRaised
  BY SameLedger DEF L!CallsWithinBudget, Ledger!CallsWithinBudget,
        L!OverrunIsRaised, Ledger!OverrunIsRaised, L!Within, Ledger!Within
<1>6. QED
  BY <1>1, <1>2, <1>3, <1>4, <1>5, ImplementsLedger, PTL

(***************************************************************************)
(* The books agree with what the stage did.                                 *)
(***************************************************************************)

\* The sum of CalledIsCharged as the total of a function.
LEMMA TriesSummed == MapThenSumSet(LAMBDA e : tries[e], Exec) = Ledger!Total(tries, Exec)
BY DEF MapThenSumSet, MapThenFoldSet, Ledger!Total, Ledger!Sums, Ledger!Pick

\* What the ledger counts, execution by execution.
LEMMA CallsSummed ==
    ASSUME IInv, L!Balanced
    PROVE  /\ Ledger!BookedCalls = [e \in Exec |-> booked[e].calls]
           /\ ledger.calls = Ledger!Total(Ledger!BookedCalls, Exec)
<1>1. Ledger!TypeOK
  BY DEF IInv, TypeOK, L!TypeOK, Ledger!TypeOK, L!Totals, Ledger!Totals, L!Phase, Ledger!Phase
<1>2. ledger.calls = Ledger!MapThenSumSet(LAMBDA e : booked[e].calls, Exec)
  BY SameLedger DEF Ledger!Balanced
<1>3. Ledger!MapThenSumSet(LAMBDA e : booked[e].calls, Exec) = Ledger!Total(Ledger!BookedCalls, Exec)
  BY <1>1, LedgerAssumptions, Ledger!SumsAreTotals
<1>4. QED
  BY <1>2, <1>3 DEF Ledger!BookedCalls

LEMMA ChargedBetween ==
    ASSUME IInv, Books, L!Balanced
    PROVE  /\ Cardinality({e \in Exec : tries[e] > 0}) <= ledger.calls
           /\ (\A e \in Exec : phase[e] # "reserved") =>
                 ledger.calls <= MapThenSumSet(LAMBDA e : tries[e], Exec)
<1> DEFINE C == [e \in Exec |-> booked[e].calls]
           P == {e \in Exec : tries[e] > 0}
<1>1. C \in [Exec -> Nat] /\ (\A e \in P : C[e] >= 1) /\ P \in SUBSET Exec
  BY DEF Books, Accounts, Account
<1>2. ledger.calls = Ledger!Total(C, Exec)
  BY CallsSummed
<1>3. ASSUME \A e \in Exec : phase[e] # "reserved"
      PROVE  Ledger!Total(C, Exec) <= Ledger!Total(tries, Exec)
  <2>1. \A e \in Exec : C[e] <= tries[e]
    BY <1>3 DEF Books, Accounts, Account
  <2>2. C \in [Exec -> Int] /\ tries \in [Exec -> Int]
    BY <1>1, Types, Sizes
  <2>3. Exec \in SUBSET Exec
    OBVIOUS
  <2> HIDE DEF C
  <2>4. QED
    BY <2>1, <2>2, <2>3, LedgerAssumptions, Ledger!SumsMonotone DEF Ledger!Total
<1>4. Ledger!Cardinality(P) <= Ledger!Total(C, Exec)
  <2> HIDE DEF C, P
  <2>1. QED
    BY <1>1, LedgerAssumptions, Ledger!TotalCovers
<1>5. Ledger!Cardinality(P) = Cardinality(P)
  BY DEF Cardinality, Ledger!Cardinality
<1>6. QED
  BY <1>2, <1>3, <1>4, <1>5, TriesSummed

\* When nothing is reserved, the statistics have counted what the ledger has.
LEMMA CountedAsBooked ==
    ASSUME IInv, Books, L!Balanced, NoOverrun, \A e \in Exec : phase[e] # "reserved"
    PROVE  modelCalls = ledger.calls
<1>1. Counts = Ledger!BookedCalls
  BY CallsSummed DEF Counts
<1>2. QED
  BY <1>1, CallsSummed DEF Books, StatsCounted

\* The books of a stage agree with what it did, for any sizes: an execution that called its
\* provider is charged, at least once at any time and with no call that was not made once its
\* route is left; a response is charged every attempt it took; and the statistics agree with
\* the ledger unless a response overran the budget.
THEOREM BooksAgree == Spec => []CallsAccounted
<1>1. IInv /\ Books /\ L!Balanced => CallsAccounted
  <2> SUFFICES ASSUME IInv, Books, L!Balanced PROVE CallsAccounted
    OBVIOUS
  <2>1. stage \in {"preparing", "ended"} => \A e \in Exec : phase[e] # "reserved"
    BY NothingRuns DEF IInv, Settles
  <2>2. CalledIsCharged
    <3>1. \A g \in Group : responses[g] # None =>
             booked[<<responses[g][1], g>>].calls = tries[<<responses[g][1], g>>]
      BY DEF Books, Accounts, Answered
    <3>2. QED
      BY <2>1, <3>1, ChargedBetween DEF CalledIsCharged
  <2>3. StatsMatchLedger
    BY <2>1, CountedAsBooked DEF StatsMatchLedger, NoOverrun
  <2>4. QED
    BY <2>2, <2>3 DEF CallsAccounted
<1>2. QED
  BY <1>1, BooksHold, StageLedgerKept, PTL

=============================================================================
