---------------------------- MODULE SharedWork ----------------------------
(***************************************************************************)
(* What ExecutionServices promises to concurrent identical model calls:     *)
(* callers that ask for the same thing share one piece of work. The work    *)
(* lasts exactly as long as somebody wants it, everybody who stays gets its *)
(* one answer, and a caller that leaves disturbs nobody else. This is the   *)
(* promise; SingleFlight is the code that is to keep it.                    *)
(***************************************************************************)
CONSTANTS
    Caller,
    Key,
    KeyOf    \* what each caller asks for: a function from Caller to Key

VARIABLES
    members,  \* who wants the answer for each key
    work,     \* the work for each key
    got       \* what each caller was told in the end

vars == <<members, work, got>>

Work == {"idle", "busy", "answered", "failed"}
Told == {"nothing", "response", "failure", "abandoned", "cached"}

TypeOK ==
    /\ members \in [Key -> SUBSET Caller]
    /\ work \in [Key -> Work]
    /\ got \in [Caller -> Told]

Init ==
    /\ members = [k \in Key |-> {}]
    /\ work = [k \in Key |-> "idle"]
    /\ got = [c \in Caller |-> "nothing"]

\* A caller that wants the answer starts the work, or shares the work there is.
Join(c) ==
    /\ got[c] = "nothing" /\ c \notin members[KeyOf[c]]
    /\ members' = [members EXCEPT ![KeyOf[c]] = @ \cup {c}]
    /\ work' = [work EXCEPT ![KeyOf[c]] = IF @ = "idle" THEN "busy" ELSE @]
    /\ UNCHANGED got

Finish(k) ==
    /\ work[k] = "busy"
    /\ \E w \in {"answered", "failed"} : work' = [work EXCEPT ![k] = w]
    /\ UNCHANGED <<members, got>>

\* Once nobody wants the answer there is no work for it.
Without(c) ==
    /\ c \in members[KeyOf[c]]
    /\ members' = [members EXCEPT ![KeyOf[c]] = @ \ {c}]
    /\ work' = [work EXCEPT ![KeyOf[c]] =
                   IF members[KeyOf[c]] = {c} THEN "idle" ELSE @]

Deliver(c) ==
    /\ work[KeyOf[c]] \in {"answered", "failed"}
    /\ Without(c)
    /\ got' = [got EXCEPT ![c] =
                  IF work[KeyOf[c]] = "answered" THEN "response" ELSE "failure"]

Abandon(c) ==
    /\ Without(c)
    /\ got' = [got EXCEPT ![c] = "abandoned"]

\* Told without any work: from the cache, or given up before asking.
Bypass(c) ==
    /\ got[c] = "nothing" /\ c \notin members[KeyOf[c]]
    /\ \E t \in {"cached", "abandoned"} : got' = [got EXCEPT ![c] = t]
    /\ UNCHANGED <<members, work>>

Next ==
    \/ \E c \in Caller : Join(c) \/ Deliver(c) \/ Abandon(c) \/ Bypass(c)
    \/ \E k \in Key : Finish(k)

Spec == Init /\ [][Next]_vars
=============================================================================
