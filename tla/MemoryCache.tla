---------------------------- MODULE MemoryCache ----------------------------
(***************************************************************************)
(* MemoryCache of cache.py, as operators on its ordered dictionary: the     *)
(* sequence of its entries, the least recently used first. Each method is   *)
(* one step under the lock. A key begins with its namespace, which may have *)
(* several parts; what follows is the digest.                               *)
(***************************************************************************)
EXTENDS Integers, Sequences, FiniteSets, FiniteSetsExt, SequencesExt

CONSTANTS MaxEntries, Ttl, None

ASSUME CacheSizes == MaxEntries \in Nat \ {0} /\ Ttl \in (Nat \ {0}) \cup {None}
ASSUME NoneNotATime == None \notin Int

KeysOf(items) == {items[i].key : i \in DOMAIN items}

\* What is left, in its order, when the keys in `gone` have been taken out.
Without(items, gone) ==
    LET kept[n \in 0..Len(items)] ==
            IF n = 0 THEN <<>>
            ELSE IF items[n].key \in gone THEN kept[n - 1]
            ELSE Append(kept[n - 1], items[n])
    IN  kept[Len(items)]

Others(items, k) == Without(items, {k})
EntryOf(items, k) == CHOOSE e \in ToSet(items) : e.key = k

\* Faulty: an entry is served in the very moment it expires.
LiveToTheEnd(items, k, now) ==
    \E e \in ToSet(items) : e.key = k /\ (e.expires = None \/ e.expires >= now)

\* The key is held and its time has not come.
Live(items, k, now) ==
    \E e \in ToSet(items) : e.key = k /\ (e.expires = None \/ e.expires > now)

\* Faulty: a hit leaves the order alone, the oldest entry goes first.
AfterGetUnmoved(items, k, now) == IF Live(items, k, now) THEN items ELSE Others(items, k)

\* get moves a live entry to the end and removes one that has expired.
AfterGet(items, k, now) ==
    IF Live(items, k, now) THEN Append(Others(items, k), EntryOf(items, k)) ELSE Others(items, k)

\* The last MaxEntries of them, after the others have been popped.
Newest(items) == SubSeq(items, Max({1, Len(items) - MaxEntries + 1}), Len(items))

\* set replaces the entry of the key, or adds one, at the end.
AfterSet(items, k, value, now) ==
    Newest(Append(Others(items, k),
                  [key |-> k, value |-> value,
                   expires |-> IF Ttl = None THEN None ELSE now + Ttl]))

AfterDelete(items, k) == Others(items, k)

\* clear: everything, or what begins with the namespace and a colon, which
\* includes a longer namespace with this one as its first parts.
AfterClear(items, namespace) ==
    IF namespace = None THEN <<>>
    ELSE Without(items, {k \in KeysOf(items) : IsPrefix(namespace, k.namespace)})
=============================================================================
