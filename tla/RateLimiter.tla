------------------------------ MODULE RateLimiter ------------------------------
(***************************************************************************)
(* The token buckets of packages/service/src/limits.mjs, one per address.  *)
(* A bucket is its tokens and the time it was last looked at; the refill   *)
(* of one unit of time is a whole number of tokens here.                   *)
(***************************************************************************)
EXTENDS Integers, FiniteSets, FiniteSetsExt

CONSTANTS
    Rate,         \* tokens refilled per unit of time; 0 switches the limiter off
    Capacity,     \* burst
    MaxKeys,      \* buckets kept
    IdleTime      \* a bucket not used for longer than this may be dropped

ASSUME RateAssumption ==
    Rate \in Nat /\ Capacity \in Nat \ {0} /\ MaxKeys \in Nat \ {0} /\ IdleTime \in Nat \ {0}

(* buckets is a function whose domain is the addresses it has one for.     *)
Without(buckets, keys) == [k \in DOMAIN buckets \ keys |-> buckets[k]]

(* The n least recently used; the sort is stable and key was added last.   *)
Oldest(buckets, n, key) ==
    CHOOSE keys \in SUBSET DOMAIN buckets :
        /\ Cardinality(keys) = n
        /\ \A k \in keys : \A other \in DOMAIN buckets \ keys :
              buckets[k].at < buckets[other].at \/ (buckets[k].at = buckets[other].at /\ k # key)

evict(buckets, key, now) ==
    LET kept == Without(buckets, {k \in DOMAIN buckets : now - buckets[k].at > IdleTime})
        excess == Cardinality(DOMAIN kept) - MaxKeys
    IN  IF excess <= 0 THEN kept ELSE Without(kept, Oldest(kept, excess, key))

(* The bucket of an address, refilled; one is made if there is none.       *)
Refilled(bucket, now) ==
    LET elapsed == Max({0, now - bucket.at})
    IN  [tokens |-> Min({Capacity, bucket.tokens + elapsed * Rate}), at |-> now]

Looked(buckets, key, now) ==
    [k \in DOMAIN buckets \cup {key} |->
        IF k # key THEN buckets[k]
        ELSE IF key \in DOMAIN buckets THEN Refilled(buckets[key], now)
        ELSE [tokens |-> Capacity, at |-> now]]

Allowed(buckets, key, now) == Looked(buckets, key, now)[key].tokens >= 1

(* The buckets after allow(key, now).  A bucket that eviction drops still  *)
(* answers this request, and is gone for the next one.                     *)
allow(buckets, key, now) ==
    LET looked == Looked(buckets, key, now)
        spent == [looked EXCEPT ![key].tokens = IF @ >= 1 THEN @ - 1 ELSE @]
        over == key \notin DOMAIN buckets /\ Cardinality(DOMAIN looked) > MaxKeys
    IN  IF over THEN evict(spent, key, now) ELSE spent
===============================================================================
