----------------------------- MODULE RateLimits -----------------------------
(***************************************************************************)
(* The sliding-window rate limiter of api/ratelimit.py: check() under the  *)
(* limiter's lock, the eviction it ends with, and the cleanup thread.      *)
(* A hit is kept by its age, which stops at Window: it then counts for     *)
(* nothing any more.                                                       *)
(***************************************************************************)
EXTENDS Integers, Sequences, FiniteSets

CONSTANTS
    Keys,       \* API keys or client addresses
    Requests,   \* self.requests
    Window,     \* self.window, in ticks of the clock
    MaxKeys     \* MAX_KEYS

VARIABLES
    enforce,    \* FALSE behind Cloudflare: warn only
    hits,       \* self._hits: the known keys, each with the ages of its hits, oldest first
    granted,    \* history: the ages of all admissions of a key within the window
    forgotten,  \* history: keys evicted while they had hits in the window
    promise     \* history: what is left of the Retry-After of a refused key, or NoPromise

limitVars == <<enforce, hits, granted, forgotten, promise>>

NoPromise == -1
Ages == 0 .. Window
\* [t for t in hits if t > cutoff]
InWindow(s) ==
    LET kept[i \in 0 .. Len(s)] ==
            IF i = 0 THEN <<>> ELSE IF s[i] < Window THEN Append(kept[i - 1], s[i]) ELSE kept[i - 1]
    IN  kept[Len(s)]

LimitInit ==
    /\ enforce \in BOOLEAN
    /\ hits = <<>>
    /\ granted = [k \in Keys |-> <<>>]
    /\ forgotten = {}
    /\ promise = [k \in Keys |-> NoPromise]

LimitTypeOK ==
    /\ DOMAIN hits \subseteq Keys
    /\ Cardinality(DOMAIN hits) <= MaxKeys
    /\ \A k \in DOMAIN hits : hits[k] \in Seq(Ages)
    /\ promise \in [Keys -> NoPromise .. Window + 1]

Known(k) == IF k \in DOMAIN hits THEN hits[k] ELSE <<>>
Without(h, ks) == [k \in DOMAIN h \ ks |-> h[k]]
\* The age of a key's latest hit; a key without hits sorts before every other.
Latest(h, k) == IF h[k] = <<>> THEN Window ELSE h[k][Len(h[k])]

\* _evict_oldest: the keys whose latest hit is oldest go, as many as there are too many.
Evict(h) ==
    {ks \in SUBSET DOMAIN h :
        /\ Cardinality(ks) = Cardinality(DOMAIN h) - MaxKeys
        /\ \A k \in ks, o \in DOMAIN h \ ks : Latest(h, k) >= Latest(h, o)}

Forget(h, ks) ==
    /\ hits' = Without(h, ks)
    /\ forgotten' = forgotten \cup {k \in ks : InWindow(h[k]) # <<>>}

\* What check does once the hit is allowed.
Store(k) ==
    LET h == [j \in DOMAIN hits \cup {k} |->
                 IF j = k THEN Append(InWindow(Known(k)), 0) ELSE hits[j]]
    IN  IF Cardinality(DOMAIN h) > MaxKeys
        THEN \E ks \in Evict(h) : Forget(h, ks)
        ELSE Forget(h, {})

Full(k) == Len(InWindow(Known(k))) >= Requests
\* One hit more than the limit is all that warn-only mode is followed for.
Followed(k) == Len(granted[k]) <= Requests

Admit(k) ==
    /\ Full(k) => ~enforce
    /\ Followed(k)
    /\ Store(k)
    /\ granted' = [granted EXCEPT ![k] = Append(@, 0)]
    /\ promise' = [promise EXCEPT ![k] = NoPromise]
    /\ UNCHANGED enforce

\* int(hits[0] - cutoff) + 1
RetryAfter(k) == (Window - InWindow(Known(k))[1]) + 1

\* The 429; the key's list is left as it was.
Refuse(k) ==
    /\ enforce /\ Full(k)
    /\ promise' = [promise EXCEPT ![k] = RetryAfter(k)]
    /\ UNCHANGED <<enforce, hits, granted, forgotten>>

\* Mutant: keys whose first hit has left the window.
CleanupByFirst ==
    LET empty == {k \in DOMAIN hits : hits[k] = <<>> \/ hits[k][1] >= Window}
    IN  /\ empty # {}
        /\ hits' = Without(hits, empty)
        /\ UNCHANGED <<enforce, granted, promise, forgotten>>

\* _cleanup: keys without a hit in the window.
Cleanup ==
    LET empty == {k \in DOMAIN hits : InWindow(hits[k]) = <<>>}
    IN  /\ empty # {}
        /\ Forget(hits, empty)
        /\ UNCHANGED <<enforce, granted, promise>>

Older(s) == [i \in DOMAIN s |-> IF s[i] < Window THEN s[i] + 1 ELSE Window]

Tick ==
    /\ hits' = [k \in DOMAIN hits |-> Older(hits[k])]
    /\ granted' = [k \in Keys |-> InWindow(Older(granted[k]))]
    /\ forgotten' = {k \in forgotten : granted'[k] # <<>>}
    /\ promise' = [k \in Keys |-> IF promise[k] > 0 THEN promise[k] - 1 ELSE promise[k]]
    /\ UNCHANGED enforce

LimitNext ==
    \/ \E k \in Keys : Admit(k) \/ Refuse(k)
    \/ Cleanup
    \/ Tick

LimitSpec == LimitInit /\ [][LimitNext]_limitVars
-----------------------------------------------------------------------------
(* The window slides: however the hits are spread over it, and whatever    *)
(* the cleanup thread removes meanwhile, no key is admitted more than      *)
(* Requests times within a window, as long as it was not evicted           *)
(* (check, _cleanup; eviction gives a key a fresh start).                  *)
LimitHolds ==
    enforce => \A k \in Keys \ forgotten : Len(granted[k]) <= Requests

(* A client that waits for the Retry-After it was given is not refused by  *)
(* its next call, unless another call on the same key has used the slot    *)
(* (check, the header of the 429).                                         *)
RetryAfterHolds ==
    \A k \in Keys : promise[k] = 0 => ~Full(k)
=============================================================================
