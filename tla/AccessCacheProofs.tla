--------------------------- MODULE AccessCacheProofs ---------------------------
(***************************************************************************)
(* How long a key that is no longer active may still be served from the    *)
(* cache, for every number of keys, requests and account calls, and every  *)
(* choice of the times to live.  The argument does not use the index: the  *)
(* bound holds whatever the invalidation misses.                           *)
(***************************************************************************)
EXTENDS AccessCache, TLAPS

Ended(k) == status[k] \in {"revoked", "deleted"}

\* A request that saw its key's row active began before the key ended.
RequestInv ==
    \A r \in Requests :
        at[r] # "idle" =>
            /\ key[r] \in Keys
            /\ status[key[r]] # "none"
            /\ since[r] <= now /\ now <= since[r] + ResolveTime
            /\ (at[r] # "row" /\ Ended(key[r])) =>
                   since[r] <= revoked[key[r]]

\* A context was cached within the last CacheTtl; one of a key that ended, by a
\* request that began before.
CacheInv ==
    \A k \in Keys :
        /\ status[k] = "none" => cached[k] = 0
        /\ cached[k] <= now + CacheTtl
        /\ Ended(k) => cached[k] <= revoked[k] + ResolveTime + CacheTtl

\* A creating or revoking call works on a key of the account.
CallInv ==
    \A c \in Calls :
        doing[c] \in {"create", "enlist", "revoke", "purge"} => target[c] \in Keys

AccessInv == TypeOK /\ RequestInv /\ CacheInv /\ CallInv

\* What the arithmetic needs of the types.
Numbers ==
    /\ CacheTtl \in Nat /\ IndexTtl \in Nat /\ ResolveTime \in Nat
    /\ now \in Nat
    /\ cached \in [Keys -> Nat]
    /\ since \in [Requests -> Nat]
    /\ revoked \in [Keys -> Nat]

\* What following the requests and calls needs of the types.
Phases ==
    /\ NoKey \notin Keys
    /\ status \in [Keys -> {"none", "active", "revoked", "deleted"}]
    /\ at \in [Requests -> {"idle", "row", "list", "index", "cache"}]
    /\ key \in [Requests -> Keys \cup {NoKey}]
    /\ DOMAIN doing = Calls /\ DOMAIN target = Calls

\* Both are part of the type invariant.
LEMMA NumbersHold == TypeOK => Numbers /\ Phases
BY AccessAssumption DEF TypeOK, Numbers, Phases

\* The part of TypeOK that speaks of the requests.
RequestTypes ==
    /\ at \in [Requests -> {"idle", "row", "list", "index", "cache"}]
    /\ key \in [Requests -> Keys \cup {NoKey}]
    /\ since \in [Requests -> Nat]
    /\ read \in [Requests -> SUBSET Keys]

\* A request that goes on, or is over, stays a request.
LEMMA StepTypes ==
    ASSUME RequestTypes, NEW r \in Requests,
           NEW next \in {"list", "index", "cache"}, NEW keys \in SUBSET Keys,
           Step(r, next, keys) \/ Rest(r)
    PROVE  RequestTypes'
<1>1. CASE Step(r, next, keys) BY <1>1 DEF Step, RequestTypes
<1>2. CASE Rest(r) BY <1>2 DEF Rest, RequestTypes
<1> QED BY <1>1, <1>2

\* What the index lists is a set of keys.
LEMMA ListedType == TypeOK => Listed \in SUBSET Keys
BY DEF TypeOK, Listed

-----------------------------------------------------------------------------
(* The steps of a request. *)

\* A lookup that misses begins a resolution; it began when it began.
LEMMA LookupStep ==
    ASSUME AccessInv, NEW r \in Requests, NEW k \in Keys, Lookup(r, k)
    PROVE  AccessInv'
<1>0. Numbers /\ Phases
  BY NumbersHold DEF AccessInv
<1> USE <1>0 DEF Numbers, Phases, AccessInv, requests, calls
<1>1. TypeOK' BY DEF TypeOK, Lookup, Begin
<1>2. RequestInv' BY DEF Lookup, Begin, RequestInv, Ended
<1>3. CacheInv' BY DEF Lookup, CacheInv, Ended
<1>4. CallInv' BY DEF Lookup, CallInv
<1> QED BY <1>1, <1>2, <1>3, <1>4

\* Reading the row: only an active key goes on.
LEMMA ReadRowStep ==
    ASSUME AccessInv, NEW r \in Requests, ReadRow(r) PROVE AccessInv'
<1>0. Numbers /\ Phases
  BY NumbersHold DEF AccessInv
<1> USE <1>0 DEF Numbers, Phases, AccessInv, requests, calls
<1>1. TypeOK'
  <2>1. Step(r, "list", {}) \/ Rest(r) BY DEF ReadRow
  <2>2. RequestTypes'
    <3>1. RequestTypes BY DEF TypeOK, RequestTypes
    <3>2. {} \in SUBSET Keys OBVIOUS
    <3> HIDE <1>0 DEF Numbers, Phases, AccessInv
    <3> QED BY <2>1, <3>1, <3>2, StepTypes
  <2> QED BY <2>2 DEF TypeOK, RequestTypes, ReadRow
<1>2. RequestInv' BY DEF ReadRow, Step, Rest, RequestInv, Ended
<1>3. CacheInv' BY DEF ReadRow, CacheInv, Ended
<1>4. CallInv' BY DEF ReadRow, CallInv
<1> QED BY <1>1, <1>2, <1>3, <1>4

\* Reading the index.
LEMMA ReadIndexStep ==
    ASSUME AccessInv, NEW r \in Requests, ReadIndex(r) PROVE AccessInv'
<1>0. Numbers /\ Phases
  BY NumbersHold DEF AccessInv
<1> USE <1>0 DEF Numbers, Phases, AccessInv, requests, calls
<1>1. TypeOK' BY DEF TypeOK, ReadIndex, Step, Listed
<1>2. RequestInv' BY DEF ReadIndex, Step, RequestInv, Ended
<1>3. CacheInv' BY DEF ReadIndex, CacheInv, Ended
<1>4. CallInv' BY DEF ReadIndex, CallInv
<1> QED BY <1>1, <1>2, <1>3, <1>4

\* Writing the index.
LEMMA AddToIndexStep ==
    ASSUME AccessInv, NEW r \in Requests, AddToIndex(r) PROVE AccessInv'
<1>0. Numbers /\ Phases
  BY NumbersHold DEF AccessInv
<1> USE <1>0 DEF Numbers, Phases, AccessInv, requests, calls
<1>1. key[r] \in Keys BY DEF AddToIndex, RequestInv
<1>2. TypeOK'
  <2>1. Step(r, "cache", {}) BY DEF AddToIndex
  <2>2. RequestTypes'
    <3>1. RequestTypes BY DEF TypeOK, RequestTypes
    <3>2. {} \in SUBSET Keys OBVIOUS
    <3> HIDE <1>0 DEF Numbers, Phases, AccessInv
    <3> QED BY <2>1, <3>1, <3>2, StepTypes
  <2>3. read[r] \cup {key[r]} \in SUBSET Keys BY <1>1 DEF TypeOK
  <2>4. index' = [keys |-> read[r] \cup {key[r]}, until |-> now + IndexTtl]
    BY DEF AddToIndex, PutIndex
  <2>5. index' \in [keys: SUBSET Keys, until: Nat] BY <2>3, <2>4
  <2> QED BY <2>2, <2>5 DEF TypeOK, RequestTypes, AddToIndex
<1>3. RequestInv' BY DEF AddToIndex, Step, RequestInv, Ended
<1>4. CacheInv' BY DEF AddToIndex, CacheInv, Ended
<1>5. CallInv' BY DEF AddToIndex, CallInv
<1> QED BY <1>2, <1>3, <1>4, <1>5

\* Caching the context: late by one resolution at most.
LEMMA PutCacheStep ==
    ASSUME AccessInv, NEW r \in Requests, PutCache(r) PROVE AccessInv'
<1>0. Numbers /\ Phases
  BY NumbersHold DEF AccessInv
<1> USE <1>0 DEF Numbers, Phases, AccessInv, requests, calls
<1>1. TypeOK'
  <2>1. Rest(r) BY DEF PutCache
  <2>2. RequestTypes'
    <3>1. RequestTypes BY DEF TypeOK, RequestTypes
    <3>2. {} \in SUBSET Keys OBVIOUS
    <3> HIDE <1>0 DEF Numbers, Phases, AccessInv
    <3> QED BY <2>1, <3>1, <3>2, StepTypes
  <2>3. cached' \in [Keys -> Nat]
    <3>1. now + CacheTtl \in Nat OBVIOUS
    <3>2. cached' = [cached EXCEPT ![key[r]] = now + CacheTtl] BY DEF PutCache
    <3> QED BY <3>1, <3>2
  <2> QED BY <2>2, <2>3 DEF TypeOK, RequestTypes, PutCache
<1>2. RequestInv' BY DEF PutCache, Rest, RequestInv, Ended
<1>3. CacheInv'
  <2> DEFINE x == key[r]
  <2>1. /\ x \in Keys /\ status[x] # "none"
        /\ now <= since[r] + ResolveTime
        /\ Ended(x) => since[r] <= revoked[x]
    BY DEF PutCache, RequestInv
  <2>2. cached' = [cached EXCEPT ![x] = now + CacheTtl]
    BY DEF PutCache
  <2>3. now' = now /\ status' = status /\ revoked' = revoked
    BY DEF PutCache
  <2>4. since[r] \in Nat OBVIOUS
  <2> HIDE DEF x
  <2> QED BY <2>1, <2>2, <2>3, <2>4 DEF CacheInv, Ended
<1>4. CallInv' BY DEF PutCache, CallInv
<1> QED BY <1>1, <1>2, <1>3, <1>4

\* A request that dies leaves everything as it is.
LEMMA AbandonStep ==
    ASSUME AccessInv, NEW r \in Requests, Abandon(r) PROVE AccessInv'
<1>0. Numbers /\ Phases
  BY NumbersHold DEF AccessInv
<1> USE <1>0 DEF Numbers, Phases, AccessInv, requests, calls
<1>1. TypeOK' BY DEF TypeOK, Abandon, Rest
<1>2. RequestInv' BY DEF Abandon, Rest, RequestInv, Ended
<1>3. CacheInv' BY DEF Abandon, CacheInv, Ended
<1>4. CallInv' BY DEF Abandon, CallInv
<1> QED BY <1>1, <1>2, <1>3, <1>4

-----------------------------------------------------------------------------
(* The steps of an account call. *)

\* Creating a key: it was not cached, and no request knows it.
LEMMA CreateStep ==
    ASSUME AccessInv, NEW c \in Calls, NEW k \in Keys, Create(c, k)
    PROVE  AccessInv'
<1>0. Numbers /\ Phases
  BY NumbersHold DEF AccessInv
<1> USE <1>0 DEF Numbers, Phases, AccessInv, requests, calls
<1>1. TypeOK' BY DEF TypeOK, Create, Go
<1>2. RequestInv' BY DEF Create, RequestInv, Ended
<1>3. CacheInv' BY DEF Create, CacheInv, Ended
<1>4. CallInv' BY DEF Create, Go, CallInv
<1> QED BY <1>1, <1>2, <1>3, <1>4

\* Listing the new key.
LEMMA CreateListsStep ==
    ASSUME AccessInv, NEW c \in Calls, CreateReads(c) \/ CreateLists(c)
    PROVE  AccessInv'
<1>0. Numbers /\ Phases
  BY NumbersHold DEF AccessInv
<1> USE <1>0 DEF Numbers, Phases, AccessInv, requests, calls
<1>1. target[c] \in Keys BY DEF CreateReads, CreateLists, CallInv
<1>2. TypeOK'
  <2>1. CASE CreateReads(c)
    BY <1>1, <2>1, ListedType DEF TypeOK, CreateReads, Go
  <2>2. CASE CreateLists(c)
    <3>1. index' \in [keys: SUBSET Keys, until: Nat]
      <4>1. todo[c] \cup {target[c]} \in SUBSET Keys BY <1>1 DEF TypeOK
      <4>2. now + IndexTtl \in Nat OBVIOUS
      <4>3. \/ index' = index
            \/ index' = [keys |-> todo[c] \cup {target[c]}, until |-> now + IndexTtl]
        BY <2>2 DEF CreateLists, PutIndex
      <4>4. CASE index' = index BY <4>4 DEF TypeOK
      <4>5. CASE index' = [keys |-> todo[c] \cup {target[c]}, until |-> now + IndexTtl]
        <5> HIDE DEF Numbers, Phases, AccessInv
        <5> QED BY <4>1, <4>2, <4>5
      <4> QED BY <4>3, <4>4, <4>5
    <3>2. Go(c, "idle", NoKey, {}) BY <2>2 DEF CreateLists
    <3>3. /\ now' = now /\ status' = status /\ cached' = cached
          /\ revoked' = revoked /\ settled' = settled
          /\ at' = at /\ key' = key /\ since' = since /\ read' = read
      BY <2>2 DEF CreateLists
    <3> QED BY <3>1, <3>2, <3>3 DEF TypeOK, Go
  <2> QED BY <2>1, <2>2
<1>3. RequestInv' BY DEF CreateReads, CreateLists, RequestInv, Ended
<1>4. CacheInv' BY DEF CreateReads, CreateLists, CacheInv, Ended
<1>5. CallInv' BY <1>1 DEF CreateReads, CreateLists, Go, CallInv
<1> QED BY <1>2, <1>3, <1>4, <1>5

\* Revoking: everything cached or under way began before now.
LEMMA RevokeStep ==
    ASSUME AccessInv, NEW c \in Calls, NEW k \in Keys, Revoke(c, k)
    PROVE  AccessInv'
<1>0. Numbers /\ Phases
  BY NumbersHold DEF AccessInv
<1> USE <1>0 DEF Numbers, Phases, AccessInv, requests, calls
<1>1. TypeOK' BY DEF TypeOK, Revoke, Go
<1>2. RequestInv' BY DEF Revoke, RequestInv, Ended
<1>3. CacheInv' BY DEF Revoke, CacheInv, Ended
<1>4. CallInv' BY DEF Revoke, Go, CallInv
<1> QED BY <1>1, <1>2, <1>3, <1>4

\* Beginning to delete the account, and reading the index.
LEMMA InvalidateStep ==
    ASSUME AccessInv, NEW c \in Calls, Delete(c) \/ Invalidate(c)
    PROVE  AccessInv'
<1>0. Numbers /\ Phases
  BY NumbersHold DEF AccessInv
<1> USE <1>0 DEF Numbers, Phases, AccessInv, requests, calls
<1>1. CASE Delete(c)
  <2>1. TypeOK' BY <1>1 DEF TypeOK, Delete, Go
  <2>2. RequestInv' BY <1>1 DEF Delete, RequestInv, Ended
  <2>3. CacheInv' BY <1>1 DEF Delete, CacheInv, Ended
  <2>4. CallInv' BY <1>1 DEF Delete, Go, CallInv
  <2> QED BY <2>1, <2>2, <2>3, <2>4
<1>2. CASE Invalidate(c)
  <2>1. TypeOK' BY <1>2 DEF TypeOK, Invalidate, Go, Listed
  <2>2. RequestInv' BY <1>2 DEF Invalidate, RequestInv, Ended
  <2>3. CacheInv' BY <1>2 DEF Invalidate, CacheInv, Ended
  <2>4. CallInv' BY <1>2 DEF Invalidate, Go, CallInv
  <2> QED BY <2>1, <2>2, <2>3, <2>4
<1> QED BY <1>1, <1>2

\* Deleting an entry.
LEMMA PurgeStep ==
    ASSUME AccessInv, NEW c \in Calls, NEW k \in Keys, Purge(c, k)
    PROVE  AccessInv'
<1>0. Numbers /\ Phases
  BY NumbersHold DEF AccessInv
<1> USE <1>0 DEF Numbers, Phases, AccessInv, requests, calls
<1>1. TypeOK' BY DEF TypeOK, Purge, Go
<1>2. RequestInv' BY DEF Purge, RequestInv, Ended
<1>3. CacheInv'
  <2>1. /\ cached' = [cached EXCEPT ![k] = 0]
        /\ now' = now /\ status' = status /\ revoked' = revoked
    BY DEF Purge
  <2>2. \A j \in Keys : cached'[j] <= cached[j] /\ cached'[j] \in Nat
    BY <2>1
  <2> QED BY <2>1, <2>2 DEF CacheInv, Ended
<1>4. CallInv' BY DEF Purge, Go, CallInv
<1> QED BY <1>1, <1>2, <1>3, <1>4

\* The end of a revocation.
LEMMA RevokedStep ==
    ASSUME AccessInv, NEW c \in Calls, Revoked(c) PROVE AccessInv'
<1>0. Numbers /\ Phases
  BY NumbersHold DEF AccessInv
<1> USE <1>0 DEF Numbers, Phases, AccessInv, requests, calls
<1>1. TypeOK' BY DEF TypeOK, Revoked, NoIndex, Go
<1>2. RequestInv' BY DEF Revoked, RequestInv, Ended
<1>3. CacheInv' BY DEF Revoked, CacheInv, Ended
<1>4. CallInv' BY DEF Revoked, Go, CallInv
<1> QED BY <1>1, <1>2, <1>3, <1>4

\* The index goes before the account's rows do.
LEMMA UnlistStep ==
    ASSUME AccessInv, NEW c \in Calls, Unlist(c) PROVE AccessInv'
<1>0. Numbers /\ Phases
  BY NumbersHold DEF AccessInv
<1> USE <1>0 DEF Numbers, Phases, AccessInv, requests, calls
<1>1. TypeOK' BY DEF TypeOK, Unlist, NoIndex, Go
<1>2. RequestInv' BY DEF Unlist, RequestInv, Ended
<1>3. CacheInv' BY DEF Unlist, CacheInv, Ended
<1>4. CallInv' BY DEF Unlist, Go, CallInv
<1> QED BY <1>1, <1>2, <1>3, <1>4

\* The end of the account: keys that were active end now, the others ended before
\* or never existed.
LEMMA DeletedStep ==
    ASSUME AccessInv, NEW c \in Calls, Deleted(c) PROVE AccessInv'
<1>0. Numbers /\ Phases
  BY NumbersHold DEF AccessInv
<1> USE <1>0 DEF Numbers, Phases, AccessInv, requests, calls
<1>1. TypeOK' BY DEF TypeOK, Deleted, NoIndex, Go
<1>2. RequestInv' BY DEF Deleted, RequestInv, Ended
<1>3. CacheInv'
  <2> SUFFICES ASSUME NEW k \in Keys
               PROVE  /\ cached[k] <= now + CacheTtl
                      /\ cached[k] <= revoked'[k] + ResolveTime + CacheTtl
    BY DEF Deleted, CacheInv, Ended
  <2>1. revoked'[k] = IF status[k] = "active" THEN now ELSE revoked[k]
    BY DEF Deleted
  <2>2. CASE status[k] = "active" BY <2>1, <2>2 DEF CacheInv
  <2>3. CASE status[k] = "none" BY <2>1, <2>3 DEF CacheInv
  <2>4. CASE Ended(k) BY <2>1, <2>4 DEF CacheInv, Ended
  <2> QED BY <2>2, <2>3, <2>4 DEF Ended
<1>4. CallInv' BY DEF Deleted, Go, CallInv
<1> QED BY <1>1, <1>2, <1>3, <1>4

\* The clock: no request outlives ResolveTime.
LEMMA TickStep == ASSUME AccessInv, Tick PROVE AccessInv'
<1>0. Numbers /\ Phases
  BY NumbersHold DEF AccessInv
<1> USE <1>0 DEF Numbers, Phases, AccessInv, requests, calls
<1>1. TypeOK'
  <2>1. now' \in Nat BY DEF Tick
  <2>2. UNCHANGED <<status, cached, index, requests, calls, revoked, settled>>
    BY DEF Tick
  <2> QED BY <2>1, <2>2 DEF TypeOK
<1>2. RequestInv' BY DEF Tick, RequestInv, Ended
<1>3. CacheInv' BY DEF Tick, CacheInv, Ended
<1>4. CallInv' BY DEF Tick, CallInv
<1> QED BY <1>1, <1>2, <1>3, <1>4

-----------------------------------------------------------------------------
(* The theorems. *)

\* The invariant holds in every reachable state.
THEOREM AccessInvariant == Spec => []AccessInv
<1>1. Init => AccessInv
  BY AccessAssumption DEF Init, AccessInv, TypeOK, RequestInv, CacheInv, CallInv,
     Ended, NoIndex
<1>2. AccessInv /\ [Next]_vars => AccessInv'
  <2> SUFFICES ASSUME AccessInv, [Next]_vars PROVE AccessInv'
    OBVIOUS
  <2>1. ASSUME NEW r \in Requests,
               \/ \E k \in Keys : Lookup(r, k)
               \/ ReadRow(r) \/ ReadIndex(r) \/ AddToIndex(r) \/ PutCache(r)
               \/ Abandon(r)
        PROVE  AccessInv'
    BY <2>1, LookupStep, ReadRowStep, ReadIndexStep, AddToIndexStep, PutCacheStep,
       AbandonStep
  <2>2. ASSUME NEW c \in Calls,
               \/ \E k \in Keys : Create(c, k) \/ Revoke(c, k) \/ Purge(c, k)
               \/ Delete(c) \/ CreateReads(c) \/ CreateLists(c) \/ Invalidate(c)
               \/ Revoked(c) \/ Unlist(c) \/ Deleted(c)
        PROVE  AccessInv'
    BY <2>2, CreateStep, RevokeStep, PurgeStep, CreateListsStep, InvalidateStep,
       RevokedStep, UnlistStep, DeletedStep
  <2>3. CASE Tick
    BY <2>3, TickStep
  <2>4. CASE UNCHANGED vars
    BY <2>4 DEF vars, requests, calls, AccessInv, TypeOK, RequestInv, CacheInv, CallInv, Ended
  <2> QED BY <2>1, <2>2, <2>3, <2>4 DEF Next
<1> QED BY <1>1, <1>2, PTL DEF Spec

\* The variables keep their types.
THEOREM AccessTypes == Spec => []TypeOK
BY AccessInvariant, PTL DEF AccessInv

\* A key that is no longer active is served from the cache for CacheTtl and one
\* resolution at most.
THEOREM StalenessBound == Spec => []RevokedKeyLapses
<1>1. AccessInv => RevokedKeyLapses
  BY DEF AccessInv, CacheInv, RevokedKeyLapses, Ended
<1> QED BY <1>1, AccessInvariant, PTL

-----------------------------------------------------------------------------
(* What a revocation achieves, if nothing excuses it.  The bound above does *)
(* not help: this is about the entries that the index listed.               *)

\* Nothing that the revocations of k have met excuses them.
Unexcused(k) == status[k] = "revoked" /\ settled[k] \cap {"overlapped", "unlisted"} = {}

\* Nobody is about to cache the key, a call that purges has yet to come to it, or it is
\* gone, and it is gone once a call is over.
Purged ==
    \A k \in Keys : Unexcused(k) =>
        /\ UnderWay(k) = {}
        /\ \A c \in Calls : doing[c] = "purge" /\ target[c] = k => k \in todo[c] \/ ~Cached(k)
        /\ "over" \in settled[k] => ~Cached(k)

\* A key that is being revoked has lost its row by then.
Revocations == \A c \in Calls : \A k \in Keys : Revoking(c, k) => Ended(k)

PurgeInv == AccessInv /\ Purged /\ Revocations

\* The types the argument needs.
LEMMA PurgeTypes ==
    ASSUME AccessInv
    PROVE  /\ NoKey \notin Keys
           /\ now \in Nat
           /\ cached \in [Keys -> Nat]
           /\ status \in [Keys -> {"none", "active", "revoked", "deleted"}]
           /\ at \in [Requests -> {"idle", "row", "list", "index", "cache"}]
           /\ key \in [Requests -> Keys \cup {NoKey}]
           /\ doing \in [Calls -> {"idle", "create", "enlist", "revoke", "delete",
                                   "purge", "purge all", "unlist", "erase"}]
           /\ target \in [Calls -> Keys \cup {NoKey}]
           /\ todo \in [Calls -> SUBSET Keys]
           /\ settled \in [Keys -> SUBSET {"overlapped", "unlisted", "over"}]
           /\ CacheTtl \in Nat
BY NumbersHold DEF AccessInv, TypeOK, Numbers, Phases

\* Rows, calls and what they met are left alone, and nobody comes near to caching.
LEMMA PurgedKept ==
    ASSUME PurgeInv, UNCHANGED <<status, calls, settled>>,
           \A k \in Keys : Unexcused(k) => UnderWay(k)' = {} /\ (Cached(k)' => Cached(k))
    PROVE  Purged' /\ Revocations'
<1>1. Purged' BY DEF PurgeInv, Purged, Unexcused, calls
<1>2. Revocations' BY DEF PurgeInv, Revocations, Revoking, Ended, calls
<1> QED BY <1>1, <1>2

\* A request goes past the row of an active key only, so past no unexcused one.
LEMMA RequestPurged ==
    ASSUME PurgeInv, NEW r \in Requests,
           \/ \E k \in Keys : Lookup(r, k)
           \/ ReadRow(r) \/ ReadIndex(r) \/ AddToIndex(r) \/ PutCache(r) \/ Abandon(r)
    PROVE  Purged' /\ Revocations'
<1>1. UNCHANGED <<status, calls, settled>> /\ now' = now
  BY DEF Lookup, ReadRow, ReadIndex, AddToIndex, PutCache, Abandon
<1>2. ASSUME NEW k \in Keys, Unexcused(k)
      PROVE  UnderWay(k)' = {} /\ (Cached(k)' => Cached(k))
  <2>1. \A q \in Requests : ~(key[q] = k /\ at[q] \in {"list", "index", "cache"})
    BY <1>2 DEF PurgeInv, Purged, UnderWay
  <2>2. \A q \in Requests \ {r} : key'[q] = key[q] /\ at'[q] = at[q]
    BY PurgeTypes DEF PurgeInv, Lookup, ReadRow, ReadIndex, AddToIndex, PutCache, Abandon,
       Begin, Step, Rest, requests
  <2>3. ~(key'[r] = k /\ at'[r] \in {"list", "index", "cache"})
    <3>1. CASE \E j \in Keys : Lookup(r, j)
      BY <3>1, PurgeTypes DEF PurgeInv, Lookup, Begin
    <3>2. CASE ReadRow(r)
      BY <1>2, <3>2, PurgeTypes DEF PurgeInv, ReadRow, Step, Rest, Unexcused
    <3>3. CASE ReadIndex(r) \/ AddToIndex(r)
      BY <2>1, <3>3, PurgeTypes DEF PurgeInv, ReadIndex, AddToIndex, Step
    <3>4. CASE PutCache(r) \/ Abandon(r)
      BY <3>4, PurgeTypes DEF PurgeInv, PutCache, Abandon, Rest
    <3> QED BY <3>1, <3>2, <3>3, <3>4
  <2>4. cached'[k] = cached[k]
    <3>1. CASE PutCache(r)
      BY <2>1, <3>1, PurgeTypes DEF PurgeInv, PutCache
    <3>2. CASE ~PutCache(r)
      BY <3>2 DEF Lookup, ReadRow, ReadIndex, AddToIndex, Abandon
    <3> QED BY <3>1, <3>2
  <2>5. Cached(k)' => Cached(k)
    BY <1>1, <2>4 DEF Cached
  <2> QED BY <2>1, <2>2, <2>3, <2>5 DEF UnderWay
<1> QED BY <1>1, <1>2, PurgedKept

\* A call goes on with its target.
LEMMA GoTypes ==
    ASSUME AccessInv, NEW c \in Calls, NEW next, NEW k, NEW keys, Go(c, next, k, keys)
    PROVE  /\ doing'[c] = next /\ target'[c] = k /\ todo'[c] = keys
           /\ \A o \in Calls \ {c} : doing'[o] = doing[o] /\ target'[o] = target[o] /\ todo'[o] = todo[o]
BY PurgeTypes DEF Go

\* A creation is of a key that was not, and a call that creates a key, or is about to
\* delete the account, revokes nothing.
LEMMA CreatePurged ==
    ASSUME PurgeInv, NEW c \in Calls,
           \/ \E k \in Keys : Create(c, k)
           \/ CreateReads(c) \/ CreateLists(c) \/ Delete(c) \/ Unlist(c)
    PROVE  Purged' /\ Revocations'
<1>1. /\ doing[c] \notin {"revoke", "purge"} /\ doing'[c] \notin {"revoke", "purge"}
      /\ \A o \in Calls \ {c} : doing'[o] = doing[o] /\ target'[o] = target[o] /\ todo'[o] = todo[o]
  BY GoTypes DEF PurgeInv, Create, CreateReads, CreateLists, Delete, Unlist
<1>2. /\ now' = now /\ cached' = cached /\ at' = at /\ key' = key /\ settled' = settled
      /\ \A k \in Keys : status'[k] # status[k] => status[k] = "none" /\ status'[k] = "active"
  BY PurgeTypes DEF PurgeInv, Create, CreateReads, CreateLists, Delete, Unlist, requests
<1>3. \A k \in Keys : Unexcused(k)' => Unexcused(k)
  BY <1>2 DEF Unexcused
<1>4. Purged'
  BY <1>1, <1>2, <1>3 DEF PurgeInv, Purged, UnderWay, Cached
<1>5. Revocations'
  BY <1>1, <1>2 DEF PurgeInv, Revocations, Revoking, Ended
<1> QED BY <1>4, <1>5

\* A revocation that no request overlaps begins unexcused, unless it crosses one that
\* is excused: no other purges the key, or all that do have it yet to purge.
LEMMA RevokePurged ==
    ASSUME PurgeInv, NEW c \in Calls, NEW k \in Keys, Revoke(c, k)
    PROVE  Purged' /\ Revocations'
<1>1. /\ status[k] \in {"active", "revoked"} /\ doing[c] = "idle"
      /\ status' = [status EXCEPT ![k] = "revoked"]
      /\ settled'[k] = (IF UnderWay(k) = {} THEN {} ELSE {"overlapped"})
                         \cup (IF \E o \in Calls : Revoking(o, k) THEN settled[k] \ {"over"} ELSE {})
      /\ \A j \in Keys \ {k} : settled'[j] = settled[j]
      /\ now' = now /\ cached' = cached /\ at' = at /\ key' = key
      /\ Go(c, "revoke", k, {})
  BY PurgeTypes DEF PurgeInv, Revoke, requests
<1>2. /\ doing'[c] = "revoke" /\ target'[c] = k
      /\ \A o \in Calls \ {c} : doing'[o] = doing[o] /\ target'[o] = target[o] /\ todo'[o] = todo[o]
  BY <1>1, GoTypes DEF PurgeInv
<1>3. /\ status'[k] = "revoked"
      /\ \A j \in Keys \ {k} : status'[j] = status[j]
  BY <1>1, PurgeTypes DEF PurgeInv
<1>4. Revocations'
  BY <1>2, <1>3 DEF PurgeInv, Revocations, Revoking, Ended
<1>5. ASSUME NEW j \in Keys \ {k}, Unexcused(j)'
      PROVE  /\ UnderWay(j)' = {}
             /\ \A o \in Calls : doing'[o] = "purge" /\ target'[o] = j => j \in todo'[o] \/ ~Cached(j)'
             /\ "over" \in settled'[j] => ~Cached(j)'
  <2>1. Unexcused(j)
    BY <1>1, <1>3, <1>5 DEF Unexcused
  <2> QED BY <1>1, <1>2, <2>1 DEF PurgeInv, Purged, UnderWay, Cached
<1>6. ASSUME Unexcused(k)'
      PROVE  /\ UnderWay(k)' = {}
             /\ \A o \in Calls : doing'[o] = "purge" /\ target'[o] = k => k \in todo'[o] \/ ~Cached(k)'
             /\ "over" \in settled'[k] => ~Cached(k)'
  <2>1. UnderWay(k) = {} /\ "over" \notin settled'[k]
    BY <1>1, <1>6 DEF Unexcused
  <2>2. ASSUME NEW o \in Calls, doing'[o] = "purge", target'[o] = k
        PROVE  k \in todo'[o] \/ ~Cached(k)'
    <3>1. o # c /\ doing[o] = "purge" /\ target[o] = k /\ todo'[o] = todo[o]
      BY <1>2, <2>2
    <3>2. Revoking(o, k)
      BY <3>1 DEF Revoking
    <3>3. status[k] = "revoked"
      BY <1>1, <3>2 DEF PurgeInv, Revocations, Ended
    <3>4. settled'[k] = settled[k] \ {"over"}
      BY <1>1, <2>1, <3>2
    <3>5. Unexcused(k)
      BY <1>6, <3>3, <3>4 DEF Unexcused
    <3> QED BY <1>1, <3>1, <3>5 DEF PurgeInv, Purged, Cached
  <2> QED BY <1>1, <2>1, <2>2 DEF UnderWay
<1>7. Purged'
  BY <1>5, <1>6 DEF Purged
<1> QED BY <1>4, <1>7

\* What a call reads from the index it will purge; what it does not find excuses it.
LEMMA InvalidatePurged ==
    ASSUME PurgeInv, NEW c \in Calls, Invalidate(c)
    PROVE  Purged' /\ Revocations'
<1>1. /\ \/ doing[c] = "revoke" /\ doing'[c] = "purge"
         \/ doing[c] = "delete" /\ doing'[c] = "purge all"
      /\ target'[c] = target[c] /\ todo'[c] = Listed
      /\ \A o \in Calls \ {c} : doing'[o] = doing[o] /\ target'[o] = target[o] /\ todo'[o] = todo[o]
  <2>1. PICK next : /\ Go(c, next, target[c], Listed)
                    /\ \/ doing[c] = "revoke" /\ next = "purge"
                       \/ doing[c] = "delete" /\ next = "purge all"
    BY DEF Invalidate
  <2> QED BY <2>1, GoTypes DEF PurgeInv
<1>2. /\ now' = now /\ status' = status /\ cached' = cached /\ at' = at /\ key' = key
      /\ \A j \in Keys : settled[j] \subseteq settled'[j]
      /\ \A j \in Keys : "over" \in settled'[j] => "over" \in settled[j]
      /\ doing[c] = "revoke" /\ target[c] \in Keys /\ target[c] \notin Listed
            => "unlisted" \in settled'[target[c]]
  BY PurgeTypes DEF PurgeInv, Invalidate, requests
<1>3. \A j \in Keys : Unexcused(j)' => Unexcused(j)
  BY <1>2 DEF Unexcused
<1>4. \A j \in Keys : Unexcused(j)' /\ doing'[c] = "purge" /\ target'[c] = j => j \in todo'[c]
  BY <1>1, <1>2 DEF Unexcused
<1>5. Purged'
  BY <1>1, <1>2, <1>3, <1>4 DEF PurgeInv, Purged, UnderWay, Cached
<1>6. Revocations'
  BY <1>1, <1>2 DEF PurgeInv, Revocations, Revoking, Ended
<1> QED BY <1>5, <1>6

\* A key leaves the list of a call as its entry goes.
LEMMA PurgePurged ==
    ASSUME PurgeInv, NEW c \in Calls, NEW k \in Keys, Purge(c, k)
    PROVE  Purged' /\ Revocations'
<1>1. /\ doing'[c] = doing[c] /\ target'[c] = target[c] /\ todo'[c] = todo[c] \ {k}
      /\ \A o \in Calls \ {c} : doing'[o] = doing[o] /\ target'[o] = target[o] /\ todo'[o] = todo[o]
  BY GoTypes DEF PurgeInv, Purge
<1>2. /\ now' = now /\ status' = status /\ at' = at /\ key' = key /\ settled' = settled
      /\ cached'[k] = 0 /\ \A j \in Keys \ {k} : cached'[j] = cached[j]
      /\ now \in Nat
  BY PurgeTypes DEF PurgeInv, Purge, requests
<1>3. ~Cached(k)' /\ \A j \in Keys \ {k} : Cached(j)' = Cached(j)
  BY <1>2 DEF Cached
<1>4. Purged'
  BY <1>1, <1>2, <1>3 DEF PurgeInv, Purged, Unexcused, UnderWay
<1>5. Revocations'
  BY <1>1, <1>2 DEF PurgeInv, Revocations, Revoking, Ended
<1> QED BY <1>4, <1>5

\* A call that is over has nothing left to purge.
LEMMA RevokedPurged ==
    ASSUME PurgeInv, NEW c \in Calls, Revoked(c)
    PROVE  Purged' /\ Revocations'
<1>1. /\ doing[c] = "purge" /\ todo[c] = {} /\ doing'[c] = "idle"
      /\ \A o \in Calls \ {c} : doing'[o] = doing[o] /\ target'[o] = target[o] /\ todo'[o] = todo[o]
  BY GoTypes DEF PurgeInv, Revoked
<1>2. /\ now' = now /\ status' = status /\ cached' = cached /\ at' = at /\ key' = key
      /\ \A j \in Keys : settled[j] \subseteq settled'[j]
      /\ \A j \in Keys : "over" \in settled'[j] => "over" \in settled[j] \/ j = target[c]
  BY PurgeTypes DEF PurgeInv, Revoked, requests
<1>3. \A j \in Keys : Unexcused(j)' => Unexcused(j)
  BY <1>2 DEF Unexcused
<1>4. \A j \in Keys : Unexcused(j)' /\ j = target[c] => ~Cached(j)
  BY <1>1, <1>3 DEF PurgeInv, Purged
<1>5. Purged'
  BY <1>1, <1>2, <1>3, <1>4 DEF PurgeInv, Purged, UnderWay, Cached
<1>6. Revocations'
  BY <1>1, <1>2 DEF PurgeInv, Revocations, Revoking, Ended
<1> QED BY <1>5, <1>6

\* With the account all its rows are gone.
LEMMA DeletedPurged ==
    ASSUME PurgeInv, NEW c \in Calls, Deleted(c)
    PROVE  Purged' /\ Revocations'
<1>1. \A k \in Keys : status'[k] = "deleted"
  BY DEF Deleted
<1> QED BY <1>1 DEF Purged, Unexcused, Revocations, Ended

\* Time only lets entries lapse.
LEMMA TickPurged == ASSUME PurgeInv, Tick PROVE Purged' /\ Revocations'
<1>1. UNCHANGED <<status, calls, settled>> /\ at' = at /\ key' = key /\ cached' = cached /\ now' = now + 1
  BY DEF Tick, requests
<1>2. \A k \in Keys : (Cached(k)' => Cached(k)) /\ UnderWay(k)' = UnderWay(k)
  <2>1. now \in Nat /\ cached \in [Keys -> Nat]
    BY PurgeTypes DEF PurgeInv
  <2>2. \A k \in Keys : Cached(k)' => Cached(k)
    BY <1>1, <2>1 DEF Cached
  <2>3. \A k \in Keys : UnderWay(k)' = UnderWay(k)
    BY <1>1 DEF UnderWay
  <2> QED BY <2>2, <2>3
<1>3. \A k \in Keys : Unexcused(k) => UnderWay(k) = {}
  BY DEF PurgeInv, Purged
<1> QED BY <1>1, <1>2, <1>3, PurgedKept

\* The invariant of revocations holds in every reachable state.
THEOREM PurgeInvariant == Spec => []PurgeInv
<1>1. Init => Purged /\ Revocations
  BY DEF Init, Purged, Unexcused, Revocations, Revoking
<1>2. PurgeInv /\ [Next]_vars => Purged' /\ Revocations'
  <2> SUFFICES ASSUME PurgeInv, [Next]_vars PROVE Purged' /\ Revocations'
    OBVIOUS
  <2>1. ASSUME NEW r \in Requests,
               \/ \E k \in Keys : Lookup(r, k)
               \/ ReadRow(r) \/ ReadIndex(r) \/ AddToIndex(r) \/ PutCache(r)
               \/ Abandon(r)
        PROVE  Purged' /\ Revocations'
    BY <2>1, RequestPurged
  <2>2. ASSUME NEW c \in Calls,
               \/ \E k \in Keys : Create(c, k) \/ Revoke(c, k) \/ Purge(c, k)
               \/ Delete(c) \/ CreateReads(c) \/ CreateLists(c) \/ Invalidate(c)
               \/ Revoked(c) \/ Unlist(c) \/ Deleted(c)
        PROVE  Purged' /\ Revocations'
    BY <2>2, CreatePurged, RevokePurged, PurgePurged, InvalidatePurged, RevokedPurged, DeletedPurged
  <2>3. CASE Tick
    BY <2>3, TickPurged
  <2>4. CASE UNCHANGED vars
    <3>1. UNCHANGED <<status, calls, settled>> /\ at' = at /\ key' = key /\ cached' = cached /\ now' = now
      BY <2>4 DEF vars, requests
    <3>2. \A k \in Keys : (Cached(k)' => Cached(k)) /\ UnderWay(k)' = UnderWay(k)
      BY <3>1 DEF Cached, UnderWay
    <3>3. \A k \in Keys : Unexcused(k) => UnderWay(k) = {}
      BY DEF PurgeInv, Purged
    <3> QED BY <3>1, <3>2, <3>3, PurgedKept
  <2> QED BY <2>1, <2>2, <2>3, <2>4 DEF Next
<1> QED BY <1>1, <1>2, AccessInvariant, PTL DEF Spec, PurgeInv

\* Once a revocation is over the key is not cached, unless the index did not list it
\* or a request was resolving it while the row changed (verify.ts
\* invalidateUserKeyCaches, index.ts, the DELETE of a key).
THEOREM RevocationPurges == Spec => []InvalidationHolds
<1>1. PurgeInv => InvalidationHolds
  BY DEF PurgeInv, Purged, Unexcused, InvalidationHolds
<1> QED BY <1>1, PurgeInvariant, PTL

=============================================================================
