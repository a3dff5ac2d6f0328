----------------------------- MODULE AccessCache -----------------------------
(***************************************************************************)
(* The API keys of one account: rows of D1, the access contexts cached in  *)
(* KV for the requests that present them, and the index that lists which   *)
(* keys are cached (apps/worker/src/auth/verify.ts, and the key and account*)
(* handlers of apps/worker/src/index.ts).                                  *)
(*                                                                         *)
(* Every KV or D1 call is awaited, so requests and account calls interleave*)
(* between any two of them.  Both KV values carry a time to live.          *)
(***************************************************************************)
EXTENDS Integers, FiniteSets

CONSTANTS
    NoKey,         \* the key of an idle request or call
    Keys,          \* API keys, or what the code keeps of them: their hashes
    Requests,      \* requests presenting a key, at the same time
    Calls,         \* account calls at the same time
    CacheTtl,      \* 600 s
    IndexTtl,      \* 900 s
    ResolveTime,   \* bound: a request resolves its key within this time
    MaxTime        \* bound: the clock stops here

ASSUME AccessAssumption ==
    /\ NoKey \notin Keys
    /\ {CacheTtl, IndexTtl, ResolveTime} \subseteq Nat \ {0}
    /\ MaxTime \in Nat

VARIABLES
    now,
    status,    \* api_keys.status of D1; "none" before the key exists
    cached,    \* KV auth:key:<hash>: when the context lapses (0: none)
    index,     \* KV user:key-hashes:<user>: its keys, and when it lapses
    at,        \* the next step of each request
    key,       \* the key it presents
    since,     \* when it began
    read,      \* the index it read
    doing,     \* the next step of each account call
    target,    \* the key it creates or revokes
    todo,      \* the keys it read from the index and has not dealt with
    revoked,   \* history: when each key ceased to be active
    settled    \* history: what the revocation of each key met

requests == <<at, key, since, read>>
calls == <<doing, target, todo>>
vars == <<now, status, cached, index, requests, calls, revoked, settled>>

NoIndex == [keys |-> {}, until |-> 0]

Cached(k) == cached[k] > now

Listed == IF index.until > now THEN index.keys ELSE {}

Init ==
    /\ now = 0
    /\ status = [k \in Keys |-> "none"]
    /\ cached = [k \in Keys |-> 0]
    /\ index = NoIndex
    /\ at = [r \in Requests |-> "idle"]
    /\ key = [r \in Requests |-> NoKey]
    /\ since = [r \in Requests |-> 0]
    /\ read = [r \in Requests |-> {}]
    /\ doing = [c \in Calls |-> "idle"]
    /\ target = [c \in Calls |-> NoKey]
    /\ todo = [c \in Calls |-> {}]
    /\ revoked = [k \in Keys |-> 0]
    /\ settled = [k \in Keys |-> {}]

Begin(r, k) ==
    /\ at' = [at EXCEPT ![r] = "row"]
    /\ key' = [key EXCEPT ![r] = k]
    /\ since' = [since EXCEPT ![r] = now]
    /\ UNCHANGED read

Step(r, next, keys) ==
    /\ at' = [at EXCEPT ![r] = next]
    /\ read' = [read EXCEPT ![r] = keys]
    /\ UNCHANGED <<key, since>>

Rest(r) ==
    /\ at' = [at EXCEPT ![r] = "idle"]
    /\ key' = [key EXCEPT ![r] = NoKey]
    /\ since' = [since EXCEPT ![r] = 0]
    /\ read' = [read EXCEPT ![r] = {}]

\* Account call c goes on at `next` with the key k.
Go(c, next, k, keys) ==
    /\ doing' = [doing EXCEPT ![c] = next]
    /\ target' = [target EXCEPT ![c] = k]
    /\ todo' = [todo EXCEPT ![c] = keys]

\* Fault: the time to live counts backwards.
PutIndexBackwards(keys) == index' = [keys |-> keys, until |-> now - IndexTtl]

PutIndex(keys) == index' = [keys |-> keys, until |-> now + IndexTtl]

-----------------------------------------------------------------------------
(* resolveAccessContext *)

\* Fault: a hit extends the entry.
LookupRefreshing(r, k) ==
    /\ at[r] = "idle" /\ status[k] # "none"
    /\ IF Cached(k)
       THEN /\ cached' = [cached EXCEPT ![k] = now + CacheTtl]
            /\ UNCHANGED requests
       ELSE /\ Begin(r, k)
            /\ UNCHANGED cached
    /\ UNCHANGED <<now, status, index, calls, revoked, settled>>

\* A hit is served from the cache and changes nothing.  A miss goes on to D1, and so
\* does a hit whose plan has lapsed, as it may have at any time.
Lookup(r, k) ==
    /\ at[r] = "idle" /\ status[k] # "none"
    /\ Begin(r, k)
    /\ UNCHANGED <<now, status, cached, index, calls, revoked, settled>>

\* Fault: the row of a revoked key will do.
ReadRowAny(r) ==
    /\ at[r] = "row"
    /\ IF status[key[r]] \in {"active", "revoked"} THEN Step(r, "list", {}) ELSE Rest(r)
    /\ UNCHANGED <<now, status, cached, index, calls, revoked, settled>>

\* The row: only an active key goes on, any other is answered 401.
ReadRow(r) ==
    /\ at[r] = "row"
    /\ IF status[key[r]] = "active" THEN Step(r, "list", {}) ELSE Rest(r)
    /\ UNCHANGED <<now, status, cached, index, calls, revoked, settled>>

ReadIndex(r) ==
    /\ at[r] = "list"
    /\ IF key[r] \in Listed THEN Step(r, "cache", {}) ELSE Step(r, "index", Listed)
    /\ UNCHANGED <<now, status, cached, index, calls, revoked, settled>>

\* The list read before is written back with the key; the time to live starts over.
AddToIndex(r) ==
    /\ at[r] = "index"
    /\ PutIndex(read[r] \cup {key[r]})
    /\ Step(r, "cache", {})
    /\ UNCHANGED <<now, status, cached, calls, revoked, settled>>

PutCache(r) ==
    /\ at[r] = "cache"
    /\ cached' = [cached EXCEPT ![key[r]] = now + CacheTtl]
    /\ Rest(r)
    /\ UNCHANGED <<now, status, index, calls, revoked, settled>>

\* The request dies between two of its calls.
Abandon(r) ==
    /\ at[r] # "idle"
    /\ Rest(r)
    /\ UNCHANGED <<now, status, cached, index, calls, revoked, settled>>

-----------------------------------------------------------------------------
(* The account calls. *)

\* POST /account/keys: the row, then the index.
Create(c, k) ==
    /\ doing[c] = "idle" /\ status[k] = "none"
    /\ status' = [status EXCEPT ![k] = "active"]
    /\ Go(c, "create", k, {})
    /\ UNCHANGED <<now, cached, index, requests, revoked, settled>>

CreateReads(c) ==
    /\ doing[c] = "create"
    /\ Go(c, "enlist", target[c], Listed)
    /\ UNCHANGED <<now, status, cached, index, requests, revoked, settled>>

CreateLists(c) ==
    /\ doing[c] = "enlist"
    /\ IF target[c] \in todo[c]
       THEN UNCHANGED index
       ELSE PutIndex(todo[c] \cup {target[c]})
    /\ Go(c, "idle", NoKey, {})
    /\ UNCHANGED <<now, status, cached, requests, revoked, settled>>

\* Requests for k that saw its row active and have not cached the context yet.
UnderWay(k) ==
    {r \in Requests : key[r] = k /\ at[r] \in {"list", "index", "cache"}}

Revoking(c, k) == doing[c] \in {"revoke", "purge"} /\ target[c] = k

\* DELETE /account/keys/<id>, or a retry of it: the row, then the caches.  A retry
\* that crosses another keeps in mind what that one has met.
Revoke(c, k) ==
    /\ doing[c] = "idle" /\ status[k] \in {"active", "revoked"}
    /\ status' = [status EXCEPT ![k] = "revoked"]
    /\ revoked' = [revoked EXCEPT ![k] = IF status[k] = "active" THEN now ELSE @]
    /\ settled' = [settled EXCEPT ![k] =
                      (IF UnderWay(k) = {} THEN {} ELSE {"overlapped"})
                      \cup (IF \E o \in Calls : Revoking(o, k) THEN @ \ {"over"} ELSE {})]
    /\ Go(c, "revoke", k, {})
    /\ UNCHANGED <<now, cached, index, requests>>

\* DELETE /account: the caches, then the rows.
Delete(c) ==
    /\ doing[c] = "idle" /\ \E k \in Keys : status[k] \in {"active", "revoked"}
    /\ Go(c, "delete", NoKey, {})
    /\ UNCHANGED <<now, status, cached, index, requests, revoked, settled>>

\* invalidateUserKeyCaches: the index, the entries it lists, the index again.
Invalidate(c) ==
    /\ doing[c] \in {"revoke", "delete"}
    /\ Go(c, IF doing[c] = "revoke" THEN "purge" ELSE "purge all", target[c], Listed)
    /\ settled' = IF doing[c] = "revoke"
                  THEN [settled EXCEPT ![target[c]] =
                           @ \cup (IF target[c] \in Listed THEN {} ELSE {"unlisted"})]
                  ELSE settled
    /\ UNCHANGED <<now, status, cached, index, requests, revoked>>

\* Fault: one entry fewer than the index lists.
PurgeShort(c, k) ==
    /\ doing[c] \in {"purge", "purge all"} /\ k \in todo[c]
    /\ cached' = IF Cardinality(todo[c]) > 1 THEN [cached EXCEPT ![k] = 0] ELSE cached
    /\ Go(c, doing[c], target[c], todo[c] \ {k})
    /\ UNCHANGED <<now, status, index, requests, revoked, settled>>

Purge(c, k) ==
    /\ doing[c] \in {"purge", "purge all"} /\ k \in todo[c]
    /\ cached' = [cached EXCEPT ![k] = 0]
    /\ Go(c, doing[c], target[c], todo[c] \ {k})
    /\ UNCHANGED <<now, status, index, requests, revoked, settled>>

\* The call ends with its key settled.
Revoked(c) ==
    /\ doing[c] = "purge" /\ todo[c] = {}
    /\ index' = NoIndex
    /\ settled' = [settled EXCEPT ![target[c]] = @ \cup {"over"}]
    /\ Go(c, "idle", NoKey, {})
    /\ UNCHANGED <<now, status, cached, requests, revoked>>

\* DELETE /account drops the index once more, then the account's rows.
Unlist(c) ==
    /\ doing[c] = "unlist" \/ (doing[c] = "purge all" /\ todo[c] = {})
    /\ index' = NoIndex
    /\ Go(c, IF doing[c] = "unlist" THEN "erase" ELSE "unlist", NoKey, {})
    /\ UNCHANGED <<now, status, cached, requests, revoked, settled>>

\* The account's rows go in one batch; no call of the account follows.
Deleted(c) ==
    /\ doing[c] = "erase"
    /\ status' = [k \in Keys |-> "deleted"]
    /\ revoked' = [k \in Keys |-> IF status[k] = "active" THEN now ELSE revoked[k]]
    /\ Go(c, "idle", NoKey, {})
    /\ UNCHANGED <<now, cached, index, requests, settled>>

Tick ==
    /\ now < MaxTime
    /\ \A r \in Requests : at[r] # "idle" => now < since[r] + ResolveTime
    /\ now' = now + 1
    /\ UNCHANGED <<status, cached, index, requests, calls, revoked, settled>>

Next ==
    \/ \E r \in Requests :
        \/ \E k \in Keys : Lookup(r, k)
        \/ ReadRow(r)
        \/ ReadIndex(r)
        \/ AddToIndex(r)
        \/ PutCache(r)
        \/ Abandon(r)
    \/ \E c \in Calls :
        \/ \E k \in Keys : Create(c, k) \/ Revoke(c, k) \/ Purge(c, k)
        \/ Delete(c)
        \/ CreateReads(c)
        \/ CreateLists(c)
        \/ Invalidate(c)
        \/ Revoked(c)
        \/ Unlist(c)
        \/ Deleted(c)
    \/ Tick

Spec == Init /\ [][Next]_vars

-----------------------------------------------------------------------------
(* Properties. *)

\* The variables keep their types.
TypeOK ==
    /\ now \in Nat
    /\ status \in [Keys -> {"none", "active", "revoked", "deleted"}]
    /\ cached \in [Keys -> Nat]
    /\ index \in [keys: SUBSET Keys, until: Nat]
    /\ at \in [Requests -> {"idle", "row", "list", "index", "cache"}]
    /\ key \in [Requests -> Keys \cup {NoKey}]
    /\ since \in [Requests -> Nat]
    /\ read \in [Requests -> SUBSET Keys]
    /\ doing \in [Calls -> {"idle", "create", "enlist", "revoke", "delete",
                            "purge", "purge all", "unlist", "erase"}]
    /\ target \in [Calls -> Keys \cup {NoKey}]
    /\ todo \in [Calls -> SUBSET Keys]
    /\ revoked \in [Keys -> Nat]
    /\ settled \in [Keys -> SUBSET {"overlapped", "unlisted", "over"}]

\* A key that is no longer active is served from the cache for one CacheTtl and the
\* time of one resolution at most, whatever the invalidation missed: a request that
\* saw the row active caches it once, and a hit does not extend the entry.
RevokedKeyLapses ==
    \A k \in Keys :
        (status[k] \in {"revoked", "deleted"} /\ Cached(k)) =>
            cached[k] <= revoked[k] + ResolveTime + CacheTtl

\* The invalidation does its work: once a revocation is over the key is not cached
\* any more, unless the index did not list it or a request was resolving it while
\* the row changed.
InvalidationHolds ==
    \A k \in Keys : (status[k] = "revoked" /\ settled[k] = {"over"}) => ~Cached(k)

\* "Revoke this key? Any apps using it will stop working."
\* (apps/web/app/dashboard/keys/page.tsx:15): once a revocation is over, and no
\* request overlapped it, the key is refused.
RevokedStopsWorking ==
    \A k \in Keys :
        (status[k] = "revoked" /\ "over" \in settled[k] /\ "overlapped" \notin settled[k])
            => ~Cached(k)

=============================================================================
