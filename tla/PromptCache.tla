----------------------------- MODULE PromptCache -----------------------------
(***************************************************************************)
(* The prompt cache (prompt_cache.go) as ChatRunner.messagesForRequest     *)
(* uses it: a bounded least-recently-used cache in memory whose entries    *)
(* expire, alone or in front of a Redis cache that several processes may   *)
(* share.  Goroutines look prompts up, build and store the missing ones,   *)
(* delete keys and clear the cache (Agent.Maintain); every operation of    *)
(* the local cache holds its mutex, every call of Redis is a step of its   *)
(* own and may fail.                                                       *)
(*                                                                         *)
(* A prompt is told apart by when it was built, by how many clears had     *)
(* begun then and by how long it was under way between the caches.         *)
(***************************************************************************)
EXTENDS Goroutines, Lists

CONSTANTS
  Keys,        \* cache keys
  MaxEntries,  \* PromptCacheConfig.MaxEntries, 1024 when not positive
  LocalTTL,    \* PromptCacheConfig.TTL; 0 means no expiry
  RemoteTTL,   \* RedisPromptCacheConfig.TTL; 0 means no expiry
  MaxTime,     \* bound: the clock
  MaxOps       \* bound: operations begun

ASSUME CacheAssumption ==
  /\ MaxEntries \in Nat \ {0}
  /\ LocalTTL \in Nat /\ RemoteTTL \in Nat /\ MaxTime \in Nat /\ MaxOps \in Nat

VARIABLES
  levels,   \* the cache is in memory only, or backed by Redis
  lru,      \* inMemoryPromptCache.lru: the keys, most recent first
  items,    \* inMemoryPromptCache.items: what the map holds for its keys
  remote,   \* what Redis holds
  now,      \* the clock
  cpc,      \* position of each goroutine in an operation
  req,      \* its operation
  recency,  \* observer: keys by their last successful local Get or Set
  clears,   \* observer: clears begun
  cleared,  \* observer: clears begun before the last one that succeeded and
            \* that no other operation overlapped
  served,   \* observer: the prompt the last lookup returned
  began     \* observer: operations begun

localVars == <<lru, items, recency>>
cacheVars == <<levels, localVars, remote, now, cpc, req, clears, cleared, served, began>>

Present(cache) == DOMAIN cache
Without(cache, gone) == [k \in DOMAIN cache \ gone |-> cache[k]]
With(cache, key, entry) ==
  [k \in DOMAIN cache \cup {key} |-> IF k = key THEN entry ELSE cache[k]]

Empty == [k \in {} |-> 0]
NoPrompt == [built |-> 0, clears |-> 0, delay |-> 0]
NoRequest == [op |-> "none", key |-> "none", prompt |-> NoPrompt, left |-> {}, overlapped |-> FALSE]

(* The clock starts at 1, so that 0 is the zero time.Time. *)
CInit ==
  /\ levels \in {"local", "both"}
  /\ lru = <<>> /\ items = Empty /\ remote = Empty /\ now = 1
  /\ cpc = [t \in Threads |-> "idle"] /\ req = [t \in Threads |-> NoRequest]
  /\ recency = <<>> /\ clears = 0 /\ cleared = 0 /\ served = <<>> /\ began = 0

expiresAt(ttl) == IF ttl = 0 THEN 0 ELSE now + ttl

(* Mutant: an entry is still served at the moment it expires. *)
expiredLate(entry) == entry.expires # 0 /\ entry.expires < now

expired(entry) == entry.expires # 0 /\ entry.expires <= now

(* key moves to the front, or is put there (lru.MoveToFront, PushFront). *)
First(key, order) == <<key>> \o Only(order, Keys \ {key})
ToFront(key) == First(key, lru)
Used(key) == First(key, recency)

CGoto(t, p) == cpc' = At(cpc, t, p)

(* An operation begins; it overlaps with every clear that is under way,    *)
(* and a clear with every operation under way.                             *)
BeginOp(t, r, p) ==
  /\ cpc[t] = "idle"
  /\ began < MaxOps
  /\ began' = began + 1
  /\ CGoto(t, p)
  /\ LET busy == {u \in Threads : cpc[u] # "idle"}
     IN  req' = [u \in Threads |-> IF u = t THEN [r EXCEPT !.overlapped = (busy # {})]
                                   ELSE [req[u] EXCEPT !.overlapped = @ \/ u \in busy]]

EndOp(t) == CGoto(t, "idle") /\ req' = At(req, t, NoRequest)
-----------------------------------------------------------------------------
(* Mutant: a hit does not move its entry to the front. *)
TouchNot(key) == lru

Touch(key) == ToFront(key)

LocalHit(key) == key \in Present(items) /\ ~expired(items[key])

(* messagesForRequest looks its key up: first inMemoryPromptCache.Get,     *)
(* which moves a hit to the front and drops an entry that has expired.     *)
GetLocalHit(t, key) ==
  /\ LocalHit(key)
  /\ cpc[t] = "idle" /\ began < MaxOps /\ began' = began + 1
  /\ lru' = Touch(key) /\ recency' = Used(key)
  /\ served' = <<items[key].prompt, now>>
  /\ UNCHANGED <<levels, items, remote, now, cpc, req, clears, cleared>>

GetLocalMiss(t, key) ==
  /\ ~LocalHit(key)
  /\ BeginOp(t, [NoRequest EXCEPT !.op = "lookup", !.key = key], IF levels = "both" THEN "remoteGet" ELSE "build")
  /\ items' = Without(items, {key})
  /\ lru' = Only(lru, Keys \ {key})
  /\ UNCHANGED <<levels, remote, now, recency, clears, cleared, served>>

(* redisPromptCache.Get; an error is a miss. *)
GetRemote(t, hit) ==
  /\ cpc[t] = "remoteGet"
  /\ hit => req[t].key \in Present(remote) /\ ~expired(remote[req[t].key])
  /\ IF hit THEN CGoto(t, "refill") /\ req' = [req EXCEPT ![t].prompt = remote[req[t].key].prompt]
     ELSE CGoto(t, "build") /\ UNCHANGED req
  /\ UNCHANGED <<levels, localVars, remote, now, clears, cleared, served, began>>

(* The prompt is built, as it is now. *)
Build(t) ==
  /\ cpc[t] = "build"
  /\ CGoto(t, "setLocal")
  /\ req' = [req EXCEPT ![t].prompt = [built |-> now, clears |-> clears, delay |-> 0]]
  /\ UNCHANGED <<levels, localVars, remote, now, clears, cleared, served, began>>

Evict(order) == FirstOf(order, MaxEntries)

(* inMemoryPromptCache.Set, after a build or with what Redis returned: the *)
(* entry comes to the front with a new expiry, and the entries at the back *)
(* are evicted while there are too many.                                   *)
SetLocal(t) ==
  /\ cpc[t] \in {"setLocal", "refill"}
  /\ LET key == req[t].key
         stored == With(items, key, [prompt |-> req[t].prompt, expires |-> expiresAt(LocalTTL)])
     IN  /\ lru' = Evict(ToFront(key))
         /\ items' = [k \in Present(stored) \cap ToSet(Evict(ToFront(key))) |-> stored[k]]
         /\ recency' = Used(key)
  /\ IF cpc[t] = "refill" THEN EndOp(t) /\ served' = <<req[t].prompt, now>>
     ELSE IF levels = "both" THEN CGoto(t, "setRemote") /\ UNCHANGED <<req, served>>
     ELSE EndOp(t) /\ served' = <<req[t].prompt, now>>
  /\ UNCHANGED <<levels, remote, now, clears, cleared, began>>

(* redisPromptCache.Set; an error is ignored. *)
SetRemote(t, ok) ==
  /\ cpc[t] = "setRemote"
  /\ remote' = IF ok THEN With(remote, req[t].key, [prompt |-> req[t].prompt, expires |-> expiresAt(RemoteTTL)])
               ELSE remote
  /\ served' = <<req[t].prompt, now>>
  /\ EndOp(t)
  /\ UNCHANGED <<levels, localVars, now, clears, cleared, began>>
-----------------------------------------------------------------------------
(* Delete and Clear: the local cache first, then Redis.  Under an ended    *)
(* context neither of them does anything.                                  *)
DeleteLocal(t, key) ==
  /\ BeginOp(t, [NoRequest EXCEPT !.op = "delete", !.key = key, !.left = {key}],
             IF levels = "both" THEN "remoteDel" ELSE "end")
  /\ items' = Without(items, {key})
  /\ lru' = Only(lru, Keys \ {key})
  /\ UNCHANGED <<levels, remote, now, recency, clears, cleared, served>>

ClearLocal(t) ==
  /\ BeginOp(t, [NoRequest EXCEPT !.op = "clear"], IF levels = "both" THEN "scan" ELSE "end")
  /\ items' = Empty /\ lru' = <<>>
  /\ clears' = clears + 1
  /\ UNCHANGED <<levels, remote, now, recency, cleared, served>>

(* Mutant: only one page of the keys is cleared. *)
ScanOne == IF Present(remote) = {} THEN {} ELSE {CHOOSE k \in Present(remote) : TRUE}

Scan == Present(remote)

(* redisPromptCache.Clear: SCAN returns the keys that are there throughout *)
(* and perhaps others stored meanwhile; they are deleted one by one.       *)
ScanRemote(t) ==
  /\ cpc[t] = "scan"
  /\ CGoto(t, "remoteDel")
  /\ req' = [req EXCEPT ![t].left = Scan]
  /\ UNCHANGED <<levels, localVars, remote, now, clears, cleared, served, began>>

DeleteRemote(t, key) ==
  /\ cpc[t] = "remoteDel"
  /\ key \in req[t].left \/ (req[t].op = "clear" /\ key \in Present(remote))
  /\ remote' = Without(remote, {key})
  /\ req' = [req EXCEPT ![t].left = @ \ {key}]
  /\ UNCHANGED <<levels, localVars, now, cpc, clears, cleared, served, began>>

(* The call of Redis fails, and the rest is left. *)
RemoteFails(t) ==
  /\ cpc[t] \in {"scan", "remoteDel"}
  /\ EndOp(t)
  /\ UNCHANGED <<levels, localVars, remote, now, clears, cleared, served, began>>

EndMaintenance(t) ==
  /\ cpc[t] = "end" \/ (cpc[t] = "remoteDel" /\ req[t].left = {})
  /\ cleared' = IF req[t].op = "clear" /\ ~req[t].overlapped THEN clears ELSE cleared
  /\ EndOp(t)
  /\ UNCHANGED <<levels, localVars, remote, now, clears, served, began>>

(* Stats drops what has expired, but only in a cache without Redis. *)
Stats ==
  /\ levels = "local"
  /\ \E k \in Present(items) : expired(items[k])
  /\ items' = Without(items, {k \in Present(items) : expired(items[k])})
  /\ lru' = Only(lru, {k \in Present(items) : ~expired(items[k])})
  /\ UNCHANGED <<levels, remote, now, cpc, req, recency, clears, cleared, served, began>>

(* Time passes; Redis forgets what has expired, and prompts under way age. *)
Tick ==
  /\ now < MaxTime
  /\ now' = now + 1
  /\ remote' = Without(remote, {k \in Present(remote) : remote[k].expires = now + 1})
  /\ req' = [t \in Threads |-> IF cpc[t] \in {"setLocal", "setRemote", "refill"}
                               THEN [req[t] EXCEPT !.prompt.delay = @ + 1] ELSE req[t]]
  /\ UNCHANGED <<levels, localVars, cpc, clears, cleared, served, began>>

CStep(t) ==
  \/ \E key \in Keys : GetLocalHit(t, key) \/ GetLocalMiss(t, key) \/ DeleteLocal(t, key) \/ DeleteRemote(t, key)
  \/ \E hit \in BOOLEAN : GetRemote(t, hit) \/ SetRemote(t, hit)
  \/ Build(t) \/ SetLocal(t) \/ ClearLocal(t) \/ ScanRemote(t) \/ RemoteFails(t) \/ EndMaintenance(t)

CNext == (\E t \in Threads : CStep(t)) \/ Stats \/ Tick

CSpec == CInit /\ [][CNext]_cacheVars
-----------------------------------------------------------------------------
Entries == {items[k] : k \in Present(items)} \cup {remote[k] : k \in Present(remote)}

(* The list and the map of the local cache stay in step and within their   *)
(* bound, through hits, refills, expiry, eviction and clearing; and the    *)
(* list is the order of use, so that what Set evicts is what has not been  *)
(* used for longest.                                                       *)
LruExact ==
  /\ ToSet(lru) = Present(items)
  /\ Len(lru) <= MaxEntries
  /\ lru = Only(recency, Present(items))

(* A prompt is not served for longer than it may stay in Redis and then,   *)
(* copied from there at the last moment with a life of its own, in memory, *)
(* apart from the time it was under way.                                   *)
AgeBounded ==
  served # <<>> /\ LocalTTL # 0 /\ RemoteTTL # 0 =>
    served[2] - served[1].built <=
      (LocalTTL - 1) + (IF levels = "both" THEN RemoteTTL - 1 ELSE 0) + served[1].delay

(* Once a Clear that no other operation overlapped has succeeded, neither  *)
(* cache holds a prompt that was built before it, then or ever after.      *)
ClearedForGood == \A e \in Entries : e.prompt.clears >= cleared
=============================================================================
