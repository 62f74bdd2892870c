---------------------------- MODULE CacheProofs ----------------------------
(***************************************************************************)
(* Proofs about PromptCache, for any number of goroutines, keys and        *)
(* entries and all times to live: how old a prompt can be when it is       *)
(* served, that a clear clears, and that the list is the order of use.     *)
(***************************************************************************)
EXTENDS PromptCache, ListTheorems

Prompt == [built : Nat, clears : Nat, delay : Nat]
Entry == [prompt : Prompt, expires : Nat]

Request ==
  [op : {"none", "lookup", "delete", "clear"}, key : Keys \cup {"none"}, prompt : Prompt,
   left : SUBSET (Keys \cup {"none"}), overlapped : BOOLEAN]

(* Where a goroutine can be in each operation; Redis is only called when   *)
(* there is one.                                                           *)
Positions(op) ==
  CASE op = "none" -> {"idle"}
    [] op = "lookup" -> {"remoteGet", "build", "setLocal", "refill", "setRemote"}
    [] op = "delete" -> {"remoteDel", "end"}
    [] op = "clear" -> {"scan", "remoteDel", "end"}

Holds(cache) ==
  DOMAIN cache \subseteq Keys \cup {"none"} /\ \A k \in DOMAIN cache : cache[k] \in Entry

Placed(t) ==
  /\ cpc[t] \in Positions(req[t].op)
  /\ cpc[t] \in {"remoteGet", "refill", "setRemote", "scan", "remoteDel"} => levels = "both"
  /\ cpc[t] = "end" => levels = "local"

CacheTypeOK ==
  /\ levels \in {"local", "both"} /\ now \in Nat /\ clears \in Nat /\ cleared \in Nat
  /\ Holds(items) /\ Holds(remote)
  /\ req \in [Threads -> Request]
  /\ DOMAIN cpc = Threads
  /\ \A t \in Threads : Placed(t)
  /\ levels = "local" => DOMAIN remote = {}

LEMMA NoPromptTypes == NoPrompt \in Prompt /\ NoRequest \in Request
<1>1. NoPrompt \in Prompt
  BY DEF NoPrompt, Prompt
<1>2. QED
  BY <1>1 DEF NoRequest, Request

(* What the beginning of an operation does to the goroutines: it notes     *)
(* who overlaps whom.                                                      *)
LEMMA Began ==
  ASSUME CacheTypeOK, NEW t \in Threads, NEW r \in Request, NEW p, BeginOp(t, r, p)
  PROVE  /\ cpc[t] = "idle" /\ DOMAIN cpc' = Threads /\ req' \in [Threads -> Request]
         /\ cpc'[t] = p /\ req'[t].op = r.op /\ req'[t].prompt = r.prompt /\ req'[t].left = r.left
         /\ req'[t].key = r.key
         /\ ~req'[t].overlapped => \A u \in Threads : cpc[u] = "idle"
         /\ \A u \in Threads \ {t} :
              /\ cpc'[u] = cpc[u] /\ req'[u].op = req[u].op /\ req'[u].prompt = req[u].prompt
              /\ req'[u].left = req[u].left /\ req'[u].key = req[u].key
              /\ ~req'[u].overlapped => ~req[u].overlapped /\ cpc[u] = "idle"
<1> DEFINE busy == {u \in Threads : cpc[u] # "idle"}
           some == busy # {}
           over(u) == req[u].overlapped \/ u \in busy
<1>1. /\ cpc[t] = "idle" /\ cpc' = [cpc EXCEPT ![t] = p] /\ req \in [Threads -> Request] /\ DOMAIN cpc = Threads
      /\ req' = [u \in Threads |-> IF u = t THEN [r EXCEPT !.overlapped = some]
                                   ELSE [req[u] EXCEPT !.overlapped = over(u)]]
  BY DEF BeginOp, CGoto, At, CacheTypeOK
<1>2. some \in BOOLEAN /\ \A u \in Threads : over(u) \in BOOLEAN
  OBVIOUS
<1>3. ~some => \A u \in Threads : cpc[u] = "idle"
  OBVIOUS
<1>4. \A u \in Threads : ~over(u) => ~req[u].overlapped /\ cpc[u] = "idle"
  OBVIOUS
<1> HIDE DEF some, over
<1>5. /\ req'[t] \in Request /\ req'[t].op = r.op /\ req'[t].prompt = r.prompt /\ req'[t].left = r.left
      /\ req'[t].key = r.key /\ req'[t].overlapped = some
  <2>1. req'[t] = [r EXCEPT !.overlapped = some]
    BY <1>1
  <2>2. QED
    BY <2>1, <1>2 DEF Request
<1>6. ASSUME NEW u \in Threads \ {t}
      PROVE  /\ req'[u] \in Request /\ req'[u].op = req[u].op /\ req'[u].prompt = req[u].prompt
             /\ req'[u].left = req[u].left /\ req'[u].key = req[u].key /\ req'[u].overlapped = over(u)
  <2>1. req'[u] = [req[u] EXCEPT !.overlapped = over(u)] /\ req[u] \in Request
    BY <1>1
  <2>2. QED
    BY <2>1, <1>2 DEF Request
<1>7. req' \in [Threads -> Request]
  BY <1>1, <1>5, <1>6
<1>8. QED
  BY <1>1, <1>3, <1>4, <1>5, <1>6, <1>7

LEMMA Ended ==
  ASSUME CacheTypeOK, NEW t \in Threads, EndOp(t)
  PROVE  /\ DOMAIN cpc' = Threads /\ req' \in [Threads -> Request]
         /\ cpc'[t] = "idle" /\ req'[t].op = "none"
         /\ \A u \in Threads \ {t} : cpc'[u] = cpc[u] /\ req'[u] = req[u]
<1>1. NoRequest.op = "none"
  BY DEF NoRequest
<1>2. QED
  BY <1>1, NoPromptTypes DEF EndOp, CGoto, At, CacheTypeOK

(* A goroutine goes on with the prompt it has got. *)
LEMMA Prompted ==
  ASSUME CacheTypeOK, NEW t \in Threads, NEW p, CGoto(t, p), NEW q \in Prompt,
         req' = [req EXCEPT ![t].prompt = q]
  PROVE  /\ DOMAIN cpc' = Threads /\ req' \in [Threads -> Request]
         /\ cpc'[t] = p /\ req'[t].op = req[t].op /\ req'[t].prompt = q /\ req'[t].overlapped = req[t].overlapped
         /\ \A u \in Threads \ {t} : cpc'[u] = cpc[u] /\ req'[u] = req[u]
<1>1. req \in [Threads -> Request] /\ DOMAIN cpc = Threads /\ cpc' = [cpc EXCEPT ![t] = p]
  BY DEF CGoto, At, CacheTypeOK
<1>2. req'[t] = [req[t] EXCEPT !.prompt = q] /\ req[t] \in Request
      /\ \A u \in Threads \ {t} : req'[u] = req[u]
  BY <1>1
<1>3. /\ req'[t] \in Request /\ req'[t].op = req[t].op /\ req'[t].prompt = q
      /\ req'[t].overlapped = req[t].overlapped
  BY <1>2 DEF Request
<1>4. req' \in [Threads -> Request]
  BY <1>1, <1>2, <1>3
<1>5. QED
  BY <1>1, <1>2, <1>3, <1>4

(* What is left to delete gets shorter or is determined.                   *)
LEMMA Remaining ==
  ASSUME CacheTypeOK, NEW t \in Threads, NEW left \in SUBSET (Keys \cup {"none"}),
         req' = [req EXCEPT ![t].left = left]
  PROVE  /\ req' \in [Threads -> Request]
         /\ req'[t].op = req[t].op /\ req'[t].prompt = req[t].prompt /\ req'[t].left = left
         /\ req'[t].overlapped = req[t].overlapped
         /\ \A u \in Threads \ {t} : req'[u] = req[u]
<1>1. req \in [Threads -> Request]
  BY DEF CacheTypeOK
<1>2. req'[t] = [req[t] EXCEPT !.left = left] /\ req[t] \in Request
      /\ \A u \in Threads \ {t} : req'[u] = req[u]
  BY <1>1
<1>3. /\ req'[t] \in Request /\ req'[t].op = req[t].op /\ req'[t].prompt = req[t].prompt
      /\ req'[t].left = left /\ req'[t].overlapped = req[t].overlapped
  BY <1>2 DEF Request
<1>4. req' \in [Threads -> Request]
  BY <1>1, <1>2, <1>3
<1>5. QED
  BY <1>2, <1>3, <1>4

(* Storing and dropping keep a cache a cache. *)
LEMMA WithHolds ==
  ASSUME NEW cache, Holds(cache), NEW key \in Keys \cup {"none"}, NEW entry \in Entry
  PROVE  /\ Holds(With(cache, key, entry))
         /\ \A k \in DOMAIN With(cache, key, entry) :
              With(cache, key, entry)[k] = IF k = key THEN entry ELSE cache[k]
         /\ DOMAIN With(cache, key, entry) = DOMAIN cache \cup {key}
BY DEF With, Holds

LEMMA WithoutHolds ==
  ASSUME NEW cache, NEW gone
  PROVE  /\ DOMAIN Without(cache, gone) = DOMAIN cache \ gone
         /\ \A k \in DOMAIN Without(cache, gone) : Without(cache, gone)[k] = cache[k]
         /\ Holds(cache) => Holds(Without(cache, gone))
BY DEF Without, Holds
-----------------------------------------------------------------------------
LEMMA OperationAt ==
  ASSUME CacheTypeOK, NEW t \in Threads
  PROVE  /\ cpc[t] \in {"remoteGet", "build", "setLocal", "refill", "setRemote"} => req[t].op = "lookup"
         /\ cpc[t] = "scan" => req[t].op = "clear"
         /\ cpc[t] \in {"remoteDel", "end"} => req[t].op \in {"delete", "clear"}
         /\ cpc[t] = "idle" => req[t].op = "none"
         /\ req[t].op = "clear" => cpc[t] \in {"scan", "remoteDel", "end"}
<1>1. Placed(t) /\ req[t].op \in {"none", "lookup", "delete", "clear"}
  BY DEF CacheTypeOK, Request
<1>2. QED
  BY <1>1 DEF Placed, Positions

(* A step of t keeps the types if it does so for t. *)
LEMMA TypesKept ==
  ASSUME CacheTypeOK, NEW t \in Threads, levels' = levels, now' \in Nat, clears' \in Nat, cleared' \in Nat,
         Holds(items'), Holds(remote'), req' \in [Threads -> Request], DOMAIN cpc' = Threads,
         \A u \in Threads \ {t} : cpc'[u] = cpc[u] /\ req'[u].op = req[u].op,
         Placed(t)', levels = "local" => DOMAIN remote' = {}
  PROVE  CacheTypeOK'
<1>1. \A u \in Threads \ {t} : Placed(u)'
  BY DEF CacheTypeOK, Placed
<1>2. QED
  BY <1>1 DEF CacheTypeOK, Holds

LEMMA CacheTypeStep == ASSUME CacheTypeOK, [CNext]_cacheVars PROVE CacheTypeOK'
<1>a. /\ levels \in {"local", "both"} /\ now \in Nat /\ clears \in Nat /\ cleared \in Nat
      /\ Holds(items) /\ Holds(remote) /\ (levels = "local" => DOMAIN remote = {})
      /\ req \in [Threads -> Request] /\ DOMAIN cpc = Threads
  BY DEF CacheTypeOK
<1>b. /\ LocalTTL \in Nat /\ RemoteTTL \in Nat
  BY CacheAssumption
<1>c. \A ttl \in Nat : expiresAt(ttl) \in Nat
  BY <1>a DEF expiresAt
<1>1. ASSUME NEW t \in Threads, NEW key \in Keys, GetLocalHit(t, key) PROVE CacheTypeOK'
  BY <1>1, <1>a DEF GetLocalHit, CacheTypeOK, Holds, Placed
<1>2. ASSUME NEW t \in Threads, NEW key \in Keys, GetLocalMiss(t, key) PROVE CacheTypeOK'
  <2> DEFINE r == [NoRequest EXCEPT !.op = "lookup", !.key = key]
             p == IF levels = "both" THEN "remoteGet" ELSE "build"
  <2>1. r \in Request /\ r.op = "lookup"
    BY NoPromptTypes DEF NoRequest, Request
  <2>2. BeginOp(t, r, p) /\ UNCHANGED <<levels, remote, now, clears, cleared>> /\ Holds(items')
    BY <1>2, <1>a, WithoutHolds DEF GetLocalMiss
  <2>3. p \in Positions("lookup") /\ (p = "remoteGet" => levels = "both")
        /\ p \notin {"refill", "setRemote", "scan", "remoteDel", "end"}
    BY DEF Positions
  <2> HIDE DEF r, p
  <2>4. QED
    BY <2>1, <2>2, <2>3, <1>a, Began, TypesKept DEF Placed
<1>3. ASSUME NEW t \in Threads, NEW key \in Keys, DeleteLocal(t, key) PROVE CacheTypeOK'
  <2> DEFINE r == [NoRequest EXCEPT !.op = "delete", !.key = key, !.left = {key}]
             p == IF levels = "both" THEN "remoteDel" ELSE "end"
  <2>1. r \in Request /\ r.op = "delete"
    BY NoPromptTypes DEF NoRequest, Request
  <2>2. BeginOp(t, r, p) /\ UNCHANGED <<levels, remote, now, clears, cleared>> /\ Holds(items')
    BY <1>3, <1>a, WithoutHolds DEF DeleteLocal
  <2>3. p \in Positions("delete") /\ (p = "remoteDel" => levels = "both") /\ (p = "end" => levels = "local")
        /\ p \notin {"remoteGet", "refill", "setRemote", "scan"}
    BY <1>a DEF Positions
  <2> HIDE DEF r, p
  <2>4. QED
    BY <2>1, <2>2, <2>3, <1>a, Began, TypesKept DEF Placed
<1>4. ASSUME NEW t \in Threads, ClearLocal(t) PROVE CacheTypeOK'
  <2> DEFINE r == [NoRequest EXCEPT !.op = "clear"]
             p == IF levels = "both" THEN "scan" ELSE "end"
  <2>1. r \in Request /\ r.op = "clear"
    BY NoPromptTypes DEF NoRequest, Request
  <2>2. BeginOp(t, r, p) /\ UNCHANGED <<levels, remote, now, cleared>> /\ items' = Empty /\ clears' = clears + 1
    BY <1>4 DEF ClearLocal
  <2>3. p \in Positions("clear") /\ (p = "scan" => levels = "both") /\ (p = "end" => levels = "local")
        /\ p \notin {"remoteGet", "refill", "setRemote", "remoteDel"}
    BY <1>a DEF Positions
  <2>4. Holds(items')
    BY <2>2 DEF Empty, Holds
  <2> HIDE DEF r, p
  <2>5. QED
    BY <2>1, <2>2, <2>3, <2>4, <1>a, Began, TypesKept DEF Placed
<1>5. ASSUME NEW t \in Threads, NEW hit \in BOOLEAN, GetRemote(t, hit) PROVE CacheTypeOK'
  <2>0. cpc[t] = "remoteGet" /\ levels = "both" /\ req[t].op = "lookup"
        /\ UNCHANGED <<levels, items, remote, now, clears, cleared>>
    BY <1>5, OperationAt DEF GetRemote, localVars, CacheTypeOK, Placed
  <2>1. CASE hit
    <3>1. PICK q \in Prompt : q = remote[req[t].key].prompt
      BY <1>5, <1>a, <2>1 DEF GetRemote, Present, Holds, Entry
    <3>2. CGoto(t, "refill") /\ req' = [req EXCEPT ![t].prompt = q]
      BY <1>5, <2>1, <3>1 DEF GetRemote
    <3>3. Placed(t)'
      <4>1. cpc'[t] = "refill" /\ req'[t].op = "lookup"
        BY <2>0, <3>2, Prompted
      <4>2. QED
        BY <2>0, <4>1 DEF Placed, Positions
    <3>4. /\ req' \in [Threads -> Request] /\ DOMAIN cpc' = Threads
          /\ \A u \in Threads \ {t} : cpc'[u] = cpc[u] /\ req'[u] = req[u]
      BY <3>2, Prompted
    <3>5. Holds(items') /\ Holds(remote')
      BY <2>0, <1>a
    <3>6. QED
      BY <2>0, <3>3, <3>4, <3>5, <1>a, TypesKept
  <2>2. CASE ~hit
    <3>1. cpc' = [cpc EXCEPT ![t] = "build"] /\ req' = req
      BY <1>5, <2>2 DEF GetRemote, CGoto, At
    <3>2. Placed(t)'
      BY <2>0, <3>1, <1>a DEF Placed, Positions
    <3>3. QED
      BY <2>0, <3>1, <3>2, <1>a, TypesKept
  <2>3. QED
    BY <2>1, <2>2
<1>6. ASSUME NEW t \in Threads, Build(t) PROVE CacheTypeOK'
  <2>1. PICK q : q = [built |-> now, clears |-> clears, delay |-> 0]
    OBVIOUS
  <2>2. q \in Prompt
    BY <2>1, <1>a DEF Prompt
  <2>3. /\ cpc[t] = "build" /\ CGoto(t, "setLocal") /\ req' = [req EXCEPT ![t].prompt = q]
        /\ UNCHANGED <<levels, items, remote, now, clears, cleared>>
    BY <1>6, <2>1 DEF Build, localVars
  <2>4. Placed(t)'
    <3>1. cpc'[t] = "setLocal" /\ req'[t].op = "lookup"
      BY <2>2, <2>3, Prompted, OperationAt
    <3>2. QED
      BY <3>1 DEF Placed, Positions
  <2>5. QED
    BY <2>2, <2>3, <2>4, <1>a, Prompted, TypesKept
<1>7. ASSUME NEW t \in Threads, SetLocal(t) PROVE CacheTypeOK'
  <2>1. /\ cpc[t] \in {"setLocal", "refill"} /\ req[t].op = "lookup" /\ req[t] \in Request
        /\ UNCHANGED <<levels, remote, now, clears, cleared>>
    BY <1>7, <1>a, OperationAt DEF SetLocal
  <2> DEFINE entry == [prompt |-> req[t].prompt, expires |-> expiresAt(LocalTTL)]
             stored == With(items, req[t].key, entry)
             order == Evict(ToFront(req[t].key))
  <2>2. entry \in Entry /\ req[t].key \in Keys \cup {"none"}
    BY <2>1, <1>b, <1>c DEF Request, Entry
  <2>3. items' = [k \in Present(stored) \cap ToSet(order) |-> stored[k]]
    BY <1>7 DEF SetLocal
  <2>4. Holds(stored)
    BY <2>2, <1>a, WithHolds
  <2> HIDE DEF entry, stored, order
  <2>5. Holds(items')
    BY <2>3, <2>4 DEF Present, Holds
  <2>6. CASE EndOp(t)
    <3>1. Placed(t)'
      BY <2>6, Ended DEF Placed, Positions
    <3>2. QED
      BY <2>1, <2>5, <2>6, <3>1, <1>a, Ended, TypesKept
  <2>7. CASE levels = "both" /\ CGoto(t, "setRemote") /\ req' = req
    <3>1. cpc' = [cpc EXCEPT ![t] = "setRemote"]
      BY <2>7 DEF CGoto, At
    <3>2. Placed(t)'
      BY <2>1, <2>7, <3>1, <1>a DEF Placed, Positions
    <3>3. QED
      BY <2>1, <2>5, <2>7, <3>1, <3>2, <1>a, TypesKept
  <2>8. QED
    BY <1>7, <2>6, <2>7 DEF SetLocal
<1>8. ASSUME NEW t \in Threads, NEW ok \in BOOLEAN, SetRemote(t, ok) PROVE CacheTypeOK'
  <2>1. /\ cpc[t] = "setRemote" /\ levels = "both" /\ req[t] \in Request /\ EndOp(t)
        /\ UNCHANGED <<levels, items, now, clears, cleared>>
    BY <1>8, <1>a DEF SetRemote, localVars, CacheTypeOK, Placed
  <2> DEFINE entry == [prompt |-> req[t].prompt, expires |-> expiresAt(RemoteTTL)]
  <2>2. entry \in Entry /\ req[t].key \in Keys \cup {"none"}
    BY <2>1, <1>b, <1>c DEF Request, Entry
  <2>3. remote' = IF ok THEN With(remote, req[t].key, entry) ELSE remote
    BY <1>8 DEF SetRemote
  <2> HIDE DEF entry
  <2>4. Holds(remote')
    BY <2>2, <2>3, <1>a, WithHolds
  <2>5. Placed(t)'
    BY <2>1, Ended DEF Placed, Positions
  <2>6. QED
    BY <2>1, <2>4, <2>5, <1>a, Ended, TypesKept
<1>9. ASSUME NEW t \in Threads, ScanRemote(t) PROVE CacheTypeOK'
  <2>1. /\ cpc[t] = "scan" /\ levels = "both" /\ req[t].op = "clear" /\ cpc' = [cpc EXCEPT ![t] = "remoteDel"]
        /\ req' = [req EXCEPT ![t].left = Scan] /\ UNCHANGED <<levels, items, remote, now, clears, cleared>>
    BY <1>9, OperationAt DEF ScanRemote, localVars, CacheTypeOK, Placed, CGoto, At
  <2>2. Scan \in SUBSET (Keys \cup {"none"})
    BY <1>a DEF Scan, Present, Holds
  <2>3. Placed(t)'
    BY <2>1, <2>2, <1>a, Remaining DEF Placed, Positions
  <2>4. QED
    BY <2>1, <2>2, <2>3, <1>a, Remaining, TypesKept
<1>10. ASSUME NEW t \in Threads, NEW key \in Keys, DeleteRemote(t, key) PROVE CacheTypeOK'
  <2>1. /\ cpc[t] = "remoteDel" /\ levels = "both" /\ req[t] \in Request
        /\ req' = [req EXCEPT ![t].left = @ \ {key}] /\ remote' = Without(remote, {key})
        /\ UNCHANGED <<levels, items, now, cpc, clears, cleared>>
    BY <1>10, <1>a DEF DeleteRemote, localVars, CacheTypeOK, Placed
  <2>2. PICK left \in SUBSET (Keys \cup {"none"}) : left = req[t].left \ {key}
    BY <2>1 DEF Request
  <2>3. req' = [req EXCEPT ![t].left = left]
    BY <2>1, <2>2, <1>a
  <2>4. Placed(t)'
    BY <2>1, <2>3, Remaining DEF Placed, CacheTypeOK
  <2>5. Holds(remote')
    BY <2>1, <1>a, WithoutHolds
  <2>6. QED
    BY <2>1, <2>3, <2>4, <2>5, <1>a, Remaining, TypesKept
<1>11. ASSUME NEW t \in Threads, RemoteFails(t) \/ EndMaintenance(t) PROVE CacheTypeOK'
  <2>1. EndOp(t) /\ UNCHANGED <<levels, items, remote, now, clears>> /\ cleared' \in Nat
    BY <1>11, <1>a DEF RemoteFails, EndMaintenance, localVars
  <2>2. Placed(t)'
    BY <2>1, Ended DEF Placed, Positions
  <2>3. QED
    BY <2>1, <2>2, <1>a, Ended, TypesKept
<1>12. CASE Stats
  <2>1. Holds(items')
    BY <1>12, <1>a, WithoutHolds DEF Stats
  <2>2. QED
    BY <1>12, <2>1 DEF Stats, CacheTypeOK, Placed, Holds
<1>13. CASE Tick
  <2>1. Holds(remote') /\ (levels = "local" => DOMAIN remote' = {})
    <3>1. PICK gone : gone = {k \in Present(remote) : remote[k].expires = now + 1}
      OBVIOUS
    <3>2. remote' = Without(remote, gone)
      BY <1>13, <3>1 DEF Tick
    <3>3. QED
      <4>1. Holds(Without(remote, gone)) /\ DOMAIN Without(remote, gone) = DOMAIN remote \ gone
        BY <1>a, WithoutHolds
      <4>2. QED
        BY <3>2, <4>1, <1>a
  <2>2. ASSUME NEW t \in Threads PROVE req'[t] \in Request /\ req'[t].op = req[t].op
    <3>1. req[t] \in Request /\ req[t].prompt \in Prompt
      BY <1>a DEF Request
    <3>2. CASE req'[t] = req[t]
      BY <3>1, <3>2
    <3>3. CASE req'[t] = [req[t] EXCEPT !.prompt.delay = @ + 1]
      <4>1. PICK q : q = [req[t].prompt EXCEPT !.delay = @ + 1]
        OBVIOUS
      <4>2. q \in Prompt
        BY <3>1, <4>1 DEF Prompt
      <4>3. req'[t] = [req[t] EXCEPT !.prompt = q]
        BY <3>1, <3>3, <4>1 DEF Request
      <4>4. QED
        BY <3>1, <4>2, <4>3 DEF Request
    <3>4. QED
      BY <1>13, <3>2, <3>3 DEF Tick
  <2>3. req' \in [Threads -> Request]
    BY <1>13, <2>2 DEF Tick
  <2>4. \A t \in Threads : Placed(t)'
    BY <1>13, <2>2 DEF Tick, CacheTypeOK, Placed
  <2>5. QED
    BY <1>13, <2>1, <2>3, <2>4, <1>a DEF Tick, CacheTypeOK, localVars, Holds
<1>14. CASE UNCHANGED cacheVars
  BY <1>14 DEF cacheVars, localVars, CacheTypeOK, Holds, Placed
<1>15. QED
  BY <1>1, <1>2, <1>3, <1>4, <1>5, <1>6, <1>7, <1>8, <1>9, <1>10, <1>11, <1>12, <1>13, <1>14 DEF CNext, CStep
-----------------------------------------------------------------------------
(* How old a prompt can be when it reaches the local cache.                *)
Reach == IF levels = "both" THEN RemoteTTL - 1 ELSE 0

Aged(p, n, extra) == n <= p.built + extra + p.delay

(* A goroutine carries a prompt it has just built, or one that Redis still *)
(* served; what it stores expires accordingly, and what was served last    *)
(* was young enough.                                                       *)
Carried(t) ==
  /\ cpc[t] \in {"setLocal", "setRemote"} => Aged(req[t].prompt, now, 0)
  /\ cpc[t] = "refill" => Aged(req[t].prompt, now, Reach)

Dated(cache, extra) ==
  \A k \in DOMAIN cache : cache[k].expires > 0 /\ Aged(cache[k].prompt, cache[k].expires, extra)

Expire == LocalTTL # 0 /\ RemoteTTL # 0

AgeInv ==
  Expire =>
    /\ \A t \in Threads : Carried(t)
    /\ Dated(items, LocalTTL + Reach)
    /\ Dated(remote, RemoteTTL)
    /\ AgeBounded

LEMMA ReachType ==
  ASSUME CacheTypeOK, Expire
  PROVE  Reach \in Nat /\ LocalTTL \in Nat \ {0} /\ RemoteTTL \in Nat \ {0} /\ now \in Nat
BY CacheAssumption DEF CacheTypeOK, Reach, Expire

(* What was served may be as old as an entry about to expire. *)
LEMMA ServedYoung ==
  ASSUME CacheTypeOK, Expire, levels' = levels, NEW p \in Prompt, Aged(p, now, LocalTTL - 1 + Reach),
         served' = <<p, now>>
  PROVE  AgeBounded'
<1>1. served'[2] = now /\ served'[1] = p /\ p.built \in Nat /\ p.delay \in Nat
  BY DEF Prompt
<1>2. now - p.built <= (LocalTTL - 1) + Reach + p.delay
  BY <1>1, ReachType DEF Aged
<1>3. QED
  BY <1>1, <1>2, CacheAssumption DEF AgeBounded, Reach

(* A step of t keeps the ages if it does so for t, at the same time.       *)
LEMMA AgesKept ==
  ASSUME CacheTypeOK, AgeInv, Expire, NEW t \in Threads, levels' = levels, now' = now,
         \A u \in Threads \ {t} : cpc'[u] = cpc[u] /\ req'[u].prompt = req[u].prompt,
         Carried(t)', Dated(items', LocalTTL + Reach), Dated(remote', RemoteTTL), AgeBounded'
  PROVE  AgeInv'
<1>1. \A u \in Threads \ {t} : Carried(u)'
  BY DEF AgeInv, Carried, Aged, Reach
<1>2. Dated(items, LocalTTL + Reach)' /\ Dated(remote, RemoteTTL)'
  BY DEF Dated, Aged, Reach
<1>3. QED
  BY <1>1, <1>2 DEF AgeInv

LEMMA DatedLess ==
  ASSUME NEW cache, NEW extra, Dated(cache, extra), NEW gone
  PROVE  Dated(Without(cache, gone), extra)
BY DEF Dated, Without

LEMMA DatedMore ==
  ASSUME NEW cache, NEW extra, Dated(cache, extra), NEW key, NEW entry,
         entry.expires > 0, Aged(entry.prompt, entry.expires, extra)
  PROVE  Dated(With(cache, key, entry), extra)
BY DEF Dated, With

LEMMA BoundedKept == ASSUME AgeBounded, levels' = levels, served' = served PROVE AgeBounded'
BY DEF AgeBounded

LEMMA AgeStep == ASSUME CacheTypeOK, AgeInv, [CNext]_cacheVars PROVE AgeInv'
<1> SUFFICES ASSUME Expire PROVE AgeInv'
  BY DEF AgeInv, Expire
<1>a. /\ \A t \in Threads : Carried(t)
      /\ Dated(items, LocalTTL + Reach) /\ Dated(remote, RemoteTTL) /\ AgeBounded
  BY DEF AgeInv
<1>b. /\ Reach \in Nat /\ LocalTTL \in Nat \ {0} /\ RemoteTTL \in Nat \ {0} /\ now \in Nat
      /\ \A t \in Threads : req[t] \in Request
      /\ Holds(items) /\ Holds(remote)
  BY ReachType DEF CacheTypeOK
<1>c. \A p \in Prompt : p.built \in Nat /\ p.delay \in Nat
  BY DEF Prompt
<1>d. \A t \in Threads : req[t].prompt \in Prompt /\ req[t].prompt.built \in Nat /\ req[t].prompt.delay \in Nat
  BY <1>b, <1>c DEF Request
<1>1. ASSUME NEW t \in Threads, NEW key \in Keys, GetLocalHit(t, key) PROVE AgeInv'
  <2>1. key \in DOMAIN items /\ ~expired(items[key]) /\ served' = <<items[key].prompt, now>>
        /\ UNCHANGED <<levels, items, remote, now, cpc, req>>
    BY <1>1 DEF GetLocalHit, LocalHit, Present
  <2>2. items[key].prompt \in Prompt /\ items[key].expires \in Nat
    BY <2>1, <1>b DEF Holds, Entry
  <2>3. items[key].expires > now /\ Aged(items[key].prompt, items[key].expires, LocalTTL + Reach)
    BY <2>1, <2>2, <1>a, <1>b DEF Dated, expired
  <2>4. Aged(items[key].prompt, now, LocalTTL - 1 + Reach)
    BY <2>2, <2>3, <1>b, <1>c DEF Aged
  <2>5. AgeBounded'
    BY <2>1, <2>2, <2>4, ServedYoung
  <2>6. Carried(t)' /\ \A u \in Threads \ {t} : cpc'[u] = cpc[u] /\ req'[u].prompt = req[u].prompt
    BY <2>1, <1>a DEF Carried, Aged, Reach
  <2>7. QED
    BY <2>1, <2>5, <2>6, <1>a, AgesKept
<1>2. ASSUME NEW t \in Threads, NEW r \in Request, NEW p, BeginOp(t, r, p),
             p \notin {"setLocal", "setRemote", "refill"},
             UNCHANGED <<levels, remote, now, served>>, Dated(items', LocalTTL + Reach)
      PROVE  AgeInv'
  <2>1. cpc'[t] = p /\ \A u \in Threads \ {t} : cpc'[u] = cpc[u] /\ req'[u].prompt = req[u].prompt
    BY <1>2, Began
  <2>2. Carried(t)'
    BY <2>1, <1>2 DEF Carried
  <2>3. QED
    BY <2>1, <2>2, <1>2, <1>a, AgesKept, BoundedKept
<1>3. ASSUME NEW t \in Threads, NEW key \in Keys, GetLocalMiss(t, key) PROVE AgeInv'
  <2>1. [NoRequest EXCEPT !.op = "lookup", !.key = key] \in Request
    BY NoPromptTypes DEF NoRequest, Request
  <2>2. BeginOp(t, [NoRequest EXCEPT !.op = "lookup", !.key = key], IF levels = "both" THEN "remoteGet" ELSE "build")
        /\ UNCHANGED <<levels, remote, now, served>> /\ Dated(items', LocalTTL + Reach)
    BY <1>3, <1>a, DatedLess DEF GetLocalMiss
  <2>3. QED
    BY <2>1, <2>2, <1>2
<1>4. ASSUME NEW t \in Threads, NEW key \in Keys, DeleteLocal(t, key) PROVE AgeInv'
  <2>1. [NoRequest EXCEPT !.op = "delete", !.key = key, !.left = {key}] \in Request
    BY NoPromptTypes DEF NoRequest, Request
  <2>2. BeginOp(t, [NoRequest EXCEPT !.op = "delete", !.key = key, !.left = {key}],
                IF levels = "both" THEN "remoteDel" ELSE "end")
        /\ UNCHANGED <<levels, remote, now, served>> /\ Dated(items', LocalTTL + Reach)
    BY <1>4, <1>a, DatedLess DEF DeleteLocal
  <2>3. QED
    BY <2>1, <2>2, <1>2
<1>5. ASSUME NEW t \in Threads, ClearLocal(t) PROVE AgeInv'
  <2>1. [NoRequest EXCEPT !.op = "clear"] \in Request
    BY NoPromptTypes DEF NoRequest, Request
  <2>2. BeginOp(t, [NoRequest EXCEPT !.op = "clear"], IF levels = "both" THEN "scan" ELSE "end")
        /\ UNCHANGED <<levels, remote, now, served>> /\ items' = Empty
    BY <1>5 DEF ClearLocal
  <2>3. Dated(items', LocalTTL + Reach)
    BY <2>2 DEF Dated, Empty
  <2>4. QED
    BY <2>1, <2>2, <2>3, <1>2
<1>6. ASSUME NEW t \in Threads, NEW hit \in BOOLEAN, GetRemote(t, hit) PROVE AgeInv'
  <2>0. cpc[t] = "remoteGet" /\ levels = "both" /\ UNCHANGED <<levels, items, remote, now, served>>
    BY <1>6 DEF GetRemote, localVars, CacheTypeOK, Placed
  <2>1. CASE hit
    <3>1. PICK e : e = remote[req[t].key]
      OBVIOUS
    <3>2. req[t].key \in DOMAIN remote /\ ~expired(e) /\ CGoto(t, "refill") /\ req' = [req EXCEPT ![t].prompt = e.prompt]
      BY <1>6, <2>1, <3>1 DEF GetRemote, Present
    <3>3. e.prompt \in Prompt /\ e.expires \in Nat
      BY <3>1, <3>2, <1>b DEF Holds, Entry
    <3>4. e.expires > now /\ Aged(e.prompt, e.expires, RemoteTTL)
      BY <3>1, <3>2, <3>3, <1>a, <1>b DEF Dated, expired
    <3>5. Aged(e.prompt, now, RemoteTTL - 1)
      BY <3>3, <3>4, <1>b, <1>c DEF Aged
    <3>6. cpc'[t] = "refill" /\ req'[t].prompt = e.prompt
          /\ \A u \in Threads \ {t} : cpc'[u] = cpc[u] /\ req'[u] = req[u]
      BY <3>2, <3>3, Prompted
    <3>7. Carried(t)'
      BY <2>0, <3>5, <3>6 DEF Carried, Reach, Aged
    <3>8. QED
      BY <2>0, <3>6, <3>7, <1>a, AgesKept, BoundedKept
  <2>2. CASE ~hit
    <3>1. cpc' = [cpc EXCEPT ![t] = "build"] /\ req' = req
      BY <1>6, <2>2 DEF GetRemote, CGoto, At
    <3>2. cpc'[t] = "build" /\ \A u \in Threads \ {t} : cpc'[u] = cpc[u] /\ req'[u] = req[u]
      BY <3>1 DEF CacheTypeOK
    <3>3. Carried(t)'
      BY <3>2 DEF Carried
    <3>4. QED
      BY <2>0, <3>2, <3>3, <1>a, AgesKept, BoundedKept
  <2>3. QED
    BY <2>1, <2>2
<1>7. ASSUME NEW t \in Threads, Build(t) PROVE AgeInv'
  <2>1. PICK q : q = [built |-> now, clears |-> clears, delay |-> 0]
    OBVIOUS
  <2>2. q \in Prompt /\ q.built = now /\ q.delay = 0
    BY <2>1 DEF Prompt, CacheTypeOK
  <2>3. CGoto(t, "setLocal") /\ req' = [req EXCEPT ![t].prompt = q] /\ UNCHANGED <<levels, items, remote, now, served>>
    BY <1>7, <2>1 DEF Build, localVars
  <2>4. cpc'[t] = "setLocal" /\ req'[t].prompt = q
        /\ \A u \in Threads \ {t} : cpc'[u] = cpc[u] /\ req'[u] = req[u]
    BY <2>2, <2>3, Prompted
  <2>5. Carried(t)'
    BY <2>2, <2>3, <2>4, <1>b DEF Carried, Aged
  <2>6. QED
    BY <2>3, <2>4, <2>5, <1>a, AgesKept, BoundedKept
<1>8. ASSUME NEW t \in Threads, SetLocal(t) PROVE AgeInv'
  <2> DEFINE p == req[t].prompt
             entry == [prompt |-> p, expires |-> expiresAt(LocalTTL)]
             stored == With(items, req[t].key, entry)
             order == Evict(ToFront(req[t].key))
  <2>1. /\ cpc[t] \in {"setLocal", "refill"} /\ UNCHANGED <<levels, remote, now>>
        /\ items' = [k \in Present(stored) \cap ToSet(order) |-> stored[k]]
    BY <1>8 DEF SetLocal
  <2>2. p \in Prompt /\ Aged(p, now, Reach) /\ (cpc[t] = "setLocal" => Aged(p, now, 0))
    BY <2>1, <1>a, <1>b, <1>d DEF Carried, Aged
  <2>3. Aged(p, now, LocalTTL - 1 + Reach) /\ Aged(p, now + LocalTTL, LocalTTL + Reach) /\ now + LocalTTL > 0
    <3>1. p.built \in Nat /\ p.delay \in Nat
      BY <2>2, <1>c
    <3>2. now <= p.built + Reach + p.delay
      BY <2>2 DEF Aged
    <3> HIDE DEF p
    <3>3. QED
      BY <3>1, <3>2, <1>b DEF Aged
  <2>4. entry.expires > 0 /\ Aged(entry.prompt, entry.expires, LocalTTL + Reach)
    BY <2>3, <1>b DEF expiresAt
  <2> HIDE DEF p, entry, order
  <2>5. Dated(stored, LocalTTL + Reach)
    BY <2>4, <1>a, DatedMore
  <2> HIDE DEF stored
  <2>6. Dated(items', LocalTTL + Reach)
    BY <2>1, <2>5 DEF Present, Dated
  <2>7. CASE EndOp(t) /\ served' = <<p, now>>
    <3>1. AgeBounded'
      BY <2>1, <2>2, <2>3, <2>7, ServedYoung
    <3>2. cpc'[t] = "idle" /\ \A u \in Threads \ {t} : cpc'[u] = cpc[u] /\ req'[u] = req[u]
      BY <2>7, Ended
    <3>3. Carried(t)'
      BY <3>2 DEF Carried
    <3>4. QED
      BY <2>1, <2>6, <3>1, <3>2, <3>3, <1>a, AgesKept
  <2>8. CASE cpc[t] = "setLocal" /\ CGoto(t, "setRemote") /\ req' = req /\ served' = served
    <3>1. cpc'[t] = "setRemote" /\ \A u \in Threads \ {t} : cpc'[u] = cpc[u] /\ req'[u] = req[u]
      BY <2>8 DEF CGoto, At, CacheTypeOK
    <3>2. Carried(t)'
      BY <2>1, <2>2, <2>8, <3>1 DEF Carried, p
    <3>3. QED
      BY <2>1, <2>6, <2>8, <3>1, <3>2, <1>a, AgesKept, BoundedKept
  <2>9. QED
    BY <1>8, <2>1, <2>7, <2>8 DEF SetLocal, p
<1>9. ASSUME NEW t \in Threads, NEW ok \in BOOLEAN, SetRemote(t, ok) PROVE AgeInv'
  <2> DEFINE p == req[t].prompt
             entry == [prompt |-> p, expires |-> expiresAt(RemoteTTL)]
  <2>1. /\ cpc[t] = "setRemote" /\ EndOp(t) /\ served' = <<p, now>> /\ UNCHANGED <<levels, items, now>>
        /\ remote' = IF ok THEN With(remote, req[t].key, entry) ELSE remote
    BY <1>9 DEF SetRemote, localVars
  <2>2. p \in Prompt /\ Aged(p, now, 0)
    BY <2>1, <1>a, <1>d DEF Carried
  <2>3. Aged(p, now, LocalTTL - 1 + Reach) /\ Aged(p, now + RemoteTTL, RemoteTTL) /\ now + RemoteTTL > 0
    <3>1. p.built \in Nat /\ p.delay \in Nat
      BY <2>2, <1>c
    <3>2. now <= p.built + p.delay
      BY <2>2, <3>1, <1>b DEF Aged
    <3> HIDE DEF p
    <3>3. QED
      BY <3>1, <3>2, <1>b DEF Aged
  <2>4. entry.expires > 0 /\ Aged(entry.prompt, entry.expires, RemoteTTL)
    BY <2>3, <1>b DEF expiresAt
  <2> HIDE DEF p, entry
  <2>5. Dated(remote', RemoteTTL)
    BY <2>1, <2>4, <1>a, DatedMore
  <2>6. AgeBounded'
    BY <2>1, <2>2, <2>3, ServedYoung
  <2>7. cpc'[t] = "idle" /\ \A u \in Threads \ {t} : cpc'[u] = cpc[u] /\ req'[u] = req[u]
    BY <2>1, Ended
  <2>8. Carried(t)'
    BY <2>7 DEF Carried
  <2>9. QED
    BY <2>1, <2>5, <2>6, <2>7, <2>8, <1>a, AgesKept
<1>10. ASSUME NEW t \in Threads, ScanRemote(t) PROVE AgeInv'
  <2>1. PICK left : left = Scan
    OBVIOUS
  <2>2. cpc' = [cpc EXCEPT ![t] = "remoteDel"] /\ req' = [req EXCEPT ![t].left = left]
        /\ UNCHANGED <<levels, items, remote, now, served>>
    BY <1>10, <2>1 DEF ScanRemote, localVars, CGoto, At
  <2>3. cpc'[t] = "remoteDel" /\ \A u \in Threads \ {t} : cpc'[u] = cpc[u] /\ req'[u] = req[u]
    BY <2>2 DEF CacheTypeOK
  <2>4. Carried(t)'
    BY <2>3 DEF Carried
  <2>5. QED
    BY <2>2, <2>3, <2>4, <1>a, AgesKept, BoundedKept
<1>11. ASSUME NEW t \in Threads, NEW key \in Keys, DeleteRemote(t, key) PROVE AgeInv'
  <2>1. cpc[t] = "remoteDel" /\ cpc' = cpc /\ req' = [req EXCEPT ![t].left = @ \ {key}]
        /\ remote' = Without(remote, {key}) /\ UNCHANGED <<levels, items, now, served>>
    BY <1>11 DEF DeleteRemote, localVars
  <2>2. Carried(t)' /\ \A u \in Threads \ {t} : cpc'[u] = cpc[u] /\ req'[u] = req[u]
    BY <2>1 DEF Carried, CacheTypeOK
  <2>3. Dated(remote', RemoteTTL)
    BY <2>1, <1>a, DatedLess
  <2>4. QED
    BY <2>1, <2>2, <2>3, <1>a, AgesKept, BoundedKept
<1>12. ASSUME NEW t \in Threads, RemoteFails(t) \/ EndMaintenance(t) PROVE AgeInv'
  <2>1. EndOp(t) /\ UNCHANGED <<levels, items, remote, now, served>>
    BY <1>12 DEF RemoteFails, EndMaintenance, localVars
  <2>2. cpc'[t] = "idle" /\ \A u \in Threads \ {t} : cpc'[u] = cpc[u] /\ req'[u] = req[u]
    BY <2>1, Ended
  <2>3. Carried(t)'
    BY <2>2 DEF Carried
  <2>4. QED
    BY <2>1, <2>2, <2>3, <1>a, AgesKept, BoundedKept
<1>13. CASE Stats
  <2>1. /\ UNCHANGED <<levels, remote, now, cpc, req, served>>
        /\ items' = Without(items, {k \in Present(items) : expired(items[k])})
    BY <1>13 DEF Stats
  <2>2. Dated(items', LocalTTL + Reach)
    BY <2>1, <1>a, DatedLess
  <2>3. Dated(items, LocalTTL + Reach)' /\ Dated(remote, RemoteTTL)' /\ AgeBounded'
    BY <2>1, <2>2, <1>a, BoundedKept DEF Dated, Aged, Reach
  <2>4. \A t \in Threads : Carried(t)'
    BY <2>1, <1>a DEF Carried, Aged, Reach
  <2>5. QED
    BY <2>3, <2>4 DEF AgeInv
<1>14. CASE Tick
  <2>1. /\ now' = now + 1 /\ UNCHANGED <<levels, items, cpc, served>>
        /\ remote' = Without(remote, {k \in Present(remote) : remote[k].expires = now + 1})
        /\ req' = [t \in Threads |-> IF cpc[t] \in {"setLocal", "setRemote", "refill"}
                                     THEN [req[t] EXCEPT !.prompt.delay = @ + 1] ELSE req[t]]
    BY <1>14 DEF Tick, localVars
  <2>2. Dated(remote', RemoteTTL)
    BY <2>1, <1>a, DatedLess
  <2>3. Dated(items, LocalTTL + Reach)' /\ Dated(remote, RemoteTTL)' /\ AgeBounded'
    BY <2>1, <2>2, <1>a, BoundedKept DEF Dated, Aged, Reach
  <2>4. ASSUME NEW t \in Threads PROVE Carried(t)'
    <3>1. CASE cpc[t] \in {"setLocal", "setRemote", "refill"}
      <4>1. req'[t] = [req[t] EXCEPT !.prompt.delay = @ + 1] /\ cpc'[t] = cpc[t]
        BY <2>1, <3>1
      <4>2. req'[t].prompt.built = req[t].prompt.built /\ req'[t].prompt.delay = req[t].prompt.delay + 1
        BY <4>1, <1>b DEF Request, Prompt
      <4>3. Carried(t) /\ Reach' = Reach
        BY <2>1, <1>a DEF Reach
      <4>4. QED
        BY <2>1, <4>1, <4>2, <4>3, <1>b, <1>d DEF Carried, Aged
    <3>2. CASE cpc[t] \notin {"setLocal", "setRemote", "refill"}
      BY <2>1, <3>2 DEF Carried
    <3>3. QED
      BY <3>1, <3>2
  <2>5. QED
    BY <2>3, <2>4 DEF AgeInv
<1>15. CASE UNCHANGED cacheVars
  <2>1. Dated(items, LocalTTL + Reach)' /\ Dated(remote, RemoteTTL)' /\ AgeBounded'
    BY <1>15, <1>a, BoundedKept DEF Dated, Aged, Reach, cacheVars, localVars
  <2>2. \A t \in Threads : Carried(t)'
    BY <1>15, <1>a DEF Carried, Aged, Reach, cacheVars, localVars
  <2>3. QED
    BY <2>1, <2>2 DEF AgeInv
<1>16. QED
  BY <1>1, <1>3, <1>4, <1>5, <1>6, <1>7, <1>8, <1>9, <1>10, <1>11, <1>12, <1>13, <1>14, <1>15 DEF CNext, CStep
-----------------------------------------------------------------------------
(* A clear that no other operation overlaps works alone: nobody else is in *)
(* the middle of an operation, the local cache is empty, and while it      *)
(* deletes what it scanned, nothing else is in Redis.                      *)
Solo(t) == req[t].op = "clear" /\ ~req[t].overlapped

Alone(t) ==
  /\ \A u \in Threads \ {t} : cpc[u] = "idle"
  /\ DOMAIN items = {}
  /\ cpc[t] = "remoteDel" => DOMAIN remote \subseteq req[t].left

(* What a goroutine carries to a cache. *)
Carries(t) == cpc[t] \in {"setLocal", "refill", "setRemote"}

Newer(cache, c) == \A k \in DOMAIN cache : cache[k].prompt.clears >= c

ClearInv ==
  /\ cleared <= clears
  /\ Newer(items, cleared) /\ Newer(remote, cleared)
  /\ \A t \in Threads : Carries(t) => req[t].prompt.clears >= cleared
  /\ \A t \in Threads : Solo(t) => Alone(t)

LEMMA NewerClears == ASSUME Newer(items, cleared), Newer(remote, cleared) PROVE ClearedForGood
BY DEF ClearedForGood, Entries, Present, Newer

LEMMA NewerLess ==
  ASSUME NEW cache, NEW c, Newer(cache, c), NEW gone
  PROVE  Newer(Without(cache, gone), c)
BY DEF Newer, Without

LEMMA NewerMore ==
  ASSUME NEW cache, NEW c, Newer(cache, c), NEW key, NEW entry, entry.prompt.clears >= c
  PROVE  Newer(With(cache, key, entry), c)
BY DEF Newer, With

(* While one goroutine is in an operation, no other clear is alone. *)
LEMMA NotAlone ==
  ASSUME CacheTypeOK, ClearInv, NEW t \in Threads, cpc[t] # "idle"
  PROVE  \A u \in Threads \ {t} : ~Solo(u)
BY DEF ClearInv, Alone

(* A step of a goroutine in the middle of an operation that is no clear    *)
(* and that brings nothing old into the caches.                            *)
LEMMA ClearKept ==
  ASSUME CacheTypeOK, ClearInv, NEW t \in Threads, cpc[t] # "idle",
         clears' = clears, cleared' = cleared,
         \A u \in Threads \ {t} : cpc'[u] = cpc[u] /\ req'[u] = req[u],
         Carries(t)' => req'[t].prompt.clears >= cleared,
         Newer(items', cleared), Newer(remote', cleared), Solo(t)' => Alone(t)'
  PROVE  ClearInv'
<1>1. \A u \in Threads \ {t} : (Carries(u) => req[u].prompt.clears >= cleared)'
  BY DEF ClearInv, Carries
<1>2. \A u \in Threads \ {t} : ~Solo(u)'
  BY NotAlone DEF Solo
<1>3. Newer(items, cleared)' /\ Newer(remote, cleared)'
  BY DEF Newer
<1>4. QED
  BY <1>1, <1>2, <1>3 DEF ClearInv

(* An operation that begins carries nothing yet.                           *)
LEMMA ClearBegins ==
  ASSUME CacheTypeOK, ClearInv, NEW t \in Threads, NEW r \in Request, NEW p, BeginOp(t, r, p),
         p \notin {"setLocal", "setRemote", "refill"}, r.op = "clear" => p # "remoteDel",
         cleared' = cleared, clears' >= clears, clears' \in Nat, remote' = remote,
         Newer(items', cleared), r.op = "clear" => DOMAIN items' = {}
  PROVE  ClearInv'
<1>1. /\ cpc'[t] = p /\ req'[t].op = r.op
      /\ ~req'[t].overlapped => \A u \in Threads : cpc[u] = "idle"
      /\ \A u \in Threads \ {t} : /\ cpc'[u] = cpc[u] /\ req'[u].op = req[u].op /\ req'[u].prompt = req[u].prompt
                                  /\ ~req'[u].overlapped => cpc[u] = "idle"
  BY Began
<1>2. \A u \in Threads : (Carries(u) => req[u].prompt.clears >= cleared)'
  BY <1>1 DEF ClearInv, Carries
<1>3. \A u \in Threads \ {t} : ~Solo(u)'
  BY <1>1, OperationAt DEF Solo
<1>4. Solo(t)' => Alone(t)'
  BY <1>1 DEF Solo, Alone
<1>5. Newer(items, cleared)' /\ Newer(remote, cleared)'
  BY DEF Newer, ClearInv
<1>6. cleared' <= clears'
  BY DEF ClearInv, CacheTypeOK
<1>7. QED
  BY <1>2, <1>3, <1>4, <1>5, <1>6 DEF ClearInv

LEMMA ClearStep == ASSUME CacheTypeOK, ClearInv, [CNext]_cacheVars PROVE ClearInv'
<1>a. /\ cleared <= clears /\ Newer(items, cleared) /\ Newer(remote, cleared)
      /\ \A t \in Threads : Carries(t) => req[t].prompt.clears >= cleared
      /\ \A t \in Threads : Solo(t) => Alone(t)
  BY DEF ClearInv
<1>b. /\ \A t \in Threads : req[t] \in Request /\ req[t].prompt \in Prompt /\ req[t].prompt.clears \in Nat
      /\ cleared \in Nat /\ clears \in Nat /\ Holds(items) /\ Holds(remote)
  BY DEF CacheTypeOK, Request, Prompt
<1>1. ASSUME NEW t \in Threads, NEW key \in Keys, GetLocalHit(t, key) PROVE ClearInv'
  BY <1>1 DEF GetLocalHit, ClearInv, Newer, Carries, Solo, Alone
<1>3. ASSUME NEW t \in Threads, NEW key \in Keys, GetLocalMiss(t, key) PROVE ClearInv'
  <2> DEFINE r == [NoRequest EXCEPT !.op = "lookup", !.key = key]
             p == IF levels = "both" THEN "remoteGet" ELSE "build"
  <2>1. r \in Request /\ r.op = "lookup" /\ p \notin {"setLocal", "setRemote", "refill", "remoteDel"}
    BY NoPromptTypes DEF NoRequest, Request
  <2>2. BeginOp(t, r, p) /\ UNCHANGED <<remote, clears, cleared>> /\ Newer(items', cleared)
    BY <1>3, <1>a, NewerLess DEF GetLocalMiss
  <2> HIDE DEF r, p
  <2>3. QED
    BY <2>1, <2>2, <1>b, ClearBegins
<1>4. ASSUME NEW t \in Threads, NEW key \in Keys, DeleteLocal(t, key) PROVE ClearInv'
  <2> DEFINE r == [NoRequest EXCEPT !.op = "delete", !.key = key, !.left = {key}]
             p == IF levels = "both" THEN "remoteDel" ELSE "end"
  <2>1. r \in Request /\ r.op = "delete" /\ p \notin {"setLocal", "setRemote", "refill"}
    BY NoPromptTypes DEF NoRequest, Request
  <2>2. BeginOp(t, r, p) /\ UNCHANGED <<remote, clears, cleared>> /\ Newer(items', cleared)
    BY <1>4, <1>a, NewerLess DEF DeleteLocal
  <2> HIDE DEF r, p
  <2>3. QED
    BY <2>1, <2>2, <1>b, ClearBegins
<1>5. ASSUME NEW t \in Threads, ClearLocal(t) PROVE ClearInv'
  <2> DEFINE r == [NoRequest EXCEPT !.op = "clear"]
             p == IF levels = "both" THEN "scan" ELSE "end"
  <2>1. r \in Request /\ p \notin {"setLocal", "setRemote", "refill", "remoteDel"}
    BY NoPromptTypes DEF NoRequest, Request
  <2>2. BeginOp(t, r, p) /\ UNCHANGED <<remote, cleared>> /\ clears' = clears + 1 /\ items' = Empty
    BY <1>5 DEF ClearLocal
  <2>3. DOMAIN items' = {} /\ Newer(items', cleared)
    BY <2>2 DEF Empty, Newer
  <2> HIDE DEF r, p
  <2>4. QED
    BY <2>1, <2>2, <2>3, <1>b, ClearBegins
<1>6. ASSUME NEW t \in Threads, NEW hit \in BOOLEAN, GetRemote(t, hit) PROVE ClearInv'
  <2>0. cpc[t] = "remoteGet" /\ req[t].op = "lookup" /\ UNCHANGED <<items, remote, clears, cleared>>
    BY <1>6, OperationAt DEF GetRemote, localVars
  <2>1. CASE hit
    <3>1. PICK q \in Prompt : q = remote[req[t].key].prompt /\ q.clears >= cleared
      BY <1>6, <2>1, <1>a, <1>b DEF GetRemote, Present, Newer, Holds, Entry
    <3>2. CGoto(t, "refill") /\ req' = [req EXCEPT ![t].prompt = q]
      BY <1>6, <2>1, <3>1 DEF GetRemote
    <3>3. req'[t].prompt = q /\ req'[t].op = "lookup" /\ \A u \in Threads \ {t} : cpc'[u] = cpc[u] /\ req'[u] = req[u]
      BY <2>0, <3>2, Prompted
    <3>4. ~Solo(t)'
      BY <3>3 DEF Solo
    <3>5. QED
      BY <2>0, <3>1, <3>3, <3>4, <1>a, ClearKept
  <2>2. CASE ~hit
    <3>1. cpc' = [cpc EXCEPT ![t] = "build"] /\ req' = req
      BY <1>6, <2>2 DEF GetRemote, CGoto, At
    <3>2. cpc'[t] = "build" /\ \A u \in Threads \ {t} : cpc'[u] = cpc[u] /\ req'[u] = req[u]
      BY <3>1 DEF CacheTypeOK
    <3>3. ~Solo(t)' /\ ~Carries(t)'
      BY <2>0, <3>1, <3>2 DEF Solo, Carries
    <3>4. QED
      BY <2>0, <3>2, <3>3, <1>a, ClearKept
  <2>3. QED
    BY <2>1, <2>2
<1>7. ASSUME NEW t \in Threads, Build(t) PROVE ClearInv'
  <2>1. PICK q : q = [built |-> now, clears |-> clears, delay |-> 0]
    OBVIOUS
  <2>2. q \in Prompt /\ q.clears >= cleared
    BY <2>1, <1>a, <1>b DEF Prompt, CacheTypeOK
  <2>3. cpc[t] = "build" /\ CGoto(t, "setLocal") /\ req' = [req EXCEPT ![t].prompt = q]
        /\ UNCHANGED <<items, remote, clears, cleared>>
    BY <1>7, <2>1 DEF Build, localVars
  <2>4. req'[t].prompt = q /\ req'[t].op = "lookup" /\ \A u \in Threads \ {t} : cpc'[u] = cpc[u] /\ req'[u] = req[u]
    BY <2>2, <2>3, Prompted, OperationAt
  <2>5. ~Solo(t)'
    BY <2>4 DEF Solo
  <2>6. QED
    BY <2>2, <2>3, <2>4, <2>5, <1>a, ClearKept
<1>8. ASSUME NEW t \in Threads, SetLocal(t) PROVE ClearInv'
  <2> DEFINE p == req[t].prompt
             entry == [prompt |-> p, expires |-> expiresAt(LocalTTL)]
             stored == With(items, req[t].key, entry)
             order == Evict(ToFront(req[t].key))
  <2>1. /\ cpc[t] \in {"setLocal", "refill"} /\ UNCHANGED <<remote, clears, cleared>>
        /\ items' = [k \in Present(stored) \cap ToSet(order) |-> stored[k]]
    BY <1>8 DEF SetLocal
  <2>2. req[t].op = "lookup" /\ entry.prompt.clears >= cleared /\ p.clears >= cleared
    BY <2>1, <1>a, OperationAt DEF Carries
  <2> HIDE DEF entry, order
  <2>3. Newer(stored, cleared)
    BY <2>2, <1>a, NewerMore
  <2> HIDE DEF stored
  <2>4. Newer(items', cleared)
    BY <2>1, <2>3 DEF Present, Newer
  <2>5. CASE EndOp(t)
    <3>1. cpc'[t] = "idle" /\ req'[t].op = "none" /\ \A u \in Threads \ {t} : cpc'[u] = cpc[u] /\ req'[u] = req[u]
      BY <2>5, Ended
    <3>2. ~Solo(t)' /\ ~Carries(t)'
      BY <3>1 DEF Solo, Carries
    <3>3. QED
      BY <2>1, <2>4, <3>1, <3>2, <1>a, ClearKept
  <2>6. CASE CGoto(t, "setRemote") /\ req' = req
    <3>1. \A u \in Threads \ {t} : cpc'[u] = cpc[u] /\ req'[u] = req[u]
      BY <2>6 DEF CGoto, At, CacheTypeOK
    <3>2. ~Solo(t)'
      BY <2>2, <2>6 DEF Solo
    <3>3. QED
      BY <2>1, <2>2, <2>4, <2>6, <3>1, <3>2, <1>a, ClearKept
  <2>7. QED
    BY <1>8, <2>5, <2>6 DEF SetLocal
<1>9. ASSUME NEW t \in Threads, NEW ok \in BOOLEAN, SetRemote(t, ok) PROVE ClearInv'
  <2> DEFINE entry == [prompt |-> req[t].prompt, expires |-> expiresAt(RemoteTTL)]
  <2>1. /\ cpc[t] = "setRemote" /\ EndOp(t) /\ UNCHANGED <<items, clears, cleared>>
        /\ remote' = IF ok THEN With(remote, req[t].key, entry) ELSE remote
    BY <1>9 DEF SetRemote, localVars
  <2>2. entry.prompt.clears >= cleared
    BY <2>1, <1>a DEF Carries
  <2> HIDE DEF entry
  <2>3. Newer(remote', cleared)
    BY <2>1, <2>2, <1>a, NewerMore
  <2>4. cpc'[t] = "idle" /\ req'[t].op = "none" /\ \A u \in Threads \ {t} : cpc'[u] = cpc[u] /\ req'[u] = req[u]
    BY <2>1, Ended
  <2>5. ~Solo(t)' /\ ~Carries(t)'
    BY <2>4 DEF Solo, Carries
  <2>6. QED
    BY <2>1, <2>3, <2>4, <2>5, <1>a, ClearKept
<1>10. ASSUME NEW t \in Threads, ScanRemote(t) PROVE ClearInv'
  <2>1. PICK left : left = DOMAIN remote
    OBVIOUS
  <2>2. cpc[t] = "scan" /\ cpc' = [cpc EXCEPT ![t] = "remoteDel"] /\ req' = [req EXCEPT ![t].left = left]
        /\ UNCHANGED <<items, remote, clears, cleared>>
    BY <1>10, <2>1 DEF ScanRemote, Scan, Present, localVars, CGoto, At
  <2>3. left \in SUBSET (Keys \cup {"none"})
    BY <2>1, <1>b DEF Holds
  <2>4. /\ req'[t].op = req[t].op /\ req'[t].left = left /\ req'[t].overlapped = req[t].overlapped
        /\ cpc'[t] = "remoteDel" /\ \A u \in Threads \ {t} : cpc'[u] = cpc[u] /\ req'[u] = req[u]
    BY <2>2, <2>3, Remaining DEF CacheTypeOK
  <2>5. ~Carries(t)'
    BY <2>4 DEF Carries
  <2>6. Solo(t)' => Alone(t)'
    BY <2>1, <2>2, <2>4, <1>a DEF Solo, Alone
  <2>7. QED
    BY <2>2, <2>4, <2>5, <2>6, <1>a, ClearKept
<1>11. ASSUME NEW t \in Threads, NEW key \in Keys, DeleteRemote(t, key) PROVE ClearInv'
  <2>1. /\ cpc[t] = "remoteDel" /\ remote' = Without(remote, {key})
        /\ req' = [req EXCEPT ![t].left = @ \ {key}] /\ UNCHANGED <<items, cpc, clears, cleared>>
    BY <1>11 DEF DeleteRemote, localVars
  <2>2. PICK left \in SUBSET (Keys \cup {"none"}) : left = req[t].left \ {key}
    BY <1>b DEF Request
  <2>3. req' = [req EXCEPT ![t].left = left]
    BY <2>1, <2>2, <1>b
  <2>4. /\ req'[t].op = req[t].op /\ req'[t].left = left /\ req'[t].overlapped = req[t].overlapped
        /\ \A u \in Threads \ {t} : cpc'[u] = cpc[u] /\ req'[u] = req[u]
    BY <2>1, <2>3, Remaining
  <2>5. ~Carries(t)'
    BY <2>1 DEF Carries
  <2>6. DOMAIN remote' = DOMAIN remote \ {key}
    BY <2>1, WithoutHolds
  <2>7. Solo(t)' => Alone(t)'
    BY <2>1, <2>2, <2>4, <2>6, <1>a DEF Solo, Alone
  <2>8. Newer(remote', cleared)
    BY <2>1, <1>a, NewerLess
  <2>9. QED
    BY <2>1, <2>4, <2>5, <2>7, <2>8, <1>a, ClearKept
<1>12. ASSUME NEW t \in Threads, RemoteFails(t) \/ (EndMaintenance(t) /\ ~Solo(t)) PROVE ClearInv'
  <2>1. cpc[t] # "idle" /\ EndOp(t) /\ UNCHANGED <<items, remote, clears, cleared>>
    BY <1>12 DEF RemoteFails, EndMaintenance, localVars, Solo
  <2>2. cpc'[t] = "idle" /\ req'[t].op = "none" /\ \A u \in Threads \ {t} : cpc'[u] = cpc[u] /\ req'[u] = req[u]
    BY <2>1, Ended
  <2>3. ~Solo(t)' /\ ~Carries(t)'
    BY <2>2 DEF Solo, Carries
  <2>4. QED
    BY <2>1, <2>2, <2>3, <1>a, ClearKept
<1>13. ASSUME NEW t \in Threads, EndMaintenance(t), Solo(t) PROVE ClearInv'
  <2>1. /\ EndOp(t) /\ UNCHANGED <<items, remote, clears>> /\ cleared' = clears
        /\ cpc[t] = "end" \/ (cpc[t] = "remoteDel" /\ req[t].left = {})
    BY <1>13 DEF EndMaintenance, localVars, Solo
  <2>2. Alone(t) /\ (cpc[t] = "end" => DOMAIN remote = {})
    BY <1>13, <1>a DEF CacheTypeOK, Placed
  <2>3. DOMAIN items' = {} /\ DOMAIN remote' = {}
    BY <2>1, <2>2 DEF Alone
  <2>4. cpc'[t] = "idle" /\ req'[t].op = "none" /\ \A u \in Threads \ {t} : cpc'[u] = cpc[u] /\ req'[u] = req[u]
    BY <2>1, Ended
  <2>5. \A u \in Threads : cpc'[u] = "idle" /\ req'[u].op = "none"
    BY <2>2, <2>4, OperationAt DEF Alone
  <2>6. \A u \in Threads : ~Solo(u)' /\ ~Carries(u)'
    BY <2>5 DEF Solo, Carries
  <2>7. QED
    BY <2>1, <2>3, <2>6, <1>b DEF ClearInv, Newer
<1>14. CASE Stats
  <2>1. /\ UNCHANGED <<remote, cpc, req, clears, cleared>>
        /\ items' = Without(items, {k \in Present(items) : expired(items[k])})
    BY <1>14 DEF Stats
  <2>2. Newer(items', cleared) /\ DOMAIN items' \subseteq DOMAIN items
    <3>1. PICK gone : gone = {k \in Present(items) : expired(items[k])}
      OBVIOUS
    <3>2. DOMAIN Without(items, gone) = DOMAIN items \ gone /\ Newer(Without(items, gone), cleared)
      BY <1>a, NewerLess, WithoutHolds
    <3>3. QED
      BY <2>1, <3>1, <3>2
  <2>3. \A t \in Threads : Solo(t)' => Alone(t)'
    BY <2>1, <2>2, <1>a DEF Solo, Alone
  <2>4. QED
    BY <2>1, <2>2, <2>3, <1>a DEF ClearInv, Newer, Carries
<1>15. CASE Tick
  <2>1. /\ UNCHANGED <<items, cpc, clears, cleared>>
        /\ remote' = Without(remote, {k \in Present(remote) : remote[k].expires = now + 1})
        /\ req' = [t \in Threads |-> IF cpc[t] \in {"setLocal", "setRemote", "refill"}
                                     THEN [req[t] EXCEPT !.prompt.delay = @ + 1] ELSE req[t]]
    BY <1>15 DEF Tick, localVars
  <2>2. Newer(remote', cleared) /\ DOMAIN remote' \subseteq DOMAIN remote
    <3>1. PICK gone : gone = {k \in Present(remote) : remote[k].expires = now + 1}
      OBVIOUS
    <3>2. DOMAIN Without(remote, gone) = DOMAIN remote \ gone /\ Newer(Without(remote, gone), cleared)
      BY <1>a, NewerLess, WithoutHolds
    <3>3. QED
      BY <2>1, <3>1, <3>2
  <2>3. ASSUME NEW t \in Threads
        PROVE  /\ req'[t].op = req[t].op /\ req'[t].left = req[t].left /\ req'[t].overlapped = req[t].overlapped
               /\ req'[t].prompt.clears = req[t].prompt.clears
    <3>1. CASE cpc[t] \in {"setLocal", "setRemote", "refill"}
      <4>1. req'[t] = [req[t] EXCEPT !.prompt.delay = @ + 1] /\ req[t] \in Request
        BY <2>1, <3>1, <1>b
      <4>2. QED
        BY <4>1 DEF Request, Prompt
    <3>2. CASE cpc[t] \notin {"setLocal", "setRemote", "refill"}
      BY <2>1, <3>2
    <3>3. QED
      BY <3>1, <3>2
  <2>4. \A t \in Threads : Solo(t)' => Alone(t)'
    BY <2>1, <2>2, <2>3, <1>a DEF Solo, Alone
  <2>5. \A t \in Threads : Carries(t)' => req'[t].prompt.clears >= cleared
    BY <2>1, <2>3, <1>a DEF Carries
  <2>6. QED
    BY <2>1, <2>2, <2>4, <2>5, <1>a DEF ClearInv, Newer
<1>16. CASE UNCHANGED cacheVars
  BY <1>16 DEF cacheVars, localVars, ClearInv, Newer, Carries, Solo, Alone
<1>17. QED
  BY <1>1, <1>3, <1>4, <1>5, <1>6, <1>7, <1>8, <1>9, <1>10, <1>11, <1>12, <1>13, <1>14, <1>15, <1>16 DEF CNext, CStep
-----------------------------------------------------------------------------
(* A list of keys, none of them twice. *)
Order(s) == s \in Seq(Keys) /\ \A i, j \in 1..Len(s) : i # j => s[i] # s[j]

(* The inductive invariant of LruExact: the keys by their use, of which    *)
(* the list has those that the map holds; and what is looked up is a key.  *)
LruInv ==
  /\ Order(recency) /\ DOMAIN items \subseteq ToSet(recency)
  /\ lru = Only(recency, DOMAIN items)
  /\ Len(lru) <= MaxEntries
  /\ \A t \in Threads : req[t].op = "lookup" => req[t].key \in Keys

LEMMA OnlyOrder ==
  ASSUME NEW s, Order(s), NEW T
  PROVE  Order(Only(s, T)) /\ ToSet(Only(s, T)) = ToSet(s) \cap T /\ Len(Only(s, T)) <= Len(s)
<1> DEFINE R == {p \in Keys \X Keys : p[1] # p[2]}
           o == Only(s, T)
<1>1. s \in Seq(Keys)
  BY DEF Order
<1>2. o \in Seq(Keys) /\ Len(o) <= Len(s) /\ ToSet(o) = ToSet(s) \cap T
  BY <1>1, OnlyTakes
<1>3. \A i, j \in 1..Len(s) : i < j => <<s[i], s[j]>> \in R
  BY <1>1 DEF Order
<1>4. \A i, j \in 1..Len(o) : i < j => <<o[i], o[j]>> \in R
  <2> HIDE DEF R
  <2>1. QED
    BY <1>1, <1>3, OnlyKeepsOrder
<1> HIDE DEF o
<1>5. ASSUME NEW i \in 1..Len(o), NEW j \in 1..Len(o), i # j PROVE o[i] # o[j]
  <2>1. i < j \/ j < i
    BY <1>2, <1>5
  <2>2. QED
    BY <1>4, <2>1
<1>6. QED
  BY <1>2, <1>5 DEF o, Order

(* A key that is used comes first, and the others keep their order. *)
LEMMA FirstOrder ==
  ASSUME NEW s, Order(s), NEW key \in Keys
  PROVE  Order(First(key, s)) /\ ToSet(First(key, s)) = ToSet(s) \cup {key}
<1> DEFINE o == Only(s, Keys \ {key})
           f == <<key>> \o o
<1>1. Order(o) /\ ToSet(o) = ToSet(s) \cap (Keys \ {key})
  BY OnlyOrder
<1> HIDE DEF o
<1>2. o \in Seq(Keys) /\ Len(o) \in Nat /\ \A i, j \in 1..Len(o) : i # j => o[i] # o[j]
  BY <1>1 DEF Order
<1>3. ToSet(s) \subseteq Keys
  <2>1. s \in Seq(Keys)
    BY DEF Order
  <2>2. QED
    BY <2>1 DEF ToSet
<1>4. /\ f \in Seq(Keys) /\ Len(f) = Len(o) + 1 /\ f[1] = key
      /\ \A i \in 2..Len(f) : f[i] = o[i - 1] /\ i - 1 \in 1..Len(o)
  BY <1>2
<1>5. ToSet(o) = {o[i] : i \in 1..Len(o)} /\ key \notin ToSet(o)
  BY <1>1, <1>2 DEF ToSet
<1>6. ToSet(f) = ToSet(o) \cup {key}
  <2> HIDE DEF f
  <2>1. ToSet(f) = {f[i] : i \in 1..Len(f)}
    BY <1>4 DEF ToSet
  <2>2. \A i \in 1..Len(f) : i = 1 \/ i \in 2..Len(f)
    BY <1>2, <1>4
  <2>3. \A i \in 1..Len(o) : i + 1 \in 2..Len(f) /\ (i + 1) - 1 = i /\ i + 1 \in 1..Len(f)
    BY <1>2, <1>4
  <2>4. 1 \in 1..Len(f)
    BY <1>2, <1>4
  <2>5. ToSet(f) \subseteq ToSet(o) \cup {key}
    BY <1>4, <1>5, <2>1, <2>2
  <2>6. ASSUME NEW x \in ToSet(o) PROVE x \in ToSet(f)
    <3>1. PICK i \in 1..Len(o) : x = o[i]
      BY <1>5
    <3>2. f[i + 1] = o[i] /\ i + 1 \in 1..Len(f)
      BY <1>4, <2>3
    <3>3. QED
      BY <2>1, <3>1, <3>2
  <2>7. key \in ToSet(f)
    BY <1>4, <2>1, <2>4
  <2>8. QED
    BY <2>5, <2>6, <2>7
<1>7. ASSUME NEW i \in 1..Len(f), NEW j \in 1..Len(f), i # j PROVE f[i] # f[j]
  <2> HIDE DEF f
  <2>1. \A k \in 1..Len(f) : k = 1 \/ k \in 2..Len(f)
    BY <1>2, <1>4
  <2>2. \A k \in 2..Len(f) : f[k] \in ToSet(o)
    BY <1>4, <1>5
  <2>3. CASE i = 1 \/ j = 1
    BY <1>4, <1>5, <1>7, <2>1, <2>2, <2>3
  <2>4. CASE i \in 2..Len(f) /\ j \in 2..Len(f)
    <3>1. i - 1 # j - 1
      BY <1>7, <2>4
    <3>2. QED
      BY <1>2, <1>4, <2>4, <3>1
  <2>5. QED
    BY <2>1, <2>3, <2>4
<1>8. Order(f) /\ ToSet(f) = ToSet(s) \cup {key}
  <2> HIDE DEF f
  <2>1. Order(f)
    BY <1>4, <1>7 DEF Order
  <2>2. QED
    BY <1>1, <1>3, <1>6, <2>1
<1>9. QED
  BY <1>8 DEF First, f, o

(* The list of what the cache holds, with a key in front, is what it holds *)
(* then of the keys by their use.                                          *)
LEMMA UsedFirst ==
  ASSUME NEW s, Order(s), NEW D, NEW key \in Keys
  PROVE  First(key, Only(s, D)) = Only(First(key, s), D \cup {key})
<1> DEFINE K == Keys \ {key}
           E == D \cup {key}
<1>1. s \in Seq(Keys) /\ Only(s, K) \in Seq(Keys)
  <2>1. s \in Seq(Keys)
    BY DEF Order
  <2>2. QED
    BY <2>1, OnlyTakes
<1>2. Only(Only(s, D), K) = Only(s, D \cap K) /\ Only(Only(s, K), E) = Only(s, K \cap E)
  <2> HIDE DEF K, E
  <2>1. QED
    BY <1>1, OnlyOfOnly
<1>3. D \cap K = K \cap E
  OBVIOUS
<1>4. Only(<<key>> \o Only(s, K), E) = <<key>> \o Only(Only(s, K), E)
  <2>1. key \in E
    OBVIOUS
  <2> HIDE DEF K, E
  <2>2. PICK o \in Seq(Keys) : o = Only(s, K)
    BY <1>1
  <2>3. Only(<<key>> \o o, E) = <<key>> \o Only(o, E)
    BY <2>1, OnlyFront
  <2>4. QED
    BY <2>2, <2>3
<1>5. QED
  BY <1>2, <1>3, <1>4 DEF First

(* What is not in the cache any more is taken out of the list. *)
LEMMA LruWithout ==
  ASSUME LruInv, NEW X, DOMAIN items' = DOMAIN items \cap X, lru' = Only(lru, X), recency' = recency
  PROVE  /\ Order(recency') /\ DOMAIN items' \subseteq ToSet(recency')
         /\ lru' = Only(recency', DOMAIN items') /\ Len(lru') <= MaxEntries
<1>1. Order(recency) /\ Order(lru) /\ recency \in Seq(Keys)
  BY OnlyOrder DEF LruInv, Order
<1>2. lru' = Only(recency, DOMAIN items \cap X)
  <2>1. lru' = Only(Only(recency, DOMAIN items), X)
    BY DEF LruInv
  <2>2. QED
    BY <1>1, <2>1, OnlyOfOnly
<1>3. Len(lru') <= Len(lru) /\ Len(lru) \in Nat /\ Len(lru') \in Nat
  <2>1. Order(lru') /\ Len(lru') <= Len(lru)
    BY <1>1, OnlyOrder
  <2>2. QED
    BY <1>1, <2>1 DEF Order
<1>4. Len(lru') <= MaxEntries
  BY <1>3, CacheAssumption DEF LruInv
<1>5. QED
  BY <1>1, <1>2, <1>4 DEF LruInv

(* The list is what the property says, of which the length is known. *)
LEMMA LruIsExact == ASSUME LruInv PROVE LruExact
<1>1. ToSet(lru) = ToSet(recency) \cap DOMAIN items
  BY OnlyOrder DEF LruInv
<1>2. QED
  BY <1>1 DEF LruInv, LruExact, Present

LEMMA LruStep == ASSUME CacheTypeOK, LruInv, [CNext]_cacheVars PROVE LruInv'
<1> DEFINE Listed == /\ Order(recency) /\ DOMAIN items \subseteq ToSet(recency)
                     /\ lru = Only(recency, DOMAIN items) /\ Len(lru) <= MaxEntries
           Asked == \A t \in Threads : req[t].op = "lookup" => req[t].key \in Keys
<1>a. Order(recency) /\ DOMAIN items \subseteq ToSet(recency) /\ DOMAIN items \subseteq Keys
  <2>1. Order(recency) /\ DOMAIN items \subseteq ToSet(recency)
    BY DEF LruInv
  <2>2. recency \in Seq(Keys)
    BY <2>1 DEF Order
  <2>3. ToSet(recency) \subseteq Keys
    BY <2>2 DEF ToSet
  <2>4. QED
    BY <2>1, <2>3
<1>b. lru = Only(recency, DOMAIN items) /\ Order(lru) /\ ToSet(lru) = DOMAIN items /\ Len(lru) <= MaxEntries
  <2>1. lru = Only(recency, DOMAIN items) /\ Len(lru) <= MaxEntries
    BY DEF LruInv
  <2>2. Order(lru) /\ ToSet(lru) = ToSet(recency) \cap DOMAIN items
    BY <1>a, <2>1, OnlyOrder
  <2>3. QED
    BY <1>a, <2>1, <2>2
<1>c. Asked /\ Listed
  BY DEF LruInv
<1>d. req \in [Threads -> Request] /\ MaxEntries \in Nat
  BY CacheAssumption DEF CacheTypeOK
<1>e. Listed' /\ Asked' => LruInv'
  BY DEF LruInv
<1>f. UNCHANGED localVars => Listed'
  BY <1>c DEF localVars
<1>g. ASSUME NEW t \in Threads, EndOp(t) PROVE Asked'
  <2>1. req'[t].op = "none" /\ \A u \in Threads \ {t} : req'[u] = req[u]
    BY <1>g, Ended
  <2>2. QED
    BY <1>c, <2>1
<1>h. ASSUME NEW t \in Threads, NEW r \in Request, NEW p, BeginOp(t, r, p), r.op = "lookup" => r.key \in Keys
      PROVE  Asked'
  <2>1. /\ req'[t].op = r.op /\ req'[t].key = r.key
        /\ \A u \in Threads \ {t} : req'[u].op = req[u].op /\ req'[u].key = req[u].key
    BY <1>h, Began
  <2>2. QED
    BY <1>c, <1>h, <2>1
<1>i. ASSUME \A u \in Threads : req'[u].op = req[u].op /\ req'[u].key = req[u].key PROVE Asked'
  BY <1>c, <1>i
<1> HIDE DEF Listed, Asked
<1>1. ASSUME NEW t \in Threads, NEW key \in Keys, GetLocalHit(t, key) PROVE LruInv'
  <2>1. /\ key \in DOMAIN items /\ lru' = First(key, lru) /\ recency' = First(key, recency)
        /\ items' = items /\ req' = req
    BY <1>1 DEF GetLocalHit, LocalHit, Present, Touch, ToFront, Used
  <2>2. Order(recency') /\ ToSet(recency') = ToSet(recency) \cup {key}
    BY <1>a, <2>1, FirstOrder
  <2>3. lru' = Only(recency', DOMAIN items)
    <3>1. First(key, Only(recency, DOMAIN items)) = Only(First(key, recency), DOMAIN items \cup {key})
      BY <1>a, UsedFirst
    <3>2. DOMAIN items \cup {key} = DOMAIN items
      BY <2>1
    <3>3. QED
      BY <1>b, <2>1, <3>1, <3>2
  <2>4. Order(lru') /\ ToSet(lru') = ToSet(lru)
    <3>1. ToSet(lru') = ToSet(lru) \cup {key} /\ Order(lru')
      BY <1>b, <2>1, FirstOrder
    <3>2. QED
      BY <1>b, <2>1, <3>1
  <2>5. Len(lru') = Len(lru)
    <3>1. Cardinality(ToSet(lru')) = Len(lru')
      BY <2>4, DistinctSize DEF Order
    <3>2. Cardinality(ToSet(lru)) = Len(lru)
      BY <1>b, DistinctSize DEF Order
    <3>3. QED
      BY <2>4, <3>1, <3>2
  <2>6. Listed'
    BY <1>a, <1>b, <2>1, <2>2, <2>3, <2>5 DEF Listed
  <2>7. QED
    BY <1>e, <1>i, <2>1, <2>6
<1>2. ASSUME NEW t \in Threads, NEW key \in Keys, GetLocalMiss(t, key) PROVE LruInv'
  <2>1. PICK r \in Request : r = [NoRequest EXCEPT !.op = "lookup", !.key = key]
    BY NoPromptTypes DEF NoRequest, Request
  <2>2. r.op = "lookup" => r.key \in Keys
    BY <2>1 DEF NoRequest
  <2>3. BeginOp(t, r, IF levels = "both" THEN "remoteGet" ELSE "build")
    BY <1>2, <2>1 DEF GetLocalMiss
  <2>4. lru' = Only(lru, Keys \ {key}) /\ items' = Without(items, {key}) /\ recency' = recency
    BY <1>2 DEF GetLocalMiss
  <2>5. DOMAIN items' = DOMAIN items \cap (Keys \ {key})
    <3>1. DOMAIN items' = DOMAIN items \ {key}
      BY <2>4, WithoutHolds
    <3>2. QED
      BY <1>a, <3>1
  <2>6. Listed'
    BY <2>4, <2>5, LruWithout DEF Listed
  <2>7. QED
    BY <1>e, <1>h, <2>2, <2>3, <2>6
<1>3. ASSUME NEW t \in Threads, NEW key \in Keys, DeleteLocal(t, key) PROVE LruInv'
  <2>1. PICK r \in Request : r = [NoRequest EXCEPT !.op = "delete", !.key = key, !.left = {key}]
    BY NoPromptTypes DEF NoRequest, Request
  <2>2. r.op = "lookup" => r.key \in Keys
    BY <2>1 DEF NoRequest
  <2>3. BeginOp(t, r, IF levels = "both" THEN "remoteDel" ELSE "end")
    BY <1>3, <2>1 DEF DeleteLocal
  <2>4. lru' = Only(lru, Keys \ {key}) /\ items' = Without(items, {key}) /\ recency' = recency
    BY <1>3 DEF DeleteLocal
  <2>5. DOMAIN items' = DOMAIN items \cap (Keys \ {key})
    <3>1. DOMAIN items' = DOMAIN items \ {key}
      BY <2>4, WithoutHolds
    <3>2. QED
      BY <1>a, <3>1
  <2>6. Listed'
    BY <2>4, <2>5, LruWithout DEF Listed
  <2>7. QED
    BY <1>e, <1>h, <2>2, <2>3, <2>6
<1>4. ASSUME NEW t \in Threads, ClearLocal(t) PROVE LruInv'
  <2>1. PICK r \in Request : r = [NoRequest EXCEPT !.op = "clear"]
    BY NoPromptTypes DEF NoRequest, Request
  <2>2. r.op = "lookup" => r.key \in Keys
    BY <2>1 DEF NoRequest
  <2>3. BeginOp(t, r, IF levels = "both" THEN "scan" ELSE "end")
    BY <1>4, <2>1 DEF ClearLocal
  <2>4. lru' = <<>> /\ DOMAIN items' = {} /\ recency' = recency
    BY <1>4 DEF ClearLocal, Empty
  <2>5. Only(recency, {}) = <<>>
    <3>1. Order(Only(recency, {})) /\ ToSet(Only(recency, {})) = {}
      BY <1>a, OnlyOrder
    <3>2. PICK o \in Seq(Keys) : o = Only(recency, {})
      BY <3>1 DEF Order
    <3>3. ToSet(o) = {}
      BY <3>1, <3>2
    <3>4. o = <<>>
      <4>1. Len(o) \in Nat /\ \A i \in 1..Len(o) : o[i] \in ToSet(o)
        BY DEF ToSet
      <4>2. Len(o) # 0 => 1 \in 1..Len(o)
        BY <4>1
      <4>3. Len(o) = 0
        BY <3>3, <4>1, <4>2
      <4>4. QED
        BY <4>3
    <3>5. QED
      BY <3>2, <3>4
  <2>6. Len(lru') <= MaxEntries
    BY <1>d, <2>4
  <2>7. Listed'
    BY <1>a, <2>4, <2>5, <2>6 DEF Listed
  <2>8. QED
    BY <1>e, <1>h, <2>2, <2>3, <2>7
<1>5. ASSUME NEW t \in Threads, NEW hit \in BOOLEAN, GetRemote(t, hit) PROVE LruInv'
  <2>1. Listed'
    BY <1>5, <1>f DEF GetRemote
  <2>2. req' = req \/ req' = [req EXCEPT ![t].prompt = remote[req[t].key].prompt]
    BY <1>5 DEF GetRemote
  <2>3. QED
    BY <1>d, <1>e, <1>i, <2>1, <2>2 DEF Request
<1>6. ASSUME NEW t \in Threads, Build(t) PROVE LruInv'
  <2>1. Listed'
    BY <1>6, <1>f DEF Build
  <2>2. req' = [req EXCEPT ![t].prompt = [built |-> now, clears |-> clears, delay |-> 0]]
    BY <1>6 DEF Build
  <2>3. QED
    BY <1>d, <1>e, <1>i, <2>1, <2>2 DEF Request
<1>7. ASSUME NEW t \in Threads, SetLocal(t) PROVE LruInv'
  <2>1. PICK key \in Keys : key = req[t].key
    <3>1. req[t].op = "lookup"
      BY <1>7, OperationAt DEF SetLocal
    <3>2. QED
      BY <1>c, <3>1 DEF Asked
  <2> DEFINE o == First(key, lru)
             D == DOMAIN items \cup {key}
             p == FirstOf(o, MaxEntries)
  <2>2. lru' = p /\ DOMAIN items' = D \cap ToSet(p) /\ recency' = First(key, recency)
    BY <1>7, <2>1 DEF SetLocal, Evict, ToFront, Used, With, Present
  <2>3. Order(recency') /\ ToSet(recency') = ToSet(recency) \cup {key}
    BY <1>a, <2>2, FirstOrder
  <2>4. Order(o) /\ ToSet(o) = D
    BY <1>b, FirstOrder
  <2>5. o = Only(recency', D)
    <3>1. First(key, Only(recency, DOMAIN items)) = Only(First(key, recency), DOMAIN items \cup {key})
      BY <1>a, UsedFirst
    <3>2. QED
      BY <1>b, <2>2, <3>1
  <2>6. o \in Seq(Keys) /\ \A i, j \in 1..Len(o) : i # j => o[i] # o[j]
    BY <2>4 DEF Order
  <2>7. Only(o, ToSet(p)) = p /\ Len(p) <= MaxEntries
    <3> HIDE DEF o
    <3>1. Only(o, ToSet(p)) = p
      BY <1>d, <2>6, OnlyFirst
    <3>2. Len(p) = IF MaxEntries < Len(o) THEN MaxEntries ELSE Len(o)
      BY <1>d, <2>6, FirstOfTakes
    <3>3. Len(o) \in Nat
      BY <2>6
    <3> HIDE DEF p
    <3>4. QED
      BY <1>d, <3>1, <3>2, <3>3
  <2> HIDE DEF o, p
  <2>8. lru' = Only(recency', DOMAIN items')
    <3>1. recency' \in Seq(Keys)
      BY <2>3 DEF Order
    <3>2. Only(Only(recency', D), ToSet(p)) = Only(recency', D \cap ToSet(p))
      <4> HIDE DEF D
      <4>1. QED
        BY <3>1, OnlyOfOnly
    <3> HIDE DEF D
    <3>3. QED
      BY <2>2, <2>5, <2>7, <3>2
  <2>9. DOMAIN items' \subseteq ToSet(recency')
    BY <1>a, <2>2, <2>3
  <2>10. Listed'
    BY <2>2, <2>3, <2>7, <2>8, <2>9 DEF Listed
  <2>11. EndOp(t) \/ req' = req
    BY <1>7 DEF SetLocal
  <2>12. QED
    BY <1>e, <1>g, <1>i, <2>10, <2>11
<1>8. ASSUME NEW t \in Threads, NEW ok \in BOOLEAN, SetRemote(t, ok) PROVE LruInv'
  BY <1>8, <1>e, <1>f, <1>g DEF SetRemote
<1>9. ASSUME NEW t \in Threads, ScanRemote(t) PROVE LruInv'
  <2>1. Listed' /\ req' = [req EXCEPT ![t].left = Scan]
    BY <1>9, <1>f DEF ScanRemote
  <2>2. QED
    BY <1>d, <1>e, <1>i, <2>1 DEF Request
<1>10. ASSUME NEW t \in Threads, NEW key \in Keys, DeleteRemote(t, key) PROVE LruInv'
  <2>1. Listed' /\ req' = [req EXCEPT ![t].left = @ \ {key}]
    BY <1>10, <1>f DEF DeleteRemote
  <2>2. QED
    BY <1>d, <1>e, <1>i, <2>1 DEF Request
<1>11. ASSUME NEW t \in Threads, RemoteFails(t) PROVE LruInv'
  BY <1>11, <1>e, <1>f, <1>g DEF RemoteFails
<1>12. ASSUME NEW t \in Threads, EndMaintenance(t) PROVE LruInv'
  BY <1>12, <1>e, <1>f, <1>g DEF EndMaintenance
<1>13. ASSUME Stats PROVE LruInv'
  <2> DEFINE X == {k \in Present(items) : ~expired(items[k])}
  <2>1. lru' = Only(lru, X) /\ recency' = recency /\ req' = req
        /\ items' = Without(items, {k \in Present(items) : expired(items[k])})
    BY <1>13 DEF Stats
  <2>2. DOMAIN items' = DOMAIN items \cap X
    <3>1. DOMAIN items' = DOMAIN items \ {k \in Present(items) : expired(items[k])}
      BY <2>1, WithoutHolds
    <3>2. Present(items) = DOMAIN items
      BY DEF Present
    <3>3. QED
      BY <3>1, <3>2
  <2> HIDE DEF X
  <2>3. Listed'
    BY <2>1, <2>2, LruWithout DEF Listed
  <2>4. QED
    BY <1>e, <1>i, <2>1, <2>3
<1>14. ASSUME Tick PROVE LruInv'
  <2>1. Listed'
    BY <1>14, <1>f DEF Tick
  <2>2. ASSUME NEW u \in Threads PROVE req'[u].op = req[u].op /\ req'[u].key = req[u].key
    <3>1. req'[u] = req[u] \/ req'[u] = [req[u] EXCEPT !.prompt.delay = @ + 1]
      BY <1>14 DEF Tick
    <3>2. QED
      BY <1>d, <3>1 DEF Request
  <2>3. QED
    BY <1>e, <1>i, <2>1, <2>2
<1>15. CASE UNCHANGED cacheVars
  BY <1>15, <1>e, <1>f, <1>i DEF cacheVars
<1>16. ASSUME CNext PROVE LruInv'
  <2>1. ASSUME NEW t \in Threads, CStep(t) PROVE LruInv'
    BY <2>1, <1>1, <1>2, <1>3, <1>4, <1>5, <1>6, <1>7, <1>8, <1>9, <1>10, <1>11, <1>12 DEF CStep
  <2>2. QED
    BY <1>16, <2>1, <1>13, <1>14 DEF CNext
<1>17. QED
  BY <1>15, <1>16
-----------------------------------------------------------------------------
LEMMA CacheInits == ASSUME CInit PROVE CacheTypeOK /\ AgeInv /\ ClearInv
<1>1. Holds(items) /\ Holds(remote) /\ DOMAIN items = {} /\ DOMAIN remote = {}
  BY DEF CInit, Empty, Holds
<1>2. /\ req = [t \in Threads |-> NoRequest] /\ cpc = [t \in Threads |-> "idle"] /\ NoRequest.op = "none"
      /\ now = 1 /\ clears = 0 /\ cleared = 0 /\ served = <<>> /\ levels \in {"local", "both"}
  BY DEF CInit, NoRequest
<1>3. \A t \in Threads : cpc[t] = "idle" /\ req[t].op = "none"
  BY <1>2
<1>4. CacheTypeOK
  BY <1>1, <1>2, <1>3, NoPromptTypes DEF CacheTypeOK, Placed, Positions
<1>5. AgeInv
  BY <1>1, <1>2, <1>3 DEF AgeInv, Dated, Carried, AgeBounded
<1>6. ClearInv
  BY <1>1, <1>2, <1>3 DEF ClearInv, Newer, Carries, Solo
<1>7. QED
  BY <1>4, <1>5, <1>6

(* Every goroutine is at a place of its operation where the code can be,   *)
(* and Redis is only called and only filled when there is one.             *)
THEOREM CacheTypeInvariant == CSpec => []CacheTypeOK
<1>1. CInit => CacheTypeOK
  BY CacheInits
<1>2. CacheTypeOK /\ [CNext]_cacheVars => CacheTypeOK'
  BY CacheTypeStep
<1>3. QED
  BY <1>1, <1>2, PTL DEF CSpec

(* Whatever is refilled, evicted, cleared or fails in between, no prompt   *)
(* is served for longer than the two times to live allow, apart from the   *)
(* time it was under way between the caches.                               *)
THEOREM PromptsAge == CSpec => []AgeBounded
<1>1. CInit => AgeInv
  BY CacheInits
<1>2. CacheTypeOK /\ AgeInv /\ [CNext]_cacheVars => AgeInv'
  BY AgeStep
<1>3. AgeInv => AgeBounded
  BY DEF AgeInv, Expire, AgeBounded
<1>4. QED
  BY <1>1, <1>2, <1>3, CacheTypeInvariant, PTL DEF CSpec

(* A clear that no other operation overlapped and that succeeded leaves no *)
(* prompt built before it in either cache, and none comes back.            *)
THEOREM ClearsForGood == CSpec => []ClearedForGood
<1>1. CInit => ClearInv
  BY CacheInits
<1>2. CacheTypeOK /\ ClearInv /\ [CNext]_cacheVars => ClearInv'
  BY ClearStep
<1>3. ClearInv => ClearedForGood
  BY NewerClears DEF ClearInv
<1>4. QED
  BY <1>1, <1>2, <1>3, CacheTypeInvariant, PTL DEF CSpec

(* The list of the local cache stays in step with its map, within its      *)
(* bound and in the order of use, whatever is hit, stored, evicted,        *)
(* dropped or cleared (inMemoryPromptCache).                               *)
THEOREM ListIsOrderOfUse == CSpec => []LruExact
<1>1. CInit => LruInv
  <2>1. SUFFICES ASSUME CInit PROVE LruInv
    OBVIOUS
  <2>2. recency = <<>> /\ lru = <<>> /\ DOMAIN items = {} /\ req = [t \in Threads |-> NoRequest]
    BY <2>1 DEF CInit, Empty
  <2>3. Order(<<>>) /\ Len(<<>>) = 0
    BY DEF Order
  <2>4. Only(<<>>, {}) = <<>>
    <3>1. PICK o \in Seq(Keys) : o = Only(<<>>, {}) /\ Len(o) <= 0
      BY <2>3, OnlyOrder DEF Order
    <3>2. QED
      BY <3>1
  <2>5. NoRequest.op = "none"
    BY DEF NoRequest
  <2>6. QED
    BY <2>2, <2>3, <2>4, <2>5, CacheAssumption DEF LruInv
<1>2. CacheTypeOK /\ LruInv /\ [CNext]_cacheVars => LruInv'
  BY LruStep
<1>3. LruInv => LruExact
  BY LruIsExact
<1>4. QED
  BY <1>1, <1>2, <1>3, CacheTypeInvariant, PTL DEF CSpec
=============================================================================
