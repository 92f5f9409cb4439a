------------------------ MODULE CredentialCache_proofs ------------------------
(***************************************************************************)
(* Proofs about CredentialCache for any callers, servers and durations.    *)
(***************************************************************************)
EXTENDS CredentialCache, TLAPS

(* A token on its way into the cache was read at most MaxLag ago, and its TTL
   leaves the buffer free before it expires. *)
StoreDated(r) ==
  /\ now <= r.token.since + MaxLag
  /\ (GoodWhenFetched(r.token) /\ r.ttl > 0) => r.token.since + r.ttl + Buffer <= r.token.exp

StoresDated == \A c \in Callers : call[c].pc = "store" => StoreDated(call[c])

(* No entry outlives its token. *)
ItemDated(item) == GoodWhenFetched(item.token) => item.expiration <= item.token.exp
ItemsDated == \A s \in Servers : items[s] # NoItem => ItemDated(items[s])

CredentialInv == TypeOK /\ StoresDated /\ ItemsDated /\ HitsAreLive

(* The shape of a call tells its stage. *)
LEMMA CallFacts ==
  ASSUME TypeOK, NEW c \in Callers
  PROVE  /\ call[c].pc \in {"lookup", "fetch", "store", "hit"} => call[c].server \in Servers
         /\ call[c].pc = "store" => /\ call[c].token \in Tokens /\ call[c].ttl \in Nat
                                    /\ call[c].token.exp \in Nat /\ call[c].token.since \in Nat
         /\ call[c].pc = "hit" => call[c].token \in Tokens /\ call[c].at \in Nat
<1>1. call[c] \in Calls \cup {Idle}
  BY DEF TypeOK
<1>2. call[c].pc = "store" => call[c].token \in Tokens /\ call[c].ttl \in Nat
  BY <1>1 DEF Calls, Idle
<1>3. call[c].pc = "hit" => call[c].token \in Tokens /\ call[c].at \in Nat
  BY <1>1 DEF Calls, Idle
<1>4. call[c].pc \in {"lookup", "fetch", "store", "hit"} => call[c].server \in Servers
  BY <1>1 DEF Calls, Idle
<1> QED BY <1>2, <1>3, <1>4 DEF Tokens

(* A missing entry is not a cache item. *)
LEMMA NoItemFacts == NoItem \notin Items
BY DEF NoItem, Items

(* One caller moves on, time and cache stay. *)
LEMMA CallStep ==
  ASSUME CredentialInv, NEW c \in Callers, NEW r \in Calls \cup {Idle},
         call' = [call EXCEPT ![c] = r], UNCHANGED <<now, items>>,
         r.pc = "store" => StoreDated(r),
         (r.pc = "hit" /\ GoodWhenFetched(r.token)) => r.at <= r.token.exp
  PROVE  CredentialInv'
<1>1. TypeOK'
  BY DEF CredentialInv, TypeOK
<1>2. \A x \in Callers : call'[x] = IF x = c THEN r ELSE call[x]
  BY DEF CredentialInv, TypeOK
<1>3. StoresDated'
  BY <1>2 DEF CredentialInv, StoresDated, StoreDated
<1>4. ItemsDated'
  BY DEF CredentialInv, ItemsDated, ItemDated
<1>5. HitsAreLive'
  BY <1>2 DEF CredentialInv, HitsAreLive
<1> QED BY <1>1, <1>3, <1>4, <1>5 DEF CredentialInv

(* The TTL of a good token leaves the buffer free before it expires. *)
LEMMA TTLFacts ==
  ASSUME NEW token \in Tokens, now \in Nat, token.since = now
  PROVE  /\ TTLOf(token) \in Nat
         /\ (GoodWhenFetched(token) /\ TTLOf(token) > 0) =>
              token.since + TTLOf(token) + Buffer <= token.exp
<1>1. token.exp \in Nat /\ Buffer \in Nat /\ DefaultTTL \in Nat
  BY DurationsAssumption DEF Tokens
<1>2. CASE ~token.legible \/ token.exp < now
  BY <1>1, <1>2 DEF TTLOf, parseJWTTokenTTL, GoodWhenFetched
<1>3. CASE token.legible /\ ~(token.exp < now)
  <2>1. TTLOf(token) = IF token.exp > now + Buffer THEN token.exp - now - Buffer ELSE 0
    BY <1>3 DEF TTLOf, parseJWTTokenTTL
  <2> QED BY <1>1, <2>1
<1> QED BY <1>2, <1>3 DEF Tokens

(* The deferred Set stores an entry that ends before its token does. *)
LEMMA SetStep ==
  ASSUME CredentialInv, NEW c \in Callers, SetAndReturn(c)
  PROVE  CredentialInv'
<1> DEFINE r == call[c]
           new == CacheItem(r.token, r.ttl)
           m == [items EXCEPT ![r.server] = new]
<1>1. /\ r.server \in Servers /\ r.token \in Tokens /\ r.ttl \in Nat /\ now \in Nat
      /\ r.token.exp \in Nat /\ r.token.since \in Nat /\ StoreDated(r)
      /\ items \in [Servers -> Items \cup {NoItem}]
  BY CallFacts DEF CredentialInv, SetAndReturn, StoresDated, TypeOK
<1>2. new \in Items /\ new.token = r.token /\ new.expiration = now + r.ttl
  BY <1>1 DEF CacheItem, Items
<1>3. r.ttl > 0 => ItemDated(new)
  <2> SUFFICES ASSUME r.ttl > 0, GoodWhenFetched(r.token)
               PROVE  now + r.ttl <= r.token.exp
    BY <1>2 DEF ItemDated
  <2>1. now <= r.token.since + MaxLag /\ r.token.since + r.ttl + Buffer <= r.token.exp
    BY <1>1 DEF StoreDated
  <2> HIDE DEF r
  <2> QED BY <1>1, <2>1, DurationsAssumption
<1> HIDE DEF new
<1>4. /\ \A s \in Servers : \/ items'[s] = NoItem \/ items'[s] = items[s]
                            \/ r.ttl > 0 /\ items'[s] = new
      /\ items' \in [Servers -> Items \cup {NoItem}]
  <2>1. CASE ~(r.ttl > 0)
    BY <1>1, <2>1 DEF SetAndReturn
  <2>2. CASE r.ttl > 0
    <3>1. m \in [Servers -> Items \cup {NoItem}]
          /\ \A s \in Servers : m[s] = items[s] \/ m[s] = new
      BY <1>1, <1>2
    <3>2. items' = cleanupExpiredItems(m)
      BY <2>2 DEF SetAndReturn, CacheSet, new
    <3> HIDE DEF m
    <3>3. \A s \in Servers : cleanupExpiredItems(m)[s] \in {m[s], NoItem}
      BY <3>1 DEF cleanupExpiredItems
    <3>4. cleanupExpiredItems(m) \in [Servers -> Items \cup {NoItem}]
      BY <3>1 DEF cleanupExpiredItems
    <3> QED BY <2>2, <3>1, <3>2, <3>3, <3>4
  <2> QED BY <2>1, <2>2
<1>5. call' = [call EXCEPT ![c] = Idle] /\ UNCHANGED now
  BY DEF SetAndReturn
<1>6. TypeOK'
  BY <1>4, <1>5 DEF CredentialInv, TypeOK
<1>7. \A x \in Callers : call'[x] = IF x = c THEN Idle ELSE call[x]
  BY <1>5 DEF CredentialInv, TypeOK
<1>8. StoresDated' /\ HitsAreLive'
  BY <1>5, <1>7 DEF CredentialInv, StoresDated, StoreDated, HitsAreLive, Idle
<1>9. ItemsDated'
  BY <1>3, <1>4 DEF CredentialInv, ItemsDated, ItemDated
<1> QED BY <1>6, <1>8, <1>9 DEF CredentialInv

(* Time does not pass over a token that is due in the cache, nor over a hit. *)
LEMMA TickStep ==
  ASSUME CredentialInv, Tick
  PROVE  CredentialInv'
<1>1. now' = now + 1 /\ now \in Nat /\ UNCHANGED <<items, call>>
  BY DEF Tick, CredentialInv, TypeOK
<1>2. TypeOK'
  BY <1>1 DEF CredentialInv, TypeOK
<1>3. StoresDated'
  <2> SUFFICES ASSUME NEW c \in Callers, call[c].pc = "store" PROVE StoreDated(call[c])'
    BY <1>1 DEF StoresDated
  <2>1. StoreDated(call[c]) /\ now < call[c].token.since + MaxLag /\ call[c].token.since \in Nat
    BY CallFacts DEF CredentialInv, StoresDated, Tick
  <2> QED BY <1>1, <2>1, DurationsAssumption DEF StoreDated
<1>4. ItemsDated' /\ HitsAreLive'
  BY <1>1 DEF CredentialInv, ItemsDated, ItemDated, HitsAreLive
<1> QED BY <1>2, <1>3, <1>4 DEF CredentialInv

(* The invariant holds for the empty cache (NewCachedProvider). *)
LEMMA CredentialInvInit == Init => CredentialInv
BY DEF Init, CredentialInv, TypeOK, StoresDated, ItemsDated, HitsAreLive, Idle

(* Every step keeps tokens and entries dated. *)
LEMMA CredentialInvStep == CredentialInv /\ [Next]_vars => CredentialInv'
<1> SUFFICES ASSUME CredentialInv, [Next]_vars PROVE CredentialInv'
  OBVIOUS
<1>1. ASSUME NEW c \in Callers, NEW s \in Servers, Get(c, s) PROVE CredentialInv'
  <2>1. Lookup(s) \in Calls /\ Lookup(s).pc = "lookup"
    BY DEF Lookup, Calls
  <2> QED BY <1>1, <2>1, CallStep DEF Get
<1>2. ASSUME NEW c \in Callers, GetHit(c) PROVE CredentialInv'
  <2> DEFINE s == call[c].server
             tok == items[s].token
  <2>1. s \in Servers /\ items[s] # NoItem /\ now <= items[s].expiration
    <3>1. s \in Servers /\ items[s] # NoItem /\ ~(now > items[s].expiration)
      BY <1>2, CallFacts DEF GetHit, CacheGet, isExpired, CredentialInv
    <3>2. items[s].expiration \in Nat /\ now \in Nat
      BY <3>1 DEF CredentialInv, TypeOK, Items
    <3> QED BY <3>1, <3>2
  <2>2. /\ items[s] \in Items /\ tok \in Tokens /\ items[s].expiration \in Nat
        /\ tok.exp \in Nat /\ now \in Nat
    BY <2>1 DEF CredentialInv, TypeOK, Items, Tokens
  <2>3. GoodWhenFetched(tok) => now <= tok.exp
    BY <2>1, <2>2 DEF CredentialInv, ItemsDated, ItemDated
  <2>4. call' = [call EXCEPT ![c] = Hit(s, tok)] /\ UNCHANGED <<now, items>>
    BY <1>2 DEF GetHit
  <2> HIDE DEF s, tok
  <2>5. Hit(s, tok) \in Calls /\ Hit(s, tok).pc = "hit" /\ Hit(s, tok).token = tok
        /\ Hit(s, tok).at = now
    BY <2>1, <2>2 DEF Hit, Calls
  <2> QED BY <2>3, <2>4, <2>5, CallStep
<1>3. ASSUME NEW c \in Callers, GetMiss(c) PROVE CredentialInv'
  <2>1. Fetch(call[c].server) \in Calls /\ Fetch(call[c].server).pc = "fetch"
    BY <1>3, CallFacts DEF GetMiss, Fetch, Calls, CredentialInv
  <2> QED BY <1>3, <2>1, CallStep DEF GetMiss
<1>4. ASSUME NEW c \in Callers, GetWithTTL(c) PROVE CredentialInv'
  <2> DEFINE s == call[c].server
  <2>1. PICK exp \in Expiries, legible \in BOOLEAN :
          call' = [call EXCEPT ![c] = Store(s, Token(exp, legible), TTLOf(Token(exp, legible)))]
    BY <1>4 DEF GetWithTTL
  <2> DEFINE tok == Token(exp, legible)
  <2>2. s \in Servers /\ now \in Nat
    BY <1>4, CallFacts DEF GetWithTTL, CredentialInv, TypeOK
  <2>3. tok \in Tokens /\ tok.since = now
    BY <2>2, ExpiriesAssumption DEF Token, Tokens
  <2>4. call' = [call EXCEPT ![c] = Store(s, tok, TTLOf(tok))] /\ UNCHANGED <<now, items>>
    BY <1>4, <2>1 DEF GetWithTTL
  <2> HIDE DEF s, tok
  <2>5. /\ Store(s, tok, TTLOf(tok)) \in Calls /\ Store(s, tok, TTLOf(tok)).pc = "store"
        /\ Store(s, tok, TTLOf(tok)).token = tok /\ Store(s, tok, TTLOf(tok)).ttl = TTLOf(tok)
    BY <2>2, <2>3, TTLFacts DEF Store, Calls
  <2>6. StoreDated(Store(s, tok, TTLOf(tok)))
    BY <2>2, <2>3, <2>5, TTLFacts, DurationsAssumption DEF StoreDated
  <2> QED BY <2>4, <2>5, <2>6, CallStep
<1>5. ASSUME NEW c \in Callers, GetFails(c) \/ Return(c) PROVE CredentialInv'
  <2>1. Idle.pc = "idle"
    BY DEF Idle
  <2> QED BY <1>5, <2>1, CallStep DEF GetFails, Return
<1>6. CASE UNCHANGED vars
  BY <1>6 DEF vars, CredentialInv, TypeOK, StoresDated, StoreDated, ItemsDated, ItemDated,
              HitsAreLive
<1> QED BY <1>1, <1>2, <1>3, <1>4, <1>5, <1>6, SetStep, TickStep DEF Next

(* The cache never hands out a token past its expiry, provided the token told
   its lifetime and was good when it was fetched, for any number of callers
   that miss, fetch and store concurrently (CachedProvider.Get). *)
THEOREM CachedTokensAreLive == Spec => []HitsAreLive
<1>1. CredentialInv => HitsAreLive
  BY DEF CredentialInv
<1> QED BY <1>1, CredentialInvInit, CredentialInvStep, PTL DEF Spec

(* Type correctness of the credential cache and its callers. *)
THEOREM TypeCorrect == Spec => []TypeOK
<1>1. CredentialInv => TypeOK
  BY DEF CredentialInv
<1> QED BY <1>1, CredentialInvInit, CredentialInvStep, PTL DEF Spec
=============================================================================
