--------------------------- MODULE CredentialCache ---------------------------
(***************************************************************************)
(* Registry credentials: the CachedProvider of                             *)
(* internal/store/credentialprovider over the in-memory cache of           *)
(* internal/cache/inmemory, with the Azure identity provider as its        *)
(* source.  Callers are the goroutines of requests that resolve or pull;   *)
(* nothing keeps two of them from missing and fetching at the same time.   *)
(* Time is discrete; a token that has been fetched is stored within MaxLag.*)
(***************************************************************************)
EXTENDS Naturals, FiniteSets

CONSTANTS Callers, Servers,
          Expiries,     \* when the tokens that Azure hands out expire
          Buffer,       \* what parseJWTTokenTTL takes off a lifetime
          DefaultTTL,   \* DefaultACRTokenTTL
          MaxSize,      \* of the cache
          MaxLag,       \* longest time from reading a token's TTL to storing it
          MaxNow        \* bound on the clock

ASSUME ExpiriesAssumption == Expiries \subseteq Nat
ASSUME DurationsAssumption ==
  /\ Buffer \in Nat /\ DefaultTTL \in Nat \ {0} /\ MaxNow \in Nat
  /\ MaxLag \in Nat /\ MaxLag <= Buffer
ASSUME MaxSizeAssumption == MaxSize \in Nat

VARIABLES now, items, call

vars == <<now, items, call>>

(* A token: when it expires, and whether its JWT says so. *)
Token(exp, legible) == [exp |-> exp, legible |-> legible, since |-> now]
NoItem == [expiration |-> 0]
CacheItem(token, ttl) == [expiration |-> now + ttl, token |-> token]

Idle == [pc |-> "idle"]
Lookup(s) == [pc |-> "lookup", server |-> s]
Fetch(s) == [pc |-> "fetch", server |-> s]
Store(s, token, ttl) == [pc |-> "store", server |-> s, token |-> token, ttl |-> ttl]
Hit(s, token) == [pc |-> "hit", server |-> s, token |-> token, at |-> now]

Init == /\ now = 0
        /\ items = [s \in Servers |-> NoItem]
        /\ call = [c \in Callers |-> Idle]

-----------------------------------------------------------------------------
(* isExpired of the cache item, and Get. *)
isExpired(item) == now > item.expiration
CacheGet(s) == items[s] # NoItem /\ ~isExpired(items[s])

(* The bug of using the lifetime without the safety buffer. *)
parseJWTTokenTTL_NoBuffer(token) ==
  IF ~token.legible \/ token.exp < now THEN [ok |-> FALSE]
  ELSE [ok |-> TRUE, ttl |-> token.exp - now]

(* The bug of a lifetime below the buffer that is not raised to zero. *)
parseJWTTokenTTL_NoFloor(token) ==
  IF ~token.legible \/ token.exp < now THEN [ok |-> FALSE]
  ELSE [ok |-> TRUE, ttl |-> token.exp - now - Buffer]

(* parseJWTTokenTTL: an error for a token that cannot be read or is over. *)
parseJWTTokenTTL(token) ==
  IF ~token.legible \/ token.exp < now THEN [ok |-> FALSE]
  ELSE [ok |-> TRUE,
        ttl |-> IF token.exp > now + Buffer THEN token.exp - now - Buffer ELSE 0]

(* GetWithTTL falls back to the default on every error of the parser. *)
TTLOf(token) ==
  LET parsed == parseJWTTokenTTL(token)
  IN IF parsed.ok THEN parsed.ttl ELSE DefaultTTL

(* Set, with the clean-up that only an overfull cache gets. *)
cleanupExpiredItems(m) ==
  IF Cardinality({s \in Servers : m[s] # NoItem}) <= MaxSize THEN m
  ELSE [s \in Servers |-> IF isExpired(m[s]) THEN NoItem ELSE m[s]]

CacheSet(s, token, ttl) ==
  cleanupExpiredItems([items EXCEPT ![s] = CacheItem(token, ttl)])

-----------------------------------------------------------------------------
(* CachedProvider.Get: the cache first. *)
Get(c, s) ==
  /\ call[c] = Idle
  /\ call' = [call EXCEPT ![c] = Lookup(s)]
  /\ UNCHANGED <<now, items>>

GetHit(c) ==
  /\ call[c].pc = "lookup" /\ CacheGet(call[c].server)
  /\ call' = [call EXCEPT ![c] = Hit(@.server, items[@.server].token)]
  /\ UNCHANGED <<now, items>>

GetMiss(c) ==
  /\ call[c].pc = "lookup" /\ ~CacheGet(call[c].server)
  /\ call' = [call EXCEPT ![c] = Fetch(@.server)]
  /\ UNCHANGED <<now, items>>

(* GetWithTTL: Azure answers with a token, which our clock may think is over. *)
GetWithTTL(c) ==
  /\ call[c].pc = "fetch"
  /\ \E exp \in Expiries, legible \in BOOLEAN :
       LET token == Token(exp, legible)
       IN call' = [call EXCEPT ![c] = Store(@.server, token, TTLOf(token))]
  /\ UNCHANGED <<now, items>>

GetFails(c) ==
  /\ call[c].pc = "fetch"
  /\ call' = [call EXCEPT ![c] = Idle]
  /\ UNCHANGED <<now, items>>

(* The deferred Set; the caller gets the token it fetched. *)
SetAndReturn(c) ==
  /\ call[c].pc = "store"
  /\ items' = IF call[c].ttl > 0 THEN CacheSet(call[c].server, call[c].token, call[c].ttl)
              ELSE items
  /\ call' = [call EXCEPT ![c] = Idle]
  /\ UNCHANGED now

(* A caller is done with the credential the cache gave it. *)
Return(c) ==
  /\ call[c].pc = "hit"
  /\ call' = [call EXCEPT ![c] = Idle]
  /\ UNCHANGED <<now, items>>

Tick ==
  /\ now < MaxNow
  /\ \A c \in Callers : call[c].pc # "hit"
                        /\ (call[c].pc = "store" => now < call[c].token.since + MaxLag)
  /\ now' = now + 1
  /\ UNCHANGED <<items, call>>

Next == \/ \E c \in Callers : \/ \E s \in Servers : Get(c, s)
                              \/ GetHit(c) \/ GetMiss(c) \/ GetWithTTL(c) \/ GetFails(c)
                              \/ SetAndReturn(c) \/ Return(c)
        \/ Tick

Spec == Init /\ [][Next]_vars

-----------------------------------------------------------------------------
Tokens == [exp : Nat, legible : BOOLEAN, since : Nat]
Items == [expiration : Nat, token : Tokens]
Calls == [pc : {"lookup", "fetch"}, server : Servers]
         \cup [pc : {"store"}, server : Servers, token : Tokens, ttl : Nat]
         \cup [pc : {"hit"}, server : Servers, token : Tokens, at : Nat]

(* Every variable holds a value of its kind. *)
TypeOK ==
  /\ now \in Nat
  /\ items \in [Servers -> Items \cup {NoItem}]
  /\ call \in [Callers -> Calls \cup {Idle}]

(* A token whose JWT told its lifetime, and that was good when it was fetched,
   is still good whenever the cache hands it out: the buffer that
   parseJWTTokenTTL takes off covers the time until the deferred Set, and two
   callers that miss together only replace one good token by another. *)
GoodWhenFetched(token) == token.legible /\ token.since <= token.exp

HitsAreLive ==
  \A c \in Callers : (call[c].pc = "hit" /\ GoodWhenFetched(call[c].token))
                        => call[c].at <= call[c].token.exp
=============================================================================
