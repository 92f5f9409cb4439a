---------------------------- MODULE VerifyServer ----------------------------
(***************************************************************************)
(* The request handlers of internal/httpserver (handlers.go, server.go)    *)
(* over the shared singleflight group, the two TTL caches and an executor  *)
(* pointer that is replaced while requests are under way.                  *)
(*                                                                         *)
(* Every request is a goroutine that works through its keys in order: look *)
(* into the cache, enter the singleflight group, and either lead the       *)
(* flight or wait for its leader.  Time is discrete.  Computation takes no *)
(* time: the clock ticks only while every request under way is inside an   *)
(* executor call or waits for one, and a call returns by the deadline of   *)
(* the context it was given.                                               *)
(***************************************************************************)
EXTENDS Naturals, Sequences

CONSTANTS
  Handlers,        \* goroutines that may serve requests at the same time
  Artifacts,       \* keys a request may carry
  Form,            \* [Artifacts -> {"tag", "digest", "malformed"}]
  Inputs,          \* requests clients send: records op, keys
  VerifyTimeout, MutateTimeout, CacheTTL,
  MaxNow,          \* bound on the clock
  MaxInstalls      \* bound on executor replacements

ASSUME FormAssumption == Form \in [Artifacts -> {"tag", "digest", "malformed"}]
ASSUME TimesAssumption ==
  VerifyTimeout \in Nat /\ MutateTimeout \in Nat /\ CacheTTL \in Nat
ASSUME BoundsAssumption == MaxNow \in Nat /\ MaxInstalls \in Nat
ASSUME InputsAssumption ==
  \A x \in Inputs : x.op \in {"verify", "mutate"} /\ x.keys \in Seq(Artifacts)

VARIABLES
  now,        \* the clock
  installed,  \* installed[g]: when the g-th executor became the current one
  cache,      \* verifyCache and mutateCache
  flight,     \* the calls in progress of the singleflight group
  req         \* the requests under way

vars == <<now, installed, cache, flight, req>>

Ops == {"verify", "mutate"}
Timeout(op) == IF op = "verify" THEN VerifyTimeout ELSE MutateTimeout

(* getExecutor: 0 stands for nil, before the first executor is built. *)
getExecutor == Len(installed)

(* The bug of one prefix for both handlers in the shared singleflight group. *)
mutateKey_NoPrefix(a) == <<"verify", a>>

verifyKey(a) == <<"verify", a>>
mutateKey(a) == <<"mutate", a>>
FlightKey(op, a) == IF op = "verify" THEN verifyKey(a) ELSE mutateKey(a)
Keys == Ops \X Artifacts

(***************************************************************************)
(* What an item can hold: the rendered report of a verification, the       *)
(* digested reference a mutation resolved to, the reference as it came, or *)
(* nil.  exec is the executor that produced it, 0 when none was asked.     *)
(***************************************************************************)
Value(kind, a, g) == [kind |-> kind, artifact |-> a, exec |-> g]
Kinds == {"report", "resolved", "reference", "nil"}
Errors == {"none", "parse", "unconfigured", "failed", "deadline"}
Item(v, err) == [value |-> v, err |-> err, at |-> now]

NoEntry == [expires |-> 0]
Entry(v) == [expires |-> now + CacheTTL, value |-> v]
Cached(op, k) == cache[op][k] # NoEntry /\ now <= cache[op][k].expires

NoFlight == [waiters |-> {}]
Flight(h, g) == [waiters |-> {}, leader |-> h, exec |-> g, begun |-> now]
Joined(f, h) == [f EXCEPT !.waiters = @ \cup {h}]

Idle == [stage |-> "idle"]
Request(op, ks) == [stage |-> "lookup", op |-> op, keys |-> ks, items |-> <<>>,
                    arrived |-> now]
Busy(h) == req[h] # Idle
Finished(h) == Busy(h) /\ Len(req[h].items) = Len(req[h].keys)
Artifact(h) == req[h].keys[Len(req[h].items) + 1]
KeyOf(h) == FlightKey(req[h].op, Artifact(h))
Deadline_OneTimeout(h) == req[h].arrived + VerifyTimeout
Deadline(h) == req[h].arrived + Timeout(req[h].op)

InStage(r, stage) == [r EXCEPT !.stage = stage]

(* The request moves on to its next key. *)
WithItem(r, item) == [r EXCEPT !.items = Append(@, item), !.stage = "lookup"]

Init ==
  /\ now = 0
  /\ installed = <<>>
  /\ cache = [op \in Ops |-> [k \in Keys |-> NoEntry]]
  /\ flight = [k \in Keys |-> NoFlight]
  /\ req = [h \in Handlers |-> Idle]

-----------------------------------------------------------------------------
(* A request arrives; middlewareWithTimeout starts its context's clock. *)
Receive(h) ==
  /\ ~Busy(h)
  /\ \E x \in Inputs : req' = [req EXCEPT ![h] = Request(x.op, x.keys)]
  /\ UNCHANGED <<now, installed, cache, flight>>

(***************************************************************************)
(* The head of the loop body: resolveReference answers malformed and       *)
(* digested references at once; both handlers then try their cache.        *)
(***************************************************************************)
LookingUp(h) == Busy(h) /\ req[h].stage = "lookup" /\ ~Finished(h)
AnsweredAtOnce(h) == req[h].op = "mutate" /\ Form[Artifact(h)] # "tag"

AnswerAtOnce(h) ==
  /\ LookingUp(h) /\ AnsweredAtOnce(h)
  /\ req' = [req EXCEPT ![h] =
       WithItem(@, Item(Value("reference", Artifact(h), 0),
                        IF Form[Artifact(h)] = "malformed" THEN "parse" ELSE "none"))]
  /\ UNCHANGED <<now, installed, cache, flight>>

(* The bug of a cache whose entries live on when they are read. *)
CacheHit_Prolongs(h) ==
  /\ LookingUp(h) /\ ~AnsweredAtOnce(h)
  /\ Cached(req[h].op, KeyOf(h))
  /\ req' = [req EXCEPT ![h] = WithItem(@, Item(cache[req[h].op][KeyOf(h)].value, "none"))]
  /\ cache' = [cache EXCEPT ![req[h].op][KeyOf(h)] = Entry(@.value)]
  /\ UNCHANGED <<now, installed, flight>>

CacheHit(h) ==
  /\ LookingUp(h) /\ ~AnsweredAtOnce(h)
  /\ Cached(req[h].op, KeyOf(h))
  /\ req' = [req EXCEPT ![h] = WithItem(@, Item(cache[req[h].op][KeyOf(h)].value, "none"))]
  /\ UNCHANGED <<now, installed, cache, flight>>

CacheMiss(h) ==
  /\ LookingUp(h) /\ ~AnsweredAtOnce(h)
  /\ ~Cached(req[h].op, KeyOf(h))
  /\ req' = [req EXCEPT ![h] = InStage(@, "do")]
  /\ UNCHANGED <<now, installed, cache, flight>>

-----------------------------------------------------------------------------
(* The bug of calling the executor without the singleflight group. *)
Lead_Always(h) ==
  /\ Busy(h) /\ req[h].stage = "do"
  /\ flight' = [flight EXCEPT ![KeyOf(h)] = Flight(h, getExecutor)]
  /\ req' = [req EXCEPT ![h] = InStage(@, "lead")]
  /\ UNCHANGED <<now, installed, cache>>

(***************************************************************************)
(* sfGroup.Do: the first caller leads and loads the executor, whoever      *)
(* comes while the call lasts waits for its result.                        *)
(***************************************************************************)
Lead(h) ==
  /\ Busy(h) /\ req[h].stage = "do"
  /\ flight[KeyOf(h)] = NoFlight
  /\ flight' = [flight EXCEPT ![KeyOf(h)] = Flight(h, getExecutor)]
  /\ req' = [req EXCEPT ![h] = InStage(@, "lead")]
  /\ UNCHANGED <<now, installed, cache>>

Join(h) ==
  /\ Busy(h) /\ req[h].stage = "do"
  /\ flight[KeyOf(h)] # NoFlight
  /\ flight' = [flight EXCEPT ![KeyOf(h)] = Joined(@, h)]
  /\ req' = [req EXCEPT ![h] = InStage(@, "wait")]
  /\ UNCHANGED <<now, installed, cache>>

(* The bug of a flight that forgets those who wait for it. *)
Land_LeaderOnly(h, item) ==
  /\ flight' = [flight EXCEPT ![KeyOf(h)] = NoFlight]
  /\ req' = [req EXCEPT ![h] = WithItem(@, item)]

(* The leader and everybody who waits get the same value and the same error. *)
Land(h, item) ==
  LET k == KeyOf(h)
      landing == flight[k].waiters \cup {h}
  IN /\ flight' = [flight EXCEPT ![k] = NoFlight]
     /\ req' = [x \in Handlers |-> IF x \in landing THEN WithItem(req[x], item) ELSE req[x]]

Leading(h) == Busy(h) /\ req[h].stage = "lead"

(***************************************************************************)
(* ValidateArtifact or Resolve succeeded: the rendered value goes into the *)
(* cache, unless ristretto drops it, which is only logged.                 *)
(***************************************************************************)
Answer(h) ==
  Value(IF req[h].op = "verify" THEN "report" ELSE "resolved",
        Artifact(h), flight[KeyOf(h)].exec)

Succeed(h) ==
  /\ Leading(h)
  /\ flight[KeyOf(h)].exec # 0
  /\ Form[Artifact(h)] # "malformed"
  /\ \/ cache' = [cache EXCEPT ![req[h].op][KeyOf(h)] = Entry(Answer(h))]
     \/ UNCHANGED cache
  /\ Land(h, Item(Answer(h), "none"))
  /\ UNCHANGED <<now, installed>>

(***************************************************************************)
(* The call returns an error: no executor yet, the leader's context is     *)
(* over, or anything else.  Errors are not cached.  On an error verify     *)
(* leaves the value nil, resolveReference leaves the reference.            *)
(***************************************************************************)
CallErrors(h) ==
  IF flight[KeyOf(h)].exec = 0 THEN {"unconfigured"}
  ELSE IF now >= Deadline(h) THEN {"failed", "deadline"} ELSE {"failed"}

Fail(h) ==
  /\ Leading(h)
  /\ \E err \in CallErrors(h) :
       Land(h, Item(Value(IF req[h].op = "verify" THEN "nil" ELSE "reference",
                          Artifact(h), 0), err))
  /\ UNCHANGED <<now, installed, cache>>

(* sendResponse, when every key has its item. *)
Respond(h) ==
  /\ Finished(h)
  /\ req' = [req EXCEPT ![h] = Idle]
  /\ UNCHANGED <<now, installed, cache, flight>>

-----------------------------------------------------------------------------
(* The executor pointer is replaced (ExecutorManager, the config watcher). *)
Install ==
  /\ Len(installed) < MaxInstalls
  /\ installed' = Append(installed, now)
  /\ UNCHANGED <<now, cache, flight, req>>

(* Time passes while everybody waits and no call has outlived its context. *)
Tick ==
  /\ now < MaxNow
  /\ \A h \in Handlers : Busy(h) =>
       \/ req[h].stage = "wait"
       \/ req[h].stage = "lead" /\ now < Deadline(h)
  /\ now' = now + 1
  /\ UNCHANGED <<installed, cache, flight, req>>

Step(h) == \/ AnswerAtOnce(h) \/ CacheHit(h) \/ CacheMiss(h)
           \/ Lead(h) \/ Join(h) \/ Succeed(h) \/ Fail(h) \/ Respond(h)

Next == \/ \E h \in Handlers : Receive(h) \/ Step(h)
        \/ Install \/ Tick

(* A request's goroutine is scheduled, and a call returns by its deadline. *)
Fairness == \A h \in Handlers : WF_vars(Step(h))

Spec == Init /\ [][Next]_vars
FairSpec == Spec /\ Fairness

-----------------------------------------------------------------------------
Values == [kind : Kinds, artifact : Artifacts, exec : Nat]
Items == [value : Values, err : Errors, at : Nat]
Entries == [expires : Nat, value : Values]
Flights == [waiters : SUBSET Handlers, leader : Handlers, exec : Nat, begun : Nat]
Requests == [stage : {"lookup", "do", "lead", "wait"}, op : Ops,
             keys : Seq(Artifacts), items : Seq(Items), arrived : Nat]

(* Every variable holds a value of its kind. *)
TypeOK ==
  /\ now \in Nat
  /\ installed \in Seq(Nat)
  /\ cache \in [Ops -> [Keys -> Entries \cup {NoEntry}]]
  /\ flight \in [Keys -> Flights \cup {NoFlight}]
  /\ req \in [Handlers -> Requests \cup {Idle}]

(* The item a request gets for its i-th key answers that key, and answers it
   the way the request's handler does, although verify and mutate share one
   singleflight group (verifyKey, mutateKey): a verification holds a report or
   an error with no value, a mutation a reference. *)
Answers(r, i) ==
  LET item == r.items[i]
  IN /\ item.value.artifact = r.keys[i]
     /\ r.op = "verify" => item.value.kind = (IF item.err = "none" THEN "report" ELSE "nil")
     /\ r.op = "mutate" => /\ item.value.kind \in {"resolved", "reference"}
                           /\ item.err # "none" => item.value.kind = "reference"

ItemsAnswerKeys ==
  \A h \in Handlers : Busy(h) => \A i \in DOMAIN req[h].items : Answers(req[h], i)

(* Whoever waits on a flight waits on a leader that is inside the call for the
   same key, and nobody else leads that key: one call per key at a time, no
   waiter is forgotten, and requests never wait in a circle (sfGroup.Do). *)
FlightsAreLed ==
  /\ \A k \in Keys : flight[k] # NoFlight =>
       /\ Leading(flight[k].leader) /\ KeyOf(flight[k].leader) = k
       /\ \A w \in flight[k].waiters :
            Busy(w) /\ req[w].stage = "wait" /\ ~Finished(w) /\ KeyOf(w) = k
  /\ \A h \in Handlers : Busy(h) /\ ~Finished(h) =>
       /\ req[h].stage = "lead" => /\ flight[KeyOf(h)] # NoFlight
                                   /\ flight[KeyOf(h)].leader = h
       /\ req[h].stage = "wait" => /\ flight[KeyOf(h)] # NoFlight
                                   /\ h \in flight[KeyOf(h)].waiters

(* A request never receives the verdict or the resolution of an executor that
   was replaced longer ago than one call and one cache lifetime: the cache is
   not flushed on a replacement and a call under way keeps the old executor,
   so this is the whole window in which a revoked configuration still speaks. *)
WithinWindow(op, g, t) ==
  (g > 0 /\ g < Len(installed)) => t <= installed[g + 1] + Timeout(op) + CacheTTL

BoundedStaleness ==
  \A h \in Handlers : Busy(h) => \A i \in DOMAIN req[h].items :
    WithinWindow(req[h].op, req[h].items[i].value.exec, req[h].items[i].at)

(* A request never lasts longer than one timeout per key: a key may have to
   wait for a leader that started later, but never for two (singleflight under
   the leader's context). *)
BoundedDuration ==
  \A h \in Handlers : Busy(h) =>
    now <= req[h].arrived + Len(req[h].keys) * Timeout(req[h].op)

(* Every request is answered (with an item per key). *)
EveryRequestAnswered == \A h \in Handlers : Busy(h) ~> ~Busy(h)
=============================================================================
