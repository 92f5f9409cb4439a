------------------------- MODULE VerifyServer_proofs -------------------------
(***************************************************************************)
(* Proofs about VerifyServer for any handlers, artifacts, inputs and       *)
(* timeouts.                                                               *)
(***************************************************************************)
EXTENDS VerifyServer, TLAPS

USE DEF Ops

(* The keys of the singleflight group belong to one handler and one artifact
   (verifyKey, mutateKey). *)
LEMMA KeyFacts ==
  /\ \A op \in Ops, a \in Artifacts : FlightKey(op, a) = <<op, a>> /\ FlightKey(op, a) \in Keys
  /\ Idle \notin Requests /\ NoFlight \notin Flights /\ NoEntry \notin Entries
BY DEF FlightKey, verifyKey, mutateKey, Keys, Idle, Requests, NoFlight, Flights, NoEntry, Entries

(* Timeouts are numbers (newServer). *)
LEMMA TimeoutType == \A op \in Ops : Timeout(op) \in Nat
BY TimesAssumption DEF Timeout

(* A change of stage leaves the rest of a request alone. *)
LEMMA InStageFacts ==
  ASSUME NEW r \in Requests, NEW st \in {"lookup", "do", "lead", "wait"}
  PROVE  /\ InStage(r, st) \in Requests /\ InStage(r, st).stage = st
         /\ InStage(r, st).op = r.op /\ InStage(r, st).keys = r.keys
         /\ InStage(r, st).items = r.items /\ InStage(r, st).arrived = r.arrived
BY DEF InStage, Requests

(* An item is appended and the request goes back to its next key. *)
LEMMA WithItemFacts ==
  ASSUME NEW r \in Requests, NEW it \in Items
  PROVE  /\ WithItem(r, it) \in Requests /\ WithItem(r, it).stage = "lookup"
         /\ WithItem(r, it).op = r.op /\ WithItem(r, it).keys = r.keys
         /\ WithItem(r, it).items = Append(r.items, it) /\ WithItem(r, it).arrived = r.arrived
<1>1. Append(r.items, it) \in Seq(Items)
  BY DEF Requests
<1> QED BY <1>1 DEF WithItem, Requests

(* Joining adds a waiter and changes nothing else of a flight (sfGroup.Do). *)
LEMMA JoinedFacts ==
  ASSUME NEW f \in Flights, NEW h \in Handlers
  PROVE  /\ Joined(f, h) \in Flights /\ Joined(f, h).waiters = f.waiters \cup {h}
         /\ Joined(f, h).leader = f.leader /\ Joined(f, h).exec = f.exec
         /\ Joined(f, h).begun = f.begun
BY DEF Joined, Flights

-----------------------------------------------------------------------------
(* A request has no more items than keys, and lacks one while it is away from
   the head of its loop. *)
Shape ==
  \A h \in Handlers : Busy(h) =>
    /\ Len(req[h].items) <= Len(req[h].keys)
    /\ req[h].stage # "lookup" => ~Finished(h)
    /\ req[h].arrived <= now

FlightInv == TypeOK /\ Shape /\ FlightsAreLed

(* A busy handler holds a request (verify, mutate). *)
LEMMA BusyRequest ==
  ASSUME TypeOK, NEW h \in Handlers, Busy(h)
  PROVE  /\ req[h] \in Requests /\ req[h].op \in Ops /\ req[h].keys \in Seq(Artifacts)
         /\ req[h].items \in Seq(Items) /\ req[h].arrived \in Nat
         /\ Len(req[h].items) \in Nat /\ Len(req[h].keys) \in Nat
         /\ Deadline(h) \in Nat /\ Deadline(h) = req[h].arrived + Timeout(req[h].op)
<1>1. req[h] \in Requests
  BY DEF TypeOK, Busy
<1> QED BY <1>1, TimeoutType DEF Requests, Deadline

(* An unfinished request has a next key, and it is an artifact. *)
LEMMA PendingKey ==
  ASSUME TypeOK, Shape, NEW h \in Handlers, Busy(h), ~Finished(h)
  PROVE  /\ Artifact(h) \in Artifacts /\ KeyOf(h) = <<req[h].op, Artifact(h)>>
         /\ KeyOf(h) \in Keys /\ Len(req[h].items) < Len(req[h].keys)
<1>1. Len(req[h].items) < Len(req[h].keys)
  BY BusyRequest DEF Shape, Finished
<1>2. Artifact(h) \in Artifacts
  BY <1>1, BusyRequest DEF Artifact
<1> QED BY <1>1, <1>2, BusyRequest, KeyFacts DEF KeyOf

(* What is said of a request depends on nothing but its record. *)
LEMMA Frame ==
  ASSUME NEW x, req'[x] = req[x]
  PROVE  /\ Busy(x)' = Busy(x) /\ KeyOf(x)' = KeyOf(x) /\ Finished(x)' = Finished(x)
         /\ Leading(x)' = Leading(x) /\ Deadline(x)' = Deadline(x)
BY DEF Busy, KeyOf, Finished, Leading, Deadline, Artifact

(* A request that neither enters nor leaves a flight disturbs no flight. *)
LEMMA QuietStep ==
  ASSUME FlightInv, NEW h \in Handlers, NEW r \in Requests \cup {Idle},
         req' = [req EXCEPT ![h] = r], UNCHANGED <<now, installed, cache, flight>>,
         Busy(h) => req[h].stage \in {"lookup", "do"},
         r # Idle => /\ r.stage \in {"lookup", "do"} /\ r.arrived <= now
                     /\ Len(r.items) <= Len(r.keys)
                     /\ r.stage = "do" => Len(r.items) # Len(r.keys)
  PROVE  FlightInv'
<1>1. TypeOK'
  BY DEF FlightInv, TypeOK
<1>2. \A x \in Handlers : req'[x] = IF x = h THEN r ELSE req[x]
  BY DEF FlightInv, TypeOK
<1>3. Shape'
  <2> SUFFICES ASSUME NEW x \in Handlers, Busy(x)'
               PROVE  /\ Len(req'[x].items) <= Len(req'[x].keys)
                      /\ req'[x].stage # "lookup" => ~Finished(x)'
                      /\ req'[x].arrived <= now'
    BY DEF Shape
  <2>1. CASE x = h
    BY <1>2, <2>1 DEF Busy, Finished
  <2>2. CASE x # h
    BY <1>2, <2>2, Frame DEF FlightInv, Shape
  <2> QED BY <2>1, <2>2
<1>4. FlightsAreLed'
  <2>1. ASSUME NEW k \in Keys, flight[k] # NoFlight
        PROVE  /\ flight[k].leader \in Handlers \ {h} /\ flight[k].waiters \subseteq Handlers \ {h}
    BY <2>1 DEF FlightInv, FlightsAreLed, Leading, TypeOK, Flights
  <2>2. ASSUME NEW k \in Keys, flight'[k] # NoFlight
        PROVE  /\ Leading(flight[k].leader)' /\ KeyOf(flight[k].leader)' = k
               /\ \A w \in flight[k].waiters :
                    Busy(w)' /\ req'[w].stage = "wait" /\ ~Finished(w)' /\ KeyOf(w)' = k
    <3>1. /\ Leading(flight[k].leader) /\ KeyOf(flight[k].leader) = k
          /\ \A w \in flight[k].waiters :
               Busy(w) /\ req[w].stage = "wait" /\ ~Finished(w) /\ KeyOf(w) = k
      BY <2>2 DEF FlightInv, FlightsAreLed
    <3>2. req'[flight[k].leader] = req[flight[k].leader]
          /\ \A w \in flight[k].waiters : req'[w] = req[w]
      BY <1>2, <2>1, <2>2
    <3>3. Leading(flight[k].leader)' /\ KeyOf(flight[k].leader)' = k
      BY <3>1, <3>2 DEF Leading, KeyOf, Busy, Artifact
    <3> QED BY <3>1, <3>2, <3>3, Frame
  <2>3. ASSUME NEW x \in Handlers, Busy(x)', ~Finished(x)'
        PROVE  /\ req'[x].stage = "lead" => /\ flight'[KeyOf(x)'] # NoFlight
                                            /\ flight'[KeyOf(x)'].leader = x
               /\ req'[x].stage = "wait" => /\ flight'[KeyOf(x)'] # NoFlight
                                            /\ x \in flight'[KeyOf(x)'].waiters
    <3>1. CASE x = h
      BY <1>2, <2>3, <3>1 DEF Busy
    <3>2. CASE x # h
      BY <1>2, <2>3, <3>2, Frame DEF FlightInv, FlightsAreLed
    <3> QED BY <3>1, <3>2
  <2> QED BY <2>2, <2>3 DEF FlightsAreLed
<1> QED BY <1>1, <1>3, <1>4 DEF FlightInv

(* The first caller becomes the leader of a new flight. *)
LEMMA LeadStep ==
  ASSUME FlightInv, NEW h \in Handlers, Lead(h)
  PROVE  FlightInv'
<1> USE DEF Lead
<1> DEFINE k == KeyOf(h)
<1>1. /\ req[h] \in Requests /\ Busy(h) /\ ~Finished(h) /\ k \in Keys
  BY BusyRequest, PendingKey DEF FlightInv, Shape
<1>2. /\ \A x \in Handlers : req'[x] = IF x = h THEN InStage(req[h], "lead") ELSE req[x]
      /\ \A j \in Keys : flight'[j] = IF j = k THEN Flight(h, getExecutor) ELSE flight[j]
  BY <1>1 DEF FlightInv, TypeOK
<1>3. Flight(h, getExecutor) \in Flights /\ Flight(h, getExecutor) # NoFlight
      /\ Flight(h, getExecutor).leader = h /\ Flight(h, getExecutor).waiters = {}
  BY KeyFacts DEF Flight, Flights, getExecutor, FlightInv, TypeOK
<1>4. /\ Busy(h)' /\ ~Finished(h)' /\ KeyOf(h)' = k /\ Leading(h)' /\ req'[h].stage = "lead"
      /\ req'[h] \in Requests /\ req'[h].items = req[h].items /\ req'[h].keys = req[h].keys
      /\ req'[h].arrived = req[h].arrived
  BY <1>1, <1>2, InStageFacts, KeyFacts DEF Busy, Finished, KeyOf, Artifact, Leading
<1>5. TypeOK'
  <2>1. req' \in [Handlers -> Requests \cup {Idle}]
    BY <1>4, <1>2 DEF FlightInv, TypeOK
  <2>2. flight' \in [Keys -> Flights \cup {NoFlight}]
    BY <1>1, <1>3 DEF FlightInv, TypeOK
  <2> QED BY <2>1, <2>2 DEF FlightInv, TypeOK
<1>6. Shape'
  BY <1>1, <1>2, <1>4, Frame DEF FlightInv, Shape
<1>7. ASSUME NEW x \in Handlers, x # h, Busy(x), ~Finished(x), req[x].stage \in {"lead", "wait"}
      PROVE  KeyOf(x) # k
  BY <1>7 DEF FlightInv, FlightsAreLed
<1>8. ASSUME NEW j \in Keys, flight'[j] # NoFlight
      PROVE  /\ Leading(flight[j].leader)' /\ KeyOf(flight[j].leader)' = j
             /\ \A w \in flight'[j].waiters :
                  Busy(w)' /\ req'[w].stage = "wait" /\ ~Finished(w)' /\ KeyOf(w)' = j
  <2>1. CASE j = k
    BY <1>2, <1>3, <1>4, <2>1 DEF Leading, KeyOf, Busy, Artifact
  <2>2. CASE j # k
    <3>1. /\ flight'[j] = flight[j] /\ flight[j] # NoFlight
          /\ Leading(flight[j].leader) /\ KeyOf(flight[j].leader) = j
          /\ flight[j].leader \in Handlers /\ flight[j].waiters \subseteq Handlers
          /\ \A w \in flight[j].waiters :
               Busy(w) /\ req[w].stage = "wait" /\ ~Finished(w) /\ KeyOf(w) = j
      BY <1>2, <1>8, <2>2 DEF FlightInv, FlightsAreLed, TypeOK, Flights
    <3>2. req'[flight[j].leader] = req[flight[j].leader]
          /\ \A w \in flight[j].waiters : req'[w] = req[w]
      BY <1>2, <2>2, <3>1
    <3> QED BY <3>1, <3>2, Frame DEF Leading, KeyOf, Busy, Artifact
  <2> QED BY <2>1, <2>2
<1>9. ASSUME NEW x \in Handlers, Busy(x)', ~Finished(x)'
      PROVE  /\ req'[x].stage = "lead" => /\ flight'[KeyOf(x)'] # NoFlight
                                          /\ flight'[KeyOf(x)'].leader = x
             /\ req'[x].stage = "wait" => /\ flight'[KeyOf(x)'] # NoFlight
                                          /\ x \in flight'[KeyOf(x)'].waiters
  <2>1. CASE x = h
    BY <1>1, <1>2, <1>3, <1>4, <2>1
  <2>2. CASE x # h
    <3>1. Busy(x) /\ ~Finished(x) /\ req'[x] = req[x] /\ KeyOf(x)' = KeyOf(x)
      BY <1>2, <1>9, <2>2, Frame
    <3>2. KeyOf(x) \in Keys
      BY <3>1, PendingKey DEF FlightInv
    <3> QED BY <1>2, <1>7, <2>2, <3>1, <3>2 DEF FlightInv, FlightsAreLed
  <2> QED BY <2>1, <2>2
<1>10. FlightsAreLed'
  BY <1>8, <1>9 DEF FlightsAreLed
<1> QED BY <1>5, <1>6, <1>10 DEF FlightInv

(* A later caller waits with the others. *)
LEMMA JoinStep ==
  ASSUME FlightInv, NEW h \in Handlers, Join(h)
  PROVE  FlightInv'
<1> USE DEF Join
<1> DEFINE k == KeyOf(h)
<1>1. /\ req[h] \in Requests /\ Busy(h) /\ ~Finished(h) /\ k \in Keys
      /\ flight[k] \in Flights /\ Leading(flight[k].leader) /\ flight[k].leader # h
  BY BusyRequest, PendingKey DEF FlightInv, Shape, TypeOK, FlightsAreLed, Leading
<1>2. /\ \A x \in Handlers : req'[x] = IF x = h THEN InStage(req[h], "wait") ELSE req[x]
      /\ \A j \in Keys : flight'[j] = IF j = k THEN Joined(flight[k], h) ELSE flight[j]
  BY <1>1 DEF FlightInv, TypeOK
<1>3. /\ Joined(flight[k], h) \in Flights /\ Joined(flight[k], h) # NoFlight
      /\ Joined(flight[k], h).leader = flight[k].leader
      /\ Joined(flight[k], h).waiters = flight[k].waiters \cup {h}
  BY <1>1, JoinedFacts, KeyFacts
<1>4. /\ Busy(h)' /\ ~Finished(h)' /\ KeyOf(h)' = k /\ req'[h].stage = "wait"
      /\ req'[h] \in Requests /\ req'[h].items = req[h].items /\ req'[h].keys = req[h].keys
      /\ req'[h].arrived = req[h].arrived
  <2>1. /\ req'[h] \in Requests /\ req'[h].stage = "wait" /\ req'[h].op = req[h].op
        /\ req'[h].items = req[h].items /\ req'[h].keys = req[h].keys
        /\ req'[h].arrived = req[h].arrived
    BY <1>1, <1>2, InStageFacts
  <2>2. Busy(h)' /\ ~Finished(h)'
    BY <1>1, <2>1, KeyFacts DEF Busy, Finished
  <2>3. KeyOf(h)' = k
    BY <2>1 DEF KeyOf, Artifact
  <2> QED BY <2>1, <2>2, <2>3
<1>5. TypeOK'
  <2>1. req' \in [Handlers -> Requests \cup {Idle}]
    BY <1>4, <1>2 DEF FlightInv, TypeOK
  <2>2. flight' \in [Keys -> Flights \cup {NoFlight}]
    BY <1>1, <1>3 DEF FlightInv, TypeOK
  <2> QED BY <2>1, <2>2 DEF FlightInv, TypeOK
<1>6. Shape'
  BY <1>1, <1>2, <1>4, Frame DEF FlightInv, Shape
<1>8. ASSUME NEW j \in Keys, flight'[j] # NoFlight
      PROVE  /\ Leading(flight[j].leader)' /\ KeyOf(flight[j].leader)' = j
             /\ \A w \in flight'[j].waiters :
                  Busy(w)' /\ req'[w].stage = "wait" /\ ~Finished(w)' /\ KeyOf(w)' = j
  <2>1. /\ flight[j] # NoFlight /\ flight'[j].leader = flight[j].leader
        /\ flight'[j].waiters = (IF j = k THEN flight[j].waiters \cup {h} ELSE flight[j].waiters)
    BY <1>1, <1>2, <1>3, <1>8
  <2>2. /\ Leading(flight[j].leader) /\ KeyOf(flight[j].leader) = j
        /\ flight[j].leader \in Handlers \ {h} /\ flight[j].waiters \subseteq Handlers \ {h}
        /\ \A w \in flight[j].waiters :
             Busy(w) /\ req[w].stage = "wait" /\ ~Finished(w) /\ KeyOf(w) = j
    BY <2>1 DEF FlightInv, FlightsAreLed, TypeOK, Flights, Leading
  <2>3. req'[flight[j].leader] = req[flight[j].leader]
        /\ \A w \in flight[j].waiters : req'[w] = req[w]
    BY <1>2, <2>2
  <2>4. Leading(flight[j].leader)' /\ KeyOf(flight[j].leader)' = j
    BY <2>1, <2>2, <2>3 DEF Leading, KeyOf, Busy, Artifact
  <2> QED BY <1>4, <2>1, <2>2, <2>3, <2>4, Frame
<1>9. ASSUME NEW x \in Handlers, Busy(x)', ~Finished(x)'
      PROVE  /\ req'[x].stage = "lead" => /\ flight'[KeyOf(x)'] # NoFlight
                                          /\ flight'[KeyOf(x)'].leader = x
             /\ req'[x].stage = "wait" => /\ flight'[KeyOf(x)'] # NoFlight
                                          /\ x \in flight'[KeyOf(x)'].waiters
  <2>1. CASE x = h
    BY <1>1, <1>2, <1>3, <1>4, <2>1
  <2>2. CASE x # h
    <3>1. Busy(x) /\ ~Finished(x) /\ req'[x] = req[x] /\ KeyOf(x)' = KeyOf(x)
      BY <1>2, <1>9, <2>2, Frame
    <3>2. KeyOf(x) \in Keys
      BY <3>1, PendingKey DEF FlightInv
    <3> QED BY <1>2, <1>3, <2>2, <3>1, <3>2 DEF FlightInv, FlightsAreLed
  <2> QED BY <2>1, <2>2
<1>10. FlightsAreLed'
  BY <1>8, <1>9 DEF FlightsAreLed
<1> QED BY <1>5, <1>6, <1>10 DEF FlightInv

(* When a call returns, the leader and all its waiters move on together. *)
LEMMA LandStep ==
  ASSUME FlightInv, NEW h \in Handlers, NEW it \in Items, Leading(h), Land(h, it),
         cache' \in [Ops -> [Keys -> Entries \cup {NoEntry}]], UNCHANGED <<now, installed>>
  PROVE  FlightInv'
<1> DEFINE k == KeyOf(h)
           landing == flight[k].waiters \cup {h}
<1>1. /\ Busy(h) /\ ~Finished(h) /\ k \in Keys /\ flight[k] \in Flights
      /\ flight[k].leader = h
  BY BusyRequest, PendingKey DEF FlightInv, Shape, Leading, FlightsAreLed, TypeOK
<1>2. ASSUME NEW x \in landing
      PROVE  x \in Handlers /\ Busy(x) /\ ~Finished(x) /\ KeyOf(x) = k
             /\ req[x].stage \in {"lead", "wait"}
  <2>1. \A w \in flight[k].waiters :
          w \in Handlers /\ Busy(w) /\ req[w].stage = "wait" /\ ~Finished(w) /\ KeyOf(w) = k
    BY <1>1, KeyFacts DEF FlightInv, FlightsAreLed, Flights
  <2> QED BY <1>1, <2>1 DEF Leading
<1>3. ASSUME NEW x \in Handlers, Busy(x), ~Finished(x), KeyOf(x) = k,
             req[x].stage \in {"lead", "wait"}
      PROVE  x \in landing
  BY <1>1, <1>3 DEF FlightInv, FlightsAreLed
<1>4. /\ \A x \in Handlers : req'[x] = IF x \in landing THEN WithItem(req[x], it) ELSE req[x]
      /\ \A j \in Keys : flight'[j] = IF j = k THEN NoFlight ELSE flight[j]
  BY <1>1 DEF Land, FlightInv, TypeOK
<1>5. ASSUME NEW x \in landing
      PROVE  /\ req'[x] \in Requests /\ req'[x].stage = "lookup" /\ req'[x].keys = req[x].keys
             /\ req'[x].op = req[x].op /\ req'[x].items = Append(req[x].items, it)
             /\ req'[x].arrived = req[x].arrived
  <2>1. req[x] \in Requests /\ req'[x] = WithItem(req[x], it)
    BY <1>2, <1>4, <1>5, BusyRequest DEF FlightInv
  <2> QED BY <2>1, WithItemFacts
<1>6. TypeOK'
  <2>1. req' \in [Handlers -> Requests \cup {Idle}]
    <3>1. \A x \in Handlers : req'[x] \in Requests \cup {Idle}
      BY <1>4, <1>5 DEF FlightInv, TypeOK
    <3> QED BY <3>1 DEF Land
  <2>2. flight' \in [Keys -> Flights \cup {NoFlight}]
    BY DEF FlightInv, TypeOK, Land
  <2> QED BY <2>1, <2>2 DEF FlightInv, TypeOK
<1>7. Shape'
  <2> SUFFICES ASSUME NEW x \in Handlers, Busy(x)'
               PROVE  /\ Len(req'[x].items) <= Len(req'[x].keys)
                      /\ req'[x].stage # "lookup" => ~Finished(x)'
                      /\ req'[x].arrived <= now'
    BY DEF Shape
  <2>1. CASE x \in landing
    <3>1. /\ Len(req[x].items) < Len(req[x].keys) /\ req[x].items \in Seq(Items)
          /\ Len(req[x].keys) \in Nat
      BY <1>2, <2>1, PendingKey, BusyRequest DEF FlightInv
    <3>2. Len(req'[x].items) = Len(req[x].items) + 1 /\ req'[x].keys = req[x].keys
      BY <1>5, <2>1, <3>1
    <3> QED BY <1>2, <1>5, <2>1, <3>1, <3>2 DEF FlightInv, Shape
  <2>2. CASE x \notin landing
    BY <1>4, <2>2, Frame DEF FlightInv, Shape
  <2> QED BY <2>1, <2>2
<1>8. ASSUME NEW j \in Keys, flight'[j] # NoFlight
      PROVE  /\ Leading(flight[j].leader)' /\ KeyOf(flight[j].leader)' = j
             /\ \A w \in flight'[j].waiters :
                  Busy(w)' /\ req'[w].stage = "wait" /\ ~Finished(w)' /\ KeyOf(w)' = j
  <2>1. /\ j # k /\ flight[j] # NoFlight /\ flight'[j] = flight[j]
    BY <1>4, <1>8
  <2>2. /\ Leading(flight[j].leader) /\ KeyOf(flight[j].leader) = j
        /\ flight[j].leader \in Handlers /\ flight[j].waiters \subseteq Handlers
        /\ \A w \in flight[j].waiters :
             Busy(w) /\ req[w].stage = "wait" /\ ~Finished(w) /\ KeyOf(w) = j
    BY <2>1 DEF FlightInv, FlightsAreLed, TypeOK, Flights
  <2>3. req'[flight[j].leader] = req[flight[j].leader]
        /\ \A w \in flight[j].waiters : req'[w] = req[w]
    BY <1>2, <1>4, <2>1, <2>2
  <2>4. Leading(flight[j].leader)' /\ KeyOf(flight[j].leader)' = j
    BY <2>1, <2>2, <2>3 DEF Leading, KeyOf, Busy, Artifact
  <2> QED BY <2>1, <2>2, <2>3, <2>4, Frame
<1>9. ASSUME NEW x \in Handlers, Busy(x)', ~Finished(x)'
      PROVE  /\ req'[x].stage = "lead" => /\ flight'[KeyOf(x)'] # NoFlight
                                          /\ flight'[KeyOf(x)'].leader = x
             /\ req'[x].stage = "wait" => /\ flight'[KeyOf(x)'] # NoFlight
                                          /\ x \in flight'[KeyOf(x)'].waiters
  <2>1. CASE x \in landing
    BY <1>5, <2>1
  <2>2. CASE x \notin landing
    <3>1. Busy(x) /\ ~Finished(x) /\ req'[x] = req[x] /\ KeyOf(x)' = KeyOf(x)
      BY <1>4, <1>9, <2>2, Frame
    <3>2. KeyOf(x) \in Keys
      BY <3>1, PendingKey DEF FlightInv
    <3> QED BY <1>3, <1>4, <2>2, <3>1, <3>2 DEF FlightInv, FlightsAreLed
  <2> QED BY <2>1, <2>2
<1>10. FlightsAreLed'
  BY <1>8, <1>9 DEF FlightsAreLed
<1> QED BY <1>6, <1>7, <1>10 DEF FlightInv

-----------------------------------------------------------------------------
(* What a finished call puts into items and into the cache is well formed. *)
LEMMA AnswerType ==
  ASSUME FlightInv, NEW h \in Handlers, Leading(h)
  PROVE  Answer(h) \in Values
<1>1. Busy(h) /\ ~Finished(h) /\ flight[KeyOf(h)] # NoFlight
  BY DEF FlightInv, Shape, Leading, FlightsAreLed
<1>2. Artifact(h) \in Artifacts /\ flight[KeyOf(h)].exec \in Nat
  BY <1>1, PendingKey DEF FlightInv, TypeOK, Flights
<1> QED BY <1>2 DEF Answer, Value, Values, Kinds

(* Items made now are well formed. *)
LEMMA ItemType ==
  ASSUME TypeOK, NEW v \in Values, NEW err \in Errors
  PROVE  Item(v, err) \in Items /\ Item(v, err).value = v /\ Item(v, err).err = err
         /\ Item(v, err).at = now
BY DEF Item, Items, TypeOK

(* What Set writes into a cache is an entry. *)
LEMMA EntryType ==
  ASSUME TypeOK, NEW v \in Values
  PROVE  Entry(v) \in Entries /\ Entry(v).value = v /\ Entry(v).expires = now + CacheTTL
<1>1. now + CacheTTL \in Nat
  BY TimesAssumption DEF TypeOK
<1> QED BY <1>1 DEF Entry, Entries

(* A successful call: what it stores is an entry, and it lands. *)
LEMMA SucceedStep ==
  ASSUME FlightInv, NEW h \in Handlers, Succeed(h)
  PROVE  FlightInv'
<1>1. Leading(h) /\ Land(h, Item(Answer(h), "none")) /\ UNCHANGED <<now, installed>>
  BY DEF Succeed
<1>2. Answer(h) \in Values /\ Item(Answer(h), "none") \in Items
  BY <1>1, AnswerType, ItemType DEF FlightInv, Errors
<1>3. Entry(Answer(h)) \in Entries
  BY <1>2, EntryType DEF FlightInv
<1>4. cache' \in [Ops -> [Keys -> Entries \cup {NoEntry}]]
  <2>1. \/ cache' = [cache EXCEPT ![req[h].op][KeyOf(h)] = Entry(Answer(h))]
        \/ UNCHANGED cache
    BY DEF Succeed
  <2>2. cache \in [Ops -> [Keys -> Entries \cup {NoEntry}]]
    BY DEF FlightInv, TypeOK
  <2> QED BY <1>3, <2>1, <2>2
<1> QED BY <1>1, <1>2, <1>4, LandStep

(* A failed call lands without touching the cache. *)
LEMMA FailStep ==
  ASSUME FlightInv, NEW h \in Handlers, Fail(h)
  PROVE  FlightInv'
<1>1. PICK err \in CallErrors(h) :
        Land(h, Item(Value(IF req[h].op = "verify" THEN "nil" ELSE "reference",
                           Artifact(h), 0), err))
  BY DEF Fail
<1>2. Leading(h) /\ UNCHANGED <<now, installed, cache>>
  BY DEF Fail
<1>3. err \in Errors
  BY DEF CallErrors, Errors
<1>4. Artifact(h) \in Artifacts
  BY <1>2, PendingKey DEF FlightInv, Shape, Leading
<1>5. Value(IF req[h].op = "verify" THEN "nil" ELSE "reference", Artifact(h), 0) \in Values
  BY <1>4 DEF Value, Values, Kinds
<1> QED BY <1>1, <1>2, <1>3, <1>5, LandStep, ItemType DEF FlightInv, TypeOK

(* What a request looks like after it got an item at the head of its loop. *)
LEMMA NextKey ==
  ASSUME FlightInv, NEW h \in Handlers, NEW it \in Items, LookingUp(h)
  PROVE  /\ WithItem(req[h], it) \in Requests
         /\ WithItem(req[h], it).stage = "lookup" /\ WithItem(req[h], it).arrived <= now
         /\ Len(WithItem(req[h], it).items) <= Len(WithItem(req[h], it).keys)
<1>1. Busy(h) /\ ~Finished(h)
  BY DEF LookingUp
<1>2. req[h] \in Requests /\ req[h].items \in Seq(Items) /\ Len(req[h].keys) \in Nat
      /\ Len(req[h].items) < Len(req[h].keys) /\ req[h].arrived <= now
  BY <1>1, BusyRequest, PendingKey DEF FlightInv, Shape
<1>3. Len(Append(req[h].items, it)) = Len(req[h].items) + 1 /\ Len(req[h].items) \in Nat
  BY <1>2
<1> QED BY <1>2, <1>3, WithItemFacts

(* The value behind a live cache entry. *)
LEMMA CachedValue ==
  ASSUME FlightInv, NEW h \in Handlers, LookingUp(h), Cached(req[h].op, KeyOf(h))
  PROVE  cache[req[h].op][KeyOf(h)] \in Entries /\ cache[req[h].op][KeyOf(h)].value \in Values
<1>1. req[h].op \in Ops /\ KeyOf(h) \in Keys
  BY BusyRequest, PendingKey DEF LookingUp, FlightInv
<1> QED BY <1>1 DEF Cached, FlightInv, TypeOK, Entries

(* The invariant of the singleflight group holds when the server starts. *)
LEMMA FlightInvInit == Init => FlightInv
<1> SUFFICES ASSUME Init PROVE FlightInv
  OBVIOUS
<1>1. TypeOK
  BY DEF Init, TypeOK
<1>2. Shape /\ FlightsAreLed
  BY DEF Init, Shape, FlightsAreLed, Busy
<1> QED BY <1>1, <1>2 DEF FlightInv

(* Every step keeps the invariant of the singleflight group. *)
LEMMA FlightInvStep == FlightInv /\ [Next]_vars => FlightInv'
<1> SUFFICES ASSUME FlightInv, [Next]_vars PROVE FlightInv'
  OBVIOUS
<1>1. ASSUME NEW h \in Handlers, Receive(h) PROVE FlightInv'
  <2>1. PICK x \in Inputs : req' = [req EXCEPT ![h] = Request(x.op, x.keys)]
    BY <1>1 DEF Receive
  <2>2. Request(x.op, x.keys) \in Requests
    BY InputsAssumption DEF Request, Requests, FlightInv, TypeOK
  <2>3. /\ Request(x.op, x.keys).stage = "lookup" /\ Request(x.op, x.keys).arrived = now
        /\ Request(x.op, x.keys).items = <<>> /\ Request(x.op, x.keys).keys = x.keys
        /\ x.keys \in Seq(Artifacts)
    BY InputsAssumption DEF Request
  <2>4. now <= now /\ Len(<<>>) <= Len(x.keys)
    BY <2>3 DEF FlightInv, TypeOK
  <2> QED BY <1>1, <2>1, <2>2, <2>3, <2>4, QuietStep DEF Receive
<1>2. ASSUME NEW h \in Handlers, AnswerAtOnce(h) PROVE FlightInv'
  <2> DEFINE it == Item(Value("reference", Artifact(h), 0),
                        IF Form[Artifact(h)] = "malformed" THEN "parse" ELSE "none")
  <2>1. LookingUp(h) /\ Artifact(h) \in Artifacts
    BY <1>2, PendingKey DEF AnswerAtOnce, LookingUp, FlightInv
  <2>2. it \in Items
    <3>1. Value("reference", Artifact(h), 0) \in Values
      BY <2>1 DEF Value, Values, Kinds
    <3> QED BY <3>1, ItemType DEF Errors, FlightInv
  <2>3. req' = [req EXCEPT ![h] = WithItem(req[h], it)]
    BY <1>2 DEF AnswerAtOnce
  <2> HIDE DEF it
  <2> QED BY <1>2, <2>1, <2>2, <2>3, NextKey, QuietStep DEF AnswerAtOnce, LookingUp
<1>3. ASSUME NEW h \in Handlers, CacheHit(h) PROVE FlightInv'
  <2> DEFINE it == Item(cache[req[h].op][KeyOf(h)].value, "none")
  <2>1. LookingUp(h) /\ it \in Items
    BY <1>3, CachedValue, ItemType DEF CacheHit, Errors, FlightInv
  <2>2. req' = [req EXCEPT ![h] = WithItem(req[h], it)]
    BY <1>3 DEF CacheHit
  <2> HIDE DEF it
  <2> QED BY <1>3, <2>1, <2>2, NextKey, QuietStep DEF CacheHit, LookingUp
<1>4. ASSUME NEW h \in Handlers, CacheMiss(h) PROVE FlightInv'
  <2>1. /\ Busy(h) /\ ~Finished(h) /\ req[h].stage = "lookup" /\ req[h] \in Requests
        /\ Len(req[h].items) <= Len(req[h].keys) /\ req[h].arrived <= now
    BY <1>4, BusyRequest DEF CacheMiss, LookingUp, FlightInv, Shape
  <2>2. /\ InStage(req[h], "do") \in Requests /\ InStage(req[h], "do").stage = "do"
        /\ InStage(req[h], "do").keys = req[h].keys /\ InStage(req[h], "do").items = req[h].items
        /\ InStage(req[h], "do").arrived = req[h].arrived
    BY <2>1, InStageFacts
  <2> QED BY <1>4, <2>1, <2>2, QuietStep DEF CacheMiss, Finished
<1>5. ASSUME NEW h \in Handlers, Respond(h) PROVE FlightInv'
  <2>1. req[h].stage = "lookup"
    BY <1>5 DEF Respond, Finished, FlightInv, Shape
  <2> QED BY <1>5, <2>1, QuietStep DEF Respond
<1>6. CASE Install
  <2>1. TypeOK'
    BY <1>6 DEF Install, FlightInv, TypeOK
  <2> QED BY <1>6, <2>1 DEF Install, FlightInv, Shape, FlightsAreLed, Busy, Finished, Leading,
                            KeyOf, Artifact
<1>7. CASE Tick
  <2>1. TypeOK'
    BY <1>7 DEF Tick, FlightInv, TypeOK
  <2>2. Shape'
    BY <1>7, BusyRequest DEF Tick, FlightInv, TypeOK, Shape, Busy, Finished
  <2> QED BY <1>7, <2>1, <2>2 DEF Tick, FlightInv, FlightsAreLed, Busy, Finished, Leading,
                                  KeyOf, Artifact
<1>8. CASE UNCHANGED vars
  BY <1>8 DEF vars, FlightInv, TypeOK, Shape, FlightsAreLed, Busy, Finished, Leading,
              KeyOf, Artifact
<1> QED BY <1>1, <1>2, <1>3, <1>4, <1>5, <1>6, <1>7, <1>8, LeadStep, JoinStep, SucceedStep,
           FailStep DEF Next, Step

(* The invariant of the singleflight group holds in every behaviour. *)
THEOREM FlightInvariant == Spec => []FlightInv
BY FlightInvInit, FlightInvStep, PTL DEF Spec

(* Type correctness of the handlers, the caches and the flights. *)
THEOREM TypeCorrect == Spec => []TypeOK
BY FlightInvariant, PTL DEF FlightInv

(* One call per key at a time, led by a request that is inside the call, and
   nobody waits on a flight that has landed, for any number of concurrent
   requests with any number of keys. *)
THEOREM NobodyWaitsInVain == Spec => []FlightsAreLed
BY FlightInvariant, PTL DEF FlightInv

-----------------------------------------------------------------------------
(***************************************************************************)
(* The staleness window.  Dated(op, g, t): executor g exists and, if it    *)
(* has been replaced, t lies within the window that op leaves it.          *)
(***************************************************************************)
Dated(op, g, t) == g <= Len(installed) /\ WithinWindow(op, g, t)
ItemDated(op, it) == it.at <= now /\ Dated(op, it.value.exec, it.at)
ItemsDated(r) == \A i \in DOMAIN r.items : ItemDated(r.op, r.items[i])

(* A flight carries the executor that was current when it began, and ends by
   its leader's deadline. *)
FlightDated(k) ==
  /\ flight[k].exec <= Len(installed)
  /\ flight[k].exec < Len(installed) => flight[k].begun <= installed[flight[k].exec + 1]
  /\ flight[k].begun <= now /\ now <= flight[k].begun + Timeout(k[1])
  /\ Deadline(flight[k].leader) <= flight[k].begun + Timeout(k[1])

EntryDated(op, e) == e.expires <= now + CacheTTL /\ Dated(op, e.value.exec, e.expires)

FlightTimes == \A k \in Keys : flight[k] # NoFlight => FlightDated(k)
CacheTimes == \A op \in Ops, k \in Keys : cache[op][k] # NoEntry => EntryDated(op, cache[op][k])
ItemTimes == \A h \in Handlers : Busy(h) => ItemsDated(req[h])

TimeInv == FlightTimes /\ CacheTimes /\ ItemTimes

(* A replacement opens the window of the executor it replaces at the present. *)
LEMMA InstallDated ==
  ASSUME TypeOK, Install, NEW op \in Ops, NEW g \in Nat, NEW t \in Nat,
         t <= now + CacheTTL, Dated(op, g, t)
  PROVE  Dated(op, g, t)'
<1>1. /\ Len(installed') = Len(installed) + 1 /\ Len(installed) \in Nat
      /\ \A i \in 1..Len(installed) : installed'[i] = installed[i]
      /\ installed'[Len(installed) + 1] = now
  BY DEF Install, TypeOK
<1>2. CASE g < Len(installed)
  BY <1>1, <1>2 DEF Dated, WithinWindow
<1>3. CASE g = Len(installed)
  <2>1. installed'[g + 1] = now /\ now \in Nat /\ CacheTTL \in Nat /\ Timeout(op) \in Nat
    BY <1>1, <1>3, TimeoutType, TimesAssumption DEF TypeOK
  <2> QED BY <1>1, <1>3, <2>1 DEF Dated, WithinWindow
<1> QED BY <1>1, <1>2, <1>3 DEF Dated

(* A request's items stay dated when it gets one more that is. *)
LEMMA NewItemDated ==
  ASSUME NEW r \in Requests, NEW it \in Items, ItemsDated(r), ItemDated(r.op, it)
  PROVE  ItemsDated(WithItem(r, it))
<1>1. /\ WithItem(r, it).op = r.op /\ WithItem(r, it).items = Append(r.items, it)
      /\ r.items \in Seq(Items)
  BY WithItemFacts DEF Requests
<1> SUFFICES ASSUME NEW i \in DOMAIN Append(r.items, it)
             PROVE  ItemDated(r.op, Append(r.items, it)[i])
  BY <1>1 DEF ItemsDated
<1>2. CASE i \in DOMAIN r.items
  <2>1. Append(r.items, it)[i] = r.items[i]
    BY <1>1, <1>2
  <2> QED BY <1>2, <2>1 DEF ItemsDated
<1>3. CASE i = Len(r.items) + 1
  <2>1. Append(r.items, it)[i] = it
    BY <1>1, <1>3
  <2> QED BY <2>1
<1> QED BY <1>1, <1>2, <1>3

(* The arithmetic of the window: one timeout and one cache lifetime. *)
LEMMA WindowSum ==
  \A n, b, i, t, c \in Nat : (n <= b + t /\ b <= i) => n + c <= i + t + c /\ n <= i + t + c
OBVIOUS

(* The executor a flight carries is within its window now, and will be for one
   more cache lifetime. *)
LEMMA FlightWindow ==
  ASSUME FlightInv, TimeInv, NEW h \in Handlers, Leading(h)
  PROVE  /\ KeyOf(h) \in Keys /\ req[h].op \in Ops
         /\ Dated(req[h].op, flight[KeyOf(h)].exec, now)
         /\ Dated(req[h].op, flight[KeyOf(h)].exec, now + CacheTTL)
<1> DEFINE f == flight[KeyOf(h)]
<1>1. Busy(h) /\ ~Finished(h) /\ f # NoFlight
  BY DEF FlightInv, Shape, Leading, FlightsAreLed
<1>2. KeyOf(h) \in Keys /\ KeyOf(h) = <<req[h].op, Artifact(h)>> /\ req[h].op \in Ops
  BY <1>1, PendingKey, BusyRequest DEF FlightInv
<1>3. KeyOf(h)[1] = req[h].op
  BY <1>2
<1>4. f \in Flights /\ f.exec \in Nat /\ f.begun \in Nat
  BY <1>1, <1>2 DEF FlightInv, TypeOK, Flights
<1>5. /\ f.exec <= Len(installed)
      /\ f.exec < Len(installed) => f.begun <= installed[f.exec + 1]
      /\ now <= f.begun + Timeout(req[h].op)
  BY <1>1, <1>2, <1>3 DEF TimeInv, FlightTimes, FlightDated
<1>6. now \in Nat /\ CacheTTL \in Nat /\ Timeout(req[h].op) \in Nat /\ installed \in Seq(Nat)
  BY <1>2, TimeoutType, TimesAssumption DEF FlightInv, TypeOK
<1>7. f.exec < Len(installed) =>
        /\ now + CacheTTL <= installed[f.exec + 1] + Timeout(req[h].op) + CacheTTL
        /\ now <= installed[f.exec + 1] + Timeout(req[h].op) + CacheTTL
  <2> HAVE f.exec < Len(installed)
  <2>1. installed[f.exec + 1] \in Nat
    BY <1>4, <1>6
  <2> HIDE DEF f
  <2> QED BY <1>4, <1>5, <1>6, <2>1, WindowSum
<1> QED BY <1>2, <1>5, <1>7 DEF Dated, WithinWindow

(* When neither time nor the executor moves, what was dated stays dated. *)
LEMMA DatedFrame ==
  ASSUME UNCHANGED <<now, installed>>
  PROVE  /\ \A op, g, t : Dated(op, g, t)' = Dated(op, g, t)
         /\ \A op, it : ItemDated(op, it)' = ItemDated(op, it)
         /\ \A r : ItemsDated(r)' = ItemsDated(r)
         /\ \A op, e : EntryDated(op, e)' = EntryDated(op, e)
BY DEF Dated, ItemDated, ItemsDated, EntryDated, WithinWindow

(* Flights stay dated when a step starts none and leaves their leaders alone. *)
LEMMA FlightsStayDated ==
  ASSUME TimeInv, UNCHANGED <<now, installed>>,
         \A k \in Keys : flight'[k] # NoFlight =>
           /\ flight[k] # NoFlight /\ flight'[k].exec = flight[k].exec
           /\ flight'[k].begun = flight[k].begun /\ flight'[k].leader = flight[k].leader
           /\ req'[flight[k].leader] = req[flight[k].leader]
  PROVE  FlightTimes'
<1> SUFFICES ASSUME NEW k \in Keys, flight'[k] # NoFlight PROVE FlightDated(k)'
  BY DEF FlightTimes
<1>1. FlightDated(k)
  BY DEF TimeInv, FlightTimes
<1>2. Deadline(flight[k].leader)' = Deadline(flight[k].leader)
  BY DEF Deadline
<1> QED BY <1>1, <1>2 DEF FlightDated

(* A request that is in no flight changes, and its items stay dated. *)
LEMMA QuietTimes ==
  ASSUME FlightInv, TimeInv, NEW h \in Handlers, NEW r,
         req' = [req EXCEPT ![h] = r], UNCHANGED <<now, installed, cache, flight>>,
         Busy(h) => req[h].stage \in {"lookup", "do"},
         r # Idle => ItemsDated(r)
  PROVE  TimeInv'
<1>1. \A x \in Handlers : req'[x] = IF x = h THEN r ELSE req[x]
  BY DEF FlightInv, TypeOK
<1>2. FlightTimes'
  <2>1. \A k \in Keys : flight[k] # NoFlight =>
          flight[k].leader \in Handlers /\ flight[k].leader # h
    BY DEF FlightInv, TypeOK, Flights, FlightsAreLed, Leading
  <2> QED BY <1>1, <2>1, FlightsStayDated
<1>3. CacheTimes'
  BY DatedFrame DEF TimeInv, CacheTimes
<1>4. ItemTimes'
  <2> SUFFICES ASSUME NEW x \in Handlers, req'[x] # Idle PROVE ItemsDated(req'[x])
    BY DatedFrame DEF ItemTimes, Busy
  <2> QED BY <1>1 DEF TimeInv, ItemTimes, Busy
<1> QED BY <1>2, <1>3, <1>4 DEF TimeInv

(* Everybody who lands gets a dated item. *)
LEMMA LandTimes ==
  ASSUME FlightInv, TimeInv, NEW h \in Handlers, NEW it \in Items, Leading(h), Land(h, it),
         ItemDated(req[h].op, it), CacheTimes', UNCHANGED <<now, installed>>
  PROVE  TimeInv'
<1> DEFINE k == KeyOf(h)
           landing == flight[k].waiters \cup {h}
<1>1. /\ Busy(h) /\ ~Finished(h) /\ k \in Keys /\ flight[k] \in Flights
  BY BusyRequest, PendingKey DEF FlightInv, Shape, Leading, FlightsAreLed, TypeOK
<1>2. \A w \in flight[k].waiters :
        w \in Handlers /\ Busy(w) /\ ~Finished(w) /\ KeyOf(w) = k
  BY <1>1, KeyFacts DEF FlightInv, FlightsAreLed, Flights
<1>3. ASSUME NEW x \in landing
      PROVE  x \in Handlers /\ Busy(x) /\ KeyOf(x) = k /\ req[x] \in Requests /\ req[x].op = req[h].op
  <2>1. x \in Handlers /\ Busy(x) /\ ~Finished(x) /\ KeyOf(x) = k
    BY <1>1, <1>2
  <2>2. KeyOf(x) = <<req[x].op, Artifact(x)>> /\ k = <<req[h].op, Artifact(h)>>
    BY <1>1, <2>1, PendingKey DEF FlightInv
  <2>3. KeyOf(x)[1] = req[x].op /\ k[1] = req[h].op
    BY <2>2
  <2> HIDE DEF k
  <2> QED BY <2>1, <2>3, BusyRequest DEF FlightInv
<1>4. /\ \A x \in Handlers : req'[x] = IF x \in landing THEN WithItem(req[x], it) ELSE req[x]
      /\ \A j \in Keys : flight'[j] = IF j = k THEN NoFlight ELSE flight[j]
  BY <1>1 DEF Land, FlightInv, TypeOK
<1>5. FlightTimes'
  <2>1. ASSUME NEW j \in Keys, flight'[j] # NoFlight
        PROVE  /\ flight[j] # NoFlight /\ flight'[j] = flight[j]
               /\ req'[flight[j].leader] = req[flight[j].leader]
    <3>1. j # k /\ flight[j] # NoFlight /\ flight'[j] = flight[j]
      BY <1>4, <2>1
    <3>2. flight[j].leader \in Handlers /\ KeyOf(flight[j].leader) = j
      BY <3>1 DEF FlightInv, TypeOK, Flights, FlightsAreLed
    <3>3. flight[j].leader \notin landing
      BY <1>3, <3>1, <3>2
    <3> QED BY <1>4, <3>1, <3>2, <3>3
  <2> QED BY <2>1, FlightsStayDated
<1>6. ItemTimes'
  <2> SUFFICES ASSUME NEW x \in Handlers, req'[x] # Idle PROVE ItemsDated(req'[x])
    BY DatedFrame DEF ItemTimes, Busy
  <2>1. CASE x \in landing
    <3>1. req[x] \in Requests /\ ItemsDated(req[x]) /\ ItemDated(req[x].op, it)
      BY <1>3, <2>1 DEF TimeInv, ItemTimes
    <3> QED BY <1>4, <2>1, <3>1, NewItemDated
  <2>2. CASE x \notin landing
    BY <1>4, <2>2 DEF TimeInv, ItemTimes, Busy
  <2> QED BY <2>1, <2>2
<1> QED BY <1>5, <1>6 DEF TimeInv

(* A new flight carries the current executor and has its whole call ahead. *)
LEMMA LeadTimes ==
  ASSUME FlightInv, TimeInv, NEW h \in Handlers, Lead(h)
  PROVE  TimeInv'
<1> DEFINE k == KeyOf(h)
<1>1. /\ req[h] \in Requests /\ Busy(h) /\ ~Finished(h) /\ k \in Keys /\ k[1] = req[h].op
      /\ req[h].op \in Ops /\ req[h].arrived \in Nat /\ req[h].arrived <= now
      /\ Deadline(h) = req[h].arrived + Timeout(req[h].op)
  BY BusyRequest, PendingKey DEF FlightInv, Shape, Lead
<1>2. /\ \A x \in Handlers : req'[x] = IF x = h THEN InStage(req[h], "lead") ELSE req[x]
      /\ \A j \in Keys : flight'[j] = IF j = k THEN Flight(h, getExecutor) ELSE flight[j]
      /\ UNCHANGED <<now, installed, cache>>
  BY <1>1 DEF Lead, FlightInv, TypeOK
<1>3. /\ req'[h].op = req[h].op /\ req'[h].arrived = req[h].arrived
      /\ req'[h].items = req[h].items
  BY <1>1, <1>2, InStageFacts
<1>4. FlightTimes'
  <2> SUFFICES ASSUME NEW j \in Keys, flight'[j] # NoFlight PROVE FlightDated(j)'
    BY DEF FlightTimes
  <2>1. CASE j = k
    <3>1. /\ flight'[j].exec = Len(installed) /\ flight'[j].begun = now /\ flight'[j].leader = h
      BY <1>2, <2>1 DEF Flight, getExecutor
    <3>2. now \in Nat /\ Len(installed) \in Nat /\ Timeout(j[1]) \in Nat /\ j[1] = req[h].op
      BY <1>1, <2>1, TimeoutType DEF FlightInv, TypeOK
    <3>3. Deadline(flight[j].leader)' = req[h].arrived + Timeout(req[h].op)
      BY <1>3, <3>1 DEF Deadline
    <3> QED BY <1>1, <1>2, <3>1, <3>2, <3>3 DEF FlightDated
  <2>2. CASE j # k
    <3>1. flight'[j] = flight[j] /\ flight[j] # NoFlight
      BY <1>2, <2>2
    <3>2. flight[j].leader \in Handlers /\ flight[j].leader # h
      BY <3>1 DEF FlightInv, TypeOK, Flights, FlightsAreLed, Leading, Lead
    <3>3. Deadline(flight[j].leader)' = Deadline(flight[j].leader) /\ FlightDated(j)
      BY <1>2, <3>1, <3>2 DEF Deadline, TimeInv, FlightTimes
    <3> QED BY <1>2, <3>1, <3>3 DEF FlightDated
  <2> QED BY <2>1, <2>2
<1>5. CacheTimes'
  BY <1>2, DatedFrame DEF TimeInv, CacheTimes
<1>6. ItemTimes'
  <2> SUFFICES ASSUME NEW x \in Handlers, req'[x] # Idle PROVE ItemsDated(req'[x])
    BY <1>2, DatedFrame DEF ItemTimes, Busy
  <2> QED BY <1>1, <1>2, <1>3 DEF TimeInv, ItemTimes, Busy, ItemsDated
<1> QED BY <1>4, <1>5, <1>6 DEF TimeInv

(* Joining a flight changes neither its executor nor its times. *)
LEMMA JoinTimes ==
  ASSUME FlightInv, TimeInv, NEW h \in Handlers, Join(h)
  PROVE  TimeInv'
<1> DEFINE k == KeyOf(h)
<1>1. /\ req[h] \in Requests /\ Busy(h) /\ ~Finished(h) /\ k \in Keys /\ flight[k] \in Flights
  BY BusyRequest, PendingKey DEF FlightInv, Shape, Join, TypeOK
<1>2. /\ \A x \in Handlers : req'[x] = IF x = h THEN InStage(req[h], "wait") ELSE req[x]
      /\ \A j \in Keys : flight'[j] = IF j = k THEN Joined(flight[k], h) ELSE flight[j]
      /\ UNCHANGED <<now, installed, cache>>
  BY <1>1 DEF Join, FlightInv, TypeOK
<1>3. FlightTimes'
  <2>1. ASSUME NEW j \in Keys, flight'[j] # NoFlight
        PROVE  /\ flight[j] # NoFlight /\ flight'[j].exec = flight[j].exec
               /\ flight'[j].begun = flight[j].begun /\ flight'[j].leader = flight[j].leader
               /\ req'[flight[j].leader] = req[flight[j].leader]
    <3>1. flight[j] # NoFlight /\ flight'[j].exec = flight[j].exec
          /\ flight'[j].begun = flight[j].begun /\ flight'[j].leader = flight[j].leader
      BY <1>1, <1>2, <2>1, JoinedFacts, KeyFacts
    <3>2. flight[j].leader \in Handlers /\ flight[j].leader # h
      BY <3>1 DEF FlightInv, TypeOK, Flights, FlightsAreLed, Leading, Join
    <3> QED BY <1>2, <3>1, <3>2
  <2> QED BY <1>2, <2>1, FlightsStayDated
<1>4. CacheTimes'
  BY <1>2, DatedFrame DEF TimeInv, CacheTimes
<1>5. ItemTimes'
  <2>1. req'[h].op = req[h].op /\ req'[h].items = req[h].items
    BY <1>1, <1>2, InStageFacts
  <2> SUFFICES ASSUME NEW x \in Handlers, req'[x] # Idle PROVE ItemsDated(req'[x])
    BY <1>2, DatedFrame DEF ItemTimes, Busy
  <2> QED BY <1>1, <1>2, <2>1 DEF TimeInv, ItemTimes, Busy, ItemsDated
<1> QED BY <1>3, <1>4, <1>5 DEF TimeInv

(* A successful call caches a dated entry and lands with a dated item. *)
LEMMA SucceedTimes ==
  ASSUME FlightInv, TimeInv, NEW h \in Handlers, Succeed(h)
  PROVE  TimeInv'
<1>1. Leading(h) /\ Land(h, Item(Answer(h), "none")) /\ UNCHANGED <<now, installed>>
  BY DEF Succeed
<1>2. Answer(h) \in Values /\ Answer(h).exec = flight[KeyOf(h)].exec
  BY <1>1, AnswerType DEF Answer, Value
<1>3. /\ Item(Answer(h), "none") \in Items /\ Item(Answer(h), "none").value = Answer(h)
      /\ Item(Answer(h), "none").at = now
  BY <1>2, ItemType DEF FlightInv, Errors
<1>4. /\ KeyOf(h) \in Keys /\ req[h].op \in Ops
      /\ Dated(req[h].op, Answer(h).exec, now) /\ Dated(req[h].op, Answer(h).exec, now + CacheTTL)
  BY <1>1, <1>2, FlightWindow
<1>5. ItemDated(req[h].op, Item(Answer(h), "none"))
  <2>1. now <= now
    BY DEF FlightInv, TypeOK
  <2> QED BY <1>3, <1>4, <2>1 DEF ItemDated
<1>6. CacheTimes'
  <2>1. Entry(Answer(h)).value = Answer(h) /\ Entry(Answer(h)).expires = now + CacheTTL
    BY <1>2, EntryType DEF FlightInv
  <2>2. now + CacheTTL \in Nat
    BY TimesAssumption DEF FlightInv, TypeOK
  <2>3. EntryDated(req[h].op, Entry(Answer(h)))
    BY <1>4, <2>1, <2>2 DEF EntryDated
  <2> SUFFICES ASSUME NEW op \in Ops, NEW k \in Keys, cache'[op][k] # NoEntry
               PROVE  EntryDated(op, cache'[op][k])
    BY <1>1, DatedFrame DEF CacheTimes
  <2>4. \/ cache'[op][k] = cache[op][k]
        \/ op = req[h].op /\ k = KeyOf(h) /\ cache'[op][k] = Entry(Answer(h))
    <3>1. \/ cache' = [cache EXCEPT ![req[h].op][KeyOf(h)] = Entry(Answer(h))]
          \/ UNCHANGED cache
      BY DEF Succeed
    <3>2. cache \in [Ops -> [Keys -> Entries \cup {NoEntry}]]
      BY DEF FlightInv, TypeOK
    <3> QED BY <1>4, <3>1, <3>2
  <2> QED BY <2>3, <2>4 DEF TimeInv, CacheTimes
<1> QED BY <1>1, <1>3, <1>5, <1>6, LandTimes

(* An item that names no executor is dated. *)
LEMMA NoExecutorDated ==
  ASSUME TypeOK, NEW op, NEW it \in Items, it.at = now, it.value.exec = 0
  PROVE  ItemDated(op, it)
BY DEF ItemDated, Dated, WithinWindow, TypeOK

(* A call that fails leaves an item of no executor (Fail). *)
LEMMA FailTimes ==
  ASSUME FlightInv, TimeInv, NEW h \in Handlers, Fail(h)
  PROVE  TimeInv'
<1> DEFINE v == Value(IF req[h].op = "verify" THEN "nil" ELSE "reference", Artifact(h), 0)
<1>1. PICK err \in CallErrors(h) : Land(h, Item(v, err))
  BY DEF Fail
<1>2. Leading(h) /\ UNCHANGED <<now, installed, cache>> /\ err \in Errors
  BY DEF Fail, CallErrors, Errors
<1>3. Artifact(h) \in Artifacts
  BY <1>2, PendingKey DEF FlightInv, Shape, Leading
<1>4. v \in Values /\ v.exec = 0
  BY <1>3 DEF Value, Values, Kinds
<1> HIDE DEF v
<1>5. Item(v, err) \in Items /\ ItemDated(req[h].op, Item(v, err))
  BY <1>2, <1>4, ItemType, NoExecutorDated DEF FlightInv
<1>6. CacheTimes'
  BY <1>2, DatedFrame DEF TimeInv, CacheTimes
<1> QED BY <1>1, <1>2, <1>5, <1>6, LandTimes

(* A replacement of the executor leaves everything dated. *)
LEMMA InstallTimes ==
  ASSUME FlightInv, TimeInv, Install
  PROVE  TimeInv'
<1>1. /\ Len(installed') = Len(installed) + 1 /\ Len(installed) \in Nat /\ now \in Nat
      /\ \A i \in 1..Len(installed) : installed'[i] = installed[i]
      /\ installed'[Len(installed) + 1] = now
      /\ UNCHANGED <<now, cache, flight, req>>
  BY DEF Install, FlightInv, TypeOK
<1>2. FlightTimes'
  <2> SUFFICES ASSUME NEW k \in Keys, flight[k] # NoFlight PROVE FlightDated(k)'
    BY <1>1 DEF FlightTimes
  <2>1. FlightDated(k) /\ flight[k].exec \in Nat /\ flight[k].begun \in Nat
    BY DEF TimeInv, FlightTimes, FlightInv, TypeOK, Flights
  <2>2. flight[k].begun <= now
    BY <2>1 DEF FlightDated
  <2>3. Deadline(flight[k].leader)' = Deadline(flight[k].leader)
    BY <1>1 DEF Deadline
  <2>4. flight[k].exec + 1 <= Len(installed) + 1
        /\ (flight[k].exec < Len(installed)' => flight[k].begun <= installed'[flight[k].exec + 1])
    <3>1. CASE flight[k].exec < Len(installed)
      BY <1>1, <2>1, <3>1 DEF FlightDated
    <3>2. CASE flight[k].exec = Len(installed)
      BY <1>1, <2>1, <2>2, <3>2
    <3> QED BY <1>1, <2>1, <3>1, <3>2 DEF FlightDated
  <2> QED BY <1>1, <2>1, <2>3, <2>4 DEF FlightDated
<1>3. CacheTimes'
  <2> SUFFICES ASSUME NEW op \in Ops, NEW k \in Keys, cache[op][k] # NoEntry
               PROVE  EntryDated(op, cache[op][k])'
    BY <1>1 DEF CacheTimes
  <2>1. cache[op][k] \in Entries /\ EntryDated(op, cache[op][k])
    BY DEF FlightInv, TypeOK, TimeInv, CacheTimes
  <2>2. cache[op][k].expires \in Nat /\ cache[op][k].value.exec \in Nat
    BY <2>1 DEF Entries, Values
  <2>3. Dated(op, cache[op][k].value.exec, cache[op][k].expires)'
    BY <1>1, <2>1, <2>2, InstallDated DEF EntryDated, FlightInv
  <2> QED BY <1>1, <2>1, <2>3 DEF EntryDated
<1>4. ItemTimes'
  <2> SUFFICES ASSUME NEW h \in Handlers, Busy(h), NEW i \in DOMAIN req[h].items
               PROVE  ItemDated(req[h].op, req[h].items[i])'
    BY <1>1 DEF ItemTimes, ItemsDated, Busy
  <2> DEFINE it == req[h].items[i]
  <2>1. req[h].op \in Ops /\ it \in Items
    BY BusyRequest DEF FlightInv
  <2>2. it.at \in Nat /\ it.value.exec \in Nat
    BY <2>1 DEF Items, Values
  <2>3. ItemDated(req[h].op, it)
    BY DEF TimeInv, ItemTimes, ItemsDated
  <2>4. it.at <= now + CacheTTL
    BY <1>1, <2>2, <2>3, TimesAssumption DEF ItemDated
  <2>5. Dated(req[h].op, it.value.exec, it.at)'
    BY <1>1, <2>1, <2>2, <2>3, <2>4, InstallDated DEF ItemDated, FlightInv
  <2> QED BY <1>1, <2>3, <2>5 DEF ItemDated
<1> QED BY <1>2, <1>3, <1>4 DEF TimeInv

(* Time passes only while the leaders have some left. *)
LEMMA TickTimes ==
  ASSUME FlightInv, TimeInv, Tick
  PROVE  TimeInv'
<1>1. now' = now + 1 /\ now \in Nat /\ UNCHANGED <<installed, cache, flight, req>>
  BY DEF Tick, FlightInv, TypeOK
<1>2. FlightTimes'
  <2> SUFFICES ASSUME NEW k \in Keys, flight[k] # NoFlight PROVE FlightDated(k)'
    BY <1>1 DEF FlightTimes
  <2>1. FlightDated(k) /\ flight[k].begun \in Nat /\ k[1] \in Ops
    BY DEF TimeInv, FlightTimes, FlightInv, TypeOK, Flights, Keys
  <2>2. /\ Busy(flight[k].leader) /\ req[flight[k].leader].stage = "lead"
        /\ flight[k].leader \in Handlers
    BY DEF FlightInv, FlightsAreLed, Leading, TypeOK, Flights
  <2>3. now < Deadline(flight[k].leader) /\ Deadline(flight[k].leader) \in Nat
    BY <2>2, BusyRequest DEF Tick, FlightInv
  <2>4. Deadline(flight[k].leader)' = Deadline(flight[k].leader)
    BY <1>1 DEF Deadline
  <2>5. now + 1 <= flight[k].begun + Timeout(k[1])
    BY <1>1, <2>1, <2>3, TimeoutType DEF FlightDated
  <2> QED BY <1>1, <2>1, <2>4, <2>5 DEF FlightDated
<1>3. CacheTimes'
  <2> SUFFICES ASSUME NEW op \in Ops, NEW k \in Keys, cache[op][k] # NoEntry
               PROVE  EntryDated(op, cache[op][k])'
    BY <1>1 DEF CacheTimes
  <2>1. cache[op][k] \in Entries /\ EntryDated(op, cache[op][k])
    BY DEF FlightInv, TypeOK, TimeInv, CacheTimes
  <2>2. cache[op][k].expires \in Nat
    BY <2>1 DEF Entries
  <2>3. cache[op][k].expires <= now' + CacheTTL
    BY <1>1, <2>1, <2>2, TimesAssumption DEF EntryDated
  <2> QED BY <1>1, <2>1, <2>3 DEF EntryDated, Dated, WithinWindow
<1>4. ItemTimes'
  <2> SUFFICES ASSUME NEW h \in Handlers, Busy(h), NEW i \in DOMAIN req[h].items
               PROVE  ItemDated(req[h].op, req[h].items[i])'
    BY <1>1 DEF ItemTimes, ItemsDated, Busy
  <2>1. req[h].items[i] \in Items
    BY BusyRequest DEF FlightInv
  <2>2. req[h].items[i].at \in Nat /\ ItemDated(req[h].op, req[h].items[i])
    BY <2>1 DEF Items, TimeInv, ItemTimes, ItemsDated
  <2> QED BY <1>1, <2>2 DEF ItemDated, Dated, WithinWindow
<1> QED BY <1>2, <1>3, <1>4 DEF TimeInv

(* The invariant on times holds when the server starts. *)
LEMMA TimeInvInit == Init => TimeInv
BY DEF Init, TimeInv, FlightTimes, CacheTimes, ItemTimes, Busy

(* Every step keeps flights, cache entries and items dated. *)
LEMMA TimeInvStep == FlightInv /\ TimeInv /\ [Next]_vars => TimeInv'
<1> SUFFICES ASSUME FlightInv, TimeInv, [Next]_vars PROVE TimeInv'
  OBVIOUS
<1>1. ASSUME NEW h \in Handlers, Receive(h) PROVE TimeInv'
  <2>1. PICK x \in Inputs : req' = [req EXCEPT ![h] = Request(x.op, x.keys)]
    BY <1>1 DEF Receive
  <2>2. ItemsDated(Request(x.op, x.keys))
    BY DEF Request, ItemsDated
  <2> QED BY <1>1, <2>1, <2>2, QuietTimes DEF Receive
<1>2. ASSUME NEW h \in Handlers, AnswerAtOnce(h) PROVE TimeInv'
  <2> DEFINE v == Value("reference", Artifact(h), 0)
             err == IF Form[Artifact(h)] = "malformed" THEN "parse" ELSE "none"
  <2>1. LookingUp(h) /\ Artifact(h) \in Artifacts /\ req[h] \in Requests /\ Busy(h)
    BY <1>2, PendingKey, BusyRequest DEF AnswerAtOnce, LookingUp, FlightInv
  <2>2. v \in Values /\ v.exec = 0 /\ err \in Errors
    BY <2>1 DEF Value, Values, Kinds, Errors
  <2>3. req' = [req EXCEPT ![h] = WithItem(req[h], Item(v, err))]
    BY <1>2 DEF AnswerAtOnce
  <2> HIDE DEF v, err
  <2>4. Item(v, err) \in Items /\ ItemDated(req[h].op, Item(v, err))
    BY <2>2, ItemType, NoExecutorDated DEF FlightInv
  <2>5. ItemsDated(WithItem(req[h], Item(v, err)))
    BY <2>1, <2>4, NewItemDated DEF TimeInv, ItemTimes
  <2> QED BY <1>2, <2>1, <2>3, <2>5, QuietTimes DEF AnswerAtOnce, LookingUp
<1>3. ASSUME NEW h \in Handlers, CacheHit(h) PROVE TimeInv'
  <2> DEFINE e == cache[req[h].op][KeyOf(h)]
  <2>1. LookingUp(h) /\ req[h] \in Requests /\ Busy(h) /\ req[h].op \in Ops /\ KeyOf(h) \in Keys
    BY <1>3, PendingKey, BusyRequest DEF CacheHit, LookingUp, FlightInv
  <2>2. e \in Entries /\ e.value \in Values /\ e # NoEntry /\ now <= e.expires
    BY <1>3, CachedValue DEF CacheHit, Cached
  <2>3. EntryDated(req[h].op, e)
    BY <2>1, <2>2 DEF TimeInv, CacheTimes
  <2>4. req' = [req EXCEPT ![h] = WithItem(req[h], Item(e.value, "none"))]
    BY <1>3 DEF CacheHit
  <2> HIDE DEF e
  <2>5. /\ Item(e.value, "none") \in Items /\ Item(e.value, "none").value = e.value
        /\ Item(e.value, "none").at = now
    BY <2>2, ItemType DEF FlightInv, Errors
  <2>6. Dated(req[h].op, e.value.exec, now)
    <3>1. e.expires \in Nat /\ e.value.exec \in Nat /\ now \in Nat /\ installed \in Seq(Nat)
      BY <2>2 DEF Entries, Values, FlightInv, TypeOK
    <3>2. e.value.exec <= Len(installed)
      BY <2>3 DEF EntryDated, Dated
    <3>3. ASSUME e.value.exec > 0, e.value.exec < Len(installed)
          PROVE  now <= installed[e.value.exec + 1] + Timeout(req[h].op) + CacheTTL
      <4>1. e.expires <= installed[e.value.exec + 1] + Timeout(req[h].op) + CacheTTL
        BY <2>3, <3>3 DEF EntryDated, Dated, WithinWindow
      <4>2. installed[e.value.exec + 1] \in Nat
        BY <3>1, <3>3
      <4>3. Timeout(req[h].op) \in Nat /\ CacheTTL \in Nat
        BY <2>1, TimeoutType, TimesAssumption
      <4> DEFINE limit == installed[e.value.exec + 1] + Timeout(req[h].op) + CacheTTL
      <4>4. limit \in Nat
        BY <4>2, <4>3
      <4>5. e.expires <= limit
        BY <4>1
      <4> HIDE DEF limit
      <4>6. now <= limit
        BY <2>2, <3>1, <4>4, <4>5
      <4> QED BY <4>6 DEF limit
    <3> QED BY <3>2, <3>3 DEF Dated, WithinWindow
  <2>7. now <= now
    BY DEF FlightInv, TypeOK
  <2>8. ItemsDated(WithItem(req[h], Item(e.value, "none")))
    BY <2>1, <2>5, <2>6, <2>7, NewItemDated DEF TimeInv, ItemTimes, ItemDated
  <2> QED BY <1>3, <2>1, <2>4, <2>8, QuietTimes DEF CacheHit, LookingUp
<1>4. ASSUME NEW h \in Handlers, CacheMiss(h) PROVE TimeInv'
  <2>1. Busy(h) /\ req[h].stage = "lookup" /\ req[h] \in Requests
    BY <1>4, BusyRequest DEF CacheMiss, LookingUp, FlightInv
  <2>2. InStage(req[h], "do").items = req[h].items /\ InStage(req[h], "do").op = req[h].op
    BY <2>1, InStageFacts
  <2>3. ItemsDated(InStage(req[h], "do"))
    BY <2>1, <2>2 DEF TimeInv, ItemTimes, ItemsDated
  <2> QED BY <1>4, <2>1, <2>3, QuietTimes DEF CacheMiss
<1>5. ASSUME NEW h \in Handlers, Respond(h) PROVE TimeInv'
  <2>1. req[h].stage = "lookup"
    BY <1>5 DEF Respond, Finished, FlightInv, Shape
  <2> QED BY <1>5, <2>1, QuietTimes DEF Respond
<1>6. CASE UNCHANGED vars
  <2>1. UNCHANGED <<now, installed, cache, flight, req>>
    BY <1>6 DEF vars
  <2>2. FlightTimes'
    BY <2>1, FlightsStayDated
  <2> QED BY <2>1, <2>2, DatedFrame DEF TimeInv, CacheTimes, ItemTimes, Busy
<1> QED BY <1>1, <1>2, <1>3, <1>4, <1>5, <1>6, LeadTimes, JoinTimes, SucceedTimes, FailTimes,
           InstallTimes, TickTimes DEF Next, Step

(* A replaced executor speaks for at most one call and one cache lifetime
   longer, for any number of requests, keys and replacements: the staleness
   the verify and mutate handlers accept by not flushing their caches. *)
THEOREM StalenessIsBounded == Spec => []BoundedStaleness
<1>1. TimeInv => BoundedStaleness
  BY DEF TimeInv, ItemTimes, ItemsDated, ItemDated, Dated, BoundedStaleness
<1> QED BY <1>1, FlightInvariant, TimeInvInit, TimeInvStep, PTL DEF Spec
-----------------------------------------------------------------------------
(***************************************************************************)
(* What is answered.  Fits(op, a, it): the item answers artifact a in the  *)
(* way of the handler op.                                                  *)
(***************************************************************************)
Fits(op, a, it) ==
  /\ it.value.artifact = a
  /\ op = "verify" => it.value.kind = (IF it.err = "none" THEN "report" ELSE "nil")
  /\ op = "mutate" => /\ it.value.kind \in {"resolved", "reference"}
                      /\ it.err # "none" => it.value.kind = "reference"

AllAnswered(r) == \A i \in DOMAIN r.items : Answers(r, i)

(* A cache holds, under a key of the group, what a call for that key returned. *)
EntryFits(op, k, e) ==
  /\ e.value.artifact = k[2]
  /\ e.value.kind = (IF op = "verify" THEN "report" ELSE "resolved")
CacheAnswers ==
  \A op \in Ops, k \in Keys : cache[op][k] # NoEntry => EntryFits(op, k, cache[op][k])

AnswerInv == CacheAnswers /\ ItemsAnswerKeys

(* A request that gets a fitting item for its next key stays answered. *)
LEMMA NewItemAnswers ==
  ASSUME NEW r \in Requests, NEW it \in Items, AllAnswered(r),
         Fits(r.op, r.keys[Len(r.items) + 1], it)
  PROVE  AllAnswered(WithItem(r, it))
<1>1. /\ WithItem(r, it).op = r.op /\ WithItem(r, it).items = Append(r.items, it)
      /\ WithItem(r, it).keys = r.keys /\ r.items \in Seq(Items)
  BY WithItemFacts DEF Requests
<1> SUFFICES ASSUME NEW i \in DOMAIN Append(r.items, it)
             PROVE  Answers(WithItem(r, it), i)
  BY <1>1 DEF AllAnswered
<1>2. CASE i \in DOMAIN r.items
  <2>1. Append(r.items, it)[i] = r.items[i] /\ Answers(r, i)
    BY <1>1, <1>2 DEF AllAnswered
  <2> QED BY <1>1, <2>1 DEF Answers
<1>3. CASE i = Len(r.items) + 1
  <2>1. Append(r.items, it)[i] = it
    BY <1>1, <1>3
  <2> QED BY <1>1, <1>3, <2>1 DEF Answers, Fits
<1> QED BY <1>1, <1>2, <1>3

(* A step of one request that keeps it answered and leaves the caches alone. *)
LEMMA QuietAnswers ==
  ASSUME TypeOK, AnswerInv, NEW h \in Handlers, NEW r, req' = [req EXCEPT ![h] = r],
         UNCHANGED cache, r # Idle => AllAnswered(r)
  PROVE  AnswerInv'
<1>1. \A x \in Handlers : req'[x] = IF x = h THEN r ELSE req[x]
  BY DEF TypeOK
<1>2. ItemsAnswerKeys'
  BY <1>1 DEF AnswerInv, ItemsAnswerKeys, Busy, AllAnswered
<1> QED BY <1>2 DEF AnswerInv, CacheAnswers

(* Those who share a flight share handler and artifact, so that its result
   answers all of them (Land). *)
LEMMA LandAnswers ==
  ASSUME FlightInv, AnswerInv, NEW h \in Handlers, NEW it \in Items, Leading(h), Land(h, it),
         Fits(req[h].op, Artifact(h), it), CacheAnswers'
  PROVE  AnswerInv'
<1> DEFINE k == KeyOf(h)
           landing == flight[k].waiters \cup {h}
<1>1. /\ Busy(h) /\ ~Finished(h) /\ k \in Keys /\ flight[k] \in Flights
      /\ k = <<req[h].op, Artifact(h)>>
  BY BusyRequest, PendingKey DEF FlightInv, Shape, Leading, FlightsAreLed, TypeOK
<1>2. \A w \in flight[k].waiters :
        w \in Handlers /\ Busy(w) /\ ~Finished(w) /\ KeyOf(w) = k
  BY <1>1, KeyFacts DEF FlightInv, FlightsAreLed, Flights
<1>3. ASSUME NEW x \in landing
      PROVE  /\ x \in Handlers /\ Busy(x) /\ req[x] \in Requests /\ req[x].op = req[h].op
             /\ Artifact(x) = Artifact(h)
  <2>1. x \in Handlers /\ Busy(x) /\ ~Finished(x) /\ KeyOf(x) = k
    BY <1>1, <1>2
  <2>2. <<req[x].op, Artifact(x)>> = <<req[h].op, Artifact(h)>>
    BY <1>1, <2>1, PendingKey DEF FlightInv
  <2> QED BY <2>1, <2>2, BusyRequest DEF FlightInv
<1>4. \A x \in Handlers : req'[x] = IF x \in landing THEN WithItem(req[x], it) ELSE req[x]
  BY DEF Land
<1>5. ItemsAnswerKeys'
  <2> SUFFICES ASSUME NEW x \in Handlers, req'[x] # Idle PROVE AllAnswered(req'[x])
    BY DEF ItemsAnswerKeys, Busy, AllAnswered
  <2>1. CASE x \in landing
    <3>1. /\ req[x] \in Requests /\ AllAnswered(req[x])
          /\ Fits(req[x].op, req[x].keys[Len(req[x].items) + 1], it)
      BY <1>3, <2>1 DEF AnswerInv, ItemsAnswerKeys, AllAnswered, Artifact
    <3> QED BY <1>4, <2>1, <3>1, NewItemAnswers
  <2>2. CASE x \notin landing
    BY <1>4, <2>2 DEF AnswerInv, ItemsAnswerKeys, Busy, AllAnswered
  <2> QED BY <2>1, <2>2
<1> QED BY <1>5 DEF AnswerInv

(* A successful call answers its key and caches the answer under it. *)
LEMMA SucceedAnswers ==
  ASSUME FlightInv, AnswerInv, NEW h \in Handlers, Succeed(h)
  PROVE  AnswerInv'
<1>1. Leading(h) /\ Land(h, Item(Answer(h), "none"))
  BY DEF Succeed
<1>2. /\ Answer(h) \in Values /\ Answer(h).artifact = Artifact(h)
      /\ Answer(h).kind = (IF req[h].op = "verify" THEN "report" ELSE "resolved")
  BY <1>1, AnswerType DEF Answer, Value
<1>3. /\ Item(Answer(h), "none") \in Items /\ Item(Answer(h), "none").value = Answer(h)
      /\ Item(Answer(h), "none").err = "none"
  BY <1>2, ItemType DEF FlightInv, Errors
<1>4. /\ KeyOf(h) \in Keys /\ req[h].op \in Ops /\ KeyOf(h) = <<req[h].op, Artifact(h)>>
  BY <1>1, PendingKey, BusyRequest DEF FlightInv, Shape, Leading
<1>5. Fits(req[h].op, Artifact(h), Item(Answer(h), "none"))
  BY <1>2, <1>3, <1>4 DEF Fits
<1>6. CacheAnswers'
  <2>1. EntryFits(req[h].op, KeyOf(h), Entry(Answer(h)))
    BY <1>2, <1>4, EntryType DEF FlightInv, EntryFits
  <2> SUFFICES ASSUME NEW op \in Ops, NEW k \in Keys, cache'[op][k] # NoEntry
               PROVE  EntryFits(op, k, cache'[op][k])
    BY DEF CacheAnswers
  <2>2. \/ cache'[op][k] = cache[op][k]
        \/ op = req[h].op /\ k = KeyOf(h) /\ cache'[op][k] = Entry(Answer(h))
    <3>1. \/ cache' = [cache EXCEPT ![req[h].op][KeyOf(h)] = Entry(Answer(h))]
          \/ UNCHANGED cache
      BY DEF Succeed
    <3>2. cache \in [Ops -> [Keys -> Entries \cup {NoEntry}]]
      BY DEF FlightInv, TypeOK
    <3> QED BY <1>4, <3>1, <3>2
  <2> QED BY <2>1, <2>2 DEF AnswerInv, CacheAnswers
<1> QED BY <1>1, <1>3, <1>5, <1>6, LandAnswers

(* A failed call leaves verify without a value and mutate with the reference. *)
LEMMA FailAnswers ==
  ASSUME FlightInv, AnswerInv, NEW h \in Handlers, Fail(h)
  PROVE  AnswerInv'
<1> DEFINE v == Value(IF req[h].op = "verify" THEN "nil" ELSE "reference", Artifact(h), 0)
<1>1. PICK err \in CallErrors(h) : Land(h, Item(v, err))
  BY DEF Fail
<1>2. Leading(h) /\ UNCHANGED cache /\ err \in Errors /\ err # "none"
  BY DEF Fail, CallErrors, Errors
<1>3. Artifact(h) \in Artifacts
  BY <1>2, PendingKey DEF FlightInv, Shape, Leading
<1>4. /\ v \in Values /\ v.artifact = Artifact(h)
      /\ v.kind = (IF req[h].op = "verify" THEN "nil" ELSE "reference")
  BY <1>3 DEF Value, Values, Kinds
<1> HIDE DEF v
<1>5. Item(v, err) \in Items /\ Item(v, err).value = v /\ Item(v, err).err = err
  BY <1>2, <1>4, ItemType DEF FlightInv
<1>6. Fits(req[h].op, Artifact(h), Item(v, err))
  BY <1>2, <1>4, <1>5 DEF Fits
<1>7. CacheAnswers'
  BY <1>2 DEF AnswerInv, CacheAnswers
<1> QED BY <1>1, <1>2, <1>5, <1>6, <1>7, LandAnswers

(* Every step keeps what is cached and what is answered fitting. *)
LEMMA AnswerInvStep == FlightInv /\ AnswerInv /\ [Next]_vars => AnswerInv'
<1> SUFFICES ASSUME FlightInv, AnswerInv, [Next]_vars PROVE AnswerInv'
  OBVIOUS
<1> USE DEF FlightInv
<1>1. ASSUME NEW h \in Handlers, Receive(h) PROVE AnswerInv'
  <2>1. PICK x \in Inputs : req' = [req EXCEPT ![h] = Request(x.op, x.keys)]
    BY <1>1 DEF Receive
  <2>2. AllAnswered(Request(x.op, x.keys))
    BY DEF Request, AllAnswered
  <2> QED BY <1>1, <2>1, <2>2, QuietAnswers DEF Receive
<1>2. ASSUME NEW h \in Handlers, AnswerAtOnce(h) PROVE AnswerInv'
  <2> DEFINE v == Value("reference", Artifact(h), 0)
             err == IF Form[Artifact(h)] = "malformed" THEN "parse" ELSE "none"
  <2>1. LookingUp(h) /\ Artifact(h) \in Artifacts /\ req[h] \in Requests /\ Busy(h)
        /\ req[h].op = "mutate"
    BY <1>2, PendingKey, BusyRequest DEF AnswerAtOnce, LookingUp, AnsweredAtOnce
  <2>2. v \in Values /\ v.artifact = Artifact(h) /\ v.kind = "reference" /\ err \in Errors
    BY <2>1 DEF Value, Values, Kinds, Errors
  <2>3. req' = [req EXCEPT ![h] = WithItem(req[h], Item(v, err))]
    BY <1>2 DEF AnswerAtOnce
  <2> HIDE DEF v, err
  <2>4. Item(v, err) \in Items /\ Fits(req[h].op, Artifact(h), Item(v, err))
    BY <2>1, <2>2, ItemType DEF Fits
  <2>5. AllAnswered(WithItem(req[h], Item(v, err)))
    BY <2>1, <2>4, NewItemAnswers DEF AnswerInv, ItemsAnswerKeys, AllAnswered, Artifact
  <2> QED BY <1>2, <2>3, <2>5, QuietAnswers DEF AnswerAtOnce
<1>3. ASSUME NEW h \in Handlers, CacheHit(h) PROVE AnswerInv'
  <2> DEFINE e == cache[req[h].op][KeyOf(h)]
  <2>1. /\ req[h] \in Requests /\ Busy(h) /\ req[h].op \in Ops /\ KeyOf(h) \in Keys
        /\ KeyOf(h) = <<req[h].op, Artifact(h)>>
    BY <1>3, PendingKey, BusyRequest DEF CacheHit, LookingUp
  <2>2. e.value \in Values /\ e # NoEntry
    BY <1>3, CachedValue DEF CacheHit, Cached
  <2>3. EntryFits(req[h].op, KeyOf(h), e)
    BY <2>1, <2>2 DEF AnswerInv, CacheAnswers
  <2>4. req' = [req EXCEPT ![h] = WithItem(req[h], Item(e.value, "none"))]
    BY <1>3 DEF CacheHit
  <2> HIDE DEF e
  <2>5. /\ Item(e.value, "none") \in Items /\ Item(e.value, "none").value = e.value
        /\ Item(e.value, "none").err = "none"
    BY <2>2, ItemType DEF Errors
  <2>6. Fits(req[h].op, Artifact(h), Item(e.value, "none"))
    BY <2>1, <2>3, <2>5 DEF Fits, EntryFits
  <2>7. AllAnswered(WithItem(req[h], Item(e.value, "none")))
    BY <2>1, <2>5, <2>6, NewItemAnswers DEF AnswerInv, ItemsAnswerKeys, AllAnswered, Artifact
  <2> QED BY <1>3, <2>4, <2>7, QuietAnswers DEF CacheHit
<1>4. ASSUME NEW h \in Handlers, NEW st \in {"do", "lead", "wait"}, Busy(h), UNCHANGED cache,
             req' = [req EXCEPT ![h] = InStage(@, st)]
      PROVE  AnswerInv'
  <2>1. /\ InStage(req[h], st).items = req[h].items /\ InStage(req[h], st).op = req[h].op
        /\ InStage(req[h], st).keys = req[h].keys
    BY <1>4, BusyRequest, InStageFacts
  <2>2. AllAnswered(InStage(req[h], st))
    BY <1>4, <2>1 DEF AnswerInv, ItemsAnswerKeys, AllAnswered, Answers
  <2> QED BY <1>4, <2>2, QuietAnswers
<1>5. ASSUME NEW h \in Handlers, CacheMiss(h) \/ Lead(h) \/ Join(h) PROVE AnswerInv'
  BY <1>4, <1>5 DEF CacheMiss, LookingUp, Lead, Join
<1>6. ASSUME NEW h \in Handlers, Respond(h) PROVE AnswerInv'
  BY <1>6, QuietAnswers DEF Respond
<1>7. CASE Install \/ Tick \/ UNCHANGED vars
  BY <1>7 DEF Install, Tick, vars, AnswerInv, CacheAnswers, ItemsAnswerKeys, Busy
<1> QED BY <1>1, <1>2, <1>3, <1>5, <1>6, <1>7, SucceedAnswers, FailAnswers DEF Next, Step

(* Whatever requests share calls and caches, each item answers the key it stands
   for, in its own handler's way (verifyKey, mutateKey, the two caches), for any
   number of requests, keys and replacements of the executor. *)
THEOREM KeysAreAnswered == Spec => []ItemsAnswerKeys
<1>1. Init => AnswerInv
  BY DEF Init, AnswerInv, CacheAnswers, ItemsAnswerKeys, Busy
<1>2. AnswerInv => ItemsAnswerKeys
  BY DEF AnswerInv
<1> QED BY <1>1, <1>2, FlightInvariant, AnswerInvStep, PTL DEF Spec

-----------------------------------------------------------------------------
(***************************************************************************)
(* How long a request lasts.  Every item it holds may have cost it one     *)
(* timeout, and the call it is in began within what it has spent.          *)
(***************************************************************************)
Spent(r) == Len(r.items) * Timeout(r.op)

InTime(h) ==
  /\ req[h].stage \in {"lookup", "do"} => now <= req[h].arrived + Spent(req[h])
  /\ req[h].stage \in {"lead", "wait"} =>
       flight[KeyOf(h)].begun <= req[h].arrived + Spent(req[h])

DurationInv == \A h \in Handlers : Busy(h) => InTime(h)

(* One more key costs at most one more timeout. *)
LEMMA OneMore == \A m, t \in Nat : m * t \in Nat /\ (m + 1) * t = m * t + t
OBVIOUS

(* More keys never cost less. *)
LEMMA MoreKeys == \A m, n, t \in Nat : m <= n => m * t <= n * t
<1> SUFFICES ASSUME NEW m \in Nat, NEW n \in Nat, NEW t \in Nat, m <= n PROVE m * t <= n * t
  OBVIOUS
<1>1. PICK d \in Nat : n = m + d
  <2>1. n - m \in Nat /\ n = m + (n - m)
    OBVIOUS
  <2> QED BY <2>1
<1>2. n * t = m * t + d * t
  BY <1>1
<1> QED BY <1>2

(* What a request has spent is a number, and an item adds a timeout to it. *)
LEMMA SpentFacts ==
  ASSUME NEW r \in Requests
  PROVE  /\ Spent(r) \in Nat
         /\ \A it \in Items : Spent(WithItem(r, it)) = Spent(r) + Timeout(r.op)
<1>1. r.items \in Seq(Items) /\ Len(r.items) \in Nat /\ Timeout(r.op) \in Nat
  BY TimeoutType DEF Requests
<1>2. \A it \in Items : Len(Append(r.items, it)) = Len(r.items) + 1
  BY <1>1
<1>3. Spent(r) \in Nat
  BY <1>1, OneMore DEF Spent
<1>4. ASSUME NEW it \in Items PROVE Spent(WithItem(r, it)) = Spent(r) + Timeout(r.op)
  <2>1. Spent(WithItem(r, it)) = (Len(r.items) + 1) * Timeout(r.op)
    BY <1>1, <1>2, WithItemFacts DEF Spent
  <2> QED BY <1>1, <2>1, OneMore DEF Spent
<1> QED BY <1>3, <1>4

(* Requests that a step leaves alone stay in time, as long as it takes no time
   and ends or restarts no flight that one of them is in. *)
LEMMA OthersInTime ==
  ASSUME DurationInv, NEW x \in Handlers, Busy(x), req'[x] = req[x], now' = now,
         req[x].stage \in {"lead", "wait"} => flight'[KeyOf(x)].begun = flight[KeyOf(x)].begun
  PROVE  InTime(x)'
BY Frame DEF DurationInv, InTime

(* A request that enters no flight changes, and is in time at its next key. *)
LEMMA QuietDuration ==
  ASSUME TypeOK, DurationInv, NEW h \in Handlers, NEW r, req' = [req EXCEPT ![h] = r],
         UNCHANGED <<now, flight>>,
         r # Idle => r.stage \in {"lookup", "do"} /\ now <= r.arrived + Spent(r)
  PROVE  DurationInv'
<1>1. \A x \in Handlers : req'[x] = IF x = h THEN r ELSE req[x]
  BY DEF TypeOK
<1> SUFFICES ASSUME NEW x \in Handlers, req'[x] # Idle PROVE InTime(x)'
  BY DEF DurationInv, Busy
<1>2. CASE x = h
  BY <1>1, <1>2 DEF InTime
<1>3. CASE x # h
  BY <1>1, <1>3, OthersInTime DEF Busy
<1> QED BY <1>2, <1>3

(* A request enters a flight that began no later than now (Lead, Join). *)
LEMMA EnterDuration ==
  ASSUME FlightInv, DurationInv, NEW h \in Handlers, Busy(h), req[h].stage = "do",
         NEW st \in {"lead", "wait"}, NEW f, f.begun <= now, f.begun \in Nat,
         flight[KeyOf(h)] = NoFlight \/ f.begun = flight[KeyOf(h)].begun,
         req' = [req EXCEPT ![h] = InStage(@, st)],
         flight' = [flight EXCEPT ![KeyOf(h)] = f], UNCHANGED now
  PROVE  DurationInv'
<1>1. /\ req[h] \in Requests /\ KeyOf(h) \in Keys /\ req[h].arrived \in Nat /\ now \in Nat
      /\ Spent(req[h]) \in Nat
  BY BusyRequest, PendingKey, SpentFacts DEF FlightInv, Shape, TypeOK
<1>2. /\ \A x \in Handlers : req'[x] = IF x = h THEN InStage(req[h], st) ELSE req[x]
      /\ \A k \in Keys : flight'[k] = IF k = KeyOf(h) THEN f ELSE flight[k]
  BY <1>1 DEF FlightInv, TypeOK
<1> SUFFICES ASSUME NEW x \in Handlers, req'[x] # Idle PROVE InTime(x)'
  BY DEF DurationInv, Busy
<1>3. CASE x = h
  <2>1. /\ req'[h].stage = st /\ req'[h].arrived = req[h].arrived
        /\ req'[h].op = req[h].op /\ req'[h].keys = req[h].keys /\ req'[h].items = req[h].items
    BY <1>1, <1>2, InStageFacts
  <2>2. KeyOf(h)' = KeyOf(h) /\ Spent(req[h])' = Spent(req[h])
    BY <2>1 DEF KeyOf, Artifact, Spent
  <2>3. now <= req[h].arrived + Spent(req[h])
    BY DEF DurationInv, InTime
  <2>4. flight'[KeyOf(h)].begun <= req[h].arrived + Spent(req[h])
    BY <1>1, <1>2, <2>3
  <2> QED BY <1>3, <2>1, <2>2, <2>4 DEF InTime
<1>4. CASE x # h
  <2>1. Busy(x) /\ req'[x] = req[x]
    BY <1>2, <1>4 DEF Busy
  <2>2. req[x].stage \in {"lead", "wait"} =>
          KeyOf(x) \in Keys /\ flight[KeyOf(x)] # NoFlight
    BY <2>1, PendingKey DEF FlightInv, Shape, FlightsAreLed
  <2> QED BY <1>2, <2>1, <2>2, OthersInTime
<1> QED BY <1>3, <1>4

(* Whoever lands has been in one call, which one timeout ends (Land). *)
LEMMA LandDuration ==
  ASSUME FlightInv, TimeInv, DurationInv, NEW h \in Handlers, NEW it \in Items, Leading(h),
         Land(h, it), UNCHANGED now
  PROVE  DurationInv'
<1> DEFINE k == KeyOf(h)
           landing == flight[k].waiters \cup {h}
<1>1. /\ Busy(h) /\ ~Finished(h) /\ k \in Keys /\ flight[k] \in Flights /\ FlightDated(k)
      /\ flight[k] # NoFlight
  BY BusyRequest, PendingKey
  DEF FlightInv, Shape, Leading, FlightsAreLed, TypeOK, TimeInv, FlightTimes
<1>2. \A w \in flight[k].waiters :
        w \in Handlers /\ Busy(w) /\ ~Finished(w) /\ KeyOf(w) = k /\ req[w].stage = "wait"
  BY <1>1 DEF FlightInv, FlightsAreLed, Flights
<1>3. /\ \A x \in Handlers : req'[x] = IF x \in landing THEN WithItem(req[x], it) ELSE req[x]
      /\ \A j \in Keys : flight'[j] = IF j = k THEN NoFlight ELSE flight[j]
  BY <1>1 DEF Land, FlightInv, TypeOK
<1> SUFFICES ASSUME NEW x \in Handlers, req'[x] # Idle PROVE InTime(x)'
  BY DEF DurationInv, Busy
<1>4. CASE x \in landing
  <2>1. Busy(x) /\ ~Finished(x) /\ KeyOf(x) = k /\ req[x].stage \in {"lead", "wait"}
    BY <1>1, <1>2, <1>4 DEF Leading
  <2>2. /\ req[x] \in Requests /\ k[1] = req[x].op /\ req[x].arrived \in Nat
        /\ Spent(req[x]) \in Nat /\ Timeout(req[x].op) \in Nat
        /\ Spent(WithItem(req[x], it)) = Spent(req[x]) + Timeout(req[x].op)
    <3>1. req[x] \in Requests /\ req[x].arrived \in Nat /\ req[x].op \in Ops
      BY <2>1, BusyRequest DEF FlightInv
    <3>2. KeyOf(x) = <<req[x].op, Artifact(x)>>
      BY <2>1, PendingKey DEF FlightInv
    <3>3. k[1] = req[x].op
      BY <2>1, <3>2
    <3> HIDE DEF k
    <3> QED BY <3>1, <3>3, SpentFacts, TimeoutType
  <2>3. flight[k].begun <= req[x].arrived + Spent(req[x])
    BY <2>1 DEF DurationInv, InTime
  <2>4. now <= flight[k].begun + Timeout(req[x].op) /\ flight[k].begun \in Nat /\ now \in Nat
    BY <1>1, <2>2 DEF FlightDated, Flights, FlightInv, TypeOK
  <2> HIDE DEF k, landing
  <2>5. now <= req[x].arrived + (Spent(req[x]) + Timeout(req[x].op))
    BY <2>2, <2>3, <2>4
  <2>6. /\ req'[x].stage = "lookup" /\ req'[x].arrived = req[x].arrived
        /\ req'[x] = WithItem(req[x], it)
    BY <1>3, <1>4, <2>2, WithItemFacts
  <2>7. Spent(req[x])' = Spent(WithItem(req[x], it))
    BY <2>6 DEF Spent
  <2> QED BY <2>2, <2>5, <2>6, <2>7 DEF InTime
<1>5. CASE x \notin landing
  <2>1. Busy(x) /\ req'[x] = req[x]
    BY <1>3, <1>5 DEF Busy
  <2>2. req[x].stage \in {"lead", "wait"} => KeyOf(x) \in Keys /\ KeyOf(x) # k
    BY <1>5, <2>1, PendingKey DEF FlightInv, Shape, FlightsAreLed, Leading
  <2> QED BY <1>3, <2>1, <2>2, OthersInTime
<1> QED BY <1>4, <1>5

(* Nobody is overdue while the clock stands, and a call under way is not over
   when it moves. *)
LEMMA DurationInvStep == FlightInv /\ TimeInv /\ DurationInv /\ [Next]_vars => DurationInv'
<1> SUFFICES ASSUME FlightInv, TimeInv, DurationInv, [Next]_vars PROVE DurationInv'
  OBVIOUS
<1>t. TypeOK /\ now \in Nat
  BY DEF FlightInv, TypeOK
<1>1. ASSUME NEW h \in Handlers, Receive(h) PROVE DurationInv'
  <2>1. PICK x \in Inputs : req' = [req EXCEPT ![h] = Request(x.op, x.keys)]
    BY <1>1 DEF Receive
  <2>2. /\ Request(x.op, x.keys).stage = "lookup" /\ Request(x.op, x.keys).arrived = now
        /\ Request(x.op, x.keys).items = <<>> /\ Request(x.op, x.keys).op \in Ops
    BY InputsAssumption DEF Request
  <2>3. Spent(Request(x.op, x.keys)) = 0
    BY <2>2, TimeoutType DEF Spent
  <2> DEFINE r == Request(x.op, x.keys)
  <2>4. r.stage = "lookup" /\ now <= r.arrived + Spent(r)
    BY <1>t, <2>2, <2>3
  <2> HIDE DEF r
  <2>5. req' = [req EXCEPT ![h] = r] /\ UNCHANGED <<now, flight>>
    BY <1>1, <2>1 DEF Receive, r
  <2> QED BY <1>t, <2>4, <2>5, QuietDuration
<1>2. ASSUME NEW h \in Handlers, NEW it \in Items, LookingUp(h), UNCHANGED <<now, flight>>,
             req' = [req EXCEPT ![h] = WithItem(@, it)]
      PROVE  DurationInv'
  <2>1. /\ req[h] \in Requests /\ req[h].op \in Ops /\ req[h].arrived \in Nat
        /\ Spent(req[h]) \in Nat /\ now <= req[h].arrived + Spent(req[h])
    BY <1>t, <1>2, BusyRequest, SpentFacts DEF LookingUp, DurationInv, InTime
  <2>2. /\ WithItem(req[h], it).stage = "lookup" /\ WithItem(req[h], it).arrived = req[h].arrived
        /\ Spent(WithItem(req[h], it)) = Spent(req[h]) + Timeout(req[h].op)
    BY <1>2, <2>1, WithItemFacts, SpentFacts
  <2>3. now <= WithItem(req[h], it).arrived + Spent(WithItem(req[h], it))
    BY <1>t, <2>1, <2>2, TimeoutType
  <2> QED BY <1>t, <1>2, <2>2, <2>3, QuietDuration
<1>3. ASSUME NEW h \in Handlers, AnswerAtOnce(h) PROVE DurationInv'
  <2> DEFINE v == Value("reference", Artifact(h), 0)
             err == IF Form[Artifact(h)] = "malformed" THEN "parse" ELSE "none"
  <2>1. Artifact(h) \in Artifacts
    BY <1>3, PendingKey DEF AnswerAtOnce, LookingUp, FlightInv
  <2>2. v \in Values /\ err \in Errors
    BY <2>1 DEF Value, Values, Kinds, Errors
  <2>3. req' = [req EXCEPT ![h] = WithItem(@, Item(v, err))]
    BY <1>3 DEF AnswerAtOnce
  <2> HIDE DEF v, err
  <2>4. Item(v, err) \in Items
    BY <1>t, <2>2, ItemType
  <2> QED BY <1>2, <1>3, <2>3, <2>4 DEF AnswerAtOnce
<1>4. ASSUME NEW h \in Handlers, CacheHit(h) PROVE DurationInv'
  <2> DEFINE it == Item(cache[req[h].op][KeyOf(h)].value, "none")
  <2>1. it \in Items
    BY <1>t, <1>4, CachedValue, ItemType DEF CacheHit, Errors
  <2>2. req' = [req EXCEPT ![h] = WithItem(@, it)] /\ LookingUp(h) /\ UNCHANGED <<now, flight>>
    BY <1>4 DEF CacheHit
  <2> HIDE DEF it
  <2> QED BY <1>2, <2>1, <2>2
<1>5. ASSUME NEW h \in Handlers, CacheMiss(h) PROVE DurationInv'
  <2>1. /\ req[h] \in Requests /\ now <= req[h].arrived + Spent(req[h])
        /\ req' = [req EXCEPT ![h] = InStage(req[h], "do")] /\ UNCHANGED <<now, flight>>
    BY <1>t, <1>5, BusyRequest DEF CacheMiss, LookingUp, DurationInv, InTime
  <2>2. /\ InStage(req[h], "do").stage = "do"
        /\ InStage(req[h], "do").arrived = req[h].arrived
        /\ Spent(InStage(req[h], "do")) = Spent(req[h])
    BY <2>1, InStageFacts DEF Spent
  <2> QED BY <1>t, <2>1, <2>2, QuietDuration
<1>6. ASSUME NEW h \in Handlers, Lead(h) PROVE DurationInv'
  <2>1. Flight(h, getExecutor).begun = now /\ now <= now
    BY <1>t DEF Flight
  <2> QED BY <1>t, <1>6, <2>1, EnterDuration DEF Lead
<1>7. ASSUME NEW h \in Handlers, Join(h) PROVE DurationInv'
  <2>1. Busy(h) /\ req[h].stage = "do" /\ KeyOf(h) \in Keys /\ flight[KeyOf(h)] # NoFlight
    BY <1>7, PendingKey DEF Join, FlightInv, Shape
  <2>2. /\ flight[KeyOf(h)] \in Flights /\ flight[KeyOf(h)].begun \in Nat
        /\ flight[KeyOf(h)].begun <= now
    BY <1>t, <2>1 DEF TypeOK, Flights, TimeInv, FlightTimes, FlightDated
  <2>3. Joined(flight[KeyOf(h)], h).begun = flight[KeyOf(h)].begun
    BY <2>2, JoinedFacts
  <2>4. /\ req' = [req EXCEPT ![h] = InStage(@, "wait")] /\ UNCHANGED now
        /\ flight' = [flight EXCEPT ![KeyOf(h)] = Joined(flight[KeyOf(h)], h)]
    BY <1>7 DEF Join
  <2> QED BY <2>1, <2>2, <2>3, <2>4, EnterDuration
<1>8. ASSUME NEW h \in Handlers, Succeed(h) PROVE DurationInv'
  <2>1. Leading(h) /\ Land(h, Item(Answer(h), "none")) /\ UNCHANGED now
    BY <1>8 DEF Succeed
  <2>2. Item(Answer(h), "none") \in Items
    BY <1>t, <2>1, AnswerType, ItemType DEF Errors
  <2> QED BY <2>1, <2>2, LandDuration
<1>9. ASSUME NEW h \in Handlers, Fail(h) PROVE DurationInv'
  <2> DEFINE v == Value(IF req[h].op = "verify" THEN "nil" ELSE "reference", Artifact(h), 0)
  <2>1. PICK err \in CallErrors(h) : Land(h, Item(v, err))
    BY <1>9 DEF Fail
  <2>2. Leading(h) /\ UNCHANGED now /\ err \in Errors /\ Artifact(h) \in Artifacts
    BY <1>9, PendingKey DEF Fail, CallErrors, Errors, FlightInv, Shape, Leading
  <2>3. v \in Values
    BY <2>2 DEF Value, Values, Kinds
  <2> HIDE DEF v
  <2> QED BY <1>t, <2>1, <2>2, <2>3, ItemType, LandDuration
<1>10. ASSUME NEW h \in Handlers, Respond(h) PROVE DurationInv'
  BY <1>t, <1>10, QuietDuration DEF Respond
<1>11. CASE Install \/ UNCHANGED vars
  BY <1>11 DEF Install, vars, DurationInv, InTime, Busy, KeyOf, Artifact
<1>12. CASE Tick
  <2>1. \A h \in Handlers : Busy(h) => req[h].stage \in {"lead", "wait"}
    BY <1>12 DEF Tick
  <2> QED BY <1>12, <2>1 DEF Tick, DurationInv, InTime, Busy, KeyOf, Artifact
<1> QED
  BY <1>1, <1>3, <1>4, <1>5, <1>6, <1>7, <1>8, <1>9, <1>10, <1>11, <1>12 DEF Next, Step

(* A request that is in time is within one timeout per key. *)
LEMMA InTimeIsBounded == FlightInv /\ TimeInv /\ DurationInv => BoundedDuration
<1> SUFFICES ASSUME FlightInv, TimeInv, DurationInv, NEW h \in Handlers, Busy(h)
             PROVE  now <= req[h].arrived + Len(req[h].keys) * Timeout(req[h].op)
  BY DEF BoundedDuration
<1> DEFINE n == Len(req[h].keys)
           m == Len(req[h].items)
           t == Timeout(req[h].op)
<1>1. /\ n \in Nat /\ m \in Nat /\ t \in Nat /\ m <= n /\ req[h].arrived \in Nat /\ now \in Nat
      /\ req[h].stage \in {"lookup", "do", "lead", "wait"} /\ InTime(h)
  BY BusyRequest, TimeoutType DEF FlightInv, Shape, TypeOK, Requests, DurationInv
<1>2. /\ m * t \in Nat /\ n * t \in Nat /\ m * t <= n * t /\ Spent(req[h]) = m * t
      /\ m < n => m * t + t <= n * t
  <2>1. m + 1 \in Nat /\ (m < n => m + 1 <= n)
    BY <1>1
  <2>2. Spent(req[h]) = m * t
    BY DEF Spent
  <2> HIDE DEF m, n, t
  <2> QED BY <1>1, <2>1, <2>2, OneMore, MoreKeys
<1>3. CASE req[h].stage \in {"lookup", "do"}
  <2>1. now <= req[h].arrived + m * t
    BY <1>2, <1>3, <1>1 DEF InTime
  <2> HIDE DEF m, n, t
  <2>2. now <= req[h].arrived + n * t
    BY <1>1, <1>2, <2>1
  <2> QED BY <2>2 DEF n, t
<1>4. CASE req[h].stage \in {"lead", "wait"}
  <2>1. m < n /\ KeyOf(h) \in Keys /\ KeyOf(h)[1] = req[h].op /\ flight[KeyOf(h)] # NoFlight
    BY <1>4, PendingKey DEF FlightInv, Shape, FlightsAreLed
  <2>2. /\ flight[KeyOf(h)].begun \in Nat /\ now <= flight[KeyOf(h)].begun + t
        /\ flight[KeyOf(h)].begun <= req[h].arrived + m * t
    <3>1. flight[KeyOf(h)].begun \in Nat /\ FlightDated(KeyOf(h))
      BY <2>1 DEF FlightInv, TypeOK, Flights, TimeInv, FlightTimes
    <3> QED BY <1>1, <1>2, <1>4, <2>1, <3>1 DEF FlightDated, InTime
  <2> HIDE DEF m, n, t
  <2>3. now <= req[h].arrived + n * t
    BY <1>1, <1>2, <2>1, <2>2
  <2> QED BY <2>3 DEF n, t
<1> QED BY <1>1, <1>3, <1>4

(* No request lasts longer than one timeout per key, whatever flights it joins
   and whenever their leaders arrived, for any timeouts and any number of keys. *)
THEOREM DurationIsBounded == Spec => []BoundedDuration
<1>1. Init => DurationInv
  BY DEF Init, DurationInv, Busy
<1>2. Spec => []TimeInv
  BY TimeInvInit, FlightInvariant, TimeInvStep, PTL DEF Spec
<1> QED BY <1>1, <1>2, FlightInvariant, DurationInvStep, InTimeIsBounded, PTL DEF Spec
=============================================================================
