-------------------------- MODULE CertWatcher_proofs --------------------------
(***************************************************************************)
(* Proofs about CertWatcher for any number of versions of the files, with  *)
(* and without a Gatekeeper CA.  The facts about files and events are      *)
(* those ConfigWatcher_proofs uses, here for two or three files.           *)
(***************************************************************************)
EXTENDS CertWatcher, TLAPS

Events == [op : {"write", "remove", "rename"}, path : Paths]

(* The queue of fsnotify: what is there stays there until it is taken. *)
LEMMA QueueFacts ==
  ASSUME NEW E, NEW s \in Seq(E)
  PROVE  /\ \A e \in E : /\ Append(s, e) \in Seq(E)
                         /\ Len(s) + 1 \in DOMAIN Append(s, e) /\ Append(s, e)[Len(s) + 1] = e
                         /\ \A i \in DOMAIN s : i \in DOMAIN Append(s, e) /\ Append(s, e)[i] = s[i]
         /\ s # <<>> =>
              /\ Head(s) \in E /\ Tail(s) \in Seq(E)
              /\ \A i \in DOMAIN s : s[i] # Head(s) =>
                   i - 1 \in DOMAIN Tail(s) /\ Tail(s)[i - 1] = s[i]
<1>1. ASSUME NEW e \in E
      PROVE  /\ Append(s, e) \in Seq(E)
             /\ Len(s) + 1 \in DOMAIN Append(s, e) /\ Append(s, e)[Len(s) + 1] = e
             /\ \A i \in DOMAIN s : i \in DOMAIN Append(s, e) /\ Append(s, e)[i] = s[i]
  OBVIOUS
<1>2. ASSUME s # <<>>
      PROVE  /\ Head(s) \in E /\ Tail(s) \in Seq(E)
             /\ \A i \in DOMAIN s : s[i] # Head(s) =>
                  i - 1 \in DOMAIN Tail(s) /\ Tail(s)[i - 1] = s[i]
  <2>1. Head(s) \in E /\ Tail(s) \in Seq(E) /\ Head(s) = s[1] /\ Len(Tail(s)) = Len(s) - 1
        /\ \A j \in 1..Len(Tail(s)) : Tail(s)[j] = s[j + 1]
    BY <1>2
  <2>2. ASSUME NEW i \in DOMAIN s, s[i] # Head(s)
        PROVE  i - 1 \in DOMAIN Tail(s) /\ Tail(s)[i - 1] = s[i]
    <3>1. i \in 1..Len(s) /\ i # 1 /\ DOMAIN Tail(s) = 1..Len(Tail(s)) /\ Len(s) \in Nat
      BY <2>1, <2>2
    <3>2. i - 1 \in 1..Len(Tail(s)) /\ (i - 1) + 1 = i
      BY <2>1, <3>1
    <3> QED BY <2>1, <3>1, <3>2
  <2> QED BY <2>1, <2>2
<1> QED BY <1>1, <1>2

-----------------------------------------------------------------------------
FileRecords == [inode : 0..MaxVersion, body : 0..MaxVersion]

(* A new file has an inode nobody has seen: watches and files are of versions
   there have been. *)
Sound(f, v) == f.inode <= v /\ f.body <= v /\ (f # Missing => f.inode # 0)
Fresh == \A p \in Paths : watch[p] <= version /\ Sound(disk[p], version)

FileInv == FileTypeOK /\ Fresh

(* One file and its watch change. *)
LEMMA PutFile ==
  ASSUME FileInv, NEW p \in Paths, NEW f \in FileRecords, disk' = [disk EXCEPT ![p] = f],
         version' \in version..MaxVersion, Sound(f, version'),
         watch' \in {watch, [watch EXCEPT ![p] = 0]},
         events' = events \/ \E e \in Events : events' = Append(events, e),
         mishaps' \subseteq {"missing", "early"}
  PROVE  FileInv'
<1>1. /\ version \in Nat /\ version' \in Nat /\ version <= version' /\ version' \in 1..MaxVersion
      /\ \A q \in Paths : disk[q] \in FileRecords /\ watch[q] \in 0..MaxVersion
      /\ disk \in [Paths -> FileRecords] /\ watch \in [Paths -> 0..MaxVersion]
      /\ events \in Seq(Events) /\ MaxVersion \in Nat
  BY MaxVersionAssumption DEF FileInv, FileTypeOK, FileRecords, Events
<1>2. /\ \A q \in Paths : disk'[q] = IF q = p THEN f ELSE disk[q]
      /\ \A q \in Paths : watch'[q] \in {watch[q], 0}
  BY <1>1
<1>3. /\ disk' \in [Paths -> FileRecords] /\ watch' \in [Paths -> 0..MaxVersion]
      /\ events' \in Seq(Events)
  <2>1. disk' \in [Paths -> FileRecords]
    BY <1>1
  <2>2. watch' \in [Paths -> 0..MaxVersion]
    BY <1>1
  <2>3. events' \in Seq(Events)
    BY <1>1, QueueFacts
  <2> QED BY <2>1, <2>2, <2>3
<1>4. FileTypeOK'
  BY <1>1, <1>3 DEF FileTypeOK, FileRecords, Events
<1>5. ASSUME NEW q \in Paths PROVE watch'[q] <= version' /\ Sound(disk'[q], version')
  <2>1. /\ watch[q] <= version /\ disk[q].inode <= version /\ disk[q].body <= version
        /\ disk[q] # Missing => disk[q].inode # 0
    BY DEF FileInv, Fresh, Sound
  <2>2. disk[q].inode \in Nat /\ disk[q].body \in Nat /\ watch[q] \in Nat
    BY <1>1 DEF FileRecords
  <2>3. Sound(disk[q], version') /\ watch'[q] <= version'
    BY <1>1, <1>2, <2>1, <2>2 DEF Sound
  <2> QED BY <1>2, <2>3
<1>6. Fresh'
  BY <1>5 DEF Fresh, Sound, Missing, Torn
<1> QED BY <1>4, <1>6 DEF FileInv

(* Whatever happens to the files keeps files, watches and events in their types
   and new inodes new. *)
LEMMA FileInvStep ==
  ASSUME FileInv, NEW watching, FileChange(watching)
  PROVE  FileInv'
<1>t. /\ version \in 1..MaxVersion /\ MaxVersion \in Nat /\ disk \in [Paths -> FileRecords]
      /\ watch \in [Paths -> 0..MaxVersion] /\ events \in Seq(Events)
      /\ mishaps' \subseteq {"missing", "early"}
  BY MaxVersionAssumption DEF FileInv, FileTypeOK, FileRecords, Events, FileChange
<1>1. CASE Replace
  <2>1. /\ version' = version + 1 /\ version' \in 1..MaxVersion /\ UNCHANGED <<watch, events>>
        /\ disk' = [p \in Paths |-> [inode |-> version', body |-> version']]
    BY <1>t, <1>1 DEF Replace, File
  <2>2. FileTypeOK'
    BY <1>t, <2>1 DEF FileTypeOK, Events
  <2>3. ASSUME NEW p \in Paths PROVE watch'[p] <= version' /\ Sound(disk'[p], version')
    <3>1. watch[p] \in Nat /\ watch[p] <= version /\ version \in Nat
      BY <1>t DEF FileInv, Fresh
    <3> QED BY <1>t, <2>1, <3>1 DEF Sound
  <2>4. Fresh'
    BY <2>3 DEF Fresh, Sound, Missing, Torn
  <2> QED BY <2>2, <2>4 DEF FileInv
<1>2. ASSUME NEW p \in Paths, Truncate(p) \/ Fill(p) PROVE FileInv'
  <2>1. PICK b \in 0..MaxVersion : disk' = [disk EXCEPT ![p].body = b] /\ b <= version'
    BY <1>t, <1>2 DEF Truncate, Fill, Torn
  <2> DEFINE f == [disk[p] EXCEPT !.body = b]
  <2>2. disk[p] \in FileRecords /\ Exists(p) /\ Sound(disk[p], version)
    BY <1>t, <1>2 DEF Truncate, Fill, Readable, FileInv, Fresh
  <2>3. f \in FileRecords /\ f.inode = disk[p].inode /\ f.body = b /\ disk' = [disk EXCEPT ![p] = f]
    BY <1>t, <2>1, <2>2 DEF FileRecords
  <2>4. /\ version' \in version..MaxVersion /\ watch' = watch
        /\ events' = events \/ \E e \in Events : events' = Append(events, e)
    <3>1. Event("write", p) \in Events
      BY DEF Event, Events
    <3> QED BY <1>t, <1>2, <3>1 DEF Truncate, Fill, NotifyWrite
  <2>5. f.inode \in Nat /\ f.inode <= version /\ f.inode # 0
    BY <1>t, <2>2, <2>3 DEF Sound, FileRecords, Exists
  <2>6. Sound(f, version')
    BY <1>t, <2>1, <2>3, <2>4, <2>5 DEF Sound
  <2> HIDE DEF f
  <2> QED BY <1>t, <2>3, <2>4, <2>6, PutFile
<1>3. ASSUME NEW p \in Paths, Delete(p) \/ Move(p) PROVE FileInv'
  <2>1. Missing \in FileRecords /\ Sound(Missing, version)
    BY <1>t DEF Missing, Torn, FileRecords, Sound
  <2>2. /\ disk' = [disk EXCEPT ![p] = Missing] /\ version' = version
        /\ watch' \in {watch, [watch EXCEPT ![p] = 0]}
        /\ events' = events \/ \E e \in Events : events' = Append(events, e)
    <3>1. Event("rename", p) \in Events
      BY DEF Event, Events
    <3> QED BY <1>3, <3>1 DEF Delete, Move
  <2>3. version' \in version..MaxVersion /\ Sound(Missing, version')
    BY <1>t, <2>1, <2>2
  <2> QED BY <1>t, <2>1, <2>2, <2>3, PutFile
<1>4. ASSUME NEW p \in Paths, Create(p) PROVE FileInv'
  <2>1. /\ version' = version + 1 /\ version' \in version..MaxVersion
        /\ disk' = [disk EXCEPT ![p] = [inode |-> version', body |-> version']]
        /\ UNCHANGED <<watch, events>>
    BY <1>t, <1>4 DEF Create, File
  <2>2. [inode |-> version', body |-> version'] \in FileRecords
        /\ Sound([inode |-> version', body |-> version'], version')
    BY <1>t, <2>1 DEF FileRecords, Sound
  <2> QED BY <1>t, <2>1, <2>2, PutFile
<1>5. ASSUME NEW p \in Paths, Unlink(p) PROVE FileInv'
  <2>1. Event("remove", p) \in Events /\ disk[p] \in FileRecords /\ Sound(disk[p], version)
    BY <1>t DEF Event, Events, FileInv, Fresh
  <2>2. /\ disk' = [disk EXCEPT ![p] = disk[p]] /\ version' = version
        /\ version' \in version..MaxVersion
        /\ watch' = [watch EXCEPT ![p] = 0] /\ events' = Append(events, Event("remove", p))
    BY <1>t, <1>5 DEF Unlink
  <2> QED BY <1>t, <2>1, <2>2, PutFile
<1> QED BY <1>1, <1>2, <1>3, <1>4, <1>5 DEF FileChange

-----------------------------------------------------------------------------
(* A pointer that was stored is not nil, and knows what it holds. *)
LEMMA PointerFacts ==
  /\ \A x : Some(x) # None
  /\ \A S, x : x \in S => Some(x) \in Optional(S)
  /\ \A S : None \in Optional(S)
<1>1. \A x : Some(x) # None
  <2> SUFFICES ASSUME NEW x, Some(x) = None PROVE FALSE
    OBVIOUS
  <2>1. {x} = {}
    BY DEF Some, None
  <2> QED BY <2>1
<1> QED BY <1>1 DEF Some, None, Optional

(* The watched paths include the pair (NewWatcher). *)
LEMMA PairIsWatched == "cert" \in Paths /\ "key" \in Paths
BY PathsAssumption

(* Something is told, or about to be, that makes the watcher load again; and the
   end of a watch is told. *)
Told == \E i \in DOMAIN events : events[i].op \in {"write", "remove"}
Gone(p) == \E i \in DOMAIN events : events[i] = Event("remove", p)
Pending == Told \/ \E p \in Paths : Unlinkable(p)

(***************************************************************************)
(* Why no rotation is missed.  As long as no file went missing and none    *)
(* changed before it was watched, every watch is on some inode or its end  *)
(* is told (Watched); and unless something is pending, what a load has     *)
(* read so far is what the files hold (Followed).                          *)
(***************************************************************************)
CAServed == "ca" \in Paths => clientCAs = Some(disk["ca"].body)
PairServed == PairOnDisk => pair = Some(disk["cert"].body)

Present == mishaps = {} => \A p \in Paths : Exists(p)
Watched == (mishaps = {} /\ started) => \A p \in Paths : watch[p] # 0 \/ Gone(p)
Followed ==
  (mishaps = {} /\ ~(started /\ Pending)) =>
    /\ stage \in {"cert", "key", "loaded", "idle"} => CAServed
    /\ stage = "key" => cert = disk["cert"].body
    /\ stage \in {"loaded", "idle"} => PairServed

(* What the first load has stored by which step of it. *)
Equipped ==
  /\ (started \/ stage \in {"cert", "key", "loaded"}) => ("ca" \in Paths => clientCAs # None)
  /\ (started \/ stage = "loaded") => pair # None
  /\ stage = "loaded" => ~started

Types ==
  /\ stage \in {"ca", "cert", "key", "loaded", "idle", "exited"} /\ started \in BOOLEAN
  /\ cert \in 0..MaxVersion
  /\ pair \in Optional(1..MaxVersion)
  /\ clientCAs \in Optional(0..MaxVersion)

CertInv == FileInv /\ Types /\ Present /\ Watched /\ Followed /\ Equipped

(* A change of a file is told as long as every watch is on some inode or its end
   is told, and it ends no watch without telling. *)
LEMMA ChangeFacts ==
  ASSUME FileInv, NEW watching, FileChange(watching),
         \A p \in Paths : Exists(p) /\ Exists(p)', \A p \in Paths : watch[p] # 0 \/ Gone(p)
  PROVE  Pending' /\ \A p \in Paths : watch'[p] # 0 \/ Gone(p)'
<1>t. /\ version \in Nat /\ disk \in [Paths -> FileRecords] /\ watch \in [Paths -> 0..MaxVersion]
      /\ events \in Seq(Events) /\ \A p \in Paths : watch[p] <= version /\ watch[p] \in Nat
  BY MaxVersionAssumption DEF FileInv, FileTypeOK, FileRecords, Events, Fresh
<1>a. ASSUME NEW e \in Events, events' = Append(events, e)
      PROVE  /\ \A p \in Paths : Gone(p) => Gone(p)'
             /\ e.op \in {"write", "remove"} => Told'
             /\ \A p \in Paths : e = Event("remove", p) => Gone(p)'
  BY <1>t, <1>a, QueueFacts DEF Told, Gone, Event
<1>b. ASSUME UNCHANGED events PROVE \A p \in Paths : Gone(p)' = Gone(p)
  BY <1>b DEF Gone
<1>c. \A op \in {"write", "remove", "rename"}, p \in Paths :
        Event(op, p) \in Events /\ Event(op, p).op = op
  BY DEF Event, Events
<1>d. \A p \in Paths : Gone(p)' => Told'
  BY <1>c DEF Gone, Told, Event
<1>1. CASE Replace
  <2>1. /\ UNCHANGED <<watch, events>>
        /\ \A p \in Paths : disk'[p].inode = version + 1
    BY <1>t, <1>1 DEF Replace, File
  <2>2. \A p \in Paths : watch'[p] # 0 \/ Gone(p)'
    BY <1>b, <2>1
  <2>3. "cert" \in Paths /\ watch'["cert"] # disk'["cert"].inode
    BY <1>t, <2>1, PairIsWatched
  <2>4. watch'["cert"] # 0 => Unlinkable("cert")'
    BY <2>3 DEF Unlinkable
  <2> QED BY <1>d, <2>2, <2>3, <2>4 DEF Pending
<1>2. ASSUME NEW p \in Paths, Truncate(p) \/ Fill(p)
      PROVE  Pending' /\ \A q \in Paths : watch'[q] # 0 \/ Gone(q)'
  <2>1. watch' = watch /\ disk'[p].inode = disk[p].inode
    BY <1>t, <1>2 DEF Truncate, Fill, FileRecords
  <2>2. \/ watch[p] # disk[p].inode /\ UNCHANGED events
        \/ events' = Append(events, Event("write", p))
    BY <1>2 DEF Truncate, Fill, NotifyWrite
  <2>3. \A q \in Paths : watch'[q] # 0 \/ Gone(q)'
    BY <1>a, <1>b, <1>c, <2>1, <2>2
  <2>4. CASE events' = Append(events, Event("write", p))
    BY <1>a, <1>c, <2>3, <2>4 DEF Pending
  <2>5. CASE watch[p] # disk[p].inode
    <3>1. watch'[p] # 0 => Unlinkable(p)'
      BY <2>1, <2>5 DEF Unlinkable
    <3> QED BY <1>d, <2>3, <3>1 DEF Pending
  <2> QED BY <2>2, <2>4, <2>5
<1>3. ASSUME NEW p \in Paths, Delete(p) \/ Move(p) PROVE FALSE
  <2>1. disk'[p] = Missing
    BY <1>t, <1>3 DEF Delete, Move
  <2> QED BY <2>1 DEF Exists
<1>4. ASSUME NEW p \in Paths, Create(p) PROVE FALSE
  BY <1>4 DEF Create
<1>5. ASSUME NEW p \in Paths, Unlink(p)
      PROVE  Pending' /\ \A q \in Paths : watch'[q] # 0 \/ Gone(q)'
  <2>1. /\ events' = Append(events, Event("remove", p)) /\ Event("remove", p) \in Events
        /\ \A q \in Paths : q # p => watch'[q] = watch[q]
    BY <1>t, <1>c, <1>5 DEF Unlink
  <2>2. Gone(p)' /\ Told'
    BY <1>a, <1>c, <2>1
  <2> QED BY <1>a, <2>1, <2>2 DEF Pending
<1> QED BY <1>1, <1>2, <1>3, <1>4, <1>5 DEF FileChange

(* A change of the files keeps the invariant. *)
LEMMA FileStepKeeps == CertInv /\ FileStep => CertInv'
<1> SUFFICES ASSUME CertInv, FileStep PROVE CertInv'
  OBVIOUS
<1>1. FileChange(started) /\ UNCHANGED <<stage, started, cert, pair, clientCAs>> /\ FileInv
  BY DEF FileStep, CertInv
<1>2. FileInv'
  BY <1>1, FileInvStep
<1>3. mishaps' = {} => mishaps = {} /\ started /\ \A p \in Paths : Exists(p)'
  <2>1. mishaps' = mishaps \cup (IF started THEN {} ELSE {"early"})
                       \cup (IF \E p \in Paths : disk'[p] = Missing THEN {"missing"} ELSE {})
    BY <1>1 DEF FileChange
  <2> QED BY <2>1 DEF Exists, Missing, Torn
<1>4. mishaps' = {} => Pending' /\ \A p \in Paths : watch'[p] # 0 \/ Gone(p)'
  BY <1>1, <1>3, ChangeFacts DEF CertInv, Present, Watched
<1>5. Present' /\ Watched' /\ Followed'
  BY <1>1, <1>3, <1>4 DEF Present, Watched, Followed
<1>6. Types' /\ Equipped'
  BY <1>1 DEF CertInv, Types, Equipped
<1> QED BY <1>2, <1>5, <1>6 DEF CertInv

(* A step of a load leaves the files and what is known of them alone. *)
LEMMA LoadFrame ==
  ASSUME CertInv, UNCHANGED <<disk, watch, events, version, mishaps, started>>
  PROVE  /\ FileInv' /\ Present' /\ Watched' /\ Pending' = Pending
         /\ PairOnDisk' = PairOnDisk /\ \A p : Exists(p)' = Exists(p)
<1>1. \A p : Exists(p)' = Exists(p) /\ Readable(p)' = Readable(p) /\ Gone(p)' = Gone(p)
             /\ Unlinkable(p)' = Unlinkable(p)
  BY DEF Exists, Readable, Gone, Unlinkable
<1>2. FileInv'
  BY DEF CertInv, FileInv, FileTypeOK, Fresh
<1>3. Present' /\ Watched'
  BY <1>1 DEF CertInv, Present, Watched
<1>4. Pending' = Pending
  BY <1>1 DEF Pending, Told
<1> QED BY <1>1, <1>2, <1>3, <1>4 DEF PairOnDisk

(* Files and versions have their types. *)
LEMMA BodyType ==
  ASSUME FileInv
  PROVE  \A p \in Paths : disk[p].body \in 0..MaxVersion /\ (Readable(p) => disk[p].body # 0)
BY DEF FileInv, FileTypeOK, Readable, Torn

(* Each of the three steps of a load keeps the invariant (loadCerts). *)
LEMMA LoadKeeps == CertInv /\ (loadCA \/ readCert \/ loadKeyPair) => CertInv'
<1> SUFFICES ASSUME CertInv, loadCA \/ readCert \/ loadKeyPair PROVE CertInv'
  OBVIOUS
<1>1. UNCHANGED <<disk, watch, events, version, mishaps, started>>
  BY DEF loadCA, readCert, loadKeyPair
<1>2. /\ FileInv' /\ Present' /\ Watched' /\ Pending' = Pending
      /\ PairOnDisk' = PairOnDisk /\ \A p : Exists(p)' = Exists(p)
  BY <1>1, LoadFrame
<1>3. /\ AfterLoad(FALSE) \in {"idle", "exited"} /\ AfterLoad(TRUE) \in {"idle", "loaded"}
      /\ (AfterLoad(FALSE) = "idle" \/ AfterLoad(TRUE) = "idle") => started
      /\ AfterLoad(TRUE) = "loaded" => ~started
  BY DEF AfterLoad
<1>4. mishaps = {} => \A p \in Paths : Exists(p)
  BY DEF CertInv, Present
<1>5. CASE loadCA
  <2>1. \/ "ca" \notin Paths /\ stage' = "cert" /\ UNCHANGED clientCAs
        \/ /\ "ca" \in Paths /\ ~Exists("ca") /\ stage' = AfterLoad(FALSE)
           /\ UNCHANGED clientCAs
        \/ "ca" \in Paths /\ stage' = "cert" /\ clientCAs' = Some(disk["ca"].body)
    BY <1>5 DEF loadCA
  <2>2. Types'
    <3>1. clientCAs' \in Optional(0..MaxVersion)
      BY <2>1, BodyType, PointerFacts DEF CertInv, Types
    <3> QED BY <1>1, <1>3, <1>5, <2>1, <3>1 DEF CertInv, Types, loadCA
  <2>3. Followed'
    BY <1>1, <1>3, <1>4, <2>1 DEF Followed, CAServed
  <2>4. Equipped'
    <3>1. Some(disk["ca"].body) # None
      BY PointerFacts
    <3>2. stage = "ca" /\ UNCHANGED pair
      BY <1>5 DEF loadCA
    <3> QED BY <1>1, <1>3, <2>1, <3>1, <3>2 DEF CertInv, Equipped
  <2> QED BY <1>2, <2>2, <2>3, <2>4 DEF CertInv
<1>6. CASE readCert
  <2>1. /\ stage = "cert" /\ cert' = disk["cert"].body /\ UNCHANGED <<pair, clientCAs>>
        /\ stage' = IF Exists("cert") THEN "key" ELSE AfterLoad(FALSE)
    BY <1>6 DEF readCert
  <2>2. Types'
    BY <1>1, <1>3, <2>1, BodyType, PairIsWatched DEF CertInv, Types
  <2>3. Followed'
    BY <1>1, <1>2, <1>3, <1>4, <2>1, PairIsWatched DEF CertInv, Followed, CAServed
  <2>4. Equipped'
    BY <1>1, <1>3, <2>1 DEF CertInv, Equipped
  <2> QED BY <1>2, <2>2, <2>3, <2>4 DEF CertInv
<1>7. CASE loadKeyPair
  <2>1. /\ stage = "key" /\ UNCHANGED <<cert, clientCAs>>
        /\ \/ /\ Readable("key") /\ disk["key"].body = cert
              /\ pair' = Some(cert) /\ stage' = AfterLoad(TRUE)
           \/ /\ ~(Readable("key") /\ disk["key"].body = cert)
              /\ UNCHANGED pair /\ stage' = AfterLoad(FALSE)
    BY <1>7 DEF loadKeyPair
  <2>2. Types'
    <3>1. Readable("key") /\ disk["key"].body = cert => cert \in 1..MaxVersion
      BY BodyType, PairIsWatched, MaxVersionAssumption DEF CertInv
    <3>2. pair' \in Optional(1..MaxVersion)
      BY <2>1, <3>1, PointerFacts DEF CertInv, Types
    <3> QED BY <1>1, <1>3, <2>1, <3>2 DEF CertInv, Types
  <2>3. Followed'
    <3> SUFFICES ASSUME mishaps = {}, ~(started /\ Pending)
                 PROVE  CAServed' /\ PairServed' /\ stage' # "key"
      BY <1>1, <1>2 DEF Followed
    <3>1. CAServed /\ cert = disk["cert"].body
      BY <2>1 DEF CertInv, Followed
    <3>2. CAServed' /\ stage' # "key"
      BY <1>1, <1>3, <2>1, <3>1 DEF CAServed
    <3>3. PairServed'
      BY <1>1, <1>2, <2>1, <3>1 DEF PairServed, PairOnDisk
    <3> QED BY <3>2, <3>3
  <2>4. Equipped'
    BY <1>1, <1>3, <2>1, PointerFacts DEF CertInv, Equipped
  <2> QED BY <1>2, <2>2, <2>3, <2>4 DEF CertInv
<1> QED BY <1>5, <1>6, <1>7

(* The watch begins where the files are; an event is taken, and a Remove event
   watches its file again. *)
LEMMA WatchKeeps == CertInv /\ (Start \/ handleEvent) => CertInv'
<1> SUFFICES ASSUME CertInv, Start \/ handleEvent PROVE CertInv'
  OBVIOUS
<1>1. /\ UNCHANGED <<disk, version, mishaps, cert, pair, clientCAs>>
      /\ events \in Seq(Events) /\ watch \in [Paths -> 0..MaxVersion] /\ version \in Nat
      /\ disk \in [Paths -> FileRecords] /\ MaxVersion \in Nat
  BY MaxVersionAssumption
  DEF Start, handleEvent, CertInv, FileInv, FileTypeOK, Events, FileRecords
<1>2. \A p \in Paths : /\ disk[p].inode \in 0..MaxVersion /\ disk[p].inode <= version
                       /\ watch[p] <= version /\ (Exists(p) => disk[p].inode # 0)
  BY <1>1 DEF CertInv, FileInv, Fresh, Sound, FileRecords, Exists
<1>3. /\ Present' /\ CAServed' = CAServed /\ PairServed' = PairServed
      /\ \A p : Exists(p)' = Exists(p)
  BY <1>1 DEF CertInv, Present, CAServed, PairServed, PairOnDisk, Readable, Exists
<1>4. mishaps = {} => \A p \in Paths : Exists(p)
  BY DEF CertInv, Present
<1>5. ASSUME events' \in Seq(Events), watch' \in [Paths -> 0..MaxVersion],
             \A p \in Paths : watch'[p] \in {watch[p], disk[p].inode}
      PROVE  FileInv'
  <2>1. FileTypeOK'
    BY <1>1, <1>5 DEF CertInv, FileInv, FileTypeOK, Events
  <2>2. Fresh'
    BY <1>1, <1>2, <1>5 DEF CertInv, FileInv, Fresh
  <2> QED BY <2>1, <2>2 DEF FileInv
<1>6. CASE Start
  <2>1. /\ stage = "loaded" /\ UNCHANGED events
        /\ \/ /\ \A p \in Paths : Exists(p)
              /\ watch' = [p \in Paths |-> disk[p].inode] /\ stage' = "idle" /\ started' = TRUE
           \/ stage' = "exited" /\ UNCHANGED <<watch, started>>
    BY <1>6 DEF Start
  <2>2. FileInv'
    BY <1>1, <1>2, <1>5, <2>1
  <2>3. Types' /\ Equipped'
    BY <1>1, <2>1 DEF CertInv, Types, Equipped
  <2>4. Watched'
    <3>1. \A p \in Paths : Gone(p)' = Gone(p)
      BY <2>1 DEF Gone
    <3> QED BY <1>1, <1>2, <2>1, <3>1 DEF CertInv, Watched
  <2>5. Followed'
    <3>1. ~started
      BY <2>1 DEF CertInv, Equipped
    <3> QED BY <1>1, <1>3, <2>1, <3>1 DEF CertInv, Followed
  <2> QED BY <1>3, <2>2, <2>3, <2>4, <2>5 DEF CertInv
<1>7. CASE handleEvent
  <2> DEFINE e == Head(events)
  <2>1. /\ stage = "idle" /\ events # <<>> /\ events' = Tail(events) /\ UNCHANGED started
        /\ IF e.op = "remove" THEN Add(e.path) ELSE UNCHANGED watch
        /\ stage' = IF e.op = "rename" THEN "idle" ELSE "ca"
    BY <1>7 DEF handleEvent
  <2>2. e \in Events /\ events' \in Seq(Events)
    BY <1>1, <2>1, QueueFacts
  <2>3. e.path \in Paths /\ (e.op = "remove" => e = Event("remove", e.path))
    BY <2>2 DEF Events, Event
  <2> HIDE DEF e
  <2>4. /\ watch' \in [Paths -> 0..MaxVersion]
        /\ \A p \in Paths : watch'[p] \in {watch[p], disk[p].inode}
        /\ \A p \in Paths : watch'[p] = watch[p] \/ (e.op = "remove" /\ p = e.path)
        /\ e.op = "remove" /\ Exists(e.path) => watch'[e.path] = disk[e.path].inode
    BY <1>1, <1>2, <2>1, <2>3 DEF Add
  <2>5. ASSUME NEW i \in DOMAIN events, events[i] # e
        PROVE  \E j \in DOMAIN events' : events'[j] = events[i]
    <3>1. i - 1 \in DOMAIN Tail(events) /\ Tail(events)[i - 1] = events[i]
      BY <1>1, <2>1, <2>5, QueueFacts DEF e
    <3> QED BY <2>1, <3>1
  <2>6. FileInv'
    BY <1>5, <2>2, <2>4
  <2>7. Types' /\ Equipped'
    BY <1>1, <2>1 DEF CertInv, Types, Equipped
  <2>8. Watched'
    <3> SUFFICES ASSUME mishaps = {}, started, NEW p \in Paths PROVE watch'[p] # 0 \/ Gone(p)'
      BY <1>1, <2>1 DEF Watched
    <3>1. watch[p] # 0 \/ Gone(p)
      BY DEF CertInv, Watched
    <3>2. CASE e = Event("remove", p)
      <4>1. e.op = "remove" /\ e.path = p
        BY <3>2 DEF Event
      <4> QED BY <1>2, <1>4, <2>4, <4>1
    <3>3. CASE e # Event("remove", p)
      <4>1. Gone(p) => Gone(p)'
        BY <2>5, <3>3 DEF Gone, Event
      <4>2. watch'[p] = watch[p]
        BY <2>3, <2>4, <3>3
      <4> QED BY <3>1, <4>1, <4>2
    <3> QED BY <3>2, <3>3
  <2>9. Followed'
    <3> SUFFICES ASSUME mishaps = {}, ~(started /\ Pending'), stage' = "idle"
                 PROVE  CAServed' /\ PairServed'
      BY <1>1, <2>1 DEF Followed
    <3>1. e.op = "rename" /\ watch' = watch
      BY <2>1
    <3>2. Told => Told'
      BY <2>5, <3>1 DEF Told
    <3>3. Pending => Pending'
      BY <1>1, <3>1, <3>2 DEF Pending, Unlinkable
    <3> QED BY <1>3, <2>1, <3>3 DEF CertInv, Followed
  <2> QED BY <1>3, <2>6, <2>7, <2>8, <2>9 DEF CertInv
<1> QED BY <1>6, <1>7

(* Every step keeps the invariant. *)
LEMMA CertInvStep == CertInv /\ [Next]_vars => CertInv'
<1> SUFFICES ASSUME CertInv, [Next]_vars PROVE CertInv'
  OBVIOUS
<1>1. CASE Stop
  <2>1. stage = "idle" /\ stage' = "exited"
        /\ UNCHANGED <<disk, watch, events, version, mishaps, started, cert, pair, clientCAs>>
    BY <1>1 DEF Stop
  <2>2. FileInv' /\ Present' /\ Watched'
    BY <2>1, LoadFrame
  <2> QED BY <2>1, <2>2 DEF CertInv, Types, Followed, Equipped
<1>2. CASE UNCHANGED vars
  <2>1. UNCHANGED <<disk, watch, events, version, mishaps, stage, started, cert, pair, clientCAs>>
    BY <1>2 DEF vars
  <2>2. FileInv' /\ Present' /\ Watched' /\ Pending' = Pending /\ PairOnDisk' = PairOnDisk
    BY <2>1, LoadFrame
  <2>3. Followed'
    BY <2>1, <2>2 DEF CertInv, Followed, CAServed, PairServed
  <2> QED BY <2>1, <2>2, <2>3 DEF CertInv, Types, Equipped
<1> QED BY <1>1, <1>2, LoadKeeps, WatchKeeps, FileStepKeeps DEF Next

(* The invariant holds when the process starts. *)
LEMMA CertInvInit == Init => CertInv
<1> SUFFICES ASSUME Init PROVE CertInv
  OBVIOUS
<1>1. FileTypeOK /\ Fresh
  BY MaxVersionAssumption DEF Init, FileInit, FileTypeOK, Fresh, Sound, File, Missing, Torn
<1>2. \A p \in Paths : Exists(p)
  <2>1. File(1, 1).inode # Missing.inode
    BY DEF File, Missing
  <2>2. \A p \in Paths : disk[p] = File(1, 1)
    BY DEF Init, FileInit
  <2> QED BY <2>1, <2>2 DEF Exists
<1>3. Types
  <2>1. 0 \in 0..MaxVersion
    BY MaxVersionAssumption
  <2>2. None \in Optional(1..MaxVersion) /\ None \in Optional(0..MaxVersion)
    BY PointerFacts
  <2> QED BY <2>1, <2>2 DEF Init, Types, Torn
<1> QED BY <1>1, <1>2, <1>3 DEF Init, CertInv, FileInv, Present, Watched, Followed, Equipped

(* The invariant of the watcher: no rotation is missed. *)
THEOREM CertInvariant == Spec => []CertInv
BY CertInvInit, CertInvStep, PTL DEF Spec

(* Every variable keeps its type, and no certificate is served whose key was
   being written when it was loaded. *)
THEOREM TypeCorrect == Spec => []TypeOK
<1>1. CertInv => TypeOK
  BY DEF CertInv, FileInv, Types, TypeOK
<1> QED BY <1>1, CertInvariant, PTL

(* However many rotations fall between the reads of a load: with nothing left to
   handle and files that belong together, the server presents their certificate
   and trusts their CA. *)
THEOREM FollowsRotation == Spec => []ServesRotation
<1>1. CertInv => ServesRotation
  <2> SUFFICES ASSUME CertInv, mishaps = {}, stage = "idle", FilesAtRest, PairOnDisk
               PROVE  /\ pair = Some(disk["cert"].body)
                      /\ "ca" \in Paths => clientCAs = Some(disk["ca"].body)
    BY DEF ServesRotation, GetConfigForClient
  <2>1. ~Pending
    BY DEF FilesAtRest, Pending, Told
  <2> QED BY <2>1 DEF CertInv, Followed, CAServed, PairServed
<1> QED BY <1>1, CertInvariant, PTL

(* From the first handshake on there is a certificate to present, and a pool to
   demand client certificates with whenever a Gatekeeper CA is configured. *)
THEOREM HandshakesAreReady == Spec => []HandshakeReady
<1>1. CertInv => HandshakeReady
  BY DEF CertInv, Equipped, HandshakeReady, GetConfigForClient
<1> QED BY <1>1, CertInvariant, PTL
=============================================================================
