------------------------- MODULE ConfigWatcher_proofs -------------------------
(***************************************************************************)
(* Proofs about ConfigWatcher for any number of versions of the file, any  *)
(* of which may be unbuildable.                                            *)
(***************************************************************************)
EXTENDS ConfigWatcher, TLAPS

Events == [op : {"write", "remove", "rename"}, path : Paths]

(* The queue of fsnotify: what is there stays there until it is taken. *)
LEMMA QueueFacts ==
  ASSUME NEW E, NEW s \in Seq(E)
  PROVE  /\ \A e \in E : /\ Append(s, e) \in Seq(E)
                         /\ Len(s) + 1 \in DOMAIN Append(s, e) /\ Append(s, e)[Len(s) + 1] = e
                         /\ \A i \in DOMAIN s : i \in DOMAIN Append(s, e) /\ Append(s, e)[i] = s[i]
         /\ s # <<>> =>
              /\ Head(s) \in E /\ Tail(s) \in Seq(E)
              /\ \A i \in DOMAIN s : s[i] # Head(s) =>
                   i - 1 \in DOMAIN Tail(s) /\ Tail(s)[i - 1] = s[i]
<1>1. ASSUME NEW e \in E
      PROVE  /\ Append(s, e) \in Seq(E)
             /\ Len(s) + 1 \in DOMAIN Append(s, e) /\ Append(s, e)[Len(s) + 1] = e
             /\ \A i \in DOMAIN s : i \in DOMAIN Append(s, e) /\ Append(s, e)[i] = s[i]
  OBVIOUS
<1>2. ASSUME s # <<>>
      PROVE  /\ Head(s) \in E /\ Tail(s) \in Seq(E)
             /\ \A i \in DOMAIN s : s[i] # Head(s) =>
                  i - 1 \in DOMAIN Tail(s) /\ Tail(s)[i - 1] = s[i]
  <2>1. Head(s) \in E /\ Tail(s) \in Seq(E) /\ Head(s) = s[1] /\ Len(Tail(s)) = Len(s) - 1
        /\ \A j \in 1..Len(Tail(s)) : Tail(s)[j] = s[j + 1]
    BY <1>2
  <2>2. ASSUME NEW i \in DOMAIN s, s[i] # Head(s)
        PROVE  i - 1 \in DOMAIN Tail(s) /\ Tail(s)[i - 1] = s[i]
    <3>1. i \in 1..Len(s) /\ i # 1 /\ DOMAIN Tail(s) = 1..Len(Tail(s)) /\ Len(s) \in Nat
      BY <2>1, <2>2
    <3>2. i - 1 \in 1..Len(Tail(s)) /\ (i - 1) + 1 = i
      BY <2>1, <3>1
    <3> QED BY <2>1, <3>1, <3>2
  <2> QED BY <2>1, <2>2
<1> QED BY <1>1, <1>2

-----------------------------------------------------------------------------
FileRecords == [inode : 0..MaxVersion, body : 0..MaxVersion]

(* A new file has an inode nobody has seen: watches and files are of versions
   there have been. *)
Sound(f, v) == f.inode <= v /\ f.body <= v /\ (f # Missing => f.inode # 0)
Fresh == \A p \in Paths : watch[p] <= version /\ Sound(disk[p], version)

FileInv == FileTypeOK /\ Fresh

(* One file and its watch change. *)
LEMMA PutFile ==
  ASSUME FileInv, NEW p \in Paths, NEW f \in FileRecords, disk' = [disk EXCEPT ![p] = f],
         version' \in version..MaxVersion, Sound(f, version'),
         watch' \in {watch, [watch EXCEPT ![p] = 0]},
         events' = events \/ \E e \in Events : events' = Append(events, e),
         mishaps' \subseteq {"missing", "early"}
  PROVE  FileInv'
<1>1. /\ version \in Nat /\ version' \in Nat /\ version <= version' /\ version' \in 1..MaxVersion
      /\ \A q \in Paths : disk[q] \in FileRecords /\ watch[q] \in 0..MaxVersion
      /\ disk \in [Paths -> FileRecords] /\ watch \in [Paths -> 0..MaxVersion]
      /\ events \in Seq(Events) /\ MaxVersion \in Nat
  BY MaxVersionAssumption DEF FileInv, FileTypeOK, FileRecords, Events
<1>2. /\ \A q \in Paths : disk'[q] = IF q = p THEN f ELSE disk[q]
      /\ \A q \in Paths : watch'[q] \in {watch[q], 0}
  BY <1>1
<1>3. /\ disk' \in [Paths -> FileRecords] /\ watch' \in [Paths -> 0..MaxVersion]
      /\ events' \in Seq(Events)
  <2>1. disk' \in [Paths -> FileRecords]
    BY <1>1
  <2>2. watch' \in [Paths -> 0..MaxVersion]
    BY <1>1
  <2>3. events' \in Seq(Events)
    BY <1>1, QueueFacts
  <2> QED BY <2>1, <2>2, <2>3
<1>4. FileTypeOK'
  BY <1>1, <1>3 DEF FileTypeOK, FileRecords, Events
<1>5. ASSUME NEW q \in Paths PROVE watch'[q] <= version' /\ Sound(disk'[q], version')
  <2>1. /\ watch[q] <= version /\ disk[q].inode <= version /\ disk[q].body <= version
        /\ disk[q] # Missing => disk[q].inode # 0
    BY DEF FileInv, Fresh, Sound
  <2>2. disk[q].inode \in Nat /\ disk[q].body \in Nat /\ watch[q] \in Nat
    BY <1>1 DEF FileRecords
  <2>3. Sound(disk[q], version') /\ watch'[q] <= version'
    BY <1>1, <1>2, <2>1, <2>2 DEF Sound
  <2> QED BY <1>2, <2>3
<1>6. Fresh'
  BY <1>5 DEF Fresh, Sound, Missing, Torn
<1> QED BY <1>4, <1>6 DEF FileInv

(* Whatever happens to the files keeps files, watches and events in their types
   and new inodes new. *)
LEMMA FileInvStep ==
  ASSUME FileInv, NEW watching, FileChange(watching)
  PROVE  FileInv'
<1>t. /\ version \in 1..MaxVersion /\ MaxVersion \in Nat /\ disk \in [Paths -> FileRecords]
      /\ watch \in [Paths -> 0..MaxVersion] /\ events \in Seq(Events)
      /\ mishaps' \subseteq {"missing", "early"}
  BY MaxVersionAssumption DEF FileInv, FileTypeOK, FileRecords, Events, FileChange
<1>1. CASE Replace
  <2>1. /\ version' = version + 1 /\ version' \in 1..MaxVersion /\ UNCHANGED <<watch, events>>
        /\ disk' = [p \in Paths |-> [inode |-> version', body |-> version']]
    BY <1>t, <1>1 DEF Replace, File
  <2>2. FileTypeOK'
    BY <1>t, <2>1 DEF FileTypeOK, Events
  <2>3. ASSUME NEW p \in Paths PROVE watch'[p] <= version' /\ Sound(disk'[p], version')
    <3>1. watch[p] \in Nat /\ watch[p] <= version /\ version \in Nat
      BY <1>t DEF FileInv, Fresh
    <3> QED BY <1>t, <2>1, <3>1 DEF Sound
  <2>4. Fresh'
    BY <2>3 DEF Fresh, Sound, Missing, Torn
  <2> QED BY <2>2, <2>4 DEF FileInv
<1>2. ASSUME NEW p \in Paths, Truncate(p) \/ Fill(p) PROVE FileInv'
  <2>1. PICK b \in 0..MaxVersion : disk' = [disk EXCEPT ![p].body = b] /\ b <= version'
    BY <1>t, <1>2 DEF Truncate, Fill, Torn
  <2> DEFINE f == [disk[p] EXCEPT !.body = b]
  <2>2. disk[p] \in FileRecords /\ Exists(p) /\ Sound(disk[p], version)
    BY <1>t, <1>2 DEF Truncate, Fill, Readable, FileInv, Fresh
  <2>3. f \in FileRecords /\ f.inode = disk[p].inode /\ f.body = b /\ disk' = [disk EXCEPT ![p] = f]
    BY <1>t, <2>1, <2>2 DEF FileRecords
  <2>4. /\ version' \in version..MaxVersion /\ watch' = watch
        /\ events' = events \/ \E e \in Events : events' = Append(events, e)
    <3>1. Event("write", p) \in Events
      BY DEF Event, Events
    <3> QED BY <1>t, <1>2, <3>1 DEF Truncate, Fill, NotifyWrite
  <2>5. f.inode \in Nat /\ f.inode <= version /\ f.inode # 0
    BY <1>t, <2>2, <2>3 DEF Sound, FileRecords, Exists
  <2>6. Sound(f, version')
    BY <1>t, <2>1, <2>3, <2>4, <2>5 DEF Sound
  <2> HIDE DEF f
  <2> QED BY <1>t, <2>3, <2>4, <2>6, PutFile
<1>3. ASSUME NEW p \in Paths, Delete(p) \/ Move(p) PROVE FileInv'
  <2>1. Missing \in FileRecords /\ Sound(Missing, version)
    BY <1>t DEF Missing, Torn, FileRecords, Sound
  <2>2. /\ disk' = [disk EXCEPT ![p] = Missing] /\ version' = version
        /\ watch' \in {watch, [watch EXCEPT ![p] = 0]}
        /\ events' = events \/ \E e \in Events : events' = Append(events, e)
    <3>1. Event("rename", p) \in Events
      BY DEF Event, Events
    <3> QED BY <1>3, <3>1 DEF Delete, Move
  <2>3. version' \in version..MaxVersion /\ Sound(Missing, version')
    BY <1>t, <2>1, <2>2
  <2> QED BY <1>t, <2>1, <2>2, <2>3, PutFile
<1>4. ASSUME NEW p \in Paths, Create(p) PROVE FileInv'
  <2>1. /\ version' = version + 1 /\ version' \in version..MaxVersion
        /\ disk' = [disk EXCEPT ![p] = [inode |-> version', body |-> version']]
        /\ UNCHANGED <<watch, events>>
    BY <1>t, <1>4 DEF Create, File
  <2>2. [inode |-> version', body |-> version'] \in FileRecords
        /\ Sound([inode |-> version', body |-> version'], version')
    BY <1>t, <2>1 DEF FileRecords, Sound
  <2> QED BY <1>t, <2>1, <2>2, PutFile
<1>5. ASSUME NEW p \in Paths, Unlink(p) PROVE FileInv'
  <2>1. Event("remove", p) \in Events /\ disk[p] \in FileRecords /\ Sound(disk[p], version)
    BY <1>t DEF Event, Events, FileInv, Fresh
  <2>2. /\ disk' = [disk EXCEPT ![p] = disk[p]] /\ version' = version
        /\ version' \in version..MaxVersion
        /\ watch' = [watch EXCEPT ![p] = 0] /\ events' = Append(events, Event("remove", p))
    BY <1>t, <1>5 DEF Unlink
  <2> QED BY <1>t, <2>1, <2>2, PutFile
<1> QED BY <1>1, <1>2, <1>3, <1>4, <1>5 DEF FileChange

-----------------------------------------------------------------------------
(* An event that makes the watcher load the file is waiting, and one that makes
   it watch the file again. *)
Told == \E i \in DOMAIN events : events[i].op \in {"write", "remove"}
Gone == \E i \in DOMAIN events : events[i].op = "remove"

(***************************************************************************)
(* Why nothing is missed.  As long as no file went missing the watch is on *)
(* some inode, or its end is told; and while it is on the file's own inode *)
(* the executor is the file's, or a change is told.  The file that was     *)
(* loaded first must not have changed before it is watched.                *)
(***************************************************************************)
Present == mishaps = {} => Exists(ConfigFile)
Watched == (mishaps = {} /\ stage \in {"idle", "load"}) => watch[ConfigFile] # 0 \/ Gone
FirstServed == ("early" \notin mishaps /\ stage = "loaded") => Served
ChangeTold ==
  ("early" \notin mishaps /\ stage = "idle" /\ watch[ConfigFile] # 0) =>
    Served \/ watch[ConfigFile] # disk[ConfigFile].inode \/ Told

ConfigInv ==
  /\ FileInv
  /\ stage \in {"new", "loaded", "idle", "rewatch", "load", "exited"}
  /\ executor \in (1..MaxVersion \ Broken) \cup {NoExecutor}
  /\ Present /\ Watched /\ FirstServed /\ ChangeTold

(* What a change of the file leaves behind: it is told while the watch is on the
   file, and the watch ends with a Remove event unless the file is missing. *)
LEMMA ChangeFacts ==
  ASSUME FileInv, NEW watching, FileChange(watching)
  PROVE  /\ Told => Told'
         /\ Gone => Gone'
         /\ watch'[ConfigFile] = watch[ConfigFile] \/ Gone' \/ ~Exists(ConfigFile)'
         /\ \/ ~Readable(ConfigFile)' \/ Told'
            \/ watch'[ConfigFile] = 0 \/ watch'[ConfigFile] # disk'[ConfigFile].inode
<1> DEFINE c == ConfigFile
<1>t. /\ version \in Nat /\ disk \in [Paths -> FileRecords] /\ watch \in [Paths -> 0..MaxVersion]
      /\ events \in Seq(Events) /\ c \in Paths /\ watch[c] <= version /\ watch[c] \in Nat
  BY MaxVersionAssumption, ConfigFileAssumption
  DEF FileInv, FileTypeOK, FileRecords, Events, Fresh
<1>a. ASSUME NEW e \in Events, events' = Append(events, e)
      PROVE  /\ (Told => Told') /\ (Gone => Gone') /\ (e.op = "write" => Told')
             /\ (e.op = "remove" => Told' /\ Gone')
  BY <1>t, <1>a, QueueFacts DEF Told, Gone
<1>b. ASSUME UNCHANGED events PROVE (Told => Told') /\ (Gone => Gone')
  BY <1>b DEF Told, Gone
<1>c. \A op \in {"write", "remove", "rename"} :
        Event(op, c) \in Events /\ Event(op, c).op = op
  BY <1>t DEF Event, Events
<1>1. CASE Replace
  <2>1. /\ UNCHANGED <<watch, events>> /\ disk'[c].inode = version + 1
    BY <1>t, <1>1 DEF Replace, File
  <2>2. watch'[c] # disk'[c].inode
    BY <1>t, <2>1
  <2> QED BY <1>b, <2>1, <2>2
<1>2. CASE Create(c)
  <2>1. /\ UNCHANGED <<watch, events>> /\ disk'[c].inode = version + 1
    BY <1>t, <1>2 DEF Create, File
  <2>2. watch'[c] # disk'[c].inode
    BY <1>t, <2>1
  <2> QED BY <1>b, <2>1, <2>2
<1>3. CASE Truncate(c) \/ Fill(c)
  <2>1. watch' = watch /\ disk'[c].inode = disk[c].inode
    BY <1>t, <1>3 DEF Truncate, Fill, FileRecords
  <2>2. \/ watch[c] # disk[c].inode /\ UNCHANGED events
        \/ events' = Append(events, Event("write", c))
    BY <1>3 DEF Truncate, Fill, NotifyWrite
  <2> QED BY <1>a, <1>b, <1>c, <2>1, <2>2
<1>4. CASE Delete(c) \/ Move(c)
  <2>1. disk'[c] = Missing /\ (UNCHANGED events \/ events' = Append(events, Event("rename", c)))
    BY <1>t, <1>4 DEF Delete, Move
  <2> QED BY <1>a, <1>b, <1>c, <2>1 DEF Exists, Readable
<1>5. CASE Unlink(c)
  <2>1. events' = Append(events, Event("remove", c))
    BY <1>5 DEF Unlink
  <2> QED BY <1>a, <1>c, <2>1
<1> QED BY <1>1, <1>2, <1>3, <1>4, <1>5, ConfigFileAssumption DEF FileChange

(* A change of the file keeps the invariant. *)
LEMMA FileStepKeeps == ConfigInv /\ FileStep => ConfigInv'
<1> SUFFICES ASSUME ConfigInv, FileStep PROVE ConfigInv'
  OBVIOUS
<1>1. /\ FileChange(stage # "loaded") /\ UNCHANGED <<stage, executor>> /\ FileInv
  BY DEF FileStep, ConfigInv
<1>2. FileInv'
  BY <1>1, FileInvStep
<1>3. /\ \A m \in {"early", "missing"} : m \in mishaps => m \in mishaps'
      /\ mishaps' = {} => mishaps = {} /\ Exists(ConfigFile)'
      /\ stage = "loaded" => "early" \in mishaps'
  <2>1. mishaps' = mishaps \cup (IF stage # "loaded" THEN {} ELSE {"early"})
                       \cup (IF \E p \in Paths : disk'[p] = Missing THEN {"missing"} ELSE {})
    BY <1>1 DEF FileChange
  <2> QED BY <2>1, ConfigFileAssumption DEF Exists, Missing, Torn
<1>4. /\ Told => Told'
      /\ Gone => Gone'
      /\ watch'[ConfigFile] = watch[ConfigFile] \/ Gone' \/ ~Exists(ConfigFile)'
      /\ \/ ~Readable(ConfigFile)' \/ Told'
         \/ watch'[ConfigFile] = 0 \/ watch'[ConfigFile] # disk'[ConfigFile].inode
  BY <1>1, ChangeFacts
<1>5. Present' /\ FirstServed'
  BY <1>1, <1>3 DEF Present, FirstServed
<1>6. Watched'
  BY <1>1, <1>3, <1>4 DEF Watched, ConfigInv
<1>7. ChangeTold'
  BY <1>1, <1>4 DEF ChangeTold, Served, Loadable
<1> QED BY <1>1, <1>2, <1>5, <1>6, <1>7 DEF ConfigInv

(* Adding a watch keeps files, watches and events in their types. *)
LEMMA AddKeeps ==
  ASSUME FileInv, Add(ConfigFile), UNCHANGED <<disk, events, version, mishaps>>
  PROVE  /\ FileInv'
         /\ Exists(ConfigFile) => watch'[ConfigFile] = disk[ConfigFile].inode
                                  /\ watch'[ConfigFile] # 0
<1>1. /\ version \in Nat /\ disk \in [Paths -> FileRecords] /\ watch \in [Paths -> 0..MaxVersion]
      /\ ConfigFile \in Paths
      /\ \A p \in Paths : watch[p] <= version /\ disk[p].inode <= version
      /\ Exists(ConfigFile) => disk[ConfigFile].inode # 0
  BY MaxVersionAssumption, ConfigFileAssumption
  DEF FileInv, FileTypeOK, FileRecords, Fresh, Sound, Exists
<1>2. disk[ConfigFile].inode \in 0..MaxVersion
  BY <1>1 DEF FileRecords
<1>3. /\ watch' \in [Paths -> 0..MaxVersion] /\ \A p \in Paths : watch'[p] <= version
      /\ Exists(ConfigFile) => watch'[ConfigFile] = disk[ConfigFile].inode
  BY <1>1, <1>2 DEF Add
<1>4. FileTypeOK' /\ Fresh'
  BY <1>3 DEF FileInv, FileTypeOK, Fresh, Sound
<1> QED BY <1>1, <1>3, <1>4 DEF FileInv

(* A load leaves the pointer at what the file describes, if it describes any,
   and never at a torn or unbuildable file (loadExecutor). *)
LEMMA LoadFacts ==
  ASSUME FileInv, executor \in (1..MaxVersion \ Broken) \cup {NoExecutor},
         NEW ok, NEW bad, loadExecutor(ok, bad), UNCHANGED fileVars
  PROVE  /\ executor' \in (1..MaxVersion \ Broken) \cup {NoExecutor} /\ Served' /\ FileInv'
         /\ stage' = IF Loadable THEN ok ELSE bad
<1>1. disk' = disk /\ disk[ConfigFile].body \in 0..MaxVersion /\ MaxVersion \in Nat
  BY MaxVersionAssumption, ConfigFileAssumption DEF fileVars, FileInv, FileTypeOK
<1>2. Loadable => disk[ConfigFile].body \in 1..MaxVersion \ Broken
  BY <1>1 DEF Loadable, Readable, Torn
<1>3. Served'
  BY <1>1 DEF loadExecutor, Served, Loadable, Readable, Exists
<1>4. FileInv'
  BY DEF fileVars, FileInv, FileTypeOK, Fresh
<1> QED BY <1>2, <1>3, <1>4 DEF loadExecutor

(* Every step keeps the invariant. *)
LEMMA ConfigInvStep == ConfigInv /\ [Next]_vars => ConfigInv'
<1> SUFFICES ASSUME ConfigInv, [Next]_vars PROVE ConfigInv'
  OBVIOUS
<1>1. CASE NewWatcher
  <2>1. /\ stage' \in {"loaded", "exited"} /\ Served' /\ FileInv' /\ UNCHANGED fileVars
        /\ executor' \in (1..MaxVersion \ Broken) \cup {NoExecutor}
    BY <1>1, LoadFacts DEF NewWatcher, ConfigInv
  <2>2. Present'
    BY <2>1 DEF fileVars, ConfigInv, Present, Exists
  <2> QED BY <2>1, <2>2 DEF ConfigInv, Watched, FirstServed, ChangeTold
<1>2. CASE Start
  <2>1. /\ stage = "loaded" /\ stage' = IF Exists(ConfigFile) THEN "idle" ELSE "exited"
        /\ UNCHANGED <<disk, events, version, mishaps, executor>>
        /\ FileInv' /\ (Exists(ConfigFile) => watch'[ConfigFile] # 0)
    BY <1>2, AddKeeps DEF Start, ConfigInv
  <2>2. Served' = Served /\ Exists(ConfigFile)' = Exists(ConfigFile)
    BY <2>1 DEF Served, Loadable, Readable, Exists
  <2>3. Present' /\ FirstServed' /\ Watched' /\ ChangeTold'
    BY <2>1, <2>2 DEF ConfigInv, Present, FirstServed, Watched, ChangeTold
  <2> QED BY <2>1, <2>3 DEF ConfigInv
<1>3. CASE handleEvent
  <2>1. /\ stage = "idle" /\ events # <<>> /\ events' = Tail(events) /\ events \in Seq(Events)
        /\ UNCHANGED <<disk, watch, version, mishaps, executor>>
    BY <1>3 DEF handleEvent, ConfigInv, FileInv, FileTypeOK, Events
  <2>2. FileInv'
    BY <2>1, QueueFacts DEF ConfigInv, FileInv, FileTypeOK, Fresh, Events
  <2>3. /\ stage' \in {"idle", "rewatch", "load"}
        /\ stage' = "idle" => Head(events).op \notin {"write", "remove"}
        /\ stage' \in {"idle", "load"} => Head(events).op # "remove"
    BY <1>3 DEF handleEvent
  <2>4. /\ (stage' = "idle" /\ Told) => Told'
        /\ (stage' \in {"idle", "load"} /\ Gone) => Gone'
    <3>1. ASSUME NEW i \in DOMAIN events, events[i].op # Head(events).op
          PROVE  \E j \in DOMAIN events' : events'[j].op = events[i].op
      <4>1. i - 1 \in DOMAIN Tail(events) /\ Tail(events)[i - 1] = events[i]
        BY <2>1, <3>1, QueueFacts
      <4> QED BY <2>1, <4>1
    <3> QED BY <2>3, <3>1 DEF Told, Gone
  <2>5. Served' = Served /\ Exists(ConfigFile)' = Exists(ConfigFile)
    BY <2>1 DEF Served, Loadable, Readable, Exists
  <2>6. Present' /\ FirstServed' /\ Watched' /\ ChangeTold'
    BY <2>1, <2>3, <2>4, <2>5 DEF ConfigInv, Present, FirstServed, Watched, ChangeTold
  <2> QED BY <2>1, <2>2, <2>3, <2>6 DEF ConfigInv
<1>4. CASE rewatch
  <2>1. /\ stage' = "load" /\ UNCHANGED <<disk, events, version, mishaps, executor>>
        /\ FileInv' /\ (Exists(ConfigFile) => watch'[ConfigFile] # 0)
    BY <1>4, AddKeeps DEF rewatch, ConfigInv
  <2>2. Exists(ConfigFile)' = Exists(ConfigFile)
    BY <2>1 DEF Exists
  <2> QED BY <2>1, <2>2 DEF ConfigInv, Present, FirstServed, Watched, ChangeTold
<1>5. CASE reload
  <2>1. /\ stage = "load" /\ stage' = "idle" /\ Served' /\ FileInv' /\ UNCHANGED fileVars
        /\ executor' \in (1..MaxVersion \ Broken) \cup {NoExecutor}
    BY <1>5, LoadFacts DEF reload, ConfigInv
  <2>2. Present' /\ Watched'
    BY <2>1 DEF fileVars, ConfigInv, Present, Watched, Exists, Gone
  <2> QED BY <2>1, <2>2 DEF ConfigInv, FirstServed, ChangeTold
<1>6. CASE Stop
  <2>1. /\ stage' = "exited" /\ UNCHANGED <<disk, watch, events, version, mishaps, executor>>
    BY <1>6 DEF Stop
  <2> QED BY <2>1 DEF ConfigInv, FileInv, FileTypeOK, Fresh, Present, Watched, FirstServed,
                      ChangeTold, Exists
<1>7. CASE FileStep
  BY <1>7, FileStepKeeps
<1>8. CASE UNCHANGED vars
  BY <1>8 DEF vars, ConfigInv, FileInv, FileTypeOK, Fresh, Present, Watched, FirstServed,
              ChangeTold, Exists, Served, Loadable, Readable, Told, Gone
<1> QED BY <1>1, <1>2, <1>3, <1>4, <1>5, <1>6, <1>7, <1>8 DEF Next, WatcherStep

(* The invariant holds when the process starts. *)
LEMMA ConfigInvInit == Init => ConfigInv
<1> SUFFICES ASSUME Init PROVE ConfigInv
  OBVIOUS
<1>1. FileTypeOK /\ Fresh
  BY MaxVersionAssumption DEF Init, FileInit, FileTypeOK, Fresh, Sound, File, Missing, Torn
<1>2. Exists(ConfigFile)
  BY ConfigFileAssumption DEF Init, FileInit, Exists, File, Missing, Torn
<1> QED BY <1>1, <1>2 DEF Init, ConfigInv, FileInv, Present, Watched, FirstServed, ChangeTold

(* The invariant of the watcher: nothing that happens to the file is missed. *)
THEOREM ConfigInvariant == Spec => []ConfigInv
BY ConfigInvInit, ConfigInvStep, PTL DEF Spec

(* Every variable keeps its type, and the pointer never holds an executor of a
   torn or unbuildable file, however many versions there are. *)
THEOREM TypeCorrect == Spec => []TypeOK
<1>1. ConfigInv => TypeOK
  BY DEF ConfigInv, FileInv, TypeOK
<1> QED BY <1>1, ConfigInvariant, PTL

(* With nothing left to handle the executor is the file's, even after files were
   deleted and moved away, as long as the watch is on a file. *)
THEOREM FollowsWatched == Spec => []WatchedIsServed
<1>1. ConfigInv => WatchedIsServed
  BY ConfigFileAssumption
  DEF ConfigInv, ChangeTold, WatchedIsServed, AtRest, FilesAtRest, Unlinkable, Told
<1> QED BY <1>1, ConfigInvariant, PTL

(* Unless a file went missing or changed before it was watched, the watch never
   ends unnoticed: with nothing left to handle the executor is the file's. *)
THEOREM FollowsFile == Spec => []ServesFile
<1>1. ConfigInv => ServesFile
  <2> SUFFICES ASSUME ConfigInv, AtRest, mishaps = {} PROVE Served
    BY DEF ServesFile
  <2>1. watch[ConfigFile] # 0
    BY DEF ConfigInv, Watched, AtRest, FilesAtRest, Gone
  <2> QED BY <2>1, ConfigFileAssumption
      DEF ConfigInv, ChangeTold, AtRest, FilesAtRest, Unlinkable, Told
<1> QED BY <1>1, ConfigInvariant, PTL
-----------------------------------------------------------------------------
(***************************************************************************)
(* The watcher implements ServedFile: what the file describes, what is     *)
(* served, and whether the watcher is bound to follow.                     *)
(***************************************************************************)
Described == IF Loadable THEN disk[ConfigFile].body ELSE NoExecutor
Bound == stage # "exited" /\ mishaps = {}

(* What the file describes is something that can be served, or nothing. *)
LEMMA DescribedType ==
  ASSUME FileInv
  PROVE  /\ Described \in (1..MaxVersion \ Broken) \cup {NoExecutor}
         /\ Loadable => Described # NoExecutor
<1>1. disk[ConfigFile].body \in 0..MaxVersion /\ MaxVersion \in Nat
  BY MaxVersionAssumption, ConfigFileAssumption DEF FileInv, FileTypeOK
<1> QED BY <1>1 DEF Described, Loadable, Readable, Torn, NoExecutor

(* A load that finds a usable file is a Load, and one that does not changes
   nothing but, the first time, that the watcher goes on. *)
LEMMA LoadRefines ==
  ASSUME ConfigInv, NEW ok, NEW bad, loadExecutor(ok, bad), UNCHANGED fileVars,
         stage # "exited", ok # "exited"
  PROVE  Contract!Next
<1>1. /\ Described' = Described /\ mishaps' = mishaps
      /\ Described \in (1..MaxVersion \ Broken) \cup {NoExecutor}
      /\ Loadable => Described # NoExecutor
  BY DescribedType DEF fileVars, ConfigInv, Described, Loadable, Readable, Exists
<1>2. CASE Loadable
  <2>1. executor' = Described /\ Bound' = Bound
    BY <1>1, <1>2 DEF loadExecutor, Described, Bound
  <2>2. Contract!Load
    BY <1>1, <1>2, <2>1 DEF Contract!Load, Described, Bound
  <2> QED BY <2>2 DEF Contract!Next
<1>3. CASE ~Loadable
  <2>1. executor' = executor /\ (Bound' = Bound \/ Bound' = FALSE)
    BY <1>1, <1>3 DEF loadExecutor, Bound
  <2>2. Contract!Change
    BY <1>1, <2>1 DEF Contract!Change, Described, Bound
  <2> QED BY <2>2 DEF Contract!Next
<1> QED BY <1>2, <1>3

(* A step that leaves the pointer alone can release the watcher, not bind it. *)
LEMMA ChangeRefines ==
  ASSUME ConfigInv, ConfigInv', UNCHANGED executor, Bound' => Bound
  PROVE  Contract!Next
<1>1. Described' \in (1..MaxVersion \ Broken) \cup {NoExecutor}
  <2>1. disk'[ConfigFile].body \in 0..MaxVersion /\ MaxVersion \in Nat
    BY MaxVersionAssumption, ConfigFileAssumption DEF ConfigInv, FileInv, FileTypeOK
  <2> QED BY <2>1 DEF Described, Loadable, Readable, Torn, NoExecutor
<1>2. Bound' = Bound \/ Bound' = FALSE
  BY DEF Bound
<1>3. Contract!Change
  BY <1>1, <1>2 DEF Contract!Change, Described, Bound
<1> QED BY <1>3 DEF Contract!Next

(* Every step of the watcher is a step of ServedFile, or stutters there. *)
LEMMA StepRefines ==
  ConfigInv /\ ConfigInv' /\ [Next]_vars => [Contract!Next]_(Contract!vars)
<1> SUFFICES ASSUME ConfigInv, ConfigInv', [Next]_vars
             PROVE  Contract!Next \/ UNCHANGED Contract!vars
  OBVIOUS
<1>1. CASE NewWatcher \/ reload
  BY <1>1, LoadRefines DEF NewWatcher, reload
<1>2. CASE Start \/ handleEvent \/ rewatch \/ Stop
  <2>1. UNCHANGED <<executor, mishaps>> /\ stage # "exited"
    BY <1>2 DEF Start, handleEvent, rewatch, Stop
  <2> QED BY <2>1, ChangeRefines DEF Bound
<1>3. CASE FileStep
  <2>1. UNCHANGED <<executor, stage>> /\ (mishaps' = {} => mishaps = {})
    BY <1>3 DEF FileStep, FileChange
  <2> QED BY <2>1, ChangeRefines DEF Bound
<1>4. CASE UNCHANGED vars
  BY <1>4 DEF vars, Contract!vars, Loadable, Readable, Exists
<1> QED BY <1>1, <1>2, <1>3, <1>4 DEF Next, WatcherStep

(* The watcher implements the safety part of ServedFile: whatever the file goes
   through, the pointer changes in one step, only to what the file describes at
   that moment, and is never withdrawn (loadExecutor and the atomic pointer). *)
THEOREM RefinesServedFile == Spec => Contract!Safety
<1>1. Init => Contract!Init
  <2> SUFFICES ASSUME Init PROVE Contract!Init
    OBVIOUS
  <2>1. Described \in (1..MaxVersion \ Broken) \cup {NoExecutor}
    BY ConfigInvInit, DescribedType DEF ConfigInv
  <2>2. Bound = TRUE
    BY DEF Init, FileInit, Bound
  <2> QED BY <2>1, <2>2 DEF Init, Contract!Init, Described, Bound
<1> QED BY <1>1, ConfigInvariant, StepRefines, PTL DEF Spec, Contract!Safety
=============================================================================
