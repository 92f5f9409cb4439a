-------------------------- MODULE PluginHost_proofs --------------------------
(***************************************************************************)
(* Proofs about PluginHost and the providers of RegistryAuth for any       *)
(* number of calls and downloads, any settings and any number of secrets,  *)
(* and about what plugins make of any inputs (PluginInputs).               *)
(***************************************************************************)
EXTENDS PluginHost, PluginInputs, WellFoundedInduction, TLAPS

Files == [version : Nat, contents : {"writing", "copied", "broken"}, shared : BOOLEAN,
          replaces : BOOLEAN, executable : BOOLEAN]
CallStages == {"ready", "run", "forked", "running", "returned"}
CallRecords ==
  [stage : CallStages, attempts : Nat, image : Files, inherits : BOOLEAN,
   answer : {"none", "error", "output", "no output"}]
DownloadStages == {"none", "create", "copy", "chmod", "close"}
DownloadRecords == [stage : DownloadStages, version : Nat]

(* Every variable holds a value of its kind. *)
TypeInv ==
  /\ file \in Files
  /\ download \in [Downloads -> DownloadRecords]
  /\ call \in [Calls -> CallRecords]
  /\ version \in Nat

(* Every download has a version of its own, and one that has not created the file
   yet is not the one that created it last. *)
OwnVersions ==
  /\ file.version <= version
  /\ \A d \in Downloads : ~At(d, "none") =>
       /\ 0 < download[d].version /\ download[d].version <= version
       /\ \A e \in Downloads : ~At(e, "none") /\ download[e].version = download[d].version => e = d
  /\ \A d \in Downloads : At(d, "create") => download[d].version # file.version

(* The download that created the file last knows its contents. *)
Mine(d) == download[d].version = file.version
CreatorKnows ==
  \A d \in Downloads : Mine(d) => /\ At(d, "copy") => file.contents = "writing"
                                  /\ At(d, "chmod") => file.contents = "copied"

(* A file that is being written is held open by the one who writes it, and a file
   that nobody shares is written and made executable by its creator alone. *)
Writers ==
  /\ file.contents = "writing" => file = NoFile \/ \E d \in Downloads : At(d, "copy") /\ Mine(d)
  /\ ~file.shared => \A d \in Downloads : At(d, "copy") \/ At(d, "chmod") => Mine(d)
  /\ (file.version = 0) => file = NoFile

(***************************************************************************)
(* Why no half file runs: of an executable that nobody shares and that     *)
(* replaces no other, the creator has copied all before it made it so.     *)
(***************************************************************************)
ExecutableIsCopied ==
  file.executable /\ ~file.shared /\ ~file.replaces => file.contents = "copied"

WholeInv == OwnVersions /\ CreatorKnows /\ Writers /\ ExecutableIsCopied

PluginInv == TypeInv /\ WholeInv /\ RunsWholePlugin

(* What is in a new file, and that no file can be executed before the first. *)
LEMMA FileFacts ==
  /\ NoFile \in Files /\ NoFile.version = 0 /\ ~NoFile.executable /\ NoFile.contents = "writing"
  /\ \A v \in Nat : \A sh, re, ex \in BOOLEAN :
       LET f == NewFile(v, sh, re, ex)
       IN /\ f \in Files /\ f.version = v /\ f.contents = "writing" /\ f.shared = sh
          /\ f.replaces = re /\ f.executable = ex
BY DEF NoFile, NewFile, Files

(* A step of one call leaves the file alone, and runs it only when nobody has it
   open for writing. *)
LEMMA CallKeeps ==
  ASSUME PluginInv, NEW c \in Calls, NEW new \in CallRecords, Update(c, new),
         new.stage = "running" => \/ new.image.contents = "copied"
                                  \/ new.image.contents = "broken" /\ new.image.replaces
                                  \/ new.image.shared,
         UNCHANGED <<file, download, version>>
  PROVE  PluginInv'
<1>1. call' \in [Calls -> CallRecords] /\ \A d \in Calls : call'[d] = IF d = c THEN new ELSE call[d]
  BY DEF Update, PluginInv, TypeInv
<1>2. TypeInv'
  BY <1>1 DEF PluginInv, TypeInv
<1>3. RunsWholePlugin'
  BY <1>1 DEF PluginInv, RunsWholePlugin
<1>4. WholeInv'
  BY DEF PluginInv, WholeInv, OwnVersions, CreatorKnows, Writers, ExecutableIsCopied, At, Mine
<1> QED BY <1>2, <1>3, <1>4 DEF PluginInv

(* The records a call goes through. *)
LEMMA CallRecordFacts ==
  /\ Fresh \in CallRecords /\ Fresh.stage = "ready"
  /\ \A a \in {"error", "output", "no output"} :
       /\ [Fresh EXCEPT !.stage = "returned", !.answer = a] \in CallRecords
       /\ [Fresh EXCEPT !.stage = "returned", !.answer = a].stage = "returned"
BY FileFacts DEF Fresh, CallRecords, CallStages, NoAnswer

(* A call that returns keeps the invariant. *)
LEMMA ReturnKeeps ==
  ASSUME PluginInv, NEW c \in Calls, NEW a \in {"error", "output", "no output"}, Returns(c, a),
         UNCHANGED <<file, download, version>>
  PROVE  PluginInv'
BY CallKeeps, CallRecordFacts DEF Returns

(* What can be executed and is not open for writing is copied to the end, broken
   off over an older one, or shared. *)
LEMMA ExecutesWhole ==
  ASSUME PluginInv, file.executable, ~OpenForWriting
  PROVE  file.contents = "copied" \/ (file.contents = "broken" /\ file.replaces) \/ file.shared
<1>1. file.contents # "writing"
  BY FileFacts DEF PluginInv, WholeInv, Writers, OpenForWriting
<1>2. file.contents \in {"copied", "broken"}
  BY <1>1 DEF PluginInv, TypeInv, Files
<1> QED BY <1>2 DEF PluginInv, WholeInv, ExecutableIsCopied

(* Every step of a call keeps the invariant. *)
LEMMA CallStepKeeps ==
  ASSUME PluginInv, NEW c \in Calls, CallStep(c)
  PROVE  PluginInv'
<1>t. call[c] \in CallRecords /\ file \in Files /\ maxRetryCount \in Nat
  BY PluginAssumption DEF PluginInv, TypeInv
<1>1. CASE Fork(c)
  <2> DEFINE new == [call[c] EXCEPT !.stage = "forked", !.inherits = OpenForWriting]
  <2>1. new \in CallRecords /\ new.stage = "forked"
    <3>1. OpenForWriting \in BOOLEAN
      BY DEF OpenForWriting
    <3> QED BY <1>t, <3>1 DEF CallRecords, CallStages
  <2>2. Update(c, new) /\ UNCHANGED <<file, download, version>>
    BY <1>1 DEF Fork
  <2> HIDE DEF new
  <2> QED BY <2>1, <2>2, CallKeeps
<1>2. CASE Busy(c)
  <2>1. UNCHANGED <<file, download, version>>
    BY <1>2 DEF Busy
  <2>2. CASE Returns(c, "no output")
    BY <2>1, <2>2, ReturnKeeps
  <2>3. CASE ~Returns(c, "no output")
    <3> DEFINE n == IF call[c].attempts > maxRetryCount THEN call[c].attempts
                    ELSE call[c].attempts + 1
               new == [call[c] EXCEPT !.stage = "run", !.inherits = FALSE, !.attempts = n]
    <3>1. Update(c, new)
      BY <1>2, <2>3 DEF Busy
    <3>2. n \in Nat
      <4>1. call[c].attempts \in Nat
        BY <1>t DEF CallRecords
      <4> QED BY <1>t, <4>1
    <3> HIDE DEF n
    <3>3. new \in CallRecords /\ new.stage = "run"
      BY <1>t, <3>2 DEF CallRecords, CallStages
    <3> HIDE DEF new
    <3> QED BY <2>1, <3>1, <3>3, CallKeeps
  <2> QED BY <2>2, <2>3
<1>3. CASE CannotRun(c)
  BY <1>3, ReturnKeeps DEF CannotRun
<1>4. CASE Execute(c)
  <2> DEFINE new == [call[c] EXCEPT !.stage = "running", !.image = file]
  <2>1. new \in CallRecords /\ new.image = file
    BY <1>t DEF CallRecords, CallStages
  <2>2. file.contents = "copied" \/ (file.contents = "broken" /\ file.replaces) \/ file.shared
    BY <1>4, ExecutesWhole DEF Execute
  <2>3. Update(c, new) /\ UNCHANGED <<file, download, version>>
    BY <1>4 DEF Execute
  <2> HIDE DEF new
  <2> QED BY <2>1, <2>2, <2>3, CallKeeps
<1>5. CASE Exits(c)
  <2>1. PICK lines \in Lines : Exit(c, lines)
    BY <1>5 DEF Exits
  <2>2. parsePluginOutput(lines) \in {"output", "no output"}
    BY DEF parsePluginOutput
  <2> QED BY <2>1, <2>2, ReturnKeeps DEF Exit
<1>6. CASE Again(c)
  BY <1>6, CallKeeps, CallRecordFacts DEF Again
<1>7. ASSUME NEW s \in Searches, Find(c, s) PROVE PluginInv'
  <2> DEFINE new == [call[c] EXCEPT !.stage = "run"]
  <2>1. new \in CallRecords /\ new.stage = "run"
    BY <1>t DEF CallRecords, CallStages
  <2>2. /\ Update(c, new) \/ Returns(c, "error")
        /\ UNCHANGED <<file, download, version>>
    BY <1>7 DEF Find
  <2> HIDE DEF new
  <2> QED BY <2>1, <2>2, CallKeeps, ReturnKeeps
<1> QED BY <1>1, <1>2, <1>3, <1>4, <1>5, <1>6, <1>7 DEF CallStep, Attempt

(* What a step of one download does to the downloads. *)
OnlyMoves(d, new) ==
  /\ download' \in [Downloads -> DownloadRecords]
  /\ \A e \in Downloads : download'[e] = IF e = d THEN new ELSE download[e]

(* The records a download goes through. *)
LEMMA DownloadFacts ==
  ASSUME TypeInv, NEW d \in Downloads
  PROVE  /\ \A st \in DownloadStages : GoesTo(d, st) =>
              OnlyMoves(d, [stage |-> st, version |-> download[d].version])
         /\ Ends(d) => OnlyMoves(d, Idle)
         /\ \A n \in Nat : download' = [download EXCEPT ![d] = [stage |-> "create", version |-> n]] =>
              OnlyMoves(d, [stage |-> "create", version |-> n])
         /\ Idle \in DownloadRecords
<1>1. Idle \in DownloadRecords
  BY DEF Idle, DownloadRecords, DownloadStages
<1>2. \A st \in DownloadStages : \A n \in Nat : [stage |-> st, version |-> n] \in DownloadRecords
  BY DEF DownloadRecords
<1>3. ASSUME NEW st \in DownloadStages, GoesTo(d, st)
      PROVE  OnlyMoves(d, [stage |-> st, version |-> download[d].version])
  <2>1. download[d] \in DownloadRecords /\ download[d].version \in Nat
    BY DEF TypeInv, DownloadRecords
  <2>2. [download[d] EXCEPT !.stage = st] = [stage |-> st, version |-> download[d].version]
    BY <2>1 DEF DownloadRecords
  <2>3. download' = [download EXCEPT ![d] = [stage |-> st, version |-> download[d].version]]
    BY <1>3, <2>2 DEF GoesTo
  <2> QED BY <1>2, <2>1, <2>3 DEF TypeInv, OnlyMoves
<1> QED BY <1>1, <1>2, <1>3 DEF TypeInv, OnlyMoves, Ends, DownloadStages

(* Every step of a download keeps the invariant. *)
LEMMA DownloadStepKeeps ==
  ASSUME PluginInv, NEW d \in Downloads, DownloadStep(d)
  PROVE  PluginInv'
<1>t. /\ file \in Files /\ version \in Nat /\ call \in [Calls -> CallRecords]
      /\ download \in [Downloads -> DownloadRecords]
      /\ \A e \in Downloads : download[e].version \in Nat
      /\ file.version \in Nat /\ file.executable \in BOOLEAN /\ TypeInv
  BY DEF PluginInv, TypeInv, DownloadRecords, Files
<1> USE DEF At
<1>w. OwnVersions /\ CreatorKnows /\ Writers /\ ExecutableIsCopied /\ RunsWholePlugin
  BY DEF PluginInv, WholeInv
<1>r. ASSUME UNCHANGED call PROVE RunsWholePlugin'
  BY <1>r, <1>w DEF RunsWholePlugin
<1>1. ASSUME NEW s \in Sources, Resolve(d, s) PROVE PluginInv'
  <2>1. version' = version + 1 /\ UNCHANGED <<file, call>> /\ download[d].stage = "none"
    BY <1>1 DEF Resolve
  <2>2. CASE UNCHANGED download
    <3>1. TypeInv' /\ OwnVersions'
      BY <1>t, <1>w, <2>1, <2>2 DEF TypeInv, OwnVersions
    <3>2. CreatorKnows' /\ Writers' /\ ExecutableIsCopied'
      BY <1>w, <2>1, <2>2 DEF CreatorKnows, Writers, ExecutableIsCopied, Mine
    <3> QED BY <1>r, <2>1, <3>1, <3>2 DEF PluginInv, WholeInv
  <2>3. CASE OnlyMoves(d, [stage |-> "create", version |-> version + 1])
    <3>1. TypeInv'
      BY <1>t, <2>1, <2>3 DEF TypeInv, OnlyMoves
    <3>2. OwnVersions'
      BY <1>t, <1>w, <2>1, <2>3 DEF OwnVersions, OnlyMoves
    <3>3. CreatorKnows' /\ Writers' /\ ExecutableIsCopied'
      BY <1>w, <2>1, <2>3 DEF CreatorKnows, Writers, ExecutableIsCopied, Mine, OnlyMoves
    <3> QED BY <1>r, <2>1, <3>1, <3>2, <3>3 DEF PluginInv, WholeInv
  <2> QED BY <1>t, <1>1, <2>2, <2>3, DownloadFacts DEF Resolve
<1>e. ASSUME OnlyMoves(d, Idle), UNCHANGED <<call, version, file>>, download[d].stage # "copy"
      PROVE  PluginInv'
  <2>1. TypeInv' /\ OwnVersions'
    BY <1>e, <1>t, <1>w DEF TypeInv, OnlyMoves, OwnVersions, Idle
  <2>2. CreatorKnows' /\ Writers' /\ ExecutableIsCopied'
    BY <1>e, <1>w DEF CreatorKnows, Writers, ExecutableIsCopied, Mine, OnlyMoves, Idle
  <2> QED BY <1>e, <1>r, <2>1, <2>2 DEF PluginInv, WholeInv
<1>2. CASE Create(d)
  <2>1. CASE Running
    BY <1>2, <1>e, <1>t, <2>1, DownloadFacts DEF Create
  <2>2. CASE ~Running
    <3> DEFINE v == download[d].version
               sh == \E e \in Downloads \ {d} : At(e, "copy") \/ At(e, "chmod")
    <3>1. /\ GoesTo(d, "copy") /\ UNCHANGED <<call, version>> /\ download[d].stage = "create"
          /\ file' = NewFile(v, sh, file.executable, file.executable)
      BY <1>2, <2>2 DEF Create, NewMode
    <3>2. OnlyMoves(d, [stage |-> "copy", version |-> v])
      BY <1>t, <3>1, DownloadFacts DEF DownloadStages
    <3>3. /\ file' \in Files /\ file'.version = download[d].version /\ file'.contents = "writing"
          /\ file'.replaces = file.executable /\ file'.executable = file.executable
          /\ ~file'.shared => \A e \in Downloads \ {d} : download[e].stage \notin {"copy", "chmod"}
      <4>1. sh \in BOOLEAN /\ v \in Nat
        BY <1>t
      <4>2. ~sh => \A e \in Downloads \ {d} : download[e].stage \notin {"copy", "chmod"}
        OBVIOUS
      <4>3. v = download[d].version
        OBVIOUS
      <4> HIDE DEF sh, v
      <4> QED BY <1>t, <3>1, <4>1, <4>2, <4>3, FileFacts
    <3> HIDE DEF sh
    <3>4. TypeInv'
      BY <1>t, <3>1, <3>2, <3>3 DEF TypeInv, OnlyMoves
    <3>5. OwnVersions'
      BY <1>t, <1>w, <3>1, <3>2, <3>3 DEF OwnVersions, OnlyMoves
    <3>6. CreatorKnows'
      BY <1>t, <1>w, <3>1, <3>2, <3>3 DEF CreatorKnows, OwnVersions, OnlyMoves, Mine
    <3>7. Writers'
      BY <1>t, <1>w, <3>1, <3>2, <3>3 DEF Writers, OwnVersions, OnlyMoves, Mine
    <3>8. ExecutableIsCopied'
      BY <3>3 DEF ExecutableIsCopied
    <3> QED BY <1>r, <3>1, <3>4, <3>5, <3>6, <3>7, <3>8 DEF PluginInv, WholeInv
  <2> QED BY <2>1, <2>2
<1>3. CASE Copy(d)
  <2>1. PICK contents \in {"copied", "broken"} :
          /\ Leaves(d, contents)
          /\ \/ contents = "copied" /\ OnlyMoves(d, [stage |-> "chmod", version |-> download[d].version])
             \/ contents = "broken" /\ OnlyMoves(d, Idle)
    BY <1>3, <1>t, DownloadFacts DEF Copy, DownloadStages
  <2>2. download[d].stage = "copy" /\ UNCHANGED <<call, version>>
    BY <1>3 DEF Copy
  <2>3. /\ file' \in Files /\ file'.version = file.version /\ file'.shared = file.shared
        /\ file'.replaces = file.replaces /\ file'.executable = file.executable
        /\ file'.contents = IF Mine(d) THEN contents ELSE file.contents
        /\ ~Mine(d) => UNCHANGED file
    BY <1>t, <2>1 DEF Leaves, Files, Mine
  <2>4. TypeInv'
    BY <1>t, <2>1, <2>2, <2>3 DEF TypeInv, OnlyMoves
  <2>5. OwnVersions'
    BY <1>t, <1>w, <2>1, <2>2, <2>3 DEF OwnVersions, OnlyMoves, Idle
  <2>6. CreatorKnows'
    <3>0. ASSUME NEW e \in Downloads, Mine(e)', (download'[e].stage \in {"copy", "chmod"})
          PROVE  /\ download'[e].stage = "copy" => file'.contents = "writing"
                 /\ download'[e].stage = "chmod" => file'.contents = "copied"
      <4>1. CASE e = d
        BY <1>t, <1>w, <2>1, <2>3, <3>0, <4>1 DEF OnlyMoves, Idle, Mine
      <4>2. CASE e # d
        <5>1. download'[e] = download[e] /\ Mine(e)
          BY <2>1, <2>3, <3>0, <4>2 DEF OnlyMoves, Mine
        <5>2. ~Mine(d)
          BY <1>w, <2>2, <3>0, <4>2, <5>1 DEF OwnVersions, Mine
        <5> QED BY <1>w, <2>3, <5>1, <5>2 DEF CreatorKnows
      <4> QED BY <4>1, <4>2
    <3> QED BY <3>0 DEF CreatorKnows, Mine
  <2>7. Writers'
    <3>1. (file'.contents = "writing") => \/ file' = NoFile
                                          \/ \E e \in Downloads : download'[e].stage = "copy" /\ Mine(e)'
      <4>1. SUFFICES ASSUME file'.contents = "writing", file' # NoFile
                     PROVE  \E e \in Downloads : download'[e].stage = "copy" /\ Mine(e)'
        OBVIOUS
      <4>2. ~Mine(d) /\ UNCHANGED file
        BY <2>1, <2>3, <4>1
      <4>3. PICK e \in Downloads : download[e].stage = "copy" /\ Mine(e)
        BY <1>w, <4>1, <4>2 DEF Writers
      <4>4. e # d
        BY <4>2, <4>3
      <4>5. download'[e].stage = "copy" /\ Mine(e)'
        BY <2>1, <4>2, <4>3, <4>4 DEF OnlyMoves, Mine
      <4> QED BY <4>5
    <3>2. ~file'.shared => \A e \in Downloads : download'[e].stage \in {"copy", "chmod"} => Mine(e)'
      BY <1>w, <2>1, <2>2, <2>3 DEF Writers, OnlyMoves, Idle, Mine
    <3>3. (file'.version = 0) => file' = NoFile
      <4>1. download[d].version # 0
        BY <1>t, <1>w, <2>2 DEF OwnVersions
      <4> QED BY <1>w, <2>3, <4>1 DEF Writers, Mine
    <3> QED BY <3>1, <3>2, <3>3 DEF Writers
  <2>8. ExecutableIsCopied'
    BY <1>w, <2>2, <2>3 DEF ExecutableIsCopied, CreatorKnows
  <2> QED BY <1>r, <2>2, <2>4, <2>5, <2>6, <2>7, <2>8 DEF PluginInv, WholeInv
<1>4. CASE Chmod(d)
  <2>1. CASE Ends(d) /\ UNCHANGED file
    BY <1>4, <1>e, <1>t, <2>1, DownloadFacts DEF Chmod
  <2>2. CASE GoesTo(d, "close") /\ file' = [file EXCEPT !.executable = TRUE]
    <3>1. UNCHANGED <<call, version>> /\ download[d].stage = "chmod"
      BY <1>4 DEF Chmod
    <3>2. OnlyMoves(d, [stage |-> "close", version |-> download[d].version])
      BY <1>t, <2>2, DownloadFacts DEF DownloadStages
    <3>3. /\ file' \in Files /\ file'.version = file.version /\ file'.contents = file.contents
          /\ file'.shared = file.shared /\ file'.replaces = file.replaces
      BY <1>t, <2>2 DEF Files
    <3>4. TypeInv'
      BY <1>t, <3>1, <3>2, <3>3 DEF TypeInv, OnlyMoves
    <3>5. OwnVersions'
      BY <1>t, <1>w, <3>1, <3>2, <3>3 DEF OwnVersions, OnlyMoves
    <3>6. CreatorKnows'
      BY <1>w, <3>1, <3>2, <3>3 DEF CreatorKnows, OnlyMoves, Mine
    <3>7. file.version # 0 /\ file # NoFile
      <4>1. file = NoFile => ~file.shared
        BY DEF NoFile, NewFile
      <4>2. file = NoFile => Mine(d)
        BY <1>w, <3>1, <4>1 DEF Writers
      <4>3. file.version = 0 => ~Mine(d)
        BY <1>t, <1>w, <3>1 DEF OwnVersions, Mine
      <4>4. file = NoFile <=> file.version = 0
        BY <1>w, FileFacts DEF Writers
      <4> QED BY <4>2, <4>3, <4>4
    <3>8. Writers'
      BY <1>w, <3>1, <3>2, <3>3, <3>7 DEF Writers, OnlyMoves, Mine
    <3>9. ExecutableIsCopied'
      BY <1>w, <3>1, <3>3 DEF ExecutableIsCopied, Writers, CreatorKnows
    <3> QED BY <1>r, <3>1, <3>4, <3>5, <3>6, <3>8, <3>9 DEF PluginInv, WholeInv
  <2> QED BY <1>4, <2>1, <2>2 DEF Chmod
<1>5. CASE Close(d)
  BY <1>5, <1>e, <1>t, DownloadFacts DEF Close
<1> QED BY <1>1, <1>2, <1>3, <1>4, <1>5 DEF DownloadStep

(* The invariant of the plugin host. *)
THEOREM PluginInvariant == Spec => []PluginInv
<1>1. Init => PluginInv
  <2> SUFFICES ASSUME Init PROVE PluginInv
    OBVIOUS
  <2>1. Idle \in DownloadRecords /\ Idle.stage = "none"
    BY DEF Idle, DownloadRecords, DownloadStages
  <2>2. TypeInv
    BY <2>1, FileFacts, CallRecordFacts DEF Init, TypeInv
  <2>3. \A d \in Downloads : download[d].stage = "none"
    BY <2>1 DEF Init
  <2>4. OwnVersions
    BY <2>3, FileFacts DEF Init, OwnVersions, At
  <2>5. CreatorKnows /\ Writers /\ ExecutableIsCopied
    BY <2>3, FileFacts DEF Init, CreatorKnows, Writers, ExecutableIsCopied, At
  <2>6. RunsWholePlugin
    BY CallRecordFacts DEF Init, RunsWholePlugin
  <2> QED BY <2>2, <2>4, <2>5, <2>6 DEF PluginInv, WholeInv
<1>2. PluginInv /\ [Next]_vars => PluginInv'
  <2> SUFFICES ASSUME PluginInv, [Next]_vars PROVE PluginInv'
    OBVIOUS
  <2>1. CASE UNCHANGED vars
    BY <2>1 DEF vars, PluginInv, TypeInv, WholeInv, OwnVersions, CreatorKnows, Writers,
                ExecutableIsCopied, RunsWholePlugin, At, Mine
  <2> QED BY <2>1, CallStepKeeps, DownloadStepKeeps DEF Next
<1> QED BY <1>1, <1>2, PTL DEF Spec

(* However many downloads and calls interleave, a call runs what was downloaded to
   the end, unless a replacement of an executable broke off or another download
   was writing to the same path. *)
THEOREM OnlyWholePluginsRun == Spec => []RunsWholePlugin
<1>1. PluginInv => RunsWholePlugin
  BY DEF PluginInv
<1> QED BY <1>1, PluginInvariant, PTL
-----------------------------------------------------------------------------
(***************************************************************************)
(* The providers.  ForHost: what a provider returned is nothing, was       *)
(* stored for that host, or is a token of the region that its name gives.  *)
(***************************************************************************)
ForHost(got, host) ==
  \/ ~got.ok
  \/ got.cred.kind = "none"
  \/ got.cred.kind = "stored" /\ got.cred.owner = host
  \/ got.cred.kind = "ecr" /\ Len(host) >= 6 /\ got.cred.owner = <<host[4]>>

(* A refusal shows nobody anything. *)
LEMMA DeniedForHost ==
  \A host : ForHost(Denied, host) /\ ForHost(Provided(NoCredential), host)
BY DEF ForHost, Denied, Provided, NoCredential, Credential

(* What was stored for the host is for the host. *)
LEMMA StoredForHost ==
  \A host : ForHost(Provided(Credential("stored", host)), host)
BY DEF ForHost, Provided, Credential

(* Some numbers, if there are any, have a least one. *)
LEMMA LeastExists ==
  ASSUME NEW S \in SUBSET Nat, S # {}
  PROVE  \E x \in S : \A y \in S : x <= y
<1>1. IsWellFoundedOn(OpToRel(<, Nat), Nat)
  BY NatLessThanWellFounded
<1>2. \E x \in S : \A y \in S : ~(<<y, x>> \in OpToRel(<, Nat))
  BY <1>1, WFMin
<1>3. ASSUME NEW x \in Nat, NEW y \in Nat, y < x PROVE <<y, x>> \in OpToRel(<, Nat)
  BY <1>3 DEF OpToRel
<1>4. PICK x \in S : \A y \in S : ~(<<y, x>> \in OpToRel(<, Nat))
  BY <1>2
<1>5. ASSUME NEW y \in S PROVE x <= y
  <2>1. x \in Nat /\ y \in Nat
    OBVIOUS
  <2>2. ~(y < x)
    BY <1>3, <1>4, <2>1
  <2> QED BY <2>1, <2>2
<1> QED BY <1>5

(* The first of some numbers is one of them. *)
LEMMA FirstIsMember ==
  ASSUME NEW S \in SUBSET Nat, S # {}
  PROVE  Min(S) \in S
BY LeastExists DEF Min

(* What docker's configuration holds for a host is shown to that host. *)
LEMMA DockerForHost ==
  ASSUME NEW conf, NEW world, NEW artifact,
         \A h \in DOMAIN world.docker.auths : world.docker.auths[h] \in {h, Nobody}
  PROVE  ForHost(defaultProvide(conf, world, artifact), artifact.host)
<1>1. PICK auths, host : auths = world.docker.auths /\ host = artifact.host
  OBVIOUS
<1>2. \/ defaultProvide(conf, world, artifact) \in {Denied, Provided(NoCredential)}
      \/ /\ host \in DOMAIN auths /\ auths[host] # Nobody
         /\ defaultProvide(conf, world, artifact) = Provided(Credential("stored", auths[host]))
  BY <1>1 DEF defaultProvide
<1>3. host \in DOMAIN auths /\ auths[host] # Nobody => auths[host] = host
  BY <1>1
<1> QED BY <1>1, <1>2, <1>3, DeniedForHost, StoredForHost

(* A secret that decides, decides for the host (resolveCredentialFromSecret). *)
LEMMA SecretForHost ==
  ASSUME NEW secret, NEW types, NEW otherwise \in {GoOn, Denied}, NEW host,
         Stored(secret.auths), TrySecret(secret, types, otherwise, host) # GoOn
  PROVE  ForHost(TrySecret(secret, types, otherwise, host), host)
<1>1. host \in DOMAIN secret.auths => secret.auths[host] = host
  BY DEF Stored
<1>2. \/ TrySecret(secret, types, otherwise, host) = Denied
      \/ /\ host \in DOMAIN secret.auths
         /\ TrySecret(secret, types, otherwise, host) =
              Provided(Credential("stored", secret.auths[host]))
  BY DEF TrySecret, resolveCredentialFromSecret
<1> QED BY <1>1, <1>2, DeniedForHost, StoredForHost

(* Whichever secret of a list decides, it decides for the host. *)
LEMMA FirstForHost ==
  ASSUME NEW world, NEW names \in Seq(DOMAIN world.secrets), NEW types,
         NEW otherwise \in {GoOn, Denied}, NEW host,
         \A n \in DOMAIN world.secrets : Stored(world.secrets[n].auths),
         FirstDecided(names, world, types, otherwise, host) # GoOn
  PROVE  ForHost(FirstDecided(names, world, types, otherwise, host), host)
<1> DEFINE Tried(i) == TrySecret(world.secrets[names[i]], types, otherwise, host)
           decided == {i \in DOMAIN names : Tried(i) # GoOn}
<1>1. FirstDecided(names, world, types, otherwise, host) =
        IF decided = {} THEN GoOn ELSE Tried(Min(decided))
  BY DEF FirstDecided
<1>2. decided # {}
  BY <1>1
<1>3. decided \in SUBSET Nat
  OBVIOUS
<1>4. Min(decided) \in decided
  BY <1>2, <1>3, FirstIsMember
<1>5. PICK i \in DOMAIN names : i = Min(decided) /\ Tried(i) # GoOn
  BY <1>4
<1>6. Stored(world.secrets[names[i]].auths)
  OBVIOUS
<1>7. ForHost(Tried(i), host)
  BY <1>5, <1>6, SecretForHost
<1> QED BY <1>1, <1>2, <1>5, <1>7

(* The secrets of the configuration and of the account (k8sProvide). *)
LEMMA SecretsForHost ==
  ASSUME NEW conf, NEW world, NEW artifact, conf.secrets \in Seq(DOMAIN world.secrets),
         world.account.pull \in Seq(DOMAIN world.secrets),
         \A n \in DOMAIN world.secrets : Stored(world.secrets[n].auths)
  PROVE  ForHost(k8sProvide(conf, world, artifact), artifact.host)
<1> DEFINE configured == FromConfigured(conf, world, artifact.host)
           account == FromAccount(world, artifact.host)
<1>1. configured # GoOn => ForHost(configured, artifact.host)
  BY FirstForHost DEF FromConfigured
<1>2. account # GoOn => ForHost(account, artifact.host)
  BY FirstForHost, DeniedForHost DEF FromAccount
<1>3. \/ k8sProvide(conf, world, artifact) = Denied
      \/ configured # GoOn /\ k8sProvide(conf, world, artifact) = configured
      \/ account # GoOn /\ k8sProvide(conf, world, artifact) = account
  BY DEF k8sProvide
<1> HIDE DEF configured, account
<1> QED BY <1>1, <1>2, <1>3, DeniedForHost

(* A token of the region that the name of the registry gives (awsProvide, from
   nothing): the region of the environment has no part in it. *)
LEMMA EcrForHost ==
  ASSUME NEW world, NEW artifact
  PROVE  ForHost(awsProvide(EmptyAuthData, world, artifact), artifact.host)
<1> DEFINE host == artifact.host
           first == getEcrAuthToken(EmptyAuthData, world, artifact, world.cloud[1])
           second == IF ~first.ok \/ ~NeedsRefresh(first.data[host]) THEN first
                     ELSE getEcrAuthToken(first.data, world, artifact, world.cloud[2])
<1>1. ASSUME NEW data, NEW granted, getEcrAuthToken(data, world, artifact, granted).ok
      PROVE  /\ getEcrAuthToken(data, world, artifact, granted).data[host].region = RegionFromRegistry(host)
             /\ RegionFromRegistry(host) # "none"
  <2>1. ~[ok |-> FALSE].ok
    OBVIOUS
  <2>2. /\ RegionFromRegistry(host) # "none"
        /\ getEcrAuthToken(data, world, artifact, granted) =
             [ok |-> TRUE, data |-> [h \in DOMAIN data \cup {host} |->
                                       IF h = host THEN EcrToken(RegionFromRegistry(host), granted)
                                       ELSE data[h]]]
    BY <1>1, <2>1 DEF getEcrAuthToken, Fetched
  <2>3. getEcrAuthToken(data, world, artifact, granted).data[host] =
          EcrToken(RegionFromRegistry(host), granted)
    BY <2>2
  <2> QED BY <2>2, <2>3 DEF EcrToken
<1>2. second.ok => /\ second.data[host].region = RegionFromRegistry(host)
                   /\ RegionFromRegistry(host) # "none"
  BY <1>1
<1>3. \/ awsProvide(EmptyAuthData, world, artifact) = Denied
      \/ /\ second.ok
         /\ awsProvide(EmptyAuthData, world, artifact) =
              Provided(Credential("ecr", <<second.data[host].region>>))
  BY DEF awsProvide, exists, EmptyAuthData
<1>4. RegionFromRegistry(host) # "none" => Len(host) >= 6 /\ RegionFromRegistry(host) = host[4]
  BY DEF RegionFromRegistry
<1>5. ASSUME NEW r, Len(host) >= 6, r = host[4]
      PROVE  ForHost(Provided(Credential("ecr", <<r>>)), host)
  BY <1>5 DEF ForHost, Provided, Credential
<1> HIDE DEF second
<1> QED BY <1>2, <1>3, <1>4, <1>5, DeniedForHost

(* What a provider for ACR shows a registry of that form is the token of the
   instance configured for its name, or of the default one (getAcrAuthToken). *)
ForInstance(got, source, world) ==
  ~got.ok \/ /\ source.artifact.acr /\ got.cred.kind = "acr"
             /\ got.cred.owner = <<IdFor(source.artifact.instance, source, world)>>

(* The instances that Create gathers lead to the same id. *)
LEMMA AcrForInstance ==
  ASSUME NEW source, NEW world, NEW conf, conf = SourceConf(source)
  PROVE  ForInstance(acrProvide(conf, world, source.artifact), source, world)
<1>1. PICK n, instances : n = source.artifact.instance /\ instances = acrInstancesConfig(conf, world)
  OBVIOUS
<1>2. PICK D, ids : D = DOMAIN conf.instances /\ ids = conf.instances
  OBVIOUS
<1>3. instances = [m \in D \cup {"defaultInstance"} |->
                     IF m = "defaultInstance" THEN acrDefault(conf, world) ELSE ids[m]]
  BY <1>1, <1>2 DEF acrInstancesConfig
<1>4. acrInstance(instances, source.artifact) = IdFor(n, source, world)
  <2>1. IdFor(n, source, world) = IF n \in D \ {"defaultInstance"} THEN ids[n] ELSE acrDefault(conf, world)
    BY <1>2 DEF IdFor
  <2>2. acrInstance(instances, source.artifact) =
          IF n \in DOMAIN instances THEN instances[n] ELSE instances["defaultInstance"]
    BY <1>1 DEF acrInstance
  <2> QED BY <1>3, <2>1, <2>2
<1>5. \/ acrProvide(conf, world, source.artifact) = Denied
      \/ /\ source.artifact.acr
         /\ acrProvide(conf, world, source.artifact) =
              Provided(Credential("acr", <<acrInstance(instances, source.artifact)>>))
  BY <1>1 DEF acrProvide, getAcrAuthToken, getRegionFromArtifact
<1>6. ForInstance(Denied, source, world)
  BY DEF ForInstance, Denied
<1>7. ASSUME NEW id, id = IdFor(n, source, world), source.artifact.acr
      PROVE  ForInstance(Provided(Credential("acr", <<id>>)), source, world)
  BY <1>1, <1>7 DEF ForInstance, Provided, Credential
<1> QED BY <1>4, <1>5, <1>6, <1>7

(* Whatever provider a source names, what it shows the registry is the registry's. *)
LEMMA SettingForHost ==
  ASSUME NEW source, NEW world, SoundCredentials(source, world)
  PROVE  \/ ForHost(CredentialFor(source, world), source.artifact.host)
         \/ ForInstance(CredentialFor(source, world), source, world)
<1>1. PICK conf : conf = SourceConf(source)
  OBVIOUS
<1>2. conf.name = "k8Secrets" => conf.secrets \in Seq(DOMAIN world.secrets)
  BY <1>1 DEF SoundCredentials, SourceConf, NoConf
<1>3. \/ CredentialFor(source, world) = Denied
      \/ conf.name \in BuiltIn /\ CredentialFor(source, world) = Provide(conf, world, source.artifact)
  BY <1>1 DEF CredentialFor, CreateAuthProviderFromConfig
<1>4. CASE conf.name = "dockerConfig"
  <2>1. Provide(conf, world, source.artifact) = defaultProvide(conf, world, source.artifact)
    BY <1>4 DEF Provide
  <2>2. ForHost(defaultProvide(conf, world, source.artifact), source.artifact.host)
    BY DockerForHost DEF SoundCredentials
  <2> QED BY <1>3, <2>1, <2>2, DeniedForHost
<1>5. CASE conf.name = "k8Secrets"
  <2>1. Provide(conf, world, source.artifact) = k8sProvide(conf, world, source.artifact)
    BY <1>5 DEF Provide
  <2>2. ForHost(k8sProvide(conf, world, source.artifact), source.artifact.host)
    BY <1>2, <1>5, SecretsForHost DEF SoundCredentials
  <2> QED BY <1>3, <2>1, <2>2, DeniedForHost
<1>6. CASE conf.name = "awsEcrBasic"
  <2>1. Provide(conf, world, source.artifact) = awsProvide(EmptyAuthData, world, source.artifact)
    BY <1>6 DEF Provide
  <2> QED BY <1>3, <2>1, EcrForHost, DeniedForHost
<1>7. CASE conf.name = "alibabacloudAcrBasic"
  <2>1. Provide(conf, world, source.artifact) = acrProvide(conf, world, source.artifact)
    BY <1>7 DEF Provide
  <2> QED BY <1>1, <1>3, <2>1, AcrForInstance, DeniedForHost
<1> QED BY <1>3, <1>4, <1>5, <1>6, <1>7, DeniedForHost DEF BuiltIn

-----------------------------------------------------------------------------
(***************************************************************************)
(* What plugins make of their inputs (PluginInputs), for any inputs.       *)
(***************************************************************************)

(* What a list is made of; one that is not empty has a first element. *)
LEMMA ListFacts ==
  ASSUME NEW seq, IsList(seq)
  PROVE  /\ Len(seq) \in Nat /\ DOMAIN seq = 1..Len(seq)
         /\ seq # <<>> => 1 \in DOMAIN seq /\ seq[1] \in Elements(seq)
<1>1. seq \in Seq(Elements(seq))
  BY DEF IsList
<1>2. Len(seq) \in Nat /\ DOMAIN seq = 1..Len(seq)
  BY <1>1
<1>3. seq # <<>> => Len(seq) # 0
  BY <1>1
<1> QED BY <1>2, <1>3 DEF Elements

(* Numbers up to a bound, if there are any, have a greatest one. *)
LEMMA GreatestExists ==
  ASSUME NEW n \in Nat, NEW S \in SUBSET (1..n), S # {}
  PROVE  \E x \in S : \A y \in S : y <= x
<1> DEFINE D == {n - i : i \in S}
<1>1. D \in SUBSET Nat /\ D # {}
  <2>1. \A i \in S : i \in 1..n /\ n - i \in Nat
    OBVIOUS
  <2> QED BY <2>1
<1>2. PICK d \in D : \A e \in D : d <= e
  <2> HIDE DEF D
  <2> QED BY <1>1, LeastExists
<1>3. PICK x \in S : d = n - x
  OBVIOUS
<1>4. ASSUME NEW y \in S PROVE y <= x
  <2>1. n - x <= n - y
    BY <1>2, <1>3
  <2> QED BY <2>1
<1> QED BY <1>4

(* What holds at zero and is kept from each number to the next holds up to n. *)
LEMMA ByTurns ==
  ASSUME NEW n \in Nat, NEW P, 0 \in P, \A i \in 1..n : i - 1 \in P => i \in P
  PROVE  \A i \in 0..n : i \in P
<1> DEFINE S == {i \in 0..n : i \notin P}
<1> SUFFICES ASSUME S # {} PROVE FALSE
  OBVIOUS
<1>1. S \in SUBSET Nat
  OBVIOUS
<1>2. PICK x \in S : \A y \in S : x <= y
  <2> HIDE DEF S
  <2> QED BY <1>1, LeastExists
<1>3. x \in 1..n /\ x - 1 \in 0..n /\ ~(x <= x - 1)
  OBVIOUS
<1> QED BY <1>2, <1>3

-----------------------------------------------------------------------------
(***************************************************************************)
(* The trust stores.  AddTrustStore is one turn of the loop of             *)
(* initTrustStore; a run of the loop has a result for every number of      *)
(* turns, from the blank trust store on.                                   *)
(***************************************************************************)
Blank == [ok |-> TRUE, store |-> EmptyStore, types |-> {}]
IsTrustRun(f, opts, n) ==
  f = [i \in 0..n |-> IF i = 0 THEN Blank ELSE AddTrustStore(f[i - 1], opts[i])]

(* The loop has a run, and the trust store is the result of its last turn. *)
LEMMA TrustRunExists ==
  ASSUME NEW opts, IsList(opts), opts # <<>>
  PROVE  \E f : initTrustStore(opts) = f[Len(opts)] /\ IsTrustRun(f, opts, Len(opts))
<1> DEFINE P == {n \in 0..Len(opts) : \E f : IsTrustRun(f, opts, n)}
<1>1. Len(opts) \in Nat
  BY ListFacts
<1>2. 0 \in P
  <2>1. IsTrustRun([i \in 0..0 |-> Blank], opts, 0)
    BY DEF IsTrustRun
  <2> QED BY <1>1, <2>1
<1>3. ASSUME NEW n \in 1..Len(opts), n - 1 \in P PROVE n \in P
  <2>1. PICK f : IsTrustRun(f, opts, n - 1)
    BY <1>3
  <2> DEFINE g == [i \in 0..n |-> IF i = n THEN AddTrustStore(f[n - 1], opts[n]) ELSE f[i]]
  <2>2. n \in Nat /\ n # 0 /\ n - 1 \in 0..n /\ n - 1 # n
    BY <1>1
  <2>3. ASSUME NEW i \in 0..n
        PROVE  g[i] = IF i = 0 THEN Blank ELSE AddTrustStore(g[i - 1], opts[i])
    <3>1. CASE i = n
      BY <2>2, <3>1
    <3>2. CASE i # n /\ i # 0
      <4>1. i \in 0..(n - 1) /\ i - 1 \in 0..n /\ i - 1 # n
        BY <2>2, <3>2
      <4>2. f[i] = AddTrustStore(f[i - 1], opts[i])
        BY <2>1, <3>2, <4>1 DEF IsTrustRun
      <4> QED BY <3>2, <4>1, <4>2
    <3>3. CASE i = 0
      <4>1. 0 \in 0..(n - 1) /\ 0 # n
        BY <2>2
      <4>2. f[0] = Blank
        BY <2>1, <4>1 DEF IsTrustRun
      <4> QED BY <3>3, <4>1, <4>2
    <3> QED BY <3>1, <3>2, <3>3
  <2>4. IsTrustRun(g, opts, n)
    BY <2>3 DEF IsTrustRun
  <2>5. n \in 0..Len(opts)
    BY <1>1
  <2> HIDE DEF g
  <2> QED BY <2>4, <2>5
<1>4. Len(opts) \in P
  <2> HIDE DEF P
  <2>1. \A i \in 0..Len(opts) : i \in P
    BY <1>1, <1>2, <1>3, ByTurns
  <2> QED BY <1>1, <2>1
<1>5. PICK h : IsTrustRun(h, opts, Len(opts))
  BY <1>4
<1> QED BY <1>5 DEF initTrustStore, IsTrustRun, Blank

(* What all the providers of a trust store option hold. *)
CertsOf(opt) == UNION {CreateKeyProvider(p).certs : p \in opt.providers}
TypeOf(opt) == getTrustStoreType(opt.type)

(* The result of n turns that did not fail: every option so far has a legal type
   of its own and providers that were built, and each type has the certificates
   of the options of this type. *)
Gathers(a, opts, n) ==
  a.ok =>
    /\ \A i \in 1..n : TypeOf(opts[i]) \in TrustStoreTypes
                       /\ \A p \in opts[i].providers : CreateKeyProvider(p).ok
    /\ \A i, j \in 1..n : TypeOf(opts[i]) = TypeOf(opts[j]) => i = j
    /\ a.types = {TypeOf(opts[i]) : i \in 1..n}
    /\ \A t : GetCertificates(a.store, t) =
                UNION {CertsOf(opts[i]) : i \in {j \in 1..n : TypeOf(opts[j]) = t}}

(* Adding a key provider's certificates to a type changes this type only. *)
LEMMA AddedCertificates ==
  ASSUME NEW store, NEW type, NEW certs, NEW t
  PROVE  GetCertificates(addKeyProvider(store, type, certs), t) =
           IF t = type THEN GetCertificates(store, t) \cup certs ELSE GetCertificates(store, t)
BY DEF GetCertificates, addKeyProvider

(* A turn that does not fail is the turn of an option that is legal and new. *)
LEMMA TrustTurn ==
  ASSUME NEW a, NEW opt, AddTrustStore(a, opt).ok
  PROVE  /\ a.ok
         /\ TypeOf(opt) \in TrustStoreTypes /\ TypeOf(opt) \notin a.types
         /\ \A p \in opt.providers : CreateKeyProvider(p).ok
         /\ AddTrustStore(a, opt).types = a.types \cup {TypeOf(opt)}
         /\ \A t : GetCertificates(AddTrustStore(a, opt).store, t) =
                     IF t = TypeOf(opt) THEN GetCertificates(a.store, t) \cup CertsOf(opt)
                     ELSE GetCertificates(a.store, t)
<1> DEFINE fails == \/ ~a.ok \/ TypeOf(opt) \notin TrustStoreTypes \/ TypeOf(opt) \in a.types
                    \/ \E p \in opt.providers : ~CreateKeyProvider(p).ok
<1> DEFINE store == IF opt.providers = {} THEN a.store
                    ELSE addKeyProvider(a.store, TypeOf(opt), CertsOf(opt))
<1> DEFINE new == [ok |-> TRUE, types |-> a.types \cup {TypeOf(opt)}, store |-> store]
<1>1. AddTrustStore(a, opt) = IF fails THEN NoTrust ELSE new
  BY DEF AddTrustStore, TypeOf, CertsOf
<1>2. ~NoTrust.ok
  BY DEF NoTrust
<1>3. ~fails /\ AddTrustStore(a, opt) = new
  <2> HIDE DEF fails, new
  <2> QED BY <1>1, <1>2
<1>4. ASSUME NEW t
      PROVE  GetCertificates(store, t) =
                IF t = TypeOf(opt) THEN GetCertificates(a.store, t) \cup CertsOf(opt)
                ELSE GetCertificates(a.store, t)
  <2>1. CASE opt.providers = {}
    <3>1. CertsOf(opt) = {}
      BY <2>1 DEF CertsOf
    <3> QED BY <2>1, <3>1
  <2>2. CASE opt.providers # {}
    <3>1. store = addKeyProvider(a.store, TypeOf(opt), CertsOf(opt))
      BY <2>2
    <3> HIDE DEF store
    <3> QED BY <3>1, AddedCertificates
  <2> QED BY <2>1, <2>2
<1>5. new.store = store /\ new.types = a.types \cup {TypeOf(opt)}
  OBVIOUS
<1> HIDE DEF store, new
<1> QED BY <1>3, <1>4, <1>5

(* Every turn keeps what is gathered. *)
LEMMA TrustTurnKeeps ==
  ASSUME NEW opts, NEW n \in Nat, n # 0, NEW a, Gathers(a, opts, n - 1)
  PROVE  Gathers(AddTrustStore(a, opts[n]), opts, n)
<1> DEFINE b == AddTrustStore(a, opts[n])
<1> SUFFICES ASSUME b.ok PROVE Gathers(b, opts, n)
  BY DEF Gathers
<1>1. /\ a.ok
      /\ TypeOf(opts[n]) \in TrustStoreTypes /\ TypeOf(opts[n]) \notin a.types
      /\ \A p \in opts[n].providers : CreateKeyProvider(p).ok
      /\ b.types = a.types \cup {TypeOf(opts[n])}
      /\ \A t : GetCertificates(b.store, t) =
                  IF t = TypeOf(opts[n]) THEN GetCertificates(a.store, t) \cup CertsOf(opts[n])
                  ELSE GetCertificates(a.store, t)
  BY TrustTurn
<1> HIDE DEF b
<1>2. /\ \A i \in 1..(n - 1) : TypeOf(opts[i]) \in TrustStoreTypes
                       /\ \A p \in opts[i].providers : CreateKeyProvider(p).ok
      /\ \A i, j \in 1..(n - 1) : TypeOf(opts[i]) = TypeOf(opts[j]) => i = j
      /\ a.types = {TypeOf(opts[i]) : i \in 1..(n - 1)}
      /\ \A t : GetCertificates(a.store, t) =
                  UNION {CertsOf(opts[i]) : i \in {j \in 1..(n - 1) : TypeOf(opts[j]) = t}}
  BY <1>1 DEF Gathers
<1>3. 1..n = 1..(n - 1) \cup {n} /\ n \notin 1..(n - 1)
  OBVIOUS
<1>4. \A i \in 1..n : TypeOf(opts[i]) \in TrustStoreTypes
                      /\ \A p \in opts[i].providers : CreateKeyProvider(p).ok
  BY <1>1, <1>2, <1>3
<1>5. \A i, j \in 1..n : TypeOf(opts[i]) = TypeOf(opts[j]) => i = j
  BY <1>1, <1>2, <1>3
<1>6. b.types = {TypeOf(opts[i]) : i \in 1..n}
  BY <1>1, <1>2, <1>3
<1>7. ASSUME NEW t
      PROVE  GetCertificates(b.store, t) =
               UNION {CertsOf(opts[i]) : i \in {j \in 1..n : TypeOf(opts[j]) = t}}
  <2>1. CASE t = TypeOf(opts[n])
    <3>1. {j \in 1..n : TypeOf(opts[j]) = t} = {j \in 1..(n - 1) : TypeOf(opts[j]) = t} \cup {n}
      BY <1>3, <2>1
    <3>2. UNION {CertsOf(opts[i]) : i \in {j \in 1..n : TypeOf(opts[j]) = t}} =
            (UNION {CertsOf(opts[i]) : i \in {j \in 1..(n - 1) : TypeOf(opts[j]) = t}}) \cup CertsOf(opts[n])
      BY <3>1
    <3>3. GetCertificates(b.store, t) = GetCertificates(a.store, t) \cup CertsOf(opts[n])
      BY <1>1, <2>1
    <3> QED BY <1>2, <3>2, <3>3
  <2>2. CASE t # TypeOf(opts[n])
    <3>1. {j \in 1..n : TypeOf(opts[j]) = t} = {j \in 1..(n - 1) : TypeOf(opts[j]) = t}
      BY <1>3, <2>2
    <3> QED BY <1>1, <1>2, <2>2, <3>1
  <2> QED BY <2>1, <2>2
<1> QED BY <1>4, <1>5, <1>6, <1>7 DEF Gathers

(* What initTrustStore returns, for any list of options. *)
LEMMA TrustStoreGathers ==
  ASSUME NEW opts, IsList(opts), initTrustStore(opts).ok
  PROVE  opts # <<>> /\ Gathers(initTrustStore(opts), opts, Len(opts))
<1>1. opts # <<>>
  BY DEF initTrustStore, NoTrust
<1>2. Len(opts) \in Nat
  BY ListFacts
<1>3. PICK f : initTrustStore(opts) = f[Len(opts)] /\ IsTrustRun(f, opts, Len(opts))
  BY <1>1, TrustRunExists
<1> DEFINE P == {i \in 0..Len(opts) : Gathers(f[i], opts, i)}
<1>4. 0 \in P
  <2>1. f[0] = Blank
    BY <1>2, <1>3 DEF IsTrustRun
  <2>2. Gathers(Blank, opts, 0)
    BY DEF Gathers, Blank, GetCertificates, EmptyStore
  <2> QED BY <1>2, <2>1, <2>2
<1>5. ASSUME NEW i \in 1..Len(opts), i - 1 \in P PROVE i \in P
  <2>1. i \in Nat /\ i # 0 /\ i \in 0..Len(opts)
    BY <1>2
  <2>2. Gathers(f[i - 1], opts, i - 1)
    BY <1>5
  <2>3. f[i] = AddTrustStore(f[i - 1], opts[i])
    BY <1>3, <2>1 DEF IsTrustRun
  <2> QED BY <2>1, <2>2, <2>3, TrustTurnKeeps
<1>6. Len(opts) \in P
  <2> HIDE DEF P
  <2>1. \A i \in 0..Len(opts) : i \in P
    BY <1>2, <1>4, <1>5, ByTurns
  <2> QED BY <1>2, <2>1
<1> QED BY <1>1, <1>3, <1>6

-----------------------------------------------------------------------------
(* What the trust store of a provider that was built holds, for every kind. *)
Faithful(p) ==
  CreateKeyProvider(p).ok =>
    /\ CreateKeyProvider(p).certs = Says(p)
    /\ Readable(p)
    /\ p.name = "azurekeyvault" => AzureGetCertificates(CreateKeyProvider(p).certs).ok
    /\ p.name = "inline" => DecodeCertificates(p.options.pem) = CreateKeyProvider(p)

(* A provider says what its PEM data and its files say. *)
LEMMA SaysOf ==
  ASSUME NEW p
  PROVE  Says(p) = (UNION {CertificatesOf(pem) : pem \in PemsOf(p)})
                   \cup (UNION {UNION {f.certs : f \in FilesIn(path)} : path \in PathsOf(p)})
BY DEF Says, CertificatesOf

(* The results of a failure and of a success. *)
LEMMA CertsFacts ==
  /\ ~NoCerts.ok /\ NoCerts.certs = {}
  /\ \A c : Certs(c).ok /\ Certs(c).certs = c
BY DEF NoCerts, Certs

(* An inline provider that was built holds all of its PEM data. *)
LEMMA InlineFaithful ==
  ASSUME NEW p, p.name = "inline"
  PROVE  Faithful(p)
<1> SUFFICES ASSUME CreateKeyProvider(p).ok PROVE Faithful(p)
  BY DEF Faithful
<1> DEFINE pem == p.options.pem
<1>1. CreateKeyProvider(p) = InlineProvider(p.options)
  BY DEF CreateKeyProvider
<1>2. /\ CreateKeyProvider(p) = parseCertificatesFromPEM(pem)
      /\ CreateKeyProvider(p) = Certs(CertificatesOf(pem))
      /\ ~HasBad(pem)
  BY <1>1, CertsFacts DEF InlineProvider, parseCertificatesFromPEM
<1>3. PemsOf(p) = {pem} /\ PathsOf(p) = {}
  BY DEF PemsOf, PathsOf
<1>4. Says(p) = CertificatesOf(pem)
  BY <1>3, SaysOf
<1>5. Readable(p)
  BY <1>2, <1>3 DEF Readable, HasBad
<1>6. DecodeCertificates(pem) = CreateKeyProvider(p)
  BY <1>2 DEF DecodeCertificates, parseCertificatesFromPEM
<1> QED BY <1>2, <1>4, <1>5, <1>6, CertsFacts DEF Faithful

(* A secret that was fetched holds all of its PEM data. *)
LEMMA SecretFaithful ==
  ASSUME NEW secret, fetchCertificateChain(secret).ok
  PROVE  fetchCertificateChain(secret).certs = CertificatesOf(secret.pem) /\ ~HasBad(secret.pem)
<1>1. parseCertificateInPem(secret.pem).ok =>
        parseCertificateInPem(secret.pem).certs = CertificatesOf(secret.pem) /\ ~HasBad(secret.pem)
  BY CertsFacts DEF parseCertificateInPem
<1>2. parseCertificateInPKCS12(secret).ok =>
        parseCertificateInPKCS12(secret).certs = CertificatesOf(secret.pem) /\ ~HasBad(secret.pem)
  BY <1>1, CertsFacts DEF parseCertificateInPKCS12
<1>3. extractCertificateFromResponse(secret).ok =>
        extractCertificateFromResponse(secret).certs = CertificatesOf(secret.pem) /\ ~HasBad(secret.pem)
  BY <1>1, <1>2, CertsFacts DEF extractCertificateFromResponse
<1> QED BY <1>3, CertsFacts DEF fetchCertificateChain, fetchChainFromSecrets

(* A provider of several parts that was built has them all. *)
LEMMA GatheredFacts ==
  ASSUME NEW results, Gathered(results).ok
  PROVE  /\ \A i \in DOMAIN results : results[i].ok
         /\ Gathered(results).certs = UNION {results[i].certs : i \in DOMAIN results}
BY CertsFacts DEF Gathered

(* An Azure Key Vault provider that was built holds all of every secret. *)
LEMMA AzureFaithful ==
  ASSUME NEW p, p.name = "azurekeyvault"
  PROVE  Faithful(p)
<1> SUFFICES ASSUME CreateKeyProvider(p).ok PROVE Faithful(p)
  BY DEF Faithful
<1> DEFINE secrets == p.options.certificates
<1> DEFINE fetched == [i \in DOMAIN secrets |-> fetchCertificateChain(secrets[i])]
<1>1. CreateKeyProvider(p) = AzureKeyVaultProvider(p.options)
  BY DEF CreateKeyProvider
<1>2. CreateKeyProvider(p) = fetchAllCertificates(secrets)
  BY <1>1, CertsFacts DEF AzureKeyVaultProvider
<1>3. CreateKeyProvider(p) = Gathered(fetched) /\ Gathered(fetched).certs # {}
  BY <1>2, CertsFacts DEF fetchAllCertificates
<1>4. /\ \A i \in DOMAIN fetched : fetched[i].ok
      /\ Gathered(fetched).certs = UNION {fetched[i].certs : i \in DOMAIN fetched}
  <2> HIDE DEF fetched
  <2> QED BY <1>3, GatheredFacts
<1>5. ASSUME NEW i \in DOMAIN secrets
      PROVE  fetched[i].certs = CertificatesOf(secrets[i].pem) /\ ~HasBad(secrets[i].pem)
  <2>1. fetchCertificateChain(secrets[i]).ok
    BY <1>4
  <2> QED BY <2>1, SecretFaithful
<1>6. PemsOf(p) = {secrets[i].pem : i \in DOMAIN secrets} /\ PathsOf(p) = {}
  BY DEF PemsOf, PathsOf
<1>7. Says(p) = UNION {CertificatesOf(pem) : pem \in PemsOf(p)}
  BY <1>6, SaysOf
<1>8. Gathered(fetched).certs = UNION {CertificatesOf(pem) : pem \in PemsOf(p)}
  <2>1. UNION {fetched[i].certs : i \in DOMAIN fetched} =
          UNION {CertificatesOf(secrets[i].pem) : i \in DOMAIN secrets}
    <3>1. DOMAIN fetched = DOMAIN secrets
      OBVIOUS
    <3> HIDE DEF fetched
    <3> QED BY <1>5, <3>1
  <2>2. UNION {CertificatesOf(secrets[i].pem) : i \in DOMAIN secrets} =
          UNION {CertificatesOf(pem) : pem \in PemsOf(p)}
    BY <1>6
  <2> QED BY <1>4, <2>1, <2>2
<1>9. Readable(p)
  BY <1>5, <1>6 DEF Readable, HasBad
<1>10. AzureGetCertificates(CreateKeyProvider(p).certs).ok
  BY <1>3, CertsFacts DEF AzureGetCertificates
<1> QED BY <1>3, <1>7, <1>8, <1>9, <1>10 DEF Faithful

(* A walk that ends well has read every file on its path, though each only once. *)
LEMMA PathFaithful ==
  ASSUME NEW path, IsList(path), loadCertificatesFromPath(path).ok,
         \A i, j \in Visited(path) : path[i].file = path[j].file =>
           path[i].reads = path[j].reads /\ path[i].certs = path[j].certs
  PROVE  /\ loadCertificatesFromPath(path).certs = UNION {f.certs : f \in FilesIn(path)}
         /\ \A f \in FilesIn(path) : f.reads
<1> DEFINE firsts == {i \in Visited(path) : \A j \in Visited(path) : path[j].file = path[i].file => i <= j}
<1>1. FilesIn(path) = {path[i] : i \in Visited(path)}
  BY DEF FilesIn, Visited, Physical, isSymbolicLink
<1>2. /\ \A i \in firsts : ReadCertificateFile(path[i]).ok
      /\ loadCertificatesFromPath(path).certs = UNION {ReadCertificateFile(path[i]).certs : i \in firsts}
  BY CertsFacts DEF loadCertificatesFromPath
<1>3. ASSUME NEW i \in firsts
      PROVE  path[i].reads /\ ReadCertificateFile(path[i]).certs = path[i].certs
  BY <1>2, CertsFacts DEF ReadCertificateFile
<1>4. ASSUME NEW i \in Visited(path)
      PROVE  \E k \in firsts : path[k].file = path[i].file
  <2> DEFINE same == {j \in Visited(path) : path[j].file = path[i].file}
  <2>1. same \in SUBSET Nat /\ same # {}
    BY ListFacts DEF Visited
  <2>2. PICK k \in same : \A j \in same : k <= j
    <3> HIDE DEF same
    <3> QED BY <2>1, LeastExists
  <2> QED BY <2>2
<1>5. ASSUME NEW i \in Visited(path)
      PROVE  path[i].reads /\ \E k \in firsts : ReadCertificateFile(path[k]).certs = path[i].certs
  <2>1. PICK k \in firsts : path[k].file = path[i].file
    BY <1>4
  <2>2. k \in Visited(path)
    OBVIOUS
  <2>3. path[k].reads = path[i].reads /\ path[k].certs = path[i].certs
    BY <2>1, <2>2
  <2> QED BY <1>3, <2>3
<1>6. firsts \subseteq Visited(path)
  OBVIOUS
<1> HIDE DEF firsts
<1>7. UNION {ReadCertificateFile(path[i]).certs : i \in firsts} = UNION {path[i].certs : i \in Visited(path)}
  BY <1>3, <1>5, <1>6
<1>8. UNION {path[i].certs : i \in Visited(path)} = UNION {f.certs : f \in FilesIn(path)}
  BY <1>1
<1> QED BY <1>1, <1>2, <1>5, <1>7, <1>8

(* A provider of files that was built holds the certificates of every file. *)
LEMMA FilesFaithful ==
  ASSUME NEW p, p.name = "files", OneFileSystem(p)
  PROVE  Faithful(p)
<1> SUFFICES ASSUME CreateKeyProvider(p).ok PROVE Faithful(p)
  BY DEF Faithful
<1> DEFINE paths == p.options.paths
<1> DEFINE loaded == [i \in DOMAIN paths |-> loadCertificatesFromPath(paths[i])]
<1>1. CreateKeyProvider(p) = FileSystemProvider(p.options)
  BY DEF CreateKeyProvider
<1>2. CreateKeyProvider(p) = Gathered(loaded)
  BY <1>1, CertsFacts DEF FileSystemProvider
<1>3. /\ \A i \in DOMAIN loaded : loaded[i].ok
      /\ Gathered(loaded).certs = UNION {loaded[i].certs : i \in DOMAIN loaded}
  <2> HIDE DEF loaded
  <2> QED BY <1>2, GatheredFacts
<1>4. ASSUME NEW i \in DOMAIN paths
      PROVE  /\ loaded[i].certs = UNION {f.certs : f \in FilesIn(paths[i])}
             /\ \A f \in FilesIn(paths[i]) : f.reads
  <2>1. loadCertificatesFromPath(paths[i]).ok
    BY <1>3
  <2>2. /\ IsList(paths[i])
        /\ \A k, j \in Visited(paths[i]) : paths[i][k].file = paths[i][j].file =>
             paths[i][k].reads = paths[i][j].reads /\ paths[i][k].certs = paths[i][j].certs
    BY DEF OneFileSystem
  <2> QED BY <2>1, <2>2, PathFaithful
<1>5. PemsOf(p) = {} /\ PathsOf(p) = {paths[i] : i \in DOMAIN paths}
  BY DEF PemsOf, PathsOf, Elements
<1>6. Says(p) = UNION {UNION {f.certs : f \in FilesIn(path)} : path \in PathsOf(p)}
  BY <1>5, SaysOf
<1>7. Gathered(loaded).certs = Says(p)
  <2>1. UNION {loaded[i].certs : i \in DOMAIN loaded} =
          UNION {UNION {f.certs : f \in FilesIn(paths[i])} : i \in DOMAIN paths}
    <3>1. DOMAIN loaded = DOMAIN paths
      OBVIOUS
    <3> HIDE DEF loaded
    <3> QED BY <1>4, <3>1
  <2>2. UNION {UNION {f.certs : f \in FilesIn(paths[i])} : i \in DOMAIN paths} =
          UNION {UNION {f.certs : f \in FilesIn(path)} : path \in PathsOf(p)}
    BY <1>5
  <2> QED BY <1>3, <1>6, <2>1, <2>2
<1>8. Readable(p)
  BY <1>4, <1>5 DEF Readable
<1> QED BY <1>2, <1>7, <1>8 DEF Faithful

(* Every provider that is built holds what its source says, and all of it. *)
LEMMA ProviderFaithful ==
  ASSUME NEW p, OneFileSystem(p)
  PROVE  Faithful(p)
<1>1. CASE p.name = "inline"
  BY <1>1, InlineFaithful
<1>2. CASE p.name = "azurekeyvault"
  BY <1>2, AzureFaithful
<1>3. CASE p.name = "files"
  BY <1>3, FilesFaithful
<1>4. CASE p.name \notin {"inline", "azurekeyvault", "files"}
  BY <1>4, CertsFacts DEF Faithful, CreateKeyProvider
<1> QED BY <1>1, <1>2, <1>3, <1>4

(* A Notation verifier that is built trusts what was configured, and no more. *)
LEMMA TrustIsFaithful ==
  ASSUME suite = "trust", input \in Inputs["trust"], NEW r, r = newNotationVerifier(input), r.ok,
         NEW type \in TrustStoreTypes
  PROVE  /\ GetCertificates(r.store, type) = UNION {Says(p) : p \in ProvidersOf(type)}
         /\ \A p \in ProvidersOf(type) : CreateKeyProvider(p).ok /\ Faithful(p)
         /\ \A i, j \in PlacesOf(type) : i = j
         /\ type \in r.policy.stores <=> PlacesOf(type) # {}
<1> DEFINE opts == input.certificates
<1>1. /\ IsList(opts)
      /\ \A n \in DOMAIN opts : \A p \in opts[n].providers : OneFileSystem(p)
  BY InputsAssumption
<1>2. PICK trust : trust = initTrustStore(opts)
  OBVIOUS
<1>3. trust.ok /\ r.store = trust.store /\ r.policy.stores = trust.types
  BY <1>2 DEF newNotationVerifier, initTrustPolicyDocument
<1>4. Gathers(trust, opts, Len(opts))
  BY <1>1, <1>2, <1>3, TrustStoreGathers
<1>5. DOMAIN opts = 1..Len(opts)
  BY <1>1, ListFacts
<1>6. \A i \in DOMAIN opts : TypeOf(opts[i]) = type <=> opts[i].type \in Named(type)
  BY DEF TypeOf, getTrustStoreType, Named, TrustStoreTypes
<1>7. PlacesOf(type) = {i \in 1..Len(opts) : TypeOf(opts[i]) = type}
  BY <1>5, <1>6 DEF PlacesOf
<1>8. \A i, j \in PlacesOf(type) : i = j
  BY <1>3, <1>4, <1>7 DEF Gathers
<1>9. type \in r.policy.stores <=> PlacesOf(type) # {}
  <2>1. trust.types = {TypeOf(opts[i]) : i \in 1..Len(opts)}
    BY <1>3, <1>4 DEF Gathers
  <2> QED BY <1>3, <1>7, <2>1
<1>10. ASSUME NEW i \in PlacesOf(type), NEW p \in opts[i].providers
       PROVE  CreateKeyProvider(p).ok /\ Faithful(p)
  <2>1. i \in 1..Len(opts) /\ i \in DOMAIN opts
    BY <1>5, <1>7
  <2>2. CreateKeyProvider(p).ok
    BY <1>3, <1>4, <2>1 DEF Gathers
  <2>3. OneFileSystem(p)
    BY <1>1, <2>1
  <2> QED BY <2>2, <2>3, ProviderFaithful
<1>11. \A p \in ProvidersOf(type) : CreateKeyProvider(p).ok /\ Faithful(p)
  BY <1>10 DEF ProvidersOf
<1>12. GetCertificates(r.store, type) = UNION {CertsOf(opts[i]) : i \in PlacesOf(type)}
  BY <1>3, <1>4, <1>7 DEF Gathers
<1>13. UNION {CertsOf(opts[i]) : i \in PlacesOf(type)} =
         UNION {CreateKeyProvider(p).certs : p \in ProvidersOf(type)}
  BY DEF CertsOf, ProvidersOf
<1>14. UNION {CreateKeyProvider(p).certs : p \in ProvidersOf(type)} =
         UNION {Says(p) : p \in ProvidersOf(type)}
  <2>1. \A p \in ProvidersOf(type) : CreateKeyProvider(p).certs = Says(p)
    BY <1>11 DEF Faithful
  <2> QED BY <2>1
<1> QED BY <1>8, <1>9, <1>11, <1>12, <1>13, <1>14

-----------------------------------------------------------------------------
(***************************************************************************)
(* The documents.                                                          *)
(***************************************************************************)

(* All blobs were judged, and every one of them accepted. *)
LEMMA EveryBlobAccepted ==
  ASSUME NEW judged, DOMAIN judged \in SUBSET Nat
  PROVE  EachBlob(judged) = "accepted" <=> \A i \in DOMAIN judged : judged[i] = "accepted"
<1> DEFINE stop == {i \in DOMAIN judged : judged[i] # "accepted"}
<1>1. CASE stop = {}
  BY <1>1 DEF EachBlob
<1>2. CASE stop # {}
  <2> DEFINE Least(i) == i \in stop /\ \A j \in stop : i <= j
  <2>1. stop \in SUBSET Nat
    OBVIOUS
  <2>2. \E x \in stop : \A y \in stop : x <= y
    <3> HIDE DEF stop
    <3> QED BY <1>2, <2>1, LeastExists
  <2>3. PICK first : first = CHOOSE i \in stop : \A j \in stop : i <= j
    OBVIOUS
  <2>4. first \in stop
    <3> HIDE DEF stop
    <3> QED BY <2>2, <2>3
  <2>5. EachBlob(judged) = judged[first]
    BY <1>2, <2>3 DEF EachBlob
  <2> QED BY <2>4, <2>5
<1> QED BY <1>1, <1>2

(* A verdict is a rejection unless its condition holds. *)
LEMMA VerdictFacts ==
  \A c : Verdict(c) = "accepted" <=> c
BY DEF Verdict

(* Licences: what is accepted, and that more may only be allowed. *)
LEMMA LicensesAccepted ==
  ASSUME NEW c, NEW desc, NEW m, IsList(m.blobs)
  PROVE  VerifyLicenses(c, desc, m) = "accepted" <=>
           /\ c.parses /\ m.fetched /\ m.blobs # <<>>
           /\ \A b \in Elements(m.blobs) :
                /\ b.fetched /\ b.parses
                /\ \A p \in Elements(b.packages) : p.license \in c.allowed
<1> DEFINE Judge(b) == IF ~b.fetched \/ ~b.parses THEN "error"
                       ELSE Verdict(FilterPackageLicenses(GetPackageLicenses(b), c.allowed) = {})
<1> DEFINE judged == [i \in DOMAIN m.blobs |-> Judge(m.blobs[i])]
<1>1. ASSUME NEW b
      PROVE  Judge(b) = "accepted" <=>
               b.fetched /\ b.parses /\ \A p \in Elements(b.packages) : p.license \in c.allowed
  <2>1. FilterPackageLicenses(GetPackageLicenses(b), c.allowed) = {} <=>
          \A p \in Elements(b.packages) : p.license \in c.allowed
    BY DEF FilterPackageLicenses, GetPackageLicenses
  <2> QED BY <2>1, VerdictFacts
<1>2. VerifyLicenses(c, desc, m) =
        IF ~c.parses \/ ~m.fetched THEN "error"
        ELSE IF m.blobs = <<>> THEN "rejected" ELSE EachBlob(judged)
  BY DEF VerifyLicenses
<1>3. EachBlob(judged) = "accepted" <=> \A i \in DOMAIN m.blobs : Judge(m.blobs[i]) = "accepted"
  <2>1. DOMAIN judged \in SUBSET Nat
    BY ListFacts
  <2>2. DOMAIN judged = DOMAIN m.blobs /\ \A i \in DOMAIN m.blobs : judged[i] = Judge(m.blobs[i])
    OBVIOUS
  <2> HIDE DEF judged, Judge
  <2> QED BY <2>1, <2>2, EveryBlobAccepted
<1>4. EachBlob(judged) = "accepted" <=>
        \A b \in Elements(m.blobs) :
          b.fetched /\ b.parses /\ \A p \in Elements(b.packages) : p.license \in c.allowed
  <2> HIDE DEF judged, Judge
  <2> QED BY <1>1, <1>3 DEF Elements
<1> HIDE DEF judged, Judge
<1> QED BY <1>2, <1>4

(* Schemas: the same. *)
LEMMA SchemasAccepted ==
  ASSUME NEW c, NEW desc, NEW m, IsList(m.blobs)
  PROVE  VerifySchemas(c, desc, m) = "accepted" <=>
           /\ c.parses /\ m.fetched /\ m.blobs # <<>>
           /\ \A b \in Elements(m.blobs) :
                b.fetched /\ b.media \in DOMAIN c.schemas /\ c.schemas[b.media] = b.content
<1> DEFINE Judge(b) == IF ~b.fetched THEN "error" ELSE Verdict(processMediaType(c.schemas, b))
<1> DEFINE judged == [i \in DOMAIN m.blobs |-> Judge(m.blobs[i])]
<1>1. ASSUME NEW b
      PROVE  Judge(b) = "accepted" <=>
               b.fetched /\ b.media \in DOMAIN c.schemas /\ c.schemas[b.media] = b.content
  BY VerdictFacts DEF processMediaType
<1>2. VerifySchemas(c, desc, m) =
        IF ~c.parses \/ ~m.fetched THEN "error"
        ELSE IF m.blobs = <<>> THEN "rejected" ELSE EachBlob(judged)
  BY DEF VerifySchemas
<1>3. EachBlob(judged) = "accepted" <=> \A i \in DOMAIN m.blobs : Judge(m.blobs[i]) = "accepted"
  <2>1. DOMAIN judged \in SUBSET Nat
    BY ListFacts
  <2>2. DOMAIN judged = DOMAIN m.blobs /\ \A i \in DOMAIN m.blobs : judged[i] = Judge(m.blobs[i])
    OBVIOUS
  <2> HIDE DEF judged, Judge
  <2> QED BY <2>1, <2>2, EveryBlobAccepted
<1>4. EachBlob(judged) = "accepted" <=>
        \A b \in Elements(m.blobs) :
          b.fetched /\ b.media \in DOMAIN c.schemas /\ c.schemas[b.media] = b.content
  <2> HIDE DEF judged, Judge
  <2> QED BY <1>1, <1>3 DEF Elements
<1> HIDE DEF judged, Judge
<1> QED BY <1>2, <1>4

(* A package that is denied, by its name, its name and version or its licence. *)
DeniedPackage(c, p) ==
  \/ Fold(p.license) \cap Fold(c.licenses) # {}
  \/ \E d \in c.packages : p.name = d.name /\ d.version \in {"none", p.version}

(* SBOMs: what is accepted. *)
LEMMA SbomAccepted ==
  ASSUME NEW c, NEW desc, NEW m, \A d \in c.packages : d = [name |-> d.name, version |-> d.version]
  PROVE  VerifySbom(c, desc, m) = "accepted" <=>
           /\ c.parses /\ m.fetched /\ m.blobs # <<>> /\ m.blobs[1].fetched
           /\ desc.type = "spdx" /\ m.blobs[1].parses
           /\ \A p \in Elements(m.blobs[1].packages) : ~DeniedPackage(c, p)
<1> DEFINE first == m.blobs[1]
<1> DEFINE packages == Elements(first.packages)
<1>1. ASSUME NEW p
      PROVE  DeniedPackage(c, p) <=>
               \/ \E l \in c.licenses : ContainsLicense(p.license, Lower(l))
               \/ p.name \in loadDisallowedPackagesMap(c.packages).names
               \/ [name |-> p.name, version |-> p.version] \in loadDisallowedPackagesMap(c.packages).infos
  <2>1. Fold(p.license) \cap Fold(c.licenses) # {} <=>
          \E l \in c.licenses : ContainsLicense(p.license, Lower(l))
    BY DEF Fold, ContainsLicense
  <2>2. (\E d \in c.packages : p.name = d.name /\ d.version = "none") <=>
          p.name \in loadDisallowedPackagesMap(c.packages).names
    BY DEF loadDisallowedPackagesMap
  <2>3. (\E d \in c.packages : p.name = d.name /\ d.version = p.version) <=>
          [name |-> p.name, version |-> p.version] \in loadDisallowedPackagesMap(c.packages).infos
    BY DEF loadDisallowedPackagesMap
  <2> QED BY <2>1, <2>2, <2>3 DEF DeniedPackage
<1>2. getViolations(first, c.licenses, c.packages) = {p \in packages : DeniedPackage(c, p)}
  BY <1>1 DEF getViolations, filterDisallowedPackages, GetPackageLicenses
<1>3. (c.licenses = {} /\ c.packages = {}) => \A p \in packages : ~DeniedPackage(c, p)
  BY DEF DeniedPackage, Fold
<1>4. processSpdxJSONMediaType(c, first) <=>
        first.parses /\ \A p \in packages : ~DeniedPackage(c, p)
  <2> HIDE DEF packages
  <2> QED BY <1>2, <1>3 DEF processSpdxJSONMediaType
<1>5. VerifySbom(c, desc, m) = "accepted" <=>
        /\ c.parses /\ m.fetched /\ m.blobs # <<>> /\ first.fetched
        /\ desc.type = "spdx" /\ processSpdxJSONMediaType(c, first)
  BY VerdictFacts DEF VerifySbom
<1> QED BY <1>4, <1>5

(* Of the rules with the id of a finding the last one counts. *)
LEMMA LastRule ==
  ASSUME NEW report, NEW id, IsList(report.runs[1].rules), HasRule(report, id)
  PROVE  SeveritiesOf(report.runs[1], id) = {RuleOf(report, id).severity}
<1> DEFINE rules == report.runs[1].rules
<1> DEFINE same == {i \in DOMAIN rules : rules[i].id = id}
<1>1. Len(rules) \in Nat /\ DOMAIN rules = 1..Len(rules)
  BY ListFacts
<1>2. same \in SUBSET (1..Len(rules)) /\ same # {}
  BY <1>1 DEF HasRule
<1>3. \E x \in same : \A y \in same : y <= x
  <2> HIDE DEF same
  <2> QED BY <1>1, <1>2, GreatestExists
<1>4. PICK last : last = CHOOSE i \in same : \A j \in same : j <= i
  OBVIOUS
<1>5. last \in same /\ \A j \in same : j <= last
  <2> HIDE DEF same
  <2> QED BY <1>3, <1>4
<1>6. RuleOf(report, id) = rules[last]
  BY <1>4 DEF RuleOf
<1>7. {j \in same : \A k \in same : k <= j} = {last}
  <2>1. ASSUME NEW j \in same, \A k \in same : k <= j PROVE j = last
    <3>1. j \in Nat /\ last \in Nat
      BY <1>1, <1>5
    <3>2. j <= last /\ last <= j
      BY <1>5, <2>1
    <3> QED BY <3>1, <3>2
  <2> HIDE DEF same
  <2> QED BY <1>5, <2>1
<1>8. SeveritiesOf(report.runs[1], id) = {rules[i].severity : i \in {j \in same : \A k \in same : k <= j}}
  BY DEF SeveritiesOf
<1> HIDE DEF same
<1> QED BY <1>6, <1>7, <1>8

(* A finding that is judged has a rule whose severity is stated and allowed. *)
LEMMA JudgedFinding ==
  ASSUME NEW report, NEW id, NEW disallowed, IsList(report.runs[1].rules), Judged(report, id, disallowed)
  PROVE  /\ id # "none"
         /\ SeveritiesOf(report.runs[1], id) \notin {{}, {"none"}}
         /\ Fold(SeveritiesOf(report.runs[1], id)) \cap Fold(disallowed) = {}
<1>1. PICK rule : rule = RuleOf(report, id)
  OBVIOUS
<1>2. PICK scanner : scanner = Lower(report.runs[1].scanner)
  OBVIOUS
<1>3. id # "none" /\ HasRule(report, id)
      /\ extractSeverity(scanner, rule) \notin {{}} \cup {{Lower(s)} : s \in disallowed}
  BY <1>1, <1>2 DEF Judged
<1>4. rule.severity # "none" /\ Lower(rule.severity) \notin Fold(disallowed)
  BY <1>3 DEF extractSeverity, Fold
<1>5. SeveritiesOf(report.runs[1], id) = {rule.severity}
  BY <1>1, <1>3, LastRule
<1>6. Fold({rule.severity}) = {Lower(rule.severity)}
  BY DEF Fold
<1> QED BY <1>3, <1>4, <1>5, <1>6

(* A finding that is judged under a list is judged under a shorter one. *)
LEMMA JudgedUnderLess ==
  ASSUME NEW report, NEW id, NEW more, NEW less, less \subseteq more, Judged(report, id, more)
  PROVE  Judged(report, id, less)
<1>1. PICK severity : severity = extractSeverity(Lower(report.runs[1].scanner), RuleOf(report, id))
  OBVIOUS
<1>2. severity \notin {{}} \cup {{Lower(s)} : s \in more}
  BY <1>1 DEF Judged
<1>3. severity \notin {{}} \cup {{Lower(s)} : s \in less}
  BY <1>2
<1> QED BY <1>1, <1>3 DEF Judged

(* The report of a scan: what an accepted one holds. *)
LEMMA ScanClean ==
  ASSUME NEW c, NEW report, processSarifReport(c, report), IsList(report.runs),
         \A r \in Elements(report.runs) : IsList(r.rules), NEW id \in Elements(report.runs[1].results)
  PROVE  /\ (c.denylist # {} \/ c.disallowed # {}) => id # "none"
         /\ Lower(id) \notin Fold(c.denylist)
         /\ c.disallowed # {} =>
              /\ SeveritiesOf(report.runs[1], id) \notin {{}, {"none"}}
              /\ Fold(SeveritiesOf(report.runs[1], id)) \cap Fold(c.disallowed) = {}
<1>1. report.runs # <<>>
  BY DEF processSarifReport
<1>2. IsList(report.runs[1].rules)
  BY <1>1, ListFacts
<1>3. c.denylist # {} => id # "none" /\ Lower(id) \notin Fold(c.denylist)
  BY DEF processSarifReport, verifyDenyListCVEs, Results, Fold
<1>4. c.denylist = {} => Lower(id) \notin Fold(c.denylist)
  BY DEF Fold
<1>5. c.disallowed # {} => Judged(report, id, c.disallowed)
  BY DEF processSarifReport, verifyDisallowedSeverities, Results
<1> QED BY <1>2, <1>3, <1>4, <1>5, JudgedFinding

(* Dropping a restriction rejects no report. *)
LEMMA ScanLooser ==
  ASSUME NEW c, NEW d, NEW report, processSarifReport(c, report),
         d.denylist \subseteq c.denylist, d.disallowed \subseteq c.disallowed
  PROVE  processSarifReport(d, report)
<1>1. d.denylist # {} => verifyDenyListCVEs(report, d.denylist)
  <2> SUFFICES ASSUME d.denylist # {} PROVE verifyDenyListCVEs(report, d.denylist)
    OBVIOUS
  <2>1. verifyDenyListCVEs(report, c.denylist)
    BY DEF processSarifReport
  <2> QED BY <2>1 DEF verifyDenyListCVEs
<1>2. d.disallowed # {} => verifyDisallowedSeverities(report, d.disallowed)
  <2> SUFFICES ASSUME d.disallowed # {}, NEW id \in Results(report)
               PROVE  Judged(report, id, d.disallowed)
    BY DEF verifyDisallowedSeverities
  <2>1. Judged(report, id, c.disallowed)
    BY DEF processSarifReport, verifyDisallowedSeverities
  <2> QED BY <2>1, JudgedUnderLess
<1> QED BY <1>1, <1>2 DEF processSarifReport

(* Vulnerability reports: what is accepted. *)
LEMMA ScanAccepted ==
  ASSUME NEW c, NEW desc, NEW m
  PROVE  VerifyVulnerabilities(c, desc, m) = "accepted" <=>
           /\ c.parses /\ m.fetched /\ m.blobs # <<>> /\ m.blobs[1].fetched
           /\ extractCreationTimestamp(CreatedAnnotationName(c), desc)
           /\ c.maximumAge.given =>
                validateMaximumAge(c, desc.annotations[CreatedAnnotationName(c)].age)
           /\ \/ c.passthrough
              \/ verifyJSONSchema(c, desc, m.blobs[1]) /\ processSarifReport(c, m.blobs[1])
BY VerdictFacts DEF VerifyVulnerabilities

(* An accepted document is clean and stays accepted under a looser configuration. *)
LEMMA AcceptedIsClean ==
  ASSUME NEW s \in Documents, NEW i \in Inputs[s],
         DocumentVerdict(s, i.config, i.desc, i.manifest) = "accepted"
  PROVE  /\ i.config.parses /\ i.manifest.fetched /\ i.manifest.blobs # <<>>
         /\ i.manifest.blobs[1].fetched
         /\ Clean(s, i.config, i.manifest)
         /\ \A d \in Configs[s] : Looser(s, d, i.config) =>
              DocumentVerdict(s, d, i.desc, i.manifest) = "accepted"
<1>1. PICK c : c = i.config
  OBVIOUS
<1>2. PICK desc : desc = i.desc
  OBVIOUS
<1>3. PICK m : m = i.manifest
  OBVIOUS
<1>4. IsList(m.blobs)
  BY <1>3, InputsAssumption
<1>5. m.blobs # <<>> => m.blobs[1] \in Elements(m.blobs)
  BY <1>4, ListFacts
<1>6. DocumentVerdict(s, c, desc, m) = "accepted"
  BY <1>1, <1>2, <1>3
<1> SUFFICES /\ c.parses /\ m.fetched /\ m.blobs # <<>> /\ m.blobs[1].fetched
             /\ Clean(s, c, m)
             /\ \A d \in Configs[s] : Looser(s, d, c) => DocumentVerdict(s, d, desc, m) = "accepted"
  BY <1>1, <1>2, <1>3
<1>7. CASE s = "scan"
  <2>1. VerifyVulnerabilities(c, desc, m) = "accepted"
    BY <1>6, <1>7 DEF DocumentVerdict
  <2>2. /\ c.parses /\ m.fetched /\ m.blobs # <<>> /\ m.blobs[1].fetched
        /\ extractCreationTimestamp(CreatedAnnotationName(c), desc)
        /\ c.maximumAge.given =>
             validateMaximumAge(c, desc.annotations[CreatedAnnotationName(c)].age)
        /\ \/ c.passthrough
           \/ verifyJSONSchema(c, desc, m.blobs[1]) /\ processSarifReport(c, m.blobs[1])
    BY <2>1, ScanAccepted
  <2>3. PICK first : first = m.blobs[1]
    OBVIOUS
  <2>4. IsList(first.runs) /\ \A r \in Elements(first.runs) : IsList(r.rules)
    BY <1>3, <1>5, <1>7, <2>2, <2>3, InputsAssumption
  <2>5. Clean(s, c, m)
    <3>1. Clean(s, c, m) <=>
            (c.passthrough \/ \A id \in Elements(first.runs[1].results) :
               /\ (c.denylist # {} \/ c.disallowed # {}) => id # "none"
               /\ Lower(id) \notin Fold(c.denylist)
               /\ c.disallowed # {} =>
                    /\ SeveritiesOf(first.runs[1], id) \notin {{}, {"none"}}
                    /\ Fold(SeveritiesOf(first.runs[1], id)) \cap Fold(c.disallowed) = {})
      BY <1>7, <2>3 DEF Clean
    <3>2. CASE c.passthrough
      BY <3>1, <3>2
    <3>3. CASE ~c.passthrough
      <4>1. processSarifReport(c, first)
        BY <2>2, <2>3, <3>3
      <4> QED BY <2>4, <3>1, <4>1, ScanClean
    <3> QED BY <3>2, <3>3
  <2>6. ASSUME NEW d \in Configs[s], Looser(s, d, c)
        PROVE  DocumentVerdict(s, d, desc, m) = "accepted"
    <3>1. /\ d.parses = c.parses /\ d.annotation = c.annotation
          /\ d.maximumAge = c.maximumAge /\ d.schemaURL = c.schemaURL
          /\ c.passthrough => d.passthrough
          /\ d.denylist \subseteq c.denylist /\ d.disallowed \subseteq c.disallowed
      BY <1>7, <2>6 DEF Looser
    <3>2. CreatedAnnotationName(d) = CreatedAnnotationName(c)
      BY <3>1 DEF CreatedAnnotationName
    <3>3. \A age : validateMaximumAge(c, age) => validateMaximumAge(d, age)
      BY <3>1 DEF validateMaximumAge
    <3>4. verifyJSONSchema(c, desc, first) => verifyJSONSchema(d, desc, first)
      BY <3>1 DEF verifyJSONSchema
    <3>5. processSarifReport(c, first) => processSarifReport(d, first)
      BY <3>1, ScanLooser
    <3>6. VerifyVulnerabilities(d, desc, m) = "accepted"
      BY <2>2, <2>3, <3>1, <3>2, <3>3, <3>4, <3>5, ScanAccepted
    <3> QED BY <1>7, <3>6 DEF DocumentVerdict
  <2> QED BY <2>2, <2>5, <2>6
<1>8. CASE s = "sbom"
  <2>1. \A j \in Inputs[s] : \A p \in j.config.packages : p = [name |-> p.name, version |-> p.version]
    BY <1>8, InputsAssumption
  <2>2. \A d \in Configs[s] : \A p \in d.packages : p = [name |-> p.name, version |-> p.version]
    BY <2>1 DEF Configs
  <2>3. VerifySbom(c, desc, m) = "accepted"
    BY <1>6, <1>8 DEF DocumentVerdict
  <2>4. \A p \in c.packages : p = [name |-> p.name, version |-> p.version]
    BY <1>1, <2>1
  <2>5. /\ c.parses /\ m.fetched /\ m.blobs # <<>> /\ m.blobs[1].fetched
        /\ desc.type = "spdx" /\ m.blobs[1].parses
        /\ \A p \in Elements(m.blobs[1].packages) : ~DeniedPackage(c, p)
    BY <2>3, <2>4, SbomAccepted
  <2>6. Clean(s, c, m)
    <3>1. Clean(s, c, m) <=>
            \A p \in Elements(m.blobs[1].packages) :
              /\ Fold(p.license) \cap Fold(c.licenses) = {}
              /\ \A d \in c.packages : p.name = d.name => d.version \notin {"none", p.version}
      BY <1>8 DEF Clean
    <3> QED BY <2>5, <3>1 DEF DeniedPackage
  <2>7. ASSUME NEW d \in Configs[s], Looser(s, d, c)
        PROVE  DocumentVerdict(s, d, desc, m) = "accepted"
    <3>1. d.parses = c.parses /\ d.licenses \subseteq c.licenses /\ d.packages \subseteq c.packages
      BY <1>8, <2>7 DEF Looser
    <3>2. \A p : DeniedPackage(d, p) => DeniedPackage(c, p)
      BY <3>1 DEF DeniedPackage, Fold
    <3>3. \A p \in d.packages : p = [name |-> p.name, version |-> p.version]
      BY <2>2
    <3>4. VerifySbom(d, desc, m) = "accepted"
      BY <2>5, <3>1, <3>2, <3>3, SbomAccepted
    <3> QED BY <1>8, <3>4 DEF DocumentVerdict
  <2> QED BY <2>5, <2>6, <2>7
<1>9. CASE s = "license"
  <2>1. VerifyLicenses(c, desc, m) = "accepted"
    BY <1>6, <1>9 DEF DocumentVerdict
  <2>2. /\ c.parses /\ m.fetched /\ m.blobs # <<>>
        /\ \A b \in Elements(m.blobs) :
             /\ b.fetched /\ b.parses
             /\ \A p \in Elements(b.packages) : p.license \in c.allowed
    BY <1>4, <2>1, LicensesAccepted
  <2>3. Clean(s, c, m) <=>
          \A b \in Elements(m.blobs) : \A p \in Elements(b.packages) : p.license \in c.allowed
    BY <1>9 DEF Clean
  <2>4. ASSUME NEW d \in Configs[s], Looser(s, d, c)
        PROVE  DocumentVerdict(s, d, desc, m) = "accepted"
    <3>1. d.parses = c.parses /\ c.allowed \subseteq d.allowed
      BY <1>9, <2>4 DEF Looser
    <3>2. VerifyLicenses(d, desc, m) = "accepted"
      BY <1>4, <2>2, <3>1, LicensesAccepted
    <3> QED BY <1>9, <3>2 DEF DocumentVerdict
  <2> QED BY <1>5, <2>2, <2>3, <2>4
<1>10. CASE s = "schema"
  <2>1. VerifySchemas(c, desc, m) = "accepted"
    BY <1>6, <1>10 DEF DocumentVerdict
  <2>2. /\ c.parses /\ m.fetched /\ m.blobs # <<>>
        /\ \A b \in Elements(m.blobs) :
             b.fetched /\ b.media \in DOMAIN c.schemas /\ c.schemas[b.media] = b.content
    BY <1>4, <2>1, SchemasAccepted
  <2>3. Clean(s, c, m) <=>
          \A b \in Elements(m.blobs) : b.media \in DOMAIN c.schemas /\ c.schemas[b.media] = b.content
    BY <1>10 DEF Clean
  <2>4. ASSUME NEW d \in Configs[s], Looser(s, d, c)
        PROVE  DocumentVerdict(s, d, desc, m) = "accepted"
    <3>1. /\ d.parses = c.parses /\ DOMAIN c.schemas \subseteq DOMAIN d.schemas
          /\ \A t \in DOMAIN c.schemas : d.schemas[t] = c.schemas[t]
      BY <1>10, <2>4 DEF Looser
    <3>2. \A b \in Elements(m.blobs) :
            b.fetched /\ b.media \in DOMAIN d.schemas /\ d.schemas[b.media] = b.content
      BY <2>2, <3>1
    <3>3. VerifySchemas(d, desc, m) = "accepted"
      <4>1. d.parses /\ m.fetched /\ m.blobs # <<>>
        BY <2>2, <3>1
      <4> QED BY <1>4, <3>2, <4>1, SchemasAccepted
    <3> QED BY <1>10, <3>3 DEF DocumentVerdict
  <2> QED BY <1>5, <2>2, <2>3, <2>4
<1> QED BY <1>7, <1>8, <1>9, <1>10 DEF Documents

-----------------------------------------------------------------------------
(* A plugin returns what its operator says, and its input stays what it was. *)
JudgeInv ==
  /\ suite \in Suites
  /\ input \in Inputs[suite]
  /\ result # <<>> => result = <<Returned(suite, input)>>

(* The one step of a behaviour keeps this. *)
LEMMA JudgeInvariant == JudgeSpec => []JudgeInv
<1>1. JudgeInit => JudgeInv
  BY DEF JudgeInit, JudgeInv
<1>2. JudgeInv /\ [Judging]_judgeVars => JudgeInv'
  BY DEF JudgeInv, Judging, judgeVars
<1> QED BY <1>1, <1>2, PTL DEF JudgeSpec

(* What is returned is the first element of the result. *)
LEMMA ReturnedIsFirst ==
  ASSUME JudgeInv, result # <<>>
  PROVE  result[1] = Returned(suite, input)
BY DEF JudgeInv

(* A Notation verifier trusts exactly what was configured for each type of trust
   store, for any number of options, providers, secrets and files (newNotationVerifier,
   initTrustStore and the key providers). *)
THEOREM TrustIsExact == JudgeSpec => []TrustsExactlyConfigured
<1>1. ASSUME JudgeInv, suite = "trust", result # <<>>, result[1].ok PROVE NotationTrustsExactly
  <2> SUFFICES ASSUME NEW type \in TrustStoreTypes
               PROVE  /\ GetCertificates(result[1].store, type) = UNION {Says(p) : p \in ProvidersOf(type)}
                      /\ \A p \in ProvidersOf(type) :
                           /\ Readable(p)
                           /\ p.name = "azurekeyvault" => AzureGetCertificates(CreateKeyProvider(p).certs).ok
                           /\ p.name = "inline" => DecodeCertificates(p.options.pem) = CreateKeyProvider(p)
                      /\ \A i, j \in PlacesOf(type) : i = j
                      /\ type \in result[1].policy.stores <=> PlacesOf(type) # {}
    BY DEF NotationTrustsExactly
  <2>1. PICK r : r = result[1]
    OBVIOUS
  <2>2. input \in Inputs["trust"] /\ r = newNotationVerifier(input)
    BY <1>1, <2>1, ReturnedIsFirst DEF JudgeInv, Returned, Documents
  <2>3. /\ GetCertificates(r.store, type) = UNION {Says(p) : p \in ProvidersOf(type)}
        /\ \A p \in ProvidersOf(type) : CreateKeyProvider(p).ok /\ Faithful(p)
        /\ \A i, j \in PlacesOf(type) : i = j
        /\ type \in r.policy.stores <=> PlacesOf(type) # {}
    BY <1>1, <2>1, <2>2, TrustIsFaithful
  <2> QED BY <2>1, <2>3 DEF Faithful
<1>2. ASSUME JudgeInv, suite = "store", result # <<>>, result[1].ok PROVE RegistryTrustsExactly
  <2>1. PICK r, pem, base64 : r = result[1] /\ pem = input.caPem /\ base64 = input.caBase64
    OBVIOUS
  <2>2. r = newRegistryStore(input)
    BY <1>2, <2>1, ReturnedIsFirst DEF Returned, Documents
  <2>3. r = createHTTPClient(pem, base64)
    BY <1>2, <2>1, <2>2 DEF newRegistryStore, NoClient, Client
  <2>4. r.system <=> (pem = <<>> /\ ~base64.given)
    BY <1>2, <2>1, <2>3 DEF createHTTPClient, WithRoots, NoClient, Client
  <2>5. PICK bundle : bundle = BundleOf(input)
    OBVIOUS
  <2>6. (pem # <<>> \/ base64.given) => r.roots = CertificatesOf(bundle) /\ CertificatesOf(bundle) # {}
    BY <1>2, <2>1, <2>3, <2>5 DEF createHTTPClient, WithRoots, NoClient, Client, BundleOf
  <2> QED BY <2>1, <2>4, <2>5, <2>6 DEF RegistryTrustsExactly, CertificatesOf
<1>3. JudgeInv => TrustsExactlyConfigured
  BY <1>1, <1>2 DEF TrustsExactlyConfigured
<1> QED BY <1>3, JudgeInvariant, PTL

(* A document is accepted only when it is clean, and then under every looser
   configuration too, for documents of any length (VerifyReference of the four
   plugins). *)
THEOREM OnlyCleanIsAccepted == JudgeSpec => []AcceptsOnlyClean
<1>1. JudgeInv => AcceptsOnlyClean
  <2> SUFFICES ASSUME JudgeInv, suite \in Documents, result # <<>>, result[1] = "accepted"
               PROVE  /\ input.config.parses /\ input.manifest.fetched /\ input.manifest.blobs # <<>>
                      /\ input.manifest.blobs[1].fetched
                      /\ Clean(suite, input.config, input.manifest)
                      /\ \A d \in Configs[suite] : Looser(suite, d, input.config) =>
                           DocumentVerdict(suite, d, input.desc, input.manifest) = "accepted"
    BY DEF AcceptsOnlyClean
  <2>1. DocumentVerdict(suite, input.config, input.desc, input.manifest) = "accepted"
    BY ReturnedIsFirst DEF Returned, Documents
  <2>2. input \in Inputs[suite]
    BY DEF JudgeInv
  <2> QED BY <2>1, <2>2, AcceptedIsClean
<1> QED BY <1>1, JudgeInvariant, PTL

(* No registry is shown a credential of another one, nor a token of another
   region or instance than its own name gives, whatever the sources, secrets,
   accounts and grants (CredentialFor, the Provide functions). *)
THEOREM CredentialsAreKept == JudgeSpec => []CredentialsStayHome
<1>1. JudgeInv => CredentialsStayHome
  <2> SUFFICES ASSUME JudgeInv, suite = "credential", result # <<>>, result[1].ok
               PROVE  CredentialsStayHome
    BY DEF CredentialsStayHome
  <2>1. PICK r, source, world : r = result[1] /\ source = input.source /\ world = input.world
    OBVIOUS
  <2>2. r = CredentialFor(source, world)
    BY <2>1, ReturnedIsFirst DEF Returned, Documents
  <2>3. SoundCredentials(source, world)
    BY <2>1, InputsAssumption DEF JudgeInv
  <2>4. ForHost(r, source.artifact.host) \/ ForInstance(r, source, world)
    BY <2>2, <2>3, SettingForHost
  <2> QED BY <2>1, <2>4 DEF CredentialsStayHome, ForHost, ForInstance
<1> QED BY <1>1, JudgeInvariant, PTL
=============================================================================
