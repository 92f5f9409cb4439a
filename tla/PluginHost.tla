----------------------------- MODULE PluginHost -----------------------------
(***************************************************************************)
(* External plugins: pkg/common/plugin/download.go installs or replaces    *)
(* the executable in place while exec.go runs it for other requests.       *)
(*                                                                         *)
(* The operating system refuses to execute a file that is open for writing *)
(* and to open a running one for writing ("text file busy").  A process    *)
(* that is forked while the download has its file open inherits the        *)
(* descriptor and keeps it until it executes another program: this is how  *)
(* one execution makes another one busy after the download is over.        *)
(***************************************************************************)
EXTENDS Naturals, FiniteSets, Sequences

CONSTANTS Calls,          \* concurrent calls of ExecutePlugin
          Downloads,      \* concurrent calls of DownloadPlugin, all to the same path
          Sources,        \* where a plugin may come from: records parses, manifest
          Searches,       \* how FindInPaths is called: records name, paths
          maxRetryCount,  \* 5 in the source
          MaxDownloads    \* bound on downloads

ASSUME PluginAssumption == maxRetryCount \in Nat /\ MaxDownloads \in Nat

VARIABLES
  file,      \* the executable, with the history of its contents (see NewFile)
  download,  \* [Downloads -> stage, version]
  call,      \* [Calls -> stage, attempts, image, inherits, answer]
  version    \* history: the versions begun so far

vars == <<file, download, call, version>>

(***************************************************************************)
(* A file is the version that truncated it last; its contents, "writing",  *)
(* "copied" (to the end) or "broken" (off), as that version left them;     *)
(* shared, whether another download could still write or chmod the file    *)
(* then; replaces, whether it truncated an executable.                     *)
(***************************************************************************)
NewFile(v, shared, replaces, executable) ==
  [version |-> v, contents |-> "writing", shared |-> shared, replaces |-> replaces,
   executable |-> executable]
NoFile == NewFile(0, FALSE, FALSE, FALSE)
Idle == [stage |-> "none", version |-> 0]
NoAnswer == "none"
Fresh == [stage |-> "ready", attempts |-> 0, image |-> NoFile, inherits |-> FALSE,
          answer |-> NoAnswer]

Init ==
  /\ file = NoFile
  /\ download = [d \in Downloads |-> Idle]
  /\ call = [c \in Calls |-> Fresh]
  /\ version = 0

-----------------------------------------------------------------------------
(* DownloadPlugin takes no lock: downloads to one path may overlap. *)
At(d, stage) == download[d].stage = stage
OpenForWriting == \E d \in Downloads : At(d, "copy") \/ At(d, "chmod") \/ At(d, "close")
Inherited == \E c \in Calls : call[c].inherits
Running == \E c \in Calls : call[c].stage = "running"

GoesTo(d, stage) == download' = [download EXCEPT ![d].stage = stage]
Ends(d) == download' = [download EXCEPT ![d] = Idle]

ParsePluginSource(source) == source.parses

(* A manifest is its media type and the number of its blobs. *)
OciManifestToReferenceManifest(m) == [m EXCEPT !.type = "artifact"]
ReferenceManifest(m) == IF m.type = "image" THEN OciManifestToReferenceManifest(m) ELSE m
Fetchable(m) == ReferenceManifest(m).type = "artifact" /\ ReferenceManifest(m).blobs > 0

(* Everything up to the blob; the registry may refuse or fail at any point of it. *)
Resolve(d, source) ==
  /\ At(d, "none") /\ version < MaxDownloads
  /\ version' = version + 1
  /\ \/ /\ ParsePluginSource(source) /\ Fetchable(source.manifest)
        /\ download' = [download EXCEPT ![d] = [stage |-> "create", version |-> version + 1]]
     \/ UNCHANGED download
  /\ UNCHANGED <<file, call>>

(* The bug of creating the file with the mode of an executable. *)
NewMode_Executable(old) == TRUE

(* A new file cannot be executed; an old one keeps its mode. *)
NewMode(old) == old.executable

(* os.Create truncates the file. *)
Create(d) ==
  /\ At(d, "create")
  /\ IF Running
     THEN Ends(d) /\ UNCHANGED file
     ELSE /\ GoesTo(d, "copy")
          /\ file' = NewFile(download[d].version,
                             \E e \in Downloads \ {d} : At(e, "copy") \/ At(e, "chmod"),
                             file.executable, NewMode(file))
  /\ UNCHANGED <<call, version>>

(* What a download says of the contents counts if nobody truncated them since. *)
Leaves(d, contents) ==
  file' = IF file.version = download[d].version
          THEN [file EXCEPT !.contents = contents] ELSE file

(* io.Copy writes all of the blob or stops with an error and the file closed. *)
Copy(d) ==
  /\ At(d, "copy")
  /\ \/ GoesTo(d, "chmod") /\ Leaves(d, "copied")
     \/ Ends(d) /\ Leaves(d, "broken")
  /\ UNCHANGED <<call, version>>

Chmod(d) ==
  /\ At(d, "chmod")
  /\ \/ GoesTo(d, "close") /\ file' = [file EXCEPT !.executable = TRUE]
     \/ Ends(d) /\ UNCHANGED file
  /\ UNCHANGED <<call, version>>

Close(d) ==
  /\ At(d, "close")
  /\ Ends(d)
  /\ UNCHANGED <<file, call, version>>

-----------------------------------------------------------------------------
(* ExecutePlugin. *)
Update(c, new) == call' = [call EXCEPT ![c] = new]
Returns(c, answer) == Update(c, [Fresh EXCEPT !.stage = "returned", !.answer = answer])

(* FindInPaths: the first regular file among the paths. *)
FindInPaths(search) ==
  IF search.name = "none" \/ search.paths = <<>> THEN "error"
  ELSE IF \E i \in DOMAIN search.paths : search.paths[i] = "regular" THEN "found" ELSE "error"

Find(c, search) ==
  /\ call[c].stage = "ready" /\ file.version # 0
  /\ IF FindInPaths(search) = "found" THEN Update(c, [call[c] EXCEPT !.stage = "run"])
     ELSE Returns(c, "error")
  /\ UNCHANGED <<file, download, version>>

(* c.Run forks first; the child holds what the parent has open. *)
Fork(c) ==
  /\ call[c].stage = "run"
  /\ Update(c, [call[c] EXCEPT !.stage = "forked", !.inherits = OpenForWriting])
  /\ UNCHANGED <<file, download, version>>

(* The bug of waiting for as long as the file is busy. *)
AfterBusy_Forever(attempts) == "run"

AfterBusy(attempts) == IF attempts > maxRetryCount THEN "returned" ELSE "run"

(* After the last attempt the loop ends as it does after a success. *)
Busy(c) ==
  /\ call[c].stage = "forked" /\ file.executable
  /\ OpenForWriting \/ Inherited
  /\ LET attempts == call[c].attempts + 1
     IN IF AfterBusy(attempts) = "run"
        THEN Update(c, [call[c] EXCEPT !.stage = "run", !.inherits = FALSE,
                          !.attempts = IF @ > maxRetryCount THEN @ ELSE attempts])
        ELSE Returns(c, "no output")
  /\ UNCHANGED <<file, download, version>>

(* No permission, or the context is done. *)
CannotRun(c) ==
  /\ call[c].stage = "forked"
  /\ Returns(c, "error")
  /\ UNCHANGED <<file, download, version>>

Execute(c) ==
  /\ call[c].stage = "forked" /\ file.executable
  /\ ~OpenForWriting /\ ~Inherited
  /\ Update(c, [call[c] EXCEPT !.stage = "running", !.image = file])
  /\ UNCHANGED <<file, download, version>>

(* A line with a brace is JSON or is dropped, the others are messages. *)
parsePluginOutput(lines) ==
  IF "json" \in lines THEN "output" ELSE "no output"

Exit(c, lines) ==
  /\ call[c].stage = "running"
  /\ \/ Returns(c, parsePluginOutput(lines))
     \/ Returns(c, "error")     \* a bad status, or killed when the context is done
  /\ UNCHANGED <<file, download, version>>

(* The caller takes the answer; another call may come. *)
Again(c) ==
  /\ call[c].stage = "returned"
  /\ Update(c, Fresh)
  /\ UNCHANGED <<file, download, version>>

Lines == {{"json", "message"}, {"message"}, {"broken json"}}
Attempt(c) == Fork(c) \/ Busy(c) \/ CannotRun(c) \/ Execute(c)
Exits(c) == \E lines \in Lines : Exit(c, lines)

DownloadStep(d) ==
  Create(d) \/ Copy(d) \/ Chmod(d) \/ Close(d) \/ \E s \in Sources : Resolve(d, s)
CallStep(c) == Attempt(c) \/ Exits(c) \/ Again(c) \/ \E s \in Searches : Find(c, s)

Next == (\E d \in Downloads : DownloadStep(d)) \/ (\E c \in Calls : CallStep(c))

(* Plugins end, by themselves or with their context; a download may stall. *)
Fairness == \A c \in Calls : WF_vars(Attempt(c)) /\ WF_vars(Exits(c))

Spec == Init /\ [][Next]_vars /\ Fairness

-----------------------------------------------------------------------------
(* A call runs a plugin that was downloaded to the end, never one that is being
   written and never one whose first download broke off, in whatever order calls
   and downloads meet.  There are two ways to run something else, and no third:
   a replacement that broke off leaves half of the new file with the mode of the
   old one, and downloads that overlap mix their contents and make the mixture
   executable (DownloadPlugin writes in place and takes no lock). *)
RunsWholePlugin ==
  \A c \in Calls : call[c].stage = "running" =>
    LET image == call[c].image
    IN \/ image.contents = "copied"
       \/ image.contents = "broken" /\ image.replaces
       \/ image.shared

(* Every call returns, even when a download stalls with the file open and the
   other calls keep it busy by forking (the retries of ExecutePlugin). *)
EveryCallReturns ==
  \A c \in Calls : (call[c].stage = "run") ~> (call[c].stage = "returned")
=============================================================================
