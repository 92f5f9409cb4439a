----------------------------- MODULE FileWatcher -----------------------------
(***************************************************************************)
(* External: watched files and fsnotify, as the two watchers of            *)
(* internal/httpserver (config.go, tlssecret/certwatcher.go) use them.     *)
(*                                                                         *)
(* A watch is on an inode, not on a path.  A file that is replaced or      *)
(* deleted loses its old inode some time later (kubelet removes the old    *)
(* data directory after it has swapped the link); only then does the watch *)
(* end, with a Remove event.  A file that is moved away ends the watch     *)
(* with a Rename event.                                                    *)
(***************************************************************************)
EXTENDS Naturals, Sequences

CONSTANTS Paths,       \* the watched paths
          MaxVersion   \* bound on versions of their contents

ASSUME MaxVersionAssumption == MaxVersion \in Nat \ {0}

VARIABLES disk,      \* [Paths -> [inode, body]]
          watch,     \* [Paths -> inode], 0 when the path is not watched
          events,    \* the channel of fsnotify
          version,   \* the newest version of any contents
          mishaps    \* history: "missing", a file was; "early", one changed unwatched

fileVars == <<disk, watch, events, version, mishaps>>

Torn == 0          \* the contents of a file that is being written
Missing == [inode |-> 0, body |-> Torn]
File(inode, body) == [inode |-> inode, body |-> body]
Event(op, p) == [op |-> op, path |-> p]

Exists(p) == disk[p] # Missing
Readable(p) == Exists(p) /\ disk[p].body # Torn

FileInit ==
  /\ disk = [p \in Paths |-> File(1, 1)]
  /\ watch = [p \in Paths |-> 0]
  /\ events = <<>>
  /\ version = 1
  /\ mishaps = {}

(* The watcher's Add: an error, which the code logs, when the file is missing. *)
Add(p) == watch' = [watch EXCEPT ![p] = IF Exists(p) THEN disk[p].inode ELSE @]

-----------------------------------------------------------------------------
NotifyWrite(p) ==
  events' = IF watch[p] = disk[p].inode THEN Append(events, Event("write", p)) ELSE events

(* A writer truncates the file, and later fills it with new or old contents. *)
Truncate(p) ==
  /\ Readable(p) /\ version < MaxVersion
  /\ version' = version + 1
  /\ disk' = [disk EXCEPT ![p].body = Torn]
  /\ NotifyWrite(p)
  /\ UNCHANGED watch

Fill(p) ==
  /\ Exists(p) /\ disk[p].body = Torn
  /\ \E body \in 1..version : disk' = [disk EXCEPT ![p].body = body]
  /\ NotifyWrite(p)
  /\ UNCHANGED <<watch, version>>

(* All the paths get new files at once. *)
Replace ==
  /\ version < MaxVersion
  /\ version' = version + 1
  /\ disk' = [p \in Paths |-> File(version', version')]
  /\ UNCHANGED <<watch, events>>

(* The inode a path used to have is gone. *)
Unlinkable(p) == watch[p] \notin {0, disk[p].inode}

Unlink(p) ==
  /\ Unlinkable(p)
  /\ watch' = [watch EXCEPT ![p] = 0]
  /\ events' = Append(events, Event("remove", p))
  /\ UNCHANGED <<disk, version>>

Delete(p) ==
  /\ Exists(p)
  /\ disk' = [disk EXCEPT ![p] = Missing]
  /\ UNCHANGED <<watch, events, version>>

Move(p) ==
  /\ Exists(p)
  /\ disk' = [disk EXCEPT ![p] = Missing]
  /\ IF watch[p] = disk[p].inode
     THEN /\ watch' = [watch EXCEPT ![p] = 0]
          /\ events' = Append(events, Event("rename", p))
     ELSE UNCHANGED <<watch, events>>
  /\ UNCHANGED version

Create(p) ==
  /\ ~Exists(p) /\ version < MaxVersion
  /\ version' = version + 1
  /\ disk' = [disk EXCEPT ![p] = File(version', version')]
  /\ UNCHANGED <<watch, events>>

(* watching: whether the watcher would learn of a change that happens now. *)
FileChange(watching) ==
  /\ \/ Replace
     \/ \E p \in Paths : Truncate(p) \/ Fill(p) \/ Delete(p) \/ Move(p) \/ Create(p) \/ Unlink(p)
  /\ mishaps' = mishaps \cup (IF watching THEN {} ELSE {"early"})
                       \cup (IF \E p \in Paths : disk'[p] = Missing THEN {"missing"} ELSE {})

FileTypeOK ==
  /\ mishaps \subseteq {"missing", "early"}
  /\ version \in 1..MaxVersion
  /\ disk \in [Paths -> [inode : 0..MaxVersion, body : 0..MaxVersion]]
  /\ watch \in [Paths -> 0..MaxVersion]
  /\ events \in Seq([op : {"write", "remove", "rename"}, path : Paths])

(* Whatever happened to the files has been told. *)
FilesAtRest == events = <<>> /\ \A p \in Paths : ~Unlinkable(p)
=============================================================================
