----------------------------- MODULE CertWatcher -----------------------------
(***************************************************************************)
(* internal/httpserver/tlssecret/certwatcher.go: the watcher of the        *)
(* server's certificate and key and, if there is one, of Gatekeeper's CA.  *)
(* loadCerts reads three files one after the other and stores two          *)
(* pointers; a rotation can fall between any two of these steps.           *)
(***************************************************************************)
EXTENDS FileWatcher

ASSUME PathsAssumption == Paths \in {{"cert", "key"}, {"cert", "key", "ca"}}

VARIABLES stage,       \* of the goroutine that runs the watcher
          started,     \* whether Start has returned
          cert,        \* the certificate LoadX509KeyPair has read
          pair,        \* ratifyServerTLSCert
          clientCAs    \* the pool, None when the pointer is nil

vars == <<disk, watch, events, version, mishaps, stage, started, cert, pair, clientCAs>>

None == [body |-> {}]
Some(body) == [body |-> {body}]

Init == /\ FileInit /\ stage = "ca" /\ started = FALSE
        /\ cert = Torn /\ pair = None /\ clientCAs = None

(* The bug of going on after a first load that failed. *)
AfterLoad_Lenient(ok) == IF started THEN "idle" ELSE "loaded"

(* Where the goroutine goes when a load is over. *)
AfterLoad(ok) == IF started THEN "idle" ELSE IF ok THEN "loaded" ELSE "exited"

(* loadCerts, the CA: a pool is stored even from a file nothing can be parsed of. *)
loadCA ==
  /\ stage = "ca"
  /\ IF "ca" \notin Paths THEN stage' = "cert" /\ UNCHANGED clientCAs
     ELSE IF ~Exists("ca") THEN stage' = AfterLoad(FALSE) /\ UNCHANGED clientCAs
     ELSE stage' = "cert" /\ clientCAs' = Some(disk["ca"].body)
  /\ UNCHANGED <<disk, watch, events, version, mishaps, started, cert, pair>>

(* LoadX509KeyPair reads the certificate, then the key, and compares them. *)
readCert ==
  /\ stage = "cert"
  /\ cert' = disk["cert"].body
  /\ stage' = IF Exists("cert") THEN "key" ELSE AfterLoad(FALSE)
  /\ UNCHANGED <<disk, watch, events, version, mishaps, started, pair, clientCAs>>

(* The bug of storing a pair that LoadX509KeyPair refused. *)
loadKeyPair_Unchecked ==
  /\ stage = "key"
  /\ pair' = Some(cert) /\ stage' = AfterLoad(TRUE)
  /\ UNCHANGED <<disk, watch, events, version, mishaps, started, cert, clientCAs>>

loadKeyPair ==
  /\ stage = "key"
  /\ IF Readable("key") /\ disk["key"].body = cert
     THEN pair' = Some(cert) /\ stage' = AfterLoad(TRUE)
     ELSE UNCHANGED pair /\ stage' = AfterLoad(FALSE)
  /\ UNCHANGED <<disk, watch, events, version, mishaps, started, cert, clientCAs>>

Start ==
  /\ stage = "loaded"
  /\ IF \A p \in Paths : Exists(p)
     THEN /\ watch' = [p \in Paths |-> disk[p].inode]
          /\ stage' = "idle" /\ started' = TRUE
     ELSE stage' = "exited" /\ UNCHANGED <<watch, started>>
  /\ UNCHANGED <<disk, events, version, mishaps, cert, pair, clientCAs>>

(* The bug of a Remove event that reloads and does not watch the new file. *)
handleEvent_NoRewatch ==
  /\ stage = "idle" /\ events # <<>>
  /\ events' = Tail(events)
  /\ stage' = IF Head(events).op = "rename" THEN "idle" ELSE "ca"
  /\ UNCHANGED <<disk, watch, version, mishaps, started, cert, pair, clientCAs>>

(* watch: a Remove event re-watches its file; all but Rename reload. *)
handleEvent ==
  /\ stage = "idle" /\ events # <<>>
  /\ events' = Tail(events)
  /\ LET e == Head(events)
     IN /\ IF e.op = "remove" THEN Add(e.path) ELSE UNCHANGED watch
        /\ stage' = IF e.op = "rename" THEN "idle" ELSE "ca"
  /\ UNCHANGED <<disk, version, mishaps, started, cert, pair, clientCAs>>

Stop ==
  /\ stage = "idle"
  /\ stage' = "exited"
  /\ UNCHANGED <<disk, watch, events, version, mishaps, started, cert, pair, clientCAs>>

(* What a handshake gets, from the two pointers as they are at that moment; a
   certificate that is None is the nil pointer the code dereferences. *)
GetConfigForClient ==
  [certificate |-> pair, clientCAs |-> clientCAs,
   demandsClientCert |-> clientCAs # None]

FileStep == FileChange(started) /\ UNCHANGED <<stage, started, cert, pair, clientCAs>>

Next == loadCA \/ readCert \/ loadKeyPair \/ Start \/ handleEvent \/ Stop \/ FileStep

Spec == Init /\ [][Next]_vars

-----------------------------------------------------------------------------
Optional(S) == [body : {{x} : x \in S} \cup {{}}]

(* Every variable holds a value of its kind: in particular the server never
   presents a certificate whose key was being written (loadCerts). *)
TypeOK ==
  /\ FileTypeOK
  /\ stage \in {"ca", "cert", "key", "loaded", "idle", "exited"} /\ started \in BOOLEAN
  /\ cert \in 0..MaxVersion
  /\ pair \in Optional(1..MaxVersion)
  /\ clientCAs \in Optional(0..MaxVersion)

PairOnDisk ==
  /\ Readable("cert") /\ Readable("key") /\ disk["cert"].body = disk["key"].body

(* As long as no file went missing or changed before it was watched: whenever
   nothing is left to handle and the three files belong together, the server
   presents their certificate and trusts their CA, although a rotation
   may fall between any two reads and loadCerts stores the CA of a rotation
   whose key pair it then fails to load. *)
ServesRotation ==
  (mishaps = {} /\ stage = "idle" /\ FilesAtRest /\ PairOnDisk /\ \A p \in Paths : Readable(p)) =>
    /\ GetConfigForClient.certificate = Some(disk["cert"].body)
    /\ "ca" \in Paths => GetConfigForClient.clientCAs = Some(disk["ca"].body)

(* GetConfigForClient demands client certificates from the first handshake on
   whenever a Gatekeeper CA is configured: the pool is never nil once the
   server listens, and the certificate it dereferences never is. *)
HandshakeReady ==
  (started /\ stage # "exited") =>
    /\ GetConfigForClient.certificate # None
    /\ "ca" \in Paths => GetConfigForClient.demandsClientCert
=============================================================================
