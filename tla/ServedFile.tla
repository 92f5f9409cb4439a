------------------------------ MODULE ServedFile ------------------------------
(***************************************************************************)
(* What a server that follows a file promises its clients, whatever it     *)
(* does to keep the promise: what is served is always something the file   *)
(* described at the very moment it was put in service, it is replaced in   *)
(* one step and never withdrawn, and for as long as the server is bound to *)
(* follow the file, it comes to serve what the file describes again and    *)
(* again.  ConfigWatcher implements this specification.                    *)
(***************************************************************************)
CONSTANTS Contents,   \* what a usable file may describe
          None        \* what an unusable file describes, and what is served at first

VARIABLES file,       \* what the file describes
          served,
          bound       \* whether the server is bound to follow the file

vars == <<file, served, bound>>

Init == file \in Contents \cup {None} /\ served = None /\ bound = TRUE

(* The file changes, or something happens that releases the server. *)
Change ==
  /\ file' \in Contents \cup {None}
  /\ bound' \in {bound, FALSE}
  /\ UNCHANGED served

Load ==
  /\ file # None
  /\ served' = file
  /\ UNCHANGED <<file, bound>>

Next == Change \/ Load

(* The promise on every step, and the promise to follow the file. *)
Safety == Init /\ [][Next]_vars
FollowsAgainAndAgain == []<>(bound => file \in {None, served})

Spec == Safety /\ FollowsAgainAndAgain
=============================================================================
