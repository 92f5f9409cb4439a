------------------------------ MODULE MCStartup ------------------------------
(* A small instance of Startup: every command line. *)
EXTENDS Startup

AllOptions ==
  {o \in [address : BOOLEAN, tls : BOOLEAN, rotation : BOOLEAN, crd : BOOLEAN, mutation : BOOLEAN] :
     ~o.address => ~(o.tls \/ o.rotation \/ o.crd \/ o.mutation)}
=============================================================================
