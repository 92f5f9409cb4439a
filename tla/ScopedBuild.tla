----------------------------- MODULE ScopedBuild -----------------------------
(***************************************************************************)
(* One call of NewScopedExecutor with any configuration, and what the      *)
(* three routers of its result do with any reference.                      *)
(***************************************************************************)
EXTENDS ScopedExecutor

CONSTANTS Configurations,   \* lists of groups of options a caller may hand over
          Probes            \* references that are looked up in the result

(* Decoders and the registry library leave only well-formed values. *)
ASSUME ConfigurationsAssumption == \A c \in Configurations : c \in Seq(GroupOptions)
ASSUME ProbesAssumption == \A a \in Probes : a \in References

VARIABLES handed,     \* the configuration
          returned    \* what NewScopedExecutor returned: a sequence of at most one result

buildVars == <<handed, returned>>

BuildInit == handed \in Configurations /\ returned = <<>>

Build == /\ returned = <<>>
         /\ returned' = <<NewScopedExecutor(handed)>>
         /\ UNCHANGED handed

BuildSpec == BuildInit /\ [][Build]_buildVars

-----------------------------------------------------------------------------
IsBuilt == returned # <<>> /\ returned[1].ok

(* NewScopedExecutor succeeds exactly on the configurations in which every
   group has scopes and working plugins, every scope is legal and no scope is
   claimed twice: in particular the answer does not depend on the order of
   the groups, which a Go map iteration leaves open in refreshExecutor. *)
BuildsExactlyWhenLegal ==
  returned # <<>> => (returned[1].ok <=> LegalConfiguration(handed))

(* Every artifact is routed to the group that owns the most specific scope
   covering it.  One that some scope covers is refused only when every such
   scope is a wildcard two or more labels above it: the single label that
   matchExecutor cuts off does not reach that far, although the comment on
   ScopedExecutor says it does (WildcardCoversSubdomains). *)
RoutesToMostSpecific ==
  IsBuilt => \A a \in Probes : RoutedByScope(returned[1].val, handed, a)

(* What the comments on ScopedExecutor and on the Cosign verifier's options say:
   "*.example.com" matches any subdomain of example.com, so that an artifact
   finds an executor exactly when a scope covers it.  The code looks up only the
   name with its first label cut off. *)
WildcardCoversSubdomains ==
  IsBuilt => \A a \in Probes :
               matchExecutor(returned[1].val, a).ok <=> Covering(handed, a) # {}

(* The three routers agree: an artifact the executor accepts is also routed by
   the executor's store and by its Cosign verifiers, when the store or a trust
   policy leaves its scopes to the executor (store.New, cosign NewVerifier). *)
RoutersAgree ==
  IsBuilt => \A a \in Probes : RoutedInside(returned[1].val, a)
=============================================================================
