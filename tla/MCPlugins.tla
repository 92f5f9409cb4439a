------------------------------ MODULE MCPlugins ------------------------------
(***************************************************************************)
(* The plugins: an executor that is built of them (ScopedBuild), what they *)
(* make of their inputs (PluginInputs, PolicyTrees), and the external ones *)
(* that are downloaded and run (PluginHost).  A behaviour is of one of     *)
(* these, chosen by suite; the variables of the others stay as they are.   *)
(***************************************************************************)
EXTENDS MCScopedExecutor, MCPluginInputs, PluginHost

PluginManifest(type, blobs) == [type |-> type, blobs |-> blobs]
PluginSources == {[parses |-> TRUE, manifest |-> PluginManifest("image", 1)],
                  [parses |-> TRUE, manifest |-> PluginManifest("index", 1)],
                  [parses |-> TRUE, manifest |-> PluginManifest("artifact", 0)],
                  [parses |-> FALSE, manifest |-> PluginManifest("artifact", 1)]}

AllSearches == {[name |-> "plugin", paths |-> <<"directory", "regular">>],
                [name |-> "plugin", paths |-> <<"nothing">>],
                [name |-> "plugin", paths |-> <<>>], [name |-> "none", paths |-> <<"regular">>]}

NoInput == input = "none" /\ result = <<>>
NothingHanded == handed = <<>> /\ returned = <<>>

PluginsInit ==
  /\ Init
  /\ \/ JudgeInit /\ NothingHanded
     \/ TreeInit /\ NothingHanded
     \/ suite = "build" /\ BuildInit /\ NoInput
     \/ suite = "host" /\ NoInput /\ NothingHanded

PluginsNext ==
  \/ suite \in Suites /\ Judging /\ UNCHANGED <<buildVars, vars>>
  \/ Converting /\ UNCHANGED <<buildVars, vars>>
  \/ suite = "build" /\ Build /\ UNCHANGED <<judgeVars, vars>>
  \/ suite = "host" /\ Next /\ UNCHANGED <<judgeVars, buildVars>>

PluginsSpec ==
  PluginsInit /\ [][PluginsNext]_<<judgeVars, buildVars, vars>> /\ Fairness
=============================================================================
