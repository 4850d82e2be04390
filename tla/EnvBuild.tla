------------------------------- MODULE EnvBuild -------------------------------
(***************************************************************************)
(* How a session gets the project's environment (Runtime.boot and          *)
(* install_env in runtime/session.py, the sources of runtime/bootstrap.py, *)
(* cached_env and cache_env_from in store/volume.py): an archive restored  *)
(* and checked, or a sync, and a built environment packed for the next     *)
(* machine.  The sessions declare one environment; any step may fail.      *)
(***************************************************************************)
EXTENDS Integers

CONSTANTS Builds,    \* sessions that are started
          Archives,  \* how many volumes the declaration names
          AnyCard,   \* any_accelerator of the account
          OneBoot    \* whether a machine that keeps its disk has one session at a time

VARIABLES
  keeps,     \* Provider.persistent: one machine, whose disk outlives its sessions
  managed,   \* not Provider.remote_env: the account names the interpreter
  travels,   \* whether the tree holds the interpreter its .venv was made with
  at,        \* where each boot is
  volume,    \* the volume it looks at next
  tree,      \* per machine the project directory: none, part, alien, bare (no extras), whole
  source,    \* Runtime.env_source
  archive    \* per volume what the environment's ref leads to: none, bare, whole

buildVars == <<keeps, managed, travels, at, volume, tree, source, archive>>
settings == <<keeps, managed, travels>>

BuildInit ==
  /\ keeps \in BOOLEAN /\ managed \in BOOLEAN /\ travels \in BOOLEAN
  /\ at = [s \in Builds |-> "out"] /\ volume = [s \in Builds |-> 1]
  /\ tree = [s \in Builds |-> "none"] /\ source = [s \in Builds |-> "none"]
  /\ archive = [v \in 1 .. Archives |-> "none"]

Machine(s) == IF keeps THEN CHOOSE m \in Builds : TRUE ELSE s
Tree(s) == tree[Machine(s)]
Leaves(s, state) == tree' = [tree EXCEPT ![Machine(s)] = state]
Goes(s, where) == at' = [at EXCEPT ![s] = where]
Out == {"out", "failed"}
\* _environment_volumes: a machine that keeps its disk has the .venv already.
Volumes == IF keeps THEN {} ELSE 1 .. Archives

\* A machine of its own comes empty.
BootBegins(s) ==
  /\ at[s] \in Out /\ (OneBoot /\ keeps => \A q \in Builds : at[q] \in Out)
  /\ Goes(s, "cards") /\ volume' = [volume EXCEPT ![s] = 1] /\ source' = [source EXCEPT ![s] = "none"]
  /\ IF keeps THEN UNCHANGED tree ELSE Leaves(s, "none")
  /\ UNCHANGED <<settings, archive>>

\* check_devices: cards that cannot be read are taken for the right ones.
Cards(s) ==
  /\ at[s] = "cards"
  /\ \E found \in {"asked", "others", "unreadable"} :
       Goes(s, IF found = "others" /\ ~AnyCard THEN "failed" ELSE IF managed THEN "version" ELSE "files")
  /\ UNCHANGED <<settings, volume, tree, source, archive>>

\* project_files refuses what could not be synced, before anything is built.
Files(s) ==
  /\ at[s] = "files" /\ \E where \in {"probe", "failed"} : Goes(s, where)
  /\ UNCHANGED <<settings, volume, tree, source, archive>>
Probes(s) ==
  /\ at[s] = "probe" /\ \E where \in {"looks", "failed"} : Goes(s, where)
  /\ UNCHANGED <<settings, volume, tree, source, archive>>

NextVolume(s) == volume' = [volume EXCEPT ![s] = @ + 1]
\* cached_env, then materialize: pulled by the machine or sent through the channel, and unpacked.
NotCached(s) ==
  /\ at[s] = "looks" /\ volume[s] \in Volumes /\ archive[volume[s]] = "none" /\ NextVolume(s)
  /\ UNCHANGED <<settings, at, tree, source, archive>>
Unpacks(s) ==
  /\ at[s] = "looks" /\ volume[s] \in Volumes /\ archive[volume[s]] # "none"
  /\ \/ Goes(s, "checks") /\ Leaves(s, IF travels THEN archive[volume[s]] ELSE "alien")
     \/ Goes(s, "failed") /\ \E left \in {Tree(s), "part"} : Leaves(s, left)
  /\ UNCHANGED <<settings, volume, source, archive>>
\* venv_check_source: whether the restored interpreter starts.
InterpreterStarts(s) == Tree(s) \in {"bare", "whole"}
ChecksRestored(s) ==
  /\ at[s] = "checks"
  /\ IF InterpreterStarts(s)
     THEN Goes(s, "moves") /\ source' = [source EXCEPT ![s] = "archive"] /\ UNCHANGED volume
     ELSE Goes(s, "looks") /\ NextVolume(s) /\ UNCHANGED source
  /\ UNCHANGED <<settings, tree, archive>>

\* sync_source: uv sync makes the tree what the lock says, then the extras and the commands.
Syncs(s) ==
  /\ at[s] = "looks" /\ volume[s] \notin Volumes
  /\ \/ Goes(s, "extras") /\ Leaves(s, "bare")
     \/ Goes(s, "failed") /\ \E left \in {Tree(s), "part"} : Leaves(s, left)
  /\ UNCHANGED <<settings, volume, source, archive>>
Extras(s) ==
  /\ at[s] = "extras"
  /\ \/ Goes(s, "moves") /\ Leaves(s, "whole") /\ source' = [source EXCEPT ![s] = "sync"]
     \/ Goes(s, "failed") /\ UNCHANGED <<tree, source>>
  /\ UNCHANGED <<settings, volume, archive>>

\* switch_interpreter, and the workspace entered again.
Enters(s) ==
  /\ at[s] = "moves"
  /\ \/ InterpreterStarts(s) /\ Goes(s, "version")
     \/ Goes(s, "failed")
  /\ UNCHANGED <<settings, volume, tree, source, archive>>
\* check_interpreter: only an interpreter letify did not choose can be another one.
Version(s) ==
  /\ at[s] = "version"
  /\ \/ Goes(s, IF source[s] = "sync" /\ ~keeps THEN "packs" ELSE "attaches")
     \/ managed /\ Goes(s, "failed")
  /\ UNCHANGED <<settings, volume, tree, source, archive>>
\* Mutant: an environment is packed as soon as it is synced.
PacksSynced(s) ==
  /\ at[s] \in {"extras", "packs"} /\ ~keeps
  /\ archive' = [archive EXCEPT ![1] = Tree(s)] /\ Goes(s, IF at[s] = "packs" THEN "attaches" ELSE at[s])
  /\ UNCHANGED <<settings, volume, tree, source>>
\* cache_env_from: pack_dir, put_bytes, and last the ref.
Packs(s) ==
  /\ at[s] = "packs"
  /\ \/ archive' = [archive EXCEPT ![1] = Tree(s)] /\ Goes(s, "attaches")
     \/ Goes(s, "failed") /\ UNCHANGED archive
  /\ UNCHANGED <<settings, volume, tree, source>>
Attaches(s) ==
  /\ at[s] = "attaches" /\ \E where \in {"ready", "failed"} : Goes(s, where)
  /\ UNCHANGED <<settings, volume, tree, source, archive>>
Stops(s) ==
  /\ at[s] = "ready" /\ Goes(s, "out")
  /\ UNCHANGED <<settings, volume, tree, source, archive>>

BuildNext ==
  \E s \in Builds :
    \/ BootBegins(s) \/ Cards(s) \/ Files(s) \/ Probes(s) \/ NotCached(s) \/ Unpacks(s) \/ ChecksRestored(s)
    \/ Syncs(s) \/ Extras(s) \/ Enters(s) \/ Version(s) \/ Packs(s) \/ Attaches(s) \/ Stops(s)
BuildSpec == BuildInit /\ [][BuildNext]_buildVars

-----------------------------------------------------------------------------
\* A session in use has the whole environment, whatever failed in it or in an earlier one,
\* and a volume leads to nothing less (env.py "Two runtimes with the same key are
\* interchangeable").
EnvWhole ==
  /\ \A s \in Builds : at[s] \in {"version", "packs", "attaches", "ready"} /\ ~managed => Tree(s) = "whole"
  /\ \A v \in 1 .. Archives : archive[v] \in {"none", "whole"}
=============================================================================
