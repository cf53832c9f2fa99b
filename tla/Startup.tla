------------------------------ MODULE Startup ------------------------------
(***************************************************************************)
(* What a command of the CLI derives from its environment before it works: *)
(* AppConfig, SyncConfig and GcsConfig (xero-common/src/config.rs) and the *)
(* set-up of `xero sync` (xero-cli/src/sync.rs, resolve.rs).               *)
(*                                                                         *)
(* An environment holds blocks of credentials: the explicit XERO_CC_* one  *)
(* and numbered XERO_ORG_<label>_* ones.  A block is the set of variables  *)
(* that are present, that is, not blank, and the tenant id it names; its   *)
(* label stands for its secret.  The number in a label may be written with *)
(* a leading zero, which config.rs parses but never looks up.              *)
(***************************************************************************)
EXTENDS LocalSink

Explicit == [number |-> 0, padded |-> FALSE]
Numbered(n) == [number |-> n, padded |-> FALSE]
Padded(n) == [number |-> n, padded |-> TRUE]

Required == {"CLIENT_ID", "CLIENT_SECRET", "TENANT_ID"}

(* GCS_PREFIX: not set, set to the empty string, or to a path.             *)
NoPrefix == [value |-> "unset"]
EmptyPrefix == [value |-> "empty"]
Prefix(path) == [value |-> "path", path |-> path]

DefaultPrefix == Relative(<<"raw", "xero">>)
----------------------------------------------------------------------------
(* The block is there: explicit_/numbered_custom_connection does not       *)
(* return None.                                                            *)
Present(env, label) ==
  label \in DOMAIN env.blocks /\ env.blocks[label].present # {}

(* It lacks a variable that is required then: the function returns Err.    *)
Incomplete(env, label) ==
  Present(env, label) /\ ~(Required \subseteq env.blocks[label].present)

(* numbered_org_indices(): the numbers any variable is named after.        *)
OrgIndices(env) == {label.number : label \in DOMAIN env.blocks} \ {0}

(* Mutant of Labels: only the block the org index selects is read.         *)
SelectedLabels(env) ==
  {label \in {Explicit, env.org_index} : Present(env, label)}

(* The blocks custom_connection_configs() reads: the explicit one, then    *)
(* the numbered ones by their numbers.                                     *)
Labels(env) ==
  {label \in {Explicit} \cup {Numbered(n) : n \in OrgIndices(env)} :
     Present(env, label)}

Naming(env, t) == {label \in Labels(env) : env.blocks[label].tenant = t}

(* Its result as the credentials of each tenant: of several blocks that    *)
(* name one tenant the first is kept.                                      *)
Connections(env) ==
  [t \in {env.blocks[label].tenant : label \in Labels(env)} |->
     CHOOSE first \in Naming(env, t) :
       \A label \in Naming(env, t) : first.number <= label.number]

(* selected_custom_connection(): the label of the default connection.      *)
Selected(env) == IF Present(env, Explicit) THEN Explicit ELSE env.org_index

(* require_custom_connection(): unset, or an alias of the only mode.       *)
SupportsConnectionType(env) == env.connection_type \in {"unset", "custom"}

(* custom_connection_org_index(): positive, however it is written.         *)
ValidOrgIndex(env) == env.org_index.number > 0

(* AppConfig::from_map returns Ok.                                         *)
AppConfigLoads(env) ==
  /\ SupportsConnectionType(env)
  /\ ValidOrgIndex(env)
  /\ \A label \in Labels(env) : ~Incomplete(env, label)
  /\ Labels(env) # {}
  /\ Present(env, Selected(env)) /\ ~Incomplete(env, Selected(env))

(* SyncConfig::from_map returns Ok: every number that is set parses.       *)
SyncConfigLoads(env) == env.tuning_parses

(* The reserved namespace of the run manifests (manifest.rs:15).           *)
UnderManifests(path) ==
  path.segments # <<>> /\ path.segments[1] = "_manifests"

(* GCS_PREFIX as GcsConfig reads it: an empty value counts as unset.       *)
ConfiguredPrefix(env) ==
  IF env.prefix.value = "path" THEN env.prefix.path ELSE DefaultPrefix

(* GcsConfig::from_map returns Ok.                                         *)
GcsConfigLoads(env) == env.bucket /\ ~UnderManifests(ConfiguredPrefix(env))

(* What resolve_gcs_config() falls back to in a dry run, on any error of   *)
(* GcsConfig: the variable as it is.  "/" follows it in every key, so an   *)
(* empty one makes the keys absolute.                                      *)
FallbackPrefix(env) ==
  CASE env.prefix.value = "path" -> env.prefix.path
    [] env.prefix.value = "empty" -> Absolute(<<>>)
    [] env.prefix.value = "unset" -> DefaultPrefix

KeyPrefix(env) ==
  IF GcsConfigLoads(env) THEN ConfiguredPrefix(env) ELSE FallbackPrefix(env)

(* object_key(), manifest_key() and sidecar_key(), as far as paths go: one *)
(* file name stands for the pages of a unit.                               *)
ObjectKey(prefix, tenant) ==
  [prefix EXCEPT !.segments = @ \o <<tenant, "page.json">>]

ManifestKey == Relative(<<"_manifests", "run.json">>)

SidecarName(name) ==
  IF name = "run.json" THEN "run.json.meta.json" ELSE "page.json.meta.json"

SidecarKey(key) ==
  [key EXCEPT !.segments = Append(Front(@), SidecarName(Last(@)))]
============================================================================
