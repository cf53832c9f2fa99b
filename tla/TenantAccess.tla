---------------------------- MODULE TenantAccess ---------------------------
(***************************************************************************)
(* One process of the CLI (`xero sync` or `xero healthcheck`) from its     *)
(* environment to its end, as far as access to the tenants goes: the       *)
(* configuration (Startup), the token cache (TokenCache) and the limiters  *)
(* (RateLimiter) composed, with the units of a run between them.           *)
(*                                                                         *)
(* A unit takes its token once, at its start, and uses it for every page   *)
(* it fetches; only then it uploads.  What a unit does beside (kinds of    *)
(* pagination, retries, sidecars, crashes) is in SyncRun; here a unit      *)
(* fetches Pages pages, each behind a permit, and writes one object.       *)
(***************************************************************************)
EXTENDS Startup, TokenCache, RateLimiter

CONSTANTS
  Cases,      \* [env, args] records: the processes that may be started
  MaxUnits,   \* units in flight: MAX_CONCURRENCY, 6 in the code
  Pages,      \* pages of a unit
  Segments,   \* what may stand between two "/" of a path, "." and ".." too
  WorkDir     \* the directory the process runs in, as segments from "/"

Paths == [absolute : BOOLEAN, segments : Seq(Segments)]

FileNames == {"page.json", "page.json.meta.json",
              "run.json", "run.json.meta.json"}

(* The label of a block is its credentials; what it names is a tenant.     *)
ASSUME AccessAssumption ==
  /\ IsFiniteSet(Tenants)
  /\ Pages \in Nat \ {0}
  /\ Credentials \subseteq [number : Nat, padded : BOOLEAN]
  /\ \A case \in Cases : \A label \in DOMAIN case.env.blocks :
       /\ label \in Credentials
       /\ case.env.blocks[label].tenant \in Tenants
  /\ "/" \notin Segments
  /\ Tenants \cup FileNames \cup {"raw", "xero", "_manifests"} \subseteq Segments
  /\ WorkDir \in Seq(Segments)
  /\ \A case \in Cases :
       /\ case.args.command = "sync" /\ case.args.dry_run =>
            case.args.local_dir \in Paths
       /\ case.env.prefix.value \in {"unset", "empty", "path"}
       /\ case.env.prefix.value = "path" => case.env.prefix.path \in Paths

VARIABLES
  env, args,  \* the environment and the command line, read only
  stage,      \* how far the command is
  prefix,     \* GcsConfig.prefix
  failures,   \* checks of healthcheck that did not pass
  checked,    \* tenants healthcheck has tried
  pc,         \* where each unit is
  left,       \* pages each unit still has to fetch
  written     \* keys put into the sink

commandVars == <<env, args, stage, prefix, failures, checked>>
unitVars == <<pc, left, written>>
vars == <<commandVars, unitVars, tokenVars, limiterVars>>

Stages == {"start", "sink", "running", "minting", "bucket",
           "refused", "finished", "no_manifest", "healthy", "unhealthy"}

UnitStates == {"queued", "token", "pages", "upload",
               "done", "no_token", "unauthorized", "refused", "failed"}

Settled == {"done", "no_token", "unauthorized", "refused", "failed"}

AccessTypeOK ==
  /\ TokenTypeOK
  /\ LimiterTypeOK
  /\ stage \in Stages
  /\ failures \in 0..(Cardinality(Tenants) + 1)
  /\ checked \subseteq Tenants
  /\ pc \in [Callers -> UnitStates]
  /\ left \in [Callers -> 0..Pages]

AccessInit ==
  /\ \E case \in Cases : env = case.env /\ args = case.args
  /\ stage = "start"
  /\ prefix = DefaultPrefix
  /\ failures = 0
  /\ checked = {}
  /\ pc = [c \in Callers |-> "queued"]
  /\ left = [c \in Callers |-> Pages]
  /\ written = {}
  /\ TokenInit
  /\ LimiterInit
----------------------------------------------------------------------------
(* resolve_tenants(): all that are configured, unless some are named.      *)
TenantsToSync ==
  IF args.tenants = {} THEN DOMAIN clients ELSE args.tenants

Units == {c \in Callers : TenantOf[c] \in TenantsToSync}

(* run() of sync.rs up to its first await.                                 *)
StartupSucceeds ==
  /\ AppConfigLoads(env)
  /\ SyncConfigLoads(env)
  /\ args.tenants \subseteq DOMAIN Connections(env)
  /\ GcsConfigLoads(env) \/ args.dry_run

StartSync ==
  /\ stage = "start"
  /\ args.command = "sync"
  /\ StartupSucceeds
  /\ stage' = "sink"
  /\ prefix' = KeyPrefix(env)
  /\ NewClients(Connections(env))
  /\ UNCHANGED <<env, args, failures, checked, unitVars, limiterVars>>

(* healthcheck reads AppConfig only.                                       *)
StartHealthcheck ==
  /\ stage = "start"
  /\ args.command = "healthcheck"
  /\ AppConfigLoads(env)
  /\ stage' = "minting"
  /\ NewClients(Connections(env))
  /\ UNCHANGED <<env, args, prefix, failures, checked, unitVars, limiterVars>>

StartFails ==
  /\ stage = "start"
  /\ IF args.command = "sync" THEN ~StartupSucceeds ELSE ~AppConfigLoads(env)
  /\ stage' = "refused"
  /\ UNCHANGED <<env, args, prefix, failures, checked>>
  /\ UNCHANGED <<unitVars, tokenVars, limiterVars>>

(* build_sink(): the GCS client authenticates, which may fail; a local     *)
(* sink is only remembered.                                                *)
BuildSink ==
  /\ stage = "sink"
  /\ stage' \in {"running"} \cup (IF args.dry_run THEN {} ELSE {"refused"})
  /\ UNCHANGED <<env, args, prefix, failures, checked>>
  /\ UNCHANGED <<unitVars, tokenVars, limiterVars>>
----------------------------------------------------------------------------
Transition(c, from, to) ==
  /\ pc[c] = from
  /\ pc' = [pc EXCEPT ![c] = to]

InFlight == {c \in Units : pc[c] \notin Settled \cup {"queued"}}

(* A unit starts and awaits fetch_token_for_tenant().                      *)
StartUnit(c) ==
  /\ stage = "running"
  /\ c \in Units
  /\ Cardinality(InFlight) < MaxUnits
  /\ \/ UseCached(c) /\ Transition(c, "queued", "pages")
     \/ AskToken(c) /\ Transition(c, "queued", "token")
  /\ UNCHANGED <<commandVars, left, written, limiterVars>>

(* The token endpoint works for a unit, or for healthcheck.                *)
Issue(c) ==
  /\ IssueToken(c)
  /\ UNCHANGED <<commandVars, unitVars, limiterVars>>

UnitToken(c) ==
  /\ \/ ReceiveToken(c) /\ Transition(c, "token", "pages")
     \/ MintFails(c) /\ Transition(c, "token", "no_token")
  /\ UNCHANGED <<commandVars, left, written, limiterVars>>

(* acquire() before each request of the unit.                              *)
Acquire(c) ==
  /\ pc[c] = "pages"
  /\ TakePermit(c) \/ Throttle(c) \/ WakeAndTakePermit(c)
  /\ UNCHANGED <<commandVars, unitVars, tokenVars>>

(* A page arrives; after the last one the unit uploads.                    *)
PageArrives(c) ==
  /\ Respond(c)
  /\ Accepted(token[c])
  /\ left' = [left EXCEPT ![c] = @ - 1]
  /\ Transition(c, "pages", IF left[c] = 1 THEN "upload" ELSE "pages")
  /\ UNCHANGED <<commandVars, written, tokenVars>>

(* Xero answers 401: not retried, and the pages so far are dropped.        *)
Unauthorized(c) ==
  /\ Respond(c)
  /\ ~Accepted(token[c])
  /\ Transition(c, "pages", "unauthorized")
  /\ UNCHANGED <<commandVars, left, written, tokenVars>>

(* Any other failure of a request that is not retried (again).             *)
PageFails(c) ==
  /\ Respond(c)
  /\ Transition(c, "pages", "failed")
  /\ UNCHANGED <<commandVars, left, written, tokenVars>>

(* The sink takes key: the bucket takes any, a local root may refuse it.   *)
SinkTakes(key) == args.dry_run => ResolvesWithinRoot(args.local_dir, key)

(* put_raw() of a body and its sidecar, in this order.  When one of the    *)
(* two is refused, or cannot be written, the body may stay without it.     *)
PutRaw(key) ==
  /\ SinkTakes(key) /\ SinkTakes(SidecarKey(key))
  /\ written' = written \cup {key, SidecarKey(key)}

PutRefused(key) ==
  /\ ~(SinkTakes(key) /\ SinkTakes(SidecarKey(key)))
  /\ written' = written \cup {k \in {key} : SinkTakes(k)}

PutFails(key) ==
  \/ UNCHANGED written
  \/ SinkTakes(key) /\ written' = written \cup {key}

Upload(c) ==
  LET key == ObjectKey(prefix, TenantOf[c]) IN
  /\ \/ Transition(c, "upload", "done") /\ PutRaw(key)
     \/ Transition(c, "upload", "refused") /\ PutRefused(key)
  /\ UNCHANGED <<commandVars, left, tokenVars, limiterVars>>

UploadFails(c) ==
  /\ Transition(c, "upload", "failed")
  /\ PutFails(ObjectKey(prefix, TenantOf[c]))
  /\ UNCHANGED <<commandVars, left, tokenVars, limiterVars>>

(* write_manifest(): the command succeeds with it, whatever the units did. *)
WriteManifest ==
  /\ stage = "running"
  /\ \A c \in Units : pc[c] \in Settled
  /\ \/ stage' = "finished" /\ PutRaw(ManifestKey)
     \/ stage' = "no_manifest" /\ (PutRefused(ManifestKey) \/ PutFails(ManifestKey))
  /\ UNCHANGED <<env, args, prefix, failures, checked>>
  /\ UNCHANGED <<pc, left, tokenVars, limiterVars>>
----------------------------------------------------------------------------
(* Mutant of CheckTenant: a tenant that failed is tried again.             *)
CheckTenantAgain(c) ==
  /\ stage = "minting"
  /\ TenantOf[c] \in DOMAIN clients \ checked
  /\ AskToken(c)
  /\ \A d \in Callers : asked[d] = None
  /\ UNCHANGED <<commandVars, unitVars, limiterVars>>

(* healthcheck awaits one token after the other; caller c stands for its   *)
(* request for TenantOf[c].                                                *)
CheckTenant(c) ==
  /\ stage = "minting"
  /\ TenantOf[c] \in DOMAIN clients \ checked
  /\ AskToken(c)
  /\ checked' = checked \cup {TenantOf[c]}
  /\ \A d \in Callers : asked[d] = None
  /\ UNCHANGED <<env, args, stage, prefix, failures, unitVars, limiterVars>>

TenantHealthy(c) ==
  /\ stage = "minting"
  /\ ReceiveToken(c)
  /\ UNCHANGED <<commandVars, unitVars, limiterVars>>

(* Mutant of TenantUnhealthy: the failure is only printed.                 *)
TenantUnhealthyUncounted(c) ==
  /\ stage = "minting"
  /\ MintFails(c)
  /\ UNCHANGED <<commandVars, unitVars, limiterVars>>

(* A failure is counted, and the other tenants are still tried.            *)
TenantUnhealthy(c) ==
  /\ stage = "minting"
  /\ MintFails(c)
  /\ failures' = failures + 1
  /\ UNCHANGED <<env, args, stage, prefix, checked, unitVars, limiterVars>>

Verdict(count) == IF count > 0 THEN "unhealthy" ELSE "healthy"

(* With --check-bucket the sink is built too; a GcsConfig that does not    *)
(* load ends the command at once.                                          *)
CheckBucket ==
  /\ stage = "minting"
  /\ checked = DOMAIN clients
  /\ \A c \in Callers : asked[c] = None
  /\ IF ~args.check_bucket
     THEN stage' = Verdict(failures) /\ UNCHANGED failures
     ELSE IF ~GcsConfigLoads(env)
     THEN stage' = "refused" /\ UNCHANGED failures
     ELSE \E failed \in {0, 1} :
            /\ failures' = failures + failed
            /\ stage' = Verdict(failures + failed)
  /\ UNCHANGED <<env, args, prefix, checked, unitVars, tokenVars, limiterVars>>
----------------------------------------------------------------------------
(* Time passes while anything is awaited.                                  *)
TimePasses ==
  /\ stage \in {"running", "minting"}
  /\ Tick
  /\ UNCHANGED <<commandVars, unitVars, limiterVars>>

AccessNext ==
  \/ StartSync \/ StartHealthcheck \/ StartFails \/ BuildSink
  \/ \E c \in Callers :
       \/ StartUnit(c) \/ Issue(c) \/ UnitToken(c) \/ Acquire(c)
       \/ PageArrives(c) \/ Unauthorized(c) \/ PageFails(c)
       \/ Upload(c) \/ UploadFails(c)
       \/ CheckTenant(c) \/ TenantHealthy(c) \/ TenantUnhealthy(c)
  \/ WriteManifest \/ CheckBucket \/ TimePasses

AccessSpec == AccessInit /\ [][AccessNext]_vars
----------------------------------------------------------------------------
(* The tenants a complete block of the environment names.                  *)
ConfiguredTenants ==
  {env.blocks[label].tenant :
     label \in {l \in DOMAIN env.blocks :
                  ~l.padded /\ Present(env, l) /\ ~Incomplete(env, l)}}

(* "All configured custom connections (explicit plus every XERO_ORG_N_*    *)
(* block)" (config.rs:36): a sync that names no tenant and writes its      *)
(* manifest has brought the units of every configured tenant to an         *)
(* outcome, with credentials of a block that names this tenant.            *)
EveryBlockServed ==
  (args.command = "sync" /\ args.tenants = {} /\ stage = "finished") =>
    \A t \in ConfiguredTenants :
      /\ t \in DOMAIN clients
      /\ env.blocks[clients[t]].tenant = t
      /\ \A c \in Callers : TenantOf[c] = t => pc[c] \in Settled

(* "All systems healthy" (health.rs:57): it is printed only if every       *)
(* configured tenant's own credentials were good for a token in this       *)
(* process, whatever order they were tried in and whichever failed.        *)
HealthyMeansAll ==
  stage = "healthy" =>
    /\ \A t \in ConfiguredTenants :
         \E c \in Callers :
           /\ token[c] # None
           /\ env.blocks[token[c].creds].tenant = t
    /\ args.check_bucket => GcsConfigLoads(env)

(* The time a unit that is told 401 has held its token: at least the       *)
(* refresh margin less the latency of the token's answer.  A unit that     *)
(* pages faster than that never loses its pages to an expired token.       *)
UnauthorizedIsLate ==
  \A c \in Callers :
    pc[c] = "unauthorized" =>
      now >= takenAt[c] + Min2(RefreshBuffer, Lifetime) - MaxLatency

Place(path) == Follow(WorkDir, path)

(* sink.rs:132-140: a file of a dry run is at the place its key names      *)
(* below the root, however many ".." the root and the key have, and that   *)
(* place is inside the root.  An empty root is excepted: every path starts *)
(* with it, so an absolute key is taken.                                   *)
WrittenWhereNamed ==
  (/\ args.command = "sync" /\ args.dry_run
   /\ Components(args.local_dir) # <<>>) =>
    \A key \in written :
      LET place == Place(Resolved(args.local_dir, key)) IN
      /\ place = Place(Join(args.local_dir, key))
      /\ IsPrefix(Place(args.local_dir), place)

(* "Resolve key to a path strictly under root, rejecting any key that      *)
(* would escape the root directory" (sink.rs:132-133): a unit of a dry run *)
(* is refused by its sink only if its key leads out of the root.           *)
RefusedMeansEscapes ==
  \A c \in Callers :
    pc[c] = "refused" =>
      ~IsPrefix(Place(args.local_dir),
                Place(Join(args.local_dir, ObjectKey(prefix, TenantOf[c]))))
============================================================================
