------------------------- MODULE TenantAccessProofs ------------------------
(* One process of the CLI serves every configured tenant with its own      *)
(* credentials, calls itself healthy only when every tenant is, and loses  *)
(* a unit's pages to an expired token only when the unit was slow: for     *)
(* every environment, every finite set of tenants and every number of      *)
(* callers, pages and units in flight.                                     *)
EXTENDS TenantAccess, AccessPartsProofs

(* The process was started in one of the cases.                            *)
Started == \E case \in Cases : env = case.env /\ args = case.args

(* Every label is credentials, and its block names a tenant.               *)
LEMMA BlockTypes ==
  ASSUME Started, NEW label \in DOMAIN env.blocks
  PROVE  /\ label \in Credentials
         /\ label.number \in Nat
         /\ env.blocks[label].tenant \in Tenants
<1>1. /\ label \in Credentials
      /\ env.blocks[label].tenant \in Tenants
  BY AccessAssumption DEF Started
<1>. QED
  BY <1>1, AccessAssumption

(* The connection of a tenant is a block that names this tenant.           *)
LEMMA ConnectionOfTenant ==
  ASSUME Started, NEW t \in DOMAIN Connections(env)
  PROVE  /\ Connections(env)[t] \in Labels(env)
         /\ env.blocks[Connections(env)[t]].tenant = t
<1> DEFINE numbers == {label.number : label \in Naming(env, t)}
<1>1. Naming(env, t) # {}
  BY DEF Connections, Naming
<1>2. \A label \in Labels(env) : label \in DOMAIN env.blocks
  BY DEF Labels, Present
<1>3. numbers \in SUBSET Nat /\ numbers # {}
  BY <1>1, <1>2, BlockTypes DEF Naming
<1>4. PICK n \in numbers : \A m \in numbers : n <= m
  <2> HIDE DEF numbers
  <2>. QED
    BY <1>3, LeastNatural
<1>5. \E first \in Naming(env, t) :
        \A label \in Naming(env, t) : first.number <= label.number
  BY <1>4
<1>6. Connections(env)[t] \in Naming(env, t)
  BY <1>5 DEF Connections
<1>. QED
  BY <1>6 DEF Naming

(* The configuration assigns credentials to tenants.                       *)
LEMMA ConnectionsType ==
  ASSUME Started
  PROVE  /\ DOMAIN Connections(env) \in SUBSET Tenants
         /\ Connections(env) \in [DOMAIN Connections(env) -> Credentials]
<1>1. \A label \in Labels(env) :
        label \in Credentials /\ env.blocks[label].tenant \in Tenants
  BY BlockTypes DEF Labels, Present
<1>2. DOMAIN Connections(env) \in SUBSET Tenants
  BY <1>1 DEF Connections
<1>3. \A t \in DOMAIN Connections(env) : Connections(env)[t] \in Credentials
  BY <1>1, ConnectionOfTenant
<1>4. Connections(env)
        = [t \in DOMAIN Connections(env) |-> Connections(env)[t]]
  BY DEF Connections
<1>. QED
  BY <1>2, <1>3, <1>4

(* Every complete block, the explicit one and each numbered one, has its   *)
(* tenant connected.                                                       *)
LEMMA EveryBlockConnected ==
  ASSUME Started
  PROVE  ConfiguredTenants \subseteq DOMAIN Connections(env)
<1> SUFFICES ASSUME NEW label \in DOMAIN env.blocks,
                    ~label.padded, Present(env, label)
             PROVE  env.blocks[label].tenant \in DOMAIN Connections(env)
  BY DEF ConfiguredTenants
<1>1. label \in [number : Nat, padded : BOOLEAN]
  BY BlockTypes, AccessAssumption
<1>2. label = Numbered(label.number)
  BY <1>1 DEF Numbered
<1>3. label = Explicit \/ label.number \in OrgIndices(env)
  BY <1>2 DEF Numbered, Explicit, OrgIndices
<1>4. label \in Labels(env)
  BY <1>2, <1>3 DEF Labels
<1>. QED
  BY <1>4 DEF Connections
----------------------------------------------------------------------------
(* A step of the process is a step of its token cache or leaves it alone.  *)
LEMMA StepOfTokens ==
  Started /\ [AccessNext]_vars => [TokenNext]_tokenVars
<1> SUFFICES ASSUME Started, [AccessNext]_vars
             PROVE  [TokenNext]_tokenVars
  OBVIOUS
<1>1. ASSUME NewClients(Connections(env))
      PROVE  TokenNext
  BY <1>1, ConnectionsType DEF TokenNext
<1>2. CASE StartSync \/ StartHealthcheck
  BY <1>1, <1>2 DEF StartSync, StartHealthcheck
<1>3. CASE StartFails \/ BuildSink \/ WriteManifest \/ CheckBucket
  BY <1>3 DEF StartFails, BuildSink, WriteManifest, CheckBucket
<1>4. ASSUME NEW c \in Callers,
             \/ StartUnit(c) \/ Issue(c) \/ UnitToken(c)
             \/ CheckTenant(c) \/ TenantHealthy(c) \/ TenantUnhealthy(c)
      PROVE  TokenNext
  <2>1. \/ UseCached(c) \/ AskToken(c) \/ IssueToken(c)
        \/ ReceiveToken(c) \/ MintFails(c)
    BY <1>4 DEF StartUnit, Issue, UnitToken, CheckTenant, TenantHealthy,
                TenantUnhealthy
  <2>. QED
    BY <2>1 DEF TokenNext
<1>5. ASSUME NEW c \in Callers,
             \/ Acquire(c) \/ PageArrives(c) \/ Unauthorized(c)
             \/ PageFails(c) \/ Upload(c) \/ UploadFails(c)
      PROVE  UNCHANGED tokenVars
  BY <1>5 DEF Acquire, PageArrives, Unauthorized, PageFails, Upload,
              UploadFails
<1>6. CASE TimePasses
  BY <1>6 DEF TimePasses, TokenNext
<1>7. CASE UNCHANGED vars
  BY <1>7 DEF vars
<1>. QED
  BY <1>2, <1>3, <1>4, <1>5, <1>6, <1>7 DEF AccessNext

(* A step of the process is a step of its limiters or leaves them alone.   *)
LEMMA StepOfLimiters == [AccessNext]_vars => [LimiterNext]_limiterVars
<1> SUFFICES ASSUME [AccessNext]_vars
             PROVE  [LimiterNext]_limiterVars
  OBVIOUS
<1>1. CASE StartSync \/ StartHealthcheck \/ StartFails \/ BuildSink
  BY <1>1 DEF StartSync, StartHealthcheck, StartFails, BuildSink
<1>2. CASE WriteManifest \/ CheckBucket \/ TimePasses
  BY <1>2 DEF WriteManifest, CheckBucket, TimePasses
<1>3. ASSUME NEW c \in Callers,
             \/ StartUnit(c) \/ Issue(c) \/ UnitToken(c) \/ Upload(c)
             \/ UploadFails(c) \/ CheckTenant(c) \/ TenantHealthy(c)
             \/ TenantUnhealthy(c)
      PROVE  UNCHANGED limiterVars
  BY <1>3 DEF StartUnit, Issue, UnitToken, Upload, UploadFails, CheckTenant,
              TenantHealthy, TenantUnhealthy
<1>4. ASSUME NEW c \in Callers,
             \/ Acquire(c) \/ PageArrives(c) \/ Unauthorized(c)
             \/ PageFails(c)
      PROVE  LimiterNext
  <2>1. \/ TakePermit(c) \/ Throttle(c) \/ WakeAndTakePermit(c)
        \/ Respond(c)
    BY <1>4 DEF Acquire, PageArrives, Unauthorized, PageFails
  <2>. QED
    BY <2>1 DEF LimiterNext
<1>5. CASE UNCHANGED vars
  BY <1>5 DEF vars
<1>. QED
  BY <1>1, <1>2, <1>3, <1>4, <1>5 DEF AccessNext

(* The environment and the command line are read only.                     *)
LEMMA EnvironmentKept == [AccessNext]_vars => UNCHANGED <<env, args>>
<1> SUFFICES ASSUME [AccessNext]_vars
             PROVE  UNCHANGED <<env, args>>
  OBVIOUS
<1>1. CASE StartSync \/ StartHealthcheck \/ StartFails \/ BuildSink
  BY <1>1 DEF StartSync, StartHealthcheck, StartFails, BuildSink
<1>2. CASE WriteManifest \/ CheckBucket \/ TimePasses
  BY <1>2 DEF WriteManifest, CheckBucket, TimePasses, commandVars
<1>3. ASSUME NEW c \in Callers,
             \/ StartUnit(c) \/ Issue(c) \/ UnitToken(c) \/ Acquire(c)
             \/ PageArrives(c) \/ Unauthorized(c) \/ PageFails(c)
             \/ Upload(c) \/ UploadFails(c)
      PROVE  UNCHANGED <<env, args>>
  BY <1>3 DEF StartUnit, Issue, UnitToken, Acquire, PageArrives,
              Unauthorized, PageFails, Upload, UploadFails, commandVars
<1>4. ASSUME NEW c \in Callers,
             CheckTenant(c) \/ TenantHealthy(c) \/ TenantUnhealthy(c)
      PROVE  UNCHANGED <<env, args>>
  BY <1>4 DEF CheckTenant, TenantHealthy, TenantUnhealthy, commandVars
<1>5. CASE UNCHANGED vars
  BY <1>5 DEF vars, commandVars
<1>. QED
  BY <1>1, <1>2, <1>3, <1>4, <1>5 DEF AccessNext

LEMMA NextStarted == Started /\ [AccessNext]_vars => Started'
BY EnvironmentKept DEF Started

(* The process runs its token cache: what TokenCache promises it keeps in  *)
(* this composition.                                                       *)
THEOREM TokensOfAccess == AccessSpec => TokenSpec
<1>1. AccessInit => TokenInit /\ Started
  BY DEF AccessInit, Started
<1>. QED
  BY <1>1, StepOfTokens, NextStarted, PTL DEF AccessSpec, TokenSpec

(* The process runs its limiters.                                          *)
THEOREM LimitersOfAccess == AccessSpec => LimiterSpec
<1>1. AccessInit => LimiterInit
  BY DEF AccessInit
<1>. QED
  BY <1>1, StepOfLimiters, PTL DEF AccessSpec, LimiterSpec

(* The counters, the credentials and the margins of TokenCache and         *)
(* RateLimiter hold in the composition, whatever units and checks do.      *)
THEOREM PartsHold ==
  AccessSpec => [](PermitAccounting /\ TokenOfOwnTenant /\ TokenGrace)
  BY TokensOfAccess, LimitersOfAccess, PermitsCounted, TokensStayWithTenants,
     TokensLast, PTL
----------------------------------------------------------------------------
(* A unit that fetches has a token and a page to fetch.                    *)
UnitInv ==
  /\ pc \in [Callers -> UnitStates]
  /\ left \in [Callers -> 0..Pages]
  /\ \A c \in Callers :
       /\ pc[c] \in {"queued", "token", "pages"} => left[c] # 0
       /\ pc[c] = "pages" => token[c] # None

(* Every stage belongs to one command, and only `sync` starts units.       *)
CommandInv ==
  /\ stage \in Stages
  /\ stage \in {"sink", "running", "finished", "no_manifest"} =>
       args.command = "sync"
  /\ stage \in {"minting", "healthy", "unhealthy"} =>
       args.command = "healthcheck"
  /\ args.command # "sync" => \A c \in Callers : pc[c] = "queued"

(* After its start the process has the clients of its configuration.       *)
ClientsInv ==
  stage \notin {"start", "refused"} => clients = Connections(env)

(* A run that has tried to write its manifest has no unit under way.       *)
SettledInv ==
  stage \in {"finished", "no_manifest"} =>
    \A c \in Units : pc[c] \in Settled

NothingAsked == \A c \in Callers : asked[c] = None

OneAsked ==
  \A c, d \in Callers : asked[c] # None /\ asked[d] # None => c = d

HasToken(t) == \E c \in Callers : TenantOf[c] = t /\ token[c] # None

BeingAsked(t) == \E c \in Callers : TenantOf[c] = t /\ asked[c] # None

(* healthcheck asks for one token at a time: each tenant it has tried has  *)
(* its token, or is being asked for, or is among the failures, which are   *)
(* no more than the tenants that have been answered.                       *)
ChecksInv ==
  /\ checked \subseteq Tenants
  /\ failures \in 0..(Cardinality(Tenants) + 1)
  /\ stage = "start" => NothingAsked /\ checked = {} /\ failures = 0
  /\ stage = "minting" =>
       /\ \/ NothingAsked /\ failures <= Cardinality(checked)
          \/ OneAsked /\ failures < Cardinality(checked)
       /\ \A t \in checked : failures > 0 \/ HasToken(t) \/ BeingAsked(t)
  /\ stage = "healthy" =>
       /\ \A t \in DOMAIN clients : HasToken(t)
       /\ args.check_bucket => GcsConfigLoads(env)

AccessInv ==
  UnitInv /\ CommandInv /\ ClientsInv /\ SettledInv /\ ChecksInv

(* Each caller's token stays or is replaced by another one.                *)
LEMMA TokensKept ==
  ASSUME TokenTypeOK, [TokenNext]_tokenVars, NEW c \in Callers
  PROVE  token[c] # None => token'[c] # None
<1>1. ASSUME NEW d \in Callers, UseCached(d)
      PROVE  \E tok : tok # None /\ token' = [token EXCEPT ![d] = tok]
  BY <1>1 DEF UseCached, CacheUsable
<1>2. ASSUME NEW d \in Callers, ReceiveToken(d)
      PROVE  \E tok : tok # None /\ token' = [token EXCEPT ![d] = tok]
  BY <1>2, ReceivedType, NoneAssumption DEF ReceiveToken
<1>3. \/ UNCHANGED token
      \/ \E d \in Callers : \E tok :
           tok # None /\ token' = [token EXCEPT ![d] = tok]
  BY <1>1, <1>2
     DEF TokenNext, NewClients, AskToken, IssueToken, MintFails, Tick,
         tokenVars
<1>. QED
  BY <1>3 DEF TokenTypeOK

(* What taking a token gives a unit.                                       *)
LEMMA TokenTaken ==
  ASSUME TokenTypeOK, NEW c \in Callers, UseCached(c) \/ ReceiveToken(c)
  PROVE  token'[c] # None
<1>1. CASE UseCached(c)
  BY <1>1 DEF UseCached, CacheUsable, TokenTypeOK
<1>2. CASE ReceiveToken(c)
  BY <1>2, ReceivedType, NoneAssumption DEF ReceiveToken, TokenTypeOK
<1>. QED
  BY <1>1, <1>2

(* A unit moves to state `to' and has `pages' pages left.                  *)
Moves(c, to, pages) ==
  /\ pc' = [pc EXCEPT ![c] = to]
  /\ left' = [left EXCEPT ![c] = pages]

(* A unit that moves keeps the facts about units.                          *)
LEMMA MoveKeepsUnits ==
  ASSUME TokenTypeOK, [TokenNext]_tokenVars, UnitInv, NEW c \in Callers,
         NEW to \in UnitStates, NEW pages \in 0..Pages, Moves(c, to, pages),
         to \in {"queued", "token", "pages"} => pages # 0,
         to = "pages" => token'[c] # None
  PROVE  UnitInv'
  BY TokensKept DEF UnitInv, Moves

(* Every step keeps the facts about units.                                 *)
LEMMA NextUnits ==
  ASSUME Started, TokenTypeOK, UnitInv, [AccessNext]_vars
  PROVE  UnitInv'
<1>1. [TokenNext]_tokenVars
  BY StepOfTokens
<1>2. ASSUME UNCHANGED unitVars
      PROVE  UnitInv'
  BY <1>1, <1>2, TokensKept DEF UnitInv, unitVars
<1>3. ASSUME NEW c \in Callers, NEW from, NEW to \in UnitStates,
             Transition(c, from, to), UNCHANGED left,
             to \in {"queued", "token", "pages"} =>
               from \in {"queued", "token", "pages"},
             to = "pages" => token'[c] # None
      PROVE  UnitInv'
  <2>1. /\ Moves(c, to, left[c])
        /\ to \in {"queued", "token", "pages"} => left[c] # 0
        /\ left[c] \in 0..Pages
    BY <1>3 DEF Moves, Transition, UnitInv
  <2>. QED
    BY <1>1, <1>3, <2>1, MoveKeepsUnits
<1>4. ASSUME NEW c \in Callers, StartUnit(c)
      PROVE  UnitInv'
  <2>1. CASE UseCached(c) /\ Transition(c, "queued", "pages")
    BY <1>3, <1>4, <2>1, TokenTaken DEF StartUnit, UnitStates
  <2>2. CASE AskToken(c) /\ Transition(c, "queued", "token")
    BY <1>3, <1>4, <2>2 DEF StartUnit, UnitStates
  <2>. QED
    BY <1>4, <2>1, <2>2 DEF StartUnit
<1>5. ASSUME NEW c \in Callers, UnitToken(c)
      PROVE  UnitInv'
  <2>1. CASE ReceiveToken(c) /\ Transition(c, "token", "pages")
    BY <1>3, <1>5, <2>1, TokenTaken DEF UnitToken, UnitStates
  <2>2. CASE MintFails(c) /\ Transition(c, "token", "no_token")
    BY <1>3, <1>5, <2>2 DEF UnitToken, UnitStates
  <2>. QED
    BY <1>5, <2>1, <2>2 DEF UnitToken
<1>6. ASSUME NEW c \in Callers, PageArrives(c)
      PROVE  UnitInv'
  <2> DEFINE to == IF left[c] = 1 THEN "upload" ELSE "pages"
  <2>1. /\ pc[c] = "pages" /\ left' = [left EXCEPT ![c] = @ - 1]
        /\ pc' = [pc EXCEPT ![c] = to] /\ UNCHANGED tokenVars
    BY <1>6 DEF PageArrives, Transition
  <2>2. left[c] \in 1..Pages /\ token[c] # None
    BY <2>1, AccessAssumption DEF UnitInv
  <2>3. /\ left[c] - 1 \in 0..Pages
        /\ to = "pages" => left[c] - 1 # 0
        /\ to \in {"pages", "upload"}
    BY <2>2, AccessAssumption
  <2>4. Moves(c, to, left[c] - 1) /\ token'[c] # None
    BY <2>1, <2>2 DEF Moves, tokenVars, UnitInv
  <2> HIDE DEF to
  <2>. QED
    BY <1>1, <2>3, <2>4, MoveKeepsUnits DEF UnitStates
<1>7. ASSUME NEW c \in Callers, Unauthorized(c) \/ PageFails(c)
      PROVE  UnitInv'
  BY <1>3, <1>7 DEF Unauthorized, PageFails, UnitStates
<1>8. ASSUME NEW c \in Callers, Upload(c) \/ UploadFails(c)
      PROVE  UnitInv'
  BY <1>3, <1>8 DEF Upload, UploadFails, UnitStates
<1>9. ASSUME NEW c \in Callers,
             \/ Issue(c) \/ Acquire(c)
             \/ CheckTenant(c) \/ TenantHealthy(c) \/ TenantUnhealthy(c)
      PROVE  UnitInv'
  BY <1>2, <1>9 DEF Issue, Acquire, CheckTenant, TenantHealthy,
                    TenantUnhealthy
<1>10. CASE StartSync \/ StartHealthcheck \/ StartFails \/ BuildSink
  BY <1>2, <1>10 DEF StartSync, StartHealthcheck, StartFails, BuildSink
<1>11. CASE CheckBucket \/ TimePasses \/ UNCHANGED vars
  BY <1>2, <1>11 DEF CheckBucket, TimePasses, vars
<1>12. CASE WriteManifest
  BY <1>1, <1>12, TokensKept DEF WriteManifest, UnitInv
<1>. QED
  BY <1>4, <1>5, <1>6, <1>7, <1>8, <1>9, <1>10, <1>11, <1>12 DEF AccessNext

(* The steps of a unit, the steps of healthcheck's checks, and the steps   *)
(* of the command, by what they need and what they leave alone.            *)
UnitStep(c) ==
  \/ StartUnit(c) \/ Issue(c) \/ UnitToken(c) \/ Acquire(c)
  \/ PageArrives(c) \/ Unauthorized(c) \/ PageFails(c)
  \/ Upload(c) \/ UploadFails(c)

CheckStep(c) == CheckTenant(c) \/ TenantHealthy(c) \/ TenantUnhealthy(c)

(* A unit's step leaves the command alone, and moves no other unit: its    *)
(* own unit was started before or is started by it.                        *)
LEMMA UnitStepShape ==
  ASSUME UnitInv, NEW c \in Callers, UnitStep(c)
  PROVE  /\ UNCHANGED commandVars
         /\ \A d \in Callers : d # c => pc'[d] = pc[d]
         /\ pc[c] = "queued" =>
              pc'[c] = "queued" \/ (stage = "running" /\ c \in Units)
         /\ pc[c] \in Settled => pc'[c] = pc[c]
<1>1. UNCHANGED commandVars
  BY DEF UnitStep, StartUnit, Issue, UnitToken, Acquire, PageArrives,
         Unauthorized, PageFails, Upload, UploadFails
<1>2. CASE UNCHANGED pc
  BY <1>1, <1>2
<1>3. CASE \E from, to : Transition(c, from, to) /\ from \notin Settled
                         /\ (from = "queued" => stage = "running" /\ c \in Units)
  BY <1>1, <1>3 DEF Transition, UnitInv, Settled
<1>. QED
  BY <1>2, <1>3
     DEF UnitStep, StartUnit, Issue, UnitToken, Acquire, PageArrives,
         Unauthorized, PageFails, Upload, UploadFails, Settled, unitVars

(* A check leaves the units and the stage alone.                           *)
LEMMA CheckStepShape ==
  ASSUME NEW c \in Callers, CheckStep(c)
  PROVE  /\ stage = "minting"
         /\ UNCHANGED <<stage, env, args, unitVars>>
  BY DEF CheckStep, CheckTenant, TenantHealthy, TenantUnhealthy, commandVars

(* Every step is one of these, or a step of the command itself.            *)
LEMMA StepCases ==
  [AccessNext]_vars =>
    \/ \E c \in Callers : UnitStep(c) \/ CheckStep(c)
    \/ StartSync \/ StartHealthcheck \/ StartFails \/ BuildSink
    \/ WriteManifest \/ CheckBucket \/ TimePasses \/ UNCHANGED vars
  BY DEF AccessNext, UnitStep, CheckStep

(* Every step keeps the stages with their commands.                        *)
LEMMA NextCommands ==
  ASSUME UnitInv, CommandInv, [AccessNext]_vars
  PROVE  CommandInv'
<1>1. ASSUME NEW c \in Callers, UnitStep(c)
      PROVE  CommandInv'
  BY <1>1, UnitStepShape DEF CommandInv, commandVars
<1>2. ASSUME NEW c \in Callers, CheckStep(c)
      PROVE  CommandInv'
  BY <1>2, CheckStepShape DEF CommandInv, unitVars
<1>3. CASE StartSync \/ StartHealthcheck \/ StartFails \/ BuildSink
  BY <1>3 DEF StartSync, StartHealthcheck, StartFails, BuildSink, CommandInv,
              Stages, unitVars
<1>4. CASE WriteManifest
  BY <1>4 DEF WriteManifest, CommandInv, Stages
<1>5. CASE CheckBucket
  BY <1>5 DEF CheckBucket, CommandInv, Stages, Verdict, unitVars
<1>6. CASE TimePasses \/ UNCHANGED vars
  BY <1>6 DEF TimePasses, vars, CommandInv, commandVars, unitVars
<1>. QED
  BY <1>1, <1>2, <1>3, <1>4, <1>5, <1>6, StepCases

(* The clients are the configuration's from the start on.                  *)
LEMMA NextClientsInv ==
  ASSUME UnitInv, CommandInv, ClientsInv, [AccessNext]_vars
  PROVE  ClientsInv'
<1>1. CASE StartSync \/ StartHealthcheck
  BY <1>1 DEF StartSync, StartHealthcheck, NewClients, ClientsInv
<1>2. CASE StartFails
  BY <1>2 DEF StartFails, ClientsInv
<1>3. ASSUME NEW c \in Callers, UnitStep(c) \/ CheckStep(c)
      PROVE  UNCHANGED <<stage, env, clients>>
  <2>1. UNCHANGED <<stage, env>>
    BY <1>3, UnitStepShape, CheckStepShape DEF commandVars
  <2>2. UNCHANGED clients
    BY <1>3 DEF UnitStep, StartUnit, Issue, UnitToken, Acquire, PageArrives,
                Unauthorized, PageFails, Upload, UploadFails, CheckStep,
                CheckTenant, TenantHealthy, TenantUnhealthy, tokenVars,
                UseCached, AskToken, IssueToken, ReceiveToken, MintFails
  <2>. QED
    BY <2>1, <2>2
<1>4. CASE BuildSink \/ WriteManifest \/ CheckBucket
  BY <1>4 DEF BuildSink, WriteManifest, CheckBucket, ClientsInv, tokenVars,
              Verdict
<1>5. CASE TimePasses \/ UNCHANGED vars
  BY <1>5 DEF TimePasses, Tick, vars, commandVars, tokenVars, ClientsInv
<1>. QED
  BY <1>1, <1>2, <1>3, <1>4, <1>5, StepCases DEF ClientsInv

(* No unit starts after the manifest.                                      *)
LEMMA NextSettled ==
  ASSUME UnitInv, CommandInv, ClientsInv, SettledInv, [AccessNext]_vars
  PROVE  SettledInv'
<1>1. ASSUME NEW c \in Callers, UnitStep(c) \/ CheckStep(c),
             stage \in {"finished", "no_manifest"}
      PROVE  SettledInv'
  <2>1. UNCHANGED <<stage, env, args>>
    BY <1>1, UnitStepShape, CheckStepShape DEF commandVars
  <2>2. ClientsInv'
    BY NextClientsInv
  <2>3. UNCHANGED Units
    BY <1>1, <2>1, <2>2 DEF ClientsInv, Units, TenantsToSync
  <2>4. \A d \in Callers : pc[d] \in Settled => pc'[d] = pc[d]
    BY <1>1, UnitStepShape, CheckStepShape
  <2>. QED
    BY <1>1, <2>3, <2>4 DEF SettledInv, Units
<1>2. ASSUME NEW c \in Callers, UnitStep(c) \/ CheckStep(c)
      PROVE  UNCHANGED stage
  BY <1>2, UnitStepShape, CheckStepShape DEF commandVars
<1>3. CASE StartSync \/ StartHealthcheck \/ StartFails \/ BuildSink
  BY <1>3 DEF StartSync, StartHealthcheck, StartFails, BuildSink, SettledInv
<1>4. CASE CheckBucket
  BY <1>4 DEF CheckBucket, SettledInv, Verdict
<1>5. CASE WriteManifest
  BY <1>5 DEF WriteManifest, SettledInv, Units, TenantsToSync, tokenVars
<1>6. CASE TimePasses \/ UNCHANGED vars
  BY <1>6 DEF TimePasses, Tick, vars, commandVars, unitVars, tokenVars,
              SettledInv, Units, TenantsToSync
<1>. QED
  BY <1>1, <1>2, <1>3, <1>4, <1>5, <1>6, StepCases DEF SettledInv
----------------------------------------------------------------------------
(* Every set of tenants can be counted.                                    *)
LEMMA TenantsCounted ==
  ASSUME NEW S \in SUBSET Tenants
  PROVE  /\ Cardinality(S) \in Nat
         /\ Cardinality(S) <= Cardinality(Tenants)
         /\ \A t \in Tenants \ S :
              Cardinality(S \cup {t}) = Cardinality(S) + 1
<1>1. IsFiniteSet(S)
  BY AccessAssumption, FS_Subset
<1>2. Cardinality(S) \in Nat /\ Cardinality(S) <= Cardinality(Tenants)
  BY <1>1, AccessAssumption, FS_CardinalityType, FS_Subset
<1>3. \A t \in Tenants \ S : Cardinality(S \cup {t}) = Cardinality(S) + 1
  BY <1>1, FS_AddElement
<1>. QED
  BY <1>2, <1>3

(* A step that leaves healthcheck's account and the requests alone.        *)
LEMMA QuietKeepsChecks ==
  ASSUME TokenTypeOK, [TokenNext]_tokenVars, ChecksInv,
         UNCHANGED <<commandVars, clients, asked>>
  PROVE  ChecksInv'
<1>1. \A t \in Tenants : HasToken(t) => HasToken(t)'
  BY TokensKept DEF HasToken
<1>2. UNCHANGED <<stage, env, args, failures, checked>>
  BY DEF commandVars
<1>3. DOMAIN clients \subseteq Tenants
  BY DEF TokenTypeOK
<1>. QED
  BY <1>1, <1>2, <1>3 DEF ChecksInv, NothingAsked, OneAsked, BeingAsked

(* A unit's step keeps the account: no unit runs beside the checks.        *)
LEMMA UnitKeepsChecks ==
  ASSUME Started, TokenTypeOK, UnitInv, CommandInv, ChecksInv,
         [AccessNext]_vars, NEW c \in Callers, UnitStep(c)
  PROVE  ChecksInv'
<1>1. [TokenNext]_tokenVars
  BY StepOfTokens
<1>2. UNCHANGED <<stage, env, args, failures, checked>>
  BY UnitStepShape DEF commandVars
<1>3. ASSUME stage \notin {"start", "minting", "healthy"}
      PROVE  ChecksInv'
  BY <1>2, <1>3 DEF ChecksInv
<1>4. CASE StartUnit(c)
  BY <1>3, <1>4 DEF StartUnit
<1>5. CASE UnitToken(c)
  <2>1. asked[c] # None /\ pc[c] = "token"
    BY <1>5 DEF UnitToken, ReceiveToken, MintFails, OnTheWire, Transition
  <2>2. stage # "start" /\ args.command = "sync"
    BY <2>1 DEF ChecksInv, NothingAsked, CommandInv
  <2>. QED
    BY <1>3, <2>2 DEF CommandInv
<1>6. CASE Issue(c)
  <2>1. asked[c] # None /\ asked[c] \in Requests
    BY <1>6 DEF Issue, IssueToken, TokenTypeOK
  <2>2. [asked[c] EXCEPT !.issued = now] # None
    BY <2>1, NoneAssumption DEF Requests, TokenTypeOK
  <2>3. asked' = [asked EXCEPT ![c].issued = now]
    BY <1>6 DEF Issue, IssueToken
  <2>4. \A d \in Callers : asked'[d] = None <=> asked[d] = None
    BY <2>1, <2>2, <2>3 DEF TokenTypeOK
  <2>5. UNCHANGED <<token, clients>>
    BY <1>6 DEF Issue, IssueToken
  <2>. QED
    BY <1>2, <2>4, <2>5
       DEF ChecksInv, NothingAsked, OneAsked, HasToken, BeingAsked
<1>7. CASE \/ Acquire(c) \/ PageArrives(c) \/ Unauthorized(c)
           \/ PageFails(c) \/ Upload(c) \/ UploadFails(c)
  <2>1. UNCHANGED <<commandVars, clients, asked>>
    BY <1>7 DEF Acquire, PageArrives, Unauthorized, PageFails, Upload,
                UploadFails, tokenVars
  <2>. QED
    BY <1>1, <2>1, QuietKeepsChecks
<1>. QED
  BY <1>4, <1>5, <1>6, <1>7 DEF UnitStep

(* A check keeps the account.                                              *)
LEMMA CheckKeepsChecks ==
  ASSUME TokenTypeOK, ChecksInv, NEW c \in Callers, CheckStep(c)
  PROVE  ChecksInv'
<1>1. UNCHANGED <<stage, env, args>> /\ stage = "minting"
  BY CheckStepShape
<1>2. TenantOf[c] \in Tenants
  BY CallersAssumption
<1>3. failures \in Nat /\ Cardinality(checked) \in Nat
      /\ Cardinality(checked) <= Cardinality(Tenants)
      /\ Cardinality(Tenants) \in Nat
  BY TenantsCounted DEF ChecksInv
<1>4. CASE CheckTenant(c)
  <2>1. /\ TenantOf[c] \notin checked
        /\ checked' = checked \cup {TenantOf[c]}
        /\ NothingAsked
        /\ UNCHANGED <<failures, token>>
    BY <1>4 DEF CheckTenant, AskToken, NothingAsked
  <2>2. Cardinality(checked') = Cardinality(checked) + 1
    BY <1>2, <2>1, TenantsCounted DEF ChecksInv
  <2>3. \A d \in Callers : asked'[d] # None <=> d = c
    <3> DEFINE request == [creds |-> clients[TenantOf[c]], issued |-> None]
    <3>1. asked' = [asked EXCEPT ![c] = request]
      BY <1>4 DEF CheckTenant, AskToken, ClientOf
    <3>2. request \in Requests
      BY <1>4 DEF CheckTenant, TokenTypeOK, Requests
    <3>3. request # None
      BY <3>2, NoneAssumption
    <3> HIDE DEF request
    <3>. QED
      BY <2>1, <3>1, <3>3 DEF NothingAsked, TokenTypeOK
  <2>4. OneAsked' /\ BeingAsked(TenantOf[c])'
    BY <2>3 DEF OneAsked, BeingAsked
  <2>5. failures <= Cardinality(checked)
    BY <1>1, <1>3 DEF ChecksInv
  <2>6. \A t \in checked' : failures' > 0 \/ HasToken(t)' \/ BeingAsked(t)'
    BY <1>1, <2>1, <2>4 DEF ChecksInv, NothingAsked, HasToken, BeingAsked
  <2>7. checked' \subseteq Tenants
    BY <1>2, <2>1 DEF ChecksInv
  <2>. QED
    BY <1>1, <1>3, <2>1, <2>2, <2>4, <2>5, <2>6, <2>7 DEF ChecksInv
<1>5. ASSUME TenantHealthy(c) \/ TenantUnhealthy(c)
      PROVE  /\ UNCHANGED checked
             /\ NothingAsked'
             /\ failures < Cardinality(checked)
             /\ \A t \in checked :
                  failures > 0 \/ HasToken(t) \/ t = TenantOf[c]
  <2>1. asked[c] # None
    BY <1>5 DEF TenantHealthy, ReceiveToken, TenantUnhealthy, MintFails,
                OnTheWire
  <2>2. asked' = [asked EXCEPT ![c] = None]
    BY <1>5 DEF TenantHealthy, ReceiveToken, TenantUnhealthy, MintFails
  <2>3. OneAsked /\ failures < Cardinality(checked)
    BY <1>1, <2>1 DEF ChecksInv, NothingAsked
  <2>4. NothingAsked'
    BY <2>1, <2>2, <2>3 DEF OneAsked, NothingAsked, TokenTypeOK
  <2>5. \A t \in checked : failures > 0 \/ HasToken(t) \/ t = TenantOf[c]
    BY <1>1, <2>1, <2>3 DEF ChecksInv, OneAsked, BeingAsked
  <2>6. UNCHANGED checked
    BY <1>5 DEF TenantHealthy, TenantUnhealthy, commandVars
  <2>. QED
    BY <2>3, <2>4, <2>5, <2>6
<1>6. CASE TenantHealthy(c)
  <2>1. UNCHANGED failures
    BY <1>6 DEF TenantHealthy, commandVars
  <2>2. token'[c] # None
    BY <1>6, TokenTaken DEF TenantHealthy
  <2>3. [TokenNext]_tokenVars
    BY <1>6 DEF TenantHealthy, TokenNext
  <2>4. \A t \in checked : failures' > 0 \/ HasToken(t)'
    BY <1>5, <1>6, <2>1, <2>2, <2>3, TokensKept DEF HasToken
  <2>. QED
    BY <1>1, <1>3, <1>5, <1>6, <2>1, <2>4 DEF ChecksInv
<1>7. CASE TenantUnhealthy(c)
  <2>1. failures' = failures + 1
    BY <1>7 DEF TenantUnhealthy
  <2>. QED
    BY <1>1, <1>3, <1>5, <1>7, <2>1 DEF ChecksInv
<1>. QED
  BY <1>4, <1>6, <1>7 DEF CheckStep

(* Every step keeps healthcheck's account.                                 *)
LEMMA NextChecks ==
  ASSUME Started, TokenTypeOK, UnitInv, CommandInv, ClientsInv, ChecksInv,
         [AccessNext]_vars
  PROVE  ChecksInv'
<1>1. CASE StartSync
  BY <1>1 DEF StartSync, ChecksInv
<1>2. CASE StartHealthcheck
  <2>1. /\ stage = "start" /\ stage' = "minting"
        /\ UNCHANGED <<failures, checked, asked>>
    BY <1>2 DEF StartHealthcheck, NewClients
  <2>2. NothingAsked' /\ checked' = {} /\ failures' = 0
    BY <2>1 DEF ChecksInv, NothingAsked
  <2>3. Cardinality(checked') = 0
    BY <2>2, FS_EmptySet
  <2>. QED
    BY <2>1, <2>2, <2>3 DEF ChecksInv
<1>3. CASE StartFails \/ BuildSink \/ WriteManifest
  BY <1>3 DEF StartFails, BuildSink, WriteManifest, ChecksInv
<1>4. CASE CheckBucket
  <2>1. /\ stage = "minting" /\ checked = DOMAIN clients /\ NothingAsked
        /\ UNCHANGED <<env, args, checked, tokenVars>>
    BY <1>4 DEF CheckBucket, NothingAsked
  <2>2. \A t \in DOMAIN clients : failures > 0 \/ HasToken(t)
    BY <2>1 DEF ChecksInv, NothingAsked, BeingAsked
  <2>3. /\ failures \in Nat
        /\ failures <= Cardinality(checked)
        /\ Cardinality(checked) \in Nat
        /\ Cardinality(checked) <= Cardinality(Tenants)
        /\ Cardinality(Tenants) \in Nat
    BY <2>1, TenantsCounted DEF ChecksInv, NothingAsked, OneAsked
  <2>4. PICK failed \in {0, 1} :
          /\ failures' = failures + failed
          /\ stage' \in {Verdict(failures + failed), "refused"}
          /\ stage' # "refused" /\ args.check_bucket => GcsConfigLoads(env)
    BY <1>4, <2>3 DEF CheckBucket, Verdict
  <2>5. failures' \in 0..(Cardinality(Tenants) + 1)
    BY <2>3, <2>4
  <2>6. stage' \in {"healthy", "unhealthy", "refused"}
    BY <2>4 DEF Verdict
  <2>7. stage' = "healthy" => failures = 0
    BY <2>3, <2>4 DEF Verdict
  <2>8. stage' = "healthy" => \A t \in DOMAIN clients' : HasToken(t)'
    BY <2>1, <2>2, <2>7 DEF HasToken, tokenVars
  <2>. QED
    BY <2>1, <2>4, <2>5, <2>6, <2>8 DEF ChecksInv
<1>5. CASE TimePasses \/ UNCHANGED vars
  <2>1. UNCHANGED <<commandVars, clients, asked>>
    BY <1>5 DEF TimePasses, Tick, vars, tokenVars
  <2>. QED
    BY <2>1, StepOfTokens, QuietKeepsChecks
<1>. QED
  BY <1>1, <1>2, <1>3, <1>4, <1>5, UnitKeepsChecks, CheckKeepsChecks, StepCases
----------------------------------------------------------------------------
(* Every step keeps the whole of it.                                       *)
LEMMA NextAccess ==
  Started /\ TokenTypeOK /\ AccessInv /\ [AccessNext]_vars => AccessInv'
BY NextUnits, NextCommands, NextClientsInv, NextSettled, NextChecks
   DEF AccessInv

(* It holds initially.                                                     *)
LEMMA InitAccess == AccessInit => Started /\ AccessInv
<1> SUFFICES ASSUME AccessInit
             PROVE  Started /\ AccessInv
  OBVIOUS
<1>1. Started
  BY DEF AccessInit, Started
<1>2. UnitInv
  BY AccessAssumption DEF AccessInit, UnitInv, UnitStates
<1>3. CommandInv /\ ClientsInv /\ SettledInv
  BY DEF AccessInit, CommandInv, ClientsInv, SettledInv, Stages
<1>4. Cardinality(Tenants) \in Nat
  BY TenantsCounted
<1>5. ChecksInv
  BY <1>4 DEF AccessInit, TokenInit, ChecksInv, NothingAsked
<1>. QED
  BY <1>1, <1>2, <1>3, <1>5 DEF AccessInv

(* It holds in every reachable state, with what the parts keep.            *)
LEMMA AccessInvariant ==
  AccessSpec => [](/\ Started /\ TokenTypeOK /\ LimiterTypeOK /\ AccessInv
                   /\ TokenOfOwnTenant /\ TokenGrace)
<1>1. AccessSpec => []TokenTypeOK
  BY TokensOfAccess, TokenTypes, PTL
<1>2. AccessSpec => []LimiterTypeOK
  BY LimitersOfAccess, LimiterTypes, PTL
<1>3. AccessSpec => [](Started /\ AccessInv)
  BY <1>1, InitAccess, NextStarted, NextAccess, PTL DEF AccessSpec
<1>. QED
  BY <1>1, <1>2, <1>3, PartsHold, PTL

(* Types: in particular healthcheck counts at most one failure for each    *)
(* tenant and one for the bucket.                                          *)
THEOREM AccessTypes == AccessSpec => []AccessTypeOK
<1>1. TokenTypeOK /\ LimiterTypeOK /\ AccessInv => AccessTypeOK
  BY DEF AccessTypeOK, AccessInv, UnitInv, CommandInv, ChecksInv
<1>. QED
  BY <1>1, AccessInvariant, PTL

(* A sync that names no tenant and writes its manifest has brought the     *)
(* units of every configured tenant to an outcome, with credentials of a   *)
(* block that names this tenant, whatever blocks there are.                *)
THEOREM AllBlocksServed == AccessSpec => []EveryBlockServed
<1>1. Started /\ AccessInv => EveryBlockServed
  <2> SUFFICES ASSUME Started, AccessInv, args.tenants = {},
                      stage = "finished", NEW t \in ConfiguredTenants
               PROVE  /\ t \in DOMAIN clients
                      /\ env.blocks[clients[t]].tenant = t
                      /\ \A c \in Callers : TenantOf[c] = t => pc[c] \in Settled
    BY DEF EveryBlockServed
  <2>1. clients = Connections(env)
    BY DEF AccessInv, ClientsInv
  <2>2. t \in DOMAIN clients
    BY <2>1, EveryBlockConnected
  <2>3. env.blocks[clients[t]].tenant = t
    BY <2>1, <2>2, ConnectionOfTenant
  <2>4. \A c \in Callers : TenantOf[c] = t => c \in Units
    BY <2>2 DEF Units, TenantsToSync
  <2>. QED
    BY <2>2, <2>3, <2>4 DEF AccessInv, SettledInv
<1>. QED
  BY <1>1, AccessInvariant, PTL

(* A healthy verdict speaks for every configured tenant: its own           *)
(* credentials were good for a token in this process.                      *)
THEOREM HealthyForAll == AccessSpec => []HealthyMeansAll
<1>1. Started /\ AccessInv /\ TokenOfOwnTenant => HealthyMeansAll
  <2> SUFFICES ASSUME Started, AccessInv, TokenOfOwnTenant, stage = "healthy"
               PROVE  /\ \A t \in ConfiguredTenants :
                           \E c \in Callers :
                             /\ token[c] # None
                             /\ env.blocks[token[c].creds].tenant = t
                      /\ args.check_bucket => GcsConfigLoads(env)
    BY DEF HealthyMeansAll
  <2>1. clients = Connections(env)
    BY DEF AccessInv, ClientsInv
  <2>2. ASSUME NEW t \in ConfiguredTenants
        PROVE  \E c \in Callers :
                 /\ token[c] # None
                 /\ env.blocks[token[c].creds].tenant = t
    <3>1. t \in DOMAIN clients
      BY <2>1, EveryBlockConnected
    <3>2. PICK c \in Callers : TenantOf[c] = t /\ token[c] # None
      BY <3>1 DEF AccessInv, ChecksInv, HasToken
    <3>3. token[c].creds = clients[t]
      BY <3>2 DEF TokenOfOwnTenant
    <3>4. env.blocks[clients[t]].tenant = t
      BY <2>1, <3>1, ConnectionOfTenant
    <3>. QED
      BY <3>2, <3>3, <3>4
  <2>. QED
    BY <2>2 DEF AccessInv, ChecksInv
<1>. QED
  BY <1>1, AccessInvariant, PTL
----------------------------------------------------------------------------
(* A unit that is told 401 has held its token for the token's margin; the  *)
(* time it took it does not change afterwards, and the clock goes on.      *)
LEMMA NextLate ==
  ASSUME TokenTypeOK, AccessInv, TokenGrace, UnauthorizedIsLate,
         [AccessNext]_vars
  PROVE  UnauthorizedIsLate'
<1> USE DEF UnauthorizedIsLate
<1>1. UnitInv /\ CommandInv
  BY DEF AccessInv
<1>2. now \in Nat /\ Min2(RefreshBuffer, Lifetime) \in Nat
  BY TokenAssumption DEF TokenTypeOK, Min2
<1>3. ASSUME NEW c \in Callers, Unauthorized(c)
      PROVE  UnauthorizedIsLate'
  <2>1. /\ pc[c] = "pages" /\ pc' = [pc EXCEPT ![c] = "unauthorized"]
        /\ ~Accepted(token[c]) /\ UNCHANGED <<now, takenAt>>
    BY <1>3 DEF Unauthorized, Transition, tokenVars
  <2>2. token[c] # None /\ token[c].issued \in Nat /\ takenAt[c] \in Nat
    BY <1>1, <2>1 DEF UnitInv, TokenTypeOK, Tokens
  <2>3. now >= token[c].issued + Lifetime
    BY <1>2, <2>1, <2>2, TokenAssumption DEF Accepted
  <2>4. now >= takenAt[c] + Min2(RefreshBuffer, Lifetime) - MaxLatency
    BY <1>2, <2>2, <2>3, TokenAssumption DEF TokenGrace
  <2>. QED
    BY <1>1, <2>1, <2>4 DEF UnitInv
<1>4. ASSUME NEW c \in Callers, StartUnit(c) \/ UnitToken(c)
      PROVE  UnauthorizedIsLate'
  <2>1. \E to \in {"pages", "token", "no_token"} :
          pc' = [pc EXCEPT ![c] = to]
    BY <1>4 DEF StartUnit, UnitToken, Transition
  <2>2. now' = now /\ \A d \in Callers : d # c => takenAt'[d] = takenAt[d]
    BY <1>4 DEF StartUnit, UnitToken, UseCached, AskToken, ReceiveToken,
                MintFails, TokenTypeOK
  <2>. QED
    BY <1>1, <2>1, <2>2 DEF UnitInv
<1>5. ASSUME NEW c \in Callers,
             PageArrives(c) \/ PageFails(c) \/ Upload(c) \/ UploadFails(c)
      PROVE  UnauthorizedIsLate'
  <2>1. \E to \in {"pages", "upload", "failed", "done", "refused"} :
          pc' = [pc EXCEPT ![c] = to]
    BY <1>5 DEF PageArrives, PageFails, Upload, UploadFails, Transition
  <2>2. UNCHANGED <<now, takenAt>>
    BY <1>5 DEF PageArrives, PageFails, Upload, UploadFails, tokenVars
  <2>. QED
    BY <1>1, <2>1, <2>2 DEF UnitInv
<1>6. ASSUME NEW c \in Callers, Issue(c) \/ Acquire(c)
      PROVE  UnauthorizedIsLate'
  BY <1>6 DEF Issue, IssueToken, Acquire, unitVars, tokenVars
<1>7. ASSUME NEW c \in Callers, CheckStep(c)
      PROVE  UnauthorizedIsLate'
  BY <1>1, <1>7, CheckStepShape DEF CommandInv, unitVars
<1>8. CASE StartSync \/ StartHealthcheck
  BY <1>8 DEF StartSync, StartHealthcheck, NewClients, unitVars
<1>9. CASE StartFails \/ BuildSink \/ WriteManifest \/ CheckBucket
  BY <1>9 DEF StartFails, BuildSink, WriteManifest, CheckBucket, unitVars,
              tokenVars
<1>10. CASE TimePasses
  <2>1. now' = now + 1 /\ UNCHANGED <<takenAt, pc>>
    BY <1>10 DEF TimePasses, Tick, unitVars
  <2>2. \A c \in Callers : takenAt[c] \in Nat
    BY DEF TokenTypeOK
  <2>. QED
    BY <1>2, <2>1, <2>2, TokenAssumption
<1>11. CASE UNCHANGED vars
  BY <1>11 DEF vars, unitVars, tokenVars
<1>. QED
  BY <1>3, <1>4, <1>5, <1>6, <1>7, <1>8, <1>9, <1>10, <1>11, StepCases
     DEF UnitStep

(* A unit loses its pages to an expired token only when it has held the    *)
(* token for the refresh margin (or its lifetime), less the latency of the *)
(* answer that brought it, however many units shared that token.           *)
THEOREM ExpiryIsLate == AccessSpec => []UnauthorizedIsLate
<1>1. AccessInit => UnauthorizedIsLate
  BY DEF AccessInit, UnauthorizedIsLate
<1>. QED
  BY <1>1, AccessInvariant, NextLate, PTL DEF AccessSpec
----------------------------------------------------------------------------
(* Keys are paths, and every file of a dry run is at a key its root takes. *)
SinkInv ==
  /\ prefix \in Paths
  /\ \A key \in written : key \in Paths /\ SinkTakes(key)

(* The prefix of the keys is a path, whatever GCS_PREFIX is.               *)
LEMMA PrefixIsPath ==
  ASSUME Started
  PROVE  KeyPrefix(env) \in Paths
<1>1. \A name \in {"raw", "xero", "_manifests"} : name \in Segments
  BY AccessAssumption
<1>2. DefaultPrefix \in Paths
  <2>1. "raw" \in Segments /\ "xero" \in Segments
    BY <1>1
  <2>2. <<"raw", "xero">> \in Seq(Segments)
    BY <2>1
  <2>. QED
    BY <2>2 DEF DefaultPrefix, Relative, Paths
<1>3. Absolute(<<>>) \in Paths
  BY DEF Absolute, Paths
<1>4. /\ env.prefix.value \in {"unset", "empty", "path"}
      /\ env.prefix.value = "path" => env.prefix.path \in Paths
  BY AccessAssumption DEF Started
<1>5. ConfiguredPrefix(env) \in Paths
  BY <1>2, <1>4 DEF ConfiguredPrefix
<1>6. FallbackPrefix(env) \in Paths
  BY <1>2, <1>3, <1>4 DEF FallbackPrefix
<1>. QED
  BY <1>5, <1>6 DEF KeyPrefix

(* The key of a sidecar is a path when the key of its body is one.         *)
LEMMA SidecarIsPath ==
  ASSUME NEW key \in Paths, key.segments # <<>>,
         Last(key.segments) \in FileNames
  PROVE  SidecarKey(key) \in Paths
<1> DEFINE other == SidecarName(Last(key.segments))
           front == Front(key.segments)
<1>1. other \in Segments
  BY AccessAssumption DEF SidecarName, FileNames
<1>2. front \in Seq(Segments)
  BY DEF Paths, Front
<1>3. SidecarKey(key) = [key EXCEPT !.segments = Append(front, other)]
  BY DEF SidecarKey
<1> HIDE DEF other, front
<1>4. Append(front, other) \in Seq(Segments)
  BY <1>1, <1>2
<1>. QED
  BY <1>3, <1>4 DEF Paths

(* The keys a sync writes are paths, whatever its prefix is.               *)
LEMMA KeysArePaths ==
  ASSUME prefix \in Paths
  PROVE  /\ \A t \in Tenants : /\ ObjectKey(prefix, t) \in Paths
                               /\ SidecarKey(ObjectKey(prefix, t)) \in Paths
         /\ ManifestKey \in Paths /\ SidecarKey(ManifestKey) \in Paths
<1>1. /\ {"page.json", "run.json"} \subseteq FileNames
      /\ {"page.json", "run.json", "_manifests"} \subseteq Segments
      /\ Tenants \subseteq Segments
  BY AccessAssumption DEF FileNames
<1>2. ASSUME NEW t \in Tenants
      PROVE  /\ ObjectKey(prefix, t) \in Paths
             /\ SidecarKey(ObjectKey(prefix, t)) \in Paths
  <2> DEFINE page == "page.json"
             segments == prefix.segments \o <<t, page>>
  <2>1. prefix.segments \in Seq(Segments) /\ t \in Segments /\ page \in Segments
    BY <1>1 DEF Paths
  <2> HIDE DEF page
  <2>2. segments \in Seq(Segments) /\ segments # <<>> /\ Last(segments) = page
    BY <2>1 DEF Last
  <2>3. ObjectKey(prefix, t) = [prefix EXCEPT !.segments = segments]
    BY DEF ObjectKey, page
  <2> HIDE DEF segments
  <2>4. /\ ObjectKey(prefix, t) \in Paths
        /\ ObjectKey(prefix, t).segments = segments
    BY <2>2, <2>3 DEF Paths
  <2>. QED
    BY <1>1, <2>2, <2>4, SidecarIsPath DEF page
<1>3. ManifestKey \in Paths /\ SidecarKey(ManifestKey) \in Paths
  <2> DEFINE m == "_manifests"
             r == "run.json"
  <2>1. m \in Segments /\ r \in Segments
    BY <1>1
  <2>2. ManifestKey.segments = <<m, r>> /\ ManifestKey.absolute = FALSE
        /\ ManifestKey = [absolute |-> FALSE, segments |-> <<m, r>>]
    BY DEF ManifestKey, Relative
  <2> HIDE DEF m, r
  <2>3. /\ <<m, r>> \in Seq(Segments) /\ <<m, r>> # <<>>
        /\ Last(<<m, r>>) = r
    BY <2>1 DEF Last
  <2> DEFINE segments == <<m, r>>
  <2>4. /\ segments \in Seq(Segments) /\ segments # <<>> /\ Last(segments) = r
        /\ ManifestKey.segments = segments
        /\ ManifestKey = [absolute |-> FALSE, segments |-> segments]
    BY <2>2, <2>3
  <2> HIDE DEF segments
  <2>5. ManifestKey \in Paths
    BY <2>4 DEF Paths
  <2>. QED
    BY <1>1, <2>4, <2>5, SidecarIsPath DEF r
<1>. QED
  BY <1>2, <1>3

(* Every step keeps it: what is written has been resolved.                 *)
LEMMA NextSink ==
  ASSUME Started, SinkInv, [AccessNext]_vars
  PROVE  SinkInv'
<1>1. ASSUME UNCHANGED <<args, prefix, written>>
      PROVE  SinkInv'
  BY <1>1 DEF SinkInv, SinkTakes
<1>2. ASSUME NEW key, key \in Paths, SidecarKey(key) \in Paths,
             UNCHANGED <<args, prefix>>,
             PutRaw(key) \/ PutRefused(key) \/ PutFails(key)
      PROVE  SinkInv'
  <2>1. \A k \in written' \ written :
          k \in {key, SidecarKey(key)} /\ SinkTakes(k)
    BY <1>2 DEF PutRaw, PutRefused, PutFails
  <2>2. \A k : SinkTakes(k)' <=> SinkTakes(k)
    BY <1>2 DEF SinkTakes
  <2>. QED
    BY <1>2, <2>1, <2>2 DEF SinkInv
<1>3. ASSUME NEW c \in Callers, Upload(c) \/ UploadFails(c)
      PROVE  SinkInv'
  <2>1. TenantOf[c] \in Tenants
    BY CallersAssumption
  <2> DEFINE key == ObjectKey(prefix, TenantOf[c])
  <2>2. key \in Paths /\ SidecarKey(key) \in Paths
    BY <2>1, KeysArePaths DEF SinkInv
  <2>3. PutRaw(key) \/ PutRefused(key) \/ PutFails(key)
    BY <1>3 DEF Upload, UploadFails
  <2>4. UNCHANGED <<args, prefix>>
    BY <1>3 DEF Upload, UploadFails, commandVars
  <2> HIDE DEF key
  <2>. QED
    BY <1>2, <2>2, <2>3, <2>4
<1>4. CASE WriteManifest
  <2>1. PutRaw(ManifestKey) \/ PutRefused(ManifestKey) \/ PutFails(ManifestKey)
    BY <1>4 DEF WriteManifest
  <2>2. UNCHANGED <<args, prefix>>
    BY <1>4 DEF WriteManifest
  <2>. QED
    BY <1>2, <2>1, <2>2, KeysArePaths DEF SinkInv
<1>5. CASE StartSync
  <2>1. prefix' \in Paths /\ UNCHANGED <<args, written>>
    BY <1>5, PrefixIsPath DEF StartSync, unitVars
  <2>. QED
    BY <2>1 DEF SinkInv, SinkTakes
<1>6. CASE StartHealthcheck \/ StartFails \/ BuildSink \/ CheckBucket \/ TimePasses
  BY <1>1, <1>6 DEF StartHealthcheck, StartFails, BuildSink, CheckBucket,
                    TimePasses, commandVars, unitVars
<1>7. ASSUME NEW c \in Callers,
             \/ StartUnit(c) \/ Issue(c) \/ UnitToken(c) \/ Acquire(c)
             \/ PageArrives(c) \/ Unauthorized(c) \/ PageFails(c)
             \/ CheckTenant(c) \/ TenantHealthy(c) \/ TenantUnhealthy(c)
      PROVE  SinkInv'
  BY <1>1, <1>7 DEF StartUnit, Issue, UnitToken, Acquire, PageArrives,
                    Unauthorized, PageFails, CheckTenant, TenantHealthy,
                    TenantUnhealthy, commandVars, unitVars
<1>8. CASE UNCHANGED vars
  BY <1>1, <1>8 DEF vars, commandVars, unitVars
<1>. QED
  BY <1>3, <1>4, <1>5, <1>6, <1>7, <1>8 DEF AccessNext

(* It holds in every reachable state.                                      *)
LEMMA SinkInvariant == AccessSpec => [](Started /\ SinkInv)
<1>1. AccessInit => Started /\ SinkInv
  <2>1. ASSUME AccessInit
        PROVE  DefaultPrefix \in Paths
    <3>1. \A name \in {"raw", "xero", "_manifests"} : name \in Segments
      BY AccessAssumption
    <3>2. <<"raw", "xero">> \in Seq(Segments)
      BY <3>1
    <3>. QED
      BY <3>2 DEF DefaultPrefix, Relative, Paths
  <2>. QED
    BY <2>1 DEF AccessInit, Started, SinkInv
<1>. QED
  BY <1>1, NextStarted, NextSink, PTL DEF AccessSpec

(* A file of a dry run is at the place its key names, inside the root,     *)
(* whatever the root, the prefix and the working directory are.            *)
THEOREM FilesWhereNamed == AccessSpec => []WrittenWhereNamed
<1>1. Started /\ SinkInv => WrittenWhereNamed
  <2> SUFFICES ASSUME Started, SinkInv,
                      args.command = "sync", args.dry_run,
                      Components(args.local_dir) # <<>>,
                      NEW key \in written
               PROVE  LET place == Place(Resolved(args.local_dir, key)) IN
                      /\ place = Place(Join(args.local_dir, key))
                      /\ IsPrefix(Place(args.local_dir), place)
    BY DEF WrittenWhereNamed
  <2>1. args.local_dir \in PathsOver(Segments)
    BY AccessAssumption DEF Started, Paths, PathsOver
  <2>2. key \in PathsOver(Segments) /\ ResolvesWithinRoot(args.local_dir, key)
    BY DEF SinkInv, SinkTakes, Paths, PathsOver
  <2>3. "/" \notin Segments /\ WorkDir \in Seq(Segments)
    BY AccessAssumption
  <2>. QED
    BY <2>1, <2>2, <2>3, ResolvesWhereNamed DEF Place
<1>. QED
  BY <1>1, SinkInvariant, PTL
----------------------------------------------------------------------------
(* A dry run whose root and keys are names throughout, with a prefix that  *)
(* is relative.                                                            *)
NamesThroughout ==
  /\ args.command = "sync"
  /\ args.dry_run
  /\ NamesOnly(args.local_dir)
  /\ ~KeyPrefix(env).absolute
  /\ \A t \in Tenants : NamesOnly(ObjectKey(KeyPrefix(env), t))

(* No unit of it is refused by its sink.                                   *)
NoneRefused ==
  NamesThroughout => \A c \in Callers : pc[c] # "refused"

(* A unit that has started works with the prefix of the environment.       *)
PrefixInv ==
  /\ stage = "start" => \A c \in Callers : pc[c] = "queued"
  /\ stage \in {"sink", "running"} => prefix = KeyPrefix(env)
  /\ \A c \in Callers : pc[c] # "queued" => prefix = KeyPrefix(env)

(* Every step keeps it.                                                    *)
LEMMA NextPrefix ==
  ASSUME UnitInv, PrefixInv, [AccessNext]_vars
  PROVE  PrefixInv'
<1>1. ASSUME UNCHANGED <<env, stage, prefix, pc>>
      PROVE  PrefixInv'
  BY <1>1 DEF PrefixInv
<1>2. ASSUME NEW c \in Callers, UnitStep(c)
      PROVE  PrefixInv'
  <2>1. /\ UNCHANGED <<env, stage, prefix>>
        /\ \A d \in Callers :
             pc[d] = "queued" => pc'[d] = "queued" \/ stage = "running"
        /\ stage = "start" => \A d \in Callers : pc'[d] = "queued"
    BY <1>2, UnitStepShape DEF commandVars, PrefixInv
  <2>. QED
    BY <2>1 DEF PrefixInv
<1>3. ASSUME NEW c \in Callers, CheckStep(c)
      PROVE  PrefixInv'
  BY <1>1, <1>3 DEF CheckStep, CheckTenant, TenantHealthy, TenantUnhealthy,
                    commandVars, unitVars
<1>4. CASE StartSync \/ StartHealthcheck \/ StartFails
  BY <1>4 DEF StartSync, StartHealthcheck, StartFails, PrefixInv, unitVars
<1>5. CASE BuildSink \/ WriteManifest \/ CheckBucket
  BY <1>5 DEF BuildSink, WriteManifest, CheckBucket, Verdict, PrefixInv,
              unitVars
<1>6. CASE TimePasses \/ UNCHANGED vars
  BY <1>1, <1>6 DEF TimePasses, vars, commandVars, unitVars
<1>. QED
  BY <1>2, <1>3, <1>4, <1>5, <1>6, StepCases

(* Its sink takes the keys of such a run.                                  *)
LEMMA NamesAreWritten ==
  ASSUME Started, SinkInv, NamesThroughout, prefix = KeyPrefix(env),
         NEW t \in Tenants
  PROVE  /\ SinkTakes(ObjectKey(prefix, t))
         /\ SinkTakes(SidecarKey(ObjectKey(prefix, t)))
<1> DEFINE key == ObjectKey(prefix, t)
           other == SidecarKey(key)
<1>1. key \in Paths /\ other \in Paths
  BY KeysArePaths DEF SinkInv
<1>2. key.segments = prefix.segments \o <<t, "page.json">>
      /\ key.absolute = prefix.absolute
  BY DEF ObjectKey, SinkInv, Paths
<1>3. NamesOnly(key) /\ ~key.absolute
  BY <1>2 DEF NamesThroughout
<1>4. NamesOnly(other) /\ ~other.absolute
  <2> DEFINE s == key.segments
             name == SidecarName(Last(s))
  <2>1. s \in Seq(Segments) /\ s # <<>>
    <3>1. prefix.segments \in Seq(Segments)
      BY DEF SinkInv, Paths
    <3>2. Len(s) = Len(prefix.segments) + 2
      BY <1>2, <3>1
    <3>3. s \in Seq(Segments)
      BY <1>1 DEF Paths
    <3>. QED
      BY <3>1, <3>2, <3>3
  <2>2. name \notin {".", ".."}
    BY DEF SidecarName
  <2>3. other = [key EXCEPT !.segments = Append(Front(s), name)]
    BY DEF SidecarKey
  <2> HIDE DEF name, other
  <2>4. other.absolute = key.absolute /\ other.segments = Append(Front(s), name)
    BY <1>1, <2>3 DEF Paths
  <2>5. \A i \in DOMAIN s : s[i] \notin {".", ".."}
    BY <1>3 DEF NamesOnly
  <2> HIDE DEF s, key
  <2>6. \A i \in DOMAIN Append(Front(s), name) :
          Append(Front(s), name)[i] \notin {".", ".."}
    BY <2>1, <2>2, <2>5 DEF Front
  <2>. QED
    BY <1>3, <2>4, <2>6 DEF NamesOnly
<1> HIDE DEF key, other
<1>5. /\ args.local_dir \in PathsOver(Segments) /\ "/" \notin Segments
      /\ key \in PathsOver(Segments) /\ other \in PathsOver(Segments)
  BY <1>1, AccessAssumption DEF Started, NamesThroughout, Paths, PathsOver
<1>6. NamesOnly(args.local_dir)
  BY DEF NamesThroughout
<1>7. ResolvesWithinRoot(args.local_dir, key)
      /\ ResolvesWithinRoot(args.local_dir, other)
  BY <1>3, <1>4, <1>5, <1>6, NamesAreTaken
<1>. QED
  BY <1>7 DEF SinkTakes, key, other

(* Every step of such a run takes what it uploads.                         *)
LEMMA NextTaken ==
  ASSUME Started, UnitInv, SinkInv, PrefixInv, NoneRefused, [AccessNext]_vars
  PROVE  NoneRefused'
<1> SUFFICES ASSUME NamesThroughout', NEW c \in Callers, pc'[c] = "refused"
             PROVE  FALSE
  BY DEF NoneRefused
<1>1. UNCHANGED <<env, args>>
  BY EnvironmentKept
<1>2. NamesThroughout
  BY <1>1 DEF NamesThroughout
<1>3. pc[c] # "refused"
  BY <1>2 DEF NoneRefused
<1>4. ASSUME NEW d \in Callers, UnitStep(d)
      PROVE  FALSE
  <2>1. c = d
    BY <1>3, <1>4, UnitStepShape
  <2>2. /\ Transition(c, "upload", "refused")
        /\ PutRefused(ObjectKey(prefix, TenantOf[c]))
    BY <1>3, <1>4, <2>1
       DEF UnitStep, StartUnit, Issue, UnitToken, Acquire, PageArrives,
           Unauthorized, PageFails, Upload, UploadFails, Transition,
           UnitInv, unitVars
  <2>3. prefix = KeyPrefix(env)
    BY <2>2 DEF Transition, PrefixInv
  <2>. QED
    BY <1>2, <2>2, <2>3, NamesAreWritten, CallersAssumption DEF PutRefused
<1>5. ASSUME UNCHANGED pc
      PROVE  FALSE
  BY <1>3, <1>5
<1>6. ASSUME NEW d \in Callers, CheckStep(d)
      PROVE  FALSE
  BY <1>5, <1>6, CheckStepShape DEF unitVars
<1>7. CASE StartSync \/ StartHealthcheck \/ StartFails \/ BuildSink
  BY <1>5, <1>7 DEF StartSync, StartHealthcheck, StartFails, BuildSink,
                    unitVars
<1>8. CASE WriteManifest \/ CheckBucket \/ TimePasses \/ UNCHANGED vars
  BY <1>5, <1>8 DEF WriteManifest, CheckBucket, TimePasses, vars, unitVars
<1>. QED
  BY <1>4, <1>6, <1>7, <1>8, StepCases

(* "Resolve key to a path strictly under root, rejecting any key that      *)
(* would escape the root directory" (sink.rs:132-133), where it is so: a   *)
(* dry run whose root, prefix and tenants are names loses no unit to its   *)
(* sink.  The key of a unit that is refused, or the root, has a "." or a   *)
(* ".." somewhere, or the prefix is absolute.                              *)
THEOREM NamesLoseNothing == AccessSpec => []NoneRefused
<1>1. AccessInit => PrefixInv /\ NoneRefused
  BY DEF AccessInit, PrefixInv, NoneRefused
<1>. QED
  BY <1>1, NextPrefix, NextTaken, AccessInvariant, SinkInvariant, PTL
     DEF AccessSpec, AccessInv
============================================================================
