--------------------------- MODULE SyncRunProofs ---------------------------
(***************************************************************************)
(* Theorems about SyncRun for every set of tenants, every list of units,   *)
(* every concurrency and every bound.                                      *)
(***************************************************************************)
EXTENDS SyncRun, FiniteSetTheorems, TLAPS

(* The clamp of max_concurrent is a usable width.                          *)
LEMMA ConcurrencyType == Concurrency \in Nat \ {0} /\ Concurrency <= MAX_CONCURRENCY
  BY RunAssumption DEF Concurrency

(* The units are the finite interval 1..N, each with a tenant.             *)
LEMMA UnitsType ==
  /\ N \in Nat
  /\ IsFiniteSet(Units)
  /\ TenantOf \in [Units -> Tenants]
  /\ \A u \in Units : units[u] \in Tenants \X Entities
<1>1. N \in Nat
  BY RunAssumption DEF N
<1>2. IsFiniteSet(Units)
  BY <1>1, FS_Interval DEF Units
<1>3. \A u \in Units : units[u] \in Tenants \X Entities
  BY <1>1, RunAssumption DEF Units, N
<1>4. TenantOf \in [Units -> Tenants]
  BY <1>3 DEF TenantOf
<1>5. QED
  BY <1>1, <1>2, <1>3, <1>4

(* Primed is a prefix of the units no wider than the concurrency.          *)
LEMMA PrimedType == Primed \in Nat /\ Primed <= N /\ Primed <= Concurrency
  BY ConcurrencyType, UnitsType DEF Primed
----------------------------------------------------------------------------
(* Ending a unit and moving a unit on keep the fan-out's types.            *)
LEMMA SettleType ==
  ASSUME TypeOK, NEW u \in Units, NEW o \in Outcomes, Settle(u, o)
  PROVE  /\ next' \in 1..(N + 1)
         /\ running' \in SUBSET Units
         /\ pc' \in [Units -> Steps]
         /\ outcomes' \in Seq(Outcomes)
<1>1. next' \in 1..(N + 1)
  BY UnitsType DEF TypeOK, Settle
<1>2. running' \in SUBSET Units
  BY DEF TypeOK, Settle
<1>3. pc' \in [Units -> Steps]
  BY DEF TypeOK, Settle, Steps
<1>4. outcomes' \in Seq(Outcomes)
  BY DEF TypeOK, Settle
<1>5. QED
  BY <1>1, <1>2, <1>3, <1>4

(* The same of a unit that fails.                                          *)
LEMMA FailType ==
  ASSUME TypeOK, NEW u \in Units, Fail(u)
  PROVE  /\ next' \in 1..(N + 1)
         /\ running' \in SUBSET Units
         /\ pc' \in [Units -> Steps]
         /\ outcomes' \in Seq(Outcomes)
<1>1. [unit |-> u, pages |-> 0, termination |-> "error"] \in Outcomes
  BY DEF Outcomes
<1>2. QED
  BY <1>1, SettleType DEF Fail

(* The same of a unit that goes on to its next await.                      *)
LEMMA GotoType ==
  ASSUME TypeOK, NEW u \in Units, NEW s \in Steps, Goto(u, s)
  PROVE  /\ next' \in 1..(N + 1)
         /\ running' \in SUBSET Units
         /\ pc' \in [Units -> Steps]
         /\ outcomes' \in Seq(Outcomes)
  BY DEF TypeOK, Goto, fanVars

(* The limiter's own steps keep its types.                                 *)
LEMMA TakeType ==
  ASSUME TypeOK, NEW u \in Units,
         \/ Limiter!Throttle(u) \/ Limiter!TakePermit(u)
         \/ Limiter!WakeAndTakePermit(u)
  PROVE  Limiter!LimiterTypeOK'
<1> USE DEF TypeOK, Limiter!LimiterTypeOK, Limiter!Phases
<1>1. TenantOf[u] \in Tenants
  BY UnitsType
<1>2. CASE Limiter!Throttle(u)
  BY <1>2 DEF Limiter!Throttle
<1>3. CASE Limiter!TakePermit(u)
  BY <1>1, <1>3 DEF Limiter!TakePermit
<1>4. CASE Limiter!WakeAndTakePermit(u)
  BY <1>1, <1>4 DEF Limiter!WakeAndTakePermit
<1>5. QED
  BY <1>2, <1>3, <1>4

(* Dropping a permit keeps the limiter's types.                            *)
LEMMA DropType ==
  ASSUME TypeOK, NEW u \in Units, Limiter!DropPermit(u)
  PROVE  /\ inFlight' \in [Tenants -> Nat]
         /\ phase' \in [Units -> Limiter!Phases]
<1>1. TenantOf[u] \in Tenants
  BY UnitsType
<1>2. Limiter!Released(TenantOf[u]) \in Nat
  BY <1>1 DEF TypeOK, Limiter!LimiterTypeOK, Limiter!Released
<1>3. inFlight' \in [Tenants -> Nat]
  BY <1>1, <1>2 DEF TypeOK, Limiter!LimiterTypeOK, Limiter!DropPermit
<1>4. phase' \in [Units -> Limiter!Phases]
  BY DEF TypeOK, Limiter!LimiterTypeOK, Limiter!DropPermit, Limiter!Phases
<1>5. QED
  BY <1>3, <1>4

(* Reading a response's headers keeps the limiter's types.                 *)
LEMMA HeadersType ==
  ASSUME TypeOK, NEW u \in Units, Headers(u)
  PROVE  minRemaining' \in [Tenants -> Quotas \cup {NoQuota}]
  BY UnitsType DEF TypeOK, Limiter!LimiterTypeOK, Headers, Limiter!UpdateFromHeaders

(* A collected page keeps the types of everything but the sink.            *)
LEMMA CollectType ==
  ASSUME TypeOK, NEW u \in Units, NEW n \in Nat, NEW adv \in BOOLEAN,
         CollectPage(u, n, adv)
  PROVE  /\ inFlight' \in [Tenants -> Nat]
         /\ phase' \in [Units -> Limiter!Phases]
         /\ next' \in 1..(N + 1)
         /\ running' \in SUBSET Units
         /\ pc' \in [Units -> Steps]
         /\ outcomes' \in Seq(Outcomes)
         /\ attempt' \in [Units -> 0..MAX_ATTEMPTS]
         /\ fetched' \in [Units -> Seq(Nat)]
         /\ ended' \in [Units -> Terminations \cup {"none"}]
<1> DEFINE r == StopReason(u, Len(fetched[u]) + 1, n, adv)
<1>1. r \in Terminations \cup {"none"}
  BY DEF StopReason, Terminations
<1>2. inFlight' \in [Tenants -> Nat] /\ phase' \in [Units -> Limiter!Phases]
  BY DropType DEF CollectPage
<1>3. attempt' \in [Units -> 0..MAX_ATTEMPTS]
  BY RunAssumption DEF CollectPage, TypeOK
<1>4. fetched' \in [Units -> Seq(Nat)]
  BY DEF CollectPage, TypeOK
<1>5. ended' \in [Units -> Terminations \cup {"none"}]
  BY <1>1 DEF CollectPage, TypeOK
<1>6. PICK s \in Steps : Goto(u, s)
  BY DEF CollectPage, Steps
<1>7. QED
  BY <1>2, <1>3, <1>4, <1>5, <1>6, GotoType
----------------------------------------------------------------------------
(* The initial state is well typed.                                        *)
LEMMA InitType == Init => TypeOK
<1> SUFFICES ASSUME Init PROVE TypeOK
  OBVIOUS
<1>1. Limiter!LimiterTypeOK
  BY UnitsType DEF Init, Limiter!LimiterInit, Limiter!LimiterTypeOK, Limiter!Phases
<1>2. next \in 1..(N + 1) /\ running \in SUBSET Units
  BY PrimedType, UnitsType DEF Init, Units
<1>3. pc \in [Units -> Steps]
  BY DEF Init, Steps
<1>4. /\ attempt \in [Units -> 0..MAX_ATTEMPTS]
      /\ fetched \in [Units -> Seq(Nat)]
      /\ ended \in [Units -> Terminations \cup {"none"}]
      /\ uploaded \in [Units -> Nat]
  BY RunAssumption DEF Init
<1>5. /\ outcomes \in Seq(Outcomes)
      /\ manifest \in [written : BOOLEAN, entities : Seq(Outcomes)]
  BY DEF Init, NoManifest
<1>6. QED
  BY <1>1, <1>2, <1>3, <1>4, <1>5 DEF Init, TypeOK, Stages

(* The outcome of a unit whose last page was uploaded is well typed.       *)
LEMMA SucceedType ==
  ASSUME TypeOK, UploadInv, NEW u \in Units, pc[u] = "sidecar"
  PROVE  /\ [unit |-> u, pages |-> PagesFetched(u), termination |-> ended[u]]
              \in Outcomes
         /\ Len(fetched[u]) \in Nat \ {0}
<1>1. uploaded[u] \in Nat /\ Len(fetched[u]) \in Nat
  BY DEF TypeOK
<1>2. ended[u] \in Terminations /\ uploaded[u] < Len(fetched[u])
  BY DEF UploadInv
<1>3. PagesFetched(u) \in Nat
  BY <1>1, <1>2 DEF PagesFetched
<1>4. QED
  BY <1>1, <1>2, <1>3 DEF Outcomes

(* A step of a unit keeps the types.                                       *)
LEMMA UnitStepType ==
  ASSUME TypeOK, UploadInv, NEW u \in Units, UnitStep(u)
  PROVE  TypeOK'
<1> USE DEF limiterVars, fetchVars, fanVars, sinkVars
<1>k. Key(u) \in Keys
  BY UnitsType DEF Key, Keys, TypeOK
<1>1. CASE FetchToken(u)
  BY <1>1, GotoType DEF FetchToken, TypeOK, Limiter!LimiterTypeOK, Steps
<1>2. CASE TokenFails(u)
  BY <1>2, FailType DEF TokenFails, TypeOK, Limiter!LimiterTypeOK
<1>3. CASE AwaitQuota(u)
  BY <1>3, TakeType DEF AwaitQuota, TypeOK
<1>4. CASE Send(u)
  BY <1>4, TakeType, GotoType DEF Send, TypeOK, Steps
<1>5. CASE RespondSuccess(u)
  BY <1>5, HeadersType, GotoType
     DEF RespondSuccess, TypeOK, Limiter!LimiterTypeOK, Steps
<1>6. CASE RespondRetryable(u)
  <2>1. attempt' \in [Units -> 0..MAX_ATTEMPTS]
    BY <1>6, RunAssumption DEF RespondRetryable, TypeOK
  <2>2. QED
    BY <1>6, <2>1, HeadersType, DropType, GotoType
       DEF RespondRetryable, TypeOK, Limiter!LimiterTypeOK, Steps
<1>7. CASE BackoffEnds(u)
  BY <1>7, GotoType DEF BackoffEnds, TypeOK, Limiter!LimiterTypeOK, Steps
<1>8. CASE RespondFatal(u)
  BY <1>8, HeadersType, DropType, FailType
     DEF RespondFatal, TypeOK, Limiter!LimiterTypeOK
<1>9. CASE RespondNotModified(u)
  BY <1>9, HeadersType, CollectType
     DEF RespondNotModified, TypeOK, Limiter!LimiterTypeOK
<1>10. CASE ReadBody(u)
  <2>1. PICK n \in BodyRecords(u), adv \in BOOLEAN : CollectPage(u, n, adv)
    BY <1>10 DEF ReadBody
  <2>2. n \in Nat
    BY DEF BodyRecords
  <2>3. /\ inFlight' \in [Tenants -> Nat]
        /\ phase' \in [Units -> Limiter!Phases]
        /\ next' \in 1..(N + 1)
        /\ running' \in SUBSET Units
        /\ pc' \in [Units -> Steps]
        /\ outcomes' \in Seq(Outcomes)
        /\ attempt' \in [Units -> 0..MAX_ATTEMPTS]
        /\ fetched' \in [Units -> Seq(Nat)]
        /\ ended' \in [Units -> Terminations \cup {"none"}]
    BY <2>1, <2>2, CollectType
  <2>4. QED
    BY <1>10, <2>3 DEF ReadBody, TypeOK, Limiter!LimiterTypeOK
<1>11. CASE BodyFails(u)
  BY <1>11, DropType, FailType DEF BodyFails, TypeOK, Limiter!LimiterTypeOK
<1>12. CASE PutObject(u)
  BY <1>12, <1>k, GotoType DEF PutObject, TypeOK, Limiter!LimiterTypeOK, Steps
<1>13. CASE PutObjectFails(u)
  BY <1>13, <1>k, FailType DEF PutObjectFails, TypeOK, Limiter!LimiterTypeOK
<1>14. CASE PutSidecar(u)
  <2>1. uploaded' \in [Units -> Nat]
    BY <1>14 DEF PutSidecar, TypeOK
  <2>2. /\ next' \in 1..(N + 1)
        /\ running' \in SUBSET Units
        /\ pc' \in [Units -> Steps]
        /\ outcomes' \in Seq(Outcomes)
    <3>1. CASE Goto(u, "object")
      BY <3>1, GotoType DEF Steps
    <3>2. CASE Succeed(u)
      BY <1>14, <3>2, SucceedType, SettleType DEF Succeed, PutSidecar, At
    <3>3. QED
      BY <1>14, <3>1, <3>2 DEF PutSidecar
  <2>3. QED
    BY <1>14, <1>k, <2>1, <2>2 DEF PutSidecar, TypeOK, Limiter!LimiterTypeOK
<1>15. CASE PutSidecarFails(u)
  BY <1>15, <1>k, FailType DEF PutSidecarFails, TypeOK, Limiter!LimiterTypeOK
<1>16. QED
  BY <1>1, <1>2, <1>3, <1>4, <1>5, <1>6, <1>7, <1>8, <1>9, <1>10, <1>11,
     <1>12, <1>13, <1>14, <1>15 DEF UnitStep

(* The steps of the process as a whole keep the types.                     *)
LEMMA ProcessStepType ==
  ASSUME TypeOK, ManifestStep \/ Crash \/ UNCHANGED vars
  PROVE  TypeOK'
<1> USE DEF Quiet, limiterVars, fetchVars, fanVars, sinkVars
<1> USE DEF TypeOK, Limiter!LimiterTypeOK, Stages
<1>1. CASE WriteManifest
  BY <1>1 DEF WriteManifest
<1>2. CASE WriteManifestSidecar
  BY <1>2 DEF WriteManifestSidecar
<1>3. CASE WriteManifestFails
  <2>1. manifest' = manifest \/ manifest' = [written |-> TRUE, entities |-> outcomes]
    BY <1>3 DEF WriteManifestFails
  <2>2. manifest' \in [written : BOOLEAN, entities : Seq(Outcomes)]
    <3>1. [written |-> TRUE, entities |-> outcomes]
            \in [written : BOOLEAN, entities : Seq(Outcomes)]
      OBVIOUS
    <3>2. manifest \in [written : BOOLEAN, entities : Seq(Outcomes)]
      OBVIOUS
    <3> HIDE DEF TypeOK, Quiet
    <3>3. QED
      BY <2>1, <3>1, <3>2
  <2>3. QED
    BY <1>3, <2>2 DEF WriteManifestFails
<1>4. CASE Crash
  BY <1>4 DEF Crash
<1>5. CASE UNCHANGED vars
  BY <1>5 DEF vars
<1>6. QED
  BY <1>1, <1>2, <1>3, <1>4, <1>5 DEF ManifestStep
----------------------------------------------------------------------------
(* What a step of a unit does to the fan-out: it is that of a unit in      *)
(* flight and moves it on, or ends it with an outcome of its own.          *)
MovesOn(u) ==
  \E s \in Steps \ {"queued", "settled"} : Goto(u, s)

Ends(u) ==
  \E o \in Outcomes : o.unit = u /\ Settle(u, o)

(* A step of a unit moves it on, ends it, or leaves the fan-out alone.     *)
LEMMA UnitStepShape ==
  ASSUME TypeOK, UploadInv, NEW u \in Units, UnitStep(u)
  PROVE  /\ stage = "fanout" /\ UNCHANGED <<stage, manifest>>
         /\ pc[u] \notin {"queued", "settled"}
         /\ MovesOn(u) \/ Ends(u) \/ UNCHANGED <<pc, fanVars>>
<1> USE DEF At, MovesOn
<1>f. ASSUME Fail(u) PROVE Ends(u)
  <2>1. [unit |-> u, pages |-> 0, termination |-> "error"] \in Outcomes
    BY DEF Outcomes
  <2>2. QED
    BY <1>f, <2>1 DEF Fail, Ends
<1>c. ASSUME NEW n, NEW adv, CollectPage(u, n, adv) PROVE MovesOn(u)
  BY <1>c DEF CollectPage, Steps
<1>1. CASE FetchToken(u)
  BY <1>1 DEF FetchToken, Steps
<1>2. CASE TokenFails(u)
  BY <1>2, <1>f DEF TokenFails
<1>3. CASE AwaitQuota(u)
  BY <1>3 DEF AwaitQuota
<1>4. CASE Send(u)
  BY <1>4 DEF Send, Steps
<1>5. CASE RespondSuccess(u)
  BY <1>5 DEF RespondSuccess, Steps
<1>6. CASE RespondRetryable(u)
  BY <1>6 DEF RespondRetryable, Steps
<1>7. CASE BackoffEnds(u)
  BY <1>7 DEF BackoffEnds, Steps
<1>8. CASE RespondFatal(u)
  BY <1>8, <1>f DEF RespondFatal
<1>9. CASE RespondNotModified(u)
  BY <1>9, <1>c DEF RespondNotModified
<1>10. CASE ReadBody(u)
  BY <1>10, <1>c DEF ReadBody
<1>11. CASE BodyFails(u)
  BY <1>11, <1>f DEF BodyFails
<1>12. CASE PutObject(u)
  BY <1>12 DEF PutObject, Steps
<1>13. CASE PutObjectFails(u)
  BY <1>13, <1>f DEF PutObjectFails
<1>14. CASE PutSidecar(u)
  <2>1. CASE Goto(u, "object")
    BY <1>14, <2>1 DEF PutSidecar, Steps
  <2>2. CASE Succeed(u)
    <3>1. Ends(u)
      BY <1>14, <2>2, SucceedType DEF PutSidecar, Succeed, Ends
    <3>2. QED
      BY <1>14, <3>1 DEF PutSidecar
  <2>3. QED
    BY <1>14, <2>1, <2>2 DEF PutSidecar
<1>15. CASE PutSidecarFails(u)
  BY <1>15, <1>f DEF PutSidecarFails
<1>16. QED
  BY <1>1, <1>2, <1>3, <1>4, <1>5, <1>6, <1>7, <1>8, <1>9, <1>10, <1>11,
     <1>12, <1>13, <1>14, <1>15 DEF UnitStep

(* Every outcome in the list after a unit has ended is an old one or its   *)
(* own, and the old ones keep their places.                                *)
LEMMA AppendedOutcome ==
  ASSUME TypeOK, NEW u \in Units, NEW o \in Outcomes, Settle(u, o)
  PROVE  /\ DOMAIN outcomes' = 1..(Len(outcomes) + 1)
         /\ DOMAIN outcomes = 1..Len(outcomes)
         /\ Len(outcomes) \in Nat
         /\ outcomes'[Len(outcomes) + 1] = o
         /\ \A i \in DOMAIN outcomes : outcomes'[i] = outcomes[i]
  BY DEF TypeOK, Settle

(* Ending a unit keeps the fan-out consistent.                             *)
LEMMA SettleFanOut ==
  ASSUME TypeOK, FanOutInv, NEW u \in Units, NEW o \in Outcomes,
         pc[u] \notin {"queued", "settled"}, o.unit = u, Settle(u, o)
  PROVE  FanOutInv'
<1>a. /\ N \in Nat /\ next \in 1..(N + 1) /\ pc \in [Units -> Steps]
      /\ running \in SUBSET Units /\ u \in 1..N
  BY UnitsType DEF TypeOK, Units
<1>b. u # next /\ u < next
  BY <1>a DEF FanOutInv
<1>s. \A v \in Units : Settled(v)' <=> (Settled(v) \/ v = u)
  BY AppendedOutcome DEF Settled
<1>1. ASSUME NEW v \in Units
      PROVE  /\ v \in running' <=> pc'[v] \notin {"queued", "settled"}
             /\ pc'[v] = "queued" <=> v >= next'
             /\ pc'[v] = "settled" <=> Settled(v)'
  <2>1. pc'[v] = IF v = u THEN "settled" ELSE IF v = next THEN "token" ELSE pc[v]
    BY <1>a DEF Settle
  <2>2. v \in running' <=> ((v \in running /\ v # u) \/ v = next)
    BY DEF Settle
  <2>3. /\ v \in running <=> pc[v] \notin {"queued", "settled"}
        /\ pc[v] = "queued" <=> v >= next
        /\ pc[v] = "settled" <=> Settled(v)
    BY DEF FanOutInv
  <2>4. v \in running' <=> pc'[v] \notin {"queued", "settled"}
    BY <1>b, <2>1, <2>2, <2>3
  <2>5. v \in 1..N /\ next' = IF next <= N THEN next + 1 ELSE next
    BY DEF Settle, Units
  <2>6. pc'[v] = "queued" <=> v >= next'
    BY <1>a, <1>b, <2>1, <2>3, <2>5
  <2>7. pc[next] # "settled" \/ next \notin Units
    BY <1>a DEF FanOutInv
  <2>8. pc'[v] = "settled" <=> Settled(v)'
    BY <1>a, <1>b, <1>s, <2>1, <2>3, <2>7
  <2>9. QED
    BY <2>4, <2>6, <2>8
<1>2. ASSUME NEW i \in DOMAIN outcomes', NEW j \in DOMAIN outcomes',
             outcomes'[i].unit = outcomes'[j].unit
      PROVE  i = j
  <2>1. ~Settled(u)
    BY DEF FanOutInv
  <2>2. \A k \in DOMAIN outcomes : outcomes[k].unit # u
    BY <2>1 DEF Settled
  <2>3. \A k, l \in DOMAIN outcomes : outcomes[k].unit = outcomes[l].unit => k = l
    BY DEF FanOutInv
  <2>4. QED
    BY <1>2, <2>2, <2>3, AppendedOutcome
<1>3. next' <= N => running' # {}
  <2>1. SUFFICES ASSUME next' <= N PROVE next \in running'
    OBVIOUS
  <2>2. next <= N
    BY <1>a, <2>1 DEF Settle
  <2>3. QED
    BY <1>a, <2>2 DEF Settle, Units
<1>4. QED
  BY <1>1, <1>2, <1>3 DEF FanOutInv

(* Every step of a unit keeps the bookkeeping of the fan-out.              *)
LEMMA UnitStepFanOut ==
  ASSUME TypeOK, UploadInv, FanOutInv, NEW u \in Units, UnitStep(u)
  PROVE  FanOutInv'
<1>1. pc[u] \notin {"queued", "settled"}
  BY UnitStepShape
<1>2. CASE Ends(u)
  BY <1>1, <1>2, SettleFanOut DEF Ends
<1>3. CASE MovesOn(u)
  <2>1. PICK s \in Steps \ {"queued", "settled"} : Goto(u, s)
    BY <1>3 DEF MovesOn
  <2>2. \A v \in Units : pc'[v] = IF v = u THEN s ELSE pc[v]
    BY <2>1 DEF Goto, TypeOK
  <2>3. UNCHANGED <<next, running, outcomes>>
    BY <2>1 DEF Goto, fanVars
  <2>4. QED
    BY <1>1, <2>2, <2>3 DEF FanOutInv, Settled
<1>4. CASE UNCHANGED <<pc, fanVars>>
  BY <1>4 DEF FanOutInv, Settled, fanVars
<1>5. QED
  BY <1>2, <1>3, <1>4, UnitStepShape

(* The bound on the futures in flight.                                     *)
LEMMA UnitStepConcurrency ==
  ASSUME TypeOK, UploadInv, FanOutInv, ConcurrencyBound, NEW u \in Units, UnitStep(u)
  PROVE  ConcurrencyBound'
<1>1. u \in running
  BY UnitStepShape DEF FanOutInv
<1>2. CASE Ends(u)
  <2>1. IsFiniteSet(running)
    BY UnitsType, FS_Subset DEF TypeOK
  <2>2. /\ IsFiniteSet(running \ {u})
        /\ Cardinality(running \ {u}) = Cardinality(running) - 1
    BY <1>1, <2>1, FS_RemoveElement
  <2>3. running' = running \ {u} \/ running' = (running \ {u}) \cup {next}
    BY <1>2 DEF Ends, Settle
  <2>4. /\ Cardinality((running \ {u}) \cup {next}) \in Nat
        /\ Cardinality((running \ {u}) \cup {next}) <= Cardinality(running \ {u}) + 1
    <3>1. Cardinality(running \ {u}) \in Nat
      BY <2>2, FS_CardinalityType
    <3>2. Cardinality((running \ {u}) \cup {next}) =
            IF next \in running \ {u} THEN Cardinality(running \ {u})
                                     ELSE Cardinality(running \ {u}) + 1
      BY <2>2, FS_AddElement
    <3>3. QED
      BY <3>1, <3>2
  <2>5. Cardinality(running) \in Nat /\ Concurrency \in Nat
    BY <2>1, FS_CardinalityType, ConcurrencyType
  <2>6. Cardinality(running') <= Concurrency
    <3>1. Cardinality(running) <= Concurrency
      BY DEF ConcurrencyBound
    <3>2. CASE running' = running \ {u}
      <4>1. Cardinality(running') = Cardinality(running) - 1
        BY <2>2, <3>2
      <4>2. QED
        BY <2>5, <3>1, <4>1
    <3>3. CASE running' = (running \ {u}) \cup {next}
      <4>1. Cardinality(running') <= Cardinality(running \ {u}) + 1
        BY <2>4, <3>3
      <4>2. Cardinality(running') \in Nat
        BY <2>4, <3>3
      <4>3. QED
        BY <2>2, <2>5, <3>1, <4>1, <4>2
    <3>4. QED
      BY <2>3, <3>2, <3>3
  <2>7. QED
    BY <2>6 DEF ConcurrencyBound, Concurrency
<1>3. CASE MovesOn(u) \/ UNCHANGED <<pc, fanVars>>
  BY <1>3 DEF MovesOn, Goto, fanVars, ConcurrencyBound
<1>4. QED
  BY <1>2, <1>3, UnitStepShape
----------------------------------------------------------------------------
(* The requests in flight of a tenant, read off the units.                 *)
InRequest(t) == {v \in Units : TenantOf[v] = t /\ pc[v] \in {"request", "body"}}

(* A step of a unit sends one request, ends one, or does neither; and the  *)
(* limiter's counter follows.                                              *)
Sends(u) ==
  /\ pc[u] = "acquire" /\ pc'[u] = "request"
  /\ inFlight' = [inFlight EXCEPT ![TenantOf[u]] = @ + 1]

Releases(u) ==
  /\ pc[u] \in {"request", "body"} /\ pc'[u] \notin {"request", "body"}
  /\ inFlight' = [inFlight EXCEPT ![TenantOf[u]] = Limiter!Released(TenantOf[u])]

Keeps(u) ==
  /\ pc[u] \in {"request", "body"} <=> pc'[u] \in {"request", "body"}
  /\ UNCHANGED inFlight

(* The other units stay where they are or, if queued, start.               *)
LEMMA OthersStay ==
  ASSUME TypeOK, UploadInv, FanOutInv, NEW u \in Units, UnitStep(u),
         NEW v \in Units, v # u
  PROVE  pc'[v] \in {"request", "body"} <=> pc[v] \in {"request", "body"}
<1>1. CASE Ends(u)
  <2>1. pc'[v] = IF v = next THEN "token" ELSE pc[v]
    BY <1>1 DEF Ends, Settle
  <2>2. v = next => pc[v] = "queued"
    BY UnitsType DEF FanOutInv, TypeOK, Units
  <2>3. QED
    BY <2>1, <2>2
<1>2. CASE MovesOn(u) \/ UNCHANGED <<pc, fanVars>>
  BY <1>2 DEF MovesOn, Goto, TypeOK
<1>3. QED
  BY <1>1, <1>2, UnitStepShape

(* A step of a unit takes a permit, gives one back, or does neither.       *)
LEMMA LimiterShape ==
  ASSUME TypeOK, NEW u \in Units, UnitStep(u)
  PROVE  Sends(u) \/ Releases(u) \/ Keeps(u)
<1> USE DEF At, Goto, limiterVars
<1>t. pc \in [Units -> Steps]
  BY DEF TypeOK
<1>f. Fail(u) \/ Succeed(u) => pc'[u] = "settled"
  BY DEF Fail, Succeed, Settle
<1>d. Limiter!DropPermit(u) =>
        inFlight' = [inFlight EXCEPT ![TenantOf[u]] = Limiter!Released(TenantOf[u])]
  BY DEF Limiter!DropPermit
<1>c. ASSUME NEW n, NEW adv, CollectPage(u, n, adv)
      PROVE  /\ pc'[u] \notin {"request", "body"}
             /\ Limiter!DropPermit(u)
  BY <1>c, <1>t DEF CollectPage
<1>1. CASE FetchToken(u)
  BY <1>1, <1>t DEF FetchToken, Keeps
<1>2. CASE TokenFails(u)
  BY <1>2, <1>f DEF TokenFails, Keeps
<1>3. CASE AwaitQuota(u)
  BY <1>3 DEF AwaitQuota, Limiter!Throttle, Keeps
<1>4. CASE Send(u)
  BY <1>4, <1>t DEF Send, Limiter!TakePermit, Limiter!WakeAndTakePermit, Sends
<1>5. CASE RespondSuccess(u)
  BY <1>5, <1>t DEF RespondSuccess, Keeps
<1>6. CASE RespondRetryable(u)
  BY <1>6, <1>t, <1>d DEF RespondRetryable, Releases
<1>7. CASE BackoffEnds(u)
  BY <1>7, <1>t DEF BackoffEnds, Keeps
<1>8. CASE RespondFatal(u)
  BY <1>8, <1>d, <1>f DEF RespondFatal, Releases
<1>9. CASE RespondNotModified(u)
  BY <1>9, <1>c, <1>d DEF RespondNotModified, Releases
<1>10. CASE ReadBody(u)
  BY <1>10, <1>c, <1>d DEF ReadBody, Releases
<1>11. CASE BodyFails(u)
  BY <1>11, <1>d, <1>f DEF BodyFails, Releases
<1>12. CASE PutObject(u)
  BY <1>12, <1>t DEF PutObject, Keeps
<1>13. CASE PutObjectFails(u)
  BY <1>13, <1>f DEF PutObjectFails, Keeps
<1>14. CASE PutSidecar(u)
  BY <1>14, <1>f, <1>t DEF PutSidecar, Keeps
<1>15. CASE PutSidecarFails(u)
  BY <1>15, <1>f DEF PutSidecarFails, Keeps
<1>16. QED
  BY <1>1, <1>2, <1>3, <1>4, <1>5, <1>6, <1>7, <1>8, <1>9, <1>10, <1>11,
     <1>12, <1>13, <1>14, <1>15 DEF UnitStep

(* The requests in flight of a tenant can be counted.                      *)
LEMMA InRequestFinite ==
  ASSUME NEW t \in Tenants
  PROVE  IsFiniteSet(InRequest(t)) /\ Cardinality(InRequest(t)) \in Nat
<1>1. IsFiniteSet(InRequest(t))
  BY UnitsType, FS_Subset DEF InRequest
<1>2. QED
  BY <1>1, FS_CardinalityType

(* The counter and the requests in flight move together.                   *)
LEMMA UnitStepPermits ==
  ASSUME TypeOK, UploadInv, FanOutInv, PermitsBalanced, NEW u \in Units, UnitStep(u)
  PROVE  PermitsBalanced'
<1> SUFFICES ASSUME NEW t \in Tenants
             PROVE  inFlight'[t] = Cardinality(InRequest(t)')
  BY DEF PermitsBalanced, InRequest
<1>1. inFlight[t] = Cardinality(InRequest(t))
  BY DEF PermitsBalanced, InRequest
<1>2. inFlight \in [Tenants -> Nat] /\ TenantOf[u] \in Tenants
  BY UnitsType DEF TypeOK, Limiter!LimiterTypeOK
<1>3. CASE TenantOf[u] # t
  <2>1. InRequest(t)' = InRequest(t)
    BY <1>3, OthersStay DEF InRequest, TenantOf
  <2>2. inFlight'[t] = inFlight[t]
    BY <1>2, <1>3, LimiterShape DEF Sends, Releases, Keeps
  <2>3. QED
    BY <1>1, <2>1, <2>2
<1>4. CASE TenantOf[u] = t /\ Sends(u)
  <2>1. InRequest(t)' = InRequest(t) \cup {u} /\ u \notin InRequest(t)
    BY <1>4, OthersStay DEF InRequest, Sends, TenantOf
  <2>2. inFlight'[t] = inFlight[t] + 1
    BY <1>2, <1>4 DEF Sends
  <2>3. QED
    BY <1>1, <2>1, <2>2, InRequestFinite, FS_AddElement
<1>5. CASE TenantOf[u] = t /\ Releases(u)
  <2>1. InRequest(t)' = InRequest(t) \ {u} /\ u \in InRequest(t)
    BY <1>5, OthersStay DEF InRequest, Releases, TenantOf
  <2>2. Cardinality(InRequest(t) \ {u}) = Cardinality(InRequest(t)) - 1
    BY <2>1, InRequestFinite, FS_RemoveElement
  <2>3. Cardinality(InRequest(t) \ {u}) \in Nat
    BY InRequestFinite, FS_RemoveElement, FS_CardinalityType
  <2>4. inFlight'[t] = inFlight[t] - 1
    BY <1>1, <1>2, <1>5, <2>2, <2>3, InRequestFinite DEF Releases, Limiter!Released
  <2>5. QED
    BY <1>1, <2>1, <2>2, <2>4
<1>6. CASE TenantOf[u] = t /\ Keeps(u)
  <2>1. InRequest(t)' = InRequest(t)
    BY <1>6, OthersStay DEF InRequest, Keeps, TenantOf
  <2>2. QED
    BY <1>1, <1>6, <2>1 DEF Keeps
<1>7. QED
  BY <1>3, <1>4, <1>5, <1>6, LimiterShape
----------------------------------------------------------------------------
(* What a step of a unit leaves alone in the other units.                  *)
LEMMA OthersKeep ==
  ASSUME TypeOK, UploadInv, FanOutInv, NEW u \in Units, UnitStep(u),
         NEW v \in Units, v # u
  PROVE  /\ uploaded'[v] = uploaded[v]
         /\ fetched'[v] = fetched[v]
         /\ ended'[v] = ended[v]
         /\ pc'[v] \in {"object", "sidecar"} => pc'[v] = pc[v]
<1>1. pc'[v] \in {"object", "sidecar"} => pc'[v] = pc[v]
  <2>1. CASE Ends(u)
    BY <2>1 DEF Ends, Settle
  <2>2. CASE MovesOn(u) \/ UNCHANGED <<pc, fanVars>>
    BY <2>2 DEF MovesOn, Goto, TypeOK
  <2>3. QED
    BY <2>1, <2>2, UnitStepShape
<1>2. uploaded'[v] = uploaded[v]
  <2>1. CASE PutSidecar(u)
    BY <2>1 DEF PutSidecar, TypeOK
  <2>2. CASE ~PutSidecar(u)
    BY <2>2 DEF UnitStep, FetchToken, TokenFails, AwaitQuota, Send,
       RespondSuccess, RespondRetryable, BackoffEnds, RespondFatal,
       RespondNotModified, ReadBody, BodyFails, PutObject, PutObjectFails,
       PutSidecarFails, sinkVars
  <2>3. QED
    BY <2>1, <2>2
<1>c. ASSUME NEW n, NEW adv, CollectPage(u, n, adv)
      PROVE  fetched'[v] = fetched[v] /\ ended'[v] = ended[v]
  BY <1>c DEF CollectPage, TypeOK
<1>3. fetched'[v] = fetched[v] /\ ended'[v] = ended[v]
  <2>1. CASE RespondNotModified(u) \/ ReadBody(u)
    BY <2>1, <1>c DEF RespondNotModified, ReadBody
  <2>2. CASE ~(RespondNotModified(u) \/ ReadBody(u))
    BY <2>2 DEF UnitStep, FetchToken, TokenFails, AwaitQuota, Send,
       RespondSuccess, RespondRetryable, BackoffEnds, RespondFatal,
       BodyFails, PutObject, PutObjectFails, PutSidecar, PutSidecarFails, fetchVars
  <2>3. QED
    BY <2>1, <2>2
<1>4. QED
  BY <1>1, <1>2, <1>3

(* What a step of a unit does to the bucket and to its own upload: nothing *)
(* ever leaves the bucket; a sidecar is put for the page whose object is   *)
(* there, and the page counts as uploaded only with it.                    *)
Grows(u) ==
  /\ objects \subseteq objects'
  /\ sidecars \subseteq sidecars'
  /\ sidecars' \subseteq sidecars \cup {Key(u)}
  /\ sidecars' # sidecars => pc[u] = "sidecar"

Uploads(u) ==
  \/ /\ pc[u] = "sidecar"
     /\ pc'[u] # "sidecar"
     /\ Key(u) \in sidecars'
     /\ uploaded'[u] = uploaded[u] + 1
     /\ UNCHANGED <<fetched, ended>>
     /\ pc'[u] = "object" => uploaded[u] + 1 < Len(fetched[u])
  \/ /\ UNCHANGED uploaded
     /\ pc'[u] = "sidecar" => /\ pc[u] = "object"
                              /\ Key(u) \in objects'
                              /\ UNCHANGED <<fetched, ended>>
     /\ pc'[u] # "sidecar" => pc'[u] # "object" \/ ended'[u] \in Terminations
     /\ Len(fetched'[u]) \in {Len(fetched[u]), Len(fetched[u]) + 1}
     /\ pc'[u] = "object" => Len(fetched'[u]) = Len(fetched[u]) + 1
     /\ pc[u] = "sidecar" => pc'[u] = "settled"

(* A step of a unit only adds to the bucket, and to its own uploads.       *)
LEMMA SinkShape ==
  ASSUME TypeOK, UploadInv, NEW u \in Units, UnitStep(u)
  PROVE  Grows(u) /\ Uploads(u)
<1> USE DEF At, Goto, sinkVars, fetchVars, Grows
<1>t. pc \in [Units -> Steps] /\ uploaded \in [Units -> Nat]
  BY DEF TypeOK
<1>f. Fail(u) \/ Succeed(u) => pc'[u] = "settled"
  BY DEF Fail, Succeed, Settle
<1>c. ASSUME NEW n, NEW adv, CollectPage(u, n, adv), UNCHANGED uploaded,
             pc[u] \in {"request", "body"}
      PROVE  Uploads(u)
  <2> DEFINE r == StopReason(u, Len(fetched[u]) + 1, n, adv)
  <2>1. fetched'[u] = Append(fetched[u], n) /\ ended'[u] = r
    BY <1>c DEF CollectPage, TypeOK
  <2>2. Len(fetched'[u]) = Len(fetched[u]) + 1
    BY <2>1 DEF TypeOK
  <2>3. pc'[u] = IF r = "none" THEN "acquire" ELSE "object"
    BY <1>c, <1>t DEF CollectPage
  <2>4. r \in Terminations \cup {"none"}
    BY DEF StopReason, Terminations
  <2>5. QED
    BY <1>c, <2>1, <2>2, <2>3, <2>4 DEF Uploads
<1>1. CASE FetchToken(u)
  BY <1>1, <1>t DEF FetchToken, Uploads
<1>2. CASE TokenFails(u)
  BY <1>2, <1>f DEF TokenFails, Uploads
<1>3. CASE AwaitQuota(u)
  BY <1>3 DEF AwaitQuota, Uploads
<1>4. CASE Send(u)
  BY <1>4, <1>t DEF Send, Uploads
<1>5. CASE RespondSuccess(u)
  BY <1>5, <1>t DEF RespondSuccess, Uploads
<1>6. CASE RespondRetryable(u)
  BY <1>6, <1>t DEF RespondRetryable, Uploads
<1>7. CASE BackoffEnds(u)
  BY <1>7, <1>t DEF BackoffEnds, Uploads
<1>8. CASE RespondFatal(u)
  BY <1>8, <1>f DEF RespondFatal, Uploads
<1>9. CASE RespondNotModified(u)
  BY <1>9, <1>c DEF RespondNotModified
<1>10. CASE ReadBody(u)
  BY <1>10, <1>c DEF ReadBody
<1>11. CASE BodyFails(u)
  BY <1>11, <1>f DEF BodyFails, Uploads
<1>12. CASE PutObject(u)
  BY <1>12, <1>t DEF PutObject, Uploads
<1>13. CASE PutObjectFails(u)
  BY <1>13, <1>f DEF PutObjectFails, Uploads
<1>14. CASE PutSidecar(u)
  <2>1. uploaded'[u] = uploaded[u] + 1 /\ pc[u] = "sidecar"
    BY <1>14, <1>t DEF PutSidecar
  <2>2. IF uploaded[u] + 1 < Len(fetched[u]) THEN pc'[u] = "object"
                                             ELSE pc'[u] = "settled"
    BY <1>14, <1>t, <1>f DEF PutSidecar
  <2>3. QED
    BY <1>14, <2>1, <2>2 DEF PutSidecar, Uploads
<1>15. CASE PutSidecarFails(u)
  BY <1>15, <1>f DEF PutSidecarFails, Uploads
<1>16. QED
  BY <1>1, <1>2, <1>3, <1>4, <1>5, <1>6, <1>7, <1>8, <1>9, <1>10, <1>11,
     <1>12, <1>13, <1>14, <1>15 DEF UnitStep

(* Every step of a unit uploads only what was collected.                   *)
LEMMA UnitStepUpload ==
  ASSUME TypeOK, UploadInv, FanOutInv, NEW u \in Units, UnitStep(u)
  PROVE  UploadInv'
<1>1. ASSUME NEW v \in Units, v # u
      PROVE  /\ uploaded'[v] <= Len(fetched'[v])
             /\ pc'[v] \in {"object", "sidecar"} =>
                  ended'[v] \in Terminations /\ uploaded'[v] < Len(fetched'[v])
  BY <1>1, OthersKeep DEF UploadInv
<1>2. /\ uploaded'[u] <= Len(fetched'[u])
      /\ pc'[u] \in {"object", "sidecar"} =>
           ended'[u] \in Terminations /\ uploaded'[u] < Len(fetched'[u])
  <2>1. uploaded[u] \in Nat /\ Len(fetched[u]) \in Nat
    BY DEF TypeOK
  <2>2. /\ uploaded[u] <= Len(fetched[u])
        /\ pc[u] \in {"object", "sidecar"} =>
             ended[u] \in Terminations /\ uploaded[u] < Len(fetched[u])
    BY DEF UploadInv
  <2>3. Uploads(u)
    BY SinkShape
  <2>4. QED
    BY <2>1, <2>2, <2>3 DEF Uploads
<1>3. QED
  BY <1>1, <1>2 DEF UploadInv

(* Every step of a unit keeps what it has uploaded in the bucket.          *)
LEMMA UnitStepLanded ==
  ASSUME TypeOK, UploadInv, FanOutInv, LandedInv, NEW u \in Units, UnitStep(u)
  PROVE  LandedInv'
<1>g. objects \subseteq objects' /\ sidecars \subseteq sidecars'
  BY SinkShape DEF Grows
<1>1. ASSUME NEW v \in Units, v # u
      PROVE  /\ \A p \in 1..uploaded'[v] : <<units[v], p>> \in sidecars' \cap objects'
             /\ pc'[v] = "sidecar" => Key(v)' \in objects'
  <2>1. uploaded'[v] = uploaded[v] /\ (pc'[v] = "sidecar" => pc[v] = "sidecar")
    BY <1>1, OthersKeep
  <2>2. \A p \in 1..uploaded[v] : <<units[v], p>> \in sidecars \cap objects
    BY DEF LandedInv
  <2>3. pc[v] = "sidecar" => Key(v) \in objects
    BY DEF LandedInv
  <2>4. Key(v)' = Key(v)
    BY <2>1 DEF Key
  <2>5. QED
    BY <1>g, <2>1, <2>2, <2>3, <2>4
<1>2. \A p \in 1..uploaded'[u] : <<units[u], p>> \in sidecars' \cap objects'
  <2>1. uploaded[u] \in Nat
    BY DEF TypeOK
  <2>2. \A p \in 1..uploaded[u] : <<units[u], p>> \in sidecars' \cap objects'
    BY <1>g DEF LandedInv
  <2>3. CASE pc[u] = "sidecar" /\ Key(u) \in sidecars' /\ uploaded'[u] = uploaded[u] + 1
    <3>1. <<units[u], uploaded[u] + 1>> \in sidecars' \cap objects'
      BY <1>g, <2>3 DEF LandedInv, Key
    <3>2. \A p \in 1..uploaded'[u] : p \in 1..uploaded[u] \/ p = uploaded[u] + 1
      BY <2>1, <2>3
    <3>3. QED
      BY <2>2, <3>1, <3>2
  <2>4. CASE UNCHANGED uploaded
    BY <2>2, <2>4
  <2>5. QED
    BY <2>3, <2>4, SinkShape DEF Uploads
<1>3. pc'[u] = "sidecar" => Key(u)' \in objects'
  BY SinkShape DEF Uploads, Key
<1>4. QED
  BY <1>1, <1>2, <1>3 DEF LandedInv

(* Every step of a unit leaves the bucket usable.                          *)
LEMMA UnitStepSidecars ==
  ASSUME TypeOK, UploadInv, LandedInv, SidecarsUsable, NEW u \in Units, UnitStep(u)
  PROVE  SidecarsUsable'
<1>g. Grows(u)
  BY SinkShape
<1>1. pc[u] = "sidecar" => Key(u) \in objects
  BY DEF LandedInv
<1>2. sidecars' \subseteq objects'
  BY <1>g, <1>1 DEF Grows, SidecarsUsable
<1>3. ASSUME NEW k \in sidecars', k[2] > 1
      PROVE  <<k[1], k[2] - 1>> \in sidecars'
  <2>1. CASE k \in sidecars
    BY <1>3, <1>g, <2>1 DEF Grows, SidecarsUsable
  <2>2. CASE k \notin sidecars
    <3>1. k = <<units[u], uploaded[u] + 1>> /\ uploaded[u] \in Nat
      BY <1>g, <2>2 DEF Grows, Key, TypeOK
    <3>2. k[1] = units[u] /\ k[2] - 1 = uploaded[u] /\ uploaded[u] \in 1..uploaded[u]
      BY <1>3, <3>1
    <3>3. <<units[u], uploaded[u]>> \in sidecars
      BY <3>2 DEF LandedInv
    <3>4. QED
      BY <1>g, <3>2, <3>3 DEF Grows
  <2>3. QED
    BY <2>1, <2>2
<1>4. QED
  BY <1>2, <1>3 DEF SidecarsUsable

(* A new outcome is an error or that of a unit whose last page went up.    *)
LEMMA OutcomeShape ==
  ASSUME TypeOK, NEW u \in Units, UnitStep(u)
  PROVE  \/ UNCHANGED outcomes
         \/ Fail(u)
         \/ Succeed(u) /\ PutSidecar(u) /\ ~(uploaded[u] + 1 < Len(fetched[u]))
<1> USE DEF Goto, fanVars
<1>c. ASSUME NEW n, NEW adv, CollectPage(u, n, adv) PROVE UNCHANGED outcomes
  BY <1>c DEF CollectPage
<1>1. CASE RespondNotModified(u) \/ ReadBody(u)
  BY <1>1, <1>c DEF RespondNotModified, ReadBody
<1>2. CASE ~(RespondNotModified(u) \/ ReadBody(u))
  BY <1>2 DEF UnitStep, FetchToken, TokenFails, AwaitQuota, Send,
     RespondSuccess, RespondRetryable, BackoffEnds, RespondFatal,
     BodyFails, PutObject, PutObjectFails, PutSidecar, PutSidecarFails
<1>3. QED
  BY <1>1, <1>2

(* A larger bucket backs whatever a smaller one backs.                     *)
LEMMA BackedMonotone ==
  ASSUME NEW o, NEW B, NEW C, B \subseteq C, Backed(o, B)
  PROVE  Backed(o, C)
  BY DEF Backed

(* Every step of a unit keeps the reported successes backed.               *)
LEMMA UnitStepBacked ==
  ASSUME TypeOK, UploadInv, FanOutInv, LandedInv, StageInv, ManifestBacked,
         NEW u \in Units, UnitStep(u)
  PROVE  ManifestBacked'
<1> DEFINE B == sidecars \cap objects
<1>0. ~manifest'.written
  BY UnitStepShape DEF StageInv
<1>g. B \subseteq B'
  BY SinkShape DEF Grows
<1>1. ASSUME NEW i \in DOMAIN outcomes, outcomes[i].termination # "error"
      PROVE  Backed(outcomes[i], B')
  BY <1>1, <1>g, BackedMonotone DEF ManifestBacked
<1>2. CASE UNCHANGED outcomes
  BY <1>0, <1>1, <1>2 DEF ManifestBacked
<1>3. CASE Fail(u)
  <2> DEFINE o == [unit |-> u, pages |-> 0, termination |-> "error"]
  <2>1. o \in Outcomes /\ Settle(u, o)
    BY <1>3 DEF Fail, Outcomes
  <2>2. \A i \in DOMAIN outcomes' :
          outcomes'[i] = o \/ (i \in DOMAIN outcomes /\ outcomes'[i] = outcomes[i])
    BY <2>1, AppendedOutcome
  <2>3. QED
    BY <1>0, <1>1, <2>2 DEF ManifestBacked
<1>4. CASE Succeed(u) /\ PutSidecar(u) /\ ~(uploaded[u] + 1 < Len(fetched[u]))
  <2> DEFINE o == [unit |-> u, pages |-> PagesFetched(u), termination |-> ended[u]]
  <2>1. pc[u] = "sidecar"
    BY <1>4 DEF PutSidecar, At
  <2>2. o \in Outcomes /\ Settle(u, o) /\ Len(fetched[u]) \in Nat \ {0}
    BY <1>4, <2>1, SucceedType DEF Succeed
  <2>3. ReportedPages(o) = Len(fetched[u])
    BY <2>2 DEF ReportedPages, PagesFetched
  <2>4. uploaded'[u] = Len(fetched[u])
    BY <1>4, <2>1, <2>2 DEF PutSidecar, TypeOK, UploadInv
  <2>5. \A p \in 1..uploaded'[u] : <<units[u], p>> \in B'
    BY UnitStepLanded DEF LandedInv
  <2>6. Backed(o, B')
    <3> HIDE DEF B
    <3>1. o.unit = u
      OBVIOUS
    <3> HIDE DEF o
    <3>2. QED
      BY <2>2, <2>3, <2>4, <2>5, <3>1 DEF Backed
  <2>7. \A i \in DOMAIN outcomes' :
          outcomes'[i] = o \/ (i \in DOMAIN outcomes /\ outcomes'[i] = outcomes[i])
    BY <2>2, AppendedOutcome
  <2> HIDE DEF o
  <2>8. QED
    BY <1>0, <1>1, <2>6, <2>7 DEF ManifestBacked
<1>5. QED
  BY <1>2, <1>3, <1>4, OutcomeShape

(* Outside its last phase a run has no manifest, and a unit never sees it. *)
LEMMA UnitStepStage ==
  ASSUME TypeOK, UploadInv, StageInv, NEW u \in Units, UnitStep(u)
  PROVE  StageInv'
  BY UnitStepShape DEF StageInv
----------------------------------------------------------------------------
(* When nothing is in flight, every unit has its outcome.                  *)
LEMMA AllSettled ==
  ASSUME TypeOK, FanOutInv, running = {}
  PROVE  \A u \in Units : Settled(u)
<1>1. next > N
  BY UnitsType DEF FanOutInv, TypeOK
<1>2. \A u \in Units : pc[u] = "settled"
  BY <1>1, UnitsType DEF FanOutInv, Units, TypeOK
<1>3. QED
  BY <1>2 DEF FanOutInv

(* The steps of the process as a whole keep the inductive invariant.       *)
LEMMA ProcessStepInv ==
  ASSUME IInv, ManifestStep \/ Crash \/ UNCHANGED vars
  PROVE  IInv'
<1> USE DEF limiterVars, fetchVars, fanVars, sinkVars
<1>0. TypeOK /\ FanOutInv /\ StageInv
  BY DEF IInv
<1>1. TypeOK'
  BY <1>0, ProcessStepType
<1>2. UNCHANGED <<inFlight, next, running, pc, fetched, ended, uploaded, outcomes,
                  objects, sidecars>>
  BY DEF ManifestStep, WriteManifest, WriteManifestSidecar, WriteManifestFails,
         Crash, Quiet, vars
<1>3. FanOutInv' /\ UploadInv' /\ LandedInv' /\ ConcurrencyBound'
      /\ PermitsBalanced' /\ SidecarsUsable'
  BY <1>2 DEF IInv, FanOutInv, UploadInv, LandedInv, ConcurrencyBound,
     PermitsBalanced, SidecarsUsable, Settled, Key
<1>4. manifest' = manifest \/ (manifest' = [written |-> TRUE, entities |-> outcomes]
                               /\ running = {})
  BY DEF ManifestStep, WriteManifest, WriteManifestSidecar, WriteManifestFails,
         Crash, Quiet, vars
<1>5. ManifestBacked'
  <2>1. running = {} => \A u \in Units : Settled(u)
    BY <1>0, AllSettled
  <2>2. /\ \A i \in DOMAIN outcomes' : outcomes'[i].termination # "error" =>
             Backed(outcomes'[i], sidecars' \cap objects')
        /\ \A u \in Units : Settled(u) <=> Settled(u)'
    BY <1>2 DEF IInv, ManifestBacked, Settled
  <2>3. manifest'.written =>
          manifest'.entities = outcomes' /\ \A u \in Units : Settled(u)
    <3>1. CASE manifest' = manifest
      BY <1>2, <3>1 DEF IInv, ManifestBacked
    <3>2. CASE manifest' = [written |-> TRUE, entities |-> outcomes] /\ running = {}
      BY <1>2, <2>1, <3>2
    <3>3. QED
      BY <1>4, <3>1, <3>2
  <2>4. QED
    BY <2>2, <2>3 DEF ManifestBacked
<1>6. StageInv'
  <2>1. CASE UNCHANGED vars
    BY <1>0, <2>1 DEF StageInv, vars
  <2>2. CASE WriteManifest
    BY <1>0, <1>2, <2>2 DEF StageInv, WriteManifest
  <2>3. CASE WriteManifestSidecar
    BY <1>0, <1>2, <2>3 DEF StageInv, WriteManifestSidecar
  <2>4. CASE WriteManifestFails
    BY <1>0, <1>2, <2>4 DEF StageInv, WriteManifestFails
  <2>5. CASE Crash
    BY <1>0, <1>2, <2>5 DEF StageInv, Crash
  <2>6. QED
    BY <2>1, <2>2, <2>3, <2>4, <2>5 DEF ManifestStep
<1>7. QED
  BY <1>1, <1>3, <1>5, <1>6 DEF IInv

(* The initial state satisfies the inductive invariant.                    *)
LEMMA InitInv == Init => IInv
<1> SUFFICES ASSUME Init PROVE IInv
  OBVIOUS
<1>1. TypeOK
  BY InitType
<1>2. FanOutInv
  <2>1. N \in Nat /\ Primed \in Nat /\ Primed <= N /\ (Primed < N => Primed >= 1)
    BY PrimedType, UnitsType, ConcurrencyType DEF Primed
  <2>2. \A u \in Units : ~Settled(u)
    BY DEF Init, Settled
  <2>3. /\ next = Primed + 1 /\ running = 1..Primed /\ outcomes = <<>>
        /\ \A u \in Units : pc[u] = IF u <= Primed THEN "token" ELSE "queued"
    BY DEF Init
  <2>4. \A u \in Units : u \in 1..N /\ (u <= Primed <=> u \in 1..Primed)
    BY <2>1 DEF Units
  <2>5. next <= N => 1 \in running
    BY <2>1, <2>3
  <2>6. ASSUME NEW u \in Units
        PROVE  /\ u \in running <=> pc[u] \notin {"queued", "settled"}
               /\ pc[u] = "queued" <=> u >= next
               /\ pc[u] = "settled" <=> Settled(u)
    BY <2>1, <2>2, <2>3, <2>4
  <2>7. \A i, j \in DOMAIN outcomes : outcomes[i].unit = outcomes[j].unit => i = j
    BY <2>3
  <2>8. QED
    BY <2>5, <2>6, <2>7 DEF FanOutInv
<1>3. UploadInv /\ LandedInv /\ SidecarsUsable
  BY DEF Init, UploadInv, LandedInv, SidecarsUsable
<1>4. StageInv /\ ManifestBacked
  BY DEF Init, StageInv, ManifestBacked, NoManifest
<1>5. ConcurrencyBound
  <2>1. Cardinality(1..Primed) = Primed
    BY PrimedType, FS_Interval
  <2>2. QED
    BY <2>1, PrimedType DEF Init, ConcurrencyBound
<1>6. PermitsBalanced
  <2>1. \A u \in Units : pc[u] \notin {"request", "body"}
    BY DEF Init
  <2>2. ASSUME NEW t \in Tenants
        PROVE  inFlight[t] = Cardinality(InRequest(t))
    <3>1. InRequest(t) = {}
      BY <2>1 DEF InRequest
    <3>2. Cardinality(InRequest(t)) = 0
      BY <3>1, FS_EmptySet
    <3>3. inFlight[t] = 0
      BY DEF Init, Limiter!LimiterInit
    <3>4. QED
      BY <3>2, <3>3
  <2>3. QED
    BY <2>2 DEF PermitsBalanced, InRequest
<1>7. QED
  BY <1>1, <1>2, <1>3, <1>4, <1>5, <1>6 DEF IInv

(* Every step keeps the inductive invariant.                               *)
LEMMA NextInv == IInv /\ [Next]_vars => IInv'
<1> SUFFICES ASSUME IInv, [Next]_vars PROVE IInv'
  OBVIOUS
<1>0. /\ TypeOK /\ FanOutInv /\ UploadInv /\ LandedInv /\ StageInv
      /\ ConcurrencyBound /\ PermitsBalanced /\ SidecarsUsable /\ ManifestBacked
  BY DEF IInv
<1>1. ASSUME NEW u \in Units, UnitStep(u) PROVE IInv'
  <2>1. TypeOK' /\ FanOutInv' /\ UploadInv'
    BY <1>0, <1>1, UnitStepType, UnitStepFanOut, UnitStepUpload
  <2>2. LandedInv' /\ StageInv' /\ SidecarsUsable' /\ ManifestBacked'
    BY <1>0, <1>1, UnitStepLanded, UnitStepStage, UnitStepSidecars, UnitStepBacked
  <2>3. ConcurrencyBound' /\ PermitsBalanced'
    BY <1>0, <1>1, UnitStepConcurrency, UnitStepPermits
  <2>4. QED
    BY <2>1, <2>2, <2>3 DEF IInv
<1>2. CASE ManifestStep \/ Crash \/ UNCHANGED vars
  BY <1>2, ProcessStepInv
<1>3. QED
  BY <1>1, <1>2 DEF Next, Exited
----------------------------------------------------------------------------
(* The inductive invariant holds throughout every run.                     *)
THEOREM Invariance == Spec => []IInv
  BY InitInv, NextInv, PTL DEF Spec

(* Every value of every variable has its type.                             *)
THEOREM TypeCorrect == Spec => []TypeOK
  BY Invariance, PTL DEF IInv

(* SyncJob::run keeps at most clamp(max_concurrent, 1, 6) units in flight. *)
THEOREM FanOutIsBounded == Spec => []ConcurrencyBound
  BY Invariance, PTL DEF IInv

(* No unit is lost, duplicated or reported twice, in any interleaving.     *)
THEOREM EveryUnitOnce == Spec => []OneOutcomePerUnit
<1>1. IInv => OneOutcomePerUnit
  <2> SUFFICES ASSUME IInv PROVE OneOutcomePerUnit
    OBVIOUS
  <2>1. TypeOK /\ FanOutInv
    BY DEF IInv
  <2>2. \A u \in Units : u < next <=> (u \in running \/ Settled(u))
    BY <2>1, UnitsType DEF FanOutInv, TypeOK, Units
  <2>3. 1..(next - 1) = running \cup {u \in Units : Settled(u)}
    <3>1. \A u : u \in 1..(next - 1) <=> u \in Units /\ u < next
      BY <2>1, UnitsType DEF TypeOK, Units
    <3>2. running \subseteq Units
      BY <2>1 DEF TypeOK
    <3>3. QED
      BY <2>2, <3>1, <3>2
  <2>4. \A u \in running : ~Settled(u)
    BY <2>1 DEF FanOutInv, TypeOK
  <2>5. \A i, j \in DOMAIN outcomes : outcomes[i].unit = outcomes[j].unit => i = j
    BY <2>1 DEF FanOutInv
  <2>6. QED
    BY <2>3, <2>4, <2>5 DEF OneOutcomePerUnit
<1>2. QED
  BY <1>1, Invariance, PTL

(* The limiters' counters are the requests in flight.                      *)
THEOREM PermitsAreRequests == Spec => []PermitsBalanced
  BY Invariance, PTL DEF IInv

(* The requests in flight of a tenant are among the running units.         *)
LEMMA InRequestBound ==
  ASSUME IInv, NEW t \in Tenants, NEW R \in SUBSET running, InRequest(t) \subseteq R
  PROVE  inFlight[t] \in Nat /\ Cardinality(R) \in Nat
         /\ inFlight[t] <= Cardinality(R)
<1>1. IsFiniteSet(R)
  BY UnitsType, FS_Subset DEF IInv, TypeOK
<1>2. inFlight[t] = Cardinality(InRequest(t))
  BY DEF IInv, PermitsBalanced, InRequest
<1>3. Cardinality(InRequest(t)) <= Cardinality(R)
  BY <1>1, FS_Subset
<1>4. QED
  BY <1>1, <1>2, <1>3, InRequestFinite, FS_CardinalityType

(* With a fan-out no wider than the limiter, the limiter's stale test can  *)
(* neither let a request too many through nor make a unit wait.            *)
THEOREM LimiterNeverBlocks == Spec => []CapNeverBlocks
<1>1. IInv => CapNeverBlocks
  <2> SUFFICES ASSUME IInv, NEW u \in Units
               PROVE  /\ inFlight[TenantOf[u]] <= MAX_CONCURRENT_PER_TENANT
                      /\ pc[u] = "acquire" => Limiter!UnderCap(TenantOf[u])
    BY DEF CapNeverBlocks
  <2> DEFINE t == TenantOf[u]
  <2>1. t \in Tenants
    BY UnitsType
  <2>2. InRequest(t) \subseteq running
    BY DEF IInv, FanOutInv, InRequest
  <2>3. /\ Cardinality(running) <= Concurrency
        /\ Concurrency \in Nat
        /\ Concurrency <= MAX_CONCURRENT_PER_TENANT
        /\ MAX_CONCURRENT_PER_TENANT \in Nat /\ MAX_CONCURRENCY \in Nat
    BY ConcurrencyType, CeilingAssumption, RunAssumption DEF IInv, ConcurrencyBound
  <2>4. inFlight[t] <= MAX_CONCURRENT_PER_TENANT
    <3>1. /\ inFlight[t] \in Nat /\ Cardinality(running) \in Nat
          /\ inFlight[t] <= Cardinality(running)
      BY <2>1, <2>2, InRequestBound
    <3>2. QED
      BY <2>3, <3>1
  <2>5. ASSUME pc[u] = "acquire"
        PROVE  inFlight[t] < MAX_CONCURRENT_PER_TENANT
    <3>1. u \in running /\ u \notin InRequest(t)
      BY <2>5 DEF IInv, FanOutInv, InRequest
    <3>2. InRequest(t) \subseteq running \ {u}
      BY <2>2, <3>1
    <3>3. /\ inFlight[t] \in Nat /\ Cardinality(running \ {u}) \in Nat
          /\ inFlight[t] <= Cardinality(running \ {u})
      <4>1. running \ {u} \in SUBSET running
        OBVIOUS
      <4>2. QED
        BY <2>1, <3>2, <4>1, InRequestBound
    <3>4. IsFiniteSet(running)
      BY UnitsType, FS_Subset DEF IInv, TypeOK
    <3>5. Cardinality(running \ {u}) = Cardinality(running) - 1
      BY <3>1, <3>4, FS_RemoveElement
    <3>6. Cardinality(running) \in Nat
      BY <3>4, FS_CardinalityType
    <3>7. QED
      BY <2>3, <3>3, <3>5, <3>6
  <2>6. QED
    BY <2>4, <2>5 DEF Limiter!UnderCap
<1>2. QED
  BY <1>1, Invariance, PTL

(* A run that has come to its manifest leaves no permit behind in the      *)
(* registry of limiters, which the next run of the process shares.         *)
THEOREM NoPermitLeaks == Spec => []PermitsReturned
<1>1. IInv => PermitsReturned
  <2> SUFFICES ASSUME IInv, manifest.written \/ stage \in {"ok", "failed"},
                      NEW t \in Tenants
               PROVE  inFlight[t] = 0
    BY DEF PermitsReturned
  <2>1. running = {}
    BY DEF IInv, StageInv
  <2>2. InRequest(t) = {}
    BY <2>1 DEF InRequest, IInv, FanOutInv
  <2>3. inFlight[t] = Cardinality(InRequest(t))
    BY DEF IInv, PermitsBalanced, InRequest
  <2>4. Cardinality(InRequest(t)) = 0
    BY <2>2, FS_EmptySet
  <2>5. QED
    BY <2>3, <2>4
<1>2. QED
  BY <1>1, Invariance, PTL

(* The ETL never finds a sidecar without its object, nor a gap in a unit's *)
(* pages.                                                                  *)
THEOREM EverySidecarUsable == Spec => []SidecarsUsable
  BY Invariance, PTL DEF IInv

(* What the manifest reports as fetched is in the bucket.                  *)
THEOREM ManifestIsBacked == Spec => []ManifestBacked
  BY Invariance, PTL DEF IInv
----------------------------------------------------------------------------
(* The keys a unit has yet to write are not in the bucket.  That needs the *)
(* units to be distinct: a key names the tenant, the entity and the page.  *)
Distinct == \A u, v \in Units : units[u] = units[v] => u = v

WrittenUpTo(u) == uploaded[u] + (IF pc[u] = "sidecar" THEN 1 ELSE 0)

FreshInv ==
  \A u \in Units : pc[u] # "settled" =>
    \A k \in objects : k[1] = units[u] => k[2] <= WrittenUpTo(u)

(* A step of a unit writes no object but the next page of that unit.       *)
LEMMA ObjectShape ==
  ASSUME TypeOK, NEW u \in Units, UnitStep(u)
  PROVE  \/ UNCHANGED objects
         \/ pc[u] = "object" /\ objects' \subseteq objects \cup {Key(u)}
             /\ pc'[u] \in {"sidecar", "settled"} /\ UNCHANGED uploaded
<1> USE DEF At, Goto, sinkVars
<1>1. CASE PutObject(u)
  BY <1>1 DEF PutObject, TypeOK
<1>2. CASE PutObjectFails(u)
  BY <1>2 DEF PutObjectFails, Fail, Settle
<1>3. CASE ~(PutObject(u) \/ PutObjectFails(u))
  BY <1>3 DEF UnitStep, FetchToken, TokenFails, AwaitQuota, Send,
     RespondSuccess, RespondRetryable, BackoffEnds, RespondFatal,
     RespondNotModified, ReadBody, BodyFails, PutSidecar, PutSidecarFails
<1>4. QED
  BY <1>1, <1>2, <1>3

(* Every step keeps the pages a unit has yet to put out of the bucket.     *)
LEMMA UnitStepFresh ==
  ASSUME Distinct, TypeOK, UploadInv, FanOutInv, FreshInv,
         NEW u \in Units, UnitStep(u)
  PROVE  FreshInv'
<1>k. Key(u)[1] = units[u] /\ Key(u)[2] = uploaded[u] + 1 /\ uploaded[u] \in Nat
  BY DEF Key, TypeOK
<1>1. ASSUME NEW v \in Units, v # u, pc'[v] # "settled",
             NEW k \in objects', k[1] = units[v]
      PROVE  k[2] <= WrittenUpTo(v)'
  <2>1. k \in objects
    BY <1>1, <1>k, ObjectShape DEF Distinct
  <2>2. pc'[v] = pc[v] \/ (pc[v] = "queued" /\ pc'[v] = "token")
    <3>1. CASE Ends(u)
      <4>1. pc'[v] = IF v = next THEN "token" ELSE pc[v]
        BY <1>1, <3>1 DEF Ends, Settle
      <4>2. v = next => pc[v] = "queued"
        BY UnitsType DEF FanOutInv, TypeOK, Units
      <4>3. QED
        BY <4>1, <4>2
    <3>2. CASE MovesOn(u) \/ UNCHANGED <<pc, fanVars>>
      BY <1>1, <3>2 DEF MovesOn, Goto, TypeOK
    <3>3. QED
      BY <3>1, <3>2, UnitStepShape
  <2>3. pc[v] # "settled" /\ uploaded'[v] = uploaded[v]
    BY <1>1, <2>2, OthersKeep
  <2>4. QED
    BY <1>1, <2>1, <2>2, <2>3 DEF FreshInv, WrittenUpTo
<1>2. ASSUME pc'[u] # "settled", NEW k \in objects', k[1] = units[u]
      PROVE  k[2] <= WrittenUpTo(u)'
  <2>1. pc[u] # "settled" /\ Uploads(u)
    BY UnitStepShape, SinkShape
  <2>2. k \in objects => k[2] <= WrittenUpTo(u)
    BY <1>2, <2>1 DEF FreshInv
  <2>3. CASE pc[u] = "object" /\ objects' \subseteq objects \cup {Key(u)}
             /\ pc'[u] \in {"sidecar", "settled"} /\ UNCHANGED uploaded
    <3>1. WrittenUpTo(u) = uploaded[u] /\ WrittenUpTo(u)' = uploaded[u] + 1
      BY <1>2, <1>k, <2>3 DEF WrittenUpTo
    <3>2. CASE k \in objects
      <4>1. k \in Keys
        BY <3>2 DEF TypeOK
      <4>2. k[2] \in Nat
        BY <4>1 DEF Keys
      <4>3. QED
        BY <1>k, <2>2, <3>1, <3>2, <4>2
    <3>3. CASE k = Key(u)
      BY <1>k, <3>1, <3>3
    <3>4. QED
      BY <2>3, <3>2, <3>3
  <2>4. CASE UNCHANGED objects
    <3>1. /\ WrittenUpTo(u) \in Nat /\ WrittenUpTo(u)' \in Nat
          /\ WrittenUpTo(u) <= WrittenUpTo(u)'
      BY <1>2, <1>k, <2>1 DEF Uploads, WrittenUpTo
    <3>2. k \in objects /\ k \in Keys
      BY <2>4 DEF TypeOK
    <3>3. k[2] \in Nat
      BY <3>2 DEF Keys
    <3>4. QED
      BY <2>2, <3>1, <3>2, <3>3
  <2>5. QED
    BY <2>3, <2>4, ObjectShape
<1>3. QED
  BY <1>1, <1>2 DEF FreshInv

(* If no entity is named twice, the run never writes a key again, whatever *)
(* fails on the way: objects are append-only.                              *)
THEOREM WritesOnce == Distinct => (Spec => AppendOnly)
<1> SUFFICES ASSUME Distinct PROVE Spec => AppendOnly
  OBVIOUS
<1>1. Init => FreshInv
  BY DEF Init, FreshInv
<1>2. IInv /\ FreshInv /\ [Next]_vars => FreshInv'
  <2> SUFFICES ASSUME IInv, FreshInv, [Next]_vars PROVE FreshInv'
    OBVIOUS
  <2>1. ASSUME NEW u \in Units, UnitStep(u) PROVE FreshInv'
    BY <2>1, UnitStepFresh DEF IInv
  <2>2. CASE ManifestStep \/ Crash \/ UNCHANGED vars
    <3>1. UNCHANGED <<pc, objects, uploaded>>
      BY <2>2 DEF ManifestStep, WriteManifest, WriteManifestSidecar,
         WriteManifestFails, Crash, Quiet, sinkVars, vars
    <3>2. QED
      BY <3>1 DEF FreshInv, WrittenUpTo
  <2>3. QED
    BY <2>1, <2>2 DEF Next, Exited
<1>3. IInv /\ FreshInv => \A u \in Units : pc[u] = "object" => Key(u) \notin objects
  <2> SUFFICES ASSUME IInv, FreshInv, NEW u \in Units, pc[u] = "object", Key(u) \in objects
               PROVE  FALSE
    OBVIOUS
  <2>1. uploaded[u] \in Nat /\ WrittenUpTo(u) = uploaded[u]
    BY DEF IInv, TypeOK, WrittenUpTo
  <2>2. Key(u)[1] = units[u] /\ Key(u)[2] = uploaded[u] + 1
    BY DEF Key
  <2>3. QED
    BY <2>1, <2>2 DEF FreshInv
<1>4. IInv /\ FreshInv /\ [Next]_vars =>
        [\A u \in Units :
           pc[u] = "object" /\ pc'[u] = "sidecar" => Key(u) \notin objects]_vars
  BY <1>3
<1>5. QED
  BY <1>1, <1>2, <1>4, Invariance, PTL DEF Spec, AppendOnly
----------------------------------------------------------------------------
(* The run implements FanOut.  The pages of a unit in flight that the ETL  *)
(* can see are those it counts as uploaded.                                *)
SeenInv ==
  \A u \in Units : pc[u] # "settled" =>
    \A k \in sidecars : k[1] = units[u] => k[2] \in 1..uploaded[u]

(* What a unit writes is its own key.                                      *)
LEMMA KeyParts ==
  ASSUME TypeOK, NEW u \in Units
  PROVE  /\ Key(u)[1] = units[u] /\ Key(u)[2] = uploaded[u] + 1
         /\ uploaded[u] \in Nat
  BY DEF Key, TypeOK

(* Every step of a unit keeps the bucket and the units' counts together.   *)
LEMMA UnitStepSeen ==
  ASSUME Distinct, TypeOK, UploadInv, FanOutInv, SeenInv,
         NEW u \in Units, UnitStep(u)
  PROVE  SeenInv'
<1> SUFFICES ASSUME NEW v \in Units, pc'[v] # "settled",
                    NEW k \in sidecars', k[1] = units[v]
             PROVE  k[2] \in 1..uploaded'[v]
  BY DEF SeenInv
<1>1. k \in sidecars \/ (k = Key(u) /\ pc[u] = "sidecar")
  BY SinkShape DEF Grows
<1>2. CASE v # u
  <2>1. k \in sidecars
    BY <1>1, <1>2, KeyParts DEF Distinct
  <2>2. pc[v] # "settled"
    <3>1. CASE Ends(u)
      <4>1. pc'[v] = IF v = next THEN "token" ELSE pc[v]
        BY <1>2, <3>1 DEF Ends, Settle
      <4>2. v = next => pc[v] = "queued"
        BY UnitsType DEF FanOutInv, TypeOK, Units
      <4>. QED
        BY <4>1, <4>2
    <3>2. CASE MovesOn(u) \/ UNCHANGED <<pc, fanVars>>
      BY <1>2, <3>2 DEF MovesOn, Goto, TypeOK
    <3>. QED
      BY <3>1, <3>2, UnitStepShape
  <2>3. uploaded'[v] = uploaded[v]
    BY <1>2, OthersKeep
  <2>. QED
    BY <2>1, <2>2, <2>3 DEF SeenInv
<1>3. CASE v = u
  <2>1. Uploads(u) /\ pc[u] # "settled"
    BY SinkShape, UnitStepShape
  <2>2. k \in sidecars => k[2] \in 1..uploaded[u]
    BY <1>3, <2>1 DEF SeenInv
  <2>3. CASE pc[u] = "sidecar"
    BY <1>1, <1>3, <2>1, <2>2, <2>3, KeyParts DEF Uploads
  <2>4. CASE pc[u] # "sidecar"
    BY <1>1, <1>3, <2>1, <2>2, <2>4 DEF Uploads
  <2>. QED
    BY <2>3, <2>4
<1>. QED
  BY <1>2, <1>3

(* Of a unit that has not ended exactly the uploaded pages are visible.    *)
LEMMA VisiblePages ==
  ASSUME TypeOK, LandedInv, SeenInv, NEW u \in Units, pc[u] # "settled"
  PROVE  Visible(u) = 1..uploaded[u] /\ Cardinality(Visible(u)) = uploaded[u]
<1>1. uploaded[u] \in Nat
  BY DEF TypeOK
<1>2. ASSUME NEW p \in 1..uploaded[u]
      PROVE  p \in Visible(u)
  <2>1. <<units[u], p>> \in sidecars
    BY <1>2 DEF LandedInv
  <2>2. <<units[u], p>>[1] = units[u] /\ <<units[u], p>>[2] = p
    OBVIOUS
  <2>. QED
    BY <2>1, <2>2 DEF Visible
<1>3. ASSUME NEW k \in sidecars, k[1] = units[u]
      PROVE  k[2] \in 1..uploaded[u]
  BY <1>3 DEF SeenInv
<1>4. Visible(u) = 1..uploaded[u]
  BY <1>2, <1>3 DEF Visible
<1>5. Cardinality(1..uploaded[u]) = uploaded[u]
  BY <1>1, FS_Interval
<1>. QED
  BY <1>4, <1>5

(* The sidecars of the other units stay, and a unit in flight reveals its  *)
(* next page or nothing.                                                   *)
LEMMA StepReveals ==
  ASSUME Distinct, TypeOK, UploadInv, LandedInv, SeenInv,
         NEW u \in Units, UnitStep(u)
  PROVE  /\ \A v \in Units : v # u => Visible(v)' = Visible(v)
         /\ \/ UNCHANGED sidecars
            \/ /\ Visible(u) = 1..Cardinality(Visible(u))
               /\ Visible(u)' = 1..(Cardinality(Visible(u)) + 1)
<1>g. /\ sidecars \subseteq sidecars'
      /\ sidecars' \subseteq sidecars \cup {Key(u)}
  BY SinkShape DEF Grows
<1>1. ASSUME NEW v \in Units, v # u
      PROVE  Visible(v)' = Visible(v)
  <2>1. Key(u)[1] # units[v]
    BY <1>1, KeyParts DEF Distinct
  <2>. QED
    BY <1>g, <2>1 DEF Visible
<1>2. ASSUME sidecars' # sidecars
      PROVE  /\ Visible(u) = 1..Cardinality(Visible(u))
             /\ Visible(u)' = 1..(Cardinality(Visible(u)) + 1)
  <2>1. sidecars' = sidecars \cup {Key(u)}
    BY <1>g, <1>2
  <2>2. Visible(u)' = Visible(u) \cup {uploaded[u] + 1}
    BY <2>1, KeyParts DEF Visible
  <2>3. pc[u] # "settled"
    BY UnitStepShape
  <2>4. Visible(u) = 1..uploaded[u] /\ Cardinality(Visible(u)) = uploaded[u]
    BY <2>3, VisiblePages
  <2>5. uploaded[u] \in Nat
    BY KeyParts
  <2>6. 1..(uploaded[u] + 1) = 1..uploaded[u] \cup {uploaded[u] + 1}
    BY <2>5
  <2>. QED
    BY <2>2, <2>4, <2>6
<1>. QED
  BY <1>1, <1>2

(* How the statuses move with the fan-out.  A unit that moves on keeps the *)
(* status of every unit.                                                   *)
LEMMA MovesKeepStatus ==
  ASSUME TypeOK, UploadInv, NEW u \in Units, UnitStep(u),
         MovesOn(u) \/ UNCHANGED <<pc, fanVars>>, NEW v \in Units
  PROVE  StatusOf(v)' = StatusOf(v)
<1>1. UNCHANGED outcomes
  BY DEF MovesOn, Goto, fanVars
<1>2. SettledOk(v)' = SettledOk(v)
  BY <1>1 DEF SettledOk
<1>3. pc'[v] \in {"queued", "settled"} \/ pc[v] \in {"queued", "settled"}
        => pc'[v] = pc[v]
  BY UnitStepShape DEF MovesOn, Goto, TypeOK
<1>. QED
  BY <1>2, <1>3 DEF StatusOf

(* The result of a unit that ends with outcome o.                          *)
ResultOf(o) == IF o.termination # "error" THEN "ok" ELSE "error"

(* A unit that ends gets its result, the first queued unit starts, and all *)
(* others keep their status.                                               *)
LEMMA EndsMoveStatus ==
  ASSUME TypeOK, UploadInv, FanOutInv, NEW u \in Units, UnitStep(u),
         NEW o \in Outcomes, o.unit = u, Settle(u, o), NEW v \in Units
  PROVE  StatusOf(v)' = IF v = u THEN ResultOf(o)
                        ELSE IF v = next THEN "running"
                        ELSE StatusOf(v)
<1>1. outcomes \in Seq(Outcomes) /\ outcomes' = Append(outcomes, o)
  BY DEF TypeOK, Settle
<1>2. pc'[v] = IF v = u THEN "settled" ELSE IF v = next THEN "token" ELSE pc[v]
  BY DEF Settle
<1>3. /\ \A i \in DOMAIN outcomes : i \in DOMAIN outcomes'
                                    /\ outcomes'[i] = outcomes[i]
      /\ \A i \in DOMAIN outcomes' :
           outcomes'[i] = o \/ (i \in DOMAIN outcomes /\ outcomes'[i] = outcomes[i])
      /\ \E i \in DOMAIN outcomes' : outcomes'[i] = o
  <2>1. /\ DOMAIN outcomes = 1..Len(outcomes) /\ Len(outcomes) \in Nat
        /\ DOMAIN outcomes' = 1..(Len(outcomes) + 1)
        /\ outcomes'[Len(outcomes) + 1] = o
        /\ \A i \in 1..Len(outcomes) : outcomes'[i] = outcomes[i]
    BY <1>1
  <2>. QED
    BY <2>1
<1>4. CASE v = u
  <2>1. ~Settled(u)
    BY UnitStepShape DEF FanOutInv
  <2>2. SettledOk(u)' <=> o.termination # "error"
    BY <1>3, <2>1 DEF SettledOk, Settled
  <2>3. StatusOf(v)' = IF SettledOk(u)' THEN "ok" ELSE "error"
    BY <1>2, <1>4 DEF StatusOf
  <2>. QED
    BY <1>4, <2>2, <2>3 DEF ResultOf
<1>5. CASE v # u
  <2>1. SettledOk(v)' = SettledOk(v)
    BY <1>3, <1>5 DEF SettledOk
  <2>. QED
    BY <1>2, <1>5, <2>1 DEF StatusOf
<1>. QED
  BY <1>4, <1>5

(* The first queued unit of FanOut is the one SyncRun starts next.         *)
LEMMA NextIsFirstQueued ==
  ASSUME TypeOK, FanOutInv, NEW v \in Units
  PROVE  (/\ StatusOf(v) = "queued"
          /\ \A w \in Units : StatusOf(w) = "queued" => v <= w) <=> v = next
<1>1. \A w \in Units : StatusOf(w) = "queued" <=> w >= next
  BY DEF StatusOf, FanOutInv
<1>2. /\ next \in 1..(N + 1) /\ N \in Nat /\ Units = 1..N
  BY UnitsType DEF TypeOK, Units
<1>. QED
  BY <1>1, <1>2

(* FanOut counts as SyncRun does.                                          *)
LEMMA AbstractCardinality ==
  ASSUME NEW S
  PROVE  Abstract!Cardinality(S) = Cardinality(S)
  BY DEF Cardinality, Abstract!Cardinality

(* Every step of a unit is one of FanOut, or changes nothing there.        *)
LEMMA UnitStepAbstract ==
  ASSUME Distinct, IInv, IInv', SeenInv, NEW u \in Units, UnitStep(u)
  PROVE  Abstract!Next \/ UNCHANGED Abstract!vars
<1>0. TypeOK /\ UploadInv /\ FanOutInv /\ LandedInv /\ StageInv
  BY DEF IInv
<1>1. ReportOf' = ReportOf
  <2>1. ~manifest.written /\ ~manifest'.written
    BY <1>0, UnitStepShape DEF StageInv
  <2>. QED
    BY <2>1 DEF ReportOf
<1>2. StatusMap[u] = "running"
  BY <1>0, UnitStepShape DEF StatusMap, StatusOf
<1>3. \/ VisibleMap' = VisibleMap
      \/ /\ VisibleMap[u] = 1..Cardinality(VisibleMap[u])
         /\ VisibleMap' = [VisibleMap EXCEPT
                             ![u] = 1..(Cardinality(VisibleMap[u]) + 1)]
  <2>1. CASE UNCHANGED sidecars
    BY <2>1 DEF VisibleMap, Visible
  <2>2. CASE ~UNCHANGED sidecars
    <3>1. /\ Visible(u) = 1..Cardinality(Visible(u))
          /\ Visible(u)' = 1..(Cardinality(Visible(u)) + 1)
          /\ \A v \in Units : v # u => Visible(v)' = Visible(v)
      BY <1>0, <2>2, StepReveals
    <3>. QED
      BY <3>1 DEF VisibleMap
  <2>. QED
    BY <2>1, <2>2
<1>4. CASE MovesOn(u) \/ UNCHANGED <<pc, fanVars>>
  <2>1. StatusMap' = StatusMap
    BY <1>0, <1>4, MovesKeepStatus DEF StatusMap
  <2>2. CASE VisibleMap' = VisibleMap
    BY <1>1, <2>1, <2>2 DEF Abstract!vars
  <2>3. CASE VisibleMap' # VisibleMap
    <3>1. Abstract!Deliver(u)
      BY <1>1, <1>2, <1>3, <2>1, <2>3, AbstractCardinality
         DEF Abstract!Deliver, Abstract!Reveal
    <3>. QED
      BY <3>1 DEF Abstract!Next
  <2>. QED
    BY <2>2, <2>3
<1>5. CASE Ends(u)
  <2>1. PICK o \in Outcomes : o.unit = u /\ Settle(u, o)
    BY <1>5 DEF Ends
  <2>2. StatusMap' = [v \in Units |-> IF v = u THEN ResultOf(o)
                                      ELSE IF v = next THEN "running"
                                      ELSE StatusMap[v]]
    BY <1>0, <2>1, EndsMoveStatus DEF StatusMap
  <2>3. \A v \in Units : Abstract!FirstQueued(v) <=> v = next
    BY <1>0, NextIsFirstQueued DEF Abstract!FirstQueued, StatusMap
  <2>4. ResultOf(o) = "ok" => VisibleMap'[u] # {}
    <3> SUFFICES ASSUME ResultOf(o) = "ok" PROVE VisibleMap'[u] # {}
      OBVIOUS
    <3>1. PICK i \in DOMAIN outcomes' : outcomes'[i] = o
      <4>1. outcomes \in Seq(Outcomes) /\ outcomes' = Append(outcomes, o)
        BY <1>0, <2>1 DEF TypeOK, Settle
      <4>2. /\ Len(outcomes) + 1 \in DOMAIN outcomes'
            /\ outcomes'[Len(outcomes) + 1] = o
        BY <4>1
      <4>. QED
        BY <4>2
    <3>2. o.termination # "error"
      BY DEF ResultOf
    <3>3. Backed(o, (sidecars \cap objects)')
      BY <3>1, <3>2 DEF IInv, ManifestBacked
    <3>4. ReportedPages(o) >= 1 /\ ReportedPages(o) \in Nat
      BY <3>3 DEF Backed, ReportedPages, Outcomes
    <3>5. <<units[u], 1>> \in sidecars'
      BY <2>1, <3>3, <3>4 DEF Backed
    <3>6. 1 \in Visible(u)'
      BY <3>5 DEF Visible
    <3>. QED
      BY <3>6 DEF VisibleMap
  <2>5. Abstract!End(u, ResultOf(o))
    BY <1>1, <1>2, <1>3, <2>2, <2>3, <2>4, AbstractCardinality
       DEF Abstract!End, Abstract!Reveal
  <2>6. ResultOf(o) \in {"ok", "error"}
    BY DEF ResultOf
  <2>. QED
    BY <2>5, <2>6 DEF Abstract!Next
<1>. QED
  BY <1>0, <1>4, <1>5, UnitStepShape

(* The steps of the process as a whole publish, or change nothing there.   *)
LEMMA ProcessStepAbstract ==
  ASSUME IInv, ManifestStep \/ Crash \/ UNCHANGED vars
  PROVE  Abstract!Next \/ UNCHANGED Abstract!vars
<1> USE DEF fanVars, sinkVars
<1>1. UNCHANGED <<pc, outcomes, sidecars>>
  BY DEF ManifestStep, WriteManifest, WriteManifestSidecar, WriteManifestFails,
         Crash, Quiet, vars
<1>2. StatusMap' = StatusMap /\ VisibleMap' = VisibleMap
  BY <1>1 DEF StatusMap, VisibleMap, Visible, StatusOf, SettledOk
<1>3. CASE manifest' = manifest
  <2>1. ReportOf' = ReportOf
    BY <1>2, <1>3 DEF ReportOf, StatusMap
  <2>. QED
    BY <1>2, <2>1 DEF Abstract!vars
<1>4. CASE manifest' # manifest
  <2>1. /\ stage = "fanout" /\ running = {}
        /\ manifest' = [written |-> TRUE, entities |-> outcomes]
    BY <1>4 DEF ManifestStep, WriteManifest, WriteManifestSidecar,
                WriteManifestFails, Crash, vars
  <2>2. ~manifest.written
    BY <2>1 DEF IInv, StageInv
  <2>3. ReportOf = Abstract!Unpublished
    BY <2>2 DEF ReportOf, Abstract!Unpublished
  <2>4. ReportOf' = StatusMap
    BY <1>2, <2>1 DEF ReportOf, StatusMap
  <2>5. \A u \in Units : StatusMap[u] \in {"ok", "error"}
    <3>1. \A u \in Units : pc[u] = "settled"
      BY <2>1, AllSettled DEF IInv, FanOutInv
    <3>. QED
      BY <3>1 DEF StatusMap, StatusOf
  <2>6. Abstract!Publish
    BY <1>2, <2>3, <2>4, <2>5
       DEF Abstract!Publish
  <2>. QED
    BY <2>6 DEF Abstract!Next
<1>. QED
  BY <1>3, <1>4

(* The initial state is one of FanOut.                                     *)
LEMMA InitAbstract == Init => Abstract!Init
<1> SUFFICES ASSUME Init PROVE Abstract!Init
  OBVIOUS
<1>1. Primed = IF N < Concurrency THEN N ELSE Concurrency
  BY DEF Primed
<1>2. /\ N \in Nat /\ Units = 1..N /\ Concurrency \in Nat
  BY UnitsType, ConcurrencyType DEF Units
<1>3. \A u \in Units :
        StatusOf(u) = IF u <= Concurrency THEN "running" ELSE "queued"
  <2> TAKE u \in Units
  <2>1. pc[u] = IF u <= Primed THEN "token" ELSE "queued"
    BY DEF Init
  <2>2. u <= Primed <=> u <= Concurrency
    BY <1>1, <1>2
  <2>. QED
    BY <2>1, <2>2 DEF StatusOf
<1>4. \A u \in Units : Visible(u) = {}
  BY DEF Init, Visible
<1>5. ReportOf = Abstract!Unpublished
  BY DEF Init, NoManifest, ReportOf, Abstract!Unpublished
<1>. QED
  BY <1>3, <1>4, <1>5 DEF Abstract!Init, StatusMap, VisibleMap

(* A run keeps the promise of SyncJob::run that FanOut states, for every   *)
(* list of units in which none occurs twice and every concurrency.         *)
THEOREM RunImplementsFanOut == Distinct => (Spec => ImplementsFanOut)
<1> SUFFICES ASSUME Distinct PROVE Spec => ImplementsFanOut
  OBVIOUS
<1>1. Init => SeenInv
  BY DEF Init, SeenInv
<1>2. IInv /\ SeenInv /\ [Next]_vars => SeenInv'
  <2> SUFFICES ASSUME IInv, SeenInv, [Next]_vars PROVE SeenInv'
    OBVIOUS
  <2>1. ASSUME NEW u \in Units, UnitStep(u) PROVE SeenInv'
    BY <2>1, UnitStepSeen DEF IInv
  <2>2. CASE ManifestStep \/ Crash \/ UNCHANGED vars
    <3>1. UNCHANGED <<pc, sidecars, uploaded>>
      BY <2>2 DEF ManifestStep, WriteManifest, WriteManifestSidecar,
         WriteManifestFails, Crash, Quiet, sinkVars, vars
    <3>. QED
      BY <3>1 DEF SeenInv
  <2>. QED
    BY <2>1, <2>2 DEF Next, Exited
<1>3. IInv /\ IInv' /\ SeenInv /\ [Next]_vars => [Abstract!Next]_(Abstract!vars)
  <2> SUFFICES ASSUME IInv, IInv', SeenInv, [Next]_vars
               PROVE  Abstract!Next \/ UNCHANGED Abstract!vars
    OBVIOUS
  <2>1. ASSUME NEW u \in Units, UnitStep(u)
        PROVE  Abstract!Next \/ UNCHANGED Abstract!vars
    BY <2>1, UnitStepAbstract
  <2>. QED
    BY <2>1, ProcessStepAbstract DEF Next, Exited
<1>. QED
  BY <1>1, <1>2, <1>3, InitAbstract, Invariance, PTL
     DEF Spec, ImplementsFanOut, Abstract!Spec
============================================================================
