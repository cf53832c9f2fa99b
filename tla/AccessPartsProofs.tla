------------------------- MODULE AccessPartsProofs -------------------------
(* The parts TenantAccess is composed of.  The limiter keeps its types and *)
(* counts its permits, for every set of tenants, every finite set of       *)
(* callers and every cap.  The token cache keeps its types, hands every    *)
(* caller a token of its own tenant, and leaves each token its margin, for *)
(* every set of tenants and callers, every lifetime, margin and latency.   *)
(* The local sink resolves a key to the place it names, inside the root,   *)
(* for every root and every key.                                           *)
EXTENDS RateLimiter, TokenCache, LocalSink, FiniteSetTheorems,
        SequenceTheorems, WellFoundedInduction, TLAPS

(* The holders of a tenant can be counted.                                 *)
LEMMA HoldersFinite ==
  ASSUME NEW t \in Tenants
  PROVE  IsFiniteSet(Holders(t)) /\ Cardinality(Holders(t)) \in Nat
<1>1. IsFiniteSet(Holders(t))
  BY LimiterAssumption, FS_Subset DEF Holders
<1>. QED
  BY <1>1, FS_CardinalityType

(* What a step of caller c does to the counters and to the phases: it      *)
(* takes a permit, waits for one, or gives one back.                       *)
Takes(c) ==
  /\ phase[c] # "holding"
  /\ inFlight' = [inFlight EXCEPT ![TenantOf[c]] = @ + 1]
  /\ phase' = [phase EXCEPT ![c] = "holding"]

Waits(c) ==
  /\ phase[c] # "holding"
  /\ inFlight' = inFlight
  /\ phase' = [phase EXCEPT ![c] = "throttled"]

Returns(c) ==
  /\ phase[c] = "holding"
  /\ inFlight' = [inFlight EXCEPT ![TenantOf[c]] = Released(TenantOf[c])]
  /\ phase' = [phase EXCEPT ![c] = "outside"]

(* Every step of the limiter is one of the three, and keeps or replaces    *)
(* the quota of one tenant.                                                *)
LEMMA LimiterStepShape ==
  ASSUME NEW c \in Callers,
         \/ TakePermit(c) \/ Throttle(c) \/ WakeAndTakePermit(c) \/ Respond(c)
  PROVE  /\ Takes(c) \/ Waits(c) \/ Returns(c)
         /\ \E q \in Quotas \cup {NoQuota} :
              minRemaining' \in {minRemaining,
                                 [minRemaining EXCEPT ![TenantOf[c]] = q]}
<1>1. CASE TakePermit(c)
  BY <1>1 DEF TakePermit, Takes
<1>2. CASE Throttle(c)
  BY <1>2 DEF Throttle, Waits
<1>3. CASE WakeAndTakePermit(c)
  BY <1>3 DEF WakeAndTakePermit, Takes
<1>4. CASE Respond(c)
  <2>1. PICK q \in Quotas \cup {NoQuota} :
          DropPermit(c) /\ UpdateFromHeaders(c, q)
    BY <1>4 DEF Respond
  <2>2. Returns(c)
    BY <2>1 DEF DropPermit, Returns
  <2>3. minRemaining' \in {minRemaining,
                           [minRemaining EXCEPT ![TenantOf[c]] = q]}
    BY <2>1 DEF UpdateFromHeaders
  <2>. QED
    BY <2>2, <2>3
<1>. QED
  BY <1>1, <1>2, <1>3, <1>4

(* Every step keeps the types.                                             *)
LEMMA NextLimiterTypes ==
  LimiterTypeOK /\ [LimiterNext]_limiterVars => LimiterTypeOK'
<1> SUFFICES ASSUME LimiterTypeOK, [LimiterNext]_limiterVars
             PROVE  LimiterTypeOK'
  OBVIOUS
<1>1. CASE UNCHANGED limiterVars
  BY <1>1 DEF limiterVars, LimiterTypeOK
<1>2. CASE LimiterNext
  <2>1. PICK c \in Callers :
          \/ TakePermit(c) \/ Throttle(c) \/ WakeAndTakePermit(c) \/ Respond(c)
    BY <1>2 DEF LimiterNext
  <2>2. TenantOf[c] \in Tenants
    BY CallersAssumption
  <2>3. Takes(c) \/ Waits(c) \/ Returns(c)
    BY <2>1, LimiterStepShape
  <2>4. PICK q \in Quotas \cup {NoQuota} :
          minRemaining' \in {minRemaining,
                             [minRemaining EXCEPT ![TenantOf[c]] = q]}
    BY <2>1, LimiterStepShape
  <2>5. minRemaining' \in [Tenants -> Quotas \cup {NoQuota}]
    BY <2>4 DEF LimiterTypeOK
  <2>6. inFlight[TenantOf[c]] \in Nat /\ Released(TenantOf[c]) \in Nat
    BY <2>2 DEF LimiterTypeOK, Released
  <2>7. inFlight' \in [Tenants -> Nat]
    BY <2>2, <2>3, <2>6 DEF LimiterTypeOK, Takes, Waits, Returns
  <2>8. phase' \in [Callers -> Phases]
    BY <2>3 DEF LimiterTypeOK, Takes, Waits, Returns, Phases
  <2>. QED
    BY <2>5, <2>7, <2>8 DEF LimiterTypeOK
<1>. QED
  BY <1>1, <1>2

(* The initial limiters have the types.                                    *)
LEMMA InitLimiterTypes == LimiterInit => LimiterTypeOK
  BY DEF LimiterInit, LimiterTypeOK, Phases

(* The counters and the quotas have their types in every reachable state.  *)
THEOREM LimiterTypes == LimiterSpec => []LimiterTypeOK
  BY InitLimiterTypes, NextLimiterTypes, PTL DEF LimiterSpec

(* Every step moves a tenant's counter as it moves its holders.            *)
LEMMA NextPermits ==
  LimiterTypeOK /\ PermitAccounting /\ [LimiterNext]_limiterVars
    => PermitAccounting'
<1> SUFFICES ASSUME LimiterTypeOK, PermitAccounting,
                    [LimiterNext]_limiterVars, NEW t \in Tenants
             PROVE  inFlight'[t] = Cardinality(Holders(t)')
  BY DEF PermitAccounting, Holders
<1>0. inFlight[t] = Cardinality(Holders(t)) /\ inFlight[t] \in Nat
  BY DEF PermitAccounting, LimiterTypeOK
<1>1. CASE UNCHANGED limiterVars
  BY <1>0, <1>1 DEF limiterVars, Holders
<1>2. CASE LimiterNext
  <2>1. PICK c \in Callers : Takes(c) \/ Waits(c) \/ Returns(c)
    BY <1>2, LimiterStepShape DEF LimiterNext
  <2>2. TenantOf[c] \in Tenants
    BY CallersAssumption
  <2>3. CASE TenantOf[c] # t
    <3>1. Holders(t)' = Holders(t)
      BY <2>1, <2>3 DEF Holders, Takes, Waits, Returns, LimiterTypeOK
    <3>2. inFlight'[t] = inFlight[t]
      BY <2>1, <2>3 DEF Takes, Waits, Returns, LimiterTypeOK
    <3>. QED
      BY <1>0, <3>1, <3>2
  <2>4. CASE TenantOf[c] = t /\ Takes(c)
    <3>1. Holders(t)' = Holders(t) \cup {c} /\ c \notin Holders(t)
      BY <2>4 DEF Holders, Takes, LimiterTypeOK
    <3>2. inFlight'[t] = inFlight[t] + 1
      BY <2>4 DEF Takes, LimiterTypeOK
    <3>. QED
      BY <1>0, <3>1, <3>2, HoldersFinite, FS_AddElement
  <2>5. CASE TenantOf[c] = t /\ Waits(c)
    <3>1. Holders(t)' = Holders(t)
      BY <2>5 DEF Holders, Waits, LimiterTypeOK
    <3>. QED
      BY <1>0, <2>5, <3>1 DEF Waits
  <2>6. CASE TenantOf[c] = t /\ Returns(c)
    <3>1. Holders(t)' = Holders(t) \ {c} /\ c \in Holders(t)
      BY <2>6 DEF Holders, Returns, LimiterTypeOK
    <3>2. inFlight'[t] = Released(t)
      BY <2>6 DEF Returns, LimiterTypeOK
    <3>3. /\ Cardinality(Holders(t) \ {c}) = Cardinality(Holders(t)) - 1
          /\ Cardinality(Holders(t) \ {c}) \in Nat
      BY <3>1, HoldersFinite, FS_RemoveElement, FS_CardinalityType
    <3>. QED
      BY <1>0, <3>1, <3>2, <3>3 DEF Released
  <2>. QED
    BY <2>1, <2>3, <2>4, <2>5, <2>6
<1>. QED
  BY <1>1, <1>2

(* No path through acquire() and Drop loses or leaks a permit, whoever     *)
(* sleeps and whoever overtakes: the counter is the number of the holders, *)
(* and release() never hides an underflow.                                 *)
THEOREM PermitsCounted == LimiterSpec => []PermitAccounting
<1>1. LimiterInit => PermitAccounting
  <2> SUFFICES ASSUME LimiterInit, NEW t \in Tenants
               PROVE  inFlight[t] = Cardinality(Holders(t))
    BY DEF PermitAccounting
  <2>1. Holders(t) = {}
    BY DEF LimiterInit, Holders
  <2>. QED
    BY <2>1, FS_EmptySet DEF LimiterInit
<1>. QED
  BY <1>1, InitLimiterTypes, NextLimiterTypes, NextPermits, PTL DEF LimiterSpec
----------------------------------------------------------------------------
(* A request that the server answered carries the time it did.             *)
LEMMA WireType ==
  ASSUME TokenTypeOK, NEW c \in Callers, OnTheWire(c)
  PROVE  /\ asked[c] \in Requests
         /\ asked[c].creds \in Credentials
         /\ asked[c].issued \in Nat
  BY DEF TokenTypeOK, OnTheWire, Requests

(* What a caller receives is a token.                                      *)
LEMMA ReceivedType ==
  ASSUME TokenTypeOK, NEW c \in Callers, OnTheWire(c)
  PROVE  [creds |-> asked[c].creds, issued |-> asked[c].issued,
          expires_at |-> now + Lifetime] \in Tokens
<1>1. asked[c].creds \in Credentials /\ asked[c].issued \in Nat
  BY WireType
<1>2. now + Lifetime \in Nat
  BY TokenAssumption DEF TokenTypeOK
<1>. QED
  BY <1>1, <1>2 DEF Tokens
----------------------------------------------------------------------------
(* Every step keeps the types.                                             *)
LEMMA NextTokenTypes == TokenTypeOK /\ [TokenNext]_tokenVars => TokenTypeOK'
<1> SUFFICES ASSUME TokenTypeOK, [TokenNext]_tokenVars
             PROVE  TokenTypeOK'
  OBVIOUS
<1>1. CASE UNCHANGED tokenVars
  BY <1>1 DEF tokenVars, TokenTypeOK
<1>2. ASSUME NEW D \in SUBSET Tenants, NEW configured \in [D -> Credentials],
             NewClients(configured)
      PROVE  TokenTypeOK'
  <2>1. clients' = configured /\ DOMAIN clients' = D
    BY <1>2 DEF NewClients
  <2>2. cached' \in [D -> Tokens \cup {None}]
    BY <1>2 DEF NewClients
  <2>. QED
    BY <1>2, <2>1, <2>2 DEF NewClients, TokenTypeOK
<1>3. ASSUME NEW c \in Callers, UseCached(c)
      PROVE  TokenTypeOK'
  <2>1. cached[TenantOf[c]] \in Tokens \cup {None}
    BY <1>3 DEF UseCached, ClientOf, TokenTypeOK
  <2>. QED
    BY <1>3, <2>1 DEF UseCached, ClientOf, TokenTypeOK
<1>4. ASSUME NEW c \in Callers, AskToken(c)
      PROVE  TokenTypeOK'
  <2>1. [creds |-> clients[TenantOf[c]], issued |-> None] \in Requests
    BY <1>4 DEF AskToken, ClientOf, TokenTypeOK, Requests
  <2>. QED
    BY <1>4, <2>1 DEF AskToken, ClientOf, TokenTypeOK
<1>5. ASSUME NEW c \in Callers, IssueToken(c)
      PROVE  TokenTypeOK'
  <2>1. asked[c] \in Requests
    BY <1>5 DEF IssueToken, TokenTypeOK
  <2>2. [asked[c] EXCEPT !.issued = now] \in Requests
    BY <2>1 DEF Requests, TokenTypeOK
  <2>. QED
    BY <1>5, <2>2 DEF IssueToken, TokenTypeOK
<1>6. ASSUME NEW c \in Callers, ReceiveToken(c)
      PROVE  TokenTypeOK'
  <2> DEFINE received == [creds |-> asked[c].creds,
                          issued |-> asked[c].issued,
                          expires_at |-> now + Lifetime]
  <2>1. received \in Tokens
    BY <1>6, ReceivedType DEF ReceiveToken
  <2>2. /\ cached' = [cached EXCEPT ![TenantOf[c]] = received]
        /\ token' = [token EXCEPT ![c] = received]
        /\ takenAt' = [takenAt EXCEPT ![c] = now]
        /\ asked' = [asked EXCEPT ![c] = None]
        /\ UNCHANGED <<now, clients>>
    BY <1>6 DEF ReceiveToken, ClientOf
  <2> HIDE DEF received
  <2>. QED
    BY <2>1, <2>2 DEF TokenTypeOK
<1>7. ASSUME NEW c \in Callers, MintFails(c)
      PROVE  TokenTypeOK'
  BY <1>7 DEF MintFails, TokenTypeOK
<1>8. CASE Tick
  BY <1>8 DEF Tick, TokenTypeOK
<1>. QED
  BY <1>1, <1>2, <1>3, <1>4, <1>5, <1>6, <1>7, <1>8 DEF TokenNext

(* The initial state has the types.                                        *)
LEMMA InitTokenTypes == TokenInit => TokenTypeOK
  BY DEF TokenInit, TokenTypeOK

(* Types, in every reachable state.                                        *)
THEOREM TokenTypes == TokenSpec => []TokenTypeOK
  BY InitTokenTypes, NextTokenTypes, PTL DEF TokenSpec
----------------------------------------------------------------------------
(* A request on its way was made with the credentials of its caller.       *)
AskedForOwnTenant ==
  \A c \in Callers :
    asked[c] # None =>
      /\ TenantOf[c] \in DOMAIN clients
      /\ asked[c].creds = clients[TenantOf[c]]

OwnInv == AskedForOwnTenant /\ TokenOfOwnTenant

(* Every step keeps credentials with their tenant.  The clients are set up *)
(* while there are none, and with none nobody has asked yet.               *)
LEMMA NextOwn == TokenTypeOK /\ OwnInv /\ [TokenNext]_tokenVars => OwnInv'
<1> SUFFICES ASSUME TokenTypeOK, OwnInv, [TokenNext]_tokenVars
             PROVE  OwnInv'
  OBVIOUS
<1> USE DEF OwnInv
<1>1. CASE UNCHANGED tokenVars
  BY <1>1 DEF tokenVars, AskedForOwnTenant, TokenOfOwnTenant
<1>2. ASSUME NEW D \in SUBSET Tenants, NEW configured \in [D -> Credentials],
             NewClients(configured)
      PROVE  OwnInv'
  <2>1. \A c \in Callers : asked[c] = None /\ token[c] = None
    BY <1>2 DEF NewClients, AskedForOwnTenant, TokenOfOwnTenant
  <2>2. \A t \in DOMAIN clients' : cached'[t] = None
    BY <1>2 DEF NewClients
  <2>. QED
    BY <1>2, <2>1, <2>2 DEF NewClients, AskedForOwnTenant, TokenOfOwnTenant
<1>3. ASSUME NEW c \in Callers, UseCached(c)
      PROVE  OwnInv'
  <2>1. /\ TenantOf[c] \in DOMAIN clients
        /\ cached[TenantOf[c]].creds = clients[TenantOf[c]]
    BY <1>3 DEF UseCached, ClientOf, CacheUsable, TokenOfOwnTenant
  <2>2. token' = [token EXCEPT ![c] = cached[TenantOf[c]]]
    BY <1>3 DEF UseCached, ClientOf
  <2>3. AskedForOwnTenant'
    BY <1>3 DEF UseCached, AskedForOwnTenant
  <2>4. UNCHANGED <<clients, cached>>
    BY <1>3 DEF UseCached
  <2>. QED
    BY <2>1, <2>2, <2>3, <2>4 DEF TokenOfOwnTenant, TokenTypeOK
<1>4. ASSUME NEW c \in Callers, AskToken(c)
      PROVE  OwnInv'
  <2>1. AskedForOwnTenant'
    BY <1>4 DEF AskToken, ClientOf, AskedForOwnTenant, TokenTypeOK
  <2>. QED
    BY <1>4, <2>1 DEF AskToken, TokenOfOwnTenant
<1>5. ASSUME NEW c \in Callers, IssueToken(c)
      PROVE  OwnInv'
  <2>1. asked[c] \in Requests
    BY <1>5 DEF IssueToken, TokenTypeOK
  <2>2. [asked[c] EXCEPT !.issued = now].creds = asked[c].creds
    BY <2>1 DEF Requests
  <2>3. AskedForOwnTenant'
    BY <1>5, <2>2 DEF IssueToken, AskedForOwnTenant, TokenTypeOK
  <2>. QED
    BY <1>5, <2>3 DEF IssueToken, TokenOfOwnTenant
<1>6. ASSUME NEW c \in Callers, ReceiveToken(c)
      PROVE  OwnInv'
  <2> DEFINE received == [creds |-> asked[c].creds,
                          issued |-> asked[c].issued,
                          expires_at |-> now + Lifetime]
  <2>1. /\ cached' = [cached EXCEPT ![TenantOf[c]] = received]
        /\ token' = [token EXCEPT ![c] = received]
        /\ asked' = [asked EXCEPT ![c] = None]
        /\ UNCHANGED clients
    BY <1>6 DEF ReceiveToken, ClientOf
  <2>2. /\ TenantOf[c] \in DOMAIN clients
        /\ received.creds = clients[TenantOf[c]]
    BY <1>6 DEF ReceiveToken, OnTheWire, AskedForOwnTenant
  <2> HIDE DEF received
  <2>3. AskedForOwnTenant'
    BY <2>1 DEF AskedForOwnTenant, TokenTypeOK
  <2>. QED
    BY <2>1, <2>2, <2>3 DEF TokenOfOwnTenant, TokenTypeOK
<1>7. ASSUME NEW c \in Callers, MintFails(c)
      PROVE  OwnInv'
  BY <1>7 DEF MintFails, AskedForOwnTenant, TokenOfOwnTenant, TokenTypeOK
<1>8. CASE Tick
  BY <1>8 DEF Tick, AskedForOwnTenant, TokenOfOwnTenant
<1>. QED
  BY <1>1, <1>2, <1>3, <1>4, <1>5, <1>6, <1>7, <1>8 DEF TokenNext

(* No caller is ever given, and no cache keeps, a token of another tenant, *)
(* in whatever order the answers come.                                     *)
THEOREM TokensStayWithTenants == TokenSpec => []TokenOfOwnTenant
<1>1. TokenInit => OwnInv
  BY DEF TokenInit, OwnInv, AskedForOwnTenant, TokenOfOwnTenant
<1>2. OwnInv => TokenOfOwnTenant
  BY DEF OwnInv
<1>. QED
  BY <1>1, <1>2, InitTokenTypes, NextTokenTypes, NextOwn, PTL DEF TokenSpec
----------------------------------------------------------------------------
(* No answer is older on the wire than MaxLatency, and a cached token      *)
(* claims at most that much more life than it has.                         *)
WireFresh ==
  \A c \in Callers : OnTheWire(c) => now <= asked[c].issued + MaxLatency

ClaimsBounded ==
  \A t \in DOMAIN clients :
    cached[t] # None =>
      cached[t].expires_at <= cached[t].issued + MaxLatency + Lifetime

GraceInv == WireFresh /\ ClaimsBounded /\ TokenGrace

(* The margin of one token taken at one time.                              *)
Graceful(tok, at) ==
  tok.issued + Lifetime >= at + Min2(RefreshBuffer, Lifetime) - MaxLatency

(* A caller takes a token: the others keep theirs.                         *)
LEMMA TakesGraceful ==
  ASSUME TokenTypeOK, TokenGrace, NEW c \in Callers, NEW tok,
         Graceful(tok, now),
         token' = [token EXCEPT ![c] = tok],
         takenAt' = [takenAt EXCEPT ![c] = now]
  PROVE  TokenGrace'
<1> SUFFICES ASSUME NEW d \in Callers, token'[d] # None
             PROVE  Graceful(token'[d], takenAt'[d])
  BY DEF TokenGrace, Graceful
<1>1. CASE d = c
  BY <1>1 DEF TokenTypeOK
<1>2. CASE d # c
  BY <1>2 DEF TokenTypeOK, TokenGrace, Graceful
<1>. QED
  BY <1>1, <1>2

(* Every step keeps the margins.                                           *)
LEMMA NextGrace ==
  TokenTypeOK /\ GraceInv /\ [TokenNext]_tokenVars => GraceInv'
<1> SUFFICES ASSUME TokenTypeOK, GraceInv, [TokenNext]_tokenVars
             PROVE  GraceInv'
  OBVIOUS
<1> USE DEF GraceInv
<1>1. CASE UNCHANGED tokenVars
  BY <1>1 DEF tokenVars, WireFresh, OnTheWire, ClaimsBounded, TokenGrace
<1>2. ASSUME NEW D \in SUBSET Tenants, NEW configured \in [D -> Credentials],
             NewClients(configured)
      PROVE  GraceInv'
  <2>1. \A t \in DOMAIN clients' : cached'[t] = None
    BY <1>2 DEF NewClients
  <2>. QED
    BY <1>2, <2>1
       DEF NewClients, WireFresh, OnTheWire, ClaimsBounded, TokenGrace
<1>3. ASSUME NEW c \in Callers, UseCached(c)
      PROVE  GraceInv'
  <2> DEFINE tok == cached[TenantOf[c]]
  <2>1. /\ TenantOf[c] \in DOMAIN clients
        /\ tok # None
        /\ ~(now >= tok.expires_at - RefreshBuffer)
        /\ token' = [token EXCEPT ![c] = tok]
        /\ takenAt' = [takenAt EXCEPT ![c] = now]
        /\ UNCHANGED <<now, clients, cached, asked>>
    BY <1>3 DEF UseCached, ClientOf, CacheUsable, NeedsRefresh
  <2>2. tok.issued \in Nat /\ tok.expires_at \in Nat
    BY <2>1 DEF TokenTypeOK, Tokens
  <2>3. tok.expires_at <= tok.issued + MaxLatency + Lifetime
    BY <2>1 DEF ClaimsBounded
  <2>4. Graceful(tok, now)
    <3>1. now \in Nat
      BY DEF TokenTypeOK
    <3> HIDE DEF tok
    <3>. QED
      BY <2>1, <2>2, <2>3, <3>1, TokenAssumption DEF Graceful, Min2
  <2>5. TokenGrace'
    BY <2>1, <2>4, TakesGraceful
  <2>. QED
    BY <2>1, <2>5 DEF WireFresh, OnTheWire, ClaimsBounded
<1>4. ASSUME NEW c \in Callers, AskToken(c)
      PROVE  GraceInv'
  <2>1. WireFresh'
    BY <1>4 DEF AskToken, WireFresh, OnTheWire, TokenTypeOK
  <2>. QED
    BY <1>4, <2>1 DEF AskToken, ClaimsBounded, TokenGrace
<1>5. ASSUME NEW c \in Callers, IssueToken(c)
      PROVE  GraceInv'
  <2>1. asked[c] \in Requests /\ now \in Nat
    BY <1>5 DEF IssueToken, TokenTypeOK
  <2>2. [asked[c] EXCEPT !.issued = now].issued = now
    BY <2>1 DEF Requests
  <2>3. now <= now + MaxLatency
    BY <2>1, TokenAssumption
  <2>4. WireFresh'
    BY <1>5, <2>2, <2>3 DEF IssueToken, WireFresh, OnTheWire, TokenTypeOK
  <2>. QED
    BY <1>5, <2>4 DEF IssueToken, ClaimsBounded, TokenGrace
<1>6. ASSUME NEW c \in Callers, ReceiveToken(c)
      PROVE  GraceInv'
  <2> DEFINE received == [creds |-> asked[c].creds,
                          issued |-> asked[c].issued,
                          expires_at |-> now + Lifetime]
  <2>1. /\ cached' = [cached EXCEPT ![TenantOf[c]] = received]
        /\ token' = [token EXCEPT ![c] = received]
        /\ takenAt' = [takenAt EXCEPT ![c] = now]
        /\ asked' = [asked EXCEPT ![c] = None]
        /\ UNCHANGED <<now, clients>>
    BY <1>6 DEF ReceiveToken, ClientOf
  <2>2. asked[c].issued \in Nat /\ now <= asked[c].issued + MaxLatency
    BY <1>6, WireType DEF ReceiveToken, WireFresh
  <2>3. /\ received.issued \in Nat
        /\ received.expires_at = now + Lifetime
        /\ now <= received.issued + MaxLatency
    BY <2>2
  <2> HIDE DEF received
  <2>4. now \in Nat
    BY DEF TokenTypeOK
  <2>5. Graceful(received, now)
    BY <2>3, <2>4, TokenAssumption DEF Graceful, Min2
  <2>6. TokenGrace'
    BY <2>1, <2>5, TakesGraceful
  <2>7. received.expires_at <= received.issued + MaxLatency + Lifetime
    BY <2>3, <2>4, TokenAssumption
  <2>8. ClaimsBounded'
    BY <2>1, <2>7 DEF ClaimsBounded, TokenTypeOK
  <2>9. WireFresh'
    BY <2>1 DEF WireFresh, OnTheWire, TokenTypeOK
  <2>. QED
    BY <2>6, <2>8, <2>9
<1>7. ASSUME NEW c \in Callers, MintFails(c)
      PROVE  GraceInv'
  <2>1. WireFresh'
    BY <1>7 DEF MintFails, WireFresh, OnTheWire, TokenTypeOK
  <2>. QED
    BY <1>7, <2>1 DEF MintFails, ClaimsBounded, TokenGrace
<1>8. CASE Tick
  <2>1. WireFresh'
    <3> SUFFICES ASSUME NEW c \in Callers, OnTheWire(c)
                 PROVE  now + 1 <= asked[c].issued + MaxLatency
      BY <1>8 DEF Tick, WireFresh, OnTheWire
    <3>1. now < asked[c].issued + MaxLatency
      BY <1>8 DEF Tick
    <3>2. now \in Nat /\ asked[c].issued \in Nat
      BY WireType DEF TokenTypeOK
    <3>. QED
      BY <3>1, <3>2, TokenAssumption
  <2>. QED
    BY <1>8, <2>1 DEF Tick, ClaimsBounded, TokenGrace
<1>. QED
  BY <1>1, <1>2, <1>3, <1>4, <1>5, <1>6, <1>7, <1>8 DEF TokenNext

(* The margin of needs_refresh(60), less the latency of one answer, holds  *)
(* for every token handed out, even when a slow answer has replaced a      *)
(* newer token.                                                            *)
THEOREM TokensLast == TokenSpec => []TokenGrace
<1>1. TokenInit => GraceInv
  BY DEF TokenInit, GraceInv, WireFresh, OnTheWire, ClaimsBounded, TokenGrace
<1>2. GraceInv => TokenGrace
  BY DEF GraceInv
<1>. QED
  BY <1>1, <1>2, InitTokenTypes, NextTokenTypes, NextGrace, PTL DEF TokenSpec
----------------------------------------------------------------------------
(* Induction over a sequence, in terms of sets.                            *)
(* A set of naturals that is not empty has a least element.                *)
LEMMA LeastNatural ==
  ASSUME NEW S \in SUBSET Nat, S # {}
  PROVE  \E n \in S : \A m \in S : n <= m
<1>1. PICK n \in S : \A m \in S : <<m, n>> \notin OpToRel(<, Nat)
  BY NatLessThanWellFounded, WFMin
<1>2. ASSUME NEW m \in S, m < n
      PROVE  FALSE
  <2> DEFINE p == <<m, n>>
  <2>1. p \in Nat \X Nat /\ p[1] < p[2]
    BY <1>2
  <2>2. p \notin OpToRel(<, Nat)
    BY <1>1
  <2> HIDE DEF p
  <2>. QED
    BY <2>1, <2>2 DEF OpToRel
<1>3. \A m \in S : n <= m
  BY <1>2
<1>. QED
  BY <1>3
----------------------------------------------------------------------------
(* What holds of no number at which it fails first holds of all.           *)
LEMMA NoFirstFailure ==
  ASSUME NEW n \in Nat, NEW T,
         \A i \in 0..n : (\A j \in 0..n : j < i => j \in T) => i \in T
  PROVE  0..n \subseteq T
<1> DEFINE F == {i \in 0..n : i \notin T}
<1> SUFFICES ASSUME F # {}
             PROVE  FALSE
  OBVIOUS
<1>1. F \in SUBSET Nat
  OBVIOUS
<1>2. PICK i \in F : \A j \in F : i <= j
  <2> HIDE DEF F
  <2>. QED
    BY <1>1, LeastNatural
<1>. QED
  BY <1>2

(* A set of sequences over S that has the empty one and every extension of *)
(* its members by one element has all of them.                             *)
LEMMA SequencesReached ==
  ASSUME NEW S, NEW T, <<>> \in T,
         \A s \in Seq(S), x \in S : s \in T => Append(s, x) \in T
  PROVE  Seq(S) \subseteq T
<1> SUFFICES ASSUME NEW s \in Seq(S)
             PROVE  s \in T
  OBVIOUS
<1> DEFINE n == Len(s)
           P == {i \in 0..n : SubSeq(s, 1, i) \in T}
<1>1. n \in Nat
  OBVIOUS
<1>2. ASSUME NEW i \in 0..n, \A j \in 0..n : j < i => j \in P
      PROVE  i \in P
  <2>1. CASE i = 0
    <3>1. SubSeq(s, 1, 0) = <<>>
      OBVIOUS
    <3>. QED
      BY <2>1, <3>1
  <2>2. CASE i # 0
    <3>1. i - 1 \in 0..n /\ i - 1 < i /\ i \in 1..n
      BY <2>2
    <3>2. SubSeq(s, 1, i - 1) \in T
      BY <3>1, <1>2
    <3>3. SubSeq(s, 1, i - 1) \in Seq(S) /\ s[i] \in S
      BY <3>1
    <3>4. SubSeq(s, 1, i) = Append(SubSeq(s, 1, i - 1), s[i])
      BY <3>1
    <3>. QED
      BY <3>2, <3>3, <3>4
  <2>. QED
    BY <2>1, <2>2
<1>3. 0..n \subseteq P
  <2> HIDE DEF P, n
  <2>. QED
    BY <1>1, <1>2, NoFirstFailure
<1>4. SubSeq(s, 1, n) = s
  OBVIOUS
<1>5. n \in P
  BY <1>1, <1>3
<1>. QED
  BY <1>4, <1>5
----------------------------------------------------------------------------
(* What Undotted keeps of the first i segments, for every i.               *)
IsKept(f, s) ==
  /\ f = [i \in 0..Len(s) |-> f[i]]
  /\ f[0] = <<>>
  /\ \A i \in 1..Len(s) : f[i] = IF s[i] = "." THEN f[i - 1] ELSE Append(f[i - 1], s[i])

(* There is one such function at most.                                     *)
LEMMA KeptUnique ==
  ASSUME NEW S, NEW s \in Seq(S), NEW f, NEW g, IsKept(f, s), IsKept(g, s)
  PROVE  f = g
<1> DEFINE n == Len(s)
           T == {i \in 0..n : f[i] = g[i]}
<1>1. n \in Nat
  OBVIOUS
<1>2. ASSUME NEW i \in 0..n, \A j \in 0..n : j < i => j \in T
      PROVE  i \in T
  <2>1. i = 0 \/ (i \in 1..n /\ i - 1 \in 0..n /\ i - 1 < i)
    BY <1>1
  <2>2. i = 0 \/ (i \in 1..n /\ f[i - 1] = g[i - 1])
    BY <2>1, <1>2
  <2>. QED
    BY <2>2 DEF IsKept
<1>3. 0..n \subseteq T
  <2> HIDE DEF T, n
  <2>. QED
    BY <1>1, <1>2, NoFirstFailure
<1>4. \A i \in 0..n : f[i] = g[i]
  BY <1>3
<1>. QED
  BY <1>4 DEF IsKept

(* The function of s gives one of s and a segment x.                       *)
LEMMA KeptExtends ==
  ASSUME NEW S, NEW s \in Seq(S), NEW x \in S, NEW f, IsKept(f, s)
  PROVE  \E g : IsKept(g, Append(s, x))
<1> DEFINE n == Len(s)
           last == IF x = "." THEN f[n] ELSE Append(f[n], x)
           g == [i \in 0..(n + 1) |-> IF i = n + 1 THEN last ELSE f[i]]
<1>1. n \in Nat /\ Len(Append(s, x)) = n + 1 /\ Append(s, x)[n + 1] = x
  OBVIOUS
<1>2. \A i \in 1..n : Append(s, x)[i] = s[i]
  OBVIOUS
<1>3. g[0] = <<>>
  BY <1>1 DEF IsKept
<1>4. ASSUME NEW i \in 1..(n + 1)
      PROVE  g[i] = IF Append(s, x)[i] = "." THEN g[i - 1]
                    ELSE Append(g[i - 1], Append(s, x)[i])
  <2>1. CASE i = n + 1
    <3>1. g[i] = last /\ g[i - 1] = f[n] /\ Append(s, x)[i] = x
      BY <2>1, <1>1
    <3> HIDE DEF g
    <3>. QED
      BY <3>1
  <2>2. CASE i # n + 1
    <3>1. i \in 1..n
      BY <1>1, <2>2
    <3>2. f[i] = IF s[i] = "." THEN f[i - 1] ELSE Append(f[i - 1], s[i])
      BY <3>1 DEF IsKept
    <3>3. g[i] = f[i] /\ g[i - 1] = f[i - 1]
      BY <3>1, <1>1
    <3> HIDE DEF g
    <3>. QED
      BY <3>1, <3>2, <3>3, <1>2
  <2>. QED
    BY <2>1, <2>2
<1>5. g = [i \in 0..(n + 1) |-> g[i]]
  OBVIOUS
<1>6. IsKept(g, Append(s, x))
  <2> HIDE DEF g, n
  <2>. QED
    BY <1>1, <1>3, <1>4, <1>5 DEF IsKept
<1>. QED
  BY <1>6

(* So every sequence of segments has one.                                  *)
LEMMA KeptExists ==
  ASSUME NEW S
  PROVE  \A s \in Seq(S) : \E f : IsKept(f, s)
<1> DEFINE T == {t \in Seq(S) : \E f : IsKept(f, t)}
<1>1. IsKept([i \in 0..0 |-> <<>>], <<>>)
  BY DEF IsKept
<1>2. <<>> \in T
  BY <1>1
<1>3. \A t \in Seq(S), x \in S : t \in T => Append(t, x) \in T
  BY KeptExtends
<1>4. Seq(S) \subseteq T
  <2> HIDE DEF T
  <2>. QED
    BY <1>2, <1>3, SequencesReached
<1>. QED
  BY <1>4

(* Undotted is the last value of this function. *)
LEMMA KeptLast ==
  ASSUME NEW S, NEW s \in Seq(S), NEW f, IsKept(f, s)
  PROVE  Undotted(s) = f[Len(s)]
<1> DEFINE e(h, i) == IF i = 0 THEN <<>>
                      ELSE IF s[i] = "." THEN h[i - 1] ELSE Append(h[i - 1], s[i])
           R(h) == h = [i \in 0..Len(s) |-> e(h, i)]
           g == CHOOSE h : R(h)
<1>1. ASSUME NEW h
      PROVE  IsKept(h, s) <=> R(h)
  <2>1. Len(s) \in Nat
    OBVIOUS
  <2>2. /\ \A i \in 1..Len(s) :
             e(h, i) = IF s[i] = "." THEN h[i - 1] ELSE Append(h[i - 1], s[i])
        /\ e(h, 0) = <<>>
    BY <2>1
  <2>3. 0..Len(s) = {0} \cup 1..Len(s)
    BY <2>1
  <2> HIDE DEF e
  <2>4. R(h) <=> /\ h = [i \in 0..Len(s) |-> h[i]]
                 /\ \A i \in 0..Len(s) : h[i] = e(h, i)
    OBVIOUS
  <2>5. IsKept(h, s) <=> /\ h = [i \in 0..Len(s) |-> h[i]]
                      /\ \A i \in 0..Len(s) : h[i] = e(h, i)
    BY <2>2, <2>3 DEF IsKept
  <2>. QED
    BY <2>4, <2>5
<1>2. R(g)
  <2>1. R(f)
    BY <1>1
  <2> HIDE DEF R
  <2>. QED
    BY <2>1
<1>3. g = f
  <2>1. IsKept(g, s)
    BY <1>1, <1>2
  <2> HIDE DEF g
  <2>. QED
    BY <2>1, KeptUnique
<1>4. Undotted(s) = g[Len(s)]
  BY DEF Undotted
<1>. QED
  BY <1>3, <1>4

(* Undotted of no segments, and of one segment more.                       *)
LEMMA KeptFirst ==
  Undotted(<<>>) = <<>>
<1>1. IsKept([i \in 0..0 |-> <<>>], <<>>)
  BY DEF IsKept
<1>2. <<>> \in Seq({})
  OBVIOUS
<1>. QED
  BY <1>1, <1>2, KeptLast

LEMMA KeptNext ==
  ASSUME NEW S, NEW s \in Seq(S), NEW x \in S
  PROVE  Undotted(Append(s, x)) = IF x = "." THEN Undotted(s) ELSE Append(Undotted(s), x)
<1> DEFINE n == Len(s)
<1>1. /\ n \in Nat /\ Len(Append(s, x)) = n + 1 /\ Append(s, x)[n + 1] = x
      /\ Append(s, x) \in Seq(S)
  OBVIOUS
<1>2. PICK f : IsKept(f, Append(s, x))
  BY <1>1, KeptExists
<1>3. IsKept([i \in 0..n |-> f[i]], s)
  <2> DEFINE h == [i \in 0..n |-> f[i]]
  <2>1. \A i \in 1..n : Append(s, x)[i] = s[i]
    OBVIOUS
  <2>2. /\ h = [i \in 0..n |-> h[i]]
        /\ h[0] = f[0]
        /\ \A i \in 1..n : h[i] = f[i] /\ h[i - 1] = f[i - 1]
    BY <1>1
  <2>3. \A i \in 1..n : i \in 1..(n + 1)
    BY <1>1
  <2> HIDE DEF h
  <2>4. IsKept(h, s)
    BY <1>1, <1>2, <2>1, <2>2, <2>3 DEF IsKept
  <2>. QED
    BY <2>4 DEF h
<1>4. Undotted(s) = f[n]
  BY <1>1, <1>3, KeptLast
<1>5. Undotted(Append(s, x)) = f[n + 1]
  BY <1>1, <1>2, KeptLast
<1>6. f[n + 1] = IF x = "." THEN f[n] ELSE Append(f[n], x)
  <2>1. n + 1 \in 1..(n + 1) /\ (n + 1) - 1 = n
    BY <1>1
  <2>. QED
    BY <1>1, <1>2, <2>1 DEF IsKept
<1>. QED
  BY <1>4, <1>5, <1>6

----------------------------------------------------------------------------
(* The walk before its first component.                                    *)
Fresh == [escapes |-> FALSE, depth |-> 0, resolved |-> <<>>]
----------------------------------------------------------------------------
(* The walk over the first i components, for every i.                      *)
IsWalked(f, m, s) ==
  /\ f = [i \in 0..Len(s) |-> f[i]]
  /\ f[0] = Fresh
  /\ \A i \in 1..Len(s) : f[i] = WalkComponent(m, f[i - 1], s[i])

(* One at most.                                                            *)
LEMMA WalkedUnique ==
  ASSUME NEW S, NEW m, NEW s \in Seq(S), NEW f, NEW g,
         IsWalked(f, m, s), IsWalked(g, m, s)
  PROVE  f = g
<1> DEFINE n == Len(s)
           T == {i \in 0..n : f[i] = g[i]}
<1>1. n \in Nat
  OBVIOUS
<1>2. ASSUME NEW i \in 0..n, \A j \in 0..n : j < i => j \in T
      PROVE  i \in T
  <2>1. i = 0 \/ (i \in 1..n /\ i - 1 \in 0..n /\ i - 1 < i)
    BY <1>1
  <2>2. i = 0 \/ (i \in 1..n /\ f[i - 1] = g[i - 1])
    BY <2>1, <1>2
  <2>. QED
    BY <2>2 DEF IsWalked
<1>3. 0..n \subseteq T
  <2> HIDE DEF T, n
  <2>. QED
    BY <1>1, <1>2, NoFirstFailure
<1>4. \A i \in 0..n : f[i] = g[i]
  BY <1>3
<1>. QED
  BY <1>4 DEF IsWalked

(* It extends to one component more.                                       *)
LEMMA WalkedExtends ==
  ASSUME NEW S, NEW m, NEW s \in Seq(S), NEW x \in S, NEW f, IsWalked(f, m, s)
  PROVE  \E g : IsWalked(g, m, Append(s, x))
<1> DEFINE n == Len(s)
           last == WalkComponent(m, f[n], x)
           g == [i \in 0..(n + 1) |-> IF i = n + 1 THEN last ELSE f[i]]
<1>1. n \in Nat /\ Len(Append(s, x)) = n + 1 /\ Append(s, x)[n + 1] = x
  OBVIOUS
<1>2. \A i \in 1..n : Append(s, x)[i] = s[i]
  OBVIOUS
<1>3. g[0] = Fresh
  BY <1>1 DEF IsWalked
<1>4. ASSUME NEW i \in 1..(n + 1)
      PROVE  g[i] = WalkComponent(m, g[i - 1], Append(s, x)[i])
  <2>1. CASE i = n + 1
    <3>1. g[i] = last /\ g[i - 1] = f[n] /\ Append(s, x)[i] = x
      BY <2>1, <1>1
    <3> HIDE DEF g
    <3>. QED
      BY <3>1
  <2>2. CASE i # n + 1
    <3>1. i \in 1..n
      BY <1>1, <2>2
    <3>2. f[i] = WalkComponent(m, f[i - 1], s[i])
      BY <3>1 DEF IsWalked
    <3>3. g[i] = f[i] /\ g[i - 1] = f[i - 1]
      BY <3>1, <1>1
    <3> HIDE DEF g
    <3>. QED
      BY <3>1, <3>2, <3>3, <1>2
  <2>. QED
    BY <2>1, <2>2
<1>5. g = [i \in 0..(n + 1) |-> g[i]]
  OBVIOUS
<1>6. IsWalked(g, m, Append(s, x))
  <2> HIDE DEF g, n
  <2>. QED
    BY <1>1, <1>3, <1>4, <1>5 DEF IsWalked
<1>. QED
  BY <1>6

(* So there always is one.                                                 *)
LEMMA WalkedExists ==
  ASSUME NEW S, NEW m
  PROVE  \A s \in Seq(S) : \E f : IsWalked(f, m, s)
<1> DEFINE T == {t \in Seq(S) : \E f : IsWalked(f, m, t)}
<1>1. IsWalked([i \in 0..0 |-> Fresh], m, <<>>)
  BY DEF IsWalked, Fresh
<1>2. <<>> \in T
  BY <1>1
<1>3. \A t \in Seq(S), x \in S : t \in T => Append(t, x) \in T
  BY WalkedExtends
<1>4. Seq(S) \subseteq T
  <2> HIDE DEF T
  <2>. QED
    BY <1>2, <1>3, SequencesReached
<1>. QED
  BY <1>4

(* WalkOver is the last value of this function. *)
LEMMA WalkedLast ==
  ASSUME NEW S, NEW m, NEW s \in Seq(S), NEW f, IsWalked(f, m, s)
  PROVE  WalkOver(m, s) = f[Len(s)]
<1> DEFINE e(h, i) == IF i = 0 THEN Fresh
                      ELSE WalkComponent(m, h[i - 1], s[i])
           R(h) == h = [i \in 0..Len(s) |-> e(h, i)]
           g == CHOOSE h : R(h)
<1>1. ASSUME NEW h
      PROVE  IsWalked(h, m, s) <=> R(h)
  <2>1. Len(s) \in Nat
    OBVIOUS
  <2>2. /\ \A i \in 1..Len(s) : e(h, i) = WalkComponent(m, h[i - 1], s[i])
        /\ e(h, 0) = Fresh
    BY <2>1
  <2>3. 0..Len(s) = {0} \cup 1..Len(s)
    BY <2>1
  <2> HIDE DEF e
  <2>4. R(h) <=> /\ h = [i \in 0..Len(s) |-> h[i]]
                 /\ \A i \in 0..Len(s) : h[i] = e(h, i)
    OBVIOUS
  <2>5. IsWalked(h, m, s) <=> /\ h = [i \in 0..Len(s) |-> h[i]]
                      /\ \A i \in 0..Len(s) : h[i] = e(h, i)
    BY <2>2, <2>3 DEF IsWalked
  <2>. QED
    BY <2>4, <2>5
<1>2. R(g)
  <2>1. R(f)
    BY <1>1
  <2> HIDE DEF R
  <2>. QED
    BY <2>1
<1>3. g = f
  <2>1. IsWalked(g, m, s)
    BY <1>1, <1>2
  <2> HIDE DEF g
  <2>. QED
    BY <2>1, WalkedUnique
<1>4. WalkOver(m, s) = g[Len(s)]
  BY DEF WalkOver, Fresh
<1>. QED
  BY <1>3, <1>4

(* The walk over no components, and over one component more.               *)
LEMMA WalkedFirst ==
  ASSUME NEW m
  PROVE  WalkOver(m, <<>>) = Fresh
<1>1. IsWalked([i \in 0..0 |-> Fresh], m, <<>>)
  BY DEF IsWalked, Fresh
<1>2. <<>> \in Seq({})
  OBVIOUS
<1>. QED
  BY <1>1, <1>2, WalkedLast

LEMMA WalkedNext ==
  ASSUME NEW S, NEW m, NEW s \in Seq(S), NEW x \in S
  PROVE  WalkOver(m, Append(s, x)) = WalkComponent(m, WalkOver(m, s), x)
<1> DEFINE n == Len(s)
<1>1. /\ n \in Nat /\ Len(Append(s, x)) = n + 1 /\ Append(s, x)[n + 1] = x
      /\ Append(s, x) \in Seq(S)
  OBVIOUS
<1>2. PICK f : IsWalked(f, m, Append(s, x))
  BY <1>1, WalkedExists
<1>3. IsWalked([i \in 0..n |-> f[i]], m, s)
  <2> DEFINE h == [i \in 0..n |-> f[i]]
  <2>1. \A i \in 1..n : Append(s, x)[i] = s[i]
    OBVIOUS
  <2>2. /\ h = [i \in 0..n |-> h[i]]
        /\ h[0] = f[0]
        /\ \A i \in 1..n : h[i] = f[i] /\ h[i - 1] = f[i - 1]
    BY <1>1
  <2>3. \A i \in 1..n : i \in 1..(n + 1)
    BY <1>1
  <2> HIDE DEF h
  <2>4. IsWalked(h, m, s)
    BY <1>1, <1>2, <2>1, <2>2, <2>3 DEF IsWalked
  <2>. QED
    BY <2>4 DEF h
<1>4. WalkOver(m, s) = f[n]
  BY <1>1, <1>3, WalkedLast
<1>5. WalkOver(m, Append(s, x)) = f[n + 1]
  BY <1>1, <1>2, WalkedLast
<1>6. f[n + 1] = WalkComponent(m, f[n], x)
  <2>1. n + 1 \in 1..(n + 1) /\ (n + 1) - 1 = n
    BY <1>1
  <2>. QED
    BY <1>1, <1>2, <2>1 DEF IsWalked
<1>. QED
  BY <1>4, <1>5, <1>6

----------------------------------------------------------------------------
(* Where the first i segments lead, for every i.                           *)
IsFollowed(f, start, s) ==
  /\ f = [i \in 0..Len(s) |-> f[i]]
  /\ f[0] = start
  /\ \A i \in 1..Len(s) : f[i] = Enter(f[i - 1], s[i])

(* One at most.                                                            *)
LEMMA FollowedUnique ==
  ASSUME NEW S, NEW start, NEW s \in Seq(S), NEW f, NEW g,
          IsFollowed(f, start, s), IsFollowed(g, start, s)
  PROVE  f = g
<1> DEFINE n == Len(s)
           T == {i \in 0..n : f[i] = g[i]}
<1>1. n \in Nat
  OBVIOUS
<1>2. ASSUME NEW i \in 0..n, \A j \in 0..n : j < i => j \in T
      PROVE  i \in T
  <2>1. i = 0 \/ (i \in 1..n /\ i - 1 \in 0..n /\ i - 1 < i)
    BY <1>1
  <2>2. i = 0 \/ (i \in 1..n /\ f[i - 1] = g[i - 1])
    BY <2>1, <1>2
  <2>. QED
    BY <2>2 DEF IsFollowed
<1>3. 0..n \subseteq T
  <2> HIDE DEF T, n
  <2>. QED
    BY <1>1, <1>2, NoFirstFailure
<1>4. \A i \in 0..n : f[i] = g[i]
  BY <1>3
<1>. QED
  BY <1>4 DEF IsFollowed

(* It extends to one segment more.                                         *)
LEMMA FollowedExtends ==
  ASSUME NEW S, NEW start, NEW s \in Seq(S), NEW x \in S, NEW f, IsFollowed(f, start, s)
  PROVE  \E g : IsFollowed(g, start, Append(s, x))
<1> DEFINE n == Len(s)
           last == Enter(f[n], x)
           g == [i \in 0..(n + 1) |-> IF i = n + 1 THEN last ELSE f[i]]
<1>1. n \in Nat /\ Len(Append(s, x)) = n + 1 /\ Append(s, x)[n + 1] = x
  OBVIOUS
<1>2. \A i \in 1..n : Append(s, x)[i] = s[i]
  OBVIOUS
<1>3. g[0] = start
  BY <1>1 DEF IsFollowed
<1>4. ASSUME NEW i \in 1..(n + 1)
      PROVE  g[i] = Enter(g[i - 1], Append(s, x)[i])
  <2>1. CASE i = n + 1
    <3>1. g[i] = last /\ g[i - 1] = f[n] /\ Append(s, x)[i] = x
      BY <2>1, <1>1
    <3> HIDE DEF g
    <3>. QED
      BY <3>1
  <2>2. CASE i # n + 1
    <3>1. i \in 1..n
      BY <1>1, <2>2
    <3>2. f[i] = Enter(f[i - 1], s[i])
      BY <3>1 DEF IsFollowed
    <3>3. g[i] = f[i] /\ g[i - 1] = f[i - 1]
      BY <3>1, <1>1
    <3> HIDE DEF g
    <3>. QED
      BY <3>1, <3>2, <3>3, <1>2
  <2>. QED
    BY <2>1, <2>2
<1>5. g = [i \in 0..(n + 1) |-> g[i]]
  OBVIOUS
<1>6. IsFollowed(g, start, Append(s, x))
  <2> HIDE DEF g, n
  <2>. QED
    BY <1>1, <1>3, <1>4, <1>5 DEF IsFollowed
<1>. QED
  BY <1>6

(* So there always is one.                                                 *)
LEMMA FollowedExists ==
  ASSUME NEW S, NEW start
  PROVE  \A s \in Seq(S) : \E f : IsFollowed(f, start, s)
<1> DEFINE T == {t \in Seq(S) : \E f : IsFollowed(f, start, t)}
<1>1. IsFollowed([i \in 0..0 |-> start], start, <<>>)
  BY DEF IsFollowed
<1>2. <<>> \in T
  BY <1>1
<1>3. \A t \in Seq(S), x \in S : t \in T => Append(t, x) \in T
  BY FollowedExtends
<1>4. Seq(S) \subseteq T
  <2> HIDE DEF T
  <2>. QED
    BY <1>2, <1>3, SequencesReached
<1>. QED
  BY <1>4

(* FollowFrom is the last value of this function. *)
LEMMA FollowedLast ==
  ASSUME NEW S, NEW start, NEW s \in Seq(S), NEW f, IsFollowed(f, start, s)
  PROVE  FollowFrom(start, s) = f[Len(s)]
<1> DEFINE e(h, i) == IF i = 0 THEN start
                      ELSE Enter(h[i - 1], s[i])
           R(h) == h = [i \in 0..Len(s) |-> e(h, i)]
           g == CHOOSE h : R(h)
<1>1. ASSUME NEW h
      PROVE  IsFollowed(h, start, s) <=> R(h)
  <2>1. Len(s) \in Nat
    OBVIOUS
  <2>2. /\ \A i \in 1..Len(s) : e(h, i) = Enter(h[i - 1], s[i])
        /\ e(h, 0) = start
    BY <2>1
  <2>3. 0..Len(s) = {0} \cup 1..Len(s)
    BY <2>1
  <2> HIDE DEF e
  <2>4. R(h) <=> /\ h = [i \in 0..Len(s) |-> h[i]]
                 /\ \A i \in 0..Len(s) : h[i] = e(h, i)
    OBVIOUS
  <2>5. IsFollowed(h, start, s) <=> /\ h = [i \in 0..Len(s) |-> h[i]]
                      /\ \A i \in 0..Len(s) : h[i] = e(h, i)
    BY <2>2, <2>3 DEF IsFollowed
  <2>. QED
    BY <2>4, <2>5
<1>2. R(g)
  <2>1. R(f)
    BY <1>1
  <2> HIDE DEF R
  <2>. QED
    BY <2>1
<1>3. g = f
  <2>1. IsFollowed(g, start, s)
    BY <1>1, <1>2
  <2> HIDE DEF g
  <2>. QED
    BY <2>1, FollowedUnique
<1>4. FollowFrom(start, s) = g[Len(s)]
  BY DEF FollowFrom
<1>. QED
  BY <1>3, <1>4

(* Where no segments lead, and one segment more.                           *)
LEMMA FollowedFirst ==
  ASSUME NEW start
  PROVE  FollowFrom(start, <<>>) = start
<1>1. IsFollowed([i \in 0..0 |-> start], start, <<>>)
  BY DEF IsFollowed
<1>2. <<>> \in Seq({})
  OBVIOUS
<1>. QED
  BY <1>1, <1>2, FollowedLast

LEMMA FollowedNext ==
  ASSUME NEW S, NEW start, NEW s \in Seq(S), NEW x \in S
  PROVE  FollowFrom(start, Append(s, x)) = Enter(FollowFrom(start, s), x)
<1> DEFINE n == Len(s)
<1>1. /\ n \in Nat /\ Len(Append(s, x)) = n + 1 /\ Append(s, x)[n + 1] = x
      /\ Append(s, x) \in Seq(S)
  OBVIOUS
<1>2. PICK f : IsFollowed(f, start, Append(s, x))
  BY <1>1, FollowedExists
<1>3. IsFollowed([i \in 0..n |-> f[i]], start, s)
  <2> DEFINE h == [i \in 0..n |-> f[i]]
  <2>1. \A i \in 1..n : Append(s, x)[i] = s[i]
    OBVIOUS
  <2>2. /\ h = [i \in 0..n |-> h[i]]
        /\ h[0] = f[0]
        /\ \A i \in 1..n : h[i] = f[i] /\ h[i - 1] = f[i - 1]
    BY <1>1
  <2>3. \A i \in 1..n : i \in 1..(n + 1)
    BY <1>1
  <2> HIDE DEF h
  <2>4. IsFollowed(h, start, s)
    BY <1>1, <1>2, <2>1, <2>2, <2>3 DEF IsFollowed
  <2>. QED
    BY <2>4 DEF h
<1>4. FollowFrom(start, s) = f[n]
  BY <1>1, <1>3, FollowedLast
<1>5. FollowFrom(start, Append(s, x)) = f[n + 1]
  BY <1>1, <1>2, FollowedLast
<1>6. f[n + 1] = Enter(f[n], x)
  <2>1. n + 1 \in 1..(n + 1) /\ (n + 1) - 1 = n
    BY <1>1
  <2>. QED
    BY <1>1, <1>2, <2>1 DEF IsFollowed
<1>. QED
  BY <1>4, <1>5, <1>6

----------------------------------------------------------------------------
(* Segments that are names.                                                *)
Named(S) == S \ {".", ".."}

(* A walk has failed, or it has kept names r, below "/" or not as lead     *)
(* says, and following the same components has led r down from base.       *)
Lands(S, lead, base, walk, at) ==
  \/ walk.escapes = TRUE
  \/ \E r \in Seq(Named(S)) :
       /\ walk = [escapes |-> FALSE, depth |-> Len(lead \o r),
                  resolved |-> lead \o r]
       /\ at = base \o r

(* What ".." takes back.                                                   *)
LEMMA FrontOfAppend ==
  ASSUME NEW S, NEW q \in Seq(S), NEW y \in S
  PROVE  Front(Append(q, y)) = q
<1>1. Len(Append(q, y)) - 1 = Len(q)
  OBVIOUS
<1>2. SubSeq(Append(q, y), 1, Len(q)) = q
  OBVIOUS
<1>. QED
  BY <1>1, <1>2 DEF Front

(* The same behind a sequence a.                                           *)
LEMMA FrontOfJoin ==
  ASSUME NEW S, NEW T, NEW a \in Seq(T), NEW r \in Seq(S), S \subseteq T, r # <<>>
  PROVE  /\ Front(r) \in Seq(S)
         /\ Front(a \o r) = a \o Front(r)
         /\ Len(a \o r) - 1 = Len(a \o Front(r))
         /\ a \o r # <<>>
<1>1. PICK q \in Seq(S), y \in S : r = Append(q, y)
  BY SequenceEmptyOrAppend
<1>2. q \in Seq(T) /\ y \in T /\ a \o q \in Seq(T)
  BY <1>1
<1>3. a \o r = Append(a \o q, y)
  BY <1>1, <1>2
<1>4. Front(r) = q /\ Front(a \o r) = a \o q
  BY <1>1, <1>2, <1>3, FrontOfAppend
<1>5. Len(a \o r) = Len(a \o q) + 1 /\ Len(a \o q) \in Nat /\ a \o r # <<>>
  BY <1>2, <1>3
<1>. QED
  BY <1>1, <1>4, <1>5

(* One component of the joined path keeps the two together.                *)
LEMMA WalkStep ==
  ASSUME NEW S, "/" \notin S, NEW m \in Nat \ {0}, NEW lead \in {<<>>, <<"/">>},
         NEW base \in Seq(S), NEW walk, NEW at, NEW x \in S, x # ".",
         Lands(S, lead, base, walk, at)
  PROVE  Lands(S, lead, base, WalkComponent(m, walk, x), Enter(at, x))
<1>1. CASE walk.escapes = TRUE
  <2>1. WalkComponent(m, walk, x) = walk
    BY <1>1 DEF WalkComponent
  <2>. QED
    BY <1>1, <2>1 DEF Lands
<1>2. CASE walk.escapes # TRUE
  <2>1. PICK r \in Seq(Named(S)) :
          /\ walk = [escapes |-> FALSE, depth |-> Len(lead \o r),
                     resolved |-> lead \o r]
          /\ at = base \o r
    BY <1>2 DEF Lands
  <2>2. r \in Seq(S) /\ r \in Seq(S \cup {"/"}) /\ Named(S) \subseteq S
    <3>1. Named(S) \subseteq S
      BY DEF Named
    <3>. QED
      BY <3>1
  <2>3. lead \in Seq(S \cup {"/"}) /\ lead \o r \in Seq(S \cup {"/"})
    <3>1. <<"/">> \in Seq(S \cup {"/"}) /\ <<>> \in Seq(S \cup {"/"})
      OBVIOUS
    <3>2. lead \in Seq(S \cup {"/"})
      BY <3>1
    <3>. QED
      BY <2>2, <3>2
  <2>4. CASE x = ".." /\ walk.depth <= m
    <3>1. WalkComponent(m, walk, x) = [walk EXCEPT !.escapes = TRUE]
      BY <2>1, <2>4 DEF WalkComponent
    <3>2. WalkComponent(m, walk, x).escapes = TRUE
      BY <2>1, <3>1
    <3>. QED
      BY <3>2 DEF Lands
  <2>5. CASE x = ".." /\ ~(walk.depth <= m)
    <3>1. Len(lead \o r) = Len(lead) + Len(r) /\ Len(lead) \in 0..1
      BY <2>2, <2>3
    <3>2. Len(lead) + Len(r) > 1 /\ r # <<>>
      BY <2>1, <2>5, <2>2, <3>1
    <3>3. lead \o r # <<"/">>
      <4>1. Len(<<"/">>) = 1
        OBVIOUS
      <4>. QED
        BY <3>1, <3>2, <4>1
    <3>4. /\ Front(r) \in Seq(Named(S))
          /\ Front(lead \o r) = lead \o Front(r)
          /\ Len(lead \o r) - 1 = Len(lead \o Front(r))
      <4>1. Named(S) \subseteq S \cup {"/"}
        BY <2>2
      <4>. QED
        BY <2>3, <3>2, <4>1, FrontOfJoin
    <3>5. Front(base \o r) = base \o Front(r) /\ base \o r # <<>>
      BY <2>2, <3>2, FrontOfJoin
    <3>6. WalkComponent(m, walk, x)
            = [walk EXCEPT !.depth = @ - 1, !.resolved = Popped(@)]
      BY <2>1, <2>5 DEF WalkComponent
    <3>7. WalkComponent(m, walk, x)
            = [escapes |-> FALSE, depth |-> Len(lead \o Front(r)),
               resolved |-> lead \o Front(r)]
      BY <2>1, <3>3, <3>4, <3>6 DEF Popped
    <3>8. Enter(at, x) = base \o Front(r)
      BY <2>1, <2>5, <3>5 DEF Enter
    <3>. QED
      BY <3>4, <3>7, <3>8 DEF Lands
  <2>6. CASE x # ".."
    <3>1. x \in Named(S) /\ Append(r, x) \in Seq(Named(S))
      BY <2>6 DEF Named
    <3>2. /\ Append(lead \o r, x) = lead \o Append(r, x)
          /\ Append(base \o r, x) = base \o Append(r, x)
      <4>1. x \in S \cup {"/"}
        OBVIOUS
      <4>2. Append(lead \o r, x) = lead \o Append(r, x)
        BY <2>2, SMTT(30)
      <4>3. Append(base \o r, x) = base \o Append(r, x)
        BY <2>2
      <4>. QED
        BY <4>2, <4>3
    <3>3. Len(lead \o r) + 1 = Len(lead \o Append(r, x))
      BY <2>3, <3>2
    <3>4. WalkComponent(m, walk, x)
            = [walk EXCEPT !.depth = @ + 1, !.resolved = Append(@, x)]
      BY <2>1, <2>6 DEF WalkComponent
    <3>5. WalkComponent(m, walk, x)
            = [escapes |-> FALSE, depth |-> Len(lead \o Append(r, x)),
               resolved |-> lead \o Append(r, x)]
      BY <2>1, <3>2, <3>3, <3>4
    <3>6. Enter(at, x) = base \o Append(r, x)
      BY <2>1, <2>6, <3>2 DEF Enter
    <3>. QED
      BY <3>1, <3>5, <3>6 DEF Lands
  <2>. QED
    BY <2>4, <2>5, <2>6
<1>. QED
  BY <1>1, <1>2

(* What is kept of a first component before any segment.                   *)
Lead(first) == IF first = <<"/">> THEN first ELSE <<>>

(* The walk over one component.                                            *)
LEMMA WalkedOne ==
  ASSUME NEW m, NEW x
  PROVE  WalkOver(m, <<x>>) = WalkComponent(m, Fresh, x)
<1> DEFINE e == <<>>
           X == {x}
<1>0. Append(e, x) = <<x>>
  OBVIOUS
<1>1. e \in Seq(X) /\ x \in X
  OBVIOUS
<1>2. WalkOver(m, e) = Fresh
  BY WalkedFirst
<1> HIDE DEF e, X
<1>3. WalkOver(m, Append(e, x)) = WalkComponent(m, WalkOver(m, e), x)
  BY <1>1, WalkedNext
<1>. QED
  BY <1>0, <1>2, <1>3

(* They are together after the first component.                            *)
LEMMA LeadLands ==
  ASSUME NEW S, NEW m \in Nat, NEW first \in {<<>>, <<".">>, <<"/">>},
         NEW base \in Seq(S)
  PROVE  Lands(S, Lead(first), base, WalkOver(m, first), base)
<1>1. WalkOver(m, <<>>) = Fresh
  BY WalkedFirst
<1>2. \A x \in {".", "/"} : WalkOver(m, <<x>>) = WalkComponent(m, Fresh, x)
  BY WalkedOne
<1>3. \A kept \in {<<>>, <<"/">>} : kept \o <<>> = kept /\ base \o <<>> = base
  OBVIOUS
<1>4. <<>> \in Seq(Named(S))
  OBVIOUS
<1>5. WalkOver(m, first) = [escapes |-> FALSE, depth |-> Len(Lead(first)),
                            resolved |-> Lead(first)]
  <2>1. CASE first = <<>>
    BY <1>1, <2>1 DEF Fresh, Lead
  <2>2. CASE first = <<".">>
    <3>1. WalkComponent(m, Fresh, ".") = Fresh
      BY DEF WalkComponent
    <3>2. Lead(first) = <<>>
      BY <2>2 DEF Lead
    <3>. QED
      BY <1>2, <2>2, <3>1, <3>2 DEF Fresh
  <2>3. CASE first = <<"/">>
    <3>1. WalkComponent(m, Fresh, "/")
            = [Fresh EXCEPT !.depth = @ + 1, !.resolved = Append(@, "/")]
      BY DEF WalkComponent, Fresh
    <3>2. Append(<<>>, "/") = <<"/">> /\ Len(<<"/">>) = 1
      OBVIOUS
    <3>3. WalkComponent(m, Fresh, "/")
            = [escapes |-> FALSE, depth |-> 1, resolved |-> <<"/">>]
      <4>1. Fresh = [escapes |-> FALSE, depth |-> 0, resolved |-> <<>>]
        BY DEF Fresh
      <4>2. WalkComponent(m, Fresh, "/")
              = [Fresh EXCEPT !.depth = 1, !.resolved = <<"/">>]
        BY <3>1, <3>2, <4>1
      <4>. QED
        BY <4>1, <4>2
    <3>4. Lead(first) = <<"/">>
      BY <2>3 DEF Lead
    <3>. QED
      BY <1>2, <2>3, <3>2, <3>3, <3>4
  <2>. QED
    BY <2>1, <2>2, <2>3
<1>6. Lead(first) \in {<<>>, <<"/">>}
  BY DEF Lead
<1>. QED
  BY <1>3, <1>4, <1>5, <1>6 DEF Lands

(* What Undotted keeps are segments.                                       *)
LEMMA UndottedType ==
  ASSUME NEW S
  PROVE  \A s \in Seq(S) : Undotted(s) \in Seq(S)
<1> DEFINE T == {s \in Seq(S) : Undotted(s) \in Seq(S)}
<1>1. <<>> \in T
  <2>1. Undotted(<<>>) \in Seq(S)
    <3>1. <<>> \in Seq(S)
      OBVIOUS
    <3>. QED
      BY <3>1, KeptFirst, Zenon
  <2>. QED
    BY <2>1
<1>2. \A s \in Seq(S), x \in S : s \in T => Append(s, x) \in T
  <2> SUFFICES ASSUME NEW s \in Seq(S), NEW x \in S, Undotted(s) \in Seq(S)
               PROVE  Undotted(Append(s, x)) \in Seq(S) /\ Append(s, x) \in Seq(S)
    OBVIOUS
  <2>1. Undotted(Append(s, x)) = IF x = "." THEN Undotted(s) ELSE Append(Undotted(s), x)
    BY KeptNext
  <2>. QED
    BY <2>1
<1>3. Seq(S) \subseteq T
  <2> HIDE DEF T
  <2>. QED
    BY <1>1, <1>2, SequencesReached
<1>. QED
  BY <1>3

(* So they are together at the end, for every number of segments.          *)
LEMMA WalkLands ==
  ASSUME NEW S, "/" \notin S, NEW m \in Nat \ {0},
         NEW first \in {<<>>, <<".">>, <<"/">>}, NEW base \in Seq(S)
  PROVE  \A s \in Seq(S) :
           Lands(S, Lead(first), base, WalkOver(m, first \o Undotted(s)),
                 FollowFrom(base, s))
<1> DEFINE C == S \cup {".", "/"}
           Landed(s) == Lands(S, Lead(first), base,
                              WalkOver(m, first \o Undotted(s)), FollowFrom(base, s))
           T == {s \in Seq(S) : Landed(s)}
<1>0. first \in Seq(C) /\ Lead(first) \in {<<>>, <<"/">>}
  <2>1. <<>> \in Seq(C) /\ <<".">> \in Seq(C) /\ <<"/">> \in Seq(C)
    OBVIOUS
  <2>. QED
    BY <2>1 DEF Lead
<1>1. <<>> \in T
  <2>1. Undotted(<<>>) = <<>> /\ FollowFrom(base, <<>>) = base
    BY KeptFirst, FollowedFirst
  <2>2. first \o <<>> = first
    BY <1>0
  <2>3. Landed(<<>>)
    <3>1. Lands(S, Lead(first), base, WalkOver(m, first), base)
      BY LeadLands
    <3>. QED
      BY <2>1, <2>2, <3>1, Zenon
  <2>4. <<>> \in Seq(S)
    OBVIOUS
  <2> HIDE DEF Landed
  <2>. QED
    BY <2>3, <2>4
<1>2. ASSUME NEW s \in Seq(S), NEW x \in S, Landed(s)
      PROVE  Landed(Append(s, x))
  <2>1. /\ Undotted(Append(s, x)) = IF x = "." THEN Undotted(s) ELSE Append(Undotted(s), x)
        /\ FollowFrom(base, Append(s, x)) = Enter(FollowFrom(base, s), x)
    BY KeptNext, FollowedNext
  <2>2. CASE x = "."
    BY <1>2, <2>1, <2>2 DEF Enter
  <2>3. CASE x # "."
    <3>1. Undotted(s) \in Seq(S) /\ Undotted(s) \in Seq(C)
      <4>1. Undotted(s) \in Seq(S)
        BY UndottedType
      <4>. QED
        BY <4>1
    <3>2. /\ first \o Undotted(s) \in Seq(C) /\ x \in C
          /\ first \o Append(Undotted(s), x) = Append(first \o Undotted(s), x)
      BY <1>0, <3>1
    <3>3. WalkOver(m, Append(first \o Undotted(s), x))
            = WalkComponent(m, WalkOver(m, first \o Undotted(s)), x)
      <4> DEFINE w == first \o Undotted(s)
      <4>1. w \in Seq(C) /\ x \in C
        BY <3>2
      <4> HIDE DEF C, w
      <4>2. WalkOver(m, Append(w, x)) = WalkComponent(m, WalkOver(m, w), x)
        BY <4>1, WalkedNext
      <4>. QED
        BY <4>2 DEF w
    <3>4. Lands(S, Lead(first), base,
                WalkComponent(m, WalkOver(m, first \o Undotted(s)), x),
                Enter(FollowFrom(base, s), x))
      BY <1>0, <1>2, <2>3, WalkStep
    <3>. QED
      BY <2>1, <2>3, <3>2, <3>3, <3>4
  <2>. QED
    BY <2>2, <2>3
<1>3. \A s \in Seq(S), x \in S : s \in T => Append(s, x) \in T
  <2> HIDE DEF Landed
  <2>. QED
    BY <1>2
<1>4. Seq(S) \subseteq T
  <2> HIDE DEF T
  <2>. QED
    BY <1>1, <1>3, SequencesReached
<1>. QED
  BY <1>4

(* Names lead down.                                                        *)
LEMMA UndottedFollowed ==
  ASSUME NEW S, NEW base \in Seq(S)
  PROVE  \A s \in Seq(S) : Undotted(s) \in Seq(Named(S)) =>
                             FollowFrom(base, s) = base \o Undotted(s)
<1> DEFINE Leads(s) == Undotted(s) \in Seq(Named(S)) =>
                         FollowFrom(base, s) = base \o Undotted(s)
           T == {s \in Seq(S) : Leads(s)}
<1>1. <<>> \in T
  <2>1. FollowFrom(base, <<>>) = base /\ Undotted(<<>>) = <<>>
    BY FollowedFirst, KeptFirst
  <2>2. base \o <<>> = base
    OBVIOUS
  <2>3. Leads(<<>>)
    BY <2>1, <2>2, Zenon
  <2>4. <<>> \in Seq(S)
    OBVIOUS
  <2> HIDE DEF Leads
  <2>. QED
    BY <2>3, <2>4
<1>2. ASSUME NEW s \in Seq(S), NEW x \in S, Leads(s)
      PROVE  Leads(Append(s, x))
  <2>1. /\ Undotted(Append(s, x)) = IF x = "." THEN Undotted(s) ELSE Append(Undotted(s), x)
        /\ FollowFrom(base, Append(s, x)) = Enter(FollowFrom(base, s), x)
    BY KeptNext, FollowedNext
  <2>2. CASE x = "."
    BY <1>2, <2>1, <2>2 DEF Enter
  <2>3. CASE x # "."
    <3> SUFFICES ASSUME Append(Undotted(s), x) \in Seq(Named(S))
                 PROVE  FollowFrom(base, Append(s, x)) = base \o Append(Undotted(s), x)
      BY <2>1, <2>3
    <3>1. Undotted(s) \in Seq(S)
      BY UndottedType
    <3>2. Undotted(s) \in Seq(Named(S)) /\ x \in Named(S)
      <4> DEFINE u == Undotted(s)
                 N == Named(S)
      <4>1. u \in Seq(S) /\ Append(u, x) \in Seq(N)
        BY <3>1
      <4> HIDE DEF u, N
      <4>2. Len(Append(u, x)) = Len(u) + 1 /\ Len(u) \in Nat
        BY <4>1
      <4>3. Append(u, x)[Len(u) + 1] = x /\ \A i \in 1..Len(u) : Append(u, x)[i] = u[i]
        BY <4>1
      <4>4. \A i \in 1..(Len(u) + 1) : Append(u, x)[i] \in N
        BY <4>1, <4>2
      <4>5. x \in N /\ \A i \in 1..Len(u) : u[i] \in N
        BY <4>2, <4>3, <4>4
      <4>6. u \in Seq(N)
        BY <4>1, <4>2, <4>5
      <4>. QED
        BY <4>5, <4>6 DEF u, N
    <3>3. FollowFrom(base, s) = base \o Undotted(s)
      BY <1>2, <3>2
    <3>4. x # ".."
      BY <3>2 DEF Named
    <3>5. Append(base \o Undotted(s), x) = base \o Append(Undotted(s), x)
      BY <3>1
    <3>. QED
      BY <2>1, <2>3, <3>3, <3>4, <3>5 DEF Enter
  <2>. QED
    BY <2>2, <2>3
<1>3. \A s \in Seq(S), x \in S : s \in T => Append(s, x) \in T
  <2> HIDE DEF Leads
  <2>. QED
    BY <1>2
<1>4. Seq(S) \subseteq T
  <2> HIDE DEF T
  <2>. QED
    BY <1>1, <1>3, SequencesReached
<1>. QED
  BY <1>4

(* Names are all kept.                                                     *)
LEMMA NamesKept ==
  ASSUME NEW S
  PROVE  \A r \in Seq(Named(S)) : Undotted(r) = r
<1> DEFINE T == {s \in Seq(Named(S)) : Undotted(s) = s}
<1>1. <<>> \in T
  <2>1. <<>> \in Seq(Named(S))
    OBVIOUS
  <2>. QED
    BY <2>1, KeptFirst, Zenon
<1>2. \A s \in Seq(Named(S)), x \in Named(S) : s \in T => Append(s, x) \in T
  <2> SUFFICES ASSUME NEW s \in Seq(Named(S)), NEW x \in Named(S), Undotted(s) = s
               PROVE  /\ Append(s, x) \in Seq(Named(S))
                      /\ Undotted(Append(s, x)) = Append(s, x)
    OBVIOUS
  <2>1. x # "."
    BY DEF Named
  <2>2. Undotted(Append(s, x)) = IF x = "." THEN Undotted(s) ELSE Append(Undotted(s), x)
    BY KeptNext
  <2>. QED
    BY <2>1, <2>2
<1>3. Seq(Named(S)) \subseteq T
  <2> DEFINE N == Named(S)
  <2>1. \A s \in Seq(N), x \in N : s \in T => Append(s, x) \in T
    BY <1>2
  <2> HIDE DEF T, N
  <2>2. Seq(N) \subseteq T
    BY <1>1, <2>1, SequencesReached
  <2>. QED
    BY <2>2 DEF N
<1>. QED
  BY <1>3

(* And names lead to where they say.                                       *)
LEMMA NamesFollowed ==
  ASSUME NEW S, NEW base \in Seq(S), NEW r \in Seq(Named(S))
  PROVE  FollowFrom(base, r) = base \o r
<1>1. Undotted(r) = r
  BY NamesKept
<1>2. r \in Seq(S)
  <2>1. Named(S) \subseteq S
    BY DEF Named
  <2>. QED
    BY <2>1
<1>. QED
  BY <1>1, <1>2, UndottedFollowed

----------------------------------------------------------------------------
(* A prefix leaves a rest.                                                 *)
LEMMA PrefixSplit ==
  ASSUME NEW S, NEW s \in Seq(S), NEW t \in Seq(S), IsPrefix(s, t)
  PROVE  \E q \in Seq(S) : t = s \o q
<1> DEFINE q == SubSeq(t, Len(s) + 1, Len(t))
<1>1. Len(s) \in Nat /\ Len(t) \in Nat /\ Len(s) <= Len(t)
  BY DEF IsPrefix
<1>2. SubSeq(s, 1, Len(s)) = s
  OBVIOUS
<1>3. \A i \in 1..Len(s) : s[i] = t[i]
  <2>1. SubSeq(t, 1, Len(s)) = s
    BY <1>2 DEF IsPrefix
  <2>. QED
    BY <1>1, <2>1
<1>4. /\ q \in Seq(S) /\ Len(q) = Len(t) - Len(s)
      /\ \A i \in 1..Len(q) : q[i] = t[Len(s) + i]
  BY <1>1
<1> HIDE DEF q
<1>5. /\ s \o q \in Seq(S) /\ Len(s \o q) = Len(t)
      /\ \A i \in 1..Len(t) : (s \o q)[i] = t[i]
  BY <1>1, <1>3, <1>4
<1>6. s \o q = t
  BY <1>5, SeqEqual
<1>. QED
  BY <1>4, <1>6

(* What is joined to a sequence has it as a prefix.                        *)
LEMMA JoinPrefix ==
  ASSUME NEW S, NEW s \in Seq(S), NEW q \in Seq(S)
  PROVE  IsPrefix(s, s \o q)
<1>1. /\ Len(s \o q) = Len(s) + Len(q) /\ Len(s) \in Nat /\ Len(q) \in Nat
      /\ SubSeq(s \o q, 1, Len(s)) = s /\ SubSeq(s, 1, Len(s)) = s
  OBVIOUS
<1>. QED
  BY <1>1 DEF IsPrefix

(* The parts of names are names.                                           *)
LEMMA PartsOfJoin ==
  ASSUME NEW S, NEW N, NEW s \in Seq(S), NEW q \in Seq(S), s \o q \in Seq(N)
  PROVE  s \in Seq(N) /\ q \in Seq(N)
<1>1. /\ Len(s \o q) = Len(s) + Len(q) /\ Len(s) \in Nat /\ Len(q) \in Nat
      /\ \A i \in 1..Len(s) : (s \o q)[i] = s[i]
      /\ \A i \in 1..Len(q) : (s \o q)[Len(s) + i] = q[i]
  OBVIOUS
<1>2. \A i \in 1..(Len(s) + Len(q)) : (s \o q)[i] \in N
  BY <1>1
<1>3. \A i \in 1..Len(s) : s[i] \in N
  BY <1>1, <1>2
<1>4. \A i \in 1..Len(q) : q[i] \in N
  BY <1>1, <1>2
<1>. QED
  BY <1>3, <1>4

(* Paths of segments in S.                                                 *)
PathsOver(S) == [absolute : BOOLEAN, segments : Seq(S)]

(* The component before the segments.                                      *)
First(path) ==
  IF path.absolute THEN <<"/">>
  ELSE IF path.segments # <<>> /\ path.segments[1] = "." THEN <<".">>
  ELSE <<>>

(* The components of a path: its first, and its segments without ".".      *)
LEMMA ComponentsShape ==
  ASSUME NEW S, NEW path \in PathsOver(S)
  PROVE  /\ Components(path) = First(path) \o Undotted(path.segments)
         /\ First(path) \in {<<>>, <<".">>, <<"/">>}
         /\ path.segments \in Seq(S) /\ Undotted(path.segments) \in Seq(S)
         /\ Lead(First(path)) = IF path.absolute THEN <<"/">> ELSE <<>>
<1>1. path.segments \in Seq(S)
  BY DEF PathsOver
<1>2. <<".">> # <<"/">> /\ <<>> # <<"/">>
  <2>1. <<".">>[1] # <<"/">>[1] /\ Len(<<"/">>) = 1 /\ Len(<<>>) = 0
    OBVIOUS
  <2>. QED
    BY <2>1
<1>3. Lead(First(path)) = IF path.absolute THEN <<"/">> ELSE <<>>
  BY <1>2 DEF Lead, First
<1>. QED
  BY <1>1, <1>3, UndottedType DEF Components, First

(* The joined path is a path, absolute if the root is.                     *)
LEMMA JoinShape ==
  ASSUME NEW S, NEW root \in PathsOver(S), NEW key \in PathsOver(S)
  PROVE  /\ Join(root, key) \in PathsOver(S)
         /\ ~Join(root, key).absolute => ~root.absolute
<1>1. CASE key.absolute
  BY <1>1 DEF Join
<1>2. CASE ~key.absolute
  <2>1. Join(root, key) = [root EXCEPT !.segments = @ \o key.segments]
    BY <1>2 DEF Join
  <2>2. root.segments \o key.segments \in Seq(S)
    <3>1. root.segments \in Seq(S) /\ key.segments \in Seq(S)
      BY DEF PathsOver
    <3>. QED
      BY <3>1
  <2>. QED
    BY <2>1, <2>2 DEF PathsOver
<1>. QED
  BY <1>1, <1>2

(* Where following a path starts.                                          *)
Base(dir, path) == IF path.absolute THEN <<>> ELSE dir

(* A walk that does not escape: names r, where the joined path leads.      *)
LEMMA WalkedNames ==
  ASSUME NEW S, "/" \notin S, NEW dir \in Seq(S),
         NEW root \in PathsOver(S), NEW key \in PathsOver(S),
         Components(root) # <<>>, ~Walk(root, key).escapes
  PROVE  \E r \in Seq(Named(S)) :
           /\ Walk(root, key).resolved = Lead(First(Join(root, key))) \o r
           /\ Follow(dir, Join(root, key)) = Base(dir, Join(root, key)) \o r
<1> DEFINE path == Join(root, key)
           m == Len(Components(root))
           base == Base(dir, path)
           walk == Walk(root, key)
<1>1. path \in PathsOver(S)
  BY JoinShape
<1>2. m \in Nat \ {0}
  <2> DEFINE T == S \cup {".", "/"}
  <2>1. <<>> \in Seq(T) /\ <<".">> \in Seq(T) /\ <<"/">> \in Seq(T)
    OBVIOUS
  <2>2. First(root) \in Seq(T)
    <3> HIDE DEF T
    <3>. QED
      BY <2>1 DEF First
  <2>3. Undotted(root.segments) \in Seq(T)
    <3>1. Undotted(root.segments) \in Seq(S)
      BY ComponentsShape
    <3>. QED
      BY <3>1
  <2>4. Components(root) = First(root) \o Undotted(root.segments)
    BY ComponentsShape
  <2> HIDE DEF T
  <2>5. Components(root) \in Seq(T)
    BY <2>2, <2>3, <2>4, ConcatProperties
  <2>. QED
    BY <2>5
<1>3. base \in Seq(S)
  BY DEF Base
<1>4. Lands(S, Lead(First(path)), base, walk, Follow(dir, path))
  <2>1. walk = WalkOver(m, First(path) \o Undotted(path.segments))
    <3> HIDE DEF path
    <3>. QED
      BY <1>1, ComponentsShape DEF Walk, path
  <2>2. Follow(dir, path) = FollowFrom(base, path.segments)
    BY DEF Follow, Base
  <2> HIDE DEF path, m, base, walk
  <2>3. First(path) \in {<<>>, <<".">>, <<"/">>} /\ path.segments \in Seq(S)
    BY <1>1, ComponentsShape
  <2>4. Lands(S, Lead(First(path)), base,
              WalkOver(m, First(path) \o Undotted(path.segments)),
              FollowFrom(base, path.segments))
    BY <1>2, <1>3, <2>3, WalkLands
  <2>. QED
    BY <2>1, <2>2, <2>4
<1>5. walk.escapes # TRUE
  OBVIOUS
<1> HIDE DEF walk, path, base
<1>6. PICK r \in Seq(Named(S)) :
        /\ walk = [escapes |-> FALSE, depth |-> Len(Lead(First(path)) \o r),
                   resolved |-> Lead(First(path)) \o r]
        /\ Follow(dir, path) = base \o r
  BY <1>4, <1>5 DEF Lands
<1>7. walk.resolved = Lead(First(path)) \o r
  BY <1>6
<1>. QED
  BY <1>6, <1>7 DEF walk, path, base

(* The path resolve_within_root returns leads where the joined path does.  *)
LEMMA ResolvedPlace ==
  ASSUME NEW S, "/" \notin S, NEW dir \in Seq(S),
         NEW root \in PathsOver(S), NEW key \in PathsOver(S),
         NEW r \in Seq(Named(S)),
         Walk(root, key).resolved = Lead(First(Join(root, key))) \o r
  PROVE  Follow(dir, Resolved(root, key)) = Base(dir, Join(root, key)) \o r
<1> DEFINE path == Join(root, key)
<1>0. /\ path \in PathsOver(S)
      /\ Walk(root, key).resolved = Lead(First(path)) \o r
  BY JoinShape
<1> HIDE DEF path
<1>1. r \in Seq(S) /\ Named(S) \subseteq S
  <2>1. Named(S) \subseteq S
    BY DEF Named
  <2>. QED
    BY <2>1
<1>2. Lead(First(path)) = IF path.absolute THEN <<"/">> ELSE <<>>
  BY <1>0, ComponentsShape
<1>3. CASE path.absolute
  <2>1. Walk(root, key).resolved = <<"/">> \o r
    BY <1>0, <1>2, <1>3
  <2>2. /\ <<"/">> \o r # <<>> /\ Head(<<"/">> \o r) = "/"
        /\ Tail(<<"/">> \o r) = r
    <3> DEFINE T == S \cup {"/"}
    <3>1. <<"/">> \in Seq(T) /\ r \in Seq(T) /\ Len(<<"/">>) = 1 /\ <<"/">>[1] = "/"
      BY <1>1
    <3> DEFINE a == <<"/">>
    <3>2. a \in Seq(T) /\ r \in Seq(T) /\ Len(a) = 1 /\ a[1] = "/"
      BY <3>1
    <3> HIDE DEF T, a
    <3>3. /\ a \o r \in Seq(T) /\ Len(a \o r) = 1 + Len(r) /\ Len(r) \in Nat
          /\ (a \o r)[1] = "/" /\ \A i \in 1..Len(r) : (a \o r)[i + 1] = r[i]
      <4>1. /\ a \o r \in Seq(T) /\ Len(a \o r) = Len(a) + Len(r)
            /\ \A i \in 1..(Len(a) + Len(r)) :
                 (a \o r)[i] = IF i <= Len(a) THEN a[i] ELSE r[i - Len(a)]
        BY <3>2, ConcatProperties
      <4>2. Len(r) \in Nat
        BY <3>2
      <4>. QED
        BY <3>2, <4>1, <4>2
    <3>4. a \o r # <<>> /\ Head(a \o r) = "/"
      BY <3>3
    <3>5. /\ Tail(a \o r) \in Seq(T) /\ Len(Tail(a \o r)) = Len(r)
          /\ \A i \in 1..Len(r) : Tail(a \o r)[i] = r[i]
      BY <3>3, <3>4
    <3>6. Tail(a \o r) = r
      BY <3>2, <3>5, SeqEqual
    <3>. QED
      BY <3>4, <3>6 DEF a
  <2>3. Resolved(root, key) = Absolute(r)
    BY <2>1, <2>2 DEF Resolved
  <2>4. Follow(dir, Absolute(r)) = FollowFrom(<<>>, r)
    BY DEF Follow, Absolute
  <2>5. FollowFrom(<<>>, r) = <<>> \o r
    <3>1. <<>> \in Seq(S)
      OBVIOUS
    <3>. QED
      BY <3>1, NamesFollowed, Zenon
  <2>. QED
    BY <1>3, <2>3, <2>4, <2>5 DEF Base, path
<1>4. CASE ~path.absolute
  <2>1. Walk(root, key).resolved = r
    BY <1>0, <1>1, <1>2, <1>4
  <2>2. r = <<>> \/ Head(r) # "/"
    BY <1>1
  <2>3. Resolved(root, key) = Relative(r)
    BY <2>1, <2>2 DEF Resolved
  <2>4. Follow(dir, Relative(r)) = FollowFrom(dir, r)
    BY DEF Follow, Relative
  <2>5. FollowFrom(dir, r) = dir \o r
    BY NamesFollowed
  <2>. QED
    BY <1>4, <2>3, <2>4, <2>5 DEF Base, path
<1>. QED
  BY <1>3, <1>4

(* When the walk ends below the root, the root's own segments are names,   *)
(* and the first of those the walk kept.                                   *)
LEMMA RootKept ==
  ASSUME NEW S, "/" \notin S, NEW root \in PathsOver(S), NEW path \in PathsOver(S),
         ~path.absolute => ~root.absolute, Components(root) # <<>>,
         NEW r \in Seq(Named(S)),
         IsPrefix(Components(root), Lead(First(path)) \o r)
  PROVE  /\ root.absolute <=> path.absolute
         /\ \E q \in Seq(Named(S)) :
              /\ Undotted(root.segments) \in Seq(Named(S))
              /\ r = Undotted(root.segments) \o q
<1> DEFINE T == S \cup {".", "/"}
           u == Undotted(root.segments)
           f == First(root)
           l == Lead(First(path))
<1>1. <<>> \in Seq(T) /\ <<".">> \in Seq(T) /\ <<"/">> \in Seq(T)
  OBVIOUS
<1>2. /\ Components(root) = f \o u /\ u \in Seq(S)
      /\ f \in {<<>>, <<".">>, <<"/">>}
      /\ l = IF path.absolute THEN <<"/">> ELSE <<>>
  BY ComponentsShape
<1>3. f = <<"/">> <=> root.absolute
  <2>1. <<".">>[1] # <<"/">>[1] /\ Len(<<"/">>) = 1 /\ Len(<<>>) = 0
    OBVIOUS
  <2>. QED
    BY <2>1 DEF First
<1>4. /\ r \in Seq(T) /\ u \in Seq(T)
      /\ \A i \in 1..Len(r) : r[i] \in S \ {".", ".."}
  <2>1. Named(S) \subseteq T
    BY DEF Named
  <2>2. \A i \in 1..Len(r) : r[i] \in Named(S)
    OBVIOUS
  <2>. QED
    BY <1>2, <2>1, <2>2 DEF Named
<1>5. f \in Seq(T) /\ l \in Seq(T)
  BY <1>1, <1>2
<1>6. \A i \in 1..Len(u) : u[i] # "/"
  BY <1>2
<1>7. /\ Len(<<"/">>) = 1 /\ <<"/">>[1] = "/"
      /\ Len(<<".">>) = 1 /\ <<".">>[1] = "." /\ Len(<<>>) = 0
  OBVIOUS
<1>0. IsPrefix(f \o u, l \o r)
  BY <1>2
<1> HIDE DEF T, u, f, l
<1>8. f \o u \in Seq(T) /\ l \o r \in Seq(T)
  BY <1>4, <1>5, ConcatProperties
<1>9. PICK q \in Seq(T) : l \o r = (f \o u) \o q
  <2> DEFINE a == f \o u
             b == l \o r
  <2>1. a \in Seq(T) /\ b \in Seq(T) /\ IsPrefix(a, b)
    BY <1>0, <1>8
  <2> HIDE DEF a, b
  <2>2. \E q \in Seq(T) : b = a \o q
    BY <2>1, PrefixSplit
  <2>. QED
    BY <2>2 DEF a, b
<1>10. l \o r = f \o (u \o q)
  BY <1>4, <1>5, <1>9, ConcatAssociative
<1>11. /\ Len(f \o u) = Len(f) + Len(u) /\ Len(f \o u) > 0
       /\ (f \o u)[1] = IF 1 <= Len(f) THEN f[1] ELSE u[1]
       /\ (l \o r)[1] = (f \o u)[1]
       /\ Len(l \o r) = Len(l) + Len(r) /\ Len(l \o r) > 0
       /\ (l \o r)[1] = IF 1 <= Len(l) THEN l[1] ELSE r[1]
       /\ Len(f) \in Nat /\ Len(u) \in Nat /\ Len(l) \in Nat /\ Len(r) \in Nat
  <2>1. f \o u # <<>>
    BY <1>2
  <2>2. Len(f \o u) \in Nat /\ Len(f \o u) > 0
    BY <1>8, <2>1
  <2>3. /\ Len(f) \in Nat /\ Len(u) \in Nat /\ Len(l) \in Nat /\ Len(r) \in Nat
        /\ Len(q) \in Nat
    BY <1>4, <1>5
  <2>4. /\ Len(f \o u) = Len(f) + Len(u)
        /\ \A i \in 1..(Len(f) + Len(u)) :
             (f \o u)[i] = IF i <= Len(f) THEN f[i] ELSE u[i - Len(f)]
    BY <1>4, <1>5, ConcatProperties
  <2>5. /\ Len(l \o r) = Len(l) + Len(r)
        /\ \A i \in 1..(Len(l) + Len(r)) :
             (l \o r)[i] = IF i <= Len(l) THEN l[i] ELSE r[i - Len(l)]
    BY <1>4, <1>5, ConcatProperties
  <2>6. /\ Len(l \o r) = Len(f \o u) + Len(q)
        /\ \A i \in 1..(Len(f \o u) + Len(q)) :
             (l \o r)[i] = IF i <= Len(f \o u) THEN (f \o u)[i]
                           ELSE q[i - Len(f \o u)]
    BY <1>8, <1>9, ConcatProperties
  <2>7. (l \o r)[1] = (f \o u)[1] /\ Len(l \o r) > 0
    BY <2>2, <2>3, <2>6
  <2>8. (f \o u)[1] = IF 1 <= Len(f) THEN f[1] ELSE u[1]
    <3>1. Len(f) = 0 \/ 1 <= Len(f)
      BY <2>3
    <3>. QED
      BY <2>2, <2>3, <2>4, <3>1
  <2>9. (l \o r)[1] = IF 1 <= Len(l) THEN l[1] ELSE r[1]
    <3>1. 1 \in 1..(Len(l) + Len(r)) /\ (Len(l) = 0 \/ 1 <= Len(l))
      BY <2>3, <2>5, <2>7
    <3>2. (l \o r)[1] = IF 1 <= Len(l) THEN l[1] ELSE r[1 - Len(l)]
      BY <2>5, <3>1
    <3>. QED
      BY <2>3, <3>1, <3>2
  <2>. QED
    BY <2>2, <2>3, <2>4, <2>5, <2>7, <2>8, <2>9
<1>12. f = l
  <2>1. CASE path.absolute
    <3>1. l = <<"/">> /\ (l \o r)[1] = "/"
      BY <1>2, <1>7, <1>11, <2>1
    <3>2. (f \o u)[1] = "/"
      BY <1>11, <3>1
    <3>3. f # <<>>
      BY <1>6, <1>7, <1>11, <3>2
    <3>4. f # <<".">>
      BY <1>7, <1>11, <3>2
    <3>. QED
      BY <1>2, <3>1, <3>3, <3>4
  <2>2. CASE ~path.absolute
    <3>1. l = <<>> /\ (l \o r)[1] = r[1] /\ Len(r) > 0
      BY <1>2, <1>7, <1>11, <2>2
    <3>2. (f \o u)[1] # "."
      BY <1>4, <1>11, <3>1
    <3>3. f # <<".">>
      BY <1>7, <1>11, <3>2
    <3>4. f # <<"/">>
      BY <1>3, <2>2
    <3>. QED
      BY <1>2, <3>1, <3>3, <3>4
  <2>. QED
    BY <2>1, <2>2
<1>13. root.absolute <=> path.absolute
  <2>1. l = <<"/">> <=> path.absolute
    BY <1>2, <1>7
  <2>2. root.absolute \in BOOLEAN /\ path.absolute \in BOOLEAN
    BY DEF PathsOver
  <2>. QED
    BY <1>3, <1>12, <2>1, <2>2
<1>14. r = u \o q
  <2>1. u \o q \in Seq(T)
    BY <1>4, ConcatProperties
  <2>. QED
    BY <1>4, <1>5, <1>10, <1>12, <2>1, ConcatSimplifications
<1>15. u \in Seq(Named(S)) /\ q \in Seq(Named(S))
  BY <1>4, <1>14, PartsOfJoin
<1>. QED
  BY <1>13, <1>14, <1>15 DEF u

(* What resolve_within_root(key) returns leads where the joined path does, *)
(* and not out of the root.                                                *)
THEOREM ResolvesWhereNamed ==
  ASSUME NEW S, "/" \notin S, NEW dir \in Seq(S),
         NEW root \in PathsOver(S), NEW key \in PathsOver(S),
         Components(root) # <<>>, ResolvesWithinRoot(root, key)
  PROVE  /\ Follow(dir, Resolved(root, key)) = Follow(dir, Join(root, key))
         /\ IsPrefix(Follow(dir, root), Follow(dir, Resolved(root, key)))
<1>1. IsPrefix(Components(root), Walk(root, key).resolved)
  BY DEF ResolvesWithinRoot
<1>2. PICK r \in Seq(Named(S)) :
        /\ Walk(root, key).resolved = Lead(First(Join(root, key))) \o r
        /\ Follow(dir, Join(root, key)) = Base(dir, Join(root, key)) \o r
  <2>1. ~Walk(root, key).escapes
    BY DEF ResolvesWithinRoot
  <2>. QED
    BY <2>1, WalkedNames, SMTT(30)
<1> DEFINE path == Join(root, key)
           u == Undotted(root.segments)
           base == Base(dir, path)
<1>3. path \in PathsOver(S) /\ (~path.absolute => ~root.absolute)
  BY JoinShape
<1>4. Follow(dir, Resolved(root, key)) = base \o r
  <2>1. /\ r \in Seq(Named(S))
        /\ Walk(root, key).resolved = Lead(First(Join(root, key))) \o r
    BY <1>2
  <2>2. Follow(dir, Resolved(root, key)) = Base(dir, Join(root, key)) \o r
    BY <2>1, ResolvedPlace, ZenonT(30)
  <2>. QED
    BY <2>2
<1>5. PICK q \in Seq(Named(S)) :
        /\ root.absolute <=> path.absolute
        /\ u \in Seq(Named(S))
        /\ r = u \o q
  <2>1. IsPrefix(Components(root), Lead(First(path)) \o r)
    BY <1>1, <1>2
  <2> HIDE DEF path
  <2>. QED
    BY <1>3, <2>1, RootKept
<1> HIDE DEF path
<1>6. base \in Seq(S) /\ u \in Seq(S) /\ q \in Seq(S) /\ root.segments \in Seq(S)
  <2>1. base \in Seq(S)
    BY DEF Base
  <2>2. Named(S) \subseteq S
    BY DEF Named
  <2>3. root.segments \in Seq(S)
    BY DEF PathsOver
  <2>. QED
    BY <1>5, <2>1, <2>2, <2>3
<1>7. Follow(dir, root) = base \o u
  <2>1. Follow(dir, root) = FollowFrom(base, root.segments)
    BY <1>5 DEF Follow, Base
  <2> HIDE DEF base
  <2>2. FollowFrom(base, root.segments) = base \o Undotted(root.segments)
    BY <1>5, <1>6, UndottedFollowed
  <2>. QED
    BY <2>1, <2>2
<1> HIDE DEF base, u
<1>8. base \o r = (base \o u) \o q
  BY <1>5, <1>6
<1>9. IsPrefix(base \o u, (base \o u) \o q)
  <2>1. base \o u \in Seq(S)
    BY <1>6, ConcatProperties
  <2>. QED
    BY <1>6, <2>1, JoinPrefix
<1>10. Follow(dir, Join(root, key)) = base \o r
  BY <1>2 DEF base, path
<1>. QED
  BY <1>4, <1>7, <1>8, <1>9, <1>10
----------------------------------------------------------------------------
(* A path without "." and "..".                                            *)
NamesOnly(path) ==
  \A i \in DOMAIN path.segments : path.segments[i] \notin {".", ".."}

(* Its components are its segments, below "/" or not.                      *)
LEMMA NamesComponents ==
  ASSUME NEW S, NEW path \in PathsOver(S), NamesOnly(path)
  PROVE  /\ path.segments \in Seq(Named(S))
         /\ Components(path) = (IF path.absolute THEN <<"/">> ELSE <<>>)
                                 \o path.segments
<1>1. path.segments \in Seq(S)
  BY DEF PathsOver
<1>2. path.segments \in Seq(Named(S))
  <2> DEFINE s == path.segments
  <2>1. s \in Seq(S) /\ \A i \in 1..Len(s) : s[i] \in Named(S)
    BY <1>1 DEF NamesOnly, Named
  <2> HIDE DEF s
  <2>2. s \in Seq(Named(S))
    BY <2>1
  <2>. QED
    BY <2>2 DEF s
<1>3. Undotted(path.segments) = path.segments
  BY <1>2, NamesKept
<1>4. First(path) = IF path.absolute THEN <<"/">> ELSE <<>>
  <2>1. path.segments # <<>> => 1 \in DOMAIN path.segments
    BY <1>1
  <2>. QED
    BY <2>1 DEF First, NamesOnly
<1>. QED
  BY <1>2, <1>3, <1>4, ComponentsShape

(* A walk over names keeps them all and does not escape.                   *)
LEMMA NamesWalked ==
  ASSUME NEW N, "." \notin N, ".." \notin N, NEW m
  PROVE  \A s \in Seq(N) :
           WalkOver(m, s) = [escapes |-> FALSE, depth |-> Len(s), resolved |-> s]
<1> DEFINE Kept(s) == WalkOver(m, s) =
                        [escapes |-> FALSE, depth |-> Len(s), resolved |-> s]
           T == {s \in Seq(N) : Kept(s)}
<1>1. <<>> \in T
  <2>1. <<>> \in Seq(N) /\ Len(<<>>) = 0
    OBVIOUS
  <2>2. Kept(<<>>)
    BY <2>1, WalkedFirst DEF Fresh
  <2>. QED
    BY <2>1, <2>2
<1>2. ASSUME NEW s \in Seq(N), NEW x \in N, Kept(s)
      PROVE  Kept(Append(s, x)) /\ Append(s, x) \in Seq(N)
  <2>1. WalkOver(m, Append(s, x)) = WalkComponent(m, WalkOver(m, s), x)
    BY WalkedNext
  <2> DEFINE walk == [escapes |-> FALSE, depth |-> Len(s), resolved |-> s]
  <2>2. walk.escapes = FALSE /\ walk.depth = Len(s) /\ walk.resolved = s
    OBVIOUS
  <2>3. WalkComponent(m, walk, x)
          = [walk EXCEPT !.depth = @ + 1, !.resolved = Append(@, x)]
    <3> HIDE DEF walk
    <3>. QED
      BY <2>2 DEF WalkComponent
  <2>4. Len(Append(s, x)) = Len(s) + 1 /\ Append(s, x) \in Seq(N)
    OBVIOUS
  <2>5. WalkComponent(m, walk, x) = [escapes |-> FALSE, depth |-> Len(s) + 1,
                                     resolved |-> Append(s, x)]
    BY <2>3
  <2>. QED
    BY <1>2, <2>1, <2>4, <2>5
<1>3. \A s \in Seq(N), x \in N : s \in T => Append(s, x) \in T
  BY <1>2
<1>4. Seq(N) \subseteq T
  <2> HIDE DEF T
  <2>. QED
    BY <1>1, <1>3, SequencesReached
<1>. QED
  BY <1>4

(* A root of names takes every relative key of names: what is refused has  *)
(* a "." or a ".." somewhere, or is absolute.                              *)
THEOREM NamesAreTaken ==
  ASSUME NEW S, "/" \notin S,
         NEW root \in PathsOver(S), NEW key \in PathsOver(S),
         ~key.absolute, NamesOnly(root), NamesOnly(key)
  PROVE  ResolvesWithinRoot(root, key)
<1> DEFINE path == Join(root, key)
           lead == IF root.absolute THEN <<"/">> ELSE <<>>
           a == root.segments
           b == key.segments
           N == Named(S) \cup {"/"}
           m == Len(Components(root))
<1>1. /\ a \in Seq(Named(S)) /\ b \in Seq(Named(S))
      /\ Components(root) = lead \o a
  BY NamesComponents
<1>2. path = [root EXCEPT !.segments = a \o b] /\ path \in PathsOver(S)
  BY JoinShape DEF Join
<1>3. path.segments = a \o b /\ path.absolute = root.absolute
  BY <1>2 DEF PathsOver
<1>4. a \o b \in Seq(Named(S))
  <2> HIDE DEF a, b
  <2>. QED
    BY <1>1
<1>5. NamesOnly(path)
  <2> DEFINE ab == a \o b
  <2>1. ab \in Seq(Named(S)) /\ path.segments = ab
    BY <1>3, <1>4
  <2> HIDE DEF ab, path
  <2>2. \A i \in DOMAIN ab : ab[i] \in Named(S)
    BY <2>1
  <2>. QED
    BY <2>1, <2>2 DEF NamesOnly, Named
<1> HIDE DEF path
<1>6. Components(path) = lead \o (a \o b)
  BY <1>2, <1>3, <1>5, NamesComponents
<1>7. lead \in Seq(N)
  <2>1. <<"/">> \in Seq(N) /\ <<>> \in Seq(N)
    OBVIOUS
  <2>. QED
    BY <2>1
<1>8. a \in Seq(N) /\ b \in Seq(N)
  <2>1. Named(S) \subseteq N
    OBVIOUS
  <2> HIDE DEF N, a, b
  <2>. QED
    BY <1>1, <2>1
<1>9. "." \notin N /\ ".." \notin N
  BY DEF Named
<1> HIDE DEF lead, a, b, N
<1>10. lead \o a \in Seq(N) /\ lead \o (a \o b) = (lead \o a) \o b
       /\ lead \o (a \o b) \in Seq(N)
  <2>1. (lead \o a) \o b = lead \o (a \o b)
    BY <1>7, <1>8, ConcatAssociative
  <2>. QED
    BY <1>7, <1>8, <2>1, ConcatProperties
<1>11. Walk(root, key) = WalkOver(m, lead \o (a \o b))
  BY <1>6 DEF Walk, path
<1>12. Walk(root, key) = [escapes |-> FALSE, depth |-> Len(lead \o (a \o b)),
                          resolved |-> lead \o (a \o b)]
  <2> HIDE DEF m
  <2>. QED
    BY <1>9, <1>10, <1>11, NamesWalked
<1>13. IsPrefix(Components(root), lead \o (a \o b))
  BY <1>1, <1>8, <1>10, JoinPrefix
<1>. QED
  BY <1>12, <1>13 DEF ResolvesWithinRoot
============================================================================
