---------------------------- MODULE TokenCache -----------------------------
(***************************************************************************)
(* The access tokens of xero-auth (custom_connection.rs, lib.rs): one      *)
(* client with its credentials and its one cached token per tenant.        *)
(*                                                                         *)
(* fetch_token() reads the cache under a lock, and when the token needs    *)
(* refreshing mints another one without the lock and stores it: callers of *)
(* one tenant that find no usable token each mint their own, and the last  *)
(* answer to arrive stays in the cache whichever is older.  expires_at is  *)
(* counted from the arrival of the answer, the real lifetime from the      *)
(* moment the server issued the token.                                     *)
(*                                                                         *)
(* Time is a number.  Two things here are the world's and not the code's:  *)
(* MaxLatency bounds the age of an answer on the wire (the HTTP client has *)
(* no timeout), and MaxTime ends the clock of a finite instance.           *)
(***************************************************************************)
EXTENDS Integers, TenantCallers

CONSTANTS
  Credentials,   \* (client id, client secret) pairs
  Lifetime,      \* expires_in of every token
  RefreshBuffer, \* 60 in the code
  MaxLatency,
  MaxTime,
  None

ASSUME TokenAssumption ==
  /\ Lifetime \in Nat
  /\ RefreshBuffer \in Nat
  /\ MaxLatency \in Nat
  /\ MaxTime \in Nat

Tokens == [creds : Credentials, issued : Nat, expires_at : Nat]

(* A request under way: issued is None until the server has answered it.   *)
Requests == [creds : Credentials, issued : Nat \cup {None}]

ASSUME NoneAssumption == None \notin Nat \cup Tokens \cup Requests

VARIABLES
  now,      \* Utc::now()
  clients,  \* the credentials of each configured tenant
  cached,   \* cached_token of each tenant's client
  asked,    \* the token request each caller waits for
  token,    \* the token each caller was given
  takenAt   \* when it was given

tokenVars == <<now, clients, cached, asked, token, takenAt>>

Min2(a, b) == IF a <= b THEN a ELSE b

TokenTypeOK ==
  /\ now \in Nat
  /\ DOMAIN clients \subseteq Tenants
  /\ clients \in [DOMAIN clients -> Credentials]
  /\ cached \in [DOMAIN clients -> Tokens \cup {None}]
  /\ asked \in [Callers -> Requests \cup {None}]
  /\ token \in [Callers -> Tokens \cup {None}]
  /\ takenAt \in [Callers -> Nat]

TokenInit ==
  /\ now = 0
  /\ clients = [t \in {} |-> None]
  /\ cached = [t \in {} |-> None]
  /\ asked = [c \in Callers |-> None]
  /\ token = [c \in Callers |-> None]
  /\ takenAt = [c \in Callers |-> 0]
----------------------------------------------------------------------------
(* MultiTenantCustomConnectionClient::new: nothing is cached yet.          *)
NewClients(configured) ==
  /\ DOMAIN clients = {}
  /\ clients' = configured
  /\ cached' = [t \in DOMAIN configured |-> None]
  /\ UNCHANGED <<now, asked, token, takenAt>>

(* is_expired: Utc::now() >= expires_at.  The mutant of NeedsRefresh.      *)
IsExpired(tok) == now >= tok.expires_at

NeedsRefresh(tok) == now >= tok.expires_at - RefreshBuffer

(* Mutant of ClientOf: the client of some configured tenant.               *)
ClientOfAny(t) == CHOOSE x \in DOMAIN clients : TRUE

(* The client fetch_token_for_tenant() looks up for tenant t.              *)
ClientOf(t) == t

CacheUsable(t) == cached[t] # None /\ ~NeedsRefresh(cached[t])

(* fetch_token(): the cached token is good for another RefreshBuffer.      *)
UseCached(c) ==
  LET t == ClientOf(TenantOf[c]) IN
  /\ t \in DOMAIN clients
  /\ asked[c] = None
  /\ CacheUsable(t)
  /\ token' = [token EXCEPT ![c] = cached[t]]
  /\ takenAt' = [takenAt EXCEPT ![c] = now]
  /\ UNCHANGED <<now, clients, cached, asked>>

(* fetch_token(): there is none, so fetch_token_uncached() posts the       *)
(* client's credentials and awaits the answer.                             *)
AskToken(c) ==
  LET t == ClientOf(TenantOf[c]) IN
  /\ t \in DOMAIN clients
  /\ asked[c] = None
  /\ ~CacheUsable(t)
  /\ asked' =
       [asked EXCEPT ![c] = [creds |-> clients[t], issued |-> None]]
  /\ UNCHANGED <<now, clients, cached, token, takenAt>>

(* The token endpoint issues the token; the answer is on its way.          *)
IssueToken(c) ==
  /\ asked[c] # None
  /\ asked[c].issued = None
  /\ asked' = [asked EXCEPT ![c].issued = now]
  /\ UNCHANGED <<now, clients, cached, token, takenAt>>

OnTheWire(c) == asked[c] # None /\ asked[c].issued # None

(* The answer arrives: it is stored over whatever the cache holds by now,  *)
(* and handed to the caller.                                               *)
ReceiveToken(c) ==
  LET t == ClientOf(TenantOf[c])
      received == [creds |-> asked[c].creds,
                   issued |-> asked[c].issued,
                   expires_at |-> now + Lifetime]
  IN
  /\ OnTheWire(c)
  /\ cached' = [cached EXCEPT ![t] = received]
  /\ token' = [token EXCEPT ![c] = received]
  /\ takenAt' = [takenAt EXCEPT ![c] = now]
  /\ asked' = [asked EXCEPT ![c] = None]
  /\ UNCHANGED <<now, clients>>

(* No token: transport error, unreadable answer or error status.  The      *)
(* cache keeps what it had.                                                *)
MintFails(c) ==
  /\ asked[c] # None
  /\ asked' = [asked EXCEPT ![c] = None]
  /\ UNCHANGED <<now, clients, cached, token, takenAt>>

(* No answer stays on the wire for longer than MaxLatency.                 *)
Tick ==
  /\ now < MaxTime
  /\ \A c \in Callers : OnTheWire(c) => now < asked[c].issued + MaxLatency
  /\ now' = now + 1
  /\ UNCHANGED <<clients, cached, asked, token, takenAt>>

TokenNext ==
  \/ \E D \in SUBSET Tenants : \E configured \in [D -> Credentials] :
       NewClients(configured)
  \/ \E c \in Callers :
       \/ UseCached(c)
       \/ AskToken(c)
       \/ IssueToken(c)
       \/ ReceiveToken(c)
       \/ MintFails(c)
  \/ Tick

TokenSpec == TokenInit /\ [][TokenNext]_tokenVars

(* Whether Xero still accepts a token.                                     *)
Accepted(tok) == now < tok.issued + Lifetime
----------------------------------------------------------------------------
(* needs_refresh(60) of custom_connection.rs:61: a token that is handed    *)
(* out, from the cache or fresh, is accepted by Xero for another           *)
(* RefreshBuffer (or its whole lifetime, if that is shorter) less the time *)
(* the answer that brought it was on its way, even when a slow answer has  *)
(* replaced a newer token in the cache.                                    *)
TokenGrace ==
  \A c \in Callers :
    token[c] # None =>
      token[c].issued + Lifetime
        >= takenAt[c] + Min2(RefreshBuffer, Lifetime) - MaxLatency

(* Each tenant is accessed with its own credentials: a caller is given,    *)
(* and a cache keeps, only tokens of the caller's own tenant.              *)
TokenOfOwnTenant ==
  /\ \A c \in Callers :
       token[c] # None =>
         /\ TenantOf[c] \in DOMAIN clients
         /\ token[c].creds = clients[TenantOf[c]]
  /\ \A t \in DOMAIN clients :
       cached[t] # None => cached[t].creds = clients[t]
============================================================================
