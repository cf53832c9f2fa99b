--------------------------- MODULE TenantCallers ---------------------------
(* The futures of a process and the tenant each of them works for: what    *)
(* the limiter, the token cache and their composition have in common.      *)
CONSTANTS
  Tenants,   \* tenant ids
  Callers,   \* futures that ask for tokens and issue requests
  TenantOf   \* the tenant each caller works for

ASSUME CallersAssumption == TenantOf \in [Callers -> Tenants]
============================================================================
