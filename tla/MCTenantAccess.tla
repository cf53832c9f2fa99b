--------------------------- MODULE MCTenantAccess --------------------------
(* Instances of TenantAccess for TLC.                                      *)
EXTENDS TenantAccess, TLC

(* Two callers for tenant a, one for b.                                    *)
MCTenantOf == <<"a", "a", "b">>

MCCredentials == [number : 0..3, padded : BOOLEAN]

MCSegments ==
  FileNames \cup {"a", "b", "raw", "xero", "_manifests", ".", "..",
                  "out", "tmp", "data", "srv", "app"}

MCWorkDir == <<"srv", "app">>

Complete(tenant) == [present |-> Required, tenant |-> tenant]
Partial(tenant) == [present |-> {"CLIENT_ID", "TENANT_ID"}, tenant |-> tenant]
NameOnly(tenant) == [present |-> {"NAME"}, tenant |-> tenant]
Blank(tenant) == [present |-> {}, tenant |-> tenant]

Env(blocks) ==
  [connection_type |-> "unset", org_index |-> Numbered(1), blocks |-> blocks,
   tuning_parses |-> TRUE, bucket |-> TRUE, prefix |-> NoPrefix]

OneOrg == Numbered(1) :> Complete("a")
TwoOrgs == OneOrg @@ Numbered(2) :> Complete("b")

(* The explicit block names the tenant of a numbered one too, and wins.    *)
Overlap ==
  Explicit :> Complete("b") @@ Numbered(1) :> Complete("b")
  @@ Numbered(2) :> Complete("a")

BlockSets ==
  {OneOrg, TwoOrgs, Overlap,
   TwoOrgs @@ Numbered(3) :> Complete("a"),
   TwoOrgs @@ Numbered(3) :> Blank("a"),
   TwoOrgs @@ Padded(3) :> Complete("a"),
   OneOrg @@ Numbered(2) :> Partial("b"),
   OneOrg @@ Numbered(2) :> NameOnly("b"),
   OneOrg @@ Explicit :> Partial("b"),
   Numbered(2) :> Complete("b"),
   Numbered(1) :> Blank("a")}

Environments ==
  {Env(blocks) : blocks \in BlockSets}
  \cup {[Env(TwoOrgs) EXCEPT !.connection_type = type] :
          type \in {"custom", "other"}}
  \cup {[Env(TwoOrgs) EXCEPT !.org_index = index] :
          index \in {Numbered(0), Numbered(2), Padded(1)}}
  \cup {[Env(TwoOrgs) EXCEPT !.tuning_parses = FALSE],
        [Env(TwoOrgs) EXCEPT !.bucket = FALSE]}

Sync == [command |-> "sync", tenants |-> {}, dry_run |-> FALSE]
DryRun(root) ==
  [command |-> "sync", tenants |-> {}, dry_run |-> TRUE, local_dir |-> root]
Healthcheck(check_bucket) ==
  [command |-> "healthcheck", check_bucket |-> check_bucket]

(* Prefixes and roots, on one tenant.                                      *)
GcsPrefixes ==
  {NoPrefix, EmptyPrefix} \cup
  {Prefix(path) : path \in
     {Relative(<<"raw">>), Absolute(<<"raw">>),
      Relative(<<"_manifests", "xero">>), Absolute(<<"_manifests">>),
      Relative(<<"raw", "..", "..", "out", "raw">>),
      Relative(<<"raw", ".", "..", "xero">>)}}

Roots ==
  {Relative(<<"out">>), Absolute(<<"tmp", "out">>), Relative(<<>>),
   Relative(<<"..", "out">>), Relative(<<"data", ".", "out">>),
   Absolute(<<"raw", "b", "page.json">>)}

Prefixed(prefix_, bucket) ==
  [Env(Numbered(1) :> Complete("b")) EXCEPT !.prefix = prefix_, !.bucket = bucket]

MCCases ==
  {[env |-> e, args |-> Healthcheck(check)] :
     e \in Environments, check \in BOOLEAN}
  \cup {[env |-> e, args |-> [Sync EXCEPT !.tenants = {"b"}]] :
          e \in Environments}
  \cup {[env |-> Env(Overlap), args |-> Sync]}
  \cup {[env |-> Prefixed(p, TRUE), args |-> Sync] : p \in GcsPrefixes}
  \cup {[env |-> Prefixed(p, bucket), args |-> DryRun(root)] :
          p \in GcsPrefixes, root \in Roots, bucket \in BOOLEAN}

(* The default of --local-dir (sync.rs:93) in an ordinary dry run.         *)
DefaultDryRun ==
  {[env |-> Prefixed(NoPrefix, FALSE),
    args |-> DryRun(Relative(<<".", "out">>))]}
============================================================================
