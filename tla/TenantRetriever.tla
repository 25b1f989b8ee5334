--------------------------- MODULE TenantRetriever ---------------------------
(***************************************************************************)
(* RetrieveTenant of policy_services: the tenant that the IAM service names *)
(* for the issuer and audiences of a request's web token, through a cache   *)
(* whose entries do not expire.  Two requests may miss at the same time and *)
(* add what they were told in another order than they asked.                *)
(***************************************************************************)
EXTENDS TenantStores

CONSTANTS
  TokenKeys,       \* issuer and audiences of web tokens, joined to one key; those
                   \* that give the same key are one here, as in the cache
  Mappings,        \* what the IAM service may name for them at first
  TenantCacheSize  \* entries of the retriever's cache, five in the code

ASSUME RetrieverAssumption ==
  /\ TenantCacheSize \in Nat \ {0}
  /\ Mappings \subseteq [TokenKeys -> Tenants \cup {None}]

VARIABLES
  iam,         \* iam[k]: the tenant that the IAM service names for k, or None
  mapped,      \* mapped[k]: the tenants it has named for k so far (history)
  tenantCache  \* the retriever's cache

iamVars == <<iam, mapped>>
retrieverVars == <<iamVars, tenantCache>>

InitRetriever ==
  /\ iam \in Mappings
  /\ mapped = [k \in TokenKeys |-> {iam[k]} \ {None}]
  /\ tenantCache = <<>>

-----------------------------------------------------------------------------
\* RetrieveOrAdd for the key k of p's token: the cache, then tenantReader.Read.
TenantCached(p, k) ==
  /\ pc[p] = "tenantGet" /\ k \in Keys(tenantCache)
  /\ tenantCache' = Used(tenantCache, k)
  /\ tenant' = [tenant EXCEPT ![p] = Val(tenantCache, k)]
  /\ Goto(p, "directive")
  /\ UNCHANGED <<serverIds, changes, cacheVars, localIds, iamVars>>

TenantNotCached(p, k) ==
  /\ pc[p] = "tenantGet" /\ k \notin Keys(tenantCache)
  /\ Goto(p, "readTenant")
  /\ UNCHANGED <<serverIds, changes, cacheVars, tenant, localIds, retrieverVars>>

\* The IAM service is asked with the request's auth header; that it names no
\* tenant is an error.
ReadTenant(p, k) ==
  /\ pc[p] = "readTenant"
  /\ IF iam[k] # None
     THEN /\ Goto(p, "tenantAdd") /\ tenant' = [tenant EXCEPT ![p] = iam[k]]
          /\ UNCHANGED localIds
     ELSE Return(p, "error")
  /\ UNCHANGED <<serverIds, changes, cacheVars, retrieverVars>>

TenantAdd(p, k) ==
  /\ pc[p] = "tenantAdd"
  /\ tenantCache' = Added(tenantCache, k, tenant[p], TenantCacheSize)
  /\ Goto(p, "directive")
  /\ UNCHANGED <<serverIds, changes, cacheVars, tenant, localIds, iamVars>>

RetrieveTenant(p, k) == \/ TenantCached(p, k) \/ TenantNotCached(p, k)
                        \/ ReadTenant(p, k) \/ TenantAdd(p, k)

\* Whoever administers the IAM service gives a tenant to an issuer and its
\* audiences, or takes it away.
IamChanges ==
  /\ changes < MaxChanges /\ changes' = changes + 1
  /\ \E k \in TokenKeys, t \in Tenants \cup {None} :
       /\ t # iam[k] /\ iam' = [iam EXCEPT ![k] = t]
       /\ mapped' = [mapped EXCEPT ![k] = @ \cup ({t} \ {None})]
  /\ UNCHANGED <<serverIds, cacheVars, pc, tenant, localIds, tenantCache>>

RetrieverTypeOK ==
  /\ iam \in [TokenKeys -> Tenants \cup {None}]
  /\ mapped \in [TokenKeys -> SUBSET Tenants]
  /\ tenantCache \in Seq(TokenKeys \X Tenants) /\ Len(tenantCache) <= TenantCacheSize
=============================================================================
