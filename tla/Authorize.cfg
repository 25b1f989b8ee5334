\* Two requests of two tenants, over a cache too small for both tenants' ids.
CONSTANTS
  Tenants = {"t1", "t2"}
  Requests = {"p", "q"}
  Onboarded <- MCOnboarded
  CacheSize = 2
  MaxChanges = 1
  TokenKeys = {"k1", "k2"}
  TenantCacheSize = 1
  Users = {"u", "v"}
  SpiffeIds = {"v", "v1", "V"}
  Cut <- MCCut
  Mappings <- MCMappings
  Holders <- MCHolders
  Jobs <- MCJobs
SPECIFICATION Spec
CHECK_DEADLOCK FALSE
INVARIANTS TypeOK ResolvedRightly RefusedRightly
PROPERTY FollowsServer
