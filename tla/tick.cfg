SPECIFICATION FairTickSpec
CONSTANTS
  A = A
  B = B
  Tenants <- TwoTenants
  PerTenant = 3
  Global = 4
  MaxReady = 3
INVARIANT TickTypeOK
INVARIANT DispatchNeverWaits
INVARIANT Interleaved
PROPERTY TenantServed
