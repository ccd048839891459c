CONSTANTS
  MaxPdpContexts = 2
  Listings <- MCListings
  BareOk = TRUE
SPECIFICATION Spec
INVARIANTS ConnectionShownAsTold
