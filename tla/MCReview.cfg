SPECIFICATION Spec
CONSTANTS
  Offered <- MCOffered
  Profiles <- MCProfiles
  Asked <- MCAsked
  Claims <- MCClaims
  Proven <- MCProven
INVARIANTS
  RenderedIsReviewed
  IdentityDeterminesEvidence
CHECK_DEADLOCK FALSE
