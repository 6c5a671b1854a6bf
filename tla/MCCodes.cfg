SPECIFICATION Spec
CONSTANTS
  W = 4
  Indexes <- Bounds
INVARIANTS
  RoundTrip
  CodesInOrder
  SignedRoundTrip
  TagRoundTrip
