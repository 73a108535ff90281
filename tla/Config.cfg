CONSTANTS
  FlagsSet <- MCFlagsSet
  UserObjects <- MCUserObjects
SPECIFICATION Spec
INVARIANT FlagsRoundTrip
