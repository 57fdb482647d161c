\* Selections among three names, one of which a pattern selects for its dot, and a list of
\* names, with two edits and a restart, under the fairness of Spec.
SPECIFICATION Spec
CONSTANTS
  Email <- MCEmail
  RedHatEmail <- MCRedHatEmail
  Description = {"d"}
  Name <- ThreeNames
  Settings <- BetaSettings
  Absent = absent
  Calls <- SelectionCalls
  Request = {r1}
  MaxEdits = 2
  MaxRestarts = 1
INVARIANTS
  IInv
  SelectionIsOneVersion
PROPERTIES
  EveryCallEnds
  CatchesUp
