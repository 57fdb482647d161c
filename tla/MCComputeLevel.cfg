\* Every feature of up to three strategies, for an internal and for an
\* external user.  The function returns, so the system stops.
SPECIFICATION Spec
CONSTANTS
  Email <- MCEmail
  RedHatEmail <- MCRedHatEmail
  Description = {"d"}
  Settings <- MCSettings
INVARIANTS
  TypeOK
  LoopInv
  LoopComputesLevel
  LevelDecides
CHECK_DEADLOCK FALSE
