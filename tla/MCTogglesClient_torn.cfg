\* One feature, switched on while a request is being answered.
SPECIFICATION Spec
CONSTANTS
  Email <- MCEmail
  RedHatEmail <- MCRedHatEmail
  Description = {"d"}
  Name <- OneName
  Settings <- TwoSettings
  Absent = absent
  Calls <- BobCalls
  Request = {r1}
  MaxEdits = 1
  MaxRestarts = 0
INVARIANT UserEnabledImpliesEnabled
