\* A feature for internal users, an external user whose profile says internal, no edit.
SPECIFICATION Spec
CONSTANTS
  Email <- MCEmail
  RedHatEmail <- MCRedHatEmail
  Description = {"d"}
  Name <- OneName
  Settings <- InsideOnly
  Absent = absent
  Calls <- InsideCalls
  Request = {r1}
  MaxEdits = 0
  MaxRestarts = 0
INVARIANT NoLevelMeansNoAccess
