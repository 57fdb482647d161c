\* A feature with a blank list of addresses, no edit.
SPECIFICATION Spec
CONSTANTS
  Email <- MCEmail
  RedHatEmail <- MCRedHatEmail
  Description = {"d"}
  Name <- OneName
  Settings <- BlankOnly
  Absent = absent
  Calls <- AnonymousCalls
  Request = {r1}
  MaxEdits = 0
  MaxRestarts = 0
INVARIANT NoAddressNoRollOut
