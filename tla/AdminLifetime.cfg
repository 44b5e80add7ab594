SPECIFICATION Spec
CONSTANTS
  Names = {admin, n7}
  Numeric = {n7}
  Admin = admin
  Absent = Absent
  MaxUsers = 3
  Lists <- MCLists
INVARIANT ServiceIsSteady
PROPERTY DamageStays
CHECK_DEADLOCK FALSE
