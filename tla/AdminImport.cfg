SPECIFICATION Spec
CONSTANTS
  Names = {admin, ann, bob}
  Numeric = {}
  Admin = admin
  Absent = Absent
  MaxUsers = 3
  Lists <- MCLists
PROPERTIES ImportIsComplete
CHECK_DEADLOCK FALSE
