SPECIFICATION Spec
CONSTANTS
  Users = {"ann"}
  Roles = {"operator", "reviewer"}
  OtherRole = "other"
  Routes <- MCRoutes
  Logins = {l1}
  Requests = {q1}
  MaxId = 2
INVARIANT TypeOK
INVARIANT CurrentRoleOnly
