SPECIFICATION DashboardSpec
CONSTANTS
  a1 = a1
  a2 = a2
  x1 = x1
  x2 = x2
  Null = Null
  Apps = {a1, a2}
  Actors = {"recruiter"}
  Roles = {x1, x2}
  RoleOf <- MCRoleOf
INVARIANTS
  BoardForgetsNobody
  NobodyDropped
