CONSTANTS
  Users = {ann, mod}
  System = importer
  NoActor = nobody
  Items = {q}
  AssignedRoles = {"user", "moderator"}
  MaxEvents = 4
  MaxVersion = 4
SPECIFICATION Spec
INVARIANT CurrentEditIsNotRefused
CHECK_DEADLOCK FALSE
