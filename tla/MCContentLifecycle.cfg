CONSTANTS
  Users = {ann, bob, mod}
  System = importer
  NoActor = nobody
  Items = {q}
  AssignedRoles = {"user", "moderator"}
  MaxEvents = 5
  MaxVersion = 5
SPECIFICATION Spec
SYMMETRY Symmetry
INVARIANTS
  AuditTrailReplays
  DecidedByAnotherModerator
  PublishedAtIsLatest
  OutboxEndsInVisibility
PROPERTY PublicationSpec
CHECK_DEADLOCK FALSE
