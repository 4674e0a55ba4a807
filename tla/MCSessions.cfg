SPECIFICATION Spec
CONSTANTS
  Users = {ann, bob}
  SessionTokens = {s1, s2}
  CsrfTokens = {c1, c2}
  Tabs = {t1}
  Requests = {r1, r2}
  None = None
SYMMETRY Symmetry
INVARIANTS
  FormActsForItsReader
  LoggedOutStaysOut
  EffectOnNextRequest
  OneRegistrationPerAccount
CHECK_DEADLOCK FALSE
