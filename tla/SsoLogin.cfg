SPECIFICATION Spec
CONSTANTS
  Provider = {"oidc", "saml"}
  Saml = {"saml"}
  Person = {"ann", "bob"}
  Verified = {"ann"}
  Shouted = {"bob"}
  Local <- MCLocal
  Document <- MCDocument
  First <- Both
  None = None
  Worker = {w1, w2}
  MaxLogins = 2
  MaxEdits = 2
  MaxFaults = 1
SYMMETRY Symmetric
CHECK_DEADLOCK FALSE
INVARIANTS
  OneSession LinksBounded InStep
