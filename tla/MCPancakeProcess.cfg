\* All modules that look up what others register, in every order.
CONSTANTS
  Module = {"OpenSSL", "HTTP", "HTTPRewrite", "HTTPFastCGI", "Authentication", "HTTPBasicAuthentication"}
  MaxWorkers = 3
SPECIFICATION Spec
INVARIANTS
  SameForEveryOrder
  FreedOnce
PROPERTIES
  AllEndTogether
CHECK_DEADLOCK FALSE
