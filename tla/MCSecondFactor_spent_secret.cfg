CONSTANTS
  Requests = {r1, r2}
  Points = 2
  Window = 2
  Block = 2
  MaxBlock = 3
  Memory = 3
  None = None
  Secrets = {s1, s2}
  Draft = 2
  Batches = {b1, b2, b3}
  Codes = {c1}
  MaxCounter = 2
SPECIFICATION Spec
PROPERTY SpentSecretsAreNotConfirmed
