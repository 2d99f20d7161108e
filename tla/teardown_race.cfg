SPECIFICATION Spec
CONSTANTS
  Publishers = {p1}
  Boots = {b1, b2}
  Scopes = {wide}
  None = None
  MaxEpoch = 1
  MaxPublishers = 1
  Sessions = {s1, s2}
  MaxSessions = 2
  Observer = s3
  Registers <- WorkersRegister
PROPERTY ReincarnationUndisturbed
