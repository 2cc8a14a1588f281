SPECIFICATION FairRandomSpec
CONSTANTS
  Callers = {t1, t2}
  Length = 2
INVARIANTS
  SecureIsSeeded
  ErrorsHaveCause
PROPERTY CallsReturn
