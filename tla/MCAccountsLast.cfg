SPECIFICATION Spec
CONSTANTS
  User = {alice, bob}
  Local = admin
  Attempt = {a1, a2}
  Thread = {t1, t2}
  None = None
  MaxConns = 2
SYMMETRY Interchangeable
PROPERTY LastAdminStays
CHECK_DEADLOCK FALSE
