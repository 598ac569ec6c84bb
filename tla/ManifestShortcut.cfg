\* Retirement, registration and approval as a way out of a suspension.
SPECIFICATION Spec
CONSTANTS
  Accounts = {a1}
  NoAccount = NoAccount
  Tokens = {t1}
  Hashes = {h1, h2}
  Facts = {f1}
  Plans = {q1}
  NoHash = NoHash
  NoPlan = NoPlan
  Delay = 2
  MaxTime = 4
  MaxHistory = 6
PROPERTIES NoEarlyRelease
CHECK_DEADLOCK FALSE
