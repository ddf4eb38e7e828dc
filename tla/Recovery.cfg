SPECIFICATION FairSpec
CONSTANTS
  Ids <- MCIds
  Emails <- MCEmails
  OldUsers <- MCOldUsers
  Secrets = {t1, t2}
  Procs = {p1, p2}
  None = None
  u1 = u1
  u2 = u2
  e1 = e1
  e2 = e2
  t1 = t1
  t2 = t2
  p1 = p1
  p2 = p2
  Attempts = 2
  MaxStalled = 1
  Faults = {"smtp", "crash"}
CONSTRAINT InOrder
CHECK_DEADLOCK FALSE
INVARIANTS TypeOK OneAccountPerEmail MailedSecretsKnown SpentSecretsDie ResetByOwnMail
PROPERTIES JobsSettle ImplementsContract
