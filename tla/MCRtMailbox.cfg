SPECIFICATION FairSpec
CONSTANTS
  t1 = t1
  t2 = t2
  t3 = t3
  m1 = m1
  m2 = m2
  NoMail = NoMail
  Threads <- MCThreads
  Mails <- MCMails
  Size = 2
INVARIANTS TypeOK NoLostWakeup
PROPERTIES RefinesFifo MailMoves
CHECK_DEADLOCK FALSE
