SPECIFICATION Spec
CONSTANTS
  t1 = t1
  t2 = t2
  s1 = s1
  s2 = s2
  Tasks = {t1, t2}
  Scripts = {s1, s2}
  Mails <- Letters
  None = None
  MaxMail = 2
  MaxSeen = 1
  MaxFaults = 3
  FullDisk = FALSE
PROPERTIES
  TasksEnd
