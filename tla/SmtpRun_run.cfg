\* Requests, resumes and a restart of one run, with everything that may go wrong.
SPECIFICATION Spec
CONSTANTS
  a1 = a1  a2 = a2
  Accounts = {a1, a2}
  NoAccount = NoAccount
  Faults = {"refuse", "timeout", "unread", "lost", "preexisting"}
  MaxStarts = 4
  MaxCrashes = 2
SYMMETRY Symmetric
INVARIANTS TypeOK OneServer NoneBeside AccountRemembered RollbackOnlyOwn
CHECK_DEADLOCK FALSE
