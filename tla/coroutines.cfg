CONSTANTS
  NoOne = NoOne
  Null = Null
  Coros = {a}
  Threads <- MCThreads
  Executors <- MCExecutors
  ExecOf <- MCExecOf
  Known <- MCKnown
  MaxWaits = 3
SPECIFICATION FairSpec
INVARIANTS NoStray SafeAtHome FindsResult
PROPERTY Resumes
