SPECIFICATION FairHsSpec
CONSTANT None = None
INVARIANTS HsTypeOK NoDaemonLeft DaemonKeepsDir AnsweredRunSparesForeign
PROPERTIES FailureCleansUp SpawnReturns DeadlineBounds
