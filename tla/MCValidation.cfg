SPECIFICATION Spec
CONSTANTS
  Configs <- RequiredConfigs
  Name = {"a", "b"}
  Tests = {t1, t2}
  t1 = t1
  t2 = t2
INVARIANT TypeOK
INVARIANT AcceptedProvesNoRegression
INVARIANT KnownFailuresTolerated
INVARIANT AcceptedSkippedNothing
