SPECIFICATION Spec
CONSTANTS
  Configs <- AdvisoryConfigs
  Name = {"a", "b"}
  Tests = {t1, t2}
  t1 = t1
  t2 = t2
INVARIANT AdvisoryNeverAccepts
