SPECIFICATION Spec
CONSTANTS
  Owner = owner
  Unparkers = {u1, u2, u3}
  NoThread = NoThread
INVARIANTS  SignalsOnValidCond NoLostWakeup
PROPERTIES  ImplementsParkPermit
