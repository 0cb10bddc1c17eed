SPECIFICATION Spec
CONSTANTS
  Users = {u1, u2}
  Pollers = {p1}
  Work = 2
  Executions = 2
  Free = Free
INVARIANT OneTrigger
INVARIANT OneCompleter
PROPERTY WaitsForCompletion
PROPERTY ExecutionCompletes
PROPERTY WaiterReturns
