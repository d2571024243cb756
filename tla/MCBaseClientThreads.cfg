\* One caller, which never has more than one call under way.
CONSTANTS
  Callers = {caller}
  caller = caller
  MaxCalls = 3
SPECIFICATION Spec
INVARIANT NoTableRace
CHECK_DEADLOCK FALSE
