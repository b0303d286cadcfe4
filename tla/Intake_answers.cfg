\* All requests with at most two faults, through containers with any past.
SPECIFICATION Spec
CONSTANTS
  v2 = v2
  v3 = v3
  Local = Local
  Blank = Blank
  None = None
  Versions = {v2, v3}
  Bodies <- Requests
  Window = 1
  MaxTime = 4
INVARIANTS
  TypeOK
  AcceptedIsSound
  FaultlessIsNotBlamed
