SPECIFICATION Spec
CONSTANTS
  r1 = r1
  r2 = r2
  r3 = r3
  i1 = i1
  i2 = i2
  Requests = {r1, r2, r3}
  Callers = {r1, r2, r3}
  Images = {i1, i2}
  ImagesOf <- MCImagesOf
  Keyless = {r3}
  MaxBytes = 1
  CacheTtl = 2
  Timeout = 1
  MaxTime = 3
INVARIANTS OneDirectory AskedWithEverything ListsAreTrue
CHECK_DEADLOCK FALSE
PROPERTIES RequestsEnd ConnectionsReleased
