\* Two clients that come back with any request, and wait until the end once
\* they have sent something.
SPECIFICATION FairSpec
CONSTANTS
  Clients   = {c1, c2}
  Requests  <- SomeRequests
  NoRequest = none
  NoClient  = nobody
  Backlog   = 0
  Leaving   = "end"
INVARIANTS
  OneLineEach
PROPERTIES
  Served
