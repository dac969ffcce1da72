\* Two clients that may leave once they have read something, as
\* test/test_set_framerate.py does.
SPECIFICATION Spec
CONSTANTS
  Clients   = {c1, c2}
  Requests  <- SomeRequests
  NoRequest = none
  NoClient  = nobody
  Backlog   = 0
  Leaving   = "answer"
INVARIANTS
  DaemonSurvives
