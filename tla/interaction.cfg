\* Two requests, two workers, two operators. The system may stop for good: the
\* session is deleted, or ended when no worker is left.
CONSTANTS
  NoOne = NoOne
  Requests = {r1, r2}
  Deadlined = {r1}
  Workers = {w1, w2}
  Clients = {c1, c2}
  Answers = {a1, a2}
  Keys = {k1}
  MaxCalls = 2
SPECIFICATION Spec
SYMMETRY InboxSymmetry
CHECK_DEADLOCK FALSE
INVARIANTS
  OneAnswer 
PROPERTIES
  AnswerFenced
