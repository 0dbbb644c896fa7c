\* Two requests and a provisioning sweep over a connection that is refreshed,
\* severed and given again: three token pairs.
SPECIFICATION Spec
CONSTANTS
  c1 = c1
  c2 = c2
  Requests = {c1, c2}
  w1 = w1
  Sweeps = {w1}
  p1 = p1
  p2 = p2
  p3 = p3
  Pairs = {p1, p2, p3}
  NoPair = NoPair
  NoCaller = NoCaller
SYMMETRY Symmetry
INVARIANTS
  TypeOK
  SeveredStaysSevered
  ConnectionSurvives
  OneRefreshAtATime
