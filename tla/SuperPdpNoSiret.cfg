\* One provisioning sweep over a company that has not typed its siret yet.
SPECIFICATION Spec
CONSTANTS
  Requests = {}
  w1 = w1
  Sweeps = {w1}
  p1 = p1
  p2 = p2
  Pairs = {p1, p2}
  NoPair = NoPair
  NoCaller = NoCaller
INVARIANT RegisteredOnlyOnceDone
