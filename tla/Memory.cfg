SPECIFICATION Spec
SYMMETRY RunSymmetry
CONSTANTS
  r1 = r1  r2 = r2  A = A  B = B  ra = ra  rb = rb
  None = None  Torn = Torn
  Runs = {r1, r2}
  Fingerprints = {A, B}
  Sites = {1, 2, 3}
  Gating = {ra, rb}
  Keep = 1
  MaxClock = 1
  MaxEdits = 1
  MaxFaults = 1
  Fp <- MCFp
  Rule <- MCRule
  Entries <- MCEntries
  Starts <- MCStarts
INVARIANTS
  ExemptByDecision
  NewestKept
  SteadyIsUnchanged
