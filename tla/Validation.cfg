SPECIFICATION Spec
CONSTANTS
  a = a  b = b  web = web  p1 = p1  p2 = p2  None = None
  Files = {a, b, web}
  Listed = {a, web}
  Tested = {a, b}
  Patches = {p1, p2}
  Templated = {p1}
  Lang <- MCLang
  Changes <- MCChanges
  Projects <- MCProjects
  Starts <- MCStarts
  Harms <- MCHarms
  MaxFaults = 1
INVARIANTS
  HealthyStaysHealthy
  FixedIsTrue
  HarmlessKept
