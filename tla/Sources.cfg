SPECIFICATION FairSpec
CONSTANTS
  f = f  g = g  p = p  q = q  x = x  y = y  r1 = r1  r2 = r2  s = s  a = a
  User = User  Gone = Gone  NoRec = NoRec
  Files = {f}
  Profiles = {p, q}
  Declares <- OneEach
  Values = {x, y}
  Usable <- TwoOfP
  Encrypted = {}
  Remotes = {"bundle", "git"}
  Renders = {r1}
  Syncs = {s}
  Applies = {a}
  MaxOps = 3
  MaxFailures = 1
INVARIANTS TypeOK RenderSettles
PROPERTIES OwnersKept RenderingPrevails HooksCatchUp
CHECK_DEADLOCK FALSE
