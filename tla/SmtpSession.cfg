SPECIFICATION InboundSpec
CONSTANTS
  a = a
  alias = alias
  b = b
  postmaster = postmaster
  A = A
  B = B
  Local = {a, alias, b, postmaster}
  Remote = {r}
  Boxes = {A, B}
  Direct <- Rows
  Alias <- Aliases
  CatchAll = B
  HeloRequired = TRUE
  RequireTls = TRUE
  RequireAuth = TRUE
  Delay = 2
  Verdicts <- SomeVerdicts
  MaxLookups = 3
  MaxDepth = 20
  MaxSignatures = 8
  TwoLabelSuffixes <- Suffixes
INVARIANTS EnvelopeIsHeard NoRelayUnproven CopiesAsSaid InboundIsFair
