\* Two jobs over two alerts with one prompt, in every interleaving.
CONSTANTS
  j1 = j1
  j2 = j2
  a1 = a1
  a2 = a2
  k1 = k1
  sqli = sqli
  authz = authz
  Job = {j1, j2}
  Alert = {a1, a2}
  Key = {k1}
  KeyOf <- OneKey
  Type = {sqli, authz}
  Declared <- AllSqli
  Loaded = {sqli, authz}
  SqlTypes = {sqli}
  Requires <- RegistryFacts
  Answers <- FewAnswers
SPECIFICATION Spec
SYMMETRY Symmetric
INVARIANTS
  ConclusiveIsClean
  DeclaredFactsKnown
PROPERTIES
  OnlyConclusiveCached
  ModelSpec
