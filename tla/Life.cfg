\* A main interp, two interps that scripts make, beside each other or one in the other,
\* one of them with onExit, the other preserved by an extension; one alias each at a time
\* and five frames on the stack.
CONSTANTS
  Main = Main
  Subs = {s1, s2}
  Recs = {r1, r2}
  None = None
  Asking = {s1}
  Preserved = {s2}
  MaxFrames = 5
SPECIFICATION Spec
INVARIANTS LevelsCount NeverUnderfoot OwnersAgree AliasesAccounted EndsClean
SYMMETRY Symmetry
CHECK_DEADLOCK FALSE
