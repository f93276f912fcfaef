\* SomebodyCanAdminister is violated under Spec.  TakenKeyEnds is violated under
\* FairSpec and holds under ReadingSpec (callers take what they are sent).
SPECIFICATION Spec
\* SPECIFICATION FairSpec
\* SPECIFICATION ReadingSpec
CONSTANTS
  Names = {alice, bob}
  Keys = {k1, k2}
  None = None
  Commands = {c1}
  Sessions = {s1}
INVARIANT SomebodyCanAdminister
\* PROPERTY TakenKeyEnds
CHECK_DEADLOCK FALSE
