SPECIFICATION QuestionsSpec
CONSTANTS
  w1 = w1
  p1 = p1
  p2 = p2
  Null = Null
  Worker = {w1}
  Price = {p1, p2}
  MaxVersions = 2
INVARIANT BadgeAgrees
