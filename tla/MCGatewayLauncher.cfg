SPECIFICATION Spec
CONSTANTS
  s1 = s1
  s2 = s2
  Server = {s1, s2}
  Item = {0, 1, 2}
  Addresses <- MCAddresses
  Malformed = {0}
  Renewed = {1, 2}
  Announced = {s2}
  MaxAnswers = 2
  Gateway = {g1, g2}
  Launcher = launcher
  Half = half
  Absent = absent
  MaxKills = 1
SYMMETRY Symmetry
PROPERTIES StopsOnlyWhenAsked StartMeansBound StoredListSurvives FollowsNewest
