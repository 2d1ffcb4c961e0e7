SPECIFICATION AfterSpec
CONSTANTS
  Unset = Unset HostSet = HostSet b1 = b1 b2 = b2 q1 = q1 q2 = q2 g1 = g1 g2 = g2
  Boxes = {b1, b2} Custom = {b2} Profiles = {q1, q2} Refs = {g1, g2} Starters = {1, 2}
  Drafts <- MCDrafts Drafted <- MCDrafted MaxEdits = 1 MaxRuns = 3 MaxTroubles = 0
PROPERTIES SiblingPluginsStay
