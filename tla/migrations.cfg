SPECIFICATION FairSpec
CONSTANTS
  m1 = m1
  m2 = m2
  r1 = r1
  Migrators = {m1, m2}
  Rows = {r1}
  MaxCrashes = 1
  MaxDowngrades <- MCDowngrades
INVARIANTS
  TypeOK
  VersionMatchesSchema
  HeadMatchesModels
PROPERTIES
  FailsOnlyWhenBlocked
  UpgradeEnds
