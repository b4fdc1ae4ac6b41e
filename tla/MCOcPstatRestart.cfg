SPECIFICATION FairSpec
CONSTANTS
  Client = {c1, c2}
PROPERTIES ResetSurvivesRestart
