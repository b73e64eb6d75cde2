SPECIFICATION ManifestSpec
CONSTANTS
  Processes = {p1, p2}
  NoOne = NoOne
CHECK_DEADLOCK FALSE
PROPERTY EveryUpsertEnds
