SPECIFICATION LogSpec
CONSTANTS
  Absent = Absent
  Junk = Junk
  Refused = Refused
  None = None
  Modules <- TestModules
  Keys = {"tenant", "error_type"}
  Envs <- TestEnvs
  Events <- TestEvents
  Names = {"a.valid.name", "other"}
  Valid = {"a.valid.name"}
INVARIANTS ModuleLevels
