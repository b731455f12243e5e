\* Two registrations and two shutdowns, the configuration changed twice.
SPECIFICATION FairSpec
CONSTANTS
  Registrations = {r1, r2}
  Shutdowns = {d1, d2}
  Endpoints = {"a", "b"}
  Default <- Off
  Env <- On
  MaxChanges = 2
  Nil = Nil
INVARIANTS OnlyRegistrationDrained GuardKeepsProviders
PROPERTIES EveryCallSettles
CHECK_DEADLOCK FALSE
