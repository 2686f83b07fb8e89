SPECIFICATION OpSpec
CONSTANTS
  NULL = NULL
  pu04984 = pu04984
  pu05071 = pu05071
  none = none
  People = {pu04984, pu05071}
  NoNumbers = {none}
  Admin = pu04984
  Names = {"", "Ivanov", "Petrov"}
  Units = {"OU1", "OU2"}
  Lists <- MCLists
  MaxErrors = 2
  MaxRuns = 3
  MaxFaults = 1
  Dirs = {d1, d2}
  MaxBackup = 3
INVARIANT AppliedOrReported
PROPERTY GivenUpForNewer
