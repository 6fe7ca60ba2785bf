CONSTANTS
  Sql = {select, delete}
  ReadSql = {select}
  NoSql = NoSql
  Profiles = {local, replica}
  ReadOnly = {replica}
  NoProfile = NoProfile
  QueryRetryLimit = 1
  AutoReconnectLimit = 2
  DemoTicks = 1
SPECIFICATION Spec
INVARIANT ReadOnlyBlocksWrites
