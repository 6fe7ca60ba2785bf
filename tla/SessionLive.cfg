CONSTANTS
  Sql = {select, delete}
  ReadSql = {select}
  NoSql = NoSql
  Profiles = {replica}
  ReadOnly = {replica}
  NoProfile = NoProfile
  QueryRetryLimit = 1
  AutoReconnectLimit = 1
  DemoTicks = 1
SPECIFICATION FairSpec
PROPERTIES
  Settles
  ReadOnlyAdmitsNothing
