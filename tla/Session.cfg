CONSTANTS
  Sql = {select, delete}
  ReadSql = {select}
  NoSql = NoSql
  Profiles = {local}
  ReadOnly = {}
  NoProfile = NoProfile
  QueryRetryLimit = 1
  AutoReconnectLimit = 2
  DemoTicks = 0
SPECIFICATION Spec
INVARIANTS
  TypeOK
  RiskyStatementsConsented
  OutcomeMatchesInflight
  AuditExact
  OneExecutionAtATime
  ParkedStatementHasReconnect
  QueryPanelOverIdle
PROPERTY CancelIsFinal
