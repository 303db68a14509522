SPECIFICATION Spec
CONSTANTS
  a1 = a1
  a2 = a2
  Accounts = {a1, a2}
  None = none
  Listings <- MCListings
  Plain <- MCPlain
  Statements <- MCStatements
  Legacy <- MCLegacy
  MaxImports = 3
  MaxEdits = 2
INVARIANTS
  TypeOK
  OneSecurityPerInstrument
  OneInstrumentPerSecurity
  RefusedOnlyIfAmbiguous
PROPERTIES
  EnabledMappingsStay
  MigrationsKeepPositions
CHECK_DEADLOCK FALSE
