\* Three releases on one database, four stops, one edit by hand.
SPECIFICATION Spec
CONSTANTS
  Releases <- MCReleases
  Migrations <- MCMigrations
  Seed <- MCSeed
  Keys <- MCKeys
  Values <- MCValues
  VersionKey = "version"
  ItemKeys <- MCItemKeys
  TextKeys <- MCTextKeys
  NoticeKeys <- MCNoticeKeys
  MaxStops = 4
  MaxEdits = 1
  Nil = Nil
INVARIANTS
  ServingIsSeeded
  EtagNamesOneList
PROPERTIES
  SettlesServing
