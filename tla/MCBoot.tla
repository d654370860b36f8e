-------------------------------- MODULE MCBoot --------------------------------
(* Three releases: the second changes a text and adds a flow version, the  *)
(* third changes an item, drops another and adds a migration.              *)
EXTENDS Boot

MCReleases == 1..3
MCMigrations == <<1, 1, 2>>
MCKeys == {"flow14", "flow15", "version", "jakarta", "bandung", "text", "notice"}
MCValues == 1..2
SeedRows(pairs) == [i \in DOMAIN pairs |-> [key |-> pairs[i][1], value |-> pairs[i][2]]]
MCSeed == <<
  SeedRows(<< <<"flow14", 1>>, <<"version", 1>>, <<"jakarta", 1>>, <<"bandung", 1>>, <<"text", 1>>, <<"notice", 1>> >>),
  SeedRows(<< <<"flow14", 1>>, <<"flow15", 1>>, <<"version", 1>>, <<"jakarta", 1>>, <<"bandung", 1>>, <<"text", 2>>, <<"notice", 1>> >>),
  SeedRows(<< <<"flow15", 1>>, <<"version", 2>>, <<"jakarta", 2>>, <<"text", 2>>, <<"notice", 1>> >>) >>
MCItemKeys == {"jakarta", "bandung"}
MCTextKeys == {"text"}
MCNoticeKeys == {"notice"}
=============================================================================
