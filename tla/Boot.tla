-------------------------------- MODULE Boot --------------------------------
(***************************************************************************)
(* The process of a release: it migrates the schema, seeds every table,    *)
(* loads the translations and only then serves (main.go). Nothing but one  *)
(* migration is a transaction, the process may end between any two         *)
(* statements, and it is started again (docker-compose.yml). Releases      *)
(* follow each other on one database. Seeding writes the rows of the       *)
(* release and deletes none; operators edit announcements by hand.         *)
(*                                                                         *)
(* A page asks for the reference data with the ETag of its copy            *)
(* (handleRefData and getRefdata): the ETag is the dataset's version row.  *)
(*                                                                         *)
(* A row is a key and a value, the value standing for all its columns. The *)
(* files of a release are well-formed; a file that is not stops the boot.  *)
(***************************************************************************)
EXTENDS Naturals, Sequences

CONSTANTS
  Releases,    \* the releases, numbered in the order they were made
  Migrations,  \* how many migration files each has: the first so many
  Seed,        \* the rows each seeds, in order
  Keys, Values,
  VersionKey,  \* the row of ref_datasets
  ItemKeys, TextKeys, NoticeKeys,  \* rows of ref_items, translations, announcements
  MaxStops,    \* bound on crashes and deployments
  MaxEdits,    \* bound on edits of announcements
  Nil

Row == [key : Keys, value : Values]

\* The items of a release: what its seed says of the list.
Items(r) == {row \in Row : row.key \in ItemKeys /\ \E i \in DOMAIN Seed[r] : Seed[r][i] = row}

ASSUME BootAssumption ==
  /\ Releases \subseteq Nat
  /\ Migrations \in [Releases -> Nat]
  /\ Seed \in [Releases -> Seq(Row)]
  /\ ItemKeys \cup TextKeys \cup NoticeKeys \subseteq Keys
  /\ VersionKey \in Keys \ ItemKeys
  /\ NoticeKeys \cap (ItemKeys \cup TextKeys \cup {VersionKey}) = {}
  /\ MaxStops \in Nat /\ MaxEdits \in Nat
  /\ Nil \notin Values

\* A release names a row once, and seeds the dataset.
ASSUME SeedsAssumption ==
  \A r \in Releases :
    /\ \A i, j \in DOMAIN Seed[r] : Seed[r][i].key = Seed[r][j].key => i = j
    /\ \E i \in DOMAIN Seed[r] : Seed[r][i].key = VersionKey

\* A release that changes the list gives the dataset a greater version.
ASSUME VersionsAssumption ==
  \A r, s \in Releases : \A i \in DOMAIN Seed[r], j \in DOMAIN Seed[s] :
    (r < s /\ Seed[r][i].key = VersionKey /\ Seed[s][j].key = VersionKey) =>
      /\ Seed[r][i].value \in Nat /\ Seed[s][j].value \in Nat
      /\ \/ Seed[r][i].value < Seed[s][j].value
         \/ Seed[r][i].value = Seed[s][j].value /\ Items(r) = Items(s)

VARIABLES
  release,             \* what is deployed
  pc, at,              \* the process: where it is, and at which file or row
  executed, recorded,  \* how often a migration took effect; schema_migrations
  rows,                \* the seeded tables
  texts,               \* trCache
  call,                \* the version a request for the dataset has read
  cache,               \* the page's copy
  sent,                \* history: versions and lists answered
  edited,              \* history: announcements edited since they were seeded
  rolledBack,          \* history: an older release was deployed
  stops, edits         \* history: how many there were

databaseVars == <<executed, recorded, rows>>
clientVars == <<call, cache, sent>>
historyVars == <<edited, rolledBack, stops, edits>>
vars == <<release, pc, at, databaseVars, texts, clientVars, historyVars>>

Files == UNION {1..Migrations[r] : r \in Releases}
Lists == [ItemKeys -> Values \cup {Nil}]
Copies == [version : Values \cup {Nil}, list : Lists]

TypeOK ==
  /\ release \in Releases
  /\ pc \in {"down", "migrate", "seed", "load", "serving"}
  /\ at \in Nat \ {0}
  /\ executed \in [Files -> Nat]
  /\ recorded \subseteq Files
  /\ rows \in [Keys -> Values \cup {Nil}]
  /\ texts \in [TextKeys -> Values \cup {Nil}]
  /\ call \in Values \cup {Nil}
  /\ cache \in Copies \cup {Nil}
  /\ sent \subseteq Copies
  /\ edited \subseteq NoticeKeys
  /\ rolledBack \in BOOLEAN
  /\ stops \in Nat /\ edits \in Nat

Init ==
  /\ release \in Releases
  /\ pc = "down" /\ at = 1
  /\ executed = [n \in Files |-> 0] /\ recorded = {}
  /\ rows = [k \in Keys |-> Nil]
  /\ texts = [k \in TextKeys |-> Nil]
  /\ call = Nil /\ cache = Nil /\ sent = {}
  /\ edited = {} /\ rolledBack = FALSE
  /\ stops = 0 /\ edits = 0

----------------------------------------------------------------------------
(* The process                                                             *)

Start ==
  /\ pc = "down"
  /\ pc' = "migrate" /\ at' = 1
  /\ UNCHANGED <<release, databaseVars, texts, clientVars, historyVars>>

\* Mutant: the file is recorded after its transaction.
Migrate_RecordsLater ==
  /\ pc = "migrate" /\ at <= Migrations[release]
  /\ IF at \in recorded
       THEN pc' = pc /\ at' = at + 1 /\ UNCHANGED <<executed, recorded, stops>>
       ELSE /\ executed' = [executed EXCEPT ![at] = @ + 1]
            /\ \/ recorded' = recorded \cup {at} /\ pc' = pc /\ at' = at + 1 /\ UNCHANGED stops
               \/ recorded' = recorded /\ pc' = "down" /\ at' = 1 /\ stops < MaxStops /\ stops' = stops + 1
  /\ UNCHANGED <<release, rows, texts, clientVars, edited, rolledBack, edits>>

\* Mutant: a file is executed whether it is recorded or not, and fails when it
\* is.
Migrate_Unchecked ==
  /\ pc = "migrate" /\ at <= Migrations[release]
  /\ IF at \in recorded
       THEN pc' = "down" /\ at' = 1 /\ UNCHANGED <<executed, recorded>>
       ELSE /\ executed' = [executed EXCEPT ![at] = @ + 1]
            /\ recorded' = recorded \cup {at}
            /\ pc' = pc /\ at' = at + 1
  /\ UNCHANGED <<release, rows, texts, clientVars, historyVars>>

\* The next file, unless it is recorded; it and its record are one transaction.
Migrate ==
  /\ pc = "migrate" /\ at <= Migrations[release]
  /\ IF at \in recorded
       THEN UNCHANGED <<executed, recorded>>
       ELSE /\ executed' = [executed EXCEPT ![at] = @ + 1]
            /\ recorded' = recorded \cup {at}
  /\ at' = at + 1
  /\ UNCHANGED <<release, pc, rows, texts, clientVars, historyVars>>

Migrated ==
  /\ pc = "migrate" /\ at > Migrations[release]
  /\ pc' = "seed" /\ at' = 1
  /\ UNCHANGED <<release, databaseVars, texts, clientVars, historyVars>>

\* Mutant: the version row is inserted and never updated.
UpsertRow_KeepsVersion(row) ==
  /\ rows' = [rows EXCEPT ![row.key] = IF row.key = VersionKey /\ @ # Nil THEN @ ELSE row.value]
  /\ edited' = edited \ {row.key}

\* INSERT ... ON CONFLICT DO UPDATE: an edit by hand is overwritten too.
UpsertRow(row) ==
  /\ rows' = [rows EXCEPT ![row.key] = row.value]
  /\ edited' = edited \ {row.key}

\* seed.All: flows, datasets and items, translations, legal documents,
\* announcements, a statement each.
SeedRow ==
  /\ pc = "seed" /\ at \in DOMAIN Seed[release]
  /\ UpsertRow(Seed[release][at])
  /\ at' = at + 1
  /\ UNCHANGED <<release, pc, executed, recorded, texts, clientVars, rolledBack, stops, edits>>

Seeded ==
  /\ pc = "seed" /\ at \notin DOMAIN Seed[release]
  /\ pc' = "load" /\ at' = 1
  /\ UNCHANGED <<release, databaseVars, texts, clientVars, historyVars>>

\* The translations are read once; then the process listens.
LoadTranslations ==
  /\ pc = "load"
  /\ texts' = [k \in TextKeys |-> rows[k]]
  /\ pc' = "serving" /\ at' = 1
  /\ UNCHANGED <<release, databaseVars, clientVars, historyVars>>

\* The process and its requests are gone.
Stop ==
  /\ stops < MaxStops
  /\ stops' = stops + 1
  /\ pc' = "down" /\ at' = 1
  /\ texts' = [k \in TextKeys |-> Nil]
  /\ call' = Nil
  /\ UNCHANGED <<databaseVars, cache, sent, edited, edits>>

\* The process is killed, or a statement fails (log.Fatalf).
Crash ==
  /\ pc # "down"
  /\ Stop
  /\ UNCHANGED <<release, rolledBack>>

Deploy(r) ==
  /\ r # release
  /\ Stop
  /\ release' = r
  /\ rolledBack' = (rolledBack \/ r < release)

\* UPDATE announcements, by hand.
EditAnnouncement(k, v) ==
  /\ edits < MaxEdits
  /\ edits' = edits + 1
  /\ k \in NoticeKeys /\ rows[k] # Nil
  /\ rows' = [rows EXCEPT ![k] = v]
  /\ edited' = edited \cup {k}
  /\ UNCHANGED <<release, pc, at, executed, recorded, texts, clientVars, rolledBack, stops>>

----------------------------------------------------------------------------
(* GET /refdata/{dataset}                                                  *)

GetDatasetVersion ==
  /\ pc = "serving" /\ call = Nil
  /\ rows[VersionKey] # Nil
  /\ call' = rows[VersionKey]
  /\ UNCHANGED <<release, pc, at, databaseVars, texts, cache, sent, historyVars>>

\* The items are read, and sent unless the page's ETag is the version's: then
\* 304, and the page takes its copy.
ListRefItems ==
  /\ call # Nil
  /\ LET copy == [version |-> call, list |-> [k \in ItemKeys |-> rows[k]]]
     IN /\ cache' = IF cache # Nil /\ cache.version = call THEN cache ELSE copy
        /\ sent' = sent \cup {copy}
  /\ call' = Nil
  /\ UNCHANGED <<release, pc, at, databaseVars, texts, historyVars>>

BootStep ==
  Start \/ Migrate \/ Migrated \/ SeedRow \/ Seeded \/ LoadTranslations

Next ==
  \/ BootStep
  \/ Crash
  \/ \E r \in Releases : Deploy(r)
  \/ \E k \in NoticeKeys, v \in Values : EditAnnouncement(k, v)
  \/ GetDatasetVersion \/ ListRefItems

\* restart: unless-stopped, and a process that runs gets on.
Spec == Init /\ [][Next]_vars /\ WF_vars(BootStep)

----------------------------------------------------------------------------
(* Properties                                                              *)

(* No migration takes effect twice, wherever the process was killed; and    *)
(* whatever serves, serves on the whole schema, on every row of its release *)
(* but for announcements edited since, and with the texts of its release.   *)
ServingIsSeeded ==
  /\ \A n \in Files : executed[n] <= 1
  /\ pc = "serving" =>
       /\ \A n \in 1..Migrations[release] : executed[n] = 1
       /\ \A i \in DOMAIN Seed[release] :
            LET row == Seed[release][i]
            IN /\ rows[row.key] = row.value \/ row.key \in edited
               /\ row.key \in TextKeys => texts[row.key] = row.value

(* One ETag means one list, however the boots of successive releases were   *)
(* cut short: so a 304 confirms the list that would be sent.                *)
EtagNamesOneList ==
  ~rolledBack =>
    /\ \A a, b \in sent : a.version = b.version => a.list = b.list
    /\ cache # Nil => cache \in sent

(* Once it is left alone, the last release comes to serve and stays.        *)
SettlesServing == <>[](pc = "serving")
=============================================================================
