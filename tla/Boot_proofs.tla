----------------------------- MODULE Boot_proofs -----------------------------
(***************************************************************************)
(* Proofs about Boot: its type invariant, that what serves is seeded, and  *)
(* that an ETag names one list. The induction follows the boot: what has   *)
(* been executed and seeded so far, and, for every answer given, whether   *)
(* its version is still the release's.                                     *)
(***************************************************************************)
EXTENDS Boot, TLAPS

(* Every variable of the boot keeps its type: main.go's steps touch only    *)
(* files and rows of the release.                                           *)
THEOREM TypeCorrect == Spec => []TypeOK
<1> USE BootAssumption
<1>1. Init => TypeOK
  <2> SUFFICES ASSUME Init PROVE TypeOK
    OBVIOUS
  <2>1. rolledBack \in BOOLEAN
    BY Zenon DEF Init
  <2> QED
    BY <2>1 DEF Init, TypeOK
<1>2. TypeOK /\ [Next]_vars => TypeOK'
  <2> SUFFICES ASSUME TypeOK, [Next]_vars PROVE TypeOK'
    OBVIOUS
  <2> USE DEF TypeOK
  <2>1. CASE Start
    BY <2>1 DEF Start, databaseVars, clientVars, historyVars
  <2>2. CASE Migrate
    <3>1. at \in Files
      BY <2>2 DEF Migrate, Files
    <3>2. at' = at + 1 /\ at' \in Nat \ {0} /\ pc' = pc
      BY <2>2 DEF Migrate
    <3>3. executed' \in [Files -> Nat]
      <4>1. executed' = executed \/ executed' = [executed EXCEPT ![at] = @ + 1]
        BY <2>2 DEF Migrate
      <4>2. executed[at] + 1 \in Nat
        BY <3>1
      <4> QED
        BY <4>1, <4>2
    <3>4. recorded' \subseteq Files
      <4>1. recorded' = recorded \/ recorded' = recorded \cup {at}
        BY <2>2 DEF Migrate
      <4> QED
        BY <4>1, <3>1
    <3>5. UNCHANGED <<release, rows, texts, clientVars, historyVars>>
      BY <2>2 DEF Migrate
    <3> QED
      BY <3>2, <3>3, <3>4, <3>5 DEF clientVars, historyVars
  <2>3. CASE Migrated
    BY <2>3 DEF Migrated, databaseVars, clientVars, historyVars
  <2>4. CASE SeedRow
    <3>1. Seed[release][at] \in Row
      BY <2>4 DEF SeedRow
    <3>2. Seed[release][at].key \in Keys /\ Seed[release][at].value \in Values
      BY <3>1 DEF Row
    <3> QED
      BY <2>4, <3>2 DEF SeedRow, UpsertRow, clientVars
  <2>5. CASE Seeded
    BY <2>5 DEF Seeded, databaseVars, clientVars, historyVars
  <2>6. CASE LoadTranslations
    BY <2>6 DEF LoadTranslations, databaseVars, clientVars, historyVars
  <2>7. CASE Crash
    BY <2>7 DEF Crash, Stop, databaseVars
  <2>8. ASSUME NEW r \in Releases, Deploy(r) PROVE TypeOK'
    BY <2>8 DEF Deploy, Stop, databaseVars
  <2>9. ASSUME NEW k \in NoticeKeys, NEW v \in Values, EditAnnouncement(k, v) PROVE TypeOK'
    BY <2>9 DEF EditAnnouncement, clientVars
  <2>10. CASE GetDatasetVersion
    BY <2>10 DEF GetDatasetVersion, databaseVars, historyVars
  <2>11. CASE ListRefItems
    <3>1. [version |-> call, list |-> [k \in ItemKeys |-> rows[k]]] \in Copies
      BY DEF Copies, Lists
    <3> QED
      BY <2>11, <3>1 DEF ListRefItems, databaseVars, historyVars
  <2>12. CASE UNCHANGED vars
    BY <2>12 DEF vars, databaseVars, clientVars, historyVars
  <2> QED
    BY <2>1, <2>2, <2>3, <2>4, <2>5, <2>6, <2>7, <2>8, <2>9, <2>10, <2>11, <2>12 DEF Next, BootStep
<1> QED
  BY <1>1, <1>2, PTL DEF Spec

----------------------------------------------------------------------------
(* Serving                                                                 *)

RowHolds(i) ==
  \/ rows[Seed[release][i].key] = Seed[release][i].value
  \/ Seed[release][i].key \in edited

\* How far the boot has got.
Migrations_Inv ==
  /\ \A n \in Files : executed[n] = IF n \in recorded THEN 1 ELSE 0
  /\ pc = "migrate" => \A n \in 1..Migrations[release] : n < at => n \in recorded
  /\ pc \in {"seed", "load", "serving"} => 1..Migrations[release] \subseteq recorded

Seed_Inv ==
  /\ pc = "seed" => \A i \in DOMAIN Seed[release] : i < at => RowHolds(i)
  /\ pc \in {"load", "serving"} => \A i \in DOMAIN Seed[release] : RowHolds(i)
  /\ pc = "serving" =>
       \A i \in DOMAIN Seed[release] :
         Seed[release][i].key \in TextKeys => texts[Seed[release][i].key] = Seed[release][i].value

BootInv == Migrations_Inv /\ Seed_Inv

LEMMA MigrationsStep ==
  ASSUME TypeOK, Migrations_Inv, [Next]_vars
  PROVE  Migrations_Inv'
<1> USE BootAssumption DEF TypeOK, Migrations_Inv
<1>1. CASE Start
  BY <1>1 DEF Start, databaseVars
<1>2. CASE Migrate
  <2>1. at \in Files
    BY <1>2 DEF Migrate, Files
  <2> QED
    BY <1>2, <2>1 DEF Migrate
<1>3. CASE Migrated
  BY <1>3 DEF Migrated, databaseVars
<1>4. CASE SeedRow
  BY <1>4 DEF SeedRow
<1>5. CASE Seeded
  BY <1>5 DEF Seeded, databaseVars
<1>6. CASE LoadTranslations
  BY <1>6 DEF LoadTranslations, databaseVars
<1>7. CASE Crash
  BY <1>7 DEF Crash, Stop, databaseVars
<1>8. ASSUME NEW r \in Releases, Deploy(r) PROVE Migrations_Inv'
  BY <1>8 DEF Deploy, Stop, databaseVars
<1>9. ASSUME NEW k \in NoticeKeys, NEW v \in Values, EditAnnouncement(k, v) PROVE Migrations_Inv'
  BY <1>9 DEF EditAnnouncement
<1>10. CASE GetDatasetVersion
  BY <1>10 DEF GetDatasetVersion, databaseVars
<1>11. CASE ListRefItems
  BY <1>11 DEF ListRefItems, databaseVars
<1>12. CASE UNCHANGED vars
  BY <1>12 DEF vars, databaseVars
<1> QED
  BY <1>1, <1>2, <1>3, <1>4, <1>5, <1>6, <1>7, <1>8, <1>9, <1>10, <1>11, <1>12 DEF Next, BootStep

LEMMA SeedStep ==
  ASSUME TypeOK, Seed_Inv, [Next]_vars
  PROVE  Seed_Inv'
<1> USE BootAssumption DEF TypeOK, Seed_Inv, RowHolds
<1>1. CASE Start
  BY <1>1 DEF Start
<1>2. CASE Migrate
  BY <1>2 DEF Migrate
<1>3. CASE Migrated
  BY <1>3 DEF Migrated
<1>4. CASE SeedRow
  <2> DEFINE row == Seed[release][at]
  <2>1. row \in Row /\ release' = release /\ pc = "seed" /\ pc' = "seed" /\ at' = at + 1
    BY <1>4 DEF SeedRow
  <2>2. rows' = [rows EXCEPT ![row.key] = row.value] /\ edited' = edited \ {row.key}
    BY <1>4 DEF SeedRow, UpsertRow
  <2>3. ASSUME NEW i \in DOMAIN Seed[release], i < at + 1 PROVE RowHolds(i)'
    <3>1. Seed[release][i] \in Row
      OBVIOUS
    <3>2. CASE Seed[release][i].key = row.key
      <4>1. i = at
        BY <3>2, <1>4, SeedsAssumption DEF SeedRow
      <4> QED
        BY <4>1, <2>1, <2>2 DEF Row
    <3>3. CASE Seed[release][i].key # row.key
      <4>1. i < at
        BY <3>3, <2>3
      <4> QED
        BY <4>1, <3>1, <3>3, <2>1, <2>2 DEF Row
    <3> QED
      BY <3>2, <3>3
  <2> QED
    BY <2>1, <2>3
<1>5. CASE Seeded
  <2>1. \A i \in DOMAIN Seed[release] : i < at
    BY <1>5 DEF Seeded
  <2> QED
    BY <1>5, <2>1 DEF Seeded, databaseVars, historyVars
<1>6. CASE LoadTranslations
  <2>1. ASSUME NEW i \in DOMAIN Seed[release], Seed[release][i].key \in TextKeys
        PROVE  rows[Seed[release][i].key] = Seed[release][i].value
    BY <1>6, <2>1 DEF LoadTranslations
  <2> QED
    BY <1>6, <2>1 DEF LoadTranslations, databaseVars, historyVars
<1>7. CASE Crash
  BY <1>7 DEF Crash, Stop
<1>8. ASSUME NEW r \in Releases, Deploy(r) PROVE Seed_Inv'
  BY <1>8 DEF Deploy, Stop
<1>9. ASSUME NEW k \in NoticeKeys, NEW v \in Values, EditAnnouncement(k, v) PROVE Seed_Inv'
  <2>1. ASSUME NEW i \in DOMAIN Seed[release] PROVE Seed[release][i].key \in Keys
    <3>1. Seed[release][i] \in Row
      OBVIOUS
    <3> QED
      BY <3>1 DEF Row
  <2> QED
    BY <1>9, <2>1 DEF EditAnnouncement
<1>10. CASE GetDatasetVersion
  BY <1>10 DEF GetDatasetVersion, databaseVars, historyVars
<1>11. CASE ListRefItems
  BY <1>11 DEF ListRefItems, databaseVars, historyVars
<1>12. CASE UNCHANGED vars
  BY <1>12 DEF vars, databaseVars, historyVars
<1> QED
  BY <1>1, <1>2, <1>3, <1>4, <1>5, <1>6, <1>7, <1>8, <1>9, <1>10, <1>11, <1>12 DEF Next, BootStep

LEMMA BootHolds == Spec => []BootInv
<1>1. Init => BootInv
  BY BootAssumption DEF Init, BootInv, Migrations_Inv, Seed_Inv
<1>2. TypeOK /\ BootInv /\ [Next]_vars => BootInv'
  BY MigrationsStep, SeedStep DEF BootInv
<1> QED
  BY <1>1, <1>2, TypeCorrect, PTL DEF Spec

(* A migration takes effect once, and what serves has the whole schema, the *)
(* rows of its release and its texts, wherever earlier boots were killed    *)
(* (dbx.Migrate, seed.All, LoadTranslations).                               *)
THEOREM ServesWhatItSeeds == Spec => []ServingIsSeeded
<1>1. TypeOK /\ BootInv => ServingIsSeeded
  <2> SUFFICES ASSUME TypeOK, BootInv PROVE ServingIsSeeded
    OBVIOUS
  <2>1. \A n \in Files : executed[n] <= 1
    BY DEF BootInv, Migrations_Inv
  <2>2. pc = "serving" => \A n \in 1..Migrations[release] : executed[n] = 1
    BY BootAssumption DEF BootInv, Migrations_Inv, Files, TypeOK
  <2> QED
    BY <2>1, <2>2 DEF ServingIsSeeded, BootInv, Seed_Inv, RowHolds
<1> QED
  BY <1>1, TypeCorrect, BootHolds, PTL

----------------------------------------------------------------------------
(* One list under one ETag                                                 *)

HasVersion(r, v) ==
  \E i \in DOMAIN Seed[r] : Seed[r][i].key = VersionKey /\ Seed[r][i].value = v

CurrentList == [k \in ItemKeys |-> rows[k]]

\* A request under way has read the version the database has.
Call_Inv == call # Nil => pc = "serving" /\ call = rows[VersionKey]

\* An answer is of this release or an earlier one; and while its version is the
\* release's, its list is the one in the database, which seeding only repeats.
AnswerHolds(copy) ==
  /\ \E r \in Releases : r <= release /\ HasVersion(r, copy.version)
  /\ HasVersion(release, copy.version) =>
       /\ copy.list = CurrentList
       /\ \A row \in Items(release) : copy.list[row.key] = row.value

Answers_Inv ==
  ~rolledBack =>
    /\ \A copy \in sent : AnswerHolds(copy)
    /\ \A a, b \in sent : a.version = b.version => a.list = b.list

Cache_Inv == cache # Nil => cache \in sent

EtagInv == Call_Inv /\ Answers_Inv /\ Cache_Inv

LEMMA SeededRow ==
  ASSUME NEW r \in Releases, NEW i \in DOMAIN Seed[r]
  PROVE  Seed[r][i] \in Row /\ Seed[r][i].key \in Keys /\ Seed[r][i].value \in Values
<1>1. Seed[r][i] \in Row
  BY BootAssumption
<1> QED
  BY <1>1 DEF Row

\* A version between two releases that share one is the same, and so is the list.
LEMMA VersionsBetween ==
  ASSUME NEW q \in Releases, NEW r \in Releases, NEW s \in Releases, q <= r, r < s,
         NEW v, HasVersion(q, v), HasVersion(s, v)
  PROVE  HasVersion(r, v) /\ Items(r) = Items(s)
<1> USE BootAssumption
<1>1. PICK i \in DOMAIN Seed[q] : Seed[q][i].key = VersionKey /\ Seed[q][i].value = v
  BY DEF HasVersion
<1>2. PICK k \in DOMAIN Seed[s] : Seed[s][k].key = VersionKey /\ Seed[s][k].value = v
  BY DEF HasVersion
<1>3. PICK j \in DOMAIN Seed[r] : Seed[r][j].key = VersionKey
  BY SeedsAssumption
<1> DEFINE w == Seed[r][j].value
<1>4. w \in Nat /\ v \in Nat /\ (w < v \/ (w = v /\ Items(r) = Items(s)))
  BY <1>2, <1>3, VersionsAssumption
<1>5. v <= w
  <2>1. CASE q = r
    BY <2>1, <1>1, <1>3, <1>4, SeedsAssumption
  <2>2. CASE q < r
    <3>1. Seed[q][i].value < Seed[r][j].value
             \/ (Seed[q][i].value = Seed[r][j].value /\ Items(q) = Items(r))
      BY <2>2, <1>1, <1>3, VersionsAssumption
    <3> HIDE DEF w
    <3> QED
      BY <3>1, <1>1, <1>4 DEF w
  <2> QED
    BY <2>1, <2>2
<1>6. w = v /\ Items(r) = Items(s)
  BY <1>4, <1>5
<1> QED
  BY <1>6, <1>3 DEF HasVersion

LEMMA CallStep ==
  ASSUME TypeOK, Call_Inv, [Next]_vars
  PROVE  Call_Inv'
<1> USE BootAssumption DEF Call_Inv
<1>1. CASE Start
  BY <1>1 DEF Start, databaseVars, clientVars
<1>2. CASE Migrate
  BY <1>2 DEF Migrate, clientVars
<1>3. CASE Migrated
  BY <1>3 DEF Migrated, databaseVars, clientVars
<1>4. CASE SeedRow
  BY <1>4 DEF SeedRow, clientVars
<1>5. CASE Seeded
  BY <1>5 DEF Seeded, databaseVars, clientVars
<1>6. CASE LoadTranslations
  BY <1>6 DEF LoadTranslations, databaseVars, clientVars
<1>7. CASE Crash
  BY <1>7 DEF Crash, Stop
<1>8. ASSUME NEW r \in Releases, Deploy(r) PROVE Call_Inv'
  BY <1>8 DEF Deploy, Stop
<1>9. ASSUME NEW k \in NoticeKeys, NEW v \in Values, EditAnnouncement(k, v) PROVE Call_Inv'
  <2>1. k # VersionKey /\ k \in Keys
    OBVIOUS
  <2> QED
    BY <1>9, <2>1 DEF EditAnnouncement, clientVars, TypeOK
<1>10. CASE GetDatasetVersion
  BY <1>10 DEF GetDatasetVersion, databaseVars
<1>11. CASE ListRefItems
  BY <1>11 DEF ListRefItems, databaseVars
<1>12. CASE UNCHANGED vars
  BY <1>12 DEF vars, databaseVars, clientVars
<1> QED
  BY <1>1, <1>2, <1>3, <1>4, <1>5, <1>6, <1>7, <1>8, <1>9, <1>10, <1>11, <1>12 DEF Next, BootStep

LEMMA SeedRowKeepsAnswers ==
  ASSUME TypeOK, Answers_Inv, SeedRow
  PROVE  Answers_Inv'
<1> USE BootAssumption
<1> DEFINE row == Seed[release][at]
<1>1. at \in DOMAIN Seed[release] /\ release' = release /\ sent' = sent /\ rolledBack' = rolledBack
  BY DEF SeedRow, clientVars
<1>2. rows' = [rows EXCEPT ![row.key] = row.value]
  BY DEF SeedRow, UpsertRow
<1>3. row \in Row /\ row.key \in Keys /\ row.value \in Values
  BY <1>1, SeededRow DEF TypeOK
<1> SUFFICES ASSUME ~rolledBack, NEW copy \in sent PROVE AnswerHolds(copy)'
  BY <1>1 DEF Answers_Inv
<1>4. AnswerHolds(copy)
  BY DEF Answers_Inv
<1>5. ASSUME HasVersion(release, copy.version) PROVE CurrentList' = CurrentList
  <2>1. copy.list = CurrentList /\ \A item \in Items(release) : copy.list[item.key] = item.value
    BY <1>4, <1>5 DEF AnswerHolds
  <2>2. CASE row.key \in ItemKeys
    <3>1. row \in Items(release)
      BY <2>2, <1>1, <1>3 DEF Items
    <3>2. rows[row.key] = row.value
      BY <3>1, <2>1, <2>2 DEF CurrentList
    <3>3. rows' = rows
      BY <3>2, <1>2, <1>3 DEF TypeOK
    <3> QED
      BY <3>3 DEF CurrentList
  <2>3. CASE row.key \notin ItemKeys
    <3>1. \A k \in ItemKeys : rows'[k] = rows[k]
      BY <2>3, <1>2 DEF TypeOK
    <3> QED
      BY <3>1 DEF CurrentList
  <2> QED
    BY <2>2, <2>3
<1> QED
  BY <1>1, <1>4, <1>5 DEF AnswerHolds, HasVersion, Items

LEMMA DeployKeepsAnswers ==
  ASSUME TypeOK, Answers_Inv, NEW r \in Releases, Deploy(r)
  PROVE  Answers_Inv'
<1> USE BootAssumption
<1>1. /\ release' = r /\ rows' = rows /\ sent' = sent
      /\ rolledBack' = (rolledBack \/ r < release) /\ r # release
  BY DEF Deploy, Stop, databaseVars
<1>2. release \in Releases
  BY DEF TypeOK
<1> SUFFICES ASSUME ~rolledBack' PROVE Answers_Inv'
  BY DEF Answers_Inv
<1>3. ~rolledBack /\ release < r
  <2>1. ~rolledBack /\ ~(r < release)
    BY <1>1 DEF TypeOK
  <2>2. r \in Nat /\ release \in Nat /\ r # release
    BY <1>1, <1>2
  <2> QED
    BY <2>1, <2>2
<1> SUFFICES ASSUME NEW copy \in sent PROVE AnswerHolds(copy)'
  BY <1>1, <1>3 DEF Answers_Inv
<1>4. AnswerHolds(copy)
  BY <1>3 DEF Answers_Inv
<1>5. PICK q \in Releases : q <= release /\ HasVersion(q, copy.version)
  BY <1>4 DEF AnswerHolds
<1>6. q <= r
  BY <1>2, <1>3, <1>5
<1>7. ASSUME HasVersion(r, copy.version)
      PROVE  /\ copy.list = CurrentList
             /\ \A row \in Items(r) : copy.list[row.key] = row.value
  <2>1. HasVersion(release, copy.version) /\ Items(release) = Items(r)
    BY <1>2, <1>3, <1>5, <1>7, VersionsBetween
  <2> QED
    BY <2>1, <1>4 DEF AnswerHolds
<1>8. CurrentList' = CurrentList
  BY <1>1 DEF CurrentList
<1>9. \E s \in Releases : s <= r /\ HasVersion(s, copy.version)
  BY <1>5, <1>6
<1> QED
  BY <1>1, <1>7, <1>8, <1>9 DEF AnswerHolds, HasVersion, Items

LEMMA AnswerIsSeeded ==
  ASSUME TypeOK, Seed_Inv, Call_Inv, call # Nil
  PROVE  /\ HasVersion(release, call)
         /\ \A row \in Items(release) : rows[row.key] = row.value
<1> USE BootAssumption
<1>1. pc = "serving" /\ call = rows[VersionKey]
  BY DEF Call_Inv
<1>2. ASSUME NEW i \in DOMAIN Seed[release], Seed[release][i].key \notin NoticeKeys
      PROVE  rows[Seed[release][i].key] = Seed[release][i].value
  BY <1>1, <1>2 DEF Seed_Inv, RowHolds, TypeOK
<1>3. HasVersion(release, call)
  <2>1. PICK i \in DOMAIN Seed[release] : Seed[release][i].key = VersionKey
    BY SeedsAssumption DEF TypeOK
  <2>2. Seed[release][i].value = call
    BY <1>1, <1>2, <2>1
  <2> QED
    BY <2>1, <2>2 DEF HasVersion
<1>4. ASSUME NEW row \in Items(release) PROVE rows[row.key] = row.value
  <2>1. row.key \in ItemKeys /\ \E i \in DOMAIN Seed[release] : Seed[release][i] = row
    BY DEF Items
  <2>2. row.key \notin NoticeKeys
    BY <2>1
  <2> QED
    BY <1>2, <2>1, <2>2
<1> QED
  BY <1>3, <1>4

LEMMA AnswerKeepsAnswers ==
  ASSUME TypeOK, Seed_Inv, Call_Inv, Answers_Inv, ListRefItems
  PROVE  Answers_Inv'
<1> DEFINE new == [version |-> call, list |-> CurrentList]
<1>1. call # Nil /\ release' = release /\ rows' = rows /\ rolledBack' = rolledBack /\ sent' = sent \cup {new}
  BY DEF ListRefItems, CurrentList, databaseVars, historyVars
<1> HIDE DEF new
<1>2. new.version = call /\ new.list = CurrentList
  BY DEF new
<1>3. HasVersion(release, call) /\ \A row \in Items(release) : rows[row.key] = row.value
  BY <1>1, AnswerIsSeeded
<1>4. AnswerHolds(new)
  <2>1. \A row \in Items(release) : new.list[row.key] = row.value
    BY <1>2, <1>3 DEF CurrentList, Items
  <2>2. release <= release /\ release \in Releases
    BY BootAssumption DEF TypeOK
  <2> QED
    BY <1>2, <1>3, <2>1, <2>2 DEF AnswerHolds
<1> SUFFICES ASSUME ~rolledBack PROVE Answers_Inv'
  BY <1>1 DEF Answers_Inv
<1>5. \A copy \in sent' : AnswerHolds(copy)
  BY <1>1, <1>4 DEF Answers_Inv
<1>6. \A copy \in sent : copy.version = new.version => copy.list = new.list
  BY <1>2, <1>3, <1>5, <1>1 DEF AnswerHolds
<1>7. \A a, b \in sent' : a.version = b.version => a.list = b.list
  BY <1>1, <1>6 DEF Answers_Inv
<1>8. \A copy \in sent' : AnswerHolds(copy)'
  BY <1>1, <1>5 DEF AnswerHolds, HasVersion, Items, CurrentList
<1> QED
  BY <1>7, <1>8 DEF Answers_Inv

LEMMA AnswersStep ==
  ASSUME TypeOK, Seed_Inv, Call_Inv, Answers_Inv, [Next]_vars
  PROVE  Answers_Inv'
<1> USE DEF Answers_Inv, AnswerHolds, HasVersion, Items, CurrentList
<1>1. CASE Start
  BY <1>1 DEF Start, databaseVars, clientVars, historyVars
<1>2. CASE Migrate
  BY <1>2 DEF Migrate, clientVars, historyVars
<1>3. CASE Migrated
  BY <1>3 DEF Migrated, databaseVars, clientVars, historyVars
<1>4. CASE SeedRow
  BY <1>4, SeedRowKeepsAnswers
<1>5. CASE Seeded
  BY <1>5 DEF Seeded, databaseVars, clientVars, historyVars
<1>6. CASE LoadTranslations
  BY <1>6 DEF LoadTranslations, databaseVars, clientVars, historyVars
<1>7. CASE Crash
  BY <1>7 DEF Crash, Stop, databaseVars
<1>8. ASSUME NEW r \in Releases, Deploy(r) PROVE Answers_Inv'
  BY <1>8, DeployKeepsAnswers
<1>9. ASSUME NEW k \in NoticeKeys, NEW v \in Values, EditAnnouncement(k, v) PROVE Answers_Inv'
  <2>1. \A item \in ItemKeys : rows'[item] = rows[item]
    BY <1>9, BootAssumption DEF EditAnnouncement, TypeOK
  <2>2. CurrentList' = CurrentList
    BY <2>1
  <2>3. release' = release /\ sent' = sent /\ rolledBack' = rolledBack
    BY <1>9 DEF EditAnnouncement, clientVars
  <2> QED
    BY <2>2, <2>3
<1>10. CASE GetDatasetVersion
  BY <1>10 DEF GetDatasetVersion, databaseVars, historyVars
<1>11. CASE ListRefItems
  BY <1>11, AnswerKeepsAnswers
<1>12. CASE UNCHANGED vars
  BY <1>12 DEF vars, databaseVars, clientVars, historyVars
<1> QED
  BY <1>1, <1>2, <1>3, <1>4, <1>5, <1>6, <1>7, <1>8, <1>9, <1>10, <1>11, <1>12 DEF Next, BootStep

LEMMA CacheStep ==
  ASSUME Cache_Inv, [Next]_vars
  PROVE  Cache_Inv'
<1>1. CASE ListRefItems
  BY <1>1 DEF ListRefItems, Cache_Inv
<1>2. CASE UNCHANGED <<cache, sent>>
  BY <1>2 DEF Cache_Inv
<1> QED
  BY <1>1, <1>2 DEF Next, BootStep, Start, Migrate, Migrated, SeedRow, Seeded, LoadTranslations, Crash, Stop,
                    Deploy, EditAnnouncement, GetDatasetVersion, vars, clientVars

(* One ETag means one list, for any sequence of releases whose versions are *)
(* as the seed's are, and however their boots were cut short                *)
(* (GetDatasetVersion before ListRefItems, seed.RefData).                   *)
THEOREM EtagsAreSound == Spec => []EtagNamesOneList
<1>1. Init => EtagInv
  BY DEF Init, EtagInv, Call_Inv, Answers_Inv, Cache_Inv
<1>2. TypeOK /\ BootInv /\ EtagInv /\ [Next]_vars => EtagInv'
  BY CallStep, AnswersStep, CacheStep DEF EtagInv, BootInv
<1>3. EtagInv => EtagNamesOneList
  BY DEF EtagInv, Answers_Inv, Cache_Inv, EtagNamesOneList
<1> QED
  BY <1>1, <1>2, <1>3, TypeCorrect, BootHolds, PTL DEF Spec
=============================================================================
