--------------------------- MODULE SchemaUpgrade ----------------------------
(***************************************************************************)
(* What a server does to the database before it serves: the copy of the    *)
(* file an earlier release kept (core/appdb/engine.py), the tables that    *)
(* are missing and the columns, flags and indexes that the contacts need   *)
(* (core/appdb/sqlite_patch.py, _ensure_schema_upgrades of                 *)
(* core/api/http.py).                                                      *)
(*                                                                         *)
(* SQLite runs each CREATE and ALTER by itself; the UPDATEs that follow    *)
(* them are one transaction with the commit.  A server may be started      *)
(* twice, stop between two statements, or be refused one of them; then it  *)
(* does not serve, and what was done stays.  While a server is up, its     *)
(* requests write contacts, and a restore may put an older file in place.  *)
(***************************************************************************)
EXTENDS Naturals, Sequences

CONSTANTS Servers,    \* processes on one database
          People,     \* ids of contacts
          OlderFiles, \* database files that a server may find or restore
          NoFileYet,  \* no database file, or one without tables
          NoPerson,   \* no such contact
          Null,
          Editors,    \* requests that change a contact
          EditorAt,   \* the server of each
          NoEdit,     \* none under way
          OrgGiven,   \* values of is_org that requests give
          MaxLaunches \* bound on starts

PatchOrder   == <<"is_vendor", "is_org", "role", "contact",
                  "organization_id", "meta">>
UpgradeOrder == <<"role", "kind", "organization_id", "meta", "item_type",
                  "location">>

\* Columns of vendors and items that no first release had.
PatchColumns   == {"is_vendor", "is_org", "role", "contact",
                   "organization_id", "meta"}
UpgradeColumns == {"role", "kind", "organization_id", "meta", "item_type",
                   "location"}

\* Vendor and Item, as create_all makes them: with all of these but kind, and
\* a UNIQUE constraint on the names of contacts.
Declared == (PatchColumns \cup UpgradeColumns) \ {"kind"}

\* A contact; a NULL is_org counts as FALSE, as every reader takes it.
Person == [role : {Null, "contact", "vendor", "both"}, is_vendor : BOOLEAN,
           is_org : BOOLEAN, kind : {Null, "org", "person"}]

\* A contact that a PUT has loaded.
Edit == [id : People, seen : Person]

DatabaseFile ==
  [columns : SUBSET (PatchColumns \cup UpgradeColumns) \ {{}},
   unique : SUBSET {"constraint", "index"},
   people : [People -> Person \cup {NoPerson}]]

ASSUME SchemaAssumption ==
  /\ NoPerson \notin Person /\ NoEdit \notin Edit
  /\ EditorAt \in [Editors -> Servers] /\ OrgGiven \subseteq BOOLEAN
  /\ Null \notin {"contact", "vendor", "both", "org", "person"}
  /\ OlderFiles \subseteq DatabaseFile
  /\ NoFileYet \notin DatabaseFile
  /\ MaxLaunches \in Nat

VARIABLES
  columns,   \* columns that are there; none: no tables
  unique,    \* what makes the names of contacts unique
  people,    \* the rows of vendors
  repoFile,  \* data/app.db of an earlier release, or NoFileYet
  nLaunches,
  boot,      \* per server: how far it has come
  known,     \* per server: columns that it has seen or added
  behind,    \* servers since whose start the file was replaced
  put,       \* per PUT: the row it has loaded
  given,     \* history: contacts whose flags a request has given
  overruled, \* history: those whose is_org a later start has changed
  blended    \* history: those stored by a PUT whose row had changed since
             \* it was loaded

tables     == <<columns, unique, people>>
servers    == <<nLaunches, boot, known>>
inFlight   == <<put, given, overruled, blended>>
schemaVars == <<tables, repoFile, servers, behind, inFlight>>

Running == {s \in Servers : boot[s] # "down"}

Goes(s, from, to) ==
  /\ boot[s] = from
  /\ boot' = [boot EXCEPT ![s] = to]

\* The first column, in the order of the statements, not in k.
NextOf(order, k) ==
  order[CHOOSE i \in DOMAIN order :
          order[i] \notin k /\ \A j \in 1 .. (i - 1) : order[j] \in k]

\* The row of a contact once column c has been added to the table.
Gains(r, c, role) ==
  IF r = NoPerson THEN r
  ELSE [role      |-> IF c = "role" THEN role ELSE r.role,
        is_vendor |-> r.is_vendor /\ c # "is_vendor",
        is_org    |-> r.is_org /\ c # "is_org",
        kind      |-> IF c = "kind" THEN "org" ELSE r.kind]

\* ALTER TABLE ... ADD COLUMN, which fails if the column is there.
AddColumn(c, role) ==
  /\ c \notin columns
  /\ columns' = columns \cup {c}
  /\ people' = [i \in People |-> Gains(people[i], c, role)]

\* The file in place is f from now on, and the servers in late had another one.
Becomes(f, late) ==
  /\ columns' = f.columns /\ unique' = f.unique /\ people' = f.people
  /\ behind' = behind \cup late
  /\ given' = {} /\ blended' = {}
-----------------------------------------------------------------------------
(* A server starts *)

\* The file of an earlier release is going to be copied if there is none.
LaunchServer(s) ==
  /\ \/ columns = {} /\ repoFile # NoFileYet /\ Goes(s, "down", "copy")
     \/ Goes(s, "down", "tables")
  /\ nLaunches < MaxLaunches /\ nLaunches' = nLaunches + 1
  /\ behind' = behind \ {s}
  /\ UNCHANGED <<tables, repoFile, known, inFlight>>

\* By now another server may have made one, which is written over in place.
CopyRepoFile(s) ==
  /\ Goes(s, "copy", "tables") /\ repoFile # NoFileYet
  /\ Becomes(repoFile, Running \ {s})
  /\ UNCHANGED <<repoFile, nLaunches, known, put, overruled>>

\* create_all looks which tables are missing, and creates them.
LookForTables(s) ==
  /\ Goes(s, "tables", IF columns = {} THEN "create" ELSE "look")
  /\ UNCHANGED <<tables, repoFile, nLaunches, known, behind, inFlight>>

CreateTables(s) ==
  /\ Goes(s, "create", "look")
  /\ columns = {}
  /\ columns' = Declared /\ unique' = {"constraint"}
  /\ UNCHANGED <<people, repoFile, nLaunches, known, behind, inFlight>>

\* ensure_vendors_schema reads the columns once.
LookAtColumns(s) ==
  /\ Goes(s, "look", "patch")
  /\ known' = [known EXCEPT ![s] = columns]
  /\ UNCHANGED <<tables, repoFile, nLaunches, behind, inFlight>>

PatchColumn(s) ==
  LET c == NextOf(PatchOrder, known[s])
  IN  /\ Goes(s, "patch", "patch")
      /\ ~(PatchColumns \subseteq known[s])
      /\ AddColumn(c, "contact")
      /\ known' = [known EXCEPT ![s] = @ \cup {c}]
      /\ UNCHANGED <<unique, repoFile, nLaunches, behind, inFlight>>

\* Mutant: is_vendor is left as it is.
OrgsOnly(r, k) ==
  IF r = NoPerson THEN r
  ELSE [r EXCEPT !.role = IF @ = Null THEN "contact" ELSE @,
                 !.is_org = @ \/ ("kind" \in k /\ r.kind = "org")]
\* The flags of a contact follow its role and kind, and a NULL role goes.
Aligned(r, k) ==
  IF r = NoPerson THEN r
  ELSE [r EXCEPT !.role = IF @ = Null THEN "contact" ELSE @,
                 !.is_vendor = @ \/ r.role \in {"vendor", "both"},
                 !.is_org = @ \/ ("kind" \in k /\ r.kind = "org")]

AlignFlags(s) ==
  /\ Goes(s, "patch", "check")
  /\ PatchColumns \subseteq known[s]
  /\ people' = [i \in People |-> Aligned(people[i], known[s])]
  /\ overruled' = overruled \cup {i \in given :
                                 people'[i].is_org # people[i].is_org}
  /\ known' = [known EXCEPT ![s] = {}]
  /\ blended' = {}
  /\ UNCHANGED <<columns, unique, repoFile, nLaunches, behind, put, given>>

\* _ensure_schema_upgrades asks for each column before it adds it.
CheckColumn(s) ==
  LET c == NextOf(UpgradeOrder, known[s])
  IN  /\ ~(UpgradeColumns \subseteq known[s])
      /\ IF c \in columns
         THEN /\ Goes(s, "check", "check")
              /\ known' = [known EXCEPT ![s] = @ \cup {c}]
         ELSE Goes(s, "check", "alter") /\ UNCHANGED known
      /\ UNCHANGED <<tables, repoFile, nLaunches, behind, inFlight>>

UpgradeColumn(s) ==
  LET c == NextOf(UpgradeOrder, known[s])
  IN  /\ Goes(s, "alter", "check")
      /\ ~(UpgradeColumns \subseteq known[s])
      /\ AddColumn(c, "vendor")
      /\ known' = [known EXCEPT ![s] = @ \cup {c}]
      /\ UNCHANGED <<unique, repoFile, nLaunches, behind, inFlight>>

Backfilled(r) ==
  IF r = NoPerson THEN r
  ELSE [r EXCEPT !.role = IF @ = Null THEN "vendor" ELSE @,
                 !.kind = IF @ = Null THEN "org" ELSE @]

\* A unique index on the names is dropped; a constraint cannot be.
Backfill(s) ==
  /\ Goes(s, "check", "up")
  /\ UpgradeColumns \subseteq known[s]
  /\ people' = [i \in People |-> Backfilled(people[i])]
  /\ unique' = unique \ {"index"}
  /\ UNCHANGED <<columns, repoFile, nLaunches, known, behind, inFlight>>

\* It stops, crashes, or a statement fails; its requests end with it.
Stops(s) ==
  /\ boot[s] # "down"
  /\ boot' = [boot EXCEPT ![s] = "down"]
  /\ known' = [known EXCEPT ![s] = {}]
  /\ put' = [e \in Editors |-> IF EditorAt[e] = s THEN NoEdit ELSE put[e]]
  /\ UNCHANGED <<tables, repoFile, nLaunches, behind, given, overruled,
                 blended>>
-----------------------------------------------------------------------------
(* A server is up *)

Reads(s) == boot[s] = "up" /\ Declared \cup {"kind"} \subseteq columns

RoleOf(vendor) == IF vendor THEN "vendor" ELSE "contact"

\* The role follows is_vendor, and kind is left to the default of the column.
PostPerson(s, i, vendor, org) ==
  /\ Reads(s) /\ people[i] = NoPerson
  /\ people' = [people EXCEPT ![i] =
       [role |-> RoleOf(vendor), is_vendor |-> vendor, is_org |-> org,
        kind |-> "org"]]
  /\ given' = given \cup {i} /\ blended' = blended \ {i}
  /\ UNCHANGED <<columns, unique, repoFile, servers, behind, put, overruled>>

PutLoad(e, i) ==
  /\ Reads(EditorAt[e]) /\ people[i] # NoPerson /\ put[e] = NoEdit
  /\ put' = [put EXCEPT ![e] = [id |-> i, seen |-> people[i]]]
  /\ UNCHANGED <<tables, repoFile, servers, behind, given, overruled, blended>>

\* The flush writes the attributes that differ from the row it loaded.
Written(new, seen, now) == IF new = seen THEN now ELSE new

\* The request may leave out is_org.
PutCommit(e, vendor, org) ==
  LET i    == put[e].id
      seen == put[e].seen
      now  == people[i]
  IN  /\ put[e] # NoEdit /\ Declared \cup {"kind"} \subseteq columns
      /\ now # NoPerson
      /\ \E o \in {org, now.is_org} :
           /\ people' = [people EXCEPT ![i] =
                [role      |-> Written(RoleOf(vendor), seen.role, now.role),
                 is_vendor |-> Written(vendor, seen.is_vendor, now.is_vendor),
                 is_org    |-> o, kind |-> now.kind]]
           /\ given' = IF o = org THEN given \cup {i} ELSE given
      /\ put' = [put EXCEPT ![e] = NoEdit]
      /\ blended' = IF now.role = seen.role /\ now.is_vendor = seen.is_vendor
                    THEN blended \ {i} ELSE blended \cup {i}
      /\ UNCHANGED <<columns, unique, repoFile, servers, behind, overruled>>

\* The row is gone, or the database refuses the update.
PutFails(e) ==
  /\ put[e] # NoEdit /\ put' = [put EXCEPT ![e] = NoEdit]
  /\ UNCHANGED <<tables, repoFile, servers, behind, given, overruled, blended>>

DeletePerson(s, i) ==
  /\ Reads(s)
  /\ people' = [people EXCEPT ![i] = NoPerson]
  /\ given' = given \ {i} /\ blended' = blended \ {i}
  /\ UNCHANGED <<columns, unique, repoFile, servers, behind, put, overruled>>

\* A restore asks for a restart, and upgrades nothing.  Requests under way
\* have the file open that it replaces.
PutsBack(s, f) ==
  /\ boot[s] = "up"
  /\ Becomes(f, Running)
  /\ put' = [e \in Editors |-> NoEdit]
  /\ UNCHANGED <<repoFile, servers, overruled>>
-----------------------------------------------------------------------------
SchemaInit ==
  /\ \/ columns = {} /\ unique = {} /\ people = [i \in People |-> NoPerson]
     \/ \E f \in OlderFiles :
          columns = f.columns /\ unique = f.unique /\ people = f.people
  /\ repoFile \in OlderFiles \cup {NoFileYet}
  /\ nLaunches = 0 /\ boot = [s \in Servers |-> "down"]
  /\ known = [s \in Servers |-> {}]
  /\ behind = {} /\ put = [e \in Editors |-> NoEdit]
  /\ given = {} /\ overruled = {} /\ blended = {}

Starting(s) ==
  \/ LaunchServer(s) \/ CopyRepoFile(s) \/ LookForTables(s)
  \/ CreateTables(s) \/ LookAtColumns(s) \/ PatchColumn(s) \/ AlignFlags(s)
  \/ CheckColumn(s) \/ UpgradeColumn(s) \/ Backfill(s) \/ Stops(s)

Serving(s) ==
  \/ \E i \in People, vendor \in BOOLEAN, org \in OrgGiven :
       PostPerson(s, i, vendor, org)
  \/ \E i \in People : DeletePerson(s, i)
  \/ \E f \in OlderFiles : PutsBack(s, f)

Putting(e) ==
  \/ \E i \in People : PutLoad(e, i)
  \/ \E vendor \in BOOLEAN, org \in OrgGiven : PutCommit(e, vendor, org)
  \/ PutFails(e)

SchemaNext ==
  \/ \E s \in Servers : Starting(s) \/ Serving(s)
  \/ \E e \in Editors : Putting(e)

SchemaSpec == SchemaInit /\ [][SchemaNext]_schemaVars
-----------------------------------------------------------------------------
(* Properties *)

\* Type invariant of the tables and the servers.
SchemaTypeOK ==
  /\ columns \subseteq PatchColumns \cup UpgradeColumns
  /\ unique \subseteq {"constraint", "index"}
  /\ people \in [People -> Person \cup {NoPerson}]
  /\ repoFile \in OlderFiles \cup {NoFileYet}
  /\ boot \in [Servers -> {"down", "copy", "tables", "create", "look",
                           "patch", "check", "alter", "up"}]
  /\ known \in [Servers -> SUBSET (PatchColumns \cup UpgradeColumns)]
  /\ nLaunches \in 0 .. MaxLaunches /\ behind \subseteq Servers
  /\ put \in [Editors -> Edit \cup {NoEdit}]
  /\ given \subseteq People /\ overruled \subseteq People
  /\ blended \subseteq People

\* The flags of a contact agree with its role.
Agrees(r) ==
  r # NoPerson =>
    r.role # Null /\ (r.role \in {"vendor", "both"} => r.is_vendor)

\* However starts interleave, with each other and with requests, and wherever
\* they were cut off before: a server that has come up on this file finds every
\* column that its statements name, no unique index on the names of contacts,
\* and contacts whose role and flags agree, but for those that a PUT has stored
\* over what another request had changed since it loaded the row.
ServedUpToDate ==
  \A s \in Servers \ behind :
    boot[s] = "up" =>
      /\ PatchColumns \cup UpgradeColumns \subseteq columns
      /\ \A i \in People \ blended : Agrees(people[i])
      /\ "index" \notin unique

\* "Safe to run multiple times": a start does not undo what a request has
\* stored.  Violated: the first start adds kind with the default 'org', and
\* every later one makes each contact of that kind an organization.
SafeToRunAgain == overruled = {}
=============================================================================
