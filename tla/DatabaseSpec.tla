---------------------------- MODULE DatabaseSpec ----------------------------
(***************************************************************************)
(* What backup and restore promise of the database: it holds the changes   *)
(* that were committed, a backup is what it held at one moment, and a      *)
(* restore puts one backup in its place, whole, or leaves it alone.        *)
(***************************************************************************)
CONSTANT Requests
VARIABLES data,     \* the changes the database holds
          backups   \* the backups that were taken

Init == data = {} /\ backups = {{}}

\* A request commits its change.
Write(r) ==
  /\ data' = data \cup {r}
  /\ UNCHANGED backups

\* The database is copied to a backup.
Backup ==
  /\ backups' = backups \cup {data}
  /\ UNCHANGED data

\* A backup replaces the database.
Install(b) ==
  /\ b \in backups
  /\ data' = b
  /\ UNCHANGED backups

Next == \/ \E r \in Requests : Write(r)
        \/ Backup
        \/ \E b \in backups : Install(b)

Spec == Init /\ [][Next]_<<data, backups>>
=============================================================================
