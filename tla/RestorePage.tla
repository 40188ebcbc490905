---------------------------- MODULE RestorePage -----------------------------
(***************************************************************************)
(* The page for backup and restore (core/ui/js/cards/admin.js), and the    *)
(* encrypted files under exports that it makes, uploads, previews and      *)
(* restores (core/utils/export.py, core/backup/crypto.py).                 *)
(*                                                                         *)
(* A preview uploads the chosen file, if there is one, asks the server     *)
(* what is in it, and remembers the path.  A restore is sent with the path *)
(* remembered last, after it has waited for the token.  Nothing keeps the  *)
(* user from clicking on meanwhile.  The name of a file has the second it  *)
(* was written in: a second one of the same name takes its place.  What a  *)
(* restore does to the database is in Restore.                             *)
(***************************************************************************)
EXTENDS Naturals

CONSTANTS Uploads,   \* files the user may choose, by what is in them
          UploadName, \* their names
          Passwords,
          UploadKey, \* what each of them is encrypted with
          NoPath, NoUpload, NoBackup,
          Hidden,    \* the box with the preview is not shown
          Previews, Restores, \* clicks on the two buttons
          Seconds,
          MaxExports \* bound on exports

ExportPath(t)    == [kind |-> "export", at |-> t, name |-> NoUpload]
UploadPath(t, n) == [kind |-> "upload", at |-> t, name |-> n]

BackupNames == {UploadName[u] : u \in Uploads}
BackupPaths == {ExportPath(t) : t \in Seconds}
                 \cup {UploadPath(t, n) : t \in Seconds, n \in BackupNames}

\* The database as it is exported, by the number of the export, or an upload.
BackupContents == Uploads \cup 1 .. MaxExports

ASSUME RestorePageAssumption ==
  /\ MaxExports \in Nat
  /\ UploadKey \in [Uploads -> Passwords]
  /\ NoPath \notin BackupPaths
  /\ NoUpload \notin Uploads
  /\ NoBackup \notin [what : BackupContents, key : Passwords]
  /\ Hidden \notin [path : BackupPaths, what : BackupContents]

VARIABLES
  backups,   \* the files under exports
  nExports,
  lastPreviewPath,
  box,       \* the preview on screen, or Hidden
  preview,   \* per click: where it is, its file, its path, what the server read
  commits,   \* per click: where it is, its path, what the server read; history:
             \* the box when it was clicked, forgotten if the page remembers
             \* another path before the request is sent
  pathByPill, \* history: the path was remembered for a click in the list
  previewed, \* history: previews that have been shown
  rewritten  \* history: paths that have been written twice

backupPage      == <<lastPreviewPath, box>>
storedFiles     == <<backups, rewritten>>
restorePageVars == <<storedFiles, nExports, backupPage, preview, commits,
                     pathByPill, previewed>>

NoPreview == [at |-> "idle", file |-> NoUpload, path |-> NoPath,
              what |-> NoUpload]
NoRestore == [at |-> "idle", path |-> NoPath, what |-> NoUpload,
              seen |-> Hidden]

Encrypted(c, w) == [what |-> c, key |-> w]

\* A file that is there and that the password opens.
Opens(p, w) == p \in BackupPaths /\ backups[p] # NoBackup /\ backups[p].key = w

\* A temporary file takes the place of the one that has the name.
TakesPlace(p, file) ==
  /\ backups' = [backups EXCEPT ![p] = file]
  /\ rewritten' = IF backups[p] = NoBackup THEN rewritten
                  ELSE rewritten \cup {p}

\* Restores that still wait for their token, when the page changes.
Turned == [r \in Restores |->
             IF commits[r].at = "token"
             THEN [commits[r] EXCEPT !.seen = Hidden] ELSE commits[r]]
-----------------------------------------------------------------------------
(* The files *)

\* The second of the clock, which may be set back.
ExportDb(t, w) ==
  /\ nExports < MaxExports /\ nExports' = nExports + 1
  /\ TakesPlace(ExportPath(t), Encrypted(nExports + 1, w))
  /\ UNCHANGED <<backupPage, preview, commits, pathByPill, previewed>>

\* A click in the list of files is as good as a preview.
ClickPill(p) ==
  /\ backups[p] # NoBackup
  /\ lastPreviewPath' = p
  /\ pathByPill' = TRUE /\ commits' = Turned
  /\ UNCHANGED <<storedFiles, nExports, box, preview, previewed>>
-----------------------------------------------------------------------------
(* A preview *)

\* With a file or a path: the user may choose and type whatever there is.
ClickPreview(k, u, p) ==
  /\ preview[k].at = "idle"
  /\ box' = Hidden
  /\ preview' = [preview EXCEPT ![k] =
       IF u # NoUpload THEN [NoPreview EXCEPT !.at = "upload", !.file = u]
       ELSE IF p # NoPath THEN [NoPreview EXCEPT !.at = "ask", !.path = p]
       ELSE NoPreview]
  /\ UNCHANGED <<storedFiles, nExports, lastPreviewPath, commits, pathByPill,
                 previewed>>

StageUpload(k, t) ==
  LET u == preview[k].file
      p == UploadPath(t, UploadName[u])
  IN  /\ preview[k].at = "upload"
      /\ TakesPlace(p, Encrypted(u, UploadKey[u]))
      /\ preview' = [preview EXCEPT ![k] =
                       [NoPreview EXCEPT !.at = "ask", !.path = p]]
      /\ UNCHANGED <<nExports, backupPage, commits, pathByPill, previewed>>

ImportPreview(k, w) ==
  /\ preview[k].at = "ask" /\ Opens(preview[k].path, w)
  /\ preview' = [preview EXCEPT ![k].at = "read",
                                ![k].what = backups[preview[k].path].what]
  /\ UNCHANGED <<storedFiles, nExports, backupPage, commits, pathByPill,
                 previewed>>

PreviewAnswered(k) ==
  LET shown == [path |-> preview[k].path, what |-> preview[k].what]
  IN  /\ preview[k].at = "read"
      /\ lastPreviewPath' = shown.path /\ box' = shown
      /\ previewed' = previewed \cup {shown}
      /\ pathByPill' = FALSE /\ commits' = Turned
      /\ preview' = [preview EXCEPT ![k] = NoPreview]
      /\ UNCHANGED <<storedFiles, nExports>>

\* Mutant: the path is remembered all the same.
FailsAndRemembers(k) ==
  /\ preview[k].at # "idle"
  /\ lastPreviewPath' = preview[k].path
  /\ preview' = [preview EXCEPT ![k] = NoPreview]
  /\ UNCHANGED <<storedFiles, nExports, box, commits, pathByPill, previewed>>
\* No token, no file, a wrong password, no answer: what is remembered stays.
PreviewFails(k) ==
  /\ preview[k].at # "idle"
  /\ preview' = [preview EXCEPT ![k] = NoPreview]
  /\ UNCHANGED <<storedFiles, nExports, backupPage, commits, pathByPill,
                 previewed>>
-----------------------------------------------------------------------------
(* A restore *)

ClickCommit(r) ==
  /\ commits[r].at = "idle" /\ lastPreviewPath # NoPath
  /\ commits' = [commits EXCEPT ![r] =
                     [NoRestore EXCEPT !.at = "token", !.seen = box]]
  /\ UNCHANGED <<storedFiles, nExports, backupPage, preview, pathByPill,
                 previewed>>

\* The path is read now; "blind" if it is not that of a preview.
SendCommit(r) ==
  /\ commits[r].at = "token"
  /\ commits' = [commits EXCEPT ![r].path = lastPreviewPath,
        ![r].at = IF pathByPill THEN "blind" ELSE "sent"]
  /\ UNCHANGED <<storedFiles, nExports, backupPage, preview, pathByPill,
                 previewed>>

\* The server reads the file again, and starts to restore what it reads.
ImportCommit(r, w) ==
  /\ commits[r].at \in {"sent", "blind"} /\ Opens(commits[r].path, w)
  /\ commits' = [commits EXCEPT
        ![r].what = backups[commits[r].path].what,
        ![r].at = IF @ = "sent" THEN "restored" ELSE "restored blind"]
  /\ UNCHANGED <<storedFiles, nExports, backupPage, preview, pathByPill,
                 previewed>>

\* It has been answered, or it fails.
CommitEnds(r) ==
  /\ commits[r].at # "idle"
  /\ commits' = [commits EXCEPT ![r] = NoRestore]
  /\ UNCHANGED <<storedFiles, nExports, backupPage, preview, pathByPill,
                 previewed>>
-----------------------------------------------------------------------------
RestorePageInit ==
  /\ nExports = 0
  /\ backups = [p \in BackupPaths |-> NoBackup] /\ rewritten = {}
  /\ lastPreviewPath = NoPath /\ box = Hidden
  /\ preview = [k \in Previews |-> NoPreview]
  /\ commits = [r \in Restores |-> NoRestore]
  /\ pathByPill = FALSE /\ previewed = {}

RestorePageNext ==
  \/ \E p \in BackupPaths : ClickPill(p)
  \/ \E w \in Passwords :
       \/ \E t \in Seconds : ExportDb(t, w)
       \/ \E k \in Previews : ImportPreview(k, w)
       \/ \E r \in Restores : ImportCommit(r, w)
  \/ \E k \in Previews :
       \/ \E u \in Uploads \cup {NoUpload}, p \in BackupPaths \cup {NoPath} :
            ClickPreview(k, u, p)
       \/ \E t \in Seconds : StageUpload(k, t)
       \/ PreviewAnswered(k) \/ PreviewFails(k)
  \/ \E r \in Restores : ClickCommit(r) \/ SendCommit(r) \/ CommitEnds(r)

RestorePageSpec == RestorePageInit /\ [][RestorePageNext]_restorePageVars
-----------------------------------------------------------------------------
(* Properties *)

\* Type invariant of the page, its requests and the files.
RestorePageTypeOK ==
  /\ nExports \in 0 .. MaxExports
  /\ backups \in [BackupPaths ->
                    [what : BackupContents, key : Passwords] \cup {NoBackup}]
  /\ lastPreviewPath \in BackupPaths \cup {NoPath}
  /\ box \in [path : BackupPaths, what : BackupContents] \cup {Hidden}
  /\ preview \in [Previews ->
       [at : {"idle", "upload", "ask", "read"},
        file : Uploads \cup {NoUpload}, path : BackupPaths \cup {NoPath},
        what : BackupContents \cup {NoUpload}]]
  /\ commits \in [Restores ->
       [at : {"idle", "token", "sent", "blind", "restored", "restored blind"},
        path : BackupPaths \cup {NoPath}, what : BackupContents \cup {NoUpload},
        seen : [path : BackupPaths, what : BackupContents] \cup {Hidden}]]
  /\ pathByPill \in BOOLEAN /\ rewritten \subseteq BackupPaths
  /\ previewed \subseteq [path : BackupPaths, what : BackupContents]

\* However previews, uploads, exports and clicks overlap: what the server
\* restores for a path that a preview gave is what a preview of that path has
\* shown, and what was in the box when the user confirmed, if a box was there
\* and nothing else was remembered before the request was sent.  Only two
\* files of one name and one second may take each other's place.
RestoresWhatIsShown ==
  \A r \in Restores :
    LET c == commits[r]
    IN  c.at = "restored" /\ c.path \notin rewritten =>
          /\ [path |-> c.path, what |-> c.what] \in previewed
          /\ c.seen # Hidden => c.what = c.seen.what
=============================================================================
