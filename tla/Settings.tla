------------------------------ MODULE Settings ------------------------------
(***************************************************************************)
(* The small JSON files that hold settings.  Each is loaded, merged with   *)
(* what a request sets and saved as a whole, in a thread pool and with no  *)
(* lock:                                                                   *)
(*                                                                         *)
(*   index    index_state.json, by POST /index/state                       *)
(*   policy   config.json of core/config/paths.py, by POST /policy         *)
(*   config   config.json of core/config/manager.py, by POST /config       *)
(*   reader   settings_reader.json, by POST /settings/reader               *)
(*   plugins  settings_plugins.json, by set_plugin_enabled                 *)
(*                                                                         *)
(* The first three are written to one temporary file that replaces the old *)
(* one, the other two in place.  The reader merges with its memory, which  *)
(* it loads anew after a save; when the save fails it does not.  Any write *)
(* may fail.                                                               *)
(***************************************************************************)
EXTENDS Naturals

CONSTANTS Savers,   \* requests that may be under way
          Fields,   \* what a file holds
          Absent,   \* no file
          Torn,     \* a file that does not parse
          MaxSaves  \* bound on saves

ASSUME SettingsAssumption ==
  /\ Fields # {} /\ MaxSaves \in Nat
  /\ Absent # Torn
  /\ \A c \in {Absent, Torn} : c \notin [Fields -> Nat]

Replaced == {"index", "policy", "config"}
Kept     == {"reader"}
SettingFiles == Replaced \cup Kept \cup {"plugins"}

\* The n-th save sets a field to n; 0 is the default.
Defaults == [f \in Fields |-> 0]
Contents == [Fields -> 0 .. MaxSaves]

VARIABLES
  which,   \* the file this is about
  disk,    \* what is in it
  tmp,     \* its temporary file
  kept,    \* _STATE of the reader
  nSaves,
  saver,   \* per request: "idle", "merged", "open" or "written"
  merged,  \* per request: what it is going to write
  field,   \* per request: the field it sets
  handle,  \* per request: where the file it has opened is now
  saved,   \* history: what the saves so far amount to
  rivals,  \* history: two saves overlapped
  cutShort \* history: a write in place was not finished, the process having
           \* died or the write failed, or a save of the reader failed

diskVars     == <<disk, tmp, kept>>
saverVars    == <<nSaves, saver, merged, field, handle>>
settingsVars == <<which, diskVars, saverVars, saved, rivals, cutShort>>

Parsed(content) == IF content \in {Absent, Torn} THEN Defaults ELSE content
OthersBusy(h)   == \E g \in Savers \ {h} : saver[g] # "idle"
InPlace         == which \notin Replaced

\* Mutant: what was there is not merged in.
MergedAnew(base, f) == [Defaults EXCEPT ![f] = nSaves + 1]
MergedWith(base, f) == [base EXCEPT ![f] = nSaves + 1]

\* A request loads the file, or has it in memory, and sets field f.
LoadAndMerge(h, f) ==
  LET base == IF which \in Kept THEN kept ELSE Parsed(disk)
  IN  /\ saver[h] = "idle" /\ nSaves < MaxSaves
      /\ nSaves' = nSaves + 1
      /\ saver' = [saver EXCEPT ![h] = "merged"]
      /\ merged' = [merged EXCEPT ![h] = MergedWith(base, f)]
      /\ field' = [field EXCEPT ![h] = f]
      /\ kept' = IF which \in Kept THEN MergedWith(base, f) ELSE kept
      /\ rivals' = (rivals \/ OthersBusy(h))
      /\ UNCHANGED <<which, disk, tmp, handle, saved, cutShort>>

\* write_text opens the file, which empties it.
OpenFile(h) ==
  /\ saver[h] = "merged"
  /\ saver' = [saver EXCEPT ![h] = "open"]
  /\ IF InPlace
     THEN /\ disk' = Torn /\ UNCHANGED tmp
          /\ handle' = [handle EXCEPT ![h] = "disk"]
     ELSE /\ tmp' = Torn /\ UNCHANGED disk
          /\ handle' = [handle EXCEPT ![h] = "tmp"]
  /\ UNCHANGED <<which, kept, nSaves, merged, field, saved, rivals, cutShort>>

\* History: the save of h has taken place.
SavedBy(h) == [saved EXCEPT ![field[h]] = merged[h][field[h]]]

\* The text goes into the file that was opened, wherever that is by now.
WriteFile(h) ==
  /\ saver[h] = "open"
  /\ saver' = [saver EXCEPT ![h] = "written"]
  /\ disk' = IF handle[h] = "disk" THEN merged[h] ELSE disk
  /\ tmp'  = IF handle[h] = "tmp" THEN merged[h] ELSE tmp
  /\ handle' = [handle EXCEPT ![h] = "none"]
  /\ saved' = IF InPlace THEN SavedBy(h) ELSE saved
  /\ UNCHANGED <<which, kept, nSaves, merged, field, rivals, cutShort>>

Answer(h) ==
  /\ saver' = [saver EXCEPT ![h] = "idle"]
  /\ merged' = [merged EXCEPT ![h] = Defaults]

\* The file cannot be opened, or the write into it fails; it stays as it is by
\* then, and the memory of the reader is ahead of it.
SaveFails(h) ==
  /\ saver[h] \in {"merged", "open"}
  /\ Answer(h)
  /\ handle' = [handle EXCEPT ![h] = "none"]
  /\ cutShort' = \/ cutShort
                 \/ which \in Kept \/ (InPlace /\ saver[h] = "open")
  /\ UNCHANGED <<which, diskVars, nSaves, field, saved, rivals>>

\* The temporary file takes the place of the old one; another request that has
\* it open goes on writing into it.
ReplaceFile(h) ==
  /\ saver[h] = "written" /\ ~InPlace /\ tmp # Absent
  /\ disk' = tmp /\ tmp' = Absent
  /\ handle' = [g \in Savers |-> CASE handle[g] = "tmp"  -> "disk"
                                   [] handle[g] = "disk" -> "none"
                                   [] OTHER -> handle[g]]
  /\ saved' = SavedBy(h)
  /\ Answer(h)
  /\ UNCHANGED <<which, kept, nSaves, field, rivals, cutShort>>

\* Another request has taken it away, or has it open on Windows, or the
\* system refuses: an error.
ReplaceFails(h) ==
  /\ saver[h] = "written" /\ ~InPlace
  /\ Answer(h)
  /\ UNCHANGED <<which, diskVars, nSaves, field, handle, saved, rivals,
                 cutShort>>

\* A file that is written in place is done; the reader loads it.
AnswerInPlace(h) ==
  /\ saver[h] = "written" /\ InPlace
  /\ kept' = IF which \in Kept /\ disk \notin {Absent, Torn} THEN disk
               ELSE kept
  /\ Answer(h)
  /\ UNCHANGED <<which, disk, tmp, nSaves, field, handle, saved, rivals,
                 cutShort>>

\* The process dies, and the next one loads what it finds.
DieAndLoad ==
  /\ \E h \in Savers : saver[h] # "idle"
  /\ saver' = [h \in Savers |-> "idle"]
  /\ merged' = [h \in Savers |-> Defaults]
  /\ handle' = [h \in Savers |-> "none"]
  /\ kept' = IF which \in Kept THEN Parsed(disk) ELSE Defaults
  /\ cutShort' = (cutShort \/ (InPlace /\ \E h \in Savers : saver[h] = "open"))
  /\ UNCHANGED <<which, disk, tmp, nSaves, field, saved, rivals>>
-----------------------------------------------------------------------------
SettingsInit ==
  /\ which \in SettingFiles
  /\ disk = Absent /\ tmp = Absent /\ kept = Defaults
  /\ nSaves = 0
  /\ saver = [h \in Savers |-> "idle"]
  /\ merged = [h \in Savers |-> Defaults]
  /\ field = [h \in Savers |-> CHOOSE f \in Fields : TRUE]
  /\ handle = [h \in Savers |-> "none"]
  /\ saved = Defaults /\ rivals = FALSE /\ cutShort = FALSE

SettingsNext ==
  \/ \E h \in Savers :
       \/ \E f \in Fields : LoadAndMerge(h, f)
       \/ OpenFile(h) \/ WriteFile(h) \/ SaveFails(h)
       \/ ReplaceFile(h) \/ ReplaceFails(h) \/ AnswerInPlace(h)
  \/ DieAndLoad

SettingsSpec == SettingsInit /\ [][SettingsNext]_settingsVars
-----------------------------------------------------------------------------
(* Properties *)

\* Type invariant of the file and of the requests that save it.
SettingsTypeOK ==
  /\ which \in SettingFiles
  /\ {disk, tmp} \subseteq Contents \cup {Absent, Torn}
  /\ kept \in Contents /\ saved \in Contents
  /\ nSaves \in 0 .. MaxSaves
  /\ saver \in [Savers -> {"idle", "merged", "open", "written"}]
  /\ merged \in [Savers -> Contents] /\ field \in [Savers -> Fields]
  /\ handle \in [Savers -> {"none", "disk", "tmp"}]
  /\ {rivals, cutShort} \subseteq BOOLEAN

\* Whoever loads the file between two saves finds every field as it was last
\* set by a save that did not fail, and the reader goes by the same, also after
\* a crash or a failure at any point of a save.  Excepted: two saves
\* overlapped; the process died or the write failed while a file was written
\* in place, which leaves it torn; or a save of the reader failed, which
\* leaves its memory ahead of the file.
SettingsKept ==
  (\A h \in Savers : saver[h] = "idle") /\ ~rivals /\ ~cutShort =>
    /\ Parsed(disk) = saved
    /\ which \in Kept => kept = saved
=============================================================================
