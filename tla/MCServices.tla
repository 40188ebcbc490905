----------------------------- MODULE MCServices -----------------------------
(***************************************************************************)
(* The services around the ledger and the pages of the web interface, for  *)
(* TLC.  No two of these modules share a variable, so that what one of     *)
(* them can do does not depend on the others: a behaviour of all of them,  *)
(* seen through the variables of one, is a behaviour of that one with      *)
(* pauses.  A run therefore picks one of them at first, the focus, and     *)
(* leaves the variables of the others where they are; the three families   *)
(* of tables of Catalog, which share no row either, are taken one by one.  *)
(* Every invariant speaks of the variables of a single module, and so only *)
(* the types of the focus have to be looked at.                            *)
(***************************************************************************)
EXTENDS MCOrganizer, RuntimeJournal, Session, GoogleAccount, Indexer,
        Catalog, Settings, Capabilities, RunForm, RecipeEditor, Contacts,
        ItemDialogs, SchemaUpgrade, CatalogStream, DriveToken, RestorePage,
        StockViews, LogPage, Retention

CONSTANTS
  a, b, t1, t2,           \* processes and threads
  drive, notion, files_read, pages_read, oauth, local_read, catalog_list,
  catalog_search,         \* plugins and capabilities
  top, near, far,         \* folders of a provider
  e1, e2, m1, aes            \* a backup and a password

VARIABLE focus

-----------------------------------------------------------------------------
(* Values of constants *)

MCHome == t1 :> a @@ t2 :> a
MCRules == << [intent |-> "transform", decision |-> "allow"],
              [intent |-> "write", decision |-> "allow"] >>

MCProvided == << <<drive, files_read>>, <<notion, pages_read>> >>
MCReaderCaps == << catalog_list, catalog_search >>

\* A file of the first releases, and one of a release with roles and kinds.
Legacy(role, kind) ==
  [i \in People |->
     [role |-> role, is_vendor |-> FALSE, is_org |-> FALSE, kind |-> kind]]
MCOlderFiles ==
  { [columns |-> {"contact"}, unique |-> {"index"},
     people |-> Legacy(Null, Null)],
    [columns |-> {"contact", "role", "kind", "organization_id", "meta"},
     unique |-> {"constraint"}, people |-> Legacy("both", "person")] }

\* A request at each server.
MCEditorAt == e1 :> a @@ e2 :> b

\* Two folders in one; Drive lists it on two pages, and one of the two also.
MCPages ==
  "drive" :> (top :> << <<near>>, <<far>> >> @@ near :> << <<>> >>
                @@ far :> << <<>>, <<>> >>) @@
  "local" :> (top :> << <<near, far>> >> @@ near :> << <<>> >>
                @@ far :> << <<>> >>)
MCStartDirs == <<top>>

\* Under one name, with one password.
MCUploadName == m1 :> ab
MCUploadKey == m1 :> aes

-----------------------------------------------------------------------------
(* The components side by side *)

Parts == {"journal", "session", "google", "indexer", "organizer", "items",
          "recipes", "vendors", "settings", "capabilities", "run_form",
          "editor", "contacts", "dialogs", "schema", "stream", "token",
          "restore_page", "views", "logs", "retention"}

\* Only the focus takes steps.
Only(p) ==
  /\ focus = p /\ UNCHANGED focus
  /\ IF p = "journal" THEN TRUE ELSE UNCHANGED journalVars
  /\ IF p = "session" THEN TRUE ELSE UNCHANGED sessionVars
  /\ IF p = "google" THEN TRUE ELSE UNCHANGED googleVars
  /\ IF p = "indexer" THEN TRUE ELSE UNCHANGED indexVars
  /\ IF p = "organizer" THEN TRUE ELSE UNCHANGED organizerVars
  /\ IF p \in {"items", "recipes", "vendors"} THEN TRUE
     ELSE UNCHANGED catalogVars
  /\ IF p = "settings" THEN TRUE ELSE UNCHANGED settingsVars
  /\ IF p = "capabilities" THEN TRUE ELSE UNCHANGED capVars
  /\ IF p = "run_form" THEN TRUE ELSE UNCHANGED runFormVars
  /\ IF p = "editor" THEN TRUE ELSE UNCHANGED editorVars
  /\ IF p = "contacts" THEN TRUE ELSE UNCHANGED contactsVars
  /\ IF p = "dialogs" THEN TRUE ELSE UNCHANGED dialogVars
  /\ IF p = "schema" THEN TRUE ELSE UNCHANGED schemaVars
  /\ IF p = "stream" THEN TRUE ELSE UNCHANGED streamVars
  /\ IF p = "token" THEN TRUE ELSE UNCHANGED tokenVars
  /\ IF p = "restore_page" THEN TRUE ELSE UNCHANGED restorePageVars
  /\ IF p = "views" THEN TRUE ELSE UNCHANGED viewVars
  /\ IF p = "logs" THEN TRUE ELSE UNCHANGED logVars
  /\ IF p = "retention" THEN TRUE ELSE UNCHANGED retentionVars

\* A component that is not the focus starts from one of its initial states.
ServicesInit ==
  /\ focus \in Parts
  /\ JournalInit
  /\ SessionInit
  /\ GoogleInit
  /\ IndexerInit
  /\ OrganizerInit
  /\ CatalogInit
  /\ SettingsInit
  /\ CapabilitiesInit
  /\ RunFormInit
  /\ EditorInit
  /\ ContactsInit
  /\ DialogsInit
  /\ SchemaInit
  /\ StreamInit
  /\ TokenInit
  /\ RestorePageInit
  /\ ViewsInit
  /\ LogInit
  /\ RetentionInit
  /\ focus # "google" => available
  /\ focus # "organizer" => fileAt = CHOOSE l \in MCLayouts : TRUE
  /\ focus # "settings" => which = "policy"
  /\ focus # "capabilities" => status = CoreRegistered(TRUE)
  /\ focus # "schema" => columns = {} /\ repoFile = NoFileYet
  /\ focus # "stream" => provider = "drive"
  /\ focus # "logs" => nMovements = 0

\* Bound: when something has happened to the Google account that its properties
\* except, the requests under way go on to their end and no other comes in.
NoneAfterExcused ==
  excused => \A h \in Handlers : doing[h] = "idle" => doing'[h] = "idle"

ServicesNext ==
  \/ Only("journal") /\ JournalNext
  \/ Only("session") /\ SessionNext
  \/ Only("google") /\ GoogleNext /\ NoneAfterExcused
  \/ Only("indexer") /\ IndexerNext
  \/ Only("organizer") /\ OrganizerNext
  \/ Only("items") /\ ItemSteps
  \/ Only("recipes") /\ RecipeSteps
  \/ Only("vendors") /\ VendorSteps
  \/ Only("settings") /\ SettingsNext
  \/ Only("capabilities") /\ CapabilitiesNext
  \/ Only("run_form") /\ RunFormNext
  \/ Only("editor") /\ EditorNext
  \/ Only("contacts") /\ ContactsNext
  \/ Only("dialogs") /\ DialogsNext
  \/ Only("schema") /\ SchemaNext
  \/ Only("stream") /\ StreamNext
  \/ Only("token") /\ TokenNext
  \/ Only("restore_page") /\ RestorePageNext
  \/ Only("views") /\ ViewsNext
  \/ Only("logs") /\ LogNext
  \/ Only("retention") /\ RetentionNext

ServicesVars ==
  <<focus, journalVars, sessionVars, googleVars, indexVars, organizerVars,
    catalogVars, settingsVars, capVars, runFormVars, editorVars,
    contactsVars, dialogVars, schemaVars, streamVars, tokenVars,
    restorePageVars, viewVars, logVars, retentionVars>>

ServicesSpec == ServicesInit /\ [][ServicesNext]_ServicesVars

\* The type invariant of the component that takes the steps, whichever of them
\* it is: the journal, the sessions, the Google account, the indexer, the
\* organizer, the catalog, the settings, the capabilities, the pages, the
\* upgrade of the tables, the streams, the token of Drive, the views of stock,
\* the log of runs and the pruning of old runs.
ServicesTypeOK ==
  /\ focus \in Parts
  /\ focus = "journal" => JournalTypeOK
  /\ focus = "session" => SessionTypeOK
  /\ focus = "google" => GoogleTypeOK
  /\ focus = "indexer" => IndexerTypeOK
  /\ focus = "organizer" => OrganizerTypeOK
  /\ focus \in {"items", "recipes", "vendors"} => CatalogTypeOK
  /\ focus = "settings" => SettingsTypeOK
  /\ focus = "capabilities" => CapabilitiesTypeOK
  /\ focus = "run_form" => RunFormTypeOK
  /\ focus = "editor" => EditorTypeOK
  /\ focus = "contacts" => ContactsTypeOK
  /\ focus = "dialogs" => DialogsTypeOK
  /\ focus = "schema" => SchemaTypeOK
  /\ focus = "stream" => StreamTypeOK
  /\ focus = "token" => TokenTypeOK
  /\ focus = "restore_page" => RestorePageTypeOK
  /\ focus = "views" => ViewsTypeOK
  /\ focus = "logs" => LogTypeOK
  /\ focus = "retention" => RetentionTypeOK
=============================================================================
