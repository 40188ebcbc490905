-------------------------- MODULE Services_proofs ---------------------------
(***************************************************************************)
(* The services and the pages side by side: what each of them does in      *)
(* MCServices is what it does alone, so that the theorems about them are   *)
(* theorems about the whole, for any values of the constants.              *)
(***************************************************************************)
EXTENDS MCServices, RuntimeJournal_proofs, Server_proofs, Records_proofs,
        Pages_proofs

\* A step of the services is one of each component, or leaves it alone.
LEMMA StepsOfEach ==
  ASSUME [ServicesNext]_ServicesVars
  PROVE  /\ [JournalNext]_journalVars
         /\ [SessionNext]_sessionVars
         /\ [GoogleNext]_googleVars
         /\ [IndexerNext]_indexVars
         /\ [OrganizerNext]_organizerVars
         /\ [CatalogNext]_catalogVars
         /\ [SettingsNext]_settingsVars
         /\ [CapabilitiesNext]_capVars
         /\ [RunFormNext]_runFormVars
         /\ [EditorNext]_editorVars
         /\ [ContactsNext]_contactsVars
         /\ [DialogsNext]_dialogVars
         /\ [SchemaNext]_schemaVars
         /\ [StreamNext]_streamVars
         /\ [TokenNext]_tokenVars
         /\ [RestorePageNext]_restorePageVars
         /\ [ViewsNext]_viewVars
         /\ [LogNext]_logVars
         /\ [RetentionNext]_retentionVars
<1> USE DEF Only
<1>1. [JournalNext]_journalVars
  BY DEF ServicesNext, ServicesVars
<1>2. [SessionNext]_sessionVars
  BY DEF ServicesNext, ServicesVars
<1>3. [GoogleNext]_googleVars
  BY DEF ServicesNext, ServicesVars
<1>4. [IndexerNext]_indexVars
  BY DEF ServicesNext, ServicesVars
<1>5. [OrganizerNext]_organizerVars
  BY DEF ServicesNext, ServicesVars
<1>6. [CatalogNext]_catalogVars
  BY DEF ServicesNext, ServicesVars, CatalogNext
<1>7. [SettingsNext]_settingsVars
  BY DEF ServicesNext, ServicesVars
<1>8. [CapabilitiesNext]_capVars
  BY DEF ServicesNext, ServicesVars
<1>9. [RunFormNext]_runFormVars
  BY DEF ServicesNext, ServicesVars
<1>10. [EditorNext]_editorVars
  BY DEF ServicesNext, ServicesVars
<1>11. [ContactsNext]_contactsVars
  BY DEF ServicesNext, ServicesVars
<1>12. [DialogsNext]_dialogVars
  BY DEF ServicesNext, ServicesVars
<1>13. [SchemaNext]_schemaVars
  BY DEF ServicesNext, ServicesVars
<1>14. [StreamNext]_streamVars
  BY DEF ServicesNext, ServicesVars
<1>15. [RestorePageNext]_restorePageVars
  BY DEF ServicesNext, ServicesVars
<1>16. [ViewsNext]_viewVars
  BY DEF ServicesNext, ServicesVars
<1>17. [LogNext]_logVars
  BY DEF ServicesNext, ServicesVars
<1>18. [RetentionNext]_retentionVars
  BY DEF ServicesNext, ServicesVars
<1>19. [TokenNext]_tokenVars
  BY DEF ServicesNext, ServicesVars
<1> QED
  BY <1>1, <1>2, <1>3, <1>4, <1>5, <1>6, <1>7, <1>8, <1>9, <1>10, <1>11,
     <1>12, <1>13, <1>14, <1>15, <1>16, <1>17, <1>18, <1>19

\* The services behave as each component does by itself.
THEOREM EachByItself ==
  ServicesSpec =>
    /\ JournalSpec /\ SessionSpec /\ GoogleSpec
    /\ IndexerSpec /\ OrganizerSpec /\ CatalogSpec
    /\ SettingsSpec /\ CapabilitiesSpec /\ RunFormSpec
    /\ EditorSpec /\ ContactsSpec /\ DialogsSpec
    /\ SchemaSpec /\ StreamSpec /\ TokenSpec /\ RestorePageSpec
    /\ ViewsSpec /\ LogSpec /\ RetentionSpec
<1>1. ServicesInit =>
        /\ JournalInit /\ SessionInit /\ GoogleInit
        /\ IndexerInit /\ OrganizerInit /\ CatalogInit
        /\ SettingsInit /\ CapabilitiesInit /\ RunFormInit
        /\ EditorInit /\ ContactsInit /\ DialogsInit
        /\ SchemaInit /\ StreamInit /\ TokenInit /\ RestorePageInit
        /\ ViewsInit /\ LogInit /\ RetentionInit
  BY DEF ServicesInit
<1>2. ServicesSpec => JournalSpec
  BY <1>1, StepsOfEach, PTL DEF ServicesSpec, JournalSpec
<1>3. ServicesSpec => SessionSpec
  BY <1>1, StepsOfEach, PTL DEF ServicesSpec, SessionSpec
<1>4. ServicesSpec => GoogleSpec
  BY <1>1, StepsOfEach, PTL DEF ServicesSpec, GoogleSpec
<1>5. ServicesSpec => IndexerSpec
  BY <1>1, StepsOfEach, PTL DEF ServicesSpec, IndexerSpec
<1>6. ServicesSpec => OrganizerSpec
  BY <1>1, StepsOfEach, PTL DEF ServicesSpec, OrganizerSpec
<1>7. ServicesSpec => CatalogSpec
  BY <1>1, StepsOfEach, PTL DEF ServicesSpec, CatalogSpec
<1>8. ServicesSpec => SettingsSpec
  BY <1>1, StepsOfEach, PTL DEF ServicesSpec, SettingsSpec
<1>9. ServicesSpec => CapabilitiesSpec
  BY <1>1, StepsOfEach, PTL DEF ServicesSpec, CapabilitiesSpec
<1>10. ServicesSpec => RunFormSpec
  BY <1>1, StepsOfEach, PTL DEF ServicesSpec, RunFormSpec
<1>11. ServicesSpec => EditorSpec
  BY <1>1, StepsOfEach, PTL DEF ServicesSpec, EditorSpec
<1>12. ServicesSpec => ContactsSpec
  BY <1>1, StepsOfEach, PTL DEF ServicesSpec, ContactsSpec
<1>13. ServicesSpec => DialogsSpec
  BY <1>1, StepsOfEach, PTL DEF ServicesSpec, DialogsSpec
<1>14. ServicesSpec => SchemaSpec
  BY <1>1, StepsOfEach, PTL DEF ServicesSpec, SchemaSpec
<1>15. ServicesSpec => StreamSpec
  BY <1>1, StepsOfEach, PTL DEF ServicesSpec, StreamSpec
<1>16. ServicesSpec => RestorePageSpec
  BY <1>1, StepsOfEach, PTL DEF ServicesSpec, RestorePageSpec
<1>17. ServicesSpec => ViewsSpec
  BY <1>1, StepsOfEach, PTL DEF ServicesSpec, ViewsSpec
<1>18. ServicesSpec => LogSpec
  BY <1>1, StepsOfEach, PTL DEF ServicesSpec, LogSpec
<1>19. ServicesSpec => RetentionSpec
  BY <1>1, StepsOfEach, PTL DEF ServicesSpec, RetentionSpec
<1>20. ServicesSpec => TokenSpec
  BY <1>1, StepsOfEach, PTL DEF ServicesSpec, TokenSpec
<1> QED
  BY <1>2, <1>3, <1>4, <1>5, <1>6, <1>7, <1>8, <1>9, <1>10, <1>11,
     <1>12, <1>13, <1>14, <1>15, <1>16, <1>17, <1>18, <1>19, <1>20

\* Every component keeps its types while the others work, and so does the one
\* that works.
THEOREM ServicesTypes ==
  ServicesSpec =>
    /\ [](/\ JournalTypeOK /\ SessionTypeOK /\ GoogleTypeOK
         /\ IndexerTypeOK /\ OrganizerTypeOK /\ CatalogTypeOK
         /\ SettingsTypeOK /\ CapabilitiesTypeOK /\ RunFormTypeOK
         /\ EditorTypeOK /\ ContactsTypeOK /\ DialogsTypeOK
         /\ SchemaTypeOK /\ StreamTypeOK /\ TokenTypeOK
         /\ RestorePageTypeOK /\ ViewsTypeOK /\ LogTypeOK /\ RetentionTypeOK)
    /\ []ServicesTypeOK
<1>1. ServicesInit => focus \in Parts
  BY DEF ServicesInit
<1>2. focus \in Parts /\ [ServicesNext]_ServicesVars => (focus \in Parts)'
  BY DEF ServicesNext, ServicesVars, Only
<1>3. (/\ focus \in Parts
       /\ JournalTypeOK /\ SessionTypeOK /\ GoogleTypeOK
       /\ IndexerTypeOK /\ OrganizerTypeOK /\ CatalogTypeOK
       /\ SettingsTypeOK /\ CapabilitiesTypeOK /\ RunFormTypeOK
       /\ EditorTypeOK /\ ContactsTypeOK /\ DialogsTypeOK
       /\ SchemaTypeOK /\ StreamTypeOK /\ TokenTypeOK
       /\ RestorePageTypeOK /\ ViewsTypeOK /\ LogTypeOK /\ RetentionTypeOK)
        => ServicesTypeOK
  BY DEF ServicesTypeOK
<1> QED
  BY <1>1, <1>2, <1>3, EachByItself, JournalTypes, SessionTypes, GoogleTypes,
     IndexerTypes, OrganizerTypes, CatalogTypes, SettingsTypes,
     CapabilitiesTypes, RunFormTypes, EditorTypes, ContactsTypes,
     DialogsTypes, SchemaTypes, StreamTypes, DriveTokenTypes,
     RestorePageTypes, ViewsTypes, LogTypes, RetentionTypes,
     PTL DEF ServicesSpec

\* What the journal, the sessions, the account, the indexer, the organizer,
\* the catalog, the settings and the registry promise holds of all of them at
\* once, and so does what the pages, a starting server, a stream, the Drive
\* provider, the views of stock and the pruning of old runs do.
THEOREM ServicesSafe ==
  ServicesSpec =>
    /\ []ChainsIntact /\ []RecoveryClosesJournal /\ []CommitTwiceOnlyByRace
    /\ AppendOnly
    /\ []RefusedOnlyIfDisturbed
    /\ []TokenFollowsRequests
    /\ []QuietWhileReplacing
    /\ []DuplicatesKeepContent /\ []CommittedIsDone
    /\ []NoStockOrRunsInherited /\ []ChildrenNameTheirOrg
    /\ []SettingsKept /\ []ManifestCurrent
    /\ []RunIsOfChosen /\ []SentForWhatIsShown /\ []PaintedIsCurrent
    /\ []TwiceOnlyIfRepeated
    /\ []ServedUpToDate /\ []WalkComplete /\ []AsksForTheAccount
    /\ []RestoresWhatIsShown /\ []NoMovementMissing
    /\ []CostIsOfStock /\ []PruneKeeps
BY EachByItself, Chains, RecoveryCloses, CommitsOnce, OnlyAppends,
   RefusedOnlyIfDisturbedSafe, TokenFollowsSafe,
   QuietWhileReplacingSafe, DuplicatesKeepContentSafe,
   CommittedIsDoneSafe, NoStockOrRunsInheritedSafe, ChildrenNameTheirOrgSafe,
   SettingsKeptSafe, ManifestCurrentSafe,
   RunIsOfChosenSafe, SentForWhatIsShownSafe, PaintedIsCurrentSafe,
   TwiceOnlyIfRepeatedSafe, ServedSafe, WalkSafe, AsksForTheAccountSafe,
   RestoresWhatIsShownSafe, NoMovementMissingSafe, CostIsOfStockSafe,
   PruneKeepsSafe, PTL
=============================================================================
