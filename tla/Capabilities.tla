---------------------------- MODULE Capabilities ----------------------------
(***************************************************************************)
(* The capability registry (core/services/capabilities/registry.py) and    *)
(* what fills it: the plugins and the core when CoreAlpha is built, a      *)
(* probe, a transform.  Each of them sets one capability at a time under   *)
(* the registry's lock and then emits the manifest: it takes a snapshot,   *)
(* answers, and leaves a thread behind that writes the snapshot to disk.   *)
(*                                                                         *)
(* The broker of this commit has no probe, so every service that is asked  *)
(* answers "not ok", and it has no provider for the core's own services.   *)
(***************************************************************************)
EXTENDS Naturals, Sequences

CONSTANTS Provided,    \* <<plugin, capability>>, in the order of discovery
          Configured,  \* the plugins that name a service
          Oauth, CoreCaps,  \* auth.google.oauth, and all the core registers
          ReaderCaps,  \* catalog.list and catalog.search
          Askers,      \* request threads
          MaxEmits     \* bound on manifests emitted

ProvidedCaps == {Provided[i][2] : i \in DOMAIN Provided}
Caps == ProvidedCaps \cup CoreCaps
          \cup {ReaderCaps[i] : i \in DOMAIN ReaderCaps}
PluginNames == {Provided[i][1] : i \in DOMAIN Provided}

ASSUME CapabilitiesAssumption ==
  /\ Oauth \in CoreCaps
  /\ MaxEmits \in Nat /\ MaxEmits >= 2
  /\ DOMAIN Provided \subseteq Nat /\ DOMAIN ReaderCaps \subseteq Nat
  /\ \A i, j \in DOMAIN Provided : Provided[i][2] = Provided[j][2] => i = j

CapStatuses == {"none", "pending", "blocked", "ready"}

VARIABLES
  status,   \* the registry: the status of each capability
  manifest, \* the snapshot on disk
  nEmits,   \* snapshots taken so far
  writers,  \* those whose thread has not written yet, with their number
  onDisk,   \* the number of the one written last
  asking,   \* per request: "idle", "setting" or "probed"
  upserts,  \* per request: what it has still to set, a set of <<place in the
            \* order, capability, status>>
  reader    \* per request: the reader is still to be probed

capVars == <<status, manifest, nEmits, writers, onDisk, asking, upserts,
             reader>>

StatusOf(plugin) == IF plugin \in Configured THEN "pending" ELSE "blocked"

\* _load_plugins: what the registry holds when the first manifest is emitted.
PluginsLoaded ==
  [c \in Caps |-> IF c \in ProvidedCaps
                  THEN StatusOf(Provided[CHOOSE i \in DOMAIN Provided :
                                           Provided[i][2] = c][1])
                  ELSE "none"]

\* _register_core_capabilities: without a provider only the credentials count.
CoreRegistered(ok) ==
  [c \in Caps |-> IF c \notin CoreCaps THEN PluginsLoaded[c]
                  ELSE IF c = Oauth /\ ok THEN "ready" ELSE "blocked"]

\* Both manifests are emitted before the server answers.
CapabilitiesInit ==
  /\ \E ok \in BOOLEAN : status = CoreRegistered(ok)
  /\ manifest = [c \in Caps |-> "none"]
  /\ nEmits = 2 /\ onDisk = 0
  /\ writers = {[n |-> 1, caps |-> PluginsLoaded], [n |-> 2, caps |-> status]}
  /\ asking = [r \in Askers |-> "idle"]
  /\ upserts = [r \in Askers |-> {}]
  /\ reader = [r \in Askers |-> FALSE]

\* A snapshot, and the thread that will write it.
Emit == /\ nEmits < MaxEmits
        /\ nEmits' = nEmits + 1
        /\ writers' = writers \cup {[n |-> nEmits + 1, caps |-> status]}

SettingTo(plugins, s) ==
  {<<i, Provided[i][2], s>> : i \in {j \in DOMAIN Provided :
                                       Provided[j][1] \in plugins}}

Asks(r, sets, withReader) ==
  /\ asking[r] = "idle"
  /\ asking' = [asking EXCEPT ![r] = "setting"]
  /\ upserts' = [upserts EXCEPT ![r] = sets]
  /\ reader' = [reader EXCEPT ![r] = withReader]
  /\ UNCHANGED <<status, manifest, nEmits, writers, onDisk>>

\* POST /probe: whatever services it asks for, every configured plugin is
\* set, and none answers.
Probe(r) ==
  \E withReader \in BOOLEAN :
    Asks(r, SettingTo(Configured, "blocked"), withReader)

\* The end of a transform whose entry has been prepared.
AfterTransform(r) ==
  \E plugin \in PluginNames :
    Asks(r, SettingTo({plugin}, "ready"), FALSE)

\* GET /capabilities
ReadCapabilities(r) == Asks(r, {}, FALSE)

Upsert(r) ==
  /\ asking[r] = "setting"
  /\ \E next \in upserts[r] :
       /\ \A other \in upserts[r] : next[1] <= other[1]
       /\ status' = [status EXCEPT ![next[2]] = next[3]]
       /\ upserts' = [upserts EXCEPT ![r] = @ \ {next}]
  /\ UNCHANGED <<manifest, nEmits, writers, onDisk, asking, reader>>

\* Mutant: the manifest is emitted only if it was asked for.
EmitsWhenRead(r) ==
  /\ asking[r] = "setting" /\ upserts[r] = {}
  /\ asking' = [asking EXCEPT ![r] = IF reader[r] THEN "probed" ELSE "idle"]
  /\ UNCHANGED <<status, manifest, nEmits, writers, onDisk, upserts, reader>>
\* emit_manifest_async
EmitManifest(r) ==
  /\ asking[r] = "setting" /\ upserts[r] = {}
  /\ Emit
  /\ asking' = [asking EXCEPT ![r] = IF reader[r] THEN "probed" ELSE "idle"]
  /\ UNCHANGED <<status, manifest, onDisk, upserts, reader>>

\* update_from_probe with what the reader plugin has answered.
ReaderProbed(r) ==
  /\ asking[r] = "probed"
  /\ \E s \in {"ready", "blocked"} :
       upserts' = [upserts EXCEPT ![r] =
                     {<<i, ReaderCaps[i], s>> : i \in DOMAIN ReaderCaps}]
  /\ asking' = [asking EXCEPT ![r] = "setting"]
  /\ reader' = [reader EXCEPT ![r] = FALSE]
  /\ UNCHANGED <<status, manifest, nEmits, writers, onDisk>>

\* The thread replaces the file; it says nothing when it cannot.
WriterEnds(w) ==
  /\ writers' = writers \ {w}
  /\ \/ manifest' = w.caps /\ onDisk' = w.n
     \/ UNCHANGED <<manifest, onDisk>>
  /\ UNCHANGED <<status, nEmits, asking, upserts, reader>>

CapabilitiesNext ==
  \/ \E r \in Askers : \/ Probe(r) \/ AfterTransform(r) \/ ReadCapabilities(r)
                       \/ Upsert(r) \/ EmitManifest(r) \/ ReaderProbed(r)
  \/ \E w \in writers : WriterEnds(w)

CapabilitiesSpec == CapabilitiesInit /\ [][CapabilitiesNext]_capVars
-----------------------------------------------------------------------------
(* Properties *)

\* Type invariant of the registry, the manifest and the requests.
CapabilitiesTypeOK ==
  /\ {status, manifest} \subseteq [Caps -> CapStatuses]
  /\ nEmits \in 0 .. MaxEmits /\ onDisk \in 0 .. nEmits
  /\ writers \subseteq [n : 1 .. nEmits, caps : [Caps -> CapStatuses]]
  /\ asking \in [Askers -> {"idle", "setting", "probed"}]
  /\ upserts \in [Askers -> SUBSET (Nat \X Caps \X {"ready", "blocked"})]
  /\ reader \in [Askers -> BOOLEAN]

\* When no request is under way, the manifest on disk is the registry, if the
\* snapshot taken last was also the one written last: whoever changes the
\* registry emits a manifest after its last change, in whatever order requests
\* and threads run.
ManifestCurrent ==
  (\A r \in Askers : asking[r] = "idle") /\ onDisk = nEmits
    => manifest = status
=============================================================================
