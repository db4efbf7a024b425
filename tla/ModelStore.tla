----------------------------- MODULE ModelStore -----------------------------
(***************************************************************************)
(* The store of installed models: the command that downloads, promotes and *)
(* probes one (src/mom_igd/asr/provision.py), the registry of the ones     *)
(* that passed (installed.py), their manifests (manifest.py), and the      *)
(* resolver a worker loads a model through (faster_whisper_provider.py).   *)
(* One model of one role, in the revisions upstream publishes.  The        *)
(* command may be killed between any two steps; files may be damaged on    *)
(* the disk at any time.                                                   *)
(*                                                                         *)
(* A download is a number, which also stands for the digest of its         *)
(* manifest: that carries the time it was made, so no two have the same.   *)
(* Files are whole, of another size than upstream declares, or of its size *)
(* with other bytes; damage before their manifest is made is left out.     *)
(***************************************************************************)
EXTENDS Naturals, Sequences, FiniteSets, SequencesExt

CONSTANTS
    Rev,            \* revisions of the model, in the order they are published
    MaxDownloads,   \* bound: downloads
    MaxFaults       \* bound: kills of the command and damages to the disk

ASSUME StoreAssumption == MaxDownloads \in Nat /\ MaxFaults \in Nat /\ Rev \subseteq Nat \ {0}

VARIABLES
    upstream,       \* the revision main points to
    installed,      \* by revision, the download in its directory, or Nothing
    staging,        \* by revision, the download in its staging directory
    aside,          \* the download moved aside while its successor is promoted
    files,          \* by download: its files are "whole", "short" or "rotten" now
    manifest,       \* by download: as what its manifest describes them, or "none"
    probed,         \* downloads that have passed a probe
    index,          \* the registry: its entries, the latest probe first
    indexOk,        \* the registry can be parsed, or there is none
    at, pinned, forced,     \* the provisioning command, and its revision
    entry,          \* what the resolver has chosen, NoEntry before
    resolved,       \* the download a worker has been given last
    downloads, faults       \* bound counters

dirVars == <<installed, staging, aside>>
fileVars == <<files, manifest>>
indexVars == <<index, indexOk>>
cmdVars == <<at, pinned, forced>>
runtimeVars == <<entry, resolved>>
vars == <<upstream, dirVars, fileVars, probed, indexVars, cmdVars, runtimeVars,
          downloads, faults>>

Steps == {"idle", "download", "compare", "describe", "check", "promote", "place", "dropAside",
          "verify", "probe", "probeInstalled", "record", "quarantine", "remove"}
Contents == {"whole", "short", "rotten"}
Record == [rev : Rev, download : Nat \ {0}]

Nothing == 0
NoEntry == [rev |-> 0, download |-> Nothing]

TypeOK ==
    /\ upstream \in Rev
    /\ installed \in [Rev -> 0..downloads] /\ staging \in [Rev -> 0..downloads]
    /\ aside \in 0..downloads
    /\ files \in Seq(Contents) /\ Len(files) = downloads
    /\ manifest \in Seq(Contents \union {"none"}) /\ Len(manifest) = downloads
    /\ probed \subseteq 1..downloads
    /\ index \in Seq(Record) /\ indexOk \in BOOLEAN
    /\ at \in Steps /\ (at # "idle" => pinned \in Rev) /\ forced \in BOOLEAN
    /\ entry \in Record \union {NoEntry} /\ resolved \in 0..downloads
    /\ downloads \in Nat /\ faults \in Nat

Init ==
    /\ upstream \in Rev
    /\ installed = [r \in Rev |-> Nothing] /\ staging = [r \in Rev |-> Nothing]
    /\ aside = Nothing
    /\ files = <<>> /\ manifest = <<>> /\ probed = {}
    /\ index = <<>> /\ indexOk = TRUE
    /\ at = "idle" /\ pinned = 0 /\ forced = FALSE
    /\ entry = NoEntry /\ resolved = Nothing
    /\ downloads = 0 /\ faults = 0

-----------------------------------------------------------------------------
(* Manifests and the registry. *)

\* build_manifest: the size and the hash of every file, as it is then.
ManifestOf(d) == files[d]

\* A directory without a manifest cannot be verified.
HasManifest(d) == d # Nothing /\ manifest[d] # "none"

\* Presence and sizes, and every hash if it is deep.
Agrees(d, deep) ==
    /\ (files[d] = "short") = (manifest[d] = "short")
    /\ deep => files[d] = manifest[d]

\* verify_directory
Verifies(d, deep) == HasManifest(d) /\ Agrees(d, deep)

\* An entry is ready if its directory still has the manifest it was given for.
Matches(e) == installed[e.rev] = e.download

\* No entry of a registry that cannot be parsed is ready.
Entries == IF indexOk THEN index ELSE <<>>
Ready == {e \in Range(Entries) : Matches(e)}

\* A revision has one record at most.
Without(list, r) == RemoveFirstMatch(list, LAMBDA e : e.rev = r)

-----------------------------------------------------------------------------
(* provision_model *)

Goto(step) == at' = step /\ UNCHANGED <<pinned, forced>>
Leave == at' = "idle" /\ pinned' = 0 /\ forced' = FALSE

\* The revision is resolved first.  What is installed and verifies is kept, and
\* probed if no record says that it was; otherwise staging is emptied.
Provision(force) ==
    /\ at = "idle"
    /\ pinned' = upstream /\ forced' = force
    /\ LET d == installed[upstream]
       IN  IF d # Nothing /\ ~force
           THEN /\ Verifies(d, TRUE) /\ d \notin {e.download : e \in Ready}
                /\ at' = "probeInstalled" /\ UNCHANGED staging
           ELSE /\ at' = "download"
                /\ staging' = [staging EXCEPT ![upstream] = Nothing]
    /\ UNCHANGED <<upstream, installed, aside, fileVars, probed, indexVars, runtimeVars,
                   downloads, faults>>

\* A download ends whole, or with a file cut short.
Download ==
    /\ at = "download" /\ downloads < MaxDownloads
    /\ downloads' = downloads + 1
    /\ staging' = [staging EXCEPT ![pinned] = downloads']
    /\ \E found \in {"whole", "short"} : files' = Append(files, found)
    /\ manifest' = Append(manifest, "none")
    /\ Goto("compare")
    /\ UNCHANGED <<upstream, installed, aside, probed, indexVars, runtimeVars, faults>>

\* The network fails, or upstream has not the files the catalogue expects.
DownloadFails ==
    /\ at = "download" /\ Leave
    /\ UNCHANGED <<upstream, dirVars, fileVars, probed, indexVars, runtimeVars, downloads, faults>>

\* Every staged file must have the size that upstream declares.
Compare ==
    /\ at = "compare" /\ files[staging[pinned]] # "short" /\ Goto("describe")
    /\ UNCHANGED <<upstream, dirVars, fileVars, probed, indexVars, runtimeVars, downloads, faults>>

\* The downloader's own files go, and the manifest of the others is written.
Describe ==
    /\ at = "describe" /\ Goto("check")
    /\ manifest' = [manifest EXCEPT ![staging[pinned]] = ManifestOf(staging[pinned])]
    /\ UNCHANGED <<upstream, dirVars, files, probed, indexVars, runtimeVars, downloads, faults>>

\* Staging is verified before it is promoted.
Check ==
    /\ at = "check" /\ Verifies(staging[pinned], TRUE) /\ Goto("promote")
    /\ UNCHANGED <<upstream, dirVars, fileVars, probed, indexVars, runtimeVars, downloads, faults>>

\* Staging is emptied however this fails.
CheckFails ==
    /\ \/ at = "compare" /\ files[staging[pinned]] = "short"
       \/ at = "check" /\ ~Verifies(staging[pinned], TRUE)
    /\ Leave
    /\ staging' = [staging EXCEPT ![pinned] = Nothing]
    /\ UNCHANGED <<upstream, installed, aside, fileVars, probed, indexVars, runtimeVars,
                   downloads, faults>>

\* _promote: what is in the way is moved aside,
MoveAside ==
    /\ at = "promote" /\ Goto("place")
    /\ aside' = installed[pinned]
    /\ installed' = [installed EXCEPT ![pinned] = Nothing]
    /\ UNCHANGED <<upstream, staging, fileVars, probed, indexVars, runtimeVars, downloads, faults>>

\* the staged directory takes its name,
Place ==
    /\ at = "place" /\ Goto("dropAside")
    /\ installed' = [installed EXCEPT ![pinned] = staging[pinned]]
    /\ staging' = [staging EXCEPT ![pinned] = Nothing]
    /\ UNCHANGED <<upstream, aside, fileVars, probed, indexVars, runtimeVars, downloads, faults>>

\* or, if that fails, the one moved aside takes it back,
PlaceFails ==
    /\ at = "place" /\ Leave
    /\ installed' = [installed EXCEPT ![pinned] = aside]
    /\ staging' = [staging EXCEPT ![pinned] = Nothing] /\ aside' = Nothing
    /\ UNCHANGED <<upstream, fileVars, probed, indexVars, runtimeVars, downloads, faults>>

\* and the one moved aside is deleted.
DropAside ==
    /\ at = "dropAside" /\ Goto("verify") /\ aside' = Nothing
    /\ UNCHANGED <<upstream, installed, staging, fileVars, probed, indexVars, runtimeVars,
                   downloads, faults>>

VerifyPromoted ==
    /\ at = "verify"
    /\ IF Verifies(installed[pinned], TRUE) THEN Goto("probe") ELSE Leave
    /\ UNCHANGED <<upstream, dirVars, fileVars, probed, indexVars, runtimeVars, downloads, faults>>

\* A worker verifies the directory by size, loads the model and decodes.
ProbePasses ==
    /\ at \in {"probe", "probeInstalled"} /\ Verifies(installed[pinned], FALSE)
    /\ Goto("record")
    /\ probed' = probed \union {installed[pinned]}
    /\ UNCHANGED <<upstream, dirVars, fileVars, indexVars, runtimeVars, downloads, faults>>

\* What was there before is left there; what was promoted is to be quarantined.
ProbeFails ==
    /\ at \in {"probe", "probeInstalled"}
    /\ IF at = "probe" THEN Goto("quarantine") ELSE Leave
    /\ UNCHANGED <<upstream, dirVars, fileVars, probed, indexVars, runtimeVars, downloads, faults>>

\* The move fails if a file is in use, and the command goes on.
Quarantine ==
    /\ at = "quarantine" /\ Goto("remove")
    /\ \/ installed' = [installed EXCEPT ![pinned] = Nothing]
       \/ UNCHANGED installed
    /\ UNCHANGED <<upstream, staging, aside, fileVars, probed, indexVars, runtimeVars,
                   downloads, faults>>

\* MUTANT: the records of every revision are removed.
RemoveEveryEntry ==
    /\ at = "remove" /\ Leave
    /\ index' = <<>>
    /\ UNCHANGED <<upstream, dirVars, fileVars, probed, indexOk, runtimeVars, downloads, faults>>

\* remove_entry: the record of this revision, unless the registry is unreadable.
RemoveEntry ==
    /\ at = "remove" /\ Leave
    /\ index' = IF indexOk THEN Without(index, pinned) ELSE index
    /\ UNCHANGED <<upstream, dirVars, fileVars, probed, indexOk, runtimeVars, downloads, faults>>

\* record_ready: the manifest is read again, and its record replaces the one of
\* the revision.  A registry that cannot be parsed is started afresh.
RecordReady ==
    /\ at = "record" /\ Leave
    /\ index' = <<[rev |-> pinned, download |-> installed[pinned]]>>
                \o Without(Entries, pinned)
    /\ indexOk' = TRUE
    /\ UNCHANGED <<upstream, dirVars, fileVars, probed, runtimeVars, downloads, faults>>

\* Killed, the command leaves its directories as they are; what it had moved aside stays on
\* disk, where no later run looks at it.
Kill ==
    /\ at # "idle" /\ faults < MaxFaults /\ faults' = faults + 1 /\ Leave
    /\ aside' = Nothing
    /\ UNCHANGED <<upstream, installed, staging, fileVars, probed, indexVars, runtimeVars,
                   downloads>>

-----------------------------------------------------------------------------
(* The disk, and upstream. *)

Damage(d) ==
    /\ HasManifest(d) /\ faults < MaxFaults /\ faults' = faults + 1
    /\ \E found \in {"short", "rotten"} : files' = [files EXCEPT ![d] = found]
    /\ UNCHANGED <<upstream, dirVars, manifest, probed, indexVars, cmdVars, runtimeVars, downloads>>

DamageIndex ==
    /\ indexOk /\ index # <<>> /\ faults < MaxFaults /\ faults' = faults + 1
    /\ indexOk' = FALSE
    /\ UNCHANGED <<upstream, dirVars, fileVars, probed, index, cmdVars, runtimeVars, downloads>>

Publish ==
    /\ \E r \in Rev : r > upstream /\ upstream' = r
    /\ UNCHANGED <<dirVars, fileVars, probed, indexVars, cmdVars, runtimeVars, downloads, faults>>

-----------------------------------------------------------------------------
(* resolve_model, in a worker: the registry is read and the latest of the ready
   models chosen, and then its directory verified. *)

Choose ==
    /\ entry = NoEntry /\ Ready # {}
    /\ entry' = Entries[SelectInSeq(Entries, Matches)]
    /\ UNCHANGED <<upstream, dirVars, fileVars, probed, indexVars, cmdVars, resolved,
                   downloads, faults>>

\* MUTANT: the digest of the record is not passed on.
ResolveByDirectory ==
    /\ entry # NoEntry /\ entry' = NoEntry
    /\ resolved' = IF Verifies(installed[entry.rev], FALSE) THEN installed[entry.rev]
                                                            ELSE Nothing
    /\ UNCHANGED <<upstream, dirVars, fileVars, probed, indexVars, cmdVars, downloads, faults>>

\* The manifest must hash to what the record says, or nothing is loaded.
Resolve ==
    /\ entry # NoEntry /\ entry' = NoEntry
    /\ resolved' = IF Matches(entry) /\ Verifies(entry.download, FALSE) THEN entry.download
                                                                       ELSE Nothing
    /\ UNCHANGED <<upstream, dirVars, fileVars, probed, indexVars, cmdVars, downloads, faults>>

Next ==
    \/ \E force \in BOOLEAN : Provision(force)
    \/ Download \/ DownloadFails \/ Compare \/ Describe \/ Check \/ CheckFails
    \/ MoveAside \/ Place \/ PlaceFails \/ DropAside \/ VerifyPromoted
    \/ ProbePasses \/ ProbeFails \/ Quarantine \/ RemoveEntry \/ RecordReady \/ Kill
    \/ (\E d \in Range(installed) \union Range(staging) : Damage(d)) \/ DamageIndex \/ Publish
    \/ Choose \/ Resolve

Spec == Init /\ [][Next]_vars

-----------------------------------------------------------------------------
(* Properties *)

\* A worker is only ever given a download that has passed a probe, whatever the
\* command is doing meanwhile and wherever it was killed before.
ResolvedIsProbed == resolved # Nothing => resolved \in probed

\* What is in the load path was whole when its manifest was made, so that what
\* verifies against that is what upstream has published.
LoadPathIsWhole == \A r \in Rev : installed[r] # Nothing => manifest[installed[r]] = "whole"

\* A worker only loads what was downloaded whole and has been seen to work.
LoadedIsProven == ResolvedIsProbed /\ LoadPathIsWhole

\* No command costs a model that was ready, by a download that fails, by a new
\* revision that cannot be loaded or by the record of another one: only a forced
\* one, and only the model of the revision it replaces.
ReadyIsKept ==
    [][faults' = faults => \A e \in Ready \ Ready' : forced /\ e.rev = pinned]_vars

\* provision.py of a promotion: "a failed re-provision must not leave the operator
\* with no model at all".
FailureKeepsAModel ==
    [][at # "idle" /\ at' = "idle" /\ faults = 0 => Ready' # {} \/ probed = {}]_vars

=============================================================================
