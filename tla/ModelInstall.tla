---------------------------- MODULE ModelInstall ----------------------------
(* Installation of the speech models (crates/buzztalk-models): several runs of
   ensure_models over one directory, each of which downloads, verifies,
   extracts and swaps in the STT bundle and then ensures the TTS files one by
   one, and any of which may fail or be killed between two of its steps.

   A byte sequence is where it comes from: "pinned" has the hash the manifest
   pins, "damaged" is a truncated or altered download, "stale" is what an older
   version or a person left. A run keeps its downloads in temporary files of
   random names that no other run can meet.                                  *)
EXTENDS Naturals, FiniteSets

CONSTANTS
  Installers,     (* processes that call ensure_models *)
  Extracted,      (* files of STT_REQUIRED_FILES that come out of the archive *)
  TtsCount,       (* number of TTS_FILES *)
  MaxRuns,        (* bound: runs started *)
  MaxFaults       (* bound: failed fetches, I/O errors, kills *)

ASSUME TtsCountAssumption == TtsCount \in Nat
ASSUME BoundsAssumption == MaxRuns \in Nat /\ MaxFaults \in Nat
ASSUME NamesAssumption == Extracted \cap {"license", "sentinel"} = {}

VARIABLES
  stt,            (* the entries of the STT directory *)
  stt_exists,     (* whether there is such a directory *)
  tts,            (* the bytes of each TTS file *)
  pc,             (* where each installer is *)
  which,          (* the ModelSet it was asked for *)
  download,       (* what its temporary file holds *)
  staged,         (* the entries of its extraction directory *)
  handle,         (* its open directory is still the one at the final path *)
  at,             (* the TTS file it is at *)
  runs, faults,   (* the bounds' counters *)
  overlap,        (* observation: two runs met since all were at rest *)
  torn            (* observation: a swap failed or was killed midway, and no
                     installation has been completed since *)

disk == <<stt, stt_exists, tts>>
own == <<which, download, staged, at>>
observedInstall == <<overlap, torn>>
installVars == <<disk, pc, own, handle, runs, faults, observedInstall>>

ModelSet == {"stt", "tts", "all"}
AtRest == {"idle", "ok", "failed", "killed"}
Bytes == {"pinned", "damaged"}
TtsFiles == 1..TtsCount
Entry == [name : Extracted \cup {"license", "sentinel"}, from : Bytes \cup {"stale"}]

Active(p) == pc[p] \notin AtRest

(* What HashingWriter, or hash_file, makes of the bytes is compared with the
   manifest. *)
HasPinnedHash(bytes) == bytes = "pinned"

(* stt_dir_is_complete. *)
Complete(exists, entries) ==
  /\ exists
  /\ \A name \in Extracted \cup {"license"} : \E e \in entries : e.name = name
  /\ [name |-> "sentinel", from |-> "pinned"] \in entries

(* ModelStatus::all_present: of a TTS file only the presence is looked at. *)
AllPresent ==
  Complete(stt_exists, stt) /\ \A i \in TtsFiles : tts[i] # "absent"

(* What an installation puts in place. *)
Whole == [name : Extracted \cup {"license", "sentinel"}, from : {"pinned"}]

Goto(p, stage) == pc' = [pc EXCEPT ![p] = stage]
Keep(p, bytes) == download' = [download EXCEPT ![p] = bytes]

(* After the STT bundle, the TTS files if they are wanted. *)
AfterStt(p) == IF which[p] = "all" THEN "file" ELSE "ok"

(* An early return: the temporary files are dropped with the function. *)
Fail(p) == Goto(p, "failed")

----------------------------------------------------------------------------
(* ensure_models_at is called. *)
Start(p, set) ==
  /\ pc[p] \in AtRest /\ runs < MaxRuns
  /\ runs' = runs + 1
  /\ Goto(p, IF set = "tts" THEN "file" ELSE "check")
  /\ which' = [which EXCEPT ![p] = set]
  /\ at' = [at EXCEPT ![p] = 1]
  /\ Keep(p, "none") /\ staged' = [staged EXCEPT ![p] = {}]
  /\ handle' = [handle EXCEPT ![p] = FALSE]
  /\ overlap' = \E q \in Installers \ {p} : Active(q)
  /\ UNCHANGED <<disk, faults, torn>>

(* Skipped when this very archive is installed. *)
CheckStt(p) ==
  /\ pc[p] = "check"
  /\ Goto(p, IF Complete(stt_exists, stt) THEN AfterStt(p) ELSE "fetch")
  /\ UNCHANGED <<disk, own, handle, runs, faults, observedInstall>>

(* fetch streams the body into the temporary file: whole, or cut and altered. *)
Fetch(p, stage, next) ==
  /\ pc[p] = stage
  /\ Goto(p, next)
  /\ \/ Keep(p, "pinned") /\ UNCHANGED faults
     \/ faults < MaxFaults /\ faults' = faults + 1 /\ Keep(p, "damaged")
  /\ UNCHANGED <<disk, which, staged, at, handle, runs, observedInstall>>

(* The hash is compared before anything is done with the bytes. *)
Verify(p, stage, next) ==
  /\ pc[p] = stage
  /\ IF HasPinnedHash(download[p]) THEN Goto(p, next) ELSE Fail(p)
  /\ UNCHANGED <<disk, own, handle, runs, faults, observedInstall>>

(* The archive is unpacked next door, its temporary file freed, its layout
   checked. *)
Extract(p) ==
  /\ pc[p] = "extract"
  /\ staged' = [staged EXCEPT ![p] = [name : Extracted, from : {download[p]}]]
  /\ Keep(p, "none")
  /\ Goto(p, "label")
  /\ UNCHANGED <<disk, which, at, handle, runs, faults, observedInstall>>

(* Mutated form: the notice is left for after the swap. *)
LabelWithoutLicense(p) ==
  /\ pc[p] = "label"
  /\ staged' = [staged EXCEPT ![p] = @ \cup {[name |-> "sentinel", from |-> "pinned"]}]
  /\ Goto(p, "swap")
  /\ UNCHANGED <<disk, which, download, at, handle, runs, faults, observedInstall>>

(* The notice, then the sentinel, are written into the staged directory. *)
Label(p) ==
  /\ pc[p] = "label"
  /\ \/ /\ ~ \E e \in staged[p] : e.name = "license"
        /\ staged' = [staged EXCEPT ![p] = @ \cup {[name |-> "license", from |-> "pinned"]}]
        /\ UNCHANGED pc
     \/ /\ \E e \in staged[p] : e.name = "license"
        /\ staged' = [staged EXCEPT ![p] = @ \cup {[name |-> "sentinel", from |-> "pinned"]}]
        /\ Goto(p, "swap")
  /\ UNCHANGED <<disk, which, download, at, handle, runs, faults, observedInstall>>

(* Mutated form: an existing directory is renamed over. *)
BeginSwapInPlace(p) ==
  /\ pc[p] = "swap" /\ Goto(p, "rename")
  /\ UNCHANGED <<disk, own, handle, runs, faults, observedInstall>>

(* A directory found in place now is removed, whatever it holds: the check
   was made before the download. *)
BeginSwap(p) ==
  /\ pc[p] = "swap"
  /\ Goto(p, IF stt_exists THEN "remove" ELSE "rename")
  /\ handle' = [handle EXCEPT ![p] = stt_exists]
  /\ UNCHANGED <<disk, own, runs, faults, observedInstall>>

(* remove_dir_all opens the directory and unlinks its entries one by one; an
   entry somebody else unlinked is passed over. *)
RemoveEntry(p) ==
  /\ pc[p] = "remove" /\ handle[p]
  /\ \E e \in stt : stt' = stt \ {e}
  /\ UNCHANGED <<stt_exists, tts, pc, own, handle, runs, faults, observedInstall>>

(* Then the name itself, which by now may be gone or belong to another
   directory. *)
RemoveDir(p) ==
  /\ pc[p] = "remove" /\ (handle[p] => stt = {})
  /\ IF stt_exists /\ stt = {}
       THEN /\ stt_exists' = FALSE
            /\ handle' = [q \in Installers |-> FALSE]
            /\ Goto(p, "rename")
       ELSE Fail(p) /\ UNCHANGED <<stt_exists, handle>>
  /\ UNCHANGED <<stt, tts, own, runs, faults, observedInstall>>

(* Mutated form: a rename that fails clears the final path. *)
RenameCleaningUp(p) ==
  /\ pc[p] = "rename"
  /\ IF stt = {}
       THEN /\ stt' = staged[p] /\ stt_exists' = TRUE
            /\ torn' = FALSE
            /\ Goto(p, AfterStt(p))
       ELSE stt' = {} /\ stt_exists' = FALSE /\ Fail(p) /\ UNCHANGED torn
  /\ handle' = [q \in Installers |-> FALSE]
  /\ UNCHANGED <<tts, own, runs, faults, overlap>>

(* One rename; the system refuses it over a directory that has entries. *)
Rename(p) ==
  /\ pc[p] = "rename"
  /\ IF stt = {}
       THEN /\ stt' = staged[p] /\ stt_exists' = TRUE
            /\ handle' = [q \in Installers |-> FALSE]
            /\ torn' = FALSE
            /\ Goto(p, AfterStt(p))
       ELSE Fail(p) /\ UNCHANGED <<stt, stt_exists, handle, torn>>
  /\ UNCHANGED <<tts, own, runs, faults, overlap>>

(* ensure_file_at: skipped when the file there has the pinned hash. *)
CheckFile(p) ==
  /\ pc[p] = "file"
  /\ CASE at[p] > TtsCount -> Goto(p, "ok") /\ UNCHANGED at
       [] at[p] <= TtsCount /\ HasPinnedHash(tts[at[p]]) ->
            at' = [at EXCEPT ![p] = @ + 1] /\ UNCHANGED pc
       [] OTHER -> Goto(p, "fetch file") /\ UNCHANGED at
  /\ UNCHANGED <<disk, which, download, staged, handle, runs, faults, observedInstall>>

(* persist: an atomic rename over whatever is there. *)
Persist(p) ==
  /\ pc[p] = "persist"
  /\ tts' = [tts EXCEPT ![at[p]] = download[p]]
  /\ at' = [at EXCEPT ![p] = @ + 1]
  /\ Keep(p, "none")
  /\ Goto(p, "file")
  /\ UNCHANGED <<stt, stt_exists, which, staged, handle, runs, faults, observedInstall>>

InstallStep(p) ==
  \/ CheckStt(p) \/ Extract(p) \/ Label(p)
  \/ Fetch(p, "fetch", "verify") \/ Verify(p, "verify", "extract")
  \/ BeginSwap(p) \/ RemoveEntry(p) \/ RemoveDir(p) \/ Rename(p)
  \/ CheckFile(p) \/ Persist(p)
  \/ Fetch(p, "fetch file", "verify file") \/ Verify(p, "verify file", "persist")

(* A fetch or a call to the file system fails, or the process is killed. *)
Breaks(p, ending) ==
  /\ Active(p) /\ faults < MaxFaults
  /\ faults' = faults + 1
  /\ Goto(p, ending)
  /\ torn' = (torn \/ pc[p] \in {"remove", "rename"})
  /\ UNCHANGED <<disk, own, handle, runs, overlap>>

InstallInit ==
  /\ stt \in {{}, [name : Extracted, from : {"stale"}],
              [name : Extracted \cup {"license", "sentinel"}, from : {"stale"}]}
  /\ stt_exists = (stt # {})
  /\ tts \in [TtsFiles -> {"absent", "stale"}]
  /\ pc = [p \in Installers |-> "idle"]
  /\ which = [p \in Installers |-> "all"]
  /\ download = [p \in Installers |-> "none"]
  /\ staged = [p \in Installers |-> {}]
  /\ handle = [p \in Installers |-> FALSE]
  /\ at = [p \in Installers |-> 1]
  /\ runs = 0 /\ faults = 0
  /\ overlap = FALSE /\ torn = FALSE

InstallNext ==
  \E p \in Installers :
    \/ \E set \in ModelSet : Start(p, set)
    \/ InstallStep(p)
    \/ Breaks(p, "failed") \/ Breaks(p, "killed")

(* A process that runs goes on running. *)
InstallSpec ==
  /\ InstallInit /\ [][InstallNext]_installVars
  /\ \A p \in Installers : WF_installVars(InstallStep(p))

----------------------------------------------------------------------------
(* Properties. *)

(* The observations and the disk have their types. *)
InstallTypeOK ==
  /\ stt \subseteq Entry /\ stt_exists \in BOOLEAN
  /\ tts \in [TtsFiles -> Bytes \cup {"absent", "stale"}]
  /\ \A p \in Installers : staged[p] \subseteq Entry
  /\ stt # {} => stt_exists

(* lib.rs: "a half-downloaded file or half-extracted archive never appears at
   its final path".  Whatever appears in the STT directory appears at once,
   whole, verified and with its licence, where there was nothing; a TTS file
   only ever becomes the pinned one.  Several runs and kills included. *)
NeverHalfInstalled ==
  [][/\ ~ (stt' \subseteq stt) => stt = {} /\ stt' = Whole
     /\ \A i \in TtsFiles : tts'[i] # tts[i] => tts'[i] = "pinned"]_installVars

(* Runs that meet may remove each other's installation and make each other
   fail; but once all have come to rest, the bundle one of them reported
   installed is there, unless a swap was itself cut short. *)
InstalledTogether ==
  (/\ \A p \in Installers : ~ Active(p)
   /\ \E p \in Installers : pc[p] = "ok" /\ which[p] # "tts"
   /\ ~ torn)
  => Complete(stt_exists, stt)

(* Whatever earlier runs left behind, half-removed directories included, a run
   that meets no further fault and no other run installs everything. *)
RerunHeals ==
  \A p \in Installers :
    (pc[p] = "check" /\ which[p] = "all" /\ faults = MaxFaults)
      ~> \/ overlap
         \/ AllPresent /\ \A i \in TtsFiles : tts[i] = "pinned"
=============================================================================
