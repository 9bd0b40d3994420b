-------------------------- MODULE ModelInstallProofs --------------------------
(* What appears at a final path is whole and verified, and what was installed
   stays, for any number of installers, files, runs and faults.

   Between the check of the hash and the rename an installer alone touches what
   it has downloaded and unpacked, so what it knew of it then is still true
   when it puts it in place: this is the invariant.                          *)
EXTENDS ModelInstall, TLAPS

Stage == AtRest \cup {"check", "fetch", "verify", "extract", "label", "swap", "remove",
                      "rename", "file", "fetch file", "verify file", "persist"}

(* The bundle as it comes out of an archive with the pinned hash. *)
Unpacked == [name : Extracted, from : {"pinned"}]
Notice == [name |-> "license", from |-> "pinned"]
Sentinel == [name |-> "sentinel", from |-> "pinned"]

Prepared(p) ==
  /\ pc[p] \in {"extract", "persist"} => download[p] = "pinned"
  /\ pc[p] = "label" => staged[p] \in {Unpacked, Unpacked \cup {Notice}}
  /\ pc[p] \in {"swap", "remove", "rename"} => staged[p] = Whole

InstallInv ==
  /\ InstallTypeOK
  /\ pc \in [Installers -> Stage]
  /\ which \in [Installers -> ModelSet]
  /\ download \in [Installers -> Bytes \cup {"none"}]
  /\ staged \in [Installers -> SUBSET Entry]
  /\ \A p \in Installers : Prepared(p)

(* The notice and the sentinel make the unpacked bundle whole. *)
LEMMA WholeBundle ==
  /\ Unpacked \cup {Notice} \cup {Sentinel} = Whole
  /\ Whole \subseteq Entry /\ Unpacked \cup {Notice} \subseteq Entry
  /\ ~ \E e \in Unpacked : e.name = "license"
  /\ Notice.name = "license"
<1>1. ~ \E e \in Unpacked : e.name = "license"
  BY NamesAssumption DEF Unpacked
<1>2. ASSUME NEW e PROVE e \in Unpacked \cup {Notice} \cup {Sentinel} <=> e \in Whole
  BY DEF Unpacked, Notice, Sentinel, Whole
<1>3. Unpacked \cup {Notice} \cup {Sentinel} = Whole
  BY <1>2
<1>4. Whole \subseteq Entry
  BY DEF Whole, Entry, Bytes
<1>5. Unpacked \cup {Notice} \subseteq Entry
  BY <1>3, <1>4
<1>. QED  BY <1>1, <1>3, <1>4, <1>5 DEF Notice

LEMMA InstallInitInv == InstallInit => InstallInv
<1>. SUFFICES ASSUME InstallInit PROVE InstallInv
  OBVIOUS
<1>1. stt \subseteq Entry /\ stt_exists \in BOOLEAN /\ (stt # {} => stt_exists)
  BY DEF InstallInit, Entry
<1>2. tts \in [TtsFiles -> Bytes \cup {"absent", "stale"}]
  BY DEF InstallInit
<1>. QED  BY <1>1, <1>2 DEF InstallInit, InstallInv, InstallTypeOK, Stage, AtRest, ModelSet, Prepared

(* A step of one installer leaves what another has prepared alone. *)
LEMMA OthersArePrepared ==
  ASSUME InstallInv, NEW p \in Installers, NEW q \in Installers \ {p},
         pc'[q] = pc[q], download'[q] = download[q], staged'[q] = staged[q]
  PROVE  Prepared(q)'
BY DEF InstallInv, Prepared

(* The part of the invariant that a step of installer p has to show. *)
OwnInv(p) ==
  /\ InstallTypeOK
  /\ pc[p] \in Stage /\ which[p] \in ModelSet
  /\ download[p] \in Bytes \cup {"none"} /\ staged[p] \in SUBSET Entry
  /\ Prepared(p)

(* An installer writes only its own fields. *)
ChangesOnly(p) ==
  /\ \E stage : pc' = [pc EXCEPT ![p] = stage]
  /\ \E set : which' = [which EXCEPT ![p] = set]
  /\ \E bytes : download' = [download EXCEPT ![p] = bytes]
  /\ \E entries : staged' = [staged EXCEPT ![p] = entries]

LEMMA OwnStep ==
  ASSUME InstallInv, NEW p \in Installers, ChangesOnly(p), OwnInv(p)'
  PROVE  InstallInv'
<1>1. /\ pc' \in [Installers -> Stage] /\ which' \in [Installers -> ModelSet]
      /\ download' \in [Installers -> Bytes \cup {"none"}]
      /\ staged' \in [Installers -> SUBSET Entry]
  BY DEF InstallInv, ChangesOnly, OwnInv
<1>2. ASSUME NEW q \in Installers \ {p} PROVE Prepared(q)'
  BY <1>2, OthersArePrepared DEF InstallInv, ChangesOnly
<1>. QED  BY <1>1, <1>2 DEF InstallInv, OwnInv

(* A field that is left alone is a field an installer writes back. *)
LEMMA LeftAlone ==
  ASSUME InstallInv, NEW p \in Installers
  PROVE  /\ pc = [pc EXCEPT ![p] = pc[p]] /\ which = [which EXCEPT ![p] = which[p]]
         /\ download = [download EXCEPT ![p] = download[p]]
         /\ staged = [staged EXCEPT ![p] = staged[p]]
BY DEF InstallInv

LEMMA InstallNextInv == InstallInv /\ [InstallNext]_installVars => InstallInv'
<1>. SUFFICES ASSUME InstallInv, [InstallNext]_installVars PROVE InstallInv'
  OBVIOUS
<1>1. CASE UNCHANGED installVars
  BY <1>1 DEF installVars, disk, own, InstallInv, InstallTypeOK, Prepared
<1>2. ASSUME NEW p \in Installers,
             \/ \E set \in ModelSet : Start(p, set)
             \/ InstallStep(p)
             \/ Breaks(p, "failed") \/ Breaks(p, "killed")
      PROVE  InstallInv'
  <2>. USE DEF OwnInv, ChangesOnly
  <2>0. /\ pc[p] \in Stage /\ which[p] \in ModelSet /\ Prepared(p)
        /\ download[p] \in Bytes \cup {"none"} /\ staged[p] \in SUBSET Entry /\ InstallTypeOK
    BY DEF InstallInv
  <2>1. ASSUME NEW set \in ModelSet, Start(p, set) PROVE InstallInv'
    <3>1. ChangesOnly(p)
      BY <2>1, LeftAlone DEF Start, Goto, Keep
    <3>2. OwnInv(p)'
      BY <2>0, <2>1 DEF Start, Goto, Keep, InstallInv, InstallTypeOK, disk, Stage, AtRest, Prepared, Bytes
    <3>. QED  BY <3>1, <3>2, OwnStep
  <2>2. CASE CheckStt(p)
    <3>1. ChangesOnly(p)
      BY <2>2, LeftAlone DEF CheckStt, Goto, own
    <3>2. OwnInv(p)'
      BY <2>0, <2>2 DEF CheckStt, Goto, AfterStt, own, disk, InstallInv, InstallTypeOK, Stage, AtRest, Prepared
    <3>. QED  BY <3>1, <3>2, OwnStep
  <2>3. ASSUME NEW stage, NEW next \in Stage \ {"extract", "persist", "label", "swap", "remove", "rename"},
               Fetch(p, stage, next)
        PROVE  InstallInv'
    <3>1. ChangesOnly(p)
      BY <2>3, LeftAlone DEF Fetch, Goto, Keep
    <3>2. OwnInv(p)'
      BY <2>0, <2>3 DEF Fetch, Goto, Keep, disk, InstallInv, InstallTypeOK, Prepared, Bytes
    <3>. QED  BY <3>1, <3>2, OwnStep
  <2>4. ASSUME NEW stage, NEW next \in {"extract", "persist"}, Verify(p, stage, next)
        PROVE  InstallInv'
    <3>1. ChangesOnly(p)
      BY <2>4, LeftAlone DEF Verify, Goto, Fail, own
    <3>2. OwnInv(p)'
      BY <2>0, <2>4 DEF Verify, Goto, Fail, HasPinnedHash, own, disk, InstallInv, InstallTypeOK, Stage, AtRest, Prepared
    <3>. QED  BY <3>1, <3>2, OwnStep
  <2>5. CASE Extract(p)
    <3>1. ChangesOnly(p)
      BY <2>5, LeftAlone DEF Extract, Goto, Keep
    <3>2. staged'[p] = Unpacked /\ pc'[p] = "label" /\ download'[p] = "none"
      BY <2>0, <2>5 DEF Extract, Goto, Keep, Prepared, Unpacked, InstallInv
    <3>3. staged'[p] \subseteq Entry /\ Prepared(p)'
      BY <3>2, WholeBundle DEF Prepared
    <3>4. \A q \in Installers : staged'[q] \subseteq Entry
      BY <2>5, <3>3 DEF Extract, InstallInv
    <3>5. OwnInv(p)'
      BY <2>0, <2>5, <3>2, <3>3, <3>4 DEF Extract, disk, InstallTypeOK, Stage
    <3>. QED  BY <3>1, <3>5, OwnStep
  <2>6. CASE Label(p)
    <3>1. ChangesOnly(p)
      BY <2>6, LeftAlone DEF Label, Goto
    <3>2. /\ \/ staged'[p] = staged[p] \cup {Notice} /\ pc'[p] = "label" /\ staged[p] = Unpacked
             \/ staged'[p] = staged[p] \cup {Sentinel} /\ pc'[p] = "swap" /\ staged[p] # Unpacked
          /\ staged[p] \in {Unpacked, Unpacked \cup {Notice}}
          /\ UNCHANGED <<which, download>>
      BY <2>0, <2>6, WholeBundle DEF Label, Goto, Prepared, InstallInv, Notice, Sentinel
    <3>3. staged'[p] \subseteq Entry /\ Prepared(p)'
      BY <3>2, WholeBundle DEF Prepared
    <3>4. \A q \in Installers : staged'[q] \subseteq Entry
      BY <2>6, <3>3 DEF Label, InstallInv
    <3>5. OwnInv(p)'
      BY <2>0, <2>6, <3>2, <3>3, <3>4 DEF Label, disk, InstallTypeOK, Stage
    <3>. QED  BY <3>1, <3>5, OwnStep
  <2>7. CASE BeginSwap(p)
    <3>1. ChangesOnly(p)
      BY <2>7, LeftAlone DEF BeginSwap, Goto, own
    <3>2. OwnInv(p)'
      BY <2>0, <2>7 DEF BeginSwap, Goto, own, disk, InstallInv, InstallTypeOK, Stage, Prepared
    <3>. QED  BY <3>1, <3>2, OwnStep
  <2>8. CASE RemoveEntry(p)
    <3>1. ChangesOnly(p)
      BY <2>8, LeftAlone DEF RemoveEntry, own
    <3>2. OwnInv(p)'
      BY <2>0, <2>8 DEF RemoveEntry, own, InstallTypeOK, Prepared
    <3>. QED  BY <3>1, <3>2, OwnStep
  <2>9. CASE RemoveDir(p)
    <3>1. ChangesOnly(p)
      BY <2>9, LeftAlone DEF RemoveDir, Goto, Fail, own
    <3>2. OwnInv(p)'
      BY <2>0, <2>9 DEF RemoveDir, Goto, Fail, own, InstallInv, InstallTypeOK, Stage, AtRest, Prepared
    <3>. QED  BY <3>1, <3>2, OwnStep
  <2>10. CASE Rename(p)
    <3>1. ChangesOnly(p)
      BY <2>10, LeftAlone DEF Rename, Goto, Fail, own
    <3>2. OwnInv(p)'
      BY <2>0, <2>10 DEF Rename, Goto, Fail, AfterStt, own, InstallInv, InstallTypeOK, Stage, AtRest, Prepared
    <3>. QED  BY <3>1, <3>2, OwnStep
  <2>11. CASE CheckFile(p)
    <3>1. ChangesOnly(p)
      BY <2>11, LeftAlone DEF CheckFile, Goto
    <3>2. OwnInv(p)'
      BY <2>0, <2>11, ZenonT(30) DEF CheckFile, Goto, disk, InstallInv, InstallTypeOK, Stage, AtRest, Prepared
    <3>. QED  BY <3>1, <3>2, OwnStep
  <2>12. CASE Persist(p)
    <3>1. ChangesOnly(p)
      BY <2>12, LeftAlone DEF Persist, Goto, Keep
    <3>2. OwnInv(p)'
      BY <2>0, <2>12 DEF Persist, Goto, Keep, InstallInv, InstallTypeOK, Stage, Prepared, Bytes
    <3>. QED  BY <3>1, <3>2, OwnStep
  <2>13. ASSUME NEW ending \in {"failed", "killed"}, Breaks(p, ending) PROVE InstallInv'
    <3>1. ChangesOnly(p)
      BY <2>13, LeftAlone DEF Breaks, Goto, own
    <3>2. OwnInv(p)'
      BY <2>0, <2>13 DEF Breaks, Goto, own, disk, InstallInv, InstallTypeOK, Stage, AtRest, Prepared
    <3>. QED  BY <3>1, <3>2, OwnStep
  <2>14. CASE Fetch(p, "fetch", "verify") \/ Fetch(p, "fetch file", "verify file")
    BY <2>3, <2>14 DEF Stage
  <2>. QED  BY <1>2, <2>1, <2>2, <2>4, <2>5, <2>6, <2>7, <2>8, <2>9, <2>10, <2>11, <2>12, <2>13, <2>14
           DEF InstallStep
<1>. QED  BY <1>1, <1>2 DEF InstallNext

LEMMA InstallInvariant == InstallSpec => []InstallInv
BY InstallInitInv, InstallNextInv, PTL DEF InstallSpec

(* Only Rename adds to the STT directory, and it adds the whole bundle to
   nothing; only Persist changes a TTS file. *)
LEMMA AppearsWhole ==
  ASSUME InstallInv, InstallNext
  PROVE  /\ ~ (stt' \subseteq stt) => stt = {} /\ stt' = Whole
         /\ \A i \in TtsFiles : tts'[i] # tts[i] => tts'[i] = "pinned"
<1>1. PICK p \in Installers :
        \/ \E set \in ModelSet : Start(p, set)
        \/ InstallStep(p)
        \/ Breaks(p, "failed") \/ Breaks(p, "killed")
  BY DEF InstallNext
<1>2. CASE Rename(p)
  <2>1. tts' = tts /\ (stt' = stt \/ (stt = {} /\ stt' = staged[p]))
    BY <1>2 DEF Rename
  <2>2. staged[p] = Whole
    BY <1>2 DEF Rename, InstallInv, Prepared
  <2>. QED  BY <2>1, <2>2
<1>3. CASE Persist(p)
  <2>1. stt' = stt /\ tts' = [tts EXCEPT ![at[p]] = download[p]]
    BY <1>3 DEF Persist
  <2>2. download[p] = "pinned" /\ tts \in [TtsFiles -> Bytes \cup {"absent", "stale"}]
    BY <1>3 DEF Persist, InstallInv, InstallTypeOK, Prepared
  <2>. QED  BY <2>1, <2>2
<1>4. CASE RemoveEntry(p) \/ RemoveDir(p)
  BY <1>4 DEF RemoveEntry, RemoveDir
<1>5. CASE \/ \E set \in ModelSet : Start(p, set)
           \/ CheckStt(p) \/ Extract(p) \/ Label(p) \/ BeginSwap(p) \/ CheckFile(p)
           \/ \E stage, next : Fetch(p, stage, next) \/ Verify(p, stage, next)
           \/ \E ending : Breaks(p, ending)
  <2>1. UNCHANGED disk
    BY <1>5 DEF Start, CheckStt, Extract, Label, BeginSwap, CheckFile, Fetch, Verify, Breaks
  <2>. QED  BY <2>1 DEF disk
<1>. QED  BY <1>1, <1>2, <1>3, <1>4, <1>5 DEF InstallStep

(* Whatever appears at its final path is whole and verified: "a half-downloaded
   file or half-extracted archive never appears at its final path" (lib.rs),
   with any number of installers that fail or are killed at any step. *)
THEOREM InstallsAreWhole == InstallSpec => NeverHalfInstalled
<1>1. InstallInv /\ [InstallNext]_installVars
        => [/\ ~ (stt' \subseteq stt) => stt = {} /\ stt' = Whole
            /\ \A i \in TtsFiles : tts'[i] # tts[i] => tts'[i] = "pinned"]_installVars
  BY AppearsWhole
<1>. QED  BY <1>1, InstallInvariant, PTL DEF InstallSpec, NeverHalfInstalled

----------------------------------------------------------------------------
(* Who has the directory in hand: as long as no swap was cut short, a bundle
   that was installed is in place, or one that replaces it is about to be, or
   somebody is about to take it away and does not let go of it. *)

SttDone(p) ==
  which[p] # "tts" /\ pc[p] \in {"ok", "file", "fetch file", "verify file", "persist"}

InHand ==
  \/ Complete(stt_exists, stt)
  \/ ~ stt_exists /\ \E r \in Installers : pc[r] = "rename"
  \/ \E r \in Installers : pc[r] = "remove" /\ handle[r]

TogetherInv ==
  /\ handle \in [Installers -> BOOLEAN]
  /\ \A p \in Installers : pc[p] = "remove" /\ handle[p] => stt_exists
  /\ ~ torn /\ (\E p \in Installers : SttDone(p)) => InHand

LEMMA WholeIsComplete == Complete(TRUE, Whole)
<1>1. \A name \in Extracted \cup {"license"} : \E e \in Whole : e.name = name
  <2>1. ASSUME NEW name \in Extracted \cup {"license"}
        PROVE  [name |-> name, from |-> "pinned"] \in Whole
    BY DEF Whole
  <2>. QED  BY <2>1
<1>2. [name |-> "sentinel", from |-> "pinned"] \in Whole
  BY DEF Whole
<1>. QED  BY <1>1, <1>2 DEF Complete

(* A step of p that leaves the directory alone, in a stage in which p neither
   removes nor renames before or after. *)
LEMMA TogetherQuiet ==
  ASSUME InstallInv, TogetherInv, NEW p \in Installers, NEW next \in Stage,
         UNCHANGED <<stt, stt_exists>>, torn => torn', handle' = handle \/ handle' = [handle EXCEPT ![p] = FALSE],
         pc[p] \notin {"remove", "rename"}, next \notin {"remove", "rename"},
         pc' = pc \/ pc' = [pc EXCEPT ![p] = next],
         \A q \in Installers \ {p} : which'[q] = which[q],
         SttDone(p)' => SttDone(p) \/ Complete(stt_exists, stt)
  PROVE  TogetherInv'
<1>1. handle' \in [Installers -> BOOLEAN]
  BY DEF TogetherInv
<1>2. \A q \in Installers \ {p} : pc'[q] = pc[q] /\ handle'[q] = handle[q]
  BY DEF InstallInv, TogetherInv
<1>3. pc'[p] \notin {"remove", "rename"}
  BY DEF InstallInv
<1>4. \A q \in Installers : pc'[q] = "remove" /\ handle'[q] => stt_exists'
  BY <1>2, <1>3 DEF TogetherInv
<1>5. InHand => InHand'
  <2>1. ASSUME NEW r \in Installers, pc[r] \in {"remove", "rename"}
        PROVE  r # p /\ pc'[r] = pc[r] /\ handle'[r] = handle[r]
    BY <1>2, <2>1
  <2>. QED  BY <2>1 DEF InHand
<1>6. ASSUME ~ torn', NEW q \in Installers, SttDone(q)'  PROVE InHand'
  <2>1. SttDone(q) \/ Complete(stt_exists, stt)
    <3>1. q # p => SttDone(q)
      BY <1>2, <1>6 DEF SttDone
    <3>. QED  BY <1>6, <3>1
  <2>2. CASE SttDone(q)
    BY <1>5, <1>6, <2>2 DEF TogetherInv
  <2>3. CASE Complete(stt_exists, stt)
    BY <1>5, <2>3 DEF InHand
  <2>. QED  BY <2>1, <2>2, <2>3
<1>. QED  BY <1>1, <1>4, <1>6 DEF TogetherInv

LEMMA TogetherSwap ==
  ASSUME InstallInv, TogetherInv, NEW p \in Installers,
         BeginSwap(p) \/ RemoveEntry(p) \/ RemoveDir(p) \/ Rename(p)
  PROVE  TogetherInv'
<1>. USE DEF Goto, Fail, own
<1>0. pc \in [Installers -> Stage] /\ handle \in [Installers -> BOOLEAN] /\ stt_exists \in BOOLEAN
      /\ (stt # {} => stt_exists)
  BY DEF InstallInv, InstallTypeOK, TogetherInv
<1>1. CASE BeginSwap(p)
  <2>1. /\ UNCHANGED <<stt, stt_exists, torn, which>> /\ handle' = [handle EXCEPT ![p] = stt_exists]
        /\ pc[p] = "swap" /\ pc'[p] \in {"remove", "rename"} /\ pc'[p] = (IF stt_exists THEN "remove" ELSE "rename")
        /\ \A q \in Installers \ {p} : pc'[q] = pc[q] /\ handle'[q] = handle[q]
    BY <1>0, <1>1 DEF BeginSwap, disk, observedInstall
  <2>2. handle' \in [Installers -> BOOLEAN] /\ handle'[p] = stt_exists
    BY <1>0, <2>1
  <2>3. \A q \in Installers : pc'[q] = "remove" /\ handle'[q] => stt_exists'
    BY <2>1, <2>2 DEF TogetherInv
  <2>4. InHand => InHand'
    BY <2>1 DEF InHand
  <2>5. \A q \in Installers : SttDone(q)' => SttDone(q)
    BY <2>1 DEF SttDone
  <2>. QED  BY <2>1, <2>2, <2>3, <2>4, <2>5 DEF TogetherInv
<1>2. CASE RemoveEntry(p)
  <2>1. UNCHANGED <<stt_exists, pc, handle, which, torn>> /\ pc[p] = "remove" /\ handle[p]
    BY <1>2 DEF RemoveEntry, observedInstall
  <2>. QED  BY <2>1 DEF TogetherInv, InHand, SttDone
<1>3. CASE RemoveDir(p) /\ stt_exists /\ stt = {}
  <2>1. /\ stt_exists' = FALSE /\ handle' = [q \in Installers |-> FALSE] /\ pc' = [pc EXCEPT ![p] = "rename"]
    BY <1>3 DEF RemoveDir
  <2>2. pc'[p] = "rename"
    BY <1>0, <2>1
  <2>3. InHand'
    BY <2>1, <2>2 DEF InHand
  <2>. QED  BY <2>1, <2>3 DEF TogetherInv
<1>4. CASE RemoveDir(p) /\ ~ (stt_exists /\ stt = {})
  <2>1. /\ UNCHANGED <<stt, stt_exists, handle, torn, which>> /\ pc' = [pc EXCEPT ![p] = "failed"]
        /\ pc[p] = "remove"
    BY <1>4 DEF RemoveDir, observedInstall
  <2>2. ~ handle[p]
    BY <1>4 DEF RemoveDir, TogetherInv
  <2>3. \A q \in Installers \ {p} : pc'[q] = pc[q]
    BY <1>0, <2>1
  <2>4. pc'[p] = "failed"
    BY <1>0, <2>1
  <2>5. InHand => InHand'
    <3>1. ASSUME NEW r \in Installers, pc[r] = "rename" \/ (pc[r] = "remove" /\ handle[r])  PROVE pc'[r] = pc[r]
      BY <2>1, <2>2, <2>3, <3>1
    <3>. QED  BY <2>1, <3>1 DEF InHand
  <2>6. \A q \in Installers : SttDone(q)' => SttDone(q)
    BY <2>1, <2>3, <2>4 DEF SttDone
  <2>7. \A q \in Installers : pc'[q] = "remove" /\ handle'[q] => stt_exists'
    BY <2>1, <2>3, <2>4 DEF TogetherInv
  <2>. QED  BY <2>1, <2>5, <2>6, <2>7 DEF TogetherInv
<1>5. CASE Rename(p) /\ stt = {}
  <2>1. stt' = staged[p] /\ stt_exists' = TRUE /\ handle' = [q \in Installers |-> FALSE]
    BY <1>5 DEF Rename
  <2>2. staged[p] = Whole
    BY <1>5 DEF Rename, InstallInv, Prepared
  <2>3. InHand'
    BY <2>1, <2>2, WholeIsComplete DEF InHand
  <2>. QED  BY <2>1, <2>3 DEF TogetherInv
<1>6. CASE Rename(p) /\ stt # {}
  <2>1. /\ UNCHANGED <<stt, stt_exists, handle, torn, which>> /\ pc' = [pc EXCEPT ![p] = "failed"]
        /\ pc[p] = "rename" /\ stt_exists
    BY <1>0, <1>6 DEF Rename
  <2>2. \A q \in Installers \ {p} : pc'[q] = pc[q]
    BY <1>0, <2>1
  <2>3. pc'[p] = "failed"
    BY <1>0, <2>1
  <2>4. InHand => InHand'
    BY <2>1, <2>2 DEF InHand
  <2>5. \A q \in Installers : SttDone(q)' => SttDone(q)
    BY <2>1, <2>2, <2>3 DEF SttDone
  <2>6. \A q \in Installers : pc'[q] = "remove" /\ handle'[q] => stt_exists'
    BY <2>1, <2>2, <2>3 DEF TogetherInv
  <2>. QED  BY <2>1, <2>4, <2>5, <2>6 DEF TogetherInv
<1>. QED  BY <1>1, <1>2, <1>3, <1>4, <1>5, <1>6

LEMMA TogetherNext == InstallInv /\ TogetherInv /\ [InstallNext]_installVars => TogetherInv'
<1>. SUFFICES ASSUME InstallInv, TogetherInv, [InstallNext]_installVars PROVE TogetherInv'
  OBVIOUS
<1>. USE DEF Goto, Fail, own, disk, observedInstall
<1>1. CASE UNCHANGED installVars
  BY <1>1 DEF installVars, TogetherInv, InHand, SttDone
<1>2. ASSUME NEW p \in Installers,
             \/ \E set \in ModelSet : Start(p, set)
             \/ InstallStep(p)
             \/ Breaks(p, "failed") \/ Breaks(p, "killed")
      PROVE  TogetherInv'
  <2>0. pc \in [Installers -> Stage] /\ which \in [Installers -> ModelSet] /\ handle \in [Installers -> BOOLEAN]
    BY DEF InstallInv, TogetherInv
  <2>1. ASSUME NEW set \in ModelSet, Start(p, set) PROVE TogetherInv'
    <3>1. PICK next \in Stage : pc' = [pc EXCEPT ![p] = next] /\ next \in {"file", "check"}
            /\ (next = "file" => set = "tts") /\ which' = [which EXCEPT ![p] = set]
            /\ pc[p] \in AtRest
      BY <2>1 DEF Start, Stage
    <3>2. ~ SttDone(p)'
      BY <2>0, <3>1 DEF SttDone
    <3>3. pc[p] \notin {"remove", "rename"} /\ next \notin {"remove", "rename"}
      BY <3>1 DEF AtRest
    <3>4. \A q \in Installers \ {p} : which'[q] = which[q]
      BY <2>0, <3>1
    <3>. QED  BY <2>1, <3>1, <3>2, <3>3, <3>4, TogetherQuiet DEF Start
  <2>2. CASE CheckStt(p)
    <3>1. PICK next \in Stage : pc' = [pc EXCEPT ![p] = next] /\ next \in {"file", "ok", "fetch"}
            /\ (next # "fetch" => Complete(stt_exists, stt))
      BY <2>2 DEF CheckStt, AfterStt, Stage, AtRest
    <3>2. SttDone(p)' => Complete(stt_exists, stt)
      BY <2>0, <3>1 DEF SttDone
    <3>. QED  BY <2>2, <3>1, <3>2, TogetherQuiet DEF CheckStt
  <2>3. ASSUME NEW stage \in {"fetch", "verify", "extract", "label", "fetch file", "verify file", "file", "persist"},
               pc[p] = stage, NEW next \in Stage, pc' = pc \/ pc' = [pc EXCEPT ![p] = next],
               next \notin {"remove", "rename"}, UNCHANGED <<stt, stt_exists, torn, handle, which>>,
               next \in {"ok", "file", "fetch file", "verify file", "persist"} =>
                 stage \in {"file", "fetch file", "verify file", "persist"}
        PROVE  TogetherInv'
    <3>1. SttDone(p)' => SttDone(p)
      BY <2>0, <2>3 DEF SttDone
    <3>. QED  BY <2>3, <3>1, TogetherQuiet
  <2>4. CASE Fetch(p, "fetch", "verify") \/ Fetch(p, "fetch file", "verify file")
             \/ Verify(p, "verify", "extract") \/ Verify(p, "verify file", "persist")
    BY <2>3, <2>4 DEF Fetch, Verify, Stage, AtRest
  <2>5. CASE Extract(p) \/ Label(p) \/ CheckFile(p) \/ Persist(p)
    <3>1. PICK stage \in {"extract", "label", "file", "persist"}, next \in {"label", "swap", "ok", "fetch file", "file"} :
            /\ pc[p] = stage /\ (pc' = pc \/ pc' = [pc EXCEPT ![p] = next])
            /\ next \in {"ok", "file", "fetch file"} => stage \in {"file", "persist"}
            /\ UNCHANGED <<stt, stt_exists, torn, handle, which>>
      <4>1. CASE Extract(p)
        <5>1. /\ pc[p] = "extract" /\ pc' = [pc EXCEPT ![p] = "label"]
              /\ UNCHANGED <<stt, stt_exists, torn, handle, which>>
          BY <4>1 DEF Extract
        <5>. QED  BY <5>1
      <4>2. CASE Label(p)
        <5>1. /\ pc[p] = "label" /\ (pc' = pc \/ pc' = [pc EXCEPT ![p] = "swap"])
              /\ UNCHANGED <<stt, stt_exists, torn, handle, which>>
          BY <4>2 DEF Label
        <5>. QED  BY <5>1
      <4>3. CASE CheckFile(p)
        <5>1. /\ pc[p] = "file"
              /\ (pc' = pc \/ pc' = [pc EXCEPT ![p] = "ok"] \/ pc' = [pc EXCEPT ![p] = "fetch file"])
              /\ UNCHANGED <<stt, stt_exists, torn, handle, which>>
          BY <4>3 DEF CheckFile
        <5>. QED  BY <5>1
      <4>4. CASE Persist(p)
        <5>1. /\ pc[p] = "persist" /\ pc' = [pc EXCEPT ![p] = "file"]
              /\ UNCHANGED <<stt, stt_exists, torn, handle, which>>
          BY <4>4 DEF Persist
        <5>. QED  BY <5>1
      <4>. QED  BY <2>5, <4>1, <4>2, <4>3, <4>4
    <3>2. next \in Stage /\ next \notin {"remove", "rename"}
      BY DEF Stage, AtRest
    <3>. QED  BY <2>3, <3>1, <3>2
  <2>6. ASSUME NEW ending \in {"failed", "killed"}, Breaks(p, ending) PROVE TogetherInv'
    <3>1. CASE pc[p] \in {"remove", "rename"}
      <4>1. torn' /\ UNCHANGED <<stt_exists, handle>> /\ pc' = [pc EXCEPT ![p] = ending]
        BY <2>6, <3>1 DEF Breaks
      <4>2. \A q \in Installers : pc'[q] = "remove" => pc[q] = "remove"
        BY <2>0, <4>1
      <4>. QED  BY <4>1, <4>2 DEF TogetherInv
    <3>2. CASE pc[p] \notin {"remove", "rename"}
      <4>1. UNCHANGED <<stt, stt_exists, handle, which>> /\ pc' = [pc EXCEPT ![p] = ending] /\ ending \in Stage
        BY <2>6 DEF Breaks, Stage, AtRest
      <4>2. ~ SttDone(p)' /\ ending \notin {"remove", "rename"}
        BY <2>0, <2>6, <4>1 DEF SttDone
      <4>3. torn => torn'
        BY <2>6 DEF Breaks
      <4>. QED  BY <3>2, <4>1, <4>2, <4>3, TogetherQuiet
    <3>. QED  BY <3>1, <3>2
  <2>. QED  BY <1>2, <2>1, <2>2, <2>4, <2>5, <2>6, TogetherSwap DEF InstallStep
<1>. QED  BY <1>1, <1>2 DEF InstallNext

(* install.rs removes what it finds and then renames, with nothing that keeps
   two runs apart: they may fail each other, but for any number of them, the
   bundle one of them reported installed is there when all have come to rest,
   unless a swap was itself cut short. *)
THEOREM TogetherInstalled == InstallSpec => []InstalledTogether
<1>1. InstallInit => TogetherInv
  BY DEF InstallInit, TogetherInv, SttDone
<1>2. TogetherInv => InstalledTogether
  <2>. SUFFICES ASSUME TogetherInv, \A p \in Installers : pc[p] \in AtRest, ~ torn,
                       NEW p \in Installers, pc[p] = "ok", which[p] # "tts"
                PROVE  Complete(stt_exists, stt)
    BY DEF InstalledTogether, Active
  <2>1. InHand
    BY DEF TogetherInv, SttDone
  <2>. QED  BY <2>1 DEF InHand, AtRest
<1>. QED  BY <1>1, <1>2, TogetherNext, InstallInvariant, PTL DEF InstallSpec
=============================================================================
