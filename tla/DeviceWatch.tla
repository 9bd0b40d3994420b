----------------------------- MODULE DeviceWatch -----------------------------
(***************************************************************************)
(* The device watchdog of the orchestrator (pipeline.rs, check_mic_health, *)
(* check_device_health, rebuild_engine) over devices that come, go, fall   *)
(* silent and fail.                                                        *)
(*                                                                         *)
(* A tick of the loop is one step, up to the point where it opens devices: *)
(* rebuild_engine calls the factory and, when it was given no fingerprint, *)
(* takes one afterwards, and the devices may change between these calls    *)
(* (`step`).  Devices are the host's defaults, one for each direction; the *)
(* mask `Watched` holds the directions the configuration does not pin.     *)
(***************************************************************************)
EXTENDS Naturals

CONSTANTS
  Device,                 \* the devices that can be a default
  Watched,                \* SignatureMask: the directions that are followed
  MicStallTimeout, DeviceCheckInterval,
  TickTimes,              \* how long a tick can be
  WatchHazards            \* what may go wrong, out of AllWatchHazards

AllWatchHazards ==
  {"change while opening",   \* a default changes while the engine is rebuilt
   "factory fails",          \* devices cannot be opened
   "dead capture"}           \* the recognizer finalizes turn after turn without words

Direction == {"in", "out"}

ASSUME WatchAssumption ==
  /\ {MicStallTimeout, DeviceCheckInterval} \subseteq Nat \ {0}
  /\ TickTimes \subseteq Nat \ {0}
  /\ Watched \subseteq Direction
  /\ WatchHazards \subseteq AllWatchHazards

VARIABLES
  devices,                \* the host's default devices
  opened,                 \* the defaults the running engine was opened on
  flowing,                \* frames arrive from the microphone
  failed,                 \* a stream of the engine reported an error
  device_signature,       \* the fingerprint the orchestrator compares with
  mic_silence_elapsed, mic_stall_reported,
  device_check_elapsed, stall_rebuild_attempted,
  step,                   \* "loop", or how far rebuild_engine has come
  new_signature,          \* its argument, or NoSignature
  silence                 \* ghost: time without a frame, capped

worldVars == <<devices, opened, flowing, failed>>
micVars == <<mic_silence_elapsed, mic_stall_reported>>
checkVars == <<device_check_elapsed, stall_rebuild_attempted>>
rebuildVars == <<step, new_signature>>
watchVars == <<worldVars, device_signature, micVars, checkVars, rebuildVars, silence>>

Defaults == [Direction -> Device]
Apply(d) == [dir \in Watched |-> d[dir]]
Signatures == [Watched -> Device]
NoSignature == [dir \in {} |-> dir]

CappedAt(limit, n) == IF n > limit THEN limit ELSE n

(* Mutated form: the time without a frame adds up over the silences. *)
CheckMicAccumulating(dt) ==
  IF flowing
    THEN mic_stall_reported' = FALSE /\ UNCHANGED mic_silence_elapsed
    ELSE /\ mic_silence_elapsed' = CappedAt(MicStallTimeout, mic_silence_elapsed + dt)
         /\ mic_stall_reported' = (mic_stall_reported \/ mic_silence_elapsed + dt >= MicStallTimeout)

(* check_mic_health, with whether the stall is reported. *)
CheckMic(dt) ==
  IF flowing
    THEN mic_silence_elapsed' = 0 /\ mic_stall_reported' = FALSE
    ELSE /\ mic_silence_elapsed' = CappedAt(MicStallTimeout, mic_silence_elapsed + dt)
         /\ mic_stall_reported' = (mic_stall_reported \/ mic_silence_elapsed + dt >= MicStallTimeout)

(* The verdict of check_device_health on a due check. *)
Changed == device_signature # Apply(devices)
Stalled == mic_stall_reported' /\ ~ stall_rebuild_attempted
Attempted ==
  IF Stalled /\ ~ failed /\ ~ Changed THEN TRUE
  ELSE stall_rebuild_attempted /\ ~ flowing /\ mic_stall_reported'

(* Mutated form: an error of a stream is no reason to rebuild. *)
VerdictWithoutErrors == Changed \/ Stalled

Verdict == failed \/ Changed \/ Stalled

(* check_device_health: at most once per interval. *)
CheckDevices(dt) ==
  IF device_check_elapsed + dt < DeviceCheckInterval
    THEN /\ device_check_elapsed' = device_check_elapsed + dt
         /\ UNCHANGED <<stall_rebuild_attempted, rebuildVars>>
    ELSE /\ device_check_elapsed' = 0
         /\ stall_rebuild_attempted' = Attempted
         /\ IF Verdict THEN step' = "open" /\ new_signature' = Apply(devices)
                       ELSE UNCHANGED rebuildVars

WatchTick(dt) ==
  /\ step = "loop"
  /\ CheckMic(dt)
  /\ CheckDevices(dt)
  /\ silence' = IF flowing THEN 0 ELSE CappedAt(MicStallTimeout, silence + dt)
  /\ UNCHANGED <<worldVars, device_signature>>

(* handle_stt_result: the dead-capture watchdog rebuilds with no fingerprint. *)
DeadCapture ==
  /\ "dead capture" \in WatchHazards
  /\ step = "loop"
  /\ step' = "open"
  /\ new_signature' = NoSignature
  /\ UNCHANGED <<worldVars, device_signature, micVars, checkVars, silence>>

(* The factory opens an engine on the defaults of this moment. *)
OpenEngine ==
  /\ step = "open"
  /\ opened' = devices
  /\ failed' = FALSE
  /\ step' = "sign"
  /\ UNCHANGED <<devices, flowing, device_signature, micVars, checkVars, new_signature, silence>>

(* What follows a successful opening: the fingerprint, and a fresh watch. *)
SignEngine ==
  /\ step = "sign"
  /\ device_signature' = IF new_signature = NoSignature THEN Apply(devices) ELSE new_signature
  /\ mic_silence_elapsed' = 0
  /\ mic_stall_reported' = FALSE
  /\ step' = "loop"
  /\ new_signature' = NoSignature
  /\ UNCHANGED <<worldVars, checkVars, silence>>

(* Devices cannot be opened: only the failures are counted. *)
FactoryFails ==
  /\ "factory fails" \in WatchHazards
  /\ step = "open"
  /\ step' = "loop"
  /\ new_signature' = NoSignature
  /\ UNCHANGED <<worldVars, device_signature, micVars, checkVars, silence>>

(* The devices. *)
WorldMayMove == step = "loop" \/ "change while opening" \in WatchHazards

DefaultChanges ==
  /\ WorldMayMove
  /\ \E dir \in Direction : \E d \in Device \ {devices[dir]} :
       devices' = [devices EXCEPT ![dir] = d]
  /\ UNCHANGED <<opened, flowing, failed, device_signature, micVars, checkVars, rebuildVars, silence>>

MicChanges ==
  /\ flowing' = ~ flowing
  /\ UNCHANGED <<devices, opened, failed, device_signature, micVars, checkVars, rebuildVars, silence>>

StreamFails ==
  /\ ~ failed
  /\ failed' = TRUE
  /\ UNCHANGED <<devices, opened, flowing, device_signature, micVars, checkVars, rebuildVars, silence>>

WatchInit ==
  /\ devices \in Defaults
  /\ opened = devices
  /\ flowing \in BOOLEAN
  /\ failed = FALSE
  /\ device_signature = Apply(devices)
  /\ mic_silence_elapsed = 0 /\ mic_stall_reported = FALSE
  /\ device_check_elapsed = 0 /\ stall_rebuild_attempted = FALSE
  /\ step = "loop" /\ new_signature = NoSignature
  /\ silence = 0

Orchestrate == (\E dt \in TickTimes : WatchTick(dt)) \/ DeadCapture \/ OpenEngine \/ SignEngine \/ FactoryFails
WatchNext == Orchestrate \/ DefaultChanges \/ MicChanges \/ StreamFails

(* The loop goes on, and devices that can be opened again and again are opened
   in the end. *)
WatchFairness ==
  /\ WF_watchVars(\E dt \in TickTimes : WatchTick(dt))
  /\ SF_watchVars(OpenEngine)
  /\ WF_watchVars(SignEngine)
  /\ WF_watchVars(FactoryFails)

WatchSpec == WatchInit /\ [][WatchNext]_watchVars /\ WatchFairness

----------------------------------------------------------------------------
(* Properties. *)

(* The engine is rebuilt, and with it the conversation cut short, only for a
   failed stream, a changed default, or a silence of MicStallTimeout. *)
HealthyEngineIsLeftAlone ==
  [][step = "loop" /\ step' = "open" /\ new_signature' # NoSignature
       => failed \/ Apply(opened) # Apply(devices) \/ silence' >= MicStallTimeout]_watchVars

(* A stream that failed is replaced in the end, however often the devices
   cannot be opened. *)
FailedStreamIsReplaced == failed ~> ~ failed
=============================================================================
