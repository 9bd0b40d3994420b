------------------------------ MODULE MCAudio -------------------------------
(* Small instances of the audio engine and of the device watchdog, two parts  *)
(* that share no state, checked side by side: `part` says which one runs.     *)
EXTENDS AudioRings, DeviceWatch, TLC

CONSTANTS d1, d2

VARIABLE part

all == <<part, audioRingVars, watchVars>>

Format(lo, hi, f32) == [min |-> lo, max |-> hi, f32 |-> f32]

(* Devices at the core's rate, at two thirds and at twice its period; the core
   rate is 2.  The second offers it behind a range it cannot use. *)
SmallOffers ==
  { << Format(3, 3, TRUE) >>,
    << Format(3, 3, FALSE), Format(1, 3, TRUE) >>,
    << Format(2, 2, FALSE), Format(1, 1, TRUE), Format(3, 3, TRUE) >> }

RingsRun ==
  /\ part = "rings"
  /\ AudioInit
  /\ WatchInit /\ devices = [dir \in Direction |-> d1] /\ flowing

WatchRuns ==
  /\ part = "watch"
  /\ WatchInit
  /\ AudioInit /\ ~ voice_processing /\ in_side = Resampler(1, Native) /\ out_side = Resampler(Native, 1)

MCAudioInit == RingsRun \/ WatchRuns

MCAudioNext ==
  \/ part = "rings" /\ AudioNext /\ UNCHANGED <<part, watchVars>>
  \/ part = "watch" /\ WatchNext /\ UNCHANGED <<part, audioRingVars>>

Watches(A) == part = "watch" /\ A /\ UNCHANGED <<part, audioRingVars>>

(* WatchFairness, while the watchdog is the part that runs. *)
MCAudioSpec ==
  /\ MCAudioInit /\ [][MCAudioNext]_all
  /\ WF_all(Watches(\E dt \in TickTimes : WatchTick(dt)))
  /\ SF_all(Watches(OpenEngine))
  /\ WF_all(Watches(SignEngine))
  /\ WF_all(Watches(FactoryFails))
=============================================================================
