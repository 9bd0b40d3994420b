------------------------------ MODULE Detectors ------------------------------
(***************************************************************************)
(* The two voice activity detectors of buzztalk-vad, as values: the        *)
(* endpoint detector (endpoint.rs), which finds where the user starts and  *)
(* stops, and the barge-in detector (bargein.rs), which decides whether    *)
(* the user interrupts the agent.                                          *)
(*                                                                         *)
(* Each is fed one frame at a time.  A frame is reduced to what the front  *)
(* end says of it: whether its energy is far enough above the noise floor  *)
(* to be voiced (each detector has a threshold of its own), and its        *)
(* spectral shape, the zero-crossing rate, a member of Shape.  The         *)
(* population variance of a window of rates is above its minimum when the  *)
(* shapes are not all the same.                                            *)
(***************************************************************************)
EXTENDS Naturals, Sequences, FiniteSets

CONSTANTS
  Shape,               \* the spectral shapes a frame can have
  MinVoicedFrames,     \* endpoint: voiced frames before SpeechStart
  HangoverFrames,      \* endpoint: silent frames before SpeechEnd
  ConfirmWindow,       \* barge-in: frames looked at
  ConfirmCount,        \* barge-in: how many of them must be voiced
  WarmupFrames,        \* barge-in: the convergence guard
  BargeInHangover      \* barge-in: silent frames before SpeechEnd

ASSUME DetectorAssumption ==
  /\ {MinVoicedFrames, HangoverFrames, ConfirmWindow, ConfirmCount,
      BargeInHangover} \subseteq Nat \ {0}
  /\ WarmupFrames \in Nat
  /\ ConfirmCount <= ConfirmWindow

Frames == [voiced : BOOLEAN, shape : Shape, echoCancelled : BOOLEAN, headphones : BOOLEAN]

(* A detector and the event its last frame produced. *)
Heard(detector, event) == [detector |-> detector, event |-> event]

----------------------------------------------------------------------------
(* The endpoint detector: a phase, and the frames counted in it. *)

InPhase(phase, n) == [phase |-> phase, frames |-> n]
EndpointReset == InPhase("Silence", 0)

Confirm(n) ==
  IF n >= MinVoicedFrames THEN Heard(InPhase("Active", 0), "SpeechStart")
                          ELSE Heard(InPhase("Confirming", n), "Idle")

(* push_frame, where `blip` is what is left of a Confirming detector by a
   silent frame.  The first silent frame of an Active detector only opens the
   hangover, whatever its length. *)
EndpointHearing(d, f, blip, hangover) ==
  CASE d.phase = "Silence" /\ f.voiced -> Confirm(1)
    [] d.phase = "Confirming" /\ f.voiced -> Confirm(d.frames + 1)
    [] d.phase \in {"Active", "Hangover"} /\ f.voiced ->
         Heard(InPhase("Active", 0), "SpeechContinue")
    [] d.phase = "Hangover" /\ ~ f.voiced /\ d.frames + 1 >= hangover ->
         Heard(EndpointReset, "SpeechEnd")
    [] \/ d.phase = "Active" /\ ~ f.voiced
       \/ d.phase = "Hangover" /\ ~ f.voiced /\ d.frames + 1 < hangover ->
         Heard(InPhase("Hangover", d.frames + 1), "SpeechContinue")
    [] OTHER -> Heard(blip, "Idle")

(* Mutated form: the hangover is a frame longer. *)
EndpointHearsLate(d, f) == EndpointHearing(d, f, EndpointReset, HangoverFrames + 1)

EndpointHears(d, f) == EndpointHearing(d, f, EndpointReset, HangoverFrames)

----------------------------------------------------------------------------
(* The barge-in detector. *)

BargeInReset ==
  [voiced |-> <<>>, shapes |-> <<>>, active |-> FALSE, silent |-> 0, warmup |-> 0]

PlaybackStarted(d) == [d EXCEPT !.warmup = WarmupFrames]
PlaybackStopped(d) == [d EXCEPT !.warmup = 0]

PushCapped(window, v) ==
  Append(IF Len(window) >= ConfirmWindow THEN Tail(window) ELSE window, v)

WindowConfirmed(d) ==
  /\ Len(d.voiced) >= ConfirmWindow
  /\ Cardinality({i \in 1..Len(d.voiced) : d.voiced[i]}) >= ConfirmCount

(* The convergence guard and the echo canceller's health matter only where
   the microphone can hear the speaker. *)
GateOpen(d, f) == f.headphones \/ (f.echoCancelled /\ d.warmup = 0)

SpectralVariation(d) ==
  /\ Len(d.shapes) >= ConfirmWindow
  /\ \E i, j \in 1..Len(d.shapes) : d.shapes[i] # d.shapes[j]

(* Mutated form: shapes are kept across a silent frame. *)
HearBargeInKeepingShapes(d, f) ==
  [d EXCEPT !.warmup = IF @ > 0 THEN @ - 1 ELSE 0,
            !.voiced = PushCapped(@, f.voiced),
            !.shapes = IF f.voiced THEN PushCapped(@, f.shape) ELSE @]

(* What a frame leaves in the windows, before any verdict. *)
HearBargeIn(d, f) ==
  [d EXCEPT !.warmup = IF @ > 0 THEN @ - 1 ELSE 0,
            !.voiced = PushCapped(@, f.voiced),
            !.shapes = IF f.voiced THEN PushCapped(@, f.shape) ELSE <<>>]

BargeInHears(d, f) ==
  LET heard == HearBargeIn(d, f)
      silent == IF f.voiced THEN 0 ELSE d.silent + 1
  IN CASE d.active /\ silent < BargeInHangover ->
            Heard([heard EXCEPT !.silent = silent], "SpeechContinue")
       [] d.active /\ silent >= BargeInHangover ->
            Heard([heard EXCEPT !.active = FALSE, !.silent = 0], "SpeechEnd")
       [] ~ d.active /\ WindowConfirmed(heard) /\ GateOpen(heard, f)
                     /\ SpectralVariation(heard) ->
            Heard([heard EXCEPT !.active = TRUE, !.silent = 0], "SpeechStart")
       [] OTHER -> Heard(heard, "Idle")
=============================================================================
