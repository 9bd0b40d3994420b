----------------------------- MODULE AudioRings ------------------------------
(***************************************************************************)
(* The full-duplex audio engine of buzztalk-audio (lib.rs, framing.rs,     *)
(* resample.rs), its counterpart over Apple's voice-processing unit        *)
(* (vpio.rs) and the orchestrator's audio pump on the other side of the    *)
(* rings (pipeline.rs, pump_audio).                                        *)
(*                                                                         *)
(* The input and the output callback and the orchestrator are threads.  A  *)
(* callback works sample by sample and never blocks: what does not fit a   *)
(* ring is dropped and counted.  A sample is its number in its stream, a   *)
(* frame the number of its first sample and the engine it came from.       *)
(*                                                                         *)
(* Rates are in any unit in which they are whole numbers; Native is        *)
(* SAMPLE_RATE_HZ.  The resampler's position, in the code a fraction of    *)
(* the input interval, is counted in units of 1/to.                        *)
(***************************************************************************)
EXTENDS Integers, Sequences

CONSTANTS
  Native,                        \* SAMPLE_RATE_HZ
  Offers,                        \* what a device can offer: sequences of ranges
  Refusals,                      \* rates a voice-processing unit may insist on, 0 included
  FrameSamples,
  CaptureCapacity, RefCapacity, PlaybackCapacity,   \* the rings
  MaxDeviceFrames,               \* bound: device frames per direction and engine
  MaxPush,                       \* bound: samples given to the engine at once
  MaxEngines                     \* bound: engines opened

ASSUME AudioAssumption ==
  /\ {Native, FrameSamples, CaptureCapacity, RefCapacity, PlaybackCapacity,
      MaxEngines} \subseteq Nat \ {0}
  /\ Refusals \subseteq Nat
  /\ \A offer \in Offers : DOMAIN offer \subseteq Nat /\ \A i \in DOMAIN offer :
       offer[i].min \in Nat \ {0} /\ offer[i].max \in Nat /\ offer[i].min <= offer[i].max

VARIABLES
  voice_processing, \* use_voice_processing: which of the two engines is opened
  engine,          \* how many engines were opened: the number of the one that runs
  stream_errors,   \* a callback found buffers of another format (whether it did)
  in_side,         \* the resampler of the input callback
  out_side, tap,   \* those of the output callback: to the device, and back for the reference
  played,          \* samples the output callback took, comfort noise included
  playback,        \* the playback ring: queued, given, dropped, underrun
  capture, render_ref,        \* a ring and its reader
  pump,                       \* where the orchestrator is in pump_audio
  pending_ref, pending_cap,   \* frames not paired yet
  paired                      \* ghost: the pairs of the last pump

callbackVars == <<in_side, out_side, tap, played>>
pumpVars == <<pump, pending_ref, pending_cap, paired>>
audioRingVars == <<voice_processing, engine, stream_errors, callbackVars, playback, capture, render_ref, pumpVars>>

----------------------------------------------------------------------------
(* choose_config: the first range in f32 that holds the core's rate, else the
   first in f32, at its lowest rate. *)

Usable(r) == r.f32
HoldsNative(r) == Usable(r) /\ r.min <= Native /\ Native <= r.max

FirstOf(S) == CHOOSE i \in S : \A j \in S : i <= j

ChosenRate(offer) ==
  LET native == {i \in DOMAIN offer : HoldsNative(offer[i])}
      usable == {i \in DOMAIN offer : Usable(offer[i])}
  IN IF native # {} THEN Native ELSE offer[FirstOf(usable)].min

CanOpen(offer) == \E i \in DOMAIN offer : Usable(offer[i])

(* negotiate_side: the unit takes the core's rate, or insists on one of its
   own, which is at least 1. *)
NegotiatedRates == {Native} \cup {IF rate = 0 THEN 1 ELSE rate : rate \in Refusals}

----------------------------------------------------------------------------
(* The linear resampler, reduced to how many samples go in and come out. *)

Resampler(from, to) == [from |-> from, to |-> to, frac |-> 0, primed |-> FALSE]

(* How many outputs lie before the end of the input interval. *)
Outputs(r) == IF r.frac < r.to THEN (r.to - r.frac + r.from - 1) \div r.from ELSE 0

(* Equal rates: the engine uses no resampler. *)
Bypass(r) == r.from = r.to

(* push: the first sample only primes the taps. *)
Pushed(r) ==
  IF Bypass(r) THEN [to |-> r, emitted |-> 1]
  ELSE IF ~ r.primed THEN [to |-> [r EXCEPT !.primed = TRUE], emitted |-> 0]
  ELSE [to |-> [r EXCEPT !.frac = @ + Outputs(r) * r.from - r.to], emitted |-> Outputs(r)]

(* pull: as many inputs as the position has passed, and one more at first. *)
Pulled(r) ==
  IF Bypass(r) THEN [to |-> r, taken |-> 1]
  ELSE [to |-> [r EXCEPT !.primed = TRUE, !.frac = (@ % r.to) + r.from],
        taken |-> (r.frac \div r.to) + (IF r.primed THEN 0 ELSE 1)]

----------------------------------------------------------------------------
(* The rings. *)

NewStream == [ring |-> <<>>, made |-> 0, dropped |-> 0, partial |-> <<>>, frames |-> 0]

(* Mutated form: a sample that does not fit is not counted. *)
PushDroppingUncounted(s, n, capacity) ==
  LET fits == IF capacity - Len(s.ring) < n THEN capacity - Len(s.ring) ELSE n
  IN [s EXCEPT !.ring = @ \o [i \in 1..fits |-> s.made + i], !.made = @ + n]

(* push_dropping, n times: what does not fit is dropped and counted. *)
PushDropping(s, n, capacity) ==
  LET fits == IF capacity - Len(s.ring) < n THEN capacity - Len(s.ring) ELSE n
  IN [s EXCEPT !.ring = @ \o [i \in 1..fits |-> s.made + i],
               !.made = @ + n, !.dropped = @ + n - fits]

(* Mutated form: the reader starts afresh at every call. *)
TryRecvLosingPartial(s) ==
  LET have == s.ring
  IN IF Len(have) < FrameSamples
       THEN [to |-> [s EXCEPT !.ring = <<>>, !.partial = have], frame |-> <<>>]
       ELSE [to |-> [s EXCEPT !.ring = SubSeq(have, FrameSamples + 1, Len(have)),
                              !.partial = <<>>, !.frames = @ + 1],
             frame |-> SubSeq(have, 1, FrameSamples)]

(* FrameReader::try_recv: a frame, or none and the progress made. *)
TryRecv(s) ==
  LET have == s.partial \o s.ring
  IN IF Len(have) < FrameSamples
       THEN [to |-> [s EXCEPT !.ring = <<>>, !.partial = have], frame |-> <<>>]
       ELSE [to |-> [s EXCEPT !.ring = SubSeq(have, FrameSamples + 1, Len(have)),
                              !.partial = <<>>, !.frames = @ + 1],
             frame |-> SubSeq(have, 1, FrameSamples)]

----------------------------------------------------------------------------
(* The callbacks. *)

InputFrame ==
  LET r == Pushed(in_side) IN
  /\ capture.made + r.emitted <= MaxDeviceFrames
  /\ in_side' = r.to
  /\ capture' = PushDropping(capture, r.emitted, CaptureCapacity)
  /\ UNCHANGED <<voice_processing, engine, out_side, tap, played, playback, render_ref, pumpVars>>

(* One device frame: what is played is tapped for the reference.  An empty
   playback ring gives comfort noise. *)
OutputFrame ==
  LET p == Pulled(out_side)
      t == Pushed(tap)
      got == IF playback.queued < p.taken THEN playback.queued ELSE p.taken
  IN
  /\ render_ref.made + t.emitted <= MaxDeviceFrames
  /\ out_side' = p.to
  /\ tap' = t.to
  /\ played' = played + p.taken
  /\ playback' = [playback EXCEPT !.queued = @ - got, !.underrun = @ + p.taken - got]
  /\ render_ref' = PushDropping(render_ref, t.emitted, RefCapacity)
  /\ UNCHANGED <<voice_processing, engine, in_side, capture, pumpVars>>

InputCallback == ~ voice_processing /\ InputFrame /\ UNCHANGED stream_errors
OutputCallback == ~ voice_processing /\ OutputFrame /\ UNCHANGED stream_errors

(* The unit's callbacks first compare the channels with those negotiated. *)
OtherFormat ==
  /\ stream_errors' = TRUE
  /\ UNCHANGED <<voice_processing, engine, callbackVars, playback, capture, render_ref, pumpVars>>

VpioInput == voice_processing /\ (OtherFormat \/ (InputFrame /\ UNCHANGED stream_errors))
VpioRender == voice_processing /\ (OtherFormat \/ (OutputFrame /\ UNCHANGED stream_errors))

(* PlaybackHandle::push: the tail that does not fit is dropped. *)
PushPlayback(n) ==
  LET fits == IF PlaybackCapacity - playback.queued < n THEN PlaybackCapacity - playback.queued ELSE n
  IN
  /\ pump = "rest"
  /\ playback.given + n <= MaxPush
  /\ playback' = [playback EXCEPT !.queued = @ + fits, !.given = @ + n, !.dropped = @ + n - fits]
  /\ UNCHANGED <<voice_processing, engine, stream_errors, callbackVars, capture, render_ref, pumpVars>>

----------------------------------------------------------------------------
(* pump_audio: the references that are there, then the captured frames that
   are there, then the pairs. *)

Frame(samples) == [engine |-> engine, first |-> samples[1]]

StartPump ==
  /\ pump = "rest"
  /\ pump' = "ref"
  /\ paired' = {}
  /\ UNCHANGED <<voice_processing, engine, stream_errors, callbackVars, playback, capture, render_ref, pending_ref, pending_cap>>

PumpRef ==
  LET r == TryRecv(render_ref) IN
  /\ pump = "ref"
  /\ render_ref' = r.to
  /\ IF r.frame = <<>>
       THEN pump' = "cap" /\ UNCHANGED pending_ref
       ELSE pending_ref' = Append(pending_ref, Frame(r.frame)) /\ UNCHANGED pump
  /\ UNCHANGED <<voice_processing, engine, stream_errors, callbackVars, playback, capture, pending_cap, paired>>

PumpCapture ==
  LET r == TryRecv(capture) IN
  /\ pump = "cap"
  /\ capture' = r.to
  /\ IF r.frame = <<>>
       THEN pump' = "pair" /\ UNCHANGED pending_cap
       ELSE pending_cap' = Append(pending_cap, Frame(r.frame)) /\ UNCHANGED pump
  /\ UNCHANGED <<voice_processing, engine, stream_errors, callbackVars, playback, render_ref, pending_ref, paired>>

Pair ==
  LET n == IF Len(pending_ref) < Len(pending_cap) THEN Len(pending_ref) ELSE Len(pending_cap)
  IN
  /\ pump = "pair"
  /\ pump' = "rest"
  /\ paired' = {<<pending_ref[i], pending_cap[i]>> : i \in 1..n}
  /\ pending_ref' = SubSeq(pending_ref, n + 1, Len(pending_ref))
  /\ pending_cap' = SubSeq(pending_cap, n + 1, Len(pending_cap))
  /\ UNCHANGED <<voice_processing, engine, stream_errors, callbackVars, playback, capture, render_ref>>

----------------------------------------------------------------------------
(* DuplexEngine::start on two of the devices, VoiceProcessingEngine::start on
   the two sides of the unit; open_engine picks one of them. *)
DuplexRates == {ChosenRate(offer) : offer \in {o \in Offers : CanOpen(o)}}
EngineRates == IF voice_processing THEN NegotiatedRates ELSE DuplexRates

NewPlayback == [queued |-> 0, given |-> 0, dropped |-> 0, underrun |-> 0]

(* Mutated form: the reference is resampled the wrong way. *)
OpenedTapReversed(in_rate, out_rate) ==
  /\ in_side' = Resampler(in_rate, Native)
  /\ out_side' = Resampler(Native, out_rate)
  /\ tap' = Resampler(Native, out_rate)
  /\ played' = 0 /\ stream_errors' = FALSE
  /\ playback' = NewPlayback /\ capture' = NewStream /\ render_ref' = NewStream

(* Rings, resamplers and counters of an engine are new. *)
Opened(in_rate, out_rate) ==
  /\ in_side' = Resampler(in_rate, Native)
  /\ out_side' = Resampler(Native, out_rate)
  /\ tap' = Resampler(out_rate, Native)
  /\ played' = 0 /\ stream_errors' = FALSE
  /\ playback' = NewPlayback /\ capture' = NewStream /\ render_ref' = NewStream

(* Mutated form: frames of the old engine are kept. *)
RebuildKeepingFrames ==
  /\ pump = "rest" /\ engine < MaxEngines
  /\ engine' = engine + 1
  /\ \E in_rate, out_rate \in EngineRates : Opened(in_rate, out_rate)
  /\ UNCHANGED <<voice_processing, pumpVars>>

(* rebuild_engine, between two pumps: nothing of the old engine is kept. *)
Rebuild ==
  /\ pump = "rest" /\ engine < MaxEngines
  /\ engine' = engine + 1
  /\ \E in_rate, out_rate \in EngineRates : Opened(in_rate, out_rate)
  /\ pending_ref' = <<>> /\ pending_cap' = <<>>
  /\ UNCHANGED <<voice_processing, pump, paired>>

AudioInit ==
  /\ voice_processing \in BOOLEAN
  /\ engine = 1 /\ stream_errors = FALSE
  /\ \E in_rate, out_rate \in EngineRates :
       /\ in_side = Resampler(in_rate, Native)
       /\ out_side = Resampler(Native, out_rate)
       /\ tap = Resampler(out_rate, Native)
  /\ played = 0 /\ playback = NewPlayback
  /\ capture = NewStream /\ render_ref = NewStream
  /\ pump = "rest"
  /\ pending_ref = <<>> /\ pending_cap = <<>>
  /\ paired = {}

AudioNext ==
  \/ InputCallback \/ OutputCallback \/ VpioInput \/ VpioRender
  \/ \E n \in 1..MaxPush : PushPlayback(n)
  \/ StartPump \/ PumpRef \/ PumpCapture \/ Pair
  \/ Rebuild

AudioSpec == AudioInit /\ [][AudioNext]_audioRingVars

----------------------------------------------------------------------------
(* Properties. *)

Accounted(s, capacity) ==
  /\ Len(s.ring) <= capacity
  /\ Len(s.partial) < FrameSamples
  /\ s.made = s.dropped + Len(s.ring) + Len(s.partial) + FrameSamples * s.frames

(* Every sample a callback made is in the ring, in the reader, in a frame that
   was handed over, or counted as dropped: nothing is lost in silence between
   two calls of the reader.  Playback given to the engine is queued, played or
   counted, and every sample played has its echo reference: whatever the rate
   of the device, two resamplings in a row never drift apart. *)
EverySampleAccounted ==
  /\ Accounted(capture, CaptureCapacity)
  /\ Accounted(render_ref, RefCapacity)
  /\ playback.given + playback.underrun = played + playback.queued + playback.dropped
  /\ played - render_ref.made \in 0..1

(* The frames given to the echo canceller together come from one engine, and
   are no further apart than samples were dropped: a dropped sample shifts the
   two streams by one, and a rebuild undoes it. *)
PairsMatch ==
  \A p \in paired :
    /\ p[1].engine = p[2].engine
    /\ p[1].engine = engine =>
         /\ p[1].first <= p[2].first + render_ref.dropped
         /\ p[2].first <= p[1].first + capture.dropped
=============================================================================
