------------------------------ MODULE Playback ------------------------------
(***************************************************************************)
(* PlaybackState of buzztalk-pipeline (playback.rs): which turn may be     *)
(* heard, which one is parked behind a barge-in, and which are abandoned.  *)
(* It is a value the orchestrator owns; its methods are operators from one *)
(* value to the next.  Audio is a sequence of pieces; what a piece is, is  *)
(* left to the module that makes them.                                     *)
(***************************************************************************)
EXTENDS Naturals, Sequences

NoTurn == 0

(* live: pieces not yet given to the engine, of live_turn; queued: pieces that
   arrived for paused_turn since it was parked. *)
Empty == [live_turn |-> NoTurn, live |-> <<>>,
          paused_turn |-> NoTurn, queued |-> <<>>, abandoned |-> {}]

IsLive(p, t) == p.live_turn = t
IsPaused(p, t) == p.paused_turn = t
Recognises(p, t) == IsLive(p, t) \/ IsPaused(p, t)

(* A turn's audio starts flowing. *)
Start(p, t) == [p EXCEPT !.live_turn = t, !.live = <<>>, !.abandoned = @ \ {t}]

Silenced(p) == [p EXCEPT !.live_turn = NoTurn, !.live = <<>>]

(* CancelPlayback: the live turn is parked, its waiting audio is gone. *)
CancelPlayback(p) ==
  IF p.live_turn = NoTurn THEN p
  ELSE [Silenced(p) EXCEPT !.paused_turn = p.live_turn, !.queued = <<>>]

Flush(p) == [p EXCEPT !.live = <<>>]

Unparked(p) == [p EXCEPT !.paused_turn = NoTurn, !.queued = <<>>]

(* CancelSynthesis: the turn will not be heard again. *)
CancelSynthesis(p, t) ==
  LET dropped == [p EXCEPT !.abandoned = @ \cup {t}]
      silenced == IF IsLive(p, t) THEN Silenced(dropped) ELSE dropped
  IN IF IsPaused(p, t) THEN Unparked(silenced) ELSE silenced

(* Mutated form: the turn stays parked as well. *)
ResumeKeepingParked(p, t) ==
  IF IsPaused(p, t) THEN [p EXCEPT !.live_turn = t, !.live = p.queued] ELSE p

(* ResumeSpeaking: what was parked for the turn becomes live again. *)
Resume(p, t) ==
  IF IsPaused(p, t) THEN [Unparked(p) EXCEPT !.live_turn = t, !.live = p.queued] ELSE p

(* The audio of one phrase, from the synthesizer. *)
RouteSynthesized(p, t, samples) ==
  IF t \in p.abandoned THEN p
  ELSE IF IsLive(p, t) THEN [p EXCEPT !.live = @ \o samples]
  ELSE IF IsPaused(p, t) THEN [p EXCEPT !.queued = @ \o samples]
  ELSE p

(* The next n pieces are given to the engine. *)
TakeLive(p, n) == [p EXCEPT !.live = SubSeq(@, n + 1, Len(@))]

=============================================================================
